------------------------------ MODULE MCSource ------------------------------
(* Two processes and an origin that offers two revisions of one identity    *)
(* and one of another.                                                      *)
EXTENDS Source

CONSTANTS p1, p2, a1, a2, b1

TwoProcs == {p1, p2}
ThreeSnapshots == {a1, a2, b1}
TwoIds == {"a", "b"}
Declared == [s \in ThreeSnapshots |-> IF s = b1 THEN "b" ELSE "a"]

AllFaults == FaultKinds
EveryOp == AllOps
=============================================================================
