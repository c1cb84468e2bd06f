----------------------------- MODULE MCInstall -----------------------------
(* Small scopes for Install: two artifacts, one linked (a1) and one copied  *)
(* (a2), two versions, and one installation of another scope.               *)
EXTENDS Install

CONSTANTS p1, p2, a1, a2, d1, d2, o1

OneProc == {p1}
SecondProc == {p2}
TwoProcs == {p1, p2}
OneArt == {a1}
TwoArts == {a1, a2}
TwoDigests == {d1, d2}
NoOne == {}
OneOther == {o1}
OneInode == {1}
TwoInodes == {1, 2}

\* What one command can meet and takes back, or reports as incomplete.
Compensated == {"io", "undo", "refs", "reread", "edit"}
OnlyEdits == {"edit"}
NoFault == {}
=============================================================================
