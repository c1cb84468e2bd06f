---------------------------- MODULE MCConfigCas ----------------------------
(* Two writers of the configuration, one of which may meet a stale lock.   *)
EXTENDS ConfigCas

CONSTANTS w1, w2

TwoWriters == {w1, w2}
OneReclaimer == {w1}

AllFaults == FaultKinds
=============================================================================
