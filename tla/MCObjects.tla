----------------------------- MODULE MCObjects ------------------------------
(* Two publishers and a collector at one digest.                            *)
EXTENDS Objects

CONSTANTS p1, p2, g1

MCPublishers == {p1, p2}
MCCollectors == {g1}

\* The directory is absent, whole, or was damaged by something else.
MCDamage == {"none", "good", "bad", "empty"}
=============================================================================
