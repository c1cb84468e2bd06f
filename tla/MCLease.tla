------------------------------ MODULE MCLease ------------------------------
(* Three lease calls; the cfg says which of them may meet a lock that is    *)
(* stale, and what may go wrong.                                            *)
EXTENDS Lease

CONSTANTS c1, c2, c3

MCCalls == {c1, c2, c3}

\* One call may meet a stale lock ...
OneReclaimer == {c1}

\* ... or all of them do.
AllReclaimers == MCCalls

\* Everything but a directory lost under mkdir and a stop of minutes between
\* two adjacent system calls.
OrdinaryFaults == {"crash", "owner", "rename", "rmtree"}

\* Everything that can go wrong.
AllFaults == FaultKinds
=============================================================================
