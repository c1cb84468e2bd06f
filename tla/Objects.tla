------------------------------ MODULE Objects -------------------------------
(* The object store of agent_artifacts/io/object_store.py, at one digest:   *)
(* processes publish the object, which repairs a damaged one, and the       *)
(* collector deletes it.  Publishing takes no lock.  Every system call that *)
(* touches the object's directory is an action of its own; staging areas    *)
(* and quarantine names are private to a process, so a process simply holds *)
(* the tree it put there.                                                   *)
EXTENDS Naturals, FiniteSets

CONSTANTS
    Publishers,     \* processes that publish the object
    Collectors,     \* processes that delete it
    MaxAttempts,    \* the rounds of publish_object
    MaxFaults,      \* bound on failing system calls
    Damage          \* what the directory may hold before anyone publishes

Trees == {"none", "good", "bad", "empty"}

ASSUME ObjectsAssumption ==
    /\ Publishers \cap Collectors = {}
    /\ MaxAttempts \in Nat \ {0} /\ MaxFaults \in Nat
    /\ Damage \subseteq Trees

Procs == Publishers \cup Collectors

VARIABLES
    tree,       \* what the object's directory holds, "none" when it is absent
    open,       \* its root is writable (0700), as moving it requires
    pc,         \* what each process does next
    stage,      \* whether its stage directory is still to be renamed
    held,       \* the tree it keeps in the quarantine
    attempt,    \* the rounds it has begun
    faults,     \* the system calls that failed
    rotten,     \* the directory was damaged from the beginning
    owed        \* a publication was acknowledged, and since then nobody took the
                \* object to delete it, or ended with the only one in the quarantine

vars == <<tree, open, pc, stage, held, attempt, faults, rotten, owed>>

Returned == {"ok", "error", "raised", "dead"}

Init ==
    /\ tree \in Damage /\ open = FALSE
    /\ rotten = (tree \in {"bad", "empty"})
    /\ pc = [p \in Procs |-> "start"]
    /\ stage = [p \in Procs |-> FALSE]
    /\ held = [p \in Procs |-> "none"]
    /\ attempt = [p \in Procs |-> 0]
    /\ faults = 0
    /\ owed = FALSE

Step(p, from, to) ==
    /\ pc[p] = from
    /\ pc' = [pc EXCEPT ![p] = to]
    /\ UNCHANGED rotten

\* A system call may fail for reasons of its own.
Fault == faults < MaxFaults /\ faults' = faults + 1

Holds(t, o) == tree' = t /\ open' = o /\ UNCHANGED owed

Untouched == UNCHANGED <<tree, open, owed>>

\* Leaving publish_object removes a stage that was not renamed.
Leave(p, from, result) ==
    Step(p, from, result) /\ stage' = [stage EXCEPT ![p] = FALSE]

Acknowledge(p, from) == Leave(p, from, "ok") /\ owed' = TRUE /\ UNCHANGED faults

\* rename takes a directory's place only when it is absent or empty.
Vacant == tree \in {"none", "empty"}

-----------------------------------------------------------------------------
(* publish_object                                                           *)

WriteCandidate(p) ==
    /\ \/ Step(p, "start", "place") /\ stage' = [stage EXCEPT ![p] = TRUE] /\ UNCHANGED faults
       \/ Leave(p, "start", "error") /\ Fault
    /\ attempt' = [attempt EXCEPT ![p] = 1]
    /\ UNCHANGED held /\ Untouched

\* A second round after the stage was renamed has none to rename.
Place(p) ==
    \/ /\ stage[p] /\ Vacant
       /\ Step(p, "place", "freeze")
       /\ stage' = [stage EXCEPT ![p] = FALSE]
       /\ Holds("good", TRUE)
       /\ UNCHANGED <<held, attempt, faults>>
    \/ /\ stage[p] /\ Step(p, "place", "look")
       /\ (~Vacant /\ UNCHANGED faults) \/ Fault
       /\ UNCHANGED <<stage, held, attempt>> /\ Untouched
    \/ /\ ~stage[p] /\ Leave(p, "place", "raised")
       /\ UNCHANGED <<held, attempt, faults>> /\ Untouched

Freeze(p) ==
    \/ /\ tree # "none" /\ Step(p, "freeze", "verify")
       /\ open' = FALSE
       /\ UNCHANGED <<tree, owed, stage, held, attempt, faults>>
    \/ /\ Step(p, "freeze", "look")
       /\ (tree = "none" /\ UNCHANGED faults) \/ Fault
       /\ UNCHANGED <<stage, held, attempt>> /\ Untouched

\* os.path.lexists after the failure.
Look(p) ==
    /\ \/ tree = "none" /\ Leave(p, "look", "error")
       \/ tree # "none" /\ Step(p, "look", "read") /\ UNCHANGED stage
    /\ UNCHANGED <<held, attempt, faults>> /\ Untouched

\* A whole object is the answer; one that does not match its digest, or that
\* has gone meanwhile, is quarantined; a read that fails is reported.
ReadExisting(p) ==
    /\ \/ tree = "good" /\ Acknowledge(p, "read")
       \/ tree # "good" /\ Step(p, "read", "unlock") /\ UNCHANGED <<stage, faults, owed>>
       \/ Leave(p, "read", "error") /\ Fault /\ UNCHANGED owed
    /\ UNCHANGED <<tree, open, held, attempt>>

\* The next round, or the end of them.
Again(p, from) ==
    IF attempt[p] < MaxAttempts
    THEN /\ Step(p, from, "place")
         /\ attempt' = [attempt EXCEPT ![p] = @ + 1]
         /\ UNCHANGED stage
    ELSE Leave(p, from, "error") /\ UNCHANGED attempt

\* A quarantine that fails freezes what is there and gives up.
GiveUp(p, from) ==
    /\ Leave(p, from, "error")
    /\ open' = FALSE
    /\ UNCHANGED <<tree, owed, held, attempt>>

Unlock(p) ==
    \/ /\ tree # "none" /\ Step(p, "unlock", "move")
       /\ open' = TRUE
       /\ UNCHANGED <<tree, owed, stage, held, attempt, faults>>
    \/ /\ tree = "none" /\ Again(p, "unlock")
       /\ UNCHANGED <<held, faults>> /\ Untouched
    \/ GiveUp(p, "unlock") /\ Fault

\* What is moved is whatever is there now, which another publisher may have
\* repaired since it was read.
Quarantine(p) ==
    \/ /\ tree # "none" /\ open /\ Step(p, "move", "replace")
       /\ held' = [held EXCEPT ![p] = tree]
       /\ tree' = "none" /\ open' = FALSE
       /\ UNCHANGED <<owed, stage, attempt, faults>>
    \/ /\ tree = "none" /\ Again(p, "move")
       /\ UNCHANGED <<held, faults>> /\ Untouched
    \/ GiveUp(p, "move") /\ ((tree # "none" /\ ~open /\ UNCHANGED faults) \/ Fault)

\* Without a stage the assertion ends the command with the object moved away.
Replace(p) ==
    \/ /\ stage[p] /\ Vacant /\ Step(p, "replace", "seal")
       /\ stage' = [stage EXCEPT ![p] = FALSE]
       /\ Holds("good", TRUE)
       /\ UNCHANGED <<held, attempt, faults>>
    \/ /\ stage[p] /\ Step(p, "replace", "giveback")
       /\ (~Vacant /\ UNCHANGED faults) \/ Fault
       /\ UNCHANGED <<stage, held, attempt>> /\ Untouched
    \/ /\ ~stage[p] /\ Leave(p, "replace", "raised")
       /\ owed' = (owed /\ tree # "none")
       /\ UNCHANGED <<tree, open, held, attempt, faults>>

Seal(p) ==
    \/ /\ tree # "none" /\ Step(p, "seal", "verify")
       /\ open' = FALSE
       /\ held' = [held EXCEPT ![p] = "none"]
       /\ UNCHANGED <<tree, owed, stage, attempt, faults>>
    \/ /\ Step(p, "seal", "giveback")
       /\ (tree = "none" /\ UNCHANGED faults) \/ Fault
       /\ UNCHANGED <<stage, held, attempt>> /\ Untouched

\* A faulty variant: the quarantined tree is left where it is.
Abandoning_GiveBack(p) ==
    /\ Leave(p, "giveback", "error")
    /\ UNCHANGED <<held, attempt, faults>> /\ Untouched

GiveBack(p) ==
    /\ Leave(p, "giveback", "error")
    /\ \/ /\ tree = "none"
          /\ Holds(held[p], FALSE)
          /\ held' = [held EXCEPT ![p] = "none"]
          /\ UNCHANGED faults
       \/ /\ tree = "none" /\ Fault  \* the freezing fails
          /\ Holds(held[p], TRUE)
          /\ held' = [held EXCEPT ![p] = "none"]
       \/ /\ tree = "none" /\ Fault  \* the renaming fails
          /\ owed' = FALSE
          /\ UNCHANGED <<tree, open, held>>
       \/ tree # "none" /\ UNCHANGED <<held, faults>> /\ Untouched
    /\ UNCHANGED attempt

\* _stored_receipt reads the object back.
StoredReceipt(p) ==
    /\ \/ tree = "good" /\ Acknowledge(p, "verify")
       \/ tree # "good" /\ Leave(p, "verify", "error") /\ UNCHANGED <<faults, owed>>
       \/ Leave(p, "verify", "error") /\ Fault /\ UNCHANGED owed
    /\ UNCHANGED <<tree, open, held, attempt>>

-----------------------------------------------------------------------------
(* delete_object                                                            *)

\* The inventory lists what exists; deleting what is gone succeeds.
StartDelete(p) ==
    /\ \/ tree = "none" /\ Step(p, "start", "ok") /\ Untouched
       \/ tree # "none" /\ Step(p, "start", "bury") /\ open' = TRUE /\ UNCHANGED <<tree, owed>>
    /\ UNCHANGED <<stage, held, attempt, faults>>

\* The tombstone: from here on the store owes nobody the object.
Bury(p) ==
    \/ /\ tree # "none" /\ open /\ Step(p, "bury", "raze")
       /\ held' = [held EXCEPT ![p] = tree]
       /\ tree' = "none" /\ open' = FALSE /\ owed' = FALSE
       /\ UNCHANGED <<stage, attempt, faults>>
    \/ /\ Step(p, "bury", "revive")
       /\ ((tree = "none" \/ ~open) /\ UNCHANGED faults) \/ Fault
       /\ UNCHANGED <<stage, held, attempt>> /\ Untouched

\* The removal of the tombstone may stop at any file.
Raze(p) ==
    /\ \/ Step(p, "raze", "ok") /\ held' = [held EXCEPT ![p] = "none"] /\ UNCHANGED faults
       \/ Step(p, "raze", "revive") /\ held' \in {held, [held EXCEPT ![p] = "bad"]} /\ Fault
    /\ UNCHANGED <<stage, attempt>> /\ Untouched

\* A faulty variant: the tombstone comes back whatever is left of it.
Trusting_RestoreTombstone(p) ==
    /\ Step(p, "revive", "error")
    /\ IF tree = "none" /\ held[p] # "none"
       THEN Holds(held[p], FALSE) /\ held' = [held EXCEPT ![p] = "none"]
       ELSE open' = FALSE /\ UNCHANGED <<tree, owed, held>>
    /\ UNCHANGED <<stage, attempt, faults>>

RestoreTombstone(p) ==
    /\ Step(p, "revive", "error")
    /\ \/ /\ tree = "none" /\ held[p] = "good"
          /\ Holds("good", FALSE)
          /\ held' = [held EXCEPT ![p] = "none"]
          /\ UNCHANGED faults
       \/ /\ tree # "none" \/ held[p] # "good"
          /\ open' = FALSE
          /\ UNCHANGED <<tree, owed, held, faults>>
       \/ tree = "none" /\ Fault /\ UNCHANGED held /\ Untouched
    /\ UNCHANGED <<stage, attempt>>

-----------------------------------------------------------------------------
\* A process ends.  A tree it had moved away stays in the quarantine, which
\* nothing reads again.
Crash(p) ==
    /\ pc[p] \notin Returned /\ faults < MaxFaults
    /\ pc' = [pc EXCEPT ![p] = "dead"]
    /\ owed' = (owed /\ (tree # "none" \/ held[p] = "none"))
    /\ faults' = faults + 1
    /\ UNCHANGED <<tree, open, stage, held, attempt, rotten>>

Publish(p) ==
    \/ WriteCandidate(p) \/ Place(p) \/ Freeze(p) \/ Look(p) \/ ReadExisting(p)
    \/ Unlock(p) \/ Quarantine(p) \/ Replace(p) \/ Seal(p) \/ GiveBack(p)
    \/ StoredReceipt(p)

Delete(p) == StartDelete(p) \/ Bury(p) \/ Raze(p) \/ RestoreTombstone(p)

Next ==
    \/ \E p \in Publishers : Publish(p)
    \/ \E p \in Collectors : Delete(p)
    \/ \E p \in Procs : Crash(p)

Spec == Init /\ [][Next]_vars

-----------------------------------------------------------------------------
\* Publishers that repair the same object at the same time, each moving aside
\* what it finds, may quarantine one another's repair; once all of them have
\* returned, an object whose publication was acknowledged is still whole unless
\* it was deleted (publish_object gives back what it cannot replace).
RepairConverges ==
    (owed /\ \A p \in Procs : pc[p] \in Returned) => tree = "good"

\* The object's directory never shows a tree with files missing unless it was
\* damaged before: a deletion that stops half way puts back only a tombstone
\* that still matches its digest (_restore_gc_tombstone).
NeverHalf ==
    tree \in {"bad", "empty"} => rotten
=============================================================================
