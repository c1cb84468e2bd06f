------------------------------- MODULE Lease -------------------------------
(***************************************************************************)
(* The directory lease of agent_artifacts/io/source_store.py               *)
(* (acquire_source_lock, release_source_lock), which io/store_lock.py also *)
(* adapts for the object store.  A lease is a directory made with mkdir;   *)
(* the owner.json written into it afterwards says who holds it.            *)
(*                                                                         *)
(* A member of Calls is ONE acquire ... release call of ONE operating      *)
(* system process, so it stands for the call's random token and for the    *)
(* process id recorded in owner.json alike.  Every system call that        *)
(* touches the shared directory is an action of its own.                   *)
(***************************************************************************)
EXTENDS FiniteSets, TLC

CONSTANTS
    Calls,       \* the lease calls that may be made
    Reclaimers,  \* calls that may meet a lock older than stale_after
    Faults,      \* what may go wrong: a subset of FaultKinds
    NoLock,      \* the lock path names nothing
    NoOwner,     \* no owner.json in the lock directory
    Torn         \* an owner.json that does not parse

FaultKinds == {"crash", "mkdir", "owner", "rename", "rmtree", "pause"}

ASSUME LeaseConstants ==
    /\ Reclaimers \subseteq Calls
    /\ Faults \subseteq FaultKinds
    /\ NoOwner \notin Calls /\ Torn \notin Calls /\ NoOwner # Torn
    /\ NoLock \notin [maker : Calls, owner : Calls \cup {NoOwner, Torn},
                     age : {"young", "old"}]

VARIABLES
    lock,   \* what the lock path names: NoLock, or the directory there
    pc,     \* where each call is
    running \* the calls whose process is alive (os.kill(pid, 0))

vars == <<lock, pc, running>>

-----------------------------------------------------------------------------
(* The lock directory.  "maker" tells one directory from a later one of    *)
(* the same path (its inode); no step of the code reads it.  An "old" one   *)
(* has its mtime, and the time its owner recorded, further back than       *)
(* stale_after_seconds.                                                    *)

Owners == Calls \cup {NoOwner, Torn}

Directory == [maker : Calls, owner : Owners, age : {"young", "old"}]

Made(c) == [maker |-> c, owner |-> NoOwner, age |-> "young"]

Present == lock # NoLock

\* The release returns: the call has nothing left to do.
Finished == {"released", "busy", "failed"}

Holding == {"held", "checked"}

PCs == {"idle", "try", "made", "exists", "ownerless", "stale", "wait",
        "cleanup"} \cup Holding \cup Finished

\* The calls that believe they hold the lease.
Holders == {c \in running : pc[c] \in Holding}

\* No live process is stopped between two adjacent file-system calls.
Quiescent ==
    \A c \in running :
        pc[c] \notin {"made", "ownerless", "stale", "cleanup", "checked"}

Goto(c, label) == pc' = [pc EXCEPT ![c] = label]

At(c, label) == c \in running /\ pc[c] = label

-----------------------------------------------------------------------------
Init ==
    /\ lock = NoLock
    /\ pc = [c \in Calls |-> "idle"]
    /\ running = Calls

\* acquire_source_lock is called: the parent exists, the deadline is set.
Start(c) ==
    /\ At(c, "idle")
    /\ Goto(c, "try")
    /\ UNCHANGED <<lock, running>>

(* Faulty variants of the actions below: each is the mistake one property   *)
(* of this module is there to catch.                                        *)

\* a failing owner write goes back to polling, without the clean-up
Uncleaned_WriteOwner(c) ==
    /\ At(c, "made")
    /\ \/ ~Present /\ UNCHANGED lock /\ Goto(c, "cleanup")
       \/ Present /\ lock.owner # NoOwner /\ UNCHANGED lock /\ Goto(c, "exists")
       \/ /\ Present /\ lock.owner = NoOwner
          /\ lock' = [lock EXCEPT !.owner = c, !.age = "young"]
          /\ \/ Goto(c, "held")
             \/ "owner" \in Faults /\ Goto(c, "wait")
    /\ UNCHANGED running

\* age alone makes a lock stale, as if the owner's liveness were not asked
AgeOnly_OwnerStale(c) == lock.age = "old" /\ c \in Reclaimers

\* a lock without an owner is taken for abandoned at once
Hasty_InspectMtime(c) ==
    /\ At(c, "ownerless")
    /\ Goto(c, IF Present THEN "stale" ELSE "wait")
    /\ UNCHANGED <<lock, running>>

\* a rename that failed is retried without looking at the deadline
Endless_Reclaim(c) ==
    /\ At(c, "stale")
    /\ \/ Present /\ lock' = NoLock
       \/ (~Present \/ "rename" \in Faults) /\ UNCHANGED lock
    /\ Goto(c, "try")
    /\ UNCHANGED running

-----------------------------------------------------------------------------
\* os.mkdir(lock) succeeds, finds the path taken, or fails otherwise (a
\* parent pruned meanwhile, a full disk): the last goes to the clean-up.
Mkdir(c) ==
    /\ At(c, "try")
    /\ \/ ~Present /\ lock' = Made(c) /\ Goto(c, "made")
       \/ Present /\ UNCHANGED lock /\ Goto(c, "exists")
       \/ "mkdir" \in Faults /\ ~Present /\ UNCHANGED lock /\ Goto(c, "cleanup")
    /\ UNCHANGED running

\* _write_owner opens lock/owner.json BY PATH with O_EXCL.  The directory of
\* that path may be gone (ENOENT), or be another call's with its owner
\* already written (EEXIST, taken for an existing lock).  A failing write or
\* fsync leaves a torn or a whole owner.json behind and is cleaned up.
WriteOwner(c) ==
    /\ At(c, "made")
    /\ \/ ~Present /\ UNCHANGED lock /\ Goto(c, "cleanup")
       \/ /\ Present /\ lock.owner # NoOwner
          /\ UNCHANGED lock /\ Goto(c, "exists")
       \/ /\ Present /\ lock.owner = NoOwner
          /\ \/ /\ lock' = [lock EXCEPT !.owner = c, !.age = "young"]
                /\ Goto(c, "held")
             \/ /\ "owner" \in Faults
                /\ \E o \in {NoOwner, Torn, c} :
                       lock' = [lock EXCEPT !.owner = o, !.age = "young"]
                /\ Goto(c, "cleanup")
    /\ UNCHANGED running

\* except OSError: shutil.rmtree(lock) on whatever the path names now.  It may fail
\* before or after it removed owner.json; that is passed over, the call returns its error.
CleanUp(c) ==
    /\ At(c, "cleanup")
    /\ \/ lock' = NoLock
       \/ /\ "rmtree" \in Faults /\ Present
          /\ \E o \in {lock.owner, NoOwner} : lock' = [lock EXCEPT !.owner = o]
    /\ Goto(c, "failed")
    /\ UNCHANGED running

\* A lock that names its owner is stale when it is old AND the owner's
\* process is gone.
OwnerStale(c) ==
    lock.age = "old" /\ c \in Reclaimers /\ lock.owner \notin running

\* except FileExistsError: read owner.json and judge a lock with an owner.
InspectOwner(c) ==
    /\ At(c, "exists")
    /\ IF Present /\ lock.owner \in Calls
       THEN Goto(c, IF OwnerStale(c) THEN "stale" ELSE "wait")
       ELSE Goto(c, "ownerless")
    /\ UNCHANGED <<lock, running>>

\* A lock without a valid owner is judged by the directory's mtime alone, in
\* a later system call.
InspectMtime(c) ==
    /\ At(c, "ownerless")
    /\ Goto(c, IF Present /\ lock.age = "old" /\ c \in Reclaimers THEN "stale" ELSE "wait")
    /\ UNCHANGED <<lock, running>>

\* os.rename(lock, lock.stale-...) moves whatever the path names now; a
\* failing rename, or a failing fsync after it, falls through to the deadline.
Reclaim(c) ==
    /\ At(c, "stale")
    /\ \/ Present /\ lock' = NoLock /\ Goto(c, "try")
       \/ Present /\ "rename" \in Faults /\ lock' = NoLock /\ Goto(c, "wait")
       \/ (~Present \/ "rename" \in Faults) /\ UNCHANGED lock /\ Goto(c, "wait")
    /\ UNCHANGED running

\* Before the deadline: sleep and try again.
Retry(c) ==
    /\ At(c, "wait")
    /\ Goto(c, "try")
    /\ UNCHANGED <<lock, running>>

\* At the deadline: SOURCE_LOCK_BUSY.
Timeout(c) ==
    /\ At(c, "wait")
    /\ Goto(c, "busy")
    /\ UNCHANGED <<lock, running>>

\* release_source_lock: the directory must be there with this call's token.
ReleaseCheck(c) ==
    /\ At(c, "held")
    /\ Goto(c, IF Present /\ lock.owner = c THEN "checked" ELSE "failed")
    /\ UNCHANGED <<lock, running>>

\* ... and is then renamed away and removed.  A failing rename leaves it; what fails after
\* that is an error of a lease that is released.
ReleaseRename(c) ==
    /\ At(c, "checked")
    /\ \/ Present /\ lock' = NoLock /\ Goto(c, "released")
       \/ Present /\ "rmtree" \in Faults /\ lock' = NoLock /\ Goto(c, "failed")
       \/ (~Present \/ "rename" \in Faults) /\ UNCHANGED lock /\ Goto(c, "failed")
    /\ UNCHANGED running

\* The process ends: after its call returned, or by a crash at any point.
Exit(c) ==
    /\ c \in running
    /\ pc[c] \in Finished \/ "crash" \in Faults
    /\ running' = running \ {c}
    /\ UNCHANGED <<lock, pc>>

\* stale_after_seconds go by.  Unless a process may be stopped that long
\* between two system calls, none is in the middle of a pair of them.
Age ==
    /\ Present /\ lock.age = "young"
    /\ "pause" \in Faults \/ Quiescent
    /\ lock' = [lock EXCEPT !.age = "old"]
    /\ UNCHANGED <<pc, running>>

\* What the code of one call does.
Step(c) ==
    \/ Mkdir(c) \/ WriteOwner(c) \/ CleanUp(c)
    \/ InspectOwner(c) \/ InspectMtime(c) \/ Reclaim(c)
    \/ Retry(c) \/ Timeout(c)
    \/ ReleaseCheck(c) \/ ReleaseRename(c)

Next == Age \/ \E c \in Calls : Start(c) \/ Step(c) \/ Exit(c)

Spec == Init /\ [][Next]_vars

\* A running process goes on executing.  The clock passes the deadline, and
\* from then on each visit of the deadline check returns: strong fairness of
\* Timeout is that check in a model without a clock.
FairSpec ==
    /\ Spec
    /\ \A c \in Calls : WF_vars(Step(c)) /\ SF_vars(Timeout(c))

-----------------------------------------------------------------------------
(* Properties                                                              *)

\* Every variable keeps its type; a lock directory has a maker and an owner.
TypeOK ==
    /\ lock \in Directory \cup {NoLock}
    /\ pc \in [Calls -> PCs]
    /\ running \subseteq Calls

\* The lease serializes its users: between an acquire that returned Ok and
\* the rename of its release, no second process is in the same position.
\* This is what sync_source, replace_references and collect_garbage rely on.
MutualExclusion ==
    \A c, d \in Holders : c = d

\* The lock directory of a running process is removed by that process alone:
\* by its release, or by the clean-up of its failed acquire.  A stale lock
\* is therefore taken only from a process that is gone, or from a call that returned
\* with an error and could not remove its own directory.
OnlyOwnLockRemoved ==
    [][ Present /\ ~Present' =>
            \/ lock.maker \notin running
            \/ pc[lock.maker] = "checked" /\ pc'[lock.maker] \in {"released", "failed"}
            \/ pc[lock.maker] = "cleanup" /\ pc'[lock.maker] = "failed"
            \/ pc[lock.maker] = "failed" /\ {"rename", "rmtree"} \cap Faults # {} ]_vars

\* A running process that owner.json names holds the lease or is about to undo it: its
\* liveness keeps every other call out until it exits, however old the lock is.  The one
\* exception is a file system that refuses the removal itself, in the clean-up or in the
\* release: then the call has returned an error and its lock stays as long as its process.
NoForgottenOwner ==
    \A c \in running :
        Present /\ lock.owner = c =>
            \/ pc[c] \in Holding \cup {"cleanup"}
            \/ pc[c] = "failed" /\ {"rename", "rmtree"} \cap Faults # {}

\* acquire_source_lock always returns while its process runs: with the
\* lease, with SOURCE_LOCK_BUSY at the deadline, or with an I/O error.
AcquireReturns ==
    \A c \in Calls :
        At(c, "try") ~> c \notin running \/ pc[c] \in Holding \cup Finished
=============================================================================
