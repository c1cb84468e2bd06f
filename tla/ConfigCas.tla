----------------------------- MODULE ConfigCas -----------------------------
(***************************************************************************)
(* The user configuration and its checked writer: load_configuration and   *)
(* save_user_configuration_checked of application/configuration.py, over   *)
(* write_configuration_checked of io/config_cas.py.  A writer reviews the  *)
(* configuration without a lock, and later replaces it only if it is still *)
(* what was reviewed, under a directory lock.                              *)
(*                                                                         *)
(* The lock is made like the one of module Lease, with three differences:  *)
(* a lock that names no owner is never taken for stale, a failed acquire   *)
(* cleans nothing up, and the release removes the path without looking.    *)
(*                                                                         *)
(* The content is abstracted to a set: each writer's commands add and      *)
(* remove the writer's own entry, so a lost update shows as an entry that  *)
(* changes without its writer.                                             *)
(***************************************************************************)
EXTENDS FiniteSets, TLC

CONSTANTS
    Writers,     \* processes that run commands writing the configuration
    Reclaimers,  \* those among them that may find a lock stale
    Faults,      \* what may go wrong: a subset of FaultKinds
    NoFile,      \* there is no configuration file (first run)
    NoLock, NoOwner, Torn

FaultKinds ==
    {"crash",   \* a process ends anywhere but right after its mkdir
     "early",   \* ... or there, before owner.json is written
     "owner",   \* writing owner.json fails
     "mkdir",   \* mkdir fails for another reason than an existing path
     "rename",  \* renaming a stale lock away fails
     "io",      \* reading or replacing the configuration fails
     "rmtree"}  \* removing the released lock fails

ASSUME ConfigConstants ==
    /\ Reclaimers \subseteq Writers
    /\ Faults \subseteq FaultKinds
    /\ \A e \in SUBSET Writers : NoFile # e
    /\ NoOwner \notin Writers /\ Torn \notin Writers /\ NoOwner # Torn
    /\ NoLock \notin [maker : Writers, owner : Writers \cup {NoOwner, Torn},
                      age : {"young", "old"}]

VARIABLES
    config,  \* the configuration file: NoFile, or the set of its entries
    lock,    \* what the lock path names: NoLock or a directory
    running, \* the live processes
    pc,      \* where each writer is
    seen     \* the content each writer reviewed (its expected_digest)

vars == <<config, lock, running, pc, seen>>

Directory == [maker : Writers, owner : Writers \cup {NoOwner, Torn},
              age : {"young", "old"}]

Contents == {NoFile} \cup SUBSET Writers

\* The critical section: between a successful _acquire and _release.
Locked == {"compare", "replace", "release"}

PCs == {"idle", "try", "made", "exists", "stale", "wait"} \cup Locked

Present == lock # NoLock

At(w, label) == w \in running /\ pc[w] = label

Goto(w, label) == pc' = [pc EXCEPT ![w] = label]

\* A missing file has no entry.
Has(content) == IF content = NoFile THEN {} ELSE content

\* The command's replacement of the reviewed content.
Replacement(w) ==
    LET before == Has(seen[w])
    IN  IF w \in before THEN before \ {w} ELSE before \cup {w}

-----------------------------------------------------------------------------
(* Faulty variants of the actions below: each is the mistake one property   *)
(* of this module is there to catch.                                        *)

\* age alone makes a lock stale: the owner's liveness is not asked
AgeOnly_Stale(w) ==
    Present /\ lock.owner \in Writers /\ lock.age = "old" /\ w \in Reclaimers

\* the caller's earlier read is trusted and not compared again
Trusting_Compare(w) ==
    /\ At(w, "compare")
    /\ Goto(w, "replace")
    /\ UNCHANGED <<config, lock, running, seen>>

\* a stale lock is never taken from its dead owner
Never_Stale(w) == w \notin Writers

-----------------------------------------------------------------------------
Init ==
    /\ config = NoFile
    /\ lock = NoLock
    /\ running = Writers
    /\ pc = [w \in Writers |-> "idle"]
    /\ seen = [w \in Writers |-> NoFile]

\* load_configuration: a command reads what it will be reviewed against.
Load(w) ==
    /\ At(w, "idle")
    /\ seen' = [seen EXCEPT ![w] = config]
    /\ Goto(w, "try")
    /\ UNCHANGED <<config, lock, running>>

\* os.mkdir(lock): the path is this writer's, or exists.
Mkdir(w) ==
    /\ At(w, "try")
    /\ \/ /\ ~Present /\ Goto(w, "made")
          /\ lock' = [maker |-> w, owner |-> NoOwner, age |-> "young"]
       \/ Present /\ Goto(w, "exists") /\ UNCHANGED lock
    /\ UNCHANGED <<config, running, seen>>

\* An error other than an existing path ends the command.
MkdirFails(w) ==
    /\ "mkdir" \in Faults
    /\ At(w, "try")
    /\ Goto(w, "idle")
    /\ UNCHANGED <<config, lock, running, seen>>

\* _write_owner, and the fsync of the directory.  A failure leaves the
\* directory with no owner.json, a torn one, or the whole one.
WriteOwner(w) ==
    /\ At(w, "made")
    /\ \/ ~Present /\ Goto(w, "idle") /\ UNCHANGED lock
       \/ Present /\ lock.owner # NoOwner /\ Goto(w, "exists") /\ UNCHANGED lock
       \/ /\ Present /\ lock.owner = NoOwner
          /\ \/ Goto(w, "compare") /\ lock' = [lock EXCEPT !.owner = w]
             \/ /\ "owner" \in Faults /\ Goto(w, "idle")
                /\ \E o \in {NoOwner, Torn, w} : lock' = [lock EXCEPT !.owner = o]
    /\ UNCHANGED <<config, running, seen>>

\* A lock is stale when it names an owner, is old, and the owner is gone.
Stale(w) ==
    /\ Present /\ lock.owner \in Writers
    /\ lock.age = "old" /\ w \in Reclaimers
    /\ lock.owner \notin running

Inspect(w) ==
    /\ At(w, "exists")
    /\ Goto(w, IF Stale(w) THEN "stale" ELSE "wait")
    /\ UNCHANGED <<config, lock, running, seen>>

\* os.rename moves away whatever the path names now.
Reclaim(w) ==
    /\ At(w, "stale")
    /\ \/ Present /\ lock' = NoLock /\ Goto(w, "try")
       \/ ~Present /\ UNCHANGED lock /\ Goto(w, "wait")
    /\ UNCHANGED <<config, running, seen>>

ReclaimFails(w) ==
    /\ "rename" \in Faults
    /\ At(w, "stale")
    /\ Goto(w, "wait")
    /\ UNCHANGED <<config, lock, running, seen>>

\* Before the deadline the writer tries again; then it reports the lock busy.
Retry(w) ==
    /\ At(w, "wait")
    /\ Goto(w, "try") \/ Goto(w, "idle")
    /\ UNCHANGED <<config, lock, running, seen>>

\* Under the lock: the digest on disk must be the reviewed one.
Compare(w) ==
    /\ At(w, "compare")
    /\ \/ Goto(w, IF config = seen[w] THEN "replace" ELSE "release")
       \/ "io" \in Faults /\ Goto(w, "release")
    /\ UNCHANGED <<config, lock, running, seen>>

\* _replace: staged, fsynced, renamed.  An error before the rename leaves the
\* old content, one after it the new.
Replace(w) ==
    /\ At(w, "replace")
    /\ config' = Replacement(w) \/ ("io" \in Faults /\ UNCHANGED config)
    /\ Goto(w, "release")
    /\ UNCHANGED <<lock, running, seen>>

\* finally: _release removes the directory the path names, whoever's it is.
\* A failing rmtree may already have removed owner.json.
Release(w) ==
    /\ At(w, "release")
    /\ \/ lock' = NoLock
       \/ /\ "rmtree" \in Faults /\ Present
          /\ \E o \in {lock.owner, NoOwner} : lock' = [lock EXCEPT !.owner = o]
    /\ Goto(w, "idle")
    /\ UNCHANGED <<config, running, seen>>

\* A process ends.  The writers of Reclaimers are taken to live, so that
\* somebody is left to recover.
Crash(w) ==
    /\ w \in running \ Reclaimers
    /\ IF pc[w] = "made" THEN "early" \in Faults ELSE "crash" \in Faults
    /\ running' = running \ {w}
    /\ UNCHANGED <<config, lock, pc, seen>>

\* stale_after_seconds go by; no live process is stopped that long between
\* two adjacent system calls.
Age ==
    /\ Present /\ lock.age = "young"
    /\ \A w \in running : pc[w] \notin {"made", "stale"}
    /\ lock' = [lock EXCEPT !.age = "old"]
    /\ UNCHANGED <<config, running, pc, seen>>

Step(w) ==
    \/ Load(w) \/ Mkdir(w) \/ WriteOwner(w) \/ Inspect(w) \/ Reclaim(w) \/ Retry(w)
    \/ Compare(w) \/ Replace(w) \/ Release(w)

Next ==
    Age \/ \E w \in Writers :
               Step(w) \/ MkdirFails(w) \/ ReclaimFails(w) \/ Crash(w)

Spec == Init /\ [][Next]_vars

\* Processes go on, time passes, the writers keep running commands, and a mkdir
\* or a rename that is tried again and again does not fail every time.
FairSpec ==
    /\ Spec
    /\ WF_vars(Age)
    /\ \A w \in Writers : WF_vars(Step(w)) /\ SF_vars(Reclaim(w)) /\ SF_vars(Mkdir(w))

-----------------------------------------------------------------------------
(* Properties                                                              *)

\* Every variable keeps its type.
TypeOK ==
    /\ config \in Contents
    /\ lock \in Directory \cup {NoLock}
    /\ running \subseteq Writers
    /\ pc \in [Writers -> PCs]
    /\ seen \in [Writers -> Contents]

\* The configuration lock serializes: at most one live process is between a
\* successful acquire and its release.
OneWriter ==
    \A v, w \in running : pc[v] \in Locked /\ pc[w] \in Locked => v = w

\* No update is lost: whatever content a writer reviewed however long ago,
\* its write changes its own entry and nobody else's.
NoLostUpdate ==
    [][ \A w \in Writers : (w \in Has(config)) # (w \in Has(config')) =>
            w \in running /\ pc[w] = "replace" /\ pc'[w] = "release" ]_vars

\* A lock that names a dead owner is reclaimed: configuration writes are not
\* shut out for ever by a crash between acquire and release.
NamedLockRecovered ==
    \A w \in Writers :
        Present /\ lock.owner = w /\ w \notin running ~>
            ~(Present /\ lock.owner = w)
=============================================================================
