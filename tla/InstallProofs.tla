--------------------------- MODULE InstallProofs ---------------------------
(***************************************************************************)
(* Theorems about Install, for every set of processes, artifacts, objects  *)
(* and other scopes; and about Upkeep, of a destination that AART shares   *)
(* with its operator, for every length of its behaviours.                  *)
(***************************************************************************)
EXTENDS Install, Upkeep, FiniteSetTheorems, SequenceTheorems, TLAPS

\* The type invariant is inductive once it says that a process at work has a
\* plan: the actions read their plan's fields without looking.
TypeInv ==
    /\ TypeOK
    /\ \A p \in Procs : pc[p] # "idle" => plan[p] \in Plans

\* A state file, or none, gives every artifact an object or no record.
LEMMA RecordsType ==
    ASSUME NEW m \in States
    PROVE  Records(m) \in Entries
BY DEF Records, States, Entries, Emptied

\* The preinstalled scope is well typed.
LEMMA TypeInit == Init => TypeInv
BY InstallConstants DEF Init, TypeInv, TypeOK, Contents, Entries, States, References, Ref,
   Referenced, Kinds, PCs, Applying, Reversible

\* Every step of a command, a rollback, the collector or the operator keeps
\* the types.
LEMMA TypeStep == TypeInv /\ [Next]_vars => TypeInv'
<1> SUFFICES ASSUME TypeInv, [Next]_vars PROVE TypeInv'
    OBVIOUS
<1> USE InstallConstants
<1>u. CASE UNCHANGED vars
    BY <1>u DEF TypeInv, TypeOK, vars, store, scope, lockvars, procvars
<1>1. CASE \E p \in Procs : Prepare(p)
  <2> PICK p \in Procs : Prepare(p)
      BY <1>1
  <2>1. ASSUME NEW a \in Arts, PrepareUninstall(p, a) PROVE TypeInv'
      BY <2>1 DEF PrepareUninstall, Goto, TypeInv, TypeOK, store, scope, lockvars, PCs,
         Applying, Reversible, Records, States, Plans, Entries, Emptied, Contents
  <2>2. ASSUME NEW a \in Arts, NEW d \in Digests, PrepareInstall(p, a, d) PROVE TypeInv'
      BY <2>2 DEF PrepareInstall, Goto, TypeInv, TypeOK, store, scope, lockvars, PCs,
         Applying, Reversible, Plans
  <2> QED BY <2>1, <2>2 DEF Prepare
<1>2. CASE \E p \in Procs : Run(p)
  <2> PICK p \in Procs : Run(p)
      BY <1>2
  <2> USE DEF TypeInv, TypeOK, PCs, Applying, Reversible, Goto, lockvars, store, scope
  <2>1. CASE Finalize(p)
      BY <2>1 DEF Finalize, Return
  <2>2. CASE Flock(p)
      BY <2>2 DEF Flock, Return, Unlock
  <2>3. CASE Check(p)
      BY <2>3 DEF Check, Return, Unlock, Proceed
  <2>r. ASSUME NEW k \in Kinds, NEW a \in Arts, NEW ds \in SUBSET Digests,
               ReplaceOk(k, a, ds) \/ ReplaceErr(k, a, ds)
        PROVE  refs' \subseteq References
      BY <2>r DEF ReplaceOk, ReplaceErr, Replaced, OwnedBy, Ref, References
  <2>p. pc[p] # "idle" =>
          /\ plan[p].art \in Arts /\ plan[p].digest \in Digests
          /\ {plan[p].digest} \subseteq Digests
          /\ plan[p].tree \in Contents /\ plan[p].config \in Entries
          /\ plan[p].manifest \in States
      BY DEF Plans
  <2>w. pc[p] # "idle" =>
          /\ Wanted(p) \in Digests \cup {Absent}
          /\ WantedConfig(p) \in Entries /\ WantedManifest(p) \in Entries
      BY <2>p, RecordsType DEF Wanted, WantedConfig, WantedManifest, Entries
  <2>4. CASE Retain(p)
    <3>1. refs' \subseteq References
        BY <2>4, <2>r, <2>p DEF Retain, Kinds
    <3> QED BY <2>4, <3>1 DEF Retain, Soil, Proceed, Raise, Unlock, Effects
  <2>5. CASE ApplyTree(p)
    <3>1. tree' \in [Arts -> Contents]
        BY <2>5, <2>p, <2>w DEF ApplyTree, Contents, Raise, Proceed, Soil
    <3> QED BY <2>5, <3>1 DEF ApplyTree, Soil, Proceed, Raise, Unlock, Effects
  <2>6. CASE ApplyConfig(p)
    <3>1. config' \in Entries
        BY <2>6, <2>p, <2>w DEF ApplyConfig, Entries, Emptied, Raise, Proceed, Soil
    <3> QED BY <2>6, <3>1 DEF ApplyConfig, Soil, Proceed, Raise, Unlock, Effects
  <2>7. CASE WriteManifest(p)
    <3>1. manifest' \in States
        BY <2>7, <2>p, <2>w DEF WriteManifest, States, Raise, Proceed, Soil
    <3> QED BY <2>7, <3>1 DEF WriteManifest, Soil, Proceed, Raise, Unlock, Effects
  <2>8. CASE Reference(p)
    <3>1. refs' \subseteq References
        BY <2>8, <2>r, <2>p DEF Reference, Kinds
    <3> QED BY <2>8, <3>1 DEF Reference, Proceed, Raise, Unlock
  <2>9. CASE ReleaseTransaction(p)
    <3>1. refs' \subseteq References
        BY <2>9, <2>r, <2>p DEF ReleaseTransaction, Kinds
    <3> QED BY <2>9, <3>1 DEF ReleaseTransaction, Return, Unlock
  <2>10. CASE DropReference(p)
    <3>1. refs' \subseteq References
        BY <2>10, <2>r, <2>p DEF DropReference, Kinds
    <3> QED BY <2>10, <3>1 DEF DropReference, Proceed, Raise, Unlock
  <2>11. CASE VerifyReference(p)
      BY <2>11 DEF VerifyReference, Soil, Proceed, Raise, Unlock, Effects
  <2>12. CASE TearDown(p)
      BY <2>12 DEF TearDown, States
  <2>13. CASE UnlinkLock(p)
      BY <2>13 DEF UnlinkLock
  <2>14. CASE UninstallReturns(p)
      BY <2>14 DEF UninstallReturns, Return, Unlock
  <2> USE DEF Undo, Undid, Missed, Clean
  <2>15. CASE UndoReference(p)
    <3>0. ReviewedDigests(p) \in SUBSET Digests
        BY <2>15 DEF UndoReference, ReviewedDigests, Plans, References
    <3>1. refs' \subseteq References
        BY <2>15, <2>r, <2>p, <3>0 DEF UndoReference, Kinds
    <3> QED BY <2>15, <3>1 DEF UndoReference
  <2>16. CASE UndoManifest(p)
      BY <2>16, <2>p DEF UndoManifest, States
  <2>17. CASE UndoConfig(p)
      BY <2>17, <2>p DEF UndoConfig, Entries, Emptied
  <2>18. CASE UndoTree(p)
    <3>1. tree' \in [Arts -> Contents]
        BY <2>18, <2>p DEF UndoTree, Contents
    <3> QED BY <2>18, <3>1 DEF UndoTree
  <2>19. CASE UndoTransaction(p)
    <3>1. refs' \subseteq References
        BY <2>19, <2>r, <2>p DEF UndoTransaction, Kinds
    <3> QED BY <2>19, <3>1 DEF UndoTransaction
  <2>20. CASE Undone(p)
      BY <2>20 DEF Undone, Return
  <2> QED
    BY <2>1, <2>2, <2>3, <2>4, <2>5, <2>6, <2>7, <2>8, <2>9, <2>10, <2>11, <2>12, <2>13,
       <2>14, <2>15, <2>16, <2>17, <2>18, <2>19, <2>20 DEF Run
<1>3. CASE \E d \in Digests : Materialize(d)
    BY <1>3 DEF Materialize, TypeInv, TypeOK, scope, lockvars, procvars
<1>4. CASE \E o \in Others, d \in Digests : Elsewhere(o, d)
    BY <1>4 DEF Elsewhere, Replaced, OwnedBy, Ref, References, Kinds,
       TypeInv, TypeOK, scope, lockvars, procvars
<1>5. CASE Collect
    BY <1>5 DEF Collect, CollectPlan, CollectDelete, CollectReturns,
       TypeInv, TypeOK, scope, lockvars, procvars
<1>6. CASE \E a \in Arts : Edit(a)
    BY <1>6 DEF Edit, Contents, TypeInv, TypeOK, store, lockvars, procvars
<1> QED BY <1>u, <1>1, <1>2, <1>3, <1>4, <1>5, <1>6 DEF Next

\* Whatever fails, the state apply_plan, apply_uninstall_plan and the garbage
\* collector work on stays well typed: the index holds references only, a
\* plan is complete, the state file has one object per record.
THEOREM InstallTypes == Spec => []TypeOK
<1>1. TypeInv => TypeOK
    BY DEF TypeInv
<1> QED BY TypeInit, TypeStep, <1>1, PTL DEF Spec

-----------------------------------------------------------------------------
\* Some artifact was installed from the start and is never uninstalled, and
\* no rollback is incomplete: the scope keeps its state file, so nobody has
\* reason to unlink its lock.
Anchored == Preinstalled \ Removable # {} /\ "undo" \notin Faults

\* A state file that still has every record that is never removed.
Keeps(m) == m \in Entries /\ \A a \in Preinstalled \ Removable : m[a] # Absent

\* Who has the lock file open, has the one file the path names ...
OneFile ==
    /\ lockFile # Absent
    /\ \A p \in Procs : fd[p] \in {Absent, lockFile}
    /\ \A p \in Procs : pc[p] = "flock" \/ p \in flocked => fd[p] = lockFile

\* ... which at most one has locked: whoever is at work on the scope.
OneLocker ==
    /\ \A p, q \in flocked : p = q
    /\ \A p \in Procs : pc[p] \in Applying \cup {"check", "unlock"} => p \in flocked

\* Neither the state nor any plan's view of it is ever without a record.
KeepsRecords ==
    /\ Keeps(manifest)
    /\ \A p \in Procs : pc[p] # "idle" =>
          /\ Keeps(plan[p].manifest)
          /\ plan[p].op = "uninstall" => plan[p].art \in Removable
    /\ \A p \in Procs : pc[p] # "unlink"

LockInv == TypeInv /\ OneFile /\ OneLocker /\ KeepsRecords

\* A scope with installations has a lock file that nobody has open yet.
LEMMA LockInit == Anchored /\ Init => LockInv
<1> SUFFICES ASSUME Anchored, Init PROVE LockInv
    OBVIOUS
<1> USE InstallConstants DEF Init
<1>1. TypeInv
    BY TypeInit
<1>2. Keeps(manifest)
    BY DEF Anchored, Keeps, Entries
<1>3. (CHOOSE i \in Inodes : TRUE) \in Inodes
    OBVIOUS
<1>4. OneFile
    BY <1>3 DEF Anchored, OneFile
<1> QED BY <1>1, <1>2, <1>4 DEF LockInv, OneLocker, KeepsRecords, Applying, Reversible

\* What a plan writes keeps the records that its reviewed state had.
LEMMA WantedKeeps ==
    ASSUME NEW p \in Procs, TypeInv, KeepsRecords, pc[p] # "idle"
    PROVE  Keeps(WantedManifest(p))
BY InstallConstants DEF TypeInv, KeepsRecords, Keeps, WantedManifest, Wanted, Installing,
   Records, Entries, Plans

\* No step, whether it succeeds or raises, opens a second lock file or lets
\* two processes lock the one there is.
LEMMA LockStep == Anchored /\ LockInv /\ [Next]_vars => LockInv'
<1> SUFFICES ASSUME Anchored, LockInv, [Next]_vars PROVE LockInv'
    OBVIOUS
<1> USE InstallConstants DEF LockInv
<1>t. TypeInv'
    BY TypeStep
<1>n. ASSUME UNCHANGED <<manifest, lockvars, procvars>> PROVE LockInv'
    BY <1>n, <1>t DEF OneFile, OneLocker, KeepsRecords, lockvars, procvars
<1>u. CASE UNCHANGED vars
    BY <1>u, <1>n DEF vars, scope
<1>1. CASE \E p \in Procs : Prepare(p)
  <2> PICK p \in Procs : Prepare(p)
      BY <1>1
  <2>1. OneFile' /\ OneLocker'
      BY DEF Prepare, PrepareInstall, PrepareUninstall, Goto, TypeInv, TypeOK, lockvars,
         OneFile, OneLocker, Applying, Reversible
  <2>2. KeepsRecords'
      BY DEF Prepare, PrepareInstall, PrepareUninstall, Goto, TypeInv, TypeOK, scope,
         KeepsRecords
  <2> QED BY <1>t, <2>1, <2>2
<1>2. CASE \E p \in Procs : Run(p)
  <2> PICK p \in Procs : Run(p)
      BY <1>2
  <2> USE DEF TypeInv, TypeOK, Goto, lockvars, store, scope
  <2>k. pc[p] # "idle" => Keeps(WantedManifest(p)) /\ Keeps(plan[p].manifest)
      BY WantedKeeps DEF KeepsRecords
  \* An action that leaves the lock and the state alone goes on, or raises.
  <2>g. ASSUME NEW l \in PCs, Proceed(p, l), pc[p] \in Applying \cup {"check"},
               l \in Applying \ {"unlink"}, UNCHANGED manifest \/ Keeps(manifest')
        PROVE  LockInv'
      BY <2>g, <1>t DEF Proceed, OneFile, OneLocker, KeepsRecords, Applying, Reversible
  <2>f. ASSUME Raise(p), pc[p] # "idle", UNCHANGED manifest \/ Keeps(manifest')
        PROVE  LockInv'
      BY <2>f, <1>t DEF Raise, Unlock, OneFile, OneLocker, KeepsRecords, Applying, Reversible
  <2>e. ASSUME Unlock(p), Return(p), UNCHANGED <<manifest, lockFile>> PROVE LockInv'
      BY <2>e, <1>t DEF Return, Unlock, OneFile, OneLocker, KeepsRecords, Applying, Reversible
  <2> DEFINE Stays == pc[p] # "idle" /\ UNCHANGED <<lockvars, pc, plan>>
  <2>s. ASSUME Stays, UNCHANGED manifest \/ Keeps(manifest') PROVE LockInv'
      BY <2>s, <1>t DEF OneFile, OneLocker, KeepsRecords
  <2>1. CASE Finalize(p)
    <3>1. CASE Return(p) /\ UNCHANGED lockvars
        BY <2>1, <3>1, <1>t DEF Finalize, Return, OneFile, OneLocker, KeepsRecords,
           Applying, Reversible
    <3>2. CASE ~(Return(p) /\ UNCHANGED lockvars)
        BY <2>1, <3>2, <1>t DEF Finalize, OneFile, OneLocker, KeepsRecords, Applying, Reversible
    <3> QED BY <3>1, <3>2
  <2>2. CASE Flock(p)
    <3>1. CASE \E q \in flocked : fd[q] = fd[p]
        BY <2>2, <3>1, <2>e DEF Flock
    <3>2. CASE ~\E q \in flocked : fd[q] = fd[p]
      <4>1. flocked = {}
          BY <2>2, <3>2 DEF Flock, OneFile
      <4> QED BY <2>2, <3>2, <4>1, <1>t DEF Flock, OneFile, OneLocker, KeepsRecords,
                 Applying, Reversible
    <3> QED BY <3>1, <3>2
  <2>3. CASE Check(p)
      BY <2>3, <2>e, <2>g DEF Check, PCs, Applying, Reversible
  <2> USE DEF PCs, Applying, Reversible
  <2>4. CASE Retain(p)
      BY <2>4, <2>f, <2>g DEF Retain
  <2>5. CASE ApplyTree(p)
      BY <2>5, <2>f, <2>g DEF ApplyTree
  <2>6. CASE ApplyConfig(p)
      BY <2>6, <2>f, <2>g DEF ApplyConfig
  <2>7. CASE WriteManifest(p)
      BY <2>7, <2>f, <2>g, <2>k DEF WriteManifest
  <2>8. CASE Reference(p)
      BY <2>8, <2>f, <2>g DEF Reference
  <2>9. CASE ReleaseTransaction(p)
      BY <2>9, <2>e DEF ReleaseTransaction
  <2>10. CASE DropReference(p)
      BY <2>10, <2>g DEF DropReference
  <2>11. CASE VerifyReference(p)
      BY <2>11, <2>f, <2>g DEF VerifyReference
  <2>12. CASE TearDown(p)
    <3>1. ~LastOut(p)
        BY <2>12, <2>k DEF TearDown, LastOut, Emptied, Keeps, Anchored
    <3> QED BY <2>12, <3>1, <1>t DEF TearDown, OneFile, OneLocker, KeepsRecords
  <2>13. CASE UnlinkLock(p)
      BY <2>13 DEF UnlinkLock, KeepsRecords
  <2>14. CASE UninstallReturns(p)
      BY <2>14, <2>e DEF UninstallReturns
  <2> USE DEF Undo, Undid, Missed
  <2>15. CASE UndoReference(p)
      BY <2>15, <2>s DEF UndoReference
  <2>16. CASE UndoManifest(p)
      BY <2>16, <2>s, <2>k DEF UndoManifest, Anchored
  <2>17. CASE UndoConfig(p)
      BY <2>17, <2>s DEF UndoConfig
  <2>18. CASE UndoTree(p)
      BY <2>18, <2>s DEF UndoTree
  <2>19. CASE UndoTransaction(p)
      BY <2>19, <2>s DEF UndoTransaction
  <2>20. CASE Undone(p)
      BY <2>20, <1>t DEF Undone, Return, OneFile, OneLocker, KeepsRecords
  <2> QED
    BY <2>1, <2>2, <2>3, <2>4, <2>5, <2>6, <2>7, <2>8, <2>9, <2>10, <2>11, <2>12, <2>13,
       <2>14, <2>15, <2>16, <2>17, <2>18, <2>19, <2>20 DEF Run
<1>3. CASE \E d \in Digests : Materialize(d)
    BY <1>3, <1>n DEF Materialize, scope
<1>4. CASE \E o \in Others, d \in Digests : Elsewhere(o, d)
    BY <1>4, <1>n DEF Elsewhere, scope
<1>5. CASE Collect
    BY <1>5, <1>n DEF Collect, CollectPlan, CollectDelete, CollectReturns, scope
<1>6. CASE \E a \in Arts : Edit(a)
    BY <1>6, <1>n DEF Edit
<1> QED BY <1>u, <1>1, <1>2, <1>3, <1>4, <1>5, <1>6 DEF Next

\* As long as the scope keeps one installation, so that _tear_down never
\* unlinks the lock file, _lock serializes all installs, updates and
\* uninstalls of the scope, whatever file or reference operation fails.
THEOREM InstallSerializes == Anchored => (Spec => []ScopeSerialized)
<1> SUFFICES ASSUME Anchored PROVE Spec => []ScopeSerialized
    OBVIOUS
<1>1. Init => LockInv
    BY LockInit
<1>2. LockInv /\ [Next]_vars => LockInv'
    BY LockStep
<1>3. LockInv => ScopeSerialized
    BY DEF LockInv, OneLocker, ScopeSerialized
<1> QED BY <1>1, <1>2, <1>3, PTL DEF Spec

-----------------------------------------------------------------------------
(* The scope under one command at a time.                                   *)

\* Two processes never work on one scope: there is but one, or nothing that
\* they do has to be taken back, which would happen outside the lock.
Alone == \A p, q \in Procs : p = q
Calm == Anchored /\ Faults \subseteq {"edit"} /\ Others = {}
Apart == Alone \/ Calm

\* No object is deleted in the gap before it is held, an update of the
\* reference index that errs has not written it, and the index can be read
\* back after one that went well.
Safe == {"release", "reread", "gcgap"} \cap Faults = {}

\* The steps with which a command works on the scope.
Working(p) == pc[p] \in Applying \cup {"undo", "incomplete"}

\* The steps after the last effect on the scope.
Late == {"reference", "verify", "mismatch", "recheck", "release", "teardown"}

\* What a review found out: content that no install wrote is only replaced
\* by force, and an uninstall names the object of the record.
Reviewed(p) ==
    pc[p] # "idle" =>
        /\ plan[p].tree = Foreign => p \in Forcing
        /\ plan[p].op = "uninstall" =>
              /\ plan[p].art \in Removable
              /\ plan[p].manifest \in Entries
              /\ plan[p].manifest[plan[p].art] = plan[p].digest

\* Before an effect its place is as reviewed, and after it as wanted.
Placed(p) ==
    LET a == plan[p].art IN
    /\ pc[p] \in {"retain", "tree"} => tree[a] = plan[p].tree
    /\ pc[p] \in {"retain", "tree", "config"} => config = plan[p].config
    /\ pc[p] \in {"retain", "tree", "config", "manifest"} => manifest = plan[p].manifest
    /\ pc[p] \in Late => /\ tree[a] = Wanted(p)
                         /\ config = WantedConfig(p) /\ manifest = WantedManifest(p)
    /\ pc[p] = "config" => tree[a] = Wanted(p)
    /\ pc[p] = "manifest" => tree[a] = Wanted(p) /\ config = WantedConfig(p)

\* Which kind of command takes the steps that only one kind has.
Routed(p) ==
    /\ pc[p] \in {"retain", "release"} => Installing(p)
    /\ pc[p] \in {"verify", "mismatch", "recheck", "teardown", "unlink"} => ~Installing(p)
    /\ Installing(p) \/ pc[p] \in Reversible => "installed" \notin dirty[p]

\* What is not marked to be taken back is as it was reviewed, and what is
\* marked is old, new or, for a tree, gone.
Marked(p) ==
    LET a == plan[p].art IN
    /\ Open(p) => tree[a] \in {plan[p].tree, Absent, Wanted(p)}
    /\ Open(p) /\ "incomplete" \notin dirty[p] =>
          /\ "tree" \in dirty[p] \/ tree[a] = plan[p].tree
          /\ "config" \in dirty[p] \/ config = plan[p].config
          /\ "manifest" \in dirty[p] \/ manifest = plan[p].manifest
          /\ manifest \in {plan[p].manifest, WantedManifest(p)}
    /\ pc[p] \notin {"undo", "incomplete"} => "incomplete" \notin dirty[p]
    /\ pc[p] = "incomplete" => "incomplete" \in dirty[p]
    /\ pc[p] \in {"idle", "finalize", "flock", "check", "retain"} => dirty[p] = {}

Task(p) == Reviewed(p) /\ (Working(p) => Placed(p) /\ Routed(p)) /\ Marked(p)

\* What a plan wants is a matter of the plan.
LEMMA WantedStays ==
    ASSUME NEW p \in Procs, plan'[p] = plan[p]
    PROVE  /\ Wanted(p)' = Wanted(p) /\ WantedConfig(p)' = WantedConfig(p)
           /\ WantedManifest(p)' = WantedManifest(p) /\ Installing(p)' = Installing(p)
           /\ WantedRefs(p)' = WantedRefs(p) /\ ReviewedDigests(p)' = ReviewedDigests(p)
BY DEF Wanted, WantedConfig, WantedManifest, Installing, WantedRefs, ReviewedDigests

\* A review takes the snapshots that Reviewed speaks of.
LEMMA PrepareTask ==
    ASSUME NEW p \in Procs, TypeInv, Task(p), Prepare(p)
    PROVE  Task(p)' /\ ~Working(p)'
<1> USE InstallConstants
<1>1. ASSUME pc[p] = "idle", pc'[p] = "finalize", dirty'[p] = dirty[p], Reviewed(p)'
      PROVE  Task(p)' /\ ~Working(p)'
  BY <1>1 DEF Task, Working, Marked, Open, Applying, Reversible
<1>2. ASSUME NEW a \in Arts, PrepareUninstall(p, a) PROVE Task(p)' /\ ~Working(p)'
  <2>1. /\ pc'[p] = "finalize" /\ dirty'[p] = dirty[p]
        /\ plan'[p].op = "uninstall" /\ plan'[p].art = a /\ plan'[p].digest = manifest[a]
        /\ plan'[p].tree = tree[a] /\ plan'[p].manifest = manifest
        /\ pc[p] = "idle" /\ a \in Removable /\ Records(manifest)[a] # Absent
        /\ ~Conflicting(p, a, Absent)
    BY <1>2 DEF PrepareUninstall, Goto, TypeInv, TypeOK
  <2>2. manifest \in Entries
    BY <2>1 DEF Records, Emptied, TypeInv, TypeOK, States
  <2>3. Reviewed(p)'
    BY <2>1, <2>2 DEF Reviewed, Conflicting, Records, Entries
  <2> QED
    BY <1>1, <2>1, <2>3
<1>3. ASSUME NEW a \in Arts, NEW d \in Digests, PrepareInstall(p, a, d)
      PROVE  Task(p)' /\ ~Working(p)'
  <2>1. /\ pc'[p] = "finalize" /\ dirty'[p] = dirty[p]
        /\ plan'[p].op = "install" /\ plan'[p].tree = tree[a]
        /\ pc[p] = "idle" /\ ~Conflicting(p, a, d)
    BY <1>3 DEF PrepareInstall, Goto, TypeInv, TypeOK
  <2>2. Records(manifest)[a] # Foreign
    BY RecordsType DEF TypeInv, TypeOK, Entries
  <2>3. Reviewed(p)'
    BY <2>1, <2>2 DEF Reviewed, Conflicting
  <2> QED
    BY <1>1, <2>1, <2>3
<1> QED
  BY <1>2, <1>3 DEF Prepare

\* A step of a command leaves the other commands' plans and positions alone,
\* and the scope too unless the command works on it.
LEMMA RunFrame ==
    ASSUME NEW p \in Procs, TypeInv, Run(p)
    PROVE  /\ \A q \in Procs \ {p} :
                 pc'[q] = pc[q] /\ plan'[q] = plan[q] /\ dirty'[q] = dirty[q]
           /\ UNCHANGED scope \/ Working(p)
           /\ pc[p] \notin {"idle", "incomplete"}
<1> USE DEF TypeInv, TypeOK, Goto, lockvars, store, Working, Applying, Reversible, Return,
            Proceed, Raise, Soil, Clean
<1>1. CASE Finalize(p) \/ Flock(p) \/ Check(p) \/ Retain(p)
  BY <1>1 DEF Finalize, Flock, Check, Retain, scope
<1>2. CASE ApplyTree(p) \/ ApplyConfig(p) \/ WriteManifest(p)
  BY <1>2 DEF ApplyTree, ApplyConfig, WriteManifest
<1>3. CASE Reference(p) \/ ReleaseTransaction(p) \/ DropReference(p) \/ VerifyReference(p)
  BY <1>3 DEF Reference, ReleaseTransaction, DropReference, VerifyReference, scope
<1>4. CASE TearDown(p) \/ UnlinkLock(p) \/ UninstallReturns(p) \/ Undone(p)
  BY <1>4 DEF TearDown, UnlinkLock, UninstallReturns, Undone, scope
<1>5. CASE UndoReference(p) \/ UndoManifest(p) \/ UndoConfig(p) \/ UndoTree(p)
             \/ UndoTransaction(p)
  BY <1>5 DEF UndoReference, UndoManifest, UndoConfig, UndoTree, UndoTransaction, Undo,
              Undid, Missed
<1> QED
  BY <1>1, <1>2, <1>3, <1>4, <1>5 DEF Run

\* What a command knows of the scope survives the steps of the others, as
\* long as they keep off the scope it works on.
LEMMA TaskFrame ==
    ASSUME NEW q \in Procs, Task(q), pc'[q] = pc[q], plan'[q] = plan[q], dirty'[q] = dirty[q],
           UNCHANGED scope \/ ~Working(q)
    PROVE  Task(q)' /\ (Working(q)' <=> Working(q))
<1>1. Reviewed(q)' /\ (Working(q)' <=> Working(q))
  BY DEF Task, Reviewed, Working
<1>2. CASE ~Working(q)
  BY <1>1, <1>2 DEF Task, Marked, Open, Working, Applying, Reversible
<1>3. CASE UNCHANGED scope
  <2>1. Routed(q) => Routed(q)'
    BY WantedStays DEF Routed
  <2>2. Placed(q) => Placed(q)'
    BY <1>3, WantedStays DEF Placed, scope
  <2>3. Marked(q)'
    BY <1>3, WantedStays DEF Task, Marked, scope, Open
  <2> QED
    BY <1>1, <2>1, <2>2, <2>3 DEF Task
<1> QED
  BY <1>2, <1>3

\* A command's own steps keep what it knows of the scope: every effect is
\* marked before it is tried, and a rollback unmarks what it has restored.
LEMMA RunTask ==
    ASSUME NEW p \in Procs, TypeInv, Task(p), Run(p)
    PROVE  Task(p)'
<1> DEFINE a == plan[p].art
<1>1. pc[p] \notin {"idle", "incomplete"}
  BY RunFrame
<1>2. /\ plan[p] \in Plans /\ a \in Arts /\ dirty[p] \subseteq Effects \cup {"incomplete"}
  BY <1>1 DEF TypeInv, TypeOK, Plans
<1> DEFINE Kept == plan'[p] = plan[p]
           Recalled == /\ tree'[a] \in {plan[p].tree, Absent, Wanted(p)}
                       /\ "tree" \in dirty'[p] \/ tree'[a] = plan[p].tree
                       /\ "config" \in dirty'[p] \/ config' = plan[p].config
                       /\ "manifest" \in dirty'[p] \/ manifest' = plan[p].manifest
                       /\ manifest' \in {plan[p].manifest, WantedManifest(p)}
<1>3. ASSUME Kept PROVE Reviewed(p)'
  BY <1>1, <1>3 DEF Task, Reviewed
\* The command returns.
<1>4. ASSUME Return(p) PROVE Task(p)'
  BY <1>4 DEF Return, Goto, TypeInv, TypeOK, Task, Reviewed, Working, Marked, Open,
              Applying, Reversible
\* The command is, or stays, at its rollback.
<1>5. ASSUME Kept, pc'[p] = "undo", tree'[a] \in {plan[p].tree, Absent, Wanted(p)},
             "incomplete" \in dirty'[p] \/ Recalled,
             Installing(p) => "installed" \notin dirty'[p]
      PROVE  Task(p)'
  <2>1. Placed(p)' /\ Routed(p)'
    BY <1>5, WantedStays DEF Placed, Routed, Late, Reversible
  <2>2. Marked(p)'
    BY <1>5, WantedStays DEF Marked, Open
  <2> QED
    BY <1>3, <1>5, <2>1, <2>2 DEF Task
\* The command goes on with its plan.
<1>6. ASSUME NEW l \in Reversible \cup {"release", "teardown"}, Kept, pc'[p] = l,
             "incomplete" \notin dirty'[p], l \in Reversible => Recalled,
             Placed(p)', Routed(p)', l # "retain"
      PROVE  Task(p)'
  <2>1. Marked(p)'
    BY <1>6, WantedStays DEF Marked, Open, Reversible
  <2> QED
    BY <1>3, <1>6, <2>1 DEF Task
<1> USE DEF Goto, TypeInv, TypeOK
<1>7. CASE Finalize(p)
  <2>1. CASE Return(p)
    BY <1>4, <2>1
  <2>2. CASE ~Return(p)
    <3>1. pc[p] = "finalize" /\ pc'[p] = "flock" /\ Kept /\ dirty'[p] = dirty[p]
      BY <1>7, <2>2 DEF Finalize
    <3> QED
      BY <1>3, <3>1 DEF Task, Marked, Open, Working, Applying, Reversible
  <2> QED
    BY <2>1, <2>2
<1>8. CASE Flock(p)
  <2>1. CASE Return(p)
    BY <1>4, <2>1
  <2>2. CASE ~Return(p)
    <3>1. pc[p] = "flock" /\ pc'[p] = "check" /\ Kept /\ dirty'[p] = dirty[p]
      BY <1>8, <2>2 DEF Flock
    <3> QED
      BY <1>3, <3>1 DEF Task, Marked, Open, Working, Applying, Reversible
  <2> QED
    BY <2>1, <2>2
<1>9. CASE Check(p)
  <2>1. CASE Return(p)
    BY <1>4, <2>1
  <2>2. CASE ~Return(p)
    <3>1. /\ pc[p] = "check" /\ pc'[p] = IF Installing(p) THEN "retain" ELSE "tree"
          /\ Kept /\ dirty'[p] = dirty[p] /\ UNCHANGED scope
          /\ tree[a] = plan[p].tree /\ config = plan[p].config /\ manifest = plan[p].manifest
      BY <1>9, <2>2 DEF Check, Proceed, PreconditionsCurrent
    <3>2. dirty'[p] = {}
      BY <3>1 DEF Task, Marked
    <3>3. Placed(p)' /\ Routed(p)'
      BY <3>1, <3>2, WantedStays DEF Placed, Routed, scope, Late
    <3>4. Marked(p)'
      BY <3>1, <3>2, WantedStays DEF Marked, Open, Reversible, scope
    <3> QED
      BY <1>3, <3>1, <3>3, <3>4 DEF Task
  <2> QED
    BY <2>1, <2>2
<1>w. Working(p) => Placed(p) /\ Routed(p) /\ Marked(p)
  BY DEF Task
<1>10. CASE Retain(p)
  <2>1. /\ pc[p] = "retain" /\ Kept /\ UNCHANGED scope /\ dirty[p] = {}
        /\ \/ pc'[p] = "tree" /\ dirty'[p] = {"transaction"}
           \/ pc'[p] = "undo" /\ dirty'[p] = {}
    BY <1>10 DEF Retain, Proceed, Raise, Soil, Task, Marked
  <2>2. Working(p) /\ Recalled
    BY <1>w, <2>1 DEF Working, Applying, Reversible, Placed, scope
  <2>3. CASE pc'[p] = "tree"
    <3>1. Placed(p)' /\ Routed(p)'
      BY <1>w, <2>1, <2>2, <2>3, WantedStays DEF Placed, Routed, scope, Late
    <3> QED
      BY <1>6, <2>1, <2>2, <2>3, <3>1 DEF Reversible
  <2> QED
    BY <1>5, <2>1, <2>2, <2>3
\* An effect: tried, it is marked; skipped, nothing changes.
<1>11. CASE ApplyTree(p)
  <2>1. pc[p] = "tree" /\ Kept /\ config' = config /\ manifest' = manifest
    BY <1>11 DEF ApplyTree, Proceed, Raise
  <2>2. /\ Working(p) /\ tree[a] = plan[p].tree /\ config = plan[p].config
        /\ manifest = plan[p].manifest /\ "incomplete" \notin dirty[p]
        /\ "installed" \notin dirty[p]
    BY <1>w, <2>1 DEF Working, Applying, Reversible, Placed, Routed, Task, Marked
  <2>3. /\ tree'[a] \in {plan[p].tree, Absent, Wanted(p)}
        /\ "incomplete" \notin dirty'[p]
        /\ "installed" \notin dirty'[p]
        /\ "tree" \in dirty'[p] \/ tree'[a] = plan[p].tree
        /\ pc'[p] \in {"config", "undo"}
        /\ pc'[p] = "config" => tree'[a] = Wanted(p)
    BY <1>2, <1>11, <2>2 DEF ApplyTree, Proceed, Raise, Soil
  <2>4. Recalled
    BY <2>1, <2>2, <2>3
  <2>5. CASE pc'[p] = "config"
    <3>1. Placed(p)' /\ Routed(p)'
      BY <2>1, <2>2, <2>3, <2>5, WantedStays DEF Placed, Routed, Late
    <3> QED
      BY <1>6, <2>1, <2>3, <2>4, <2>5, <3>1 DEF Reversible
  <2> QED
    BY <1>5, <2>1, <2>3, <2>4, <2>5
<1>12. CASE ApplyConfig(p)
  <2>1. pc[p] = "config" /\ Kept /\ tree' = tree /\ manifest' = manifest
    BY <1>12 DEF ApplyConfig, Proceed, Raise
  <2>2. /\ Working(p) /\ tree[a] = Wanted(p) /\ config = plan[p].config
        /\ manifest = plan[p].manifest /\ "incomplete" \notin dirty[p]
        /\ "installed" \notin dirty[p]
        /\ "tree" \in dirty[p] \/ tree[a] = plan[p].tree
    BY <1>w, <2>1 DEF Working, Applying, Reversible, Placed, Routed, Task, Marked, Open
  <2>3. /\ "incomplete" \notin dirty'[p]
        /\ "installed" \notin dirty'[p]
        /\ "tree" \in dirty[p] => "tree" \in dirty'[p]
        /\ "config" \in dirty'[p] \/ config' = plan[p].config
        /\ pc'[p] \in {"manifest", "undo"}
        /\ pc'[p] = "manifest" => config' = WantedConfig(p)
    BY <1>2, <1>12, <2>2 DEF ApplyConfig, Proceed, Raise, Soil
  <2>4. Recalled
    BY <2>1, <2>2, <2>3
  <2>5. CASE pc'[p] = "manifest"
    <3>1. Placed(p)' /\ Routed(p)'
      BY <2>1, <2>2, <2>3, <2>5, WantedStays DEF Placed, Routed, Late
    <3> QED
      BY <1>6, <2>1, <2>3, <2>4, <2>5, <3>1 DEF Reversible
  <2> QED
    BY <1>5, <2>1, <2>3, <2>4, <2>5
<1>13. CASE WriteManifest(p)
  <2>1. pc[p] = "manifest" /\ Kept /\ tree' = tree /\ config' = config
    BY <1>13 DEF WriteManifest, Proceed, Raise
  <2>2. /\ Working(p) /\ tree[a] = Wanted(p) /\ config = WantedConfig(p)
        /\ manifest = plan[p].manifest /\ "incomplete" \notin dirty[p]
        /\ "installed" \notin dirty[p]
        /\ "tree" \in dirty[p] \/ tree[a] = plan[p].tree
        /\ "config" \in dirty[p] \/ config = plan[p].config
    BY <1>w, <2>1 DEF Working, Applying, Reversible, Placed, Routed, Task, Marked, Open
  <2>3. /\ "incomplete" \notin dirty'[p]
        /\ "installed" \notin dirty'[p]
        /\ "tree" \in dirty[p] => "tree" \in dirty'[p]
        /\ "config" \in dirty[p] => "config" \in dirty'[p]
        /\ "manifest" \in dirty'[p] \/ manifest' = plan[p].manifest
        /\ manifest' \in {plan[p].manifest, WantedManifest(p)}
        /\ pc'[p] \in {"reference", "undo"}
        /\ pc'[p] = "reference" => manifest' = WantedManifest(p)
    BY <1>2, <1>13, <2>2 DEF WriteManifest, Proceed, Raise, Soil
  <2>4. Recalled
    BY <2>1, <2>2, <2>3
  <2>5. CASE pc'[p] = "reference"
    <3>1. Placed(p)' /\ Routed(p)'
      BY <2>1, <2>2, <2>3, <2>5, WantedStays DEF Placed, Routed, Late
    <3> QED
      BY <1>6, <2>1, <2>3, <2>4, <2>5, <3>1 DEF Reversible
  <2> QED
    BY <1>5, <2>1, <2>3, <2>4, <2>5
\* The steps on the reference index leave the scope as wanted.
<1>14. CASE Reference(p) \/ DropReference(p) \/ VerifyReference(p)
  <2>1. /\ pc[p] \in {"reference", "verify", "mismatch", "recheck"} /\ Kept /\ UNCHANGED scope
        /\ pc'[p] \in {"release", "verify", "mismatch", "recheck", "teardown", "undo"}
        /\ pc'[p] = "release" => Installing(p)
        /\ pc'[p] \in {"verify", "mismatch", "recheck"} => ~Installing(p)
        /\ pc'[p] = "teardown" => pc[p] \in {"verify", "mismatch", "recheck"}
        /\ \/ dirty'[p] = dirty[p]
           \/ /\ dirty'[p] = dirty[p] \cup {"installed"}
              /\ pc[p] \in {"verify", "mismatch", "recheck"}
              /\ pc'[p] \in {"teardown", "undo"}
    BY <1>14 DEF Reference, DropReference, VerifyReference, Proceed, Raise, Soil
  <2>2. /\ Working(p) /\ tree[a] = Wanted(p) /\ config = WantedConfig(p)
        /\ manifest = WantedManifest(p) /\ "incomplete" \notin dirty[p]
        /\ "installed" \notin dirty[p]
        /\ pc[p] \in {"verify", "mismatch", "recheck"} => ~Installing(p)
        /\ "tree" \in dirty[p] \/ tree[a] = plan[p].tree
        /\ "config" \in dirty[p] \/ config = plan[p].config
        /\ "manifest" \in dirty[p] \/ manifest = plan[p].manifest
    BY <1>w, <2>1 DEF Working, Applying, Reversible, Placed, Routed, Task, Marked, Open, Late
  <2>3. /\ Recalled /\ "incomplete" \notin dirty'[p]
        /\ (Installing(p) => "installed" \notin dirty'[p])
    BY <2>1, <2>2 DEF scope
  <2>4. CASE pc'[p] # "undo"
    <3>1. Placed(p)'
      BY <2>1, <2>2, <2>4, WantedStays DEF Placed, scope
    <3>2. Routed(p)'
      BY <2>1, <2>2, <2>3, <2>4, WantedStays DEF Routed, Reversible
    <3> QED
      BY <1>6, <2>1, <2>3, <2>4, <3>1, <3>2 DEF Reversible
  <2> QED
    BY <1>5, <2>1, <2>3, <2>4
<1>15. CASE ReleaseTransaction(p) \/ UninstallReturns(p)
  BY <1>4, <1>15 DEF ReleaseTransaction, UninstallReturns
<1>16. CASE TearDown(p) \/ UnlinkLock(p)
  <2>1. /\ pc[p] \in {"teardown", "unlink"} /\ pc'[p] \in {"unlink", "unlock"} /\ Kept
        /\ dirty'[p] = dirty[p]
    BY <1>16 DEF TearDown, UnlinkLock
  <2>2. Placed(p)' /\ Marked(p)'
    BY <1>w, <2>1 DEF Placed, Marked, Open, Reversible, Late, Task
  <2>3. Routed(p)'
    BY <1>w, <2>1, WantedStays DEF Routed, Working, Applying, Reversible
  <2> QED
    BY <1>3, <2>1, <2>2, <2>3 DEF Task
\* The rollback, one effect after the other.
<1>17. CASE UndoReference(p) \/ UndoManifest(p) \/ UndoConfig(p) \/ UndoTree(p)
              \/ UndoTransaction(p)
  <2>1. pc[p] = "undo" /\ pc'[p] = "undo" /\ Kept
    BY <1>17 DEF UndoReference, UndoManifest, UndoConfig, UndoTree, UndoTransaction, Undo,
                 Undid, Missed
  <2>2. /\ tree[a] \in {plan[p].tree, Absent, Wanted(p)}
        /\ (Installing(p) => "installed" \notin dirty[p])
        /\ \/ "incomplete" \in dirty[p]
           \/ /\ "tree" \in dirty[p] \/ tree[a] = plan[p].tree
              /\ "config" \in dirty[p] \/ config = plan[p].config
              /\ "manifest" \in dirty[p] \/ manifest = plan[p].manifest
              /\ manifest \in {plan[p].manifest, WantedManifest(p)}
    BY <1>w, <2>1 DEF Working, Routed, Task, Marked, Open
  <2>3. /\ tree'[a] \in {plan[p].tree, Absent, Wanted(p)}
        /\ "incomplete" \in dirty'[p] \/ Recalled
        /\ (Installing(p) => "installed" \notin dirty'[p])
    <3>1. CASE UndoReference(p) \/ UndoTransaction(p)
      BY <1>2, <2>2, <3>1 DEF UndoReference, UndoTransaction, Undid, Missed, Clean, scope
    <3>2. CASE UndoManifest(p)
      BY <1>2, <2>2, <3>2 DEF UndoManifest, Undid, Missed, Clean
    <3>3. CASE UndoConfig(p)
      BY <1>2, <2>2, <3>3 DEF UndoConfig, Undid, Missed, Clean
    <3>4. CASE UndoTree(p)
      BY <1>2, <2>2, <3>4 DEF UndoTree, Undid, Missed, Clean
    <3> QED
      BY <1>17, <3>1, <3>2, <3>3, <3>4
  <2> QED
    BY <1>5, <2>1, <2>3
<1>18. CASE Undone(p)
  <2>1. CASE Return(p)
    BY <1>4, <2>1
  <2>2. CASE ~Return(p)
    <3>1. /\ pc[p] = "undo" /\ pc'[p] = "incomplete" /\ Kept /\ dirty'[p] = dirty[p]
          /\ UNCHANGED scope /\ "incomplete" \in dirty[p]
      BY <1>18, <2>2 DEF Undone
    <3>2. Placed(p)' /\ Routed(p)' /\ Marked(p)'
      BY <1>w, <3>1, WantedStays DEF Placed, Routed, Marked, Open, scope, Working, Late,
                                       Reversible
    <3> QED
      BY <1>3, <3>1, <3>2 DEF Task
  <2> QED
    BY <2>1, <2>2
<1> QED
  BY <1>7, <1>8, <1>9, <1>10, <1>11, <1>12, <1>13, <1>14, <1>15, <1>16, <1>17, <1>18 DEF Run
-----------------------------------------------------------------------------
(* Objects under the references.                                            *)

\* What the index names is in the store, and the collector leaves it there.
Held == Referenced \subseteq objects /\ (lease = "gc" => doomed \cap Referenced = {})

\* Every record of a state has its installed reference in the index, but for
\* those in free.
Backed(m, free, index) ==
    \A a \in Arts \ free : Records(m)[a] # Absent =>
        Ref("installed", a, Records(m)[a]) \in index

\* An uninstall has dropped the reference and may still take that back.
Dropped(p) ==
    /\ ~Installing(p)
    /\ pc[p] \in {"verify", "mismatch"} \/ (pc[p] = "undo" /\ "installed" \in dirty[p])

\* An install counts on its transaction reference.
Transacting(p) ==
    /\ Installing(p)
    /\ \/ pc[p] \in {"tree", "config", "manifest", "reference"}
       \/ pc[p] = "undo" /\ dirty[p] \cap {"manifest", "transaction"} # {}

\* An owner has one installed reference, or none.
Single ==
    \A r, s \in refs :
        r.kind = "installed" /\ s.kind = "installed" /\ r.owner = s.owner => r.digest = s.digest

\* What an uninstall would put back is the reference of the record.
Known(p) == Open(p) /\ ~Installing(p) => ReviewedDigests(p) = {plan[p].digest}

Retains(p) ==
    /\ Open(p) /\ "incomplete" \notin dirty[p] =>
          Backed(plan[p].manifest, IF Dropped(p) THEN {plan[p].art} ELSE {}, refs)
    /\ pc[p] = "retain" => plan[p].digest \in objects /\ lease = "free"
    /\ Dropped(p) => /\ plan[p].digest \in objects /\ lease = "free"
                     /\ manifest = WantedManifest(p)
    /\ pc[p] \in {"verify", "mismatch"} => OwnedBy("installed", plan[p].art) = {}
    /\ Transacting(p) => /\ "transaction" \in dirty[p]
                         /\ Ref("transaction", plan[p].art, plan[p].digest) \in refs

Retention ==
    Safe => /\ Held /\ Single
            /\ \A p \in Procs : Known(p) /\ (Working(p) => Retains(p))
            /\ (\A p \in Procs : ~Open(p)) => Backed(manifest, {}, refs)

\* A transaction reference is that of an install at work.
Transactions ==
    Faults \subseteq {"edit"} =>
        \A r \in refs : r.kind = "transaction" =>
            \E p \in Procs : /\ pc[p] \in {"tree", "config", "manifest", "reference", "release"}
                             /\ Installing(p) /\ plan[p].art = r.owner

\* What is asked of the index while the scope is at rest.
Rested(p) == pc[p] = "check" \/ (Working(p) /\ ~Open(p)) => Backed(manifest, {}, refs)

\* Without "release" an update that errs has left the index alone.
LEMMA ErrKeeps ==
    ASSUME Safe, NEW k, NEW a, NEW ds, ReplaceErr(k, a, ds)
    PROVE  refs' = refs
BY DEF Safe, ReplaceErr

\* New references to objects of the store leave every reference satisfied.
LEMMA ReplaceHolds ==
    ASSUME NEW k, NEW a, NEW ds, Held, ReplaceOk(k, a, ds), ds \subseteq objects,
           objects' = objects, lease' = lease
    PROVE  Held'
BY DEF Held, ReplaceOk, Replaced, Referenced, OwnedBy, Ref

\* Installed references go only with their owner.
LEMMA ReplaceBacks ==
    ASSUME NEW m, NEW free, NEW k, NEW a, NEW ds, ReplaceOk(k, a, ds),
           k = "installed" => a \in free \/ a \notin Arts, Backed(m, free, refs)
    PROVE  Backed(m, free, refs')
BY DEF ReplaceOk, Replaced, OwnedBy, Ref, Backed

\* What a command relies on in the store survives while it works.
LEMMA RunRetains ==
    ASSUME NEW p \in Procs, Safe, TypeInv, Task(p), Run(p), Held, Known(p),
           Working(p) => Retains(p), Rested(p), Working(p) \/ pc[p] = "check"
    PROVE  /\ Held' /\ (Working(p)' => Retains(p)')
           /\ ~Open(p)' => Backed(manifest', {}, refs')
<1> DEFINE a == plan[p].art
           d == plan[p].digest
<1>1. /\ plan[p] \in Plans /\ a \in Arts /\ d \in Digests /\ d # Absent
      /\ dirty[p] \subseteq Effects \cup {"incomplete"} /\ lease \in {"free", "gc"}
  BY InstallConstants DEF TypeInv, TypeOK, Plans, Working, Applying, Reversible
<1>2. Reviewed(p) /\ Marked(p) /\ (Working(p) => Placed(p) /\ Routed(p))
  BY DEF Task
<1>3. ASSUME UNCHANGED store PROVE Held' /\ refs' = refs /\ lease' = lease /\ objects' = objects
  BY <1>3 DEF store, Held, Referenced
<1>4. \A x : Ref("installed", a, x) \in refs \/ Ref("transaction", a, x) \in refs => x \in objects
  BY DEF Held, Referenced, Ref
\* The command is done with what it could take back.
<1>5. ASSUME pc'[p] \in {"idle", "release", "teardown", "unlink", "unlock"},
             Held', Backed(manifest', {}, refs')
      PROVE  /\ Held' /\ (Working(p)' => Retains(p)')
             /\ ~Open(p)' => Backed(manifest', {}, refs')
  BY <1>5 DEF Open, Reversible, Retains, Dropped, Transacting
<1>6. ASSUME pc'[p] \in Reversible \cup {"undo", "incomplete"}, Held', Retains(p)'
      PROVE  /\ Held' /\ (Working(p)' => Retains(p)')
             /\ ~Open(p)' => Backed(manifest', {}, refs')
  BY <1>6 DEF Open
<1> USE DEF Goto, TypeInv, TypeOK
<1>7. CASE Check(p)
  <2>1. Backed(manifest, {}, refs) /\ UNCHANGED store /\ UNCHANGED scope /\ pc[p] = "check"
    BY <1>7 DEF Check, Rested
  <2>2. CASE Return(p)
    BY <1>3, <1>5, <2>1, <2>2 DEF Return, scope
  <2>3. CASE ~Return(p)
    <3>1. /\ pc'[p] = IF Installing(p) THEN "retain" ELSE "tree"
          /\ plan'[p] = plan[p] /\ dirty'[p] = dirty[p] /\ manifest = plan[p].manifest
          /\ Installing(p) => d \in objects /\ lease = "free"
      BY <1>1, <1>7, <2>3 DEF Check, Proceed, PreconditionsCurrent, Safe
    <3>2. ~Dropped(p)' /\ ~Transacting(p)'
      BY <3>1, WantedStays DEF Dropped, Transacting
    <3>3. Retains(p)'
      BY <1>3, <2>1, <3>1, <3>2 DEF Retains
    <3> QED
      BY <1>3, <1>6, <2>1, <3>1, <3>3 DEF Reversible
  <2> QED
    BY <2>2, <2>3
<1>8. CASE Retain(p)
  <2>1. /\ pc[p] = "retain" /\ plan'[p] = plan[p] /\ dirty[p] = {}
        /\ UNCHANGED <<scope, objects, doomed, lease>>
        /\ \/ /\ pc'[p] = "tree" /\ dirty'[p] = {"transaction"}
              /\ ReplaceOk("transaction", a, {d})
           \/ pc'[p] = "undo" /\ dirty'[p] = {} /\ refs' = refs
    BY <1>2, <1>8, ErrKeeps DEF Retain, Proceed, Raise, Soil, Marked
  <2>2. /\ Working(p) /\ Installing(p) /\ d \in objects /\ ~Dropped(p)
        /\ Backed(plan[p].manifest, {}, refs)
    BY <1>2, <2>1 DEF Working, Applying, Reversible, Retains, Routed, Open, Dropped
  <2>3. ~Dropped(p)'
    BY <2>1, <2>2, WantedStays DEF Dropped
  <2>4. CASE pc'[p] = "tree"
    <3>1. Held' /\ Backed(plan[p].manifest, {}, refs')
      <4>1. ReplaceOk("transaction", a, {d})
        BY <2>1, <2>4
      <4>2. Held'
        BY <2>1, <2>2, <4>1, ReplaceHolds
      <4>3. Backed(plan[p].manifest, {}, refs')
        BY <2>2, <4>1, ReplaceBacks
      <4> QED
        BY <4>2, <4>3
    <3>2. Ref("transaction", a, d) \in refs'
      BY <2>1, <2>4 DEF ReplaceOk, Replaced, Ref
    <3>3. Retains(p)'
      BY <2>1, <2>3, <2>4, <3>1, <3>2 DEF Retains
    <3> QED
      BY <1>6, <2>4, <3>1, <3>3 DEF Reversible
  <2>5. CASE pc'[p] = "undo"
    <3>1. ~Transacting(p)'
      BY <2>1, <2>5 DEF Transacting
    <3>2. Retains(p)'
      BY <2>1, <2>2, <2>3, <2>5, <3>1 DEF Retains
    <3> QED
      BY <1>3, <1>6, <2>1, <2>5, <3>2 DEF store
  <2> QED
    BY <2>1, <2>4, <2>5
\* The effects leave the store alone.
<1>9. CASE ApplyTree(p) \/ ApplyConfig(p) \/ WriteManifest(p)
  <2>1. /\ pc[p] \in {"tree", "config", "manifest"} /\ plan'[p] = plan[p] /\ UNCHANGED store
        /\ pc'[p] \in {"config", "manifest", "reference", "undo"}
        /\ dirty[p] \subseteq dirty'[p] /\ dirty'[p] \subseteq dirty[p] \cup {"tree", "config", "manifest"}
    BY <1>1, <1>9 DEF ApplyTree, ApplyConfig, WriteManifest, Proceed, Raise, Soil
  <2>2. /\ Working(p) /\ ~Dropped(p) /\ "incomplete" \notin dirty[p] /\ "installed" \notin dirty[p]
        /\ Backed(plan[p].manifest, {}, refs)
    BY <1>2, <2>1 DEF Working, Applying, Reversible, Retains, Routed, Open, Dropped, Marked
  <2>3. ~Dropped(p)' /\ (Transacting(p)' => Transacting(p))
    BY <2>1, <2>2, WantedStays DEF Dropped, Transacting
  <2>4. Retains(p)'
    BY <1>3, <2>1, <2>2, <2>3 DEF Retains
  <2> QED
    BY <1>3, <1>6, <2>1, <2>4 DEF Reversible
\* The new object has its installed reference before the command counts as done.
<1>10. CASE Reference(p)
  <2>1. /\ pc[p] = "reference" /\ plan'[p] = plan[p] /\ dirty'[p] = dirty[p] /\ Installing(p)
        /\ UNCHANGED <<scope, objects, doomed, lease>>
        /\ \/ pc'[p] = "release" /\ ReplaceOk("installed", a, {d})
           \/ pc'[p] = "undo" /\ refs' = refs
    BY <1>10, ErrKeeps DEF Reference, Proceed, Raise
  <2>2. /\ Working(p) /\ Transacting(p) /\ ~Dropped(p) /\ manifest = WantedManifest(p)
        /\ Backed(plan[p].manifest, {}, refs) /\ "incomplete" \notin dirty[p]
        /\ "installed" \notin dirty[p]
    BY <1>2, <2>1 DEF Working, Applying, Reversible, Retains, Open, Dropped, Transacting,
                      Placed, Late, Marked, Routed
  <2>3. d \in objects
    BY <1>4, <2>2 DEF Retains
  <2>4. CASE pc'[p] = "release"
    <3>0. Backed(plan[p].manifest, {a}, refs)
      BY <2>2 DEF Backed
    <3>r. ReplaceOk("installed", a, {d})
      BY <2>1, <2>4
    <3>1. Held' /\ Backed(plan[p].manifest, {a}, refs')
      <4>1. Held'
        BY <2>1, <2>3, <3>r, ReplaceHolds
      <4>2. Backed(plan[p].manifest, {a}, refs')
        BY <3>0, <3>r, ReplaceBacks
      <4> QED
        BY <4>1, <4>2
    <3>2. Ref("installed", a, d) \in refs'
      BY <2>1, <2>4 DEF ReplaceOk, Replaced, Ref
    <3>3. /\ WantedManifest(p) \in Entries /\ WantedManifest(p)[a] = d
          /\ \A b \in Arts \ {a} : WantedManifest(p)[b] = Records(plan[p].manifest)[b]
      BY <1>1, <2>1, RecordsType DEF WantedManifest, Wanted, Plans, Entries
    <3>4. Records(manifest') = WantedManifest(p)
      BY <2>1, <2>2, <3>3, InstallConstants DEF scope, Records, Entries
    <3>5. Backed(manifest', {}, refs')
      BY <3>1, <3>2, <3>3, <3>4 DEF Backed
    <3> QED
      BY <1>5, <2>4, <3>1, <3>5
  <2>5. CASE pc'[p] = "undo"
    <3>1. ~Dropped(p)' /\ (Transacting(p)' => Transacting(p))
      BY <2>1, <2>2, <2>5, WantedStays DEF Dropped, Transacting
    <3>2. Retains(p)'
      BY <2>1, <2>2, <2>5, <3>1 DEF Retains
    <3> QED
      BY <1>3, <1>6, <2>1, <2>5, <3>2 DEF store
  <2> QED
    BY <2>1, <2>4, <2>5
<1>11. CASE ReleaseTransaction(p)
  <2>1. /\ pc[p] = "release" /\ pc'[p] = "idle" /\ manifest' = manifest
        /\ UNCHANGED <<objects, doomed, lease>>
        /\ ReplaceOk("transaction", a, {}) \/ refs' = refs
    BY <1>11, ErrKeeps DEF ReleaseTransaction, Return, scope
  <2>2. Backed(manifest, {}, refs)
    BY <2>1 DEF Rested, Working, Open, Applying, Reversible
  <2>3. Held' /\ Backed(manifest, {}, refs')
    <3>1. CASE ReplaceOk("transaction", a, {})
      <4>1. Held'
        BY <2>1, <3>1, ReplaceHolds
      <4>2. Backed(manifest, {}, refs')
        BY <2>2, <3>1, ReplaceBacks
      <4> QED
        BY <4>1, <4>2
    <3> QED
      BY <1>3, <2>1, <2>2, <3>1 DEF store
  <2> QED
    BY <1>5, <2>1, <2>3
<1>12. CASE DropReference(p)
  <2>1. /\ pc[p] = "reference" /\ plan'[p] = plan[p] /\ dirty'[p] = dirty[p] /\ ~Installing(p)
        /\ UNCHANGED <<scope, objects, doomed, lease>>
        /\ \/ pc'[p] \in {"verify", "mismatch"} /\ ReplaceOk("installed", a, {})
           \/ pc'[p] = "recheck" /\ refs' = refs
    BY <1>12, ErrKeeps DEF DropReference, Proceed
  <2>2. /\ Working(p) /\ ~Dropped(p) /\ manifest = WantedManifest(p)
        /\ Backed(plan[p].manifest, {}, refs) /\ ~Transacting(p)
    BY <1>2, <2>1 DEF Working, Applying, Reversible, Retains, Open, Dropped, Transacting,
                      Placed, Late, Marked
  <2>3. ~Transacting(p)' /\ WantedManifest(p)' = WantedManifest(p)
    BY <2>1, WantedStays DEF Transacting
  <2>4. CASE pc'[p] \in {"verify", "mismatch"}
    <3>1. Records(plan[p].manifest)[a] = d
      BY <1>1, <1>2, <2>1, InstallConstants DEF Reviewed, Records, Plans, Installing, Entries
    <3>2. Ref("installed", a, d) \in refs
      BY <1>1, <2>2, <3>1 DEF Backed
    <3>0. Backed(plan[p].manifest, {a}, refs)
      BY <2>2 DEF Backed
    <3>r. ReplaceOk("installed", a, {})
      BY <2>1, <2>4
    <3>3. Held' /\ Backed(plan[p].manifest, {a}, refs')
      <4>1. Held'
        BY <2>1, <3>r, ReplaceHolds
      <4>2. Backed(plan[p].manifest, {a}, refs')
        BY <3>0, <3>r, ReplaceBacks
      <4> QED
        BY <4>1, <4>2
    <3>4. OwnedBy("installed", a)' = {} /\ lease = "free"
      BY <2>1, <2>4 DEF ReplaceOk, Replaced, OwnedBy
    <3>5. Dropped(p)'
      BY <2>1, <2>4, WantedStays DEF Dropped
    <3>6. Retains(p)'
      BY <1>4, <2>1, <2>2, <2>3, <2>4, <3>2, <3>3, <3>4, <3>5 DEF Retains, scope, OwnedBy
    <3> QED
      BY <1>6, <2>4, <3>3, <3>6 DEF Reversible
  <2>5. CASE pc'[p] = "recheck"
    <3>1. ~Dropped(p)'
      BY <2>5 DEF Dropped
    <3>2. Retains(p)'
      BY <2>1, <2>2, <2>3, <2>5, <3>1 DEF Retains
    <3> QED
      BY <1>3, <1>6, <2>1, <2>5, <3>2 DEF store, Reversible
  <2> QED
    BY <2>1, <2>4, <2>5
<1>13. CASE VerifyReference(p)
  <2>1. /\ pc[p] \in {"verify", "mismatch", "recheck"} /\ plan'[p] = plan[p]
        /\ UNCHANGED store /\ UNCHANGED scope /\ pc'[p] \in {"teardown", "undo"}
    BY <1>13 DEF VerifyReference, Proceed, Raise
  <2>r. "reread" \notin Faults
    BY DEF Safe
  <2>2. /\ Working(p) /\ ~Installing(p) /\ manifest = WantedManifest(p)
        /\ Dropped(p) <=> pc[p] # "recheck"
        /\ Backed(plan[p].manifest, IF Dropped(p) THEN {a} ELSE {}, refs)
        /\ "incomplete" \notin dirty[p] /\ "installed" \notin dirty[p]
    BY <1>2, <2>1 DEF Working, Applying, Reversible, Retains, Open, Dropped,
                      Placed, Late, Marked, Routed
  <2>3. CASE pc'[p] = "teardown"
    <3>1. /\ WantedManifest(p) \in Entries /\ WantedManifest(p)[a] = Absent
          /\ \A b \in Arts \ {a} : WantedManifest(p)[b] = Records(plan[p].manifest)[b]
      BY <1>1, <2>2, RecordsType DEF WantedManifest, Wanted, Plans, Entries
    <3>2. Records(manifest') = WantedManifest(p)
      BY <2>1, <2>2, <3>1, InstallConstants DEF scope, Records, Entries
    <3>3. Backed(manifest', {}, refs)
      BY <2>2, <3>1, <3>2 DEF Backed
    <3> QED
      BY <1>3, <1>5, <2>1, <2>3, <3>3
  <2>4. CASE pc'[p] = "undo"
    <3>1. Dropped(p) => OwnedBy("installed", a) = {}
      BY <2>1, <2>2 DEF Retains
    <3>2. /\ "installed" \in dirty'[p] <=> Dropped(p)
          /\ "incomplete" \notin dirty'[p]
      BY <1>13, <2>r, <2>2, <2>4, <3>1 DEF VerifyReference, Soil, Proceed, Raise
    <3>3. /\ Dropped(p)' <=> Dropped(p)
          /\ ~Transacting(p)' /\ WantedManifest(p)' = WantedManifest(p)
      BY <2>1, <2>2, <2>4, <3>2, WantedStays DEF Dropped, Transacting
    <3>4. Retains(p)'
      BY <1>3, <2>1, <2>2, <2>4, <3>2, <3>3 DEF Retains, scope
    <3> QED
      BY <1>3, <1>6, <2>1, <2>4, <3>4
  <2> QED
    BY <2>1, <2>3, <2>4
<1>14. CASE TearDown(p) \/ UnlinkLock(p) \/ UninstallReturns(p)
  <2>1. /\ pc[p] \in {"teardown", "unlink", "unlock"} /\ pc'[p] \in {"unlink", "unlock", "idle"}
        /\ UNCHANGED store /\ manifest' \in {manifest, NoState}
    BY <1>14 DEF TearDown, UnlinkLock, UninstallReturns, Return, scope
  <2>2. Backed(manifest, {}, refs)
    BY <2>1 DEF Rested, Working, Open, Applying, Reversible
  <2>3. Backed(NoState, {}, refs)
    BY DEF Backed, Records, Emptied
  <2> QED
    BY <1>3, <1>5, <2>1, <2>2, <2>3
<1>15. CASE UndoReference(p)
  <2>1. /\ pc[p] = "undo" /\ pc'[p] = "undo" /\ plan'[p] = plan[p] /\ "installed" \in dirty[p]
        /\ UNCHANGED <<scope, objects, doomed, lease>> /\ "installed" \notin dirty'[p]
        /\ \/ ReplaceOk("installed", a, {d}) /\ dirty'[p] = dirty[p] \ {"installed"}
           \/ refs' = refs /\ "incomplete" \in dirty'[p]
    <3>1. pc[p] = "undo" /\ "installed" \in dirty[p]
      BY <1>15 DEF UndoReference, Undo
    <3>2. ReviewedDigests(p) = {d}
      BY <1>2, <3>1 DEF Known, Open, Routed, Working
    <3> QED
      BY <1>1, <1>15, <3>2 DEF UndoReference, Undo, Undid, Missed, Clean
  <2>2. Working(p) /\ ~Installing(p) /\ Dropped(p) /\ d \in objects
    BY <1>2, <2>1 DEF Working, Retains, Dropped, Routed
  <2>3. ~Dropped(p)' /\ ~Transacting(p)'
    BY <2>1, <2>2, WantedStays DEF Dropped, Transacting
  <2>4. CASE ReplaceOk("installed", a, {d}) /\ dirty'[p] = dirty[p] \ {"installed"}
    <3>1. "incomplete" \notin dirty'[p] => Backed(plan[p].manifest, {a}, refs)
      BY <2>1, <2>2, <2>4 DEF Retains, Open
    <3>2. Held' /\ ("incomplete" \notin dirty'[p] => Backed(plan[p].manifest, {a}, refs'))
      <4>1. Held'
        BY <2>1, <2>2, <2>4, ReplaceHolds
      <4>2. Backed(plan[p].manifest, {a}, refs) => Backed(plan[p].manifest, {a}, refs')
        BY <2>4, ReplaceBacks
      <4> QED
        BY <3>1, <4>1, <4>2
    <3>3. Records(plan[p].manifest)[a] = d
      BY <1>1, <1>2, <2>1, <2>2, InstallConstants DEF Reviewed, Records, Plans, Installing, Entries
    <3>4. Ref("installed", a, d) \in refs'
      BY <2>4 DEF ReplaceOk, Replaced, Ref
    <3>5. "incomplete" \notin dirty'[p] => Backed(plan[p].manifest, {}, refs')
      BY <3>2, <3>3, <3>4 DEF Backed
    <3>6. Retains(p)'
      BY <2>1, <2>3, <3>5 DEF Retains
    <3> QED
      BY <1>6, <2>1, <3>2, <3>6
  <2>5. CASE refs' = refs /\ "incomplete" \in dirty'[p]
    <3>1. Retains(p)'
      BY <2>1, <2>3, <2>5 DEF Retains
    <3> QED
      BY <1>3, <1>6, <2>1, <2>5, <3>1 DEF store
  <2> QED
    BY <2>1, <2>4, <2>5
<1>16. CASE UndoManifest(p) \/ UndoConfig(p) \/ UndoTree(p)
  <2>1. /\ pc[p] = "undo" /\ pc'[p] = "undo" /\ plan'[p] = plan[p] /\ UNCHANGED store
        /\ "installed" \notin dirty'[p] /\ dirty'[p] \subseteq dirty[p] \cup {"incomplete"}
        /\ "incomplete" \in dirty[p] => "incomplete" \in dirty'[p]
        /\ dirty'[p] \cap {"transaction"} = dirty[p] \cap {"transaction"}
    BY <1>1, <1>16 DEF UndoManifest, UndoConfig, UndoTree, Undo, Undid, Missed, Clean
  <2>2. Working(p) /\ ~Dropped(p)
    BY <1>16, <2>1 DEF Working, Dropped, UndoManifest, UndoConfig, UndoTree, Undo
  <2>3. ~Dropped(p)' /\ (Transacting(p)' => Transacting(p))
    BY <2>1, <2>2, WantedStays DEF Dropped, Transacting
  <2>4. Retains(p)'
    BY <1>3, <2>1, <2>2, <2>3 DEF Retains, Open
  <2> QED
    BY <1>3, <1>6, <2>1, <2>4
<1>17. CASE UndoTransaction(p)
  <2>1. /\ pc[p] = "undo" /\ pc'[p] = "undo" /\ plan'[p] = plan[p]
        /\ UNCHANGED <<scope, objects, doomed, lease>>
        /\ ReplaceOk("transaction", a, {}) \/ refs' = refs
        /\ dirty'[p] = dirty[p] \ {"transaction"} /\ {"installed", "manifest"} \cap dirty[p] = {}
    BY <1>1, <1>17, ErrKeeps DEF UndoTransaction, Undo, Undid, Clean
  <2>2. Working(p) /\ ~Dropped(p) /\ ~Dropped(p)' /\ ~Transacting(p)'
    BY <2>1 DEF Working, Dropped, Transacting
  <2>3. "incomplete" \notin dirty'[p] => Backed(plan[p].manifest, {}, refs)
    BY <2>1, <2>2 DEF Retains, Open
  <2>4. Held' /\ ("incomplete" \notin dirty'[p] => Backed(plan[p].manifest, {}, refs'))
    <3>1. CASE ReplaceOk("transaction", a, {})
      <4>1. Held'
        BY <2>1, <3>1, ReplaceHolds
      <4>2. Backed(plan[p].manifest, {}, refs) => Backed(plan[p].manifest, {}, refs')
        BY <3>1, ReplaceBacks
      <4> QED
        BY <2>3, <4>1, <4>2
    <3> QED
      BY <1>3, <2>1, <2>3, <3>1 DEF store
  <2>5. Retains(p)'
    BY <2>1, <2>2, <2>4 DEF Retains
  <2> QED
    BY <1>6, <2>1, <2>4, <2>5
<1>18. CASE Undone(p)
  <2>1. /\ pc[p] = "undo" /\ UNCHANGED store /\ UNCHANGED scope
        /\ dirty[p] \subseteq {"incomplete"}
    BY <1>18 DEF Undone
  <2>2. CASE dirty[p] = {}
    <3>1. Working(p) /\ ~Dropped(p) /\ manifest = plan[p].manifest /\ pc'[p] = "idle"
      BY <1>2, <1>18, <2>1, <2>2 DEF Working, Dropped, Marked, Open, Undone, Return
    <3>2. Backed(manifest, {}, refs)
      BY <2>1, <2>2, <3>1 DEF Retains, Open
    <3> QED
      BY <1>3, <1>5, <2>1, <3>1, <3>2 DEF scope
  <2>3. CASE dirty[p] # {}
    <3>1. pc'[p] = "incomplete" /\ "incomplete" \in dirty'[p]
      BY <1>18, <2>1, <2>3 DEF Undone
    <3>2. Retains(p)'
      BY <3>1 DEF Retains, Dropped, Transacting
    <3> QED
      BY <1>3, <1>6, <2>1, <3>1, <3>2
  <2> QED
    BY <2>2, <2>3
<1>19. ~Finalize(p) /\ ~Flock(p)
  BY DEF Finalize, Flock, Working, Applying, Reversible
<1> QED
  BY <1>7, <1>8, <1>9, <1>10, <1>11, <1>12, <1>13, <1>14, <1>15, <1>16, <1>17, <1>18, <1>19
     DEF Run

-----------------------------------------------------------------------------
(* The inductive invariant of the scope and its store.                      *)

\* Where nothing fails, nothing is taken back, and an uninstall finds the
\* reference index as it was reviewed.
Undisturbed ==
    Calm => \A p \in Procs :
        /\ pc[p] \notin {"undo", "incomplete", "mismatch", "recheck"}
        /\ pc[p] \in {"tree", "config", "manifest", "reference"} /\ ~Installing(p) =>
              refs = plan[p].refs
        /\ pc[p] = "verify" => refs = WantedRefs(p)

\* At a command's check, and from there on, the scope is its own.
Busy(p) == Working(p) \/ pc[p] = "check"

IInv ==
    /\ TypeInv /\ (Calm => LockInv)
    /\ \A p \in Procs : Task(p)
    /\ Undisturbed /\ Retention /\ Transactions

\* No second command is busy: there is none, or it would have the lock.
LEMMA Excluded ==
    ASSUME Apart, IInv, NEW p \in Procs, NEW q \in Procs, Busy(p), Busy(q)
    PROVE  p = q
<1>1. CASE Alone
  BY <1>1 DEF Alone
<1>2. CASE Calm
  <2>1. p \in flocked /\ q \in flocked
    BY <1>2 DEF IInv, LockInv, OneLocker, Undisturbed, Busy, Working, Applying, Reversible
  <2> QED
    BY <1>2, <2>1 DEF IInv, LockInv, OneLocker
<1> QED
  BY <1>1, <1>2 DEF Apart

LEMMA IInvInit == Init => IInv
<1> SUFFICES ASSUME Init PROVE IInv
  OBVIOUS
<1> USE InstallConstants
<1>1. TypeInv /\ (Calm => LockInv)
  BY TypeInit, LockInit DEF Calm
<1>2. \A p \in Procs : pc[p] = "idle" /\ dirty[p] = {}
  BY DEF Init
<1>3. \A p \in Procs : Task(p) /\ ~Working(p) /\ ~Open(p)
  BY <1>2 DEF Task, Reviewed, Working, Open, Marked, Applying, Reversible
<1>4. Undisturbed
  BY <1>2 DEF Undisturbed
<1>5. Transactions
  BY DEF Transactions, Init, Ref
<1>6. Held /\ Single /\ \A p \in Procs : Known(p)
  BY <1>3 DEF Held, Init, Referenced, Single, Known, Ref
<1>7. Backed(manifest, {}, refs)
  <2>1. CASE Preinstalled = {}
    BY <2>1 DEF Init, Backed, Records, Emptied
  <2>2. CASE Preinstalled # {}
    <3>1. manifest \in Entries
      BY <2>2 DEF Init, Entries
    <3>2. Records(manifest) = manifest
      BY <3>1 DEF Records, Entries
    <3> QED
      BY <2>2, <3>2 DEF Init, Backed, Ref
  <2> QED
    BY <2>1, <2>2
<1> QED
  BY <1>1, <1>3, <1>4, <1>5, <1>6, <1>7 DEF IInv, Retention

\* Every command keeps to its task.
LEMMA TasksStep ==
    ASSUME Apart, IInv, [Next]_vars
    PROVE  \A p \in Procs : Task(p)'
<1> SUFFICES ASSUME NEW q \in Procs PROVE Task(q)'
  OBVIOUS
<1>1. Task(q) /\ TypeInv
  BY DEF IInv
<1>2. CASE UNCHANGED procvars /\ UNCHANGED scope
  BY <1>1, <1>2, TaskFrame DEF procvars
<1>3. ASSUME NEW p \in Procs, Prepare(p) PROVE Task(q)'
  <2>1. CASE p = q
    BY <1>1, <1>3, <2>1, PrepareTask
  <2>2. CASE p # q
    <3>1. pc'[q] = pc[q] /\ plan'[q] = plan[q] /\ dirty'[q] = dirty[q] /\ UNCHANGED scope
      BY <1>1, <1>3, <2>2 DEF Prepare, PrepareInstall, PrepareUninstall, Goto, TypeInv, TypeOK
    <3> QED
      BY <1>1, <3>1, TaskFrame
  <2> QED
    BY <2>1, <2>2
<1>4. ASSUME NEW p \in Procs, Run(p) PROVE Task(q)'
  <2>1. CASE p = q
    BY <1>1, <1>4, <2>1, RunTask
  <2>2. CASE p # q
    <3>1. UNCHANGED scope \/ ~Working(q)
      BY <1>1, <1>4, <2>2, RunFrame, Excluded DEF Busy
    <3> QED
      BY <1>1, <1>4, <2>2, <3>1, RunFrame, TaskFrame
  <2> QED
    BY <2>1, <2>2
<1>5. ASSUME NEW a \in Arts, Edit(a) PROVE Task(q)'
  <2>1. ~Working(q) /\ UNCHANGED procvars
    BY <1>5 DEF Edit, Working, Applying, Reversible
  <2> QED
    BY <1>1, <2>1, TaskFrame DEF procvars
<1>6. CASE Collect \/ (\E d \in Digests : Materialize(d))
             \/ \E o \in Others, d \in Digests : Elsewhere(o, d)
  BY <1>2, <1>6 DEF Collect, CollectPlan, CollectDelete, CollectReturns, Materialize, Elsewhere
<1>7. CASE UNCHANGED vars
  BY <1>2, <1>7 DEF vars
<1> QED
  BY <1>3, <1>4, <1>5, <1>6, <1>7 DEF Next

\* A step that keeps the references, the state and the lease, and deletes no
\* object, keeps what a command relies on.
LEMMA RetainsFrame ==
    ASSUME NEW q \in Procs, Retains(q), pc'[q] = pc[q], plan'[q] = plan[q], dirty'[q] = dirty[q],
           refs' = refs, manifest' = manifest, lease' = lease, objects \subseteq objects'
    PROVE  Retains(q)'
<1>1. /\ Dropped(q)' <=> Dropped(q)
      /\ Transacting(q)' <=> Transacting(q)
      /\ Open(q)' <=> Open(q)
  BY WantedStays DEF Dropped, Transacting, Open
<1>2. WantedManifest(q)' = WantedManifest(q)
  BY WantedStays
<1> QED
  BY <1>1, <1>2 DEF Retains, OwnedBy

\* New references of an owner, of one object at most, replace all it had.
LEMMA SingleReplaced ==
    ASSUME NEW k, NEW a, NEW ds, Single, refs' = Replaced(k, a, ds), \A x, y \in ds : x = y
    PROVE  Single'
BY DEF Single, Replaced, OwnedBy, Ref

\* What an uninstall found in the index when it was reviewed, and finds again at its
\* check, is the reference of the record and that alone.
LEMMA KnownStep ==
    ASSUME Apart, IInv, [Next]_vars, Safe
    PROVE  Single' /\ \A q \in Procs : Known(q)'
<1>1. TypeInv /\ Single /\ \A q \in Procs : Task(q) /\ Known(q)
  BY DEF IInv, Retention
<1>2. ASSUME NEW q \in Procs, plan'[q] = plan[q], Open(q)' => Open(q) PROVE Known(q)'
  BY <1>1, <1>2, WantedStays DEF Known
<1>3. ASSUME NEW p \in Procs, Prepare(p) PROVE Single' /\ \A q \in Procs : Known(q)'
  <2>1. /\ refs' = refs /\ pc'[p] = "finalize"
        /\ \A q \in Procs \ {p} : pc'[q] = pc[q] /\ plan'[q] = plan[q]
    BY <1>1, <1>3 DEF Prepare, PrepareInstall, PrepareUninstall, Goto, TypeInv, TypeOK, store
  <2>2. Single'
    BY <1>1, <2>1 DEF Single
  <2>3. Known(p)'
    BY <2>1 DEF Known, Open, Reversible
  <2>4. \A q \in Procs \ {p} : Known(q)'
    BY <1>2, <2>1 DEF Open
  <2> QED BY <2>2, <2>3, <2>4
<1>4. ASSUME NEW p \in Procs, Run(p) PROVE \A q \in Procs : Known(q)'
  <2>1. \A q \in Procs \ {p} : Known(q)'
    BY <1>1, <1>2, <1>4, RunFrame DEF Open
  <2> SUFFICES Known(p)'
    BY <2>1
  <2>2. CASE Check(p)
    <3>1. CASE Return(p)
      BY <1>1, <3>1 DEF Return, Goto, Known, Open, Reversible, TypeInv, TypeOK
    <3>2. CASE ~Return(p) /\ ~Installing(p)
      <4> DEFINE a == plan[p].art
                 d == plan[p].digest
      <4>1. /\ refs = plan[p].refs /\ manifest = plan[p].manifest /\ plan'[p] = plan[p] /\ pc[p] = "check"
        BY <1>1, <2>2, <3>2 DEF Check, Proceed, PreconditionsCurrent
      <4>2. plan[p] \in Plans /\ a \in Arts /\ d # Absent
        BY <1>1, <4>1, InstallConstants DEF TypeInv, TypeOK, Plans
      <4>3. manifest \in Entries /\ manifest[a] = d
        BY <1>1, <3>2, <4>1, <4>2 DEF Task, Reviewed, Installing, Plans
      <4>4. Records(manifest)[a] = d
        BY <4>3, InstallConstants DEF Records, Entries
      <4>5. \A q \in Procs : ~Open(q)
        <5>1. ~Open(p)
          BY <4>1 DEF Open, Reversible
        <5>2. \A q \in Procs \ {p} : ~Open(q)
          BY <4>1, Excluded DEF Busy, Working, Open, Applying
        <5> QED BY <5>1, <5>2
      <4>6. Ref("installed", a, d) \in refs
        BY <4>2, <4>4, <4>5 DEF IInv, Retention, Backed
      <4>7. ReviewedDigests(p) = {d}
        BY <1>1, <4>1, <4>6 DEF Single, ReviewedDigests, Ref
      <4> QED
        BY <4>1, <4>7, WantedStays DEF Known
    <3>3. CASE ~Return(p) /\ Installing(p)
      <4>1. plan'[p] = plan[p]
        BY <1>1, <2>2, <3>3 DEF Check, Proceed
      <4> QED BY <3>3, <4>1, WantedStays DEF Known
    <3> QED BY <3>1, <3>2, <3>3
  <2>3. CASE ~Check(p)
    <3>1. Open(p)' => Open(p) /\ plan'[p] = plan[p]
      BY <1>1, <1>4, <2>3 DEF Run, Open, Reversible, Finalize, Flock, Retain, ApplyTree, ApplyConfig,
         WriteManifest, Reference, ReleaseTransaction, DropReference, VerifyReference, TearDown, UnlinkLock,
         UninstallReturns, UndoReference, UndoManifest, UndoConfig, UndoTree, UndoTransaction, Undo, Undid,
         Missed, Undone, Return, Raise, Proceed, Goto, TypeInv, TypeOK
    <3> QED
      BY <1>2, <3>1 DEF Known
  <2> QED BY <2>1, <2>2, <2>3
<1>5. ASSUME NEW p \in Procs, Run(p) PROVE Single'
  <2>1. CASE UndoReference(p)
    <3>1. pc[p] = "undo" /\ "installed" \in dirty[p]
      BY <2>1 DEF UndoReference, Undo
    <3>2. ReviewedDigests(p) = {plan[p].digest}
      BY <1>1, <3>1 DEF Known, Open, Task, Routed, Working
    <3>3. refs' = refs \/ refs' = Replaced("installed", plan[p].art, {plan[p].digest})
      BY <2>1, <3>2 DEF UndoReference, ReplaceOk
    <3> QED
      BY <1>1, <3>3, SingleReplaced DEF Single
  <2>2. CASE ~UndoReference(p)
    <3>1. refs' = refs \/ \E k \in Kinds, ds \in {{}, {plan[p].digest}} : refs' = Replaced(k, plan[p].art, ds)
      BY <1>5, <2>2 DEF Run, Finalize, Flock, Check, Retain, ApplyTree, ApplyConfig, WriteManifest, Reference,
         ReleaseTransaction, DropReference, VerifyReference, TearDown, UnlinkLock, UninstallReturns,
         UndoManifest, UndoConfig, UndoTree, UndoTransaction, Undone, ReplaceOk, ReplaceErr, Kinds, store
    <3>2. \A ds \in {{}, {plan[p].digest}} : \A x, y \in ds : x = y
      OBVIOUS
    <3> QED
      BY <1>1, <3>1, <3>2, SingleReplaced DEF Single
  <2> QED BY <2>1, <2>2
<1>6. ASSUME NEW o \in Others, NEW d \in Digests, Elsewhere(o, d) PROVE Single'
  <2>1. PICK ds \in {{}, {d}} : refs' = Replaced("installed", o, ds)
    BY <1>6 DEF Elsewhere
  <2>2. \A x, y \in ds : x = y
    BY <2>1
  <2> QED BY <1>1, <2>1, <2>2, SingleReplaced
<1>7. ASSUME UNCHANGED procvars PROVE \A q \in Procs : Known(q)'
  BY <1>2, <1>7 DEF procvars, Open
<1>8. ASSUME refs' = refs PROVE Single'
  BY <1>1, <1>8 DEF Single
<1>9. CASE Collect \/ (\E d \in Digests : Materialize(d)) \/ (\E a \in Arts : Edit(a)) \/ UNCHANGED vars
  <2>1. refs' = refs /\ UNCHANGED procvars
    BY <1>9 DEF Collect, CollectPlan, CollectDelete, CollectReturns, Materialize, Edit, store, vars
  <2> QED BY <1>7, <1>8, <2>1
<1>10. ASSUME NEW o \in Others, NEW d \in Digests, Elsewhere(o, d) PROVE Single' /\ \A q \in Procs : Known(q)'
  BY <1>6, <1>7, <1>10 DEF Elsewhere
<1> QED
  BY <1>3, <1>4, <1>5, <1>9, <1>10 DEF Next

\* Neither commands nor the collector nor other scopes take an object from
\* under a record or from under a command that relies on it.
LEMMA RetentionStep ==
    ASSUME Apart, IInv, [Next]_vars
    PROVE  Retention'
<1> SUFFICES ASSUME Safe
             PROVE  /\ Held' /\ \A q \in Procs : Working(q)' => Retains(q)'
                    /\ (\A q \in Procs : ~Open(q)') => Backed(manifest', {}, refs')
  BY KnownStep DEF Retention
<1> DEFINE Goal == /\ Held' /\ \A q \in Procs : Working(q)' => Retains(q)'
                   /\ (\A q \in Procs : ~Open(q)') => Backed(manifest', {}, refs')
<1>1. /\ TypeInv /\ Held /\ \A q \in Procs : Task(q) /\ Known(q) /\ (Working(q) => Retains(q))
      /\ (\A q \in Procs : ~Open(q)) => Backed(manifest, {}, refs)
  BY DEF IInv, Retention
\* The environment: no command moves.
<1>2. ASSUME UNCHANGED procvars, Held', manifest' = manifest,
             \A q \in Procs : Working(q) => Retains(q)',
             Backed(manifest, {}, refs) => Backed(manifest, {}, refs')
      PROVE  Goal
  <2>1. \A q \in Procs : (Working(q)' <=> Working(q)) /\ (Open(q)' <=> Open(q))
    BY <1>2 DEF procvars, Working, Open
  <2> QED
    BY <1>1, <1>2, <2>1
<1>3. ASSUME UNCHANGED store, UNCHANGED procvars, manifest' = manifest PROVE Goal
  <2>1. Held'
    BY <1>1, <1>3 DEF Held, Referenced, store
  <2>2. \A q \in Procs : Working(q) => Retains(q)'
    BY <1>1, <1>3, RetainsFrame DEF store, procvars
  <2> QED
    BY <1>2, <1>3, <2>1, <2>2 DEF store
\* A command that is not busy moves.
<1>4. ASSUME NEW p \in Procs, UNCHANGED store, UNCHANGED scope, ~Open(p), ~Working(p)',
             \A q \in Procs \ {p} : pc'[q] = pc[q] /\ plan'[q] = plan[q] /\ dirty'[q] = dirty[q]
      PROVE  Goal
  <2>1. Held'
    BY <1>1, <1>4 DEF Held, Referenced, store
  <2>2. \A q \in Procs : Working(q)' => Retains(q)'
    <3> SUFFICES ASSUME NEW q \in Procs, Working(q)' PROVE Retains(q)'
      OBVIOUS
    <3>1. q # p /\ Working(q)
      BY <1>4 DEF Working
    <3> QED
      BY <1>1, <1>4, <3>1, RetainsFrame DEF store, scope
  <2>3. (\A q \in Procs : ~Open(q)') => \A q \in Procs : ~Open(q)
    BY <1>4 DEF Open
  <2> QED
    BY <1>1, <1>4, <2>1, <2>2, <2>3 DEF store, scope
<1>5. ASSUME NEW p \in Procs, Prepare(p) PROVE Goal
  <2>1. /\ UNCHANGED store /\ UNCHANGED scope /\ pc[p] = "idle"
        /\ \A q \in Procs \ {p} : pc'[q] = pc[q] /\ plan'[q] = plan[q] /\ dirty'[q] = dirty[q]
    BY <1>1, <1>5 DEF Prepare, PrepareInstall, PrepareUninstall, Goto, TypeInv, TypeOK
  <2> QED
    BY <1>1, <1>4, <1>5, <2>1, PrepareTask DEF Open, Reversible
<1>6. ASSUME NEW p \in Procs, Run(p) PROVE Goal
  <2>1. \A q \in Procs \ {p} : pc'[q] = pc[q] /\ plan'[q] = plan[q] /\ dirty'[q] = dirty[q]
    BY <1>1, <1>6, RunFrame
  <2>2. CASE Busy(p)
    <3>1. \A q \in Procs \ {p} : ~Working(q) /\ ~Open(q)
      BY <2>2, Excluded DEF Busy, Working, Open, Applying
    <3>2. \A q \in Procs \ {p} : ~Working(q)'
      BY <2>1, <3>1 DEF Working
    <3>3. Rested(p)
      BY <1>1, <3>1 DEF Rested, Open, Reversible
    <3>4. /\ Held' /\ (Working(p)' => Retains(p)')
          /\ ~Open(p)' => Backed(manifest', {}, refs')
      BY <1>1, <1>6, <2>2, <3>3, RunRetains DEF Busy
    <3> QED
      BY <3>2, <3>4
  <2>3. CASE ~Busy(p)
    <3>1. UNCHANGED store /\ UNCHANGED scope /\ pc'[p] \in {"idle", "flock", "check"}
      BY <1>1, <1>6, <2>3 DEF Run, Busy, Working, Applying, Reversible, Finalize, Flock, Check,
         Retain, ApplyTree, ApplyConfig, WriteManifest, Reference, ReleaseTransaction,
         DropReference, VerifyReference, TearDown, UnlinkLock, UninstallReturns,
         UndoReference, UndoManifest, UndoConfig, UndoTree, UndoTransaction, Undo, Undone,
         Return, Goto, TypeInv, TypeOK
    <3>2. ~Open(p) /\ ~Working(p)'
      BY <2>3, <3>1 DEF Busy, Working, Open, Applying, Reversible
    <3> QED
      BY <1>4, <2>1, <3>1, <3>2
  <2> QED
    BY <2>2, <2>3
<1>7. ASSUME NEW d \in Digests, Materialize(d) PROVE Goal
  <2>1. Held' /\ manifest' = manifest /\ refs' = refs /\ UNCHANGED procvars
    BY <1>1, <1>7 DEF Materialize, Held, Referenced, scope
  <2>2. \A q \in Procs : Working(q) => Retains(q)'
    BY <1>1, <1>7, <2>1, RetainsFrame DEF Materialize, procvars
  <2> QED
    BY <1>2, <2>1, <2>2
<1>8. ASSUME NEW o \in Others, NEW d \in Digests, Elsewhere(o, d) PROVE Goal
  <2>1. PICK ds \in SUBSET objects : ReplaceOk("installed", o, ds)
    BY <1>8 DEF Elsewhere, ReplaceOk
  <2>2. o \notin Arts /\ manifest' = manifest /\ UNCHANGED procvars /\ UNCHANGED <<objects, lease>>
    BY <1>8, InstallConstants DEF Elsewhere, scope
  <2>3. Held'
    BY <1>1, <2>1, <2>2, ReplaceHolds
  <2>4. \A m, free : Backed(m, free, refs) => Backed(m, free, refs')
    BY <2>1, <2>2, ReplaceBacks
  <2>5. \A a \in Arts : OwnedBy("installed", a) = {} => OwnedBy("installed", a)' = {}
    BY <2>1, <2>2 DEF OwnedBy, ReplaceOk, Replaced, Ref
  <2>6. \A a, x : Ref("transaction", a, x) \in refs => Ref("transaction", a, x) \in refs'
    BY <2>1 DEF OwnedBy, ReplaceOk, Replaced, Ref
  <2>7. ASSUME NEW q \in Procs, Working(q) PROVE Retains(q)'
    <3>1. /\ Dropped(q)' <=> Dropped(q)
          /\ Transacting(q)' <=> Transacting(q)
          /\ Open(q)' <=> Open(q)
          /\ WantedManifest(q)' = WantedManifest(q)
      BY <2>2, WantedStays DEF Dropped, Transacting, Open, procvars
    <3>2. plan[q].art \in Arts /\ plan'[q] = plan[q] /\ pc'[q] = pc[q] /\ dirty'[q] = dirty[q]
      BY <1>1, <2>2, <2>7 DEF TypeInv, Plans, Working, Applying, Reversible, procvars
    <3>3. Retains(q)
      BY <1>1, <2>7
    <3> QED
      BY <2>2, <2>4, <2>5, <2>6, <3>1, <3>2, <3>3 DEF Retains
  <2> QED
    BY <1>2, <2>2, <2>3, <2>4, <2>7
\* A collection begins in no gap, and what is held when it begins stays held.
<1>9. ASSUME Collect PROVE Goal
  <2>1. /\ refs' = refs /\ manifest' = manifest /\ UNCHANGED procvars
        /\ lease = "gc" \/ ~GapOpen
    BY <1>9 DEF Collect, CollectPlan, CollectDelete, CollectReturns, scope, Safe
  <2>2. Held'
    BY <1>1, <1>9 DEF Collect, CollectPlan, CollectDelete, CollectReturns, Held, Referenced
  <2>3. ASSUME NEW q \in Procs, Working(q) PROVE Retains(q)'
    <3>1. pc[q] # "retain" /\ ~Dropped(q)
      BY <1>1, <2>1, <2>3 DEF Retains, GapOpen, Dropped, Task, Routed
    <3>2. /\ Dropped(q)' <=> Dropped(q)
          /\ Transacting(q)' <=> Transacting(q)
          /\ Open(q)' <=> Open(q)
      BY <2>1, WantedStays DEF Dropped, Transacting, Open, procvars
    <3> QED
      BY <1>1, <2>1, <2>3, <3>1, <3>2 DEF Retains, OwnedBy, procvars
  <2> QED
    BY <1>2, <2>1, <2>2, <2>3
<1>10. ASSUME NEW a \in Arts, Edit(a) PROVE Goal
  BY <1>3, <1>10 DEF Edit
<1>11. CASE UNCHANGED vars
  BY <1>3, <1>11 DEF vars, scope
<1> QED
  BY <1>5, <1>6, <1>7, <1>8, <1>9, <1>10, <1>11 DEF Next

\* Only a busy command, or another scope, rewrites the reference index.
LEMMA RunRefs ==
    ASSUME NEW p \in Procs, Run(p), ~Busy(p)
    PROVE  refs' = refs
BY DEF Run, Busy, Working, Applying, Reversible, Finalize, Flock, Check, Retain, ApplyTree,
   ApplyConfig, WriteManifest, Reference, ReleaseTransaction, DropReference, VerifyReference,
   TearDown, UnlinkLock, UninstallReturns, UndoReference, UndoManifest, UndoConfig, UndoTree,
   UndoTransaction, Undo, Undone, store

\* Where only edits are allowed for, an install goes from step to step: its
\* object is held, so nothing makes it raise.
LEMMA InstallAdvances ==
    ASSUME Apart, IInv, Faults \subseteq {"edit"}, NEW p \in Procs, Run(p), Installing(p),
           pc[p] \in {"retain", "tree", "config", "manifest", "reference", "release"}
    PROVE  /\ \/ pc'[p] \in {"tree", "config", "manifest", "reference", "release"}
              \/ pc[p] = "release"
           /\ pc[p] # "release" => plan'[p] = plan[p]
           /\ pc[p] \notin {"retain", "reference", "release"} => refs' = refs
           /\ pc[p] = "retain" => ReplaceOk("transaction", plan[p].art, {plan[p].digest})
           /\ pc[p] = "reference" => ReplaceOk("installed", plan[p].art, {plan[p].digest})
           /\ pc[p] = "release" => ReplaceOk("transaction", plan[p].art, {})
<1>1. TypeInv /\ Safe
  BY DEF IInv, Safe
<1>2. ASSUME pc[p] = "tree" PROVE plan[p].digest \in objects
  <2>1. Held /\ Retains(p) /\ Transacting(p)
    BY <1>1, <1>2 DEF IInv, Retention, Working, Applying, Reversible, Transacting
  <2>2. Ref("transaction", plan[p].art, plan[p].digest) \in refs
    BY <2>1 DEF Retains
  <2> QED
    BY <2>1, <2>2 DEF Held, Referenced, Ref
<1> QED
  BY <1>1, <1>2 DEF Run, Finalize, Flock, Check, Retain, ApplyTree,
     ApplyConfig, WriteManifest, Reference, ReleaseTransaction, DropReference, VerifyReference,
     TearDown, UnlinkLock, UninstallReturns, UndoReference, UndoManifest, UndoConfig, UndoTree,
     UndoTransaction, Undo, Undone, store, Proceed, Goto, TypeInv, TypeOK, ReplaceErr

LEMMA TransactionsStep ==
    ASSUME Apart, IInv, [Next]_vars
    PROVE  Transactions'
<1> DEFINE Owner(r, p) ==
      /\ pc[p] \in {"tree", "config", "manifest", "reference", "release"}
      /\ Installing(p) /\ plan[p].art = r.owner
<1> SUFFICES ASSUME Faults \subseteq {"edit"}, NEW r \in refs', r.kind = "transaction"
             PROVE  \E p \in Procs : Owner(r, p)'
  BY DEF Transactions
<1>1. TypeInv /\ \A x \in refs : x.kind = "transaction" => \E p \in Procs : Owner(x, p)
  BY DEF IInv, Transactions
<1>2. ASSUME UNCHANGED procvars, r \in refs PROVE \E p \in Procs : Owner(r, p)'
  BY <1>1, <1>2, WantedStays DEF procvars
<1>3. ASSUME NEW p \in Procs, Prepare(p) PROVE \E q \in Procs : Owner(r, q)'
  <2>1. /\ refs' = refs /\ pc[p] = "idle"
        /\ \A q \in Procs \ {p} : pc'[q] = pc[q] /\ plan'[q] = plan[q]
    BY <1>1, <1>3 DEF Prepare, PrepareInstall, PrepareUninstall, Goto, TypeInv, TypeOK, store
  <2>2. PICK q \in Procs : Owner(r, q)
    BY <1>1, <2>1
  <2> QED
    BY <2>1, <2>2, WantedStays
<1>4. ASSUME NEW p \in Procs, Run(p) PROVE \E q \in Procs : Owner(r, q)'
  <2>1. \A q \in Procs \ {p} : pc'[q] = pc[q] /\ plan'[q] = plan[q]
    BY <1>1, <1>4, RunFrame
  <2>2. CASE r \in refs
    <3>1. PICK q \in Procs : Owner(r, q)
      BY <1>1, <2>2
    <3>2. CASE q # p
      BY <2>1, <3>1, <3>2, WantedStays
    <3>3. CASE q = p
      <4>1. CASE pc[p] = "release"
        <5>1. ReplaceOk("transaction", plan[p].art, {})
          BY <1>4, <3>1, <3>3, <4>1, InstallAdvances
        <5>2. r.owner = plan[p].art
          BY <3>1, <3>3
        <5> QED
          BY <2>2, <5>1, <5>2 DEF ReplaceOk, Replaced, OwnedBy
      <4>2. CASE pc[p] # "release"
        <5>1. /\ pc'[p] \in {"tree", "config", "manifest", "reference", "release"}
              /\ plan'[p] = plan[p]
          BY <1>4, <3>1, <3>3, <4>2, InstallAdvances
        <5> QED
          BY <3>1, <3>3, <5>1, WantedStays
      <4> QED
        BY <4>1, <4>2
    <3> QED
      BY <3>2, <3>3
  <2>3. CASE r \notin refs
    <3>1. pc[p] = "retain" /\ r \in refs'
      BY <1>4, <2>3 DEF Run, Finalize, Flock, Check, Retain, ApplyTree, ApplyConfig,
         WriteManifest, Reference, ReleaseTransaction, DropReference, VerifyReference, TearDown,
         UnlinkLock, UninstallReturns, UndoReference, UndoManifest, UndoConfig, UndoTree,
         UndoTransaction, Undone, store, ReplaceErr, ReplaceOk, Replaced, OwnedBy, Ref
    <3>2. Installing(p)
      BY <3>1 DEF IInv, Task, Routed, Working, Applying, Reversible
    <3>3. /\ ReplaceOk("transaction", plan[p].art, {plan[p].digest}) /\ plan'[p] = plan[p]
          /\ pc'[p] \in {"tree", "config", "manifest", "reference", "release"}
      BY <1>4, <3>1, <3>2, InstallAdvances
    <3>4. r.owner = plan[p].art
      BY <2>3, <3>3 DEF ReplaceOk, Replaced, Ref
    <3> QED
      BY <3>2, <3>3, <3>4, WantedStays
  <2> QED
    BY <2>2, <2>3
<1>5. CASE Collect \/ (\E d \in Digests : Materialize(d)) \/ (\E a \in Arts : Edit(a))
             \/ UNCHANGED vars
  BY <1>2, <1>5 DEF Collect, CollectPlan, CollectDelete, CollectReturns, Materialize, Edit,
     store, vars
<1>6. ASSUME NEW o \in Others, NEW d \in Digests, Elsewhere(o, d)
      PROVE  \E p \in Procs : Owner(r, p)'
  <2>1. r \in refs /\ UNCHANGED procvars
    BY <1>6 DEF Elsewhere, Replaced, Ref
  <2> QED
    BY <1>2, <2>1
<1> QED
  BY <1>3, <1>4, <1>5, <1>6 DEF Next

LEMMA UndisturbedStep ==
    ASSUME Apart, IInv, [Next]_vars
    PROVE  Undisturbed'
<1> DEFINE Calmly(q) ==
      /\ pc[q] \notin {"undo", "incomplete", "mismatch", "recheck"}
      /\ pc[q] \in {"tree", "config", "manifest", "reference"} /\ ~Installing(q) =>
            refs = plan[q].refs
      /\ pc[q] = "verify" => refs = WantedRefs(q)
<1> SUFFICES ASSUME Calm, NEW q \in Procs PROVE Calmly(q)'
  BY DEF Undisturbed
<1>1. TypeInv /\ Calmly(q) /\ Faults \subseteq {"edit"} /\ Others = {}
  BY DEF IInv, Undisturbed, Calm
<1>2. ASSUME pc'[q] = pc[q], plan'[q] = plan[q], refs' = refs \/ ~Busy(q) PROVE Calmly(q)'
  BY <1>1, <1>2, WantedStays DEF Busy, Working, Applying, Reversible
<1>3. ASSUME NEW p \in Procs, Prepare(p) PROVE Calmly(q)'
  <2>1. refs' = refs /\ (pc'[q] = "finalize" \/ (pc'[q] = pc[q] /\ plan'[q] = plan[q]))
    BY <1>1, <1>3 DEF Prepare, PrepareInstall, PrepareUninstall, Goto, TypeInv, TypeOK, store
  <2> QED
    BY <1>2, <2>1
<1>4. ASSUME NEW p \in Procs, p # q, Run(p) PROVE Calmly(q)'
  BY <1>1, <1>2, <1>4, RunFrame, RunRefs, Excluded
\* An install never raises.
<1>5. CASE Run(q) /\ Installing(q) /\
           pc[q] \in {"retain", "tree", "config", "manifest", "reference", "release"}
  <2>1. pc[q] # "release" => Calmly(q)'
    BY <1>1, <1>5, InstallAdvances, WantedStays
  <2>2. pc[q] = "release" => pc'[q] = "idle"
    BY <1>1, <1>5 DEF Run, Finalize, Flock, Check, Retain, ApplyTree, ApplyConfig, WriteManifest,
       Reference, ReleaseTransaction, DropReference, VerifyReference, TearDown, UnlinkLock,
       UninstallReturns, UndoReference, UndoManifest, UndoConfig, UndoTree, UndoTransaction,
       Undo, Undone, Return, Goto, TypeInv, TypeOK
  <2> QED
    BY <2>1, <2>2
\* An uninstall finds the index as it was reviewed.
<1>6. CASE Run(q) /\ ~(Installing(q) /\
           pc[q] \in {"retain", "tree", "config", "manifest", "reference", "release"})
  <2>1. pc[q] \in {"retain", "release"} => Installing(q)
    BY DEF IInv, Task, Routed, Working, Applying, Reversible
  <2> USE DEF Goto, TypeInv, TypeOK, Proceed
  <2>2. CASE Finalize(q) \/ Flock(q) \/ UninstallReturns(q) \/ TearDown(q) \/ UnlinkLock(q)
    BY <1>1, <2>2 DEF Finalize, Flock, UninstallReturns, TearDown, UnlinkLock, Return
  <2>3. CASE Check(q)
    BY <1>1, <2>3, WantedStays DEF Check, PreconditionsCurrent, Return, store
  <2>4. CASE ApplyTree(q) \/ ApplyConfig(q) \/ WriteManifest(q)
    <3>1. ~Installing(q)
      BY <1>6, <2>4 DEF ApplyTree, ApplyConfig, WriteManifest
    <3>2. /\ pc[q] \in {"tree", "config", "manifest"} /\ plan'[q] = plan[q] /\ refs' = refs
          /\ pc'[q] \in {"config", "manifest", "reference"}
      BY <1>1, <2>4, <3>1 DEF ApplyTree, ApplyConfig, WriteManifest, store
    <3> QED
      BY <1>1, <3>1, <3>2, WantedStays
  <2>5. CASE DropReference(q)
    <3>1. refs = plan[q].refs /\ refs' = Replaced("installed", plan[q].art, {})
      BY <1>1, <2>5 DEF DropReference, ReplaceErr, ReplaceOk
    <3>2. refs' = WantedRefs(q)
      BY <3>1 DEF WantedRefs, Replaced, OwnedBy
    <3>3. pc'[q] = "verify" /\ plan'[q] = plan[q]
      BY <1>1, <2>5, <3>2 DEF DropReference, ReplaceErr
    <3> QED
      BY <3>2, <3>3, WantedStays
  <2>6. CASE VerifyReference(q)
    BY <1>1, <2>6 DEF VerifyReference
  <2>7. ~Retain(q) /\ ~ReleaseTransaction(q) /\ ~Reference(q)
    BY <1>6, <2>1 DEF Retain, ReleaseTransaction, Reference
  <2>8. /\ ~UndoReference(q) /\ ~UndoManifest(q) /\ ~UndoConfig(q) /\ ~UndoTree(q)
        /\ ~UndoTransaction(q) /\ ~Undone(q)
    BY <1>1 DEF UndoReference, UndoManifest, UndoConfig, UndoTree, UndoTransaction, Undo, Undone
  <2> QED
    BY <1>6, <2>2, <2>3, <2>4, <2>5, <2>6, <2>7, <2>8 DEF Run
<1>7. CASE Collect \/ (\E d \in Digests : Materialize(d)) \/ (\E a \in Arts : Edit(a))
             \/ UNCHANGED vars
  BY <1>2, <1>7 DEF Collect, CollectPlan, CollectDelete, CollectReturns, Materialize, Edit,
     store, vars, procvars
<1> QED
  BY <1>1, <1>3, <1>4, <1>5, <1>6, <1>7 DEF Next

LEMMA IInvStep ==
    ASSUME Apart, IInv, [Next]_vars
    PROVE  IInv'
<1>1. TypeInv'
  BY TypeStep DEF IInv
<1>2. Calm => LockInv'
  BY LockStep DEF IInv, Calm
<1> QED
  BY <1>1, <1>2, TasksStep, RetentionStep, TransactionsStep, UndisturbedStep DEF IInv

LEMMA IInvHolds ==
    ASSUME Apart
    PROVE  Spec => []IInv
<1>1. Init => IInv
  BY IInvInit
<1>2. IInv /\ [Next]_vars => IInv'
  BY IInvStep
<1> QED
  BY <1>1, <1>2, PTL DEF Spec

-----------------------------------------------------------------------------
\* apply_plan and apply_uninstall_plan replace or remove what the operator has
\* put at a destination only when the command was reviewed with force, and
\* with that content: whatever else fails, and also in a rollback.
THEOREM InstallKeepsForeign == Apart /\ "undo" \notin Faults => (Spec => ForeignKept)
<1> SUFFICES ASSUME Apart, "undo" \notin Faults PROVE Spec => ForeignKept
  OBVIOUS
<1> DEFINE Kept == \A a \in Arts : tree[a] = Foreign /\ tree'[a] # Foreign =>
                      \E p \in Procs : /\ pc[p] \in Applying
                                       /\ plan[p].art = a /\ p \in Forcing
                                       /\ plan[p].tree = Foreign
<1>1. IInv /\ [Next]_vars => [Kept]_vars
  <2> SUFFICES ASSUME IInv, Next, NEW a \in Arts, tree[a] = Foreign, tree'[a] # Foreign
               PROVE  \E p \in Procs : /\ pc[p] \in Applying
                                       /\ plan[p].art = a /\ p \in Forcing
                                       /\ plan[p].tree = Foreign
    OBVIOUS
  <2>1. PICK p \in Procs : ApplyTree(p) \/ UndoTree(p)
    <3>0. tree' # tree /\ tree \in [Arts -> Contents] BY DEF IInv, TypeInv, TypeOK
    <3>1. ASSUME NEW p \in Procs, Prepare(p) PROVE FALSE
      BY <3>0, <3>1 DEF Prepare, PrepareInstall, PrepareUninstall, scope
    <3>2. ASSUME NEW p \in Procs, Run(p) PROVE ApplyTree(p) \/ UndoTree(p)
      BY <3>0, <3>2 DEF Run, Finalize, Flock, Check, Retain, ApplyConfig, WriteManifest, Reference,
         ReleaseTransaction, DropReference, VerifyReference, TearDown, UnlinkLock, UninstallReturns,
         UndoReference, UndoManifest, UndoConfig, UndoTransaction, Undone, scope
    <3>3. ASSUME Collect \/ (\E d \in Digests : Materialize(d)) \/ \E o \in Others, d \in Digests : Elsewhere(o, d)
          PROVE  FALSE
      BY <3>0, <3>3 DEF Collect, CollectPlan, CollectDelete, CollectReturns, Materialize, Elsewhere, scope
    <3>4. ASSUME NEW b \in Arts, Edit(b) PROVE FALSE
      BY <3>0, <3>4 DEF Edit
    <3> QED BY <3>1, <3>2, <3>3, <3>4 DEF Next
  <2>2. /\ Task(p) /\ plan[p].art = a /\ pc[p] \in {"tree", "undo"}
        /\ Wanted(p) # Foreign /\ Foreign # Absent
    BY <2>1, InstallConstants DEF IInv, ApplyTree, UndoTree, Undo, TypeInv, TypeOK, Plans, Wanted
  <2>3. CASE ApplyTree(p)
    <3>1. pc[p] = "tree" /\ plan[p].tree = Foreign /\ p \in Forcing
      BY <2>2, <2>3 DEF ApplyTree, Task, Working, Placed, Reviewed, Applying, Reversible
    <3> QED
      BY <2>2, <3>1 DEF Applying, Reversible
  <2>4. CASE UndoTree(p)
    <3>1. tree[a] \in {plan[p].tree, Absent, Wanted(p)}
      BY <2>2, <2>4 DEF UndoTree, Undo, Task, Marked, Open
    <3>2. tree' = [tree EXCEPT ![a] = plan[p].tree]
      BY <2>2, <2>4 DEF UndoTree
    <3> QED
      BY <2>2, <3>1, <3>2 DEF IInv, TypeInv, TypeOK
  <2> QED
    BY <2>1, <2>3, <2>4
<1> QED
  BY <1>1, IInvHolds, PTL DEF Spec, ForeignKept

\* The records of an invariant state are held.
LEMMA Recorded ==
    ASSUME Apart, Safe, IInv
    PROVE  RecordedIsRetained
<1> SUFFICES ASSUME Repaired, NEW b \in Arts, Records(manifest)[b] # Absent
             PROVE  Records(manifest)[b] \in objects \cap Referenced
  BY DEF RecordedIsRetained
<1>1. ASSUME NEW k, Ref(k, b, Records(manifest)[b]) \in refs
      PROVE  Records(manifest)[b] \in objects \cap Referenced
  BY <1>1 DEF IInv, Retention, Held, Referenced, Ref
<1>2. CASE \A p \in Procs : ~Open(p)
  BY <1>1, <1>2 DEF IInv, Retention, Backed
<1>3. CASE \E p \in Procs : Open(p)
  <2>1. PICK p \in Procs : Open(p)
    BY <1>3
  <2> DEFINE a == plan[p].art
             d == plan[p].digest
  <2>2. /\ Working(p) /\ Retains(p) /\ Task(p) /\ "incomplete" \notin dirty[p]
        /\ plan[p] \in Plans /\ a \in Arts
    BY <2>1 DEF IInv, Retention, Working, Open, Repaired, TypeInv, Plans, Applying, Reversible
  <2>3. /\ manifest \in {plan[p].manifest, WantedManifest(p)}
        /\ Backed(plan[p].manifest, IF Dropped(p) THEN {a} ELSE {}, refs)
        /\ Dropped(p) => manifest = WantedManifest(p)
    BY <2>1, <2>2 DEF Task, Marked, Retains
  <2>4. CASE manifest = plan[p].manifest /\ ~Dropped(p)
    BY <1>1, <2>3, <2>4 DEF Backed
  <2>5. CASE manifest = WantedManifest(p) /\ (manifest # plan[p].manifest \/ Dropped(p))
    <3>1. /\ WantedManifest(p) \in Entries /\ WantedManifest(p)[a] = Wanted(p)
          /\ \A x \in Arts \ {a} : WantedManifest(p)[x] = Records(plan[p].manifest)[x]
      BY <2>2, RecordsType DEF WantedManifest, Wanted, Plans, Entries
    <3>2. Records(manifest) = WantedManifest(p)
      BY <2>5, <3>1, InstallConstants DEF Records, Entries
    <3>3. CASE b # a
      BY <1>1, <2>3, <3>1, <3>2, <3>3 DEF Backed
    <3>4. CASE b = a
      <4>1. Installing(p) /\ ~Dropped(p) /\ Records(manifest)[b] = d
        BY <3>1, <3>2, <3>4 DEF Wanted, Dropped
      <4>2. "manifest" \in dirty[p]
        BY <2>1, <2>2, <2>5, <4>1 DEF Task, Marked
      <4>3. Transacting(p)
        BY <2>1, <2>2, <4>1, <4>2 DEF Transacting, Task, Routed, Marked, Open, Reversible
      <4> QED
        BY <1>1, <2>2, <3>4, <4>1, <4>3 DEF Retains
    <3> QED
      BY <3>3, <3>4
  <2> QED
    BY <2>3, <2>4, <2>5
<1> QED
  BY <1>2, <1>3

\* As long as no collection falls into the gap between check and retention,
\* no index update is reported as failed after it was written, and the index
\* can be read back after an uninstall has dropped its reference (when it
\* cannot, lifecycle/io.py:197-206 takes the uninstall back without it): at every
\* moment of every install, update, uninstall and rollback the object of each
\* record is in the store and referenced.
THEOREM InstallRetainsRecorded == Apart /\ Safe => (Spec => []RecordedIsRetained)
<1> SUFFICES ASSUME Apart, Safe PROVE Spec => []RecordedIsRetained
  OBVIOUS
<1>1. IInv => RecordedIsRetained
  BY Recorded
<1> QED
  BY <1>1, IInvHolds, PTL

\* ... and where nothing fails, a transaction reference does not outlive the
\* apply_plan that took it.
THEOREM InstallRetentionExact ==
    Apart /\ Faults \subseteq {"edit"} => (Spec => []RetentionExact)
<1> SUFFICES ASSUME Apart, Faults \subseteq {"edit"} PROVE Spec => []RetentionExact
  OBVIOUS
<1>1. Safe
  BY DEF Safe
<1>2. IInv => NoLeakedTransaction
  <2> SUFFICES ASSUME IInv, NEW r \in refs, r.kind = "transaction"
               PROVE  \E p \in Procs : pc[p] \in Applying /\ plan[p].art = r.owner
    BY DEF NoLeakedTransaction
  <2>1. PICK p \in Procs : /\ pc[p] \in {"tree", "config", "manifest", "reference", "release"}
                           /\ plan[p].art = r.owner
    BY DEF IInv, Transactions
  <2> QED
    BY <2>1 DEF Applying, Reversible
<1>3. IInv => RetentionExact
  BY <1>1, <1>2, Recorded DEF RetentionExact
<1> QED
  BY <1>3, IInvHolds, PTL

-----------------------------------------------------------------------------
(* The refinement of Installed.                                             *)

\* The scope as Abstract sees it.
SeenTree == Promised(tree, LAMBDA p : [tree EXCEPT ![plan[p].art] = plan[p].tree])
SeenConfig == Promised(config, LAMBDA p : plan[p].config)
SeenManifest == Records(Promised(manifest, LAMBDA p : plan[p].manifest))
Seen == <<SeenTree, SeenConfig, SeenManifest>>

\* At rest it is the scope, and under a command that may still be taken back
\* the scope that was reviewed.
LEMMA SeenAtRest ==
    ASSUME \A p \in Procs : ~Open(p)
    PROVE  Seen = <<tree, config, Records(manifest)>>
BY DEF Seen, SeenTree, SeenConfig, SeenManifest, Promised

LEMMA SeenAtRestNext ==
    ASSUME \A p \in Procs : ~Open(p)'
    PROVE  Seen' = <<tree', config', Records(manifest')>>
BY DEF Seen, SeenTree, SeenConfig, SeenManifest, Promised, Records

LEMMA SeenOpen ==
    ASSUME NEW p \in Procs, Open(p), \A q \in Procs : Open(q) => q = p
    PROVE  Seen = <<[tree EXCEPT ![plan[p].art] = plan[p].tree], plan[p].config,
                    Records(plan[p].manifest)>>
<1>1. (CHOOSE q \in Procs : Open(q)) = p
  OBVIOUS
<1> QED
  BY <1>1 DEF Seen, SeenTree, SeenConfig, SeenManifest, Promised

LEMMA SeenOpenNext ==
    ASSUME NEW p \in Procs, Open(p)', \A q \in Procs : Open(q)' => q = p
    PROVE  Seen' = <<[tree' EXCEPT ![plan'[p].art] = plan'[p].tree], plan'[p].config,
                     Records(plan'[p].manifest)>>
<1>1. (CHOOSE q \in Procs : Open(q)') = p
  OBVIOUS
<1> QED
  BY <1>1 DEF Seen, SeenTree, SeenConfig, SeenManifest, Promised, Records

\* At most one command is open, also after a step.
LEMMA OneOpen ==
    ASSUME Apart, IInv, NEW p \in Procs, NEW q \in Procs, Open(p), Open(q)
    PROVE  p = q
BY Excluded DEF Busy, Working, Open, Applying

\* Steps beside the open command leave what is seen alone.
LEMMA SeenStays ==
    ASSUME Apart, IInv, UNCHANGED scope, \A q \in Procs : Open(q)' <=> Open(q),
           \A q \in Procs : Open(q) => plan'[q] = plan[q]
    PROVE  Seen' = Seen
<1>1. CASE \E p \in Procs : Open(p)
  <2>1. PICK p \in Procs : Open(p)
    BY <1>1
  <2>2. \A q \in Procs : Open(q) => q = p
    BY <2>1, OneOpen
  <2>3. /\ Seen = <<[tree EXCEPT ![plan[p].art] = plan[p].tree], plan[p].config,
                    Records(plan[p].manifest)>>
        /\ Seen' = <<[tree' EXCEPT ![plan'[p].art] = plan'[p].tree], plan'[p].config,
                     Records(plan'[p].manifest)>>
    BY <2>1, <2>2, SeenOpen, SeenOpenNext
  <2>4. plan'[p] = plan[p] /\ tree' = tree
    BY <2>1 DEF scope
  <2> QED
    BY <2>3, <2>4
<1>2. CASE \A p \in Procs : ~Open(p)
  <2>1. /\ Seen = <<tree, config, Records(manifest)>>
        /\ Seen' = <<tree', config', Records(manifest')>>
    BY <1>2, SeenAtRest, SeenAtRestNext
  <2> QED
    BY <2>1 DEF scope
<1> QED
  BY <1>1, <1>2

\* A step of the command whose scope it is shows nothing, or all of it.
LEMMA SeenRun ==
    ASSUME Apart, IInv, NEW p \in Procs, Run(p), Busy(p)
    PROVE  \/ Seen' = Seen
           \/ /\ SeenTree' = [SeenTree EXCEPT ![plan[p].art] = Wanted(p)]
              /\ SeenConfig' = [SeenConfig EXCEPT ![plan[p].art] = Wanted(p)]
              /\ SeenManifest' = [SeenManifest EXCEPT ![plan[p].art] = Wanted(p)]
              /\ SeenManifest = Records(plan[p].manifest)
<1> DEFINE a == plan[p].art
<1>1. /\ TypeInv /\ Task(p) /\ plan[p] \in Plans /\ a \in Arts
      /\ \A q \in Procs \ {p} : ~Open(q) /\ ~Open(q)'
  <2>1. TypeInv /\ Task(p)
    BY DEF IInv
  <2>2. \A q \in Procs \ {p} : ~Open(q)
    BY Excluded DEF Busy, Working, Open, Applying
  <2>3. \A q \in Procs \ {p} : ~Open(q)'
    BY <2>1, <2>2, RunFrame DEF Open
  <2> QED
    BY <2>1, <2>2, <2>3 DEF Busy, Working, TypeInv, Plans, Applying, Reversible
<1>2. Open(p) => Seen = <<[tree EXCEPT ![a] = plan[p].tree], plan[p].config,
                          Records(plan[p].manifest)>>
  BY <1>1, SeenOpen
<1>3. Open(p)' => Seen' = <<[tree' EXCEPT ![plan'[p].art] = plan'[p].tree], plan'[p].config,
                            Records(plan'[p].manifest)>>
  BY <1>1, SeenOpenNext
<1>4. ~Open(p) => Seen = <<tree, config, Records(manifest)>>
  BY <1>1, SeenAtRest
<1>5. ~Open(p)' => Seen' = <<tree', config', Records(manifest')>>
  BY <1>1, SeenAtRestNext
<1>6. /\ tree \in [Arts -> Contents] /\ config \in Entries /\ manifest \in States
      /\ pc \in [Procs -> PCs] /\ dirty \in [Procs -> SUBSET (Effects \cup {"incomplete"})]
      /\ plan \in [Procs -> Plans \cup {NoPlan}]
  BY <1>1 DEF TypeInv, TypeOK
\* The check under the lock: the scope is as it was reviewed.
<1>7. CASE Check(p)
  <2>1. ~Open(p) /\ UNCHANGED scope
    BY <1>7 DEF Check, Open, Reversible
  <2>2. CASE Open(p)'
    <3>1. /\ plan'[p] = plan[p] /\ tree[a] = plan[p].tree /\ config = plan[p].config
          /\ manifest = plan[p].manifest
      BY <1>6, <1>7, <2>2 DEF Check, Open, Return, Goto, Proceed, PreconditionsCurrent, Reversible
    <3>2. [tree' EXCEPT ![a] = plan[p].tree] = tree
      BY <1>1, <1>6, <2>1, <3>1 DEF scope
    <3> QED
      BY <1>3, <1>4, <2>1, <2>2, <3>1, <3>2
  <2> QED
    BY <1>4, <1>5, <2>1, <2>2 DEF scope
\* The command stays open: it touches no other tree.
<1>8. CASE Open(p) /\ Open(p)'
  <2>1. plan'[p] = plan[p] /\ (tree' = tree \/ \E x : tree' = [tree EXCEPT ![a] = x])
    BY <1>6, <1>8 DEF Run, Open, Finalize, Flock, Check, Retain, ApplyTree,
       ApplyConfig, WriteManifest, Reference, ReleaseTransaction, DropReference, VerifyReference,
       TearDown, UnlinkLock, UninstallReturns, UndoReference, UndoManifest, UndoConfig, UndoTree,
       UndoTransaction, Undo, Undid, Missed, Undone, Return, Goto, Proceed, Raise, scope, Reversible
  <2>2. [tree' EXCEPT ![a] = plan[p].tree] = [tree EXCEPT ![a] = plan[p].tree]
    BY <1>1, <1>6, <2>1
  <2> QED
    BY <1>2, <1>3, <1>8, <2>1, <2>2
\* The command is through, and all of it shows; or all is taken back.
<1>9. CASE Open(p) /\ ~Open(p)'
  <2>1. \/ pc[p] \in Late /\ UNCHANGED scope
        \/ pc[p] = "undo" /\ dirty[p] = {} /\ UNCHANGED scope
    BY <1>6, <1>9 DEF Run, Open, Finalize, Flock, Check, Retain, ApplyTree,
       ApplyConfig, WriteManifest, Reference, ReleaseTransaction, DropReference, VerifyReference,
       TearDown, UnlinkLock, UninstallReturns, UndoReference, UndoManifest, UndoConfig, UndoTree,
       UndoTransaction, Undo, Undid, Missed, Undone, Return, Goto, Proceed, Raise, Reversible, Late
  <2>2. CASE pc[p] = "undo" /\ dirty[p] = {} /\ UNCHANGED scope
    <3>1. tree[a] = plan[p].tree /\ config = plan[p].config /\ manifest = plan[p].manifest
      BY <1>1, <1>9, <2>2 DEF Task, Marked
    <3>2. [tree EXCEPT ![a] = plan[p].tree] = tree
      BY <1>1, <1>6, <3>1
    <3> QED
      BY <1>2, <1>5, <1>9, <2>2, <3>1, <3>2 DEF scope
  <2>3. CASE pc[p] \in Late /\ UNCHANGED scope
    <3>1. tree[a] = Wanted(p) /\ config = WantedConfig(p) /\ manifest = WantedManifest(p)
      BY <1>1, <2>3 DEF Task, Working, Placed, Late, Applying, Reversible
    <3>2. Records(plan[p].manifest) \in Entries
      BY <1>1, RecordsType DEF Plans
    <3>3. WantedManifest(p) \in Entries
      BY <1>1, <3>2 DEF WantedManifest, Wanted, Entries, Plans
    <3>4. Records(manifest) = WantedManifest(p)
      BY <3>1, <3>3, InstallConstants DEF Records, Entries
    <3>5. tree = [[tree EXCEPT ![a] = plan[p].tree] EXCEPT ![a] = Wanted(p)]
      BY <1>1, <1>6, <3>1
    <3>6. /\ SeenTree = [tree EXCEPT ![a] = plan[p].tree] /\ SeenConfig = plan[p].config
          /\ SeenManifest = Records(plan[p].manifest)
      BY <1>2, <1>9 DEF Seen
    <3>7. SeenTree' = tree /\ SeenConfig' = config /\ SeenManifest' = Records(manifest)
      BY <1>5, <1>9, <2>3 DEF Seen, scope
    <3> QED
      BY <3>1, <3>4, <3>5, <3>6, <3>7 DEF WantedConfig, WantedManifest
  <2> QED
    BY <2>1, <2>2, <2>3
\* The last steps: removing the state file of an empty scope shows nothing.
<1>10. CASE ~Open(p) /\ ~Check(p)
  <2>1. /\ pc[p] \in {"release", "teardown", "unlink"} /\ tree' = tree /\ config' = config
        /\ pc'[p] \in {"idle", "unlink", "unlock"}
        /\ manifest' = manifest \/ (manifest' = NoState /\ pc[p] = "teardown" /\ LastOut(p))
    BY <1>6, <1>10 DEF Run, Busy, Working, Open, Finalize, Flock, Retain, ApplyTree,
       ApplyConfig, WriteManifest, Reference, ReleaseTransaction, DropReference, VerifyReference,
       TearDown, UnlinkLock, UninstallReturns, UndoReference, UndoManifest, UndoConfig, UndoTree,
       UndoTransaction, Undo, Undone, Return, Goto, Reversible, Applying, scope
  <2>2. pc[p] = "teardown" => manifest = WantedManifest(p)
    BY <1>1 DEF Task, Working, Placed, Late, Applying
  <2>3. Emptied # NoState
    BY InstallConstants DEF Emptied
  <2>4. Records(manifest') = Records(manifest)
    BY <2>1, <2>2, <2>3 DEF Records, LastOut
  <2>5. ~Open(p)'
    BY <2>1 DEF Open, Reversible
  <2> QED
    BY <1>4, <1>5, <1>10, <2>1, <2>4, <2>5
<1> QED
  BY <1>7, <1>8, <1>9, <1>10

\* Every step of the commands, of the collector, of other scopes and of the
\* operator is a step of Installed, or shows nothing.
LEMMA SeenStep ==
    ASSUME Apart, IInv, [Next]_vars
    PROVE  [Abstract!Next]_(Abstract!vars)
<1>1. Seen' = Seen => UNCHANGED Abstract!vars
  BY DEF Abstract!vars, Seen, SeenTree, SeenConfig, SeenManifest
<1>2. ASSUME NEW a, NEW x, SeenTree' = [SeenTree EXCEPT ![a] = x],
             SeenConfig' = [SeenConfig EXCEPT ![a] = x],
             SeenManifest' = [SeenManifest EXCEPT ![a] = x]
      PROVE  Abstract!Becomes(a, x)
  BY <1>2 DEF Abstract!Becomes, SeenTree, SeenConfig, SeenManifest
<1>3. ASSUME UNCHANGED procvars, UNCHANGED scope PROVE Seen' = Seen
  <2>1. \A q \in Procs : (Open(q)' <=> Open(q)) /\ plan'[q] = plan[q]
    BY <1>3 DEF procvars, Open
  <2> QED
    BY <1>3, <2>1, SeenStays
<1>4. ASSUME NEW p \in Procs, UNCHANGED scope, ~Open(p), ~Open(p)',
             \A q \in Procs \ {p} : pc'[q] = pc[q] /\ plan'[q] = plan[q]
      PROVE  Seen' = Seen
  <2>1. \A q \in Procs : (Open(q)' <=> Open(q)) /\ (Open(q) => plan'[q] = plan[q])
    BY <1>4 DEF Open
  <2> QED
    BY <1>4, <2>1, SeenStays
<1>5. ASSUME NEW p \in Procs, Prepare(p) PROVE Seen' = Seen
  <2>1. /\ UNCHANGED scope /\ pc[p] = "idle" /\ pc'[p] = "finalize"
        /\ \A q \in Procs \ {p} : pc'[q] = pc[q] /\ plan'[q] = plan[q]
    BY <1>5 DEF Prepare, PrepareInstall, PrepareUninstall, Goto, IInv, TypeInv, TypeOK
  <2> QED
    BY <1>4, <2>1 DEF Open, Reversible
<1>6. ASSUME NEW p \in Procs, Run(p), ~Busy(p) PROVE Seen' = Seen
  <2>1. UNCHANGED scope /\ pc'[p] \in {"idle", "flock", "check"}
    BY <1>6 DEF Run, Busy, Working, Applying, Reversible, Finalize, Flock, Check,
       Retain, ApplyTree, ApplyConfig, WriteManifest, Reference, ReleaseTransaction,
       DropReference, VerifyReference, TearDown, UnlinkLock, UninstallReturns,
       UndoReference, UndoManifest, UndoConfig, UndoTree, UndoTransaction, Undo, Undone,
       Return, Goto, IInv, TypeInv, TypeOK
  <2>2. ~Open(p) /\ ~Open(p)'
    BY <1>6, <2>1 DEF Open, Busy, Working, Applying, Reversible
  <2> QED
    BY <1>4, <1>6, <2>1, <2>2, RunFrame DEF IInv
<1>7. ASSUME NEW p \in Procs, Run(p), Busy(p) PROVE [Abstract!Next]_(Abstract!vars)
  <2> DEFINE a == plan[p].art
  <2>1. SUFFICES ASSUME SeenTree' = [SeenTree EXCEPT ![a] = Wanted(p)],
                        SeenConfig' = [SeenConfig EXCEPT ![a] = Wanted(p)],
                        SeenManifest' = [SeenManifest EXCEPT ![a] = Wanted(p)],
                        SeenManifest = Records(plan[p].manifest)
                 PROVE  Abstract!Next
    BY <1>1, <1>7, SeenRun
  <2>2. Abstract!Becomes(a, Wanted(p))
    BY <1>2, <2>1
  <2>3. Reviewed(p) /\ plan[p] \in Plans /\ a \in Arts /\ plan[p].digest \in Digests
    BY <1>7 DEF IInv, Task, Busy, Working, TypeInv, Plans, Applying, Reversible
  <2>4. CASE Installing(p)
    BY <2>2, <2>3, <2>4 DEF Abstract!Next, Abstract!Install, Wanted
  <2>5. CASE ~Installing(p)
    <3>1. a \in Removable /\ Records(plan[p].manifest)[a] = plan[p].digest
      BY <1>7, <2>3, <2>5, InstallConstants DEF Reviewed, Plans, Installing, Records, Entries,
         Busy, Working, Applying, Reversible
    <3>2. SeenManifest[a] # Absent
      BY <2>1, <2>3, <3>1, InstallConstants
    <3>3. Abstract!Uninstall(a)
      BY <2>2, <2>5, <3>1, <3>2 DEF Abstract!Uninstall, SeenManifest, Wanted
    <3> QED
      BY <2>3, <3>3 DEF Abstract!Next
  <2> QED
    BY <2>4, <2>5
<1>8. ASSUME NEW a \in Arts, Edit(a) PROVE Abstract!Next
  <2>1. \A p \in Procs : ~Open(p) /\ ~Open(p)'
    BY <1>8 DEF Edit, Open, Reversible, procvars
  <2>2. Seen = <<tree, config, Records(manifest)>> /\ Seen' = <<tree', config', Records(manifest')>>
    BY <2>1, SeenAtRest, SeenAtRestNext
  <2>3. /\ SeenTree[a] # Absent /\ SeenTree' = [SeenTree EXCEPT ![a] = Foreign]
        /\ SeenConfig' = SeenConfig /\ SeenManifest' = SeenManifest
    BY <1>8, <2>2 DEF Edit, Seen
  <2>4. Abstract!Edit(a)
    BY <2>3 DEF Abstract!Edit, SeenTree, SeenConfig, SeenManifest
  <2> QED
    BY <2>4 DEF Abstract!Next
<1>9. CASE Collect \/ (\E d \in Digests : Materialize(d))
             \/ (\E o \in Others, d \in Digests : Elsewhere(o, d)) \/ UNCHANGED vars
  BY <1>1, <1>3, <1>9 DEF Collect, CollectPlan, CollectDelete, CollectReturns, Materialize,
     Elsewhere, vars
<1> QED
  BY <1>1, <1>5, <1>6, <1>7, <1>8, <1>9 DEF Next

\* Install, update and uninstall implement Installed: each shows in tree,
\* shared file and state at once, when its references are written, or not at
\* all.  A rollback that cannot be completed is the operator's to repair; the
\* command then never counts as done.
THEOREM InstallAllOrNothing == Apart => (Spec => AllOrNothing)
<1> SUFFICES ASSUME Apart PROVE Spec => AllOrNothing
  OBVIOUS
<1>1. Init => Abstract!Init
  <2> SUFFICES ASSUME Init PROVE Abstract!Init
    OBVIOUS
  <2>1. \A p \in Procs : ~Open(p)
    BY DEF Init, Open, Reversible
  <2>2. SeenTree = tree /\ SeenConfig = config /\ SeenManifest = Records(manifest)
    BY <2>1, SeenAtRest DEF Seen
  <2>3. Records(manifest) = tree
    <3>1. CASE Preinstalled = {}
      BY <3>1 DEF Init, Records, Emptied
    <3>2. CASE Preinstalled # {}
      BY <3>2, InstallConstants DEF Init, Records
    <3> QED
      BY <3>1, <3>2
  <2> QED
    BY <2>2, <2>3 DEF Init, Abstract!Init, SeenTree, SeenConfig, SeenManifest
<1>2. IInv /\ [Next]_vars => [Abstract!Next]_(Abstract!vars)
  BY SeenStep
<1> QED
  BY <1>1, <1>2, IInvHolds, PTL DEF Spec, AllOrNothing, Abstract!Spec

(***************************************************************************)
(* Upkeep: a removal gives back what is not AART's.                        *)
(***************************************************************************)

\* At most one begin marker of each artifact, and an end marker only closes the
\* block that was put: no line of the operator is inside one.
Tidy(t) ==
    \A a \in Artifacts :
        /\ \A i, j \in DOMAIN t : t[i] = Token("begin", a) /\ t[j] = Token("begin", a) => i = j
        /\ \A j \in DOMAIN t : t[j] = Token("end", a) =>
              /\ j > 4 /\ t[j - 4] = Token("begin", a)
              /\ t[j - 3] = Newline /\ t[j - 2][1] = "body" /\ t[j - 1] = Newline

\* No line of the operator.
Ownerless(t) == \A i \in DOMAIN t : t[i][1] # "own"

\* What a destination may hold, by its family; a sidecar holds a text or is not there.
Texted(s) == s = Nowhere \/ (s.text \in Seq(Tokens) /\ Tidy(s.text) /\ s = TextFile(s.text))

Documented(s) ==
    s = Nowhere \/ (/\ s.json \in Documents /\ s = JsonFile(s.json)
                    /\ s.json.type = "missing" => s.json.entries = <<>>)

Shaped ==
    CASE family = "mcp" -> Documented(disk) /\ side = Nowhere
      [] family = "memory" -> Texted(disk) /\ Texted(side)
      [] OTHER -> /\ Texted(disk) \/ (disk.target \in Seq(Tokens) /\ disk = Link(disk.target))
                  /\ side = Nowhere

\* What is recorded of an artifact: only a replaced memory has a text to give back, and
\* what was put as a whole has no line of the operator.
Honest(proof, a) ==
    /\ proof \in Proofs /\ proof.name = a
    /\ CASE family = "mcp" -> proof.kind = "merge-json" /\ proof.id = a /\ proof.digest \in {"aart"} \X {1, 2}
         [] family = "memory" -> proof.kind \in {"write-file", "managed-block"} /\ proof.digest \in Seq(Tokens)
         [] OTHER -> proof.kind \in {"write-file", "symlink-file"} /\ proof.digest \in Seq(Tokens)
    /\ proof.kind = "write-file" => Ownerless(proof.digest)
    /\ proof.kind = "symlink-file" => proof.digest # <<>>
    /\ proof.restores # None => proof.kind = "write-file" /\ family = "memory"

\* A link that is recorded was asked for as one.
Moded ==
    /\ DOMAIN versions = Artifacts
    /\ \A a \in Artifacts : records[a] # None /\ records[a].kind = "symlink-file" => versions[a].mode = "symlink"

\* The inductive invariant.
UpkeepInv ==
    /\ family \in {"mcp", "memory", "guideline"}
    /\ Shaped
    /\ DOMAIN records = Artifacts
    /\ \A a \in Artifacts : records[a] # None => Honest(records[a], a)
    /\ Moded
    /\ OwnKept

-----------------------------------------------------------------------------
(* Every change of a text takes a segment out and puts a text in its place.   *)

Cut(t, k, m, b) == SubSeq(t, 1, k) \o b \o SubSeq(t, m, Len(t))

Join(p, q) == p \o q

\* Where the tokens of two texts are in the one that joins them.
LEMMA Joined ==
    \A p, q \in Seq(Tokens) : LET c == Join(p, q) IN
        /\ c \in Seq(Tokens) /\ Len(c) = Len(p) + Len(q)
        /\ Len(p) \in Nat /\ Len(q) \in Nat
        /\ \A i \in 1 .. Len(p) : c[i] = p[i]
        /\ \A i \in 1 .. Len(q) : c[Len(p) + i] = q[i]
<1> TAKE p, q \in Seq(Tokens)
<1> DEFINE c == Join(p, q)
<1>1. /\ c \in Seq(Tokens) /\ Len(c) = Len(p) + Len(q) /\ Len(p) \in Nat /\ Len(q) \in Nat
      /\ \A i \in 1 .. Len(p) + Len(q) : c[i] = IF i <= Len(p) THEN p[i] ELSE q[i - Len(p)]
  BY ConcatProperties, LenProperties DEF Join
<1> HIDE DEF c
<1>2. ASSUME NEW i \in 1 .. Len(q) PROVE c[Len(p) + i] = q[i]
  <2>1. Len(p) + i \in 1 .. Len(p) + Len(q) /\ ~(Len(p) + i <= Len(p)) /\ Len(p) + i - Len(p) = i BY <1>1
  <2> QED BY <1>1, <2>1
<1>3. ASSUME NEW i \in 1 .. Len(p) PROVE c[i] = p[i]
  BY <1>1
<1> QED BY <1>1, <1>2, <1>3 DEF c

\* Where the tokens of the old and of the new text are after it.
LEMMA CutAt ==
    ASSUME NEW t \in Seq(Tokens), NEW b \in Seq(Tokens),
           NEW k \in 0 .. Len(t), NEW m \in (k + 1) .. (Len(t) + 1)
    PROVE  LET c == Cut(t, k, m, b) IN
           /\ c \in Seq(Tokens)
           /\ Len(c) = k + Len(b) + Len(t) - m + 1
           /\ \A i \in 1 .. k : c[i] = t[i]
           /\ \A i \in 1 .. Len(b) : c[k + i] = b[i]
           /\ \A i \in m .. Len(t) : c[k + Len(b) + i - m + 1] = t[i]
<1> DEFINE p == SubSeq(t, 1, k)
           q == SubSeq(t, m, Len(t))
           c == Cut(t, k, m, b)
<1>0. /\ Len(t) \in Nat /\ Len(b) \in Nat /\ DOMAIN t = 1 .. Len(t) /\ DOMAIN b = 1 .. Len(b)
      /\ \A i \in 1 .. Len(t) : t[i] \in Tokens
  BY LenProperties
<1>1. p \in Seq(Tokens) /\ Len(p) = k /\ \A i \in 1 .. k : p[i] = t[i]
  BY <1>0, SubSeqProperties
<1>2. /\ q \in Seq(Tokens) /\ Len(q) = Len(t) - m + 1
      /\ \A i \in 1 .. Len(t) - m + 1 : q[i] = t[m + i - 1]
  <2>1. \A i \in m .. Len(t) : t[i] \in Tokens BY <1>0
  <2> QED BY <1>0, <2>1, SubSeqProperties
<1> HIDE DEF p, q
<1>3. /\ p \o b \in Seq(Tokens) /\ Len(p \o b) = k + Len(b)
      /\ \A i \in 1 .. k : (p \o b)[i] = t[i]
      /\ \A i \in 1 .. Len(b) : (p \o b)[k + i] = b[i]
  <2> DEFINE x == Join(p, b)
  <2>1. /\ x \in Seq(Tokens) /\ Len(x) = Len(p) + Len(b)
        /\ \A i \in 1 .. Len(p) : x[i] = p[i]
        /\ \A i \in 1 .. Len(b) : x[Len(p) + i] = b[i]
    BY <1>1, Joined
  <2>2. x \in Seq(Tokens) /\ Len(x) = k + Len(b) /\ (\A i \in 1 .. k : x[i] = t[i])
          /\ \A i \in 1 .. Len(b) : x[k + i] = b[i]
    BY <1>1, <2>1
  <2> QED BY <2>2 DEF Join
<1> DEFINE x == p \o b
<1> HIDE DEF x
<1>4. c = Join(x, q)
  BY DEF Cut, p, q, x, Join
<1> HIDE DEF c
<1>5. /\ c \in Seq(Tokens) /\ Len(c) = k + Len(b) + Len(t) - m + 1
      /\ \A i \in 1 .. k + Len(b) : c[i] = x[i]
      /\ \A i \in 1 .. Len(t) - m + 1 : c[k + Len(b) + i] = q[i]
  <2>0. x \in Seq(Tokens) /\ Len(x) = k + Len(b) BY <1>3 DEF x
  <2>1. /\ c \in Seq(Tokens) /\ Len(c) = Len(x) + Len(q)
        /\ \A i \in 1 .. Len(x) : c[i] = x[i]
        /\ \A i \in 1 .. Len(q) : c[Len(x) + i] = q[i]
    BY <1>2, <2>0, <1>4, Joined
  <2>2. Len(c) = k + Len(b) + (Len(t) - m + 1) BY <1>2, <2>0, <2>1
  <2>3. k + Len(b) + (Len(t) - m + 1) = k + Len(b) + Len(t) - m + 1 BY <1>0
  <2>4. (\A i \in 1 .. k + Len(b) : c[i] = x[i]) /\ \A i \in 1 .. Len(t) - m + 1 : c[k + Len(b) + i] = q[i]
    BY <1>2, <2>0, <2>1
  <2> QED BY <2>1, <2>2, <2>3, <2>4
<1>6. ASSUME NEW i \in m .. Len(t) PROVE c[k + Len(b) + i - m + 1] = t[i]
  <2>1. i - m + 1 \in 1 .. Len(t) - m + 1 BY <1>0
  <2>2. c[k + Len(b) + (i - m + 1)] = q[i - m + 1] BY <1>5, <2>1
  <2>3. q[i - m + 1] = t[m + (i - m + 1) - 1] BY <1>2, <2>1
  <2>4. k + Len(b) + (i - m + 1) = k + Len(b) + i - m + 1 /\ m + (i - m + 1) - 1 = i BY <1>0
  <2> QED BY <2>2, <2>3, <2>4
<1>7. (\A i \in 1 .. k : c[i] = t[i]) /\ \A i \in 1 .. Len(b) : c[k + i] = b[i]
  <2>1. (\A i \in 1 .. k : x[i] = t[i]) /\ \A i \in 1 .. Len(b) : x[k + i] = b[i] BY <1>3 DEF x
  <2>2. \A i \in 1 .. Len(b) : k + i \in 1 .. k + Len(b) BY <1>0
  <2>3. \A i \in 1 .. k : i \in 1 .. k + Len(b) BY <1>0
  <2> QED BY <1>5, <2>1, <2>2, <2>3
<1> QED BY <1>5, <1>6, <1>7 DEF c

\* Where a token of the new text is from.
LEMMA CutFrom ==
    ASSUME NEW t \in Seq(Tokens), NEW b \in Seq(Tokens),
           NEW k \in 0 .. Len(t), NEW m \in (k + 1) .. (Len(t) + 1),
           NEW i \in DOMAIN Cut(t, k, m, b)
    PROVE  LET c == Cut(t, k, m, b) IN
           \/ i \in 1 .. k /\ c[i] = t[i]
           \/ i - k \in 1 .. Len(b) /\ c[i] = b[i - k]
           \/ i - k - Len(b) + m - 1 \in m .. Len(t) /\ c[i] = t[i - k - Len(b) + m - 1]
<1> DEFINE c == Cut(t, k, m, b)
<1>0. Len(t) \in Nat /\ Len(b) \in Nat
  BY LenProperties
<1>1. c \in Seq(Tokens) /\ Len(c) = k + Len(b) + Len(t) - m + 1
  BY CutAt
<1>2. i \in 1 .. (k + Len(b) + Len(t) - m + 1)
  BY <1>1, LenProperties
<1>3. CASE i <= k
  <2>1. i \in 1 .. k BY <1>0, <1>2, <1>3
  <2>2. \A j \in 1 .. k : c[j] = t[j] BY CutAt
  <2> QED BY <2>1, <2>2
<1>4. CASE i > k /\ i <= k + Len(b)
  <2>1. i - k \in 1 .. Len(b) /\ k + (i - k) = i BY <1>0, <1>2, <1>4
  <2>2. c[k + (i - k)] = b[i - k] BY <2>1, CutAt
  <2> QED BY <2>1, <2>2
<1>5. CASE i > k + Len(b)
  <2> DEFINE j == i - k - Len(b) + m - 1
  <2>1. j \in m .. Len(t) /\ k + Len(b) + j - m + 1 = i BY <1>0, <1>2, <1>5
  <2> HIDE DEF j
  <2>2. c[k + Len(b) + j - m + 1] = t[j] BY <2>1, CutAt
  <2> QED BY <2>1, <2>2 DEF j
<1> QED BY <1>0, <1>2, <1>3, <1>4, <1>5

\* A segment may be replaced if no block is left open on both sides of it and none is
\* there twice.
LEMMA CutTidy ==
    ASSUME NEW t \in Seq(Tokens), NEW b \in Seq(Tokens), Tidy(t), Tidy(b),
           NEW k \in 0 .. Len(t), NEW m \in (k + 1) .. (Len(t) + 1),
           \A a \in Artifacts, j \in m .. Len(t) : t[j] = Token("end", a) => j - 4 >= m,
           \A a \in Artifacts, i \in DOMAIN b, j \in DOMAIN t :
              b[i] = Token("begin", a) /\ t[j] = Token("begin", a) => j > k /\ j < m
    PROVE  Tidy(Cut(t, k, m, b))
<1> DEFINE c == Cut(t, k, m, b)
           n == Len(b)
<1>0. /\ Len(t) \in Nat /\ n \in Nat /\ DOMAIN t = 1 .. Len(t) /\ DOMAIN b = 1 .. n
      /\ k \in Nat /\ m \in Nat
  BY LenProperties
<1>1. /\ c \in Seq(Tokens) /\ Len(c) = k + n + Len(t) - m + 1
      /\ \A i \in 1 .. k : c[i] = t[i]
      /\ \A i \in 1 .. n : c[k + i] = b[i]
      /\ \A i \in m .. Len(t) : c[k + n + i - m + 1] = t[i]
  BY CutAt
<1>2. \A i \in DOMAIN c :
         \/ i \in 1 .. k /\ c[i] = t[i]
         \/ i - k \in 1 .. n /\ c[i] = b[i - k]
         \/ i - k - n + m - 1 \in m .. Len(t) /\ c[i] = t[i - k - n + m - 1]
  BY CutFrom
<1>d. DOMAIN c = 1 .. (k + n + Len(t) - m + 1)
  BY <1>1, LenProperties
<1> HIDE DEF c, n
<1>3. ASSUME NEW a \in Artifacts, NEW i \in DOMAIN c, NEW j \in DOMAIN c,
             c[i] = Token("begin", a), c[j] = Token("begin", a)
      PROVE  i = j
  <2>1. \A x, y \in 1 .. Len(t) : t[x] = Token("begin", a) /\ t[y] = Token("begin", a) => x = y
    BY <1>0 DEF Tidy
  <2>2. \A x, y \in 1 .. n : b[x] = Token("begin", a) /\ b[y] = Token("begin", a) => x = y
    BY <1>0 DEF Tidy
  <2>3. \A x \in 1 .. n, y \in 1 .. Len(t) :
           b[x] = Token("begin", a) /\ t[y] = Token("begin", a) => y > k /\ y < m
    BY <1>0
  <2> DEFINE up(x) == x - k - n + m - 1
  <2>4. \/ i \in 1 .. k /\ t[i] = Token("begin", a)
        \/ i - k \in 1 .. n /\ b[i - k] = Token("begin", a)
        \/ up(i) \in m .. Len(t) /\ t[up(i)] = Token("begin", a)
    BY <1>2, <1>3
  <2>5. \/ j \in 1 .. k /\ t[j] = Token("begin", a)
        \/ j - k \in 1 .. n /\ b[j - k] = Token("begin", a)
        \/ up(j) \in m .. Len(t) /\ t[up(j)] = Token("begin", a)
    BY <1>2, <1>3
  <2>6. i \in Int /\ j \in Int /\ 1 .. k \subseteq 1 .. Len(t) /\ m .. Len(t) \subseteq 1 .. Len(t)
    BY <1>0, <1>d
  <2>7. k \in Int /\ n \in Int /\ m \in Int /\ m > k BY <1>0
  <2>8. CASE i \in 1 .. k /\ t[i] = Token("begin", a)
    <3>1. ~(j - k \in 1 .. n /\ b[j - k] = Token("begin", a)) BY <2>3, <2>6, <2>7, <2>8
    <3>2. ~(up(j) \in m .. Len(t) /\ t[up(j)] = Token("begin", a)) BY <2>1, <2>6, <2>7, <2>8
    <3> HIDE DEF up
    <3> QED BY <2>1, <2>5, <2>6, <2>8, <3>1, <3>2
  <2>9. CASE i - k \in 1 .. n /\ b[i - k] = Token("begin", a)
    <3>1. ~(j \in 1 .. k /\ t[j] = Token("begin", a)) BY <2>3, <2>6, <2>7, <2>9
    <3>2. ~(up(j) \in m .. Len(t) /\ t[up(j)] = Token("begin", a)) BY <2>3, <2>6, <2>7, <2>9
    <3> HIDE DEF up
    <3>3. i - k = j - k BY <2>2, <2>5, <2>9, <3>1, <3>2
    <3> QED BY <2>6, <2>7, <3>3
  <2>10. CASE up(i) \in m .. Len(t) /\ t[up(i)] = Token("begin", a)
    <3>1. ~(j \in 1 .. k /\ t[j] = Token("begin", a)) BY <2>1, <2>6, <2>7, <2>10
    <3>2. ~(j - k \in 1 .. n /\ b[j - k] = Token("begin", a)) BY <2>3, <2>6, <2>7, <2>10
    <3> HIDE DEF up
    <3>3. up(i) = up(j) BY <2>1, <2>5, <2>6, <2>10, <3>1, <3>2
    <3> QED BY <2>6, <2>7, <3>3 DEF up
  <2> QED BY <2>4, <2>8, <2>9, <2>10
<1>4. ASSUME NEW a \in Artifacts, NEW j \in DOMAIN c, c[j] = Token("end", a)
      PROVE  /\ j > 4 /\ c[j - 4] = Token("begin", a)
             /\ c[j - 3] = Newline /\ c[j - 2][1] = "body" /\ c[j - 1] = Newline
  <2>1. \A x \in 1 .. Len(t) : t[x] = Token("end", a) =>
            /\ x > 4 /\ t[x - 4] = Token("begin", a)
            /\ t[x - 3] = Newline /\ t[x - 2][1] = "body" /\ t[x - 1] = Newline
    BY <1>0 DEF Tidy
  <2>2. \A x \in 1 .. n : b[x] = Token("end", a) =>
            /\ x > 4 /\ b[x - 4] = Token("begin", a)
            /\ b[x - 3] = Newline /\ b[x - 2][1] = "body" /\ b[x - 1] = Newline
    BY <1>0 DEF Tidy
  <2>3. CASE j \in 1 .. k /\ c[j] = t[j]
    <3>1. t[j] = Token("end", a) /\ j \in 1 .. Len(t) BY <1>0, <1>4, <2>3
    <3>2. j > 4 BY <2>1, <3>1
    <3>3. j - 4 \in 1 .. k /\ j - 3 \in 1 .. k /\ j - 2 \in 1 .. k /\ j - 1 \in 1 .. k BY <1>0, <2>3, <3>2
    <3> QED BY <1>1, <2>1, <3>1, <3>2, <3>3
  <2>4. CASE j - k \in 1 .. n /\ c[j] = b[j - k]
    <3> DEFINE x == j - k
    <3>1. b[x] = Token("end", a) /\ x \in 1 .. n BY <1>4, <2>4
    <3>2. x > 4 BY <2>2, <3>1
    <3>3. x - 4 \in 1 .. n /\ x - 3 \in 1 .. n /\ x - 2 \in 1 .. n /\ x - 1 \in 1 .. n BY <1>0, <3>1, <3>2
    <3>4. c[k + (x - 4)] = b[x - 4] /\ c[k + (x - 3)] = b[x - 3] /\ c[k + (x - 2)] = b[x - 2]
            /\ c[k + (x - 1)] = b[x - 1]
      BY <1>1, <3>3
    <3>5. /\ k + (x - 4) = j - 4 /\ k + (x - 3) = j - 3 /\ k + (x - 2) = j - 2 /\ k + (x - 1) = j - 1 /\ j > 4
      BY <1>0, <1>d, <3>2
    <3> QED BY <2>2, <3>1, <3>4, <3>5
  <2>5. CASE j - k - n + m - 1 \in m .. Len(t) /\ c[j] = t[j - k - n + m - 1]
    <3> DEFINE x == j - k - n + m - 1
    <3>1. t[x] = Token("end", a) /\ x \in m .. Len(t) BY <1>4, <2>5
    <3>2. x \in 1 .. Len(t) /\ x - 4 >= m BY <1>0, <3>1
    <3>3. /\ x - 4 \in m .. Len(t) /\ x - 3 \in m .. Len(t) /\ x - 2 \in m .. Len(t) /\ x - 1 \in m .. Len(t)
      BY <1>0, <3>1, <3>2
    <3> DEFINE to(i) == k + n + i - m + 1
    <3>4. /\ c[to(x - 4)] = t[x - 4] /\ c[to(x - 3)] = t[x - 3] /\ c[to(x - 2)] = t[x - 2]
          /\ c[to(x - 1)] = t[x - 1]
      BY <1>1, <3>3
    <3>5. to(x - 4) = j - 4 /\ to(x - 3) = j - 3 /\ to(x - 2) = j - 2 /\ to(x - 1) = j - 1 /\ j > 4
      <4>1. j \in Int /\ k \in Nat /\ n \in Nat /\ m \in Nat BY <1>0, <1>d
      <4>2. x \in Int /\ j = x + k + n - m + 1 BY <4>1
      <4>3. x - 4 >= m BY <3>2
      <4> HIDE DEF x
      <4>4. j > 4 BY <4>1, <4>2, <4>3
      <4>5. to(x - 4) = j - 4 /\ to(x - 3) = j - 3 /\ to(x - 2) = j - 2 /\ to(x - 1) = j - 1 BY <4>1, <4>2
      <4> QED BY <4>4, <4>5
    <3> QED BY <2>1, <3>2, <3>1, <3>4, <3>5
  <2> QED BY <1>2, <2>3, <2>4, <2>5
<1>5. Tidy(c)
  BY <1>3, <1>4 DEF Tidy
<1> QED BY <1>5 DEF c

\* Every line of the operator in one text is in the other.
Carried(t, u) == \A i \in DOMAIN t : t[i][1] = "own" => \E j \in DOMAIN u : u[j] = t[i]

\* Every line of the operator in the first text is in one of the others.
Parted(t, u, d) ==
    \A i \in DOMAIN t : t[i][1] = "own" => (\E j \in DOMAIN u : u[j] = t[i]) \/ (\E j \in DOMAIN d : d[j] = t[i])

\* What is cut off at the end of a text is what the new one lacks.
LEMMA CutParts ==
    ASSUME NEW t \in Seq(Tokens), NEW b \in Seq(Tokens), NEW s \in 1 .. Len(t)
    PROVE  Parted(t, Cut(t, s - 1, Len(t) + 1, b), SubSeq(t, s, Len(t)))
<1> DEFINE c == Cut(t, s - 1, Len(t) + 1, b)
           d == SubSeq(t, s, Len(t))
<1>0. /\ Len(t) \in Nat /\ Len(b) \in Nat /\ DOMAIN t = 1 .. Len(t) /\ \A i \in 1 .. Len(t) : t[i] \in Tokens
  BY LenProperties
<1>1. s - 1 \in 0 .. Len(t) /\ Len(t) + 1 \in (s - 1 + 1) .. (Len(t) + 1)
  BY <1>0
<1>2. /\ c \in Seq(Tokens) /\ Len(c) = (s - 1) + Len(b) + Len(t) - (Len(t) + 1) + 1
      /\ \A i \in 1 .. (s - 1) : c[i] = t[i]
  BY <1>1, CutAt
<1>3. d \in Seq(Tokens) /\ Len(d) = Len(t) - s + 1 /\ \A i \in 1 .. Len(t) - s + 1 : d[i] = t[s + i - 1]
  <2>1. \A i \in s .. Len(t) : t[i] \in Tokens BY <1>0
  <2> QED BY <1>0, <2>1, SubSeqProperties
<1> HIDE DEF c, d
<1>4. DOMAIN c = 1 .. Len(c) /\ DOMAIN d = 1 .. Len(d)
  BY <1>2, <1>3, LenProperties
<1>5. ASSUME NEW i \in DOMAIN t
      PROVE  (\E j \in DOMAIN c : c[j] = t[i]) \/ (\E j \in DOMAIN d : d[j] = t[i])
  <2>1. CASE i < s
    <3>1. i \in 1 .. (s - 1) /\ i \in DOMAIN c BY <1>0, <1>2, <1>4, <2>1
    <3> QED BY <1>2, <3>1
  <2>2. CASE i >= s
    <3>1. i - s + 1 \in 1 .. Len(t) - s + 1 /\ s + (i - s + 1) - 1 = i BY <1>0, <2>2
    <3>2. i - s + 1 \in DOMAIN d BY <1>3, <1>4, <3>1
    <3>3. d[i - s + 1] = t[s + (i - s + 1) - 1] BY <1>3, <3>1
    <3> QED BY <3>1, <3>2, <3>3
  <2> QED BY <1>0, <2>1, <2>2
<1>6. Parted(t, c, d)
  BY <1>5 DEF Parted
<1> QED BY <1>6 DEF c, d

\* A segment without one can go.
LEMMA CutCarries ==
    ASSUME NEW t \in Seq(Tokens), NEW b \in Seq(Tokens),
           NEW k \in 0 .. Len(t), NEW m \in (k + 1) .. (Len(t) + 1)
    PROVE  /\ (\A i \in (k + 1) .. (m - 1) : t[i][1] # "own") => Carried(t, Cut(t, k, m, b))
           /\ Carried(b, Cut(t, k, m, b))
<1> DEFINE c == Cut(t, k, m, b)
           n == Len(b)
<1>0. /\ Len(t) \in Nat /\ n \in Nat /\ DOMAIN t = 1 .. Len(t) /\ DOMAIN b = 1 .. n
  BY LenProperties
<1>1. /\ c \in Seq(Tokens) /\ Len(c) = k + n + Len(t) - m + 1
      /\ \A i \in 1 .. k : c[i] = t[i]
      /\ \A i \in 1 .. n : c[k + i] = b[i]
      /\ \A i \in m .. Len(t) : c[k + n + i - m + 1] = t[i]
  BY CutAt
<1>d. DOMAIN c = 1 .. (k + n + Len(t) - m + 1)
  BY <1>1, LenProperties
<1> HIDE DEF c, n
<1>2. ASSUME NEW i \in DOMAIN b PROVE \E j \in DOMAIN c : c[j] = b[i]
  <2>1. k + i \in DOMAIN c BY <1>0, <1>d
  <2> QED BY <1>0, <1>1, <2>1
<1>3. ASSUME NEW i \in DOMAIN t, i \notin (k + 1) .. (m - 1) PROVE \E j \in DOMAIN c : c[j] = t[i]
  <2>1. CASE i \in 1 .. k
    <3>1. i \in DOMAIN c BY <1>0, <1>d, <2>1
    <3> QED BY <1>1, <2>1, <3>1
  <2>2. CASE i \in m .. Len(t)
    <3>1. k + n + i - m + 1 \in DOMAIN c BY <1>0, <1>d, <2>2
    <3> QED BY <1>1, <2>2, <3>1
  <2> QED BY <1>0, <1>3, <2>1, <2>2
<1>4. Carried(b, c) /\ ((\A i \in (k + 1) .. (m - 1) : t[i][1] # "own") => Carried(t, c))
  BY <1>2, <1>3 DEF Carried
<1> QED BY <1>4 DEF c

-----------------------------------------------------------------------------
\* The artifacts that have a begin marker in a text.
Begins(t) == {a \in Artifacts : \E i \in DOMAIN t : t[i] = Token("begin", a)}

\* A text put after another is a replacement of nothing at its end.
LEMMA JoinIsCut ==
    ASSUME NEW p \in Seq(Tokens), NEW q \in Seq(Tokens)
    PROVE  p \o q = Cut(p, Len(p), Len(p) + 1, q)
<1>0. Len(p) \in Nat
  BY LenProperties
<1>1. SubSeq(p, 1, Len(p)) = p
  BY SubSeqFull
<1>2. SubSeq(p, Len(p) + 1, Len(p)) = <<>>
  BY <1>0, SubSeqEmpty
<1>3. p \o q \in Seq(Tokens)
  BY ConcatProperties
<1>4. (p \o q) \o <<>> = p \o q
  BY <1>3, ConcatEmptySeq
<1> QED BY <1>1, <1>2, <1>4 DEF Cut

\* Texts with markers of different artifacts can be joined.
LEMMA JoinTidy ==
    ASSUME NEW p \in Seq(Tokens), NEW q \in Seq(Tokens), Tidy(p), Tidy(q), Begins(p) \cap Begins(q) = {}
    PROVE  /\ p \o q \in Seq(Tokens) /\ Tidy(p \o q)
           /\ Carried(p, p \o q) /\ Carried(q, p \o q)
           /\ Begins(p \o q) \subseteq Begins(p) \cup Begins(q)
<1> DEFINE k == Len(p)
           c == Cut(p, k, k + 1, q)
<1>0. k \in Nat /\ k \in 0 .. Len(p) /\ k + 1 \in (k + 1) .. (Len(p) + 1) /\ DOMAIN p = 1 .. k
  BY LenProperties
<1>1. c \in Seq(Tokens)
  BY <1>0, CutAt
<1>2. Tidy(c)
  <2>1. \A a \in Artifacts, j \in (k + 1) .. Len(p) : p[j] = Token("end", a) => j - 4 >= k + 1
    BY <1>0
  <2>2. \A a \in Artifacts, i \in DOMAIN q, j \in DOMAIN p :
           q[i] = Token("begin", a) /\ p[j] = Token("begin", a) => j > k /\ j < k + 1
    BY DEF Begins
  <2> QED BY <1>0, <2>1, <2>2, CutTidy
<1>3. Carried(p, c) /\ Carried(q, c)
  <2>1. \A i \in (k + 1) .. (k + 1 - 1) : p[i][1] # "own" BY <1>0
  <2> QED BY <1>0, <2>1, CutCarries
<1>4. ASSUME NEW i \in DOMAIN c
      PROVE  (i \in DOMAIN p /\ c[i] = p[i]) \/ (i - k \in DOMAIN q /\ c[i] = q[i - k])
  <2>1. Len(q) \in Nat /\ DOMAIN q = 1 .. Len(q) BY LenProperties
  <2>2. \/ i \in 1 .. k /\ c[i] = p[i]
        \/ i - k \in 1 .. Len(q) /\ c[i] = q[i - k]
        \/ i - k - Len(q) + (k + 1) - 1 \in (k + 1) .. Len(p) /\ c[i] = p[i - k - Len(q) + (k + 1) - 1]
    BY <1>0, CutFrom
  <2> QED BY <1>0, <2>1, <2>2
<1>5. Begins(c) \subseteq Begins(p) \cup Begins(q)
  BY <1>4 DEF Begins
<1>6. p \o q = c
  BY JoinIsCut
<1> QED BY <1>1, <1>2, <1>3, <1>5, <1>6

\* What AART puts into a text.
LEMMA BlockTidy ==
    ASSUME NEW a \in Artifacts, NEW body \in Artifacts \X {1, 2}
    PROVE  /\ Block(a, body) \in Seq(Tokens) /\ Tidy(Block(a, body))
           /\ Ownerless(Block(a, body)) /\ Begins(Block(a, body)) \subseteq {a}
<1> DEFINE b == Block(a, body)
<1>1. Token("begin", a) \in Tokens /\ Newline \in Tokens /\ Token("body", body) \in Tokens /\ Token("end", a) \in Tokens
  BY DEF Token, Tokens, Newline
<1>2. /\ b \in Seq(Tokens) /\ DOMAIN b = 1 .. 5 /\ b[1] = Token("begin", a) /\ b[2] = Newline
      /\ b[3] = Token("body", body) /\ b[4] = Newline /\ b[5] = Token("end", a)
  BY <1>1 DEF Block
<1> HIDE DEF b
<1>3. \A i \in DOMAIN b : i = 1 \/ i = 2 \/ i = 3 \/ i = 4 \/ i = 5
  BY <1>2
<1>4. Ownerless(b)
  BY <1>2, <1>3 DEF Ownerless, Token, Newline
<1>5. \A i \in DOMAIN b, x \in Artifacts :
         /\ b[i] = Token("begin", x) => i = 1 /\ x = a
         /\ b[i] = Token("end", x) => i = 5 /\ x = a
  BY <1>2, <1>3 DEF Token, Newline
<1>6. b[3][1] = "body"
  BY <1>2 DEF Token
<1>7. ASSUME NEW x \in Artifacts, NEW j \in DOMAIN b, b[j] = Token("end", x)
      PROVE  j > 4 /\ b[j - 4] = Token("begin", x) /\ b[j - 3] = Newline /\ b[j - 2][1] = "body" /\ b[j - 1] = Newline
  <2>1. j = 5 /\ x = a BY <1>5, <1>7
  <2>2. j - 4 = 1 /\ j - 3 = 2 /\ j - 2 = 3 /\ j - 1 = 4 /\ j > 4 BY <2>1
  <2> QED BY <1>2, <1>6, <2>1, <2>2
<1>8. Tidy(b)
  BY <1>5, <1>7 DEF Tidy
<1>9. Begins(b) \subseteq {a}
  BY <1>5 DEF Begins
<1> QED BY <1>2, <1>4, <1>8, <1>9 DEF b

\* A text without markers.
LEMMA PlainTidy ==
    ASSUME NEW t \in Seq(Tokens), \A i \in DOMAIN t : t[i][1] \notin {"begin", "end"}
    PROVE  Tidy(t) /\ Begins(t) = {}
<1>1. \A a \in Artifacts, i \in DOMAIN t : t[i] # Token("begin", a) /\ t[i] # Token("end", a)
  BY DEF Token
<1> QED BY <1>1 DEF Tidy, Begins

\* Newlines around a block are plain.
LEMMA NewlinesPlain ==
    /\ <<Newline>> \in Seq(Tokens) /\ Tidy(<<Newline>>) /\ Begins(<<Newline>>) = {}
    /\ <<Newline, Newline>> \in Seq(Tokens) /\ Tidy(<<Newline, Newline>>) /\ Begins(<<Newline, Newline>>) = {}
<1>1. Newline \in Tokens /\ Newline[1] = "newline"
  BY DEF Newline, Token, Tokens
<1>2. <<Newline>> \in Seq(Tokens) /\ \A i \in DOMAIN <<Newline>> : <<Newline>>[i] = Newline
  BY <1>1
<1>3. <<Newline, Newline>> \in Seq(Tokens) /\ \A i \in DOMAIN <<Newline, Newline>> : <<Newline, Newline>>[i] = Newline
  BY <1>1
<1> DEFINE x == <<Newline>>
           y == <<Newline, Newline>>
<1>4. x \in Seq(Tokens) /\ y \in Seq(Tokens) /\ (\A i \in DOMAIN x : x[i] = Newline) /\ \A i \in DOMAIN y : y[i] = Newline
  BY <1>2, <1>3
<1> HIDE DEF x, y
<1>5. (\A i \in DOMAIN x : x[i][1] \notin {"begin", "end"}) /\ \A i \in DOMAIN y : y[i][1] \notin {"begin", "end"}
  BY <1>1, <1>4
<1>6. Tidy(x) /\ Begins(x) = {} /\ Tidy(y) /\ Begins(y) = {}
  BY <1>4, <1>5, PlainTidy
<1> QED BY <1>4, <1>6 DEF x, y

\* The first of a single position.
LEMMA FirstOfOne == \A x \in Int : First({x}) = x
BY DEF First

\* An end marker is the end of the one block there is.
LEMMA OneBlock ==
    ASSUME NEW t \in Seq(Tokens), Tidy(t), NEW a \in Artifacts, NEW e \in Positions(t, Token("end", a))
    PROVE  /\ e \in Nat /\ e > 4 /\ e <= Len(t)
           /\ Positions(t, Token("begin", a)) = {e - 4} /\ Positions(t, Token("end", a)) = {e}
           /\ \A i \in (e - 4) .. e : t[i][1] # "own"
           /\ \A i \in (e - 4) .. e, x \in Artifacts :
                 /\ t[i] = Token("begin", x) => i = e - 4 /\ x = a
                 /\ t[i] = Token("end", x) => i = e /\ x = a
<1>0. Len(t) \in Nat /\ DOMAIN t = 1 .. Len(t)
  BY LenProperties
<1>1. /\ e \in 1 .. Len(t) /\ e > 4 /\ t[e] = Token("end", a) /\ t[e - 4] = Token("begin", a)
      /\ t[e - 3] = Newline /\ t[e - 2][1] = "body" /\ t[e - 1] = Newline
  BY <1>0 DEF Tidy, Positions
<1>2. \A i \in DOMAIN t : t[i] = Token("begin", a) => i = e - 4
  <2>1. e - 4 \in DOMAIN t BY <1>0, <1>1
  <2> QED BY <1>1, <2>1 DEF Tidy
<1>3. \A i \in DOMAIN t : t[i] = Token("end", a) => i = e
  <2> TAKE i \in DOMAIN t
  <2> HAVE t[i] = Token("end", a)
  <2>1. i > 4 /\ t[i - 4] = Token("begin", a) BY DEF Tidy
  <2>2. i - 4 \in DOMAIN t /\ i \in Int BY <1>0, <2>1
  <2>3. i - 4 = e - 4 BY <1>2, <2>1, <2>2
  <2> QED BY <1>1, <2>2, <2>3
<1>4. Positions(t, Token("begin", a)) = {e - 4} /\ Positions(t, Token("end", a)) = {e}
  <2>1. e - 4 \in DOMAIN t /\ e \in DOMAIN t BY <1>0, <1>1
  <2> QED BY <1>1, <1>2, <1>3, <2>1 DEF Positions
<1>5. \A i \in (e - 4) .. e : i = e - 4 \/ i = e - 3 \/ i = e - 2 \/ i = e - 1 \/ i = e
  BY <1>1
<1>6. Newline[1] = "newline" /\ \A x \in Artifacts : Token("begin", x) = <<"begin", x>> /\ Token("end", x) = <<"end", x>>
  BY DEF Newline, Token
<1>7. \A i \in (e - 4) .. e : t[i][1] # "own"
  BY <1>1, <1>5, <1>6
<1>8. ASSUME NEW i \in (e - 4) .. e, NEW x \in Artifacts
      PROVE  /\ t[i] = Token("begin", x) => i = e - 4 /\ x = a
             /\ t[i] = Token("end", x) => i = e /\ x = a
  <2>1. CASE i = e - 4 BY <1>1, <1>6, <2>1
  <2>2. CASE i = e BY <1>1, <1>6, <2>2
  <2>3. CASE i = e - 3 \/ i = e - 2 \/ i = e - 1
    <3>1. t[i][1] \in {"newline", "body"} BY <1>1, <1>6, <2>3
    <3>2. Token("begin", x)[1] = "begin" /\ Token("end", x)[1] = "end" BY DEF Token
    <3> QED BY <3>1, <3>2
  <2> QED BY <1>5, <2>1, <2>2, <2>3
<1> QED BY <1>0, <1>1, <1>4, <1>7, <1>8

\* A block with what follows it, up to there, can be replaced or taken out.
LEMMA BlockCut ==
    ASSUME NEW t \in Seq(Tokens), Tidy(t), NEW a \in Artifacts, NEW e \in Positions(t, Token("end", a)),
           NEW b \in Seq(Tokens), Tidy(b), Begins(b) \subseteq {a},
           NEW m \in {e + 1, e + 2}, m <= Len(t) + 1, m = e + 2 => t[e + 1] = Newline
    PROVE  LET c == Cut(t, e - 5, m, b) IN
           /\ c \in Seq(Tokens) /\ Tidy(c) /\ Carried(t, c)
           /\ e - 5 \in 0 .. Len(t) /\ m \in (e - 5 + 1) .. (Len(t) + 1)
<1>0. Len(t) \in Nat /\ DOMAIN t = 1 .. Len(t)
  BY LenProperties
<1>1. /\ e \in Nat /\ e > 4 /\ e <= Len(t) /\ Positions(t, Token("begin", a)) = {e - 4}
      /\ \A i \in (e - 4) .. e : t[i][1] # "own"
      /\ \A i \in (e - 4) .. e, x \in Artifacts : t[i] = Token("begin", x) => i = e - 4 /\ x = a
      /\ \A i \in (e - 4) .. e, x \in Artifacts : t[i] = Token("end", x) => i = e /\ x = a
      /\ Positions(t, Token("end", a)) = {e}
  BY OneBlock
<1> DEFINE k == e - 5
<1>2. k \in 0 .. Len(t) /\ m \in (k + 1) .. (Len(t) + 1) /\ m \in Int /\ m > e
  BY <1>0, <1>1
<1>n. Newline[1] = "newline" /\ \A x \in Artifacts : Newline # Token("begin", x)
  BY DEF Newline, Token
<1>3. ASSUME NEW x \in Artifacts, NEW j \in m .. Len(t), t[j] = Token("end", x) PROVE j - 4 >= m
  <2>1. j \in 1 .. Len(t) /\ j > e /\ j \in Int BY <1>0, <1>1, <1>2
  <2>2. /\ j > 4 /\ t[j - 4] = Token("begin", x) /\ t[j - 3] = Newline /\ t[j - 2][1] = "body"
        /\ t[j - 1] = Newline /\ j - 4 \in DOMAIN t
    <3>1. j \in DOMAIN t BY <1>0, <2>1
    <3>2. /\ j > 4 /\ t[j - 4] = Token("begin", x) /\ t[j - 3] = Newline /\ t[j - 2][1] = "body"
          /\ t[j - 1] = Newline
      BY <1>3, <3>1 DEF Tidy
    <3> QED BY <1>0, <2>1, <3>2
  <2>3. t[e] = Token("end", a) /\ t[e] = <<"end", a>> BY DEF Positions, Token
  <2>4. j - 3 # e /\ j - 2 # e /\ j - 1 # e
    BY <1>n, <2>2, <2>3 DEF Newline, Token
  <2>5. j - 4 > e \/ j - 4 \in (e - 4) .. e
    BY <1>1, <2>1, <2>4
  <2>6. j - 4 \notin (e - 4) .. e
    <3>1. SUFFICES ASSUME j - 4 \in (e - 4) .. e PROVE FALSE OBVIOUS
    <3>2. j - 4 = e - 4 BY <1>1, <2>2, <3>1
    <3> QED BY <1>1, <2>1, <3>2
  <2>7. m = e + 2 => j - 4 # e + 1
    BY <1>n, <2>2
  <2> QED BY <1>1, <2>1, <2>5, <2>6, <2>7
<1>4. ASSUME NEW x \in Artifacts, NEW i \in DOMAIN b, NEW j \in DOMAIN t,
             b[i] = Token("begin", x), t[j] = Token("begin", x)
      PROVE  j > k /\ j < m
  <2>1. x = a BY <1>4 DEF Begins
  <2>2. j = e - 4 BY <1>1, <1>4, <2>1 DEF Positions
  <2> QED BY <1>1, <1>2, <2>2
<1>5. ASSUME NEW i \in (k + 1) .. (m - 1) PROVE t[i][1] # "own"
  <2>1. i \in (e - 4) .. e \/ (m = e + 2 /\ i = e + 1) BY <1>1, <1>2
  <2> QED BY <1>1, <1>n, <2>1
<1>6. Cut(t, k, m, b) \in Seq(Tokens)
  BY <1>2, CutAt
<1>7. Tidy(Cut(t, k, m, b))
  BY <1>2, <1>3, <1>4, CutTidy
<1>8. Carried(t, Cut(t, k, m, b))
  BY <1>2, <1>5, CutCarries
<1> QED BY <1>2, <1>6, <1>7, <1>8

\* Lines carried twice are carried.
LEMMA CarriedOn ==
    ASSUME NEW t, NEW u, NEW v, Carried(t, u), Carried(u, v)
    PROVE  Carried(t, v)
BY DEF Carried

LEMMA CarriedSame == \A t : Carried(t, t)
BY DEF Carried

\* The library's facts, of texts.
LEMMA TextsAssociative == \A p, q, r \in Seq(Tokens) : (p \o q) \o r = p \o (q \o r)
<1> TAKE p, q, r \in Seq(Tokens)
<1> QED BY ConcatAssociative

\* What a rest of a text starts with.
LEMMA HeadTailOfText ==
    ASSUME NEW t \in Seq(Tokens), NEW m \in 1 .. Len(t)
    PROVE  Head(SubSeq(t, m, Len(t))) = t[m] /\ Tail(SubSeq(t, m, Len(t))) = SubSeq(t, m + 1, Len(t))
<1>1. Len(t) \in m .. Len(t)
  BY LenProperties
<1> QED BY <1>1, HeadTailOfSubSeq, Zenon

\* memory_block puts the block of an artifact in place of the one there is, or at an end
\* of the text; where the end marker is gone it loses what follows the begin marker.
LEMMA MemoryBlockKeeps ==
    ASSUME NEW t \in Seq(Tokens), Tidy(t), NEW a \in Artifacts, NEW body \in Artifacts \X {1, 2}, NEW top \in BOOLEAN
    PROVE  LET u == MemoryBlock(t, a, body, top) IN
           /\ u \in Seq(Tokens) /\ Tidy(u)
           /\ Positions(t, Token("begin", a)) = {} \/ Positions(t, Token("end", a)) # {} => Carried(t, u)
           /\ Positions(t, Token("begin", a)) # {} /\ Positions(t, Token("end", a)) = {} =>
                 Parted(t, u, SubSeq(t, First(Positions(t, Token("begin", a))), Len(t)))
<1> DEFINE begins == Positions(t, Token("begin", a))
           start == First(begins)
           ends == {i \in Positions(t, Token("end", a)) : i > start}
           rest == SubSeq(t, First(ends) + 1, Len(t))
           tail == IF rest # <<>> /\ Head(rest) = Newline THEN Tail(rest) ELSE rest
           base == IF Last(t) = Newline THEN t ELSE Append(t, Newline)
           b == Block(a, body)
           u == MemoryBlock(t, a, body, top)
<1>0. Len(t) \in Nat /\ DOMAIN t = 1 .. Len(t)
  BY LenProperties
<1>b. b \in Seq(Tokens) /\ Tidy(b) /\ Begins(b) \subseteq {a}
  BY BlockTidy
<1>n. /\ <<Newline>> \in Seq(Tokens) /\ Tidy(<<Newline>>) /\ Begins(<<Newline>>) = {}
      /\ <<Newline, Newline>> \in Seq(Tokens) /\ Tidy(<<Newline, Newline>>) /\ Begins(<<Newline, Newline>>) = {}
  BY NewlinesPlain
<1> HIDE DEF b
<1>c. /\ b \o <<Newline>> \in Seq(Tokens) /\ Tidy(b \o <<Newline>>) /\ Begins(b \o <<Newline>>) \subseteq {a}
      /\ b \o <<Newline, Newline>> \in Seq(Tokens) /\ Tidy(b \o <<Newline, Newline>>)
      /\ Begins(b \o <<Newline, Newline>>) \subseteq {a}
  <2>1. Begins(b) \cap Begins(<<Newline>>) = {} /\ Begins(b) \cap Begins(<<Newline, Newline>>) = {} BY <1>n
  <2>2. /\ b \o <<Newline>> \in Seq(Tokens) /\ Tidy(b \o <<Newline>>)
        /\ Begins(b \o <<Newline>>) \subseteq Begins(b) \cup Begins(<<Newline>>)
    BY <1>b, <1>n, <2>1, JoinTidy
  <2>3. /\ b \o <<Newline, Newline>> \in Seq(Tokens) /\ Tidy(b \o <<Newline, Newline>>)
        /\ Begins(b \o <<Newline, Newline>>) \subseteq Begins(b) \cup Begins(<<Newline, Newline>>)
    BY <1>b, <1>n, <2>1, JoinTidy
  <2> QED BY <1>b, <1>n, <2>2, <2>3
<1>1. CASE begins # {} /\ ends # {}
  <2>1. PICK e \in Positions(t, Token("end", a)) : TRUE
    BY <1>1
  <2>2. /\ e \in Nat /\ e > 4 /\ e <= Len(t) /\ begins = {e - 4} /\ Positions(t, Token("end", a)) = {e}
    BY <2>1, OneBlock
  <2>3. start = e - 4 /\ ends = {e} /\ First(ends) = e
    <3>1. First({e - 4}) = e - 4 /\ First({e}) = e BY <2>2, FirstOfOne
    <3>2. start = e - 4 BY <2>2, <3>1
    <3>3. ends = {e} BY <2>2, <3>2
    <3> QED BY <3>1, <3>2, <3>3
  <2>4. rest = SubSeq(t, e + 1, Len(t)) /\ tail = IF rest # <<>> /\ Head(rest) = Newline THEN Tail(rest) ELSE rest
    BY <2>3
  <2>u. u = SubSeq(t, 1, start - 1) \o b \o <<Newline>> \o tail
    BY <1>1 DEF MemoryBlock, b
  <2> HIDE DEF u, rest, tail, start, ends, begins
  <2>5. e = Len(t) => rest = <<>>
    <3>1. HAVE e = Len(t)
    <3>2. SubSeq(t, e + 1, Len(t)) = <<>> BY <1>0, <2>2, <3>1, SubSeqEmpty
    <3> QED BY <2>4, <3>2
  <2>6. e < Len(t) => Head(rest) = t[e + 1] /\ Tail(rest) = SubSeq(t, e + 2, Len(t))
    <3>1. HAVE e < Len(t)
    <3>2. e + 1 \in 1 .. Len(t) /\ Len(t) \in (e + 1) .. Len(t) /\ e + 1 + 1 = e + 2 BY <1>0, <2>2, <3>1
    <3>3. Head(SubSeq(t, e + 1, Len(t))) = t[e + 1] /\ Tail(SubSeq(t, e + 1, Len(t))) = SubSeq(t, e + 1 + 1, Len(t))
      BY <3>2, HeadTailOfText
    <3> QED BY <2>4, <3>2, <3>3
  <2>7. PICK m \in {e + 1, e + 2} : m <= Len(t) + 1 /\ (m = e + 2 => t[e + 1] = Newline) /\ tail = SubSeq(t, m, Len(t))
    <3>1. CASE e < Len(t) /\ rest # <<>> /\ Head(rest) = Newline
      <4>1. tail = SubSeq(t, e + 2, Len(t)) /\ t[e + 1] = Newline BY <2>4, <2>6, <3>1
      <4>2. e + 2 <= Len(t) + 1 BY <1>0, <2>2, <3>1
      <4> QED BY <4>1, <4>2
    <3>2. CASE ~(e < Len(t) /\ rest # <<>> /\ Head(rest) = Newline)
      <4>a. Len(t) \in Int /\ e \in Int /\ e <= Len(t) BY <1>0, <2>2
      <4>0. e < Len(t) \/ e = Len(t) BY <4>a
      <4>1. tail = rest BY <2>4, <2>5, <3>2, <4>0, Zenon
      <4>2. e + 1 <= Len(t) + 1 /\ e + 1 # e + 2 BY <1>0, <2>2
      <4> QED BY <2>4, <4>1, <4>2
    <3> QED BY <3>1, <3>2
  <2>8. u = SubSeq(t, 1, e - 4 - 1) \o b \o <<Newline>> \o SubSeq(t, m, Len(t))
    BY <2>3, <2>7, <2>u
  <2>9. SubSeq(t, 1, e - 5) \o b \o <<Newline>> = SubSeq(t, 1, e - 5) \o (b \o <<Newline>>)
    <3>1. SubSeq(t, 1, e - 5) \in Seq(Tokens)
      <4>1. \A i \in 1 .. (e - 5) : t[i] \in Tokens BY <1>0, <2>2, ElementOfSeq
      <4> QED BY <2>2, <4>1, SubSeqProperties
    <3> DEFINE p == SubSeq(t, 1, e - 5)
               x == <<Newline>>
    <3>2. p \in Seq(Tokens) /\ x \in Seq(Tokens) BY <1>n, <3>1
    <3> HIDE DEF p, x
    <3>3. (p \o b) \o x = p \o (b \o x) BY <1>b, <3>2, TextsAssociative, Zenon
    <3> QED BY <3>3 DEF p, x
  <2>10. u = Cut(t, e - 5, m, b \o <<Newline>>)
    <3>1. e - 4 - 1 = e - 5 BY <2>2
    <3> QED BY <2>8, <2>9, <3>1 DEF Cut
  <2>11. u \in Seq(Tokens) /\ Tidy(u) /\ Carried(t, u)
    BY <1>c, <2>1, <2>7, <2>10, BlockCut
  <2> QED BY <2>2, <2>11 DEF u
<1>2. CASE begins # {} /\ ends = {}
  <2>1. PICK s \in begins : TRUE
    BY <1>2
  <2>2. s \in 1 .. Len(t) /\ t[s] = Token("begin", a)
    BY <1>0 DEF Positions
  <2>3. begins = {s}
    BY <2>1 DEF Tidy, Positions
  <2>4. start = s
    BY <2>2, <2>3, FirstOfOne
  <2>5. Positions(t, Token("end", a)) = {}
    <3>1. SUFFICES ASSUME NEW e \in Positions(t, Token("end", a)) PROVE FALSE OBVIOUS
    <3>2. e \in Nat /\ begins = {e - 4} BY OneBlock
    <3>3. e > start BY <2>3, <2>4, <3>2
    <3> QED BY <1>2, <3>3
  <2> DEFINE p == SubSeq(t, 1, s - 1)
  <2>6. u = p \o b \o <<Newline>>
    BY <1>2, <2>4 DEF MemoryBlock, b
  <2>7. s - 1 \in 0 .. Len(t) /\ Len(t) + 1 \in (s - 1 + 1) .. (Len(t) + 1)
    BY <1>0, <2>2
  <2>8. Cut(t, s - 1, Len(t) + 1, b \o <<Newline>>) = u
    <3>1. SubSeq(t, Len(t) + 1, Len(t)) = <<>> BY <1>0, SubSeqEmpty
    <3>2. p \in Seq(Tokens)
      <4>1. \A i \in 1 .. (s - 1) : t[i] \in Tokens BY <1>0, <2>2, ElementOfSeq
      <4> QED BY <2>2, <4>1, SubSeqProperties
    <3> HIDE DEF p
    <3>3. p \o b \o <<Newline>> = p \o (b \o <<Newline>>) BY <1>b, <1>n, <3>2, ConcatAssociative
    <3>4. p \o (b \o <<Newline>>) \in Seq(Tokens) BY <1>c, <3>2, ConcatProperties
    <3>5. p \o (b \o <<Newline>>) \o <<>> = p \o (b \o <<Newline>>) BY <3>4, ConcatEmptySeq
    <3> QED BY <2>6, <3>1, <3>3, <3>5 DEF Cut, p
  <2>9. u \in Seq(Tokens)
    <3> DEFINE x == b \o <<Newline>>
    <3>1. x \in Seq(Tokens) /\ Cut(t, s - 1, Len(t) + 1, x) = u BY <1>c, <2>8
    <3> HIDE DEF x, u
    <3>2. Cut(t, s - 1, Len(t) + 1, x) \in Seq(Tokens) BY <2>7, <3>1, CutAt
    <3> QED BY <3>1, <3>2
  <2>10. Tidy(u)
    <3>1. \A x \in Artifacts, j \in (Len(t) + 1) .. Len(t) : t[j] = Token("end", x) => j - 4 >= Len(t) + 1 BY <1>0
    <3>2. ASSUME NEW x \in Artifacts, NEW i \in DOMAIN (b \o <<Newline>>), NEW j \in DOMAIN t,
                 (b \o <<Newline>>)[i] = Token("begin", x), t[j] = Token("begin", x)
          PROVE  j > s - 1 /\ j < Len(t) + 1
      <4>1. x \in Begins(b \o <<Newline>>) BY <3>2 DEF Begins
      <4>2. x = a BY <1>c, <4>1
      <4>3. j = s BY <2>3, <3>2, <4>2 DEF Positions
      <4> QED BY <1>0, <2>2, <4>3
    <3>3. Tidy(Cut(t, s - 1, Len(t) + 1, b \o <<Newline>>)) BY <1>c, <2>7, <3>1, <3>2, CutTidy
    <3> QED BY <2>8, <3>3
  <2>11. Parted(t, u, SubSeq(t, First(Positions(t, Token("begin", a))), Len(t)))
    <3> DEFINE x == b \o <<Newline>>
    <3>1. x \in Seq(Tokens) /\ Cut(t, s - 1, Len(t) + 1, x) = u BY <1>c, <2>8
    <3> HIDE DEF x, u
    <3>2. Parted(t, Cut(t, s - 1, Len(t) + 1, x), SubSeq(t, s, Len(t))) BY <2>2, <3>1, CutParts
    <3> QED BY <2>4, <3>1, <3>2
  <2> QED BY <1>2, <2>5, <2>9, <2>10, <2>11
<1>3. CASE begins = {} /\ t = <<>>
  <2>1. u = Append(b, Newline)
    BY <1>3 DEF MemoryBlock, b
  <2>2. Newline \in Tokens
    BY DEF Newline, Token, Tokens
  <2>3. u = b \o <<Newline>>
    BY <1>b, <2>1, <2>2, AppendIsConcat
  <2>4. Carried(t, u)
    BY <1>3 DEF Carried
  <2> QED BY <1>3, <1>c, <2>3, <2>4
<1>4. CASE begins = {} /\ t # <<>>
  <2>0. Newline \in Tokens
    BY DEF Newline, Token, Tokens
  <2>1. a \notin Begins(t)
    BY <1>4 DEF Begins, Positions
  <2>2. base \in Seq(Tokens) /\ Tidy(base) /\ Carried(t, base) /\ a \notin Begins(base)
    <3>1. CASE base = t BY <2>1, <3>1, CarriedSame
    <3>2. CASE base = Append(t, Newline)
      <4>1. base = t \o <<Newline>> BY <2>0, <3>2, AppendIsConcat
      <4>2. Begins(t) \cap Begins(<<Newline>>) = {} BY <1>n
      <4>3. /\ t \o <<Newline>> \in Seq(Tokens) /\ Tidy(t \o <<Newline>>) /\ Carried(t, t \o <<Newline>>)
            /\ Begins(t \o <<Newline>>) \subseteq Begins(t) \cup Begins(<<Newline>>)
        BY <1>n, <4>2, JoinTidy
      <4> QED BY <1>n, <2>1, <4>1, <4>3
    <3> QED BY <3>1, <3>2
  <2>3. u = IF top THEN b \o <<Newline, Newline>> \o base ELSE base \o <<Newline>> \o b \o <<Newline>>
    BY <1>4 DEF MemoryBlock, b
  <2> HIDE DEF base, u
  <2>4. CASE top
    <3> DEFINE q == b \o <<Newline, Newline>>
    <3>1. q \in Seq(Tokens) /\ Tidy(q) /\ Begins(q) \subseteq {a} BY <1>c
    <3>2. u = q \o base BY <2>3, <2>4
    <3> HIDE DEF q
    <3>3. Begins(q) \cap Begins(base) = {} BY <2>2, <3>1
    <3>4. q \o base \in Seq(Tokens) /\ Tidy(q \o base) /\ Carried(base, q \o base)
      BY <2>2, <3>1, <3>3, JoinTidy
    <3>5. u \in Seq(Tokens) /\ Tidy(u) /\ Carried(t, u) BY <2>2, <3>2, <3>4, CarriedOn
    <3> QED BY <1>4, <3>5 DEF u
  <2>5. CASE ~top
    <3> DEFINE q == base \o <<Newline>>
               r == q \o b
    <3>1. q \in Seq(Tokens) /\ Tidy(q) /\ Carried(base, q) /\ a \notin Begins(q)
      <4>1. Begins(base) \cap Begins(<<Newline>>) = {} BY <1>n
      <4>2. q \in Seq(Tokens) /\ Tidy(q) /\ Carried(base, q) /\ Begins(q) \subseteq Begins(base) \cup Begins(<<Newline>>)
        BY <1>n, <2>2, <4>1, JoinTidy
      <4> QED BY <1>n, <2>2, <4>2
    <3> HIDE DEF q
    <3>2. r \in Seq(Tokens) /\ Tidy(r) /\ Carried(q, r)
      <4>1. Begins(q) \cap Begins(b) = {} BY <1>b, <3>1
      <4> QED BY <1>b, <3>1, <4>1, JoinTidy
    <3>3. u = r \o <<Newline>> BY <2>3, <2>5 DEF q
    <3> HIDE DEF r
    <3>4. r \o <<Newline>> \in Seq(Tokens) /\ Tidy(r \o <<Newline>>) /\ Carried(r, r \o <<Newline>>)
      <4>1. Begins(r) \cap Begins(<<Newline>>) = {} BY <1>n
      <4> QED BY <1>n, <3>2, <4>1, JoinTidy
    <3>5. Carried(t, q) BY <2>2, <3>1, CarriedOn
    <3>6. Carried(t, r) BY <3>2, <3>5, CarriedOn
    <3>7. u \in Seq(Tokens) /\ Tidy(u) /\ Carried(t, u) BY <3>3, <3>4, <3>6, CarriedOn
    <3> QED BY <1>4, <3>7 DEF u
  <2> QED BY <2>4, <2>5
<1> QED BY <1>1, <1>2, <1>3, <1>4

\* A segment without a line of the operator and outside the blocks can be taken out.
LEMMA CutOut ==
    ASSUME NEW t \in Seq(Tokens), Tidy(t), NEW k \in 0 .. Len(t), NEW m \in (k + 1) .. (Len(t) + 1),
           \A a \in Artifacts, j \in m .. Len(t) : t[j] = Token("end", a) => j - 4 >= m,
           \A i \in (k + 1) .. (m - 1) : t[i][1] # "own",
           NEW c, c = SubSeq(t, 1, k) \o SubSeq(t, m, Len(t))
    PROVE  c \in Seq(Tokens) /\ Tidy(c) /\ Carried(t, c)
<1>1. <<>> \in Seq(Tokens) /\ Tidy(<<>>) /\ DOMAIN <<>> = {}
  BY DEF Tidy
<1>2. \A a \in Artifacts, i \in DOMAIN <<>>, j \in DOMAIN t :
         <<>>[i] = Token("begin", a) /\ t[j] = Token("begin", a) => j > k /\ j < m
  BY <1>1
<1>3. c = Cut(t, k, m, <<>>)
  <2> DEFINE p == SubSeq(t, 1, k)
  <2>1. p \in Seq(Tokens)
    <3>1. Len(t) \in Nat /\ \A i \in 1 .. k : t[i] \in Tokens BY LenProperties, ElementOfSeq
    <3> QED BY <3>1, SubSeqProperties
  <2>2. c = p \o SubSeq(t, m, Len(t)) /\ Cut(t, k, m, <<>>) = (p \o <<>>) \o SubSeq(t, m, Len(t))
    BY DEF Cut
  <2> HIDE DEF p
  <2>3. p \o <<>> = p BY <2>1, ConcatEmptySeq
  <2> QED BY <2>2, <2>3
<1>4. Tidy(c)
  BY <1>1, <1>2, <1>3, CutTidy
<1>5. c \in Seq(Tokens)
  <2>1. Cut(t, k, m, <<>>) \in Seq(Tokens) BY <1>1, CutAt
  <2> QED BY <1>3, <2>1
<1>6. Carried(t, c)
  BY <1>1, <1>3, CutCarries
<1> QED BY <1>4, <1>5, <1>6

\* A text without its last or its first token, a newline.
LEMMA DropLast ==
    ASSUME NEW t \in Seq(Tokens), Tidy(t), Len(t) > 0, t[Len(t)] = Newline
    PROVE  Front(t) \in Seq(Tokens) /\ Tidy(Front(t)) /\ Carried(t, Front(t))
<1> DEFINE n == Len(t)
           p == SubSeq(t, 1, n - 1)
<1>0. n \in Nat /\ n > 0 /\ DOMAIN t = 1 .. n
  BY LenProperties
<1>1. Front(t) = p /\ n = Len(t) /\ t[n] = Newline
  BY DEF Front
<1>2. p \in Seq(Tokens)
  <2>1. \A i \in 1 .. (n - 1) : t[i] \in Tokens BY <1>0, ElementOfSeq
  <2> QED BY <1>0, <2>1, SubSeqProperties
<1>3. SubSeq(t, n + 1, n) = <<>>
  BY <1>0, SubSeqEmpty
<1>p. p = SubSeq(t, 1, n - 1)
  OBVIOUS
<1> HIDE DEF n, p
<1>4. p = SubSeq(t, 1, n - 1) \o SubSeq(t, n + 1, Len(t))
  <2>1. p \o <<>> = p BY <1>2, ConcatEmptySeq
  <2> QED BY <1>1, <1>3, <1>p, <2>1
<1>k. PICK k \in 0 .. Len(t) : k = n - 1
  <2>1. n - 1 \in 0 .. Len(t) BY <1>0, <1>1
  <2> QED BY <2>1
<1>m. PICK m \in (k + 1) .. (Len(t) + 1) : m = n + 1
  BY <1>0, <1>1, <1>k
<1>5. k = n - 1 /\ m = n + 1
  BY <1>k, <1>m
<1>6. \A a \in Artifacts, j \in m .. Len(t) : t[j] = Token("end", a) => j - 4 >= m
  BY <1>0, <1>1, <1>5
<1>7. \A i \in (k + 1) .. (m - 1) : t[i][1] # "own"
  <2>1. \A i \in (k + 1) .. (m - 1) : i = n BY <1>0, <1>5
  <2>2. Newline[1] = "newline" BY DEF Newline, Token
  <2> QED BY <1>1, <2>1, <2>2
<1>8. p = SubSeq(t, 1, k) \o SubSeq(t, m, Len(t))
  BY <1>4, <1>5
<1>9. p \in Seq(Tokens) /\ Tidy(p) /\ Carried(t, p)
  BY <1>6, <1>7, <1>8, CutOut
<1> QED BY <1>1, <1>9

\* Dropping the newline a text starts with leaves the lines and the blocks alone.
LEMMA DropFirst ==
    ASSUME NEW t \in Seq(Tokens), Tidy(t), t # <<>>, Head(t) = Newline
    PROVE  Tail(t) \in Seq(Tokens) /\ Tidy(Tail(t)) /\ Carried(t, Tail(t))
<1> DEFINE n == Len(t)
           q == SubSeq(t, 2, n)
<1>0. n \in Nat /\ DOMAIN t = 1 .. n /\ n > 0
  <2>1. n \in Nat \ {0} /\ DOMAIN t = 1 .. n BY LenProperties, EmptySeq
  <2> QED BY <2>1
<1>1. t[1] = Newline /\ n = Len(t) /\ Tail(t) = q
  BY <1>0, TailIsSubSeq
<1>2. q \in Seq(Tokens)
  <2>1. \A i \in 2 .. n : t[i] \in Tokens BY <1>0, ElementOfSeq
  <2> QED BY <1>0, <2>1, SubSeqProperties
<1>3. SubSeq(t, 1, 0) = <<>>
  BY SubSeqEmpty
<1>q. q = SubSeq(t, 2, n)
  OBVIOUS
<1> HIDE DEF n, q
<1>4. q = SubSeq(t, 1, 0) \o SubSeq(t, 2, Len(t))
  <2>1. <<>> \o q = q BY <1>2, ConcatEmptySeq
  <2> QED BY <1>1, <1>3, <1>q, <2>1
<1>5. 0 \in 0 .. Len(t) /\ 2 \in (0 + 1) .. (Len(t) + 1)
  BY <1>0, <1>1
<1>6. ASSUME NEW a \in Artifacts, NEW j \in 2 .. Len(t), t[j] = Token("end", a) PROVE j - 4 >= 2
  <2>1. j \in DOMAIN t /\ j \in Int BY <1>0, <1>1
  <2>2. j > 4 /\ t[j - 4] = Token("begin", a) BY <1>6, <2>1 DEF Tidy
  <2>3. j - 4 # 1 BY <1>1, <2>2 DEF Newline, Token
  <2> QED BY <2>1, <2>2, <2>3
<1>7. \A i \in (0 + 1) .. (2 - 1) : t[i][1] # "own"
  <2>1. Newline[1] = "newline" BY DEF Newline, Token
  <2>2. \A i \in (0 + 1) .. (2 - 1) : i = 1 OBVIOUS
  <2> QED BY <1>1, <2>1, <2>2
<1>8. q \in Seq(Tokens) /\ Tidy(q) /\ Carried(t, q)
  BY <1>4, <1>5, <1>6, <1>7, CutOut
<1> QED BY <1>1, <1>8

\* strip_managed_block takes the block out with the blank line beside it, or refuses; where
\* the block is whole it does not.
LEMMA StripKeeps ==
    ASSUME NEW t \in Seq(Tokens), Tidy(t), NEW a \in Artifacts
    PROVE  LET r == StripManagedBlock(t, a) IN
           /\ r # None => r \in Seq(Tokens) /\ Tidy(r) /\ Carried(t, r)
           /\ Positions(t, Token("end", a)) # {} => r \in Seq(Tokens)
<1> DEFINE begins == Positions(t, Token("begin", a))
           ends == Positions(t, Token("end", a))
           start == First(begins)
           stop == IF First(ends) < Len(t) /\ t[First(ends) + 1] = Newline THEN First(ends) + 1 ELSE First(ends)
           bare == SubSeq(t, 1, start - 1) \o SubSeq(t, stop + 1, Len(t))
           n == Len(bare)
           trimmed == IF n >= 2 /\ bare[n] = Newline /\ bare[n - 1] = Newline THEN Front(bare) ELSE bare
           r == StripManagedBlock(t, a)
<1>0. Len(t) \in Nat /\ DOMAIN t = 1 .. Len(t)
  BY LenProperties
<1>1. CASE begins = {} /\ ends = {}
  <2>1. r = t BY <1>1 DEF StripManagedBlock
  <2> QED BY <1>1, <2>1, CarriedSame
<1>2. CASE ends = {} /\ begins # {}
  <2>1. Cardinality(ends) # 1 BY <1>2, FS_EmptySet
  <2>2. r = None BY <1>2, <2>1 DEF StripManagedBlock
  <2> QED BY <1>2, <2>2
<1>3. ASSUME NEW e \in ends
      PROVE  r \in Seq(Tokens) /\ Tidy(r) /\ Carried(t, r)
  <2>1. e \in Nat /\ e > 4 /\ e <= Len(t) /\ begins = {e - 4} /\ ends = {e}
    BY OneBlock
  <2>2. start = e - 4 /\ First(ends) = e
    BY <2>1, FirstOfOne
  <2>3. Cardinality(begins) = 1 /\ Cardinality(ends) = 1
    BY <2>1, FS_Singleton
  <2>4. r = IF trimmed # <<>> /\ Head(trimmed) = Newline THEN Tail(trimmed) ELSE trimmed
    <3>1. ~(First(ends) < start) /\ ~(begins = {} /\ ends = {}) BY <2>1, <2>2
    <3>2. ~(begins \cup ends # {} /\ (Cardinality(begins) # 1 \/ Cardinality(ends) # 1)) BY <2>3
    <3> QED BY <3>1, <3>2, Zenon DEF StripManagedBlock
  <2>5. PICK m \in {e + 1, e + 2} : m = stop + 1 /\ m <= Len(t) + 1 /\ (m = e + 2 => t[e + 1] = Newline)
    <3>1. stop = IF e < Len(t) /\ t[e + 1] = Newline THEN e + 1 ELSE e BY <2>2
    <3> HIDE DEF stop
    <3>2. CASE e < Len(t) /\ t[e + 1] = Newline
      <4>1. stop + 1 = e + 2 /\ e + 2 <= Len(t) + 1 BY <1>0, <2>1, <3>1, <3>2
      <4> QED BY <3>2, <4>1
    <3>3. CASE ~(e < Len(t) /\ t[e + 1] = Newline)
      <4>1. stop + 1 = e + 1 /\ e + 1 <= Len(t) + 1 /\ e + 1 # e + 2 BY <1>0, <2>1, <3>1, <3>3
      <4> QED BY <4>1
    <3> QED BY <3>2, <3>3
  <2>6. bare = Cut(t, e - 5, m, <<>>)
    <3> DEFINE p == SubSeq(t, 1, e - 5)
    <3>1. bare = p \o SubSeq(t, m, Len(t))
      <4>1. start - 1 = e - 5 BY <2>1, <2>2
      <4> QED BY <2>5, <4>1
    <3>2. p \in Seq(Tokens)
      <4>1. \A i \in 1 .. (e - 5) : t[i] \in Tokens BY <1>0, <2>1, ElementOfSeq
      <4> QED BY <2>1, <4>1, SubSeqProperties
    <3>3. Cut(t, e - 5, m, <<>>) = (p \o <<>>) \o SubSeq(t, m, Len(t)) BY DEF Cut
    <3> HIDE DEF p, bare
    <3>4. p \o <<>> = p BY <3>2, ConcatEmptySeq
    <3> QED BY <3>1, <3>3, <3>4
  <2>7. <<>> \in Seq(Tokens) /\ Tidy(<<>>) /\ Begins(<<>>) \subseteq {a}
    BY DEF Tidy, Begins
  <2>8. bare \in Seq(Tokens) /\ Tidy(bare) /\ Carried(t, bare)
    <3> DEFINE c == Cut(t, e - 5, m, <<>>)
    <3>1. c \in Seq(Tokens) /\ Tidy(c) /\ Carried(t, c) BY <2>5, <2>7, BlockCut
    <3> QED BY <2>6, <3>1
  <2>9. trimmed = IF n >= 2 /\ bare[n] = Newline /\ bare[n - 1] = Newline THEN Front(bare) ELSE bare
    OBVIOUS
  <2>t. trimmed \in Seq(Tokens) /\ Tidy(trimmed) /\ Carried(t, trimmed)
    <3> HIDE DEF bare, trimmed
    <3>1. CASE n >= 2 /\ bare[n] = Newline /\ bare[n - 1] = Newline
      <4>1. Len(bare) > 0 /\ bare[Len(bare)] = Newline BY <2>8, <3>1, LenProperties
      <4>2. Front(bare) \in Seq(Tokens) /\ Tidy(Front(bare)) /\ Carried(bare, Front(bare)) BY <2>8, <4>1, DropLast
      <4>3. trimmed = Front(bare) BY <2>9, <3>1, Zenon
      <4> QED BY <2>8, <4>2, <4>3, CarriedOn
    <3>2. CASE ~(n >= 2 /\ bare[n] = Newline /\ bare[n - 1] = Newline)
      <4>1. trimmed = bare BY <2>9, <3>2, Zenon
      <4> QED BY <2>8, <4>1
    <3> QED BY <3>1, <3>2
  <2> HIDE DEF trimmed, r
  <2>10. CASE trimmed # <<>> /\ Head(trimmed) = Newline
    <3>1. Tail(trimmed) \in Seq(Tokens) /\ Tidy(Tail(trimmed)) /\ Carried(trimmed, Tail(trimmed))
      BY <2>t, <2>10, DropFirst
    <3>2. r = Tail(trimmed) BY <2>4, <2>10, Zenon
    <3> QED BY <2>t, <3>1, <3>2, CarriedOn
  <2>11. CASE ~(trimmed # <<>> /\ Head(trimmed) = Newline)
    <3>1. r = trimmed BY <2>4, <2>11, Zenon
    <3> QED BY <2>t, <3>1
  <2> QED BY <2>10, <2>11
<1> QED BY <1>1, <1>2, <1>3

\* The operator takes an end marker out.
LEMMA TearKeeps ==
    ASSUME NEW t \in Seq(Tokens), Tidy(t), NEW a \in Artifacts, Positions(t, Token("end", a)) # {}
    PROVE  LET u == RemoveAt(t, First(Positions(t, Token("end", a)))) IN u \in Seq(Tokens) /\ Tidy(u)
<1>1. PICK e \in Positions(t, Token("end", a)) : TRUE
  OBVIOUS
<1>2. /\ e \in Nat /\ e > 4 /\ e <= Len(t) /\ Positions(t, Token("end", a)) = {e}
      /\ \A i \in (e - 4) .. e : t[i][1] # "own"
  BY OneBlock
<1>3. First(Positions(t, Token("end", a))) = e
  BY <1>2, FirstOfOne
<1>0. Len(t) \in Nat /\ DOMAIN t = 1 .. Len(t) /\ t[e] = Token("end", a)
  BY LenProperties DEF Positions
<1> DEFINE u == RemoveAt(t, e)
<1>k. PICK k \in 0 .. Len(t) : k = e - 1
  <2>1. e - 1 \in 0 .. Len(t) BY <1>0, <1>2
  <2> QED BY <2>1
<1>m. PICK m \in (k + 1) .. (Len(t) + 1) : m = e + 1
  <2>1. e + 1 \in (k + 1) .. (Len(t) + 1) BY <1>0, <1>2, <1>k
  <2> QED BY <2>1
<1>4. u = SubSeq(t, 1, k) \o SubSeq(t, m, Len(t))
  BY <1>k, <1>m DEF RemoveAt
<1>5. ASSUME NEW x \in Artifacts, NEW j \in m .. Len(t), t[j] = Token("end", x) PROVE j - 4 >= m
  <2>1. j \in DOMAIN t /\ j \in Int /\ j > e BY <1>0, <1>2, <1>m
  <2>2. j > 4 /\ t[j - 4] = Token("begin", x) /\ t[j - 3] = Newline /\ t[j - 2][1] = "body" /\ t[j - 1] = Newline
    BY <1>5, <2>1 DEF Tidy
  <2>3. j - 4 # e /\ j - 3 # e /\ j - 2 # e /\ j - 1 # e BY <1>0, <2>2 DEF Newline, Token
  <2> QED BY <1>2, <1>m, <2>1, <2>3
<1>6. \A i \in (k + 1) .. (m - 1) : t[i][1] # "own"
  <2>1. \A i \in (k + 1) .. (m - 1) : i = e BY <1>2, <1>k, <1>m
  <2>2. t[e][1] = "end" BY <1>0 DEF Token
  <2> QED BY <2>1, <2>2
<1>7. u \in Seq(Tokens) /\ Tidy(u)
  <2> HIDE DEF u
  <2> QED BY <1>4, <1>5, <1>6, CutOut
<1> QED BY <1>3, <1>7

\* The operator writes a line above or below.
LEMMA LineKeeps ==
    ASSUME NEW t \in Seq(Tokens), Tidy(t), NEW n \in Int, NEW top \in BOOLEAN
    PROVE  LET line == <<Token("own", n), Newline>>
               u == IF top THEN line \o t ELSE t \o line
           IN  u \in Seq(Tokens) /\ Tidy(u) /\ \E j \in DOMAIN u : u[j] = Token("own", n)
<1> DEFINE line == <<Token("own", n), Newline>>
<1>1. Token("own", n) \in Tokens /\ Newline \in Tokens /\ Token("own", n)[1] = "own" /\ Newline[1] = "newline"
  BY DEF Token, Newline, Tokens
<1>2. line \in Seq(Tokens) /\ DOMAIN line = 1 .. 2 /\ line[1] = Token("own", n) /\ line[2] = Newline
  BY <1>1
<1> HIDE DEF line
<1>3. \A i \in DOMAIN line : line[i][1] \notin {"begin", "end"}
  <2>1. \A i \in DOMAIN line : i = 1 \/ i = 2 BY <1>2
  <2> QED BY <1>1, <1>2, <2>1
<1>4. Tidy(line) /\ Begins(line) = {}
  BY <1>2, <1>3, PlainTidy
<1>5. line \o t \in Seq(Tokens) /\ Tidy(line \o t) /\ Carried(line, line \o t)
  BY <1>2, <1>4, JoinTidy
<1>6. t \o line \in Seq(Tokens) /\ Tidy(t \o line) /\ Carried(line, t \o line)
  BY <1>2, <1>4, JoinTidy
<1>7. \A u : Carried(line, u) => \E j \in DOMAIN u : u[j] = Token("own", n)
  BY <1>1, <1>2 DEF Carried
<1>8. (\E j \in DOMAIN (line \o t) : (line \o t)[j] = Token("own", n)) /\ \E j \in DOMAIN (t \o line) : (t \o line)[j] = Token("own", n)
  BY <1>5, <1>6, <1>7
<1> QED BY <1>5, <1>6, <1>8 DEF line

-----------------------------------------------------------------------------
(* What of the operator's is in a snapshot.                                   *)

\* What of the operator's is in a text, in nothing, in a document.
LEMMA PiecesOfText ==
    \A t : Pieces(TextFile(t)) = {<<"line", x[2]>> : x \in {x \in ToSet(t) : x[1] = "own"}}
<1> TAKE t
<1>1. /\ TextFile(t).text = t /\ TextFile(t).json.keys = {} /\ TextFile(t).json.entries = <<>>
  BY DEF TextFile, Nowhere, NoJson
<1>2. ToSet(<<>>) = {}
  BY DEF ToSet
<1> QED BY <1>1, <1>2 DEF Pieces

LEMMA PiecesOfNothing == Pieces(Nowhere) = {} /\ \A l : Pieces(Link(l)) = {}
<1>1. /\ Nowhere.text = <<>> /\ Nowhere.json.keys = {} /\ Nowhere.json.entries = <<>>
      /\ \A l : Link(l).text = <<>> /\ Link(l).json.keys = {} /\ Link(l).json.entries = <<>>
  BY DEF Link, Nowhere, NoJson
<1>2. ToSet(<<>>) = {}
  BY DEF ToSet
<1> QED BY <1>1, <1>2 DEF Pieces

LEMMA PiecesOfDocument ==
    \A d : Pieces(JsonFile(d)) = {<<"key", k>> : k \in d.keys}
                \cup {<<"entry", e.id, e.value>> : e \in {e \in ToSet(d.entries) : e.value[1] = "own"}}
<1> TAKE d
<1>1. JsonFile(d).text = <<>> /\ JsonFile(d).json = d
  BY DEF JsonFile, Nowhere
<1>2. ToSet(<<>>) = {}
  BY DEF ToSet
<1> QED BY <1>1, <1>2 DEF Pieces

\* Lines that are carried are found again.
LEMMA PiecesCarried ==
    \A t, u : /\ Carried(t, u) => Pieces(TextFile(t)) \subseteq Pieces(TextFile(u))
              /\ Ownerless(t) => Pieces(TextFile(t)) = {}
              /\ \A d : Parted(t, u, d) => Pieces(TextFile(t)) \subseteq Pieces(TextFile(u)) \cup Pieces(TextFile(d))
<1> TAKE t, u
<1>1. Carried(t, u) => {x \in ToSet(t) : x[1] = "own"} \subseteq {x \in ToSet(u) : x[1] = "own"}
  BY DEF Carried, ToSet
<1>2. Ownerless(t) => {x \in ToSet(t) : x[1] = "own"} = {}
  BY DEF Ownerless, ToSet
<1>3. ASSUME NEW d, Parted(t, u, d)
      PROVE  Pieces(TextFile(t)) \subseteq Pieces(TextFile(u)) \cup Pieces(TextFile(d))
  <2>1. {x \in ToSet(t) : x[1] = "own"} \subseteq {x \in ToSet(u) : x[1] = "own"} \cup {x \in ToSet(d) : x[1] = "own"}
    BY <1>3 DEF Parted, ToSet
  <2> QED BY <2>1, PiecesOfText
<1> QED BY <1>1, <1>2, <1>3, PiecesOfText

-----------------------------------------------------------------------------
(* Entries of a document.                                                    *)

\* The entries of a document.
ServerEntries == [id : {"x", "y", "o"}, value : ({"own"} \X {"x", "o"}) \cup ({"aart"} \X {1, 2})]

\* A document the program or the operator may have left.
Left(d) == d \in Documents /\ (d.type = "missing" => d.entries = <<>>)

\* Removing an entry leaves the others.
LEMMA EntriesRemoved ==
    ASSUME NEW s \in Seq(ServerEntries), NEW i \in DOMAIN s
    PROVE  /\ RemoveAt(s, i) \in Seq(ServerEntries)
           /\ \A j \in DOMAIN s : j # i => \E l \in DOMAIN RemoveAt(s, i) : RemoveAt(s, i)[l] = s[j]
<1> DEFINE p == SubSeq(s, 1, i - 1)
           q == SubSeq(s, i + 1, Len(s))
           c == RemoveAt(s, i)
<1>0. Len(s) \in Nat /\ DOMAIN s = 1 .. Len(s) /\ i \in 1 .. Len(s) /\ \A j \in 1 .. Len(s) : s[j] \in ServerEntries
  BY LenProperties, ElementOfSeq
<1>1. p \in Seq(ServerEntries) /\ Len(p) = i - 1 /\ \A j \in 1 .. (i - 1) : p[j] = s[j]
  <2>1. \A j \in 1 .. (i - 1) : s[j] \in ServerEntries BY <1>0
  <2>2. 1 \in Int /\ i - 1 \in Int /\ i - 1 >= 0 BY <1>0
  <2>3. /\ p \in Seq(ServerEntries) /\ Len(p) = IF 1 <= i - 1 THEN i - 1 - 1 + 1 ELSE 0
        /\ \A j \in 1 .. i - 1 - 1 + 1 : p[j] = s[1 + j - 1]
    BY <2>1, <2>2, SubSeqProperties
  <2> HIDE DEF p
  <2> QED BY <1>0, <2>2, <2>3
<1>2. /\ q \in Seq(ServerEntries) /\ Len(q) = Len(s) - i /\ \A j \in 1 .. (Len(s) - i) : q[j] = s[i + j]
  <2>1. \A j \in (i + 1) .. Len(s) : s[j] \in ServerEntries BY <1>0
  <2>2. i + 1 \in Int /\ Len(s) \in Int /\ i <= Len(s) BY <1>0
  <2>3. /\ q \in Seq(ServerEntries) /\ Len(q) = IF i + 1 <= Len(s) THEN Len(s) - (i + 1) + 1 ELSE 0
        /\ \A j \in 1 .. Len(s) - (i + 1) + 1 : q[j] = s[i + 1 + j - 1]
    BY <2>1, <2>2, SubSeqProperties
  <2> HIDE DEF q
  <2>4. Len(s) - (i + 1) + 1 = Len(s) - i /\ \A j \in 1 .. (Len(s) - i) : i + 1 + j - 1 = i + j BY <1>0
  <2>5. ASSUME NEW j \in 1 .. (Len(s) - i) PROVE q[j] = s[i + j]
    <3>1. j \in 1 .. Len(s) - (i + 1) + 1 BY <2>4
    <3>2. q[j] = s[i + 1 + j - 1] BY <2>3, <3>1
    <3> QED BY <2>4, <3>2
  <2>6. Len(q) = Len(s) - i BY <1>0, <2>2, <2>3, <2>4
  <2> QED BY <2>3, <2>5, <2>6
<1>3. c = Join(p, q)
  BY DEF RemoveAt, Join
<1> HIDE DEF p, q, c
<1>4. /\ c \in Seq(ServerEntries) /\ Len(c) = Len(p) + Len(q)
      /\ \A j \in 1 .. Len(p) + Len(q) : c[j] = IF j <= Len(p) THEN p[j] ELSE q[j - Len(p)]
  BY <1>1, <1>2, <1>3, ConcatProperties DEF Join
<1>5. DOMAIN c = 1 .. (Len(s) - 1)
  <2>1. Len(c) = Len(s) - 1 BY <1>0, <1>1, <1>2, <1>4
  <2> QED BY <1>4, <2>1, LenProperties
<1>6. ASSUME NEW j \in DOMAIN s, j # i PROVE \E l \in DOMAIN c : c[l] = s[j]
  <2>1. CASE j < i
    <3>1. j \in DOMAIN c /\ j \in 1 .. (i - 1) BY <1>0, <1>5, <2>1
    <3>2. j \in 1 .. Len(p) + Len(q) /\ j <= Len(p) BY <1>0, <1>1, <1>2, <3>1
    <3>3. c[j] = s[j] BY <1>1, <1>4, <3>1, <3>2
    <3> QED BY <3>1, <3>3
  <2>2. CASE j > i
    <3>1. j - 1 \in DOMAIN c /\ j - i \in 1 .. (Len(s) - i) BY <1>0, <1>5, <2>2
    <3>2. j - 1 \in 1 .. Len(p) + Len(q) /\ ~(j - 1 <= Len(p)) /\ j - 1 - Len(p) = j - i /\ i + (j - i) = j
      <4>1. i \in Int /\ j \in Int /\ Len(s) \in Int /\ i >= 1 /\ j <= Len(s) BY <1>0
      <4>2. Len(p) = i - 1 /\ Len(q) = Len(s) - i BY <1>1, <1>2
      <4>3. Len(p) + Len(q) = Len(s) - 1 BY <4>1, <4>2
      <4>4. j - 1 \in 1 .. (Len(s) - 1) BY <2>2, <4>1
      <4>5. ~(j - 1 <= i - 1) /\ j - 1 - (i - 1) = j - i /\ i + (j - i) = j BY <2>2, <4>1
      <4> QED BY <4>2, <4>3, <4>4, <4>5
    <3>3. c[j - 1] = q[j - i] BY <1>4, <3>2
    <3>4. q[j - i] = s[i + (j - i)] BY <1>2, <3>1
    <3> QED BY <3>1, <3>2, <3>3, <3>4
  <2> QED BY <1>0, <1>6, <2>1, <2>2
<1> QED BY <1>4, <1>6 DEF c

\* An entry added, or put in place of one that is not the operator's.
LEMMA EntryPut ==
    ASSUME NEW s \in Seq(ServerEntries), NEW e \in ServerEntries
    PROVE  /\ Append(s, e) \in Seq(ServerEntries) /\ ToSet(Append(s, e)) = ToSet(s) \cup {e}
           /\ \A i \in DOMAIN s :
                 /\ [s EXCEPT ![i] = e] \in Seq(ServerEntries) /\ e \in ToSet([s EXCEPT ![i] = e])
                 /\ \A x \in ToSet(s) : x # s[i] => x \in ToSet([s EXCEPT ![i] = e])
<1>0. Len(s) \in Nat /\ DOMAIN s = 1 .. Len(s)
  BY LenProperties
<1>1. /\ Append(s, e) \in Seq(ServerEntries) /\ Len(Append(s, e)) = Len(s) + 1
      /\ \A i \in 1 .. Len(s) : Append(s, e)[i] = s[i]
      /\ Append(s, e)[Len(s) + 1] = e
  BY AppendProperties
<1>2. ToSet(Append(s, e)) = ToSet(s) \cup {e}
  <2> DEFINE c == Append(s, e)
  <2>1. /\ c \in Seq(ServerEntries) /\ Len(c) = Len(s) + 1 /\ (\A i \in 1 .. Len(s) : c[i] = s[i]) /\ c[Len(s) + 1] = e
    BY <1>1
  <2> HIDE DEF c
  <2>2. DOMAIN c = 1 .. (Len(s) + 1) BY <2>1, LenProperties
  <2>3. \A i \in DOMAIN c : i \in DOMAIN s \/ i = Len(s) + 1 BY <1>0, <2>2
  <2>4. \A i \in DOMAIN s : i \in DOMAIN c BY <1>0, <2>2
  <2>5. Len(s) + 1 \in DOMAIN c BY <1>0, <2>2
  <2>6. ToSet(c) = ToSet(s) \cup {e} BY <1>0, <2>1, <2>3, <2>4, <2>5 DEF ToSet
  <2> QED BY <2>6 DEF c
<1>3. ASSUME NEW i \in DOMAIN s
      PROVE  /\ [s EXCEPT ![i] = e] \in Seq(ServerEntries) /\ e \in ToSet([s EXCEPT ![i] = e])
             /\ \A x \in ToSet(s) : x # s[i] => x \in ToSet([s EXCEPT ![i] = e])
  <2>1. [s EXCEPT ![i] = e] \in Seq(ServerEntries) BY <1>0, ExceptSeq
  <2>2. DOMAIN [s EXCEPT ![i] = e] = DOMAIN s /\ [s EXCEPT ![i] = e][i] = e
          /\ \A j \in DOMAIN s : j # i => [s EXCEPT ![i] = e][j] = s[j]
    OBVIOUS
  <2> DEFINE c == [s EXCEPT ![i] = e]
  <2>3. DOMAIN c = DOMAIN s /\ c[i] = e /\ \A j \in DOMAIN s : j # i => c[j] = s[j] BY <2>2
  <2> HIDE DEF c
  <2>4. e \in ToSet(c) /\ \A x \in ToSet(s) : x # s[i] => x \in ToSet(c) BY <2>3 DEF ToSet
  <2> QED BY <2>1, <2>4 DEF c
<1> QED BY <1>1, <1>2, <1>3

\* The parts of a destination that servers are merged into.
LEMMA LeftOf ==
    ASSUME NEW s, Documented(s)
    PROVE  /\ Left(s.json) /\ s.kind \in {"absent", "file"} /\ s.text = <<>>
           /\ s.kind = "absent" => s = Nowhere
           /\ Pieces(s) = Pieces(JsonFile(s.json)) /\ s.json.entries \in Seq(ServerEntries)
<1>1. CASE s = Nowhere
  <2>1. s.json = NoJson /\ s.kind = "absent" /\ s.text = <<>> BY <1>1 DEF Nowhere
  <2>2. NoJson.keys = {} /\ NoJson.entries = <<>> /\ NoJson.type = "missing" /\ NoJson \in Documents
    BY DEF NoJson, Documents
  <2>3. Pieces(JsonFile(NoJson)) = {}
    <3>1. ToSet(<<>>) = {} BY DEF ToSet
    <3> QED BY <2>2, <3>1, PiecesOfDocument
  <2> QED BY <1>1, <2>1, <2>2, <2>3, PiecesOfNothing DEF Left
<1>2. CASE s # Nowhere
  <2>1. s = JsonFile(s.json) /\ Left(s.json) BY <1>2 DEF Documented, Left
  <2>2. JsonFile(s.json).kind = "file" /\ JsonFile(s.json).text = <<>> BY DEF JsonFile, Nowhere
  <2>3. s.json.entries \in Seq(ServerEntries) BY <2>1 DEF Left, Documents, ServerEntries
  <2> QED BY <2>1, <2>2, <2>3
<1> QED BY <1>1, <1>2

\* The merge a request of an MCP server asks for.
MergeOf(a, v) == [id |-> a, value |-> <<"aart", v>>, mode |-> "key"]

\* The entries of an artifact.
EntriesOf(s, id) == {<<"entry", e.id, e.value>> : e \in {e \in ToSet(s.json.entries) : e.id = id}}

\* A merge keeps the other keys and entries, and unless forced the operator's value of its own.
LEMMA MergeKeeps ==
    ASSUME NEW s, Documented(s), NEW a \in Artifacts, NEW v \in {1, 2}, NEW force \in BOOLEAN,
           NEW u, u = MergedContent(s, MergeOf(a, v), force), u # None
    PROVE  /\ Left(u) /\ Documented(JsonFile(u))
           /\ Pieces(s) \subseteq Pieces(JsonFile(u)) \cup IF force THEN EntriesOf(s, a) ELSE {}
<1> DEFINE json == s.json
           matching == MatchesIn(json, a)
           at == CHOOSE i \in matching : TRUE
           entry == [id |-> a, value |-> <<"aart", v>>]
           base == IF json.type = "container" THEN json.entries ELSE <<>>
           put == IF matching = {} THEN Append(base, entry) ELSE [base EXCEPT ![at] = entry]
<1>0. MergeOf(a, v).id = a /\ MergeOf(a, v).value = <<"aart", v>> /\ MergeOf(a, v).mode = "key"
  BY DEF MergeOf
<1>1. Left(json) /\ Pieces(s) = Pieces(JsonFile(json)) /\ json.entries \in Seq(ServerEntries)
  BY LeftOf
<1>2. base = json.entries /\ json.type # "other"
  BY <1>1 DEF Left, Documents
<1>3. entry \in ServerEntries /\ entry.value[1] = "aart"
  BY DEF ServerEntries, Artifacts
<1>4. u = [json EXCEPT !.type = "container", !.entries = put]
  <2>1. u = IF \/ s.kind \notin {"absent", "file"} \/ ~json.valid
               \/ json.type = "other" /\ ~force
               \/ MergeOf(a, v).mode = "list" /\ Cardinality(matching) > 1
               \/ matching # {} /\ json.entries[at].value # <<"aart", v>> /\ ~force
            THEN None ELSE [json EXCEPT !.type = "container", !.entries = put]
    BY <1>0 DEF MergedContent
  <2> QED BY <2>1
<1>5. matching # {} /\ ~force => json.entries[at].value = <<"aart", v>>
  <2>1. u = IF \/ s.kind \notin {"absent", "file"} \/ ~json.valid
               \/ json.type = "other" /\ ~force
               \/ MergeOf(a, v).mode = "list" /\ Cardinality(matching) > 1
               \/ matching # {} /\ json.entries[at].value # <<"aart", v>> /\ ~force
            THEN None ELSE [json EXCEPT !.type = "container", !.entries = put]
    BY <1>0 DEF MergedContent
  <2> QED BY <2>1
<1>6. matching # {} => at \in DOMAIN json.entries /\ json.entries[at].id = a
  <2>1. HAVE matching # {}
  <2>2. at \in matching BY <2>1
  <2> QED BY <2>2 DEF MatchesIn
<1>k. put = IF matching = {} THEN Append(json.entries, entry) ELSE [json.entries EXCEPT ![at] = entry]
  BY <1>2
<1> HIDE DEF at, entry, matching, put, base
<1> DEFINE kept == {e \in ToSet(json.entries) : e.value[1] = "own" /\ (force => e.id # a)}
<1>7. put \in Seq(ServerEntries) /\ kept \subseteq ToSet(put)
  <2>1. CASE matching = {}
    <3>1. put = Append(json.entries, entry) BY <1>k, <2>1
    <3> QED BY <1>1, <1>3, <3>1, EntryPut
  <2>2. CASE matching # {}
    <3>1. put = [json.entries EXCEPT ![at] = entry] BY <1>k, <2>2
    <3>2. put \in Seq(ServerEntries) /\ \A x \in ToSet(json.entries) : x # json.entries[at] => x \in ToSet(put)
      BY <1>1, <1>3, <1>6, <2>2, <3>1, EntryPut
    <3>3. ~force => json.entries[at].value[1] # "own" BY <1>5, <2>2
    <3>4. json.entries[at] \notin kept BY <1>6, <2>2, <3>3
    <3> QED BY <3>2, <3>4
  <2> QED BY <2>1, <2>2
<1>8. /\ u \in Documents /\ u.type = "container" /\ u.entries = put /\ u.keys = json.keys
  BY <1>1, <1>4, <1>7 DEF Left, Documents, ServerEntries
<1>9. Left(u) /\ Documented(JsonFile(u))
  <2>1. JsonFile(u).json = u BY DEF JsonFile, Nowhere
  <2> QED BY <1>8, <2>1 DEF Left, Documented
<1>10. Pieces(JsonFile(json)) \subseteq Pieces(JsonFile(u)) \cup IF force THEN EntriesOf(s, a) ELSE {}
  <2>1. {e \in ToSet(json.entries) : e.value[1] = "own"}
          \subseteq {e \in ToSet(u.entries) : e.value[1] = "own"}
                      \cup IF force THEN {e \in ToSet(json.entries) : e.id = a} ELSE {}
    BY <1>7, <1>8
  <2> QED BY <1>8, <2>1, PiecesOfDocument DEF EntriesOf
<1> QED BY <1>1, <1>9, <1>10

\* The operator's own entry, or another value for one.
LEMMA EntrySet ==
    ASSUME NEW s, Documented(s), NEW id \in {"x", "o"},
           NEW u, u = LET entry == [id |-> id, value |-> <<"own", id>>]
                          at == CHOOSE i \in MatchesIn(s.json, id) : TRUE
                      IN  [s.json EXCEPT !.type = "container",
                              !.entries = IF MatchesIn(s.json, id) = {} THEN Append(@, entry)
                                          ELSE [@ EXCEPT ![at] = entry]]
    PROVE  Documented(JsonFile(u)) /\ <<"entry", id, <<"own", id>>>> \in Pieces(JsonFile(u))
<1> DEFINE entry == [id |-> id, value |-> <<"own", id>>]
           at == CHOOSE i \in MatchesIn(s.json, id) : TRUE
           put == IF MatchesIn(s.json, id) = {} THEN Append(s.json.entries, entry)
                  ELSE [s.json.entries EXCEPT ![at] = entry]
<1>1. Left(s.json) /\ s.json.entries \in Seq(ServerEntries)
  BY LeftOf
<1>2. entry \in ServerEntries /\ entry.value[1] = "own" /\ entry.id = id /\ entry.value = <<"own", id>>
  BY DEF ServerEntries
<1>3. MatchesIn(s.json, id) # {} => at \in DOMAIN s.json.entries
  BY DEF MatchesIn
<1>4. u = [s.json EXCEPT !.type = "container", !.entries = put]
  OBVIOUS
<1>5. put = IF MatchesIn(s.json, id) = {} THEN Append(s.json.entries, entry)
            ELSE [s.json.entries EXCEPT ![at] = entry]
  OBVIOUS
<1> HIDE DEF entry, at, put
<1>6. put \in Seq(ServerEntries) /\ entry \in ToSet(put)
  BY <1>1, <1>2, <1>3, <1>5, EntryPut
<1>7. u \in Documents /\ u.type = "container" /\ u.entries = put
  BY <1>1, <1>4, <1>6 DEF Left, Documents, ServerEntries
<1>8. JsonFile(u).json = u
  BY DEF JsonFile, Nowhere
<1>9. <<"entry", entry.id, entry.value>> \in Pieces(JsonFile(u))
  <2> DEFINE mine == {e \in ToSet(u.entries) : e.value[1] = "own"}
  <2>1. entry \in mine BY <1>2, <1>6, <1>7
  <2> HIDE DEF mine
  <2>2. <<"entry", entry.id, entry.value>> \in {<<"entry", e.id, e.value>> : e \in mine} BY <2>1
  <2> QED BY <2>2, PiecesOfDocument DEF mine
<1> QED BY <1>2, <1>7, <1>8, <1>9 DEF Documented

-----------------------------------------------------------------------------
(* Removals.                                                                  *)

\* Every snapshot is a file, so it is not None.
LEMMA SnapshotsAreFiles ==
    /\ Nowhere \in Files
    /\ \A t \in Seq(Tokens) : TextFile(t) \in Files
    /\ \A d \in Documents : JsonFile(d) \in Files
    /\ \A l \in Seq(Tokens) : Link(l) \in Files
<1>1. NoJson \in Documents /\ <<>> \in Seq(Tokens)
  BY DEF NoJson, Documents
<1> QED BY <1>1 DEF Files, Nowhere, TextFile, JsonFile, Link

\* An entry is taken out of a document that is what was merged, or by force.
LEMMA UnmergeKeeps ==
    ASSUME NEW s, Documented(s), NEW proof, proof.kind = "merge-json", proof.digest \in {"aart"} \X {1, 2},
           NEW force \in BOOLEAN, NEW beside, NEW r, r = PlanRemoval(proof, s, force, beside)
    PROVE  /\ r # None => Documented(r) /\ Pieces(s) \subseteq Pieces(r) \cup IF force THEN EntriesOf(s, proof.id) ELSE {}
           /\ EffectStatus(proof, s) = "current" => r \in Files
<1> DEFINE json == s.json
           spent == IF force THEN EntriesOf(s, proof.id) ELSE {}
           matches == MatchesIn(json, proof.id)
           at == CHOOSE i \in matches : TRUE
           without == [json EXCEPT !.entries = RemoveAt(json.entries, at)]
           drifted == EffectStatus(proof, s) = "drifted"
<1>0. /\ Left(json) /\ s.kind \in {"absent", "file"} /\ (s.kind = "absent" => s = Nowhere)
      /\ Pieces(s) = Pieces(JsonFile(json)) /\ json.entries \in Seq(ServerEntries)
  BY LeftOf
<1>1. CASE s.kind = "absent"
  <2>1. r = s BY <1>1 DEF PlanRemoval
  <2>2. EffectStatus(proof, s) = "missing" BY <1>1 DEF EffectStatus
  <2> QED BY <2>1, <2>2
<1>2. CASE s.kind = "file"
  <2>1. r = IF ~json.valid \/ Cardinality(matches) > 1 \/ (drifted /\ ~force) THEN None
            ELSE IF matches = {} THEN s
            ELSE IF proof.created /\ IsBareContainerChain(without) THEN Nowhere ELSE JsonFile(without)
    BY <1>2 DEF PlanRemoval
  <2>s. s = JsonFile(json) /\ json \in Documents
    <3>1. Nowhere.kind = "absent" BY DEF Nowhere
    <3> QED BY <1>0, <1>2, <3>1 DEF Documented, Left
  <2>2. EffectStatus(proof, s) = MergeEffectStatus(proof, s)
    BY <1>2 DEF EffectStatus
  <2>3. json.valid /\ matches # {} /\ ~drifted =>
           Cardinality(matches) = 1 /\ \A i \in matches : json.entries[i].value = proof.digest
    BY <1>2, <2>2 DEF MergeEffectStatus
  <2>4. EffectStatus(proof, s) = "current" => json.valid /\ Cardinality(matches) = 1
    BY <1>2, <2>2 DEF MergeEffectStatus
  <2>5. matches # {} => /\ at \in matches /\ at \in DOMAIN json.entries /\ json.type = "container"
                        /\ json.entries[at].id = proof.id
    <3>1. HAVE matches # {}
    <3>2. at \in matches BY <3>1
    <3> QED BY <3>2 DEF MatchesIn
  <2> HIDE DEF at, matches, drifted
  <2>6. ASSUME matches # {}
        PROVE  /\ without \in Documents /\ Left(without) /\ without.keys = json.keys
               /\ json.valid /\ (drifted => force) =>
                    {e \in ToSet(json.entries) : e.value[1] = "own"}
                      \subseteq {e \in ToSet(without.entries) : e.value[1] = "own"}
                                  \cup IF force THEN {e \in ToSet(json.entries) : e.id = proof.id} ELSE {}
    <3>1. /\ RemoveAt(json.entries, at) \in Seq(ServerEntries)
          /\ \A j \in DOMAIN json.entries : j # at =>
               \E l \in DOMAIN RemoveAt(json.entries, at) : RemoveAt(json.entries, at)[l] = json.entries[j]
      BY <1>0, <2>5, <2>6, EntriesRemoved
    <3> DEFINE c == RemoveAt(json.entries, at)
    <3>2. without = [json EXCEPT !.entries = c] OBVIOUS
    <3> HIDE DEF c, without
    <3>3. without \in Documents /\ without.entries = c /\ without.keys = json.keys /\ without.type = "container"
      BY <2>s, <2>5, <2>6, <3>1, <3>2 DEF Documents, ServerEntries, c
    <3>4. \A x \in ToSet(json.entries) : x # json.entries[at] => x \in ToSet(c)
      BY <3>1 DEF c, ToSet
    <3>5. ~force /\ json.valid /\ ~drifted => json.entries[at].value[1] # "own"
      BY <2>3, <2>5, <2>6
    <3>6. json.entries[at].id = proof.id BY <2>5, <2>6
    <3> QED BY <3>3, <3>4, <3>5, <3>6 DEF Left
  <2>7. matches # {} => Documented(JsonFile(without)) /\
           (json.valid /\ (drifted => force) => Pieces(JsonFile(json)) \subseteq Pieces(JsonFile(without)) \cup spent)
    <3>1. JsonFile(without).json = without BY DEF JsonFile, Nowhere
    <3> HIDE DEF without
    <3> QED BY <2>6, <3>1, PiecesOfDocument DEF Documented, Left, EntriesOf
  <2>8. IsBareContainerChain(without) => Pieces(JsonFile(without)) = {}
    <3>1. ToSet(<<>>) = {} BY DEF ToSet
    <3> HIDE DEF without
    <3> QED BY <3>1, PiecesOfDocument DEF IsBareContainerChain
  <2>9. s \in Files /\ Nowhere \in Files /\ (matches # {} => JsonFile(without) \in Files)
    BY <2>s, <2>6, SnapshotsAreFiles
  <2>10. Documented(Nowhere) BY DEF Documented
  <2> HIDE DEF without
  <2>11. EffectStatus(proof, s) = "current" => r \in Files
    <3>1. HAVE EffectStatus(proof, s) = "current"
    <3>2. ~drifted BY <3>1 DEF drifted
    <3>3. ~(Cardinality(matches) > 1) BY <2>4, <3>1
    <3> QED BY <2>1, <2>4, <2>9, <3>1, <3>2, <3>3
  <2> HIDE DEF spent
  <2>12. r # None => Documented(r) /\ Pieces(s) \subseteq Pieces(r) \cup spent
    <3>1. HAVE r # None
    <3>2. json.valid /\ (drifted => force) BY <2>1, <3>1
    <3>3. CASE matches = {} BY <2>1, <3>1, <3>3
    <3>4. CASE matches # {} /\ proof.created /\ IsBareContainerChain(without)
      <4>1. r = Nowhere BY <2>1, <3>1, <3>4
      <4> QED BY <1>0, <2>7, <2>8, <2>10, <3>2, <3>4, <4>1, PiecesOfNothing
    <3>5. CASE matches # {} /\ ~(proof.created /\ IsBareContainerChain(without))
      <4>1. r = JsonFile(without) BY <2>1, <3>1, <3>5
      <4> QED BY <1>0, <2>7, <3>2, <3>5, <4>1
    <3> QED BY <3>3, <3>4, <3>5
  <2> QED BY <2>11, <2>12 DEF spent
<1> QED BY <1>0, <1>1, <1>2

\* The parts of a destination that holds a text.
LEMMA TextOf ==
    ASSUME NEW s, Texted(s)
    PROVE  /\ s.text \in Seq(Tokens) /\ Tidy(s.text) /\ s.kind \in {"absent", "file"} /\ s.target = <<>>
           /\ Pieces(s) = Pieces(TextFile(s.text))
           /\ s.kind = "absent" => s = Nowhere
           /\ s.kind = "file" => s = TextFile(s.text) /\ s.digest = s.text
<1>1. /\ Nowhere.text = <<>> /\ Nowhere.kind = "absent" /\ Nowhere.target = <<>>
      /\ \A t : TextFile(t).kind = "file" /\ TextFile(t).target = <<>> /\ TextFile(t).digest = t
  BY DEF Nowhere, TextFile
<1>2. <<>> \in Seq(Tokens) /\ Tidy(<<>>) /\ Ownerless(<<>>)
  BY DEF Tidy, Ownerless
<1>3. Pieces(TextFile(<<>>)) = {} /\ Pieces(Nowhere) = {}
  BY <1>2, PiecesCarried, PiecesOfNothing
<1>4. CASE s = Nowhere
  BY <1>1, <1>2, <1>3, <1>4
<1>5. CASE s # Nowhere
  <2>1. s.text \in Seq(Tokens) /\ Tidy(s.text) /\ s = TextFile(s.text) BY <1>5 DEF Texted
  <2> QED BY <1>1, <2>1
<1> QED BY <1>4, <1>5

\* A tidy text is one a destination may hold.
LEMMA TextIsTexted ==
    ASSUME NEW t \in Seq(Tokens), Tidy(t)
    PROVE  Texted(TextFile(t))
<1>1. TextFile(t).text = t
  BY DEF TextFile, Nowhere
<1> QED BY <1>1 DEF Texted

\* A block is taken out of a text whether or not it is what was put.
LEMMA UnblockKeeps ==
    ASSUME NEW s, Texted(s), NEW proof, proof.kind = "managed-block", proof.name \in Artifacts,
           NEW force \in BOOLEAN, NEW beside, NEW r, r = PlanRemoval(proof, s, force, beside)
    PROVE  /\ r # None => Texted(r) /\ Pieces(s) \subseteq Pieces(r)
           /\ EffectStatus(proof, s) = "current" => r \in Files
<1> DEFINE stripped == StripManagedBlock(s.text, proof.name)
<1>0. /\ s.text \in Seq(Tokens) /\ Tidy(s.text) /\ s.kind \in {"absent", "file"}
      /\ Pieces(s) = Pieces(TextFile(s.text)) /\ (s.kind = "absent" => s = Nowhere)
      /\ (s.kind = "file" => s = TextFile(s.text))
  BY TextOf
<1>1. CASE s.kind = "absent"
  <2>1. r = s BY <1>1 DEF PlanRemoval
  <2>2. EffectStatus(proof, s) = "missing" BY <1>1 DEF EffectStatus
  <2> QED BY <2>1, <2>2
<1>2. CASE s.kind = "file"
  <2>1. r = IF stripped = None THEN None ELSE IF stripped = s.text THEN s
            ELSE IF stripped = <<>> THEN Nowhere ELSE TextFile(stripped)
    BY <1>2 DEF PlanRemoval
  <2>2. /\ stripped # None => stripped \in Seq(Tokens) /\ Tidy(stripped) /\ Carried(s.text, stripped)
        /\ Positions(s.text, Token("end", proof.name)) # {} => stripped \in Seq(Tokens)
    BY <1>0, StripKeeps
  <2>3. EffectStatus(proof, s) = "current" => Positions(s.text, Token("end", proof.name)) # {}
    <3>1. HAVE EffectStatus(proof, s) = "current"
    <3>2. ManagedBlockStatus(proof, s) = "current" BY <1>2, <3>1 DEF EffectStatus
    <3>3. Cardinality(Positions(s.text, Token("end", proof.name))) = 1 BY <1>2, <3>2 DEF ManagedBlockStatus
    <3> QED BY <3>3, FS_EmptySet
  <2> HIDE DEF stripped
  <2>4. r # None => Texted(r) /\ Pieces(s) \subseteq Pieces(r)
    <3>1. HAVE r # None
    <3>2. stripped \in Seq(Tokens) /\ Tidy(stripped) /\ Carried(s.text, stripped) BY <2>1, <2>2, <3>1
    <3>3. Pieces(s) \subseteq Pieces(TextFile(stripped)) BY <1>0, <3>2, PiecesCarried
    <3>4. CASE r = s BY <3>4
    <3>5. CASE stripped = <<>> /\ r = Nowhere
      <4>1. Pieces(TextFile(<<>>)) = {}
        <5>1. Ownerless(<<>>) BY DEF Ownerless
        <5> QED BY <5>1, PiecesCarried
      <4> QED BY <3>3, <3>5, <4>1 DEF Texted
    <3>6. CASE r = TextFile(stripped) BY <3>2, <3>3, <3>6, TextIsTexted
    <3> QED BY <2>1, <3>1, <3>4, <3>5, <3>6
  <2>5. EffectStatus(proof, s) = "current" => r \in Files
    <3>1. HAVE EffectStatus(proof, s) = "current"
    <3>2. stripped \in Seq(Tokens) /\ stripped # None BY <2>2, <2>3, <3>1, UpkeepAssumption
    <3>3. s \in Files BY <1>0, <1>2, SnapshotsAreFiles
    <3> QED BY <2>1, <3>2, <3>3, SnapshotsAreFiles
  <2> QED BY <2>4, <2>5
<1> QED BY <1>0, <1>1, <1>2

-----------------------------------------------------------------------------
(* Installs.                                                                  *)

\* What an installation would put at the destination and record.
Operation(a, v, mode, force) == NativeActions(RequestOf(a, v, mode, force), Profile, disk)

\* What an installation leaves beside the destination, and that nothing of the operator's
\* is lost by it but what it displaces.
Beside(op) == IF op.proof.restores = None THEN side ELSE TextFile(op.proof.restores)

Spares(op, a, force) ==
    Pieces(disk) \cup Pieces(side)
      \subseteq Displaced(a, op.proof, force) \cup Pieces(op.want) \cup Pieces(Beside(op))

\* The parts of the invariant that an installation has to establish.
Establishes(op, a) ==
    /\ Honest(op.proof, a)
    /\ CASE family = "mcp" -> Documented(op.want) /\ op.proof.restores = None
         [] family = "memory" -> Texted(op.want) /\ (op.proof.restores # None => Texted(TextFile(op.proof.restores)))
         [] OTHER -> /\ Texted(op.want) \/ (op.want.target \in Seq(Tokens) /\ op.want = Link(op.want.target))
                     /\ op.proof.restores = None

\* The fields of a request.
LEMMA RequestFields ==
    ASSUME NEW a, NEW v, NEW mode, NEW force
    PROVE  LET q == RequestOf(a, v, mode, force) IN
           /\ q.name = a /\ q.version = v /\ q.kind = family /\ q.force = force /\ q.memoryMode = mode
           /\ q.merge = MergeOf(a, v) /\ q.mode = IF mode = "symlink" THEN "symlink" ELSE "copy"
BY DEF RequestOf, MergeOf

\* A merge establishes them, and loses only the value that force replaces.
LEMMA OperationMcp ==
    ASSUME UpkeepInv, family = "mcp", NEW a \in Artifacts, NEW v \in {1, 2}, NEW mode, NEW force \in BOOLEAN,
           NEW op, op = Operation(a, v, mode, force), op # None
    PROVE  /\ Establishes(op, a) /\ op.proof.kind # "symlink-file"
           /\ Spares(op, a, force)
<1> DEFINE q == RequestOf(a, v, mode, force)
           merged == MergedContent(disk, MergeOf(a, v), force)
           proof == [kind |-> "merge-json", name |-> a, digest |-> <<"aart", v>>, id |-> a, mode |-> "key",
                     created |-> disk.kind = "absent", restores |-> None]
<1>1. /\ q.name = a /\ q.version = v /\ q.kind = "mcp" /\ q.force = force /\ q.memoryMode = mode
      /\ q.merge = MergeOf(a, v)
  BY RequestFields
<1>2. MergeOf(a, v).id = a /\ MergeOf(a, v).value = <<"aart", v>> /\ MergeOf(a, v).mode = "key"
  BY DEF MergeOf
<1> HIDE DEF q
<1>3. merged # None /\ op = [want |-> JsonFile(merged), proof |-> proof]
  BY <1>1, <1>2 DEF Operation, NativeActions, q
<1>4. Documented(disk)
  BY DEF UpkeepInv, Shaped
<1> HIDE DEF merged
<1>5. /\ Documented(JsonFile(merged))
      /\ Pieces(disk) \subseteq Pieces(JsonFile(merged)) \cup IF force THEN EntriesOf(disk, a) ELSE {}
  BY <1>3, <1>4, MergeKeeps DEF merged
<1>6. /\ proof \in Proofs /\ proof.name = a /\ proof.id = a /\ proof.kind = "merge-json"
      /\ proof.digest = <<"aart", v>> /\ proof.restores = None
  BY DEF Proofs
<1> HIDE DEF proof
<1>7. op.want = JsonFile(merged) /\ op.proof = proof
  BY <1>3
<1>8. Honest(op.proof, a)
  <2>1. proof.digest \in {"aart"} \X {1, 2} /\ ~(proof.restores # None) BY <1>6
  <2>2. proof.kind # "write-file" /\ proof.kind # "symlink-file" BY <1>6
  <2>3. Honest(proof, a) BY <1>6, <2>1, <2>2 DEF Honest
  <2> QED BY <1>7, <2>3
<1>9. Spares(op, a, force)
  <2>1. Beside(op) = side BY <1>6, <1>7 DEF Beside
  <2>2. (IF force THEN EntriesOf(disk, a) ELSE {}) \subseteq Displaced(a, op.proof, force)
    BY DEF Displaced, Overwritten, EntryPieces, EntriesOf
  <2> QED BY <1>5, <1>7, <2>1, <2>2 DEF Spares
<1> QED BY <1>5, <1>6, <1>7, <1>8, <1>9 DEF Establishes

\* The text of a file of its own.
LEMMA BodyText ==
    ASSUME NEW a \in Artifacts, NEW v \in {1, 2}
    PROVE  LET body == <<Token("body", <<a, v>>), Newline>> IN body \in Seq(Tokens) /\ Ownerless(body) /\ Tidy(body)
<1> DEFINE body == <<Token("body", <<a, v>>), Newline>>
<1>1. /\ Token("body", <<a, v>>) \in Tokens /\ Newline \in Tokens
      /\ Token("body", <<a, v>>)[1] = "body" /\ Newline[1] = "newline"
  BY DEF Token, Newline, Tokens
<1>2. body \in Seq(Tokens) /\ DOMAIN body = 1 .. 2 /\ body[1] = Token("body", <<a, v>>) /\ body[2] = Newline
  BY <1>1
<1> HIDE DEF body
<1>3. \A i \in DOMAIN body : i = 1 \/ i = 2
  BY <1>2
<1>4. \A i \in DOMAIN body : body[i][1] \in {"body", "newline"}
  BY <1>1, <1>2, <1>3
<1>5. Tidy(body)
  BY <1>2, <1>4, PlainTidy
<1>6. Ownerless(body)
  BY <1>4 DEF Ownerless
<1> QED BY <1>2, <1>5, <1>6 DEF body

\* So does a memory in each mode; a torn block loses what follows it, and a text that is
\* replaced by force goes where the one replaced before it was.
LEMMA OperationMemory ==
    ASSUME UpkeepInv, family = "memory", NEW a \in Artifacts, NEW v \in {1, 2}, NEW mode, NEW force \in BOOLEAN,
           NEW op, op = Operation(a, v, mode, force), op # None
    PROVE  /\ Establishes(op, a) /\ op.proof.kind # "symlink-file"
           /\ Spares(op, a, force)
<1> DEFINE q == RequestOf(a, v, mode, force)
           memory == NativeMemory(q, Profile, disk)
           body == <<Token("body", <<a, v>>), Newline>>
           displaced == \E i \in DOMAIN disk.text : disk.text[i] # Newline
           proof(kind, text, backup) ==
              [kind |-> kind, name |-> a, digest |-> text, id |-> None, mode |-> None,
               created |-> disk.kind = "absent", restores |-> backup]
<1>1. /\ q.name = a /\ q.version = v /\ q.kind = "memory" /\ q.force = force /\ q.memoryMode = mode
  BY RequestFields
<1> HIDE DEF q
<1>2. /\ disk.text \in Seq(Tokens) /\ Tidy(disk.text) /\ disk.kind \in {"absent", "file"}
      /\ Pieces(disk) = Pieces(TextFile(disk.text)) /\ (disk.kind = "absent" => disk = Nowhere)
  <2>1. Texted(disk) BY DEF UpkeepInv, Shaped
  <2> QED BY <2>1, TextOf
<1>3. /\ memory # None
      /\ op = [want |-> TextFile(memory.text),
               proof |-> [kind |-> memory.kind, name |-> a, digest |-> memory.text, id |-> None,
                          mode |-> IF memory.kind = "merge-json" THEN q.merge.mode ELSE None,
                          created |-> disk.kind = "absent", restores |-> memory.backup]]
  BY <1>1 DEF Operation, NativeActions, q
<1>p. Profile.directory = FALSE
  BY DEF Profile
<1>b. body \in Seq(Tokens) /\ Ownerless(body) /\ Tidy(body)
  BY BodyText
<1>4. ASSUME NEW kind \in {"write-file", "managed-block"}, NEW text \in Seq(Tokens), Tidy(text),
             NEW backup \in Seq(Tokens) \cup {None}, backup # None => Tidy(backup) /\ kind = "write-file",
             kind = "write-file" => Ownerless(text),
             memory = [kind |-> kind, text |-> text, backup |-> backup]
      PROVE  /\ Establishes(op, a) /\ op.want = TextFile(text) /\ op.proof.restores = backup
             /\ op.proof.kind = kind
  <2>1. op.want = TextFile(text) /\ op.proof = proof(kind, text, backup)
    BY <1>3, <1>4
  <2>2. proof(kind, text, backup) \in Proofs /\ proof(kind, text, backup).name = a
    BY DEF Proofs
  <2>3. Honest(op.proof, a)
    BY <1>4, <2>1, <2>2 DEF Honest
  <2>4. Texted(TextFile(text)) /\ (backup # None => Texted(TextFile(backup)))
    BY <1>4, TextIsTexted
  <2> QED BY <2>1, <2>3, <2>4 DEF Establishes
<1>k. ASSUME op.proof.restores = None,
             Pieces(disk) \subseteq Pieces(op.want) \cup Displaced(a, op.proof, force)
      PROVE  Spares(op, a, force)
  BY <1>k DEF Spares, Beside
<1>5. CASE mode = "skip"
  <2>1. disk.kind = "absent" /\ memory = [kind |-> "write-file", text |-> body, backup |-> None]
    BY <1>1, <1>2, <1>3, <1>p, <1>5 DEF NativeMemory
  <2>2. Establishes(op, a) /\ op.proof.restores = None /\ op.proof.kind = "write-file"
    BY <1>b, <1>4, <2>1
  <2>3. Spares(op, a, force) BY <1>2, <1>k, <2>1, <2>2, PiecesOfNothing
  <2> QED BY <2>2, <2>3
<1>6. CASE mode = "replace"
  <2>1. memory = IF displaced /\ ~force THEN None
                 ELSE IF displaced THEN [kind |-> "write-file", text |-> body, backup |-> disk.text]
                 ELSE [kind |-> "write-file", text |-> body, backup |-> None]
    BY <1>1, <1>2, <1>p, <1>6 DEF NativeMemory
  <2>2. CASE displaced
    <3>1. force /\ memory = [kind |-> "write-file", text |-> body, backup |-> disk.text] BY <1>3, <2>1, <2>2
    <3>2. Establishes(op, a) /\ op.proof.restores = disk.text /\ op.proof.kind = "write-file"
      BY <1>2, <1>b, <1>4, <3>1
    <3>3. disk.text # None BY <1>2, UpkeepAssumption
    <3>4. Beside(op) = TextFile(disk.text) BY <3>2, <3>3 DEF Beside
    <3>5. Pieces(side) \subseteq Displaced(a, op.proof, force) BY <3>1, <3>2, <3>3 DEF Displaced, Overwritten
    <3>6. Spares(op, a, force) BY <1>2, <3>4, <3>5 DEF Spares
    <3> QED BY <3>2, <3>6
  <2>3. CASE ~displaced
    <3>1. memory = [kind |-> "write-file", text |-> body, backup |-> None] BY <2>1, <2>3
    <3>2. Establishes(op, a) /\ op.proof.restores = None /\ op.proof.kind = "write-file" BY <1>b, <1>4, <3>1
    <3>3. Ownerless(disk.text)
      <4>1. Newline[1] = "newline" BY DEF Newline, Token
      <4> QED BY <2>3, <4>1 DEF Ownerless
    <3>4. Pieces(disk) = {} BY <1>2, <3>3, PiecesCarried
    <3>5. Spares(op, a, force) BY <1>k, <3>2, <3>4
    <3> QED BY <3>2, <3>5
  <2> QED BY <2>2, <2>3
<1>7. CASE mode \notin {"skip", "replace"}
  <2> DEFINE top == mode = "prepend"
             text == MemoryBlock(disk.text, a, <<a, v>>, top)
             torn == SubSeq(disk.text, First(Positions(disk.text, Token("begin", a))), Len(disk.text))
  <2>1. memory = [kind |-> "managed-block", backup |-> None, text |-> text]
    BY <1>1, <1>2, <1>p, <1>7 DEF NativeMemory
  <2>2. /\ text \in Seq(Tokens) /\ Tidy(text)
        /\ Positions(disk.text, Token("begin", a)) = {} \/ Positions(disk.text, Token("end", a)) # {} => Carried(disk.text, text)
        /\ Positions(disk.text, Token("begin", a)) # {} /\ Positions(disk.text, Token("end", a)) = {} =>
              Parted(disk.text, text, torn)
    BY <1>2, MemoryBlockKeeps
  <2> HIDE DEF text, torn
  <2>3. memory = [kind |-> "managed-block", text |-> text, backup |-> None]
    BY <2>1
  <2>4. Establishes(op, a) /\ op.want = TextFile(text) /\ op.proof.restores = None /\ op.proof.kind = "managed-block"
    BY <1>4, <2>2, <2>3
  <2>5. ~TornBlock(a) => Pieces(disk) \subseteq Pieces(op.want)
    BY <1>2, <2>2, <2>4, PiecesCarried DEF TornBlock
  <2>6. TornBlock(a) => Pieces(disk) \subseteq Pieces(op.want) \cup Pieces(TextFile(torn))
    BY <1>2, <2>2, <2>4, PiecesCarried DEF TornBlock
  <2>7. TornBlock(a) => Pieces(TextFile(torn)) \subseteq Displaced(a, op.proof, force)
    BY <2>4 DEF Displaced, torn
  <2>8. Spares(op, a, force) BY <1>k, <2>4, <2>5, <2>6, <2>7
  <2> QED BY <2>4, <2>8
<1> QED BY <1>5, <1>6, <1>7

\* So does a file or a link of its own, where there is no conflict; it is always possible,
\* and only by force takes the place of what the operator wrote.
LEMMA OperationGuideline ==
    ASSUME UpkeepInv, family = "guideline", NEW a \in Artifacts, NEW v \in {1, 2}, NEW mode, NEW force \in BOOLEAN,
           NEW op, op = Operation(a, v, mode, force)
    PROVE  /\ Establishes(op, a) /\ op.proof.restores = None
           /\ op \in [want : Files, proof : Proofs]
           /\ ~Conflicts(RequestOf(a, v, mode, force), op, records, disk) => Spares(op, a, force)
           /\ op.proof.kind = "symlink-file" => mode = "symlink"
<1> DEFINE q == RequestOf(a, v, mode, force)
           body == <<Token("body", <<a, v>>), Newline>>
           target == <<Token("link", <<a, v>>)>>
           proof(kind, digest) == [kind |-> kind, name |-> a, digest |-> digest, id |-> None, mode |-> None,
                                   created |-> disk.kind = "absent", restores |-> None]
<1>1. /\ q.name = a /\ q.version = v /\ q.kind = "guideline" /\ q.force = force
      /\ q.mode = IF mode = "symlink" THEN "symlink" ELSE "copy"
  BY RequestFields
<1>b. body \in Seq(Tokens) /\ Ownerless(body) /\ Tidy(body)
  BY BodyText
<1>t. target \in Seq(Tokens) /\ target # <<>>
  <2>1. Token("link", <<a, v>>) \in Tokens BY DEF Token, Tokens
  <2> QED BY <2>1
<1>2. TextFile(body).digest = body
  BY DEF TextFile, Nowhere
<1> HIDE DEF q
<1>3. op = IF q.mode = "symlink" THEN [want |-> Link(target), proof |-> proof("symlink-file", target)]
           ELSE [want |-> TextFile(body), proof |-> proof("write-file", body)]
  BY <1>1, <1>2 DEF Operation, NativeActions, q
<1> HIDE DEF body, target
<1>4. proof("symlink-file", target) \in Proofs /\ proof("write-file", body) \in Proofs
  BY <1>b, <1>t DEF Proofs
<1>5. Link(target) \in Files /\ TextFile(body) \in Files /\ Link(target).target = target /\ Texted(TextFile(body))
  <2>1. Link(target).target = target BY DEF Link, Nowhere
  <2> QED BY <1>b, <1>t, <2>1, SnapshotsAreFiles, TextIsTexted
<1>6. \/ op.want = Link(target) /\ op.proof = proof("symlink-file", target)
      \/ op.want = TextFile(body) /\ op.proof = proof("write-file", body)
  BY <1>3
<1>7. /\ op \in [want : Files, proof : Proofs]
  BY <1>3, <1>4, <1>5
<1>8. Honest(op.proof, a)
  BY <1>b, <1>t, <1>4, <1>6 DEF Honest
<1>9. Establishes(op, a) /\ op.proof.restores = None
  BY <1>t, <1>5, <1>6, <1>8 DEF Establishes
<1>10. ASSUME ~force, ~Conflicts(q, op, records, disk) PROVE Pieces(disk) \subseteq Pieces(op.want)
  <2>1. op.proof.kind \notin {"merge-json", "managed-block"} BY <1>6
  <2>2. \/ disk.kind = "absent" \/ disk = op.want
        \/ /\ records[a] # None
           /\ IF records[a].kind = "symlink-file" THEN disk.target = records[a].digest
              ELSE disk.kind = "file" /\ records[a].digest = disk.digest
    BY <1>1, <1>10, <2>1 DEF Conflicts
  <2>3. Texted(disk) \/ (disk.target \in Seq(Tokens) /\ disk = Link(disk.target))
    BY DEF UpkeepInv, Shaped
  <2>4. disk = Link(disk.target) => Pieces(disk) = {}
    BY PiecesOfNothing
  <2>5. CASE Texted(disk)
    <3>1. /\ disk.target = <<>> /\ Pieces(disk) = Pieces(TextFile(disk.text)) /\ (disk.kind = "absent" => disk = Nowhere)
          /\ (disk.kind = "file" => disk.digest = disk.text)
      BY <2>5, TextOf
    <3>2. CASE disk.kind = "absent" BY <3>1, <3>2, PiecesOfNothing
    <3>3. CASE disk = op.want BY <3>3
    <3>4. CASE records[a] # None /\ IF records[a].kind = "symlink-file" THEN disk.target = records[a].digest
                                    ELSE disk.kind = "file" /\ records[a].digest = disk.digest
      <4>1. Honest(records[a], a) BY <3>4 DEF UpkeepInv
      <4>2. records[a].kind # "symlink-file" BY <3>1, <3>4, <4>1 DEF Honest
      <4>3. records[a].kind = "write-file" /\ Ownerless(records[a].digest) BY <4>1, <4>2 DEF Honest
      <4>4. Ownerless(disk.text) BY <3>1, <3>4, <4>2, <4>3
      <4> QED BY <3>1, <4>4, PiecesCarried
    <3> QED BY <2>2, <3>2, <3>3, <3>4
  <2> QED BY <2>3, <2>4, <2>5
<1>11. op.proof.kind = "symlink-file" => mode = "symlink"
  BY <1>1, <1>3
<1>12. ASSUME ~Conflicts(q, op, records, disk) PROVE Spares(op, a, force)
  <2>1. Beside(op) = side BY <1>9 DEF Beside
  <2>2. CASE force
    <3>1. Pieces(disk) \subseteq Displaced(a, op.proof, force) BY <2>2 DEF Displaced, Overwritten
    <3> QED BY <2>1, <3>1 DEF Spares
  <2>3. CASE ~force BY <1>10, <1>12, <2>1, <2>3 DEF Spares
  <2> QED BY <2>2, <2>3
<1> QED BY <1>7, <1>9, <1>11, <1>12 DEF q

-----------------------------------------------------------------------------
(* Removals.                                                                  *)

\* What was put as a whole is removed as a whole, or replaced by what is beside it.
LEMMA RemovalWhole ==
    ASSUME NEW s, s.kind \in {"absent", "file", "symlink"},
           NEW proof, proof.kind \in {"write-file", "symlink-file"},
           NEW force \in BOOLEAN, NEW beside, NEW r, r = PlanRemoval(proof, s, force, beside)
    PROVE  /\ s.kind = "absent" => r = s
           /\ s.kind # "absent" /\ r # None =>
                 /\ r = IF proof.restores = None THEN Nowhere ELSE TextFile(beside.text)
                 /\ proof.restores # None => beside.kind = "file"
                 /\ force \/ EffectStatus(proof, s) \in {"current", "broken"}
           /\ s.kind # "absent" /\ EffectStatus(proof, s) = "current" /\ (proof.restores # None => beside.kind = "file") =>
                 r = IF proof.restores = None THEN Nowhere ELSE TextFile(beside.text)
<1>1. CASE s.kind = "absent"
  BY <1>1 DEF PlanRemoval
<1>2. CASE s.kind # "absent"
  <2>1. r = IF EffectStatus(proof, s) \notin {"current", "broken"} /\ ~force THEN None
            ELSE IF proof.restores = None THEN Nowhere
            ELSE IF beside.kind = "file" THEN TextFile(beside.text) ELSE None
    BY <1>2 DEF PlanRemoval
  <2> QED BY <1>2, <2>1
<1> QED BY <1>1, <1>2

\* What such a destination is where its status is no conflict.
LEMMA WholeStatus ==
    ASSUME NEW s, s.kind \in {"absent", "file", "symlink"},
           NEW proof, proof.kind \in {"write-file", "symlink-file"},
           EffectStatus(proof, s) \in {"current", "broken"}
    PROVE  /\ s.kind # "absent"
           /\ proof.kind = "write-file" => s.kind = "file" /\ s.digest = proof.digest
           /\ proof.kind = "symlink-file" => s.kind = "symlink" /\ s.target = proof.digest
<1>1. s.kind # "absent"
  BY DEF EffectStatus
<1>2. CASE proof.kind = "write-file"
  <2>1. EffectStatus(proof, s) = IF s.kind = "file" /\ s.digest = proof.digest THEN "current" ELSE "drifted"
    BY <1>1, <1>2 DEF EffectStatus
  <2> QED BY <1>1, <1>2, <2>1
<1>3. CASE proof.kind = "symlink-file"
  <2>1. EffectStatus(proof, s) = ClassifyLink(proof, s)
    BY <1>1, <1>3 DEF EffectStatus
  <2>2. s.kind = "symlink" BY <2>1 DEF ClassifyLink
  <2>3. s.target = proof.digest BY <2>1, <2>2 DEF ClassifyLink
  <2> QED BY <1>1, <1>3, <2>2, <2>3
<1> QED BY <1>2, <1>3

\* The invariant after a step that keeps the family.
LEMMA InvKept ==
    ASSUME UpkeepInv, family' = family, Shaped', DOMAIN records' = Artifacts, OwnKept', Moded',
           \A b \in Artifacts : records'[b] = records[b] \/ records'[b] = None \/ Honest(records'[b], b)
    PROVE  UpkeepInv'
<1>1. ASSUME NEW b \in Artifacts, records'[b] # None PROVE Honest(records[b], b)'
  <2>1. Honest(records'[b], b) BY <1>1 DEF UpkeepInv
  <2> QED BY <2>1 DEF Honest
<1>2. (\A b \in Artifacts : records[b] # None => Honest(records[b], b))'
  BY <1>1, Zenon
<1>3. family' \in {"mcp", "memory", "guideline"}
  BY DEF UpkeepInv
<1> QED BY <1>2, <1>3 DEF UpkeepInv

\* The destination an earlier installation made is still recorded as made.
LEMMA ReplacementHonest ==
    ASSUME UpkeepInv, NEW a \in Artifacts, NEW proof, Honest(proof, a)
    PROVE  LET next == ReplacementProof(proof, records[a]) IN Honest(next, a) /\ next.kind = proof.kind
<1> DEFINE next == ReplacementProof(proof, records[a])
<1>1. proof \in Proofs
  BY DEF Honest
<1>2. CASE next = proof
  BY <1>2
<1>3. CASE records[a] # None /\ next = [proof EXCEPT !.created = records[a].created]
  <2>1. records[a].created \in BOOLEAN
    <3>1. records[a] \in Proofs BY <1>3 DEF UpkeepInv, Honest
    <3> QED BY <3>1 DEF Proofs
  <2> HIDE DEF next
  <2>2. /\ next \in Proofs /\ next.name = proof.name /\ next.kind = proof.kind /\ next.digest = proof.digest
        /\ next.id = proof.id /\ next.restores = proof.restores
    BY <1>1, <1>3, <2>1 DEF Proofs
  <2>3. Honest(next, a) BY <2>2 DEF Honest
  <2> QED BY <2>2, <2>3 DEF next
<1> QED BY <1>2, <1>3 DEF ReplacementProof

\* An installation keeps the invariant.
LEMMA InstallStep ==
    ASSUME UpkeepInv, NEW a \in Artifacts, NEW v \in {1, 2}, NEW mode, NEW force \in BOOLEAN,
           NEW object, NEW trust, NEW now, Install(a, v, mode, force, object, trust, now)
    PROVE  UpkeepInv'
<1> DEFINE op == Operation(a, v, mode, force)
<1>1. /\ op # None /\ ~Conflicts(RequestOf(a, v, mode, force), op, records, disk)
      /\ disk' = op.want
      /\ side' = IF op.proof.restores = None THEN side ELSE TextFile(op.proof.restores)
      /\ records' = [records EXCEPT ![a] = ReplacementProof(op.proof, records[a])]
      /\ versions' = [versions EXCEPT ![a] = [content |-> v, mode |-> mode]]
      /\ own' = own \ (Displaced(a, op.proof, force) \ Remaining')
      /\ family' = family
  BY DEF Install, Operation
<1> HIDE DEF op
<1>2. /\ Establishes(op, a) /\ Spares(op, a, force)
      /\ op.proof.kind = "symlink-file" => mode = "symlink"
  <2>1. CASE family = "mcp" BY <1>1, <2>1, OperationMcp DEF op
  <2>2. CASE family = "memory" BY <1>1, <2>2, OperationMemory DEF op
  <2>3. CASE family = "guideline" BY <1>1, <2>3, OperationGuideline DEF op
  <2> QED BY <2>1, <2>2, <2>3 DEF UpkeepInv
<1>3. OwnKept'
  <2>1. own \subseteq Pieces(disk) \cup Pieces(side) BY DEF UpkeepInv, OwnKept, Remaining
  <2>2. disk' = op.want /\ side' = Beside(op) BY <1>1 DEF Beside
  <2>3. own \subseteq Displaced(a, op.proof, force) \cup (Pieces(disk') \cup Pieces(side'))
    BY <1>2, <2>1, <2>2 DEF Spares
  <2>4. Remaining' = Pieces(disk') \cup Pieces(side') BY DEF Remaining, Pieces
  <2>5. own' \subseteq Remaining' BY <1>1, <2>3, <2>4
  <2> QED BY <2>5 DEF OwnKept
<1>4. Shaped'
  <2>1. CASE family = "mcp"
    <3>1. Documented(disk') /\ side' = Nowhere BY <1>1, <1>2, <2>1 DEF Establishes, UpkeepInv, Shaped
    <3> QED BY <1>1, <2>1, <3>1 DEF Shaped, Documented, Nowhere, NoJson, JsonFile
  <2>2. CASE family = "memory"
    <3>1. Texted(disk') /\ Texted(side') BY <1>1, <1>2, <2>2 DEF Establishes, UpkeepInv, Shaped
    <3> QED BY <1>1, <2>2, <3>1 DEF Shaped, Texted
  <2>3. CASE family = "guideline"
    <3>1. /\ Texted(disk') \/ (disk'.target \in Seq(Tokens) /\ disk' = Link(disk'.target))
          /\ side' = Nowhere
      BY <1>1, <1>2, <2>3 DEF Establishes, UpkeepInv, Shaped
    <3> QED BY <1>1, <2>3, <3>1 DEF Shaped, Texted
  <2> QED BY <2>1, <2>2, <2>3 DEF UpkeepInv
<1>5. /\ DOMAIN records' = Artifacts
      /\ \A b \in Artifacts : records'[b] = records[b] \/ Honest(records'[b], b)
  <2>1. DOMAIN records = Artifacts BY DEF UpkeepInv
  <2>2. Honest(ReplacementProof(op.proof, records[a]), a) BY <1>2, ReplacementHonest DEF Establishes
  <2> QED BY <1>1, <2>1, <2>2
<1>6. Moded'
  <2>1. DOMAIN versions = Artifacts /\ DOMAIN records = Artifacts BY DEF UpkeepInv, Moded
  <2>2. ReplacementProof(op.proof, records[a]).kind = op.proof.kind BY <1>2, ReplacementHonest DEF Establishes
  <2>3. /\ records'[a] = ReplacementProof(op.proof, records[a]) /\ versions'[a].mode = mode
        /\ DOMAIN versions' = Artifacts
        /\ \A b \in Artifacts : b # a => records'[b] = records[b] /\ versions'[b] = versions[b]
    BY <1>1, <2>1
  <2>4. ASSUME NEW b \in Artifacts, records'[b] # None, records'[b].kind = "symlink-file"
        PROVE  versions'[b].mode = "symlink"
    <3>1. CASE b = a BY <1>2, <2>2, <2>3, <2>4, <3>1
    <3>2. CASE b # a BY <2>3, <2>4, <3>2 DEF UpkeepInv, Moded
    <3> QED BY <3>1, <3>2
  <2> QED BY <2>3, <2>4 DEF Moded
<1> QED BY <1>1, <1>3, <1>4, <1>5, <1>6, InvKept

\* What Shaped says of a state after a step.
LEMMA ShapedNext ==
    ASSUME family' = family, family \in {"mcp", "memory", "guideline"},
           family = "mcp" => Documented(disk') /\ side' = Nowhere,
           family = "memory" => Texted(disk') /\ Texted(side'),
           family = "guideline" => /\ Texted(disk') \/ (disk'.target \in Seq(Tokens) /\ disk' = Link(disk'.target))
                                   /\ side' = Nowhere
    PROVE  Shaped'
<1>1. CASE family = "mcp"
  BY <1>1 DEF Shaped, Documented, Nowhere, NoJson, JsonFile
<1>2. CASE family = "memory"
  BY <1>2 DEF Shaped, Texted
<1>3. CASE family = "guideline"
  BY <1>3 DEF Shaped, Texted
<1> QED BY <1>1, <1>2, <1>3

\* What is left of a memory or of a file of its own once it is taken back.
LEMMA WholeTakenBack ==
    ASSUME UpkeepInv, NEW a \in Artifacts, records[a] # None, NEW force \in BOOLEAN,
           records[a].kind \in {"write-file", "symlink-file"}, TakeBack(a, force)
    PROVE  Shaped' /\ own \subseteq TakenAway(a, force) \cup (Pieces(disk') \cup Pieces(side'))
<1> DEFINE p == records[a]
           left == PlanRemoval(p, disk, force, side)
           beside == PlanRemoval(Sidecar(a), side, force, Nowhere)
<1>1. /\ left # None /\ disk' = left /\ family' = family
      /\ IF p.restores = None THEN side' = side ELSE beside # None /\ side' = beside
  BY DEF TakeBack
<1>2. Honest(p, a) /\ Shaped /\ own \subseteq Pieces(disk) \cup Pieces(side) /\ family \in {"mcp", "memory", "guideline"}
  BY DEF UpkeepInv, OwnKept, Remaining
<1>3. /\ family \in {"memory", "guideline"}
      /\ p.kind = "write-file" => Ownerless(p.digest)
      /\ p.restores # None => p.kind = "write-file" /\ family = "memory"
  BY <1>2 DEF Honest
<1>4. disk.kind \in {"absent", "file", "symlink"} /\ (disk.kind = "file" => Texted(disk)) /\ (disk.kind = "symlink" => Pieces(disk) = {})
  <2>1. Texted(disk) \/ (disk.target \in Seq(Tokens) /\ disk = Link(disk.target)) BY <1>2, <1>3 DEF Shaped
  <2>2. CASE Texted(disk) BY <2>2, TextOf
  <2>3. CASE disk = Link(disk.target)
    <3>1. Link(disk.target).kind = "symlink" BY DEF Link, Nowhere
    <3> QED BY <2>3, <3>1, PiecesOfNothing
  <2> QED BY <2>1, <2>2, <2>3
<1>5. /\ disk.kind = "absent" => left = disk
      /\ disk.kind # "absent" => /\ left = IF p.restores = None THEN Nowhere ELSE TextFile(side.text)
                                 /\ p.restores # None => side.kind = "file"
                                 /\ force \/ EffectStatus(p, disk) \in {"current", "broken"}
  BY <1>1, <1>4, RemovalWhole
<1>t. TakenAway(a, force) = (IF force THEN Pieces(disk) ELSE {}) \cup (IF Missing(a) THEN Pieces(side) ELSE {})
  BY DEF TakenAway
<1> HIDE DEF p, left, beside
<1>6. disk.kind # "absent" /\ ~force => Pieces(disk) = {}
  <2> SUFFICES ASSUME disk.kind # "absent", ~force PROVE Pieces(disk) = {}
    OBVIOUS
  <2>1. /\ p.kind = "write-file" => disk.kind = "file" /\ disk.digest = p.digest
        /\ p.kind = "symlink-file" => disk.kind = "symlink"
    BY <1>4, <1>5, WholeStatus DEF p
  <2>2. CASE p.kind = "write-file"
    <3>1. disk.digest = disk.text /\ Pieces(disk) = Pieces(TextFile(disk.text)) BY <1>4, <2>1, <2>2, TextOf
    <3> QED BY <1>3, <2>1, <2>2, <3>1, PiecesCarried
  <2>3. CASE p.kind = "symlink-file" BY <1>4, <2>1, <2>3
  <2> QED BY <2>2, <2>3 DEF p
<1>7. CASE p.restores = None
  <2>1. left = disk \/ left = Nowhere BY <1>5, <1>7
  <2>2. Shaped'
    <3>1. Texted(Nowhere) BY DEF Texted
    <3>2. /\ family = "memory" => Texted(left) /\ Texted(side)
          /\ family = "guideline" => /\ Texted(left) \/ (left.target \in Seq(Tokens) /\ left = Link(left.target))
                                     /\ side = Nowhere
      BY <1>2, <1>3, <2>1, <3>1 DEF Shaped
    <3> QED BY <1>1, <1>2, <1>3, <1>7, <3>2, ShapedNext
  <2>3. Pieces(disk) \subseteq TakenAway(a, force) \cup Pieces(disk')
    BY <1>1, <1>5, <1>6, <1>t
  <2> QED BY <1>1, <1>2, <1>7, <2>2, <2>3
<1>8. CASE p.restores # None
  <2>1. family = "memory" /\ p.kind = "write-file" BY <1>3, <1>8
  <2>2. Texted(disk) /\ Texted(side) BY <1>2, <2>1 DEF Shaped
  <2>3. side.text \in Seq(Tokens) /\ Tidy(side.text) /\ Pieces(side) = Pieces(TextFile(side.text)) /\ side.kind \in {"absent", "file"}
    BY <2>2, TextOf
  <2>4. Texted(left)
    BY <1>5, <1>8, <2>2, <2>3, TextIsTexted
  <2>5. Sidecar(a).kind = "write-file" /\ Sidecar(a).restores = None
    <3>1. p \in Proofs BY <1>2 DEF Honest
    <3> QED BY <2>1, <3>1 DEF Sidecar, p, Proofs
  <2>6. beside # None => beside = side \/ beside = Nowhere
    <3> DEFINE q == Sidecar(a)
    <3>1. q.kind = "write-file" /\ q.restores = None /\ beside = PlanRemoval(q, side, force, Nowhere)
      BY <2>5 DEF beside
    <3> HIDE DEF q
    <3>2. side.kind = "absent" => beside = side
      BY <2>3, <3>1, RemovalWhole
    <3>3. side.kind # "absent" /\ beside # None => beside = IF q.restores = None THEN Nowhere ELSE TextFile(Nowhere.text)
      BY <2>3, <3>1, RemovalWhole
    <3> QED BY <3>1, <3>2, <3>3
  <2>7. Texted(side')
    <3>1. Texted(Nowhere) BY DEF Texted
    <3> QED BY <1>1, <1>8, <2>2, <2>6, <3>1
  <2>8. Shaped'
    BY <1>1, <1>2, <2>1, <2>4, <2>7, ShapedNext
  <2>9. CASE disk.kind = "absent"
    <3>1. Missing(a) BY <1>8, <2>9 DEF Missing, p
    <3>2. Pieces(side) \subseteq TakenAway(a, force) /\ disk' = disk BY <1>1, <1>5, <1>t, <2>9, <3>1
    <3> QED BY <1>2, <2>8, <3>2
  <2>10. CASE disk.kind # "absent"
    <3>1. Pieces(disk) \subseteq TakenAway(a, force) BY <1>6, <1>t, <2>10
    <3>2. left = TextFile(side.text) BY <1>5, <1>8, <2>10
    <3> QED BY <1>1, <1>2, <2>3, <2>8, <3>1, <3>2
  <2> QED BY <2>9, <2>10
<1> QED BY <1>7, <1>8

\* Taking an artifact back keeps the invariant.
LEMMA TakeBackStep ==
    ASSUME UpkeepInv, NEW a \in Artifacts, records[a] # None, NEW force \in BOOLEAN, TakeBack(a, force)
    PROVE  UpkeepInv'
<1> DEFINE p == records[a]
           left == PlanRemoval(p, disk, force, side)
<1>1. /\ left # None /\ disk' = left /\ family' = family
      /\ p.restores = None => side' = side
      /\ records' = [records EXCEPT ![a] = None]
      /\ versions' = [versions EXCEPT ![a] = None]
      /\ own' = own \ (TakenAway(a, force) \ Remaining')
  BY DEF TakeBack
<1>2. Honest(p, a) /\ Shaped /\ own \subseteq Pieces(disk) \cup Pieces(side) /\ family \in {"mcp", "memory", "guideline"}
  BY DEF UpkeepInv, OwnKept, Remaining
<1>3. p.kind \in {"write-file", "symlink-file", "merge-json", "managed-block"} /\ p.name = a
  BY <1>2 DEF Honest, Proofs
<1>4. Shaped' /\ own \subseteq TakenAway(a, force) \cup (Pieces(disk') \cup Pieces(side'))
  <2>1. CASE p.kind \in {"write-file", "symlink-file"} BY <2>1, WholeTakenBack
  <2>2. CASE p.kind = "merge-json"
    <3>1. family = "mcp" /\ p.id = a /\ p.digest \in {"aart"} \X {1, 2} /\ p.restores = None BY <1>2, <2>2 DEF Honest
    <3>2. Documented(disk) /\ side = Nowhere BY <1>2, <3>1 DEF Shaped
    <3>t. (IF force THEN EntriesOf(disk, a) ELSE {}) = TakenAway(a, force)
      BY <2>2 DEF TakenAway, EntryPieces, EntriesOf
    <3> HIDE DEF p
    <3>u. Documented(left) /\ Pieces(disk) \subseteq Pieces(left) \cup IF force THEN EntriesOf(disk, p.id) ELSE {}
      BY <1>1, <2>2, <3>1, <3>2, UnmergeKeeps
    <3>3. Documented(left) /\ Pieces(disk) \subseteq Pieces(left) \cup TakenAway(a, force) BY <3>1, <3>t, <3>u
    <3> HIDE DEF left
    <3>4. Shaped' BY <1>1, <1>2, <3>1, <3>2, <3>3, ShapedNext
    <3> QED BY <1>1, <1>2, <3>1, <3>3, <3>4
  <2>3. CASE p.kind = "managed-block"
    <3>1. family = "memory" /\ p.restores = None BY <1>2, <2>3 DEF Honest
    <3>2. Texted(disk) /\ Texted(side) BY <1>2, <3>1 DEF Shaped
    <3> HIDE DEF p
    <3>3. Texted(left) /\ Pieces(disk) \subseteq Pieces(left) BY <1>1, <1>3, <2>3, <3>2, UnblockKeeps
    <3> HIDE DEF left
    <3>4. Shaped' BY <1>1, <1>2, <3>1, <3>2, <3>3, ShapedNext
    <3> QED BY <1>1, <1>2, <3>1, <3>3, <3>4
  <2> QED BY <1>3, <2>1, <2>2, <2>3
<1>5. OwnKept'
  <2>1. Remaining' = Pieces(disk') \cup Pieces(side') BY DEF Remaining, Pieces
  <2>2. own' \subseteq Remaining' BY <1>1, <1>4, <2>1
  <2> QED BY <2>2 DEF OwnKept
<1>6. DOMAIN records' = Artifacts /\ \A b \in Artifacts : records'[b] = records[b] \/ records'[b] = None
  <2>1. DOMAIN records = Artifacts BY DEF UpkeepInv
  <2> QED BY <1>1, <2>1
<1>7. Moded'
  <2>1. DOMAIN versions = Artifacts /\ DOMAIN records = Artifacts BY DEF UpkeepInv, Moded
  <2>2. /\ records'[a] = None /\ DOMAIN versions' = Artifacts
        /\ \A b \in Artifacts : b # a => records'[b] = records[b] /\ versions'[b] = versions[b]
    BY <1>1, <2>1
  <2> QED BY <2>2 DEF UpkeepInv, Moded
<1> QED BY <1>1, <1>4, <1>5, <1>6, <1>7, InvKept

-----------------------------------------------------------------------------
(* The operator's edits, and the specification.                               *)

\* An edit keeps the invariant if it leaves a destination of the family.
LEMMA EditStep ==
    ASSUME UpkeepInv, NEW s, NEW pieces, Edited(s, pieces), pieces \subseteq Pieces(s),
           family = "mcp" => Documented(s), family = "memory" => Texted(s),
           family = "guideline" => Texted(s) \/ (s.target \in Seq(Tokens) /\ s = Link(s.target))
    PROVE  UpkeepInv'
<1>1. /\ disk' = s /\ side' = side /\ family' = family /\ records' = records /\ versions' = versions
      /\ own' = (own \cap (Pieces(s) \cup Pieces(side))) \cup pieces
  BY DEF Edited
<1>2. Shaped /\ family \in {"mcp", "memory", "guideline"} /\ DOMAIN records = Artifacts
  BY DEF UpkeepInv
<1>3. /\ family = "mcp" => side = Nowhere
      /\ family = "memory" => Texted(side)
      /\ family = "guideline" => side = Nowhere
  BY <1>2 DEF Shaped
<1>4. Shaped'
  BY <1>1, <1>2, <1>3, ShapedNext
<1>5. OwnKept'
  <2>1. own' \subseteq Pieces(disk') \cup Pieces(side') BY <1>1
  <2> QED BY <2>1 DEF OwnKept, Remaining, Pieces
<1>6. Moded'
  BY <1>1 DEF UpkeepInv, Moded
<1> QED BY <1>1, <1>2, <1>4, <1>5, <1>6, InvKept

\* Each edit of the operator keeps the invariant.
LEMMA AddLineStep ==
    ASSUME UpkeepInv, NEW n \in Int, NEW top \in BOOLEAN, AddLine(n, top)
    PROVE  UpkeepInv'
<1> DEFINE text == IF top THEN <<Token("own", n), Newline>> \o disk.text ELSE disk.text \o <<Token("own", n), Newline>>
<1>1. family \in {"memory", "guideline"} /\ disk.kind \in {"absent", "file"} /\ Edited(TextFile(text), {<<"line", n>>})
  BY DEF AddLine
<1>2. Texted(disk)
  <2>1. Texted(disk) \/ disk = Link(disk.target) BY <1>1 DEF UpkeepInv, Shaped
  <2>2. Link(disk.target).kind = "symlink" BY DEF Link, Nowhere
  <2> QED BY <1>1, <2>1, <2>2
<1>3. disk.text \in Seq(Tokens) /\ Tidy(disk.text)
  BY <1>2, TextOf
<1>4. text \in Seq(Tokens) /\ Tidy(text) /\ \E j \in DOMAIN text : text[j] = Token("own", n)
  BY <1>3, LineKeeps
<1> HIDE DEF text
<1>5. {<<"line", n>>} \subseteq Pieces(TextFile(text))
  <2>1. Token("own", n) \in {x \in ToSet(text) : x[1] = "own"} /\ Token("own", n)[2] = n
    BY <1>4 DEF ToSet, Token
  <2>2. <<"line", n>> \in {<<"line", x[2]>> : x \in {x \in ToSet(text) : x[1] = "own"}}
    BY <2>1
  <2> QED BY <2>2, PiecesOfText
<1>6. Texted(TextFile(text))
  BY <1>4, TextIsTexted
<1> QED BY <1>1, <1>5, <1>6, EditStep

LEMMA AddKeyStep ==
    ASSUME UpkeepInv, AddKey
    PROVE  UpkeepInv'
<1> DEFINE d == [disk.json EXCEPT !.keys = {"k"}]
<1>1. family = "mcp" /\ Edited(JsonFile(d), {<<"key", "k">>})
  BY DEF AddKey
<1>2. Documented(disk)
  BY <1>1 DEF UpkeepInv, Shaped
<1>3. Left(disk.json)
  BY <1>2, LeftOf
<1>4. d \in Documents /\ (d.type = "missing" => d.entries = <<>>) /\ d.keys = {"k"}
  BY <1>3 DEF Left, Documents
<1> HIDE DEF d
<1>5. JsonFile(d).json = d
  BY DEF JsonFile, Nowhere
<1>6. Documented(JsonFile(d))
  BY <1>4, <1>5 DEF Documented
<1>7. {<<"key", "k">>} \subseteq Pieces(JsonFile(d))
  BY <1>4, PiecesOfDocument
<1> QED BY <1>1, <1>6, <1>7, EditStep

LEMMA SetEntryStep ==
    ASSUME UpkeepInv, NEW id \in {"x", "o"}, SetEntry(id)
    PROVE  UpkeepInv'
<1> DEFINE u == LET entry == [id |-> id, value |-> <<"own", id>>]
                    at == CHOOSE i \in MatchesIn(disk.json, id) : TRUE
                IN  [disk.json EXCEPT !.type = "container",
                        !.entries = IF MatchesIn(disk.json, id) = {} THEN Append(@, entry)
                                    ELSE [@ EXCEPT ![at] = entry]]
<1>1. family = "mcp" /\ Edited(JsonFile(u), {<<"entry", id, <<"own", id>>>>})
  BY DEF SetEntry
<1>2. Documented(disk)
  BY <1>1 DEF UpkeepInv, Shaped
<1>3. Documented(JsonFile(u)) /\ <<"entry", id, <<"own", id>>>> \in Pieces(JsonFile(u))
  BY <1>2, EntrySet
<1> HIDE DEF u
<1>4. {<<"entry", id, <<"own", id>>>>} \subseteq Pieces(JsonFile(u))
  BY <1>3
<1> QED BY <1>1, <1>3, <1>4, EditStep

LEMMA BreakStep ==
    ASSUME UpkeepInv, Break
    PROVE  UpkeepInv'
<1> DEFINE d == [disk.json EXCEPT !.valid = ~@]
<1>1. family = "mcp" /\ Edited(JsonFile(d), {})
  BY DEF Break
<1>2. Documented(disk)
  BY <1>1 DEF UpkeepInv, Shaped
<1>3. Left(disk.json)
  BY <1>2, LeftOf
<1>4. d \in Documents /\ (d.type = "missing" => d.entries = <<>>)
  BY <1>3 DEF Left, Documents
<1> HIDE DEF d
<1>5. JsonFile(d).json = d
  BY DEF JsonFile, Nowhere
<1>6. Documented(JsonFile(d))
  BY <1>4, <1>5 DEF Documented
<1> QED BY <1>1, <1>6, EditStep

LEMMA TearStep ==
    ASSUME UpkeepInv, NEW a \in Artifacts, TearBlock(a)
    PROVE  UpkeepInv'
<1> DEFINE u == RemoveAt(disk.text, First(Positions(disk.text, Token("end", a))))
<1>1. family = "memory" /\ Positions(disk.text, Token("end", a)) # {} /\ Edited(TextFile(u), {})
  BY DEF TearBlock
<1>2. Texted(disk)
  BY <1>1 DEF UpkeepInv, Shaped
<1>3. u \in Seq(Tokens) /\ Tidy(u)
  BY <1>1, <1>2, TextOf, TearKeeps
<1> HIDE DEF u
<1>4. Texted(TextFile(u))
  BY <1>3, TextIsTexted
<1> QED BY <1>1, <1>4, EditStep

LEMMA DeleteStep ==
    ASSUME UpkeepInv, DeleteFile
    PROVE  UpkeepInv'
<1>1. Edited(Nowhere, {})
  BY DEF DeleteFile
<1>2. Documented(Nowhere) /\ Texted(Nowhere)
  BY DEF Documented, Texted
<1> QED BY <1>1, <1>2, EditStep

LEMMA RetargetStep ==
    ASSUME UpkeepInv, Retarget
    PROVE  UpkeepInv'
<1> DEFINE target == <<Token("link", None)>>
<1>1. disk.kind = "symlink" /\ Edited(Link(target), {})
  BY DEF Retarget
<1>2. Token("link", None) \in Tokens
  BY DEF Token, Tokens
<1>3. target \in Seq(Tokens)
  BY <1>2
<1> HIDE DEF target
<1>4. Link(target).target = target
  BY DEF Link, Nowhere
<1>5. family = "guideline"
  <2>1. family = "mcp" => disk.kind \in {"absent", "file"}
    <3>1. family = "mcp" => Documented(disk) BY DEF UpkeepInv, Shaped
    <3> QED BY <3>1, LeftOf
  <2>2. family = "memory" => disk.kind \in {"absent", "file"}
    <3>1. family = "memory" => Texted(disk) BY DEF UpkeepInv, Shaped
    <3> QED BY <3>1, TextOf
  <2>3. family \in {"mcp", "memory", "guideline"} BY DEF UpkeepInv
  <2> QED BY <1>1, <2>1, <2>2, <2>3
<1> QED BY <1>1, <1>3, <1>4, <1>5, EditStep

\* The inductive invariant of Upkeep.
LEMMA UpkeepKeepsInv ==
    ASSUME UpkeepInv, [UpkeepNext]_upkeep
    PROVE  UpkeepInv'
<1>1. CASE UNCHANGED upkeep
  BY <1>1 DEF upkeep, UpkeepInv, Shaped, Documented, Texted, Honest, Moded, OwnKept, Remaining, Pieces
<1>2. CASE UpkeepNext
  <2>0. UpkeepStep BY <1>2 DEF UpkeepNext
  <2>1. CASE \E a \in Artifacts, mode \in Modes, force \in BOOLEAN, review \in ReviewCases :
                Install(a, 1, mode, force, review[1], review[2], review[3])
    <3>1. PICK a \in Artifacts, mode \in Modes, force \in BOOLEAN, review \in ReviewCases :
             Install(a, 1, mode, force, review[1], review[2], review[3])
      BY <2>1
    <3> QED BY <3>1, InstallStep
  <2>2. CASE \E a \in Artifacts, force \in BOOLEAN : Uninstall(a, force)
    BY <2>2, TakeBackStep DEF Uninstall
  <2>3. CASE \E a \in Artifacts, offered \in SUBSET {2}, ref \in {"main", "next"}, force \in BOOLEAN :
                Prune(a, offered, ref, force) \/ Update(a, offered, ref, force)
    <3>1. PICK a \in Artifacts, offered \in SUBSET {2}, ref \in {"main", "next"}, force \in BOOLEAN :
             Prune(a, offered, ref, force) \/ Update(a, offered, ref, force)
      BY <2>3
    <3>2. CASE Prune(a, offered, ref, force)
      <4>1. records[a] # None /\ TakeBack(a, force) BY <3>2 DEF Prune
      <4> QED BY <4>1, TakeBackStep
    <3>3. CASE Update(a, offered, ref, force)
      <4>1. PICK version \in offered :
               Install(a, version, versions[a].mode, force, ObjectOf(1), "company-reviewed", 1)
        BY <3>3 DEF Update
      <4>2. version \in {1, 2} OBVIOUS
      <4> QED BY <4>1, <4>2, InstallStep
    <3> QED BY <3>1, <3>2, <3>3
  <2>5. CASE \E n \in 1..MaxOwn, top \in BOOLEAN : AddLine(n, top)
    <3>1. PICK n \in 1..MaxOwn, top \in BOOLEAN : AddLine(n, top) BY <2>5
    <3>2. n \in Int OBVIOUS
    <3> QED BY <3>1, <3>2, AddLineStep
  <2>6. CASE AddKey BY <2>6, AddKeyStep
  <2>7. CASE \E id \in {"x", "o"} : SetEntry(id) BY <2>7, SetEntryStep
  <2>8. CASE Break BY <2>8, BreakStep
  <2>9. CASE \E a \in Artifacts : TearBlock(a) BY <2>9, TearStep
  <2>10. CASE DeleteFile BY <2>10, DeleteStep
  <2>11. CASE Retarget BY <2>11, RetargetStep
  <2> QED BY <2>0, <2>1, <2>2, <2>3, <2>5, <2>6, <2>7, <2>8, <2>9, <2>10, <2>11 DEF UpkeepStep
<1> QED BY <1>1, <1>2

\* It holds at the start.
LEMMA UpkeepStarts ==
    ASSUME UpkeepInit
    PROVE  UpkeepInv
<1>1. Documented(Nowhere) /\ Texted(Nowhere)
  BY DEF Documented, Texted
<1>2. Shaped
  BY <1>1 DEF UpkeepInit, Shaped
<1> QED BY <1>2 DEF UpkeepInit, UpkeepInv, Moded, OwnKept

-----------------------------------------------------------------------------
(* Health and the commands.                                                   *)

Statuses == {"current", "missing", "broken", "drifted", "retargeted", "replaced", "failed"}

\* Every status has a priority.
LEMMA StatusesOf == \A proof, s : EffectStatus(proof, s) \in Statuses
<1> TAKE proof, s
<1>1. ClassifyLink(proof, s) \in Statuses
  BY DEF ClassifyLink, Statuses
<1>2. MergeEffectStatus(proof, s) \in Statuses
  BY DEF MergeEffectStatus, Statuses
<1>3. ManagedBlockStatus(proof, s) \in Statuses
  BY DEF ManagedBlockStatus, Statuses
<1>4. "missing" \in Statuses /\ "current" \in Statuses /\ "drifted" \in Statuses
  BY DEF Statuses
<1> QED BY <1>1, <1>2, <1>3, <1>4 DEF EffectStatus

\* An installation is current only if each of its effects is.
LEMMA WorstStatus ==
    ASSUME NEW set \in SUBSET Statuses, set # {}
    PROVE  /\ AggregateStatus(set) \in Statuses
           /\ AggregateStatus(set) = "current" => set = {"current"}
<1> DEFINE P == StatusPriority
           worst(i) == P[i] \in set /\ \A j \in DOMAIN P : P[j] \in set => j <= i
<1>1. /\ DOMAIN P = 1 .. 7 /\ P[1] = "current" /\ P[2] = "missing" /\ P[3] = "broken" /\ P[4] = "drifted"
      /\ P[5] = "retargeted" /\ P[6] = "replaced" /\ P[7] = "failed"
  BY DEF StatusPriority
<1>2. AggregateStatus(set) = P[CHOOSE i \in DOMAIN P : worst(i)]
  BY DEF AggregateStatus
<1> HIDE DEF P
<1>3. \A x \in Statuses : \E i \in DOMAIN P : P[i] = x
  <2>1. 1 \in DOMAIN P /\ 2 \in DOMAIN P /\ 3 \in DOMAIN P /\ 4 \in DOMAIN P /\ 5 \in DOMAIN P /\ 6 \in DOMAIN P
          /\ 7 \in DOMAIN P
    BY <1>1
  <2> QED BY <1>1, <2>1 DEF Statuses
<1>4. \A i \in DOMAIN P : i \in 1 .. 7 /\ P[i] \in Statuses /\ (P[i] = "current" => i = 1)
  <2>1. \A i \in 1 .. 7 : i = 1 \/ i = 2 \/ i = 3 \/ i = 4 \/ i = 5 \/ i = 6 \/ i = 7 OBVIOUS
  <2> QED BY <1>1, <2>1 DEF Statuses
<1>5. \E i \in DOMAIN P : worst(i)
  <2> DEFINE S == {i \in 1 .. 7 : P[i] \in set}
  <2>1. S # {} /\ S \subseteq 1 .. 7 BY <1>3, <1>4
  <2> HIDE DEF S
  <2>2. \E i \in S : \A j \in S : j <= i
    <3>1. \A i \in S : i \in 1 .. 7 BY <2>1
    <3>2. \A i \in S : i = 1 \/ i = 2 \/ i = 3 \/ i = 4 \/ i = 5 \/ i = 6 \/ i = 7 BY <3>1
    <3>3. CASE 7 \in S BY <3>1, <3>3
    <3>4. CASE 7 \notin S /\ 6 \in S BY <3>2, <3>4
    <3>5. CASE 7 \notin S /\ 6 \notin S /\ 5 \in S BY <3>2, <3>5
    <3>6. CASE 7 \notin S /\ 6 \notin S /\ 5 \notin S /\ 4 \in S BY <3>2, <3>6
    <3>7. CASE 7 \notin S /\ 6 \notin S /\ 5 \notin S /\ 4 \notin S /\ 3 \in S BY <3>2, <3>7
    <3>8. CASE 7 \notin S /\ 6 \notin S /\ 5 \notin S /\ 4 \notin S /\ 3 \notin S /\ 2 \in S BY <3>2, <3>8
    <3>9. CASE 7 \notin S /\ 6 \notin S /\ 5 \notin S /\ 4 \notin S /\ 3 \notin S /\ 2 \notin S
      <4>1. \A i \in S : i = 1 /\ i <= i BY <3>1, <3>2, <3>9
      <4>2. PICK i \in S : TRUE BY <2>1
      <4> QED BY <4>1, <4>2
    <3> QED BY <3>3, <3>4, <3>5, <3>6, <3>7, <3>8, <3>9
  <2> QED BY <1>1, <2>2 DEF S
<1> DEFINE w == CHOOSE i \in DOMAIN P : worst(i)
<1>6. w \in DOMAIN P /\ P[w] \in set /\ \A j \in DOMAIN P : P[j] \in set => j <= w
  BY <1>5
<1> HIDE DEF w
<1>7. AggregateStatus(set) = P[w]
  BY <1>2 DEF w
<1>8. ASSUME P[w] = "current" PROVE set = {"current"}
  <2>1. w = 1 BY <1>4, <1>6, <1>8
  <2>2. \A j \in DOMAIN P : P[j] \in set => j = 1 BY <1>4, <1>6, <2>1
  <2>3. \A x \in set : x = "current" BY <1>1, <1>3, <2>2
  <2> QED BY <2>3
<1> QED BY <1>4, <1>6, <1>7, <1>8

\* What is shown as current is taken back, and what is offered is not refused.
LEMMA InvIsHonest == UpkeepInv => HealthIsHonest
<1> SUFFICES ASSUME UpkeepInv, NEW a \in Artifacts, records[a] # None
             PROVE  LET world == World(a, {2}, "main")
                        local == AggregateStatus({EffectStatus(records[a], disk)}
                                    \cup IF records[a].restores = None THEN {} ELSE {EffectStatus(Sidecar(a), side)})
                        remote == CheckInstallation(RecordOf(a), world.configured, world.views, world.items)
                        request == RequestOf(a, 2, versions[a].mode, FALSE)
                        operation == NativeActions(request, Profile, disk)
                    IN  /\ local = "current" => PlanRemoval(records[a], disk, FALSE, side) # None
                        /\ ReconcileInstallation(local, remote) = "update-available" /\ family = "guideline"
                           => operation # None /\ ~UnsafeType(request, disk) /\ ~Conflicts(request, operation, records, disk)
  BY DEF HealthIsHonest
<1> DEFINE p == records[a]
           set == {EffectStatus(p, disk)} \cup IF p.restores = None THEN {} ELSE {EffectStatus(Sidecar(a), side)}
           local == AggregateStatus(set)
           request == RequestOf(a, 2, versions[a].mode, FALSE)
           operation == NativeActions(request, Profile, disk)
           left == PlanRemoval(p, disk, FALSE, side)
<1>1. Honest(p, a) /\ Shaped /\ family \in {"mcp", "memory", "guideline"}
  BY DEF UpkeepInv
<1>2. set \in SUBSET Statuses /\ set # {}
  BY StatusesOf
<1>3. local \in Statuses /\ (local = "current" => set = {"current"})
  <2> HIDE DEF set
  <2> QED BY <1>2, WorstStatus
<1>4. local = "current" => /\ EffectStatus(p, disk) = "current"
                           /\ p.restores # None => EffectStatus(Sidecar(a), side) = "current"
  BY <1>3
<1> HIDE DEF set, local
<1>5. ASSUME local = "current" PROVE left # None
  <2>1. p.kind \in {"write-file", "symlink-file", "merge-json", "managed-block"} /\ p.name = a
    BY <1>1 DEF Honest, Proofs
  <2>2. CASE p.kind = "merge-json"
    <3>1. family = "mcp" /\ p.digest \in {"aart"} \X {1, 2} BY <1>1, <2>2 DEF Honest
    <3>2. Documented(disk) BY <1>1, <3>1 DEF Shaped
    <3> HIDE DEF p
    <3>3. left \in Files BY <1>4, <1>5, <2>2, <3>1, <3>2, UnmergeKeeps
    <3> QED BY <3>3, UpkeepAssumption
  <2>3. CASE p.kind = "managed-block"
    <3>1. family = "memory" BY <1>1, <2>3 DEF Honest
    <3>2. Texted(disk) BY <1>1, <3>1 DEF Shaped
    <3> HIDE DEF p
    <3>3. left \in Files BY <1>4, <1>5, <2>1, <2>3, <3>2, UnblockKeeps
    <3> QED BY <3>3, UpkeepAssumption
  <2>4. CASE p.kind \in {"write-file", "symlink-file"}
    <3>1. /\ family \in {"memory", "guideline"}
          /\ p.restores # None => p.kind = "write-file" /\ family = "memory"
      BY <1>1, <2>4 DEF Honest
    <3>2. disk.kind \in {"absent", "file", "symlink"}
      <4>1. Texted(disk) \/ disk = Link(disk.target) BY <1>1, <3>1 DEF Shaped
      <4>2. Link(disk.target).kind = "symlink" BY DEF Link, Nowhere
      <4> QED BY <4>1, <4>2, TextOf
    <3>3. disk.kind # "absent"
      BY <1>4, <1>5, <2>4, <3>2, WholeStatus
    <3>4. p.restores # None => side.kind = "file" /\ side.text \in Seq(Tokens)
      <4> SUFFICES ASSUME p.restores # None PROVE side.kind = "file" /\ side.text \in Seq(Tokens)
        OBVIOUS
      <4>1. Texted(side) BY <1>1, <3>1 DEF Shaped
      <4>2. side.kind \in {"absent", "file"} /\ side.text \in Seq(Tokens) BY <4>1, TextOf
      <4>3. Sidecar(a).kind = "write-file"
        <5>1. p \in Proofs BY <1>1 DEF Honest
        <5> QED BY <3>1, <5>1 DEF Sidecar, Proofs
      <4>4. EffectStatus(Sidecar(a), side) = "current" BY <1>4, <1>5
      <4> QED BY <4>2, <4>3, <4>4, WholeStatus
    <3> HIDE DEF p
    <3>r. disk.kind # "absent" /\ EffectStatus(p, disk) = "current" /\ (p.restores # None => side.kind = "file") =>
             left = IF p.restores = None THEN Nowhere ELSE TextFile(side.text)
      <4>1. ASSUME NEW force \in BOOLEAN, NEW r, r = PlanRemoval(p, disk, force, side)
            PROVE  disk.kind # "absent" /\ EffectStatus(p, disk) = "current" /\ (p.restores # None => side.kind = "file") =>
                      r = IF p.restores = None THEN Nowhere ELSE TextFile(side.text)
        BY <2>4, <3>2, <4>1, RemovalWhole
      <4> QED BY <4>1, Zenon
    <3> HIDE DEF left
    <3>5. left = IF p.restores = None THEN Nowhere ELSE TextFile(side.text)
      BY <1>4, <1>5, <3>3, <3>4, <3>r
    <3>6. left \in Files BY <3>4, <3>5, SnapshotsAreFiles
    <3> QED BY <3>6, UpkeepAssumption
  <2> QED BY <2>1, <2>2, <2>3, <2>4
<1>6. ASSUME local = "current", family = "guideline"
      PROVE  operation # None /\ ~UnsafeType(request, disk) /\ ~Conflicts(request, operation, records, disk)
  <2>1. operation \in [want : Files, proof : Proofs]
    BY <1>6, OperationGuideline DEF Operation
  <2>2. operation # None BY <2>1, UpkeepAssumption
  <2>3. p.kind \in {"write-file", "symlink-file"} BY <1>1, <1>6 DEF Honest
  <2>4. disk.kind \in {"absent", "file", "symlink"}
    <3>1. Texted(disk) \/ disk = Link(disk.target) BY <1>1, <1>6 DEF Shaped
    <3>2. Link(disk.target).kind = "symlink" BY DEF Link, Nowhere
    <3> QED BY <3>1, <3>2, TextOf
  <2>5. /\ p.kind = "write-file" => disk.kind = "file" /\ disk.digest = p.digest
        /\ p.kind = "symlink-file" => disk.target = p.digest
    BY <1>4, <1>6, <2>3, <2>4, WholeStatus
  <2>6. request.name = a /\ request.mode = IF versions[a].mode = "symlink" THEN "symlink" ELSE "copy"
    BY DEF RequestOf
  <2>7. p.kind = "symlink-file" => versions[a].mode = "symlink"
    BY DEF UpkeepInv, Moded
  <2> HIDE DEF request, operation
  <2>8. ~Conflicts(request, operation, records, disk)
    BY <2>3, <2>5, <2>6 DEF Conflicts
  <2>9. ~UnsafeType(request, disk)
    BY <2>3, <2>4, <2>5, <2>6, <2>7 DEF UnsafeType
  <2> QED BY <2>2, <2>8, <2>9
<1>7. ASSUME NEW remote, ReconcileInstallation(local, remote) = "update-available" PROVE local = "current"
  BY <1>3, <1>7 DEF ReconcileInstallation, Statuses
<1> QED BY <1>5, <1>6, <1>7 DEF local, set

\* However artifacts that share a destination are installed, updated, pruned and
\* uninstalled, and however the operator edits it between: what is the operator's is in
\* the destination or beside it but for exactly what Displaced and TakenAway name, and a
\* removal or an update is refused only where health said so.
THEOREM UpkeepRestores == UpkeepSpec => []UnmergeRestores
<1>1. UpkeepInit => UpkeepInv
  BY UpkeepStarts
<1>2. UpkeepInv /\ [UpkeepNext]_upkeep => UpkeepInv'
  BY UpkeepKeepsInv
<1>3. UpkeepInv => UnmergeRestores
  BY InvIsHonest DEF UnmergeRestores, UpkeepInv
<1> QED BY <1>1, <1>2, <1>3, PTL DEF UpkeepSpec
=============================================================================
