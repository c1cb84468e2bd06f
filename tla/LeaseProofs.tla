---------------------------- MODULE LeaseProofs ----------------------------
(***************************************************************************)
(* For any number of calls, the lease serializes its holders, provided    *)
(* only one process may meet a stale lock.  The reclaim judges a lock and  *)
(* renames the path in two steps, so what has to be shown is that nothing  *)
(* can put another directory under the path in between.                    *)
(***************************************************************************)
EXTENDS Lease, TLAPS

\* At most one call may meet a stale lock, mkdir never fails for a reason
\* other than an existing path, and no process stops for minutes between two
\* adjacent system calls.
Cautious ==
    /\ \A c, d \in Reclaimers : c = d
    /\ "mkdir" \notin Faults
    /\ "pause" \notin Faults

\* A holder's own directory is there and names it.
HolderOwns ==
    \A c \in running : pc[c] \in Holding => Present /\ lock.owner = c

\* A running call between its mkdir and its owner.json, or about to clean up
\* after them, still has its own, young directory under the path.
MakerKeeps ==
    \A c \in running : pc[c] \in {"made", "cleanup"} =>
        /\ Present /\ lock.maker = c /\ lock.age = "young"
        /\ pc[c] = "made" => lock.owner = NoOwner

\* What was judged stale still is: the directory of a process that is gone, or of a call
\* that returned and could not remove it.
StaleIsDead ==
    \A c \in running : pc[c] = "stale" =>
        /\ c \in Reclaimers /\ Present
        /\ lock.maker \in running => pc[lock.maker] = "failed" /\ "rmtree" \in Faults

\* A recorded owner made the directory; a running maker that has recorded
\* nothing is about to, or about to clean up, or could not.
OwnerIsMaker ==
    Present =>
        /\ lock.owner \in Calls => lock.owner = lock.maker
        /\ lock.owner \notin Calls /\ lock.maker \in running =>
               \/ pc[lock.maker] \in {"made", "cleanup"}
               \/ pc[lock.maker] = "failed" /\ "rmtree" \in Faults

\* No owner.json appears in an old directory while its mtime is looked up.
OldStaysOwnerless ==
    \A c \in running : pc[c] = "ownerless" /\ Present /\ lock.age = "old" =>
        lock.owner \notin Calls

IInv ==
    /\ TypeOK
    /\ HolderOwns
    /\ MakerKeeps
    /\ StaleIsDead
    /\ OwnerIsMaker
    /\ OldStaysOwnerless

-----------------------------------------------------------------------------
\* Every step of acquire_source_lock and release_source_lock, and the
\* environment's, keep the types, whatever the faults.
LEMMA TypeStep == TypeOK /\ [Next]_vars => TypeOK'
<1> SUFFICES ASSUME TypeOK, [Next]_vars PROVE TypeOK'
  OBVIOUS
<1> USE LeaseConstants DEF TypeOK, Present, At, Goto, PCs, Holding, Finished,
        Directory, Owners
<1>1. CASE Age
  BY <1>1 DEF Age
<1>2. ASSUME NEW c \in Calls, Start(c) PROVE TypeOK'
  BY <1>2 DEF Start
<1>3. ASSUME NEW c \in Calls, Exit(c) PROVE TypeOK'
  BY <1>3 DEF Exit
<1>4. ASSUME NEW c \in Calls, Mkdir(c) PROVE TypeOK'
  BY <1>4 DEF Mkdir, Made
<1>5. ASSUME NEW c \in Calls, WriteOwner(c) PROVE TypeOK'
  <2>1. lock' \in Directory \cup {NoLock}
    <3>1. CASE UNCHANGED lock
      BY <3>1
    <3>2. ASSUME NEW o \in Owners, Present,
                 lock' = [lock EXCEPT !.owner = o, !.age = "young"]
          PROVE  lock' \in Directory
      BY <3>2
    <3> QED
      BY <1>5, <3>1, <3>2 DEF WriteOwner
  <2> QED
    BY <1>5, <2>1 DEF WriteOwner
<1>6. ASSUME NEW c \in Calls, CleanUp(c) PROVE TypeOK'
  BY <1>6 DEF CleanUp
<1>7. ASSUME NEW c \in Calls, InspectOwner(c) PROVE TypeOK'
  BY <1>7 DEF InspectOwner
<1>8. ASSUME NEW c \in Calls, InspectMtime(c) PROVE TypeOK'
  BY <1>8 DEF InspectMtime
<1>9. ASSUME NEW c \in Calls, Reclaim(c) PROVE TypeOK'
  BY <1>9 DEF Reclaim
<1>10. ASSUME NEW c \in Calls, Retry(c) \/ Timeout(c) PROVE TypeOK'
  BY <1>10 DEF Retry, Timeout
<1>11. ASSUME NEW c \in Calls, ReleaseCheck(c) \/ ReleaseRename(c) PROVE TypeOK'
  BY <1>11 DEF ReleaseCheck, ReleaseRename
<1>12. CASE UNCHANGED vars
  BY <1>12 DEF vars
<1> QED
  BY <1>1, <1>2, <1>3, <1>4, <1>5, <1>6, <1>7, <1>8, <1>9, <1>10, <1>11, <1>12
     DEF Next, Step

\* The lease code never leaves its types: the first half of every other proof.
THEOREM LeaseTypes == Spec => []TypeOK
<1>1. Init => TypeOK
  BY DEF Init, TypeOK, PCs
<1> QED
  BY <1>1, TypeStep, PTL DEF Spec

\* Whatever fails, a running process that owner.json names holds the lease or is about to
\* undo it, unless the file system refused the removal: no call is kept out by the
\* liveness of a process that forgot its lease.
THEOREM LeaseForgetsNoOwner == Spec => []NoForgottenOwner
<1>1. Init => TypeOK /\ NoForgottenOwner
  BY DEF Init, TypeOK, PCs, NoForgottenOwner, Present
<1>2. ASSUME TypeOK, NoForgottenOwner, [Next]_vars PROVE NoForgottenOwner'
  <2>t. TypeOK'
    BY <1>2, TypeStep
  <2> USE <1>2, <2>t, LeaseConstants
      DEF TypeOK, NoForgottenOwner, Present, At, Goto, Holding, Finished, PCs, Directory,
          Owners
  <2>1. CASE Age
    BY <2>1 DEF Age
  <2>2. ASSUME NEW c \in Calls, Start(c) \/ Exit(c) \/ Retry(c) \/ Timeout(c)
        PROVE  NoForgottenOwner'
    BY <2>2 DEF Start, Exit, Retry, Timeout
  <2>3. ASSUME NEW c \in Calls, Mkdir(c) PROVE NoForgottenOwner'
    BY <2>3 DEF Mkdir, Made
  <2>4. ASSUME NEW c \in Calls, WriteOwner(c) PROVE NoForgottenOwner'
    <3>1. CASE UNCHANGED lock
      BY <2>4, <3>1 DEF WriteOwner
    <3>2. CASE lock' # lock
      <4>1. PICK o \in {NoOwner, Torn, c} :
              /\ lock' = [lock EXCEPT !.owner = o, !.age = "young"] /\ Present
              /\ pc' \in {[pc EXCEPT ![c] = "held"], [pc EXCEPT ![c] = "cleanup"]}
              /\ running' = running
        BY <2>4, <3>2 DEF WriteOwner
      <4>2. lock'.owner = o
        BY <4>1
      <4> QED
        BY <4>1, <4>2
    <3> QED
      BY <3>1, <3>2
  <2>5. ASSUME NEW c \in Calls, CleanUp(c) \/ Reclaim(c) PROVE NoForgottenOwner'
    BY <2>5 DEF CleanUp, Reclaim
  <2>6. ASSUME NEW c \in Calls, InspectOwner(c) \/ InspectMtime(c) PROVE NoForgottenOwner'
    BY <2>6 DEF InspectOwner, InspectMtime
  <2>7. ASSUME NEW c \in Calls, ReleaseCheck(c) \/ ReleaseRename(c) PROVE NoForgottenOwner'
    BY <2>7 DEF ReleaseCheck, ReleaseRename
  <2>8. CASE UNCHANGED vars
    BY <2>8 DEF vars
  <2> QED
    BY <2>1, <2>2, <2>3, <2>4, <2>5, <2>6, <2>7, <2>8 DEF Next, Step
<1> QED
  BY <1>1, <1>2, TypeStep, PTL DEF Spec
-----------------------------------------------------------------------------
\* One step of a call keeps the invariant when at most one process reclaims.
LEMMA InvStep == Cautious /\ IInv /\ [Next]_vars => IInv'
<1> SUFFICES ASSUME Cautious, IInv, [Next]_vars PROVE IInv'
  OBVIOUS
<1>t. TypeOK'
  BY TypeStep DEF IInv
<1> USE LeaseConstants, <1>t
    DEF IInv, TypeOK, HolderOwns, MakerKeeps, StaleIsDead, OwnerIsMaker,
        OldStaysOwnerless, Cautious, Present, At, Goto, Holding, Finished, PCs,
        Directory, Owners
<1>1. CASE Age
  BY <1>1 DEF Age, Quiescent
<1>2. ASSUME NEW c \in Calls, Start(c) PROVE IInv'
  BY <1>2 DEF Start
<1>3. ASSUME NEW c \in Calls, Exit(c) PROVE IInv'
  BY <1>3 DEF Exit
<1>4. ASSUME NEW c \in Calls, Mkdir(c) PROVE IInv'
  BY <1>4 DEF Mkdir, Made
<1>5. ASSUME NEW c \in Calls, WriteOwner(c) PROVE IInv'
  \* MakerKeeps: the directory of the path is still the one this call made.
  <2>1. Present /\ lock.owner = NoOwner /\ lock.maker = c /\ c \in running /\ pc[c] = "made"
    BY <1>5 DEF WriteOwner
  <2>2. PICK o \in {NoOwner, Torn, c} :
            /\ lock' = [lock EXCEPT !.owner = o, !.age = "young"]
            /\ running' = running
            /\ \/ o = c /\ pc' = [pc EXCEPT ![c] = "held"]
               \/ pc' = [pc EXCEPT ![c] = "cleanup"]
    BY <1>5, <2>1 DEF WriteOwner
  <2>3. lock' \in Directory /\ lock'.maker = c /\ lock'.owner = o /\ lock'.age = "young"
    BY <2>1, <2>2
  <2>4. ASSUME NEW d \in running, d # c
        PROVE  pc'[d] = pc[d] /\ pc[d] \notin Holding \cup {"made", "cleanup", "stale"}
    BY <2>1, <2>2, <2>4
  <2>5. lock' # NoLock
    BY <2>3
  <2>6. HolderOwns'
    <3> SUFFICES ASSUME NEW d \in running, pc'[d] \in Holding PROVE lock'.owner = d
      BY <2>2, <2>5
    <3>1. d = c
      BY <2>4
    <3> QED
      BY <2>1, <2>2, <2>3, <3>1
  <2>7. MakerKeeps'
    <3> SUFFICES ASSUME NEW d \in running, pc'[d] \in {"made", "cleanup"}
                 PROVE  d = c /\ pc'[d] # "made"
      BY <2>2, <2>3, <2>5
    <3>1. d = c
      BY <2>4
    <3> QED
      BY <2>1, <2>2, <3>1
  <2>8. StaleIsDead' /\ OwnerIsMaker' /\ OldStaysOwnerless'
    BY <2>1, <2>2, <2>3, <2>4
  <2> QED
    BY <2>6, <2>7, <2>8
<1>6. ASSUME NEW c \in Calls, CleanUp(c) PROVE IInv'
  BY <1>6 DEF CleanUp
<1>7. ASSUME NEW c \in Calls, InspectOwner(c) PROVE IInv'
  BY <1>7 DEF InspectOwner, OwnerStale
<1>8. ASSUME NEW c \in Calls, InspectMtime(c) PROVE IInv'
  BY <1>8 DEF InspectMtime
<1>9. ASSUME NEW c \in Calls, Reclaim(c) PROVE IInv'
  BY <1>9 DEF Reclaim
<1>10. ASSUME NEW c \in Calls, Retry(c) \/ Timeout(c) PROVE IInv'
  BY <1>10 DEF Retry, Timeout
<1>11. ASSUME NEW c \in Calls, ReleaseCheck(c) \/ ReleaseRename(c) PROVE IInv'
  BY <1>11 DEF ReleaseCheck, ReleaseRename
<1>12. CASE UNCHANGED vars
  BY <1>12 DEF vars
<1> QED
  BY <1>1, <1>2, <1>3, <1>4, <1>5, <1>6, <1>7, <1>8, <1>9, <1>10, <1>11, <1>12
     DEF Next, Step
-----------------------------------------------------------------------------
\* Under the same conditions, for any set of calls: two processes never hold
\* one lease at the same time.
THEOREM LeaseSerializes == Cautious => (Spec => []MutualExclusion)
<1> SUFFICES ASSUME Cautious PROVE Spec => []MutualExclusion
  OBVIOUS
<1>1. Init => IInv
  BY LeaseConstants
     DEF Init, IInv, TypeOK, HolderOwns, MakerKeeps, StaleIsDead, OwnerIsMaker,
         OldStaysOwnerless, Present, Holding, PCs
<1>2. IInv /\ [Next]_vars => IInv'
  BY InvStep
<1>3. IInv => MutualExclusion
  BY DEF IInv, HolderOwns, MutualExclusion, Holders, TypeOK
<1> QED
  BY <1>1, <1>2, <1>3, PTL DEF Spec

\* Under the same conditions, the lock directory of a running process is
\* removed by its own release or clean-up and by nothing else.
THEOREM LeaseKeepsLiveLocks == Cautious => (Spec => OnlyOwnLockRemoved)
<1> SUFFICES ASSUME Cautious PROVE Spec => OnlyOwnLockRemoved
  OBVIOUS
<1> DEFINE Kept ==
      Present /\ ~Present' =>
          \/ lock.maker \notin running
          \/ pc[lock.maker] = "checked" /\ pc'[lock.maker] \in {"released", "failed"}
          \/ pc[lock.maker] = "cleanup" /\ pc'[lock.maker] = "failed"
          \/ pc[lock.maker] = "failed" /\ {"rename", "rmtree"} \cap Faults # {}
<1>1. Init => IInv
  BY LeaseConstants
     DEF Init, IInv, TypeOK, HolderOwns, MakerKeeps, StaleIsDead, OwnerIsMaker,
         OldStaysOwnerless, Present, Holding, PCs
<1>2. IInv /\ [Next]_vars => IInv'
  BY InvStep
<1>3. IInv /\ [Next]_vars => [Kept]_vars
  <2> SUFFICES ASSUME IInv, Next, Present, ~Present' PROVE Kept
    BY DEF vars
  <2> USE LeaseConstants DEF IInv, TypeOK, Present, At, Goto, Holding, PCs, Directory
  <2>1. PICK c \in Calls : CleanUp(c) \/ Reclaim(c) \/ ReleaseRename(c)
    <3>1. ~Age
      BY DEF Age, Owners
    <3>2. ASSUME NEW c \in Calls PROVE ~Mkdir(c) /\ ~WriteOwner(c)
      <4>1. Made(c) # NoLock
        BY DEF Made, Owners
      <4>2. ASSUME NEW o \in Owners
            PROVE  [lock EXCEPT !.owner = o, !.age = "young"] # NoLock
        BY DEF Owners
      <4>3. ~Mkdir(c)
        BY <4>1 DEF Mkdir
      <4>4. ~WriteOwner(c)
        BY <4>2 DEF WriteOwner, Owners
      <4> QED
        BY <4>3, <4>4
    <3>3. ASSUME NEW c \in Calls
          PROVE  /\ ~Start(c) /\ ~Exit(c) /\ ~InspectOwner(c) /\ ~InspectMtime(c)
                 /\ ~Retry(c) /\ ~Timeout(c) /\ ~ReleaseCheck(c)
      BY DEF Start, Exit, InspectOwner, InspectMtime, Retry, Timeout, ReleaseCheck
    <3> QED
      BY <3>1, <3>2, <3>3 DEF Next, Step
  <2>2. CASE CleanUp(c)
    BY <2>2 DEF CleanUp, MakerKeeps
  <2>3. CASE Reclaim(c)
    BY <2>3 DEF Reclaim, StaleIsDead
  <2>4. CASE ReleaseRename(c)
    BY <2>4 DEF ReleaseRename, HolderOwns, OwnerIsMaker
  <2> QED
    BY <2>1, <2>2, <2>3, <2>4
<1> QED
  BY <1>1, <1>2, <1>3, PTL DEF Spec, OnlyOwnLockRemoved
=============================================================================
