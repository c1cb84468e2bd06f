---------------------------- MODULE SourceProofs ----------------------------
(***************************************************************************)
(* Theorems about Source, for any number of processes and snapshots, every *)
(* subset of the commands and every fault.  The store and the              *)
(* configuration are never changed together, so each promise rests on what *)
(* a command may still rely on between the step that checked it and the    *)
(* step that uses it.                                                      *)
(***************************************************************************)
EXTENDS Source, TLAPS

\* Whoever publishes has a candidate: with it the types are inductive.
HasCandidate ==
    \A p \in Procs : pc[p] \in {"tree", "point", "prune"} => plan[p].candidate \in Snapshots

\* What was read or written under the lease is still so: the tree about to be
\* pointed at is there, the current snapshot is the one that was read, and
\* the pointer is gone while the trees go.
Undisturbed ==
    \A p \in Procs :
        /\ pc[p] \in {"fetch", "tree", "point"} => plan[p].current = pointer
        /\ pc[p] = "point" => plan[p].candidate \in trees
        /\ pc[p] = "prune" => plan[p].candidate = pointer
        /\ pc[p] = "discard" => pointer = None

\* A candidate that changes the identity is the reviewed one.
CandidateAgreed ==
    \A p \in Procs : pc[p] \in {"tree", "point"} =>
        /\ plan[p].op = "resubscribe" =>
               plan[p].reviewed = <<plan[p].current, plan[p].candidate>>
        /\ plan[p].op # "resubscribe" =>
               plan[p].current = None \/ Ident[plan[p].current] = Ident[plan[p].candidate]

\* A removal on its way to the configuration has discarded the store, and
\* unless it was overtaken nothing has come back.
RemovalDiscarded ==
    \A p \in Procs : plan[p].op = "remove" =>
        /\ pc[p] # "reload" /\ (pc[p] = "release" => plan[p].next # "reload")
        /\ pc[p] = "release" /\ plan[p].next = "save" => pointer = None
        /\ pc[p] = "save" /\ p \notin overtaken => pointer = None

IInv ==
    /\ TypeOK
    /\ HasCandidate
    /\ PointerWhole
    /\ LeaseReturned
    /\ Undisturbed
    /\ CandidateAgreed
    /\ RemovalDiscarded

-----------------------------------------------------------------------------
\* A command's locals keep their types when one of them is set.
LEMMA PlanType ==
    ASSUME NEW q \in Plans
    PROVE  /\ Blank \in Plans
           /\ \A op \in AllOps, c \in Configs :
                  [Blank EXCEPT !.op = op, !.seen = c] \in Plans
           /\ \A l \in {"idle", "reload", "save", "acquire"} : [q EXCEPT !.next = l] \in Plans
           /\ \A s \in Snapshots \cup {None} :
                  [q EXCEPT !.current = s] \in Plans /\ [q EXCEPT !.candidate = s] \in Plans
           /\ \A s \in Snapshots \cup {None}, t \in Snapshots :
                  [q EXCEPT !.reviewed = <<s, t>>, !.next = "acquire"] \in Plans
<1> USE DEF Plans, Blank, Configs, AllOps, Unreviewed
<1>1. Blank \in Plans
  OBVIOUS
<1>2. \A op \in AllOps, c \in Configs : [Blank EXCEPT !.op = op, !.seen = c] \in Plans
  OBVIOUS
<1>3. \A l \in {"idle", "reload", "save", "acquire"} : [q EXCEPT !.next = l] \in Plans
  OBVIOUS
<1>4. \A s \in Snapshots \cup {None} :
          [q EXCEPT !.current = s] \in Plans /\ [q EXCEPT !.candidate = s] \in Plans
  OBVIOUS
<1>5. \A s \in Snapshots \cup {None}, t \in Snapshots :
          [q EXCEPT !.reviewed = <<s, t>>, !.next = "acquire"] \in Plans
  OBVIOUS
<1> QED
  BY <1>1, <1>2, <1>3, <1>4, <1>5

\* Where each process is, and its locals.
LocalOK == pc \in [Procs -> PCs] /\ plan \in [Procs -> Plans]

\* Returning, leaving the critical section and going on keep the local types.
LEMMA LocalStep ==
    ASSUME LocalOK, NEW p \in Procs
    PROVE  /\ Return(p) => LocalOK'
           /\ \A l \in {"idle", "reload", "save", "acquire"} : Leave(p, l) => LocalOK'
           /\ \A l \in PCs : Goto(p, l) /\ plan' \in [Procs -> Plans] => LocalOK'
<1>1. plan[p] \in Plans
  BY DEF LocalOK
<1>2. Return(p) => LocalOK'
  BY <1>1, PlanType DEF Return, Goto, LocalOK, PCs
<1>3. ASSUME NEW l \in {"idle", "reload", "save", "acquire"}, Leave(p, l) PROVE LocalOK'
  <2>1. [plan[p] EXCEPT !.next = l] \in Plans
    BY <1>1, PlanType
  <2> QED
    BY <1>3, <2>1 DEF Leave, Goto, LocalOK, PCs, Locked
<1>4. ASSUME NEW l \in PCs, Goto(p, l), plan' \in [Procs -> Plans] PROVE LocalOK'
  BY <1>4 DEF Goto, LocalOK
<1> QED
  BY <1>2, <1>3, <1>4

\* Every step of a command, of the origin and of other writers keeps the
\* types.
LEMMA TypeStep == TypeOK /\ HasCandidate /\ [Next]_vars => TypeOK' /\ HasCandidate'
<1> SUFFICES ASSUME TypeOK, HasCandidate, [Next]_vars PROVE TypeOK' /\ HasCandidate'
  OBVIOUS
<1> USE SourceConstants DEF TypeOK, HasCandidate, Fails, store
<1>l. LocalOK
  BY DEF LocalOK
<1>1. ASSUME NEW p \in Procs, NEW op \in AllOps, Load(p, op) PROVE TypeOK' /\ HasCandidate'
  <2>1. [Blank EXCEPT !.op = op, !.seen = config] \in Plans
    BY PlanType
  <2>2. plan' \in [Procs -> Plans]
    BY <1>1, <2>1 DEF Load
  <2>3. LocalOK'
    BY <1>1, <1>l, <2>2, LocalStep DEF Load, PCs
  <2> QED
    BY <1>1, <2>3 DEF Load, LocalOK, Goto
<1>2. ASSUME NEW p \in Procs, Run(p) PROVE TypeOK' /\ HasCandidate'
  <2>1. plan[p] \in Plans /\ plan[p].next \in {"idle", "reload", "save", "acquire"}
    BY DEF Plans
  <2>2. plan[p].candidate \in Snapshots \cup {None} /\ plan[p].current \in Snapshots \cup {None}
    BY DEF Plans
  <2>3. LocalOK'
    <3>1. CASE Acquire(p)
      BY <1>l, <3>1, LocalStep DEF Acquire, PCs, Locked
    <3>2. CASE ReadCurrent(p)
      <4>1. [plan[p] EXCEPT !.current = pointer] \in Plans
        BY <2>1, PlanType
      <4> QED
        BY <1>l, <3>2, <4>1, LocalStep DEF ReadCurrent, PCs, Locked
    <3>3. CASE Fetch(p)
      <4>1. [plan[p] EXCEPT !.candidate = upstream] \in Plans
        BY <2>1, PlanType
      <4>2. [plan[p] EXCEPT !.reviewed = Transition(p, upstream), !.next = "acquire"] \in Plans
        BY <2>1, <2>2, PlanType DEF Transition
      <4> QED
        BY <1>l, <3>3, <4>1, <4>2, LocalStep DEF Fetch, PCs, Locked
    <3>4. CASE PublishTree(p)
      BY <1>l, <3>4, LocalStep DEF PublishTree, PCs, Locked
    <3>5. CASE PublishPointer(p)
      BY <1>l, <3>5, LocalStep DEF PublishPointer, PCs, Locked
    <3>6. CASE Prune(p) \/ Unpoint(p) \/ Discard(p)
      BY <1>l, <3>6, LocalStep DEF Prune, Unpoint, Discard, PCs, Locked
    <3>7. CASE Release(p)
      BY <1>l, <2>1, <3>7, LocalStep DEF Release, PCs
    <3>8. CASE Reload(p) \/ Save(p)
      BY <1>l, <3>8, LocalStep DEF Reload, Save, PCs
    <3> QED
      BY <1>2, <3>1, <3>2, <3>3, <3>4, <3>5, <3>6, <3>7, <3>8 DEF Run
  <2>4. config' \in Configs
    <3>1. CASE Save(p)
      BY <3>1 DEF Save, Configs
    <3>2. CASE UNCHANGED config
      BY <3>2
    <3> QED
      BY <1>2, <3>1, <3>2 DEF Run, Acquire, ReadCurrent, Fetch, PublishTree, PublishPointer,
         Prune, Unpoint, Discard, Release, Reload
  <2>5. TypeOK'
    BY <1>2, <2>2, <2>3, <2>4
       DEF Run, Acquire, ReadCurrent, Fetch, PublishTree, PublishPointer, Prune, Unpoint,
       Discard, Release, Reload, Save, LocalOK
  <2>6. \A q \in Procs \ {p} : pc'[q] = pc[q] /\ plan'[q] = plan[q]
    BY <1>2 DEF Run, Acquire, ReadCurrent, Fetch, PublishTree, PublishPointer, Prune, Unpoint,
       Discard, Release, Reload, Save, Return, Leave, Goto
  <2>7. pc'[p] \in {"tree", "point", "prune"} => plan'[p].candidate \in Snapshots
    BY <1>2, <2>1 DEF Run, Acquire, ReadCurrent, Fetch, PublishTree, PublishPointer, Prune,
       Unpoint, Discard, Release, Reload, Save, Return, Leave, Goto, Plans
  <2> QED
    BY <2>5, <2>6, <2>7
<1>3. ASSUME NEW p \in Procs, Crash(p) PROVE TypeOK' /\ HasCandidate'
  <2>1. LocalOK'
    BY <1>l, <1>3, LocalStep DEF Crash
  <2> QED
    BY <1>3, <2>1 DEF Crash, LocalOK, Return, Goto
<1>4. CASE MoveUpstream \/ OtherWrite
  BY <1>4 DEF MoveUpstream, OtherWrite, Configs
<1>5. CASE UNCHANGED vars
  BY <1>5 DEF vars
<1> QED
  BY <1>1, <1>2, <1>3, <1>4, <1>5 DEF Next

-----------------------------------------------------------------------------
\* Every other process's place and locals stay.
OthersStay(p) == \A q \in Procs \ {p} : pc'[q] = pc[q] /\ plan'[q] = plan[q]

\* Where leaving, returning and going on take a process, and with which locals.
LEMMA LocalEffect ==
    ASSUME LocalOK, NEW p \in Procs
    PROVE  /\ Return(p) => pc'[p] = "idle" /\ plan'[p] = Blank /\ OthersStay(p)
           /\ \A l : Leave(p, l) => /\ pc'[p] = "release" /\ OthersStay(p)
                                    /\ plan'[p].op = plan[p].op /\ plan'[p].next = l
           /\ \A l : Goto(p, l) /\ UNCHANGED plan =>
                         pc'[p] = l /\ plan'[p] = plan[p] /\ OthersStay(p)
<1> USE DEF LocalOK, Goto, OthersStay
<1>1. Return(p) => pc'[p] = "idle" /\ plan'[p] = Blank /\ OthersStay(p)
  BY DEF Return
<1>2. ASSUME NEW l, Leave(p, l)
      PROVE  /\ pc'[p] = "release" /\ OthersStay(p)
             /\ plan'[p].op = plan[p].op /\ plan'[p].next = l
  <2>1. plan'[p] = [plan[p] EXCEPT !.next = l]
    BY <1>2 DEF Leave
  <2> QED
    BY <1>2, <2>1 DEF Leave, Plans
<1>3. \A l : Goto(p, l) /\ UNCHANGED plan =>
                 pc'[p] = l /\ plan'[p] = plan[p] /\ OthersStay(p)
  OBVIOUS
<1> QED
  BY <1>1, <1>2, <1>3

\* What one process does under the lease, no other disturbs, and every step
\* keeps what the commands rely on.
LEMMA InvStep == IInv /\ [Next]_vars => IInv'
<1> SUFFICES ASSUME IInv, [Next]_vars PROVE IInv'
  OBVIOUS
<1>t. TypeOK' /\ HasCandidate'
  BY TypeStep DEF IInv
<1>l. LocalOK
  BY DEF IInv, TypeOK, LocalOK
<1> USE SourceConstants, <1>t
    DEF IInv, PointerWhole, LeaseReturned, Undisturbed, CandidateAgreed, RemovalDiscarded,
        OthersStay, Fails, Locked, store
<1>1. ASSUME NEW p \in Procs, NEW op \in AllOps, Load(p, op) PROVE IInv'
  BY <1>1 DEF Load, Blank, TypeOK, Goto
<1>2. ASSUME NEW p \in Procs, Run(p) PROVE IInv'
  <2>1. CASE Acquire(p)
    BY <1>l, <2>1, LocalEffect DEF Acquire, Blank
  <2>2. CASE ReadCurrent(p)
    <3>1. CASE Leave(p, "idle")
      BY <1>l, <2>2, <3>1, LocalEffect DEF ReadCurrent
    <3>2. CASE Goto(p, "fetch") /\ plan' = [plan EXCEPT ![p].current = pointer]
      <4>1. /\ pc'[p] = "fetch" /\ plan'[p].current = pointer /\ plan'[p].op = plan[p].op
            /\ OthersStay(p)
        BY <1>l, <3>2 DEF LocalOK, Goto, Plans
      <4> QED
        BY <2>2, <4>1 DEF ReadCurrent
    <3> QED
      BY <2>2, <3>1, <3>2 DEF ReadCurrent
  <2>3. CASE Fetch(p)
    <3>1. CASE Leave(p, "idle")
      BY <1>l, <2>3, <3>1, LocalEffect DEF Fetch
    <3>2. CASE /\ Goto(p, "release") /\ Reviewing(p)
               /\ \/ plan' = [plan EXCEPT ![p] = [@ EXCEPT !.reviewed = Transition(p, upstream),
                                                           !.next = "acquire"]]
                  \/ UNCHANGED plan
      <4>1. plan'[p] \in {plan[p], [plan[p] EXCEPT !.reviewed = Transition(p, upstream),
                                                   !.next = "acquire"]}
        BY <1>l, <3>2 DEF LocalOK
      <4>2. plan'[p].op = "resubscribe"
        BY <1>l, <3>2, <4>1 DEF LocalOK, Reviewing, Plans
      <4>3. pc'[p] = "release" /\ OthersStay(p)
        BY <1>l, <3>2 DEF LocalOK, Goto
      <4> QED
        BY <2>3, <4>2, <4>3 DEF Fetch
    <3>3. CASE /\ Goto(p, "tree") /\ Agreed(p, upstream) /\ ~Reviewing(p)
               /\ plan' = [plan EXCEPT ![p].candidate = upstream]
      <4>1. /\ pc'[p] = "tree" /\ plan'[p].candidate = upstream /\ OthersStay(p)
            /\ plan'[p].current = plan[p].current /\ plan'[p].op = plan[p].op
            /\ plan'[p].reviewed = plan[p].reviewed
        BY <1>l, <3>3 DEF LocalOK, Goto, Plans
      <4>2. /\ plan[p].op = "resubscribe" => plan[p].reviewed = <<plan[p].current, upstream>>
            /\ plan[p].op # "resubscribe" =>
                   plan[p].current = None \/ Ident[plan[p].current] = Ident[upstream]
        BY <3>3 DEF Agreed, Reviewing, Transition
      <4> QED
        BY <2>3, <4>1, <4>2 DEF Fetch
    <3> QED
      BY <2>3, <3>1, <3>2, <3>3 DEF Fetch
  <2>4. CASE PublishTree(p)
    BY <1>l, <2>4, LocalEffect DEF PublishTree
  <2>5. CASE PublishPointer(p)
    BY <1>l, <2>5, LocalEffect DEF PublishPointer
  <2>6. CASE Prune(p)
    BY <1>l, <2>6, LocalEffect DEF Prune
  <2>7. CASE Unpoint(p)
    BY <1>l, <2>7, LocalEffect DEF Unpoint
  <2>8. CASE Discard(p)
    BY <1>l, <2>8, LocalEffect DEF Discard
  <2>9. CASE Release(p)
    <3>1. plan[p].next \in {"idle", "reload", "save", "acquire"}
      BY <1>l DEF LocalOK, Plans
    <3> QED
      BY <1>l, <2>9, <3>1, LocalEffect DEF Release, Blank
  <2>10. CASE Reload(p)
    BY <1>l, <2>10, LocalEffect DEF Reload, Blank
  <2>11. CASE Save(p)
    BY <1>l, <2>11, LocalEffect DEF Save, Blank
  <2> QED
    BY <1>2, <2>1, <2>2, <2>3, <2>4, <2>5, <2>6, <2>7, <2>8, <2>9, <2>10, <2>11 DEF Run
<1>3. ASSUME NEW p \in Procs, Crash(p) PROVE IInv'
  BY <1>l, <1>3, LocalEffect DEF Crash, Blank
<1>4. CASE MoveUpstream \/ OtherWrite
  BY <1>4 DEF MoveUpstream, OtherWrite
<1>5. CASE UNCHANGED vars
  BY <1>5 DEF vars
<1> QED
  BY <1>1, <1>2, <1>3, <1>4, <1>5 DEF Next

\* An empty store under a free lease satisfies the invariant.
LEMMA InvInit == Init => IInv
<1> SUFFICES ASSUME Init PROVE IInv
  OBVIOUS
<1>1. Blank \in Plans
  BY DEF Blank, Plans, AllOps, Configs, Unreviewed
<1>2. TypeOK
  BY <1>1 DEF Init, TypeOK, Configs, PCs
<1> QED
  BY <1>2, SourceConstants DEF Init, IInv, HasCandidate, PointerWhole, LeaseReturned,
     Undisturbed, CandidateAgreed, RemovalDiscarded, Locked, Blank

-----------------------------------------------------------------------------
\* Whatever is published, pruned or discarded, and wherever a process stops,
\* the current pointer names a whole published tree.
THEOREM SourcePointerWhole == Spec => []PointerWhole
<1>1. IInv => PointerWhole
  BY DEF IInv
<1> QED
  BY InvInit, InvStep, <1>1, PTL DEF Spec

\* The lease is given back on every path out of the critical section.
THEOREM SourceReturnsLease == Spec => []LeaseReturned
<1>1. IInv => LeaseReturned
  BY DEF IInv
<1> QED
  BY InvInit, InvStep, <1>1, PTL DEF Spec

\* An origin's identity is never rebound to one that was not reviewed.
THEOREM SourceIdentityReviewed == Spec => IdentityReviewed
<1> DEFINE Reviewed ==
        pointer # None /\ pointer' # None /\ Ident[pointer] # Ident[pointer'] =>
            \E p \in Procs : /\ plan[p].op = "resubscribe" /\ pc[p] = "point"
                             /\ plan[p].reviewed = <<pointer, pointer'>>
<1>1. IInv /\ [Next]_vars => [Reviewed]_vars
  <2> SUFFICES ASSUME IInv, Next, pointer' # pointer, pointer' # None, pointer # None,
                      Ident[pointer] # Ident[pointer']
               PROVE  \E p \in Procs : /\ plan[p].op = "resubscribe" /\ pc[p] = "point"
                                       /\ plan[p].reviewed = <<pointer, pointer'>>
    BY DEF vars, store
  <2>1. PICK p \in Procs : PublishPointer(p)
    BY DEF Next, Run, Load, Acquire, ReadCurrent, Fetch, PublishTree, Prune, Unpoint, Discard,
       Release, Reload, Save, Crash, MoveUpstream, OtherWrite, store
  <2>2. pc[p] = "point" /\ pointer' = plan[p].candidate
    BY <2>1 DEF PublishPointer
  <2>3. pointer = plan[p].current
    BY <2>2 DEF IInv, Undisturbed
  <2> WITNESS p \in Procs
  <2> QED
    BY <2>2, <2>3 DEF IInv, CandidateAgreed
<1> QED
  BY InvInit, InvStep, <1>1, PTL DEF Spec, IdentityReviewed

\* A removal that no publication overtook unsubscribes an origin whose store
\* is discarded, whatever failed on the way.
THEOREM SourceRemovalComplete == Spec => RemovalComplete
<1> DEFINE Complete == \A p \in Procs \ overtaken : Unsubscribes(p) => pointer = None
<1>1. IInv /\ [Next]_vars => [Complete]_vars
  BY DEF IInv, RemovalDiscarded, Unsubscribes
<1> QED
  BY InvInit, InvStep, <1>1, PTL DEF Spec, RemovalComplete
=============================================================================
