---------------------------- MODULE ObjectsProofs ----------------------------
(***************************************************************************)
(* What is offered and what is kept of it.  The object store never shows a *)
(* partial tree, with any number of publishers, collectors, rounds and     *)
(* failing calls, and keeps what it has acknowledged.  The parts after it  *)
(* take the decisions about the artifacts in it: Compiling, Recipes and    *)
(* Screening.                                                              *)
(***************************************************************************)
EXTENDS Objects, Compiling, Recipes, Screening, FiniteSetTheorems, WellFoundedInduction, TLAPS

\* What a publisher keeps in the quarantine it may put back as it is, so it must be as
\* good as what was in the directory.  A collector's tombstone may be half removed: it
\* is read again before it comes back.
HeldWhole == \A p \in Publishers : held[p] \in {"none", "good"}

\* NeverHalf is not inductive by itself: give-backs restore what was held.
IInv ==
    /\ held \in [Procs -> Trees] /\ tree \in Trees
    /\ rotten \/ (tree \in {"none", "good"} /\ HeldWhole)

\* A publication puts in the directory its own candidate, or what was there before.
LEMMA PublishWhole ==
    ASSUME IInv, ~rotten, NEW p \in Publishers, Publish(p)
    PROVE  tree' \in {"none", "good"} /\ HeldWhole'
<1> USE DEF IInv, HeldWhole, Procs, Trees, Step, Leave, Holds, Untouched
<1>1. CASE WriteCandidate(p)
  BY <1>1 DEF WriteCandidate
<1>2. CASE Place(p)
  BY <1>2 DEF Place
<1>3. CASE Freeze(p)
  BY <1>3 DEF Freeze
<1>4. CASE Look(p)
  BY <1>4 DEF Look
<1>5. CASE ReadExisting(p)
  BY <1>5 DEF ReadExisting, Acknowledge
<1>6. CASE Unlock(p)
  BY <1>6 DEF Unlock, Again, GiveUp
<1>7. CASE Quarantine(p)
  BY <1>7 DEF Quarantine, Again, GiveUp
<1>8. CASE Replace(p)
  BY <1>8 DEF Replace
<1>9. CASE Seal(p)
  BY <1>9 DEF Seal
<1>10. CASE GiveBack(p)
  BY <1>10 DEF GiveBack
<1>11. CASE StoredReceipt(p)
  BY <1>11 DEF StoredReceipt, Acknowledge
<1> QED
  BY <1>1, <1>2, <1>3, <1>4, <1>5, <1>6, <1>7, <1>8, <1>9, <1>10, <1>11 DEF Publish

\* A deletion changes no publisher's quarantine, and puts back only a whole tombstone.
LEMMA DeleteWhole ==
    ASSUME IInv, ~rotten, NEW p \in Collectors, Delete(p)
    PROVE  tree' \in {"none", "good"} /\ HeldWhole'
<1> USE ObjectsAssumption DEF IInv, HeldWhole, Procs, Trees, Step, Holds, Untouched
<1>1. CASE StartDelete(p)
  BY <1>1 DEF StartDelete
<1>2. CASE Bury(p)
  BY <1>2 DEF Bury
<1>3. CASE Raze(p)
  BY <1>3 DEF Raze
<1>4. CASE RestoreTombstone(p)
  BY <1>4 DEF RestoreTombstone
<1> QED
  BY <1>1, <1>2, <1>3, <1>4 DEF Delete

\* Whatever is in the directory and in a quarantine is a tree, damaged or not, and
\* damage does not come or go by a step of the store.
LEMMA TreesKept ==
    ASSUME IInv, [Next]_vars
    PROVE  held' \in [Procs -> Trees] /\ tree' \in Trees /\ rotten' = rotten
<1> USE DEF IInv, Procs, Trees, Step, Leave, Holds, Untouched
<1>1. ASSUME NEW p \in Publishers, Publish(p) PROVE held' \in [Procs -> Trees] /\ tree' \in Trees /\ rotten' = rotten
  <2>1. CASE WriteCandidate(p) \/ Place(p) \/ Freeze(p) \/ Look(p)
    BY <2>1 DEF WriteCandidate, Place, Freeze, Look
  <2>2. CASE ReadExisting(p) \/ StoredReceipt(p)
    BY <2>2 DEF ReadExisting, StoredReceipt, Acknowledge
  <2>3. CASE Unlock(p)
    BY <2>3 DEF Unlock, Again, GiveUp
  <2>4. CASE Quarantine(p)
    BY <2>4 DEF Quarantine, Again, GiveUp
  <2>5. CASE Replace(p) \/ Seal(p)
    BY <2>5 DEF Replace, Seal
  <2>6. CASE GiveBack(p)
    BY <2>6 DEF GiveBack
  <2> QED
    BY <1>1, <2>1, <2>2, <2>3, <2>4, <2>5, <2>6 DEF Publish
<1>2. ASSUME NEW p \in Collectors, Delete(p) PROVE held' \in [Procs -> Trees] /\ tree' \in Trees /\ rotten' = rotten
  <2>1. CASE StartDelete(p) \/ Bury(p)
    BY <2>1 DEF StartDelete, Bury
  <2>2. CASE Raze(p) \/ RestoreTombstone(p)
    BY <2>2 DEF Raze, RestoreTombstone
  <2> QED
    BY <1>2, <2>1, <2>2 DEF Delete
<1>3. ASSUME NEW p \in Procs, Crash(p) PROVE held' \in [Procs -> Trees] /\ tree' \in Trees /\ rotten' = rotten
  BY <1>3 DEF Crash
<1>4. CASE UNCHANGED vars
  BY <1>4 DEF vars
<1> QED
  BY <1>1, <1>2, <1>3, <1>4 DEF Next

\* At first nothing is published or held.
LEMMA InitInv == Init => IInv
BY ObjectsAssumption DEF Init, IInv, HeldWhole, Procs, Trees

\* Every step of the store keeps the invariant.
LEMMA NextInv == IInv /\ [Next]_vars => IInv'
<1> SUFFICES ASSUME IInv, [Next]_vars PROVE IInv'
  OBVIOUS
<1>1. held' \in [Procs -> Trees] /\ tree' \in Trees /\ rotten' = rotten
  BY TreesKept
<1>2. ASSUME ~rotten PROVE tree' \in {"none", "good"} /\ HeldWhole'
  <2>1. CASE \E p \in Publishers : Publish(p)
    BY <1>2, <2>1, PublishWhole
  <2>2. CASE \E p \in Collectors : Delete(p)
    BY <1>2, <2>2, DeleteWhole
  <2>3. CASE \E p \in Procs : Crash(p)
    BY <1>2, <2>3 DEF Crash, IInv, HeldWhole
  <2>4. CASE UNCHANGED vars
    BY <1>2, <2>4 DEF vars, IInv, HeldWhole
  <2> QED
    BY <2>1, <2>2, <2>3, <2>4 DEF Next
<1> QED
  BY <1>1, <1>2 DEF IInv

\* No publication, deletion, failure or crash shows a partial tree under an object's
\* digest where there was none before (io/object_store.py, _restore_gc_tombstone).
THEOREM ObjectsNeverHalf == Spec => []NeverHalf
<1>1. IInv => NeverHalf
  BY DEF IInv, NeverHalf, HeldWhole
<1> QED
  BY <1>1, InitInv, NextInv, PTL DEF Spec

-----------------------------------------------------------------------------
(* What was acknowledged.  With three publishers at a damaged object one     *)
(* can give the damaged tree back where another has just taken the repaired  *)
(* one away, so there are two, or the object was not damaged.                *)

Few == \A p, q, r \in Publishers : p = q \/ q = r \/ p = r

\* A publisher between its quarantine and its end holds what it moved away.
Moving == {"replace", "seal", "giveback"}

Labels ==
    {"start", "place", "freeze", "look", "read", "unlock", "move", "verify", "bury", "raze",
     "revive"} \cup Moving \cup Returned

\* A holder of the good tree that will give it back or has replaced it.
Safekept == \E h \in Publishers : pc[h] \in Moving /\ held[h] = "good"

\* RepairConverges is about the end: on the way the acknowledged tree is in its
\* place, or the place is free and a publisher that is not through holds it.
Secured ==
    /\ pc \in [Procs -> Labels] /\ owed \in BOOLEAN
    /\ \A p \in Publishers : pc[p] \in Moving => held[p] # "none"
    /\ owed => tree = "good" \/ (tree = "none" /\ Safekept)
    /\ owed => \E a \in Publishers : pc[a] = "ok"

\* What a step of p has to keep for the first and the last part.
LEMMA SecuredStep ==
    ASSUME Secured, held \in [Procs -> Trees], NEW p \in Procs, NEW to \in Labels,
           pc[p] \notin Returned, pc' = [pc EXCEPT ![p] = to],
           \A q \in Publishers : q # p => held'[q] = held[q],
           p \in Publishers /\ to \in Moving => held'[p] # "none",
           owed' \in BOOLEAN,
           owed' => owed \/ (p \in Publishers /\ to = "ok"),
           owed' => tree' = "good" \/ (tree' = "none" /\ Safekept')
    PROVE  Secured'
<1>1. pc' \in [Procs -> Labels] /\ pc'[p] = to /\ \A q \in Procs : q # p => pc'[q] = pc[q]
  BY DEF Secured
<1>2. \A q \in Publishers : pc'[q] \in Moving => held'[q] # "none"
  BY <1>1 DEF Secured, Procs
<1>3. owed' => \E a \in Publishers : pc'[a] = "ok"
  BY <1>1 DEF Secured, Procs, Returned
<1> QED
  BY <1>1, <1>2, <1>3 DEF Secured

\* A publisher that finds the place free while another holds the acknowledged tree is
\* that other, or puts a good tree there.
LEMMA PublishSecured ==
    ASSUME IInv, Secured, Few \/ ~rotten, NEW p \in Publishers, Publish(p)
    PROVE  Secured'
<1> USE DEF Step, Leave, Holds, Untouched
<1>0. /\ p \in Procs /\ held \in [Procs -> Trees] /\ pc \in [Procs -> Labels] /\ owed \in BOOLEAN
      /\ Moving \cap Returned = {} /\ Moving \subseteq Labels /\ Returned \subseteq Labels
  BY DEF IInv, Secured, Procs, Moving, Returned, Labels
<1>1. ASSUME owed, tree = "none", pc[p] \notin Moving, pc[p] # "ok", Few PROVE FALSE
  <2>1. PICK h \in Publishers : pc[h] \in Moving
    BY <1>1 DEF Secured, Safekept
  <2>2. PICK a \in Publishers : pc[a] = "ok"
    BY <1>1 DEF Secured
  <2> QED
    BY <1>0, <1>1, <2>1, <2>2 DEF Few, Returned
<1>a. ASSUME NEW to \in Labels, to \notin Moving, pc[p] \notin Moving, pc[p] \notin Returned,
             pc' = [pc EXCEPT ![p] = to], UNCHANGED <<tree, held>>,
             owed' = owed \/ (owed' = TRUE /\ to = "ok" /\ tree = "good")
      PROVE  Secured'
  <2>1. owed' \in BOOLEAN
    BY <1>0, <1>a
  <2>2. Safekept => Safekept'
    BY <1>0, <1>a DEF Safekept, Procs
  <2>3. owed' => tree' = "good" \/ (tree' = "none" /\ Safekept')
    BY <1>a, <2>2 DEF Secured
  <2>4. owed' => owed \/ to = "ok"
    BY <1>a
  <2> QED
    BY <1>0, <1>a, <2>1, <2>3, <2>4, SecuredStep DEF IInv
<1>b. ASSUME NEW to \in Labels, pc[p] \notin Returned, pc' = [pc EXCEPT ![p] = to],
             \A q \in Publishers : q # p => held'[q] = held[q],
             to \in Moving => held'[p] # "none", owed' = owed, owed => tree' = "good"
      PROVE  Secured'
  BY <1>0, <1>b, SecuredStep DEF IInv
<1>2. CASE WriteCandidate(p)
  BY <1>2, <1>a DEF WriteCandidate, Labels, Moving, Returned
<1>3. CASE Place(p)
  <2>1. CASE /\ pc[p] = "place" /\ pc' = [pc EXCEPT ![p] = "freeze"]
             /\ tree' = "good" /\ UNCHANGED <<owed, held>>
    BY <1>b, <2>1 DEF Labels, Moving, Returned
  <2> QED
    BY <1>3, <1>a, <2>1 DEF Place, Labels, Moving, Returned
<1>4. CASE Freeze(p)
  BY <1>4, <1>a DEF Freeze, Labels, Moving, Returned
<1>5. CASE Look(p)
  BY <1>5, <1>a DEF Look, Labels, Moving, Returned
<1>6. CASE ReadExisting(p)
  BY <1>6, <1>a DEF ReadExisting, Acknowledge, Labels, Moving, Returned
<1>7. CASE Unlock(p)
  BY <1>7, <1>a DEF Unlock, Again, GiveUp, Labels, Moving, Returned
<1>8. CASE Quarantine(p)
  <2>1. CASE /\ tree # "none" /\ pc[p] = "move" /\ pc' = [pc EXCEPT ![p] = "replace"]
             /\ held' = [held EXCEPT ![p] = tree] /\ tree' = "none" /\ UNCHANGED owed
    <3>1. pc'[p] = "replace" /\ held'[p] = tree /\ "replace" \in Labels /\ "replace" \in Moving
      BY <1>0, <2>1 DEF Labels, Moving
    <3>2. owed' => Safekept'
      BY <2>1, <3>1 DEF Secured, Safekept
    <3>3. pc[p] \notin Returned /\ held'[p] # "none" /\ owed' \in BOOLEAN /\ (owed' => owed)
      BY <1>0, <2>1, <3>1 DEF Returned
    <3>4. \A q \in Publishers : q # p => held'[q] = held[q]
      BY <1>0, <2>1 DEF Procs
    <3> QED
      BY <1>0, <2>1, <3>1, <3>2, <3>3, <3>4, SecuredStep
  <2> QED
    BY <1>8, <1>a, <2>1 DEF Quarantine, Again, GiveUp, Labels, Moving, Returned
<1>c. ASSUME NEW to \in Labels, pc[p] \in Moving, pc' = [pc EXCEPT ![p] = to],
             to \in Moving, UNCHANGED <<tree, held, owed>>
      PROVE  Secured'
  <2>1. Safekept => Safekept'
    BY <1>0, <1>c DEF Safekept, Procs
  <2>2. owed' => tree' = "good" \/ (tree' = "none" /\ Safekept')
    BY <1>c, <2>1 DEF Secured
  <2>3. pc[p] \notin Returned /\ held[p] # "none"
    BY <1>0, <1>c DEF Secured
  <2> QED
    BY <1>0, <1>c, <2>2, <2>3, SecuredStep DEF IInv
<1>d. ASSUME NEW to \in Labels, pc[p] \in Moving, to \notin Moving, pc' = [pc EXCEPT ![p] = to],
             \A q \in Publishers : q # p => held'[q] = held[q], UNCHANGED tree,
             owed' \in BOOLEAN, owed' => owed /\ tree # "none"
      PROVE  Secured'
  <2>1. owed' => tree' = "good"
    BY <1>d DEF Secured
  <2> QED
    BY <1>0, <1>d, <2>1, SecuredStep DEF IInv
<1>9. CASE Replace(p)
  <2>1. CASE /\ pc[p] = "replace" /\ pc' = [pc EXCEPT ![p] = "seal"]
             /\ tree' = "good" /\ UNCHANGED <<owed, held>>
    BY <1>b, <2>1 DEF Labels, Moving, Returned, Secured
  <2>2. CASE /\ pc[p] = "replace" /\ pc' = [pc EXCEPT ![p] = "giveback"]
             /\ UNCHANGED <<tree, owed, held>>
    BY <1>c, <2>2 DEF Labels, Moving
  <2>3. CASE /\ pc[p] = "replace" /\ pc' = [pc EXCEPT ![p] = "raised"]
             /\ owed' = (owed /\ tree # "none") /\ UNCHANGED <<tree, held>>
    BY <1>d, <2>3 DEF Labels, Moving, Returned
  <2> QED
    BY <1>9, <2>1, <2>2, <2>3 DEF Replace
<1>10. CASE Seal(p)
  <2>1. CASE /\ tree # "none" /\ pc[p] = "seal" /\ pc' = [pc EXCEPT ![p] = "verify"]
             /\ held' = [held EXCEPT ![p] = "none"] /\ UNCHANGED <<tree, owed>>
    BY <1>0, <1>d, <2>1 DEF Labels, Moving, Procs
  <2>2. CASE /\ pc[p] = "seal" /\ pc' = [pc EXCEPT ![p] = "giveback"]
             /\ UNCHANGED <<tree, owed, held>>
    BY <1>c, <2>2 DEF Labels, Moving
  <2> QED
    BY <1>10, <2>1, <2>2 DEF Seal
<1>11. CASE GiveBack(p)
  <2>1. CASE tree = "none" /\ tree' = held[p] /\ held' = [held EXCEPT ![p] = "none"] /\ UNCHANGED owed
    <3>1. pc[p] = "giveback" /\ pc' = [pc EXCEPT ![p] = "error"] /\ held[p] # "none"
      BY <1>11 DEF GiveBack, Secured, Moving
    <3>2. owed => held[p] = "good"
      <4>1. CASE ~rotten
        BY <3>1, <4>1 DEF IInv, HeldWhole
      <4>2. CASE Few /\ owed
        <5>1. PICK h \in Publishers : pc[h] \in Moving /\ held[h] = "good"
          BY <2>1, <4>2 DEF Secured, Safekept
        <5>2. PICK a \in Publishers : pc[a] = "ok"
          BY <4>2 DEF Secured
        <5> QED
          BY <3>1, <4>2, <5>1, <5>2 DEF Few, Moving
      <4> QED
        BY <4>1, <4>2
    <3> QED
      BY <1>0, <1>b, <2>1, <3>1, <3>2 DEF Labels, Moving, Returned, Procs
  <2>2. CASE owed' = FALSE /\ UNCHANGED <<tree, held>>
    BY <1>11, <1>d, <2>2 DEF GiveBack, Labels, Moving, Returned
  <2>3. CASE tree # "none" /\ UNCHANGED <<tree, held, owed>>
    BY <1>0, <1>11, <1>d, <2>3 DEF GiveBack, Labels, Moving, Returned
  <2> QED
    BY <1>11, <2>1, <2>2, <2>3 DEF GiveBack
<1>12. CASE StoredReceipt(p)
  BY <1>12, <1>a DEF StoredReceipt, Acknowledge, Labels, Moving, Returned
<1> QED
  BY <1>2, <1>3, <1>4, <1>5, <1>6, <1>7, <1>8, <1>9, <1>10, <1>11, <1>12 DEF Publish

\* A deletion takes the object for good, or puts a good one back.
LEMMA DeleteSecured ==
    ASSUME IInv, Secured, NEW p \in Collectors, Delete(p)
    PROVE  Secured'
<1> USE DEF Step, Holds, Untouched
<1>0. /\ p \in Procs /\ p \notin Publishers /\ held \in [Procs -> Trees]
      /\ pc \in [Procs -> Labels] /\ owed \in BOOLEAN
  BY ObjectsAssumption DEF IInv, Secured, Procs
<1>1. ASSUME NEW to \in Labels, pc[p] \notin Returned, pc' = [pc EXCEPT ![p] = to],
             \A q \in Publishers : held'[q] = held[q],
             \/ owed' = FALSE
             \/ owed' = owed /\ (tree' = tree \/ tree' = "good")
      PROVE  Secured'
  <2>1. Safekept => Safekept'
    BY <1>0, <1>1 DEF Safekept, Procs
  <2>2. owed' => tree' = "good" \/ (tree' = "none" /\ Safekept')
    BY <1>1, <2>1 DEF Secured
  <2>3. owed' \in BOOLEAN /\ (owed' => owed)
    <3>1. CASE owed' = FALSE
      BY <3>1
    <3>2. CASE owed' = owed
      BY <1>0, <3>2
    <3> QED
      BY <1>1, <3>1, <3>2
  <2> QED
    BY <1>0, <1>1, <2>2, <2>3, SecuredStep
<1>2. CASE StartDelete(p)
  BY <1>1, <1>2 DEF StartDelete, Labels, Returned
<1>3. CASE Bury(p)
  BY <1>0, <1>1, <1>3 DEF Bury, Labels, Returned, Procs
<1>4. CASE Raze(p)
  BY <1>0, <1>1, <1>4 DEF Raze, Labels, Returned, Procs
<1>5. CASE RestoreTombstone(p)
  BY <1>0, <1>1, <1>5 DEF RestoreTombstone, Labels, Returned, Procs
<1> QED
  BY <1>2, <1>3, <1>4, <1>5 DEF Delete

\* A process that ends with the only good tree in the quarantine is owned up to.
LEMMA CrashSecured ==
    ASSUME IInv, Secured, NEW p \in Procs, Crash(p)
    PROVE  Secured'
<1>0. /\ pc[p] \notin Returned /\ pc' = [pc EXCEPT ![p] = "dead"] /\ UNCHANGED <<tree, held>>
      /\ owed' = (owed /\ (tree # "none" \/ held[p] = "none"))
      /\ held \in [Procs -> Trees] /\ "dead" \in Labels /\ "dead" \notin Moving /\ pc \in [Procs -> Labels]
  BY DEF Crash, IInv, Labels, Returned, Moving, Secured
<1>1. owed' \in BOOLEAN /\ (owed' => owed)
  BY <1>0 DEF Secured
<1>2. owed' => tree' = "good" \/ (tree' = "none" /\ Safekept')
  <2>1. CASE owed' /\ tree = "none"
    <3>1. PICK h \in Publishers : pc[h] \in Moving /\ held[h] = "good"
      BY <1>1, <2>1 DEF Secured, Safekept
    <3>2. h # p
      BY <1>0, <2>1, <3>1
    <3> QED
      BY <1>0, <2>1, <3>1, <3>2 DEF Safekept, Procs
  <2> QED
    BY <1>0, <1>1, <2>1 DEF Secured
<1> QED
  BY <1>0, <1>1, <1>2, SecuredStep DEF Moving

\* RepairConverges: publishers that repair one object at the same time move one another's
\* repairs aside, and yet an acknowledged object is whole when all have returned, whichever
\* calls fail and whoever deletes meanwhile.  For any number of publishers of an object
\* that was not damaged, and for two at one that was.
THEOREM ObjectsRepairConverges ==
    Few \/ Damage \subseteq {"none", "good"} => (Spec => []RepairConverges)
<1> SUFFICES ASSUME Few \/ Damage \subseteq {"none", "good"} PROVE Spec => []RepairConverges
  OBVIOUS
<1> DEFINE Inv == IInv /\ Secured /\ (Few \/ ~rotten)
<1>1. Init => Inv
  <2> SUFFICES ASSUME Init PROVE Inv
    OBVIOUS
  <2>1. Secured
    BY DEF Init, Secured, Labels, Moving, Procs
  <2>2. Few \/ ~rotten
    BY DEF Init
  <2> QED
    BY <2>1, <2>2, InitInv
<1>2. Inv /\ [Next]_vars => Inv'
  <2> SUFFICES ASSUME Inv, [Next]_vars PROVE Inv'
    OBVIOUS
  <2>1. IInv' /\ rotten' = rotten
    BY NextInv, TreesKept
  <2>2. Secured'
    <3>1. CASE UNCHANGED vars
      BY <3>1 DEF vars, Secured, Safekept
    <3> QED
      BY <3>1, PublishSecured, DeleteSecured, CrashSecured DEF Next
  <2> QED
    BY <2>1, <2>2
<1>3. Inv => RepairConverges
  BY DEF RepairConverges, Secured, Safekept, Procs, Moving, Returned
<1> QED
  BY <1>1, <1>2, <1>3, PTL DEF Spec

(***************************************************************************)
(* Marketplaces: how versions are ordered, and what a check says of them.  *)
(***************************************************************************)

\* What precedence compares, without the choice of a least index.
Lists == Seq(Identifiers)
IdentifierLess(a, b) == IF a.number # b.number THEN a.number ELSE a.rank < b.rank
Extends(l, r) == Len(l) < Len(r) /\ \A i \in 1 .. Len(l) : l[i] = r[i]
LessAt(l, r, k) ==
    /\ k \in 1 .. Len(l) /\ k \in 1 .. Len(r) /\ l[k] # r[k]
    /\ \A i \in 1 .. k - 1 : l[i] = r[i]
    /\ IdentifierLess(l[k], r[k])

\* A set of numbers has a least one.
LEMMA NatMinimum ==
    ASSUME NEW S, S \subseteq Nat, S # {}
    PROVE  Min(S) \in S /\ \A y \in S : Min(S) <= y
<1>1. PICK x \in S : \A y \in S : ~(<<y, x>> \in OpToRel(<, Nat))
  BY NatLessThanWellFounded, WFMin
<1>2. ASSUME NEW y \in S PROVE x <= y
  <2>1. ~(y < x)
    BY <1>1, Zenon DEF OpToRel
  <2> QED BY <2>1
<1> QED BY <1>2 DEF Min

\* A pre-release is less when the other is a release or extends it, or at the first
\* identifier in which they differ.
LEMMA LessIff ==
    ASSUME NEW l \in Lists, NEW r \in Lists
    PROVE  PrereleaseLess(l, r) <=>
             l # <<>> /\ (r = <<>> \/ Extends(l, r) \/ \E k \in Nat : LessAt(l, r, k))
<1> DEFINE common == {i \in 1 .. Len(l) : i <= Len(r)}
           differing == {i \in common : l[i] # r[i]}
           k == Min(differing)
<1>0. Len(l) \in Nat /\ Len(r) \in Nat /\ (l = <<>> <=> Len(l) = 0) /\ (r = <<>> <=> Len(r) = 0)
  BY DEF Lists
<1>1. differing \subseteq Nat
  BY <1>0
<1>2. PrereleaseLess(l, r) <=>
        CASE l = <<>> -> FALSE
          [] l # <<>> /\ r = <<>> -> TRUE
          [] l # <<>> /\ r # <<>> /\ differing = {} -> Len(l) < Len(r)
          [] OTHER -> IdentifierLess(l[k], r[k])
  BY DEF PrereleaseLess, IdentifierLess
<1>3. CASE l = <<>> \/ r = <<>>
  BY <1>2, <1>3
<1>4. CASE l # <<>> /\ r # <<>> /\ differing = {}
  <2>1. PrereleaseLess(l, r) <=> Len(l) < Len(r) BY <1>2, <1>4
  <2>2. Len(l) < Len(r) => Extends(l, r)
    BY <1>0, <1>4 DEF Extends
  <2>3. \A i \in Nat : ~LessAt(l, r, i)
    BY <1>0, <1>4 DEF LessAt
  <2> QED BY <1>4, <2>1, <2>2, <2>3 DEF Extends
<1>5. CASE l # <<>> /\ r # <<>> /\ differing # {}
  <2>1. k \in differing /\ \A y \in differing : k <= y
    BY <1>1, <1>5, NatMinimum
  <2>2. PrereleaseLess(l, r) <=> IdentifierLess(l[k], r[k])
    BY <1>2, <1>5
  <2> HIDE DEF k
  <2>3. ~Extends(l, r)
    BY <1>0, <2>1 DEF Extends
  <2>4. k \in Nat /\ k \in 1 .. Len(l) /\ k \in 1 .. Len(r) /\ l[k] # r[k]
    BY <1>0, <2>1
  <2>5. \A i \in 1 .. k - 1 : l[i] = r[i]
    BY <1>0, <2>1, <2>4
  <2>6. ASSUME NEW j \in Nat, LessAt(l, r, j) PROVE j = k
    <3>1. j \in differing BY <1>0, <2>6 DEF LessAt
    <3>2. k <= j BY <2>1, <3>1
    <3>3. ~(k < j) BY <2>4, <2>6 DEF LessAt
    <3> QED BY <2>4, <3>2, <3>3
  <2> QED BY <1>5, <2>2, <2>3, <2>4, <2>5, <2>6 DEF LessAt
<1> QED BY <1>3, <1>4, <1>5

\* Identifiers are in a strict total order.
LEMMA IdentifierOrder ==
    /\ \A a, b \in Identifiers : a = b \/ IdentifierLess(a, b) \/ IdentifierLess(b, a)
    /\ \A a \in Identifiers : ~IdentifierLess(a, a)
    /\ \A a, b, c \in Identifiers : IdentifierLess(a, b) /\ IdentifierLess(b, c) => IdentifierLess(a, c)
<1>1. \A a, b \in Identifiers : a = b \/ IdentifierLess(a, b) \/ IdentifierLess(b, a)
  <2> SUFFICES ASSUME NEW a \in Identifiers, NEW b \in Identifiers
               PROVE  a = b \/ IdentifierLess(a, b) \/ IdentifierLess(b, a)
    OBVIOUS
  <2>1. CASE a.number # b.number BY <2>1 DEF IdentifierLess, Identifiers
  <2>2. CASE a.number = b.number /\ a.rank # b.rank BY <2>2 DEF IdentifierLess, Identifiers
  <2>3. CASE a.number = b.number /\ a.rank = b.rank BY <2>3 DEF Identifiers
  <2> QED BY <2>1, <2>2, <2>3
<1>2. \A a \in Identifiers : ~IdentifierLess(a, a)
  BY DEF IdentifierLess, Identifiers
<1>3. \A a, b, c \in Identifiers : IdentifierLess(a, b) /\ IdentifierLess(b, c) => IdentifierLess(a, c)
  BY DEF IdentifierLess, Identifiers
<1> QED BY <1>1, <1>2, <1>3

\* Of two different pre-releases one is less.
LEMMA PrereleaseTotal ==
    ASSUME NEW l \in Lists, NEW r \in Lists
    PROVE  l = r \/ PrereleaseLess(l, r) \/ PrereleaseLess(r, l)
<1> DEFINE D == {i \in 1 .. Len(l) : i <= Len(r) /\ l[i] # r[i]}
           k == Min(D)
<1>0. /\ Len(l) \in Nat /\ Len(r) \in Nat /\ (l = <<>> <=> Len(l) = 0) /\ (r = <<>> <=> Len(r) = 0)
      /\ \A i \in 1 .. Len(l) : l[i] \in Identifiers
      /\ \A i \in 1 .. Len(r) : r[i] \in Identifiers
      /\ (Len(l) = Len(r) /\ \A i \in 1 .. Len(l) : l[i] = r[i]) => l = r
  BY DEF Lists
<1>1. CASE D = {}
  <2>1. CASE Len(l) = Len(r)
    BY <1>0, <1>1, <2>1
  <2>2. CASE Len(l) < Len(r)
    <3>1. Extends(l, r) BY <1>0, <1>1, <2>2 DEF Extends
    <3> QED BY <1>0, <2>2, <3>1, LessIff
  <2>3. CASE Len(r) < Len(l)
    <3>1. Extends(r, l) BY <1>0, <1>1, <2>3 DEF Extends
    <3> QED BY <1>0, <2>3, <3>1, LessIff
  <2> QED BY <1>0, <2>1, <2>2, <2>3
<1>2. CASE D # {}
  <2>0. D \subseteq Nat BY <1>0
  <2>1. k \in D /\ \A y \in D : k <= y
    BY <1>2, <2>0, NatMinimum
  <2> HIDE DEF k
  <2>2. k \in Nat /\ k \in 1 .. Len(l) /\ k \in 1 .. Len(r) /\ l[k] # r[k]
    BY <1>0, <2>1
  <2>3. \A i \in 1 .. k - 1 : l[i] = r[i]
    BY <1>0, <2>1, <2>2
  <2>4. IdentifierLess(l[k], r[k]) \/ IdentifierLess(r[k], l[k])
    BY <1>0, <2>2, IdentifierOrder
  <2>5. LessAt(l, r, k) \/ LessAt(r, l, k)
    BY <2>2, <2>3, <2>4 DEF LessAt
  <2>6. l # <<>> /\ r # <<>> BY <1>0, <2>2
  <2> QED BY <2>2, <2>5, <2>6, LessIff
<1> QED BY <1>1, <1>2

\* None is less than itself.
LEMMA PrereleaseIrreflexive ==
    ASSUME NEW l \in Lists PROVE ~PrereleaseLess(l, l)
<1>1. ~Extends(l, l) BY DEF Extends, Lists
<1>2. \A k \in Nat : ~LessAt(l, l, k) BY DEF LessAt
<1> QED BY <1>1, <1>2, LessIff

\* What is less than a lesser one is less.
LEMMA PrereleaseTransitive ==
    ASSUME NEW a \in Lists, NEW b \in Lists, NEW c \in Lists, PrereleaseLess(a, b), PrereleaseLess(b, c)
    PROVE  PrereleaseLess(a, c)
<1>0. /\ Len(a) \in Nat /\ Len(b) \in Nat /\ Len(c) \in Nat
      /\ \A i \in 1 .. Len(a) : a[i] \in Identifiers
      /\ \A i \in 1 .. Len(b) : b[i] \in Identifiers
      /\ \A i \in 1 .. Len(c) : c[i] \in Identifiers
  BY DEF Lists
<1>1. a # <<>> /\ b # <<>> /\ (Extends(a, b) \/ \E k \in Nat : LessAt(a, b, k))
  BY LessIff
<1>2. c = <<>> \/ Extends(b, c) \/ \E k \in Nat : LessAt(b, c, k)
  BY LessIff
<1>3. CASE c = <<>>
  BY <1>1, <1>3, LessIff
<1>4. CASE Extends(a, b) /\ Extends(b, c)
  <2>1. Extends(a, c) BY <1>0, <1>4 DEF Extends
  <2> QED BY <1>1, <2>1, LessIff
<1>5. ASSUME Extends(a, b), NEW k \in Nat, LessAt(b, c, k) PROVE PrereleaseLess(a, c)
  <2>1. CASE k <= Len(a)
    <3>1. LessAt(a, c, k) BY <1>0, <1>5, <2>1 DEF Extends, LessAt
    <3> QED BY <1>1, <3>1, LessIff
  <2>2. CASE Len(a) < k
    <3>1. Extends(a, c) BY <1>0, <1>5, <2>2 DEF Extends, LessAt
    <3> QED BY <1>1, <3>1, LessIff
  <2> QED BY <1>0, <2>1, <2>2
<1>6. ASSUME NEW k \in Nat, LessAt(a, b, k), Extends(b, c) PROVE PrereleaseLess(a, c)
  <2>1. LessAt(a, c, k) BY <1>0, <1>6 DEF Extends, LessAt
  <2> QED BY <1>1, <2>1, LessIff
<1>7. ASSUME NEW j \in Nat, NEW k \in Nat, LessAt(a, b, j), LessAt(b, c, k) PROVE PrereleaseLess(a, c)
  <2>1. CASE j < k
    <3>1. LessAt(a, c, j) BY <1>0, <1>7, <2>1 DEF LessAt
    <3> QED BY <1>1, <3>1, LessIff
  <2>2. CASE k < j
    <3>1. LessAt(a, c, k) BY <1>0, <1>7, <2>2 DEF LessAt
    <3> QED BY <1>1, <3>1, LessIff
  <2>3. CASE j = k
    <3>1. IdentifierLess(a[k], c[k]) /\ a[k] # c[k]
      BY <1>0, <1>7, <2>3, IdentifierOrder DEF LessAt
    <3>2. LessAt(a, c, k) BY <1>0, <1>7, <2>3, <3>1 DEF LessAt
    <3> QED BY <1>1, <3>2, LessIff
  <2> QED BY <2>1, <2>2, <2>3
<1> QED BY <1>1, <1>2, <1>3, <1>4, <1>5, <1>6, <1>7

\* Precedence is a strict total order on versions up to their builds.
Numbered(v) == v.core \in Nat /\ v.pre \in Lists

\* The precedence by which requirements and collections bound the versions they accept
\* (Allows) is a strict order, total up to build metadata, whatever lists of identifiers
\* the pre-releases have.
THEOREM PrecedenceOrder ==
    ASSUME NEW u, NEW v, NEW w, Numbered(u), Numbered(v), Numbered(w)
    PROVE  /\ SamePrecedence(u, v) \/ Precedes(u, v) \/ Precedes(v, u)
           /\ ~(SamePrecedence(u, v) /\ Precedes(u, v))
           /\ Precedes(u, v) /\ Precedes(v, w) => Precedes(u, w)
           /\ SamePrecedence(u, v) => (Precedes(u, w) <=> Precedes(v, w)) /\ (Precedes(w, u) <=> Precedes(w, v))
<1>1. SamePrecedence(u, v) \/ Precedes(u, v) \/ Precedes(v, u)
  BY PrereleaseTotal DEF SamePrecedence, Precedes, Numbered
<1>2. ~(SamePrecedence(u, v) /\ Precedes(u, v))
  BY PrereleaseIrreflexive DEF SamePrecedence, Precedes, Numbered
<1>3. Precedes(u, v) /\ Precedes(v, w) => Precedes(u, w)
  BY PrereleaseTransitive DEF Precedes, Numbered
<1>4. SamePrecedence(u, v) => (Precedes(u, w) <=> Precedes(v, w)) /\ (Precedes(w, u) <=> Precedes(w, v))
  BY DEF Precedes, SamePrecedence
<1> QED BY <1>1, <1>2, <1>3, <1>4

\* The records are of what some graph listed, and the graph is of the sources it was
\* compiled from.
CompilingInv ==
    /\ graph = CompileMarketplaceGraph(loaded, {})
    /\ \A r \in installs : /\ r.source.kind = "git" /\ r.source.ref = "main"
                       /\ r.source.origin = r.source.alias
    /\ CheckTellsContent

\* Sources that compile have an alias each, their artifacts belong to them, and the graph
\* lists exactly these.
LEMMA GraphOfSources ==
    ASSUME NEW sources, CompileMarketplaceGraph(sources, {}).ok
    PROVE  /\ \A x, y \in sources : x.alias = y.alias => x = y
           /\ \A x \in sources : \A a \in x.artifacts : a.source = x.source
           /\ CompileMarketplaceGraph(sources, {}).artifacts = CurrentEntries(sources)
<1>1. /\ SourceProblems(sources, {}) = {}
      /\ CompileMarketplaceGraph(sources, {}).artifacts = CurrentEntries(sources)
  BY DEF CompileMarketplaceGraph, NoGraph
<1> QED BY <1>1 DEF SourceProblems

\* What check says of one record is said of the sources themselves.
LEMMA CheckTells ==
    ASSUME CompilingInv, CheckRecords, NEW r \in installs
    PROVE  LET there == {x \in loaded : x.alias = r.source.alias}
               same == {x \in there : x.source = r.source.declared}
               having == {a \in UNION {x.artifacts : x \in same} : a.name = r.name}
               exact == \E a \in having : Content(a) = r.content
           IN  /\ checked'[r] = "current" <=> exact
               /\ checked'[r] = "update-available" <=> having # {} /\ ~exact
               /\ checked'[r] = "removed-upstream" <=> same # {} /\ having = {}
               /\ checked'[r] = "identity-changed" <=> there # {} /\ same = {}
               /\ checked'[r] = "source-unavailable" <=> there = {}
<1> DEFINE configured == {[alias |-> x.alias, enabled |-> TRUE, kind |-> "git", origin |-> x.alias,
                           ref |-> "main"] : x \in loaded}
           views == {[alias |-> x.alias, kind |-> "git", origin |-> x.alias, snapshot |-> 1,
                      health |-> "healthy", declared |-> x.source] : x \in loaded}
           items == {[alias |-> e.alias, name |-> e.artifact.name,
                      content |-> Content(e.artifact)] : e \in graph.artifacts}
           there == {x \in loaded : x.alias = r.source.alias}
           same == {x \in there : x.source = r.source.declared}
           having == {a \in UNION {x.artifacts : x \in same} : a.name = r.name}
           exact == \E a \in having : Content(a) = r.content
           offered == {i \in items : i.alias = r.source.alias /\ i.name = r.name}
<1>1. /\ graph.ok /\ graph = CompileMarketplaceGraph(loaded, {})
      /\ checked'[r] = CheckInstallation(r, configured, views, items)
  BY DEF CheckRecords, CompilingInv
<1>2. /\ \A x, y \in loaded : x.alias = y.alias => x = y
      /\ graph.artifacts = CurrentEntries(loaded)
  BY <1>1, GraphOfSources
<1>3. RecordedSubscriptionCurrent(r.source, configured, views) <=> there # {}
  <2>1. ASSUME NEW x \in there PROVE RecordedSubscriptionCurrent(r.source, configured, views)
    <3> DEFINE c == [alias |-> x.alias, enabled |-> TRUE, kind |-> "git", origin |-> x.alias,
                     ref |-> "main"]
               v == [alias |-> x.alias, kind |-> "git", origin |-> x.alias, snapshot |-> 1,
                     health |-> "healthy", declared |-> x.source]
    <3>1. c \in configured /\ v \in views
      OBVIOUS
    <3>2. x.alias = r.source.alias /\ r.source.kind = "git" /\ r.source.ref = "main"
          /\ r.source.origin = r.source.alias
      BY DEF CompilingInv
    <3>3. c.alias = r.source.alias /\ c.enabled /\ c.kind = r.source.kind
          /\ c.origin = r.source.origin /\ c.ref = r.source.ref
      BY <3>2
    <3>4. v.alias = r.source.alias /\ v.kind = r.source.kind /\ v.origin = r.source.origin
          /\ v.snapshot # None /\ v.health \in {"healthy", "stale", "degraded"}
      BY <3>2, NoneAssumption
    <3> HIDE DEF c, v, configured, views
    <3> QED
      BY <3>1, <3>3, <3>4 DEF RecordedSubscriptionCurrent
  <2>2. RecordedSubscriptionCurrent(r.source, configured, views) => there # {}
    BY DEF RecordedSubscriptionCurrent
  <2> QED BY <2>1, <2>2
<1>4. RecordedIdentityChanged(r.source, views) <=> \E x \in there : x.source # r.source.declared
  <2>1. ASSUME NEW x \in there, x.source # r.source.declared
        PROVE  RecordedIdentityChanged(r.source, views)
    <3> DEFINE v == [alias |-> x.alias, kind |-> "git", origin |-> x.alias, snapshot |-> 1,
                     health |-> "healthy", declared |-> x.source]
    <3>1. v \in views /\ v.alias = r.source.alias /\ v.declared # r.source.declared
      BY <2>1
    <3> QED BY <3>1 DEF RecordedIdentityChanged
  <2>2. ASSUME NEW v \in views, v.alias = r.source.alias, v.declared # r.source.declared
        PROVE  \E x \in there : x.source # r.source.declared
    BY <2>2
  <2> HIDE DEF views, there
  <2> QED BY <2>1, <2>2 DEF RecordedIdentityChanged
<1>5. there # {} => (RecordedIdentityChanged(r.source, views) <=> same = {})
  BY <1>2, <1>4
<1>6. ASSUME same # {} PROVE (offered = {} <=> having = {}) /\
                             ((\E i \in offered : i.content = r.content) <=> exact)
  <2>1. PICK x \in loaded : x.alias = r.source.alias /\ x.source = r.source.declared
    BY <1>6
  <2>2. same = {x}
    BY <1>2, <2>1
  <2>3. having = {a \in x.artifacts : a.name = r.name}
    BY <2>2
  <2>4. ASSUME NEW i \in offered PROVE \E a \in having : i.content = Content(a)
    <3>1. PICK e \in graph.artifacts : i = [alias |-> e.alias, name |-> e.artifact.name,
                                            content |-> Content(e.artifact)]
      BY <2>4
    <3>2. PICK y \in loaded : e \in {Entry(y.alias, a, "available") : a \in y.artifacts}
      BY <1>2, <3>1 DEF CurrentEntries
    <3>3. PICK a \in y.artifacts : e = Entry(y.alias, a, "available")
      BY <3>2
    <3>4. e.alias = y.alias /\ e.artifact = a
      BY <3>3 DEF Entry
    <3>5. i.alias = r.source.alias /\ i.name = r.name
      BY <2>4
    <3>6. y = x
      BY <1>2, <2>1, <3>1, <3>4, <3>5
    <3> QED
      BY <2>3, <3>1, <3>3, <3>4, <3>5, <3>6
  <2>5. ASSUME NEW a \in having PROVE \E i \in offered : i.content = Content(a)
    <3> DEFINE e == Entry(x.alias, a, "available")
               i == [alias |-> e.alias, name |-> e.artifact.name, content |-> Content(e.artifact)]
    <3>1. e \in graph.artifacts
      BY <1>2, <2>3 DEF CurrentEntries
    <3>2. e.alias = x.alias /\ e.artifact = a
      BY DEF Entry
    <3> HIDE DEF e
    <3>3. i \in items /\ i.alias = r.source.alias /\ i.name = r.name /\ i.content = Content(a)
      BY <2>1, <2>3, <3>1, <3>2
    <3> QED BY <3>3
  <2> HIDE DEF offered, having
  <2> QED BY <2>4, <2>5
<1> HIDE DEF configured, views, items
<1>7. checked'[r] = IF there = {} THEN "source-unavailable" ELSE IF same = {} THEN "identity-changed"
                    ELSE IF offered = {} THEN "removed-upstream"
                    ELSE IF \E i \in offered : i.content = r.content THEN "current"
                    ELSE "update-available"
  <2> HIDE DEF there, same
  <2> QED BY <1>1, <1>3, <1>5 DEF CheckInstallation, SameArtifact
<1>8. (there = {} => same = {}) /\ (same = {} => having = {}) /\ (having = {} => ~exact)
  OBVIOUS
<1> HIDE DEF there, same, having, exact, offered
<1>9. CASE same = {}
  BY <1>7, <1>8, <1>9 DEF there, same, having, exact
<1>10. CASE same # {}
  BY <1>6, <1>7, <1>8, <1>10 DEF there, same, having, exact
<1> QED BY <1>9, <1>10

\* Every step keeps the invariant.
LEMMA CompilingStep == CompilingInv /\ [CompilingNext]_compiling => CompilingInv'
<1> SUFFICES ASSUME CompilingInv, [CompilingNext]_compiling PROVE CompilingInv'
  OBVIOUS
<1>1. ASSUME UNCHANGED compiling PROVE CompilingInv'
  BY <1>1 DEF compiling, CompilingInv, CheckTellsContent
<1>2. ASSUME NEW sources, LoadMarketplace(sources) PROVE CompilingInv'
  BY <1>2 DEF LoadMarketplace, CompilingInv, CheckTellsContent
<1>3. ASSUME NEW alias, NEW names, RecordNames(alias, names) PROVE CompilingInv'
  <2>1. \A r \in installs' : r \in installs \/ \E e \in graph.artifacts : r = RecordFrom(e)
    BY <1>3 DEF RecordNames
  <2>2. \A e \in graph.artifacts :
          LET r == RecordFrom(e) IN r.source.kind = "git" /\ r.source.ref = "main"
                                    /\ r.source.origin = r.source.alias
    BY DEF RecordFrom
  <2> QED BY <1>3, <2>1, <2>2 DEF RecordNames, CompilingInv, CheckTellsContent
<1>4. ASSUME CheckRecords PROVE CompilingInv'
  <2>1. loaded' = loaded /\ graph' = graph /\ installs' = installs
    BY <1>4 DEF CheckRecords
  <2>2. CheckTellsContent'
    BY <1>4, <2>1, CheckTells DEF CheckTellsContent
  <2> QED BY <2>1, <2>2 DEF CompilingInv
<1> QED BY <1>1, <1>2, <1>3, <1>4 DEF CompilingNext, InstallArtifact, InstallCollection

\* For every history of what the sources offer, dropped versions that come back with other
\* content included, of installations and of checks: what check says of an installation is
\* true of the content the sources hold, not only of its version.
THEOREM CompilingTellsContent == CompilingSpec => []CheckTellsContent
<1>1. CompilingInit => CompilingInv
  BY DEF CompilingInit, CompilingInv, CheckTellsContent
<1>2. CompilingInv => CheckTellsContent
  BY DEF CompilingInv
<1> QED BY <1>1, <1>2, CompilingStep, PTL DEF CompilingSpec

(***************************************************************************)
(* Recipes: a setup uses the capabilities its author declared, and a       *)
(* verification asks of the world what the record says is in it.           *)
(***************************************************************************)

\* What a plan is of: the installed item with its recipe, and an effect for each step.
Planned(p) ==
    /\ p.item = Item(Installed("r"), recipe)
    /\ DOMAIN p.effects \subseteq Nat
    /\ \A i \in DOMAIN p.effects : p.effects[i].use # "custom" =>
          i \in DOMAIN recipe.steps /\ p.effects[i] = EffectForStep(p.item, recipe.steps[i])

\* What the review decided.
Judged ==
    /\ ParseInstaller(recipe, "x")
    /\ allowed # None => PlannedCapabilities(recipe) \subseteq allowed

\* Receipt k is of a step that wrote where receipt j was left, not before it, and what it
\* left is there.
StaysAt(receipts, j, k, world) ==
    /\ k >= j /\ PlaceOf(receipts[k]) = PlaceOf(receipts[j])
    /\ world[PlaceOf(receipts[j])] = LeftBy(receipts[k])

\* What a record says it left is there, was replaced by a later step, or is known to be
\* gone.
Traced(record, world) ==
    /\ DOMAIN record.receipts \subseteq Nat
    /\ \A j \in DOMAIN record.receipts :
        LET t == record.receipts[j] IN
        t.use \in BlockModules \cup {"build"} /\ t.content # None =>
            /\ t.content = LeftBy(t) /\ t.content \notin {Absent, Unanswered}
            /\ PlaceOf(t) \in Places
            /\ \/ world[PlaceOf(t)] \in {Absent, Unanswered}
               \/ \E k \in DOMAIN record.receipts : StaysAt(record.receipts, j, k, world)

\* CapabilitiesDeclared speaks of a plan and of a record long after they were made.
RecipesInv ==
    /\ recipe \in Authored
    /\ DOMAIN found = Places
    /\ plan # None => Planned(plan) /\ Judged
    /\ stored = <<>> \/ 1 \in DOMAIN stored
    /\ Len(stored) = 1 => Traced(stored[1], found)
    /\ reported # None /\ ("again" \in DOMAIN reported \/ "claims" \in DOMAIN reported) => stored # <<>>
    /\ CapabilitiesDeclared

\* The last of some places of a sequence.
LEMMA LastOf ==
    ASSUME NEW n \in Nat, NEW S, S \subseteq 1 .. n, S # {}
    PROVE  Max(S) \in S /\ \A y \in S : Max(S) >= y
<1> DEFINE T == {n - x : x \in S}
<1>1. T \subseteq Nat /\ T # {}
  <2>1. \A x \in S : n - x \in Nat OBVIOUS
  <2>2. PICK x : x \in S OBVIOUS
  <2>3. n - x \in T BY <2>2
  <2> QED BY <2>1, <2>3
<1>2. Min(T) \in T /\ \A y \in T : Min(T) <= y
  <2> HIDE DEF T
  <2> QED BY <1>1, NatMinimum
<1>3. PICK x \in S : Min(T) = n - x
  BY <1>2
<1>4. ASSUME NEW y \in S PROVE x >= y
  <2>1. n - y \in T OBVIOUS
  <2>2. n - x <= n - y
    <3> HIDE DEF T
    <3> QED BY <1>2, <1>3, <2>1
  <2> QED BY <2>2
<1> QED BY <1>4 DEF Max

\* Every capability a recipe is planned to use is one its author declared.
LEMMA JudgedDeclared ==
    ASSUME recipe \in Authored, Judged
    PROVE  /\ \A c \in PlannedCapabilities(recipe) : Declared(c) \in recipe.capabilities
           /\ allowed # None => PlannedCapabilities(recipe) \subseteq allowed
           /\ \A i \in DOMAIN recipe.steps :
                recipe.steps[i].interpolates \cap InputIds(recipe, "secret") # {} =>
                    recipe.steps[i].use = "keychain-store"
<1>1. \A i \in DOMAIN recipe.steps : ValidateStep(recipe, recipe.steps[i]) /\ recipe.steps[i].use \in Modules
  BY RecipesAssumption DEF Judged, ParseInstaller
<1>2. ASSUME NEW i \in DOMAIN recipe.steps, NEW c \in PlannedFor(recipe.steps[i].use)
      PROVE  Declared(c) \in recipe.capabilities
  <2> DEFINE use == recipe.steps[i].use
  <2>1. use \in Modules /\ (ModuleCapability(use) # None => ModuleCapability(use) \in recipe.capabilities)
        /\ (use \in {"pull", "build"} => {"network", "process"} \subseteq recipe.capabilities)
    BY <1>1 DEF ValidateStep
  <2>2. c \in PlannedFor(use) BY <1>2
  <2> HIDE DEF use
  <2>3. use # "notice"
    BY <2>1, <2>2 DEF PlannedFor, Modules, FileModules, BlockModules
  <2>4. ModuleCapability(use) \in recipe.capabilities
    BY <2>1, <2>3, RecipeAssumption
  <2>5. CASE use \in FileModules
    BY <2>2, <2>4, <2>5 DEF PlannedFor, ModuleCapability, Declared, FileModules, BlockModules
  <2>6. CASE use = "pull"
    BY <2>1, <2>2, <2>4, <2>6 DEF PlannedFor, ModuleCapability, Declared, FileModules, BlockModules
  <2>7. CASE use = "build"
    BY <2>1, <2>2, <2>4, <2>7 DEF PlannedFor, ModuleCapability, Declared, FileModules, BlockModules
  <2>8. CASE use \in {"keychain-store", "export", "verify"}
    BY <2>2, <2>4, <2>8 DEF PlannedFor, ModuleCapability, Declared, FileModules, BlockModules
  <2> QED BY <2>1, <2>3, <2>5, <2>6, <2>7, <2>8 DEF Modules
<1>3. recipe.custom # None => Declared("custom-code") \in recipe.capabilities
  BY DEF Judged, ParseInstaller, Declared
<1>4. ASSUME NEW c \in PlannedCapabilities(recipe) PROVE Declared(c) \in recipe.capabilities
  <2>1. CASE c \in UNION {PlannedFor(recipe.steps[i].use) : i \in DOMAIN recipe.steps}
    <3>1. PICK i \in DOMAIN recipe.steps : c \in PlannedFor(recipe.steps[i].use) BY <2>1
    <3> QED BY <3>1, <1>2
  <2>2. CASE recipe.custom # None /\ c = "custom-code"
    BY <2>2, <1>3
  <2>3. \/ c \in UNION {PlannedFor(recipe.steps[i].use) : i \in DOMAIN recipe.steps}
        \/ c \in (IF recipe.custom # None THEN {"custom-code"} ELSE {})
    BY <1>4, Zenon DEF PlannedCapabilities
  <2> QED BY <2>1, <2>2, <2>3
<1> QED BY <1>1, <1>4 DEF Judged, ValidateStep

\* A plan that was reviewed.
LEMMA ReviewKeeps ==
    ASSUME RecipesInv, NEW source, NEW trust, NEW authorized, NEW object, NEW platform,
           Review(source, trust, authorized, object, platform)
    PROVE  RecipesInv'
<1> DEFINE request == [name |-> "x", source |-> "r", profile |-> "claude", scope |-> "project",
                       authorizeSource |-> authorized, authorizeCustom |-> authorized]
           offer == [name |-> "x", source |-> "r", version |-> 1, object |-> "o", trust |-> trust]
           objects == [o \in {"o"} |-> [digest |-> object, recipe |-> recipe, executable |-> TRUE]]
           ruling == [capabilities |-> allowed, custom |-> TRUE]
<1>1. /\ recipe' = recipe /\ allowed' = allowed /\ stored' = stored /\ found' = found /\ reported' = reported
      /\ \E item \in PrepareSetupObject(request, {Installed(source)}, {offer}, objects, ruling) :
            plan' = PlanSetup(item, platform, "root")
  BY DEF Review
<1>2. PICK item \in PrepareSetupObject(request, {Installed(source)}, {offer}, objects, ruling) :
            plan' = PlanSetup(item, platform, "root")
  BY <1>1
<1>3. PICK k \in SelectedRecord({Installed(source)}, request) :
        /\ item = Item(k, objects[k.object].recipe)
        /\ SetupRecipe(k, objects[k.object])
        /\ \A o \in {o \in {offer} : o.name = k.name /\ o.source = k.source} :
              SetupPolicyAllows(request, o.trust, objects[k.object].recipe, ruling)
  BY DEF PrepareSetupObject
<1>4. k = Installed("r")
  BY DEF SelectedRecord, Installed
<1>5. objects[k.object].recipe = recipe /\ k.name = "x" /\ k.source = "r"
  BY <1>4 DEF Installed
<1>6. item = Item(Installed("r"), recipe)
  BY <1>3, <1>4, <1>5
<1>7. ParseInstaller(recipe, "x")
  BY <1>3, <1>5 DEF SetupRecipe
<1>8. allowed # None => PlannedCapabilities(recipe) \subseteq allowed
  <2>1. offer \in {o \in {offer} : o.name = k.name /\ o.source = k.source}
    BY <1>5
  <2>2. SetupPolicyAllows(request, offer.trust, recipe, ruling)
    BY <1>3, <1>5, <2>1
  <2>3. ruling.capabilities = allowed OBVIOUS
  <2> QED BY <2>2, <2>3 DEF SetupPolicyAllows
<1>9. Judged /\ Judged'
  BY <1>1, <1>7, <1>8 DEF Judged
<1>10. Planned(plan')
  <2> DEFINE p == PlanSetup(item, platform, "root")
             n == Len(recipe.steps)
             E == [i \in DOMAIN recipe.steps |-> EffectForStep(item, recipe.steps[i])]
             X == {EffectForStep(item, recipe.steps[i]) : i \in DOMAIN recipe.steps}
  <2>1. item.recipe = recipe BY <1>6 DEF Item
  <2>2. p.item = item /\ p.effects \in {<<>>, E, Append(E, CustomEffect(item))}
    BY <2>1 DEF PlanSetup
  <2>3. n \in Nat /\ DOMAIN recipe.steps = 1 .. n
    BY RecipesAssumption DEF RecipesInv
  <2>4. E \in Seq(X) /\ Len(E) = n
    BY <2>3
  <2>5. \A i \in 1 .. n : E[i] = EffectForStep(item, recipe.steps[i])
    BY <2>3
  <2>6. CustomEffect(item).use = "custom" BY DEF CustomEffect
  <2> HIDE DEF E, X, p
  <2>7. /\ DOMAIN p.effects \subseteq 1 .. n + 1
        /\ \A i \in DOMAIN p.effects : i \in 1 .. n => p.effects[i] = E[i]
        /\ \A i \in DOMAIN p.effects : i = n + 1 => p.effects[i] = CustomEffect(item)
    <3> DEFINE C == CustomEffect(item)
    <3>1. CASE p.effects = <<>> BY <3>1
    <3>2. CASE p.effects = E BY <3>2, <2>3, <2>4
    <3>3. CASE p.effects = Append(E, C)
      <4> HIDE DEF C
      <4>1. DOMAIN Append(E, C) = 1 .. n + 1 /\ Append(E, C)[n + 1] = C /\ \A i \in 1 .. n : Append(E, C)[i] = E[i]
        BY <2>3, <2>4
      <4> QED BY <3>3, <4>1, <2>3 DEF C
    <3> QED BY <2>2, <3>1, <3>2, <3>3
  <2>8. \A i \in 1 .. n + 1 : i \in 1 .. n \/ i = n + 1
    BY <2>3
  <2>9. plan' = p BY <1>2 DEF p
  <2>10. ASSUME NEW i \in DOMAIN p.effects, p.effects[i].use # "custom"
         PROVE  i \in DOMAIN recipe.steps /\ p.effects[i] = EffectForStep(p.item, recipe.steps[i])
    <3>1. i # n + 1 BY <2>6, <2>7, <2>10
    <3>2. i \in 1 .. n BY <2>7, <2>8, <2>10, <3>1
    <3> QED BY <2>2, <2>3, <2>5, <2>7, <2>10, <3>2
  <2>11. DOMAIN p.effects \subseteq Nat
    BY <2>3, <2>7
  <2> QED BY <1>6, <2>2, <2>9, <2>10, <2>11 DEF Planned
<1>11. Planned(plan)'
  BY <1>1, <1>10 DEF Planned
<1>12. CapabilitiesDeclared'
  <2>1. (/\ \A c \in PlannedCapabilities(recipe) : Declared(c) \in recipe.capabilities
         /\ allowed # None => PlannedCapabilities(recipe) \subseteq allowed
         /\ \A i \in DOMAIN recipe.steps :
                recipe.steps[i].interpolates \cap InputIds(recipe, "secret") # {} =>
                    recipe.steps[i].use = "keychain-store")
    BY <1>9, JudgedDeclared DEF RecipesInv
  <2>2. \A c : Superseded(c)' <=> Superseded(c)
    BY <1>1 DEF Superseded
  <2> QED BY <1>1, <2>1, <2>2 DEF RecipesInv, CapabilitiesDeclared
<1>13. Places' = Places
  BY <1>1 DEF Places
<1>14. Len(stored') = 1 => Traced(stored[1], found)'
  BY <1>1, <1>13 DEF RecipesInv, Traced
<1> QED BY <1>1, <1>9, <1>11, <1>12, <1>13, <1>14 DEF RecipesInv

\* A run leaves what its record says, or what a later step of it left there.
LEMMA RunKeeps == ASSUME RecipesInv, NEW status, Run(status) PROVE RecipesInv'
<1> DEFINE E == plan.effects
           at(s) == {i \in DOMAIN E : E[i].use # "custom" /\ PlaceOf(E[i]) = s}
           receipts == IF status = "configured" THEN [i \in DOMAIN E |-> Receipt(E[i])] ELSE <<>>
           record == RecordFor(plan.item, status, receipts, IF status = "configured" THEN EvidenceFields ELSE {})
           n == Len(recipe.steps)
<1>1. /\ plan # None /\ stored = <<>> /\ recipe' = recipe /\ allowed' = allowed /\ plan' = plan
      /\ reported' = reported
      /\ stored' = UpsertSetupRecord(stored, record)
      /\ found' = [s \in Places |->
                       IF status = "configured" /\ at(s) # {} THEN LeftBy(E[Max(at(s))])
                       ELSE IF status = "configured" /\ s \in OwnPlaces THEN s
                       ELSE found[s]]
  BY DEF Run
<1>2. stored' = Append(<<>>, record)
  BY <1>1 DEF UpsertSetupRecord
<1>3. stored'[1] = record /\ 1 \in DOMAIN stored'
  <2> HIDE DEF record
  <2> QED BY <1>2
<1>4. n \in Nat /\ DOMAIN recipe.steps = 1 .. n /\ recipe \in Authored
  BY RecipesAssumption DEF RecipesInv
<1>5. plan.item = Item(Installed("r"), recipe) /\ DOMAIN E \subseteq Nat /\ \A i \in DOMAIN E : E[i].use # "custom" =>
          i \in 1 .. n /\ E[i] = EffectForStep(plan.item, recipe.steps[i])
  <2>1. Planned(plan) BY <1>1 DEF RecipesInv
  <2> QED BY <1>4, <2>1 DEF Planned
<1>6. ASSUME NEW j \in DOMAIN receipts,
             receipts[j].use \in BlockModules \cup {"build"}
      PROVE  /\ receipts[j].content = LeftBy(receipts[j]) /\ receipts[j].content \notin {Absent, Unanswered}
             /\ PlaceOf(receipts[j]) \in Places
             /\ \E k \in DOMAIN receipts : StaysAt(receipts, j, k, found')
  <2>1. status = "configured" /\ j \in DOMAIN E /\ receipts = [i \in DOMAIN E |-> Receipt(E[i])]
    BY <1>6
  <2>2. \A i \in DOMAIN E : /\ receipts[i] = Receipt(E[i]) /\ receipts[i].use = E[i].use
                            /\ PlaceOf(receipts[i]) = PlaceOf(E[i]) /\ LeftBy(receipts[i]) = LeftBy(E[i])
    BY <2>1 DEF Receipt, PlaceOf, LeftBy
  <2>3. E[j].use \in BlockModules \cup {"build"} /\ receipts[j].content = LeftBy(E[j])
    BY <1>6, <2>1, <2>2 DEF Receipt
  <2>4. E[j].use # "custom" BY <2>3 DEF BlockModules
  <2>5. j \in 1 .. n /\ E[j] = EffectForStep(plan.item, recipe.steps[j])
    BY <1>5, <2>1, <2>4
  <2>6. LeftBy(E[j]) = <<recipe.steps[j].use, recipe.steps[j].id>>
    BY <2>5 DEF EffectForStep, LeftBy
  <2>7. LeftBy(E[j]) \notin {Absent, Unanswered}
    BY <1>4, <2>5, <2>6, RecipesAssumption
  <2>8. PlaceOf(E[j]) \in Places
    BY <1>4, <1>5, <2>5 DEF Places
  <2> DEFINE here == at(PlaceOf(E[j]))
             k == Max(here)
  <2>9. j \in here /\ here \subseteq DOMAIN E /\ here \subseteq 1 .. n
    BY <1>5, <2>1, <2>4
  <2>10. k \in here /\ k >= j
    <3> HIDE DEF here
    <3> QED BY <1>4, <2>9, LastOf
  <2>11. found'[PlaceOf(E[j])] = LeftBy(E[k])
    BY <1>1, <2>1, <2>8, <2>9
  <2>12. k \in DOMAIN E /\ PlaceOf(E[k]) = PlaceOf(E[j])
    BY <2>9, <2>10
  <2> HIDE DEF here, k, E
  <2>13. StaysAt(receipts, j, k, found')
    BY <2>1, <2>2, <2>10, <2>11, <2>12 DEF StaysAt
  <2> QED BY <2>1, <2>2, <2>3, <2>7, <2>8, <2>12, <2>13
<1>7. record.receipts = receipts /\ DOMAIN receipts \subseteq Nat
  <2>1. record.receipts = receipts BY DEF RecordFor
  <2>2. DOMAIN receipts \in {DOMAIN E, {}} OBVIOUS
  <2> QED BY <1>5, <2>1, <2>2
<1>8. Places' = Places
  BY <1>1 DEF Places
<1> HIDE DEF record, receipts
<1>9. Traced(stored[1], found)'
  BY <1>3, <1>6, <1>7, <1>8 DEF Traced
<1>10. Planned(plan)' /\ Judged'
  BY <1>1 DEF RecipesInv, Planned, Judged
<1>11. DOMAIN found' = Places
  BY <1>1
<1>12. ~(reported # None /\ ("again" \in DOMAIN reported \/ "claims" \in DOMAIN reported))
  BY <1>1 DEF RecipesInv
<1>13. CapabilitiesDeclared'
  BY <1>1, <1>12 DEF RecipesInv, CapabilitiesDeclared
<1> QED BY <1>1, <1>3, <1>8, <1>9, <1>10, <1>11, <1>12, <1>13 DEF RecipesInv

\* A verification asks of the world what the record says is in it.
LEMMA VerifyKeeps == RecipesInv /\ VerifyRecord => RecipesInv'
<1> SUFFICES ASSUME RecipesInv, VerifyRecord PROVE RecipesInv'
  OBVIOUS
<1> DEFINE claims == [c \in PlanVerification(stored[1]) |-> Verify(c, found)]
           own == {Claim("no-credential-in-record", <<<<"record">>, None>>, None),
                   Claim("rollback-command-runs", <<<<"command">>, None>>, None),
                   Claim("no-orphan-run", <<<<"runs">>, None>>, None)}
<1>1. /\ Len(stored) = 1 /\ reported' = [claims |-> claims]
      /\ recipe' = recipe /\ allowed' = allowed /\ plan' = plan /\ stored' = stored /\ found' = found
  BY DEF VerifyRecord
<1>2. DOMAIN reported' = {"claims"} /\ reported'.claims = claims
  BY <1>1
<1>3. stored # <<>>
  BY <1>1
<1>4. ASSUME NEW c \in PlanVerification(stored[1]), c.kind \in {"block-present", "tag-resolves"}
      PROVE  /\ c.content \notin {Absent, Unanswered}
             /\ found[c.subject] \in {c.content, Absent, Unanswered} \/ Superseded(c)
  <2> DEFINE live == {i \in DOMAIN stored[1].receipts : ~stored[1].receipts[i].compensated}
  <2>1. c \in UNION {ClaimsForStep(stored[1].receipts[i]) : i \in live} \/ c \in own
    <3> DEFINE A == UNION {ClaimsForStep(stored[1].receipts[i]) : i \in live}
               B == IF stored[1].receipts # <<>>
                    THEN {Claim("rollback-command-runs", <<<<"command">>, None>>, None)} ELSE {}
               C == IF stored[1].evidence # {} THEN {Claim("no-orphan-run", <<<<"runs">>, None>>, None)} ELSE {}
    <3>1. c \in A \/ c \in {Claim("no-credential-in-record", <<<<"record">>, None>>, None)} \/ c \in B \/ c \in C
      BY <1>4, Zenon DEF PlanVerification
    <3>2. c \in B => c = Claim("rollback-command-runs", <<<<"command">>, None>>, None)
      BY Zenon
    <3>3. c \in C => c = Claim("no-orphan-run", <<<<"runs">>, None>>, None)
      BY Zenon
    <3> HIDE DEF A, B, C
    <3>4. c \in A \/ c \in own
      BY <3>1, <3>2, <3>3, Zenon
    <3> QED BY <3>4, Zenon DEF A
  <2>2. c \in UNION {ClaimsForStep(stored[1].receipts[i]) : i \in live}
    BY <1>4, <2>1 DEF Claim
  <2>3. PICK i \in DOMAIN stored[1].receipts : c \in ClaimsForStep(stored[1].receipts[i])
    BY <2>2
  <2> DEFINE t == stored[1].receipts[i]
  <2>4. c \in ClaimsForStep(t) BY <2>3
  <2>5. Traced(stored[1], found) BY <1>1 DEF RecipesInv
  <2>6. t.use \in BlockModules \cup {"build"} /\ t.content # None =>
            /\ t.content = LeftBy(t) /\ t.content \notin {Absent, Unanswered}
            /\ \/ found[PlaceOf(t)] \in {Absent, Unanswered}
               \/ \E k \in DOMAIN stored[1].receipts : StaysAt(stored[1].receipts, i, k, found)
    BY <2>5 DEF Traced
  <2> HIDE DEF t
  <2>7. t.use \in BlockModules \cup {"build"} /\ t.content # None /\ c.content = t.content /\ c.subject = PlaceOf(t)
    BY <1>4, <2>4 DEF ClaimsForStep, Claim, BlockModules
  <2>8. CASE \E k \in DOMAIN stored[1].receipts : StaysAt(stored[1].receipts, i, k, found)
    <3>1. PICK k \in DOMAIN stored[1].receipts : StaysAt(stored[1].receipts, i, k, found)
      BY <2>8
    <3>2. k >= i /\ PlaceOf(stored[1].receipts[k]) = PlaceOf(t) /\ found[c.subject] = LeftBy(stored[1].receipts[k])
      BY <2>7, <3>1 DEF StaysAt, t
    <3>3. CASE k = i
      BY <2>6, <2>7, <3>2, <3>3 DEF t
    <3>4. CASE k # i
      <4>1. i < k BY <2>5, <3>2, <3>4 DEF Traced
      <4>2. Superseded(c)
        BY <2>7, <3>2, <4>1 DEF Superseded, t
      <4> QED BY <2>6, <2>7, <4>2
    <3> QED BY <3>3, <3>4
  <2> QED BY <2>6, <2>7, <2>8
<1>5. \A c \in DOMAIN claims :
         /\ claims[c] = "true" => found[c.subject] \notin {Absent, Unanswered}
         /\ claims[c] = "false" =>
              \/ found[c.subject] = Absent
              \/ c.kind = "block-present" /\ found[c.subject] = Unanswered
              \/ Superseded(c)
  <2> SUFFICES ASSUME NEW c \in PlanVerification(stored[1])
               PROVE  /\ Verify(c, found) = "true" => found[c.subject] \notin {Absent, Unanswered}
                      /\ Verify(c, found) = "false" =>
                           \/ found[c.subject] = Absent
                           \/ c.kind = "block-present" /\ found[c.subject] = Unanswered
                           \/ Superseded(c)
    OBVIOUS
  <2>1. CASE c.kind \in {"block-present", "tag-resolves"}
    BY <1>4, <2>1 DEF Verify
  <2>2. CASE c.kind \notin {"block-present", "tag-resolves"}
    BY <2>2 DEF Verify
  <2> QED BY <2>1, <2>2
<1>6. \A c : Superseded(c)' <=> Superseded(c)
  BY <1>1 DEF Superseded
<1>7. Places' = Places
  BY <1>1 DEF Places
<1> HIDE DEF claims
<1>8. CapabilitiesDeclared'
  BY <1>1, <1>2, <1>5, <1>6 DEF RecipesInv, CapabilitiesDeclared
<1> QED BY <1>1, <1>3, <1>7, <1>8 DEF RecipesInv, Planned, Judged, Traced

\* What was left is taken away by somebody else, or does not answer.
LEMMA LoseKeeps ==
    ASSUME RecipesInv, NEW place \in Places, NEW answer \in {Absent, Unanswered}, Lose(place, answer)
    PROVE  RecipesInv'
<1>1. /\ Len(stored) = 1 /\ found' = [found EXCEPT ![place] = answer] /\ reported' = None
      /\ recipe' = recipe /\ allowed' = allowed /\ plan' = plan /\ stored' = stored
  BY DEF Lose
<1>2. DOMAIN found' = Places /\ \A s \in Places : found'[s] = found[s] \/ found'[s] \in {Absent, Unanswered}
  BY <1>1 DEF RecipesInv
<1>3. Traced(stored[1], found')
  BY <1>1, <1>2 DEF RecipesInv, Traced, StaysAt
<1>4. CapabilitiesDeclared'
  BY <1>1 DEF RecipesInv, CapabilitiesDeclared
<1>5. Places' = Places
  BY <1>1 DEF Places
<1>6. Traced(stored[1], found)'
  BY <1>1, <1>3, <1>5 DEF Traced
<1> QED BY <1>1, <1>2, <1>4, <1>5, <1>6 DEF RecipesInv, Planned, Judged

\* A rollback leaves a record without receipts.
LEMMA RollbackKeeps == ASSUME RecipesInv, NEW owner, Rollback(owner) PROVE RecipesInv'
<1> DEFINE record == [stored[1] EXCEPT !.status = "skipped", !.receipts = <<>>]
<1>1. /\ Len(stored) = 1 /\ stored' = UpsertSetupRecord(stored, record) /\ reported' = None
      /\ recipe' = recipe /\ allowed' = allowed /\ plan' = plan /\ DOMAIN found' = Places /\ Places' = Places
  BY DEF Rollback, Places
<1>2. 1 \in DOMAIN stored
  BY <1>1 DEF RecipesInv
<1>3. SameSetup(stored[1], record)
  BY DEF SameSetup
<1>4. record.receipts = <<>> \/ DOMAIN record.receipts = {}
  BY <1>1
<1> HIDE DEF record
<1>5. 1 \in DOMAIN stored' /\ stored'[1] = record
  BY <1>1, <1>2, <1>3 DEF UpsertSetupRecord
<1>6. Traced(stored[1], found)'
  BY <1>4, <1>5 DEF Traced
<1>7. CapabilitiesDeclared'
  BY <1>1 DEF RecipesInv, CapabilitiesDeclared
<1> QED BY <1>1, <1>5, <1>6, <1>7 DEF RecipesInv, Planned, Judged

\* A queue over the two harnesses: who has no record of success is offered again.
LEMMA QueueKeeps ==
    ASSUME RecipesInv,
           NEW outcomes \in [1 .. 2 -> {"configured", "already_configured", "cancelled", "rollback_incomplete"}],
           NEW stop \in BOOLEAN, Queue(outcomes, stop)
    PROVE  RecipesInv'
<1> DEFINE good == {"configured", "already_configured"}
           a == plan.item
           b == [a EXCEPT !.profile = "codex"]
           items == <<a, b>>
           ended == ExecuteSetupQueue(outcomes, stop)
           ra == RecordFor(a, ended[1], <<>>, {})
           rb == RecordFor(b, ended[2], <<>>, {})
           one == UpsertSetupRecord(<<>>, ra)
           two == IF ended[2] = "skipped" THEN one ELSE UpsertSetupRecord(one, rb)
<1>1. DOMAIN outcomes = {1, 2} /\ 1 .. 1 - 1 = {}
  OBVIOUS
<1>2. ended[1] = outcomes[1] /\ DOMAIN ended = {1, 2}
  BY <1>1 DEF ExecuteSetupQueue
<1>3. ended[1] # "skipped"
  BY <1>2
<1>4. /\ plan # None /\ stored = <<>> /\ recipe' = recipe /\ allowed' = allowed /\ plan' = plan
      /\ found' = found
      /\ reported' = [again |-> RetryablePlans(items, ended), items |-> ToSet(items)]
      /\ stored' = two
  BY <1>3 DEF Queue
<1>5. a.profile = "claude" /\ b.profile = "codex" /\ a # b
  BY <1>4 DEF RecipesInv, Planned, Item, Installed
<1>6. /\ ra.profile = a.profile /\ ra.status = ended[1] /\ ra.receipts = <<>>
      /\ rb.profile = b.profile /\ rb.status = ended[2]
  BY DEF RecordFor
<1>7. RetryablePlans(items, ended) = {items[i] : i \in {i \in {1, 2} : ended[i] \notin good}}
  BY DEF RetryablePlans
<1>8. ToSet(items) = {a, b} /\ items[1] = a /\ items[2] = b
  BY DEF ToSet
<1> HIDE DEF a, b, items, ended, ra, rb
<1>9. one = Append(<<>>, ra)
  BY DEF UpsertSetupRecord
<1>10. one[1] = ra /\ DOMAIN one = {1} /\ one = <<ra>>
  BY <1>9
<1>11. ~SameSetup(ra, rb)
  BY <1>5, <1>6 DEF SameSetup
<1>12. ended[2] # "skipped" => two = Append(<<ra>>, rb)
  BY <1>10, <1>11 DEF UpsertSetupRecord
<1>13. ended[2] # "skipped" => DOMAIN two = {1, 2} /\ two[1] = ra /\ two[2] = rb
  BY <1>12
<1>14. ended[2] = "skipped" => DOMAIN two = {1} /\ two[1] = ra
  BY <1>10
<1> HIDE DEF one, two
<1>15. DOMAIN reported' = {"again", "items"} /\ reported'.items = {a, b}
       /\ reported'.again = {items[i] : i \in {i \in {1, 2} : ended[i] \notin good}}
  BY <1>4, <1>7, <1>8
<1>16. (a \in reported'.again <=> ended[1] \notin good) /\ (b \in reported'.again <=> ended[2] \notin good)
  BY <1>5, <1>8, <1>15
<1>17. \A item \in reported'.items : item \in reported'.again <=>
          ~\E i \in DOMAIN stored' : stored'[i].profile = item.profile /\ stored'[i].status \in good
  <2>1. CASE ended[2] = "skipped"
    BY <1>4, <1>5, <1>6, <1>14, <1>15, <1>16, <2>1
  <2>2. CASE ended[2] # "skipped"
    BY <1>4, <1>5, <1>6, <1>13, <1>15, <1>16, <2>2
  <2> QED BY <2>1, <2>2
<1>18. 1 \in DOMAIN stored' /\ stored'[1] = ra /\ stored' # <<>>
  BY <1>4, <1>13, <1>14
<1>19. Traced(stored[1], found)'
  BY <1>6, <1>18 DEF Traced
<1>20. CapabilitiesDeclared'
  BY <1>4, <1>15, <1>17 DEF RecipesInv, CapabilitiesDeclared
<1>21. Places' = Places
  BY <1>4 DEF Places
<1> QED BY <1>4, <1>18, <1>19, <1>20, <1>21 DEF RecipesInv, Planned, Judged

\* Every step of a setup keeps the invariant.
LEMMA RecipesStep == RecipesInv /\ [RecipesNext]_recipes => RecipesInv'
<1> SUFFICES ASSUME RecipesInv, [RecipesNext]_recipes PROVE RecipesInv'
  OBVIOUS
<1>1. ASSUME UNCHANGED recipes PROVE RecipesInv'
  <2>0. Places' = Places BY <1>1 DEF recipes, Places
  <2>1. (Len(stored) = 1 => Traced(stored[1], found))' BY <1>1, <2>0 DEF recipes, RecipesInv, Traced
  <2>2. \A c : Superseded(c)' <=> Superseded(c) BY <1>1 DEF recipes, Superseded
  <2>3. CapabilitiesDeclared' BY <1>1, <2>2 DEF recipes, RecipesInv, CapabilitiesDeclared
  <2> QED BY <1>1, <2>0, <2>1, <2>3 DEF recipes, RecipesInv, Planned, Judged
<1>2. ASSUME NEW review \in Reviews, Review(review[1], review[2], review[3], review[4], review[5])
      PROVE  RecipesInv'
  BY <1>2, ReviewKeeps
<1> QED BY <1>1, <1>2, RunKeeps, QueueKeeps, LoseKeeps, VerifyKeeps, RollbackKeeps DEF RecipesNext

\* At first nothing is planned or recorded.
LEMMA RecipesInitially == RecipesInit => RecipesInv
<1> SUFFICES ASSUME RecipesInit PROVE RecipesInv
  OBVIOUS
<1>1. DOMAIN found = Places /\ Len(stored) = 0
  BY DEF RecipesInit
<1> QED BY <1>1 DEF RecipesInit, RecipesInv, CapabilitiesDeclared

\* Whatever recipe was authored and whatever the organisation allows, a plan that passes the
\* review uses declared and allowed capabilities only and gives secrets to the keychain step
\* only; a queue offers again exactly what has no record of success; and a verification
\* calls a claim true only of what is there, false only of what is gone, of a block in a file that
\* cannot be read, or of a block that a later step of the same recipe replaced.
THEOREM RecipesDeclared == RecipesSpec => []CapabilitiesDeclared
<1>1. RecipesInv => CapabilitiesDeclared
  BY DEF RecipesInv
<1> QED BY <1>1, RecipesInitially, RecipesStep, PTL DEF RecipesSpec

(***************************************************************************)
(* Screening: what is allowed, or shown as harmless, was seen to be so.    *)
(***************************************************************************)

\* A document of the registry is of one provider, its risk follows from its evidence, and
\* complete evidence of the baseline without a finding of a high rule is of an object that
\* is not dangerous.
Serious(a) == \E f \in a.findings : Rank(f.severity) >= Rank("high")

Evident(d) ==
    LET a == d.assessment IN
    /\ \E q : a.providers = {q} /\ q.status = a.status /\ d.key = <<a.object, q.id, q.version>>
    /\ \A f \in a.findings : f.severity \in ToSet(Severities)
    /\ a.risk = RiskFromEvidence(a.status, MaxSeverity(a.findings))
    /\ d.key[2] = "aart-baseline" /\ a.status = "complete" /\ ~Serious(a) =>
          \A o \in Subjects : o.digest = d.key[1] => ~Dangerous(o)

ScreeningInv ==
    /\ subject \in Subjects
    /\ \A p \in DOMAIN documents : Evident(documents[p])
    /\ index # None => \A p \in DOMAIN index.entries : Evident(index.entries[p])
    /\ DangerIsTold

\* The rank of a severity is its place.
LEMMA RankPlace ==
    /\ \A s \in ToSet(Severities) : Rank(s) \in 1 .. 5 /\ Severities[Rank(s)] = s
    /\ Rank("unknown") = 1 /\ Rank("low") = 2 /\ Rank("medium") = 3 /\ Rank("high") = 4
    /\ Rank("critical") = 5
<1>1. /\ DOMAIN Severities = 1 .. 5 /\ Severities[1] = "unknown" /\ Severities[2] = "low"
      /\ Severities[3] = "medium" /\ Severities[4] = "high" /\ Severities[5] = "critical"
  BY DEF Severities
<1>2. \A i \in 1 .. 5 : i = 1 \/ i = 2 \/ i = 3 \/ i = 4 \/ i = 5
  OBVIOUS
<1>3. \A i \in 1 .. 5 : Rank(Severities[i]) = i
  <2> SUFFICES ASSUME NEW i \in 1 .. 5 PROVE Rank(Severities[i]) = i
    OBVIOUS
  <2>1. \A j \in DOMAIN Severities : Severities[j] = Severities[i] => j = i
    BY <1>1, <1>2
  <2> QED BY <1>1, <2>1 DEF Rank
<1>4. \A s \in ToSet(Severities) : \E i \in 1 .. 5 : s = Severities[i]
  BY <1>1 DEF ToSet
<1> QED BY <1>1, <1>3, <1>4

\* Ranks have a greatest one.
LEMMA GreatestRank ==
    ASSUME NEW S, S \subseteq 1 .. 5, S # {}
    PROVE  Max(S) \in S /\ \A y \in S : Max(S) >= y
<1>1. \E x \in S : \A y \in S : x >= y
  <2>1. CASE 5 \in S BY <2>1
  <2>2. CASE 5 \notin S /\ 4 \in S BY <2>2
  <2>3. CASE 5 \notin S /\ 4 \notin S /\ 3 \in S BY <2>3
  <2>4. CASE 5 \notin S /\ 4 \notin S /\ 3 \notin S /\ 2 \in S BY <2>4
  <2>5. CASE 5 \notin S /\ 4 \notin S /\ 3 \notin S /\ 2 \notin S
    <3>1. \A i \in 1 .. 5 : i = 1 \/ i = 2 \/ i = 3 \/ i = 4 \/ i = 5 OBVIOUS
    <3>2. S = {1} BY <2>5, <3>1
    <3> QED BY <3>2
  <2> QED BY <2>1, <2>2, <2>3, <2>4, <2>5
<1> QED BY <1>1 DEF Max

\* The greatest severity of some findings is a severity.
LEMMA MaxSeverityKnown ==
    ASSUME NEW F, \A f \in F : f.severity \in ToSet(Severities)
    PROVE  MaxSeverity(F) \in ToSet(Severities)
<1> DEFINE S == {Rank(f.severity) : f \in F}
           m == MaxSeverity(F)
<1>1. CASE F = {}
  BY <1>1 DEF MaxSeverity, ToSet, Severities
<1>2. CASE F # {}
  <2>1. S \subseteq 1 .. 5 /\ S # {} BY <1>2, RankPlace
  <2>2. Max(S) \in S BY <2>1, GreatestRank
  <2>3. m = Severities[Max(S)] BY <1>2 DEF MaxSeverity
  <2> HIDE DEF m
  <2>4. m \in ToSet(Severities) BY <2>2, <2>3, RankPlace
  <2> QED BY <2>4 DEF m
<1> QED BY <1>1, <1>2

\* The risk that follows from findings is a severity.
LEMMA RiskKnown ==
    ASSUME NEW status, NEW F, \A f \in F : f.severity \in ToSet(Severities)
    PROVE  RiskFromEvidence(status, MaxSeverity(F)) \in ToSet(Severities)
<1>1. MaxSeverity(F) \in ToSet(Severities) BY MaxSeverityKnown
<1>2. {"unknown", "low"} \subseteq ToSet(Severities) BY DEF ToSet, Severities
<1> QED BY <1>1, <1>2 DEF RiskFromEvidence

\* Only complete evidence without a finding of a high rule has a low or medium risk.
LEMMA LowEvidence ==
    ASSUME NEW status, NEW F, \A f \in F : f.severity \in ToSet(Severities),
           RiskFromEvidence(status, MaxSeverity(F)) \in {"low", "medium"}
    PROVE  status = "complete" /\ \A f \in F : ~(Rank(f.severity) >= Rank("high"))
<1> DEFINE m == MaxSeverity(F)
           S == {Rank(f.severity) : f \in F}
<1>1. S \subseteq 1 .. 5
  BY RankPlace
<1>2. \A f \in F : Rank(f.severity) <= Rank(m) /\ Rank(m) \in 1 .. 5
  <2> SUFFICES ASSUME NEW f \in F PROVE Rank(f.severity) <= Rank(m) /\ Rank(m) \in 1 .. 5
    OBVIOUS
  <2>1. S # {} /\ Rank(f.severity) \in S
    OBVIOUS
  <2>2. Max(S) \in S /\ Max(S) >= Rank(f.severity)
    BY <1>1, <2>1, GreatestRank
  <2>3. m = Severities[Max(S)]
    BY DEF MaxSeverity
  <2> HIDE DEF m
  <2>4. PICK g \in F : Max(S) = Rank(g.severity)
    BY <2>2
  <2>5. m = g.severity
    BY <2>3, <2>4, RankPlace
  <2> QED BY <1>1, <2>1, <2>2, <2>4, <2>5
<1>3. m \in ToSet(Severities)
  BY MaxSeverityKnown
<1> HIDE DEF m
<1>4. Rank(m) \in 1 .. 5 BY <1>3, RankPlace
<1>5. RiskFromEvidence(status, m) \in {"low", "medium"} BY DEF m
<1>6. ~(Rank(m) >= Rank("high"))
  BY <1>5, RankPlace DEF RiskFromEvidence
<1>7. status = "complete"
  BY <1>4, <1>5, <1>6, RankPlace DEF RiskFromEvidence
<1> QED BY <1>1, <1>2, <1>6, <1>7, RankPlace

\* What the constructor of an assessment checks.
LEMMA Constructed ==
    ASSUME NEW o, NEW status, NEW coverage, NEW F, NEW P,
           SecurityAssessment(o, status, coverage, F, P) # None
    PROVE  LET a == SecurityAssessment(o, status, coverage, F, P) IN
           /\ a.object = o /\ a.status = status /\ a.findings = F /\ a.providers = P
           /\ a.risk = RiskFromEvidence(status, MaxSeverity(F))
           /\ \A f \in F : f.severity \in ToSet(Severities)
           /\ status = "complete" => CoverageComplete(coverage) /\ \A p \in P : p.status = "complete"
  BY DEF SecurityAssessment

\* What is said of one provider's document, but for what it means.
LEMMA ConstructedEvident ==
    ASSUME NEW o, NEW status, NEW coverage, NEW F, NEW q, NEW origin, NEW a,
           q.status = status, a = SecurityAssessment(o, status, coverage, F, {q}), a # None
    PROVE  /\ CacheKey(a) = <<o, q.id, q.version>>
           /\ (q.id = "aart-baseline" /\ status = "complete" /\ ~Serious(a) =>
                 \A x \in Subjects : x.digest = o => ~Dangerous(x)) => Evident(Attestation(a, origin))
<1> DEFINE d == Attestation(a, origin)
<1>1. /\ a.object = o /\ a.status = status /\ a.findings = F /\ a.providers = {q}
      /\ a.risk = RiskFromEvidence(status, MaxSeverity(F))
      /\ \A f \in F : f.severity \in ToSet(Severities)
  BY Constructed
<1>2. CacheKey(a) = <<o, q.id, q.version>>
  BY <1>1 DEF CacheKey
<1>3. d.key = <<o, q.id, q.version>> /\ d.assessment = a
  BY <1>2 DEF Attestation
<1>4. d.key[1] = o /\ d.key[2] = q.id
  BY <1>3
<1> HIDE DEF d
<1>5. (q.id = "aart-baseline" /\ status = "complete" /\ ~Serious(a) =>
         \A x \in Subjects : x.digest = o => ~Dangerous(x)) => Evident(d)
  BY <1>1, <1>3, <1>4 DEF Evident
<1> QED BY <1>2, <1>5 DEF d

\* Complete evidence of the baseline has every finding and leaves nothing out.
LEMMA CompleteBaseline ==
    ASSUME NEW o, NEW F, NEW skipped, NEW failed \in BOOLEAN, NEW origin,
           Assessment(o, F, skipped, failed) # None
    PROVE  LET a == Assessment(o, F, skipped, failed) IN
           /\ a.status = "complete" => skipped = {} /\ ~failed /\ a.findings = F
           /\ (a.status = "complete" /\ ~Serious(a) =>
                 \A x \in Subjects : x.digest = o => ~Dangerous(x)) => Evident(Attestation(a, origin))
<1> DEFINE bounded == DeduplicateAndBound(F)
           coverage == [completed |-> Cardinality(Categories \ skipped),
                        expected |-> Cardinality(Categories),
                        skipped |-> skipped \cup (IF bounded.truncated THEN {"findings"} ELSE {})]
           status == CASE failed -> "failed"
                       [] ~failed /\ CoverageComplete(coverage) -> "complete"
                       [] OTHER -> "partial"
           q == [id |-> "aart-baseline", version |-> 1, status |-> status, coverage |-> coverage]
           a == SecurityAssessment(o, status, coverage, bounded.findings, {q})
<1>1. Assessment(o, F, skipped, failed) = a
  BY DEF Assessment
<1>2. a # None BY <1>1
<1>3. status = "complete" => ~failed /\ CoverageComplete(coverage)
  OBVIOUS
<1>4. CoverageComplete(coverage) => coverage.skipped = {}
  BY DEF CoverageComplete
<1>5. coverage.skipped = {} => skipped = {} /\ ~bounded.truncated
  <2>1. coverage.skipped = skipped \cup (IF bounded.truncated THEN {"findings"} ELSE {})
    OBVIOUS
  <2>2. CASE bounded.truncated BY <2>1, <2>2
  <2>3. CASE ~bounded.truncated BY <2>1, <2>3
  <2> QED BY <2>2, <2>3
<1>6. ~bounded.truncated => bounded.findings = F
  BY DEF DeduplicateAndBound
<1> HIDE DEF bounded, coverage, status
<1>7. a.status = status /\ a.findings = bounded.findings
  BY <1>2, Constructed
<1>8. q.status = status /\ q.id = "aart-baseline" /\ q.version = 1
  OBVIOUS
<1> HIDE DEF q
<1>9. /\ CacheKey(a) = <<o, q.id, q.version>>
      /\ (q.id = "aart-baseline" /\ status = "complete" /\ ~Serious(a) =>
            \A x \in Subjects : x.digest = o => ~Dangerous(x)) => Evident(Attestation(a, origin))
  BY <1>2, <1>8, ConstructedEvident
<1> HIDE DEF a
<1> QED BY <1>1, <1>3, <1>4, <1>5, <1>6, <1>7, <1>8, <1>9

\* A hit in a file that was read is a finding.
LEMMA HitFound ==
    ASSUME NEW files, NEW f \in files, NEW rule \in f.hits \cap LookedFor(f),
           ~CredentialFindings(files).skipped, ~PythonFindings(files).skipped,
           ~JsonFindings(files).skipped, ~ShellFindings(files).skipped,
           ~TransportFindings(files).skipped
    PROVE  \/ Finding(rule, f.path) \in CredentialFindings(files).findings
           \/ Finding(rule, f.path) \in PythonFindings(files).findings
           \/ Finding(rule, f.path) \in JsonFindings(files).findings
           \/ Finding(rule, f.path) \in ShellFindings(files).findings
           \/ Finding(rule, f.path) \in TransportFindings(files).findings
<1>1. \/ TextLike(f) /\ rule \in {"embedded-credential", "insecure-transport"}
      \/ f.class = "python" /\ rule \in PythonHazards
      \/ f.class \in {"shell", "build"} /\ rule \in ShellLineRules
      \/ f.class = "json" /\ rule \in {"unpinned-container-image"} \cup McpRules(f)
  <2> DEFINE A == IF TextLike(f) THEN {"embedded-credential", "insecure-transport"} ELSE {}
             B == IF f.class = "python" THEN PythonHazards ELSE {}
             C == IF f.class \in {"shell", "build"} THEN ShellLineRules ELSE {}
             D == IF f.class = "json" THEN {"unpinned-container-image"} \cup McpRules(f) ELSE {}
  <2>1. rule \in UNION {A, B, C, D}
    BY Zenon DEF LookedFor
  <2>2. rule \in A => TextLike(f) /\ rule \in {"embedded-credential", "insecure-transport"} BY Zenon
  <2>3. rule \in B => f.class = "python" /\ rule \in PythonHazards BY Zenon
  <2>4. rule \in C => f.class \in {"shell", "build"} /\ rule \in ShellLineRules BY Zenon
  <2>5. rule \in D => f.class = "json" /\ rule \in {"unpinned-container-image"} \cup McpRules(f) BY Zenon
  <2> HIDE DEF A, B, C, D
  <2> QED BY <2>1, <2>2, <2>3, <2>4, <2>5
<1>2. ASSUME NEW S, NEW g \in S, ~Unread(S).skipped PROVE g.text = "ok"
  BY <1>2 DEF Unread
<1>3. CASE TextLike(f) /\ rule = "embedded-credential"
  <2> DEFINE read == {g \in files : TextLike(g)}
  <2>1. f \in read /\ ~Unread(read).skipped BY <1>3 DEF CredentialFindings
  <2>2. f.text = "ok" BY <1>2, <2>1
  <2> QED BY <1>3, <2>1, <2>2 DEF CredentialFindings, FindingsAt
<1>4. CASE TextLike(f) /\ rule = "insecure-transport"
  <2> DEFINE read == {g \in files : TextLike(g)}
  <2>1. f \in read /\ ~Unread(read).skipped BY <1>4 DEF TransportFindings
  <2>2. f.text = "ok" BY <1>2, <2>1
  <2> QED BY <1>4, <2>1, <2>2 DEF TransportFindings, FindingsAt
<1>5. CASE f.class = "python" /\ rule \in PythonHazards
  <2> DEFINE read == {g \in files : g.class = "python"}
  <2>1. f \in read /\ ~Unread(read).skipped BY <1>5 DEF PythonFindings
  <2>2. f.text = "ok" BY <1>2, <2>1
  <2>3. f.parse = "ok" BY <2>1, <2>2 DEF PythonFindings
  <2> QED BY <1>5, <2>1, <2>2, <2>3 DEF PythonFindings, FindingsAt
<1>6. CASE f.class \in {"shell", "build"} /\ rule \in ShellLineRules
  <2> DEFINE read == {g \in files : g.class \in {"shell", "build"}}
  <2>1. f \in read /\ ~Unread(read).skipped BY <1>6 DEF ShellFindings
  <2>2. f.text = "ok" BY <1>2, <2>1
  <2> QED BY <1>6, <2>1, <2>2 DEF ShellFindings, FindingsAt
<1>7. CASE f.class = "json" /\ rule \in {"unpinned-container-image"} \cup McpRules(f)
  <2> DEFINE read == {g \in files : g.class = "json"}
  <2>1. f \in read /\ ~Unread(read).skipped BY <1>7 DEF JsonFindings
  <2>2. f.text = "ok" BY <1>2, <2>1
  <2>3. f.parse = "ok" BY <2>1, <2>2 DEF JsonFindings
  <2> QED BY <1>7, <2>1, <2>2, <2>3 DEF JsonFindings, FindingsAt
<1> QED BY <1>1, <1>3, <1>4, <1>5, <1>6, <1>7

\* A setup of the author's own code is a critical finding.
LEMMA EntrypointCritical == Rules[RuleOrder("custom-setup-entrypoint")][2] = "critical"
<1>1. 1 \in DOMAIN Rules /\ Rules[1] = <<"custom-setup-entrypoint", "critical">>
  BY DEF Rules
<1>2. \A i \in DOMAIN Rules : Rules[i][1] = "custom-setup-entrypoint" => i = 1
  <2> SUFFICES ASSUME NEW i \in DOMAIN Rules, i # 1 PROVE Rules[i][1] # "custom-setup-entrypoint"
    OBVIOUS
  <2>1. DOMAIN Rules = 1 .. 57 BY DEF Rules
  <2>2. \/ i = 1 \/ i = 2 \/ i = 3 \/ i = 4 \/ i = 5 \/ i = 6 \/ i = 7 \/ i = 8 \/ i = 9
        \/ i = 10 \/ i = 11 \/ i = 12 \/ i = 13 \/ i = 14 \/ i = 15 \/ i = 16 \/ i = 17 \/ i = 18
        \/ i = 19 \/ i = 20 \/ i = 21 \/ i = 22 \/ i = 23 \/ i = 24 \/ i = 25 \/ i = 26 \/ i = 27
        \/ i = 28 \/ i = 29 \/ i = 30 \/ i = 31 \/ i = 32 \/ i = 33 \/ i = 34 \/ i = 35 \/ i = 36
        \/ i = 37 \/ i = 38 \/ i = 39 \/ i = 40 \/ i = 41 \/ i = 42 \/ i = 43 \/ i = 44 \/ i = 45
        \/ i = 46 \/ i = 47 \/ i = 48 \/ i = 49 \/ i = 50 \/ i = 51 \/ i = 52 \/ i = 53 \/ i = 54
        \/ i = 55 \/ i = 56 \/ i = 57
    BY <2>1
  <2> QED BY <2>2 DEF Rules
<1> QED BY <1>1, <1>2 DEF RuleOrder

\* The baseline on an object.
LEMMA BaselineClean ==
    ASSUME NEW o \in Subjects, NEW lock, NEW origin,
           AssessInstallationRisk(o, Indexed(o), lock) # None
    PROVE  Evident(Attestation(AssessInstallationRisk(o, Indexed(o), lock), origin))
<1> DEFINE indexed == Indexed(o)
           metadata == MetadataFindings(o, indexed)
           provenance == ProvenanceFindings(o, indexed, lock)
           declared == DeclaredFindings(o, indexed)
           scans == [credentials |-> CredentialFindings(o.files),
                     python |-> PythonFindings(o.files),
                     json |-> JsonFindings(o.files),
                     shell |-> ShellFindings(o.files),
                     transport |-> TransportFindings(o.files)]
           category == [credentials |-> "credentials", python |-> "python-ast", json |-> "json-mcp",
                        shell |-> "shell", transport |-> "transport-pinning"]
           skipped == {c \in {"metadata"} : metadata.failed}
                        \cup {c \in {"provenance-lock"} : provenance.incomplete \/ provenance.failed}
                        \cup {c \in {"declared-effects"} : declared.incomplete}
                        \cup {category[s] : s \in {s \in DOMAIN scans : scans[s].skipped}}
           F == metadata.findings \cup provenance.findings \cup declared.findings
                  \cup UNION {scans[s].findings : s \in DOMAIN scans}
           failed == metadata.failed \/ provenance.failed
           a == AssessInstallationRisk(o, indexed, lock)
<1>1. a = Assessment(o.digest, F, skipped, failed)
  BY DEF AssessInstallationRisk
<1>2. DOMAIN scans = {"credentials", "python", "json", "shell", "transport"}
      /\ scans["credentials"] = CredentialFindings(o.files) /\ scans["python"] = PythonFindings(o.files)
      /\ scans["json"] = JsonFindings(o.files) /\ scans["shell"] = ShellFindings(o.files)
      /\ scans["transport"] = TransportFindings(o.files)
  OBVIOUS
<1> HIDE DEF scans, category
<1>3. ASSUME skipped = {}
      PROVE  /\ ~metadata.failed /\ ~declared.incomplete
             /\ \A s \in DOMAIN scans : ~scans[s].skipped
  BY <1>3
<1>4. metadata.findings \subseteq F /\ declared.findings \subseteq F
      /\ \A s \in DOMAIN scans : scans[s].findings \subseteq F
  OBVIOUS
<1>5. o.manifest = None => metadata.failed
  BY DEF MetadataFindings
<1>6. ASSUME o.recipe # None, o.recipe # [capabilities |-> {"process"}, custom |-> FALSE, valid |-> TRUE]
      PROVE  declared.incomplete \/ \E f \in declared.findings : f.severity = "critical"
  <2> DEFINE r == o.recipe
             undeclared == IF indexed.setup = {} THEN {"setup-capabilities-undeclared"} ELSE {}
             rules == CASE r = None -> {"setup-recipe-missing"}
                        [] r # None /\ ~r.valid -> {"setup-recipe-invalid"}
                        [] OTHER -> (IF r.capabilities # indexed.setup THEN {"setup-capability-mismatch"} ELSE {})
                                      \cup (IF r.custom THEN {"custom-setup-entrypoint"} ELSE {})
  <2>1. indexed.setup = {"process"} /\ indexed.setup # None
    BY <1>6, ScreeningAssumption DEF Indexed
  <2>2. PICK noted : /\ rules \subseteq noted
                     /\ declared.findings = FindingsAt(noted, None)
                     /\ declared.incomplete <=>
                          noted \cap {"setup-capabilities-undeclared", "setup-recipe-missing",
                                      "setup-recipe-invalid", "setup-capability-mismatch"} # {}
    <3> DEFINE effects == {"install-effect-" \o e : e \in indexed.effects}
               capability(c) == IF \E i \in DOMAIN Rules : Rules[i][1] = "setup-capability-" \o c
                                THEN "setup-capability-" \o c ELSE "setup-capability-unknown"
               noted == effects \cup undeclared \cup {capability(c) : c \in indexed.setup} \cup rules
    <3> HIDE DEF indexed
    <3>1. declared = [findings |-> FindingsAt(noted, None),
                      incomplete |-> noted \cap {"setup-capabilities-undeclared", "setup-recipe-missing",
                                                 "setup-recipe-invalid", "setup-capability-mismatch"} # {}]
      BY <2>1, Zenon DEF DeclaredFindings
    <3>2. rules \subseteq noted
      BY Zenon
    <3> HIDE DEF noted, rules
    <3>3. /\ declared.findings = FindingsAt(noted, None)
          /\ declared.incomplete <=>
                noted \cap {"setup-capabilities-undeclared", "setup-recipe-missing",
                            "setup-recipe-invalid", "setup-capability-mismatch"} # {}
      <4> DEFINE b == noted \cap {"setup-capabilities-undeclared", "setup-recipe-missing",
                                  "setup-recipe-invalid", "setup-capability-mismatch"} # {}
      <4>1. declared = [findings |-> FindingsAt(noted, None), incomplete |-> b] BY <3>1
      <4> HIDE DEF b, declared
      <4>2. declared.findings = FindingsAt(noted, None) BY <4>1
      <4>3. declared.incomplete = b BY <4>1
      <4> QED BY <4>2, <4>3, Zenon DEF b
    <3> QED BY <3>2, <3>3, Zenon
  <2>3. r \in [capabilities : SUBSET STRING, custom : BOOLEAN, valid : BOOLEAN]
    BY <1>6, ScreeningAssumption
  <2> HIDE DEF indexed, declared
  <2>4. CASE ~r.valid
    <3>1. "setup-recipe-invalid" \in rules BY <1>6, <2>4
    <3> QED BY <2>2, <3>1
  <2>5. CASE r.valid /\ r.capabilities # {"process"}
    <3>1. "setup-capability-mismatch" \in rules BY <1>6, <2>1, <2>5
    <3> QED BY <2>2, <3>1
  <2>6. CASE r.valid /\ r.custom
    <3>1. "custom-setup-entrypoint" \in rules BY <1>6, <2>6
    <3>2. Finding("custom-setup-entrypoint", None) \in declared.findings
      BY <2>2, <3>1 DEF FindingsAt
    <3> QED BY <3>2, EntrypointCritical DEF Finding
  <2>7. r.valid /\ r.capabilities = {"process"} /\ ~r.custom =>
          r = [capabilities |-> {"process"}, custom |-> FALSE, valid |-> TRUE]
    BY <2>3
  <2> QED BY <1>6, <2>4, <2>5, <2>6, <2>7
<1> HIDE DEF metadata, provenance, declared, indexed
<1>7. failed \in BOOLEAN
  OBVIOUS
<1> HIDE DEF failed, skipped, F
<1>8. /\ a.status = "complete" => skipped = {} /\ ~failed /\ a.findings = F
      /\ (a.status = "complete" /\ ~Serious(a) =>
            \A x \in Subjects : x.digest = o.digest => ~Dangerous(x)) => Evident(Attestation(a, origin))
  <2>1. Assessment(o.digest, F, skipped, failed) # None BY <1>1 DEF indexed
  <2> HIDE DEF a
  <2> QED BY <1>1, <1>7, <2>1, CompleteBaseline
<1> HIDE DEF a
<1>9. ASSUME a.status = "complete", ~Serious(a) PROVE ~Dangerous(o)
  <2>1. skipped = {} /\ a.findings = F BY <1>8, <1>9
  <2>2. o.manifest # None BY <1>3, <1>5, <2>1
  <2>3. ~(o.recipe # None /\ o.recipe # [capabilities |-> {"process"}, custom |-> FALSE, valid |-> TRUE])
    BY <1>3, <1>4, <1>6, <1>9, <2>1, RankPlace DEF Serious
  <2>4. ASSUME NEW f \in o.files, NEW rule \in f.hits \cap RuleIds
        PROVE  ~(Rank(Rules[RuleOrder(rule)][2]) >= Rank("high"))
    <3>1. rule \in f.hits \cap LookedFor(f) BY ScreeningAssumption
    <3>2. PICK s \in DOMAIN scans : Finding(rule, f.path) \in scans[s].findings
      BY <1>2, <1>3, <2>1, <3>1, HitFound
    <3>3. Finding(rule, f.path) \in a.findings BY <1>4, <2>1, <3>2
    <3>4. Finding(rule, f.path).severity = Rules[RuleOrder(rule)][2] BY DEF Finding
    <3> QED BY <1>9, <3>3, <3>4 DEF Serious
  <2> QED BY <2>2, <2>3, <2>4 DEF Dangerous
<1>10. \A x \in Subjects : x.digest = o.digest => x = o
  BY ScreeningAssumption
<1> QED BY <1>8, <1>9, <1>10 DEF a, indexed

\* Another provider's document says nothing of the baseline.
LEMMA OtherEvident ==
    ASSUME NEW o, NEW tried, NEW origin, tried.provider # "aart-baseline",
           ToSecurityAssessment(o, tried) # None
    PROVE  Evident(Attestation(ToSecurityAssessment(o, tried), origin))
<1> DEFINE q == [id |-> tried.provider, version |-> tried.descriptor.version,
                 status |-> tried.status, coverage |-> tried.coverage]
           a == ToSecurityAssessment(o, tried)
<1>1. a = SecurityAssessment(o, tried.status, tried.coverage, tried.findings, {q})
  BY DEF ToSecurityAssessment
<1>2. q.status = tried.status /\ q.id # "aart-baseline"
  OBVIOUS
<1> HIDE DEF q, a
<1>3. a # None BY DEF a
<1>4. Evident(Attestation(a, origin))
  BY <1>1, <1>2, <1>3, ConstructedEvident
<1> QED BY <1>4 DEF a

\* An attempt is of the provider that was asked.
LEMMA ProtocolProvider ==
    ASSUME NEW command, NEW input, NEW handshake, NEW scan, NEW network \in BOOLEAN
    PROVE  RunProtocolAnalyzer(command, input, handshake, scan, network).provider = command.provider
<1> DEFINE descriptor == ParseHandshake(handshake.document, command.provider)
           parsed == ParseScanResult(scan.document, descriptor, input)
           R == RunProtocolAnalyzer(command, input, handshake, scan, network)
<1>1. \A status, d : AttemptWithout(command.provider, input.object, status, d).provider = command.provider
  BY DEF AttemptWithout
<1>2. descriptor # None => descriptor.id = command.provider
  BY DEF ParseHandshake
<1>3. parsed # None => parsed.provider = descriptor.id
  BY DEF ParseScanResult
<1> HIDE DEF descriptor, parsed
<1>4. \/ R = AttemptWithout(command.provider, input.object, "not-scanned", None)
      \/ R = AttemptWithout(command.provider, input.object, "failed", None)
      \/ R = AttemptWithout(command.provider, input.object, "not-scanned", descriptor)
      \/ R = AttemptWithout(command.provider, input.object, "failed", descriptor)
      \/ descriptor # None /\ parsed # None /\ R = parsed
  BY DEF RunProtocolAnalyzer, descriptor, parsed
<1> HIDE DEF R
<1>5. R.provider = command.provider
  BY <1>1, <1>2, <1>3, <1>4
<1> QED BY <1>5 DEF R

\* An attempt with a tool is of the tool.
LEMMA ToolProvider ==
    ASSUME NEW tool, NEW executable, NEW input, NEW version, NEW scan, NEW network \in BOOLEAN
    PROVE  RunToolAdapter(tool, executable, input, version, scan, network).provider = tool
  BY DEF RunToolAdapter, AttemptWithout

\* A document that is added.
LEMMA AttestKeeps ==
    ASSUME ScreeningInv, NEW a, Attest(a), Evident(Attestation(a, Origin)),
           verdict' = None, subject' = subject, index' = index
    PROVE  ScreeningInv'
<1>1. documents' = [p \in DOMAIN documents \cup {CacheKey(a)} |->
                      IF p = CacheKey(a) THEN Attestation(a, Origin) ELSE documents[p]]
  BY DEF Attest
<1>2. \A p \in DOMAIN documents' : documents'[p] \in {Attestation(a, Origin)} \cup {documents[q] : q \in DOMAIN documents}
  BY <1>1
<1>3. \A p \in DOMAIN documents' : Evident(documents'[p])
  BY <1>2 DEF ScreeningInv
<1> QED BY <1>3 DEF ScreeningInv, DangerIsTold

\* The merged evidence shows a low or medium risk only where the baseline does.
LEMMA MergedClean ==
    ASSUME NEW resolved, NEW coordinate, NEW digest, MergedSecurityEvidence(coordinate, resolved) # None,
           \A r \in resolved : \E d : Evident(d) /\ d.key[1] = digest /\ r.assessment = d.assessment,
           LET a == MergedSecurityEvidence(coordinate, resolved).assessment IN
           a.risk \in {"low", "medium"} /\ "aart-baseline" \in {p.id : p \in a.providers}
    PROVE  \A o \in Subjects : o.digest = digest => ~Dangerous(o)
<1> DEFINE provider(r) == CHOOSE p \in r.assessment.providers : TRUE
           selected == {r \in resolved : \A s \in resolved :
                          provider(s).id = provider(r).id => provider(s).version <= provider(r).version}
           providers == {provider(r) : r \in selected}
           F == UNION {r.assessment.findings : r \in selected}
           e == MergedSecurityEvidence(coordinate, resolved)
<1>1. PICK o, status, coverage :
        /\ e.assessment = SecurityAssessment(o, status, coverage, F, providers)
        /\ e.assessment # None
  BY DEF MergedSecurityEvidence
<1> DEFINE a == SecurityAssessment(o, status, coverage, F, providers)
<1>2. /\ a.providers = providers /\ a.risk = RiskFromEvidence(status, MaxSeverity(F))
      /\ \A f \in F : f.severity \in ToSet(Severities)
      /\ status = "complete" => \A p \in providers : p.status = "complete"
  <2> HIDE DEF F, providers
  <2> QED BY <1>1, Constructed
<1>3. status = "complete" /\ \A f \in F : ~(Rank(f.severity) >= Rank("high"))
  <2> HIDE DEF F, providers
  <2> QED BY <1>1, <1>2, LowEvidence
<1>4. PICK r \in selected : provider(r).id = "aart-baseline"
  <2>1. "aart-baseline" \in {p.id : p \in providers}
    <3> HIDE DEF F, providers
    <3> QED BY <1>1, <1>2
  <2>2. PICK p \in providers : p.id = "aart-baseline" BY <2>1
  <2>3. PICK r \in selected : p = provider(r) BY <2>2
  <2> QED BY <2>2, <2>3
<1>5. provider(r).status = "complete"
  BY <1>2, <1>3
<1>6. PICK d : Evident(d) /\ d.key[1] = digest /\ r.assessment = d.assessment
  OBVIOUS
<1>7. PICK q : r.assessment.providers = {q} /\ q.status = r.assessment.status
               /\ d.key = <<r.assessment.object, q.id, q.version>>
  BY <1>6 DEF Evident
<1>8. provider(r) = q BY <1>7
<1>9. d.key[2] = "aart-baseline" /\ r.assessment.status = "complete"
  BY <1>4, <1>5, <1>7, <1>8
<1>10. ~Serious(r.assessment)
  BY <1>3 DEF Serious
<1> QED BY <1>6, <1>9, <1>10 DEF Evident

\* Merged evidence is of the artifact that was asked for, and has a risk.
LEMMA MergedKnown ==
    ASSUME NEW resolved, NEW coordinate, MergedSecurityEvidence(coordinate, resolved) # None
    PROVE  LET e == MergedSecurityEvidence(coordinate, resolved) IN
           e.coordinate = coordinate /\ e.assessment.risk \in ToSet(Severities)
<1> DEFINE e == MergedSecurityEvidence(coordinate, resolved)
<1>1. e.coordinate = coordinate /\
      \E o, status, coverage, F, P :
        e.assessment = SecurityAssessment(o, status, coverage, F, P) /\ e.assessment # None
  BY DEF MergedSecurityEvidence
<1> HIDE DEF e
<1>2. PICK o, status, coverage, F, P :
        e.assessment = SecurityAssessment(o, status, coverage, F, P) /\ e.assessment # None
  BY <1>1
<1>3. e.assessment.risk = RiskFromEvidence(status, MaxSeverity(F)) /\ \A f \in F : f.severity \in ToSet(Severities)
  BY <1>2, Constructed
<1>4. e.assessment.risk \in ToSet(Severities)
  BY <1>3, RiskKnown
<1> QED BY <1>1, <1>4 DEF e

\* An action's rank is its place.
LEMMA ActionPlace ==
    ASSUME NEW a \in ToSet(PolicyActions)
    PROVE  PolicyRank(a) \in 1 .. 4 /\ PolicyActions[PolicyRank(a)] = a
<1>1. DOMAIN PolicyActions = 1 .. 4 BY DEF PolicyActions
<1>2. PICK i \in 1 .. 4 : PolicyActions[i] = a
  BY <1>1 DEF ToSet
<1> QED BY <1>1, <1>2 DEF PolicyRank

\* Each place has one action.
LEMMA PlaceAction ==
    ASSUME NEW i \in 1 .. 4
    PROVE  PolicyRank(PolicyActions[i]) = i
<1>1. DOMAIN PolicyActions = 1 .. 4 BY DEF PolicyActions
<1>2. \A m, n \in 1 .. 4 : PolicyActions[m] = PolicyActions[n] => m = n
  <2>1. \A m \in 1 .. 4 : m = 1 \/ m = 2 \/ m = 3 \/ m = 4 OBVIOUS
  <2> QED BY <2>1 DEF PolicyActions
<1>3. \E m \in DOMAIN PolicyActions : PolicyActions[m] = PolicyActions[i]
  BY <1>1
<1> QED BY <1>1, <1>2, <1>3 DEF PolicyRank

\* The answer is at least what each trigger asks for.
LEMMA StrongestAction ==
    ASSUME NEW T, T \subseteq ToSet(PolicyActions), NEW a \in T
    PROVE  PolicyRank(PolicyActions[Max({PolicyRank(t) : t \in T})]) >= PolicyRank(a)
<1> DEFINE S == {PolicyRank(t) : t \in T}
<1>1. \A t \in T : PolicyRank(t) \in 1 .. 4 BY ActionPlace
<1>2. S \subseteq 1 .. 5 /\ PolicyRank(a) \in S
  <2>1. \A i \in 1 .. 4 : i \in 1 .. 5 OBVIOUS
  <2> QED BY <1>1, <2>1
<1>3. S \subseteq 1 .. 4 BY <1>1
<1> HIDE DEF S
<1>4. Max(S) \in S /\ Max(S) >= PolicyRank(a) BY <1>2, GreatestRank
<1>5. PolicyRank(PolicyActions[Max(S)]) = Max(S) BY <1>3, <1>4, PlaceAction
<1> QED BY <1>4, <1>5 DEF S

\* Evidence of one artifact whose risk is not low or medium, or that lacks the baseline,
\* gets an answer that the policy leaves to danger.
LEMMA DangerAnswered ==
    ASSUME NEW e, e.assessment.risk \in ToSet(Severities), NEW p \in InstallPolicies, NEW scope \in p.scopes,
           \/ e.assessment.risk \notin {"low", "medium"}
           \/ "aart-baseline" \notin {q.id : q \in e.assessment.providers}
    PROVE  \E a \in LeftToDanger(p, {q.id : q \in e.assessment.providers}) :
              PolicyRank(EvaluateSecurityPolicy({e}, p, scope)) >= PolicyRank(a)
<1> DEFINE E == {e}
           by == {q.id : q \in e.assessment.providers}
           summary == SummarizeBundleSecurity(E)
           risk == e.assessment.risk
           A == IF summary.unknownArtifacts # {} THEN {p.unknown} ELSE {}
           B == IF summary.staleArtifacts # {} THEN {p.stale} ELSE {}
           C == IF \E x \in E : x.assessment.status = "failed" THEN {p.failed} ELSE {}
           D == CASE summary.worst = "critical" -> {p.critical} [] summary.worst = "high" -> {p.high} [] OTHER -> {}
           G == IF p.minimumTrust # None /\ \E x \in E : TrustRank(x.trust) < TrustRank(p.minimumTrust)
                THEN {p.insufficientTrust} ELSE {}
           H == IF \E x \in E : ~(p.required \subseteq {q.id : q \in x.assessment.providers})
                THEN {p.missingProvider} ELSE {}
           triggered == A \cup B \cup C \cup D \cup G \cup H
           answer == EvaluateSecurityPolicy(E, p, scope)
<1>1. answer = IF triggered = {} THEN "allow" ELSE PolicyActions[Max({PolicyRank(a) : a \in triggered})]
  BY DEF EvaluateSecurityPolicy
<1>2. triggered \subseteq ToSet(PolicyActions)
  <2>0. {p.unknown, p.stale, p.failed, p.critical, p.high, p.insufficientTrust, p.missingProvider}
          \subseteq ToSet(PolicyActions)
    BY ScreeningAssumption
  <2>1. /\ A \subseteq {p.unknown} /\ B \subseteq {p.stale} /\ C \subseteq {p.failed}
        /\ D \subseteq {p.critical, p.high} /\ G \subseteq {p.insufficientTrust} /\ H \subseteq {p.missingProvider}
    OBVIOUS
  <2> HIDE DEF A, B, C, D, G, H
  <2> QED BY <2>0, <2>1
<1>3. ASSUME NEW a \in triggered PROVE PolicyRank(answer) >= PolicyRank(a)
  <2> HIDE DEF triggered, answer
  <2>1. answer = PolicyActions[Max({PolicyRank(t) : t \in triggered})] BY <1>1, <1>3
  <2> QED BY <1>2, <1>3, <2>1, StrongestAction
<1>4. A \subseteq triggered /\ D \subseteq triggered /\ H \subseteq triggered
  <2> HIDE DEF A, B, C, D, G, H
  <2> QED OBVIOUS
<1> DEFINE known == {x \in E : x.assessment.risk # "unknown"}
           ranks == {Rank(x.assessment.risk) : x \in known}
           worst == IF known = {} THEN "unknown" ELSE Severities[Max(ranks)]
<1>5. ~Conflicting(E)
  BY DEF Conflicting
<1>6. /\ summary.unknownArtifacts = {x.coordinate : x \in E \ known}
      /\ summary.worst = worst
  BY <1>5 DEF SummarizeBundleSecurity
<1>7. Rank(risk) \in 1 .. 5 /\ Severities[Rank(risk)] = risk
  BY RankPlace
<1>8. risk \in {"unknown", "low", "medium", "high", "critical"}
  BY <1>7, \A i \in 1 .. 5 : i = 1 \/ i = 2 \/ i = 3 \/ i = 4 \/ i = 5 DEF Severities
<1>9. risk # "unknown" => worst = risk
  <2> SUFFICES ASSUME risk # "unknown" PROVE worst = risk
    OBVIOUS
  <2>1. ranks = {Rank(risk)} /\ known # {}
    OBVIOUS
  <2>2. Max({Rank(risk)}) = Rank(risk)
    BY <1>7, GreatestRank
  <2> HIDE DEF ranks, known
  <2> QED BY <1>7, <2>1, <2>2
<1>10. CASE risk = "unknown"
  <2>1. summary.unknownArtifacts # {} BY <1>6, <1>10
  <2>2. p.unknown \in triggered BY <1>4, <2>1
  <2> QED BY <1>3, <2>2 DEF LeftToDanger
<1>11. CASE risk \in {"high", "critical"}
  <2>1. summary.worst = risk BY <1>6, <1>9, <1>11
  <2>2. D = IF risk = "critical" THEN {p.critical} ELSE {p.high} BY <1>11, <2>1
  <2>3. p.critical \in triggered \/ p.high \in triggered BY <1>4, <2>2
  <2> QED BY <1>3, <2>3 DEF LeftToDanger
<1>12. CASE "aart-baseline" \notin by /\ "aart-baseline" \in p.required
  <2>1. p.missingProvider \in triggered BY <1>4, <1>12
  <2> QED BY <1>3, <1>12, <2>1 DEF LeftToDanger
<1>13. CASE "aart-baseline" \notin by /\ "aart-baseline" \notin p.required
  <2>1. "allow" \in LeftToDanger(p, by) BY <1>13 DEF LeftToDanger
  <2>2. "allow" \in ToSet(PolicyActions) /\ PolicyRank("allow") = 1
    <3>1. PolicyActions[1] = "allow" /\ 1 \in DOMAIN PolicyActions BY DEF PolicyActions
    <3> QED BY <3>1, PlaceAction DEF ToSet
  <2>3. PolicyRank(answer) >= 1
    <3>1. CASE triggered = {}
      <4> HIDE DEF answer, triggered
      <4>1. answer = "allow" BY <1>1, <3>1
      <4> QED BY <2>2, <4>1
    <3>2. CASE triggered # {}
      <4>1. PICK a \in triggered : TRUE BY <3>2
      <4>2. PolicyRank(a) \in 1 .. 4 BY <1>2, <4>1, ActionPlace
      <4> HIDE DEF answer, triggered
      <4>3. PolicyRank(answer) >= PolicyRank(a) BY <1>3, <4>1
      <4>4. PolicyRank(answer) \in Int
        <5>1. {PolicyRank(t) : t \in triggered} \subseteq 1 .. 5
          <6>1. \A t \in triggered : PolicyRank(t) \in 1 .. 4 BY <1>2, ActionPlace
          <6>2. \A i \in 1 .. 4 : i \in 1 .. 5 OBVIOUS
          <6> QED BY <6>1, <6>2
        <5>2. {PolicyRank(t) : t \in triggered} \subseteq 1 .. 4 BY <1>2, ActionPlace
        <5>3. Max({PolicyRank(t) : t \in triggered}) \in 1 .. 4 BY <3>2, <5>1, <5>2, GreatestRank
        <5> QED BY <1>1, <3>2, <5>3, PlaceAction
      <4> QED BY <4>2, <4>3, <4>4
    <3> QED BY <3>1, <3>2
  <2>4. \E a \in LeftToDanger(p, by) : PolicyRank(answer) >= PolicyRank(a)
    <3> HIDE DEF answer, by
    <3> QED BY <2>1, <2>2, <2>3
  <2> QED BY <2>4
<1> QED BY <1>8, <1>10, <1>11, <1>12, <1>13

\* The evidence a consumer has of the artifact is merged from documents of the index.
LEMMA JudgedClean ==
    ASSUME ScreeningInv, NEW trust, NEW altered, NEW p \in InstallPolicies, NEW scope, index # None,
           Judge(trust, altered, p, scope)
    PROVE  ScreeningInv'
<1> DEFINE read == [q \in DOMAIN documents |-> IF q \in altered THEN Altered(documents[q]) ELSE documents[q]]
           item == [coordinate |-> "x", object |-> subject.digest, trust |-> trust]
           context == [source |-> index.registry, inputs |-> index.inputs, trust |-> trust]
           paths == {q \in DOMAIN read : read[q].key[1] = subject.digest}
           resolved == {ResolveAttestation(read[q], read[q].key, context) : q \in paths}
           e == MergedSecurityEvidence("x", resolved)
           evidence == RegistrySecurityEvidence(index, read, "registry", subject.digest, {item})
<1>1. /\ verdict' = [policy |-> IF evidence = {} \/ scope \notin p.scopes THEN None ELSE p,
                     action |-> IF evidence = {} THEN None ELSE EvaluateSecurityPolicy(evidence, p, scope),
                     shown |-> ShownSecurity("x", evidence),
                     by |-> UNION {{q.id : q \in x.assessment.providers} : x \in evidence}]
      /\ subject' = subject /\ documents' = documents /\ index' = index
  BY DEF Judge
<1> HIDE DEF read
<1>2. \/ evidence = {}
      \/ VerifySecurityIndex(index, read) /\ evidence = {e} \ {None}
  <2> DEFINE merged(i) ==
               MergedSecurityEvidence(i.coordinate,
                   {ResolveAttestation(read[q], read[q].key,
                        [source |-> index.registry, inputs |-> index.inputs, trust |-> i.trust]) :
                      q \in {q \in DOMAIN read : read[q].key[1] = i.object}})
  <2>1. evidence = {} \/ (VerifySecurityIndex(index, read) /\ evidence = {merged(i) : i \in {item}} \ {None})
    BY Zenon DEF RegistrySecurityEvidence
  <2>2. item.coordinate = "x" /\ item.object = subject.digest /\ item.trust = trust
    OBVIOUS
  <2>3. merged(item) = e
    <3> HIDE DEF item
    <3> QED BY <2>2
  <2> HIDE DEF item, merged, e, evidence
  <2> QED BY <2>1, <2>3
<1>3. ASSUME VerifySecurityIndex(index, read), e # None,
             e.assessment.risk \in {"low", "medium"}, "aart-baseline" \in {q.id : q \in e.assessment.providers}
      PROVE  ~Dangerous(subject)
  <2>1. \A r \in resolved : \E d : Evident(d) /\ d.key[1] = subject.digest /\ r.assessment = d.assessment
    <3> SUFFICES ASSUME NEW q \in paths
                 PROVE  \E d : /\ Evident(d) /\ d.key[1] = subject.digest
                               /\ ResolveAttestation(read[q], read[q].key, context).assessment = d.assessment
      OBVIOUS
    <3>1. Evident(read[q]) BY <1>3 DEF VerifySecurityIndex, ScreeningInv
    <3>2. ResolveAttestation(read[q], read[q].key, context).assessment = read[q].assessment
      BY DEF ResolveAttestation
    <3> QED BY <3>1, <3>2
  <2> HIDE DEF resolved
  <2> QED BY <1>3, <2>1, MergedClean DEF ScreeningInv
<1>4. e # None => e.coordinate = "x" /\ e.assessment.risk \in ToSet(Severities)
  BY MergedKnown
<1>5. CASE evidence = {}
  <2>1. verdict'.policy = None /\ verdict'.shown = <<"not-scanned", "unknown">>
    BY <1>1, <1>5 DEF ShownSecurity
  <2>2. verdict'.shown[2] = "unknown" BY <2>1
  <2>3. DangerIsTold' BY <2>1, <2>2 DEF DangerIsTold
  <2> QED BY <1>1, <2>3 DEF ScreeningInv
<1>6. CASE evidence # {}
  <2>1. VerifySecurityIndex(index, read) /\ e # None /\ evidence = {e}
    BY <1>2, <1>6
  <2> HIDE DEF evidence, e
  <2>2. /\ verdict'.action = EvaluateSecurityPolicy({e}, p, scope)
        /\ verdict'.by = {q.id : q \in e.assessment.providers}
        /\ verdict'.policy # None => verdict'.policy = p /\ scope \in p.scopes
    BY <1>1, <2>1
  <2>3. verdict'.shown[2] = e.assessment.risk
    BY <1>1, <1>4, <2>1 DEF ShownSecurity
  <2>4. ASSUME Dangerous(subject) PROVE
          \/ e.assessment.risk \notin {"low", "medium"}
          \/ "aart-baseline" \notin {q.id : q \in e.assessment.providers}
    BY <1>3, <2>1, <2>4
  <2>5. ASSUME Dangerous(subject), verdict'.policy # None PROVE
          \E a \in LeftToDanger(verdict'.policy, verdict'.by) : PolicyRank(verdict'.action) >= PolicyRank(a)
    <3>1. \E a \in LeftToDanger(p, {q.id : q \in e.assessment.providers}) :
             PolicyRank(EvaluateSecurityPolicy({e}, p, scope)) >= PolicyRank(a)
      BY <1>4, <2>1, <2>2, <2>4, <2>5, DangerAnswered
    <3> QED BY <2>2, <2>5, <3>1
  <2>6. DangerIsTold'
    <3>1. Dangerous(subject') = Dangerous(subject) BY <1>1
    <3> QED BY <2>2, <2>3, <2>4, <2>5, <3>1 DEF DangerIsTold
  <2> QED BY <1>1, <2>6 DEF ScreeningInv
<1> QED BY <1>5, <1>6

\* A verification reports on the object only evidence of that object.
LEMMA VerifiedClean == ASSUME ScreeningInv, NEW p \in DOMAIN documents, VerifyDocument(p) PROVE ScreeningInv'
<1> DEFINE d == documents[p]
           report == VerifyCommand(d, subject.digest, None)
           expected == <<subject.digest, d.key[2], d.key[3]>>
<1>1. /\ verdict' = [policy |-> None, action |-> None, shown |-> <<report.status, report.risk>>,
                     by |-> IF report.ok THEN {d.key[2]} ELSE {}]
      /\ subject' = subject /\ documents' = documents /\ index' = index
  BY DEF VerifyDocument
<1>2. Evident(d) BY DEF ScreeningInv
<1> HIDE DEF d
<1>3. /\ report.ok <=> d.key = expected
      /\ d.key = expected => report.risk = d.assessment.risk
  BY DEF VerifyCommand, ResolveAttestation
<1> HIDE DEF report
<1>4. ASSUME report.risk \in {"low", "medium"}, "aart-baseline" \in verdict'.by PROVE ~Dangerous(subject)
  <2>1. report.ok /\ d.key[2] = "aart-baseline" BY <1>1, <1>4
  <2>2. d.key[1] = subject.digest BY <1>3, <2>1
  <2>3. d.assessment.status = "complete" /\ ~Serious(d.assessment)
    BY <1>2, <1>3, <1>4, <2>1, LowEvidence DEF Evident, Serious
  <2> QED BY <1>2, <2>1, <2>2, <2>3 DEF Evident, ScreeningInv
<1>5. verdict'.policy = None /\ verdict'.shown[2] = report.risk BY <1>1
<1>6. DangerIsTold'
  BY <1>1, <1>4, <1>5 DEF DangerIsTold
<1> QED BY <1>1, <1>6 DEF ScreeningInv

\* Every step of a registry and its consumers keeps the invariant.
LEMMA ScreeningStep == ScreeningInv /\ [ScreeningNext]_screening => ScreeningInv'
<1> SUFFICES ASSUME ScreeningInv, [ScreeningNext]_screening PROVE ScreeningInv'
  OBVIOUS
<1>1. ASSUME NEW lock, Scan(lock) PROVE ScreeningInv'
  <2> DEFINE a == AssessInstallationRisk(subject, Indexed(subject), lock)
  <2>1. a # None /\ Attest(a) /\ verdict' = None /\ subject' = subject /\ index' = index
    BY <1>1 DEF Scan
  <2>2. Evident(Attestation(a, Origin)) BY <2>1, BaselineClean DEF ScreeningInv
  <2> HIDE DEF a
  <2> QED BY <2>1, <2>2, AttestKeeps
<1>2. ASSUME Skip PROVE ScreeningInv'
  <2> DEFINE a == NotScannedAssessment(subject.digest)
             coverage == [completed |-> 0, expected |-> Cardinality(Categories), skipped |-> {"baseline"}]
             q == [id |-> "aart-baseline", version |-> 1, status |-> "not-scanned", coverage |-> coverage]
  <2>1. a # None /\ Attest(a) /\ verdict' = None /\ subject' = subject /\ index' = index
    BY <1>2 DEF Skip
  <2>2. a = SecurityAssessment(subject.digest, "not-scanned", coverage, {}, {q}) /\ q.status = "not-scanned"
    BY DEF NotScannedAssessment
  <2> HIDE DEF a, q, coverage
  <2>3. Evident(Attestation(a, Origin)) BY <2>1, <2>2, ConstructedEvident
  <2> QED BY <2>1, <2>3, AttestKeeps
<1>3. ASSUME NEW executable, NEW handshake, NEW scan,
             Analyze([provider |-> "ext", executable |-> executable], handshake, scan)
      PROVE  ScreeningInv'
  <2> DEFINE command == [provider |-> "ext", executable |-> executable]
             tried == RunProtocolAnalyzer(command, Input, handshake, scan, FALSE)
             a == ToSecurityAssessment(subject.digest, tried)
  <2>1. a # None /\ Attest(a) /\ verdict' = None /\ subject' = subject /\ index' = index
    BY <1>3 DEF Analyze
  <2>2. tried.provider = "ext"
    <3>1. command.provider = "ext" OBVIOUS
    <3> HIDE DEF command
    <3> QED BY <3>1, ProtocolProvider
  <2> HIDE DEF tried
  <2>3. Evident(Attestation(a, Origin)) BY <2>1, <2>2, OtherEvident
  <2> HIDE DEF a
  <2> QED BY <2>1, <2>3, AttestKeeps
<1>4. ASSUME NEW tool \in {"bandit", "shellcheck", "audit"}, NEW version, NEW scan, Tool(tool, version, scan)
      PROVE  ScreeningInv'
  <2> DEFINE tried == RunToolAdapter(tool, "found", Input, version, scan, FALSE)
             a == ToSecurityAssessment(subject.digest, tried)
  <2>1. a # None /\ Attest(a) /\ verdict' = None /\ subject' = subject /\ index' = index
    BY <1>4 DEF Tool
  <2>2. tried.provider = tool BY ToolProvider
  <2> HIDE DEF tried
  <2>3. Evident(Attestation(a, Origin)) BY <2>1, <2>2, OtherEvident
  <2> HIDE DEF a
  <2> QED BY <2>1, <2>3, AttestKeeps
<1>5. ASSUME Index PROVE ScreeningInv'
  <2> DEFINE kept == [p \in {p \in DOMAIN documents : documents[p].origin = Origin} |-> documents[p]]
  <2>1. documents' = kept /\ index' = [registry |-> "registry", inputs |-> subject.digest, entries |-> kept]
        /\ verdict' = None /\ subject' = subject
    BY <1>5 DEF Index
  <2>2. \A p \in DOMAIN kept : Evident(kept[p]) BY DEF ScreeningInv
  <2> HIDE DEF kept
  <2>3. index'.entries = kept BY <2>1
  <2> QED BY <2>1, <2>2, <2>3 DEF ScreeningInv, DangerIsTold
<1>6. ASSUME NEW object \in Revisions, Change(object) PROVE ScreeningInv'
  BY <1>6, ScreeningAssumption DEF Change, ScreeningInv, DangerIsTold
<1>7. ASSUME UNCHANGED screening PROVE ScreeningInv'
  BY <1>7 DEF screening, ScreeningInv, DangerIsTold
<1> QED BY <1>1, <1>2, <1>3, <1>4, <1>5, <1>6, <1>7, JudgedClean, VerifiedClean DEF ScreeningNext

\* At first there is no evidence.
LEMMA ScreeningInitially == ScreeningInit => ScreeningInv
  BY DEF ScreeningInit, ScreeningInv, DangerIsTold

\* Whatever the objects and the policies are, an artifact that a review or a verification
\* shows with a low or medium risk on the evidence of the baseline has no hit of a high or
\* critical rule, read or unread, has its manifest, and sets up what it declares; and the
\* answer to one that does not is at least the mildest its policy has for an unknown, high or
\* critical risk: with scans that fail or are truncated, other providers, evidence of an
\* earlier object and documents altered after they were listed.
THEOREM ScreeningTellsDanger == ScreeningSpec => []DangerIsTold
<1>1. ScreeningInv => DangerIsTold
  BY DEF ScreeningInv
<1> QED BY <1>1, ScreeningInitially, ScreeningStep, PTL DEF ScreeningSpec
=============================================================================
