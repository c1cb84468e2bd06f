---------------------------- MODULE SetupProofs ----------------------------
(***************************************************************************)
(* Theorems about Setup, for every recipe, however long, every set of      *)
(* versions and every set of faults; those about a run, as opposed to the  *)
(* record of one, also for every set of processes.                         *)
(***************************************************************************)
EXTENDS Setup, TLAPS

Contents == Digests \cup {Absent, Foreign}
Statuses == TakenBack \cup Complete \cup {"incomplete", "skipped"}
Phases == {"apply", "recover", "undo", "evidence"}
PCs == {"idle", "finalize", "effect", "rollback", "write"} \cup Persisting

Receipts ==
    [step : Steps, changed : BOOLEAN, replaced : BOOLEAN, prior : Contents,
     compensated : BOOLEAN, whole : BOOLEAN]

Records ==
    [digest : Digests, status : Statuses, receipts : Seq(Receipts), start : [Steps -> Contents]]

Locals ==
    [phase : Phases, digest : Digests \cup {Absent}, linked : BOOLEAN, was : BOOLEAN,
     record : Records \cup {None}, ref : Digests \cup {Absent}, next : Nat \ {0},
     receipts : Seq(Receipts), left : Nat, ok : BOOLEAN, status : Statuses,
     start : [Steps -> Contents]]

\* The type invariant is inductive once it says that a process at work has a
\* version to set up, and that a rollback starts from a receipt there is.
TypeInv ==
    /\ recipe \in [Steps -> Kinds] /\ world \in [Steps -> Contents]
    /\ installed \in Digests \cup {Absent} /\ linked \in BOOLEAN
    /\ record \in Records \cup {None} /\ ref \in Digests \cup {Absent}
    /\ pc \in [Procs -> PCs] /\ run \in [Procs -> Locals]
    /\ touched \in [Procs -> SUBSET Steps] /\ disturbed \in SUBSET Steps
    /\ botched \in BOOLEAN
    /\ \A p \in Procs : pc[p] # "idle" => run[p].digest \in Digests
    /\ \A p \in Procs : pc[p] = "rollback" => run[p].left <= Len(run[p].receipts)

-----------------------------------------------------------------------------
(* What the updates of a process's locals do to their fields               *)

\* A receipt more.
LEMMA Appended ==
    ASSUME NEW rs \in Seq(Receipts), NEW r \in Receipts, NEW new, new = Append(rs, r)
    PROVE  /\ new \in Seq(Receipts) /\ Len(new) = Len(rs) + 1 /\ Len(rs) \in Nat
           /\ DOMAIN rs = 1 .. Len(rs) /\ DOMAIN new = 1 .. Len(rs) + 1
           /\ new[Len(rs) + 1] = r /\ \A k \in DOMAIN rs : new[k] = rs[k]
OBVIOUS

\* No receipt.
LEMMA NoReceipt == <<>> \in Seq(Receipts) /\ DOMAIN <<>> = {} /\ Len(<<>>) = 0
OBVIOUS

\* The locals of a process at rest.
LEMMA BlankType == Blank \in Locals
BY DEF Blank, Locals, Phases, Statuses, TakenBack, Contents

\* A new receipt.
LEMMA ReceiptType ==
    ASSUME world \in [Steps -> Contents], NEW i \in Steps, NEW c \in BOOLEAN, NEW x \in BOOLEAN
    PROVE  Receipt(i, c, x) \in Receipts
BY DEF Receipt, Receipts

\* Redaction keeps a receipt for each, in their order.
LEMMA RedactType ==
    ASSUME NEW rs \in Seq(Receipts), recipe \in [Steps -> Kinds]
    PROVE  /\ Redact(rs) \in Seq(Receipts) /\ DOMAIN Redact(rs) = DOMAIN rs
           /\ \A k \in DOMAIN rs :
                 /\ Redact(rs)[k].step = rs[k].step /\ Redact(rs)[k].changed = rs[k].changed
                 /\ Redact(rs)[k].replaced = rs[k].replaced /\ Redact(rs)[k].prior = rs[k].prior
                 /\ Redact(rs)[k].compensated = rs[k].compensated
<1> DEFINE one(k) == [rs[k] EXCEPT !.whole = @ /\ recipe[rs[k].step] \notin {"lookup", "secret"}]
<1>1. ASSUME NEW k \in DOMAIN rs
      PROVE  /\ one(k) \in Receipts
             /\ one(k).step = rs[k].step /\ one(k).changed = rs[k].changed
             /\ one(k).replaced = rs[k].replaced /\ one(k).prior = rs[k].prior
             /\ one(k).compensated = rs[k].compensated
  <2>1. rs[k] \in Receipts
      OBVIOUS
  <2> QED BY <2>1 DEF Receipts
<1>2. Redact(rs) = [k \in DOMAIN rs |-> one(k)]
    BY DEF Redact
<1> HIDE DEF one
<1>3. PICK n \in Nat : DOMAIN rs = 1 .. n
    OBVIOUS
<1>4. Redact(rs) \in [1 .. n -> Receipts]
    BY <1>1, <1>2, <1>3
<1> QED BY <1>1, <1>2, <1>3, <1>4

\* The receipts of a run that was taken back because its record could not be
\* persisted: RolledBack marks them.
Marked(receipts) == [k \in DOMAIN receipts |-> [receipts[k] EXCEPT !.compensated = TRUE]]

\* Marking the receipts as compensated keeps one for each, in their order.
LEMMA MarkedType ==
    ASSUME NEW rs \in Seq(Receipts)
    PROVE  /\ Marked(rs) \in Seq(Receipts) /\ DOMAIN Marked(rs) = DOMAIN rs
           /\ \A k \in DOMAIN rs :
                 /\ Marked(rs)[k].step = rs[k].step /\ Marked(rs)[k].changed = rs[k].changed
                 /\ Marked(rs)[k].replaced = rs[k].replaced /\ Marked(rs)[k].prior = rs[k].prior
                 /\ Marked(rs)[k].compensated
<1> DEFINE one(k) == [rs[k] EXCEPT !.compensated = TRUE]
<1>1. ASSUME NEW k \in DOMAIN rs
      PROVE  /\ one(k) \in Receipts
             /\ one(k).step = rs[k].step /\ one(k).changed = rs[k].changed
             /\ one(k).replaced = rs[k].replaced /\ one(k).prior = rs[k].prior
             /\ one(k).compensated
  <2>1. rs[k] \in Receipts
      OBVIOUS
  <2> QED BY <2>1 DEF Receipts
<1>2. Marked(rs) = [k \in DOMAIN rs |-> one(k)]
    BY DEF Marked
<1> HIDE DEF one
<1>3. PICK n \in Nat : DOMAIN rs = 1 .. n
    OBVIOUS
<1>4. Marked(rs) \in [1 .. n -> Receipts]
    BY <1>1, <1>2, <1>3
<1> QED BY <1>1, <1>2, <1>3, <1>4

\* The record of a run keeps its version, its start and its receipts.
LEMMA RecordType ==
    ASSUME TypeInv, NEW p \in Procs, pc[p] # "idle"
    PROVE  /\ RecordOf(p) \in Records
           /\ RecordOf(p).digest = run[p].digest /\ RecordOf(p).start = run[p].start
           /\ RecordOf(p).receipts = Redact(run[p].receipts)
<1>1. run[p] \in Locals /\ run[p].digest \in Digests
    BY DEF TypeInv
<1>2. Redact(run[p].receipts) \in Seq(Receipts)
    BY <1>1, RedactType DEF TypeInv, Locals
<1> QED BY <1>1, <1>2 DEF RecordOf, Records, Locals

\* What p does leaves the other processes where they are, and every process well typed.
Stay(p) ==
    /\ \A q \in Procs : q # p => pc'[q] = pc[q] /\ run'[q] = run[q]
    /\ pc' \in [Procs -> PCs] /\ run' \in [Procs -> Locals]

\* The fields of l that no step of a run changes once it has begun.
Same(new, l) ==
    /\ new \in Locals
    /\ new.digest = l.digest /\ new.record = l.record /\ new.start = l.start

\* Where p goes and what it holds after a step.
LEMMA Moves ==
    ASSUME TypeInv, NEW p \in Procs, NEW label \in PCs, NEW l \in Locals,
           Goto(p, label), Set(p, l)
    PROVE  pc'[p] = label /\ run'[p] = l /\ Stay(p)
BY DEF TypeInv, Goto, Set, Stay

\* ... when it stays where it is in its code.
LEMMA Holds ==
    ASSUME TypeInv, NEW p \in Procs, NEW l \in Locals, UNCHANGED pc, Set(p, l)
    PROVE  pc'[p] = pc[p] /\ run'[p] = l /\ Stay(p)
BY DEF TypeInv, Set, Stay

LEMMA Returned ==
    ASSUME TypeInv, NEW p \in Procs, Return(p)
    PROVE  pc'[p] = "idle" /\ run'[p] \in Locals /\ Stay(p)
BY BlankType, Moves DEF Return, PCs

\* The rollback of all the receipts starts with the last one.
LEMMA Unwound ==
    ASSUME TypeInv, NEW p \in Procs, NEW l \in Locals, NEW s \in Statuses, Unwind(p, l, s)
    PROVE  LET new == run'[p] IN
           /\ pc'[p] = "rollback" /\ Same(new, l) /\ Stay(p)
           /\ new.phase = l.phase /\ new.receipts = l.receipts
           /\ new.left = Len(l.receipts) /\ new.left \in Nat /\ new.ok /\ new.status = s
<1>1. PICK new : new = [l EXCEPT !.left = Len(l.receipts), !.ok = TRUE, !.status = s]
    OBVIOUS
<1>2. Len(l.receipts) \in Nat
    BY DEF Locals
<1>3. /\ Same(new, l)
      /\ new.phase = l.phase /\ new.receipts = l.receipts
      /\ new.left = Len(l.receipts) /\ new.ok /\ new.status = s
    BY <1>1, <1>2 DEF Locals, Same
<1>4. Goto(p, "rollback") /\ Set(p, new)
    BY <1>1 DEF Unwind
<1>5. "rollback" \in PCs
    BY DEF PCs
<1> QED BY <1>2, <1>3, <1>4, <1>5, Moves DEF Same

\* prepare_setup reads the version that is installed.
LEMMA Prepared ==
    ASSUME TypeInv, NEW p \in Procs, Prepare(p)
    PROVE  LET new == run'[p] IN
           /\ pc'[p] = "finalize" /\ new \in Locals /\ Stay(p)
           /\ new.digest \in Digests /\ new.phase = "apply" /\ new.status = "refused"
           /\ new.next = 1 /\ new.receipts = <<>>
<1>1. PICK new : new = [Blank EXCEPT !.digest = installed, !.linked = linked,
                                     !.record = record, !.ref = ref]
    OBVIOUS
<1>2. /\ new.digest \in Digests /\ new.phase = "apply" /\ new.status = "refused"
      /\ new.next = 1 /\ new.receipts = <<>> /\ new \in Locals
    BY <1>1, BlankType DEF Prepare, TypeInv, Locals, Blank
<1>3. Goto(p, "finalize") /\ Set(p, new)
    BY <1>1 DEF Prepare
<1>4. "finalize" \in PCs
    BY DEF PCs
<1> QED BY <1>2, <1>3, <1>4, Moves

\* receipt undo takes up the recorded run.
LEMMA Loaded ==
    ASSUME TypeInv, NEW p \in Procs, LoadReceipt(p)
    PROVE  LET new == run'[p] IN
           /\ pc'[p] = "rollback" /\ new \in Locals /\ Stay(p)
           /\ record \in Records /\ new.digest = record.digest /\ new.record = record
           /\ new.receipts = record.receipts /\ new.start = record.start
           /\ new.phase = "undo" /\ new.ok /\ new.status = "skipped"
           /\ new.left = Len(new.receipts) /\ new.left \in Nat
<1>1. PICK l : l = [Blank EXCEPT !.phase = "undo", !.digest = record.digest, !.record = record,
                                 !.receipts = record.receipts, !.start = record.start]
    OBVIOUS
<1>2. record \in Records
    BY DEF TypeInv, LoadReceipt
<1>3. /\ l \in Locals /\ l.phase = "undo" /\ l.digest = record.digest /\ l.record = record
      /\ l.receipts = record.receipts /\ l.start = record.start
    BY <1>1, <1>2, BlankType DEF Records, Locals, Phases, Blank
<1>4. Unwind(p, l, "skipped") /\ "skipped" \in Statuses
    BY <1>1 DEF LoadReceipt, Statuses
<1> QED BY <1>2, <1>3, <1>4, Unwound DEF Same

\* finalize_setup: a conflict ends the command; else the run begins from the
\* world as it is, or is refused.
LEMMA Finalized ==
    ASSUME TypeInv, NEW p \in Procs, Finalize(p)
    PROVE  LET new == run'[p] IN
           /\ new \in Locals /\ Stay(p)
           /\ \/ pc'[p] = "idle" /\ touched' = touched
              \/ /\ pc'[p] \in {"effect", "lock"}
                 /\ touched' = [touched EXCEPT ![p] = {}]
                 /\ new.start = world /\ new.digest = run[p].digest
                 /\ new.phase = run[p].phase /\ new.status = run[p].status
                 /\ new.next = run[p].next /\ new.receipts = run[p].receipts
<1>1. CASE Return(p) /\ UNCHANGED touched
    BY <1>1, Returned
<1>2. CASE /\ PreconditionsCurrent(p)
           /\ Set(p, [run[p] EXCEPT !.start = world])
           /\ touched' = [touched EXCEPT ![p] = {}]
           /\ Goto(p, "effect") \/ Goto(p, "lock")
  <2>1. PICK new : new = [run[p] EXCEPT !.start = world]
      OBVIOUS
  <2>2. /\ new \in Locals /\ new.start = world /\ new.digest = run[p].digest
        /\ new.phase = run[p].phase /\ new.status = run[p].status
        /\ new.next = run[p].next /\ new.receipts = run[p].receipts
      BY <2>1 DEF TypeInv, Locals
  <2>3. "effect" \in PCs /\ "lock" \in PCs
      BY DEF PCs, Persisting
  <2>4. Set(p, new)
      BY <1>2, <2>1
  <2> QED BY <1>2, <2>2, <2>3, <2>4, Moves
<1> QED BY <1>1, <1>2 DEF Finalize

\* A step leaves its receipt behind those of the steps before it.
LEMMA Stepped ==
    ASSUME TypeInv, NEW p \in Procs, Effect(p)
    PROVE  LET new == run'[p]  i == run[p].next  d == run[p].digest IN
           /\ pc'[p] = "effect" /\ Same(new, run[p]) /\ Stay(p) /\ i \in Steps
           /\ new.phase = run[p].phase /\ new.next = i + 1 /\ new.status = run[p].status
           /\ \/ /\ Satisfied(i, d)
                 /\ new.receipts = Append(run[p].receipts, Receipt(i, FALSE, FALSE))
                 /\ UNCHANGED <<world, touched, disturbed>>
              \/ /\ new.receipts = Append(run[p].receipts, Receipt(i, TRUE, world[i] # Absent))
                 /\ world' = [world EXCEPT ![i] = d] /\ Disturb(p, i)
<1> DEFINE i == run[p].next  d == run[p].digest  old == run[p]
<1>0. /\ old \in Locals /\ i \in Steps /\ i \in Nat /\ pc[p] = "effect" /\ UNCHANGED pc
      /\ old.receipts \in Seq(Receipts)
    BY DEF TypeInv, Effect, Locals
<1>1. ASSUME NEW c \in BOOLEAN, NEW x \in BOOLEAN,
             Set(p, [[old EXCEPT !.next = i + 1] EXCEPT !.receipts = Append(@, Receipt(i, c, x))])
      PROVE  /\ pc'[p] = "effect" /\ Same(run'[p], old) /\ Stay(p)
             /\ run'[p].phase = old.phase /\ run'[p].next = i + 1 /\ run'[p].status = old.status
             /\ run'[p].receipts = Append(old.receipts, Receipt(i, c, x))
  <2>1. PICK rs : rs = Append(old.receipts, Receipt(i, c, x))
      OBVIOUS
  <2>2. rs \in Seq(Receipts)
      BY <1>0, <2>1, ReceiptType DEF TypeInv
  <2>3. PICK done : done = [old EXCEPT !.next = i + 1]
      OBVIOUS
  <2>4. /\ done \in Locals /\ Same(done, old) /\ done.next = i + 1 /\ done.phase = old.phase
        /\ done.receipts = old.receipts /\ done.status = old.status
      BY <1>0, <2>3 DEF Locals, Same
  <2>5. PICK new : new = [done EXCEPT !.receipts = rs]
      OBVIOUS
  <2>6. /\ new \in Locals /\ Same(new, done) /\ new.next = done.next /\ new.phase = done.phase
        /\ new.receipts = rs /\ new.status = done.status
      BY <2>2, <2>4, <2>5 DEF Locals, Same
  <2>7. Set(p, new)
      BY <1>1, <2>1, <2>3, <2>4, <2>5
  <2> QED BY <1>0, <2>1, <2>4, <2>6, <2>7, Holds DEF Same
<1>2. CASE /\ Satisfied(i, d)
           /\ Set(p, [[old EXCEPT !.next = i + 1] EXCEPT !.receipts = Append(@, Receipt(i, FALSE, FALSE))])
           /\ UNCHANGED <<world, touched, disturbed>>
    BY <1>0, <1>1, <1>2
<1>3. CASE /\ Set(p, [[old EXCEPT !.next = i + 1]
                         EXCEPT !.receipts = Append(@, Receipt(i, TRUE, world[i] # Absent))])
           /\ world' = [world EXCEPT ![i] = d] /\ Disturb(p, i)
    BY <1>0, <1>1, <1>3
<1> QED BY <1>2, <1>3 DEF Effect

\* A step fails: with nothing done, with a receipt for what it did or may
\* have done, or after an effect of which there is no receipt.
LEMMA Failed ==
    ASSUME TypeInv, NEW p \in Procs, StepFails(p)
    PROVE  LET new == run'[p]  i == run[p].next IN
           /\ pc[p] = "effect" /\ pc'[p] = "rollback" /\ Same(new, run[p]) /\ Stay(p) /\ i \in Steps
           /\ new.phase = run[p].phase /\ new.left = Len(new.receipts) /\ new.left \in Nat
           /\ new.ok /\ new.status \in TakenBack
           /\ \/ new.receipts = run[p].receipts /\ UNCHANGED <<world, touched, disturbed>>
              \/ /\ new.receipts = Append(run[p].receipts, Receipt(i, TRUE, recipe[i] = "rekey"))
                 /\ UNCHANGED world \/ world' = [world EXCEPT ![i] = run[p].digest]
                 /\ Disturb(p, i)
              \/ /\ new.receipts = run[p].receipts
                 /\ world' = [world EXCEPT ![i] = run[p].digest]
                 /\ touched' = [q \in Procs |-> touched[q] \cup {i}]
                 /\ disturbed' = disturbed \cup {i}
<1> DEFINE i == run[p].next  old == run[p]  status == FailedStatus(i)
           partial == [old EXCEPT !.receipts = Append(@, Receipt(i, TRUE, recipe[i] = "rekey"))]
<1>0. /\ old \in Locals /\ i \in Steps /\ pc[p] = "effect" /\ old.receipts \in Seq(Receipts)
    BY DEF TypeInv, StepFails, Locals
<1>1. status \in TakenBack /\ status \in Statuses
    BY DEF FailedStatus, Statuses, TakenBack
<1>2. ASSUME Unwind(p, old, status)
      PROVE  /\ pc'[p] = "rollback" /\ Same(run'[p], old) /\ Stay(p)
             /\ run'[p].phase = old.phase /\ run'[p].left = Len(old.receipts)
             /\ run'[p].left \in Nat /\ run'[p].ok /\ run'[p].status = status
             /\ run'[p].receipts = old.receipts
    BY <1>0, <1>1, <1>2, Unwound
<1>3. ASSUME Unwind(p, partial, status)
      PROVE  /\ pc'[p] = "rollback" /\ Same(run'[p], old) /\ Stay(p)
             /\ run'[p].phase = old.phase /\ run'[p].left = Len(run'[p].receipts)
             /\ run'[p].left \in Nat /\ run'[p].ok /\ run'[p].status = status
             /\ run'[p].receipts = Append(old.receipts, Receipt(i, TRUE, recipe[i] = "rekey"))
  <2>1. PICK rs : rs = Append(old.receipts, Receipt(i, TRUE, recipe[i] = "rekey"))
      OBVIOUS
  <2>0. Receipt(i, TRUE, recipe[i] = "rekey") \in Receipts
    <3>1. (recipe[i] = "rekey") \in BOOLEAN /\ TRUE \in BOOLEAN
        OBVIOUS
    <3> QED BY <1>0, <3>1, ReceiptType, Zenon DEF TypeInv
  <2>2. rs \in Seq(Receipts)
      BY <1>0, <2>0, <2>1, Appended, Zenon
  <2>3. PICK l : l = [old EXCEPT !.receipts = rs]
      OBVIOUS
  <2>4. l \in Locals /\ Same(l, old) /\ l.phase = old.phase /\ l.receipts = rs
      BY <1>0, <2>2, <2>3 DEF Locals, Same
  <2>5. Unwind(p, l, status)
      BY <1>3, <2>1, <2>3
  <2> QED BY <1>1, <2>1, <2>4, <2>5, Unwound DEF Same
<1>4. CASE Unwind(p, old, status) /\ UNCHANGED <<world, touched, disturbed>>
    BY <1>0, <1>1, <1>2, <1>4
<1>5. CASE /\ UNCHANGED world \/ world' = [world EXCEPT ![i] = run[p].digest]
           /\ Unwind(p, partial, status) /\ Disturb(p, i)
    BY <1>0, <1>1, <1>3, <1>5
<1>6. CASE /\ world' = [world EXCEPT ![i] = run[p].digest]
           /\ touched' = [q \in Procs |-> touched[q] \cup {i}]
           /\ disturbed' = disturbed \cup {i}
           /\ Unwind(p, old, status)
    BY <1>0, <1>1, <1>2, <1>6
<1> QED BY <1>4, <1>5, <1>6 DEF StepFails

\* A run that went through: with what it changed on its receipts, or with
\* nothing changed and no receipt kept.
LEMMA Finished ==
    ASSUME TypeInv, NEW p \in Procs, Finish(p)
    PROVE  LET new == run'[p]  rs == run[p].receipts IN
           /\ pc'[p] = "lock" /\ Same(new, run[p]) /\ Stay(p) /\ new.phase = run[p].phase
           /\ \/ new.status = "configured" /\ new.receipts = rs
              \/ /\ new.status = "already" /\ new.receipts = <<>>
                 /\ \A k \in DOMAIN rs : ~rs[k].changed
<1> DEFINE old == run[p]  rs == old.receipts  changed == \E k \in DOMAIN rs : rs[k].changed
<1>0. old \in Locals /\ "lock" \in PCs /\ {"configured", "already"} \subseteq Statuses
    BY DEF TypeInv, Statuses, Complete, PCs, Persisting
<1>1. CASE changed /\ Set(p, [old EXCEPT !.status = "configured"]) /\ Goto(p, "lock")
  <2>1. PICK new : new = [old EXCEPT !.status = "configured"]
      OBVIOUS
  <2>2. Same(new, old) /\ new.phase = old.phase /\ new.status = "configured" /\ new.receipts = rs
      BY <1>0, <2>1 DEF Locals, Same
  <2> QED BY <1>0, <1>1, <2>1, <2>2, Moves DEF Same
<1>2. CASE ~changed /\ Set(p, [old EXCEPT !.status = "already", !.receipts = <<>>]) /\ Goto(p, "lock")
  <2>0. PICK none \in Seq(Receipts) : none = <<>>
      BY NoReceipt, Zenon
  <2>1. PICK new : new = [old EXCEPT !.status = "already", !.receipts = none]
      OBVIOUS
  <2>2. Same(new, old) /\ new.phase = old.phase /\ new.status = "already" /\ new.receipts = none
      BY <1>0, <2>1 DEF Locals, Same
  <2>3. pc'[p] = "lock" /\ Same(run'[p], old) /\ Stay(p) /\ run'[p] = new
      BY <1>0, <1>2, <2>0, <2>1, <2>2, Moves DEF Same
  <2> QED BY <1>2, <2>0, <2>2, <2>3
<1> QED BY <1>1, <1>2 DEF Finish

\* A declined step ends the run.
LEMMA Declined ==
    ASSUME TypeInv, NEW p \in Procs, Decline(p)
    PROVE  LET new == run'[p] IN
           /\ pc[p] = "effect" /\ pc'[p] = "rollback" /\ Same(new, run[p]) /\ Stay(p)
           /\ new.phase = run[p].phase /\ new.receipts = run[p].receipts
           /\ new.left = Len(new.receipts) /\ new.left \in Nat
           /\ new.ok /\ new.status \in TakenBack
<1>1. run[p] \in Locals
    BY DEF TypeInv
<1>2. Unwind(p, run[p], "cancelled") /\ pc[p] = "effect"
    BY DEF Decline
<1>3. "cancelled" \in TakenBack /\ "cancelled" \in Statuses
    BY DEF Statuses, TakenBack
<1> QED BY <1>1, <1>2, <1>3, Unwound

\* One receipt less to compensate.
LEMMA Compensated ==
    ASSUME TypeInv, NEW p \in Procs, Compensate(p)
    PROVE  LET new == run'[p]  k == run[p].left  r == run[p].receipts[k] IN
           /\ pc[p] = "rollback" /\ pc'[p] = "rollback" /\ Same(new, run[p]) /\ Stay(p)
           /\ k \in DOMAIN run[p].receipts /\ k \in Nat \ {0} /\ new.left = k - 1 /\ r \in Receipts
           /\ new.phase = run[p].phase /\ new.receipts = run[p].receipts
           /\ new.status = run[p].status
           /\ \/ LeftAlone(r) /\ new.ok = run[p].ok /\ UNCHANGED <<world, touched>>
              \/ /\ ~LeftAlone(r) /\ Owned(r, run[p].digest) /\ new.ok = run[p].ok
                 /\ world' = [world EXCEPT ![r.step] = r.prior]
                 /\ touched' = [q \in Procs |-> IF q = p THEN touched[q] ELSE touched[q] \cup {r.step}]
              \/ ~LeftAlone(r) /\ ~new.ok /\ UNCHANGED <<world, touched>>
<1> DEFINE old == run[p]  k == old.left  r == old.receipts[k]
           less == [old EXCEPT !.left = k - 1]
<1>0. /\ old \in Locals /\ pc[p] = "rollback" /\ k > 0 /\ k \in Nat /\ UNCHANGED pc
      /\ old.receipts \in Seq(Receipts) /\ k <= Len(old.receipts)
    BY DEF TypeInv, Compensate, Locals
<1>1. k \in DOMAIN old.receipts /\ r \in Receipts /\ k - 1 \in Nat
    BY <1>0
<1>2. /\ less \in Locals /\ Same(less, old) /\ less.left = k - 1 /\ less.phase = old.phase
      /\ less.receipts = old.receipts /\ less.status = old.status /\ less.ok = old.ok
    BY <1>0, <1>1 DEF Locals, Same
<1> HIDE DEF less
<1>3. ASSUME Set(p, less)
      PROVE  /\ pc'[p] = "rollback" /\ Same(run'[p], old) /\ Stay(p) /\ run'[p].left = k - 1
             /\ run'[p].phase = old.phase /\ run'[p].receipts = old.receipts
             /\ run'[p].status = old.status /\ run'[p].ok = old.ok
    BY <1>0, <1>2, <1>3, Holds
<1>4. ASSUME Set(p, [less EXCEPT !.ok = FALSE])
      PROVE  /\ pc'[p] = "rollback" /\ Same(run'[p], old) /\ Stay(p) /\ run'[p].left = k - 1
             /\ run'[p].phase = old.phase /\ run'[p].receipts = old.receipts
             /\ run'[p].status = old.status /\ ~run'[p].ok
  <2>1. PICK new : new = [less EXCEPT !.ok = FALSE]
      OBVIOUS
  <2>2. /\ new \in Locals /\ Same(new, less) /\ new.left = less.left /\ new.phase = less.phase
        /\ new.receipts = less.receipts /\ new.status = less.status /\ ~new.ok
      BY <1>2, <2>1 DEF Locals, Same
  <2>3. Set(p, new)
      BY <1>4, <2>1
  <2> QED BY <1>0, <1>2, <2>2, <2>3, Holds DEF Same
<1>5. CASE LeftAlone(r) /\ Set(p, less) /\ UNCHANGED <<world, touched>>
    BY <1>0, <1>1, <1>3, <1>5
<1>6. CASE /\ ~LeftAlone(r) /\ Owned(r, old.digest)
           /\ world' = [world EXCEPT ![r.step] = r.prior]
           /\ touched' = [q \in Procs |-> IF q = p THEN touched[q] ELSE touched[q] \cup {r.step}]
           /\ Set(p, less)
    BY <1>0, <1>1, <1>3, <1>6
<1>7. CASE ~LeftAlone(r) /\ Set(p, [less EXCEPT !.ok = FALSE]) /\ UNCHANGED <<world, touched>>
    BY <1>0, <1>1, <1>4, <1>7
<1> QED BY <1>5, <1>6, <1>7 DEF Compensate, less

\* What a rollback reports, and the receipts it keeps.
LEMMA Rolled ==
    ASSUME TypeInv, NEW p \in Procs, RolledBack(p)
    PROVE  LET new == run'[p]  old == run[p] IN
           /\ pc[p] = "rollback" /\ old.left = 0 /\ Same(new, old) /\ Stay(p)
           /\ pc'[p] = (IF old.phase = "undo" THEN "write" ELSE "lock")
           /\ \/ /\ old.phase = "recover" /\ new.phase = "evidence" /\ old.ok
                 /\ new.status = "failed" /\ new.receipts = Marked(old.receipts)
              \/ /\ old.phase = "recover" /\ new.phase = "evidence" /\ ~old.ok
                 /\ new.status = "incomplete" /\ new.receipts = old.receipts
              \/ /\ old.phase # "recover" /\ new.phase = old.phase /\ old.ok
                 /\ new.status = old.status /\ new.receipts = <<>>
              \/ /\ old.phase # "recover" /\ new.phase = old.phase /\ ~old.ok
                 /\ new.status = "incomplete" /\ new.receipts = old.receipts
<1> DEFINE old == run[p]
           label == IF old.phase = "undo" THEN "write" ELSE "lock"
           s == IF old.phase = "recover" THEN IF old.ok THEN "failed" ELSE "incomplete"
                ELSE IF old.ok THEN old.status ELSE "incomplete"
           rs == IF old.phase = "recover" THEN IF old.ok THEN Marked(old.receipts) ELSE old.receipts
                 ELSE IF old.ok THEN <<>> ELSE old.receipts
           ph == IF old.phase = "recover" THEN "evidence" ELSE old.phase
<1>0. old \in Locals /\ old.receipts \in Seq(Receipts) /\ old.ok \in BOOLEAN /\ label \in PCs
      /\ pc[p] = "rollback" /\ old.left = 0 /\ Goto(p, label)
    BY DEF TypeInv, RolledBack, Locals, PCs, Persisting
<1>1. rs \in Seq(Receipts)
    BY <1>0, MarkedType, NoReceipt, Zenon
<1>2. s \in Statuses /\ ph \in Phases
    BY <1>0 DEF Statuses, TakenBack, Locals, Phases
<1>3. Set(p, IF old.phase = "recover"
             THEN [old EXCEPT !.phase = "evidence",
                              !.status = IF old.ok THEN "failed" ELSE "incomplete",
                              !.receipts = IF old.ok THEN Marked(old.receipts) ELSE @]
             ELSE [old EXCEPT !.status = IF old.ok THEN @ ELSE "incomplete",
                              !.receipts = IF old.ok THEN <<>> ELSE @])
    BY Zenon DEF RolledBack, Marked
<1>a. CASE old.phase = "recover"
  <2>1. PICK new : new = [old EXCEPT !.phase = "evidence", !.status = s, !.receipts = rs]
      OBVIOUS
  <2>2. Set(p, new)
      BY <1>3, <1>a, <2>1
  <2> HIDE DEF s, rs
  <2>3. Same(new, old) /\ new.phase = "evidence" /\ new.status = s /\ new.receipts = rs
      BY <1>0, <1>1, <1>2, <2>1 DEF Locals, Same, Phases
  <2>4. pc'[p] = label /\ Same(run'[p], old) /\ Stay(p) /\ run'[p] = new
      BY <1>0, <2>2, <2>3, Moves DEF Same
  <2> QED BY <1>0, <1>a, <2>3, <2>4 DEF s, rs
<1>b. CASE old.phase # "recover"
  <2>1. PICK new : new = [old EXCEPT !.status = s, !.receipts = rs]
      OBVIOUS
  <2>2. Set(p, new)
      BY <1>3, <1>b, <2>1
  <2> HIDE DEF s, rs
  <2>3. Same(new, old) /\ new.phase = old.phase /\ new.status = s /\ new.receipts = rs
      BY <1>0, <1>1, <1>2, <2>1 DEF Locals, Same, Phases
  <2>4. pc'[p] = label /\ Same(run'[p], old) /\ Stay(p) /\ run'[p] = new
      BY <1>0, <2>2, <2>3, Moves DEF Same
  <2> QED BY <1>0, <1>b, <2>3, <2>4 DEF s, rs
<1> QED BY <1>a, <1>b

\* Where a failed persistence leads: to an end, to the record of the failure,
\* or to the rollback of what was applied.
LEMMA Unpersisted ==
    ASSUME TypeInv, NEW p \in Procs, pc[p] \in Persisting, PersistFails(p)
    PROVE  LET new == run'[p]  old == run[p] IN
           /\ new \in Locals /\ Stay(p)
           /\ \/ pc'[p] = "idle"
              \/ /\ pc'[p] = "lock" /\ Same(new, old) /\ new.phase = "evidence"
                 /\ new.status = "failed" /\ new.receipts = <<>> /\ old.receipts = <<>>
              \/ /\ pc'[p] = "rollback" /\ Same(new, old) /\ new.phase = "recover"
                 /\ new.receipts = old.receipts /\ new.left = Len(old.receipts)
                 /\ new.left \in Nat /\ new.ok
<1> DEFINE old == run[p]
<1>0. old \in Locals /\ "lock" \in PCs /\ "failed" \in Statuses
    BY DEF TypeInv, PCs, Persisting, Statuses, TakenBack
<1>1. CASE Return(p)
    BY <1>1, Returned
<1>2. CASE /\ old.receipts = <<>> /\ Goto(p, "lock")
           /\ Set(p, [old EXCEPT !.phase = "evidence", !.status = "failed"])
  <2>1. PICK new : new = [old EXCEPT !.phase = "evidence", !.status = "failed"]
      OBVIOUS
  <2>2. /\ new \in Locals /\ Same(new, old) /\ new.phase = "evidence" /\ new.status = "failed"
        /\ new.receipts = old.receipts
      BY <1>0, <2>1 DEF Locals, Same, Phases
  <2>3. Set(p, new)
      BY <1>2, <2>1
  <2> QED BY <1>0, <1>2, <2>2, <2>3, Moves
<1>3. CASE Unwind(p, [old EXCEPT !.phase = "recover"], old.status)
  <2>1. PICK l : l = [old EXCEPT !.phase = "recover"]
      OBVIOUS
  <2>2. l \in Locals /\ Same(l, old) /\ l.phase = "recover" /\ l.receipts = old.receipts
      BY <1>0, <2>1 DEF Locals, Same, Phases
  <2>3. Unwind(p, l, old.status) /\ old.status \in Statuses
      BY <1>0, <1>3, <2>1 DEF Locals
  <2> QED BY <2>2, <2>3, Unwound DEF Same
<1> QED BY <1>1, <1>2, <1>3 DEF PersistFails

-----------------------------------------------------------------------------
(* Type correctness                                                        *)

LEMMA TypeInit == Init => TypeInv
<1> SUFFICES ASSUME Init PROVE TypeInv
    OBVIOUS
<1>1. recipe \in [Steps -> Kinds]
    BY SetupConstants DEF Init
<1>2. world \in [Steps -> Contents]
    BY DEF Init, Contents
<1>3. pc \in [Procs -> PCs] /\ run \in [Procs -> Locals]
    BY BlankType DEF Init, PCs
<1> QED BY <1>1, <1>2, <1>3 DEF Init, TypeInv

\* What a step of p has to keep for the type invariant: the rest follows.
LEMMA TypeKept ==
    ASSUME TypeInv, NEW p \in Procs, Stay(p), UNCHANGED recipe,
           world' \in [Steps -> Contents],
           installed' \in Digests \cup {Absent}, linked' \in BOOLEAN,
           record' \in Records \cup {None}, ref' \in Digests \cup {Absent},
           touched' \in [Procs -> SUBSET Steps], disturbed' \in SUBSET Steps,
           botched' \in BOOLEAN,
           pc'[p] # "idle" => run'[p].digest \in Digests,
           pc'[p] = "rollback" => run'[p].left <= Len(run'[p].receipts)
    PROVE  TypeInv'
BY DEF TypeInv, Stay

\* p's change of a target keeps the histories' types.
LEMMA DisturbType ==
    ASSUME TypeInv, NEW p \in Procs, NEW i \in Steps, Disturb(p, i)
    PROVE  /\ touched' \in [Procs -> SUBSET Steps] /\ disturbed' \in SUBSET Steps
           /\ touched'[p] = touched[p] /\ disturbed' = disturbed \cup {i}
           /\ \A q \in Procs : q # p => touched'[q] = touched[q] \cup {i}
BY DEF TypeInv, Disturb

\* Every step of a run, of an undo or of the environment keeps the types.
LEMMA TypeStep == TypeInv /\ [Next]_vars => TypeInv'
<1> SUFFICES ASSUME TypeInv, [Next]_vars PROVE TypeInv'
    OBVIOUS
<1>u. CASE UNCHANGED vars
    BY <1>u DEF TypeInv, vars, files, procvars, history, bounds
<1>e. ASSUME NEW i \in Steps, NEW x \in {Absent, Foreign}, Edit(i, x) PROVE TypeInv'
    BY <1>e DEF Edit, TypeInv, files, procvars, Contents
<1>r. ASSUME NEW x \in Digests \cup {Absent}, Reinstall(x) PROVE TypeInv'
    BY <1>r DEF Reinstall, TypeInv, procvars, history
<1>p. ASSUME NEW p \in Procs, Prepare(p) PROVE TypeInv'
    BY <1>p, Prepared, TypeKept DEF Prepare, TypeInv, files, history
<1>l. ASSUME NEW p \in Procs, LoadReceipt(p) PROVE TypeInv'
  <2>1. run'[p].digest \in Digests /\ run'[p].left <= Len(run'[p].receipts) /\ Stay(p)
      BY <1>l, Loaded DEF Records
  <2> QED BY <1>l, <2>1, TypeKept DEF LoadReceipt, TypeInv, files, history
<1>s. ASSUME NEW p \in Procs, Run(p) PROVE TypeInv'
  <2>0. run[p] \in Locals /\ (pc[p] # "idle" => run[p].digest \in Digests)
      BY DEF TypeInv
  <2>1. CASE Finalize(p)
    <3>1. touched' \in [Procs -> SUBSET Steps] /\ Stay(p) /\ pc'[p] # "rollback"
        BY <2>1, Finalized DEF TypeInv
    <3>2. pc'[p] # "idle" => run'[p].digest \in Digests
        BY <2>0, <2>1, Finalized DEF Finalize
    <3> QED BY <2>1, <3>1, <3>2, TypeKept DEF Finalize, TypeInv, files
  <2>2. CASE Effect(p)
    <3>1. /\ world' \in [Steps -> Contents] /\ touched' \in [Procs -> SUBSET Steps]
          /\ disturbed' \in SUBSET Steps /\ pc'[p] = "effect" /\ Stay(p)
          /\ run'[p].digest \in Digests
        BY <2>0, <2>2, Stepped, DisturbType DEF TypeInv, Contents, Effect, Same
    <3> QED BY <2>2, <3>1, TypeKept DEF Effect, TypeInv, files
  <2>3. CASE Decline(p)
    <3>1. Stay(p) /\ run'[p].digest \in Digests /\ run'[p].left <= Len(run'[p].receipts)
        BY <2>0, <2>3, Declined DEF Same
    <3> QED BY <2>3, <3>1, TypeKept DEF Decline, TypeInv, files, history
  <2>4. CASE StepFails(p)
    <3> DEFINE i == run[p].next
    <3>0. /\ Stay(p) /\ Same(run'[p], run[p]) /\ pc[p] = "effect" /\ i \in Steps
          /\ run'[p].left \in Nat /\ run'[p].left = Len(run'[p].receipts)
        BY <2>4, Failed
    <3>1. Stay(p) /\ run'[p].digest \in Digests /\ run'[p].left <= Len(run'[p].receipts)
        BY <2>0, <3>0 DEF Same
    <3>2. /\ world' \in [Steps -> Contents] /\ touched' \in [Procs -> SUBSET Steps]
          /\ disturbed' \in SUBSET Steps
      <4>a. CASE UNCHANGED <<world, touched, disturbed>>
          BY <4>a DEF TypeInv
      <4>b. CASE /\ UNCHANGED world \/ world' = [world EXCEPT ![i] = run[p].digest]
                 /\ Disturb(p, i)
          BY <2>0, <3>0, <4>b, DisturbType DEF TypeInv, Contents
      <4>c. CASE /\ world' = [world EXCEPT ![i] = run[p].digest]
                 /\ touched' = [q \in Procs |-> touched[q] \cup {i}]
                 /\ disturbed' = disturbed \cup {i}
          BY <2>0, <3>0, <4>c DEF TypeInv, Contents
      <4> QED BY <2>4, Failed, <4>a, <4>b, <4>c
    <3> QED BY <2>4, <3>1, <3>2, TypeKept DEF StepFails, TypeInv, files
  <2>u. CASE Uncaught(p)
      BY <2>u, Returned, TypeKept DEF Uncaught, TypeInv, files, history
  <2>5. CASE Finish(p)
    <3>1. Stay(p) /\ run'[p].digest \in Digests /\ pc'[p] = "lock"
        BY <2>0, <2>5, Finished DEF Finish, Same
    <3> QED BY <2>5, <3>1, TypeKept DEF Finish, TypeInv, files, history
  <2>6. CASE Compensate(p)
    <3>1. Stay(p) /\ run'[p].digest \in Digests /\ run'[p].left <= Len(run'[p].receipts)
        BY <2>0, <2>6, Compensated DEF TypeInv, Same, Locals
    <3>2. run[p].receipts[run[p].left].step \in Steps /\ run[p].receipts[run[p].left].prior \in Contents
        BY <2>6, Compensated DEF Receipts
    <3>3. world' \in [Steps -> Contents] /\ touched' \in [Procs -> SUBSET Steps]
        BY <2>6, <3>2, Compensated DEF TypeInv
    <3> QED BY <2>6, <3>1, <3>3, TypeKept DEF Compensate, TypeInv, files
  <2>7. CASE RolledBack(p)
    <3>1. Stay(p) /\ run'[p].digest \in Digests /\ pc'[p] # "rollback"
        BY <2>0, <2>7, Rolled DEF Same
    <3> QED BY <2>7, <3>1, TypeKept DEF RolledBack, TypeInv, files, history
  <2>f. ASSUME PersistFails(p), pc[p] \in Persisting
        PROVE  /\ Stay(p) /\ (pc'[p] # "idle" => run'[p].digest \in Digests)
               /\ pc'[p] = "rollback" => run'[p].left <= Len(run'[p].receipts)
      BY <2>0, <2>f, Unpersisted DEF Same, Persisting
  <2>8. CASE Lock(p)
    <3>1. CASE PersistFails(p)
        BY <2>8, <2>f, <3>1, TypeKept DEF Lock, TypeInv, history, Persisting
    <3>2. CASE Set(p, [run[p] EXCEPT !.was = linked]) /\ Goto(p, "setup")
      <4>1. PICK new : new = [run[p] EXCEPT !.was = linked]
          OBVIOUS
      <4>2. new \in Locals /\ new.digest = run[p].digest
          BY <2>0, <4>1 DEF TypeInv, Locals
      <4>3. Stay(p) /\ pc'[p] = "setup" /\ run'[p].digest \in Digests
          BY <2>0, <2>8, <3>2, <4>1, <4>2, Moves DEF PCs, Persisting, Lock
      <4> QED BY <2>8, <4>3, TypeKept DEF Lock, TypeInv, history
    <3> QED BY <2>8, <3>1, <3>2 DEF Lock
  <2>g. ASSUME NEW label \in PCs, Goto(p, label), UNCHANGED run, label # "rollback"
        PROVE  Stay(p) /\ pc'[p] = label /\ run'[p] = run[p]
      BY <2>g DEF Goto, Stay, TypeInv
  <2>9. CASE WriteSetup(p)
    <3>0. pc[p] \in Persisting /\ RecordOf(p) \in Records /\ botched' \in BOOLEAN
        BY <2>9, RecordType DEF WriteSetup, TypeInv, Persisting
    <3>1. CASE PersistFails(p) /\ (UNCHANGED record \/ record' = RecordOf(p))
        BY <2>9, <2>f, <3>0, <3>1, TypeKept DEF WriteSetup, TypeInv
    <3>2. CASE record' = RecordOf(p) /\ Goto(p, "pointer") /\ UNCHANGED run
      <4>1. record' \in Records /\ Stay(p) /\ pc'[p] = "pointer" /\ run'[p].digest \in Digests
          BY <2>0, <2>9, <2>g, <3>2, RecordType DEF WriteSetup, PCs, Persisting
      <4> QED BY <2>9, <3>0, <4>1, TypeKept DEF WriteSetup, TypeInv
    <3> QED BY <2>9, <3>1, <3>2 DEF WriteSetup
  <2>10. CASE WritePointer(p)
    <3>1. Stay(p) /\ pc'[p] # "rollback" /\ run'[p].digest \in Digests
        BY <2>0, <2>10, <2>g DEF WritePointer, PCs, Persisting
    <3> QED BY <2>10, <3>1, TypeKept DEF WritePointer, TypeInv, history
  <2>11. CASE WriteReference(p)
    <3>1. CASE ref' = run[p].digest /\ disturbed' = touched[p] /\ Return(p)
        BY <2>0, <2>11, <3>1, Returned, TypeKept DEF WriteReference, TypeInv
    <3>2. CASE /\ Goto(p, "unpoint") /\ UNCHANGED <<disturbed, run>>
               /\ UNCHANGED ref \/ ref' = run[p].digest
      <4>1. Stay(p) /\ pc'[p] # "rollback" /\ run'[p] = run[p]
          BY <2>11, <2>g, <3>2 DEF WriteReference, PCs, Persisting
      <4>2. run[p].digest \in Digests
          BY <2>0, <2>11 DEF WriteReference
      <4>3. botched' \in BOOLEAN
          BY <2>11 DEF WriteReference, TypeInv
      <4> QED BY <2>11, <3>2, <4>1, <4>2, <4>3, TypeKept DEF WriteReference, TypeInv
    <3> QED BY <2>11, <3>1, <3>2 DEF WriteReference
  <2>12. CASE Unpoint(p)
    <3>1. Stay(p) /\ pc'[p] # "rollback" /\ run'[p].digest \in Digests
        BY <2>0, <2>12, <2>g DEF Unpoint, PCs, Persisting
    <3>2. /\ installed' \in Digests \cup {Absent} /\ linked' \in BOOLEAN /\ botched' \in BOOLEAN
        BY <2>0, <2>12 DEF Unpoint, TypeInv, Locals
    <3> QED BY <2>12, <3>1, <3>2, TypeKept DEF Unpoint, TypeInv
  <2>13. CASE Unrecord(p)
    <3>1. record' \in Records \cup {None} /\ botched' \in BOOLEAN
        BY <2>0, <2>13 DEF Unrecord, TypeInv, Locals
    <3> QED BY <2>13, <2>f, <3>1, TypeKept DEF Unrecord, TypeInv, Persisting
  <2>14. CASE WriteUndo(p)
    <3>1. record' \in Records \cup {None}
        BY <2>14, RecordType DEF WriteUndo, TypeInv
    <3> QED BY <2>14, <3>1, Returned, TypeKept DEF WriteUndo, TypeInv, history
  <2> QED BY <1>s, <2>1, <2>2, <2>3, <2>4, <2>u, <2>5, <2>6, <2>7, <2>8, <2>9, <2>10, <2>11,
             <2>12, <2>13, <2>14 DEF Run
<1> QED BY <1>u, <1>e, <1>r, <1>p, <1>l, <1>s DEF Next

\* Every reachable state is well typed.
LEMMA TypeCorrect == Spec => []TypeInv
BY TypeInit, TypeStep, PTL DEF Spec

\* A step of p is a step of p alone.
LEMMA OneActs ==
    ASSUME TypeInv, NEW p \in Procs, Prepare(p) \/ LoadReceipt(p) \/ Run(p)
    PROVE  \A q \in Procs : q # p => pc'[q] = pc[q] /\ run'[q] = run[q]
<1> DEFINE Others == \A q \in Procs : q # p => pc'[q] = pc[q] /\ run'[q] = run[q]
<1>1. ASSUME (\E x : Goto(p, x)) \/ UNCHANGED pc,
             (\E l : Set(p, l)) \/ UNCHANGED run
      PROVE  Others
    BY <1>1 DEF Goto, Set, TypeInv
<1> SUFFICES Others
    OBVIOUS
<1> HIDE DEF Others
<1> USE DEF Return, Unwind, PersistFails
<1>2. CASE Prepare(p) \/ LoadReceipt(p)
    BY <1>1, <1>2, Zenon DEF Prepare, LoadReceipt
<1>3. CASE Run(p)
  <2>1. CASE Finalize(p)
      BY <1>1, <2>1, Zenon DEF Finalize
  <2>2. CASE Effect(p) \/ Decline(p)
      BY <1>1, <2>2, Zenon DEF Effect, Decline
  <2>3. CASE StepFails(p) \/ Finish(p)
      BY <1>1, <2>3, Zenon DEF StepFails, Finish
  <2>u. CASE Uncaught(p)
      BY <1>1, <2>u, Zenon DEF Uncaught
  <2>4. CASE Compensate(p) \/ RolledBack(p)
      BY <1>1, <2>4, Zenon DEF Compensate, RolledBack
  <2>5. CASE Lock(p) \/ WriteSetup(p) \/ WritePointer(p)
      BY <1>1, <2>5, Zenon DEF Lock, WriteSetup, WritePointer
  <2>6. CASE WriteReference(p) \/ Unpoint(p) \/ Unrecord(p) \/ WriteUndo(p)
      BY <1>1, <2>6, Zenon DEF WriteReference, Unpoint, Unrecord, WriteUndo
  <2> QED BY <1>3, <2>1, <2>2, <2>3, <2>u, <2>4, <2>5, <2>6 DEF Run
<1> QED BY <1>2, <1>3

\* A process in the middle of a rollback compensates.
LEMMA InRollback ==
    ASSUME NEW p \in Procs, pc[p] = "rollback", ~(run[p].left = 0),
           Prepare(p) \/ LoadReceipt(p) \/ Run(p)
    PROVE  Compensate(p)
BY DEF Prepare, LoadReceipt, Run, Finalize, Effect, Decline, StepFails, Uncaught, Finish, RolledBack,
   Lock, WriteSetup, WritePointer, WriteReference, Unpoint, Unrecord, WriteUndo

\* FilesKept: a compensation leaves a block, a key or a directory alone that
\* the operator has put something else into: _rollback_receipt compares a
\* file with what the run installed, and removes only an empty directory.
THEOREM SetupKeepsFiles == Spec => FilesKept
<1>1. ASSUME TypeInv, [Next]_vars, NEW p \in Procs, NEW i \in Steps,
             pc[p] = "rollback", run[p].left > 0, run'[p].left < run[p].left,
             recipe[i] \in Placed,
             world[i] = Foreign
      PROVE  world'[i] = Foreign
  <2> DEFINE r == run[p].receipts[run[p].left]
  <2>0. run[p].left \in Nat /\ run[p].digest \in Digests /\ "rollback" \notin Persisting
      BY <1>1 DEF TypeInv, Locals, Persisting
  <2>1. CASE Compensate(p)
    <3>1. CASE world' = [world EXCEPT ![r.step] = r.prior] /\ Owned(r, run[p].digest)
      <4>1. i # r.step
          BY <1>1, <2>0, <3>1, SetupConstants DEF Owned, Placed, Written
      <4> QED BY <1>1, <3>1, <4>1 DEF TypeInv
    <3> QED BY <1>1, <2>1, <3>1, Compensated
  <2>2. CASE UNCHANGED run
      BY <1>1, <2>0, <2>2
  <2>3. CASE \E q \in Procs : Prepare(q) \/ LoadReceipt(q) \/ Run(q)
    <3> PICK q \in Procs : Prepare(q) \/ LoadReceipt(q) \/ Run(q)
        BY <2>3
    <3>1. q = p
        BY <1>1, <2>0, OneActs
    <3>2. Compensate(p)
        BY <1>1, <2>0, <3>1, InRollback
    <3> QED BY <2>1, <3>2
  <2>4. CASE \/ \E x \in Digests \cup {Absent} : Reinstall(x)
             \/ \E j \in Steps, x \in {Absent, Foreign} : Edit(j, x)
      BY <2>2, <2>4 DEF Reinstall, Edit, procvars
  <2>5. CASE UNCHANGED vars
      BY <2>2, <2>5 DEF vars, procvars
  <2> QED BY <1>1, <2>3, <2>4, <2>5 DEF Next
<1>2. TypeInv /\ [Next]_vars =>
        [ \A p \in Procs, i \in Steps :
            /\ pc[p] = "rollback" /\ run[p].left > 0 /\ run'[p].left < run[p].left
            /\ recipe[i] \in Placed
            /\ world[i] = Foreign
            => world'[i] = Foreign ]_vars
    BY <1>1
<1> QED BY <1>2, TypeCorrect, PTL DEF FilesKept, Spec

-----------------------------------------------------------------------------
(* The invariant of a run.  Its parts are stated of the kinds of the steps, *)
(* the world w, and the locals of a run or a record l; others are the       *)
(* targets that its receipts do not account for.                            *)

\* A target that a complete rollback restores: Restorable.
Spared(kinds, start, i) == ~(kinds[i] = "build" /\ start[i] # Absent)

\* There is a receipt of every step so far, in their order, and it says what
\* the step found at its target: what the run found there at its start.
Faithful(kinds, l, others) ==
    \A k \in DOMAIN l.receipts :
        /\ l.receipts[k].step = k
        /\ k \notin others =>
              /\ l.receipts[k].prior = l.start[k]
              /\ kinds[k] = "build" /\ l.receipts[k].replaced => l.start[k] # Absent

\* A target without a receipt, or whose receipt says that the step changed
\* nothing or has been compensated, is as the run found it.
Accounted(kinds, w, l, others) ==
    \A k \in Steps \ others :
        /\ Spared(kinds, l.start, k)
        /\ k \in DOMAIN l.receipts => ~l.receipts[k].changed \/ l.receipts[k].compensated
        => w[k] = l.start[k]

Books(kinds, w, l, others) == Faithful(kinds, l, others) /\ Accounted(kinds, w, l, others)

\* What a rollback that has not failed has been through, it has restored.
RolledTo(kinds, w, l, others) ==
    l.ok => \A k \in Steps \ others :
                k > l.left /\ Spared(kinds, l.start, k) => w[k] = l.start[k]

\* Step i's target is as the recipe of d wants it.
InPlace(kinds, w, i, d) ==
    \/ kinds[i] = "verify" \/ w[i] = d
    \/ kinds[i] \in {"directory", "pull", "keychain"} /\ w[i] # Absent

\* A process at work on a run, as opposed to an undo.
Working(at, l) == at \in {"effect", "rollback"} \cup Persisting /\ l.phase # "undo"

\* Steps are applied one after the other: those before l.next are in place,
\* and the targets of the others are as they were found.
Advancing(kinds, w, l, others) ==
    /\ l.phase = "apply" /\ l.next = Len(l.receipts) + 1
    /\ \A k \in Steps \ others :
          IF k < l.next THEN InPlace(kinds, w, k, l.digest) ELSE w[k] = l.start[k]

\* A run that is being persisted reports what became of it.
Reported(kinds, w, l, others) ==
    /\ l.phase \in {"apply", "evidence"}
    /\ l.status \in TakenBack => \A k \in DOMAIN l.receipts : l.receipts[k].compensated
    /\ l.status \in Complete => \A k \in Steps \ others : InPlace(kinds, w, k, l.digest)

RunOK(kinds, w, at, l, others) ==
    /\ at = "finalize" =>
          l.phase = "apply" /\ l.next = 1 /\ l.receipts = <<>> /\ l.status = "refused"
    /\ Working(at, l) => Books(kinds, w, l, others)
    /\ at = "effect" => Advancing(kinds, w, l, others)
    /\ at = "rollback" =>
          /\ l.phase # "evidence"
          /\ l.phase = "apply" => l.status \in TakenBack
          /\ l.phase # "undo" => RolledTo(kinds, w, l, others)
    /\ at \in Persisting => Reported(kinds, w, l, others)

RunInv == \A p \in Procs : RunOK(recipe, world, pc[p], run[p], touched[p])

LEMMA LabelsApart ==
    /\ "rollback" \notin Persisting /\ "effect" \notin Persisting
    /\ "finalize" \notin Persisting /\ "idle" \notin Persisting /\ "write" \notin Persisting
    /\ "lock" \in Persisting
BY DEF Persisting

\* What others do to the targets they own up to does not falsify the books.
LEMMA BooksFrame ==
    ASSUME NEW kinds, NEW w, NEW w2, NEW l, NEW o, NEW o2, o \subseteq o2,
           \A k \in Steps \ o2 : w2[k] = w[k]
    PROVE  /\ Books(kinds, w, l, o) => Books(kinds, w2, l, o2)
           /\ RolledTo(kinds, w, l, o) => RolledTo(kinds, w2, l, o2)
           /\ Advancing(kinds, w, l, o) => Advancing(kinds, w2, l, o2)
           /\ Reported(kinds, w, l, o) => Reported(kinds, w2, l, o2)
<1>1. Books(kinds, w, l, o) => Books(kinds, w2, l, o2)
    BY DEF Books, Faithful, Accounted
<1>2. RolledTo(kinds, w, l, o) => RolledTo(kinds, w2, l, o2)
    BY DEF RolledTo
<1>3. Advancing(kinds, w, l, o) => Advancing(kinds, w2, l, o2)
    BY DEF Advancing, InPlace
<1>4. Reported(kinds, w, l, o) => Reported(kinds, w2, l, o2)
    BY DEF Reported, InPlace
<1> QED BY <1>1, <1>2, <1>3, <1>4

LEMMA RunFrame ==
    ASSUME NEW kinds, NEW w, NEW w2, NEW at, NEW l, NEW o, NEW o2, o \subseteq o2,
           \A k \in Steps \ o2 : w2[k] = w[k], RunOK(kinds, w, at, l, o)
    PROVE  RunOK(kinds, w2, at, l, o2)
BY BooksFrame DEF RunOK

\* The books do not depend on the other locals.
LEMMA BooksSame ==
    ASSUME NEW kinds, NEW w, NEW o, NEW l, NEW m, l.start = m.start, l.receipts = m.receipts
    PROVE  Books(kinds, w, l, o) <=> Books(kinds, w, m, o)
BY DEF Books, Faithful, Accounted

\* A rollback begins where no receipt is left out.
LEMMA RollbackBegins ==
    ASSUME NEW kinds, NEW w, NEW o, NEW l \in Locals, l.left = Len(l.receipts), Books(kinds, w, l, o)
    PROVE  RolledTo(kinds, w, l, o)
<1>1. l.receipts \in Seq(Receipts)
    BY DEF Locals
<1>2. \A k \in Steps : k > l.left => k \notin DOMAIN l.receipts
    BY <1>1
<1> QED BY <1>2 DEF Books, Accounted, RolledTo

\* ... and is through when there is none left before: then a run without
\* receipts, or with its receipts marked, has its books in order.
LEMMA RollbackEnds ==
    ASSUME NEW kinds, NEW w, NEW o, NEW l \in Locals, NEW m, m.start = l.start,
           l.left = 0, l.ok, RolledTo(kinds, w, l, o), Books(kinds, w, l, o),
           m.receipts \in {<<>>, Marked(l.receipts)}
    PROVE  /\ Books(kinds, w, m, o)
           /\ \A k \in DOMAIN m.receipts : m.receipts[k].compensated
<1>0. l.receipts \in Seq(Receipts)
    BY DEF Locals
<1>1. \A k \in Steps \ o : Spared(kinds, l.start, k) => w[k] = l.start[k]
    BY DEF RolledTo, Steps
<1>2. Accounted(kinds, w, m, o)
    BY <1>1 DEF Accounted
<1>3. CASE m.receipts = <<>>
    BY <1>2, <1>3, NoReceipt DEF Books, Faithful
<1>4. CASE m.receipts = Marked(l.receipts)
  <2>1. Faithful(kinds, m, o)
      BY <1>0, <1>4, MarkedType DEF Books, Faithful
  <2>2. \A k \in DOMAIN m.receipts : m.receipts[k].compensated
      BY <1>0, <1>4, MarkedType
  <2> QED BY <1>2, <2>1, <2>2 DEF Books
<1> QED BY <1>3, <1>4

\* Step i of l takes the world from w to w2 and leaves the receipt r.
Enters(kinds, w, w2, l, m, r) ==
    LET i == Len(l.receipts) + 1 IN
    /\ m.start = l.start /\ m.receipts = Append(l.receipts, r)
    /\ r.step = i /\ r.prior = w[i] /\ ~r.compensated
    /\ kinds[i] = "build" /\ r.replaced => w[i] # Absent
    /\ ~r.changed => w2[i] = w[i]
    /\ \A k \in Steps : k # i => w2[k] = w[k]

\* A step that says in its receipt what it found keeps the books.
LEMMA BooksAppend ==
    ASSUME NEW kinds, NEW w, NEW w2, NEW o, NEW l \in Locals, NEW m, NEW r \in Receipts,
           Enters(kinds, w, w2, l, m, r), Books(kinds, w, l, o), Advancing(kinds, w, l, o)
    PROVE  Books(kinds, w2, m, o)
<1> DEFINE i == Len(l.receipts) + 1
<1>h. /\ m.start = l.start /\ m.receipts = Append(l.receipts, r)
      /\ r.step = i /\ r.prior = w[i] /\ ~r.compensated
      /\ kinds[i] = "build" /\ r.replaced => w[i] # Absent
      /\ ~r.changed => w2[i] = w[i]
      /\ \A k \in Steps : k # i => w2[k] = w[k]
    BY DEF Enters
<1>s. i \in Steps /\ i \in Nat /\ i = l.next
    BY <1>h DEF Advancing, Locals, Receipts
<1>i. i \notin o => w[i] = l.start[i]
    BY <1>s DEF Advancing
<1> DEFINE rs == l.receipts  new == m.receipts
<1>0. rs \in Seq(Receipts)
    BY DEF Locals
<1>1. /\ Len(rs) \in Nat /\ DOMAIN rs = 1 .. Len(rs) /\ DOMAIN new = 1 .. Len(rs) + 1
      /\ new[i] = r /\ \A k \in DOMAIN rs : new[k] = rs[k]
    BY <1>0, <1>h, Appended
<1>2. i \in DOMAIN new /\ \A k \in DOMAIN new : k = i \/ (k \in DOMAIN rs /\ k # i)
    BY <1>1
<1> HIDE DEF rs, new, i
<1>3. Faithful(kinds, m, o)
  <2> SUFFICES ASSUME NEW k \in DOMAIN new
               PROVE  /\ new[k].step = k
                      /\ k \notin o =>
                            /\ new[k].prior = m.start[k]
                            /\ kinds[k] = "build" /\ new[k].replaced => m.start[k] # Absent
      BY DEF Faithful, new
  <2>1. CASE k = i
      BY <1>1, <1>h, <1>i, <2>1
  <2>2. CASE k \in DOMAIN rs
      BY <1>1, <1>h, <2>2 DEF Books, Faithful, rs
  <2> QED BY <1>2, <2>1, <2>2
<1>4. Accounted(kinds, w2, m, o)
  <2> SUFFICES ASSUME NEW k \in Steps \ o, Spared(kinds, m.start, k),
                      k \in DOMAIN new => ~new[k].changed \/ new[k].compensated
               PROVE  w2[k] = m.start[k]
      BY DEF Accounted, new
  <2>1. CASE k = i
      BY <1>1, <1>2, <1>h, <1>i, <2>1
  <2>2. CASE k # i
      BY <1>1, <1>h, <2>2 DEF Books, Accounted, rs
  <2> QED BY <2>1, <2>2
<1> QED BY <1>3, <1>4 DEF Books

\* A compensation restores its target or fails, unless there was nothing to
\* restore.
LEMMA BooksCompensate ==
    ASSUME TypeInv, NEW p \in Procs, Compensate(p), NEW o,
           Books(recipe, world, run[p], o), RolledTo(recipe, world, run[p], o)
    PROVE  Books(recipe, world', run'[p], o) /\ RolledTo(recipe, world', run'[p], o)
<1> DEFINE l == run[p]  m == run'[p]  k == l.left  r == l.receipts[k]
<1>1. /\ m.start = l.start /\ m.receipts = l.receipts /\ m.left = k - 1
      /\ k \in DOMAIN l.receipts /\ k \in Nat \ {0} /\ r \in Receipts
    BY Compensated DEF Same
<1>2. \/ LeftAlone(r) /\ m.ok = l.ok /\ world' = world
      \/ /\ ~LeftAlone(r) /\ m.ok = l.ok
         /\ world' = [world EXCEPT ![r.step] = r.prior]
      \/ ~m.ok /\ world' = world
    BY Compensated
<1>3. r.step = k /\ k \in Steps /\ (k \notin o => r.prior = l.start[k])
    BY <1>1 DEF Books, Faithful, Receipts
<1>4. \A j \in Steps : j # k => world'[j] = world[j]
    BY <1>2, <1>3 DEF TypeInv
<1>5. LeftAlone(r) /\ k \notin o /\ Spared(recipe, l.start, k) => world[k] = l.start[k]
    BY <1>1, <1>3 DEF LeftAlone, Books, Faithful, Accounted, Spared
<1>6. m.ok /\ k \notin o /\ Spared(recipe, l.start, k) => world'[k] = l.start[k]
    BY <1>2, <1>3, <1>5 DEF TypeInv
<1>7. world'[k] = world[k] \/ (k \notin o => world'[k] = l.start[k])
    BY <1>2, <1>3 DEF TypeInv
<1> HIDE DEF l, m, k, r
<1>8. Books(recipe, world', m, o)
    BY <1>1, <1>4, <1>7 DEF Books, Faithful, Accounted, l, k
<1>9. RolledTo(recipe, world', m, o)
  <2> SUFFICES ASSUME m.ok, NEW j \in Steps \ o, j > m.left, Spared(recipe, m.start, j)
               PROVE  world'[j] = m.start[j]
      BY DEF RolledTo
  <2>1. l.ok
      BY <1>2
  <2>2. CASE j = k
      BY <1>1, <1>6, <2>2
  <2>3. CASE j # k
    <3>1. j > k
        BY <1>1, <2>3 DEF Steps
    <3> QED BY <1>1, <1>4, <2>1, <2>3, <3>1 DEF RolledTo, l, k
  <2> QED BY <2>2, <2>3
<1> QED BY <1>8, <1>9 DEF m

-----------------------------------------------------------------------------
(* What each step of a run does to its own invariant                       *)

LEMMA RunFinalize ==
    ASSUME TypeInv, NEW p \in Procs, Finalize(p), RunOK(recipe, world, pc[p], run[p], touched[p])
    PROVE  RunOK(recipe, world', pc'[p], run'[p], touched'[p])
<1> DEFINE l == run'[p]
<1>1. CASE pc'[p] = "idle"
    BY <1>1, LabelsApart DEF RunOK, Working
<1>2. CASE pc'[p] \in {"effect", "lock"}
  <2>1. /\ l.start = world /\ l.phase = "apply" /\ l.status = "refused"
        /\ l.next = 1 /\ l.receipts = <<>> /\ touched'[p] = {} /\ world' = world
      BY <1>2, Finalized DEF Finalize, RunOK, TypeInv
  <2> HIDE DEF l
  <2>2. Books(recipe, world', l, touched'[p])
      BY <2>1, NoReceipt DEF Books, Faithful, Accounted
  <2>3. Advancing(recipe, world', l, touched'[p])
      BY <2>1, NoReceipt DEF Advancing, Steps
  <2>4. Reported(recipe, world', l, touched'[p])
      BY <2>1, NoReceipt DEF Reported, Complete
  <2> QED BY <1>2, <2>2, <2>3, <2>4, LabelsApart DEF RunOK, l
<1> QED BY <1>1, <1>2, Finalized

LEMMA RunEffect ==
    ASSUME TypeInv, NEW p \in Procs, Effect(p), RunOK(recipe, world, pc[p], run[p], touched[p])
    PROVE  RunOK(recipe, world', pc'[p], run'[p], touched'[p])
<1> DEFINE l == run[p]  m == run'[p]  i == l.next  o == touched[p]
<1>1. /\ pc[p] = "effect" /\ pc'[p] = "effect" /\ Same(m, l) /\ i \in Steps /\ l \in Locals
      /\ m.phase = l.phase /\ m.next = i + 1
    BY Stepped DEF Effect, TypeInv
<1>2. PICK c \in BOOLEAN, x \in BOOLEAN :
        /\ m.receipts = Append(l.receipts, Receipt(i, c, x))
        /\ x => world[i] # Absent
        /\ c \/ world' = world
        /\ InPlace(recipe, world', i, l.digest)
        /\ \A k \in Steps : k # i => world'[k] = world[k]
        /\ touched'[p] = o
  <2>1. CASE /\ Satisfied(i, l.digest)
             /\ m.receipts = Append(l.receipts, Receipt(i, FALSE, FALSE))
             /\ UNCHANGED <<world, touched, disturbed>>
      BY <2>1 DEF Satisfied, InPlace
  <2>2. CASE /\ m.receipts = Append(l.receipts, Receipt(i, TRUE, world[i] # Absent))
             /\ world' = [world EXCEPT ![i] = l.digest] /\ Disturb(p, i)
    <3>1. touched'[p] = o
        BY <1>1, <2>2, DisturbType
    <3>2. (world[i] # Absent) \in BOOLEAN /\ TRUE \in BOOLEAN
        OBVIOUS
    <3>3. InPlace(recipe, world', i, l.digest) /\ \A k \in Steps : k # i => world'[k] = world[k]
        BY <1>1, <2>2 DEF InPlace, TypeInv
    <3> QED BY <2>2, <3>1, <3>2, <3>3, Zenon
  <2> QED BY <2>1, <2>2, Stepped
<1>3. PICK r \in Receipts : /\ r = Receipt(i, c, x) /\ r.step = i /\ r.prior = world[i]
                            /\ r.changed = c /\ r.replaced = x /\ ~r.compensated
    BY <1>1, ReceiptType DEF Receipt, TypeInv
<1>4. Books(recipe, world, l, o) /\ Advancing(recipe, world, l, o)
    BY <1>1 DEF RunOK, Working, Advancing
<1>5. /\ i = Len(l.receipts) + 1 /\ (i \notin o => world[i] = l.start[i])
      /\ Len(l.receipts) \in Nat /\ l.receipts \in Seq(Receipts)
    BY <1>1, <1>4 DEF Advancing, Locals
<1> HIDE DEF l, m, i, o
<1>6. Books(recipe, world', m, o)
  <2>1. Enters(recipe, world, world', l, m, r)
      BY <1>1, <1>2, <1>3, <1>5 DEF Enters, Same
  <2> QED BY <1>1, <1>4, <2>1, BooksAppend
<1>7. Advancing(recipe, world', m, o)
  <2>1. m.phase = "apply" /\ Len(m.receipts) = i
      BY <1>1, <1>2, <1>3, <1>4, <1>5, Appended DEF Advancing
  <2>2. ASSUME NEW k \in Steps \ o
        PROVE  IF k < m.next THEN InPlace(recipe, world', k, m.digest) ELSE world'[k] = m.start[k]
    <3>1. CASE k = i
        BY <1>1, <1>2, <3>1 DEF Same, Steps
    <3>2. CASE k # i
      <4>1. k < m.next <=> k < i
          BY <1>1, <3>2 DEF Steps
      <4>2. world'[k] = world[k]
          BY <1>2, <3>2
      <4> QED BY <1>1, <1>4, <4>1, <4>2 DEF Advancing, InPlace, Same, i
    <3> QED BY <3>1, <3>2
  <2> QED BY <1>1, <2>1, <2>2 DEF Advancing
<1>8. touched'[p] = o
    BY <1>2
<1> QED BY <1>1, <1>6, <1>7, <1>8, LabelsApart DEF RunOK, m

\* A rollback that begins with the books in order.
LEMMA RunUnwinds ==
    ASSUME NEW kinds, NEW w, NEW o, NEW l \in Locals, Books(kinds, w, l, o),
           l.left = Len(l.receipts), l.phase # "evidence", l.phase = "apply" => l.status \in TakenBack
    PROVE  RunOK(kinds, w, "rollback", l, o)
BY RollbackBegins, LabelsApart DEF RunOK

LEMMA RunDecline ==
    ASSUME TypeInv, NEW p \in Procs, Decline(p), RunOK(recipe, world, pc[p], run[p], touched[p])
    PROVE  RunOK(recipe, world', pc'[p], run'[p], touched'[p])
<1> DEFINE l == run[p]  m == run'[p]  o == touched[p]
<1>1. /\ pc[p] = "effect" /\ pc'[p] = "rollback" /\ Same(m, l)
      /\ m.phase = l.phase /\ m.receipts = l.receipts /\ m.left = Len(m.receipts)
      /\ m.status \in TakenBack /\ touched' = touched /\ world' = world
    BY Declined DEF Decline, history
<1>2. l.phase = "apply" /\ Books(recipe, world, l, o)
    BY <1>1 DEF RunOK, Working, Advancing
<1>3. Books(recipe, world', m, o)
    BY <1>1, <1>2, BooksSame DEF Same
<1> QED BY <1>1, <1>2, <1>3, RunUnwinds DEF Same

LEMMA RunStepFails ==
    ASSUME TypeInv, NEW p \in Procs, StepFails(p), RunOK(recipe, world, pc[p], run[p], touched[p])
    PROVE  RunOK(recipe, world', pc'[p], run'[p], touched'[p])
<1> DEFINE l == run[p]  m == run'[p]  i == l.next  o == touched[p]
<1>1. /\ pc[p] = "effect" /\ pc'[p] = "rollback" /\ Same(m, l) /\ i \in Steps /\ l \in Locals
      /\ m.phase = l.phase /\ m.left = Len(m.receipts) /\ m.status \in TakenBack
    BY Failed DEF TypeInv
<1>2. l.phase = "apply" /\ Books(recipe, world, l, o) /\ Advancing(recipe, world, l, o)
    BY <1>1 DEF RunOK, Working, Advancing
<1>3. Books(recipe, world', m, touched'[p])
  <2>1. CASE m.receipts = l.receipts /\ UNCHANGED <<world, touched, disturbed>>
      BY <1>1, <1>2, <2>1, BooksSame DEF Same
  <2>2. CASE /\ m.receipts = Append(l.receipts, Receipt(i, TRUE, recipe[i] = "rekey"))
             /\ UNCHANGED world \/ world' = [world EXCEPT ![i] = l.digest]
             /\ Disturb(p, i)
    <3>1. touched'[p] = o
        BY <1>1, <2>2, DisturbType
    <3>2. PICK x \in BOOLEAN : x = (recipe[i] = "rekey")
        BY Zenon
    <3>3. PICK r \in Receipts : /\ r = Receipt(i, TRUE, x) /\ r.step = i /\ r.prior = world[i]
                                /\ r.changed /\ r.replaced = x /\ ~r.compensated
        BY <1>1, ReceiptType DEF Receipt, TypeInv
    <3>4. /\ i = Len(l.receipts) + 1 /\ (i \notin o => world[i] = l.start[i])
        BY <1>1, <1>2 DEF Advancing, Locals
    <3>5. m.receipts = Append(l.receipts, r)
        BY <2>2, <3>2, <3>3, Zenon
    <3>6. \A k \in Steps : k # i => world'[k] = world[k]
        BY <2>2 DEF TypeInv
    <3>7. Enters(recipe, world, world', l, m, r)
        BY <1>1, <3>2, <3>3, <3>4, <3>5, <3>6 DEF Enters, Same
    <3> HIDE DEF l, m, i, o
    <3>9. Books(recipe, world', m, o)
        BY <1>1, <1>2, <3>7, BooksAppend
    <3> QED BY <3>1, <3>9
  <2>3. CASE /\ m.receipts = l.receipts
             /\ world' = [world EXCEPT ![i] = run[p].digest]
             /\ touched' = [q \in Procs |-> touched[q] \cup {i}]
             /\ disturbed' = disturbed \cup {i}
    <3>1. touched'[p] = o \cup {i} /\ \A k \in Steps \ (o \cup {i}) : world'[k] = world[k]
        BY <1>1, <2>3 DEF TypeInv
    <3>2. Books(recipe, world', l, touched'[p])
        BY <1>2, <3>1, BooksFrame
    <3> QED BY <1>1, <2>3, <3>2, BooksSame DEF Same
  <2> QED BY <2>1, <2>2, <2>3, Failed
<1> QED BY <1>1, <1>2, <1>3, RunUnwinds DEF Same

LEMMA RunFinish ==
    ASSUME TypeInv, NEW p \in Procs, Finish(p), RunOK(recipe, world, pc[p], run[p], touched[p])
    PROVE  RunOK(recipe, world', pc'[p], run'[p], touched'[p])
<1> DEFINE l == run[p]  m == run'[p]  o == touched[p]  rs == l.receipts
<1>1. /\ pc[p] = "effect" /\ pc'[p] = "lock" /\ Same(m, l) /\ l \in Locals
      /\ m.phase = l.phase /\ l.next = Width + 1 /\ touched'[p] = o /\ world' = world
    BY Finished DEF Finish, TypeInv, history
<1>2. \/ m.status = "configured" /\ m.receipts = rs
      \/ m.status = "already" /\ m.receipts = <<>> /\ \A k \in DOMAIN rs : ~rs[k].changed
    BY Finished
<1>3. /\ l.phase = "apply" /\ Books(recipe, world, l, o) /\ Advancing(recipe, world, l, o)
    BY <1>1 DEF RunOK, Working, Advancing
<1>4. \A k \in Steps \ o : InPlace(recipe, world, k, l.digest)
    BY <1>1, <1>3, SetupConstants DEF Advancing, Steps
<1>5. Books(recipe, world, m, o)
  <2>1. CASE m.receipts = rs
      BY <1>1, <1>3, <2>1, BooksSame DEF Same
  <2>2. CASE m.receipts = <<>> /\ \A k \in DOMAIN rs : ~rs[k].changed
    <3>1. \A k \in Steps \ o : Spared(recipe, l.start, k) => world[k] = l.start[k]
        BY <1>3, <2>2 DEF Books, Accounted
    <3> QED BY <1>1, <2>2, <3>1, NoReceipt DEF Books, Faithful, Accounted, Same
  <2> QED BY <1>2, <2>1, <2>2
<1>6. Reported(recipe, world, m, o)
    BY <1>1, <1>2, <1>3, <1>4 DEF Reported, TakenBack, Same
<1> QED BY <1>1, <1>5, <1>6, LabelsApart DEF RunOK

LEMMA RunCompensate ==
    ASSUME TypeInv, NEW p \in Procs, Compensate(p), RunOK(recipe, world, pc[p], run[p], touched[p])
    PROVE  RunOK(recipe, world', pc'[p], run'[p], touched'[p])
<1> DEFINE l == run[p]  m == run'[p]  o == touched[p]
<1>1. /\ pc[p] = "rollback" /\ pc'[p] = "rollback"
      /\ m.phase = l.phase /\ m.status = l.status
    BY Compensated
<1>2. touched'[p] = o
    BY Compensated DEF TypeInv
<1>3. /\ l.phase # "evidence" /\ (l.phase = "apply" => l.status \in TakenBack)
      /\ l.phase # "undo" => RolledTo(recipe, world, l, o) /\ Books(recipe, world, l, o)
    BY <1>1 DEF RunOK, Working
<1>4. l.phase # "undo" => RolledTo(recipe, world', m, o) /\ Books(recipe, world', m, o)
    BY <1>3, BooksCompensate
<1> QED BY <1>1, <1>2, <1>3, <1>4, LabelsApart DEF RunOK, Working

LEMMA RunRolledBack ==
    ASSUME TypeInv, NEW p \in Procs, RolledBack(p), RunOK(recipe, world, pc[p], run[p], touched[p])
    PROVE  RunOK(recipe, world', pc'[p], run'[p], touched'[p])
<1> DEFINE l == run[p]  m == run'[p]  o == touched[p]
<1>1. /\ pc[p] = "rollback" /\ l.left = 0 /\ Same(m, l) /\ l \in Locals
      /\ pc'[p] = (IF l.phase = "undo" THEN "write" ELSE "lock")
      /\ touched'[p] = o /\ world' = world /\ l.receipts \in Seq(Receipts)
    BY Rolled DEF RolledBack, TypeInv, history, Locals
<1>2. /\ l.phase \in {"apply", "recover", "undo"} /\ (l.phase = "apply" => l.status \in TakenBack)
      /\ l.phase # "undo" => RolledTo(recipe, world, l, o) /\ Books(recipe, world, l, o)
    BY <1>1 DEF RunOK, Working, Locals, Phases
<1>3. CASE l.phase = "undo"
    BY <1>1, <1>3, LabelsApart DEF RunOK, Working
<1>4. CASE l.phase # "undo" /\ l.ok
  <2>1. /\ m.start = l.start /\ m.receipts \in {<<>>, Marked(l.receipts)} /\ m.phase \in {"apply", "evidence"}
        /\ m.status \in TakenBack
      BY <1>1, <1>2, <1>4, Rolled DEF Same, TakenBack
  <2> HIDE DEF l, m, o
  <2>2. /\ Books(recipe, world, m, o) /\ \A k \in DOMAIN m.receipts : m.receipts[k].compensated
      BY <1>1, <1>2, <1>4, <2>1, RollbackEnds
  <2>3. Reported(recipe, world, m, o)
      BY <2>1, <2>2 DEF Reported, TakenBack, Complete
  <2> QED BY <1>1, <1>4, <2>2, <2>3, LabelsApart DEF RunOK, m
<1>5. CASE l.phase # "undo" /\ ~l.ok
  <2>1. /\ m.start = l.start /\ m.receipts = l.receipts /\ m.phase \in {"apply", "evidence"}
        /\ m.status = "incomplete"
      BY <1>1, <1>2, <1>5, Rolled DEF Same
  <2>2. Books(recipe, world, m, o)
      BY <1>2, <1>5, <2>1, BooksSame
  <2>3. Reported(recipe, world, m, o)
      BY <2>1 DEF Reported, TakenBack, Complete
  <2> QED BY <1>1, <1>5, <2>2, <2>3, LabelsApart DEF RunOK
<1> QED BY <1>3, <1>4, <1>5

\* A process at rest, or that writes the result of an undo, has no run.
LEMMA RunIdle ==
    ASSUME NEW kinds, NEW w, NEW l, NEW o, NEW at \in {"idle", "write"}
    PROVE  RunOK(kinds, w, at, l, o)
BY LabelsApart DEF RunOK, Working

\* Where the persistence has got to is of no account to what is reported.
LEMMA RunPersists ==
    ASSUME NEW kinds, NEW w, NEW o, NEW l, NEW m, NEW at \in Persisting, NEW to \in Persisting,
           RunOK(kinds, w, at, l, o), m.start = l.start, m.receipts = l.receipts,
           m.phase = l.phase, m.status = l.status, m.digest = l.digest
    PROVE  RunOK(kinds, w, to, m, o)
<1>1. Reported(kinds, w, l, o) /\ Books(kinds, w, l, o)
    BY DEF RunOK, Working, Reported
<1>2. Books(kinds, w, m, o)
    BY <1>1, BooksSame
<1>3. Reported(kinds, w, m, o)
    BY <1>1 DEF Reported
<1> QED BY <1>2, <1>3, LabelsApart DEF RunOK

LEMMA RunPersistFails ==
    ASSUME TypeInv, NEW p \in Procs, pc[p] \in Persisting, PersistFails(p),
           RunOK(recipe, world, pc[p], run[p], touched[p])
    PROVE  RunOK(recipe, world, pc'[p], run'[p], touched[p])
<1> DEFINE l == run[p]  m == run'[p]  o == touched[p]
<1>1. Reported(recipe, world, l, o) /\ Books(recipe, world, l, o)
    BY DEF RunOK, Working, Reported
<1>2. CASE pc'[p] = "idle"
    BY <1>2, RunIdle
<1>3. CASE /\ pc'[p] = "lock" /\ Same(m, l) /\ m.phase = "evidence" /\ m.status = "failed"
           /\ m.receipts = <<>> /\ l.receipts = <<>>
  <2>1. Books(recipe, world, m, o)
      BY <1>1, <1>3, BooksSame DEF Same
  <2>2. Reported(recipe, world, m, o)
      BY <1>3, NoReceipt DEF Reported, Complete
  <2> QED BY <1>3, <2>1, <2>2, LabelsApart DEF RunOK
<1>4. CASE /\ pc'[p] = "rollback" /\ Same(m, l) /\ m.phase = "recover"
           /\ m.receipts = l.receipts /\ m.left = Len(l.receipts)
  <2>1. Books(recipe, world, m, o)
      BY <1>1, <1>4, BooksSame DEF Same
  <2> QED BY <1>4, <2>1, RunUnwinds DEF Same
<1> QED BY <1>2, <1>3, <1>4, Unpersisted

\* The rest of persist_setup: where it goes, when nothing fails.
LEMMA LockTaken ==
    ASSUME TypeInv, NEW p \in Procs, Lock(p), ~PersistFails(p)
    PROVE  LET l == run[p]  m == run'[p] IN
           /\ pc'[p] = "setup" /\ Same(m, l) /\ m.receipts = l.receipts
           /\ m.phase = l.phase /\ m.status = l.status /\ record = l.record
<1>1. PICK m : m = [run[p] EXCEPT !.was = linked]
    OBVIOUS
<1>2. run[p] \in Locals /\ "setup" \in PCs
    BY DEF TypeInv, PCs, Persisting
<1>3. /\ m \in Locals /\ Same(m, run[p]) /\ m.receipts = run[p].receipts
      /\ m.phase = run[p].phase /\ m.status = run[p].status
    BY <1>1, <1>2 DEF TypeInv, Locals, Same
<1>4. Set(p, m) /\ Goto(p, "setup") /\ record = run[p].record
    BY <1>1 DEF Lock, Unchanged
<1> QED BY <1>2, <1>3, <1>4, Moves

\* What p changes in the world, it owns up to before the others.
LEMMA DriftOf ==
    ASSUME TypeInv, NEW p \in Procs, Prepare(p) \/ LoadReceipt(p) \/ Run(p), NEW q \in Procs, q # p
    PROVE  touched[q] \subseteq touched'[q] /\ \A k \in Steps \ touched'[q] : world'[k] = world[k]
<1>1. CASE UNCHANGED <<world, touched>>
    BY <1>1
<1>2. CASE Finalize(p)
    BY <1>2 DEF Finalize, TypeInv
<1>3. CASE Effect(p)
  <2> DEFINE i == run[p].next
  <2>0. i \in Steps
      BY <1>3 DEF Effect
  <2>1. CASE world' = [world EXCEPT ![i] = run[p].digest] /\ Disturb(p, i)
    <3>1. touched'[q] = touched[q] \cup {i}
        BY <2>0, <2>1, DisturbType
    <3> QED BY <2>0, <2>1, <3>1 DEF TypeInv
  <2> QED BY <1>1, <1>3, <2>1 DEF Effect
<1>4. CASE StepFails(p)
  <2> DEFINE i == run[p].next
  <2>0. i \in Steps
      BY <1>4 DEF StepFails
  <2>1. CASE UNCHANGED <<world, touched, disturbed>>
      BY <2>1
  <2>2. CASE /\ UNCHANGED world \/ world' = [world EXCEPT ![i] = run[p].digest]
             /\ Disturb(p, i)
    <3>1. touched'[q] = touched[q] \cup {i}
        BY <2>0, <2>2, DisturbType
    <3> QED BY <2>0, <2>2, <3>1 DEF TypeInv
  <2>3. CASE /\ world' = [world EXCEPT ![i] = run[p].digest]
             /\ touched' = [x \in Procs |-> touched[x] \cup {i}]
      BY <2>0, <2>3 DEF TypeInv
  <2> QED BY <1>4, Failed, <2>1, <2>2, <2>3
<1>5. CASE Compensate(p)
    BY <1>5, <1>1, Compensated DEF TypeInv
<1>6. CASE Prepare(p) \/ LoadReceipt(p) \/ Decline(p) \/ Uncaught(p) \/ Finish(p)
           \/ RolledBack(p)
    BY <1>1, <1>6 DEF Prepare, LoadReceipt, Decline, Uncaught, Finish, RolledBack, history
<1>7. CASE \/ Lock(p) \/ WriteSetup(p) \/ WritePointer(p) \/ WriteReference(p)
           \/ Unpoint(p) \/ Unrecord(p) \/ WriteUndo(p)
    BY <1>1, <1>7 DEF Lock, WriteSetup, WritePointer, WriteReference, Unpoint, Unrecord,
       WriteUndo, history
<1> QED BY <1>2, <1>3, <1>4, <1>5, <1>6, <1>7 DEF Run

LEMMA RunStep == TypeInv /\ RunInv /\ [Next]_vars => RunInv'
<1> SUFFICES ASSUME TypeInv, RunInv, [Next]_vars, NEW p \in Procs
             PROVE  RunOK(recipe', world', pc'[p], run'[p], touched'[p])
    BY DEF RunInv
<1>0. RunOK(recipe, world, pc[p], run[p], touched[p]) /\ UNCHANGED recipe
    BY DEF RunInv, Next, Run, vars, Prepare, LoadReceipt, Finalize, Effect, Decline, StepFails, Uncaught,
       Finish, Compensate, RolledBack, Lock, WriteSetup, WritePointer, WriteReference, Unpoint,
       Unrecord, WriteUndo, Reinstall, Edit
<1>f. ASSUME UNCHANGED <<pc, run>> \/ (pc'[p] = pc[p] /\ run'[p] = run[p]),
             touched[p] \subseteq touched'[p],
             \A k \in Steps \ touched'[p] : world'[k] = world[k]
      PROVE  RunOK(recipe', world', pc'[p], run'[p], touched'[p])
  <2>1. pc'[p] = pc[p] /\ run'[p] = run[p] /\ recipe' = recipe
      BY <1>0, <1>f
  <2> QED BY <1>0, <1>f, <2>1, RunFrame
<1>u. CASE UNCHANGED vars
    BY <1>f, <1>u DEF vars, procvars, history
<1>e. ASSUME NEW i \in Steps, NEW x \in {Absent, Foreign}, Edit(i, x)
      PROVE  RunOK(recipe', world', pc'[p], run'[p], touched'[p])
    BY <1>e, <1>f DEF Edit, procvars, TypeInv
<1>r. ASSUME NEW x \in Digests \cup {Absent}, Reinstall(x)
      PROVE  RunOK(recipe', world', pc'[p], run'[p], touched'[p])
    BY <1>f, <1>r DEF Reinstall, procvars, history
<1>q. ASSUME NEW q \in Procs, q # p, Prepare(q) \/ LoadReceipt(q) \/ Run(q)
      PROVE  RunOK(recipe', world', pc'[p], run'[p], touched'[p])
  <2>1. pc'[p] = pc[p] /\ run'[p] = run[p]
      BY <1>q, OneActs
  <2>2. touched[p] \subseteq touched'[p] /\ \A k \in Steps \ touched'[p] : world'[k] = world[k]
      BY <1>q, DriftOf
  <2> QED BY <1>f, <2>1, <2>2
<1>p. CASE Prepare(p)
  <2>1. /\ pc'[p] = "finalize" /\ run'[p].phase = "apply" /\ run'[p].status = "refused"
        /\ run'[p].next = 1 /\ run'[p].receipts = <<>>
      BY <1>p, Prepared
  <2> QED BY <2>1, LabelsApart DEF RunOK, Working
<1>l. CASE LoadReceipt(p)
  <2>1. pc'[p] = "rollback" /\ run'[p].phase = "undo"
      BY <1>l, Loaded
  <2> QED BY <2>1, LabelsApart DEF RunOK, Working
<1>s. CASE Run(p)
  <2> SUFFICES RunOK(recipe, world', pc'[p], run'[p], touched'[p])
      BY <1>0
  <2>1. CASE Finalize(p) \/ Effect(p) \/ Decline(p) \/ StepFails(p) \/ Finish(p)
             \/ Compensate(p) \/ RolledBack(p)
      BY <1>0, <2>1, RunFinalize, RunEffect, RunDecline, RunStepFails, RunFinish,
         RunCompensate, RunRolledBack
  <2>u. CASE Uncaught(p)
      BY <2>u, Returned, RunIdle DEF Uncaught
  <2>2. ASSUME UNCHANGED <<world, touched>>, pc[p] \in Persisting, PersistFails(p)
        PROVE  RunOK(recipe, world', pc'[p], run'[p], touched'[p])
      BY <1>0, <2>2, RunPersistFails
  <2>3. ASSUME UNCHANGED <<world, touched, run>>, pc[p] \in Persisting,
               NEW to \in Persisting, Goto(p, to)
        PROVE  RunOK(recipe, world', pc'[p], run'[p], touched'[p])
    <3>1. pc'[p] = to
        BY <2>3 DEF Goto, TypeInv
    <3> QED BY <1>0, <2>3, <3>1, RunPersists
  <2>4. CASE Lock(p)
    <3>1. UNCHANGED <<world, touched>> /\ pc[p] \in Persisting /\ "setup" \in Persisting
        BY <2>4 DEF Lock, history, Persisting
    <3>2. CASE PersistFails(p)
        BY <2>2, <3>1, <3>2
    <3>3. CASE ~PersistFails(p)
        BY <1>0, <2>4, <3>1, <3>3, LockTaken, RunPersists DEF Same
    <3> QED BY <3>2, <3>3
  <2>5. CASE WriteSetup(p)
      BY <2>2, <2>3, <2>5 DEF WriteSetup, history, Persisting
  <2>6. CASE WritePointer(p)
      BY <2>3, <2>6 DEF WritePointer, history, Persisting
  <2>7. CASE WriteReference(p)
    <3>1. CASE Return(p)
        BY <3>1, Returned, RunIdle
    <3> QED BY <2>3, <2>7, <3>1 DEF WriteReference, Persisting
  <2>8. CASE Unpoint(p)
      BY <2>3, <2>8 DEF Unpoint, Persisting
  <2>9. CASE Unrecord(p)
      BY <2>2, <2>9 DEF Unrecord, Persisting
  <2>10. CASE WriteUndo(p)
      BY <2>10, Returned, RunIdle DEF WriteUndo
  <2> QED BY <1>s, <2>1, <2>u, <2>4, <2>5, <2>6, <2>7, <2>8, <2>9, <2>10 DEF Run
<1> QED BY <1>u, <1>e, <1>r, <1>q, <1>p, <1>l, <1>s DEF Next

\* The books of every run are in order.
LEMMA RunHolds == Spec => [](TypeInv /\ RunInv)
<1>1. Init => RunInv
  <2> SUFFICES ASSUME Init, NEW p \in Procs
               PROVE  RunOK(recipe, world, pc[p], run[p], touched[p])
      BY DEF RunInv
  <2>1. pc[p] = "idle"
      BY DEF Init
  <2> QED BY <2>1, RunIdle
<1> QED BY <1>1, TypeInit, TypeStep, RunStep, PTL DEF Spec

\* What is made around a target is made on the way to a file or a directory.
Ways == \A i \in made : recipe[i] \in Placed

LEMMA WaysHold == Spec => []Ways
<1>1. Init => Ways
    BY DEF Init, Ways
<1>2. Ways /\ [Next]_vars => Ways'
  <2> SUFFICES ASSUME Ways, [Next]_vars PROVE Ways'
      OBVIOUS
  <2>0. ASSUME UNCHANGED <<recipe, made>> PROVE Ways'
      BY <2>0 DEF Ways
  <2>1. CASE UNCHANGED vars
      BY <2>0, <2>1 DEF vars
  <2>2. ASSUME NEW p \in Procs, Effect(p) PROVE Ways'
      BY <2>2 DEF Effect, MakesWay, Ways
  <2>3. ASSUME NEW p \in Procs, StepFails(p) PROVE Ways'
      BY <2>3 DEF StepFails, MakesWay, Ways
  <2>4. ASSUME NEW p \in Procs,
               \/ Prepare(p) \/ LoadReceipt(p) \/ Finalize(p) \/ Decline(p) \/ Uncaught(p)
               \/ Finish(p) \/ Compensate(p) \/ RolledBack(p)
        PROVE  Ways'
      BY <2>0, <2>4 DEF Prepare, LoadReceipt, Finalize, Decline, Uncaught, Finish, Compensate,
         RolledBack
  <2>5. ASSUME NEW p \in Procs,
               \/ Lock(p) \/ WriteSetup(p) \/ WritePointer(p) \/ WriteReference(p)
               \/ Unpoint(p) \/ Unrecord(p) \/ WriteUndo(p)
        PROVE  Ways'
      BY <2>0, <2>5 DEF Lock, WriteSetup, WritePointer, WriteReference, Unpoint, Unrecord,
         WriteUndo
  <2>6. CASE \/ \E x \in Digests \cup {Absent} : Reinstall(x)
             \/ \E i \in Steps, x \in {Absent, Foreign} : Edit(i, x)
      BY <2>0, <2>6 DEF Reinstall, Edit
  <2> QED BY <2>1, <2>2, <2>3, <2>4, <2>5, <2>6 DEF Next, Run
<1> QED BY <1>1, <1>2, PTL DEF Spec

\* TakenBackIsRestored: a run that reports itself refused, cancelled, failed
\* and rolled back or unverified has put back every target but a retagged
\* image, whatever else fails, unless others changed it since; what it leaves
\* besides are the JSON objects and directories made on the way to a target.
THEOREM SetupTakenBack == Spec => []TakenBackIsRestored
<1>1. TypeInv /\ RunInv /\ Ways => TakenBackIsRestored
  <2> SUFFICES ASSUME RunInv, Ways, NEW p \in Procs, pc[p] \in Persisting,
                      run[p].status \in TakenBack,
                      NEW i \in Steps \ touched[p], Restorable(run[p].start, i)
               PROVE  world[i] = run[p].start[i]
      BY DEF TakenBackIsRestored, Restored, Ways
  <2>1. Reported(recipe, world, run[p], touched[p]) /\ Books(recipe, world, run[p], touched[p])
      BY DEF RunInv, RunOK, Working, Reported
  <2> QED BY <2>1 DEF Reported, Books, Accounted, Spared, Restorable
<1> QED BY <1>1, RunHolds, WaysHold, PTL

\* ConfiguredIsInPlace: a run that reports its setup configured has every
\* step's target in place, unless others changed it since.
THEOREM SetupInPlace == Spec => []ConfiguredIsInPlace
<1>1. TypeInv /\ RunInv => ConfiguredIsInPlace
  <2> SUFFICES ASSUME RunInv, NEW p \in Procs, pc[p] \in Persisting, run[p].status \in Complete,
                      NEW i \in Steps \ touched[p]
               PROVE  Satisfied(i, run[p].digest) \/ world[i] = run[p].digest
      BY DEF ConfiguredIsInPlace
  <2>1. Reported(recipe, world, run[p], touched[p])
      BY DEF RunInv, RunOK
  <2> QED BY <2>1 DEF Reported, InPlace, Satisfied
<1> QED BY <1>1, RunHolds, PTL

-----------------------------------------------------------------------------
(* The invariant of the record.  It is for one process at a time: receipt   *)
(* undo takes no lock and what persist_setup wrote is restored after the    *)
(* lock is released, so that of two processes one may write over the other. *)

Alone == \E p \in Procs : \A q \in Procs : q = p

\* persist_setup has written the record and may still take it back.
Pending == {"pointer", "reference", "unpoint", "unrecord"}

\* A record that stands: its receipts say what the run found, and the object
\* that its undo needs is retained.
Standing(kinds, w, rec, others, held) ==
    rec # None => Books(kinds, w, rec, others) /\ held = rec.digest

\* rec is the record of the run l, but for what is redacted.
Copies(rec, l) ==
    /\ rec.digest = l.digest /\ rec.start = l.start
    /\ DOMAIN rec.receipts = DOMAIN l.receipts
    /\ \A k \in DOMAIN l.receipts :
          /\ rec.receipts[k].step = l.receipts[k].step
          /\ rec.receipts[k].changed = l.receipts[k].changed
          /\ rec.receipts[k].replaced = l.receipts[k].replaced
          /\ rec.receipts[k].prior = l.receipts[k].prior
          /\ rec.receipts[k].compensated = l.receipts[k].compensated

\* What a run has changed, it changed since the record was written.
Newer(l, others) ==
    \A k \in DOMAIN l.receipts :
        l.receipts[k].changed /\ ~l.receipts[k].compensated => k \in others

\* An undo works on what is on record.
Undoing(kinds, w, l, rec, held, others) ==
    /\ Books(kinds, w, l, others) /\ RolledTo(kinds, w, l, others) /\ held = l.digest
    /\ rec.start = l.start /\ rec.receipts = l.receipts

RecordOK(kinds, w, at, l, rec, held, others) ==
    /\ Standing(kinds, w, IF at \in Pending THEN l.record ELSE rec, others, held)
    /\ at = "setup" => rec = l.record
    /\ at \in {"pointer", "reference"} => Copies(rec, l)
    /\ Working(at, l) => Newer(l, others)
    /\ at = "rollback" /\ l.phase = "undo" => Undoing(kinds, w, l, rec, held, others)
    /\ at = "write" =>
          /\ Books(kinds, w, l, others) /\ held = l.digest
          /\ l.status = "skipped" => l.receipts = <<>>

RecordInv ==
    ~botched => \A p \in Procs : RecordOK(recipe, world, pc[p], run[p], record, ref, disturbed)

LEMMA PendingPersists ==
    /\ Pending \subseteq Persisting /\ "lock" \notin Pending /\ "setup" \notin Pending
    /\ \A at \in {"idle", "finalize", "effect", "rollback", "write"} :
          at \notin Pending /\ at # "setup"
BY DEF Pending, Persisting

LEMMA StandingFrame ==
    ASSUME NEW kinds, NEW w, NEW w2, NEW rec, NEW o, NEW o2, NEW h, o \subseteq o2,
           \A k \in Steps \ o2 : w2[k] = w[k], Standing(kinds, w, rec, o, h)
    PROVE  Standing(kinds, w2, rec, o2, h)
BY BooksFrame DEF Standing

LEMMA RecordFrame ==
    ASSUME NEW kinds, NEW w, NEW w2, NEW at, NEW l, NEW rec, NEW o, NEW o2, NEW h, o \subseteq o2,
           \A k \in Steps \ o2 : w2[k] = w[k], RecordOK(kinds, w, at, l, rec, h, o)
    PROVE  RecordOK(kinds, w2, at, l, rec, h, o2)
<1>1. Standing(kinds, w2, IF at \in Pending THEN l.record ELSE rec, o2, h)
    BY StandingFrame DEF RecordOK
<1>2. Undoing(kinds, w, l, rec, h, o) => Undoing(kinds, w2, l, rec, h, o2)
    BY BooksFrame DEF Undoing
<1>3. Newer(l, o) => Newer(l, o2)
    BY DEF Newer
<1>4. Books(kinds, w, l, o) => Books(kinds, w2, l, o2)
    BY BooksFrame
<1> QED BY <1>1, <1>2, <1>3, <1>4 DEF RecordOK

\* A record's books are those of its run.
LEMMA CopiesBooks ==
    ASSUME NEW kinds, NEW w, NEW o, NEW rec, NEW l, Copies(rec, l), Books(kinds, w, l, o)
    PROVE  Books(kinds, w, rec, o)
BY DEF Copies, Books, Faithful, Accounted

LEMMA CopyOf ==
    ASSUME TypeInv, NEW p \in Procs, pc[p] # "idle"
    PROVE  Copies(RecordOf(p), run[p])
<1>1. run[p].receipts \in Seq(Receipts) /\ recipe \in [Steps -> Kinds]
    BY DEF TypeInv, Locals
<1>2. PICK rec : rec = RecordOf(p)
    OBVIOUS
<1>3. rec.digest = run[p].digest /\ rec.start = run[p].start /\ rec.receipts = Redact(run[p].receipts)
    BY <1>2, RecordType
<1>4. Copies(rec, run[p])
    BY <1>1, <1>3, RedactType DEF Copies
<1> QED BY <1>2, <1>4

\* A run at work, while the record stands: what has to be shown of it.
LEMMA RecordWorking ==
    ASSUME NEW kinds, NEW w, NEW at, NEW l, NEW rec, NEW h, NEW o,
           at \in {"idle", "finalize", "effect", "rollback", "lock"},
           at = "rollback" => l.phase # "undo",
           Standing(kinds, w, rec, o, h), Working(at, l) => Newer(l, o)
    PROVE  RecordOK(kinds, w, at, l, rec, h, o)
BY PendingPersists DEF RecordOK

\* What a step of a run keeps of the standing of the record.
LEMMA RecordEffect ==
    ASSUME TypeInv, NEW p \in Procs, Effect(p) \/ StepFails(p),
           RunOK(recipe, world, pc[p], run[p], touched[p]),
           RecordOK(recipe, world, pc[p], run[p], record, ref, disturbed)
    PROVE  RecordOK(recipe, world', pc'[p], run'[p], record, ref, disturbed')
<1> DEFINE l == run[p]  m == run'[p]  i == l.next
<1>1. /\ pc[p] = "effect" /\ pc'[p] \in {"effect", "rollback"} /\ i \in Steps
      /\ m.phase = l.phase /\ l.receipts \in Seq(Receipts)
    BY Stepped, Failed DEF Effect, TypeInv, Locals
<1>2. /\ l.phase = "apply" /\ i = Len(l.receipts) + 1 /\ Newer(l, disturbed)
      /\ Standing(recipe, world, record, disturbed, ref)
    BY <1>1, PendingPersists DEF RunOK, RecordOK, Working, Advancing
<1>3. /\ disturbed \subseteq disturbed'
      /\ \A k \in Steps \ disturbed' : world'[k] = world[k]
      /\ \/ m.receipts = l.receipts
         \/ \E c \in BOOLEAN, x \in BOOLEAN :
               m.receipts = Append(l.receipts, Receipt(i, c, x)) /\ (c => i \in disturbed')
  <2>b. (world[i] # Absent) \in BOOLEAN /\ (recipe[i] = "rekey") \in BOOLEAN
        /\ TRUE \in BOOLEAN /\ FALSE \in BOOLEAN
      OBVIOUS
  <2>1. CASE /\ m.receipts = Append(l.receipts, Receipt(i, FALSE, FALSE))
             /\ UNCHANGED <<world, touched, disturbed>>
      BY <2>1
  <2>2. CASE /\ \E x \in BOOLEAN : m.receipts = Append(l.receipts, Receipt(i, TRUE, x))
             /\ UNCHANGED world \/ world' = [world EXCEPT ![i] = l.digest]
             /\ Disturb(p, i)
    <3>1. disturbed' = disturbed \cup {i}
        BY <2>2 DEF Disturb
    <3>2. \A k \in Steps \ disturbed' : world'[k] = world[k]
        BY <2>2, <3>1 DEF TypeInv
    <3>3. \E c \in BOOLEAN, x \in BOOLEAN :
               m.receipts = Append(l.receipts, Receipt(i, c, x)) /\ (c => i \in disturbed')
        BY <2>2, <3>1
    <3> QED BY <3>1, <3>2, <3>3
  <2>3. CASE m.receipts = l.receipts /\ UNCHANGED <<world, disturbed>>
      BY <2>3
  <2>4. CASE /\ m.receipts = l.receipts /\ world' = [world EXCEPT ![i] = l.digest]
             /\ disturbed' = disturbed \cup {i}
      BY <2>4 DEF TypeInv
  <2>5. CASE Effect(p)
    <3>1. CASE /\ m.receipts = Append(l.receipts, Receipt(i, TRUE, world[i] # Absent))
               /\ world' = [world EXCEPT ![i] = l.digest] /\ Disturb(p, i)
        BY <2>b, <2>2, <3>1, Zenon
    <3> QED BY <2>1, <2>5, <3>1, Stepped
  <2>6. CASE StepFails(p)
    <3>1. CASE /\ m.receipts = Append(l.receipts, Receipt(i, TRUE, recipe[i] = "rekey"))
               /\ UNCHANGED world \/ world' = [world EXCEPT ![i] = l.digest]
               /\ Disturb(p, i)
        BY <2>b, <2>2, <3>1, Zenon
    <3> QED BY <2>3, <2>4, <2>6, <3>1, Failed
  <2> QED BY <2>5, <2>6
<1>4. Newer(m, disturbed')
  <2>1. CASE m.receipts = l.receipts
      BY <1>2, <1>3, <2>1 DEF Newer
  <2>2. ASSUME NEW c \in BOOLEAN, NEW x \in BOOLEAN, c => i \in disturbed',
               m.receipts = Append(l.receipts, Receipt(i, c, x))
        PROVE  Newer(m, disturbed')
    <3>1. PICK r \in Receipts : r = Receipt(i, c, x) /\ r.changed = c
        BY <1>1, ReceiptType DEF Receipt, TypeInv
    <3>2. /\ DOMAIN m.receipts = 1 .. Len(l.receipts) + 1 /\ Len(l.receipts) \in Nat
          /\ DOMAIN l.receipts = 1 .. Len(l.receipts)
          /\ m.receipts[i] = r /\ \A k \in DOMAIN l.receipts : m.receipts[k] = l.receipts[k]
        BY <1>1, <1>2, <2>2, <3>1, Appended
    <3>3. \A k \in DOMAIN m.receipts : k = i \/ k \in DOMAIN l.receipts
        BY <1>2, <3>2
    <3> QED BY <1>2, <1>3, <2>2, <3>1, <3>2, <3>3 DEF Newer
  <2> QED BY <1>3, <2>1, <2>2
<1>5. Standing(recipe, world', record, disturbed', ref)
    BY <1>2, <1>3, StandingFrame
<1> QED BY <1>1, <1>2, <1>4, <1>5, RecordWorking

\* A compensation of a run touches what the run changed, and one of an undo
\* restores what the record says was changed.
LEMMA RecordCompensate ==
    ASSUME TypeInv, NEW p \in Procs, Compensate(p),
           RunOK(recipe, world, pc[p], run[p], touched[p]),
           RecordOK(recipe, world, pc[p], run[p], record, ref, disturbed)
    PROVE  RecordOK(recipe, world', pc'[p], run'[p], record, ref, disturbed)
<1> DEFINE l == run[p]  m == run'[p]  k == l.left  r == l.receipts[k]
<1>1. /\ pc[p] = "rollback" /\ pc'[p] = "rollback" /\ Same(m, l)
      /\ m.phase = l.phase /\ m.receipts = l.receipts /\ k \in DOMAIN l.receipts /\ r \in Receipts
    BY Compensated
<1>2. Standing(recipe, world, record, disturbed, ref)
    BY <1>1, PendingPersists DEF RecordOK
<1>3. CASE l.phase = "undo"
  <2>1. Undoing(recipe, world, l, record, ref, disturbed)
      BY <1>1, <1>3 DEF RecordOK
  <2>2. Books(recipe, world', m, disturbed) /\ RolledTo(recipe, world', m, disturbed)
      BY <2>1, BooksCompensate DEF Undoing
  <2>3. m.digest = l.digest /\ m.start = l.start
      BY <1>1 DEF Same
  <2>4. Books(recipe, world', record, disturbed)
      BY <1>1, <2>1, <2>2, <2>3, BooksSame DEF Undoing
  <2>5. Undoing(recipe, world', m, record, ref, disturbed)
      BY <1>1, <2>1, <2>2, <2>3 DEF Undoing
  <2>6. Standing(recipe, world', record, disturbed, ref)
      BY <1>2, <2>4 DEF Standing
  <2> QED BY <1>1, <1>3, <2>5, <2>6, PendingPersists DEF RecordOK, Working
<1>4. CASE l.phase # "undo"
  <2>1. Newer(l, disturbed) /\ Faithful(recipe, l, touched[p])
      BY <1>1, <1>4 DEF RecordOK, RunOK, Working, Books
  <2>2. \A j \in Steps \ disturbed : world'[j] = world[j]
    <3>1. CASE LeftAlone(r) \/ world' = world
        BY <3>1, Compensated
    <3>2. CASE ~LeftAlone(r) /\ world' = [world EXCEPT ![r.step] = r.prior]
      <4>1. r.step = k /\ k \in disturbed
          BY <1>1, <2>1, <3>2 DEF LeftAlone, Newer, Faithful
      <4> QED BY <3>2, <4>1 DEF TypeInv
    <3> QED BY <3>1, <3>2, Compensated
  <2>3. Standing(recipe, world', record, disturbed, ref)
      BY <1>2, <2>2, StandingFrame
  <2>4. Newer(m, disturbed)
      BY <1>1, <2>1 DEF Newer
  <2> QED BY <1>1, <1>4, <2>3, <2>4, RecordWorking
<1> QED BY <1>3, <1>4

LEMMA RecordRolledBack ==
    ASSUME TypeInv, NEW p \in Procs, RolledBack(p),
           RecordOK(recipe, world, pc[p], run[p], record, ref, disturbed)
    PROVE  RecordOK(recipe, world, pc'[p], run'[p], record, ref, disturbed)
<1> DEFINE l == run[p]  m == run'[p]
<1>1. /\ pc[p] = "rollback" /\ l.left = 0 /\ Same(m, l) /\ l \in Locals
      /\ pc'[p] = (IF l.phase = "undo" THEN "write" ELSE "lock")
      /\ l.receipts \in Seq(Receipts)
    BY Rolled DEF TypeInv, Locals
<1>2. Standing(recipe, world, record, disturbed, ref)
    BY <1>1, PendingPersists DEF RecordOK
<1>3. CASE l.phase = "undo"
  <2>1. Undoing(recipe, world, l, record, ref, disturbed)
      BY <1>1, <1>3 DEF RecordOK
  <2>2. m.digest = l.digest /\ m.start = l.start
      BY <1>1 DEF Same
  <2>3. CASE l.ok /\ m.receipts = <<>>
    <3> HIDE DEF l, m
    <3>1. Books(recipe, world, m, disturbed)
        BY <1>1, <2>1, <2>2, <2>3, RollbackEnds DEF Undoing
    <3> QED BY <1>1, <1>2, <1>3, <2>1, <2>2, <2>3, <3>1, PendingPersists, LabelsApart
            DEF RecordOK, Working, Undoing, m
  <2>4. CASE m.status = "incomplete" /\ m.receipts = l.receipts
    <3>1. Books(recipe, world, m, disturbed)
        BY <2>1, <2>2, <2>4, BooksSame DEF Undoing
    <3> QED BY <1>1, <1>2, <1>3, <2>1, <2>2, <2>4, <3>1, PendingPersists, LabelsApart
            DEF RecordOK, Working, Undoing
  <2> QED BY <1>3, <2>3, <2>4, Rolled
<1>4. CASE l.phase # "undo"
  <2>1. Newer(l, disturbed)
      BY <1>1, <1>4 DEF RecordOK, Working
  <2>2. Newer(m, disturbed)
    <3>1. CASE m.receipts = l.receipts
        BY <2>1, <3>1 DEF Newer
    <3>2. CASE m.receipts = <<>>
        BY <3>2, NoReceipt DEF Newer
    <3>3. CASE m.receipts = Marked(l.receipts)
        BY <1>1, <3>3, MarkedType DEF Newer
    <3> QED BY <3>1, <3>2, <3>3, Rolled
  <2> QED BY <1>1, <1>2, <1>4, <2>2, RecordWorking
<1> QED BY <1>3, <1>4

\* A failed persistence leaves a record that stands.
LEMMA RecordPersistFails ==
    ASSUME TypeInv, NEW p \in Procs, pc[p] \in Persisting, PersistFails(p),
           Newer(run[p], disturbed), NEW rec, Standing(recipe, world, rec, disturbed, ref)
    PROVE  RecordOK(recipe, world, pc'[p], run'[p], rec, ref, disturbed)
<1> DEFINE l == run[p]  m == run'[p]
<1>1. CASE pc'[p] = "idle"
    BY <1>1, RecordWorking, LabelsApart DEF Working
<1>2. CASE pc'[p] = "lock" /\ m.receipts = <<>>
  <2>1. Newer(m, disturbed)
      BY <1>2, NoReceipt DEF Newer
  <2> QED BY <1>2, <2>1, RecordWorking
<1>3. CASE pc'[p] = "rollback" /\ m.phase = "recover" /\ m.receipts = l.receipts
  <2>1. Newer(m, disturbed)
      BY <1>3 DEF Newer
  <2> QED BY <1>3, <2>1, RecordWorking
<1> QED BY <1>1, <1>2, <1>3, Unpersisted

\* A setup that is persisted stands, whatever was on record before.
LEMMA RecordRepaired ==
    ASSUME TypeInv, NEW p \in Procs, WriteReference(p), Return(p),
           RunOK(recipe, world, pc[p], run[p], touched[p]),
           pc[p] \in {"pointer", "reference"} => Copies(record, run[p]),
           ref' = run[p].digest, disturbed' = touched[p]
    PROVE  RecordOK(recipe, world', pc'[p], run'[p], record', ref', disturbed')
<1> DEFINE l == run[p]
<1>1. /\ pc[p] = "reference" /\ pc[p] \in Persisting /\ UNCHANGED <<world, record>>
      /\ Copies(record, l)
    BY DEF WriteReference, Persisting
<1>2. pc'[p] = "idle"
    BY Returned
<1>3. Books(recipe, world, l, touched[p])
    BY <1>1 DEF RunOK, Working, Reported
<1>4. Standing(recipe, world, record, touched[p], l.digest)
    BY <1>1, <1>3, CopiesBooks DEF Standing, Copies
<1> QED BY <1>1, <1>2, <1>4, RecordWorking, LabelsApart DEF Working

\* One process takes a step.
LEMMA RecordRun ==
    ASSUME TypeInv, NEW p \in Procs, Prepare(p) \/ LoadReceipt(p) \/ Run(p), ~botched',
           RunOK(recipe, world, pc[p], run[p], touched[p]),
           RecordOK(recipe, world, pc[p], run[p], record, ref, disturbed)
    PROVE  RecordOK(recipe, world', pc'[p], run'[p], record', ref', disturbed')
<1> DEFINE l == run[p]  m == run'[p]
<1>0. l \in Locals
    BY DEF TypeInv
<1>s. pc[p] \notin Pending => Standing(recipe, world, record, disturbed, ref)
    BY DEF RecordOK
<1>t. pc[p] \in Pending => Standing(recipe, world, l.record, disturbed, ref)
    BY DEF RecordOK
<1>w. pc[p] \in Persisting => l.phase \in {"apply", "evidence"} /\ Newer(l, disturbed)
    BY DEF RunOK, RecordOK, Working, Reported
<1>1. CASE Prepare(p)
  <2>1. pc'[p] = "finalize" /\ UNCHANGED <<world, record, ref, disturbed>> /\ pc[p] = "idle"
      BY <1>1, Prepared DEF Prepare, files, history
  <2> QED BY <1>s, <2>1, PendingPersists, RecordWorking, LabelsApart DEF Working
<1>2. CASE LoadReceipt(p)
  <2>1. /\ pc'[p] = "rollback" /\ m \in Locals /\ m.phase = "undo" /\ m.digest = record.digest
        /\ m.receipts = record.receipts /\ m.start = record.start
        /\ m.left = Len(m.receipts) /\ record # None /\ pc[p] = "idle"
        /\ UNCHANGED <<world, record, ref, disturbed>>
      BY <1>2, Loaded DEF LoadReceipt, files, history
  <2>2. Standing(recipe, world, record, disturbed, ref)
      BY <1>s, <2>1, PendingPersists
  <2> HIDE DEF m
  <2>3. Books(recipe, world, m, disturbed)
      BY <2>1, <2>2, BooksSame DEF Standing
  <2>4. RolledTo(recipe, world, m, disturbed)
      BY <2>1, <2>3, RollbackBegins
  <2>5. Undoing(recipe, world, m, record, ref, disturbed)
      BY <2>1, <2>2, <2>3, <2>4 DEF Undoing, Standing
  <2> QED BY <2>1, <2>2, <2>5, PendingPersists DEF RecordOK, Working, m
<1>3. CASE Run(p)
  <2>1. CASE Finalize(p)
    <3>1. pc[p] = "finalize" /\ UNCHANGED <<world, record, ref, disturbed>>
        BY <2>1 DEF Finalize, files
    <3>2. pc'[p] = "idle" \/ (pc'[p] \in {"effect", "lock"} /\ m.receipts = <<>>)
        BY <2>1, <3>1, Finalized DEF RunOK
    <3>3. Working(pc'[p], m) => Newer(m, disturbed)
        BY <3>2, NoReceipt, LabelsApart DEF Working, Newer
    <3> QED BY <1>s, <3>1, <3>2, <3>3, PendingPersists, RecordWorking
  <2>2. CASE Effect(p) \/ StepFails(p)
    <3>1. UNCHANGED <<record, ref>>
        BY <2>2 DEF Effect, StepFails, files
    <3> QED BY <2>2, <3>1, RecordEffect
  <2>3. CASE Decline(p)
    <3>1. /\ pc[p] = "effect" /\ pc'[p] = "rollback" /\ m.phase = l.phase /\ m.receipts = l.receipts
          /\ UNCHANGED <<world, record, ref, disturbed>>
        BY <2>3, Declined DEF Decline, files, history
    <3>2. l.phase = "apply" /\ Newer(m, disturbed)
        BY <3>1 DEF RunOK, RecordOK, Working, Advancing, Newer
    <3> QED BY <1>s, <3>1, <3>2, PendingPersists, RecordWorking
  <2>u. CASE Uncaught(p)
    <3>1. pc[p] = "effect" /\ pc'[p] = "idle" /\ UNCHANGED <<world, record, ref, disturbed>>
        BY <2>u, Returned DEF Uncaught, files, history
    <3> QED BY <1>s, <3>1, PendingPersists, RecordWorking, LabelsApart DEF Working
  <2>4. CASE Finish(p)
    <3>1. /\ pc[p] = "effect" /\ pc'[p] = "lock" /\ (m.receipts = l.receipts \/ m.receipts = <<>>)
          /\ UNCHANGED <<world, record, ref, disturbed>>
        BY <2>4, Finished DEF Finish, files, history
    <3>2. l.phase = "apply" /\ Newer(l, disturbed)
        BY <3>1 DEF RunOK, RecordOK, Working, Advancing
    <3>3. Newer(m, disturbed)
        BY <3>1, <3>2, NoReceipt DEF Newer
    <3> QED BY <1>s, <3>1, <3>2, <3>3, PendingPersists, RecordWorking
  <2>5. CASE Compensate(p)
    <3>1. UNCHANGED <<record, ref, disturbed>>
        BY <2>5 DEF Compensate, files
    <3> QED BY <2>5, <3>1, RecordCompensate
  <2>6. CASE RolledBack(p)
    <3>1. UNCHANGED <<world, record, ref, disturbed>>
        BY <2>6 DEF RolledBack, files, history
    <3> QED BY <2>6, <3>1, RecordRolledBack
  <2>7. CASE Lock(p)
    <3>1. pc[p] = "lock" /\ pc[p] \in Persisting /\ UNCHANGED <<world, record, ref, disturbed>>
        BY <2>7 DEF Lock, history, Persisting
    <3>2. Standing(recipe, world, record, disturbed, ref)
        BY <1>s, <3>1, PendingPersists
    <3>3. CASE PersistFails(p)
        BY <1>w, <3>1, <3>2, <3>3, RecordPersistFails
    <3>4. CASE ~PersistFails(p)
      <4>1. /\ pc'[p] = "setup" /\ Same(m, l) /\ m.receipts = l.receipts /\ m.phase = l.phase
            /\ record = l.record
          BY <2>7, <3>4, LockTaken
      <4>2. Newer(m, disturbed) /\ record = m.record
          BY <1>w, <3>1, <4>1 DEF Newer, Same
      <4> QED BY <3>1, <3>2, <4>1, <4>2, PendingPersists DEF RecordOK
    <3> QED BY <3>3, <3>4
  <2>8. CASE WriteSetup(p)
    <3>1. /\ pc[p] = "setup" /\ pc[p] \in Persisting /\ UNCHANGED <<world, ref, disturbed>>
          /\ record = l.record /\ pc[p] # "idle"
        BY <2>8 DEF WriteSetup, Persisting, RecordOK
    <3>2. Standing(recipe, world, record, disturbed, ref)
        BY <1>s, <3>1, PendingPersists
    <3>3. CASE PersistFails(p) /\ UNCHANGED record
        BY <1>w, <3>1, <3>2, <3>3, RecordPersistFails
    <3>4. CASE record' = RecordOf(p) /\ Goto(p, "pointer") /\ UNCHANGED run
      <4>1. Copies(record', l)
          BY <3>1, <3>4, CopyOf
      <4>2. pc'[p] = "pointer" /\ m = l
          BY <3>4 DEF Goto, TypeInv
      <4> QED BY <1>w, <3>1, <3>2, <4>1, <4>2 DEF RecordOK, Pending
    <3> QED BY <2>8, <3>3, <3>4 DEF WriteSetup, TypeInv
  <2>9. CASE WritePointer(p)
    <3>1. /\ pc[p] = "pointer" /\ pc'[p] \in {"reference", "unrecord"} /\ m = l
          /\ UNCHANGED <<world, record, ref, disturbed>>
        BY <2>9 DEF WritePointer, Goto, TypeInv, history
    <3> QED BY <1>0, <3>1 DEF RecordOK, Pending, Working, Persisting
  <2>10. CASE WriteReference(p)
    <3>1. pc[p] = "reference" /\ pc[p] \in Persisting /\ UNCHANGED <<world, record>> /\ Copies(record, l)
        BY <2>10 DEF WriteReference, Persisting, RecordOK
    <3>2. CASE ref' = l.digest /\ disturbed' = touched[p] /\ Return(p)
        BY <2>10, <3>1, <3>2, RecordRepaired
    <3>3. CASE Goto(p, "unpoint") /\ UNCHANGED <<ref, disturbed, run>>
      <4>1. pc'[p] = "unpoint" /\ m = l
          BY <3>3 DEF Goto, TypeInv
      <4> QED BY <1>t, <1>w, <3>1, <3>3, <4>1 DEF RecordOK, Pending
    <3> QED BY <2>10, <3>2, <3>3 DEF WriteReference, TypeInv
  <2>11. CASE Unpoint(p)
    <3>1. /\ pc[p] = "unpoint" /\ pc'[p] = "unrecord" /\ m = l
          /\ UNCHANGED <<world, record, ref, disturbed>> /\ pc[p] \in Persisting
        BY <2>11 DEF Unpoint, Goto, TypeInv, Persisting
    <3> QED BY <1>t, <1>w, <3>1 DEF RecordOK, Pending
  <2>12. CASE Unrecord(p)
    <3>1. /\ pc[p] = "unrecord" /\ record' = l.record /\ PersistFails(p)
          /\ UNCHANGED <<world, ref, disturbed>> /\ pc[p] \in Persisting /\ pc[p] \in Pending
        BY <2>12 DEF Unrecord, Persisting, Pending
    <3> QED BY <1>t, <1>w, <3>1, RecordPersistFails
  <2>13. CASE WriteUndo(p)
    <3>1. /\ pc[p] = "write" /\ pc'[p] = "idle" /\ UNCHANGED <<world, ref, disturbed>>
          /\ pc[p] # "idle" /\ (record' = RecordOf(p) \/ UNCHANGED record)
        BY <2>13, Returned DEF WriteUndo, history
    <3>2. Books(recipe, world, l, disturbed) /\ ref = l.digest
        BY <3>1 DEF RecordOK
    <3>3. CASE UNCHANGED record
        BY <1>s, <3>1, <3>3, PendingPersists, RecordWorking, LabelsApart DEF Working
    <3>4. CASE record' = RecordOf(p)
      <4>1. Copies(record', l)
          BY <3>1, <3>4, CopyOf
      <4>2. Standing(recipe, world, record', disturbed, ref)
          BY <3>2, <4>1, CopiesBooks DEF Standing, Copies
      <4> QED BY <3>1, <4>2, RecordWorking, LabelsApart DEF Working
    <3> QED BY <3>1, <3>3, <3>4
  <2> QED BY <1>3, <2>1, <2>2, <2>3, <2>u, <2>4, <2>5, <2>6, <2>7, <2>8, <2>9, <2>10, <2>11,
             <2>12, <2>13 DEF Run
<1> QED BY <1>1, <1>2, <1>3

\* What persist_setup has written is the record of the run, whatever came before.
Copied == \A p \in Procs : pc[p] \in {"pointer", "reference"} => Copies(record, run[p])

LEMMA CopiedStep ==
    ASSUME Alone
    PROVE  TypeInv /\ Copied /\ [Next]_vars => Copied'
<1> SUFFICES ASSUME TypeInv, Copied, [Next]_vars, NEW p \in Procs,
                    pc'[p] \in {"pointer", "reference"}
             PROVE  Copies(record', run'[p])
    BY DEF Copied
<1>0. ASSUME UNCHANGED <<pc, run, record>> PROVE Copies(record', run'[p])
    BY <1>0 DEF Copied
<1>1. CASE UNCHANGED vars
    BY <1>0, <1>1 DEF vars, files, procvars
<1>2. CASE \/ \E x \in Digests \cup {Absent} : Reinstall(x)
           \/ \E i \in Steps, x \in {Absent, Foreign} : Edit(i, x)
    BY <1>0, <1>2 DEF Reinstall, Edit, files, procvars
<1>3. ASSUME NEW q \in Procs, Prepare(q) \/ LoadReceipt(q) \/ Run(q)
      PROVE  Copies(record', run'[p])
  <2>0. q = p
      BY DEF Alone
  <2>1. CASE WriteSetup(p) /\ UNCHANGED run
    <3>1. record' = RecordOf(p) /\ pc[p] # "idle"
        BY <2>1, Unpersisted DEF WriteSetup, Persisting
    <3> QED BY <2>1, <3>1, CopyOf
  <2>2. CASE WritePointer(p)
      BY <2>2 DEF WritePointer, Copied
  <2>3. CASE WriteSetup(p)
    <3>1. CASE PersistFails(p)
        BY <2>3, <3>1, Unpersisted DEF WriteSetup, Persisting
    <3> QED BY <2>1, <2>3, <3>1 DEF WriteSetup
  <2>4. CASE Prepare(p) \/ LoadReceipt(p)
      BY <2>4, Prepared, Loaded
  <2>5. CASE \/ Finalize(p) \/ Effect(p) \/ Decline(p) \/ StepFails(p) \/ Uncaught(p)
             \/ Finish(p) \/ Compensate(p) \/ RolledBack(p)
      BY <2>5, Finalized, Stepped, Declined, Failed, Returned, Finished, Compensated, Rolled
         DEF Uncaught
  <2>6. CASE Lock(p)
    <3>1. CASE PersistFails(p)
        BY <2>6, <3>1, Unpersisted DEF Lock, Persisting
    <3> QED BY <2>6, <3>1, LockTaken
  <2>7. CASE Unrecord(p)
      BY <2>7, Unpersisted DEF Unrecord, Persisting
  <2>8. CASE WriteReference(p) \/ Unpoint(p) \/ WriteUndo(p)
      BY <2>8, Returned DEF WriteReference, Unpoint, WriteUndo, Goto, TypeInv
  <2> QED BY <1>3, <2>0, <2>2, <2>3, <2>4, <2>5, <2>6, <2>7, <2>8 DEF Run
<1> QED BY <1>1, <1>2, <1>3 DEF Next

LEMMA RecordStep ==
    ASSUME Alone
    PROVE  TypeInv /\ RunInv /\ Copied /\ RecordInv /\ [Next]_vars => RecordInv'
<1> SUFFICES ASSUME TypeInv, RunInv, Copied, RecordInv, [Next]_vars, ~botched', NEW p \in Procs
             PROVE  RecordOK(recipe', world', pc'[p], run'[p], record', ref', disturbed')
    BY DEF RecordInv
<1>0. RunOK(recipe, world, pc[p], run[p], touched[p]) /\ UNCHANGED recipe
    BY DEF RunInv, Next, Run, vars, Prepare, LoadReceipt, Finalize, Effect, Decline, StepFails, Uncaught,
       Finish, Compensate, RolledBack, Lock, WriteSetup, WritePointer, WriteReference, Unpoint,
       Unrecord, WriteUndo, Reinstall, Edit, history, TypeInv
<1>b. CASE botched
  \* Only a setup that is persisted puts a botched persistence right.
  <2>1. ASSUME NEW q \in Procs, Prepare(q) \/ LoadReceipt(q) \/ Run(q)
        PROVE  /\ q = p /\ WriteReference(p) /\ Return(p)
               /\ ref' = run[p].digest /\ disturbed' = touched[p]
    <3>1. q = p
        BY DEF Alone
    <3> QED BY <1>b, <2>1, <3>1 DEF Prepare, LoadReceipt, Run, Finalize, Effect, Decline, StepFails,
            Uncaught, Finish, Compensate, RolledBack, Lock, WriteSetup, WritePointer,
            WriteReference, Unpoint, Unrecord, WriteUndo, history
  <2>2. WriteReference(p) /\ Return(p) /\ ref' = run[p].digest /\ disturbed' = touched[p]
      BY <1>b, <2>1 DEF Next, vars, Reinstall, Edit, history
  <2> QED BY <1>0, <2>2, RecordRepaired DEF Copied
<1> SUFFICES ASSUME ~botched
             PROVE  RecordOK(recipe', world', pc'[p], run'[p], record', ref', disturbed')
    BY <1>b
<1>1. RecordOK(recipe, world, pc[p], run[p], record, ref, disturbed)
    BY <1>0 DEF RecordInv
<1>2. CASE UNCHANGED vars
    BY <1>1, <1>2 DEF vars, files, procvars, history
<1>3. ASSUME NEW x \in Digests \cup {Absent}, Reinstall(x)
      PROVE  RecordOK(recipe', world', pc'[p], run'[p], record', ref', disturbed')
    BY <1>1, <1>3 DEF Reinstall, procvars, history
<1>4. ASSUME NEW i \in Steps, NEW x \in {Absent, Foreign}, Edit(i, x)
      PROVE  RecordOK(recipe', world', pc'[p], run'[p], record', ref', disturbed')
  <2>1. /\ UNCHANGED <<recipe, pc, run, record, ref>> /\ disturbed \subseteq disturbed'
        /\ \A k \in Steps \ disturbed' : world'[k] = world[k]
      BY <1>4 DEF Edit, files, procvars, TypeInv
  <2> QED BY <1>1, <2>1, RecordFrame
<1>5. ASSUME NEW q \in Procs, Prepare(q) \/ LoadReceipt(q) \/ Run(q)
      PROVE  RecordOK(recipe', world', pc'[p], run'[p], record', ref', disturbed')
  <2>1. q = p
      BY DEF Alone
  <2> QED BY <1>0, <1>1, <1>5, <2>1, RecordRun
<1> QED BY <1>2, <1>3, <1>4, <1>5 DEF Next

LEMMA RecordHolds ==
    ASSUME Alone
    PROVE  Spec => [](TypeInv /\ RunInv /\ RecordInv)
<1>0. Init => Copied
    BY DEF Init, Copied
<1>1. Init => RecordInv
  <2> SUFFICES ASSUME Init, NEW p \in Procs
               PROVE  RecordOK(recipe, world, pc[p], run[p], record, ref, disturbed)
      BY DEF RecordInv
  <2>1. pc[p] = "idle" /\ record = None
      BY DEF Init
  <2> QED BY <2>1, RecordWorking, LabelsApart DEF Standing, Working
<1> QED BY <1>0, <1>1, RunHolds, CopiedStep, RecordStep, PTL DEF Spec

\* UndoRestores: a receipt undo that reports completion has put every target
\* back to what it was before the recorded run, whatever runs, failed
\* persistences and incomplete undos came in between, but for the targets
\* that were changed since, a retagged image, and what was made on the way to
\* a target.
THEOREM SetupUndoRestores == Alone => (Spec => []UndoRestores)
<1> SUFFICES ASSUME Alone PROVE Spec => []UndoRestores
    OBVIOUS
<1>1. TypeInv /\ RunInv /\ RecordInv /\ Ways => UndoRestores
  <2> SUFFICES ASSUME RecordInv, Ways, NEW p \in Procs, pc[p] = "write", run[p].status = "skipped",
                      ~botched, NEW i \in Steps \ disturbed, Restorable(run[p].start, i)
               PROVE  world[i] = run[p].start[i]
      BY DEF UndoRestores, Restored, Ways
  <2>1. Books(recipe, world, run[p], disturbed) /\ run[p].receipts = <<>>
      BY DEF RecordInv, RecordOK
  <2> QED BY <2>1, NoReceipt DEF Books, Accounted, Spared, Restorable
<1> QED BY <1>1, RecordHolds, WaysHold, PTL

\* RecordRetained: between commands the object of the setup record is held by
\* its reference, whichever write of persist_setup failed, as long as it
\* failed before it took place and what had been written could be restored;
\* and again, whatever happened, once a later setup has been persisted.
THEOREM SetupRecordRetained == Alone => (Spec => []RecordRetained)
<1> SUFFICES ASSUME Alone PROVE Spec => []RecordRetained
    OBVIOUS
<1>1. TypeInv /\ RunInv /\ RecordInv => RecordRetained
  <2> SUFFICES ASSUME RecordInv, \A p \in Procs : pc[p] \notin Persisting, ~botched, record # None
               PROVE  ref = record.digest
      BY DEF RecordRetained
  <2>1. PICK p \in Procs : TRUE
      BY DEF Alone
  <2>2. pc[p] \notin Pending /\ RecordOK(recipe, world, pc[p], run[p], record, ref, disturbed)
      BY PendingPersists DEF RecordInv
  <2> QED BY <2>2 DEF RecordOK, Standing
<1> QED BY <1>1, RecordHolds, PTL
=============================================================================
