------------------------------- MODULE Registry -------------------------------
(***************************************************************************)
(* Registry curation over one Git checkout: a command surveys the checkout *)
(* and its upstreams, plans, shows the plan, and applies the reviewed plan *)
(* file by file under a lock on the root, with a backup of each file; a    *)
(* publish then commits whatever the checkout holds.  Several maintainers' *)
(* processes run beside an operator with an editor and moving upstreams.   *)
(***************************************************************************)
EXTENDS RegistryPlans

CONSTANTS
    Procs,          \* processes running registry commands
    Commands,       \* the commands they may run
    Starts,         \* the checkouts a history may start from
    Revs,           \* upstream revisions
    NoProc,
    MaxCommands,    \* bound: commands started in a history
    MaxOutside,     \* bound: edits by the operator and movements of an upstream
    Faults          \* may writes fail and processes end

\* What lock.json and index.json hold when they exist: reviews that were hashed with the
\* inputs, and one object for each name.
LockShaped(lock) ==
    lock # NoFile =>
      \A n \in DOMAIN lock.locked :
        n \in Names /\ lock.locked[n].review = lock.inputs[<<"entry", n>>]
IndexShaped(index) ==
    index # NoFile =>
      /\ index = [inputs |-> index.inputs, collection |-> index.collection,
                  objects |-> index.objects]
      /\ index.objects = [n \in DOMAIN index.objects |-> index.objects[n]]

\* A checkout as the commands write it.
Snapshot(s) ==
    /\ s = [f \in Files |-> s[f]]
    /\ LockShaped(At(s, "lock", 0)) /\ IndexShaped(At(s, "index", 0))
    /\ \A n \in Names : Has(s, "provenance", n) => At(s, "provenance", n).authored \in BOOLEAN

\* A package that is a vendored copy, and the very copy its provenance records.
Recorded(s, n) == n \in Vendored(s) /\ CopyMatches(s, n)

ASSUME RegistryAssumption ==
    /\ NoProc \notin Procs
    /\ Names \subseteq Nat \ {0} /\ Revs \subseteq Nat
    /\ NoFile \notin Nat
    /\ \A r \in Revs \cup {1}, b \in BOOLEAN : NoFile # [digest |-> Taken(r), authored |-> b]
    /\ Commands \subseteq {"init", "scaffold", "collection", "format", "vendor", "batch",
                           "revendor", "promote", "refresh", "lock", "build", "publish"}
    /\ \A s \in Starts : Snapshot(s) /\ \A n \in Vendored(s) : CopyMatches(s, n)

VARIABLES
    ws,         \* the checkout: Files -> content
    head,       \* the tree of the last commit
    up,         \* the revision each upstream offers
    holder,     \* the process that holds the lock on the root
    pc,         \* where each process is
    job,        \* the command it runs, and what that command remembers
    result,     \* what its last command reported
    overtaken,  \* processes beside whose apply the operator edited
    copied,     \* vendored copies nobody edited and no apply left broken
    started, outside

tree == <<ws, head, up, overtaken, copied>>
bounds == <<started, outside>>
vars == <<tree, holder, pc, job, result, bounds>>

\* The command and the artifact it names; the revisions acquired; the plan from the
\* reviewed snapshot; the checkout the apply found; the files it has backed up; the
\* paths a publish lists for its commit.
NewJob(c, n, got, s) == [op |-> c, target |-> n, got |-> got, base |-> s, next |-> NoPlan,
                         found |-> NoPlan, backups |-> {}, listed |-> {}]
NoJob == NewJob("none", 0, << >>, NoPlan)

Applying == {p \in Procs : pc[p] \in {"writing", "undoing"}}

Goto(p, where) == pc' = [pc EXCEPT ![p] = where]
Remember(p, field, value) == job' = [job EXCEPT ![p][field] = value]
Report(p, r) == result' = [result EXCEPT ![p] = r]
Return(p, r) == Goto(p, "idle") /\ Report(p, r) /\ job' = [job EXCEPT ![p] = NoJob]

Init ==
    /\ ws \in Starts /\ head = ws
    /\ up = [n \in Names |-> 1]
    /\ holder = NoProc
    /\ pc = [p \in Procs |-> "idle"]
    /\ job = [p \in Procs |-> NoJob]
    /\ result = [p \in Procs |-> "none"]
    /\ overtaken = {}
    /\ copied = Vendored(ws)
    /\ started = 0 /\ outside = 0

-----------------------------------------------------------------------------
Targeted == {"scaffold", "vendor", "revendor", "promote", "refresh"}
Compiling == {"lock", "build", "publish"}

\* Which upstreams a command acquires, from the snapshot it read first.
ToAcquire(s, c, n) ==
    CASE c \in Compiling -> Entries(s)
      [] c \in Targeted \ {"scaffold"} -> {n}
      [] c = "batch" -> Names
      [] OTHER -> {}

\* Lock, build and publish refuse an entry that is not approved, and a re-vendoring a
\* copy that is not the recorded one, before they acquire anything.
SurveyRefuses(s, c, n) ==
    \/ c \in Compiling /\ Unapproved(s) # {}
    \/ c = "refresh" /\ n \notin Entries(s)
    \/ c = "revendor" /\ (n \notin Vendored(s) \/ ~UnchangedIntegrity(s, n))

\* A command reads the checkout, then its upstreams; either may refuse it.  What
\* finished commands reported has been read by then.
Survey(p, c, n) ==
    /\ pc[p] = "idle" /\ result[p] # "dead"
    /\ n = 0 <=> c \notin Targeted
    /\ started < MaxCommands
    /\ started' = started + 1
    /\ LET refused == SurveyRefuses(ws, c, n) IN
       /\ Goto(p, IF refused THEN "idle" ELSE "surveyed")
       /\ job' = IF refused THEN job
                 ELSE [job EXCEPT ![p] =
                         NewJob(c, n, [m \in ToAcquire(ws, c, n) |-> up[m]], ws)]
       /\ result' = [q \in Procs |->
                       CASE q = p -> IF refused THEN "refused" ELSE "none"
                         [] q # p /\ pc[q] = "idle" /\ result[q] # "dead" -> "none"
                         [] OTHER -> result[q]]
    /\ UNCHANGED <<tree, holder, outside>>

\* The origin cannot be read: a refusal, or for a re-vendoring a report.
Unreachable(p) ==
    /\ pc[p] = "surveyed" /\ DOMAIN job[p].got # {}
    /\ Faults
    /\ Return(p, IF job[p].op = "revendor" THEN "reported" ELSE "refused")
    /\ UNCHANGED <<tree, holder, bounds>>

\* A review is the snapshot a plan was made over and the one it would leave.  seen is
\* what the survey read, now a second reading: the preparations differ in which they use.
Review(base, next) == IF next = NoPlan THEN NoPlan ELSE [base |-> base, next |-> next]

PrepareInit(now) == Review(now, InitRegistry(now))
PrepareScaffold(now, n) == Review(now, Scaffold(now, n))
PrepareCollection(now) == Review(now, Collection(now, Names))
PrepareFormat(now) == Review(now, Format(now))
PrepareVendor(now, n, got) == Review(now, Vendor(now, n, got[n]))
PrepareVendorBatch(now, got) == Review(now, VendorBatch(now, Names, got))
\* The maintainer states the version of the movement; the copy is compared again.
PrepareRevendor(now, n, got) == Review(now, Revendor(now, n, got[n], TRUE))
PreparePromote(seen, n, got) == Review(seen, Promote(seen, n, got[n], "approved"))
PrepareUpdate(seen, n, got) == Review(seen, Refresh(seen, n, got[n]))
PrepareGenerated(now, c, got) == Review(now, IF c = "lock" THEN Lock(now, got) ELSE Build(now, got))
PreparePublish(seen, got) == Review(seen, Publish(seen, got))

Prepared(seen, now, c, n, got) ==
    CASE c = "init" -> PrepareInit(now)
      [] c = "scaffold" -> PrepareScaffold(now, n)
      [] c = "collection" -> PrepareCollection(now)
      [] c = "format" -> PrepareFormat(now)
      [] c = "vendor" -> PrepareVendor(now, n, got)
      [] c = "batch" -> PrepareVendorBatch(now, got)
      [] c = "revendor" -> PrepareRevendor(now, n, got)
      [] c = "promote" -> PreparePromote(seen, n, got)
      [] c = "refresh" -> PrepareUpdate(seen, n, got)
      [] c \in {"lock", "build"} -> PrepareGenerated(now, c, got)
      [] c = "publish" -> PreparePublish(seen, got)

Prepare(p) ==
    LET j == job[p]
        review == Prepared(j.base, ws, j.op, j.target, j.got)
    IN  /\ pc[p] = "surveyed"
        /\ IF review = NoPlan
           THEN Return(p, "refused")
           ELSE /\ job' = [job EXCEPT ![p].base = review.base, ![p].next = review.next,
                                      ![p].got = << >>]
                /\ Goto(p, "reviewed")
                /\ UNCHANGED result
        /\ UNCHANGED <<tree, holder, bounds>>

\* The command is run without --yes, or only to check.
Abandon(p) ==
    /\ pc[p] = "reviewed"
    /\ Return(p, "abandoned")
    /\ UNCHANGED <<tree, holder, bounds>>

-----------------------------------------------------------------------------
\* Applying the reviewed plan.

Changes(p) == {f \in Files : job[p].base[f] # job[p].next[f]}

\* A publish goes on to commit what a successful finalize left.
Finished(p, r) ==
    IF job[p].op = "publish" /\ r \in {"applied", "no-op"}
    THEN Goto(p, "finalized") /\ Report(p, r) /\ UNCHANGED job
    ELSE Return(p, r)

Admitted(p) == ws = job[p].base

Free == holder = NoProc

\* A plan without changes only rechecks its snapshot.  Otherwise the lock is taken
\* without waiting, and the checkout is compared with the reviewed one under it.
Enter(p) ==
    /\ pc[p] = "reviewed"
    /\ \/ /\ Changes(p) = {}
          /\ Finished(p, IF Admitted(p) THEN "no-op" ELSE "stale")
          /\ UNCHANGED holder
       \/ /\ Changes(p) # {} /\ (~Free \/ ~Admitted(p))
          /\ Return(p, "stale")
          /\ UNCHANGED holder
       \/ /\ Changes(p) # {} /\ Free /\ Admitted(p)
          /\ holder' = p
          /\ Remember(p, "found", ws)
          /\ Goto(p, "writing")
          /\ UNCHANGED result
    /\ overtaken' = overtaken \ {p}
    /\ UNCHANGED <<ws, head, up, copied, bounds>>

Todo(p) == Changes(p) \ job[p].backups
First(S) == CHOOSE f \in S : \A g \in S : Rank(f) <= Rank(g)
Last(S) == CHOOSE f \in S : \A g \in S : Rank(g) <= Rank(f)

\* The file is the reviewed one, and has the executable bit the plan wants.
TargetCurrent(p, f) ==
    /\ ws[f] = job[p].base[f]
    /\ ws[f] # NoFile /\ job[p].next[f] # NoFile =>
         Executable(f, ws[f]) = Executable(f, job[p].next[f])

GiveUp(p, r) == Goto(p, "undoing") /\ Report(p, r)

\* One change: back the file up, compare it with the review, replace or unlink it.
Write(p) ==
    /\ pc[p] = "writing" /\ Todo(p) # {}
    /\ LET f == First(Todo(p)) IN
       \/ /\ TargetCurrent(p, f)
          /\ ws' = [ws EXCEPT ![f] = job[p].next[f]]
          /\ Remember(p, "backups", job[p].backups \cup {f})
          /\ UNCHANGED <<pc, result>>
       \/ /\ TargetCurrent(p, f) /\ Faults
          /\ Remember(p, "backups", job[p].backups \cup {f})
          /\ GiveUp(p, "failed")
          /\ UNCHANGED ws
       \/ /\ ~TargetCurrent(p, f)
          /\ GiveUp(p, "stale")
          /\ UNCHANGED <<ws, job>>
    /\ UNCHANGED <<head, up, holder, overtaken, copied, bounds>>

\* The copies a successful command leaves behind.
CopiedBy(p) ==
    CASE job[p].op \in {"vendor", "revendor"} -> {job[p].target}
      [] job[p].op = "batch" -> Names
      [] OTHER -> {}

Careless_Verify(p) ==
    /\ pc[p] = "writing" /\ Todo(p) = {}
    /\ Finished(p, "applied")
    /\ holder' = NoProc
    /\ copied' = copied \cup CopiedBy(p)
    /\ UNCHANGED <<ws, head, up, overtaken, bounds>>

\* The checkout is read again and must be the projection, to the byte; it may be unreadable.
Verify(p) ==
    /\ pc[p] = "writing" /\ Todo(p) = {}
    /\ \/ /\ ws = job[p].next
          /\ Finished(p, "applied")
          /\ holder' = NoProc
          /\ copied' = copied \cup CopiedBy(p)
       \/ /\ ws # job[p].next \/ Faults
          /\ GiveUp(p, "failed") /\ UNCHANGED <<job, holder, copied>>
    /\ UNCHANGED <<ws, head, up, overtaken, bounds>>

Partial_Backup(p, f) == IF job[p].found[f] = NoFile THEN ws[f] ELSE job[p].found[f]

\* What a rollback writes back: the bytes of the backup.
Backup(p, f) == job[p].found[f]

\* Backups are restored in reverse; the first that cannot be ends the rollback.
Undo(p) ==
    /\ pc[p] = "undoing"
    /\ LET files == job[p].backups IN
       \/ /\ files = {}
          /\ Return(p, result[p])
          /\ holder' = NoProc
          /\ UNCHANGED <<ws, copied>>
       \/ /\ files # {}
          /\ ws' = [ws EXCEPT ![Last(files)] = Backup(p, Last(files))]
          /\ Remember(p, "backups", files \ {Last(files)})
          /\ UNCHANGED <<pc, result, holder, copied>>
       \/ /\ files # {} /\ Faults
          /\ Return(p, "damaged")
          /\ holder' = NoProc
          /\ copied' = copied \ {f[2] : f \in files}
          /\ UNCHANGED ws
    /\ UNCHANGED <<head, up, overtaken, bounds>>

\* The process ends; the system drops its lock and nothing undoes what it wrote.
Crash(p) ==
    /\ Faults /\ pc[p] \in {"writing", "undoing", "finalized"}
    /\ Return(p, "dead")
    /\ holder' = IF holder = p THEN NoProc ELSE holder
    /\ copied' = IF p \in Applying THEN copied \ {f[2] : f \in Changes(p)} ELSE copied
    /\ UNCHANGED <<ws, head, up, overtaken, bounds>>

-----------------------------------------------------------------------------
\* Publishing: list what is pending, then stage and commit everything.

Pending == {f \in Files : ws[f] # head[f]}

List(p) ==
    /\ pc[p] = "finalized"
    /\ IF Pending = {}
       THEN Return(p, "nothing to commit")
       ELSE Goto(p, "listed") /\ Remember(p, "listed", Pending) /\ UNCHANGED result
    /\ UNCHANGED <<tree, holder, bounds>>

Commit(p) ==
    /\ pc[p] = "listed"
    /\ \/ head' = ws /\ Return(p, "committed")
       \/ Faults /\ UNCHANGED head /\ Return(p, "failed")
    /\ UNCHANGED <<ws, up, holder, overtaken, copied, bounds>>

-----------------------------------------------------------------------------
\* The operator edits a payload, an authored wrapper, an entry's review or a manifest, or
\* commits assessments of what is compiled.
EditTo(f, c) ==
    /\ outside < MaxOutside /\ ws[f] # c
    /\ outside' = outside + 1
    /\ ws' = [ws EXCEPT ![f] = c]
    /\ overtaken' = overtaken \cup Applying
    /\ copied' = copied \ {f[2]}
    /\ UNCHANGED <<head, up, holder, pc, job, result, started>>

Edit ==
    \E n \in Names :
      \/ Has(ws, "payload", n) /\ EditTo(<<"payload", n>>, Tampered)
      \/ ~Has(ws, "artifact", n) /\ EditTo(<<"extra", n>>, Tampered)
      \/ Has(ws, "entry", n) /\ EditTo(<<"entry", n>>, "pending")
      \/ Has(ws, "registry", 0) /\ EditTo(<<"registry", 0>>, "loose")
      \/ /\ Has(ws, "index", 0)
         /\ \E state \in {"clean", "critical", "unverified"} :
              EditTo(<<"security", 0>>, SecurityIndex(At(ws, "index", 0), state))

Move(n) ==
    /\ outside < MaxOutside
    /\ outside' = outside + 1
    /\ \E r \in Revs : r > up[n] /\ up' = [up EXCEPT ![n] = r]
    /\ UNCHANGED <<ws, head, overtaken, copied, holder, pc, job, result, started>>

Next ==
    \/ \E p \in Procs, c \in Commands, n \in Names \cup {0} : Survey(p, c, n)
    \/ \E p \in Procs :
         \/ Unreachable(p) \/ Prepare(p) \/ Abandon(p)
         \/ Enter(p) \/ Write(p) \/ Verify(p) \/ Undo(p) \/ Crash(p)
         \/ List(p) \/ Commit(p)
    \/ Edit
    \/ \E n \in Names : Move(n)

Spec == Init /\ [][Next]_vars

-----------------------------------------------------------------------------
\* An apply that reports anything but success or damage leaves the checkout exactly as
\* it found it, unless the operator edited beside it (_apply_locked, _rollback).
RefusedLeavesNothing ==
    [][\A p \in Procs :
         /\ pc[p] \in {"writing", "undoing"} /\ pc'[p] = "idle"
         /\ result'[p] \in {"stale", "failed"}
         /\ p \notin overtaken
         => ws' = job[p].found]_vars

\* An apply that reports success leaves the reviewed snapshot, reached from the very
\* checkout that was reviewed: nothing written between the review and the lock is lost.
AppliedIsReviewed ==
    [][\A p \in Procs :
         pc[p] = "writing" /\ result'[p] = "applied" /\ pc'[p] # "writing"
         => ws' = job[p].next /\ job[p].found = job[p].base]_vars

\* What a compiled registry must be, stated without the gates: lock and index of these
\* very inputs, every reference approved and pinned, every object the one the checkout
\* or the lock holds, every vendored copy the one its provenance records, every payload
\* one a consumer can start, and evidence, if any, of these very objects and not critical.
Compiled(s) ==
    /\ Has(s, "lock", 0) /\ Has(s, "index", 0)
    /\ DOMAIN At(s, "lock", 0).locked = Entries(s)
    /\ At(s, "lock", 0).inputs = Inputs(s)
    /\ At(s, "index", 0) = IndexOf(s, [n \in Entries(s) |-> At(s, "lock", 0).locked[n].rev])
    /\ \A n \in Entries(s) : At(s, "entry", n) = "approved"
    /\ \A n \in Vendored(s) : CopyMatches(s, n)
    /\ \A n \in Owned(s) : At(s, "payload", n) \notin Undelivered
    /\ Has(s, "security", 0) =>
         At(s, "security", 0) =
           [state |-> "clean", inputs |-> Inputs(s),
            objects |-> {OwnedObject(s, n) : n \in Owned(s)}
              \cup {ReferencedObject(At(s, "lock", 0).locked[n].rev) : n \in Entries(s)}]

\* The strict gates pass exactly the checkouts that are compiled, whatever sequence of
\* commands, edits, rollbacks and crashes led there (validate_registry_workspace with
\* require_compiled, audit_registry_workspace).
GatesAreExact ==
    GraphOk(ws) /\ NativeOk(ws)
      => (Validate(ws, TRUE) \cup Audit(ws) = {} <=> Compiled(ws))

\* A publish whose checkout nobody touched between its apply and its commit commits a
\* compiled registry (_prepare_publish, _run_publish).
CommitIsCompiled ==
    [][\A p \in Procs :
         pc[p] = "listed" /\ result'[p] = "committed" /\ ws = job[p].next
         => Compiled(head')]_vars

\* A vendored copy nobody edited is the copy its provenance records, in every state in
\* which no apply is under way (plan_artifact_vendor, plan_artifact_revendor).
CopyIsRecorded ==
    Applying = {} => \A n \in copied : Recorded(ws, n)
=============================================================================
