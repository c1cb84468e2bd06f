------------------------------- MODULE Setup -------------------------------
(***************************************************************************)
(* Post-install setup of one installed artifact: prepare_setup,            *)
(* finalize_setup and persist_setup of setup_engine, apply_setup_plan and  *)
(* rollback_record of setup_runtime.py, and receipt undo                   *)
(* (receipt_service.py).  A recipe is a list of steps that change the      *)
(* operator's machine; each leaves a receipt, by which it is compensated   *)
(* when a later step fails, when the record cannot be persisted, or when   *)
(* the operator asks for an undo.                                          *)
(*                                                                         *)
(* Nothing locks the machine while steps run.  Only the persistence of the *)
(* record takes the scope lock, and receipt undo not even that.            *)
(*                                                                         *)
(* A step owns one target: a block, a JSON key, a directory, a Keychain    *)
(* item, an image, or whatever a custom script changes.  Its content is    *)
(* Absent, Foreign (somebody else's) or what the recipe of an object put   *)
(* there, named by the object's digest.  Each step has a target of its own *)
(* here.  Two exports from the Keychain into one file have one marker      *)
(* between them (setup.py:805), and the second replaces the first: that    *)
(* case is in Recipes, and nothing is said of it here.                     *)
(***************************************************************************)
EXTENDS Naturals, Sequences, TLC

CONSTANTS
    Procs,    \* processes that run setup or receipt undo
    Width,    \* the number of steps of a recipe
    Recipes,  \* the recipes considered: a subset of [1..Width -> Kinds]
    Digests,  \* versions of the artifact
    Faults,   \* what may go wrong: a subset of FaultKinds
    MaxCommands, MaxEdits,  \* bounds: commands started, targets changed by the operator
    Absent, Foreign, None, Free

Kinds ==
    {"block",      \* file.managed-block, shell.env-from-*
     "lookup",     \* ... that sets a variable with a name the redactor knows
     "json",       \* json.managed-merge
     "secret",     \* ... of a value that the redactor blanks
     "overwrite",  \* ... with replace_existing
     "directory",  \* directory.create
     "keychain",   \* macos-keychain.store
     "rekey",      \* ... with replace_existing
     "pull",       \* docker.pull
     "build",      \* docker.build
     "custom",     \* custom.install: a script with its own rollback
     "verify"}     \* command.verify, restart.notice, trust-store.export

\* The target is a part of a file; it is at a path that may have to be made.
Written == {"block", "lookup", "json", "secret", "overwrite"}
Placed == Written \cup {"directory"}

FaultKinds ==
    {"step",     \* a step fails, with nothing done to its target
     "partial",  \* a store or a script fails half-way, and so does its clean-up
     "late",     \* a step fails after its effect, before its receipt
     "undo",     \* a compensation fails
     "uncaught", \* a step raises what _apply_effects does not catch
     "persist",  \* a write of the setup record or the state file fails
     "refs",     \* the reference index cannot be updated
     "slip",     \* ... but fails only after the file was replaced
     "edit"}     \* the operator makes, changes or removes a target

Steps == 1 .. Width

ASSUME SetupConstants ==
    /\ Width \in Nat /\ MaxCommands \in Nat /\ MaxEdits \in Nat
    /\ Recipes \subseteq [Steps -> Kinds]
    /\ Faults \subseteq FaultKinds
    /\ Absent \notin Digests /\ Foreign \notin Digests /\ Absent # Foreign
    /\ Free \notin Procs

VARIABLES
    recipe,     \* the recipe of the artifact
    world,      \* the content of each step's target
    made,       \* the steps for which a run made whatever was missing on the way
                \* to the target: JSON objects, parent directories
    installed,  \* the object of the installation record, or Absent
    linked,     \* whether that record has its setup_state_ref
    record,     \* the setup state file: None or one record
    ref,        \* the object the SETUP reference retains, or Absent
    lock,       \* who holds the scope lock
    pc, run,    \* where each process is, and its locals
    touched,    \* history: the targets that p's receipts do not account for:
                \* others changed them since p's run began, or a step of p's
                \* failed between its effect and its receipt
    disturbed,  \* history: the same for the record, from the run that wrote it
    botched,    \* history: persist_setup could not restore a file, or left one it had
                \* replaced; until a setup is persisted again
    commands, edits  \* what is left of the bounds

files == <<installed, linked, record, ref, lock>>
procvars == <<pc, run>>
history == <<touched, disturbed, botched>>
bounds == <<commands, edits>>
vars == <<recipe, world, made, files, procvars, history, bounds>>

-----------------------------------------------------------------------------
(* Receipts and records.  "start" is history: the world before the run.    *)

\* Statuses of a run whose effects were all taken back, or that had none, and of one
\* that is in place.  The others are "incomplete" and "skipped".
TakenBack == {"refused", "cancelled", "failed", "unverified"}
Complete == {"configured", "already"}

Receipt(i, changed, replaced) ==
    [step |-> i, changed |-> changed, replaced |-> replaced, prior |-> world[i],
     compensated |-> FALSE, whole |-> TRUE]

\* dump_setup_state writes the receipts redacted.  An export of a variable whose
\* name holds "token" or "secret" loses its value, and so does a JSON value with
\* such a key, and with it the block or value that an undo would look for.  What
\* a custom script loses is the script's affair: its rollback may fail.
Redact(receipts) ==
    [k \in DOMAIN receipts |->
        [receipts[k] EXCEPT !.whole = @ /\ recipe[receipts[k].step] \notin {"lookup", "secret"}]]

\* _rollback_receipt returns True without doing anything.  A tag that named
\* an image before is left where the build moved it.
LeftAlone(r) ==
    \/ r.compensated \/ ~r.changed
    \/ recipe[r.step] = "build" /\ r.replaced

\* ... returns False without doing anything: a pulled image may be shared, a
\* replaced value was not recorded.
Irreversible(r) ==
    \/ recipe[r.step] = "pull"
    \/ recipe[r.step] \in {"overwrite", "rekey"} /\ r.replaced

\* Faulty: whatever is there is taken for the run's own.
Grabbing_Owned(r, d) == world[r.step] # Absent

\* ... finds what it is to remove.  Only files are compared with what the run
\* installed; a directory has to be empty; a Keychain item or a tag is
\* deleted by its name.
Owned(r, d) ==
    LET kind == recipe[r.step]  now == world[r.step] IN
    \/ kind \in Written /\ now = d /\ r.whole
    \/ kind = "directory" /\ now \in Digests
    \/ kind \in {"keychain", "rekey", "build"} /\ now # Absent
    \/ kind = "custom"

\* A step that finds its target as it wants it.
Satisfied(i, d) ==
    \/ recipe[i] = "verify"
    \/ recipe[i] \in Written /\ world[i] = d
    \/ recipe[i] \in {"directory", "pull", "keychain"} /\ world[i] # Absent

\* A JSON key with another value is not overwritten without replace_existing.
Collides(i, d) == recipe[i] \in {"json", "secret"} /\ world[i] \notin {Absent, d}

\* Whatever is missing on the way to a target that is not there is made before
\* it.  No receipt says so, and no compensation removes it.
MakesWay(i) ==
    made' = IF recipe[i] \in Placed /\ world[i] = Absent THEN made \cup {i} ELSE made

-----------------------------------------------------------------------------
(* Processes                                                               *)

Persisting == {"lock", "setup", "pointer", "reference", "unpoint", "unrecord"}

\* phase is what a rollback is for: a failing run ("apply"), a record that could not
\* be persisted ("recover"), an undo; "evidence": the failure record is being persisted.
Blank ==
    [phase |-> "apply", digest |-> Absent, linked |-> FALSE, was |-> FALSE,
     record |-> None, ref |-> Absent, next |-> 1, receipts |-> <<>>, left |-> 0,
     ok |-> TRUE, status |-> "refused", start |-> [i \in Steps |-> Absent]]

Goto(p, label) == pc' = [pc EXCEPT ![p] = label]
Set(p, locals) == run' = [run EXCEPT ![p] = locals]
Return(p) == Goto(p, "idle") /\ Set(p, Blank)

\* p applies a step, wholly or in part: a change that the receipts of the
\* others, and those on record, know nothing of.
Disturb(p, i) ==
    /\ touched' = [q \in Procs |-> IF q = p THEN touched[q] ELSE touched[q] \cup {i}]
    /\ disturbed' = disturbed \cup {i}

\* _rollback_all: every receipt in reverse order, the last one first.
Unwind(p, locals, status) ==
    /\ Goto(p, "rollback")
    /\ Set(p, [locals EXCEPT !.left = Len(locals.receipts), !.ok = TRUE, !.status = status])

\* What a run that did not complete is reported as.
FailedStatus(i) == IF recipe[i] = "verify" THEN "unverified" ELSE "failed"

\* Faulty: the record does not keep the receipts.
Emptied_RecordOf(p) ==
    [digest |-> run[p].digest, status |-> run[p].status,
     receipts |-> <<>>, start |-> run[p].start]

\* The record that persist_setup is given.
RecordOf(p) ==
    [digest |-> run[p].digest, status |-> run[p].status,
     receipts |-> Redact(run[p].receipts), start |-> run[p].start]

\* Persistence failed.  The first time the applied effects are compensated
\* and the failure is persisted instead; the second time that is all.
PersistFails(p) ==
    \/ run[p].phase = "evidence" /\ Return(p)
    \/ /\ run[p].phase = "apply" /\ run[p].receipts = <<>>
       /\ Set(p, [run[p] EXCEPT !.phase = "evidence", !.status = "failed"])
       /\ Goto(p, "lock")
    \/ /\ run[p].phase = "apply" /\ run[p].receipts # <<>>
       /\ Unwind(p, [run[p] EXCEPT !.phase = "recover"], run[p].status)

-----------------------------------------------------------------------------
\* Nothing is installed yet; the targets of the steps are new or all in use.
Init ==
    /\ recipe \in Recipes
    /\ \E x \in {Absent, Foreign} :
           world = [i \in Steps |-> IF recipe[i] = "verify" THEN Absent ELSE x]
    /\ made = {}
    /\ installed = Absent /\ linked = FALSE /\ record = None /\ ref = Absent
    /\ lock = Free
    /\ pc = [p \in Procs |-> "idle"] /\ run = [p \in Procs |-> Blank]
    /\ touched = [p \in Procs |-> {}] /\ disturbed = {} /\ botched = FALSE
    /\ commands = MaxCommands /\ edits = MaxEdits

\* prepare_setup: everything the plan is reviewed against.
Prepare(p) ==
    /\ pc[p] = "idle" /\ installed # Absent /\ commands > 0
    /\ commands' = commands - 1
    /\ Set(p, [Blank EXCEPT !.digest = installed, !.linked = linked,
                            !.record = record, !.ref = ref])
    /\ Goto(p, "finalize")
    /\ UNCHANGED <<recipe, made, world, files, history, edits>>

\* _preconditions_current.
PreconditionsCurrent(p) ==
    /\ installed = run[p].digest /\ linked = run[p].linked
    /\ record = run[p].record /\ ref = run[p].ref

\* finalize_setup: a changed precondition is a conflict.  apply_setup_plan
\* may refuse before the first step: the platform, a missing tool, an input.
Finalize(p) ==
    /\ pc[p] = "finalize"
    /\ \/ ~PreconditionsCurrent(p) /\ Return(p) /\ UNCHANGED touched
       \/ /\ PreconditionsCurrent(p)
          /\ Set(p, [run[p] EXCEPT !.start = world])
          /\ touched' = [touched EXCEPT ![p] = {}]
          /\ Goto(p, "effect") \/ Goto(p, "lock")
    /\ UNCHANGED <<recipe, made, world, files, disturbed, botched>>

\* Faulty: a collision is passed over as if the step were satisfied.
Tolerant_Effect(p) ==
    LET i == run[p].next  d == run[p].digest
        done == [run[p] EXCEPT !.next = i + 1]
        pass == Satisfied(i, d) \/ Collides(i, d)
    IN
    /\ pc[p] = "effect" /\ i \in Steps
    /\ \/ /\ pass
          /\ Set(p, [done EXCEPT !.receipts = Append(@, Receipt(i, FALSE, FALSE))])
          /\ UNCHANGED <<world, touched, disturbed>>
       \/ /\ ~pass
          /\ Set(p, [done EXCEPT !.receipts = Append(@, Receipt(i, TRUE, world[i] # Absent))])
          /\ world' = [world EXCEPT ![i] = d]
          /\ Disturb(p, i)
    /\ UNCHANGED <<recipe, made, files, pc, botched>>

\* One approved step of _apply_effects.
Effect(p) ==
    LET i == run[p].next  d == run[p].digest
        done == [run[p] EXCEPT !.next = i + 1]
    IN
    /\ pc[p] = "effect" /\ i \in Steps
    /\ \/ /\ Satisfied(i, d)
          /\ Set(p, [done EXCEPT !.receipts = Append(@, Receipt(i, FALSE, FALSE))])
          /\ UNCHANGED <<world, made, touched, disturbed>>
       \/ /\ ~Satisfied(i, d) /\ ~Collides(i, d)
          /\ Set(p, [done EXCEPT !.receipts = Append(@, Receipt(i, TRUE, world[i] # Absent))])
          /\ world' = [world EXCEPT ![i] = d] /\ MakesWay(i)
          /\ Disturb(p, i)
    /\ UNCHANGED <<recipe, files, pc, botched>>

\* The operator declines the next step.
Decline(p) ==
    /\ pc[p] = "effect" /\ run[p].next \in Steps
    /\ Unwind(p, run[p], "cancelled")
    /\ UNCHANGED <<recipe, made, world, files, history>>

\* Faulty: the receipt of a step that failed half-way is dropped.
Careless_StepFails(p) ==
    LET i == run[p].next IN
    /\ pc[p] = "effect" /\ i \in Steps
    /\ ~Satisfied(i, run[p].digest) /\ recipe[i] \in {"custom", "rekey", "keychain"}
    /\ world' = [world EXCEPT ![i] = run[p].digest]
    /\ Unwind(p, run[p], FailedStatus(i)) /\ Disturb(p, i)
    /\ UNCHANGED <<recipe, made, files, botched>>

\* A step fails.  A Keychain store or a custom script that cannot clean up
\* after itself still leaves a receipt; a replaced item is not restorable.
StepFails(p) ==
    LET i == run[p].next  d == run[p].digest  status == FailedStatus(i)
        partial == [run[p] EXCEPT
            !.receipts = Append(@, Receipt(i, TRUE, recipe[i] = "rekey"))]
    IN
    /\ pc[p] = "effect" /\ i \in Steps
    /\ \/ /\ \/ Collides(i, d) /\ UNCHANGED made
             \/ "step" \in Faults /\ MakesWay(i)
          /\ Unwind(p, run[p], status) /\ UNCHANGED <<world, touched, disturbed>>
       \/ /\ "partial" \in Faults /\ ~Satisfied(i, d)
          /\ \/ recipe[i] \in {"custom", "rekey"} /\ UNCHANGED world
             \/ /\ recipe[i] \in {"custom", "rekey", "keychain"}
                /\ world' = [world EXCEPT ![i] = d]
          /\ Unwind(p, partial, status) /\ Disturb(p, i) /\ UNCHANGED made
       \/ /\ "late" \in Faults /\ ~Satisfied(i, d) /\ ~Collides(i, d)
          /\ recipe[i] # "directory"
          /\ world' = [world EXCEPT ![i] = d] /\ MakesWay(i)
          /\ touched' = [q \in Procs |-> touched[q] \cup {i}]
          /\ disturbed' = disturbed \cup {i}
          /\ Unwind(p, run[p], status)
    /\ UNCHANGED <<recipe, files, botched>>

\* Two blocks with one marker, or a file that is not UTF-8, raise ValueError,
\* which ends the command where it is: nothing is compensated or recorded.
Uncaught(p) ==
    /\ pc[p] = "effect" /\ run[p].next \in Steps
    /\ "uncaught" \in Faults /\ recipe[run[p].next] \in Written
    /\ Return(p)
    /\ UNCHANGED <<recipe, made, world, files, history>>

\* All steps are done; a run that changed nothing keeps no receipts.
Finish(p) ==
    LET changed == \E k \in DOMAIN run[p].receipts : run[p].receipts[k].changed IN
    /\ pc[p] = "effect" /\ run[p].next = Width + 1
    /\ Set(p, IF changed THEN [run[p] EXCEPT !.status = "configured"]
              ELSE [run[p] EXCEPT !.status = "already", !.receipts = <<>>])
    /\ Goto(p, "lock")
    /\ UNCHANGED <<recipe, made, world, files, history>>

\* _rollback_receipt for the next receipt; a failure does not stop the rest.
\* A custom script that says it is not reversible is one that fails.
Compensate(p) ==
    LET k == run[p].left
        r == run[p].receipts[k]
        less == [run[p] EXCEPT !.left = k - 1]
        reversible == ~LeftAlone(r) /\ ~Irreversible(r) /\ Owned(r, run[p].digest)
    IN
    /\ pc[p] = "rollback" /\ k > 0
    /\ \/ LeftAlone(r) /\ Set(p, less) /\ UNCHANGED <<world, touched>>
       \/ /\ reversible
          /\ world' = [world EXCEPT ![r.step] = r.prior]
          /\ touched' = [q \in Procs |-> IF q = p THEN touched[q] ELSE touched[q] \cup {r.step}]
          /\ Set(p, less)
       \/ /\ ~LeftAlone(r) /\ (~reversible \/ "undo" \in Faults)
          /\ Set(p, [less EXCEPT !.ok = FALSE])
          /\ UNCHANGED <<world, touched>>
    /\ UNCHANGED <<recipe, made, files, pc, disturbed, botched>>

\* The compensations are through.  A run that took all back keeps no receipt,
\* one whose record could not be persisted keeps them marked, and one that
\* took back a part keeps them all, as they were.
RolledBack(p) ==
    LET l == run[p]
        marked == [k \in DOMAIN l.receipts |-> [l.receipts[k] EXCEPT !.compensated = TRUE]]
    IN
    /\ pc[p] = "rollback" /\ l.left = 0
    /\ Goto(p, IF l.phase = "undo" THEN "write" ELSE "lock")
    /\ Set(p, IF l.phase = "recover"
              THEN [l EXCEPT !.phase = "evidence",
                             !.status = IF l.ok THEN "failed" ELSE "incomplete",
                             !.receipts = IF l.ok THEN marked ELSE @]
              ELSE [l EXCEPT !.status = IF l.ok THEN @ ELSE "incomplete",
                             !.receipts = IF l.ok THEN <<>> ELSE @])
    /\ UNCHANGED <<recipe, made, world, files, history>>

-----------------------------------------------------------------------------
(* persist_setup                                                           *)

\* Under the scope lock, the installation, the setup file and the reference
\* must be as reviewed; the installation may have got its link meanwhile.
Unchanged(p) ==
    /\ installed = run[p].digest /\ (run[p].linked => linked)
    /\ record = run[p].record /\ ref = run[p].ref

Lock(p) ==
    /\ pc[p] = "lock"
    /\ \/ /\ lock = Free /\ Unchanged(p)
          /\ lock' = p
          /\ Set(p, [run[p] EXCEPT !.was = linked])
          /\ Goto(p, "setup")
       \/ /\ lock # Free \/ ~Unchanged(p) \/ "persist" \in Faults
          /\ PersistFails(p)
          /\ UNCHANGED lock
    /\ UNCHANGED <<recipe, made, world, installed, linked, record, ref, history>>

\* _write_atomic may fail after os.replace; persist_setup then takes the file
\* for unwritten, and its handler does not restore it.
WriteSetup(p) ==
    /\ pc[p] = "setup"
    /\ \/ record' = RecordOf(p) /\ Goto(p, "pointer") /\ UNCHANGED <<run, lock, botched>>
       \/ /\ lock' = Free /\ PersistFails(p)
          /\ \/ "persist" \in Faults /\ UNCHANGED <<record, botched>>
             \/ "slip" \in Faults /\ record' = RecordOf(p) /\ botched' = TRUE
    /\ UNCHANGED <<recipe, made, world, installed, linked, ref, touched, disturbed>>

WritePointer(p) ==
    /\ pc[p] = "pointer"
    /\ \/ linked' = TRUE /\ Goto(p, "reference") /\ UNCHANGED lock
       \/ /\ lock' = Free /\ Goto(p, "unrecord")
          /\ \/ "persist" \in Faults /\ UNCHANGED linked
             \/ "slip" \in Faults /\ linked' = TRUE
    /\ UNCHANGED <<recipe, made, world, installed, record, ref, run, history>>

\* replace_references may also fail after it has written the index: its
\* directory cannot be synced, or the lease not released.
WriteReference(p) ==
    /\ pc[p] = "reference"
    /\ lock' = Free
    /\ \/ ref' = run[p].digest /\ disturbed' = touched[p] /\ botched' = FALSE /\ Return(p)
       \/ /\ Goto(p, "unpoint") /\ UNCHANGED <<disturbed, run>>
          /\ \/ "refs" \in Faults /\ UNCHANGED <<ref, botched>>
             \/ "slip" \in Faults /\ ref' = run[p].digest /\ botched' = TRUE
    /\ UNCHANGED <<recipe, made, world, installed, linked, record, touched>>

\* The handler restores what was written, after the lock is released: the
\* whole state file, and the setup file.
Unpoint(p) ==
    /\ pc[p] = "unpoint"
    /\ \/ installed' = run[p].digest /\ linked' = run[p].was /\ UNCHANGED botched
       \/ "undo" \in Faults /\ botched' = TRUE /\ UNCHANGED <<installed, linked>>
    /\ Goto(p, "unrecord")
    /\ UNCHANGED <<recipe, made, world, record, ref, lock, run, touched, disturbed>>

\* Faulty: only the state file is restored.
Hasty_Unrecord(p) ==
    /\ pc[p] = "unrecord"
    /\ PersistFails(p)
    /\ UNCHANGED <<recipe, made, world, installed, linked, record, ref, lock, history>>

Unrecord(p) ==
    /\ pc[p] = "unrecord"
    /\ \/ record' = run[p].record /\ UNCHANGED botched
       \/ "undo" \in Faults /\ botched' = TRUE /\ UNCHANGED record
    /\ PersistFails(p)
    /\ UNCHANGED <<recipe, made, world, installed, linked, ref, lock, touched, disturbed>>

-----------------------------------------------------------------------------
(* receipt undo                                                            *)

\* load_receipt, then rollback_record on the record that was read.
LoadReceipt(p) ==
    /\ pc[p] = "idle"
    /\ installed # Absent /\ linked /\ record # None /\ commands > 0
    /\ commands' = commands - 1
    /\ Unwind(p, [Blank EXCEPT !.phase = "undo", !.digest = record.digest, !.record = record,
                               !.receipts = record.receipts, !.start = record.start], "skipped")
    /\ UNCHANGED <<recipe, made, world, files, history, edits>>

\* apply_undo writes the result over the file, with no lock and unseen.
WriteUndo(p) ==
    /\ pc[p] = "write"
    /\ record' = RecordOf(p) \/ ("persist" \in Faults /\ UNCHANGED record)
    /\ Return(p)
    /\ UNCHANGED <<recipe, made, world, installed, linked, ref, lock, history>>

-----------------------------------------------------------------------------
(* The environment                                                         *)

\* install and update write a record without a link; uninstall removes it.
\* None of them touches the setup file, its reference or the steps' targets.
Reinstall(x) ==
    /\ lock = Free /\ installed # x /\ commands > 0
    /\ commands' = commands - 1
    /\ installed' = x /\ linked' = FALSE
    /\ UNCHANGED <<recipe, made, world, record, ref, lock, procvars, history, edits>>

\* The operator changes, removes or makes a target.
Edit(i, x) ==
    /\ recipe[i] # "verify" /\ world[i] # x
    /\ "edit" \in Faults /\ edits > 0
    /\ edits' = edits - 1
    /\ world' = [world EXCEPT ![i] = x]
    /\ touched' = [p \in Procs |-> touched[p] \cup {i}]
    /\ disturbed' = disturbed \cup {i}
    /\ UNCHANGED <<recipe, made, files, procvars, botched, commands>>

Run(p) ==
    /\ \/ Finalize(p) \/ Effect(p) \/ Decline(p) \/ StepFails(p) \/ Uncaught(p)
       \/ Finish(p) \/ Compensate(p) \/ RolledBack(p)
       \/ Lock(p) \/ WriteSetup(p) \/ WritePointer(p) \/ WriteReference(p)
       \/ Unpoint(p) \/ Unrecord(p) \/ WriteUndo(p)
    /\ UNCHANGED bounds

Next ==
    \/ \E p \in Procs : Prepare(p) \/ LoadReceipt(p) \/ Run(p)
    \/ \E x \in Digests \cup {Absent} : Reinstall(x)
    \/ \E i \in Steps, x \in {Absent, Foreign} : Edit(i, x)

Spec == Init /\ [][Next]_vars

-----------------------------------------------------------------------------
(* Properties                                                              *)

\* A rollback that calls itself complete may leave a tag that named another
\* image moved,
Restorable(start, i) == ~(recipe[i] = "build" /\ start[i] # Absent)

\* and, empty, the JSON objects and parent directories that led to what it took
\* away: the target itself is as it was, what was made around it stays.
Restored(start, others) ==
    \A i \in Steps \ others :
        /\ Restorable(start, i) => world[i] = start[i]
        /\ i \in made => recipe[i] \in Placed

\* A run that reports that it was refused, cancelled, failed and rolled back,
\* or failed its verification left every target as it found it, whichever step
\* failed, and also when it was its record that could not be persisted.  Not so
\* a retagged image, nor the JSON objects and directories made on the way to a
\* target: _rollback_receipt removes the key and the last directory only.
TakenBackIsRestored ==
    \A p \in Procs :
        pc[p] \in Persisting /\ run[p].status \in TakenBack =>
            Restored(run[p].start, touched[p])

\* A run that reports its setup configured, or as configured already, has
\* every step's target in place, where no two steps share one.
ConfiguredIsInPlace ==
    \A p \in Procs :
        pc[p] \in Persisting /\ run[p].status \in Complete =>
            \A i \in Steps \ touched[p] : Satisfied(i, run[p].digest) \/ world[i] = run[p].digest

\* An undo that reports completion has taken back the recorded run, and only
\* that: every target is as before the run, but for what the operator changed,
\* and for the same two things that stay.  Nothing is said of the record of a
\* persistence that failed after it had replaced a file, or could not restore
\* one, until a later setup is persisted.
UndoRestores ==
    \A p \in Procs :
        pc[p] = "write" /\ run[p].status = "skipped" /\ ~botched
            => Restored(run[p].start, disturbed)

\* The object of the setup record is retained by its reference, whatever
\* failed while a newer one was being persisted, if what had been written
\* could be restored.  A write that fails after os.replace is not restored at
\* all: the record is then not retained, until the next setup is persisted.
RecordRetained ==
    (\A p \in Procs : pc[p] \notin Persisting) /\ ~botched /\ record # None
        => ref = record.digest

\* A compensation never touches the operator's own file content: a block or
\* a key that is not the recorded one any more, a directory that is in use.
FilesKept ==
    [][ \A p \in Procs, i \in Steps :
            /\ pc[p] = "rollback" /\ run[p].left > 0 /\ run'[p].left < run[p].left
            /\ recipe[i] \in Placed
            /\ world[i] = Foreign
            => world'[i] = Foreign ]_vars
=============================================================================
