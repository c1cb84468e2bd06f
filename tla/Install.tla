------------------------------ MODULE Install ------------------------------
(***************************************************************************)
(* Installing, updating and uninstalling artifacts in one scope:           *)
(* agent_artifacts/installation (prepare_install, finalize_install,        *)
(* apply_plan) and agent_artifacts/lifecycle (prepare_uninstall,           *)
(* apply_uninstall_plan), over the object store's references and garbage   *)
(* collector (agent_artifacts/application/store.py).                       *)
(*                                                                         *)
(* Processes prepare a plan without any lock, and later apply it under the *)
(* scope's flock after re-checking everything the plan was reviewed        *)
(* against.  A failing step raises out of the lock and is compensated.     *)
(* An artifact stands for the kind with every sort of effect, a hook: a    *)
(* private tree (or link) and an entry merged into a shared settings file. *)
(*                                                                         *)
(* The object reference index is only rewritten under the store lease; the *)
(* lease is taken here to be what LeaseProofs shows it to be, exclusive.   *)
(***************************************************************************)
EXTENDS FiniteSets, TLC

CONSTANTS
    Procs,      \* processes running aart commands
    Arts,       \* artifacts installed in this scope: the reference owners
    Linked,     \* the artifacts installed as a link to their object
    Removable,  \* the artifacts that are ever uninstalled
    Varying,    \* the artifacts whose entry is another one in every version
    Forcing,    \* the processes whose command is given force
    Digests,    \* objects of the store, one per artifact version
    Preinstalled, Seed,  \* artifacts installed from the start, and their object
    Others,     \* reference owners of other scopes of the same store
    Inodes,     \* inodes the scope's lock file may have
    Faults,     \* what may go wrong: a subset of FaultKinds
    Absent,     \* nothing at a path, no entry, no record
    Foreign,    \* content at a path that no install wrote
    NoState,    \* there is no state file
    NoPlan

FaultKinds ==
    {"io",       \* a file-system operation of an apply fails
     "undo",     \* ... and so may one of its compensation
     "refs",     \* an update of the reference index fails, nothing written
     "release",  \* ... fails on releasing its lease, after writing the index
     "reread",   \* the index cannot be read back after an update of it
     "edit",     \* the operator edits an installed tree
     "gcgap"}    \* the collector runs while an object is checked, not yet held

ASSUME InstallConstants ==
    /\ Linked \subseteq Arts /\ Removable \subseteq Arts /\ Varying \subseteq Arts
    /\ Forcing \subseteq Procs
    /\ Arts \cap Others = {}
    /\ Faults \subseteq FaultKinds
    /\ Absent \notin Digests /\ Foreign \notin Digests /\ Absent # Foreign
    /\ Absent \notin Inodes
    /\ NoState \notin [Arts -> Digests \cup {Absent}]
    /\ Inodes # {}
    /\ Preinstalled \subseteq Arts /\ Seed \in Digests

VARIABLES
    tree,      \* the private destination of each artifact
    config,    \* the shared settings file: the entry of each artifact
    manifest,  \* the installation state file: the object of each record
    objects,   \* the verified objects in the store
    refs,      \* the object reference index
    doomed,    \* the collector's plan: the objects it has still to delete
    lease,     \* who holds the store lease beyond one step: "free" or "gc"
    lockFile,  \* the inode the lock path names
    fd,        \* the inode each process has open as the scope lock
    flocked,   \* the processes whose flock on that inode is granted
    pc, plan,  \* where each process is, and the plan it applies
    dirty      \* what the process has to compensate if a step fails

store == <<objects, refs, doomed, lease>>
scope == <<tree, config, manifest>>
lockvars == <<lockFile, fd, flocked>>
procvars == <<pc, plan, dirty>>
vars == <<store, scope, lockvars, procvars>>

-----------------------------------------------------------------------------
(* References                                                              *)

Kinds == {"installed", "transaction"}

Ref(kind, owner, digest) == [kind |-> kind, owner |-> owner, digest |-> digest]

References == [kind : Kinds, owner : Arts \cup Others, digest : Digests]

OwnedBy(kind, owner) == {r \in refs : r.kind = kind /\ r.owner = owner}

\* replace_references: the owner's references of one kind become those of ds.
Replaced(kind, owner, ds) ==
    (refs \ OwnedBy(kind, owner)) \cup {Ref(kind, owner, d) : d \in ds}

Referenced == {r.digest : r \in refs}

\* One call of replace_references under the store lease, whether it returns
\* Ok, or an error with the index left alone or already rewritten.
ReplaceOk(kind, owner, ds) ==
    lease = "free" /\ refs' = Replaced(kind, owner, ds)

ReplaceErr(kind, owner, ds) ==
    \/ "refs" \in Faults /\ refs' = refs
    \/ "release" \in Faults /\ ReplaceOk(kind, owner, ds)

-----------------------------------------------------------------------------
(* Plans                                                                   *)

Contents == Digests \cup {Absent, Foreign}
Entries == [Arts -> Digests \cup {Absent}]
Emptied == [a \in Arts |-> Absent]
States == Entries \cup {NoState}

\* The records of a state file: none when there is no file.
Records(m) == IF m = NoState THEN Emptied ELSE m

Plans ==
    [op : {"install", "uninstall"}, art : Arts, digest : Digests,
     tree : Contents, config : Entries, manifest : States,
     refs : SUBSET References]

Installing(p) == plan[p].op = "install"

\* What the plan's artifact is to have at its places once it is applied.
Wanted(p) == IF Installing(p) THEN plan[p].digest ELSE Absent

\* The plan's replacement of the shared file and of the state.
WantedConfig(p) == [plan[p].config EXCEPT ![plan[p].art] = Wanted(p)]
WantedManifest(p) == [Records(plan[p].manifest) EXCEPT ![plan[p].art] = Wanted(p)]
WantedRefs(p) ==
    {r \in plan[p].refs : ~(r.kind = "installed" /\ r.owner = plan[p].art)}

\* _owner_digests of the reviewed index.
ReviewedDigests(p) ==
    {r.digest : r \in {r \in plan[p].refs : r.kind = "installed" /\ r.owner = plan[p].art}}

\* _conflicts, _plan_removal: content that is neither absent, nor what the
\* record owns, nor already as wanted is overwritten only by force.
Conflicting(p, a, wanted) ==
    p \notin Forcing /\ tree[a] \notin {Absent, wanted, Records(manifest)[a]}

\* _merged_content: an entry that differs from the one to be merged is replaced
\* only by force, whoever owns it.
Differing(p, a, d) ==
    p \notin Forcing /\ a \in Varying /\ config[a] \notin {Absent, d}

\* (faulty variant: the destination is not looked at again)
Lax_PreconditionsCurrent(p) ==
    /\ config = plan[p].config
    /\ manifest = plan[p].manifest
    /\ IF Installing(p) THEN plan[p].digest \in objects ELSE refs = plan[p].refs

\* _preconditions_current, and the checks at the head of apply_uninstall_plan:
\* everything the plan was reviewed against is still as it was.
PreconditionsCurrent(p) ==
    /\ tree[plan[p].art] = plan[p].tree
    /\ config = plan[p].config
    /\ manifest = plan[p].manifest
    /\ IF Installing(p) THEN plan[p].digest \in objects ELSE refs = plan[p].refs

-----------------------------------------------------------------------------
(* Processes.  pc names the step a process is about to take.               *)

\* Until the index has its new references a failing step takes all back.
Reversible == {"retain", "tree", "config", "manifest", "reference", "verify",
               "mismatch", "recheck"}
Applying == Reversible \cup {"release", "teardown", "unlink"}
PCs == Applying \cup
    {"idle", "finalize", "flock", "check", "unlock", "undo", "incomplete"}
Effects == {"installed", "manifest", "config", "tree", "transaction"}

Goto(p, label) == pc' = [pc EXCEPT ![p] = label]

\* The descriptor is closed, which drops its flock.
Unlock(p) ==
    /\ fd' = [fd EXCEPT ![p] = Absent]
    /\ flocked' = flocked \ {p}

Soil(p, effect) == dirty' = [dirty EXCEPT ![p] = @ \cup {effect}]
Clean(p, effect) == dirty' = [dirty EXCEPT ![p] = @ \ {effect}]

\* The command returns; the process may run another one.
Return(p) ==
    /\ Goto(p, "idle")
    /\ plan' = [plan EXCEPT ![p] = NoPlan]
    /\ dirty' = [dirty EXCEPT ![p] = {}]

\* An exception leaves "with _lock(...)" before its handler compensates.
Raise(p) ==
    /\ Goto(p, "undo")
    /\ Unlock(p)
    /\ UNCHANGED <<plan, lockFile>>

Proceed(p, label) ==
    /\ Goto(p, label)
    /\ UNCHANGED <<plan, lockvars>>

\* An object is counted on although no reference holds it: it is checked and
\* not retained yet, or the uninstall that released it is taken back.  Unless
\* "gcgap" may happen, no collection begins, or goes on, in such a gap.
GapOpen ==
    \E p \in Procs :
        IF pc[p] \in {"check", "retain"} THEN Installing(p)
        ELSE pc[p] \in {"verify", "mismatch", "recheck", "undo"} /\ ~Installing(p)

-----------------------------------------------------------------------------
(* Faulty variants of the actions below: each is the mistake one property  *)
(* of this module is there to catch.                                       *)

\* the lock is taken shared
Shared_Flock(p) ==
    /\ pc[p] = "flock"
    /\ flocked' = flocked \cup {p}
    /\ Goto(p, "check")
    /\ UNCHANGED <<lockFile, fd, plan, dirty, store, scope>>

\* nothing is checked again under the lock
Trusting_Check(p) ==
    /\ pc[p] = "check"
    /\ Proceed(p, IF Installing(p) THEN "retain" ELSE "tree")
    /\ UNCHANGED <<dirty, store, scope>>

\* the object is not retained for the transaction
Skipped_Retain(p) ==
    /\ pc[p] = "retain"
    /\ Proceed(p, "tree")
    /\ UNCHANGED <<store, scope, dirty>>

\* an effect counts as attempted only once it has succeeded
Late_ApplyConfig(p) ==
    /\ pc[p] = "config"
    /\ \/ Soil(p, "config") /\ config' = WantedConfig(p) /\ Proceed(p, "manifest")
       \/ /\ "io" \in Faults /\ UNCHANGED dirty
          /\ config' = WantedConfig(p) /\ Raise(p)
    /\ UNCHANGED <<store, tree, manifest>>

\* a rollback does not return before it is complete
Strict_Undone(p) ==
    /\ pc[p] = "undo" /\ dirty[p] = {}
    /\ Return(p)
    /\ UNCHANGED <<store, scope, lockvars>>

-----------------------------------------------------------------------------
Init ==
    /\ tree = [a \in Arts |-> IF a \in Preinstalled THEN Seed ELSE Absent]
    /\ config = tree
    /\ manifest = IF Preinstalled = {} THEN NoState ELSE tree
    /\ refs = {Ref("installed", a, Seed) : a \in Preinstalled}
    /\ objects = Referenced /\ doomed = {} /\ lease = "free"
    /\ lockFile = IF Preinstalled = {} THEN Absent ELSE CHOOSE i \in Inodes : TRUE
    /\ fd = [p \in Procs |-> Absent] /\ flocked = {}
    /\ pc = [p \in Procs |-> "idle"]
    /\ plan = [p \in Procs |-> NoPlan]
    /\ dirty = [p \in Procs |-> {}]

\* prepare_install and prepare_update: the reviewed snapshots are taken
\* without a lock.
PrepareInstall(p, a, d) ==
    /\ pc[p] = "idle"
    /\ d \in objects
    /\ ~Conflicting(p, a, d) /\ ~Differing(p, a, d)
    /\ plan' = [plan EXCEPT ![p] =
                  [op |-> "install", art |-> a, digest |-> d, tree |-> tree[a],
                   config |-> config, manifest |-> manifest, refs |-> {}]]
    /\ Goto(p, "finalize")
    /\ UNCHANGED <<store, scope, lockvars, dirty>>

\* prepare_uninstall: also the whole reference index is a precondition.
PrepareUninstall(p, a) ==
    /\ pc[p] = "idle"
    /\ a \in Removable /\ Records(manifest)[a] # Absent
    /\ ~Conflicting(p, a, Absent)
    /\ config[a] \in {Absent, Records(manifest)[a]} \/ p \in Forcing
    /\ plan' = [plan EXCEPT ![p] =
                  [op |-> "uninstall", art |-> a, digest |-> manifest[a],
                   tree |-> tree[a], config |-> config, manifest |-> manifest,
                   refs |-> refs]]
    /\ Goto(p, "finalize")
    /\ UNCHANGED <<store, scope, lockvars, dirty>>

\* finalize_install checks the plan a first time; finalize_uninstall does
\* not.  Then _lock opens the lock file, creating it when it is not there.
Finalize(p) ==
    /\ pc[p] = "finalize"
    /\ \/ /\ Installing(p) /\ ~PreconditionsCurrent(p)
          /\ Return(p)
          /\ UNCHANGED lockvars
       \/ /\ Installing(p) => PreconditionsCurrent(p)
          /\ \E i \in Inodes :
                /\ IF lockFile # Absent THEN i = lockFile
                                        ELSE i \notin {fd[q] : q \in Procs}
                /\ lockFile' = i
                /\ fd' = [fd EXCEPT ![p] = i]
          /\ Goto(p, "flock")
          /\ UNCHANGED <<flocked, plan, dirty>>
    /\ UNCHANGED <<store, scope>>

\* flock(LOCK_EX | LOCK_NB): granted, or the command fails at once.
Flock(p) ==
    /\ pc[p] = "flock"
    /\ IF \E q \in flocked : fd[q] = fd[p]
       THEN /\ Unlock(p)
            /\ Return(p)
            /\ UNCHANGED lockFile
       ELSE /\ flocked' = flocked \cup {p}
            /\ Goto(p, "check")
            /\ UNCHANGED <<lockFile, fd, plan, dirty>>
    /\ UNCHANGED <<store, scope>>

\* Under the lock every precondition is checked again.
Check(p) ==
    /\ pc[p] = "check"
    /\ lease = "gc" /\ Installing(p) => "gcgap" \in Faults
    /\ IF PreconditionsCurrent(p)
       THEN /\ Proceed(p, IF Installing(p) THEN "retain" ELSE "tree")
            /\ UNCHANGED dirty
       ELSE /\ Unlock(p)
            /\ Return(p)
            /\ UNCHANGED lockFile
    /\ UNCHANGED <<store, scope>>

\* The object gets a transaction reference before the first effect.
Retain(p) ==
    LET a == plan[p].art IN
    /\ pc[p] = "retain"
    /\ \/ /\ ReplaceOk("transaction", a, {plan[p].digest})
          /\ Soil(p, "transaction")
          /\ Proceed(p, "tree")
       \/ /\ ReplaceErr("transaction", a, {plan[p].digest})
          /\ Raise(p) /\ UNCHANGED dirty
    /\ UNCHANGED <<scope, objects, doomed, lease>>

\* The private tree is replaced or removed, unless it is as wanted already.
\* A failing replacement leaves the old tree, none, or the new one; a link
\* whose object is gone fails its postcondition.
ApplyTree(p) ==
    LET a == plan[p].art IN
    /\ pc[p] = "tree"
    /\ IF plan[p].tree = Wanted(p)
       THEN Proceed(p, "config") /\ UNCHANGED <<tree, dirty>>
       ELSE /\ Soil(p, "tree")
            /\ \/ /\ tree' = [tree EXCEPT ![a] = Wanted(p)]
                  /\ IF Installing(p) /\ a \in Linked /\ plan[p].digest \notin objects
                     THEN Raise(p)
                     ELSE Proceed(p, "config")
               \/ /\ "io" \in Faults
                  /\ \E left \in {plan[p].tree, Absent, Wanted(p)} :
                         tree' = [tree EXCEPT ![a] = left]
                  /\ Raise(p)
    /\ UNCHANGED <<store, config, manifest>>

\* The whole shared file is rewritten from the reviewed snapshot of it.
ApplyConfig(p) ==
    /\ pc[p] = "config"
    /\ IF plan[p].config = WantedConfig(p)
       THEN Proceed(p, "manifest") /\ UNCHANGED <<config, dirty>>
       ELSE /\ Soil(p, "config")
            /\ \/ config' = WantedConfig(p) /\ Proceed(p, "manifest")
               \/ /\ "io" \in Faults
                  /\ config' \in {plan[p].config, WantedConfig(p)}
                                    \cup (IF Installing(p) THEN {Emptied} ELSE {})
                  /\ Raise(p)
    /\ UNCHANGED <<store, tree, manifest>>

\* The state file is replaced atomically, after all effects.
WriteManifest(p) ==
    /\ pc[p] = "manifest"
    /\ IF plan[p].manifest = WantedManifest(p)
       THEN Proceed(p, "reference") /\ UNCHANGED <<manifest, dirty>>
       ELSE /\ Soil(p, "manifest")
            /\ \/ manifest' = WantedManifest(p) /\ Proceed(p, "reference")
               \/ /\ "io" \in Faults
                  /\ manifest' \in {plan[p].manifest, WantedManifest(p)}
                  /\ Raise(p)
    /\ UNCHANGED <<store, tree, config>>

\* apply_plan: the durable reference of the new object replaces the old one.
Reference(p) ==
    LET a == plan[p].art IN
    /\ pc[p] = "reference" /\ Installing(p)
    /\ \/ ReplaceOk("installed", a, {plan[p].digest}) /\ Proceed(p, "release")
       \/ ReplaceErr("installed", a, {plan[p].digest}) /\ Raise(p)
    /\ UNCHANGED <<scope, objects, doomed, lease, dirty>>

\* ... and the transaction reference goes; if it cannot, it only lingers.
ReleaseTransaction(p) ==
    LET a == plan[p].art IN
    /\ pc[p] = "release"
    /\ ReplaceOk("transaction", a, {}) \/ ReplaceErr("transaction", a, {})
    /\ Unlock(p)
    /\ Return(p)
    /\ UNCHANGED <<scope, objects, doomed, lease, lockFile>>

\* apply_uninstall_plan drops the installed reference, and remembers whether
\* the call erred or returned another index than the reviewed one.
DropReference(p) ==
    LET a == plan[p].art IN
    /\ pc[p] = "reference" /\ ~Installing(p)
    /\ \/ /\ ReplaceOk("installed", a, {})
          /\ Proceed(p, IF refs' = WantedRefs(p) THEN "verify" ELSE "mismatch")
       \/ ReplaceErr("installed", a, {}) /\ Proceed(p, "recheck")
    /\ UNCHANGED <<scope, objects, doomed, lease, dirty>>

\* Then the index is read back: it must be exactly the reviewed one without
\* the owner.  After an error, that alone tells a dropped reference.  When it
\* cannot be read the reference does not count as dropped, though it is gone.
VerifyReference(p) ==
    LET asPlanned == refs = WantedRefs(p) /\ pc[p] # "mismatch"
        dropped == IF pc[p] = "recheck" THEN asPlanned
                   ELSE OwnedBy("installed", plan[p].art) = {}
    IN
    /\ pc[p] \in {"verify", "mismatch", "recheck"}
    /\ \/ /\ IF dropped THEN Soil(p, "installed") ELSE UNCHANGED dirty
          /\ IF asPlanned THEN Proceed(p, "teardown") ELSE Raise(p)
       \/ "reread" \in Faults /\ UNCHANGED dirty /\ Raise(p)
    /\ UNCHANGED <<store, scope>>

\* _tear_down: the last record out of the scope takes the state file and then
\* the lock's own file with it, while the descriptor still holds the flock.
\* A removal that fails ends the teardown and is only reported.
LastOut(p) == WantedManifest(p) = Emptied

TearDown(p) ==
    /\ pc[p] = "teardown"
    /\ IF LastOut(p)
       THEN \/ manifest' = NoState /\ Goto(p, "unlink")
            \/ "io" \in Faults /\ UNCHANGED manifest /\ Goto(p, "unlock")
       ELSE UNCHANGED manifest /\ Goto(p, "unlock")
    /\ UNCHANGED <<store, tree, config, lockvars, plan, dirty>>

UnlinkLock(p) ==
    /\ pc[p] = "unlink"
    /\ lockFile' = Absent \/ ("io" \in Faults /\ UNCHANGED lockFile)
    /\ Goto(p, "unlock")
    /\ UNCHANGED <<store, scope, fd, flocked, plan, dirty>>

UninstallReturns(p) ==
    /\ pc[p] = "unlock"
    /\ Unlock(p)
    /\ Return(p)
    /\ UNCHANGED <<store, scope, lockFile>>

-----------------------------------------------------------------------------
(* Compensation runs after the scope lock was released.  The installed     *)
(* reference comes first (an uninstall's), then the state, then the        *)
(* effects in reverse order, then the transaction reference.  A step that  *)
(* fails in turn is skipped and the command reports an incomplete          *)
(* rollback: the operator has to repair the scope by hand, and the model   *)
(* follows this process no further.                                        *)

Undo(p, effect, before) ==
    /\ pc[p] = "undo" /\ effect \in dirty[p]
    /\ dirty[p] \cap before = {}

Undid(p, effect) ==
    /\ Clean(p, effect)
    /\ UNCHANGED <<lockvars, pc, plan>>

\* The step of one effect fails: the rollback is incomplete.
Missed(p, effect) ==
    /\ dirty' = [dirty EXCEPT ![p] = (@ \ {effect}) \cup {"incomplete"}]
    /\ UNCHANGED <<lockvars, pc, plan>>

\* The references of the reviewed index come back.  After an error of the
\* call, what is found in the index decides.
UndoReference(p) ==
    LET a == plan[p].art IN
    /\ Undo(p, "installed", {})
    /\ \/ ReplaceOk("installed", a, ReviewedDigests(p)) /\ Undid(p, "installed")
       \/ "refs" \in Faults /\ UNCHANGED refs /\ Missed(p, "installed")
    /\ UNCHANGED <<scope, objects, doomed, lease>>

\* _restore of a file removes it before it writes it.
UndoManifest(p) ==
    /\ Undo(p, "manifest", {"installed"})
    /\ \/ manifest' = plan[p].manifest /\ Undid(p, "manifest")
       \/ /\ "undo" \in Faults /\ manifest' \in {manifest, NoState}
          /\ Missed(p, "manifest")
    /\ UNCHANGED <<store, tree, config>>

UndoConfig(p) ==
    /\ Undo(p, "config", {"installed", "manifest"})
    /\ \/ config' = plan[p].config /\ Undid(p, "config")
       \/ /\ "undo" \in Faults /\ config' \in {config, Emptied}
          /\ Missed(p, "config")
    /\ UNCHANGED <<store, tree, manifest>>

UndoTree(p) ==
    LET a == plan[p].art IN
    /\ Undo(p, "tree", {"installed", "manifest", "config"})
    /\ \/ tree' = [tree EXCEPT ![a] = plan[p].tree] /\ Undid(p, "tree")
       \/ /\ "undo" \in Faults
          /\ \E left \in {tree[a], Absent} : tree' = [tree EXCEPT ![a] = left]
          /\ Missed(p, "tree")
    /\ UNCHANGED <<store, config, manifest>>

\* A transaction reference that cannot be released lingers; the next install
\* of the artifact replaces it.
UndoTransaction(p) ==
    LET a == plan[p].art IN
    /\ Undo(p, "transaction", {"installed", "manifest", "config", "tree"})
    /\ ReplaceOk("transaction", a, {}) \/ ReplaceErr("transaction", a, {})
    /\ Undid(p, "transaction")
    /\ UNCHANGED <<scope, objects, doomed, lease>>

Undone(p) ==
    /\ pc[p] = "undo" /\ dirty[p] \subseteq {"incomplete"}
    /\ IF dirty[p] = {}
       THEN Return(p)
       ELSE Goto(p, "incomplete") /\ UNCHANGED <<plan, dirty>>
    /\ UNCHANGED <<store, scope, lockvars>>

-----------------------------------------------------------------------------
(* The rest of the system                                                  *)

\* publish_object: a source's artifact is materialized into the store.
Materialize(d) ==
    /\ d \notin objects
    /\ objects' = objects \cup {d}
    /\ UNCHANGED <<refs, doomed, lease, scope, lockvars, procvars>>

\* An installation of another scope takes or drops a reference.
Elsewhere(o, d) ==
    /\ lease = "free"
    /\ \/ d \in objects /\ refs' = Replaced("installed", o, {d})
       \/ refs' = Replaced("installed", o, {})
    /\ UNCHANGED <<objects, doomed, lease, scope, lockvars, procvars>>

\* collect_garbage takes the lease, and plans to delete what no reference
\* names; the plan is not revised while it deletes.
CollectPlan ==
    /\ lease = "free" /\ (GapOpen => "gcgap" \in Faults)
    /\ doomed' = objects \ Referenced
    /\ doomed' # {}
    /\ lease' = "gc"
    /\ UNCHANGED <<objects, refs, scope, lockvars, procvars>>

\* delete_object removes a planned object, or fails and leaves it whole.
CollectDelete(d) ==
    /\ lease = "gc" /\ d \in doomed
    /\ doomed' = doomed \ {d}
    /\ \/ objects' = objects \ {d}
       \/ objects' = objects /\ "io" \in Faults
    /\ UNCHANGED <<refs, lease, scope, lockvars, procvars>>

CollectReturns ==
    /\ lease = "gc" /\ doomed = {}
    /\ lease' = "free"
    /\ UNCHANGED <<objects, refs, doomed, scope, lockvars, procvars>>

\* The operator changes an installed tree while no apply is at work on it.
Edit(a) ==
    /\ "edit" \in Faults
    /\ tree[a] \notin {Absent, Foreign}
    /\ \A p \in Procs : pc[p] \in {"idle", "finalize", "flock", "check"}
    /\ tree' = [tree EXCEPT ![a] = Foreign]
    /\ UNCHANGED <<store, config, manifest, lockvars, procvars>>

-----------------------------------------------------------------------------
Prepare(p) ==
    \E a \in Arts :
        PrepareUninstall(p, a) \/ \E d \in Digests : PrepareInstall(p, a, d)

\* A command that was finalized runs to its end.
Run(p) ==
    \/ Finalize(p) \/ Flock(p) \/ Check(p)
    \/ Retain(p) \/ ApplyTree(p) \/ ApplyConfig(p) \/ WriteManifest(p)
    \/ Reference(p) \/ ReleaseTransaction(p)
    \/ DropReference(p) \/ VerifyReference(p) \/ TearDown(p) \/ UnlinkLock(p)
    \/ UninstallReturns(p)
    \/ UndoReference(p) \/ UndoManifest(p) \/ UndoConfig(p) \/ UndoTree(p)
    \/ UndoTransaction(p) \/ Undone(p)

Collect == CollectPlan \/ CollectReturns \/ \E d \in Digests : CollectDelete(d)

Next ==
    \/ \E p \in Procs : Prepare(p) \/ Run(p)
    \/ \E d \in Digests : Materialize(d)
    \/ \E o \in Others, d \in Digests : Elsewhere(o, d)
    \/ Collect
    \/ \E a \in Arts : Edit(a)

Spec == Init /\ [][Next]_vars

\* A process that applies a plan keeps running, and so does the collector.
FairSpec ==
    /\ Spec
    /\ \A p \in Procs : WF_vars(Run(p))
    /\ WF_vars(CollectReturns \/ \E d \in Digests : CollectDelete(d))

-----------------------------------------------------------------------------
(* Properties                                                              *)

\* Every variable keeps its type.
TypeOK ==
    /\ tree \in [Arts -> Contents]
    /\ config \in Entries /\ manifest \in States
    /\ objects \subseteq Digests /\ doomed \subseteq Digests
    /\ refs \subseteq References
    /\ lease \in {"free", "gc"}
    /\ lockFile \in Inodes \cup {Absent}
    /\ fd \in [Procs -> Inodes \cup {Absent}]
    /\ flocked \subseteq Procs
    /\ pc \in [Procs -> PCs]
    /\ plan \in [Procs -> Plans \cup {NoPlan}]
    /\ dirty \in [Procs -> SUBSET (Effects \cup {"incomplete"})]

\* No command had to report that its compensation failed as well.
Repaired == \A p \in Procs : "incomplete" \notin dirty[p]

\* Mutations of one scope are serialized by its lock: no two processes are
\* between the check of their plan and their return or exception.
ScopeSerialized ==
    \A p, q \in Procs : pc[p] \in Applying /\ pc[q] \in Applying => p = q

\* The object of every record is in the store and held there by a reference,
\* at every moment of every update, uninstall and compensation: repair,
\* verification and managed links need it.
RecordedIsRetained ==
    Repaired =>
        \A a \in Arts : Records(manifest)[a] # Absent =>
            Records(manifest)[a] \in objects \cap Referenced

\* A transaction reference does not outlive the transaction.
NoLeakedTransaction ==
    \A r \in refs : r.kind = "transaction" =>
        \E p \in Procs : pc[p] \in Applying /\ plan[p].art = r.owner

\* The reference index says no less and no more than it has to, at every moment.
RetentionExact == RecordedIsRetained /\ NoLeakedTransaction

\* The operator's content is replaced or removed only by a command that was
\* reviewed with force, for the artifact at that place.
ForeignKept ==
    [][ \A a \in Arts : tree[a] = Foreign /\ tree'[a] # Foreign =>
            \E p \in Procs : /\ pc[p] \in Applying
                             /\ plan[p].art = a /\ p \in Forcing
                             /\ plan[p].tree = Foreign ]_vars

\* The scope as a user may count on it: while a command can still be taken
\* back, as it was reviewed.
Open(p) == pc[p] \in Reversible \cup {"undo", "incomplete"}

Promised(now, reviewed(_)) ==
    IF \E p \in Procs : Open(p) THEN reviewed(CHOOSE p \in Procs : Open(p)) ELSE now

Abstract == INSTANCE Installed WITH
    tree <- Promised(tree, LAMBDA p : [tree EXCEPT ![plan[p].art] = plan[p].tree]),
    config <- Promised(config, LAMBDA p : plan[p].config),
    manifest <- Records(Promised(manifest, LAMBDA p : plan[p].manifest))

\* Install, update and uninstall are all or nothing, for the tree, the shared
\* file and the state together, and a command that fails changes nothing.
AllOrNothing == Abstract!Spec

\* Every finalized command returns: no process waits for another's lock, and
\* the collector gives the lease back.
CommandReturns ==
    \A p \in Procs : pc[p] = "finalize" ~> pc[p] \in {"idle", "incomplete"}
=============================================================================
