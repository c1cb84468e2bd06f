# agent-artifacts: TLA+ specification

A verification project for `agent_artifacts` (`aart`), a Python package manager for agent
artifacts (skills, hooks, MCP servers, memory blocks). `aart` is a short-lived command: there is no
daemon. Several commands of several terminals, or of an agent, run at the same time on the same
home directory and meet only in the file system. Everything hard in it comes from that: directory
leases with stale-owner recovery, plans reviewed without a lock and applied later under one, and
compensations that run when a step in the middle fails.

## Inventory

Paths are relative to `src/agent_artifacts/`. *Module* says which module models a part.

| Part | State it keeps | Operations | Module |
|---|---|---|---|
| Directory lease (`io/source_store.py`, `io/store_lock.py`) | a lock directory with `owner.json` | acquire (mkdir, owner, poll, stale recovery), release | `Lease` |
| Checked configuration writer (`io/config_cas.py`, `application/configuration.py`) | the user configuration, a lock of its own | load, compare under the lock, replace | `ConfigCas` |
| Managed source (`commands/source.py`, `application/sources.py`, `application/source_management.py`, `io/source_store.py`) | subscription, snapshot trees, `current.json` | add, sync, resubscribe, remove, health | `Source` |
| Source acquisition (`sources/*`, `io/git.py`) | a staged candidate | fetch, validate | one step of `Source` |
| Installation (`installation/*`) | private trees and links, shared settings files, the installation state | prepare, finalize, apply, compensate | `Install`; what each kind of effect does to a file: `Drift`, `Upkeep` |
| Uninstall and teardown (`lifecycle/*`) | the same, and the scope's lock file | prepare, apply, compensate, tear down | `Install`, `Upkeep` |
| Lifecycle status, check, reconcile (`lifecycle/application.py`) | none (reads) | classify each effect, plan what follows | `Drift`, `Upkeep` |
| Object references and collector (`application/store.py`, `store/*`, `io/reference_store.py`) | the reference index | replace references, collect garbage | `Install` |
| Object store (`io/object_store.py`) | content-addressed trees | publish, repair, delete | `Objects` |
| Setup engine (`setup_engine/*`, `setup*.py`, `receipt_service.py`) | the setup record with its receipts, the operator's files, Keychain items and images | prepare, finalize, persist, undo | `Setup`; recipes, plans, verification: `Recipe`, `Recipes` |
| Registry workspace, publication, maintenance, curation (`io/registry_workspace.py`, `registry_commands/*`, `registry_maintenance/*`, `curation/*`) | a registry checkout, vendored copies, its Git history | plan, review, apply, roll back, validate, audit, commit | `RegistryPlans`, `Registry` |
| Compiler graph (`compiler/*`) | none (pure) | versions, graph, collections | `Market`, `Compiling` |
| Consumer resolution, marketplace (`consumer/*`, `marketplace/*`) | none (a projection of snapshots) | project, list, resolve, close over dependencies | `Market`, `Resolving`; baskets: `Session` |
| Security (`security/*`, `io/security_cache.py`) | attestation cache, published evidence | scan, attest, merge, show; as a library only: analyzers, tools, aggregation, policy | `Assess`, `Attest`, `Screening` |
| Reporting (`reporting/*`) | none (a session's outcome) | route, project, consent, submit | `Reporting` |
| Configuration schema and policy, installation state (`configuration/*`, `install_state/*`, `tui_sources.py`) | the documents | parse, overlay, manage sources | `Settings`, `Management` |
| Wizard and terminal UI (`wizard.py`, `tui*.py`, `consumer/application.py`) | the session, the basket | stages, recovery, source management, finalize | `Wizard`, `Session` |
| Protocol schemas (`protocol/*`) | none (parsing) | parse, hash | agreement of lock, index and provenance in `RegistryPlans` and `Resolving` |
| Command line (`cli.py`, `commands/*`) | none | arguments, call the operations above | not modelled as such |

**How the parts interact.** A source command loads the configuration without a lock, works in the
source's store under that source's lease, and saves the configuration through the checked writer;
no step covers store and configuration together. An install takes its object from the store, holds
it there by a *transaction* reference while it works and by an *installed* reference afterwards;
the index of references is rewritten under the store lease, which is the same code as the source
lease. The scope (one project or the user's home) has an `flock` of its own around the applying
part of install, update and uninstall. Setup runs after an install, on the installed record; its
steps run under no lock, and only the persistence of its record takes the scope's.

**What is hard.** (The full list, each at its line, is `hazards` in `PROJECT.json`.)

- The lease judges a lock from what it reads and then renames what the path names by then.
- A process may die between any two system calls; locks without an owner exist.
- A plan is reviewed without a lock; the operator, or another command, changes what it was reviewed
  against.
- One of several effects of an apply fails, and the step that takes it back can fail as well.
- The compensation of an apply runs after the scope lock was dropped.
- An uninstall of a scope's last artifact unlinks the lock file while it holds it.
- The pointer to the current snapshot and the tree it names change in separate steps.
- A setup step changes something of the operator's and fails before it can say so; a compensation
  has to tell what is still the run's own.
- The origin of a source moves between the review of an identity change and its adoption.
- Publishers that repair one object take no lock, and quarantine one another's repair.
- A dozen curation commands write one checkout file by file; lock, index, provenance and copies have
  to belong together whenever the gates say so.
- The operator goes back and forth in the wizard, and baskets are planned ahead of what an earlier
  item will do.
- Operator and program write the same files; a removal has to know which text is whose.
- Evidence of one scan is cached, published, and read after the artifact changed.
- What one command writes under one policy has to be readable under the next.

## Modules

| Module | Models | Used by |
|---|---|---|
| `Lease` | `acquire_source_lock`, `release_source_lock` call by call | `MCLease`, `LeaseProofs` |
| `ConfigCas` | `load_configuration`, `write_configuration_checked` | `MCConfigCas`, `ConfigCasProofs` |
| `Source` | the source commands on one origin | `MCSource`, `SourceProofs` |
| `Install` | install, update, uninstall, compensation, references, collector | `MCInstall`, `InstallProofs` |
| `Setup` | `prepare_setup`, `finalize_setup`, `persist_setup`, the setup steps and their compensation, `receipt undo` | `MCSetup`, `SetupProofs` |
| `Installed` | the abstract promise: a command is one step on three places | refined by `Install` |
| `Objects` | `publish_object` and `delete_object` call by call, at one digest | `MCObjects`, `ObjectsProofs` |
| `RegistryPlans` | what each curation command plans over a snapshot of a checkout, and the gates | `Registry` |
| `Registry` | several maintainers' commands on one checkout: review, lock, apply, roll back, commit | `MCRegistry`, `RegistryProofs` |
| `Wizard` | the stages and the source plans, as functions | `Session` |
| `Session` | a run of the wizard, either frontend, beside other processes | `MCSession`, `SessionProofs` |
| `Market` | versions, graph, catalog, projection, resolution, as functions | `Compiling`, `Resolving` |
| `Assess`, `Attest` | rules, evidence, attestations, and (library only) analyzers and policy, as functions | `Screening` |
| `Drift` | effects, proofs, health, merge and its inverse, as functions | `Upkeep` |
| `Recipe` | recipe validation, planning, records, verification, as functions | `Recipes` |
| `Settings` | configuration, policy, source changes, installation manifest, as functions | `Management`, `Reporting` |
| `Compiling`, `Resolving`, `Screening`, `Upkeep`, `Recipes`, `Management`, `Reporting` | the behaviours that exercise those functions | `MCDecisions`; `ConfigCasProofs` (`Management`, `Reporting`), `ObjectsProofs` (`Compiling`, `Recipes`, `Screening`), `InstallProofs` (`Upkeep`) |
| `Nothing` | Python's `None` | `Market`, `Assess`, `Drift`, `Recipe`, `Settings` |

The `MC*` modules only name small sets; `MCDecisions` also puts the seven decision modules side by side: it
extends six of them, and instantiates `Resolving`, whose operators share names with the others'.
`PROJECT.json` (`map`) gives each definition its source lines. Definitions named `<Adjective>_<Name>` are deliberately faulty variants of `<Name>`, each the
mistake that one property is there to catch; no specification uses them.

The modules compose by abstraction. `Lease` and `ConfigCas` are at the grain of system calls.
`Source` takes an acquire, a release and a checked save as one atomic step each, and `Install` takes
each rewrite of the reference index, with the lease around it, as one step. What `LeaseProofs` and
`ConfigCasProofs` prove is the licence for that, and holds under the conditions those theorems
state. `Install` takes a publication and a deletion of an object as one step each, which `Objects`
breaks up; it takes what a plan holds as given, which `Drift` and `Upkeep` compute; `Setup` takes the
reviewed plan of `Recipe`; `Session` takes the applying of one basket item as one step, which is
`Install` or `Setup`.

### Lease

`lock` is what the lock path names: nothing, or a directory with an owner (a call, none, or a torn
file) and an age. Each member of `Calls` is one acquire-and-release of one process. `Mkdir`,
`WriteOwner`, `CleanUp`, `InspectOwner`, `InspectMtime`, `Reclaim`, `ReleaseCheck`, `ReleaseRename`
are the system calls on the shared path; `Retry` and `Timeout` the deadline check; `Exit` a normal
end or a crash. A removal may fail, in the clean-up after an error, which passes it over, as in the release (`rmtree`):
then the lock of a call that has returned stays. `maker` identifies a directory across a rename and a new mkdir: the properties read
it, the code cannot. `Age` lets the stale window go by. `Reclaimers` are the calls that may meet a lock
older than the stale window: by default 300 seconds, while an acquire polls for 30, so they are the calls made
some minutes after a crash. That two of them meet the same old lock at once is rare, not impossible.

### ConfigCas

The content is the set of writers whose entry is in it; each command toggles its writer's entry, so
an entry changing without its writer is a lost update. The lock differs from `Lease` in three ways
that the code has: an ownerless lock is never stale, a failed acquire removes nothing, and the release removes
the path without looking at its owner.

### Source

One origin, several processes. A snapshot stands for its digest, revision and declared identity
(`Ident`). A process loads the configuration, acquires the lease, reads the current snapshot,
fetches, publishes a tree and then the pointer (or discards pointer and trees), releases, and saves.
`resubscribe` makes two passes: it reviews a transition, and adopts exactly that one.
`MoveUpstream` and `OtherWrite` are the environment. `overtaken` is a history variable: the removals
after whose discard another command published.

### Install

One scope. An artifact stands for a hook, the kind that has every sort of effect: a private tree (or
a link into the store) and an entry in a shared settings file; the third place is its record in the
state file. A process prepares a plan (the reviewed snapshots are in it), finalizes, takes the lock,
checks everything again, and applies step by step; `dirty` is what it has to take back when a step
raises. `Raise` drops the lock first, because the exception leaves the `with` block before its
handler runs. Settings merge and memory blocks are abstracted to one entry per artifact; an update whose entry is
another one than before (`Varying`) is refused without force, as the merge does (`Differing`). The refinement mapping shows
the scope as reviewed while a command can still be taken back, and as it is otherwise.

Assumptions about the environment, all visible in the guards:

- the operator edits an installed tree only while no apply is at work on the scope (`Edit`);
- the collector keeps out of the gap between the check of an object and its transaction reference
  (`GapOpen`) unless the fault `gcgap` is given. `collect_garbage` is wired to no command today, so
  no run includes that fault; with it `RetentionExact` fails, and it should be settled before
  the collector gets a command;
- the snapshots a prepare takes are one step. What it reads torn is caught by the check under the
  lock, which compares all of it again;
- a process whose compensation failed is followed no further: the code asks the operator to repair.

### Setup

One artifact, and the targets its recipe's steps change. `world` says of each target whether it is
absent, somebody else's, or what the recipe of one version put there. `Kinds` are the step modules,
grouped by what a compensation may do: `Satisfied` and `Collides` are what a step finds,
`LeftAlone`, `Irreversible` and `Owned` what `_rollback_receipt` decides. A run goes from `Prepare`
(review) through `Finalize`, one `Effect`, `Decline`, `StepFails` or `Uncaught` per step, one `Compensate` per
receipt in reverse order, to the three writes of `persist_setup` and their restoration. An undo is
the same compensation on the recorded receipts and an unlocked write.

What the code leaves behind is in the model. `made` are the JSON objects and parent directories that a step makes on
its way (`MakesWay`); no receipt names them, and a rollback that is reported as complete leaves them. The fault `slip`
is a write that fails after it replaced the file: `persist_setup` takes it for not done and does not restore it.
`Uncaught` is a `ValueError`, which no handler of the run catches: the command ends where it is, with nothing
compensated or recorded. Each step has a target of its own here; two steps at one target are in `Recipes`.

History variables serve the properties only: `start` is the world before the run, `touched` and
`disturbed` the targets that somebody else changed since, or that a step changed without leaving a
receipt, and `botched` says that a restoration of `persist_setup` failed. The properties promise
nothing of those, because the code keeps nothing by which it could; the hazards say where that
bites. What a custom script does, apply and rollback, is assumed: rollback puts back what was there,
or fails.

### Objects

One digest. `tree` is what the object's directory holds: nothing, the right tree, a damaged or an
emptied one. A publisher stages its candidate, renames it in, or reads what is there; what does not
match it unlocks, moves to a quarantine name of its own, replaces, and on failure gives back; it
starts over at most `MaxAttempts` times. A collector moves the object to a tombstone, removes the
files, and when that stops half-way puts the tombstone back if it still matches. `owed` is a history
variable: a publication was acknowledged, and since then nobody deleted the object, and no publisher died, or failed
to rename, with the only whole tree in its quarantine.

### Registry

`ws` maps each file of a checkout to what it says: registry and source manifests, index, lock, a collection, and
for each artifact its manifest, payload, provenance, approval entry and evidence. A digest is the value it is
taken of, so a digest agrees exactly when its content does. `RegistryPlans` gives for each command
the snapshot it would leave, or `NoPlan`; `Validate` and `Audit` are the gates, with every check of theirs that is an
error: for the audit also a payload that launches what no consumer receives (`Undelivered`) and a committed
`security/index.json` that does not verify, is of other objects, or calls one critical (`SecurityPasses`). In `Registry` a
process surveys (no lock), acquires what it needs of the upstreams, shows its plan, and after the
operator's consent takes the lock, compares the checkout with what was reviewed, writes file by file with a
backup, reads it again to verify, and on any failure rolls back; `publish` then lists, stages and commits. `Edit` and
`Move` are the operator, with an editor or with evidence to commit, and the upstreams.

### Session

`at` is what the wizard does: it waits at `ask` and `failed`, everything else is the program's. The
session value is `wizard.py`'s; going back, changing sources, profiles, scope or mode, and the
recovery menu after each failure are the operator's moves. `Outside` changes configuration,
installations or checkout between any two steps. A basket item is planned on the projected state of
the earlier ones (`consumer/application.py`) and applied on the disk as it is. Both frontends are
modelled: curses hands curation over to the text driver (`tail`), which has no outer recovery loop. `lost` is where the
text driver spins without a prompt (finding 13).

### Decisions

Most of the program's lines decide, and change nothing. Each of these modules drives the functions
of one area through what changes their input, and compares what comes out with a definition that
does not look at how the code gets there.

| Topic | What changes | Compared with |
|---|---|---|
| `Compiling` | sources add, change, drop and bring back versions and collections; each command compiles afresh, installs, checks | the content recorded, and what the source holds now; the collections reachable |
| `Resolving` | a registry is edited, built, relocked, its reference's origin moves; commands resolve selectors | the least closed set of requirements, and the content pinned |
| `Screening` | an artifact changes; scans run, fail, are cached and published; documents are altered; a consumer is shown it, a policy (the default, a strict one) judges | the rules its content really hits |
| `Upkeep` | two artifacts share a file of each family; installs in other modes, updates, removals, prunes, forced or not, the operator's edits | the operator's pieces but for the named losses (`own`) |
| `Recipes` | recipes of one or two steps, also at one target, under every policy, run, recorded, verified, rolled back | the capabilities its author declared, what is found in the world |
| `Management` | sources added, removed, enabled, selected, a hand edit, a policy that changes; installations recorded | the parser |
| `Reporting` | registries ask for reports, the policy changes, a session ends in every way, the operator answers | the host and the registry of each artifact, the operator's consent |

## Runs

States are distinct states found.

| Run | Expect | What it shows |
|---|---|---|
| `lease` | pass, 37 thousand | three calls, crashes, failing owner writes, renames and removals, one reclaimer: exclusion, and no live process loses the lock it holds |
| `lease_hostile` | pass, 147 thousand | every fault, every call reclaims: no process forgets a lock that names it unless its removal failed, every acquire returns |
| `install_concurrent` | pass, 1.5 million | two processes, two installed artifacts, two versions, edits, collector: serialized, all or nothing, an object is retained exactly as long as a record or a running command needs it, the operator's content is kept |
| `install_faults` | pass, 928 thousand | one process from an empty scope to an empty scope; file, reference and compensation steps fail, and the reading back of the index; another scope uses the index: all or nothing, and every command returns |
| `install_teardown` | violation | serialization fails once a scope may become empty |
| `config` | pass, 12 thousand | two writers with every fault: one at a time, no lost update, a named dead owner is recovered |
| `source` | pass, 1.5 million | two processes, every command, three snapshots with two identities, every fault: pointer whole, lease returned, identity reviewed, removals complete |
| `setup` | pass, 7.8 million | setup and undo over reinstallations, an edit by the operator and every fault: the targets of what is reported as taken back or undone are as before, what is reported as configured is in place, the operator's file content is kept, the record's object is retained unless a write failed after the fact |
| `registry` | pass, 545 thousand | two maintainers, twelve commands, failing writes and re-reads, crashes, an edit or a commit of evidence, moving upstreams: a refused apply leaves nothing, an applied one is the reviewed one, the gates pass exactly the compiled checkouts, an unedited copy is the one its provenance records, an undisturbed publish commits a compiled registry |
| `session` | pass, 567 thousand | any way through the wizard, every failure, another process: a record matches what is placed, the reviewed basket is what the chosen sources offer, the default registry is usable, the program comes to its next prompt, but for finding 13 |
| `objects` | pass, 60 thousand | two publishers and a collector from an absent, whole, damaged or emptied directory, two failing calls or crashes anywhere: an acknowledged object is whole in the end, a partial tree never shows |
| `decisions` | pass, 484 thousand | the seven topics above, one property each |

**Bounds.** Three lease calls are the least with which a lock can be judged by one, retaken by a
second and lost by a third. Two writers and two processes are enough for the others: each hazard is
one command between two steps of another, and processes start over, so sequences of commands are not
bounded. Two artifacts are needed to see a shared file lose another's entry and a scope that stays
occupied while one leaves; two objects to tell an old version from a new one; two inodes for the
teardown. Three snapshots give a revision that keeps the identity and one that changes it.
Only `Setup` counts: `MaxCommands` = 4 allows an install, a setup, an update and a setup or an undo,
and `MaxEdits` = 1 one change by the operator anywhere in between. Its recipes have two steps, which
is enough for a failure after a reversible step, or after an irreversible one; between them they have
every kind. It is run with one process. `Lease`, `ConfigCas`, `Source` and `Install` have no counter, so no bound
cuts their behaviours short. `install_concurrent` keeps one artifact installed, and excludes failing
compensations and reference updates, because `install_teardown` and finding 3 say what happens
otherwise; `install_faults` has those faults with one process.
`objects`: two publishers are what it takes for one to quarantine the other's repair, and
`MaxFaults` = 2 lets a give-back fail as well as the call it answers. `MaxAttempts` is 2, where the code has 4, so that
the end of the rounds happens.
`registry`: `MaxCommands` = 2 and `MaxOutside` = 1, from each of `MCStarts`, so every command meets
every other and one disturbance, and every gate meets every damaged checkout these can make; one start has an assessed registry and one a payload that
cannot be delivered;
two artifact names, so that one can be wrong while the other is right.
`session`: one change of sources in the wizard and one from outside; two sources, two artifacts with a
requirement on the mode, and a collection of both, so that going back can lose each of them. The stages may be revisited without bound.
`decisions`: each topic has two or three artifacts, versions or registries, given as the constants `Sources`,
`Subjects`, `Revisions`, `InstallPolicies`, `Authored`, `Inputs`, `Policies`, `Configurations`, `Snapshots`, `Fetched` and `Baskets`, which
have their values in `MCDecisions`; an artifact that is screened changes once, for the worse; and `MaxSteps`,
`MaxDocuments`, `MaxOwn`, `MaxRecords` bound how long a history gets; `MaxFindings`, `MaxAge` and
`MaxPrefill` are limits of the code made small, so that they are exceeded.

**Fairness.** `FairSpec` of `Lease` has weak fairness of a call's own steps (a running process goes
on) and strong fairness of `Timeout`: the clock passes the deadline, after which the check returns at
the first visit. `Install` has weak fairness of the steps of a finalized command and of a collection
that has begun; nothing makes a process prepare or finish a review. `ConfigCas` has weak fairness of
the writers' steps and of time, and strong fairness of `Mkdir` and `Reclaim`: a call that is tried
again and again does not meet an I/O error each time. Its liveness also needs somebody who comes
back: `Reclaimers` do not crash, and run commands again, as users do. `Session` has weak fairness of
the program's own step: it is one thread that runs whenever it is not waiting for input. Nothing
makes the operator answer.

## Findings

**With a run.** `install_teardown` contradicts `docs/installation/canonical-lifecycle-v1.md:82`: the last
uninstall unlinks its lock file (`lifecycle/io.py:109`). A process that already opened it locks the
unlinked inode, another makes a new file, and both apply.

**Met while modelling.** Here the code gives up a property, and the property excepts the case; what
is excepted is a named conjunct next to the property or a constant of the run. The hazards in `PROJECT.json` give the lines.

1. *Lease* (`io/source_store.py:433`). Of two processes that both judge an old lock stale, the slower
   renames the faster one's live lock away. `Cautious` has one reclaimer.
2. *Configuration lock* (`io/config_cas.py:112`). A lock without a readable owner is never stale; the
   lease of the stores recovers one by its mtime. `NamedLockRecovered` is about named ones.
3. *Compensation outside the lock* (`installation/io.py:530`, `setup_engine/io.py:183`). The handler
   restores the state file after the lock was dropped, over a record another command has written.
4. *Overtaken removal* (`commands/source.py:372`). The lease is released before the origin is
   unsubscribed; a sync in between publishes a snapshot that nobody is subscribed to.
5. *Repair with three publishers* (`io/object_store.py:430`). One of three at a damaged object can give the
   damaged tree back where another has moved the repaired one away, with no call failing.
6. *Publish* (`commands/registry.py:651`). `git add -A` stages whatever was edited after the gates passed.
7. *Locked report destination* (`configuration/policy.py:146`). Under a policy that locks another
   destination, removing the user's own leaves a file that the parser rejects once the policy is gone,
   against `docs/configuration/config-policy-v1.md:81`.
8. *Operator's text* (`lifecycle/application.py:638`, `installation/application.py:344`). When the
   destination of a replaced memory was deleted by hand, an unforced uninstall drops the text kept in its
   sidecar; a begin marker without an end drops all that follows it.
9. *Update of an untouched merge* (`installation/application.py:557`). It is refused without force,
   because the merge does not look at the record of its own entry.
10. *Redacted receipts* (`setup.py:1796`). The undo of an export or a JSON value that was redacted is reported
    as incomplete.
11. *Reports* (`commands/marketplace.py:654`, `reporting/model.py:177`). From the command line, a
    session in which a setup ran is not reported: the setup's key has no version, the review's has. A
    removed artifact that has a setup counts as a failure.
12. *Reporting service* (`reporting/runtime.py:221`). The wizard does not see a policy deployed after
    it loaded where reports may go.
13. *Hang of the text wizard* (`tui.py:2470`). After a failed load of the service an operator may quit and, asked
    about the basket, keep it. The stage is then `profiles`, for which the loop at `tui.py:2300` has no branch:
    it spins without a prompt. `Answered` names this state (`Spinning`) and shows that nothing else leads to it.
14. *Lock that cannot be removed* (`io/source_store.py:454`). A failing `rmtree` after an error is passed over: the lock
    stays, and while its process lives no other call gets in, however old it is, although the message of a busy lock
    (lines 447-449) says that the next attempt reclaims an abandoned one.
15. *Rollback that leaves containers* (`setup_runtime.py:1402`, `1427`). A taken back JSON merge removes its key and not
    the objects made around it; a taken back directory, or a file, leaves the parents made for it. Both are reported as
    rolled back. `setup_verify.py:14-16` speaks of an emptied file itself.
16. *Writes that fail late* (`setup_engine/io.py:162`, `application/store.py:106`). `_write_atomic` may raise after
    `os.replace`, and a reference update may fail after the index was written: `persist_setup` then leaves the
    new record, or the new reference, and the effects are taken back all the same.
17. *Uncaught error of a step* (`setup.py:2002`). Two blocks with one marker, or a file that is not UTF-8, raise a
    `ValueError`, which `_apply_effects` (`setup_runtime.py:1678`) does not catch: the steps already done stay,
    without a record.
18. *Versions without a history* (`consumer/runtime.py:810`, `919`). No command passes a previous graph, so a version that
    comes back with other content is accepted, against `docs/compiler/graph-v1.md:51` and the specification's rules
    for a previous graph; `compile_sources`, which would pass one, has no caller (`LAF-106`). What is
    left is `check`, which compares digests: `CheckTellsContent`.
19. *Second forced replace* (`installation/application.py:487`). It puts AART's own text into the sidecar and so loses
    the operator's, which the first had put there, although the comment says that the mode stays reversible
    (`docs/design/DESIGN-memory.md:99`, `103`, `325`).
20. *Unreadable file* (`setup_verify.py:285`). A block in a file that cannot be read is reported as gone, where
    the module's own lines 10-12 and 68-69 promise `unknown`.
21. *Two steps at one target* (`setup.py:805`). Nothing refuses them. Two lookups from the Keychain in one file have one marker:
    the second replaces the first, the run is recorded as configured, and verification calls the first changed.
22. *Uninstall taken back without its reference* (`lifecycle/io.py:197`). When the index cannot be read back after the
    reference was dropped, the drop counts as not done: the record comes back, the reference does not, and the
    object may be collected; nothing says that the rollback is incomplete.

## Proofs

TLAPS checks these for every value of the constants; none is limited to the runs' instances.

| Theorem | States | Assumes |
|---|---|---|
| `LeaseTypes` | `TypeOK` | - |
| `LeaseForgetsNoOwner` | `NoForgottenOwner` | - |
| `LeaseSerializes` | `MutualExclusion` | `Cautious` |
| `LeaseKeepsLiveLocks` | `OnlyOwnLockRemoved` | `Cautious` |
| `ConfigSerializes` | `OneWriter` | `LoneReclaimer` |
| `ConfigLosesNothing` | `NoLostUpdate` | `LoneReclaimer` |
| `InstallTypes` | `TypeOK` | - |
| `InstallSerializes` | `ScopeSerialized` | `Anchored` |
| `InstallKeepsForeign` | `ForeignKept` | `Apart`, no failing compensation |
| `InstallRetainsRecorded` | `RecordedIsRetained` | `Apart`, `Safe` |
| `InstallRetentionExact` | `RetentionExact` | `Apart`, no fault but the operator's edits |
| `InstallAllOrNothing` | `AllOrNothing` (refines `Installed`) | `Apart` |
| `SourcePointerWhole` | `PointerWhole` | - |
| `SourceReturnsLease` | `LeaseReturned` | - |
| `SourceIdentityReviewed` | `IdentityReviewed` | - |
| `SourceRemovalComplete` | `RemovalComplete` | - |
| `SetupKeepsFiles` | `FilesKept` | - |
| `SetupTakenBack` | `TakenBackIsRestored` | - |
| `SetupInPlace` | `ConfiguredIsInPlace` | - |
| `SetupUndoRestores` | `UndoRestores` | `Alone` |
| `SetupRecordRetained` | `RecordRetained` | `Alone` |
| `ObjectsNeverHalf` | `NeverHalf` | - |
| `ObjectsRepairConverges` | `RepairConverges` | two publishers, or an object not damaged before |
| `RegistryRefusalsLeaveNothing` | `RefusedLeavesNothing` | - |
| `RegistryAppliesReviewed` | `AppliedIsReviewed` | - |
| `RegistryGatesExact` | `GatesAreExact` | - |
| `RegistryCopiesRecorded` | `CopyIsRecorded` | - |
| `RegistryCommitsCompiled` | `CommitIsCompiled` | - |
| `SessionNoGhosts` | `NoGhostRecord` | - |
| `SessionBasketOffered` | `BasketIsOffered` | - |
| `SessionDefaultUsable` | `DefaultUsable` | - |
| `ManagementReadable` | `WrittenIsReadable` | - |
| `ReportingStaysHome` | `ReportsStayHome` | - |
| `CompilingTellsContent` | `CheckTellsContent` | - |
| `PrecedenceOrder` | the precedence of versions is a strict weak order | - |
| `RecipesDeclared` | `CapabilitiesDeclared` | - |
| `ScreeningTellsDanger` | `DangerIsTold` | - |
| `UpkeepRestores` | `UnmergeRestores` | - |

Beyond the named `ASSUME` of each module (constants that differ where the code's values do, starting
checkouts that have the shape of one, finitely many artifacts and profiles; for the decisions: sources, recipes and
versions of the shape their parsers leave, policies with the actions the code has, sessions about finitely many
artifacts and at least one, equal digests only of equal objects, and files in which only rules that some scanner
looks for are hit), which TLC evaluates in the runs, the
conditions are these. Where a finding or a run is named, it shows what goes wrong without the condition.

- `Cautious`: at most one call meets a lock older than the stale window, `mkdir` does not fail for
  another reason than an existing path (the error handler of the acquire removes the path without looking), and no
  process stops for the stale window between two adjacent system calls. `LoneReclaimer` is the first of
  these. Finding 1.
- `Anchored`: some artifact of the scope is never removed and compensations do not fail, so that the
  teardown never runs. The run `install_teardown`.
- `Apart`: one process (`Install`'s `Alone`), whatever fails; or any number of processes in an anchored scope in which no
  step fails, though plans go stale and the operator edits (`Calm`). With two processes and a failing
  step the compensation runs outside the lock: finding 3.
- `Safe`: a lease can be released, the index can be read back after it was written (finding 22), and no collection enters the
  gap before the transaction reference.
- `Setup`'s `Alone`: one process. Undo takes no lock, and a restoration runs after the lock: finding 3.
- Two publishers, or no damage: finding 5.

**Lease.** Exclusion is not inductive: a step of `Reclaim` could take the lock of a holder. The
invariant adds that a holder's own directory is there and names it (`HolderOwns`), that a directory
just made is still its maker's (`MakerKeeps`), that a lock somebody has judged stale is a dead call's and not
replaced meanwhile (`StaleIsDead`, where the single reclaimer is needed), that a named
directory was made by the call it names (`OwnerIsMaker`), and that an old directory gets no owner
between the look for `owner.json` and the look at its mtime (`OldStaysOwnerless`). The action property follows from the same
invariant. A lock whose own
call could not remove it may be judged stale while its process lives; it is nobody's then. `NoForgottenOwner` needs none of
it: with the types it is inductive, whatever fails.

**ConfigCas.** The same argument without the mtime, and `ReviewedIsCurrent`: past the comparison,
the content on disk is the one reviewed. It needs exclusion, since only then nobody replaces the
content between the comparison and the replacement.

**Install.** `LockInv`, for serialization: the lock path exists and every open descriptor is of the file it names
(`OneFile`), one process has the flock and only that one is past the check (`OneLocker`), and every
state file, the reviewed ones in plans included, keeps the records that are never removed
(`KeepsRecords`), so no uninstall is the last one out.

The other four rest on `IInv`. `Task` says of each process what its plan was reviewed against, that while it works the
three places are as reviewed or as planned, according to what it has to take back (`dirty`), and which steps it may be at;
`Retention` what the index of references holds for the records, for a command at work and for one that is being taken back,
with one installed reference for each owner (`Single`), so that what an uninstall would put back is the reference of
the record it removes (`Known`);
`Transactions` that only those have a transaction reference; `Undisturbed` that in the `Calm` case nothing is ever
taken back and an uninstall finds the index as reviewed. That nobody else works on the scope meanwhile
is the lemma `Excluded`, where `Apart` comes in: by being alone, or by the flock.
`AllOrNothing` maps the scope as reviewed while a command can be taken back, and as it is otherwise (`SeenTree`,
`SeenConfig`, `SeenManifest`): every step before the last effect and every step of a compensation leaves what is seen alone,
the one after which nothing is taken back is the abstract step.

**Setup.** `RunInv`, for any number of processes, keeps the books of a run (`Books`): receipt k is of step k and tells
what the run found at its start, and a target without a receipt, or whose receipt is unchanged or
compensated, is as found, or was touched by somebody else. While it applies, the steps before the next one are in place and
the others as found (`Advancing`, `InPlace`); what a rollback that has not failed went through is restored
(`RolledTo`); and a run about to be persisted reports just that (`Reported`). It is stated over one process's
locals and the targets others touched, so that a step of another process only has to enlarge that set.
`RecordInv`, for one process, ties the record on disk to the same books over installs, setups and undos: the books of
the record hold and its object is referenced (`Standing`), the record being written is the run's, but for redaction
(`Copies`), what a run changed it changed since the record was written (`Newer`), and an undo works from the record
(`Undoing`). `Pending` names the steps at which the record is written and may still be taken back. All this holds while no
write failed after the fact (`botched`); once one did, the next setup that is persisted puts it right
(`Copied`, `RecordRepaired`). `Ways`: what is made on the way to a target is there only for a step of a kind that has a
place (`Placed`); the restoration that the two properties promise names these containers as what stays.

**Source.** The four properties rest on one invariant: the lease belongs to the process in its
critical section (`LeaseReturned`), hence what it read as current is still current and the tree it is about to point at is still there
(`Undisturbed`), it has a candidate (`HasCandidate`) that agrees with the current one or is the
reviewed one (`CandidateAgreed`), and a removal about to save has discarded the store unless overtaken (`RemovalDiscarded`).

**Objects.** `NeverHalf` is not inductive, because a give-back restores what a process holds in its quarantine.
The invariant adds that in a store that was not damaged before, a publisher holds nothing or the whole tree
(`HeldWhole`). Nothing is said of a collector's tombstone, which may be half removed: that it is
read again before it comes back is what the proof uses instead. `RepairConverges` needs `Secured`: an owed object is whole in
its place, or the place is free and a publisher that is about to fill it holds the whole tree; with two publishers at
a damaged object nobody is left to put the damaged one there.
Any number of collectors, rounds and failing calls.

**Registry.** Five properties, one invariant: the process that applies is the lock's (`Alone`), what it has not
written is as it found it and its backups are that (`Kept`), a publish plans a compiled snapshot (`PublishesCompiled`), plans and
half-written checkouts keep every copy with its provenance (`PlansRecord`, `CopiesKept`). Below it is a lemma per
command: its plan has the shape of a checkout and records the copies it makes (`Sound`); and two about the gates: what
`Validate` and `Audit` pass, file by file, is what `Compiled` says without them (`GatesExact`), and the plan of a
publish passes (`PublishCompiles`).

**Session.** Every configuration that may yet be written is usable (`Plans`), and each item of a review
records what it does to the records it was planned on (`Items`); so a stale item changes nothing and a current one changes
records and places alike. `BasketIsOffered` needs where the operator can be: a rank of the stages shows that every route is
in order, so that only the artifacts stage leads to the review of an installation and nothing leads back to it (`Advanced`,
`Returned`). `Offer` then says that the read model is gone before sources or service change, that it lists only what
the service offers (`Stocked`), and that whoever is past the artifacts has the one of the choices made last, and a basket
within it (`Matched`).

**Management.** `WrittenIsReadable` speaks of the document and of the policy it was written under, which may be gone. The
invariant keeps both, and that the document is one a user may have (`Kept`). Below it: what the parser takes is a draft
(`Drafted`: settled sources, one per alias and origin, valid settings), every command makes a draft of a draft, a source
already `Settled` is read as itself, and so a written draft is parsed to itself and passes the check it passed before.

**Reporting.** A loaded service may send only to a registry of the effective configuration, on its own host, and not to a
public one that the policy denies (`Legitimate`, `Home`); what a finished session leaves to report is of its basket and not
cancelled (`Applied`); an offer made from the two is `Offerable`, and there is one for each destination. `OutcomeHonest`
counts results: a session is reported as well or as failed exactly when all of them are.

**Compiling.** `CheckTellsContent` compares the origin with what was installed, however many publications ago, and no
history tells. The invariant says that the graph is the one of the sources it was compiled from, and that a
record has the source of some such graph; a graph that compiles lists exactly the artifacts of
its sources, each under the one source of its alias (`GraphOfSources`), so what `check` says of one record is said of the sources
themselves (`CheckTells`). `PrecedenceOrder` is what the version bounds of dependencies rest on: irreflexive, transitive, and total up to equal
precedence, for prereleases of every length.

**Recipes.** A plan has one effect for each step of the recipe that was parsed, and the review found its capabilities declared
and allowed (`Planned`, `Judged`). Any number of steps may share a target: what a record says was left behind is there, was
replaced by a later step at the same place, or is gone (`Traced`, `StaysAt`; the later step is the `LastOf` them). So a
verification and a second planning find what the property says, which names the receipts superseded in this way
and the block in a file that cannot be read (findings 20, 21).

**Screening.** Each published document, and each entry of the index, is of one analyzer, has the risk its findings give it,
and is honest about the object of its digest (`Evident`): complete evidence of the baseline without a serious finding
(`Serious`) is of an object that hits no serious rule. Merging keeps the findings of each part and the worst status, an
altered document does not match its path, evidence of an earlier revision has another digest. So the evidence of a
dangerous artifact that includes the baseline has an unknown, high or critical risk, and what any policy answers is at least the mildest
answer it leaves to these or to a missing analyzer (`DangerAnswered`, over the ranks of `ActionPlace`); a policy that warns, like the default one,
warns.

**Upkeep.** `UpkeepInv` says what a destination of each family may hold (`Shaped`) and what is recorded of an artifact
(`Honest`): what was put as a whole holds no line of the operator, and only a replaced memory has a text to give back. A
text is `Tidy`: each artifact has at most one begin marker, and an end marker only closes a block as it was put, so no line of the
operator is ever between the two. That is what makes a removal safe that looks at the markers alone, and it survives an operator who
deletes end markers. Every change of a text, `memory_block`, the strip, a deleted marker, replaces one segment (`Cut`); `CutTidy` and
`CutCarries` say when that keeps the text tidy and the operator's lines, and each operation is a case of them. Documents need that an entry
put or removed by its identity leaves the others. Where the code does lose lines of the operator, the property names which: what a forced
command displaced or overwrote in the sidecar, what a begin marker without an end takes away. The proof shows
that nothing else goes: the lines before such a marker stay (`CutParts`, `Parted`), and any other operation leaves the
lines at the destination or beside it (`Spares`). The new record of a forced replace is honest with what it carries over from
the old one, and a recorded link was asked for as one (`Moded`). Health is honest because the worst of the statuses is "current" only if
each of them is. The operator's edits are those of the model: they put whole lines at either end of a text, and no
marker. The proof assumes that `None` is no text, snapshot, proof or operation; it holds for any number of
lines and of steps, over the two artifacts and two versions the model names.

**Only model-checked.**

- The liveness properties `AcquireReturns`, `CommandReturns`, `NamedLockRecovered`, `Answered`: fairness
  is outside what the prover handles.
- `ClosureSound`: the walks over dependencies and over the members of collections are recursions, and what
  they compute for every catalog needs induction over data, which is outside it too.
- What the conditions above exclude: there the findings and the run `install_teardown` say what can happen.

## Not modelled

- Recovery of an apply that dies half-way: the code keeps no journal and promises none. In `Registry`,
  `Objects`, `Lease` and `ConfigCas` a crash is a step.
- Torn bytes on disk, damaged snapshot trees, clock jumps, network file systems.
- Git transport and archive limits, the field-by-field parsers of `protocol/*`, canonical JSON and hashing, text matching of
  the security rules, argument parsing, drawing, key handling, the report dashboard: conversions and layout, a single
  step, a Boolean or nothing here. The discovery of candidates in an upstream tree and the probes of
  the host's requirements are of the same sort.
- The lock-free reads of `source status`, `list` and the marketplace beside a publication: what is
  read is not in `Source`. Listed as a hazard.
- The fault `release` (the index is written, the lease cannot be released) is in `Install` but in no
  run: with it `RetentionExact` fails.
- Two setups, or a setup and an undo, at once: `Setup` has the steps, but they share the targets
  without a lock, so the one can take back what the other reports as configured. Listed as a hazard.
- `recover_configuration` and the unlocked `write_configuration`: ports that no command calls. `receipt show` only reads.
  `rollback_setup` is not called by a command either; `Recipe` models what it does to a record.
- `registry_publication.py`, which nothing imports (`LAF-03`), and in the compiler the comparison with a previous
  graph, `compile_sources` and `select_artifacts`, which no command reaches (`LAF-106`, finding 18). The analyzers, the tool adapters and
  the installation policy have no caller either (`LAF-108`, `LAF-110`); `Screening` models them as the library
  they are, for any policy.
- The fault `reread` of `Install` is in the run that asks for all or nothing, not in the one that asks
  what is retained (finding 22).

## Plan

1. The lock-free reader of a source beside publication and removal.
2. `Setup` with an install beside the restoration of `persist_setup`.
3. `Registry` with discovery, and a consumer that reads a checkout while it is applied.
