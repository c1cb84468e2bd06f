------------------------------- MODULE Source -------------------------------
(***************************************************************************)
(* One managed source: the commands add, sync, remove, resubscribe and     *)
(* health of commands/source.py, over application/sources.py and           *)
(* io/source_store.py.  A source is a subscription in the user             *)
(* configuration and a store of published snapshots: trees named by their  *)
(* digest and a pointer file, current.json, that names the current one.    *)
(*                                                                         *)
(* The store is changed under the source's lease and the configuration by  *)
(* compare-and-swap, and no step covers both.  The lease is taken as what  *)
(* LeaseProofs shows of module Lease, the checked write as what            *)
(* ConfigCasProofs shows of module ConfigCas: each is one atomic step      *)
(* here.  A snapshot stands for its digest, its resolved revision and the  *)
(* source identity it declares; upstream moves as it likes.                *)
(***************************************************************************)
EXTENDS FiniteSets, TLC

CONSTANTS
    Procs,      \* processes running source commands
    Snapshots,  \* what the origin may offer
    Ids, Ident, \* the identity each snapshot declares: [Snapshots -> Ids]
    Ops,        \* the commands they run: a subset of AllOps
    Faults,     \* what may go wrong: a subset of FaultKinds
    None,       \* no snapshot
    Free, Dead  \* the lease is free; it is a dead process's

AllOps == {"add", "sync", "check", "resubscribe", "remove"}

FaultKinds ==
    {"crash",    \* a process ends between two steps
     "fetch",    \* acquiring or validating a candidate fails
     "io",       \* a write or a removal in the store, or the save, fails
     "release"}  \* releasing the lease fails

ASSUME SourceConstants ==
    /\ Ident \in [Snapshots -> Ids]
    /\ Ops \subseteq AllOps /\ Faults \subseteq FaultKinds
    /\ None \notin Snapshots
    /\ Free \notin Procs /\ Dead \notin Procs /\ Free # Dead

VARIABLES
    upstream,   \* what the origin offers now
    pointer,    \* current.json: a snapshot or None
    trees,      \* the published snapshot trees
    config,     \* the user configuration
    lease,      \* whose the source lease is
    pc, plan,   \* where each process is, and its command's locals
    overtaken   \* history: removals after whose discard somebody published

store == <<pointer, trees>>
vars == <<upstream, store, config, lease, pc, plan, overtaken>>

\* The subscription, and everything else a command may write there: what the
\* compare-and-swap compares is the whole content.
Configs == [subscribed : BOOLEAN, other : BOOLEAN]

\* The critical section of the lease.
Locked == {"current", "fetch", "tree", "point", "prune", "unpoint", "discard", "release"}

PCs == {"idle", "acquire", "reload", "save"} \cup Locked

\* No transition reviewed.
Unreviewed == <<>>

Plans == [op : AllOps, seen : Configs, current : Snapshots \cup {None},
          candidate : Snapshots \cup {None},
          reviewed : ((Snapshots \cup {None}) \X Snapshots) \cup {Unreviewed},
          next : {"idle", "reload", "save", "acquire"}]

Goto(p, label) == pc' = [pc EXCEPT ![p] = label]

Blank == [op |-> "sync", seen |-> [subscribed |-> FALSE, other |-> FALSE],
          current |-> None, candidate |-> None, reviewed |-> Unreviewed, next |-> "idle"]

\* The command ends, and its locals are gone.
Return(p) == Goto(p, "idle") /\ plan' = [plan EXCEPT ![p] = Blank]

\* The lease is released next, and then the command goes on at a label;
\* an error in the critical section goes on at "idle".
Leave(p, label) ==
    /\ Goto(p, "release")
    /\ plan' = [plan EXCEPT ![p].next = label]

Fails(p, kind) == kind \in Faults /\ Leave(p, "idle")

-----------------------------------------------------------------------------
(* Faulty variants of the actions below: each is the mistake one property   *)
(* of this module is there to catch.                                        *)

\* the lease is left with an error in the fetch
Leaking_Fetch(p) ==
    /\ pc[p] = "fetch" /\ "fetch" \in Faults
    /\ Return(p)
    /\ UNCHANGED <<upstream, store, config, lease, overtaken>>

\* a changed identity is adopted as it is by now, whatever was reviewed
Trusting_Agreed(p, candidate) ==
    LET same == plan[p].current # None /\ Ident[plan[p].current] = Ident[candidate]
    IN  IF plan[p].op = "resubscribe" THEN ~same ELSE same \/ plan[p].current = None

\* the pointer is left in place while the trees go
Kept_Unpoint(p) ==
    /\ pc[p] = "unpoint"
    /\ Goto(p, "discard")
    /\ UNCHANGED <<upstream, store, config, lease, plan, overtaken>>

\* a failed discard does not stop the removal
Careless_Unpoint(p) ==
    /\ pc[p] = "unpoint"
    /\ \/ pointer' = None /\ Goto(p, "discard") /\ UNCHANGED plan
       \/ "io" \in Faults /\ UNCHANGED pointer /\ Leave(p, "save")
    /\ UNCHANGED <<upstream, trees, config, lease, overtaken>>

-----------------------------------------------------------------------------
Init ==
    /\ upstream \in Snapshots
    /\ pointer = None /\ trees = {}
    /\ config = [subscribed |-> FALSE, other |-> FALSE]
    /\ lease = Free
    /\ pc = [p \in Procs |-> "idle"]
    /\ plan = [p \in Procs |-> Blank]
    /\ overtaken = {}

\* A command loads the configuration and plans: add wants an origin nobody
\* subscribed to, the others a configured one.
Load(p, op) ==
    /\ pc[p] = "idle"
    /\ op \in Ops
    /\ config.subscribed = (op # "add")
    /\ plan' = [plan EXCEPT ![p] = [Blank EXCEPT !.op = op, !.seen = config]]
    /\ Goto(p, "acquire")
    /\ overtaken' = overtaken \ {p}
    /\ UNCHANGED <<upstream, store, config, lease>>

\* ports.acquire_lock: a dead owner's lease is reclaimed; a busy or broken
\* one ends the command.
Acquire(p) ==
    /\ pc[p] = "acquire"
    /\ \/ /\ lease \in {Free, Dead} /\ lease' = p
          /\ Goto(p, IF plan[p].op = "remove" THEN "unpoint" ELSE "current")
          /\ UNCHANGED plan
       \/ (lease # Free \/ "io" \in Faults) /\ Return(p) /\ UNCHANGED lease
    /\ UNCHANGED <<upstream, store, config, overtaken>>

\* ports.read_current, under the lease.  resubscribe wants a snapshot to be
\* there.  A pointer whose tree is gone is an error.
ReadCurrent(p) ==
    /\ pc[p] = "current"
    /\ \/ /\ pointer = None \/ pointer \in trees
          /\ pointer # None \/ plan[p].op \in {"add", "sync"}
          /\ plan' = [plan EXCEPT ![p].current = pointer]
          /\ Goto(p, "fetch")
       \/ /\ \/ pointer # None /\ pointer \notin trees
             \/ pointer = None /\ plan[p].op \in {"check", "resubscribe"}
          /\ Leave(p, "idle")
    /\ UNCHANGED <<upstream, store, config, lease, overtaken>>

\* SourceIdentityTransition: the snapshot bound now and the one offered.
Transition(p, candidate) == <<plan[p].current, candidate>>

\* The identity check: add and sync may not change the declared identity,
\* resubscribe does nothing else, and once reviewed exactly that transition.
Agreed(p, candidate) ==
    LET current == plan[p].current
        same == current # None /\ Ident[current] = Ident[candidate]
    IN  IF plan[p].op = "resubscribe"
        THEN ~same /\ plan[p].reviewed \in {Unreviewed, Transition(p, candidate)}
        ELSE same \/ current = None

\* The first pass of resubscribe only reports a transition.
Reviewing(p) == plan[p].op = "resubscribe" /\ plan[p].reviewed = Unreviewed

\* _candidate and validate: what the origin offers now.  health only compares;
\* a review is followed by a second pass, or with no --yes by nothing.
Fetch(p) ==
    /\ pc[p] = "fetch"
    /\ \/ (plan[p].op = "check" \/ ~Agreed(p, upstream)) /\ Leave(p, "idle")
       \/ /\ Reviewing(p) /\ Agreed(p, upstream)
          /\ Goto(p, "release")
          /\ \/ plan' = [plan EXCEPT ![p] = [@ EXCEPT !.reviewed = Transition(p, upstream),
                                                   !.next = "acquire"]]
             \/ UNCHANGED plan
       \/ /\ plan[p].op # "check" /\ ~Reviewing(p) /\ Agreed(p, upstream)
          /\ plan' = [plan EXCEPT ![p].candidate = upstream]
          /\ Goto(p, "tree")
       \/ Fails(p, "fetch")
    /\ UNCHANGED <<upstream, store, config, lease, overtaken>>

\* publish_source_snapshot: the staged tree is renamed to its digest, unless
\* that is there already, and read back.
PublishTree(p) ==
    /\ pc[p] = "tree"
    /\ \/ trees' = trees \cup {plan[p].candidate} /\ Goto(p, "point") /\ UNCHANGED plan
       \/ trees' \in {trees, trees \cup {plan[p].candidate}} /\ Fails(p, "io")
    /\ UNCHANGED <<upstream, pointer, config, lease, overtaken>>

\* ... then current.json is replaced.  An error after the rename leaves the
\* new pointer behind.
PublishPointer(p) ==
    /\ pc[p] = "point"
    /\ \/ /\ pointer' = plan[p].candidate
          /\ overtaken' = overtaken \cup {q \in Procs : pc[q] = "save" /\ plan[q].op = "remove"}
          /\ \/ plan[p].op = "add" /\ Leave(p, "reload")
             \/ plan[p].op = "sync" /\ Leave(p, "idle")
             \/ plan[p].op = "resubscribe" /\ Goto(p, "prune") /\ UNCHANGED plan
             \/ Fails(p, "io")
       \/ UNCHANGED <<pointer, overtaken>> /\ Fails(p, "io")
    /\ UNCHANGED <<upstream, trees, config, lease>>

\* prune_superseded_snapshots: any of the other trees may fail to go.
Prune(p) ==
    /\ pc[p] = "prune"
    /\ \E kept \in SUBSET trees :
           plan[p].candidate \in kept /\ trees' = kept
    /\ Leave(p, "idle")
    /\ UNCHANGED <<upstream, pointer, config, lease, overtaken>>

\* discard_source_store: the pointer goes first of all ...
Unpoint(p) ==
    /\ pc[p] = "unpoint"
    /\ \/ pointer' = None /\ Goto(p, "discard") /\ UNCHANGED plan
       \/ UNCHANGED pointer /\ Fails(p, "io")
    /\ UNCHANGED <<upstream, trees, config, lease, overtaken>>

\* ... then the snapshots are renamed away as a whole; what fails before the
\* renaming leaves them, what fails after it does not bring them back.
Discard(p) ==
    /\ pc[p] = "discard"
    /\ \/ trees' = {} /\ Leave(p, "save")
       \/ trees' \in {trees, {}} /\ Fails(p, "io")
    /\ UNCHANGED <<upstream, pointer, config, lease, overtaken>>

\* ports.release_lock; a failure is the command's, and leaves the lease to
\* whoever finds it stale.
Release(p) ==
    /\ pc[p] = "release"
    /\ \/ /\ lease' = Free
          /\ \/ plan[p].next = "idle" /\ Return(p)
             \/ plan[p].next # "idle" /\ Goto(p, plan[p].next) /\ UNCHANGED plan
       \/ "release" \in Faults /\ lease' = Dead /\ Return(p)
    /\ UNCHANGED <<upstream, store, config, overtaken>>

\* add loads the configuration again after the fetch and refuses a change.
Reload(p) ==
    /\ pc[p] = "reload"
    /\ \/ config = plan[p].seen /\ Goto(p, "save") /\ UNCHANGED plan
       \/ config # plan[p].seen /\ Return(p)
    /\ UNCHANGED <<upstream, store, config, lease, overtaken>>

\* finalize_source_addition and finalize_source_removal: the checked write of
\* the reviewed configuration.  An error may follow the replacement.
Save(p) ==
    /\ pc[p] = "save"
    /\ \/ config = plan[p].seen /\ config' = [config EXCEPT !.subscribed = (plan[p].op = "add")]
       \/ (config # plan[p].seen \/ "io" \in Faults) /\ UNCHANGED config
    /\ Return(p)
    /\ UNCHANGED <<upstream, store, lease, overtaken>>

\* A process ends; the lease stays with its dead owner.
Crash(p) ==
    /\ "crash" \in Faults /\ pc[p] # "idle"
    /\ lease' = IF lease = p THEN Dead ELSE lease
    /\ Return(p)
    /\ UNCHANGED <<upstream, store, config, overtaken>>

\* The origin is its owner's, and other commands write the configuration.
MoveUpstream ==
    /\ upstream' \in Snapshots \ {upstream}
    /\ UNCHANGED <<store, config, lease, pc, plan, overtaken>>

OtherWrite ==
    /\ config' = [config EXCEPT !.other = ~@]
    /\ UNCHANGED <<upstream, store, lease, pc, plan, overtaken>>

Run(p) ==
    \/ Acquire(p) \/ ReadCurrent(p) \/ Fetch(p) \/ PublishTree(p) \/ PublishPointer(p)
    \/ Prune(p) \/ Unpoint(p) \/ Discard(p) \/ Release(p) \/ Reload(p) \/ Save(p)

Next ==
    \/ \E p \in Procs : Run(p) \/ Crash(p) \/ \E op \in AllOps : Load(p, op)
    \/ MoveUpstream \/ OtherWrite

Spec == Init /\ [][Next]_vars

-----------------------------------------------------------------------------
(* Properties                                                              *)

\* Every variable keeps its type.
TypeOK ==
    /\ upstream \in Snapshots
    /\ pointer \in Snapshots \cup {None}
    /\ trees \subseteq Snapshots
    /\ config \in Configs
    /\ lease \in Procs \cup {Free, Dead}
    /\ pc \in [Procs -> PCs]
    /\ plan \in [Procs -> Plans]
    /\ overtaken \subseteq Procs

\* The current pointer always names a whole published tree, whatever process
\* is publishing, pruning or discarding, wherever it stopped.
PointerWhole == pointer = None \/ pointer \in trees

\* The lease is whoever's critical section it is, and no error path of a
\* command leaves without giving it back.
LeaseReturned == \A p \in Procs : pc[p] \in Locked <=> lease = p

\* The identity bound to the origin changes only to the one an operator
\* reviewed, from the very snapshot reviewed, however upstream moves and
\* whatever commands come in between.
IdentityReviewed ==
    [][ pointer # None /\ pointer' # None /\ Ident[pointer] # Ident[pointer'] =>
            \E p \in Procs : /\ plan[p].op = "resubscribe" /\ pc[p] = "point"
                             /\ plan[p].reviewed = <<pointer, pointer'>> ]_vars

Unsubscribes(p) ==
    pc[p] = "save" /\ plan[p].op = "remove" /\ config.subscribed /\ ~config'.subscribed

\* A removal that nobody overtook leaves no snapshot bound to the origin it
\* unsubscribes, whatever failed on the way.
RemovalComplete ==
    [][ \A p \in Procs \ overtaken : Unsubscribes(p) => pointer = None ]_vars
=============================================================================
