------------------------------ MODULE Session -------------------------------
(* One run of the wizard, in the text or in the curses frontend: the        *)
(* operator answers the prompt of the current stage, the program reads,     *)
(* plans and applies between two prompts, and other processes change the    *)
(* configuration, the installations or the checkout at any moment.          *)
(*                                                                          *)
(* at says what the wizard is doing.  The operator moves at "ask" and       *)
(* "failed"; everything else is the program's.                              *)
(* After a curation action was chosen in curses the screen is torn down and *)
(* the text driver goes on without the outer loop: front = "tail".          *)
EXTENDS Wizard

CONSTANTS
    Artifacts,      \* artifacts the sources offer
    Collections,    \* collections they offer
    Home,           \* [Artifacts \cup Collections -> Sources]
    Members,        \* [Collections -> SUBSET Artifacts]
    Fits,           \* [Artifacts -> SUBSET (Profiles \X Scopes \X Modes)]
    SetUp,          \* the artifacts that declare a setup recipe
    Faults,         \* what may fail, a subset of FaultKinds
    MaxChanges,     \* bound on the source changes made in the wizard
    MaxOutside      \* bound on what other processes do

FaultKinds == {"service", "browse", "review", "save", "apply", "sync", "reload"}

ASSUME SessionAssumption ==
    /\ Home \in [Artifacts \cup Collections -> Sources]
    /\ Members \in [Collections -> SUBSET Artifacts]
    /\ Fits \in [Artifacts -> SUBSET (Profiles \X Scopes \X Modes)]
    /\ SetUp \subseteq Artifacts
    /\ Artifacts \cap Collections = {}
    /\ IsFiniteSet(Artifacts) /\ IsFiniteSet(Profiles)
    /\ Faults \subseteq FaultKinds
    /\ MaxChanges \in Nat /\ MaxOutside \in Nat

VARIABLES
    at,         \* what the wizard is doing
    s,          \* the session
    w,          \* what the wizard holds besides it:
                \*   front     "text", "curses" or "tail"
                \*   fault     the failure it shows
                \*   view      what the Sources screen shows
                \*   change    the source change being made
                \*   service   the view the consumer service was loaded from
                \*   model     the read model of the artifacts stage
                \*   review    the reviewed items still to be applied
                \*   prepared  the curation review the maintainer loop keeps
                \*   outcome   the terminal status of the applied items
                \*   exit      the exit code
    config,     \* the configuration on disk
    snap,       \* the managed snapshot of every source
    manifest,   \* what the installation state of a scope records
    placed,     \* what is really in place there
    changes,    \* how often the operator maintained a source
    outside     \* how often another process interfered

disk == <<config, snap, manifest, placed>>
vars == <<at, s, w, disk, changes, outside>>

bounds == <<changes, outside>>

Pairs == Artifacts \X Profiles

Snapshots == [Sources -> {"missing", "current", "invalid"}]

\* Nothing is held but what the Sources screen shows.
Idle(front, code) ==
    [front |-> front, view |-> [config |-> config, snap |-> snap], fault |-> None,
     change |-> None, service |-> None, model |-> None, review |-> <<>>, prepared |-> None,
     outcome |-> [p \in Pairs |-> None], exit |-> code]

Init ==
    /\ at = "ask"
    /\ s = initial_session
    /\ config \in {c \in Configurations :
                     /\ c.default # None => c.default \in Enabled(c) \cap Registries
                     /\ AllowDirect \/ Configured(c) \subseteq Registries}
    /\ snap \in {f \in Snapshots : \A x \in Sources :
                    (f[x] = "missing") <=> (x \notin Configured(config))}
    /\ w \in {Idle(front, None) : front \in {"text", "curses"}}
    /\ manifest \in {[c \in Scopes |-> IF c = "project" THEN P ELSE {}] : P \in SUBSET Pairs}
    /\ placed = manifest
    /\ changes = 0 /\ outside = 0

-----------------------------------------------------------------------------
(* Navigation.                                                              *)

\* The wizard takes up the stage it has come to: artifacts and review read
\* first, every other stage prompts.
Goto(t) ==
    /\ s' = t
    /\ at' = IF t.current \in {"artifacts", "review"} THEN "read" ELSE "ask"

\* The process ends; nothing of it stays but the exit code.
End(code) ==
    /\ at' = "ended"
    /\ s' = initial_session
    /\ w' = Idle(w.front, code)

\* The loops' own variables: a review is made anew, and the user loop forgets
\* its service and its read model when it returns to the loop around it.
Return(t) ==
    LET left == t.current \in {"role", "source", "maintainer_action"} IN
    w' = [w EXCEPT !.review = <<>>, !.fault = None,
                   !.model = IF left THEN None ELSE @,
                   !.service = IF left THEN None ELSE @]

Curating == s.role = "maintainer" /\ s.curation # "user"

Onboard ==
    /\ at = "ask" /\ s.current = "onboarding"
    /\ Goto(Advance(s))
    /\ UNCHANGED <<w, disk, bounds>>

ChooseRole(role) ==
    /\ at = "ask" /\ s.current = "role"
    /\ LET t == SelectRole(s, role) IN
       Goto(Advance(IF role = "maintainer" THEN UseCurrentCheckout(t) ELSE t))
    /\ UNCHANGED <<w, disk, bounds>>

\* In curses, Back from the role shows the first screen again and returns to
\* the role; a curation action runs with the screen torn down, so leaving its
\* menu ends the run, and so does leaving the stages of its user route.
GoBack ==
    /\ at = "ask" /\ s.current # "onboarding"
    /\ LET t == Back(s)
           gone == \/ w.front = "tail" /\ t.current = "role"
                   \/ w.front = "curses" /\ s.current = "profiles" /\ s.role = "maintainer"
       IN  IF gone THEN End(0)
           ELSE /\ Goto(IF w.front = "curses" /\ s.current = "role" THEN s ELSE t)
                /\ Return(t)
    /\ UNCHANGED <<disk, bounds>>

\* A basket is only discarded when the operator says so; declining asks again.
Quit ==
    /\ at \in {"ask", "failed"}
    /\ End(0)
    /\ UNCHANGED <<disk, bounds>>

-----------------------------------------------------------------------------
(* The Sources stage.                                                       *)

AtSources == at = "ask" /\ s.current = "source"

ChooseSources(chosen) ==
    /\ AtSources
    /\ Plannable(w.view, chosen)
    /\ s' = Advance(Select(s, "source", [s EXCEPT !.selection = Selection(w.view, chosen)]))
    /\ at' = "load"
    /\ UNCHANGED <<w, disk, bounds>>

ContinueWithout ==
    /\ AtSources
    /\ Required = {}
    /\ End(0)
    /\ UNCHANGED <<disk, bounds>>

Maintain(request) ==
    /\ AtSources
    /\ changes < MaxChanges
    /\ changes' = changes + 1
    /\ at' = "change"
    /\ w' = [w EXCEPT !.change = request]
    /\ UNCHANGED <<s, disk, outside>>

AddSource(x) == CanAdd(w.view, x) /\ Maintain(Addition(w.view, x))

RemoveSource(x) == CanRemove(w.view, x) /\ Maintain(Removal(w.view, x))

SyncSource(x) == x \in Configured(w.view.config) /\ Maintain(Refreshing(w.view, x))

Resubscribe(x) == CanResubscribe(w.view, x) /\ Maintain(Refreshing(w.view, x))

\* The configuration and the policy are still the reviewed ones.
Reviewed(before) == config = before

Refuse == at' = "ask" /\ w' = [w EXCEPT !.change = None] /\ UNCHANGED s

\* After a mutation the screen is read again and the choice is asked anew,
\* unless reading it fails.
Reload ==
    \/ /\ at' = "ask"
       /\ w' = [w EXCEPT !.change = None, !.view = [config |-> config', snap |-> snap']]
       /\ s' = [s EXCEPT !.selection = None]
    \/ "reload" \in Faults /\ Refuse

\* The snapshot is acquired, or discarded, before the configuration is written.
Acquire ==
    /\ at = "change"
    /\ LET done == IF w.change.kind = "remove" THEN "missing" ELSE "current"
           writes == w.change.before # w.change.after
       IN  \/ /\ writes => Reviewed(w.change.before)
              /\ snap' = [snap EXCEPT ![w.change.alias] = done]
              /\ UNCHANGED config
              /\ IF writes THEN at' = "write" /\ UNCHANGED <<s, w>> ELSE Reload
           \/ /\ (writes /\ ~Reviewed(w.change.before)) \/ "sync" \in Faults
              /\ Refuse
              /\ UNCHANGED <<config, snap>>
    /\ UNCHANGED <<manifest, placed, bounds>>

WriteSources ==
    /\ at = "write"
    /\ UNCHANGED <<snap, manifest, placed, bounds>>
    /\ \/ Reviewed(w.change.before) /\ config' = w.change.after /\ Reload
       \/ ~Reviewed(w.change.before) /\ Refuse /\ UNCHANGED config

\* A faulty variant: what failed is tried again without asking.
Insisting_Show(kind) == UNCHANGED <<at, w>>

\* A failure the operator is asked about.
Show(kind) == at' = "failed" /\ w' = [w EXCEPT !.fault = kind]

\* The consumer service is loaded for the chosen configuration, the maintainer's
\* for the one the Sources screen shows.
LoadService ==
    /\ at = "load"
    /\ LET chosen == IF s.role = "user" THEN s.selection.after ELSE w.view.config IN
       \/ at' = "ask" /\ w' = [w EXCEPT !.service = [config |-> chosen, snap |-> snap]]
       \/ "service" \in Faults /\ Show("service")
    /\ UNCHANGED <<s, disk, bounds>>

-----------------------------------------------------------------------------
(* The stages of the user's route.                                          *)

ChooseProfiles(chosen) ==
    /\ at = "ask" /\ s.current = "profiles"
    /\ Goto(Advance(Select(s, "profiles", [s EXCEPT !.profiles = chosen])))
    /\ UNCHANGED <<w, disk, bounds>>

Forget == w' = [w EXCEPT !.model = None] /\ UNCHANGED <<disk, bounds>>

ChooseAction(a) ==
    /\ at = "ask" /\ s.current = "action"
    /\ LET t == Select(s, "action", [s EXCEPT !.action = a]) IN
       Goto(Advance(IF a = "status" THEN Reconcile(t, {}) ELSE t))
    /\ Forget

ChooseScope(c) ==
    /\ at = "ask" /\ s.current = "scope"
    /\ Goto(Advance(Select(s, "scope", [s EXCEPT !.scope = c])))
    /\ Forget

ChooseMode(m) ==
    /\ at = "ask" /\ s.current = "mode"
    /\ Goto(Advance(Select(s, "mode", [s EXCEPT !.mode = m])))
    /\ Forget

\* The sources a session is limited to; a maintainer has chosen none and sees all.
Aliases(t) == IF t.selection = None THEN Sources ELSE Enabled(t.selection.after)

\* What the loaded service knows of the chosen sources.
Listed(v, t, items) ==
    {i \in items : /\ Home[i] \in Enabled(v.config) \cap Aliases(t)
                   /\ v.snap[Home[i]] = "current"}

Compatible(a, t) == \A p \in t.profiles : <<p, t.scope, t.mode>> \in Fits[a]

\* Update and uninstall list what some chosen profile has installed.
Rows(v, t) ==
    LET rows == Listed(v, t, Artifacts) IN
    IF t.action \notin {"update", "uninstall"} THEN rows
    ELSE {a \in rows : \E p \in t.profiles : <<a, p>> \in manifest[t.scope]}

Bundles(v, t) == IF t.action = "install" THEN Listed(v, t, Collections) ELSE {}

ReadModel(v, t) ==
    LET rows == Rows(v, t)
        fit == {a \in rows : Compatible(a, t)}
    IN  [key |-> <<t.action, t.profiles, t.scope, t.mode>>,
         rows |-> rows,
         shown |-> rows \cup Bundles(v, t),
         enabled |-> fit \cup {c \in Bundles(v, t) : Members[c] \subseteq fit}]

\* The read model is kept while its key stands; the basket is reconciled with
\* it before every prompt.
Browse ==
    /\ at = "read" /\ s.current = "artifacts"
    /\ LET fresh == ReadModel(w.service, s)
           m == IF w.model # None /\ w.model.key = fresh.key THEN w.model ELSE fresh
       IN  \/ /\ m.shown # {}
              /\ w' = [w EXCEPT !.model = m]
              /\ s' = Reconcile(s, m.enabled)
              /\ at' = "ask"
           \/ m.shown = {} /\ End(0)
           \/ "browse" \in Faults /\ m # w.model /\ Show("browse") /\ UNCHANGED s
    /\ UNCHANGED <<disk, bounds>>

\* A blank line keeps the basket; a line of numbers is refused when it names a
\* disabled row.
ChooseArtifacts(chosen) ==
    /\ at = "ask" /\ s.current = "artifacts"
    /\ chosen # {}
    /\ chosen \subseteq w.model.enabled \/ chosen = s.basket \cap w.model.shown
    /\ Goto(Advance(Select(s, "artifacts", [s EXCEPT !.basket = chosen])))
    /\ UNCHANGED <<w, disk, bounds>>

-----------------------------------------------------------------------------
(* Review and Finalize of a consumer action.                                *)

\* The basket, its collections opened.
Coordinates ==
    (IF w.model = None THEN {} ELSE s.basket \cap w.model.rows) \cup
    UNION {Members[c] : c \in s.basket \cap Collections}

Targets == IF s.action = "status" THEN {} ELSE Coordinates \X s.profiles

\* Update and uninstall need a record of every artifact and profile.
Recorded == s.action \in {"update", "uninstall"} => Targets \subseteq manifest[s.scope]

Effect(records, target) ==
    CASE s.action = "install" -> records \cup {target}
      [] s.action = "uninstall" -> records \ {target}
      [] OTHER -> records

\* Every plan is made on the records its predecessors will have left.
Overlay(targets) ==
    LET after(i) == FoldLeft(Effect, manifest[s.scope], SubSeq(targets, 1, i)) IN
    [i \in 1 .. Len(targets) |->
       [target |-> targets[i], pre |-> after(i - 1), post |-> Effect(after(i - 1), targets[i])]]

PrepareReview ==
    /\ at = "read" /\ s.current = "review" /\ ~Curating
    /\ \/ Recorded /\ at' = "ask" /\ w' = [w EXCEPT !.review = Overlay(SetToSeq(Targets))]
       \/ (~Recorded \/ "review" \in Faults) /\ Show("review")
    /\ UNCHANGED <<s, disk, bounds>>

\* The text review is made again after a refusal, the curses one ends the run.
DeclineReview ==
    /\ at = "ask" /\ s.current = "review"
    /\ IF w.front = "curses" THEN End(0) ELSE at' = "read" /\ UNCHANGED <<s, w>>
    /\ UNCHANGED <<disk, bounds>>

Finalize ==
    /\ at = "ask" /\ s.current = "review" /\ ~Curating
    /\ CanFinalize(s)
    /\ at' = IF s.selection # None /\ Operations(s.selection) THEN "save" ELSE "apply"
    /\ UNCHANGED <<s, w, disk, bounds>>

\* A failure of Finalize is shown in the text wizard and ends the curses one.
Fail(kind) == IF w.front = "curses" THEN End(2) ELSE Show(kind) /\ UNCHANGED s

\* The reviewed selection of sources is saved before anything is installed.
SaveSelection ==
    /\ at = "save"
    /\ \/ /\ Reviewed(s.selection.before)
          /\ config' = s.selection.after
          /\ at' = "apply"
          /\ UNCHANGED <<s, w>>
       \/ /\ ~Reviewed(s.selection.before) \/ "save" \in Faults
          /\ Fail("save")
          /\ UNCHANGED config
    /\ UNCHANGED <<snap, manifest, placed, bounds>>

\* A faulty variant: an item is applied whatever became of the ones before it.
Blind_Current(item) == TRUE

\* The state of the scope is the one the item was planned on.
Current(item) == manifest[s.scope] = item.pre

ApplyItem ==
    /\ at = "apply" /\ w.review # <<>>
    /\ LET item == Head(w.review)
           end(status) == w' = [w EXCEPT !.review = Tail(@), !.outcome[item.target] = status]
       IN  \/ /\ Current(item)
              /\ manifest' = [manifest EXCEPT ![s.scope] = item.post]
              /\ placed' = [placed EXCEPT ![s.scope] = Effect(@, item.target)]
              /\ end("changed")
           \/ ~Current(item) /\ end("conflict") /\ UNCHANGED <<manifest, placed>>
           \/ "apply" \in Faults /\ end("failed") /\ UNCHANGED <<manifest, placed>>
    /\ UNCHANGED <<at, s, config, snap, bounds>>

\* What awaits setup once its payload is in place.
Pending == {p \in Pairs : w.outcome[p] = "changed" /\ p[1] \in SetUp /\ s.action # "uninstall"}

\* The queue may fail to plan, be declined or leave an item incomplete; the
\* exit code tells of setup alone.
Complete ==
    /\ at = "apply" /\ w.review = <<>>
    /\ \E configured \in SUBSET Pending : End(IF configured = Pending THEN 0 ELSE 1)
    /\ UNCHANGED <<disk, bounds>>

-----------------------------------------------------------------------------
(* The maintainer's route.                                                  *)

ChooseCuration(a) ==
    /\ at = "ask" /\ s.current = "maintainer_action"
    /\ LET t == IF w.front = "curses" THEN s ELSE [s EXCEPT !.basket = {}]
           u == Advance(Select(t, "maintainer_action", [t EXCEPT !.curation = a]))
       IN  IF a = "user" THEN s' = u /\ at' = "load" ELSE Goto(u)
    /\ w' = [w EXCEPT !.front = IF @ = "curses" /\ a # "user" THEN "tail" ELSE @,
                      !.prepared = None]
    /\ UNCHANGED <<disk, bounds>>

\* A request that differs from the last one is prepared again.
GiveDetails ==
    /\ at = "ask" /\ s.current = "native_details"
    /\ Goto(Advance(s))
    /\ \E kept \in {w.prepared, None} : w' = [w EXCEPT !.prepared = kept]
    /\ UNCHANGED <<disk, bounds>>

\* A prepared review is shown again as it was.
PrepareCuration ==
    /\ at = "read" /\ s.current = "review" /\ Curating
    /\ \/ /\ at' = "ask"
          /\ w' = [w EXCEPT !.prepared = IF @ = None THEN "fresh" ELSE @]
       \/ w.prepared = None /\ "review" \in Faults /\ Show("review")
    /\ UNCHANGED <<s, disk, bounds>>

FinalizeCuration ==
    /\ at = "ask" /\ s.current = "review" /\ Curating
    /\ CanFinalize(s)
    /\ \/ w.prepared = "fresh" /\ End(0)
       \/ w.prepared = "fresh" /\ "apply" \in Faults /\ End(2)
       \/ w.prepared = "stale" /\ Show("save") /\ UNCHANGED s
    /\ UNCHANGED <<disk, bounds>>

-----------------------------------------------------------------------------
(* What the operator does about a failure.                                  *)

\* In curses the maintainer's route leaves the loop it would return to.
RecoverBack ==
    /\ at = "failed"
    /\ IF w.fault = "service" /\ w.front = "curses" /\ s.role = "maintainer"
       THEN End(0)
       ELSE Goto(Back(s)) /\ Return(Back(s))
    /\ UNCHANGED <<disk, bounds>>

RecoverRetry ==
    /\ at = "failed" /\ w.fault = "browse"
    /\ at' = "read"
    /\ w' = [w EXCEPT !.fault = None, !.model = None]
    /\ UNCHANGED <<s, disk, bounds>>

\* The operator asks to quit and then keeps the basket.  After a failed load
\* of the service the session is already at the profiles, for which neither
\* outer loop has a branch: curses falls out of it and ends, text spins.
RecoverKeep ==
    /\ at = "failed" /\ s.basket # {}
    /\ \/ w.fault # "service" /\ at' = "read" /\ w' = [w EXCEPT !.fault = None] /\ UNCHANGED s
       \/ w.fault = "service" /\ w.front = "curses" /\ End(0)
       \/ w.fault = "service" /\ w.front # "curses" /\ at' = "lost" /\ UNCHANGED <<s, w>>
    /\ UNCHANGED <<disk, bounds>>

-----------------------------------------------------------------------------
(* Other processes.                                                         *)

Interfere == outside < MaxOutside /\ at # "ended" /\ outside' = outside + 1 /\ UNCHANGED changes

\* Another command adds a source, as the default when it is asked to or, unasked,
\* when it is the first registry.
OtherAdd ==
    /\ Interfere
    /\ \E x \in Sources \ Configured(config), asked \in BOOLEAN :
          /\ x \in Registries \/ (AllowDirect /\ ~asked)
          /\ config' = [state |-> [config.state EXCEPT ![x] = "on"],
                        default |-> IF asked THEN x ELSE config.default]
          /\ snap' = [snap EXCEPT ![x] = "current"]
    /\ UNCHANGED <<at, s, w, manifest, placed>>

\* Another command removes a source: the store first, then the subscription.
OtherRemove ==
    /\ Interfere
    /\ LET now == [config |-> config, snap |-> snap] IN
       \E x \in Sources :
          /\ CanRemove(now, x)
          /\ config' = Removal(now, x).after
          /\ snap' = [snap EXCEPT ![x] = "missing"]
    /\ UNCHANGED <<at, s, w, manifest, placed>>

\* Another command installs or uninstalls.
OtherInstall ==
    /\ Interfere
    /\ \E c \in Scopes, p \in Pairs :
          LET flip(set) == IF p \in set THEN set \ {p} ELSE set \cup {p} IN
          /\ manifest' = [manifest EXCEPT ![c] = flip(@)]
          /\ placed' = [placed EXCEPT ![c] = flip(@)]
    /\ UNCHANGED <<at, s, w, config, snap>>

\* The checkout under a prepared curation changes.
OtherEdit ==
    /\ Interfere
    /\ w.prepared = "fresh"
    /\ w' = [w EXCEPT !.prepared = "stale"]
    /\ UNCHANGED <<at, s, disk>>

-----------------------------------------------------------------------------
Operator ==
    \/ Onboard \/ GoBack \/ Quit \/ ContinueWithout
    \/ \E r \in {"user", "maintainer"} : ChooseRole(r)
    \/ \E chosen \in SUBSET Sources : ChooseSources(chosen)
    \/ \E x \in Sources : AddSource(x) \/ RemoveSource(x) \/ SyncSource(x) \/ Resubscribe(x)
    \/ \E chosen \in (SUBSET Profiles) \ {{}} : ChooseProfiles(chosen)
    \/ \E a \in ConsumerActions : ChooseAction(a)
    \/ \E c \in Scopes : ChooseScope(c)
    \/ \E m \in Modes : ChooseMode(m)
    \/ \E chosen \in SUBSET (Artifacts \cup Collections) : ChooseArtifacts(chosen)
    \/ DeclineReview \/ Finalize
    \/ \E a \in Curations \cup {"user"} : ChooseCuration(a)
    \/ GiveDetails \/ FinalizeCuration
    \/ RecoverBack \/ RecoverRetry \/ RecoverKeep

Program ==
    \/ Acquire \/ WriteSources \/ LoadService \/ Browse \/ PrepareReview
    \/ SaveSelection \/ ApplyItem \/ Complete \/ PrepareCuration

Others == OtherAdd \/ OtherRemove \/ OtherInstall \/ OtherEdit

Next == Operator \/ Program \/ Others

\* The program is one thread that runs whenever it is not waiting for input.
Spec == Init /\ [][Next]_vars /\ WF_vars(Program)

-----------------------------------------------------------------------------
\* A basket is planned item by item on projected records, and any item may
\* fail, conflict or be overtaken by another process: the state of a scope
\* still never records what is not in place, nor forgets what is.
NoGhostRecord == manifest = placed

\* Whatever way the operator went back and forth between the stages: what a
\* review of an installation is about to place is listed by the sources chosen
\* in this session, and fits the profiles, scope and mode chosen last.
BasketIsOffered ==
    at = "ask" /\ s.current = "review" /\ ~Curating /\ s.action = "install" =>
        \A i \in 1 .. Len(w.review) :
            LET a == w.review[i].target[1] IN
            a \in Listed(w.service, s, Artifacts) /\ Compatible(a, s)

\* Adding, removing and choosing sources, here and in other processes, leave a
\* configuration whose default registry is an enabled registry.
DefaultUsable == config.default # None => config.default \in Enabled(config) \cap Registries

\* The code hangs here: an operator of the text frontend who asked to quit after a failed
\* load of the service and then kept the basket is at the profiles, the loop at tui.py:2300
\* has no branch for them, and it spins without a prompt (tui.py:2470-2491).
Spinning == at = "lost"

\* Between two prompts the program works: from everywhere but the hang it comes to the
\* next prompt or to the end, and nothing but a kept basket after a failed load of the
\* service in the text frontend leads into the hang.
Answered ==
    /\ ~Spinning /\ at \notin {"ask", "failed", "ended"} ~> at \in {"ask", "failed", "ended"}
    /\ [](Spinning => w.fault = "service" /\ w.front # "curses" /\ s.basket # {})
=============================================================================
