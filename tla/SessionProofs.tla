---------------------------- MODULE SessionProofs ----------------------------
(* The wizard beside other processes, for any sources, artifacts, profiles  *)
(* and number of interferences: the configuration it and they leave, the    *)
(* installation records of the items it applies, and the basket it reviews. *)
EXTENDS Session, FiniteSetTheorems, TLAPS

\* A configuration whose default registry is an enabled registry.
Usable(c) ==
    /\ c \in Configurations
    /\ c.default # None => c.default \in Enabled(c) \cap Registries

\* The fields of a session and of what the wizard holds beside it.
SessionFields ==
    {"current", "confirmed", "role", "curation", "profiles", "action", "scope", "mode",
     "selection", "checkout", "basket"}
HeldFields ==
    {"front", "view", "fault", "change", "service", "model", "review", "prepared",
     "outcome", "exit"}

\* A session, and the configuration it would save.
Sane(t) ==
    /\ DOMAIN t = SessionFields /\ t.profiles \subseteq Profiles
    /\ t.selection # None => Usable(t.selection.after)

\* Every configuration that may yet be written is usable, and what is written was planned.
Plans ==
    /\ DOMAIN w = HeldFields /\ Sane(s)
    /\ Usable(config) /\ Usable(w.view.config)
    /\ w.model # None => w.model.rows \subseteq Artifacts
    /\ at \in {"change", "write"} => Usable(w.change.after)
    /\ at = "save" => s.selection # None

\* A review belongs to the session as it is now: what an item records is what it does.
Items ==
    /\ \E S : w.review \in Seq(S)
    /\ w.review # <<>> => s.current = "review"
    /\ \A i \in 1 .. Len(w.review) :
         w.review[i].post = Effect(w.review[i].pre, w.review[i].target)

IInv == Plans /\ Items /\ NoGhostRecord
-----------------------------------------------------------------------------
\* What the operations on a session leave alone.
LEMMA SelectSane ==
    ASSUME NEW t, NEW stage, NEW changed, Sane(changed)
    PROVE  Sane(Select(t, stage, changed))
<1> DEFINE stages == Stages(changed)
           u == [changed EXCEPT !.current = IF @ \in ToSet(stages) THEN @ ELSE stage,
                                !.confirmed = Unconfirm(@, stages, stage)]
<1>1. Select(t, stage, changed) \in {changed, u}
  BY DEF Select
<1>2. /\ DOMAIN u = SessionFields
      /\ u.selection = changed.selection /\ u.profiles = changed.profiles
  BY DEF Sane, SessionFields
<1> QED
  BY <1>1, <1>2 DEF Sane

LEMMA AdvanceSane ==
    ASSUME NEW t, Sane(t)
    PROVE  Sane(Advance(t))
<1>1. PICK a, b : Advance(t) \in {t, [t EXCEPT !.confirmed = a, !.current = b]}
  BY DEF Advance
<1> QED
  BY <1>1 DEF Sane, SessionFields

LEMMA BackSane ==
    ASSUME NEW t, Sane(t)
    PROVE  Sane(Back(t))
<1>1. PICK a, b : Back(t) \in {t, [t EXCEPT !.current = a],
                               [t EXCEPT !.current = a, !.confirmed = b]}
  BY DEF Back
<1> QED
  BY <1>1 DEF Sane, SessionFields

LEMMA ReconcileSane ==
    ASSUME NEW t, Sane(t), NEW S
    PROVE  Sane(Reconcile(t, S)) /\ Reconcile(t, S).current = t.current
<1>1. PICK a, b : Reconcile(t, S) \in {t, [t EXCEPT !.basket = a, !.confirmed = b]}
  BY DEF Reconcile
<1> QED
  BY <1>1 DEF Sane, SessionFields

LEMMA CheckoutSane ==
    ASSUME NEW t, Sane(t)
    PROVE  Sane(UseCurrentCheckout(t))
<1>1. PICK a, b : UseCurrentCheckout(t) \in
        {t, [t EXCEPT !.checkout = TRUE, !.selection = None, !.current = a, !.confirmed = b]}
  <2> DEFINE u == [t EXCEPT !.checkout = TRUE, !.selection = None]
             a == IF u.current \in ToSet(Stages(u)) THEN u.current ELSE "maintainer_action"
             b == Unconfirm(u.confirmed, Stages(u), "maintainer_action")
  <2>1. UseCurrentCheckout(t) \in {t, [u EXCEPT !.current = a, !.confirmed = b]}
    BY DEF UseCurrentCheckout, Sane, SessionFields
  <2> HIDE DEF a, b
  <2> QED
    BY <2>1
<1>2. PICK u : u = [t EXCEPT !.checkout = TRUE, !.selection = None, !.current = a,
                             !.confirmed = b]
  OBVIOUS
<1>3. DOMAIN u = SessionFields /\ u.profiles = t.profiles /\ u.selection = None
  BY <1>2 DEF Sane, SessionFields
<1> QED
  BY <1>1, <1>2, <1>3 DEF Sane

LEMMA InitialSane == Sane(initial_session) /\ initial_session.current = "onboarding"
BY DEF Sane, SessionFields, initial_session

-----------------------------------------------------------------------------
\* The configurations the Sources screen plans are usable.
LEMMA AdditionUsable ==
    ASSUME NEW v, Usable(v.config), NEW x \in Sources, CanAdd(v, x)
    PROVE  Usable(Addition(v, x).after)
BY WizardAssumption DEF Usable, Addition, CanAdd, MakesDefault, Configurations, Enabled, Configured

LEMMA RemovalUsable ==
    ASSUME NEW v, Usable(v.config), NEW x \in Sources
    PROVE  Usable(Removal(v, x).after)
BY WizardAssumption DEF Usable, Removal, Configurations, Enabled

LEMMA SelectionUsable ==
    ASSUME NEW v, Usable(v.config), NEW chosen \in SUBSET Sources
    PROVE  Usable(Selection(v, chosen).after)
<1> DEFINE state == [x \in Sources |-> CASE x \in chosen -> "on"
                                         [] x \in Configured(v.config) \ chosen -> "off"
                                         [] OTHER -> "absent"]
           default == DefaultRegistry(v, chosen)
           after == [state |-> state, default |-> default]
<1>1. state \in [Sources -> {"absent", "off", "on"}]
  OBVIOUS
<1>2. \A x \in chosen : state[x] = "on"
  OBVIOUS
<1>3. default = None \/ default \in chosen \cap Registries
  BY DEF DefaultRegistry, Usable, Configurations
<1>4. Selection(v, chosen).after = after
  BY DEF Selection
<1> HIDE DEF state, default
<1>5. Usable(after)
  BY <1>1, <1>2, <1>3, WizardAssumption DEF Usable, Configurations, Enabled
<1> QED
  BY <1>4, <1>5

-----------------------------------------------------------------------------
\* A step that installs nothing keeps the invariant when the session stays sane, the
\* configuration usable, and a review is dropped or left to the session it was made for.
LEMMA StageStep ==
    ASSUME IInv, Sane(s'), at' \notin {"change", "write", "save"}, DOMAIN w' = HeldFields,
           w'.view = w.view \/ Usable(w'.view.config),
           w'.model \in {None, w.model} \/ w'.model.rows \subseteq Artifacts,
           \/ w'.review = <<>>
           \/ /\ w'.review = w.review
              /\ \/ s.current # "review"
                 \/ s'.current = s.current /\ s'.action = s.action,
           config' = config \/ Usable(config'), UNCHANGED <<manifest, placed>>
    PROVE  IInv'
<1> USE DEF IInv
<1>1. Plans'
  BY DEF Plans
<1>2. CASE w'.review = <<>>
  <2>1. Items'
    BY <1>2 DEF Items
  <2> QED
    BY <1>1, <2>1 DEF NoGhostRecord
<1>3. CASE w'.review # <<>>
  <2>1. w'.review = w.review /\ s'.current = s.current /\ s'.action = s.action
    BY <1>3 DEF Items
  <2>2. \A a, b : Effect(a, b)' = Effect(a, b)
    BY <2>1 DEF Effect
  <2>3. Items'
    BY <2>1, <2>2 DEF Items, Effect
  <2> QED
    BY <1>1, <2>3 DEF NoGhostRecord
<1> QED
  BY <1>2, <1>3

LEMMA EndStep ==
    ASSUME IInv, NEW code, End(code), UNCHANGED <<config, manifest, placed>>
    PROVE  IInv'
<1>1. w' = Idle(w.front, code) /\ s' = initial_session /\ at' = "ended"
  BY DEF End
<1>2. /\ DOMAIN w' = HeldFields /\ w'.model = None /\ w'.review = <<>>
      /\ w'.view.config = config
  BY <1>1 DEF Idle, HeldFields
<1> QED
  BY <1>1, <1>2, InitialSane, StageStep DEF IInv, Plans

LEMMA InitIInv == Init => IInv
<1> SUFFICES ASSUME Init PROVE IInv
  OBVIOUS
<1>1. PICK front : w = Idle(front, None)
  BY DEF Init
<1>2. /\ DOMAIN w = HeldFields /\ w.model = None /\ w.review = <<>>
      /\ w.view.config = config
  BY <1>1 DEF Idle, HeldFields
<1>3. Usable(config)
  BY DEF Init, Usable
<1> QED
  BY <1>2, <1>3, InitialSane DEF Init, IInv, Plans, Items, NoGhostRecord

\* Going to a stage, and what the loops forget on the way back.
LEMMA GotoStep ==
    ASSUME IInv, NEW t, Sane(t), Goto(t), UNCHANGED <<config, manifest, placed>>,
           \/ UNCHANGED w /\ s.current # "review"
           \/ w' = [w EXCEPT !.model = None] /\ s.current # "review"
           \/ \E u : Return(u)
    PROVE  IInv'
<1>1. s' = t /\ at' \in {"read", "ask"}
  BY DEF Goto
<1>2. CASE UNCHANGED w /\ s.current # "review"
  BY <1>1, <1>2, StageStep DEF IInv, Plans
<1>3. CASE w' = [w EXCEPT !.model = None] /\ s.current # "review"
  <2>1. DOMAIN w' = HeldFields /\ w'.view = w.view /\ w'.model = None /\ w'.review = w.review
    BY <1>3 DEF IInv, Plans, HeldFields
  <2> QED
    BY <1>1, <1>3, <2>1, StageStep
<1>4. ASSUME NEW u, Return(u) PROVE IInv'
  <2>1. PICK m, v : w' = [w EXCEPT !.review = <<>>, !.fault = None, !.model = m, !.service = v]
                    /\ m \in {None, w.model}
    BY <1>4 DEF Return
  <2>2. DOMAIN w' = HeldFields /\ w'.view = w.view /\ w'.model = m /\ w'.review = <<>>
    BY <2>1 DEF IInv, Plans, HeldFields
  <2> QED
    BY <1>1, <2>1, <2>2, StageStep
<1> QED
  BY <1>2, <1>3, <1>4

-----------------------------------------------------------------------------
\* The operator's moves between the stages.
LEMMA NavigationStep ==
    ASSUME IInv, \/ Onboard \/ GoBack \/ Quit \/ ContinueWithout
                 \/ \E r \in {"user", "maintainer"} : ChooseRole(r)
    PROVE  IInv'
<1>1. Sane(s)
  BY DEF IInv, Plans
<1>2. CASE Onboard
  BY <1>1, <1>2, AdvanceSane, GotoStep DEF Onboard, disk
<1>3. CASE GoBack
  <2> DEFINE t == IF w.front = "curses" /\ s.current = "role" THEN s ELSE Back(s)
  <2>1. (\E code : End(code)) \/ (Goto(t) /\ Return(Back(s)))
    BY <1>3 DEF GoBack
  <2>2. Sane(t)
    BY <1>1, BackSane
  <2>3. UNCHANGED <<config, manifest, placed>>
    BY <1>3 DEF GoBack, disk
  <2> QED
    BY <2>1, <2>2, <2>3, EndStep, GotoStep
<1>4. CASE Quit \/ ContinueWithout
  BY <1>4, EndStep DEF Quit, ContinueWithout, disk
<1>5. ASSUME NEW r \in {"user", "maintainer"}, ChooseRole(r) PROVE IInv'
  <2> DEFINE t == SelectRole(s, r)
             u == IF r = "maintainer" THEN UseCurrentCheckout(t) ELSE t
  <2>1. PICK c : c = [s EXCEPT !.role = r, !.checkout = FALSE]
    OBVIOUS
  <2>2. Sane(c)
    BY <1>1, <2>1 DEF Sane, SessionFields
  <2>3. Sane(t)
    BY <2>1, <2>2, SelectSane DEF SelectRole
  <2>4. Sane(Advance(u))
    BY <2>3, CheckoutSane, AdvanceSane
  <2>5. /\ Goto(Advance(u)) /\ UNCHANGED <<w, config, manifest, placed>>
        /\ s.current # "review"
    BY <1>5 DEF ChooseRole, disk
  <2> QED
    BY <2>4, <2>5, GotoStep
<1> QED
  BY <1>2, <1>3, <1>4, <1>5

\* A choice of one stage, and the stage after it.
LEMMA ChoiceSane ==
    ASSUME NEW t, Sane(t), NEW stage, NEW changed,
           \E v : \/ changed = [t EXCEPT !.action = v] \/ changed = [t EXCEPT !.scope = v]
                  \/ changed = [t EXCEPT !.mode = v] \/ changed = [t EXCEPT !.basket = v]
                  \/ changed = [t EXCEPT !.curation = v]
                  \/ changed = [t EXCEPT !.profiles = v] /\ v \subseteq Profiles
                  \/ changed = [t EXCEPT !.selection = v] /\ Usable(v.after)
    PROVE  Sane(Select(t, stage, changed)) /\ Sane(Advance(Select(t, stage, changed)))
<1>1. Sane(changed)
  BY DEF Sane, SessionFields
<1> QED
  BY <1>1, SelectSane, AdvanceSane

LEMMA ChoiceStep ==
    ASSUME IInv, \/ \E chosen \in (SUBSET Profiles) \ {{}} : ChooseProfiles(chosen)
                 \/ \E a \in ConsumerActions : ChooseAction(a)
                 \/ \E c \in Scopes : ChooseScope(c)
                 \/ \E m \in Modes : ChooseMode(m)
                 \/ \E chosen \in SUBSET (Artifacts \cup Collections) : ChooseArtifacts(chosen)
    PROVE  IInv'
<1>1. Sane(s)
  BY DEF IInv, Plans
<1>2. ASSUME NEW chosen \in SUBSET Profiles, ChooseProfiles(chosen) PROVE IInv'
  <2>1. PICK c : c = [s EXCEPT !.profiles = chosen]
    OBVIOUS
  <2>2. Sane(Advance(Select(s, "profiles", c)))
    BY <1>1, <2>1, ChoiceSane
  <2> QED
    BY <1>2, <2>1, <2>2, GotoStep DEF ChooseProfiles, disk
<1>3. ASSUME NEW a \in ConsumerActions, ChooseAction(a) PROVE IInv'
  <2>1. PICK c : c = [s EXCEPT !.action = a]
    OBVIOUS
  <2> DEFINE t == Select(s, "action", c)
             u == IF a = "status" THEN Reconcile(t, {}) ELSE t
  <2>2. Sane(t)
    BY <1>1, <2>1, ChoiceSane
  <2>3. Sane(Advance(u))
    BY <2>2, ReconcileSane, AdvanceSane
  <2>4. /\ Goto(Advance(u)) /\ w' = [w EXCEPT !.model = None]
        /\ s.current # "review" /\ UNCHANGED <<config, manifest, placed>>
    BY <1>3, <2>1 DEF ChooseAction, Forget, disk
  <2> QED
    BY <2>3, <2>4, GotoStep
<1>4. ASSUME NEW a \in Scopes, ChooseScope(a) PROVE IInv'
  <2>1. PICK c : c = [s EXCEPT !.scope = a]
    OBVIOUS
  <2>2. Sane(Advance(Select(s, "scope", c)))
    BY <1>1, <2>1, ChoiceSane
  <2> QED
    BY <1>4, <2>1, <2>2, GotoStep DEF ChooseScope, Forget, disk
<1>5. ASSUME NEW m \in Modes, ChooseMode(m) PROVE IInv'
  <2>1. PICK c : c = [s EXCEPT !.mode = m]
    OBVIOUS
  <2>2. Sane(Advance(Select(s, "mode", c)))
    BY <1>1, <2>1, ChoiceSane
  <2> QED
    BY <1>5, <2>1, <2>2, GotoStep DEF ChooseMode, Forget, disk
<1>6. ASSUME NEW chosen, ChooseArtifacts(chosen) PROVE IInv'
  <2>1. PICK c : c = [s EXCEPT !.basket = chosen]
    OBVIOUS
  <2>2. Sane(Advance(Select(s, "artifacts", c)))
    BY <1>1, <2>1, ChoiceSane
  <2> QED
    BY <1>6, <2>1, <2>2, GotoStep DEF ChooseArtifacts, disk
<1> QED
  BY <1>2, <1>3, <1>4, <1>5, <1>6

\* The Sources screen plans usable configurations, and Acquire and WriteSources write the
\* planned one.
LEMMA SourcesStep ==
    ASSUME IInv, \/ \E chosen \in SUBSET Sources : ChooseSources(chosen)
                 \/ \E x \in Sources : \/ AddSource(x) \/ RemoveSource(x)
                                       \/ SyncSource(x) \/ Resubscribe(x)
    PROVE  IInv'
<1>1. Sane(s) /\ Usable(w.view.config) /\ DOMAIN w = HeldFields
  BY DEF IInv, Plans
<1>2. ASSUME NEW chosen \in SUBSET Sources, ChooseSources(chosen) PROVE IInv'
  <2>1. PICK v : v = Selection(w.view, chosen)
    OBVIOUS
  <2>2. PICK c : c = [s EXCEPT !.selection = v]
    OBVIOUS
  <2>3. Usable(v.after)
    BY <1>1, <2>1, SelectionUsable
  <2>4. Sane(Advance(Select(s, "source", c)))
    BY <1>1, <2>2, <2>3, ChoiceSane
  <2>5. /\ s' = Advance(Select(s, "source", c)) /\ at' = "load" /\ s.current = "source"
        /\ UNCHANGED <<w, config, manifest, placed>>
    BY <1>2, <2>1, <2>2 DEF ChooseSources, AtSources, disk
  <2> QED
    BY <1>1, <2>4, <2>5, StageStep
<1>3. ASSUME NEW request, Usable(request.after), Maintain(request) PROVE IInv'
  <2>1. /\ w' = [w EXCEPT !.change = request] /\ at' = "change" /\ s.current = "source"
        /\ UNCHANGED <<s, config, manifest, placed>>
    BY <1>3 DEF Maintain, AtSources, disk
  <2>2. /\ DOMAIN w' = HeldFields /\ w'.view = w.view /\ w'.model = w.model
        /\ w'.review = w.review /\ w'.change = request
    BY <1>1, <2>1 DEF HeldFields
  <2>3. Plans'
    BY <1>3, <2>1, <2>2 DEF IInv, Plans
  <2>4. Items'
    BY <2>1, <2>2 DEF IInv, Items, Effect
  <2> QED
    BY <2>1, <2>3, <2>4 DEF IInv, NoGhostRecord
<1>4. ASSUME NEW x \in Sources, AddSource(x) PROVE IInv'
  BY <1>1, <1>3, <1>4, AdditionUsable DEF AddSource
<1>5. ASSUME NEW x \in Sources, RemoveSource(x) PROVE IInv'
  BY <1>1, <1>3, <1>5, RemovalUsable DEF RemoveSource
<1>6. ASSUME NEW x \in Sources, SyncSource(x) \/ Resubscribe(x) PROVE IInv'
  <2>1. Usable(Refreshing(w.view, x).after) /\ Maintain(Refreshing(w.view, x))
    BY <1>1, <1>6 DEF SyncSource, Resubscribe, Refreshing
  <2> QED
    BY <1>3, <2>1
<1> QED
  BY <1>2, <1>4, <1>5, <1>6

LEMMA WritingStep ==
    ASSUME IInv, Acquire \/ WriteSources \/ SaveSelection
    PROVE  IInv'
<1>1. Sane(s) /\ Usable(config) /\ DOMAIN w = HeldFields
  BY DEF IInv, Plans
<1>2. UNCHANGED <<manifest, placed>>
  BY DEF Acquire, WriteSources, SaveSelection
<1>3. ASSUME Usable(config'), Refuse PROVE IInv'
  <2>1. w' = [w EXCEPT !.change = None] /\ UNCHANGED s /\ at' = "ask"
    BY <1>3 DEF Refuse
  <2>2. /\ DOMAIN w' = HeldFields /\ w'.view = w.view /\ w'.model = w.model
        /\ w'.review = w.review
    BY <1>1, <2>1 DEF HeldFields
  <2> QED
    BY <1>1, <1>2, <1>3, <2>1, <2>2, StageStep
<1>4. ASSUME Usable(config'), Reload PROVE IInv'
  <2>1. CASE Refuse
    BY <1>3, <1>4, <2>1
  <2>2. CASE ~Refuse
    <3>1. /\ w' = [w EXCEPT !.change = None, !.view = [config |-> config', snap |-> snap']]
          /\ s' = [s EXCEPT !.selection = None] /\ at' = "ask"
      BY <1>4, <2>2 DEF Reload
    <3>2. /\ DOMAIN w' = HeldFields /\ w'.view.config = config' /\ w'.model = w.model
          /\ w'.review = w.review
      BY <1>1, <3>1 DEF HeldFields
    <3>3. Sane(s') /\ s'.current = s.current /\ s'.action = s.action
      BY <1>1, <3>1 DEF Sane, SessionFields
    <3> QED
      BY <1>2, <1>4, <3>1, <3>2, <3>3, StageStep
  <2> QED
    BY <2>1, <2>2
<1>5. CASE Acquire
  <2>1. at = "change" /\ UNCHANGED config
    BY <1>5 DEF Acquire
  <2>2. CASE at' = "write" /\ UNCHANGED <<s, w>>
    <3>1. Plans'
      BY <2>1, <2>2 DEF IInv, Plans
    <3>2. Items'
      BY <2>2 DEF IInv, Items, Effect
    <3> QED
      BY <1>2, <3>1, <3>2 DEF IInv, NoGhostRecord
  <2>3. CASE Reload \/ Refuse
    BY <1>1, <1>3, <1>4, <2>1, <2>3
  <2> QED
    BY <1>5, <2>2, <2>3 DEF Acquire
<1>6. CASE WriteSources
  <2>1. at = "write"
    BY <1>6 DEF WriteSources
  <2>2. Usable(w.change.after)
    BY <2>1 DEF IInv, Plans
  <2> QED
    BY <1>1, <1>3, <1>4, <1>6, <2>2 DEF WriteSources
<1>7. CASE SaveSelection
  <2>1. at = "save" /\ Usable(s.selection.after)
    BY <1>7 DEF SaveSelection, IInv, Plans, Sane
  <2>2. CASE config' = s.selection.after /\ at' = "apply" /\ UNCHANGED <<s, w>>
    BY <1>1, <1>2, <2>1, <2>2, StageStep
  <2>3. CASE Fail("save") /\ UNCHANGED config
    <3>1. CASE End(2)
      BY <1>2, <2>3, <3>1, EndStep
    <3>2. CASE Show("save") /\ UNCHANGED s
      <4>1. w' = [w EXCEPT !.fault = "save"] /\ at' = "failed"
        BY <3>2 DEF Show
      <4>2. /\ DOMAIN w' = HeldFields /\ w'.view = w.view /\ w'.model = w.model
            /\ w'.review = w.review
        BY <1>1, <4>1 DEF HeldFields
      <4> QED
        BY <1>1, <1>2, <2>3, <3>2, <4>1, <4>2, StageStep
    <3> QED
      BY <2>3, <3>1, <3>2 DEF Fail
  <2> QED
    BY <1>7, <2>2, <2>3 DEF SaveSelection
<1> QED
  BY <1>5, <1>6, <1>7

\* A failure is shown, and nothing else changes.
LEMMA ShowStep ==
    ASSUME IInv, NEW kind, Show(kind), UNCHANGED <<s, config, manifest, placed>>
    PROVE  IInv'
<1>1. Sane(s) /\ DOMAIN w = HeldFields
  BY DEF IInv, Plans
<1>2. w' = [w EXCEPT !.fault = kind] /\ at' = "failed"
  BY DEF Show
<1>3. DOMAIN w' = HeldFields /\ w'.view = w.view /\ w'.model = w.model /\ w'.review = w.review
  BY <1>1, <1>2 DEF HeldFields
<1> QED
  BY <1>1, <1>2, <1>3, StageStep

LEMMA ReadingStep ==
    ASSUME IInv, LoadService \/ Browse \/ PrepareCuration
    PROVE  IInv'
<1>1. Sane(s) /\ DOMAIN w = HeldFields
  BY DEF IInv, Plans
<1>2. UNCHANGED <<config, manifest, placed>>
  BY DEF LoadService, Browse, PrepareCuration, disk
<1>3. CASE LoadService
  <2>1. ASSUME NEW v, at' = "ask", w' = [w EXCEPT !.service = v], UNCHANGED s
        PROVE  IInv'
    <3>1. /\ DOMAIN w' = HeldFields /\ w'.view = w.view /\ w'.model = w.model
          /\ w'.review = w.review
      BY <1>1, <2>1 DEF HeldFields
    <3> QED
      BY <1>1, <1>2, <2>1, <3>1, StageStep
  <2> QED
    BY <1>2, <1>3, <2>1, ShowStep DEF LoadService
<1>4. CASE Browse
  <2>1. ASSUME NEW m, (m = w.model /\ m # None) \/ m.rows \subseteq Artifacts,
               w' = [w EXCEPT !.model = m], s' = Reconcile(s, m.enabled), at' = "ask",
               s.current = "artifacts"
        PROVE  IInv'
    <3>1. /\ DOMAIN w' = HeldFields /\ w'.view = w.view /\ w'.model = m
          /\ w'.review = w.review
      BY <1>1, <2>1 DEF HeldFields
    <3>2. Sane(s')
      BY <1>1, <2>1, ReconcileSane
    <3> QED
      BY <1>2, <2>1, <3>1, <3>2, StageStep
  <2>2. ReadModel(w.service, s).rows \subseteq Artifacts
    BY DEF ReadModel, Rows, Listed
  <2> QED
    BY <1>2, <1>4, <2>1, <2>2, EndStep, ShowStep DEF Browse
<1>5. CASE PrepareCuration
  <2>1. ASSUME NEW v, at' = "ask", w' = [w EXCEPT !.prepared = v], UNCHANGED s
        PROVE  IInv'
    <3>1. /\ DOMAIN w' = HeldFields /\ w'.view = w.view /\ w'.model = w.model
          /\ w'.review = w.review
      BY <1>1, <2>1 DEF HeldFields
    <3> QED
      BY <1>1, <1>2, <2>1, <3>1, StageStep
  <2> QED
    BY <1>2, <1>5, <2>1, ShowStep DEF PrepareCuration
<1> QED
  BY <1>3, <1>4, <1>5

-----------------------------------------------------------------------------
\* The targets of a review can be listed: they are finitely many.
LEMMA TargetsListed ==
    ASSUME IInv
    PROVE  Targets \subseteq Pairs /\ SetToSeq(Targets) \in Seq(Targets)
<1>1. Coordinates \subseteq Artifacts
  BY SessionAssumption DEF Coordinates, IInv, Plans
<1>2. Targets \subseteq Pairs
  BY <1>1 DEF Targets, Pairs, IInv, Plans, Sane
<1>3. IsFiniteSet(Targets)
  BY <1>2, SessionAssumption, FS_Product, FS_Subset DEF Pairs
<1>4. Cardinality(Targets) \in Nat /\ ExistsBijection(1 .. Cardinality(Targets), Targets)
  BY <1>3, FS_CardinalityType
<1>5. \E f \in [1 .. Cardinality(Targets) -> Targets] : IsInjective(f)
  BY <1>4 DEF ExistsBijection, Bijection, Injection
<1>6. SetToSeq(Targets) \in [1 .. Cardinality(Targets) -> Targets]
  BY <1>5 DEF SetToSeq
<1> QED
  BY <1>2, <1>4, <1>6

\* Every item records what it does to the records it is planned on.
LEMMA PrepareReviewStep ==
    ASSUME IInv, PrepareReview
    PROVE  IInv'
<1>1. /\ DOMAIN w = HeldFields /\ s.current = "review"
      /\ UNCHANGED <<s, config, manifest, placed>>
  BY DEF IInv, Plans, PrepareReview, disk
<1>2. ASSUME at' = "ask", w' = [w EXCEPT !.review = Overlay(SetToSeq(Targets))]
      PROVE  IInv'
  <2>1. PICK targets \in Seq(Targets) : targets = SetToSeq(Targets)
    BY TargetsListed
  <2>2. PICK q : q = Overlay(targets)
    OBVIOUS
  <2>3. PICK after : q = [i \in 1 .. Len(targets) |->
                            [target |-> targets[i], pre |-> after[i],
                             post |-> Effect(after[i], targets[i])]]
    <3> DEFINE fold(i) == FoldLeft(Effect, manifest[s.scope], SubSeq(targets, 1, i))
               after == [i \in 1 .. Len(targets) |-> fold(i - 1)]
    <3>1. q = [i \in 1 .. Len(targets) |->
                 [target |-> targets[i], pre |-> fold(i - 1),
                  post |-> Effect(fold(i - 1), targets[i])]]
      BY <2>2 DEF Overlay
    <3> HIDE DEF fold
    <3>2. q = [i \in 1 .. Len(targets) |->
                 [target |-> targets[i], pre |-> after[i],
                  post |-> Effect(after[i], targets[i])]]
      BY <3>1
    <3> QED
      BY <3>2
  <2>4. Len(targets) \in Nat
    BY <2>1
  <2>5. /\ q \in Seq({q[i] : i \in 1 .. Len(targets)}) /\ Len(q) = Len(targets)
        /\ \A i \in 1 .. Len(q) : q[i].post = Effect(q[i].pre, q[i].target)
    BY <2>3, <2>4
  <2>6. /\ DOMAIN w' = HeldFields /\ w'.view = w.view /\ w'.model = w.model /\ w'.review = q
    BY <1>1, <1>2, <2>1, <2>2 DEF HeldFields
  <2>7. Plans'
    BY <1>1, <1>2, <2>6 DEF IInv, Plans
  <2>8. Items'
    BY <1>1, <2>5, <2>6 DEF Items, Effect
  <2> QED
    BY <1>1, <2>7, <2>8 DEF IInv, NoGhostRecord
<1> QED
  BY <1>1, <1>2, ShowStep DEF PrepareReview

\* An applied item leaves in the records what it leaves in place.
LEMMA ApplyItemStep ==
    ASSUME IInv, ApplyItem
    PROVE  IInv'
<1> DEFINE item == Head(w.review)
<1>1. /\ at = "apply" /\ w.review # <<>> /\ UNCHANGED <<at, s, config>>
  BY DEF ApplyItem
<1>2. PICK S : w.review \in Seq(S)
  BY DEF IInv, Items
<1>3. item.post = Effect(item.pre, item.target)
  BY <1>1, <1>2 DEF IInv, Items
<1>4. PICK o : w' = [w EXCEPT !.review = Tail(w.review), !.outcome = o]
  BY DEF ApplyItem, IInv, Plans, HeldFields
<1>5. /\ DOMAIN w' = HeldFields /\ w'.view = w.view /\ w'.model = w.model
      /\ w'.review = Tail(w.review)
  BY <1>4 DEF IInv, Plans, HeldFields
<1>6. Plans'
  BY <1>1, <1>5 DEF IInv, Plans
<1>7. /\ Tail(w.review) \in Seq(S) /\ Len(Tail(w.review)) = Len(w.review) - 1
      /\ \A i \in 1 .. Len(Tail(w.review)) : Tail(w.review)[i] = w.review[i + 1]
  BY <1>1, <1>2
<1>8. Items'
  <2>2. \A i \in 1 .. Len(w'.review) : i + 1 \in 1 .. Len(w.review)
    BY <1>2, <1>5, <1>7
  <2>3. s.current = "review"
    BY <1>1 DEF IInv, Items
  <2>4. \A i \in 1 .. Len(w'.review) :
          w'.review[i].post = Effect(w'.review[i].pre, w'.review[i].target)
    BY <1>5, <1>7, <2>2 DEF IInv, Items
  <2>5. \E T : w'.review \in Seq(T)
    BY <1>5, <1>7
  <2> QED
    BY <1>1, <2>3, <2>4, <2>5 DEF Items, Effect
<1>9. manifest' = placed'
  BY <1>3 DEF ApplyItem, Current, IInv, NoGhostRecord
<1> QED
  BY <1>6, <1>8, <1>9 DEF IInv, NoGhostRecord

LEMMA FinishingStep ==
    ASSUME IInv, \/ DeclineReview \/ Finalize \/ Complete \/ GiveDetails \/ FinalizeCuration
                 \/ \E a \in Curations \cup {"user"} : ChooseCuration(a)
    PROVE  IInv'
<1>1. Sane(s) /\ DOMAIN w = HeldFields /\ UNCHANGED <<config, manifest, placed>>
  BY DEF IInv, Plans, DeclineReview, Finalize, Complete, GiveDetails, FinalizeCuration,
         ChooseCuration, disk
<1>2. CASE DeclineReview
  <2>1. CASE at' = "read" /\ UNCHANGED <<s, w>>
    BY <1>1, <2>1, StageStep
  <2> QED
    BY <1>1, <1>2, <2>1, EndStep DEF DeclineReview
<1>3. CASE Finalize
  <2>1. UNCHANGED <<s, w>> /\ (at' = "apply" \/ (at' = "save" /\ s.selection # None))
    BY <1>3 DEF Finalize
  <2>2. Plans'
    BY <1>1, <2>1 DEF IInv, Plans
  <2>3. Items'
    BY <2>1 DEF IInv, Items, Effect
  <2> QED
    BY <1>1, <2>2, <2>3 DEF IInv, NoGhostRecord
<1>4. CASE Complete
  BY <1>1, <1>4, EndStep DEF Complete
<1>5. CASE GiveDetails
  <2>1. PICK kept : w' = [w EXCEPT !.prepared = kept]
    BY <1>5 DEF GiveDetails
  <2>2. /\ DOMAIN w' = HeldFields /\ w'.view = w.view /\ w'.model = w.model
        /\ w'.review = w.review
    BY <1>1, <2>1 DEF HeldFields
  <2>3. s' = Advance(s) /\ at' \in {"read", "ask"} /\ s.current # "review"
    BY <1>5 DEF GiveDetails, Goto
  <2> QED
    BY <1>1, <2>2, <2>3, AdvanceSane, StageStep
<1>6. CASE FinalizeCuration
  BY <1>1, <1>6, EndStep, ShowStep DEF FinalizeCuration
<1>7. ASSUME NEW a, ChooseCuration(a) PROVE IInv'
  <2>1. PICK t : t \in {s, [s EXCEPT !.basket = {}]} /\
                 (LET u == Advance(Select(t, "maintainer_action", [t EXCEPT !.curation = a]))
                  IN  s' = u /\ at' \in {"load", "read", "ask"})
    BY <1>7 DEF ChooseCuration, Goto
  <2>2. Sane(t)
    BY <1>1, <2>1 DEF Sane, SessionFields
  <2>3. PICK c : c = [t EXCEPT !.curation = a]
    OBVIOUS
  <2>4. Sane(Advance(Select(t, "maintainer_action", c)))
    BY <2>2, <2>3, ChoiceSane
  <2>5. Sane(s')
    BY <2>1, <2>3, <2>4
  <2>6. PICK front : w' = [w EXCEPT !.front = front, !.prepared = None]
    BY <1>7 DEF ChooseCuration
  <2>7. /\ DOMAIN w' = HeldFields /\ w'.view = w.view /\ w'.model = w.model
        /\ w'.review = w.review
    BY <1>1, <2>6 DEF HeldFields
  <2>8. s.current # "review"
    BY <1>7 DEF ChooseCuration
  <2> QED
    BY <1>1, <2>1, <2>5, <2>7, <2>8, StageStep
<1> QED
  BY <1>2, <1>3, <1>4, <1>5, <1>6, <1>7

LEMMA RecoverStep ==
    ASSUME IInv, RecoverBack \/ RecoverRetry \/ RecoverKeep
    PROVE  IInv'
<1>1. Sane(s) /\ DOMAIN w = HeldFields /\ UNCHANGED <<config, manifest, placed>>
  BY DEF IInv, Plans, RecoverBack, RecoverRetry, RecoverKeep, disk
<1>2. CASE RecoverBack
  <2>1. (\E code : End(code)) \/ (Goto(Back(s)) /\ Return(Back(s)))
    BY <1>2 DEF RecoverBack
  <2> QED
    BY <1>1, <2>1, BackSane, EndStep, GotoStep
<1>3. CASE RecoverRetry
  <2>1. w' = [w EXCEPT !.fault = None, !.model = None] /\ at' = "read" /\ UNCHANGED s
    BY <1>3 DEF RecoverRetry
  <2>2. DOMAIN w' = HeldFields /\ w'.view = w.view /\ w'.model = None /\ w'.review = w.review
    BY <1>1, <2>1 DEF HeldFields
  <2> QED
    BY <1>1, <2>1, <2>2, StageStep
<1>4. CASE RecoverKeep
  <2>1. CASE at' = "read" /\ w' = [w EXCEPT !.fault = None] /\ UNCHANGED s
    <3>1. /\ DOMAIN w' = HeldFields /\ w'.view = w.view /\ w'.model = w.model
          /\ w'.review = w.review
      BY <1>1, <2>1 DEF HeldFields
    <3> QED
      BY <1>1, <2>1, <3>1, StageStep
  <2>2. CASE at' = "lost" /\ UNCHANGED <<s, w>>
    BY <1>1, <2>2, StageStep
  <2> QED
    BY <1>1, <1>4, <2>1, <2>2, EndStep DEF RecoverKeep
<1> QED
  BY <1>2, <1>3, <1>4

\* What other processes do.
LEMMA OthersStep ==
    ASSUME IInv, Others
    PROVE  IInv'
<1>1. Sane(s) /\ DOMAIN w = HeldFields /\ Usable(config)
  BY DEF IInv, Plans
<1>2. ASSUME Usable(config'), UNCHANGED <<at, s, w>>, manifest' = placed' PROVE IInv'
  <2>1. Plans'
    BY <1>2 DEF IInv, Plans
  <2>2. Items'
    BY <1>2 DEF IInv, Items, Effect
  <2> QED
    BY <1>2, <2>1, <2>2 DEF IInv, NoGhostRecord
<1>3. CASE OtherAdd
  <2>1. PICK x \in Sources, asked \in BOOLEAN :
          /\ x \in Registries \/ ~asked
          /\ config' = [state |-> [config.state EXCEPT ![x] = "on"],
                        default |-> IF asked THEN x ELSE config.default]
          /\ UNCHANGED <<at, s, w, manifest, placed>>
    BY <1>3 DEF OtherAdd
  <2>2. Usable(config')
    BY <1>1, <2>1, WizardAssumption DEF Usable, Configurations, Enabled
  <2> QED
    BY <1>2, <2>1, <2>2 DEF IInv, NoGhostRecord
<1>4. CASE OtherRemove
  <2> DEFINE now == [config |-> config, snap |-> snap]
  <2>1. PICK x \in Sources : config' = Removal(now, x).after
    BY <1>4 DEF OtherRemove
  <2>2. now.config = config
    OBVIOUS
  <2> HIDE DEF now
  <2>3. Usable(config')
    BY <1>1, <2>1, <2>2, RemovalUsable
  <2> QED
    BY <1>2, <1>4, <2>3 DEF OtherRemove, IInv, NoGhostRecord
<1>5. CASE OtherInstall
  <2>1. manifest' = placed' /\ UNCHANGED <<at, s, w, config>>
    BY <1>5 DEF OtherInstall, IInv, NoGhostRecord
  <2> QED
    BY <1>1, <1>2, <2>1
<1>6. CASE OtherEdit
  <2>1. w' = [w EXCEPT !.prepared = "stale"] /\ UNCHANGED <<at, s, config, manifest, placed>>
    BY <1>6 DEF OtherEdit, disk
  <2>2. /\ DOMAIN w' = HeldFields /\ w'.view = w.view /\ w'.model = w.model
        /\ w'.review = w.review /\ w'.change = w.change
    BY <1>1, <2>1 DEF HeldFields
  <2>3. Plans'
    BY <2>1, <2>2 DEF IInv, Plans
  <2>4. Items'
    BY <2>1, <2>2 DEF IInv, Items, Effect
  <2> QED
    BY <2>1, <2>3, <2>4 DEF IInv, NoGhostRecord
<1> QED
  BY <1>3, <1>4, <1>5, <1>6 DEF Others

LEMMA StepIInv == IInv /\ [Next]_vars => IInv'
<1> SUFFICES ASSUME IInv, [Next]_vars PROVE IInv'
  OBVIOUS
<1>1. CASE Operator
  BY <1>1, NavigationStep, ChoiceStep, SourcesStep, FinishingStep, RecoverStep DEF Operator
<1>2. CASE Program
  BY <1>2, WritingStep, ReadingStep, PrepareReviewStep, ApplyItemStep, FinishingStep DEF Program
<1>3. CASE Others
  BY <1>3, OthersStep
<1>4. CASE UNCHANGED vars
  BY <1>4 DEF vars, disk, IInv, Plans, Items, NoGhostRecord, Effect
<1> QED
  BY <1>1, <1>2, <1>3, <1>4 DEF Next

LEMMA SessionInvariant == Spec => []IInv
BY InitIInv, StepIInv, PTL DEF Spec

-----------------------------------------------------------------------------
\* Whatever the wizard and other processes add, remove and choose, the configuration on
\* disk has an enabled registry as its default or none (plan_source_management,
\* _finalize_source_selection).
THEOREM SessionDefaultUsable == Spec => []DefaultUsable
<1>1. IInv => DefaultUsable
  BY DEF IInv, Plans, Usable, DefaultUsable
<1> QED
  BY <1>1, SessionInvariant, PTL

\* A basket applied item by item on projected records never leaves a record of what is not
\* in place, for any basket and whatever other processes install in between
\* (finalize_consumer_action).
THEOREM SessionNoGhosts == Spec => []NoGhostRecord
<1>1. IInv => NoGhostRecord
  BY DEF IInv
<1> QED
  BY <1>1, SessionInvariant, PTL
-----------------------------------------------------------------------------
\* The stages before a consumer service is loaded, and what the wizard does on the way to it.
Early == {"onboarding", "role", "source", "maintainer_action"}
Fetching == {"load", "change", "write"}

\* A session on the way to an installation.
Shopping(t) == ~(t.role = "maintainer" /\ t.curation # "user") /\ t.action = "install"

Key(t) == <<t.action, t.profiles, t.scope, t.mode>>

FitsKey(a, key) == \A p \in key[2] : <<p, key[3], key[4]>> \in Fits[a]

\* The session is at one of its stages.
Typed(t) ==
    /\ t.role \in {None, "user", "maintainer"} /\ t.action \in ConsumerActions \cup {None}
    /\ t.curation \in Curations \cup {"user", None} /\ t.checkout \in BOOLEAN

OnRoute(t) == Sane(t) /\ Typed(t) /\ t.current \in ToSet(Stages(t))

\* What a read model lists is what the loaded service has of the chosen sources, and what
\* it enables fits the choices of its key.
Stocked(m, v, t) ==
    /\ m.rows \subseteq Listed(v, t, Artifacts)
    /\ \A a \in m.enabled \cap m.rows : FitsKey(a, m.key)
    /\ \A c \in m.enabled \cap Collections :
         \A a \in Members[c] : a \in m.rows /\ FitsKey(a, m.key)

\* The read model is the one of the choices made last, and the basket keeps to it.
Matched(t, m, v) == m.key = Key(t) /\ t.basket \subseteq m.enabled /\ Stocked(m, v, t)

\* The read model goes before the sources or the service change; whoever is past the
\* artifacts of an installation has one that matches.
Offer(a, t, h) ==
    /\ OnRoute(t)
    /\ t.current \in Early \/ a \in Fetching => h.model = None
    /\ a \in Fetching => t.current # "artifacts" /\ ~(t.current = "review" /\ Shopping(t))
    /\ a = "failed" /\ h.fault = "browse" => t.current = "artifacts"
    /\ h.model # None => Stocked(h.model, h.service, t)
    /\ a = "ask" /\ t.current = "artifacts" => Matched(t, h.model, h.service)
    /\ t.current = "review" /\ Shopping(t) => Matched(t, h.model, h.service)

OfferInv == Offer(at, s, w) /\ BasketIsOffered

-----------------------------------------------------------------------------
\* Every route visits its stages in this order.
Rank ==
    [onboarding |-> 1, role |-> 2, source |-> 3, maintainer_action |-> 4, native_details |-> 5,
     profiles |-> 6, action |-> 7, scope |-> 8, mode |-> 9, artifacts |-> 10, review |-> 11]
Names == DOMAIN Rank

\* The stages of N, in that order.
Route(q, N) ==
    /\ q \in Seq(Names) /\ ToSet(q) = N
    /\ \A i, j \in 1 .. Len(q) : i < j => Rank[q[i]] < Rank[q[j]]

\* The ranks, one by one.
LEMMA Ranks ==
    /\ Names = {"onboarding", "role", "source", "maintainer_action", "native_details",
                "profiles", "action", "scope", "mode", "artifacts", "review"}
    /\ Rank["onboarding"] = 1 /\ Rank["role"] = 2 /\ Rank["source"] = 3
    /\ Rank["maintainer_action"] = 4 /\ Rank["native_details"] = 5 /\ Rank["profiles"] = 6
    /\ Rank["action"] = 7 /\ Rank["scope"] = 8 /\ Rank["mode"] = 9 /\ Rank["artifacts"] = 10
    /\ Rank["review"] = 11
BY DEF Names, Rank

\* Short routes.
LEMMA RouteNone == Route(<<>>, {})
BY DEF Route, ToSet

LEMMA RouteOne ==
    ASSUME NEW x \in Names
    PROVE  Route(<<x>>, {x})
BY DEF Route, ToSet

LEMMA RouteTwo ==
    ASSUME NEW x \in Names, NEW y \in Names, Rank[x] < Rank[y]
    PROVE  Route(<<x, y>>, {x, y})
<1> DEFINE q == <<x, y>>
<1>1. q \in Seq(Names) /\ Len(q) = 2 /\ DOMAIN q = {1, 2} /\ q[1] = x /\ q[2] = y
  OBVIOUS
<1> HIDE DEF q
<1>2. ToSet(q) = {x, y}
  BY <1>1 DEF ToSet
<1>3. \A i, j \in 1 .. Len(q) : i < j => i = 1 /\ j = 2
  BY <1>1
<1> QED
  BY <1>1, <1>2, <1>3 DEF Route, q

\* A route followed by one of later stages.
LEMMA RouteJoin ==
    ASSUME NEW p, NEW q, NEW M, NEW N, Route(p, M), Route(q, N),
           \A x \in M, y \in N : Rank[x] < Rank[y]
    PROVE  Route(p \o q, M \cup N)
<1>1. p \in Seq(Names) /\ q \in Seq(Names)
  BY DEF Route
<1>2. PICK m \in Nat, n \in Nat : m = Len(p) /\ n = Len(q)
  BY <1>1
<1>3. PICK r : r = p \o q
  OBVIOUS
<1>4. /\ r \in Seq(Names) /\ Len(r) = m + n
      /\ \A i \in 1 .. m + n : r[i] = IF i <= m THEN p[i] ELSE q[i - m]
  BY <1>1, <1>2, <1>3
<1>5. DOMAIN p = 1 .. m /\ DOMAIN q = 1 .. n /\ DOMAIN r = 1 .. m + n
  BY <1>1, <1>2, <1>4
<1>6. M = {p[i] : i \in 1 .. m} /\ N = {q[i] : i \in 1 .. n}
  BY <1>5 DEF Route, ToSet
<1>7. \A i \in 1 .. m : i \in 1 .. m + n /\ r[i] = p[i]
  BY <1>4
<1>8. \A i \in 1 .. n : m + i \in 1 .. m + n /\ r[m + i] = q[i]
  <2> SUFFICES ASSUME NEW i \in 1 .. n PROVE m + i \in 1 .. m + n /\ r[m + i] = q[i]
    OBVIOUS
  <2>1. m + i \in 1 .. m + n /\ ~(m + i <= m) /\ (m + i) - m = i
    OBVIOUS
  <2> QED
    BY <1>4, <2>1
<1>9. \A i \in 1 .. m + n : i \in 1 .. m \/ (\E k \in 1 .. n : i = m + k)
  <2> SUFFICES ASSUME NEW i \in 1 .. m + n, i \notin 1 .. m PROVE \E k \in 1 .. n : i = m + k
    OBVIOUS
  <2>1. i - m \in 1 .. n /\ i = m + (i - m)
    OBVIOUS
  <2> QED
    BY <2>1
<1>10. ToSet(r) = M \cup N
  <2>1. ToSet(r) = {r[i] : i \in 1 .. m + n}
    BY <1>5 DEF ToSet
  <2>2. \A i \in 1 .. m + n : r[i] \in M \cup N
    BY <1>6, <1>7, <1>8, <1>9
  <2>3. \A x \in M \cup N : \E i \in 1 .. m + n : x = r[i]
    BY <1>6, <1>7, <1>8
  <2> QED
    BY <2>1, <2>2, <2>3
<1>11. ASSUME NEW i \in 1 .. m + n, NEW j \in 1 .. m + n, i < j
       PROVE  Rank[r[i]] < Rank[r[j]]
  <2>1. CASE j \in 1 .. m
    BY <1>2, <1>7, <1>11, <2>1 DEF Route
  <2>2. CASE i \in 1 .. m /\ j \notin 1 .. m
    <3>1. r[i] \in M /\ r[j] \in N
      BY <1>6, <1>7, <1>8, <1>9, <2>2
    <3> QED
      BY <3>1
  <2>3. CASE i \notin 1 .. m /\ j \notin 1 .. m
    <3>1. PICK k \in 1 .. n, l \in 1 .. n : i = m + k /\ j = m + l
      BY <1>9, <2>3
    <3>2. k < l /\ r[i] = q[k] /\ r[j] = q[l]
      BY <1>8, <1>11, <3>1
    <3> QED
      BY <1>2, <3>2 DEF Route
  <2>4. i \notin 1 .. m => j \notin 1 .. m
    BY <1>11
  <2> QED
    BY <2>1, <2>2, <2>3, <2>4
<1> QED
  BY <1>3, <1>4, <1>10, <1>11 DEF Route

\* The stages of a session are in order, and some are never without others.
LEMMA UserRoute ==
    ASSUME NEW t
    PROVE  \E N : /\ Route(UserStages(t), N) /\ {"profiles", "action"} \subseteq N
                  /\ N \subseteq {"profiles", "action", "scope", "mode", "artifacts", "review"}
                  /\ t.action = "install" => "artifacts" \in N
<1> DEFINE B == IF t.action = None THEN <<>> ELSE <<"scope">>
           C == IF t.action = "install" THEN <<"mode">> ELSE <<>>
           D == IF t.action \in {"install", "update", "uninstall"} THEN <<"artifacts">> ELSE <<>>
           E == IF t.action = None THEN <<>> ELSE <<"review">>
           b == IF t.action = None THEN {} ELSE {"scope"}
           c == IF t.action = "install" THEN {"mode"} ELSE {}
           d == IF t.action \in {"install", "update", "uninstall"} THEN {"artifacts"} ELSE {}
           e == IF t.action = None THEN {} ELSE {"review"}
<1>1. UserStages(t) = <<"profiles", "action">> \o B \o C \o D \o E
  BY DEF UserStages
<1>2. Route(<<"profiles", "action">>, {"profiles", "action"})
  BY Ranks, RouteTwo
<1>3. Route(B, b) /\ b \subseteq {"scope"}
  BY Ranks, RouteOne, RouteNone
<1>4. Route(C, c) /\ c \subseteq {"mode"}
  BY Ranks, RouteOne, RouteNone
<1>5. Route(D, d) /\ d \subseteq {"artifacts"} /\ (t.action = "install" => "artifacts" \in d)
  BY Ranks, RouteOne, RouteNone
<1>6. Route(E, e) /\ e \subseteq {"review"}
  BY Ranks, RouteOne, RouteNone
<1> HIDE DEF B, C, D, E, b, c, d, e
<1>7. Route(<<"profiles", "action">> \o B, {"profiles", "action"} \cup b)
  <2>1. \A x \in {"profiles", "action"}, y \in b : Rank[x] < Rank[y]
    BY <1>3, Ranks
  <2> QED
    BY <1>2, <1>3, <2>1, RouteJoin
<1>8. Route(<<"profiles", "action">> \o B \o C, {"profiles", "action"} \cup b \cup c)
  <2>1. \A x \in {"profiles", "action"} \cup b, y \in c : Rank[x] < Rank[y]
    BY <1>3, <1>4, Ranks
  <2> QED
    BY <1>4, <1>7, <2>1, RouteJoin
<1>9. Route(<<"profiles", "action">> \o B \o C \o D, {"profiles", "action"} \cup b \cup c \cup d)
  <2>1. \A x \in {"profiles", "action"} \cup b \cup c, y \in d : Rank[x] < Rank[y]
    BY <1>3, <1>4, <1>5, Ranks
  <2> QED
    BY <1>5, <1>8, <2>1, RouteJoin
<1>10. Route(<<"profiles", "action">> \o B \o C \o D \o E,
             {"profiles", "action"} \cup b \cup c \cup d \cup e)
  <2>1. \A x \in {"profiles", "action"} \cup b \cup c \cup d, y \in e : Rank[x] < Rank[y]
    BY <1>3, <1>4, <1>5, <1>6, Ranks
  <2> QED
    BY <1>6, <1>9, <2>1, RouteJoin
<1>11. PICK N : N = {"profiles", "action"} \cup b \cup c \cup d \cup e
  OBVIOUS
<1>12. Route(UserStages(t), N)
  BY <1>1, <1>10, <1>11
<1>13. /\ {"profiles", "action"} \subseteq N
       /\ N \subseteq {"profiles", "action", "scope", "mode", "artifacts", "review"}
       /\ t.action = "install" => "artifacts" \in N
  BY <1>3, <1>4, <1>5, <1>6, <1>11
<1> QED
  BY <1>12, <1>13

LEMMA StagesRoute ==
    ASSUME NEW t, Typed(t)
    PROVE  \E N : /\ Route(Stages(t), N) /\ {"onboarding", "role"} \subseteq N
                  /\ "maintainer_action" \in N <=> t.role = "maintainer"
                  /\ "action" \in N <=>
                       t.role = "user" \/ (t.role = "maintainer" /\ t.curation = "user")
                  /\ "artifacts" \in N => "profiles" \in N
                  /\ "review" \in N /\ Shopping(t) => "artifacts" \in N
<1> DEFINE head == <<"onboarding", "role">>
<1>1. Route(head, {"onboarding", "role"})
  BY Ranks, RouteTwo
<1>2. PICK U : /\ Route(UserStages(t), U) /\ {"profiles", "action"} \subseteq U
               /\ U \subseteq {"profiles", "action", "scope", "mode", "artifacts", "review"}
               /\ t.action = "install" => "artifacts" \in U
  BY UserRoute
<1> HIDE DEF head
<1>3. CASE t.role = None
  <2>1. Stages(t) = head \o <<>>
    BY <1>3, WizardAssumption DEF Stages, head
  <2>2. Route(head \o <<>>, {"onboarding", "role"} \cup {})
    BY <1>1, RouteNone, RouteJoin
  <2> QED
    BY <1>3, <2>1, <2>2, WizardAssumption
<1>4. CASE t.role = "user"
  <2>1. Stages(t) = head \o (<<"source">> \o UserStages(t))
    BY <1>4, WizardAssumption DEF Stages, head
  <2>2. Route(<<"source">>, {"source"})
    BY Ranks, RouteOne
  <2>3. \A x \in {"source"}, y \in U : Rank[x] < Rank[y]
    BY <1>2, Ranks
  <2>4. Route(<<"source">> \o UserStages(t), {"source"} \cup U)
    BY <1>2, <2>2, <2>3, RouteJoin
  <2>5. \A x \in {"onboarding", "role"}, y \in {"source"} \cup U : Rank[x] < Rank[y]
    BY <1>2, Ranks
  <2>6. PICK S, M : S = <<"source">> \o UserStages(t) /\ M = {"source"} \cup U
    OBVIOUS
  <2>7. PICK N : N = {"onboarding", "role"} \cup M
    OBVIOUS
  <2>8. Route(Stages(t), N)
    <3>1. Stages(t) = head \o S /\ Route(S, M)
      BY <2>1, <2>4, <2>6
    <3>2. \A x \in {"onboarding", "role"}, y \in M : Rank[x] < Rank[y]
      BY <2>5, <2>6
    <3>3. Route(head \o S, {"onboarding", "role"} \cup M)
      BY <1>1, <3>1, <3>2, RouteJoin
    <3> QED
      BY <2>7, <3>1, <3>3
  <2>9. /\ {"onboarding", "role"} \subseteq N /\ "maintainer_action" \notin N
        /\ "action" \in N /\ "profiles" \in N
        /\ Shopping(t) => "artifacts" \in N
    BY <1>2, <2>6, <2>7 DEF Shopping
  <2> QED
    BY <1>4, <2>8, <2>9
<1>5. CASE t.role = "maintainer"
  <2> DEFINE A == IF t.checkout THEN <<>> ELSE <<"source">>
             a == IF t.checkout THEN {} ELSE {"source"}
             C == CASE t.curation = None -> <<>>
                    [] t.curation = "user" -> UserStages(t)
                    [] t.curation \in Detailed -> <<"native_details", "review">>
                    [] OTHER -> <<"review">>
  <2>1. Stages(t) = head \o (A \o <<"maintainer_action">> \o C)
    BY <1>5, WizardAssumption DEF Stages, head
  <2>2. Route(A, a) /\ a \subseteq {"source"}
    BY Ranks, RouteOne, RouteNone
  <2>3. PICK c : /\ Route(C, c)
                 /\ "action" \in c <=> t.curation = "user"
                 /\ c \subseteq {"native_details", "profiles", "action", "scope", "mode",
                                 "artifacts", "review"}
                 /\ t.curation = "user" => c = U
                 /\ "artifacts" \in c => "profiles" \in c
    <3>1. CASE t.curation = None
      BY <3>1, RouteNone, WizardAssumption
    <3>2. CASE t.curation = "user"
      BY <1>2, <3>2, WizardAssumption
    <3>3. CASE t.curation \in Detailed
      <4>1. C = <<"native_details", "review">>
        BY <3>3, WizardAssumption
      <4>2. Route(<<"native_details", "review">>, {"native_details", "review"})
        BY Ranks, RouteTwo
      <4>3. t.curation # "user"
        BY <3>3, WizardAssumption
      <4> QED
        BY <4>1, <4>2, <4>3
    <3>4. CASE t.curation \notin Detailed \cup {"user", None}
      <4>1. C = <<"review">>
        BY <3>4
      <4>2. Route(<<"review">>, {"review"})
        BY Ranks, RouteOne
      <4> QED
        BY <3>4, <4>1, <4>2
    <3> QED
      BY <3>1, <3>2, <3>3, <3>4
  <2> HIDE DEF A, a, C
  <2>4. Route(A \o <<"maintainer_action">>, a \cup {"maintainer_action"})
    <3>1. Route(<<"maintainer_action">>, {"maintainer_action"})
      BY Ranks, RouteOne
    <3>2. \A x \in a, y \in {"maintainer_action"} : Rank[x] < Rank[y]
      BY <2>2, Ranks
    <3> QED
      BY <2>2, <3>1, <3>2, RouteJoin
  <2>5. PICK B, M : B = A \o <<"maintainer_action">> /\ M = a \cup {"maintainer_action"}
    OBVIOUS
  <2>6. Route(B \o C, M \cup c)
    <3>1. \A x \in M, y \in c : Rank[x] < Rank[y]
      BY <2>2, <2>3, <2>5, Ranks
    <3>2. Route(B, M)
      BY <2>4, <2>5
    <3> QED
      BY <2>3, <3>1, <3>2, RouteJoin
  <2>7. PICK D, K, N : D = B \o C /\ K = M \cup c /\ N = {"onboarding", "role"} \cup K
    OBVIOUS
  <2>8. Route(Stages(t), N)
    <3>1. \A x \in {"onboarding", "role"}, y \in K : Rank[x] < Rank[y]
      BY <2>2, <2>3, <2>5, <2>7, Ranks
    <3>2. Stages(t) = head \o D /\ Route(D, K)
      BY <2>1, <2>5, <2>6, <2>7
    <3>3. Route(head \o D, {"onboarding", "role"} \cup K)
      BY <1>1, <3>1, <3>2, RouteJoin
    <3> QED
      BY <2>7, <3>2, <3>3
  <2>9. /\ {"onboarding", "role"} \subseteq N /\ "maintainer_action" \in N
        /\ ("action" \in N) <=> (t.curation = "user")
        /\ "artifacts" \in N => "profiles" \in N
        /\ Shopping(t) => "artifacts" \in N
    <3>1. \A x : x \in N <=> x \in {"onboarding", "role", "maintainer_action"} \cup a \cup c
      BY <2>5, <2>7
    <3>2. Shopping(t) => t.curation = "user" /\ t.action = "install"
      BY <1>5 DEF Shopping
    <3> QED
      BY <1>2, <2>2, <2>3, <3>1, <3>2
  <2> QED
    BY <1>5, <2>8, <2>9
<1> QED
  BY <1>3, <1>4, <1>5 DEF Typed

\* The fields the operations on the current stage leave alone.
Kept(t, u) ==
    /\ u.role = t.role /\ u.curation = t.curation /\ u.checkout = t.checkout
    /\ u.action = t.action /\ u.profiles = t.profiles /\ u.scope = t.scope /\ u.mode = t.mode
    /\ u.selection = t.selection /\ u.basket = t.basket

\* The stages depend on four fields, what is listed on one.
LEMMA StagesKept ==
    ASSUME NEW t, NEW u, u.role = t.role, u.curation = t.curation, u.checkout = t.checkout,
           u.action = t.action
    PROVE  Stages(u) = Stages(t) /\ (Typed(t) => Typed(u)) /\ (Shopping(u) <=> Shopping(t))
BY DEF Stages, UserStages, Typed, Shopping

LEMMA StockedKept ==
    ASSUME NEW m, NEW v, NEW t, NEW u, u.selection = t.selection, Stocked(m, v, t)
    PROVE  Stocked(m, v, u)
BY DEF Stocked, Listed, Aliases

\* Two stages that follow one another.
LEMMA Neighbours ==
    ASSUME NEW t, Typed(t), NEW i \in Nat, 1 <= i, i + 1 <= Len(Stages(t)),
           NEW a, NEW b, a = Stages(t)[i], b = Stages(t)[i + 1]
    PROVE  /\ a \in ToSet(Stages(t)) /\ b \in ToSet(Stages(t)) /\ a # "review"
           /\ b \in Early => a \in Early
           /\ a = "onboarding" => b \in Early
           /\ b = "artifacts" => a \notin Early
           /\ b = "review" /\ Shopping(t) => a = "artifacts"
<1>1. PICK N : /\ Route(Stages(t), N) /\ {"onboarding", "role"} \subseteq N
               /\ "artifacts" \in N => "profiles" \in N
               /\ "review" \in N /\ Shopping(t) => "artifacts" \in N
  BY StagesRoute
<1>2. PICK q, n : /\ q = Stages(t) /\ n = Len(q) /\ n \in Nat /\ q \in Seq(Names)
                  /\ DOMAIN q = 1 .. n /\ N = {q[k] : k \in 1 .. n}
                  /\ \A k, l \in 1 .. n : k < l => Rank[q[k]] < Rank[q[l]]
  <2>1. PICK q, n : q = Stages(t) /\ n = Len(q)
    OBVIOUS
  <2>2. q \in Seq(Names) /\ (\A k, l \in 1 .. n : k < l => Rank[q[k]] < Rank[q[l]])
    BY <1>1, <2>1 DEF Route
  <2>3. n \in Nat /\ DOMAIN q = 1 .. n
    BY <2>1, <2>2
  <2>4. N = {q[k] : k \in 1 .. n}
    BY <1>1, <2>1, <2>3 DEF Route, ToSet
  <2> QED
    BY <2>1, <2>2, <2>3, <2>4
<1>3. /\ i \in 1 .. n /\ i + 1 \in 1 .. n /\ a \in N /\ b \in N /\ a \in Names /\ b \in Names
      /\ Rank[a] < Rank[b] /\ ToSet(Stages(t)) = N
  <2>1. i \in 1 .. n /\ i + 1 \in 1 .. n /\ i < i + 1
    BY <1>2
  <2>2. q[i] \in Names /\ q[i + 1] \in Names
    BY <1>2, <2>1
  <2>3. ToSet(Stages(t)) = N
    BY <1>1 DEF Route
  <2> QED
    BY <1>2, <2>1, <2>2, <2>3
<1>4. \A x \in N : x \in Names /\ Rank[x] \in Nat /\ (Rank[x] <= Rank[a] \/ Rank[b] <= Rank[x])
  <2> SUFFICES ASSUME NEW k \in 1 .. n
               PROVE  /\ q[k] \in Names /\ Rank[q[k]] \in Nat
                      /\ Rank[q[k]] <= Rank[a] \/ Rank[b] <= Rank[q[k]]
    BY <1>2
  <2>1. q[k] \in Names
    BY <1>2
  <2>2. \A x \in Names : Rank[x] \in Nat
    BY Ranks
  <2>3. k = i \/ k = i + 1 \/ k < i \/ i + 1 < k
    OBVIOUS
  <2>4. (k < i => Rank[q[k]] < Rank[a]) /\ (i + 1 < k => Rank[b] < Rank[q[k]])
    BY <1>2, <1>3
  <2> QED
    BY <1>2, <1>3, <2>1, <2>2, <2>3, <2>4
<1>5. \A x \in Names : /\ Rank[x] \in 1 .. 11
                       /\ Rank[x] <= 4 <=> x \in Early
                       /\ Rank[x] = 10 <=> x = "artifacts"
                       /\ Rank[x] = 11 <=> x = "review"
  BY Ranks DEF Early
<1>6. a # "review"
  BY <1>3, <1>5
<1>7. b \in Early => a \in Early
  BY <1>3, <1>5
<1>8. ASSUME a = "onboarding" PROVE b \in Early
  <2>1. Rank[a] = 1 /\ "role" \in N /\ Rank["role"] = 2
    BY <1>1, <1>8, Ranks
  <2>2. 2 <= Rank[a] \/ Rank[b] <= 2
    BY <1>4, <2>1
  <2> QED
    BY <1>3, <1>5, <2>1, <2>2
<1>9. ASSUME b = "artifacts", a \in Early PROVE FALSE
  <2>1. Rank[a] <= 4 /\ Rank[b] = 10 /\ "profiles" \in N /\ Rank["profiles"] = 6
    BY <1>1, <1>3, <1>5, <1>9, Ranks
  <2>2. 6 <= Rank[a] \/ Rank[b] <= 6
    BY <1>4, <2>1
  <2> QED
    BY <1>3, <1>5, <2>1, <2>2
<1>10. ASSUME b = "review", Shopping(t) PROVE a = "artifacts"
  <2>1. Rank[b] = 11 /\ "artifacts" \in N /\ Rank["artifacts"] = 10
    BY <1>1, <1>3, <1>10, Ranks
  <2>2. 10 <= Rank[a] \/ Rank[b] <= 10
    BY <1>4, <2>1
  <2> QED
    BY <1>3, <1>5, <2>1, <2>2
<1> QED
  BY <1>3, <1>6, <1>7, <1>8, <1>9, <1>10

\* Where a session stands on its route.
LEMMA Located ==
    ASSUME NEW t, OnRoute(t), NEW i, i = Position(Stages(t), t.current)
    PROVE  /\ i \in Nat /\ 1 <= i /\ i <= Len(Stages(t)) /\ Len(Stages(t)) \in Nat
           /\ Stages(t)[i] = t.current
           /\ i = 1 => t.current # "review"
<1>1. PICK N : Route(Stages(t), N) /\ "onboarding" \in N
  BY StagesRoute DEF OnRoute
<1>2. PICK q : q = Stages(t)
  OBVIOUS
<1>3. q \in Seq(Names)
  BY <1>1, <1>2 DEF Route
<1>4. DOMAIN q = 1 .. Len(q) /\ Len(q) \in Nat
  BY <1>3
<1>5. \E k \in DOMAIN q : q[k] = t.current
  BY <1>2 DEF OnRoute, ToSet
<1>6. i \in DOMAIN q /\ q[i] = t.current
  BY <1>2, <1>5 DEF Position
<1>7. ASSUME i = 1, t.current = "review" PROVE FALSE
  <2>1. PICK k \in 1 .. Len(q) : q[k] = "onboarding"
    BY <1>1, <1>2, <1>4 DEF Route, ToSet
  <2>2. k # 1
    BY <1>6, <1>7, <2>1
  <2>3. Rank[q[1]] < Rank[q[k]]
    BY <1>1, <1>2, <1>4, <1>6, <1>7, <2>1, <2>2 DEF Route
  <2> QED
    BY <1>6, <1>7, <2>1, <2>3, Ranks
<1> QED
  BY <1>2, <1>4, <1>6, <1>7

\* To the review of an installation only the artifacts lead, ...
LEMMA Advanced ==
    ASSUME NEW t, OnRoute(t), NEW u, u = Advance(t)
    PROVE  /\ OnRoute(u) /\ Kept(t, u)
           /\ u.current = "review" /\ Shopping(t) => t.current \in {"artifacts", "review"}
           /\ u.current \in Early => t.current \in Early
           /\ u.current = "artifacts" => t.current \notin Early
<1>1. CASE u = t
  BY <1>1 DEF Kept, Early, OnRoute
<1>2. CASE u # t
  <2>1. PICK i : i = Position(Stages(t), t.current)
    OBVIOUS
  <2>2. PICK c, x : /\ u = [t EXCEPT !.confirmed = c, !.current = x]
                    /\ x = t.current \/ (i # Len(Stages(t)) /\ x = Stages(t)[i + 1])
    BY <1>2, <2>1 DEF Advance
  <2>3. DOMAIN t = SessionFields
    BY DEF OnRoute, Sane
  <2>4. u.current = x /\ Kept(t, u)
    BY <2>2, <2>3 DEF SessionFields, Kept
  <2>5. Sane(u)
    BY AdvanceSane DEF OnRoute
  <2>6. Stages(u) = Stages(t) /\ Typed(u)
    BY <2>4, StagesKept DEF Kept, OnRoute
  <2>7. CASE x = t.current
    BY <2>4, <2>5, <2>6, <2>7 DEF OnRoute, Early
  <2>8. CASE i # Len(Stages(t)) /\ x = Stages(t)[i + 1]
    <3>1. /\ i \in Nat /\ 1 <= i /\ i <= Len(Stages(t)) /\ Len(Stages(t)) \in Nat
          /\ Stages(t)[i] = t.current
      BY <2>1, Located
    <3>2. i + 1 <= Len(Stages(t))
      BY <2>8, <3>1
    <3>3. Typed(t)
      BY DEF OnRoute
    <3>4. /\ x \in ToSet(Stages(t))
          /\ x \in Early => t.current \in Early
          /\ x = "artifacts" => t.current \notin Early
          /\ x = "review" /\ Shopping(t) => t.current = "artifacts"
      BY <2>8, <3>1, <3>2, <3>3, Neighbours
    <3> QED
      BY <2>4, <2>5, <2>6, <3>4 DEF OnRoute
  <2> QED
    BY <2>2, <2>7, <2>8
<1> QED
  BY <1>1, <1>2

\* ... and back to it nothing does.
LEMMA Returned ==
    ASSUME NEW t, OnRoute(t), NEW u, u = Back(t)
    PROVE  /\ OnRoute(u) /\ Kept(t, u) /\ u.current # "review"
           /\ u.current = "onboarding" => t.current \in Early
<1>1. PICK i : i = Position(Stages(t), t.current)
  OBVIOUS
<1>2. /\ i \in Nat /\ 1 <= i /\ i <= Len(Stages(t)) /\ Len(Stages(t)) \in Nat
      /\ Stages(t)[i] = t.current /\ (i = 1 => t.current # "review")
  BY <1>1, Located
<1>3. CASE i = 1
  <2>1. u = t
    BY <1>1, <1>3 DEF Back, OnRoute
  <2> QED
    BY <1>2, <1>3, <2>1 DEF Kept, Early
<1>4. CASE i # 1
  <2>1. PICK c, x : u = [t EXCEPT !.current = x, !.confirmed = c] /\ x = Stages(t)[i - 1]
    BY <1>1, <1>4 DEF Back, OnRoute
  <2>2. DOMAIN t = SessionFields
    BY DEF OnRoute, Sane
  <2>3. u.current = x /\ Kept(t, u)
    BY <2>1, <2>2 DEF SessionFields, Kept
  <2>4. Sane(u)
    BY BackSane DEF OnRoute
  <2>5. Stages(u) = Stages(t) /\ Typed(u)
    BY <2>3, StagesKept DEF Kept, OnRoute
  <2>6. PICK k \in Nat : k = i - 1 /\ 1 <= k /\ k + 1 <= Len(Stages(t)) /\ i = k + 1
    BY <1>2, <1>4
  <2>7. Typed(t)
    BY DEF OnRoute
  <2>8. x \in ToSet(Stages(t)) /\ x # "review" /\ (x = "onboarding" => t.current \in Early)
    BY <1>2, <2>1, <2>6, <2>7, Neighbours
  <2> QED
    BY <2>3, <2>4, <2>5, <2>8 DEF OnRoute
<1> QED
  BY <1>3, <1>4

\* A choice of the current stage.
LEMMA Chosen ==
    ASSUME NEW t, NEW stage, NEW c, OnRoute(c), c.current = stage,
           NEW u, u = Select(t, stage, c)
    PROVE  OnRoute(u) /\ Kept(c, u) /\ u.current = stage
<1>1. Sane(u)
  BY SelectSane DEF OnRoute
<1>2. u.current = stage /\ Kept(c, u)
  <2>1. CASE u = c
    BY <2>1 DEF Kept
  <2>2. CASE u # c
    <3>1. PICK x, y : u = [c EXCEPT !.current = x, !.confirmed = y] /\ x = stage
      BY <2>2 DEF Select
    <3> QED
      BY <3>1 DEF OnRoute, Sane, SessionFields, Kept
  <2> QED
    BY <2>1, <2>2
<1>3. Stages(u) = Stages(c) /\ Typed(u)
  BY <1>2, StagesKept DEF Kept, OnRoute
<1> QED
  BY <1>1, <1>2, <1>3 DEF OnRoute

-----------------------------------------------------------------------------
\* The wizard takes up a stage.
LEMMA GotoOffer ==
    ASSUME OfferInv, NEW t, OnRoute(t), Goto(t), t.selection = s.selection \/ w'.model = None,
           w'.model = None \/ (w'.model = w.model /\ w'.service = w.service),
           t.current \in Early => w'.model = None,
           t.current = "review" /\ Shopping(t) => Matched(t, w'.model, w'.service)
    PROVE  OfferInv'
<1>1. s' = t /\ at' \in {"read", "ask"} /\ (at' = "ask" => t.current \notin {"artifacts", "review"})
  BY DEF Goto
<1>2. w'.model # None => Stocked(w'.model, w'.service, t)
  BY StockedKept DEF OfferInv, Offer
<1> QED
  BY <1>1, <1>2 DEF OfferInv, Offer, Fetching, BasketIsOffered

\* The wizard goes on with the session it has, and does not come to a prompt.
LEMMA SameOffer ==
    ASSUME OfferInv, at' \notin Fetching \cup {"ask"}, UNCHANGED s,
           w'.model = w.model /\ w'.service = w.service,
           at' = "failed" => w'.fault # "browse" \/ s.current = "artifacts"
    PROVE  OfferInv'
BY DEF OfferInv, Offer, Fetching, BasketIsOffered

\* Between the Sources screen and a loaded service there is no read model.
LEMMA FetchingOffer ==
    ASSUME OfferInv, at \in Fetching, at' \in Fetching \cup {"ask", "failed"},
           w'.model = w.model, at' = "failed" => w'.fault # "browse", OnRoute(s'),
           s'.current = s.current, Shopping(s') <=> Shopping(s)
    PROVE  OfferInv'
<1>1. w'.model = None /\ s.current # "artifacts" /\ ~(s.current = "review" /\ Shopping(s))
  BY DEF OfferInv, Offer
<1> QED
  BY <1>1 DEF OfferInv, Offer, BasketIsOffered, Shopping, Curating

LEMMA InitialOnRoute == OnRoute(initial_session)
<1>1. Typed(initial_session)
  BY DEF Typed, initial_session
<1>2. initial_session.current \in ToSet(Stages(initial_session))
  BY <1>1, StagesRoute, InitialSane DEF Route
<1> QED
  BY <1>1, <1>2, InitialSane DEF OnRoute

LEMMA EndOffer ==
    ASSUME NEW code, End(code)
    PROVE  OfferInv'
<1>1. w' = Idle(w.front, code) /\ s' = initial_session /\ at' = "ended"
  BY DEF End
<1>2. w'.model = None
  BY <1>1 DEF Idle
<1> QED
  BY <1>1, <1>2, InitialOnRoute, InitialSane DEF OfferInv, Offer, Fetching, BasketIsOffered

LEMMA InitOffer == Init => OfferInv
<1> SUFFICES ASSUME Init PROVE OfferInv
  OBVIOUS
<1>1. PICK front : w = Idle(front, None)
  BY DEF Init
<1>2. w.model = None /\ s = initial_session /\ at = "ask"
  BY <1>1 DEF Init, Idle
<1> QED
  BY <1>2, InitialOnRoute, InitialSane DEF OfferInv, Offer, Fetching, BasketIsOffered

\* What the loops forget on the way back.
LEMMA ReturnOffer ==
    ASSUME IInv, OfferInv, Goto(Back(s)), Return(Back(s))
    PROVE  OfferInv'
<1>1. PICK t : t = Back(s)
  OBVIOUS
<1>2. OnRoute(s)
  BY DEF OfferInv, Offer
<1>3. /\ OnRoute(t) /\ Kept(s, t) /\ t.current # "review"
      /\ t.current = "onboarding" => s.current \in Early
  BY <1>1, <1>2, Returned
<1>4. /\ w'.model = (IF t.current \in {"role", "source", "maintainer_action"} THEN None ELSE w.model)
      /\ w'.service = (IF t.current \in {"role", "source", "maintainer_action"}
                       THEN None ELSE w.service)
  BY <1>1 DEF Return, IInv, Plans, HeldFields
<1>5. t.current \in Early => w'.model = None
  BY <1>3, <1>4 DEF OfferInv, Offer, Early
<1>6. Goto(t) /\ t.selection = s.selection
  BY <1>1, <1>3 DEF Kept
<1> QED
  BY <1>3, <1>4, <1>5, <1>6, GotoOffer

LEMMA NavigationOffer ==
    ASSUME IInv, OfferInv, \/ Onboard \/ GoBack \/ Quit \/ ContinueWithout
                           \/ \E r \in {"user", "maintainer"} : ChooseRole(r)
    PROVE  OfferInv'
<1>1. OnRoute(s)
  BY DEF OfferInv, Offer
<1>2. CASE Onboard
  <2>1. PICK t : t = Advance(s)
    OBVIOUS
  <2>2. Goto(t) /\ UNCHANGED w /\ s.current = "onboarding"
    BY <1>2, <2>1 DEF Onboard
  <2>3. /\ OnRoute(t) /\ Kept(s, t)
        /\ t.current = "review" /\ Shopping(s) => s.current \in {"artifacts", "review"}
    BY <1>1, <2>1, Advanced
  <2>4. w'.model = None /\ ~(t.current = "review" /\ Shopping(t))
    BY <2>2, <2>3 DEF OfferInv, Offer, Early, Kept, Shopping
  <2> QED
    BY <2>2, <2>3, <2>4, GotoOffer
<1>3. CASE GoBack
  <2>1. \/ \E code : End(code)
        \/ Goto(Back(s)) /\ Return(Back(s))
        \/ s.current = "role" /\ Goto(s) /\ Return(Back(s))
    BY <1>3 DEF GoBack
  <2>2. ASSUME s.current = "role", Goto(s), Return(Back(s)) PROVE OfferInv'
    <3>1. w.model = None
      BY <2>2 DEF OfferInv, Offer, Early
    <3>2. w'.model = None
      BY <2>2, <3>1 DEF Return, IInv, Plans, HeldFields
    <3> QED
      BY <1>1, <2>2, <3>2, GotoOffer
  <2> QED
    BY <2>1, <2>2, EndOffer, ReturnOffer
<1>4. CASE Quit \/ ContinueWithout
  BY <1>4, EndOffer DEF Quit, ContinueWithout
<1>5. ASSUME NEW r \in {"user", "maintainer"}, ChooseRole(r) PROVE OfferInv'
  <2>1. s.current = "role" /\ UNCHANGED w
    BY <1>5 DEF ChooseRole
  <2>2. w'.model = None
    BY <2>1 DEF OfferInv, Offer, Early
  <2>3. PICK c : c = [s EXCEPT !.role = r, !.checkout = FALSE]
    OBVIOUS
  <2>4. /\ c.role = r /\ c.checkout = FALSE /\ c.action = s.action /\ c.curation = s.curation
        /\ c.current = "role" /\ Sane(c)
    BY <1>1, <2>1, <2>3 DEF OnRoute, Sane, SessionFields
  <2>5. Typed(c)
    BY <1>1, <2>4 DEF OnRoute, Typed
  <2>6. OnRoute(c)
    BY <2>4, <2>5, StagesRoute DEF OnRoute, Route
  <2>7. PICK t : t = SelectRole(s, r)
    OBVIOUS
  <2>8. OnRoute(t) /\ Kept(c, t) /\ t.current = "role"
    <3>1. t = Select(s, "role", c)
      BY <2>3, <2>7 DEF SelectRole
    <3> QED
      BY <2>4, <2>6, <3>1, Chosen
  <2>9. PICK u : u = IF r = "maintainer" THEN UseCurrentCheckout(t) ELSE t
    OBVIOUS
  <2>10. OnRoute(u) /\ u.current = "role"
    <3>1. CASE u = t
      BY <2>8, <3>1
    <3>2. CASE u # t
      <4>1. PICK d : d = [t EXCEPT !.checkout = TRUE, !.selection = None]
        OBVIOUS
      <4>2. /\ d.role = t.role /\ d.checkout = TRUE /\ d.action = t.action
            /\ d.curation = t.curation /\ d.current = "role" /\ DOMAIN d = SessionFields
        BY <2>8, <4>1 DEF OnRoute, Sane, SessionFields
      <4>3. Typed(d)
        BY <2>8, <4>2 DEF OnRoute, Typed
      <4>4. "role" \in ToSet(Stages(d))
        BY <4>3, StagesRoute DEF Route
      <4>5. PICK x, y : u = [d EXCEPT !.current = x, !.confirmed = y] /\ x = "role"
        BY <2>9, <3>2, <4>1, <4>2, <4>4 DEF UseCurrentCheckout
      <4>6. /\ u.current = "role" /\ u.role = d.role /\ u.checkout = d.checkout
            /\ u.action = d.action /\ u.curation = d.curation
        BY <4>2, <4>5 DEF SessionFields
      <4>7. Stages(u) = Stages(d) /\ Typed(u)
        BY <4>3, <4>6, StagesKept
      <4>8. Sane(u)
        BY <2>8, <2>9, <3>2, CheckoutSane DEF OnRoute
      <4> QED
        BY <4>4, <4>6, <4>7, <4>8 DEF OnRoute
    <3> QED
      BY <3>1, <3>2
  <2>11. PICK v : v = Advance(u)
    OBVIOUS
  <2>12. /\ OnRoute(v) /\ Kept(u, v)
         /\ v.current = "review" /\ Shopping(u) => u.current \in {"artifacts", "review"}
    BY <2>10, <2>11, Advanced
  <2>13. ~(v.current = "review" /\ Shopping(v))
    BY <2>10, <2>12 DEF Kept, Shopping
  <2>14. Goto(v)
    BY <1>5, <2>7, <2>9, <2>11 DEF ChooseRole
  <2> QED
    BY <2>2, <2>12, <2>13, <2>14, GotoOffer
<1> QED
  BY <1>2, <1>3, <1>4, <1>5

\* One stage's choice and the advance to the next.
LEMMA ChoiceRoute ==
    ASSUME NEW stage, NEW c, OnRoute(c), c.current = stage, stage \notin {"artifacts", "review"},
           NEW t, t = Advance(Select(s, stage, c))
    PROVE  /\ OnRoute(t) /\ Kept(c, t) /\ ~(t.current = "review" /\ Shopping(t))
           /\ t.current \in Early => stage \in Early
           /\ t.current = "artifacts" => stage \notin Early
<1>1. PICK u : u = Select(s, stage, c)
  OBVIOUS
<1>2. OnRoute(u) /\ Kept(c, u) /\ u.current = stage
  BY <1>1, Chosen
<1>3. t = Advance(u)
  BY <1>1
<1>4. /\ OnRoute(t) /\ Kept(u, t)
      /\ t.current = "review" /\ Shopping(u) => u.current \in {"artifacts", "review"}
      /\ t.current \in Early => u.current \in Early
      /\ t.current = "artifacts" => u.current \notin Early
  BY <1>2, <1>3, Advanced
<1> QED
  BY <1>2, <1>4 DEF Kept, Shopping

\* A session with another value in a field its stages do not depend on.
LEMMA Refilled ==
    ASSUME OnRoute(s), NEW c, NEW x,
           \/ c = [s EXCEPT !.profiles = x] /\ x \subseteq Profiles
           \/ c = [s EXCEPT !.scope = x]
           \/ c = [s EXCEPT !.mode = x]
           \/ c = [s EXCEPT !.basket = x]
           \/ c = [s EXCEPT !.selection = x] /\ (x = None \/ Usable(x.after))
    PROVE  OnRoute(c) /\ c.current = s.current /\ (Shopping(c) <=> Shopping(s))
<1>1. /\ c.role = s.role /\ c.curation = s.curation /\ c.checkout = s.checkout
      /\ c.action = s.action /\ c.current = s.current
  BY DEF OnRoute, Sane, SessionFields
<1>2. Sane(c)
  BY DEF OnRoute, Sane, SessionFields
<1> QED
  BY <1>1, <1>2, StagesKept DEF OnRoute

LEMMA ChoiceOffer ==
    ASSUME IInv, OfferInv,
           \/ \E chosen \in (SUBSET Profiles) \ {{}} : ChooseProfiles(chosen)
           \/ \E a \in ConsumerActions : ChooseAction(a)
           \/ \E c \in Scopes : ChooseScope(c)
           \/ \E m \in Modes : ChooseMode(m)
           \/ \E chosen \in SUBSET (Artifacts \cup Collections) : ChooseArtifacts(chosen)
    PROVE  OfferInv'
<1>1. OnRoute(s) /\ DOMAIN s = SessionFields /\ DOMAIN w = HeldFields
  BY DEF OfferInv, Offer, IInv, Plans, Sane
<1>2. ASSUME NEW chosen \in SUBSET Profiles, ChooseProfiles(chosen) PROVE OfferInv'
  <2>1. PICK c : c = [s EXCEPT !.profiles = chosen]
    OBVIOUS
  <2>2. PICK t : t = Advance(Select(s, "profiles", c))
    OBVIOUS
  <2>3. s.current = "profiles" /\ Goto(t) /\ UNCHANGED w
    BY <1>2, <2>1, <2>2 DEF ChooseProfiles
  <2>4. OnRoute(c) /\ c.current = "profiles" /\ c.selection = s.selection
    BY <1>1, <2>1, <2>3, Refilled DEF SessionFields
  <2>5. /\ OnRoute(t) /\ Kept(c, t) /\ ~(t.current = "review" /\ Shopping(t))
        /\ t.current \in Early => "profiles" \in Early
    BY <2>2, <2>4, ChoiceRoute
  <2>6. t.selection = s.selection /\ t.current \notin Early
    BY <2>4, <2>5 DEF Kept, Early
  <2> QED
    BY <2>3, <2>5, <2>6, GotoOffer
<1>3. ASSUME NEW a \in ConsumerActions, ChooseAction(a) PROVE OfferInv'
  <2>1. PICK c : c = [s EXCEPT !.action = a]
    OBVIOUS
  <2>2. PICK t : t = Select(s, "action", c)
    OBVIOUS
  <2>3. PICK u : u = IF a = "status" THEN Reconcile(t, {}) ELSE t
    OBVIOUS
  <2>4. PICK v : v = Advance(u)
    OBVIOUS
  <2>5. s.current = "action" /\ Goto(v) /\ w' = [w EXCEPT !.model = None]
    BY <1>3, <2>1, <2>2, <2>3, <2>4 DEF ChooseAction, Forget
  <2>6. w'.model = None
    BY <1>1, <2>5 DEF HeldFields
  <2>7. /\ c.role = s.role /\ c.curation = s.curation /\ c.checkout = s.checkout
        /\ c.action = a /\ c.current = "action" /\ Sane(c)
    BY <1>1, <2>1, <2>5 DEF OnRoute, Sane, SessionFields
  <2>8. Typed(c)
    BY <1>1, <2>7 DEF OnRoute, Typed
  <2>9. OnRoute(c)
    <3>1. s.role = "user" \/ (s.role = "maintainer" /\ s.curation = "user")
      BY <1>1, <2>5, StagesRoute DEF OnRoute, Route
    <3>2. "action" \in ToSet(Stages(c))
      BY <2>7, <2>8, <3>1, StagesRoute DEF Route
    <3> QED
      BY <2>7, <2>8, <3>2 DEF OnRoute
  <2>10. OnRoute(t) /\ t.current = "action"
    BY <2>2, <2>7, <2>9, Chosen
  <2>11. OnRoute(u) /\ u.current = "action"
    <3>1. PICK b, d : u \in {t, [t EXCEPT !.basket = b, !.confirmed = d]}
      BY <2>3 DEF Reconcile
    <3>2. CASE u # t
      <4>1. /\ u.role = t.role /\ u.curation = t.curation /\ u.checkout = t.checkout
            /\ u.action = t.action /\ u.current = t.current
        BY <2>10, <3>1, <3>2 DEF OnRoute, Sane, SessionFields
      <4>2. Sane(u)
        BY <2>3, <2>10, ReconcileSane DEF OnRoute
      <4> QED
        BY <2>10, <4>1, <4>2, StagesKept DEF OnRoute
    <3> QED
      BY <2>10, <3>2
  <2>12. /\ OnRoute(v) /\ Kept(u, v)
         /\ v.current = "review" /\ Shopping(u) => u.current \in {"artifacts", "review"}
    BY <2>4, <2>11, Advanced
  <2>13. ~(v.current = "review" /\ Shopping(v))
    BY <2>11, <2>12 DEF Kept, Shopping
  <2> QED
    BY <2>5, <2>6, <2>12, <2>13, GotoOffer
<1>4. ASSUME NEW c, NEW stage, OnRoute(c), c.current = stage,
             stage \notin {"artifacts", "review"},
             Goto(Advance(Select(s, stage, c))), Forget
      PROVE  OfferInv'
  <2>1. PICK t : t = Advance(Select(s, stage, c))
    OBVIOUS
  <2>2. OnRoute(t) /\ ~(t.current = "review" /\ Shopping(t))
    BY <1>4, <2>1, ChoiceRoute
  <2>3. w'.model = None
    BY <1>1, <1>4 DEF Forget, HeldFields
  <2> QED
    BY <1>4, <2>1, <2>2, <2>3, GotoOffer
<1>5. ASSUME NEW x \in Scopes, ChooseScope(x) PROVE OfferInv'
  <2>1. PICK c : c = [s EXCEPT !.scope = x]
    OBVIOUS
  <2>2. s.current = "scope" /\ Goto(Advance(Select(s, "scope", c))) /\ Forget
    BY <1>5, <2>1 DEF ChooseScope
  <2>3. OnRoute(c) /\ c.current = "scope"
    BY <1>1, <2>1, <2>2, Refilled
  <2> QED
    BY <1>4, <2>2, <2>3
<1>6. ASSUME NEW x \in Modes, ChooseMode(x) PROVE OfferInv'
  <2>1. PICK c : c = [s EXCEPT !.mode = x]
    OBVIOUS
  <2>2. s.current = "mode" /\ Goto(Advance(Select(s, "mode", c))) /\ Forget
    BY <1>6, <2>1 DEF ChooseMode
  <2>3. OnRoute(c) /\ c.current = "mode"
    BY <1>1, <2>1, <2>2, Refilled
  <2> QED
    BY <1>4, <2>2, <2>3
<1>7. ASSUME NEW chosen, ChooseArtifacts(chosen) PROVE OfferInv'
  <2>1. PICK c : c = [s EXCEPT !.basket = chosen]
    OBVIOUS
  <2>2. PICK u : u = Select(s, "artifacts", c)
    OBVIOUS
  <2>3. PICK t : t = Advance(u)
    OBVIOUS
  <2>4. /\ at = "ask" /\ s.current = "artifacts" /\ Goto(t) /\ UNCHANGED w
        /\ chosen \subseteq w.model.enabled \/ chosen = s.basket \cap w.model.shown
    BY <1>7, <2>1, <2>2, <2>3 DEF ChooseArtifacts
  <2>5. Matched(s, w.model, w.service)
    BY <2>4 DEF OfferInv, Offer
  <2>6. OnRoute(c) /\ c.current = "artifacts"
    BY <1>1, <2>1, <2>4, Refilled
  <2>7. /\ c.selection = s.selection /\ c.action = s.action /\ c.profiles = s.profiles
        /\ c.scope = s.scope /\ c.mode = s.mode /\ c.basket = chosen
    BY <1>1, <2>1 DEF SessionFields
  <2>8. OnRoute(u) /\ Kept(c, u) /\ u.current = "artifacts"
    BY <2>2, <2>6, Chosen
  <2>9. OnRoute(t) /\ Kept(u, t) /\ (t.current \in Early => u.current \in Early)
    BY <2>3, <2>8, Advanced
  <2>10. Matched(t, w.model, w.service) /\ t.selection = s.selection
    <3>1. t.selection = s.selection /\ Key(t) = Key(s) /\ t.basket \subseteq w.model.enabled
      BY <2>4, <2>5, <2>7, <2>8, <2>9 DEF Kept, Matched, Key
    <3> QED
      BY <2>5, <3>1, StockedKept DEF Matched
  <2>11. t.current \notin Early
    BY <2>8, <2>9 DEF Early
  <2> QED
    BY <2>4, <2>9, <2>10, <2>11, GotoOffer
<1> QED
  BY <1>2, <1>3, <1>5, <1>6, <1>7

LEMMA SourcesOffer ==
    ASSUME IInv, OfferInv,
           \/ \E chosen \in SUBSET Sources : ChooseSources(chosen)
           \/ \E x \in Sources : \/ AddSource(x) \/ RemoveSource(x)
                                 \/ SyncSource(x) \/ Resubscribe(x)
           \/ Acquire \/ WriteSources \/ SaveSelection
    PROVE  OfferInv'
<1>1. OnRoute(s) /\ DOMAIN w = HeldFields /\ DOMAIN s = SessionFields
  BY DEF OfferInv, Offer, IInv, Plans, Sane
<1>2. ASSUME NEW chosen \in SUBSET Sources, ChooseSources(chosen) PROVE OfferInv'
  <2>1. PICK v : v = Selection(w.view, chosen)
    OBVIOUS
  <2>2. PICK c : c = [s EXCEPT !.selection = v]
    OBVIOUS
  <2>3. /\ s.current = "source" /\ at' = "load" /\ UNCHANGED w
        /\ s' = Advance(Select(s, "source", c))
    BY <1>2, <2>1, <2>2 DEF ChooseSources, AtSources
  <2>4. Usable(v.after)
    BY <2>1, SelectionUsable DEF IInv, Plans
  <2>5. OnRoute(c) /\ c.current = "source"
    BY <1>1, <2>2, <2>3, <2>4, Refilled
  <2>6. /\ OnRoute(s') /\ ~(s'.current = "review" /\ Shopping(s'))
        /\ s'.current = "artifacts" => "source" \notin Early
    BY <2>3, <2>5, ChoiceRoute
  <2>7. w'.model = None
    BY <2>3 DEF OfferInv, Offer, Early
  <2>8. s'.current # "artifacts"
    BY <2>6 DEF Early
  <2> QED
    BY <2>3, <2>6, <2>7, <2>8 DEF OfferInv, Offer, Fetching, BasketIsOffered
<1>3. ASSUME NEW request, Maintain(request) PROVE OfferInv'
  <2>1. /\ w' = [w EXCEPT !.change = request] /\ at' = "change" /\ s.current = "source"
        /\ UNCHANGED s
    BY <1>3 DEF Maintain, AtSources
  <2>2. w'.model = w.model /\ w.model = None
    BY <1>1, <2>1 DEF HeldFields, OfferInv, Offer, Early
  <2> QED
    BY <1>1, <2>1, <2>2 DEF OfferInv, Offer, Fetching, BasketIsOffered
<1>4. ASSUME at \in Fetching, Refuse PROVE OfferInv'
  <2>1. w' = [w EXCEPT !.change = None] /\ UNCHANGED s /\ at' = "ask"
    BY <1>4 DEF Refuse
  <2>2. w'.model = w.model
    BY <1>1, <2>1 DEF HeldFields
  <2> QED
    BY <1>1, <1>4, <2>1, <2>2, FetchingOffer
<1>5. ASSUME at \in Fetching, Reload PROVE OfferInv'
  <2>1. CASE Refuse
    BY <1>4, <1>5, <2>1
  <2>2. CASE ~Refuse
    <3>1. /\ w' = [w EXCEPT !.change = None, !.view = [config |-> config', snap |-> snap']]
          /\ s' = [s EXCEPT !.selection = None] /\ at' = "ask"
      BY <1>5, <2>2 DEF Reload
    <3>2. w'.model = w.model
      BY <1>1, <3>1 DEF HeldFields
    <3>3. OnRoute(s') /\ s'.current = s.current /\ (Shopping(s') <=> Shopping(s))
      BY <1>1, <3>1, Refilled
    <3> QED
      BY <1>5, <3>1, <3>2, <3>3, FetchingOffer
  <2> QED
    BY <2>1, <2>2
<1>6. CASE Acquire
  <2>1. at \in Fetching
    BY <1>6 DEF Acquire, Fetching
  <2>2. CASE at' = "write" /\ UNCHANGED <<s, w>>
    BY <1>1, <2>1, <2>2, FetchingOffer DEF Fetching
  <2> QED
    BY <1>4, <1>5, <1>6, <2>1, <2>2 DEF Acquire
<1>7. CASE WriteSources
  <2>1. at \in Fetching
    BY <1>7 DEF WriteSources, Fetching
  <2> QED
    BY <1>4, <1>5, <1>7, <2>1 DEF WriteSources
<1>8. CASE SaveSelection
  <2>1. CASE at' = "apply" /\ UNCHANGED <<s, w>>
    BY <2>1, SameOffer DEF Fetching
  <2>2. CASE Show("save") /\ UNCHANGED s
    <3>1. at' = "failed" /\ w'.model = w.model /\ w'.service = w.service /\ w'.fault = "save"
      BY <1>1, <2>2 DEF Show, HeldFields
    <3> QED
      BY <2>2, <3>1, SameOffer DEF Fetching
  <2> QED
    BY <1>8, <2>1, <2>2, EndOffer DEF SaveSelection, Fail
<1> QED
  BY <1>2, <1>3, <1>6, <1>7, <1>8 DEF AddSource, RemoveSource, SyncSource, Resubscribe

\* A failure of anything but the reading of the artifacts is shown.
LEMMA ShowOffer ==
    ASSUME IInv, OfferInv, NEW kind, Show(kind), UNCHANGED s,
           kind # "browse" \/ s.current = "artifacts"
    PROVE  OfferInv'
<1>1. at' = "failed" /\ w'.model = w.model /\ w'.service = w.service /\ w'.fault = kind
  BY DEF Show, IInv, Plans, HeldFields
<1> QED
  BY <1>1, SameOffer DEF Fetching

\* A read model made of the loaded service and the choices lists what the service offers.
LEMMA ReadStocked == Stocked(ReadModel(w.service, s), w.service, s)
<1> DEFINE v == w.service
           m == ReadModel(v, s)
           fit == {a \in Rows(v, s) : Compatible(a, s)}
<1>1. /\ m.key = Key(s) /\ m.rows = Rows(v, s)
      /\ m.enabled = fit \cup {c \in Bundles(v, s) : Members[c] \subseteq fit}
  BY DEF ReadModel, Key
<1>2. \A a : Compatible(a, s) <=> FitsKey(a, Key(s))
  BY DEF Compatible, FitsKey, Key
<1>3. Rows(v, s) \subseteq Listed(v, s, Artifacts) /\ Listed(v, s, Artifacts) \subseteq Artifacts
  BY DEF Rows, Listed
<1>4. Bundles(v, s) \subseteq Collections
  BY DEF Bundles, Listed
<1> HIDE DEF m
<1>5. \A a \in m.enabled \cap m.rows : a \in fit
  BY <1>1, <1>3, <1>4, SessionAssumption
<1>6. \A c \in m.enabled \cap Collections : Members[c] \subseteq fit
  BY <1>1, <1>3, SessionAssumption
<1> QED
  BY <1>1, <1>2, <1>3, <1>5, <1>6 DEF Stocked, m

LEMMA ReadingOffer ==
    ASSUME IInv, OfferInv, LoadService \/ Browse \/ PrepareCuration
    PROVE  OfferInv'
<1>1. OnRoute(s) /\ DOMAIN w = HeldFields /\ DOMAIN s = SessionFields
  BY DEF OfferInv, Offer, IInv, Plans, Sane
<1>2. CASE LoadService
  <2>1. ASSUME NEW v, at' = "ask", w' = [w EXCEPT !.service = v] PROVE OfferInv'
    <3>1. w'.model = w.model /\ UNCHANGED s /\ at = "load"
      BY <1>1, <1>2, <2>1 DEF HeldFields, LoadService
    <3> QED
      BY <1>1, <2>1, <3>1, FetchingOffer DEF Fetching
  <2> QED
    BY <1>2, <2>1, ShowOffer DEF LoadService
<1>3. CASE Browse
  <2>1. PICK fresh : fresh = ReadModel(w.service, s)
    OBVIOUS
  <2>2. PICK m : m = IF w.model # None /\ w.model.key = fresh.key THEN w.model ELSE fresh
    OBVIOUS
  <2>3. Stocked(m, w.service, s) /\ m.key = Key(s)
    <3>1. Stocked(fresh, w.service, s) /\ fresh.key = Key(s)
      BY <2>1, ReadStocked DEF ReadModel, Key
    <3> QED
      BY <2>2, <3>1 DEF OfferInv, Offer
  <2>4. s.current = "artifacts"
    BY <1>3 DEF Browse
  <2>5. ASSUME w' = [w EXCEPT !.model = m], s' = Reconcile(s, m.enabled), at' = "ask"
        PROVE  OfferInv'
    <3>1. w'.model = m /\ w'.service = w.service
      BY <1>1, <2>5 DEF HeldFields
    <3>2. PICK x, c : \/ s' = s /\ s.basket \subseteq m.enabled
                      \/ /\ s' = [s EXCEPT !.basket = x, !.confirmed = c]
                         /\ x = s.basket \cap m.enabled
      BY <2>5 DEF Reconcile
    <3>3. /\ s'.role = s.role /\ s'.curation = s.curation /\ s'.checkout = s.checkout
          /\ s'.action = s.action /\ s'.profiles = s.profiles /\ s'.scope = s.scope
          /\ s'.mode = s.mode /\ s'.selection = s.selection /\ s'.current = s.current
          /\ s'.basket \subseteq m.enabled
      BY <1>1, <3>2 DEF SessionFields
    <3>4. Sane(s')
      BY <1>1, <2>5, ReconcileSane DEF OnRoute
    <3>5. OnRoute(s')
      BY <1>1, <3>3, <3>4, StagesKept DEF OnRoute
    <3>6. Stocked(m, w.service, s')
      BY <2>3, <3>3, StockedKept
    <3>7. Matched(s', m, w.service)
      BY <2>3, <3>3, <3>6 DEF Matched, Key
    <3> QED
      BY <2>4, <2>5, <3>1, <3>3, <3>5, <3>6, <3>7
      DEF OfferInv, Offer, Fetching, Early, BasketIsOffered
  <2> QED
    BY <1>3, <2>1, <2>2, <2>4, <2>5, EndOffer, ShowOffer DEF Browse
<1>4. CASE PrepareCuration
  <2>1. ASSUME NEW v, at' = "ask", w' = [w EXCEPT !.prepared = v] PROVE OfferInv'
    <3>1. /\ w'.model = w.model /\ w'.service = w.service /\ UNCHANGED s
          /\ s.current = "review" /\ Curating
      BY <1>1, <1>4, <2>1 DEF HeldFields, PrepareCuration
    <3> QED
      BY <2>1, <3>1 DEF OfferInv, Offer, Fetching, BasketIsOffered, Curating
  <2> QED
    BY <1>4, <2>1, ShowOffer DEF PrepareCuration
<1> QED
  BY <1>2, <1>3, <1>4

\* The review of a matched basket holds what the chosen sources offer.
LEMMA PrepareReviewOffer ==
    ASSUME IInv, OfferInv, PrepareReview
    PROVE  OfferInv'
<1>1. DOMAIN w = HeldFields /\ s.current = "review" /\ UNCHANGED s /\ ~Curating
  BY DEF IInv, Plans, PrepareReview
<1>2. ASSUME at' = "ask", w' = [w EXCEPT !.review = Overlay(SetToSeq(Targets))]
      PROVE  OfferInv'
  <2>1. PICK targets \in Seq(Targets) : targets = SetToSeq(Targets)
    BY TargetsListed
  <2>2. PICK q : q = Overlay(targets)
    OBVIOUS
  <2>3. /\ w'.model = w.model /\ w'.service = w.service /\ w'.review = q
    BY <1>1, <1>2, <2>1, <2>2 DEF HeldFields
  <2>4. PICK pre, post : q = [i \in 1 .. Len(targets) |->
                               [target |-> targets[i], pre |-> pre[i], post |-> post[i]]]
    <3> DEFINE fold(i) == FoldLeft(Effect, manifest[s.scope], SubSeq(targets, 1, i))
               done(i) == Effect(fold(i - 1), targets[i])
               pre == [i \in 1 .. Len(targets) |-> fold(i - 1)]
               post == [i \in 1 .. Len(targets) |-> done(i)]
    <3>1. q = [i \in 1 .. Len(targets) |->
                 [target |-> targets[i], pre |-> fold(i - 1), post |-> done(i)]]
      BY <2>2 DEF Overlay
    <3> HIDE DEF fold, done
    <3>2. q = [i \in 1 .. Len(targets) |->
                 [target |-> targets[i], pre |-> pre[i], post |-> post[i]]]
      BY <3>1
    <3> QED
      BY <3>2
  <2>5. Len(targets) \in Nat /\ \A i \in 1 .. Len(targets) : targets[i] \in Targets
    BY <2>1
  <2>6. Len(q) = Len(targets) /\ \A i \in 1 .. Len(q) : q[i].target \in Targets
    BY <2>4, <2>5
  <2>7. ASSUME s.action = "install", NEW x \in Targets
        PROVE  x[1] \in Listed(w.service, s, Artifacts) /\ Compatible(x[1], s)
    <3>1. Matched(s, w.model, w.service)
      BY <1>1, <2>7 DEF OfferInv, Offer, Shopping, Curating
    <3>2. Stocked(w.model, w.service, s)
      BY <3>1 DEF Matched
    <3>3. \A a : FitsKey(a, w.model.key) => Compatible(a, s)
      BY <3>1 DEF Matched, Key, FitsKey, Compatible
    <3>4. x[1] \in Coordinates
      BY <2>7 DEF Targets
    <3>5. \A a \in Coordinates : a \in w.model.rows /\ FitsKey(a, w.model.key)
      BY <3>1, <3>2 DEF Coordinates, Matched, Stocked
    <3> QED
      BY <3>2, <3>3, <3>4, <3>5 DEF Stocked
  <2>8. BasketIsOffered'
    <3> SUFFICES ASSUME s.action = "install", NEW i \in 1 .. Len(q)
                 PROVE  /\ q[i].target[1] \in Listed(w.service, s, Artifacts)
                        /\ Compatible(q[i].target[1], s)
      BY <1>1, <2>3 DEF BasketIsOffered
    <3> QED
      BY <2>6, <2>7
  <2> QED
    BY <1>1, <1>2, <2>3, <2>8 DEF OfferInv, Offer, Fetching
<1> QED
  BY <1>1, <1>2, ShowOffer DEF PrepareReview

LEMMA FinishingOffer ==
    ASSUME IInv, OfferInv, \/ DeclineReview \/ Finalize \/ Complete \/ GiveDetails
                           \/ FinalizeCuration \/ ApplyItem
                           \/ \E a \in Curations \cup {"user"} : ChooseCuration(a)
    PROVE  OfferInv'
<1>1. OnRoute(s) /\ DOMAIN w = HeldFields /\ DOMAIN s = SessionFields
  BY DEF OfferInv, Offer, IInv, Plans, Sane
<1>2. CASE DeclineReview
  <2>1. CASE at' = "read" /\ UNCHANGED <<s, w>>
    BY <2>1, SameOffer DEF Fetching
  <2> QED
    BY <1>2, <2>1, EndOffer DEF DeclineReview
<1>3. CASE Finalize
  <2>1. UNCHANGED <<s, w>> /\ at' \in {"apply", "save"}
    BY <1>3 DEF Finalize
  <2> QED
    BY <2>1, SameOffer DEF Fetching
<1>4. CASE Complete
  BY <1>4, EndOffer DEF Complete
<1>5. CASE GiveDetails
  <2>1. PICK kept : w' = [w EXCEPT !.prepared = kept]
    BY <1>5 DEF GiveDetails
  <2>2. w'.model = w.model /\ w'.service = w.service
    BY <1>1, <2>1 DEF HeldFields
  <2>3. PICK t : t = Advance(s)
    OBVIOUS
  <2>4. Goto(t) /\ s.current = "native_details"
    BY <1>5, <2>3 DEF GiveDetails
  <2>5. /\ OnRoute(t) /\ Kept(s, t)
        /\ t.current = "review" /\ Shopping(s) => s.current \in {"artifacts", "review"}
        /\ t.current \in Early => s.current \in Early
    BY <1>1, <2>3, Advanced
  <2>6. /\ t.selection = s.selection /\ t.current \notin Early
        /\ ~(t.current = "review" /\ Shopping(t))
    BY <2>4, <2>5 DEF Kept, Early, Shopping
  <2> QED
    BY <2>2, <2>4, <2>5, <2>6, GotoOffer
<1>6. CASE FinalizeCuration
  BY <1>6, EndOffer, ShowOffer DEF FinalizeCuration
<1>7. CASE ApplyItem
  <2>1. PICK q, o : w' = [w EXCEPT !.review = q, !.outcome = o]
    BY <1>1, <1>7 DEF ApplyItem, HeldFields
  <2>2. w'.model = w.model /\ w'.service = w.service /\ UNCHANGED s /\ at' = "apply"
    BY <1>1, <1>7, <2>1 DEF HeldFields, ApplyItem
  <2> QED
    BY <2>2, SameOffer DEF Fetching
<1>8. ASSUME NEW a \in Curations \cup {"user"}, ChooseCuration(a) PROVE OfferInv'
  <2>1. PICK front : w' = [w EXCEPT !.front = front, !.prepared = None]
    BY <1>8 DEF ChooseCuration
  <2>2. s.current = "maintainer_action"
    BY <1>8 DEF ChooseCuration
  <2>3. w'.model = None
    BY <1>1, <2>1, <2>2 DEF HeldFields, OfferInv, Offer, Early
  <2>4. PICK t : t = IF w.front = "curses" THEN s ELSE [s EXCEPT !.basket = {}]
    OBVIOUS
  <2>5. PICK c : c = [t EXCEPT !.curation = a]
    OBVIOUS
  <2>6. PICK u, v : u = Select(t, "maintainer_action", c) /\ v = Advance(u)
    OBVIOUS
  <2>7. (s' = v /\ at' = "load") \/ Goto(v)
    BY <1>8, <2>4, <2>5, <2>6 DEF ChooseCuration
  <2>8. OnRoute(t) /\ t.current = "maintainer_action"
    BY <1>1, <2>2, <2>4, Refilled
  <2>9. /\ c.role = t.role /\ c.curation = a /\ c.checkout = t.checkout
        /\ c.action = t.action /\ c.current = "maintainer_action" /\ Sane(c)
    BY <2>5, <2>8 DEF OnRoute, Sane, SessionFields
  <2>10. Typed(c)
    BY <2>8, <2>9 DEF OnRoute, Typed
  <2>11. OnRoute(c)
    <3>1. t.role = "maintainer"
      BY <2>8, StagesRoute DEF OnRoute, Route
    <3>2. "maintainer_action" \in ToSet(Stages(c))
      BY <2>9, <2>10, <3>1, StagesRoute DEF Route
    <3> QED
      BY <2>9, <2>10, <3>2 DEF OnRoute
  <2>12. OnRoute(u) /\ u.current = "maintainer_action"
    BY <2>6, <2>9, <2>11, Chosen
  <2>13. /\ OnRoute(v) /\ Kept(u, v)
         /\ v.current = "review" /\ Shopping(u) => u.current \in {"artifacts", "review"}
         /\ v.current = "artifacts" => u.current \notin Early
    BY <2>6, <2>12, Advanced
  <2>14. ~(v.current = "review" /\ Shopping(v)) /\ v.current # "artifacts"
    BY <2>12, <2>13 DEF Kept, Shopping, Early
  <2>15. CASE Goto(v)
    BY <2>3, <2>13, <2>14, <2>15, GotoOffer
  <2>16. CASE s' = v /\ at' = "load"
    BY <2>3, <2>13, <2>14, <2>16 DEF OfferInv, Offer, Fetching, BasketIsOffered
  <2> QED
    BY <2>7, <2>15, <2>16
<1> QED
  BY <1>2, <1>3, <1>4, <1>5, <1>6, <1>7, <1>8

LEMMA RecoverOffer ==
    ASSUME IInv, OfferInv, RecoverBack \/ RecoverRetry \/ RecoverKeep
    PROVE  OfferInv'
<1>1. DOMAIN w = HeldFields
  BY DEF IInv, Plans
<1>2. CASE RecoverBack
  <2>1. (\E code : End(code)) \/ (Goto(Back(s)) /\ Return(Back(s)))
    BY <1>2 DEF RecoverBack
  <2> QED
    BY <2>1, EndOffer, ReturnOffer
<1>3. CASE RecoverRetry
  <2>1. w' = [w EXCEPT !.fault = None, !.model = None] /\ at' = "read" /\ UNCHANGED s
    BY <1>3 DEF RecoverRetry
  <2>2. w'.model = None
    BY <1>1, <2>1 DEF HeldFields
  <2>3. s.current = "artifacts"
    BY <1>3 DEF RecoverRetry, OfferInv, Offer
  <2> QED
    BY <2>1, <2>2, <2>3 DEF OfferInv, Offer, Fetching, BasketIsOffered
<1>4. CASE RecoverKeep
  <2>1. CASE at' = "read" /\ w' = [w EXCEPT !.fault = None] /\ UNCHANGED s
    <3>1. w'.model = w.model /\ w'.service = w.service
      BY <1>1, <2>1 DEF HeldFields
    <3> QED
      BY <2>1, <3>1, SameOffer DEF Fetching
  <2>2. CASE at' = "lost" /\ UNCHANGED <<s, w>>
    BY <2>2, SameOffer DEF Fetching
  <2> QED
    BY <1>4, <2>1, <2>2, EndOffer DEF RecoverKeep
<1> QED
  BY <1>2, <1>3, <1>4

LEMMA OthersOffer ==
    ASSUME IInv, OfferInv, Others
    PROVE  OfferInv'
<1>1. /\ UNCHANGED <<at, s>> /\ w'.model = w.model /\ w'.service = w.service
      /\ w'.review = w.review /\ w'.fault = w.fault
  BY DEF Others, OtherAdd, OtherRemove, OtherInstall, OtherEdit, IInv, Plans, HeldFields
<1> QED
  BY <1>1 DEF OfferInv, Offer, BasketIsOffered, Curating

LEMMA StepOffer == IInv /\ OfferInv /\ [Next]_vars => OfferInv'
<1> SUFFICES ASSUME IInv, OfferInv, [Next]_vars PROVE OfferInv'
  OBVIOUS
<1>1. CASE Operator
  BY <1>1, NavigationOffer, ChoiceOffer, SourcesOffer, FinishingOffer, RecoverOffer DEF Operator
<1>2. CASE Program
  BY <1>2, SourcesOffer, ReadingOffer, PrepareReviewOffer, FinishingOffer DEF Program
<1>3. CASE Others
  BY <1>3, OthersOffer
<1>4. CASE UNCHANGED vars
  BY <1>4 DEF vars, OfferInv, Offer, BasketIsOffered, Curating
<1> QED
  BY <1>1, <1>2, <1>3, <1>4 DEF Next

\* Whatever way the operator went back and forth between the stages, and whatever failed on
\* the way: the review of an installation holds what the sources chosen in this session
\* offer and what fits the profiles, scope and mode chosen last (reconcile_basket,
\* prepare_consumer_action).
THEOREM SessionBasketOffered == Spec => []BasketIsOffered
<1>1. Init => IInv /\ OfferInv
  BY InitIInv, InitOffer
<1>2. IInv /\ OfferInv /\ [Next]_vars => IInv' /\ OfferInv'
  BY StepIInv, StepOffer
<1>3. OfferInv => BasketIsOffered
  BY DEF OfferInv
<1> QED
  BY <1>1, <1>2, <1>3, PTL DEF Spec
=============================================================================
