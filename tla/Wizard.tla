------------------------------- MODULE Wizard -------------------------------
(* The wizard's session value and the plans of its Sources screen, as       *)
(* functions: wizard.py says which stages a session has and what selecting, *)
(* advancing and going back do to it; tui_sources.py turns a choice on the  *)
(* Sources screen into a before/after pair of configurations.               *)
(* Cursor positions, notices and the revision number are left out:          *)
(* can_finalize is only ever asked about the session's own revision.        *)
EXTENDS FiniteSets, Integers, SequencesExt

CONSTANTS
    Sources,        \* aliases that may be configured
    Registries,     \* the ones that are registries, the others being direct
    Required,       \* the aliases the organization's policy requires
    AllowDirect,    \* whether it allows direct sources
    Profiles,       \* harness profiles
    Curations,      \* the curation actions of the maintainer menu
    Detailed,       \* the ones that ask for details first
    None            \* no value

ASSUME WizardAssumption ==
    /\ Registries \subseteq Sources
    /\ Required \subseteq Sources
    /\ Detailed \subseteq Curations
    /\ AllowDirect \in BOOLEAN
    /\ "user" \notin Curations
    /\ None \notin Sources \cup Curations \cup
                    {"user", "maintainer", "install", "update", "uninstall", "status"}

Scopes == {"project", "user"}

Modes == {"copy", "symlink"}

ConsumerActions == {"install", "update", "uninstall", "status"}

-----------------------------------------------------------------------------
(* The session.                                                             *)

initial_session ==
    [current |-> "onboarding", confirmed |-> {}, role |-> None, curation |-> None,
     profiles |-> {}, action |-> None, scope |-> "project", mode |-> "copy",
     selection |-> None, checkout |-> FALSE, basket |-> {}]

UserStages(s) ==
    <<"profiles", "action">> \o
    (IF s.action = None THEN <<>> ELSE <<"scope">>) \o
    (IF s.action = "install" THEN <<"mode">> ELSE <<>>) \o
    (IF s.action \in {"install", "update", "uninstall"} THEN <<"artifacts">> ELSE <<>>) \o
    (IF s.action = None THEN <<>> ELSE <<"review">>)

Stages(s) ==
    <<"onboarding", "role">> \o
    CASE s.role = None -> <<>>
      [] s.role = "user" -> <<"source">> \o UserStages(s)
      [] s.role = "maintainer" ->
            (IF s.checkout THEN <<>> ELSE <<"source">>) \o <<"maintainer_action">> \o
            CASE s.curation = None -> <<>>
              [] s.curation = "user" -> UserStages(s)
              [] s.curation \in Detailed -> <<"native_details", "review">>
              [] OTHER -> <<"review">>

Position(stages, stage) == CHOOSE i \in DOMAIN stages : stages[i] = stage

StageReady(s) ==
    CASE s.current = "role" -> s.role # None
      [] s.current = "maintainer_action" -> s.curation # None
      [] s.current = "source" -> s.selection # None
      [] s.current = "profiles" -> s.profiles # {}
      [] s.current = "action" -> s.action # None
      [] s.current = "artifacts" -> s.basket # {}
      [] OTHER -> TRUE

Unconfirm(confirmed, stages, stage) ==
    IF stage \notin ToSet(stages) THEN confirmed
    ELSE confirmed \ {stages[i] : i \in Position(stages, stage) .. Len(stages)}

\* A changed value takes back the confirmation of its stage and of what follows.
Select(s, stage, changed) ==
    IF changed = s THEN s
    ELSE LET stages == Stages(changed) IN
         [changed EXCEPT !.current = IF @ \in ToSet(stages) THEN @ ELSE stage,
                         !.confirmed = Unconfirm(@, stages, stage)]

SelectRole(s, role) == Select(s, "role", [s EXCEPT !.role = role, !.checkout = FALSE])

UseCurrentCheckout(s) ==
    IF s.role # "maintainer" \/ s.checkout THEN s
    ELSE LET changed == [s EXCEPT !.checkout = TRUE, !.selection = None]
             stages == Stages(changed)
         IN  [changed EXCEPT
                !.current = IF @ \in ToSet(stages) THEN @ ELSE "maintainer_action",
                !.confirmed = Unconfirm(@, stages, "maintainer_action")]

Advance(s) ==
    LET stages == Stages(s) IN
    IF s.current \notin ToSet(stages) \/ ~StageReady(s) THEN s
    ELSE LET i == Position(stages, s.current) IN
         [s EXCEPT !.confirmed = @ \cup {s.current},
                   !.current = IF i = Len(stages) THEN @ ELSE stages[i + 1]]

Back(s) ==
    LET stages == Stages(s) IN
    IF s.current \notin ToSet(stages) THEN [s EXCEPT !.current = Last(stages)]
    ELSE LET i == Position(stages, s.current) IN
         IF i = 1 THEN s
         ELSE [s EXCEPT !.current = stages[i - 1],
                        !.confirmed = Unconfirm(@, stages, stages[i - 1])]

\* A faulty variant: an item the new choices exclude stays in the basket.
Lenient_Reconcile(s, available) == s

Reconcile(s, available) ==
    IF s.basket \subseteq available THEN s
    ELSE [s EXCEPT !.basket = @ \cap available,
                   !.confirmed = Unconfirm(@, Stages(s), "artifacts")]

CanFinalize(s) ==
    LET stages == Stages(s) IN
    /\ s.current = "review"
    /\ Last(stages) = "review"
    /\ ToSet(Front(stages)) \subseteq s.confirmed

-----------------------------------------------------------------------------
(* The Sources screen.  A configuration says which aliases are configured,  *)
(* which of them are enabled and which registry is the default; a view is   *)
(* the configuration and the managed snapshots as the screen last read them. *)

Configurations ==
    [state : [Sources -> {"absent", "off", "on"}], default : Sources \cup {None}]

Configured(c) == {x \in Sources : c.state[x] # "absent"}

Enabled(c) == {x \in Sources : c.state[x] = "on"}

\* An enabled source whose managed state is unreadable cannot be chosen, a
\* disabled one hides its health.
DisplayHealth(view, x) ==
    IF view.config.state[x] # "on" THEN "disabled" ELSE view.snap[x]

Selectable(view, x) ==
    /\ x \in Registries \/ AllowDirect
    /\ DisplayHealth(view, x) # "invalid"

DefaultRegistry(view, chosen) ==
    LET current == view.config.default
        registries == chosen \cap Registries
    IN  CASE current # None /\ current \in chosen -> current
          [] (current = None \/ current \notin chosen) /\ registries # {} ->
                CHOOSE x \in registries : TRUE
          [] OTHER -> None

\* The choices plan_source_management accepts ...
Plannable(view, chosen) ==
    /\ chosen # {}
    /\ chosen \subseteq Configured(view.config)
    /\ \A x \in chosen : Selectable(view, x)
    /\ Required \subseteq chosen

\* ... and the deferred request it makes of one.
Selection(view, chosen) ==
    [before |-> view.config,
     after |-> [state |-> [x \in Sources |->
                             CASE x \in chosen -> "on"
                               [] x \in Configured(view.config) \ chosen -> "off"
                               [] OTHER -> "absent"],
                default |-> DefaultRegistry(view, chosen)]]

Operations(selection) == selection.before # selection.after

\* Both frontends ask for the default exactly when no registry is configured,
\* and a direct source cannot be one.
MakesDefault(view) == Configured(view.config) \cap Registries = {}

CanAdd(view, x) ==
    /\ x \notin Configured(view.config)
    /\ x \in Registries \/ AllowDirect
    /\ MakesDefault(view) => x \in Registries

Addition(view, x) ==
    [kind |-> "add", alias |-> x, before |-> view.config,
     after |-> [state |-> [view.config.state EXCEPT ![x] = "on"],
                default |-> IF MakesDefault(view) THEN x ELSE view.config.default]]

CanRemove(view, x) == x \in Configured(view.config) \ Required

\* A faulty variant: the default registry outlives its source.
Dangling_Removal(view, x) ==
    [kind |-> "remove", alias |-> x, before |-> view.config,
     after |-> [view.config EXCEPT !.state[x] = "absent"]]

Removal(view, x) ==
    [kind |-> "remove", alias |-> x, before |-> view.config,
     after |-> [state |-> [view.config.state EXCEPT ![x] = "absent"],
                default |-> IF view.config.default = x THEN None ELSE view.config.default]]

\* A synchronization and a resubscription write no configuration.
Refreshing(view, x) ==
    [kind |-> "sync", alias |-> x, before |-> view.config, after |-> view.config]

CanResubscribe(view, x) == x \in Enabled(view.config)
=============================================================================
