------------------------------ MODULE Reporting ------------------------------
(* The optional usage report of a session (reporting/), from the registries  *)
(* that ask for one to the issue it becomes: where a report may go is loaded *)
(* from the configuration, the policy and the snapshots, by the wizard       *)
(* before the basket is chosen and by the command line after it was applied; *)
(* what it says is projected from the session's outcome; and it goes out     *)
(* with the operator's consent, or by an explicit automatic setting.         *)
EXTENDS Settings, TLC

CONSTANTS Rejected,    \* an error
          MaxPrefill,  \* results a prefilled issue has room for (32768 characters of URL)
          Configurations, Fetched,  \* the users' settings and snapshots a session may start with
          Snapshots,   \* what a synchronization may bring
          Baskets      \* the artifacts a session may be about

VARIABLES user,       \* the configuration of the session
          rules,      \* the organization's policy
          snapshots,  \* by registry: [services, coherent], None without a snapshot
          service,    \* where reports may go, with what it was loaded from
          stage,      \* of the session: "open", "applied", "prepared"
          session,    \* what was done, None before
          offers,     \* the reports not yet offered
          sent        \* the reports submitted

-----------------------------------------------------------------------------
(* Where a report may go.                                                    *)

\* An explicit destination; prompt without one goes by the artifacts' registries.
ConfiguredReportingSource(effective) ==
    LET reporting == effective.reporting
        matches == {s \in effective.sources : s.enabled /\ s.alias = reporting.destination}
    IN  CASE reporting.mode = "disabled" -> None
          [] reporting.mode # "disabled" /\ reporting.destination = None ->
                IF reporting.mode = "prompt" THEN None ELSE Rejected
          [] OTHER -> IF \E s \in matches : matches = {s} /\ s.kind = "registry-git"
                      THEN CHOOSE s \in matches : TRUE ELSE Rejected

\* The manifest and the compiled index of a snapshot have to say the same.
CoherentServices(snapshot) == IF snapshot.coherent THEN snapshot.services ELSE Rejected

\* A registry names a repository, on its own host only.
DestinationFromServices(mode, source, services) ==
    LET advertised == {s \in services : s.name = "usage_reporting"} IN
    IF \E s \in advertised : advertised = {s} /\ s.kind = "github-issues" /\ s.repository # None
    THEN [mode |-> mode, host |-> source.location.host,
          repository |-> (CHOOSE s \in advertised : TRUE).repository]
    ELSE Rejected

Advertised(mode, source) ==
    IF snapshots[source.alias] = None \/ CoherentServices(snapshots[source.alias]) = Rejected THEN Rejected
    ELSE DestinationFromServices(mode, source, CoherentServices(snapshots[source.alias]))

\* A central destination that cannot be had is an error, not a reason to go elsewhere.
ReportingDestinationFromCurrent(effective) ==
    LET selected == ConfiguredReportingSource(effective) IN
    IF selected \in {None, Rejected} THEN selected ELSE Advertised(effective.reporting.mode, selected)

\* The registries that may be asked about one by one; the others are only told of.
ReportingRoutesFromCurrent(effective, policy) ==
    LET eligible == {s \in effective.sources :
            /\ s.enabled /\ s.kind = "registry-git"
            /\ ~(policy.denyPublic /\ s.location.host \in PublicHosts)
            /\ Advertised("prompt", s) # Rejected}
    IN  IF effective.reporting # [mode |-> "prompt", destination |-> None] THEN <<>>
        ELSE [alias \in {s.alias : s \in eligible} |->
                Advertised("prompt", CHOOSE s \in eligible : s.alias = alias)]

LoadLocalReportingService ==
    LET effective == ApplyConfiguration(user, NoOverrides, rules, FALSE) IN
    IF effective = None THEN Rejected
    ELSE LET destination == ReportingDestinationFromCurrent(effective) IN
         IF destination = Rejected THEN Rejected
         ELSE [destination |-> destination, routes |-> ReportingRoutesFromCurrent(effective, rules),
               effective |-> effective, rules |-> rules]

-----------------------------------------------------------------------------
(* What it says.                                                             *)

ArtifactFailures == {"source-unavailable", "broken", "conflict", "failed", "interrupted"}
SetupSuccess == {"not-required", "configured", "already-configured"}
SetupCancelled == {"cancelled", "queue-declined"}
ArtifactNoop == {"current", "update-available", "missing", "drifted", "skipped", "unsupported"}

ArtifactOutcomes ==
    {"changed", "removed", "removed-upstream", "identity-changed", "retargeted", "replaced", "cancelled"}
      \cup ArtifactFailures \cup ArtifactNoop
SetupOutcomes ==
    {"pending", "skipped", "unsupported", "prerequisite-missing", "apply-failed-rolled-back",
     "rollback-incomplete", "verification-failed", "conflicted", "failed", "rolled-back", "planning-failed"}
      \cup SetupSuccess \cup SetupCancelled
FailureCategories ==
    {"dependency", "network", "permission", "credential-store", "configuration", "verification",
     "user-cancelled", "unsupported", "conflict", "unexpected"}

SessionOutcomes == {"succeeded", "no-op", "partial", "failed", "cancelled"}

\* What a report may say of one artifact.
Reportable ==
    [artifact : UNION Baskets, outcome : ArtifactOutcomes, setup : SetupOutcomes,
     failure : FailureCategories \cup {None}]

ASSUME ReportingAssumption ==
    /\ \A basket \in Baskets : IsFiniteSet(basket) /\ basket # {}
    /\ Rejected \notin [results : SUBSET Reportable, outcome : SessionOutcomes]

\* The category of what went wrong, the artifact first.
Failure(status, state) ==
    CASE status = "source-unavailable" -> "network"
      [] status = "conflict" -> "conflict"
      [] status = "broken" -> "configuration"
      [] status = "failed" -> "unexpected"
      [] status = "interrupted" -> "user-cancelled"
      [] status \notin ArtifactFailures /\ state # None /\ state.phase # None ->
            CASE state.status \in SetupCancelled -> "user-cancelled"
              [] state.status = "unsupported" -> "unsupported"
              [] state.status = "prerequisite-missing" -> "dependency"
              [] state.status = "conflicted" -> "conflict"
              [] state.status = "verification-failed" -> "verification"
              [] OTHER -> CASE state.phase = "verification" -> "verification"
                            [] state.phase \in {"rollback", "queue"} -> "configuration"
                            [] OTHER -> "unexpected"
      [] OTHER -> None

\* One result for each reviewed artifact.  Each setup state has to belong to one.
UsageReportFromConsumer(done) ==
    LET state(a) == IF \E s \in done.states : s.key = <<a, "version">>
                    THEN CHOOSE s \in done.states : s.key = <<a, "version">> ELSE None
    IN  IF \E s \in done.states : s.key \notin {<<a, "version">> : a \in DOMAIN done.terminal} THEN Rejected
        ELSE {[artifact |-> a, outcome |-> done.terminal[a].status,
               setup |-> IF state(a) = None THEN done.terminal[a].setup ELSE state(a).status,
               failure |-> Failure(done.terminal[a].status, state(a))] : a \in DOMAIN done.terminal}

SessionOutcome(results) ==
    LET failed == {r \in results : r.outcome \in ArtifactFailures
                                     \/ r.setup \notin SetupSuccess \cup SetupCancelled}
        cancelled == {r \in results : r.outcome = "cancelled" \/ r.setup \in SetupCancelled}
        successful == Cardinality(results) - Cardinality(failed) - Cardinality(cancelled)
    IN  CASE failed # {} -> IF successful # 0 \/ cancelled # {} THEN "partial" ELSE "failed"
          [] failed = {} /\ cancelled # {} -> IF successful # 0 THEN "partial" ELSE "cancelled"
          [] OTHER -> IF \A r \in results : r.outcome \in ArtifactNoop THEN "no-op" ELSE "succeeded"

\* The body of the issue, and what the registry's own workflow makes of it.
UsageReportBytes(results) == [results |-> results, outcome |-> SessionOutcome(results)]

ParseIssueBody(body) ==
    IF body.results # {} /\ body.outcome = SessionOutcome(body.results) THEN body ELSE Rejected

-----------------------------------------------------------------------------
(* The reports of a session.                                                 *)

\* Whose registry offers an artifact: two artifacts of two registries with one
\* endpoint, one of a public registry, one of a direct source.
SourceOf == ("x" :> "a") @@ ("y" :> "b") @@ ("z" :> "c") @@ ("w" :> "d")

Fits(plan) == plan.destination.mode = "prompt" => Cardinality(plan.results) <= MaxPrefill

\* A faulty variant: every registry of the session is sent all of it.
Combined_PrepareRouted(loaded, results) ==
    LET ends == IF loaded.destination # None THEN {loaded.destination}
                ELSE {loaded.routes[SourceOf[r.artifact]] :
                        r \in {r \in results : SourceOf[r.artifact] \in DOMAIN loaded.routes}}
        plans == {[destination |-> end, results |-> results] : end \in ends}
    IN  IF \A p \in plans : Fits(p) THEN plans ELSE {}

\* One report for the central destination, or one for each endpoint, of the results
\* that came from its registries; none at all when one of them cannot be made.
PrepareRouted(loaded, results) ==
    LET routed == {r \in results : SourceOf[r.artifact] \in DOMAIN loaded.routes}
        plans == IF loaded.destination # None THEN {[destination |-> loaded.destination, results |-> results]}
                 ELSE {[destination |-> end,
                        results |-> {r \in routed : loaded.routes[SourceOf[r.artifact]] = end}] :
                          end \in {loaded.routes[SourceOf[r.artifact]] : r \in routed}}
    IN  IF \A p \in plans : Fits(p) THEN plans ELSE {}

\* A plan is only submitted to where the service may send, by the provider of its mode.
MaySubmit(loaded, plan) ==
    plan.destination \in IF loaded.destination # None THEN {loaded.destination}
                         ELSE {loaded.routes[alias] : alias \in DOMAIN loaded.routes}

\* How an artifact's part ends: setup is due where it was placed.
Terminal(status, setup) ==
    [status |-> status,
     setup |-> IF ~setup THEN "not-required" ELSE IF status \in {"changed", "current"} THEN "pending" ELSE "skipped"]

\* What the setup queue leaves to report of x, the artifact that needs setup.  The
\* wizard finds the reviewed key again; the command line gives the key of the setup,
\* which has no version.
States(interface, queue) ==
    LET key == IF interface = "tui" \/ queue = "planning-failed" THEN <<"x", "version">> ELSE <<"x">>
        phase == IF queue = "configured" THEN None
                 ELSE IF queue \in {"queue-declined", "planning-failed"} THEN "queue"
                 ELSE IF interface = "cli" THEN None
                 ELSE IF queue = "rollback-incomplete" THEN "rollback" ELSE "setup-installer"
    IN  IF queue = "none" THEN {} ELSE {[key |-> key, status |-> queue, phase |-> phase]}

-----------------------------------------------------------------------------
ReportingInit ==
    /\ user \in Configurations
    /\ rules = DefaultOrganizationPolicy
    /\ snapshots \in Fetched
    /\ service = None
    /\ stage = "open"
    /\ session = None
    /\ offers = {}
    /\ sent = {}

\* The wizard loads the service when the sources are chosen.
OpenWizard ==
    /\ service = None /\ stage = "open"
    /\ service' = LoadLocalReportingService
    /\ UNCHANGED <<user, rules, snapshots, stage, session, offers, sent>>

\* A policy is deployed, or a registry synchronized, while the session goes on.
DeployPolicy(policy) ==
    /\ stage # "prepared"
    /\ rules = DefaultOrganizationPolicy /\ rules' = policy /\ rules' # rules
    /\ UNCHANGED <<user, snapshots, service, stage, session, offers, sent>>

Synchronize(alias, snapshot) ==
    /\ stage = "open" /\ service # None
    /\ snapshots[alias] = None /\ snapshots' = [snapshots EXCEPT ![alias] = snapshot] /\ snapshot # None
    /\ UNCHANGED <<user, rules, service, stage, session, offers, sent>>

\* The basket is applied, with the setups it asks for.
Act(basket, action, status, others, queue) ==
    LET interface == IF service = None THEN "cli" ELSE "tui"
        terminal == [a \in basket |->
            IF a = "x" THEN IF action # "install" /\ status = "failed" THEN [status |-> "failed", setup |-> "not-required"]
                            ELSE Terminal(status, TRUE)
            ELSE Terminal(others, FALSE)]
        pending == "x" \in basket /\ terminal["x"].setup = "pending"
    IN  /\ stage = "open" /\ stage' = "applied"
        /\ queue # "none" => pending
        /\ pending /\ interface = "tui" => queue # "none"
        /\ queue = "queue-declined" => interface = "tui"
        /\ session' = [interface |-> interface, terminal |-> terminal, states |-> States(interface, queue)]
        /\ UNCHANGED <<user, rules, snapshots, service, offers, sent>>

\* The command line loads the service now.  No service, or no report, and the
\* outcome of the session stands as it is.
Prepare ==
    LET loaded == IF session.interface = "tui" THEN service ELSE LoadLocalReportingService
        results == UsageReportFromConsumer(session)
    IN  /\ stage = "applied" /\ stage' = "prepared"
        /\ service' = loaded
        /\ offers' = IF loaded = Rejected \/ results = Rejected THEN {} ELSE PrepareRouted(loaded, results)
        /\ UNCHANGED <<user, rules, snapshots, session, sent>>

\* Each report is offered by itself: shared, shown, opened.  With --json, and where
\* nobody can answer, only an automatic one goes out.  The provider may fail.
Offer(plan, share, open, delivered) ==
    LET prompt == plan.destination.mode = "prompt"
        submit == (prompt => share /\ open) /\ MaySubmit(service, plan)
    IN  /\ plan \in offers
        /\ open => share
        /\ offers' = offers \ {plan}
        /\ sent' = IF submit /\ delivered
                   THEN sent \cup {[destination |-> plan.destination, body |-> UsageReportBytes(plan.results),
                                    consent |-> share /\ open]}
                   ELSE sent
        /\ UNCHANGED <<user, rules, snapshots, service, stage, session>>

Outcomes == {<<"install", "changed">>, <<"install", "failed">>, <<"uninstall", "removed">>,
             <<"uninstall", "failed">>, <<"status", "current">>, <<"status", "source-unavailable">>}

ReportingNext ==
    \/ OpenWizard
    \/ \E policy \in Policies : DeployPolicy(policy)
    \/ \E alias \in DOMAIN snapshots, snapshot \in Snapshots : Synchronize(alias, snapshot)
    \/ \E basket \in Baskets, o \in Outcomes, others \in {"failed", "current"},
          queue \in {"none", "planning-failed", "queue-declined", "configured", "cancelled", "rollback-incomplete"} :
          Act(basket, o[1], o[2], others, queue)
    \/ Prepare
    \/ \E plan \in offers, share, open, delivered \in BOOLEAN : Offer(plan, share, open, delivered)

reporting == <<user, rules, snapshots, service, stage, session, offers, sent>>

ReportingSpec == ReportingInit /\ [][ReportingNext]_reporting

-----------------------------------------------------------------------------
\* What the session did to an artifact ended well, as its operator sees it: setup was
\* made, or nobody asked for it.
Well(result) ==
    result.outcome \notin ArtifactFailures /\ result.setup \in SetupSuccess \cup {"skipped", "pending"}

\* An artifact that needs setup and was removed, or only looked at: the report counts
\* the setup that nobody asked for as a failure (reporting/model.py:_session_outcome).
Miscounted(result) == result.setup \in {"skipped", "pending"} /\ result.outcome \notin ArtifactFailures

\* A report leaves the machine only where it may: with the operator's consent to that
\* report, or by an automatic setting that names its destination; to a repository on
\* the host of an enabled registry, not a public one where the policy forbids it; and,
\* where no destination is named, only with artifacts of that registry.  One report
\* goes to a destination, the other side accepts it, and the outcome it states is that
\* of the artifacts in it.
ReportsStayHome ==
    /\ \A s \in sent :
        LET effective == service.effective IN
        /\ s.destination.mode = "prompt" => s.consent
        /\ s.destination.mode = "automatic" =>
              effective.reporting.mode = "automatic" /\ effective.reporting.destination # None
        /\ \E source \in effective.sources : source.enabled /\ source.kind = "registry-git"
                                             /\ source.location.host = s.destination.host
        /\ service.rules.denyPublic => s.destination.host \notin PublicHosts
        /\ effective.reporting.destination = None =>
              \A r \in s.body.results : \E source \in effective.sources :
                  source.alias = SourceOf[r.artifact] /\ source.kind = "registry-git"
                    /\ source.location.host = s.destination.host
        /\ ParseIssueBody(s.body) # Rejected
        /\ (\A r \in s.body.results : ~Miscounted(r)) =>
              /\ s.body.outcome \in {"succeeded", "no-op"} <=> \A r \in s.body.results : Well(r)
              /\ s.body.outcome = "failed" => \A r \in s.body.results : ~Well(r)
    /\ \A s, t \in sent : s.destination = t.destination => s = t
=============================================================================
