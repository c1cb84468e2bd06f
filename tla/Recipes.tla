------------------------------- MODULE Recipes -------------------------------
(* One setup recipe from its author to the record of its run: accepted or    *)
(* not, planned under a policy, run with any outcome, recorded, verified and *)
(* rolled back (setup.py, setup_verify.py, setup_engine/application.py as    *)
(* Recipe translates their decisions).                                       *)
EXTENDS Recipe, TLC

CONSTANT Authored  \* the recipes an author may write

VARIABLES recipe,    \* what the author wrote
          allowed,   \* the capabilities the organization allows, None for all
          plan,      \* the reviewed plan, None before it is accepted
          stored,    \* the records of the setup state
          found,     \* what is in the world at each place
          reported   \* what the last verification said, None before it

-----------------------------------------------------------------------------
\* Steps are of the modules there are; any number of them may be at one target.
ASSUME RecipesAssumption ==
    \A r \in Authored :
        /\ Len(r.steps) \in Nat /\ DOMAIN r.steps = 1 .. Len(r.steps)
        /\ \A i \in DOMAIN r.steps :
              r.steps[i].use \in Modules /\ <<r.steps[i].use, r.steps[i].id>> \notin {Absent, Unanswered}

Installed(source) ==
    [name |-> "x", source |-> source, profile |-> "claude", scope |-> "project", version |-> 1, object |-> "o"]

\* Where the steps of the recipe leave something, and what.
Places ==
    {PlaceOf(EffectForStep(Item(Installed("r"), recipe), recipe.steps[i])) : i \in DOMAIN recipe.steps} \cup OwnPlaces

LeftBy(effect) == <<effect.use, effect.step>>

RecipesInit ==
    /\ recipe \in Authored
    /\ allowed \in {None, {"managed-file", "docker-pull", "network"}}
    /\ plan = None
    /\ stored = <<>>
    /\ found = [s \in Places |-> Absent]
    /\ reported = None

\* A review: the installed item, its object, its trust and the policy, once more.
Review(source, trust, authorized, object, platform) ==
    LET request == [name |-> "x", source |-> "r", profile |-> "claude", scope |-> "project",
                    authorizeSource |-> authorized, authorizeCustom |-> authorized]
        offered == {[name |-> "x", source |-> "r", version |-> 1, object |-> "o", trust |-> trust]}
        items == PrepareSetupObject(request, {Installed(source)}, offered,
                     [o \in {"o"} |-> [digest |-> object, recipe |-> recipe, executable |-> TRUE]],
                     [capabilities |-> allowed, custom |-> TRUE])
    IN  /\ plan = None
        /\ \E item \in items : plan' = PlanSetup(item, platform, "root")
        /\ UNCHANGED <<recipe, allowed, stored, found, reported>>

Receipt(effect) ==
    [step |-> effect.step, use |-> effect.use, target |-> effect.target, marker |-> effect.marker,
     content |-> IF effect.use \in BlockModules \cup {"build"} THEN LeftBy(effect) ELSE None,
     run |-> IF effect.use = "custom" THEN <<"root", plan>> ELSE None, compensated |-> FALSE]

\* The plan is run to its end, or up to a step that fails and is taken back.  Of steps
\* at one place the last is what is found there.
Run(status) ==
    LET at(s) == {i \in DOMAIN plan.effects : plan.effects[i].use # "custom" /\ PlaceOf(plan.effects[i]) = s}
        receipts == IF status = "configured" THEN [i \in DOMAIN plan.effects |-> Receipt(plan.effects[i])] ELSE <<>>
        record == RecordFor(plan.item, status, receipts, IF status = "configured" THEN EvidenceFields ELSE {})
    IN  /\ plan # None /\ stored = <<>>
        /\ (plan.status = None) = (status \notin {"unsupported", "prerequisite_missing"})
        /\ plan.status # None => status = plan.status
        /\ PreviousRecord([kind |-> "absent", records |-> stored])
        /\ stored' = UpsertSetupRecord(stored, record)
        /\ ParseSetupState(stored')
        /\ found' = [s \in Places |->
                       IF status = "configured" /\ at(s) # {} THEN LeftBy(plan.effects[Max(at(s))])
                       ELSE IF status = "configured" /\ s \in OwnPlaces THEN s
                       ELSE found[s]]
        /\ UNCHANGED <<recipe, allowed, plan, reported>>

\* The plan for two harnesses, one after the other; what a stopped queue does not
\* reach leaves no record.
Queue(outcomes, stop) ==
    LET items == <<plan.item, [plan.item EXCEPT !.profile = "codex"]>>
        ended == ExecuteSetupQueue(outcomes, stop)
        upsert(i, records) == IF ended[i] = "skipped" THEN records
                              ELSE UpsertSetupRecord(records, RecordFor(items[i], ended[i], <<>>, {}))
    IN  /\ plan # None /\ plan.status = None /\ stored = <<>>
        /\ stored' = upsert(2, upsert(1, stored))
        /\ reported' = [again |-> RetryablePlans(items, ended), items |-> ToSet(items)]
        /\ UNCHANGED <<recipe, allowed, plan, found>>

\* Of a setup just found whole the operator removes something, or a probe gets no
\* answer.
Lose(place, answer) ==
    /\ Len(stored) = 1 /\ found[place] \notin {Absent, Unanswered}
    /\ reported # None
    /\ \A c \in DOMAIN reported.claims : reported.claims[c] = "true"
    /\ found' = [found EXCEPT ![place] = answer]
    /\ reported' = None /\ UNCHANGED <<recipe, allowed, plan, stored>>

VerifyRecord ==
    /\ Len(stored) = 1
    /\ reported' = [claims |-> [c \in PlanVerification(stored[1]) |-> Verify(c, found)]]
    /\ UNCHANGED <<recipe, allowed, plan, stored, found>>

Rollback(owner) ==
    /\ Len(stored) = 1
    /\ RollbackSetup(plan, stored[1], stored[1], owner, "o")
    /\ stored' = UpsertSetupRecord(stored, [stored[1] EXCEPT !.status = "skipped", !.receipts = <<>>])
    /\ found' = [s \in Places |->
                    IF \E i \in DOMAIN plan.effects : plan.effects[i].reversible /\ PlaceOf(plan.effects[i]) = s
                    THEN Absent ELSE found[s]]
    /\ reported' = None /\ UNCHANGED <<recipe, allowed, plan>>

\* The source, its trust, the authorization, the object and the platform.
Reviews ==
    ({"r"} \X {"company-reviewed", "local"} \X BOOLEAN \X {"o"} \X {"darwin", "linux"})
      \cup {<<"s", "company-reviewed", TRUE, "o", "darwin">>, <<"r", "company-reviewed", TRUE, "p", "darwin">>}

RecipesNext ==
    \/ \E review \in Reviews : Review(review[1], review[2], review[3], review[4], review[5])
    \/ \E status \in {"configured", "verification_failed", "unsupported"} : Run(status)
    \/ \E outcomes \in [1..2 -> {"configured", "already_configured", "cancelled", "rollback_incomplete"}],
          stop \in BOOLEAN : Queue(outcomes, stop)
    \/ \E place \in Places, answer \in {Absent, Unanswered} : Lose(place, answer)
    \/ VerifyRecord
    \/ \E owner \in {{"o"}, {"o", "p"}} : Rollback(owner)

recipes == <<recipe, allowed, plan, stored, found, reported>>

RecipesSpec == RecipesInit /\ [][RecipesNext]_recipes

-----------------------------------------------------------------------------
\* What the author has to declare for what policy and index call it.
Declared(capability) ==
    CASE capability = "managed-file" -> "filesystem"
      [] capability \in {"docker-pull", "docker-build"} -> "docker"
      [] capability = "verify-command" -> "process"
      [] OTHER -> capability

\* What a claim is about was replaced by a later step of the same recipe.
Superseded(claim) ==
    LET receipts == stored[1].receipts IN
    \E i, j \in DOMAIN receipts :
        /\ i < j /\ receipts[i].content = claim.content
        /\ PlaceOf(receipts[i]) = claim.subject /\ PlaceOf(receipts[j]) = claim.subject
        /\ found[claim.subject] = LeftBy(receipts[j])

\* A recipe is judged in two vocabularies: its author declares capabilities, and a
\* policy and the index speak of planned ones.  Whatever a plan that passed the
\* review does, its author declared it and the policy allows it, and no secret goes
\* anywhere but into the Keychain (setup.py:_validate_step); and a retry is offered for
\* exactly the items of a queue that have no record of success.  Verifying a record never
\* reports as there what is not, nor as gone what is, but in two cases.  A block in a file
\* that cannot be read is reported as gone and not as unknown (setup_verify.py:285-288,
\* which its lines 10-12 and 68-69 deny).  And of two steps at one place, which nothing
\* refuses (two lookups in one file have one marker, setup.py:805), the block of the first
\* is reported as changed right after a run that is recorded as configured.
CapabilitiesDeclared ==
    /\ plan # None =>
         /\ \A c \in PlannedCapabilities(recipe) : Declared(c) \in recipe.capabilities
         /\ allowed # None => PlannedCapabilities(recipe) \subseteq allowed
         /\ \A i \in DOMAIN recipe.steps :
              recipe.steps[i].interpolates \cap InputIds(recipe, "secret") # {} =>
                  recipe.steps[i].use = "keychain-store"
    /\ reported # None /\ "again" \in DOMAIN reported =>
         \A item \in reported.items : item \in reported.again <=>
             ~\E i \in DOMAIN stored : /\ stored[i].profile = item.profile
                                       /\ stored[i].status \in {"configured", "already_configured"}
    /\ reported # None /\ "claims" \in DOMAIN reported =>
         \A c \in DOMAIN reported.claims :
             /\ reported.claims[c] = "true" => found[c.subject] \notin {Absent, Unanswered}
             /\ reported.claims[c] = "false" =>
                  \/ found[c.subject] = Absent
                  \/ c.kind = "block-present" /\ found[c.subject] = Unanswered
                  \/ Superseded(c)
==============================================================================
