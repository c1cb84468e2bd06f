------------------------------- MODULE Recipe -------------------------------
(* A setup recipe on its way from its author to a reviewed plan, and the    *)
(* records a run of it leaves (setup.py), the questions a record licenses   *)
(* (setup_verify.py) and what the engine lets through                       *)
(* (setup_engine/application.py).  Setup models how a plan is applied.      *)
(*                                                                          *)
(* A recipe is [artifact, platforms, tools, capabilities, inputs, steps,    *)
(* custom, shaped]; an input [id, type]; a step [id, use, target, marker,   *)
(* inputs, interpolates, replace, shaped].  shaped stands for the fields    *)
(* being there, alone, and of their form.                                   *)
EXTENDS Nothing, Integers, Sequences, FiniteSets, SequencesExt

CONSTANTS Absent, Unanswered

-----------------------------------------------------------------------------
(* The modules a step can use.                                              *)

BlockModules == {"env-from-keychain", "env-from-input", "managed-block"}

FileModules == BlockModules \cup {"json-merge", "directory"}

Modules == FileModules \cup {"keychain-store", "pull", "build", "export", "verify", "notice"}

\* The capability the author has to declare for a module.
ModuleCapability(use) ==
    CASE use = "keychain-store" -> "keychain"
      [] use \in FileModules -> "filesystem"
      [] use \in {"pull", "build"} -> "docker"
      [] use = "export" -> "trust-store"
      [] use = "verify" -> "process"
      [] OTHER -> None

ASSUME RecipeAssumption == \A use \in Modules \ {"notice"} : ModuleCapability(use) # None

\* What policy and the index call it.
PlannedFor(use) ==
    CASE use = "keychain-store" -> {"keychain"}
      [] use \in FileModules -> {"managed-file"}
      [] use = "pull" -> {"docker-pull", "network"}
      [] use = "build" -> {"docker-build", "network", "process"}
      [] use = "export" -> {"trust-store"}
      [] use = "verify" -> {"verify-command"}
      [] OTHER -> {}

PlannedCapabilities(recipe) ==
    (UNION {PlannedFor(recipe.steps[i].use) : i \in DOMAIN recipe.steps})
      \cup (IF recipe.custom # None THEN {"custom-code"} ELSE {})

-----------------------------------------------------------------------------
(* Parsing.                                                                 *)

InputIds(recipe, type) == {i.id : i \in {i \in ToSet(recipe.inputs) : i.type = type}}

\* A faulty variant: only the module's own capability is asked for.
Lenient_ValidateStep(recipe, step) ==
    /\ step.shaped
    /\ ModuleCapability(step.use) # None => ModuleCapability(step.use) \in recipe.capabilities
    /\ step.use = "build" => "docker" \in recipe.tools
    /\ step.use = "export" => "security" \in recipe.tools
    /\ step.use = "keychain-store" => step.inputs \subseteq InputIds(recipe, "secret")
    /\ step.use = "env-from-input" => step.inputs \subseteq InputIds(recipe, "text")
    /\ step.use # "keychain-store" => step.interpolates \cap InputIds(recipe, "secret") = {}

\* Pulling and building need more than the module's own capability, and a secret
\* goes into the Keychain and nowhere else.
ValidateStep(recipe, step) ==
    /\ step.shaped
    /\ ModuleCapability(step.use) # None => ModuleCapability(step.use) \in recipe.capabilities
    /\ step.use \in {"pull", "build"} => {"network", "process"} \subseteq recipe.capabilities
    /\ step.use = "build" => "docker" \in recipe.tools
    /\ step.use = "export" => "security" \in recipe.tools
    /\ step.use = "keychain-store" => step.inputs \subseteq InputIds(recipe, "secret")
    /\ step.use = "env-from-input" => step.inputs # {} /\ step.inputs \subseteq InputIds(recipe, "text")
    /\ step.use # "keychain-store" => step.interpolates \cap InputIds(recipe, "secret") = {}

\* Certificates are exported into the one build's context, before it is built.
BuildsInOrder(steps) ==
    LET builds == {i \in DOMAIN steps : steps[i].use = "build"}
        exports == {i \in DOMAIN steps : steps[i].use = "export"}
    IN  /\ Cardinality(builds) <= 1
        /\ exports # {} => \E b \in builds, e \in exports : e < b

\* custom is the digest of the entrypoint, bound with the recipe.
ParseInstaller(recipe, artifact) ==
    /\ recipe.shaped
    /\ recipe.artifact = artifact /\ recipe.platforms = {"darwin"}
    /\ IsInjective([i \in DOMAIN recipe.inputs |-> recipe.inputs[i].id])
    /\ recipe.steps # <<>>
    /\ IsInjective([i \in DOMAIN recipe.steps |-> recipe.steps[i].id])
    /\ \A i \in DOMAIN recipe.steps : ValidateStep(recipe, recipe.steps[i])
    /\ BuildsInOrder(recipe.steps)
    /\ recipe.custom # None => {"custom-code", "process"} \subseteq recipe.capabilities

-----------------------------------------------------------------------------
(* Planning.                                                                *)

Item(installed, recipe) ==
    [name |-> installed.name, profile |-> installed.profile, scope |-> installed.scope,
     source |-> installed.source, version |-> installed.version, recipe |-> recipe]

\* The marker of a block names the step, but for a Keychain lookup, which has
\* one block for each artifact and profile.
EffectForStep(item, step) ==
    LET own == <<item.name, item.profile>> IN
    [step |-> step.id, use |-> step.use, capability |-> ModuleCapability(step.use),
     target |-> IF step.use = "build" THEN <<item.name, item.version>> ELSE step.target,
     marker |-> CASE step.use = "env-from-keychain" -> own
                  [] step.use = "env-from-input" -> Append(own, step.id)
                  [] step.use = "managed-block" ->
                       IF step.marker # None THEN step.marker ELSE Append(own, step.id)
                  [] OTHER -> step.marker,
     reversible |-> CASE step.use \in {"keychain-store", "json-merge"} -> ~step.replace
                      [] step.use \in {"pull", "verify", "notice"} -> FALSE
                      [] OTHER -> TRUE]

CustomEffect(item) ==
    [step |-> "custom", use |-> "custom", capability |-> "custom-code", target |-> <<item.name>>,
     marker |-> item.recipe.custom, reversible |-> TRUE]

\* A plan's hash binds all of it.
PlanSetup(item, platform, root) ==
    LET recipe == item.recipe
        unversioned == item.version = None /\ \E i \in DOMAIN recipe.steps : recipe.steps[i].use = "build"
        status == CASE platform \notin recipe.platforms -> "unsupported"
                    [] platform \in recipe.platforms /\ unversioned -> "prerequisite_missing"
                    [] OTHER -> None
        effects == [i \in DOMAIN recipe.steps |-> EffectForStep(item, recipe.steps[i])]
    IN  [item |-> item, root |-> root, status |-> status,
         effects |-> CASE status # None -> <<>>
                       [] status = None /\ recipe.custom = None -> effects
                       [] OTHER -> Append(effects, CustomEffect(item))]

\* The locator of a receipt is that of the effect of the same step and module.
ReceiptMatchesPlan(receipt, plan) ==
    \E i \in DOMAIN plan.effects :
        LET e == plan.effects[i] IN
        /\ e.step = receipt.step /\ e.use = receipt.use
        /\ receipt.target # None => receipt.target = e.target
        /\ e.use \in BlockModules \cup {"json-merge"} => receipt.marker = e.marker
        /\ e.use \in {"keychain-store", "directory", "pull", "build", "export"} => receipt.target = e.target
        /\ e.use = "custom" => receipt.marker = e.marker /\ receipt.run = <<plan.root, plan>>

-----------------------------------------------------------------------------
(* Records.                                                                 *)

EvidenceFields == {"object", "recipe", "trust", "policy", "capabilities", "review", "ref"}

TerminalStatuses ==
    {"configured", "already_configured", "cancelled", "skipped", "unsupported",
     "prerequisite_missing", "apply_failed_rolled_back", "rollback_incomplete",
     "verification_failed"}

\* The evidence is complete, or there is none.
ParseSetupState(records) ==
    \A i \in DOMAIN records :
        /\ records[i].status \in TerminalStatuses
        /\ records[i].evidence \in {{}, EvidenceFields}

RecordFor(item, status, receipts, evidence) ==
    [name |-> item.name, profile |-> item.profile, scope |-> item.scope, source |-> item.source,
     status |-> status, receipts |-> receipts, evidence |-> evidence]

\* The source is not part of the key.
SameSetup(r, s) == r.name = s.name /\ r.profile = s.profile /\ r.scope = s.scope

UpsertSetupRecord(records, record) ==
    IF \E i \in DOMAIN records : SameSetup(records[i], record)
    THEN [i \in DOMAIN records |-> IF SameSetup(records[i], record) THEN record ELSE records[i]]
    ELSE Append(records, record)

-----------------------------------------------------------------------------
(* Verification: what a record licenses is asked of the world, and what     *)
(* cannot be asked stays unknown.                                           *)

Claim(kind, subject, content) == [kind |-> kind, subject |-> subject, content |-> content]

\* Where what a step left is looked for: a block by its marker, in a file that other
\* blocks may share.
PlaceOf(receipt) ==
    <<receipt.target, IF receipt.use \in BlockModules THEN receipt.marker ELSE None>>

\* What is asked of the record itself.
OwnPlaces == {<<"record">>, <<"command">>, <<"runs">>} \X {None}

ClaimsForStep(receipt) ==
    LET place == PlaceOf(receipt) IN
    CASE receipt.target = None -> {}
      [] receipt.target # None /\ receipt.use = "pull" -> {Claim("image-present", place, None)}
      [] receipt.target # None /\ receipt.use = "build" ->
           {IF receipt.content = None THEN Claim("image-present", place, None)
            ELSE Claim("tag-resolves", place, receipt.content)}
      [] receipt.target # None /\ receipt.use = "keychain-store" ->
           {Claim("keychain-holds-value", place, None)}
      [] receipt.target # None /\ receipt.use \in BlockModules ->
           {IF receipt.content = None THEN Claim("file-present", place, None)
            ELSE Claim("block-present", place, receipt.content)}
      [] receipt.target # None /\ receipt.use \in {"export", "json-merge"} ->
           {Claim("file-present", place, None)}
      [] OTHER -> {}

\* The record itself is asked about too, whatever its steps.
PlanVerification(record) ==
    (UNION {ClaimsForStep(record.receipts[i]) :
              i \in {i \in DOMAIN record.receipts : ~record.receipts[i].compensated}})
      \cup {Claim("no-credential-in-record", <<<<"record">>, None>>, None)}
      \cup (IF record.receipts # <<>> THEN {Claim("rollback-command-runs", <<<<"command">>, None>>, None)} ELSE {})
      \cup (IF record.evidence # {} THEN {Claim("no-orphan-run", <<<<"runs">>, None>>, None)} ELSE {})

\* world is what a probe finds at each place: Absent, Unanswered or a content; a file
\* that cannot be read is taken for one that is gone where a block is asked for.
Verify(claim, world) ==
    LET found == world[claim.subject] IN
    CASE claim.kind = "block-present" -> IF found = claim.content THEN "true" ELSE "false"
      [] claim.kind # "block-present" /\ found = Unanswered -> "unknown"
      [] claim.kind = "tag-resolves" /\ found # Unanswered ->
           IF found = claim.content THEN "true" ELSE "false"
      [] OTHER -> IF found = Absent THEN "false" ELSE "true"

-----------------------------------------------------------------------------
(* The engine.                                                              *)

SelectedRecord(installations, request) ==
    {r \in installations : r.name = request.name /\ r.source = request.source
                             /\ r.profile = request.profile /\ r.scope = request.scope}

\* The marketplace still offers what is installed, from where it came.
ResolveInstalledItem(installed, offered) ==
    \E o \in offered : /\ o.name = installed.name /\ o.source = installed.source
                       /\ o.version = installed.version /\ o.object = installed.object

\* The object is read again, and its recipe parsed again: the entrypoint has to
\* be an executable file of it.
SetupRecipe(installed, object) ==
    /\ object # None /\ object.digest = installed.object /\ object.recipe # None
    /\ object.recipe.custom # None => object.executable
    /\ ParseInstaller(object.recipe, installed.name)

SetupPolicyAllows(request, trust, recipe, policy) ==
    /\ trust \in {"unverified", "local", "direct-source"} => request.authorizeSource
    /\ policy.capabilities # None => PlannedCapabilities(recipe) \subseteq policy.capabilities
    /\ recipe.custom # None => request.authorizeCustom /\ policy.custom

\* None, or one record; anything else in the file is an error.
PreviousRecord(file) ==
    file.kind # "absent" =>
        file.kind = "file" /\ Len(file.records) = 1 /\ ParseSetupState(file.records)

\* What setup may be planned for: the installed items whose object, recipe,
\* trust and policy all agree; a refusal leaves the manual route.
PrepareSetupObject(request, installations, offered, objects, policy) ==
    {Item(r, objects[r.object].recipe) :
        r \in {r \in SelectedRecord(installations, request) :
                  /\ ResolveInstalledItem(r, offered)
                  /\ SetupRecipe(r, objects[r.object])
                  /\ \A o \in {o \in offered : o.name = r.name /\ o.source = r.source} :
                        SetupPolicyAllows(request, o.trust, objects[r.object].recipe, policy)}}

\* Item after item; when the queue stops at a failure the rest is skipped.
ExecuteSetupQueue(outcomes, stopOnFailure) ==
    [i \in DOMAIN outcomes |->
        IF stopOnFailure /\ \E j \in 1 .. i - 1 : outcomes[j] \notin {"configured", "already_configured"}
        THEN "skipped" ELSE outcomes[i]]

RetryablePlans(items, outcomes) ==
    {items[i] : i \in {i \in DOMAIN items : outcomes[i] \notin {"configured", "already_configured"}}}

\* A rollback needs the record to be the reviewed plan's, and to be what is on
\* disk, where its receipts are redacted.
RollbackSetup(plan, record, onDisk, owner, object) ==
    /\ record.status \in {"configured", "already_configured"}
    /\ \A i \in DOMAIN record.receipts : ReceiptMatchesPlan(record.receipts[i], plan)
    /\ onDisk = record /\ owner = {object}
=============================================================================
