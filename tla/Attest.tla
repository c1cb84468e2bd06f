------------------------------- MODULE Attest -------------------------------
(* From a scan to a decision: external analyzers and built-in tools run as  *)
(* processes that may fail in every way, their attestations are cached and  *)
(* indexed by a registry, a consumer merges them into one evidence for each *)
(* artifact, and the installation policy judges a bundle.  The analyzers,   *)
(* the tools and the policy are the package's library: no command of this   *)
(* version calls them (docs/testing/residue-register.md, LAF-108, LAF-110). *)
EXTENDS Assess

-----------------------------------------------------------------------------
(* Analyzers.  reply is what one process gave: [kind, code, document].      *)

AttemptWithout(provider, object, status, descriptor) ==
    [provider |-> provider, object |-> object, status |-> status, descriptor |-> descriptor,
     coverage |-> [completed |-> 0, expected |-> 1, skipped |-> {status}], findings |-> {}]

\* An attempt's own consistency, checked where it is built.
AttemptValid(a) ==
    /\ a.descriptor = None => a.findings = {}
    /\ \A f \in a.findings : f.provider = a.provider
    /\ a.status = "complete" => CoverageComplete(a.coverage)
    /\ a.status \in {"partial", "failed"} => ~CoverageComplete(a.coverage)
    /\ a.status = "not-scanned" => a.coverage.completed = 0 /\ a.findings = {}
    /\ a.status # "stale"

RunFailure(reply, accepted) == reply.kind # "completed" \/ reply.code \notin accepted

\* A handshake must be the expected provider's own.
ParseHandshake(document, expected) ==
    IF document = None \/ document.id # expected THEN None
    ELSE [id |-> document.id, version |-> document.version, network |-> document.network,
          types |-> document.types, maxFiles |-> document.maxFiles]

\* A result must repeat the handshake, and point only at files it was given.
ParseScanResult(document, descriptor, input) ==
    IF \/ document = None
       \/ document.provider # <<descriptor.id, descriptor.version>>
       \/ Len(document.findings) > MaxFindings
       \/ document.status \notin {"not-scanned", "complete", "partial", "failed"}
       \/ \E i \in DOMAIN document.findings :
             document.findings[i].path \notin {None} \cup {f.path : f \in input.files}
       \/ \E i, j \in DOMAIN document.findings :
             i # j /\ Fingerprint(document.findings[i]) = Fingerprint(document.findings[j])
    THEN None
    ELSE LET attempt == [provider |-> descriptor.id, object |-> input.object,
                         status |-> document.status, descriptor |-> descriptor,
                         coverage |-> document.coverage, findings |-> ToSet(document.findings)]
         IN  IF AttemptValid(attempt) THEN attempt ELSE None

\* Resolve, shake hands, check what the analyzer takes, scan: nothing raises.
RunProtocolAnalyzer(command, input, handshake, scan, allowNetwork) ==
    LET attempt(status, d) == AttemptWithout(command.provider, input.object, status, d)
        descriptor == ParseHandshake(handshake.document, command.provider)
        unfit == \/ descriptor.network /\ ~allowNetwork
                 \/ input.type \notin descriptor.types
                 \/ Cardinality(input.files) > descriptor.maxFiles
        parsed == ParseScanResult(scan.document, descriptor, input)
    IN  CASE command.executable = None -> attempt("not-scanned", None)
          [] command.executable = "unsafe" -> attempt("failed", None)
          [] OTHER ->
               IF RunFailure(handshake, {0}) \/ descriptor = None THEN attempt("failed", None)
               ELSE IF unfit THEN attempt("not-scanned", descriptor)
               ELSE IF RunFailure(scan, {0}) \/ parsed = None THEN attempt("failed", descriptor)
               ELSE parsed

\* Without a handshake there is no evidence at all, not even of the failure.
ToSecurityAssessment(object, attempt) ==
    IF attempt.descriptor = None \/ object # attempt.object THEN None
    ELSE SecurityAssessment(object, attempt.status, attempt.coverage, attempt.findings,
            {[id |-> attempt.provider, version |-> attempt.descriptor.version,
              status |-> attempt.status, coverage |-> attempt.coverage]})

-----------------------------------------------------------------------------
(* The built-in tools.                                                      *)

BuiltinToolAdapters ==
    [ruff |-> [classes |-> {"python"}, network |-> FALSE, accepted |-> {0, 1}],
     bandit |-> [classes |-> {"python"}, network |-> FALSE, accepted |-> {0, 1}],
     secrets |-> [classes |-> {}, network |-> FALSE, accepted |-> {0}],
     audit |-> [classes |-> {"requirements"}, network |-> TRUE, accepted |-> {0, 1}],
     shellcheck |-> [classes |-> {"shell"}, network |-> FALSE, accepted |-> {0, 1}]]

RelevantFiles(tool, input) ==
    LET classes == BuiltinToolAdapters[tool].classes IN
    {f \in input.files : classes = {} \/ f.class \in classes}

\* Requirements are audited only if every one is pinned and none is named twice.
RequirementsPinned(files) ==
    /\ \A f \in files : f.text = "ok" /\ f.parse = "ok"
    /\ \A f, g \in files : f # g => f.hits \cap g.hits = {}
    /\ UNION {f.hits : f \in files} # {}

\* The severity each tool's finding is given: what it says, or a fixed one.
ToolSeverity(tool, level) ==
    CASE tool \in {"ruff", "audit"} -> "medium"
      [] tool = "secrets" -> "high"
      [] tool = "bandit" -> level
      [] OTHER -> CASE level \in {"style", "info"} -> "low"
                    [] level = "warning" -> "medium"
                    [] OTHER -> "high"

\* Two findings of one rule at one place make the whole output malformed.
ParseFindings(tool, document) ==
    LET found == [i \in DOMAIN document.items |->
                    [provider |-> tool, rule |-> document.items[i].rule,
                     severity |-> ToolSeverity(tool, document.items[i].level),
                     path |-> IF tool = "audit" THEN None ELSE document.items[i].path]]
    IN  IF \/ tool = "bandit" /\ document.errors
           \/ \E i, j \in DOMAIN found : i # j /\ Fingerprint(found[i]) = Fingerprint(found[j])
        THEN None ELSE ToSet(found)

RunToolAdapter(tool, executable, input, version, scan, allowNetwork) ==
    LET attempt(status, d) == AttemptWithout(tool, input.object, status, d)
        adapter == BuiltinToolAdapters[tool]
        relevant == RelevantFiles(tool, input)
        descriptor == [id |-> tool, version |-> version.document]
        found == ParseFindings(tool, scan.document)
    IN  CASE \/ executable = None
             \/ adapter.network /\ ~allowNetwork
             \/ relevant = {}
             \/ tool = "audit" /\ ~RequirementsPinned(relevant) -> attempt("not-scanned", None)
          [] OTHER ->
               IF RunFailure(version, {0}) \/ version.document = None THEN attempt("failed", None)
               ELSE IF \/ RunFailure(scan, adapter.accepted) \/ scan.document = None
                       \/ found = None
               THEN attempt("failed", descriptor)
               ELSE [provider |-> tool, object |-> input.object, status |-> "complete",
                     descriptor |-> descriptor, findings |-> found,
                     coverage |-> [completed |-> 1, expected |-> 1, skipped |-> {}]]

-----------------------------------------------------------------------------
(* Attestations.  Versions are compared as texts; a number stands for a     *)
(* version's place in that order.                                           *)

AttestationTrusts == <<"unverified", "local", "registry-reviewed", "company-reviewed">>

TrustRank(trust) == CHOOSE i \in DOMAIN AttestationTrusts : AttestationTrusts[i] = trust

\* The key binds the object and the provider; a lock or an index the scan was
\* given is not part of it.
CacheKey(a) == LET p == CHOOSE p \in a.providers : TRUE IN <<a.object, p.id, p.version>>

Attestation(a, origin) == [key |-> CacheKey(a), origin |-> origin, assessment |-> a]

\* A key is written once: the same again is current, anything else is refused.
WriteCachedAttestation(cache, attestation) ==
    LET existing == {c \in cache : c.key = attestation.key} IN
    CASE existing = {} -> [cache |-> cache \cup {attestation}, result |-> "created"]
      [] existing = {attestation} -> [cache |-> cache, result |-> "current"]
      [] OTHER -> [cache |-> cache, result |-> "refused"]

\* Trust comes from the reader's own configuration, never from the document.
DerivedTrust(origin, context) ==
    CASE origin.kind = "local" -> "local"
      [] /\ origin.kind # "local"
         /\ context # None
         /\ context.source = origin.source /\ context.inputs = origin.inputs
         /\ context.trust \in {"company-reviewed", "registry-reviewed"} -> context.trust
      [] OTHER -> "unverified"

ResolveAttestation(attestation, expected, context) ==
    [freshness |-> IF attestation.key = expected THEN "current" ELSE "stale",
     assessment |-> IF attestation.key = expected THEN attestation.assessment
                    ELSE MarkAssessmentStaleValue(attestation.assessment),
     trust |-> DerivedTrust(attestation.origin, context)]

\* Every listed document is there, unchanged, and of this very registry.
VerifySecurityIndex(index, documents) ==
    /\ DOMAIN documents = DOMAIN index.entries
    /\ \A p \in DOMAIN documents :
         /\ documents[p] = index.entries[p]
         /\ documents[p].origin = [kind |-> "registry-ci", source |-> index.registry,
                                   inputs |-> index.inputs]

\* One attestation for each provider, the latest; the worst status counts.
MergedSecurityEvidence(coordinate, resolved) ==
    LET provider(r) == CHOOSE p \in r.assessment.providers : TRUE
        selected == {r \in resolved : \A s \in resolved :
                        provider(s).id = provider(r).id => provider(s).version <= provider(r).version}
        providers == {provider(r) : r \in selected}
        statuses == {p.status : p \in providers}
        status == CASE "stale" \in statuses -> "stale"
                    [] "stale" \notin statuses /\ "failed" \in statuses -> "failed"
                    [] statuses = {"complete"} -> "complete"
                    [] statuses = {"not-scanned"} -> "not-scanned"
                    [] OTHER -> "partial"
        coverage == IF Cardinality(providers) = 1 THEN (CHOOSE p \in providers : TRUE).coverage
                    ELSE [completed |-> MapThenSumSet(LAMBDA p : p.coverage.completed, providers),
                          expected |-> MapThenSumSet(LAMBDA p : p.coverage.expected, providers),
                          skipped |-> UNION {{p.id} \X p.coverage.skipped : p \in providers}]
        assessment == SecurityAssessment((CHOOSE r \in selected : TRUE).assessment.object, status,
                          coverage, UNION {r.assessment.findings : r \in selected}, providers)
        weakest == Min({TrustRank(r.trust) : r \in selected})
    IN  IF selected = {} \/ assessment = None THEN None
        ELSE [coordinate |-> coordinate, assessment |-> assessment,
              trust |-> AttestationTrusts[weakest]]

\* The evidence a registry's snapshot carries for the items of its catalog; an
\* index that is stale, incomplete or not verified gives none.
RegistrySecurityEvidence(index, documents, declared, inputs, items) ==
    IF \/ index = None
       \/ index.registry # declared \/ index.inputs # inputs
       \/ ~VerifySecurityIndex(index, documents)
    THEN {}
    ELSE {MergedSecurityEvidence(i.coordinate,
             {ResolveAttestation(documents[p], documents[p].key,
                  [source |-> index.registry, inputs |-> index.inputs, trust |-> i.trust]) :
                p \in {p \in DOMAIN documents : documents[p].key[1] = i.object}}) : i \in items}
           \ {None}

-----------------------------------------------------------------------------
(* The summary of a bundle, and the policy.                                 *)

Conflicting(evidence) ==
    evidence = {} \/ \E e, f \in evidence : e # f /\ e.coordinate = f.coordinate

\* Unknown risks stay outside the extremes, and are listed beside them.
SummarizeBundleSecurity(evidence) ==
    LET known == {e \in evidence : e.assessment.risk # "unknown"}
        ranks == {Rank(e.assessment.risk) : e \in known}
        worst == IF known = {} THEN "unknown" ELSE Severities[Max(ranks)]
    IN  IF Conflicting(evidence) THEN None
        ELSE [worst |-> worst,
              least |-> IF known = {} THEN "unknown" ELSE Severities[Min(ranks)],
              mean |-> IF known = {} THEN None
                       ELSE (MapThenSumSet(LAMBDA e : Rank(e.assessment.risk) - 1, known) * 1000
                               + Cardinality(known) \div 2) \div Cardinality(known),
              worstArtifacts |-> {e.coordinate : e \in {e \in evidence : e.assessment.risk = worst}},
              unknownArtifacts |-> {e.coordinate : e \in evidence \ known},
              staleArtifacts |-> {e.coordinate : e \in {e \in evidence : e.assessment.status = "stale"}},
              weakest |-> AttestationTrusts[Min({TrustRank(e.trust) : e \in evidence})]]

PolicyActions == <<"allow", "warn", "confirm", "block">>

PolicyRank(action) == CHOOSE i \in DOMAIN PolicyActions : PolicyActions[i] = action

\* What a policy says where nothing is configured.
DefaultInstallPolicy ==
    [unknown |-> "warn", stale |-> "warn", failed |-> "warn", critical |-> "block", high |-> "confirm",
     minimumTrust |-> None, insufficientTrust |-> "warn", required |-> {}, missingProvider |-> "warn",
     scopes |-> {"project", "user"}]

\* The strongest of the actions that anything in the bundle triggers.
EvaluateSecurityPolicy(evidence, policy, scope) ==
    LET summary == SummarizeBundleSecurity(evidence)
        triggered ==
            (IF summary.unknownArtifacts # {} THEN {policy.unknown} ELSE {})
              \cup (IF summary.staleArtifacts # {} THEN {policy.stale} ELSE {})
              \cup (IF \E e \in evidence : e.assessment.status = "failed" THEN {policy.failed} ELSE {})
              \cup (CASE summary.worst = "critical" -> {policy.critical}
                      [] summary.worst = "high" -> {policy.high}
                      [] OTHER -> {})
              \cup (IF /\ policy.minimumTrust # None
                       /\ \E e \in evidence : TrustRank(e.trust) < TrustRank(policy.minimumTrust)
                    THEN {policy.insufficientTrust} ELSE {})
              \cup (IF \E e \in evidence : ~(policy.required \subseteq {p.id : p \in e.assessment.providers})
                    THEN {policy.missingProvider} ELSE {})
    IN  IF scope \notin policy.scopes \/ triggered = {} THEN "allow"
        ELSE PolicyActions[Max({PolicyRank(a) : a \in triggered})]

\* What a review shows where there is no evidence.
ShownSecurity(coordinate, evidence) ==
    LET found == {e \in evidence : e.coordinate = coordinate} IN
    IF found = {} THEN <<"not-scanned", "unknown">>
    ELSE LET a == (CHOOSE e \in found : TRUE).assessment IN <<a.status, a.risk>>

-----------------------------------------------------------------------------
(* The commands.                                                            *)

\* security scan, with a cache: evidence that differs under a key is refused.
ScanCommand(cache, object, indexed, lock) ==
    LET assessment == AssessInstallationRisk(object, indexed, lock)
    IN  WriteCachedAttestation(cache, Attestation(assessment, [kind |-> "local"]))

\* security verify, of a document against the object that is expected: what it
\* reports, and whether it exits with success.
VerifyCommand(attestation, object, context) ==
    LET resolved == ResolveAttestation(attestation, <<object, attestation.key[2], attestation.key[3]>>, context)
    IN  [ok |-> resolved.freshness = "current", status |-> resolved.assessment.status,
         risk |-> resolved.assessment.risk, trust |-> resolved.trust]
=============================================================================
