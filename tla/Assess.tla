------------------------------- MODULE Assess -------------------------------
(* Installation risk: the baseline rules (security/baseline.py), external   *)
(* analyzers and the built-in tools (security/analyzers.py,                 *)
(* security/tool_adapters.py), attestations with their cache and index      *)
(* (security/attestations.py, io/security_cache.py), the evidence a         *)
(* consumer merges from a registry (consumer/runtime.py), its summary and   *)
(* the installation policy (security/aggregation.py, security/policy.py).   *)
(*                                                                          *)
(* A finding is [provider, rule, severity, path]; its fingerprint is all of *)
(* it but the severity.  A file is [path, class, text, parse, hits]: hits   *)
(* are the rules whose patterns occur in it.  A scanner's own cap on its    *)
(* raw findings, one more than MaxFindings, is left out: what exceeds it    *)
(* exceeds MaxFindings.                                                     *)
EXTENDS Nothing, Integers, Sequences, FiniteSets, FiniteSetsExt, SequencesExt

CONSTANTS MaxFindings,  \* 256 in the code
          McpPath       \* the path of payload/mcp.json; paths are numbers, in their order

-----------------------------------------------------------------------------
(* Evidence.                                                                *)

Severities == <<"unknown", "low", "medium", "high", "critical">>

Rank(severity) == CHOOSE i \in DOMAIN Severities : Severities[i] = severity

MaxSeverity(findings) ==
    IF findings = {} THEN "unknown"
    ELSE Severities[Max({Rank(f.severity) : f \in findings})]

\* A faulty variant: a scan that did not complete still counts as one.
Trusting_RiskFromEvidence(status, maximum) ==
    IF maximum = "unknown" THEN "low" ELSE maximum

\* High and critical always count; anything less only from a complete scan.
RiskFromEvidence(status, maximum) ==
    CASE Rank(maximum) >= Rank("high") -> maximum
      [] Rank(maximum) < Rank("high") /\ status # "complete" -> "unknown"
      [] OTHER -> IF maximum = "unknown" THEN "low" ELSE maximum

CoverageComplete(c) == c.completed = c.expected /\ c.skipped = {}

Fingerprint(f) == <<f.provider, f.rule, f.path>>

ProviderValid(p) ==
    /\ p.status = "complete" => CoverageComplete(p.coverage)
    /\ p.status = "not-scanned" => p.coverage.completed = 0
    /\ p.status \in {"partial", "failed"} => ~CoverageComplete(p.coverage)

\* The assessment of one object, or None where its construction raises.
SecurityAssessment(object, status, coverage, findings, providers) ==
    LET maximum == MaxSeverity(findings)
        consistent ==
            /\ providers # {} /\ \A p \in providers : ProviderValid(p)
            /\ Cardinality(findings) <= MaxFindings
            /\ \A f \in findings : f.severity \in ToSet(Severities)
            /\ \A f, g \in findings : Fingerprint(f) = Fingerprint(g) => f = g
            /\ \A p, q \in providers : p.id = q.id => p = q
            /\ \A f \in findings : \E p \in providers : p.id = f.provider
            /\ status = "complete" => /\ CoverageComplete(coverage)
                                      /\ \A p \in providers : p.status = "complete"
            /\ status \in {"partial", "failed"} => ~CoverageComplete(coverage)
            /\ status = "not-scanned" => /\ coverage.completed = 0 /\ findings = {}
                                         /\ \A p \in providers : p.status = "not-scanned"
            /\ status \in {"stale", "failed"} => \E p \in providers : p.status = status
            /\ Cardinality(providers) = 1 =>
                 \A p \in providers : p.status = status /\ p.coverage = coverage
    IN  IF ~consistent THEN None
        ELSE [object |-> object, status |-> status, risk |-> RiskFromEvidence(status, maximum),
              maximum |-> maximum, coverage |-> coverage, findings |-> findings,
              providers |-> providers]

MarkAssessmentStaleValue(a) ==
    [a EXCEPT !.status = "stale", !.risk = RiskFromEvidence("stale", a.maximum),
              !.providers = {[p EXCEPT !.status = "stale"] : p \in @}]

-----------------------------------------------------------------------------
(* The baseline rules, in the order their findings are kept.                *)

Rules == <<
    <<"custom-setup-entrypoint", "critical">>, <<"embedded-credential", "critical">>,
    <<"file-scan-limit", "unknown">>, <<"findings-truncated", "unknown">>,
    <<"importer-warning", "low">>, <<"insecure-transport", "high">>,
    <<"install-effect-copy-tree", "low">>, <<"install-effect-managed-block", "medium">>,
    <<"install-effect-merge-json", "medium">>, <<"install-effect-write-file", "low">>,
    <<"json-parse-failed", "unknown">>, <<"lock-evidence-mismatch", "critical">>,
    <<"lock-missing", "high">>, <<"manifest-digest-mismatch", "critical">>,
    <<"manifest-index-mismatch", "critical">>, <<"manifest-invalid", "critical">>,
    <<"manifest-missing", "critical">>, <<"mcp-shell-dispatch", "high">>,
    <<"object-digest-mismatch", "critical">>, <<"payload-digest-mismatch", "critical">>,
    <<"provenance-index-mismatch", "high">>, <<"provenance-invalid", "high">>,
    <<"provenance-missing", "high">>, <<"provenance-unexpected", "medium">>,
    <<"python-dynamic-execution", "high">>, <<"python-node-limit", "unknown">>,
    <<"python-os-system", "high">>, <<"python-parse-failed", "unknown">>,
    <<"python-subprocess-shell", "critical">>, <<"python-unsafe-deserialization", "high">>,
    <<"review-missing", "medium">>, <<"review-pending", "medium">>, <<"review-rejected", "high">>,
    <<"setup-capabilities-undeclared", "high">>, <<"setup-capability-custom-code", "critical">>,
    <<"setup-capability-docker", "high">>, <<"setup-capability-docker-build", "high">>,
    <<"setup-capability-docker-pull", "high">>, <<"setup-capability-filesystem", "medium">>,
    <<"setup-capability-keychain", "high">>, <<"setup-capability-managed-file", "medium">>,
    <<"setup-capability-mismatch", "high">>, <<"setup-capability-network", "high">>,
    <<"setup-capability-process", "medium">>, <<"setup-capability-trust-store", "medium">>,
    <<"setup-capability-unknown", "high">>, <<"setup-capability-verify-command", "medium">>,
    <<"setup-recipe-invalid", "high">>, <<"setup-recipe-missing", "high">>,
    <<"shell-destructive-broad-path", "critical">>, <<"shell-dynamic-evaluation", "high">>,
    <<"shell-pipe-to-interpreter", "critical">>, <<"shell-privilege-escalation", "high">>,
    <<"source-moving-ref", "low">>, <<"text-decode-failed", "unknown">>,
    <<"unpinned-container-image", "high">>, <<"unpinned-package-install", "medium">> >>

RuleIds == {Rules[i][1] : i \in DOMAIN Rules}

RuleOrder(rule) == CHOOSE i \in DOMAIN Rules : Rules[i][1] = rule

Finding(rule, path) ==
    [provider |-> "aart-baseline", rule |-> rule, severity |-> Rules[RuleOrder(rule)][2],
     path |-> path]

FindingsAt(rules, path) == {Finding(r, path) : r \in rules}

\* The object against the index: its digest, its manifest and its payload.
MetadataFindings(object, indexed) ==
    LET digest == IF object.digest # indexed.object THEN {"object-digest-mismatch"} ELSE {}
        manifest == IF object.manifest # indexed.manifest THEN {"manifest-digest-mismatch"} ELSE {}
        fields == IF object.fields # indexed.fields THEN {"manifest-index-mismatch"} ELSE {}
        payload == IF object.payload # indexed.payload THEN {"payload-digest-mismatch"} ELSE {}
        found == CASE object.manifest = None -> digest \cup {"manifest-missing"}
                   [] object.manifest = "invalid" -> digest \cup {"manifest-invalid"}
                   [] OTHER -> digest \cup manifest \cup fields \cup payload
    IN  [findings |-> FindingsAt(found, None), failed |-> found # {}]

\* The lock is that of the index, and of the provenance beside the payload.
LockMatches(lock, indexed, provenance) ==
    /\ indexed.provenance # None
    /\ lock.object = indexed.object
    /\ lock.review = indexed.review
    /\ lock.provenance = provenance

ProvenanceFindings(object, indexed, lock) ==
    LET provenance == IF object.provenance = "invalid" THEN None ELSE object.provenance
        broken == IF object.provenance = "invalid" THEN {"provenance-invalid"} ELSE {}
        agreed == CASE indexed.provenance # None /\ provenance = None -> {"provenance-missing"}
                    [] indexed.provenance = None /\ provenance # None -> {"provenance-unexpected"}
                    [] indexed.provenance # provenance -> {"provenance-index-mismatch"}
                    [] OTHER -> {}
        review == CASE indexed.review = None -> {"review-missing"}
                    [] indexed.review = "pending" -> {"review-pending"}
                    [] indexed.review = "rejected" -> {"review-rejected"}
                    [] OTHER -> {}
        required == indexed.review # None /\ indexed.provenance # None
        locked == CASE required /\ lock = None -> {"lock-missing"}
                    [] lock # None /\ ~LockMatches(lock, indexed, provenance) ->
                         {"lock-evidence-mismatch"}
                    [] lock # None /\ LockMatches(lock, indexed, provenance) /\ lock.moving ->
                         {"source-moving-ref"}
                    [] OTHER -> {}
        found == broken \cup agreed \cup review \cup locked
    IN  [findings |-> FindingsAt(found, None),
         incomplete |-> "lock-missing" \in found,
         failed |-> found \cap {"provenance-invalid", "provenance-missing",
                                "provenance-index-mismatch", "lock-evidence-mismatch"} # {}]

\* What the artifact declares it does; a recipe that declares otherwise is incomplete.
DeclaredFindings(object, indexed) ==
    LET effects == {"install-effect-" \o e : e \in indexed.effects}
        capability(c) == IF \E i \in DOMAIN Rules : Rules[i][1] = "setup-capability-" \o c
                         THEN "setup-capability-" \o c ELSE "setup-capability-unknown"
        undeclared == IF indexed.setup = {} THEN {"setup-capabilities-undeclared"} ELSE {}
        recipe == CASE object.recipe = None -> {"setup-recipe-missing"}
                    [] object.recipe # None /\ ~object.recipe.valid -> {"setup-recipe-invalid"}
                    [] OTHER -> (IF object.recipe.capabilities # indexed.setup
                                 THEN {"setup-capability-mismatch"} ELSE {})
                                 \cup (IF object.recipe.custom THEN {"custom-setup-entrypoint"} ELSE {})
        found == IF indexed.setup = None THEN effects
                 ELSE effects \cup undeclared \cup {capability(c) : c \in indexed.setup} \cup recipe
    IN  [findings |-> FindingsAt(found, None),
         incomplete |-> found \cap {"setup-capabilities-undeclared", "setup-recipe-missing",
                                    "setup-recipe-invalid", "setup-capability-mismatch"} # {}]

\* A file too large or not text is reported and its category is not covered.
Unread(files) ==
    [findings |-> {Finding(f.text, f.path) : f \in {f \in files : f.text # "ok"}},
     skipped |-> \E f \in files : f.text # "ok"]

TextLike(f) == f.class # "binary"

CredentialFindings(files) ==
    LET read == {f \in files : TextLike(f)} IN
    [findings |-> Unread(read).findings \cup
        UNION {FindingsAt(f.hits \cap {"embedded-credential"}, f.path) :
                   f \in {f \in read : f.text = "ok"}},
     skipped |-> Unread(read).skipped]

PythonHazards == {"python-dynamic-execution", "python-os-system",
                  "python-unsafe-deserialization", "python-subprocess-shell"}

\* Python that does not parse, or is too large to walk, is not covered.
PythonFindings(files) ==
    LET read == {f \in files : f.class = "python"}
        text == {f \in read : f.text = "ok"}
        unparsed == {f \in text : f.parse # "ok"}
    IN  [findings |-> Unread(read).findings
            \cup {Finding(IF f.parse = "failed" THEN "python-parse-failed"
                          ELSE "python-node-limit", f.path) : f \in unparsed}
            \cup UNION {FindingsAt(f.hits \cap PythonHazards, f.path) : f \in text \ unparsed},
         skipped |-> Unread(read).skipped \/ unparsed # {}]

ShellLineRules == {"shell-pipe-to-interpreter", "shell-privilege-escalation",
                   "shell-destructive-broad-path", "shell-dynamic-evaluation",
                   "unpinned-package-install"}

\* A command of the MCP configuration that runs a shell is read as a shell line.
McpRules(f) ==
    IF f.path = McpPath /\ "mcp-shell-dispatch" \in f.hits
    THEN {"mcp-shell-dispatch"} \cup ShellLineRules ELSE {}

JsonFindings(files) ==
    LET read == {f \in files : f.class = "json"}
        text == {f \in read : f.text = "ok"}
        unparsed == {f \in text : f.parse # "ok"}
    IN  [findings |-> Unread(read).findings
            \cup {Finding("json-parse-failed", f.path) : f \in unparsed}
            \cup UNION {FindingsAt(f.hits \cap (McpRules(f)
                            \cup {"embedded-credential", "unpinned-container-image"}), f.path) :
                        f \in text \ unparsed},
         skipped |-> Unread(read).skipped \/ unparsed # {}]

\* Scripts, and the commands of container build files.
ShellFindings(files) ==
    LET read == {f \in files : f.class \in {"shell", "build"}}
        text == {f \in read : f.text = "ok"}
        long == {f \in text : f.parse = "limit"}
    IN  [findings |-> Unread(read).findings
            \cup {Finding("file-scan-limit", f.path) : f \in long}
            \cup UNION {FindingsAt(f.hits \cap ShellLineRules, f.path) : f \in text},
         skipped |-> Unread(read).skipped \/ long # {}]

TransportFindings(files) ==
    LET read == {f \in files : TextLike(f)} IN
    [findings |-> Unread(read).findings \cup
        UNION {FindingsAt(f.hits \cap {"insecure-transport"}, f.path) :
                   f \in {f \in read : f.text = "ok"}},
     skipped |-> Unread(read).skipped]

\* The rules that the scans look for in a file.
LookedFor(f) ==
    UNION {IF TextLike(f) THEN {"embedded-credential", "insecure-transport"} ELSE {},
           IF f.class = "python" THEN PythonHazards ELSE {},
           IF f.class \in {"shell", "build"} THEN ShellLineRules ELSE {},
           IF f.class = "json" THEN {"unpinned-container-image"} \cup McpRules(f) ELSE {}}

\* Kept in the order of the rules, not of their severity.
DeduplicateAndBound(findings) ==
    LET place(path) == IF path = None THEN 0 ELSE path
        before(f, g) == \/ RuleOrder(f.rule) < RuleOrder(g.rule)
                        \/ f.rule = g.rule /\ place(f.path) < place(g.path)
        kept == {f \in findings : Cardinality({g \in findings : before(g, f)}) < MaxFindings - 1}
    IN  IF Cardinality(findings) <= MaxFindings THEN [findings |-> findings, truncated |-> FALSE]
        ELSE [findings |-> kept \cup {Finding("findings-truncated", None)},
              truncated |-> TRUE]

Categories == {"metadata", "provenance-lock", "declared-effects", "credentials", "python-ast",
               "json-mcp", "shell", "transport-pinning"}

Assessment(object, findings, skipped, failed) ==
    LET bounded == DeduplicateAndBound(findings)
        coverage == [completed |-> Cardinality(Categories \ skipped),
                     expected |-> Cardinality(Categories),
                     skipped |-> skipped \cup (IF bounded.truncated THEN {"findings"} ELSE {})]
        status == CASE failed -> "failed"
                    [] ~failed /\ CoverageComplete(coverage) -> "complete"
                    [] OTHER -> "partial"
        baseline == [id |-> "aart-baseline", version |-> 1, status |-> status, coverage |-> coverage]
    IN  SecurityAssessment(object, status, coverage, bounded.findings, {baseline})

AssessInstallationRisk(object, indexed, lock) ==
    LET metadata == MetadataFindings(object, indexed)
        provenance == ProvenanceFindings(object, indexed, lock)
        declared == DeclaredFindings(object, indexed)
        scans == [credentials |-> CredentialFindings(object.files),
                  python |-> PythonFindings(object.files),
                  json |-> JsonFindings(object.files),
                  shell |-> ShellFindings(object.files),
                  transport |-> TransportFindings(object.files)]
        category == [credentials |-> "credentials", python |-> "python-ast", json |-> "json-mcp",
                     shell |-> "shell", transport |-> "transport-pinning"]
        skipped == {c \in {"metadata"} : metadata.failed}
                     \cup {c \in {"provenance-lock"} : provenance.incomplete \/ provenance.failed}
                     \cup {c \in {"declared-effects"} : declared.incomplete}
                     \cup {category[s] : s \in {s \in DOMAIN scans : scans[s].skipped}}
    IN  Assessment(object.digest,
                   metadata.findings \cup provenance.findings \cup declared.findings
                     \cup UNION {scans[s].findings : s \in DOMAIN scans},
                   skipped, metadata.failed \/ provenance.failed)

NotScannedAssessment(object) ==
    LET coverage == [completed |-> 0, expected |-> Cardinality(Categories), skipped |-> {"baseline"}]
    IN  SecurityAssessment(object, "not-scanned", coverage, {},
            {[id |-> "aart-baseline", version |-> 1, status |-> "not-scanned", coverage |-> coverage]})
=============================================================================
