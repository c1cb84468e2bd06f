------------------------------ MODULE Screening ------------------------------
(* The evidence on one artifact of a registry, gathered by scans that may be *)
(* partial or fail, published with the registry, overtaken by a change of    *)
(* the artifact, altered, shown to a consumer and judged under a policy      *)
(* (commands/security.py, consumer/runtime.py, security/policy.py).  The     *)
(* commands scan, show and verify; Skip, Analyze and Tool, and the policy's  *)
(* verdict, are those of a program that calls the package's library.         *)
EXTENDS Attest, TLC

CONSTANTS MaxDocuments,  \* bounds the attestations a registry publishes
          Subjects,      \* the objects the artifact may be
          Revisions,     \* those of them that a change may make of it
          InstallPolicies \* the policies a consumer may have

\* Equal digests are of equal objects, and a hit is of a rule some scan looks for.
ASSUME ScreeningAssumption ==
    /\ Revisions \subseteq Subjects /\ None # {"process"}
    /\ \A p \in InstallPolicies :
          {p.unknown, p.stale, p.failed, p.critical, p.high, p.insufficientTrust, p.missingProvider}
            \subseteq ToSet(PolicyActions)
    /\ \A o \in Subjects :
          /\ \A q \in Subjects : o.digest = q.digest => o = q
          /\ o.recipe # None => o.recipe \in [capabilities : SUBSET STRING, custom : BOOLEAN, valid : BOOLEAN]
          /\ \A f \in o.files : f.hits \cap RuleIds \subseteq LookedFor(f)

VARIABLES subject,    \* the artifact's object, as it is published now
          cache,      \* the attestations of the maintainer's cache
          documents,  \* the attestations published beside it, by their path
          index,      \* the registry's list of them
          verdict     \* what the last consumer made of it, and under which policy

-----------------------------------------------------------------------------
Indexed(object) ==
    [object |-> object.digest, manifest |-> "m", fields |-> 1, payload |-> 1, provenance |-> "p",
     review |-> "approved", effects |-> {"write-file"},
     setup |-> IF object.recipe = None THEN None ELSE {"process"}]

Locks(object) ==
    {None, [object |-> object.digest, review |-> "approved", provenance |-> "p", moving |-> FALSE]}

\* A rule that is hit, read or not, or a setup that is not what is declared.
Dangerous(object) ==
    \/ \E f \in object.files : \E rule \in f.hits \cap RuleIds : Rank(Rules[RuleOrder(rule)][2]) >= Rank("high")
    \/ object.manifest = None
    \/ object.recipe # None /\ (object.recipe # [capabilities |-> {"process"}, custom |-> FALSE, valid |-> TRUE])

-----------------------------------------------------------------------------
Origin == [kind |-> "registry-ci", source |-> "registry", inputs |-> subject.digest]

\* A registry scans what it has not listed yet.
Attest(assessment) ==
    /\ index # None => index.inputs # subject.digest
    /\ Cardinality(DOMAIN documents \ {CacheKey(assessment)}) < MaxDocuments
    /\ documents' = [p \in DOMAIN documents \cup {CacheKey(assessment)} |->
                       IF p = CacheKey(assessment) THEN Attestation(assessment, Origin) ELSE documents[p]]

Input == [object |-> subject.digest, type |-> "skill", files |-> subject.files]

ScreeningInit ==
    /\ subject \in Subjects
    /\ cache = {}
    /\ documents = <<>>
    /\ index = None
    /\ verdict = None

\* security scan, in CI, with the lock or without, through a cache: a scan whose
\* evidence differs from what the cache holds of the same object is refused.
Scan(lock) ==
    LET assessment == AssessInstallationRisk(subject, Indexed(subject), lock)
        written == ScanCommand(cache, subject, Indexed(subject), lock)
    IN  /\ assessment # None
        /\ written.result # "refused"
        /\ Attest(assessment)
        /\ cache' = written.cache
        /\ verdict' = None /\ UNCHANGED <<subject, index>>

\* A CI that could not run the baseline says so.
Skip ==
    /\ NotScannedAssessment(subject.digest) # None
    /\ Attest(NotScannedAssessment(subject.digest))
    /\ verdict' = None /\ UNCHANGED <<subject, cache, index>>

\* An external analyzer: what it gives may be no evidence at all.
Analyze(command, handshake, scan) ==
    LET assessment == ToSecurityAssessment(subject.digest,
                          RunProtocolAnalyzer(command, Input, handshake, scan, FALSE))
    IN  /\ assessment # None
        /\ Attest(assessment)
        /\ verdict' = None /\ UNCHANGED <<subject, cache, index>>

Tool(tool, version, scan) ==
    LET assessment == ToSecurityAssessment(subject.digest,
                          RunToolAdapter(tool, "found", Input, version, scan, FALSE))
    IN  /\ assessment # None
        /\ Attest(assessment)
        /\ verdict' = None /\ UNCHANGED <<subject, cache, index>>

\* The registry lists what it has for its present inputs.
Index ==
    /\ documents' = [p \in {p \in DOMAIN documents : documents[p].origin = Origin} |-> documents[p]]
    /\ index' = [registry |-> "registry", inputs |-> subject.digest, entries |-> documents']
    /\ verdict' = None /\ UNCHANGED <<subject, cache>>

\* The artifact is changed, and its evidence left as it is.
Change(object) ==
    /\ index # None /\ subject # object
    /\ subject' = object
    /\ verdict' = None /\ UNCHANGED <<cache, documents, index>>

\* A document with its findings taken out.
Altered(attestation) ==
    [attestation EXCEPT !.assessment.findings = {}, !.assessment.status = "complete",
                        !.assessment.risk = "low"]

\* A consumer that gives the registry this trust, of whose snapshot some documents
\* were altered after they were listed; no evidence at all is not judged.
Judge(trust, altered, rules, scope) ==
    LET read == [p \in DOMAIN documents |-> IF p \in altered THEN Altered(documents[p]) ELSE documents[p]]
        evidence == RegistrySecurityEvidence(index, read, "registry", subject.digest,
                        {[coordinate |-> "x", object |-> subject.digest, trust |-> trust]})
    IN  /\ verdict' = [policy |-> IF evidence = {} \/ scope \notin rules.scopes THEN None ELSE rules,
                       action |-> IF evidence = {} THEN None ELSE EvaluateSecurityPolicy(evidence, rules, scope),
                       shown |-> ShownSecurity("x", evidence),
                       by |-> UNION {{p.id : p \in e.assessment.providers} : e \in evidence}]
        /\ UNCHANGED <<subject, cache, documents, index>>

\* security verify of one document, against the object as it is now.
VerifyDocument(p) ==
    LET report == VerifyCommand(documents[p], subject.digest, None)
    IN  /\ verdict' = [policy |-> None, action |-> None, shown |-> <<report.status, report.risk>>,
                       by |-> IF report.ok THEN {documents[p].key[2]} ELSE {}]
        /\ UNCHANGED <<subject, cache, documents, index>>

Reply(kind, code, document) == [kind |-> kind, code |-> code, document |-> document]

ToolFound(level) == [errors |-> FALSE, items |-> <<[rule |-> "t", level |-> level, path |-> 1]>>]

\* A handshake, a scan and a tool's output: good, with a finding, twice the same
\* finding, of another provider, or none.
Handshakes ==
    {Reply("completed", 0, [id |-> i, version |-> 1, network |-> n, types |-> {"skill"}, maxFiles |-> 2]) :
        i \in {"ext", "other"}, n \in BOOLEAN}

ScanReplies ==
    LET finding == [provider |-> "ext", rule |-> "e", severity |-> "high", path |-> 1]
        result(findings, status) ==
            [provider |-> <<"ext", 1>>, status |-> status, findings |-> findings,
             coverage |-> IF status = "complete" THEN [completed |-> 1, expected |-> 1, skipped |-> {}]
                          ELSE [completed |-> 0, expected |-> 1, skipped |-> {"e"}]]
    IN  {Reply("timeout", 0, None), Reply("completed", 0, result(<<>>, "complete")),
         Reply("completed", 0, result(<<finding>>, "partial")),
         Reply("completed", 0, result(<<finding, finding>>, "complete"))}

ToolReplies ==
    {Reply("completed", 1, ToolFound("high")), Reply("completed", 0, [errors |-> FALSE, items |-> <<>>]),
     Reply("completed", 1, [errors |-> FALSE, items |-> ToolFound("low").items \o ToolFound("low").items]),
     Reply("completed", 2, None)}

ScreeningNext ==
    \/ \E lock \in Locks(subject) : Scan(lock)
    \/ Skip
    \/ \E executable \in {"found", None}, handshake \in Handshakes, scan \in ScanReplies :
          Analyze([provider |-> "ext", executable |-> executable], handshake, scan)
    \/ \E tool \in {"bandit", "shellcheck", "audit"}, scan \in ToolReplies :
          Tool(tool, Reply("completed", 0, 1), scan)
    \/ Index
    \/ \E object \in Revisions : Change(object)
    \/ /\ index # None /\ verdict = None
       /\ \E trust \in {"company-reviewed", "unverified"}, altered \in SUBSET DOMAIN documents,
             rules \in InstallPolicies, scope \in {"project", "user"} : Judge(trust, altered, rules, scope)
    \/ verdict = None /\ \E p \in DOMAIN documents : VerifyDocument(p)

screening == <<subject, cache, documents, index, verdict>>

ScreeningSpec == ScreeningInit /\ [][ScreeningNext]_screening

-----------------------------------------------------------------------------
\* The answers a policy leaves to an artifact that is dangerous: what it says of an
\* unknown, a high or a critical risk, and, without the baseline's evidence, of a
\* provider that is missing, or nothing at all if the baseline is not required.
LeftToDanger(rules, by) ==
    {rules.unknown, rules.high, rules.critical}
      \cup (CASE "aart-baseline" \in by -> {}
              [] "aart-baseline" \notin by /\ "aart-baseline" \in rules.required -> {rules.missingProvider}
              [] OTHER -> {"allow"})

\* Danger is told.  A risk that a review or a verification shows as low or medium on
\* the evidence of the baseline rules is of an artifact without a hit of a high or
\* critical rule; and a policy's answer to one that has such a hit is never milder
\* than the mildest that policy gives an unknown, high or critical risk (a warning
\* under the default policy, security/policy.py:41-49).  A file the scan could not
\* read or parse, findings that were truncated, a scan that failed, a document
\* altered after it was listed, and evidence of an earlier object never pass for a
\* clean scan (security/model.py derives the risk from the status, runtime.py takes
\* the evidence only of an index that is the registry's own).
DangerIsTold ==
    verdict # None /\ Dangerous(subject) =>
        /\ ~(verdict.shown[2] \in {"low", "medium"} /\ "aart-baseline" \in verdict.by)
        /\ verdict.policy # None =>
              \E a \in LeftToDanger(verdict.policy, verdict.by) : PolicyRank(verdict.action) >= PolicyRank(a)
==============================================================================
