-------------------------------- MODULE Drift --------------------------------
(* What an installation writes, what it records of it, and what status,     *)
(* check, update and uninstall make of it after the operator has edited the *)
(* same files: installation/application.py and lifecycle/application.py as  *)
(* functions of the destination's snapshot.  Install models the concurrent  *)
(* application of the plans built here.                                     *)
(*                                                                          *)
(* A snapshot is [kind, digest, target, live, json, text]; json is          *)
(* [valid, keys, type, entries]: the keys beside the merge path, what is at *)
(* the path ("missing", "other" or "container") and its entries [id, value];*)
(* text is a sequence of tokens.  A digest is the content it is taken of.   *)
EXTENDS Nothing, Integers, Sequences, FiniteSets, SequencesExt

NoJson == [valid |-> TRUE, keys |-> {}, type |-> "missing", entries |-> <<>>]

Nowhere == [kind |-> "absent", digest |-> None, target |-> <<>>, live |-> FALSE,
            json |-> NoJson, text |-> <<>>]

JsonFile(json) == [Nowhere EXCEPT !.kind = "file", !.digest = json, !.json = json]

TextFile(text) == [Nowhere EXCEPT !.kind = "file", !.digest = text, !.text = text]

Link(target) == [Nowhere EXCEPT !.kind = "symlink", !.digest = target, !.target = target, !.live = TRUE]

-----------------------------------------------------------------------------
(* Merging an entry into a JSON document.  In key mode the identity is the  *)
(* key, in list mode the projection of the entry on the identity's fields.  *)

MatchesIn(json, id) ==
    {i \in DOMAIN json.entries : json.type = "container" /\ json.entries[i].id = id}

\* The path is made where it is missing; a value of another type stands in the
\* way, and so does an entry that differs, unless forced.
MergedContent(snapshot, merge, force) ==
    LET json == snapshot.json
        matching == MatchesIn(json, merge.id)
        at == CHOOSE i \in matching : TRUE
        entry == [id |-> merge.id, value |-> merge.value]
        base == IF json.type = "container" THEN json.entries ELSE <<>>
    IN  IF \/ snapshot.kind \notin {"absent", "file"} \/ ~json.valid
           \/ json.type = "other" /\ ~force
           \/ merge.mode = "list" /\ Cardinality(matching) > 1
           \/ matching # {} /\ json.entries[at].value # merge.value /\ ~force
        THEN None
        ELSE [json EXCEPT !.type = "container",
                  !.entries = IF matching = {} THEN Append(base, entry) ELSE [base EXCEPT ![at] = entry]]

-----------------------------------------------------------------------------
(* A managed block in a text.  Tokens: newlines, the operator's own, and    *)
(* the markers and the body of an artifact's block.                         *)

Token(t, of) == <<t, of>>

Newline == Token("newline", None)

Positions(text, token) == {i \in DOMAIN text : text[i] = token}

First(set) == CHOOSE i \in set : \A j \in set : i <= j

Block(name, body) ==
    <<Token("begin", name), Newline, Token("body", body), Newline, Token("end", name)>>

\* Replaces the artifact's block, or puts one before or after the text.  After a
\* begin marker without its end, everything is dropped.
MemoryBlock(text, name, body, top) ==
    LET begins == Positions(text, Token("begin", name))
        start == First(begins)
        ends == {i \in Positions(text, Token("end", name)) : i > start}
        rest == SubSeq(text, First(ends) + 1, Len(text))
        tail == IF rest # <<>> /\ Head(rest) = Newline THEN Tail(rest) ELSE rest
        base == IF Last(text) = Newline THEN text ELSE Append(text, Newline)
    IN  CASE begins # {} /\ ends # {} -> SubSeq(text, 1, start - 1) \o Block(name, body) \o <<Newline>> \o tail
          [] begins # {} /\ ends = {} -> SubSeq(text, 1, start - 1) \o Block(name, body) \o <<Newline>>
          [] begins = {} /\ text = <<>> -> Append(Block(name, body), Newline)
          [] OTHER -> IF top THEN Block(name, body) \o <<Newline, Newline>> \o base
                      ELSE base \o <<Newline>> \o Block(name, body) \o <<Newline>>

\* The text without the block and the blank line beside it; None if the markers
\* are not one pair.
StripManagedBlock(text, name) ==
    LET begins == Positions(text, Token("begin", name))
        ends == Positions(text, Token("end", name))
        start == First(begins)
        stop == IF First(ends) < Len(text) /\ text[First(ends) + 1] = Newline
                THEN First(ends) + 1 ELSE First(ends)
        bare == SubSeq(text, 1, start - 1) \o SubSeq(text, stop + 1, Len(text))
        n == Len(bare)
        trimmed == IF n >= 2 /\ bare[n] = Newline /\ bare[n - 1] = Newline THEN Front(bare) ELSE bare
    IN  CASE begins = {} /\ ends = {} -> text
          [] begins \cup ends # {} /\ (Cardinality(begins) # 1 \/ Cardinality(ends) # 1) -> None
          [] OTHER -> IF First(ends) < start THEN None
                      ELSE IF trimmed # <<>> /\ Head(trimmed) = Newline THEN Tail(trimmed) ELSE trimmed

-----------------------------------------------------------------------------
(* Planning an installation.                                                *)

TrustRanks == <<"unverified", "local", "direct-source", "registry-reviewed", "company-reviewed">>

\* Only the user scope has a minimum trust.
PolicyAllows(request, trust, minimum) ==
    LET rank(t) == CHOOSE i \in DOMAIN TrustRanks : TrustRanks[i] = t IN
    request.scope = "user" /\ minimum # None => rank(trust) >= rank(minimum)

\* The object still is what the index says of it, and has a payload.
ValidateObjectEvidence(object, indexed) ==
    /\ object.files # {} /\ object.safe
    /\ object.identity = indexed.identity /\ object.manifest = indexed.manifest
    /\ object.payload = indexed.payload /\ object.setup = indexed.setup
    /\ object.provenance = indexed.provenance

\* The destinations a profile has for an artifact: none if it does not take its
\* kind; a memory's sidecar is always looked at.
TargetPaths(kind, profile) ==
    CASE kind \notin profile.kinds -> <<>>
      [] kind \in profile.kinds /\ kind = "hook" -> <<"scripts", "settings">>
      [] kind \in profile.kinds /\ kind = "memory" -> <<"memory", "sidecar">>
      [] OTHER -> <<kind>>

\* The content a memory leaves at its destination: None where the mode refuses.
\* replace puts what it displaces beside it.  The kind recorded follows the mode
\* alone: in a directory of memories a prepend has no markers to find again.
NativeMemory(request, profile, snapshot) ==
    LET body == <<Token("body", <<request.name, request.version>>), Newline>>
        displaced == \E i \in DOMAIN snapshot.text : snapshot.text[i] # Newline
        block == request.memoryMode \in {"prepend", "append"}
        write == [kind |-> IF block THEN "managed-block" ELSE "write-file", text |-> body, backup |-> None]
    IN  CASE snapshot.kind \notin {"absent", "file"} -> None
          [] snapshot.kind \in {"absent", "file"} /\ (profile.directory \/ request.memoryMode = "skip") ->
               IF request.memoryMode = "skip" /\ snapshot.kind # "absent" THEN None ELSE write
          [] snapshot.kind \in {"absent", "file"} /\ ~profile.directory /\ request.memoryMode = "replace" ->
               IF displaced /\ ~request.force THEN None
               ELSE IF displaced THEN [write EXCEPT !.backup = snapshot.text] ELSE write
          [] OTHER -> [kind |-> "managed-block", backup |-> None,
                       text |-> MemoryBlock(snapshot.text, request.name,
                                            <<request.name, request.version>>,
                                            request.memoryMode = "prepend")]

\* What is put at the destination, and the proof of it: [want, proof].  A proof
\* binds what was put there, and whether anything was there before.
NativeActions(request, profile, snapshot) ==
    LET proof(kind, digest, id, backup) ==
            [kind |-> kind, name |-> request.name, digest |-> digest, id |-> id,
             mode |-> IF kind = "merge-json" THEN request.merge.mode ELSE None,
             created |-> snapshot.kind = "absent", restores |-> backup]
        memory == NativeMemory(request, profile, snapshot)
        merged == MergedContent(snapshot, request.merge, request.force)
        content == <<request.name, request.version>>
        target == <<Token("link", content)>>
        file == TextFile(<<Token("body", content), Newline>>)
    IN  CASE request.kind = "memory" ->
               IF memory = None THEN None
               ELSE [want |-> TextFile(memory.text),
                     proof |-> proof(memory.kind, memory.text, None, memory.backup)]
          [] request.kind = "mcp" ->
               IF merged = None THEN None
               ELSE [want |-> JsonFile(merged),
                     proof |-> proof("merge-json", request.merge.value, request.merge.id, None)]
          [] OTHER -> IF request.mode = "symlink"
                      THEN [want |-> Link(target), proof |-> proof("symlink-file", target, None, None)]
                      ELSE [want |-> file, proof |-> proof("write-file", file.digest, None, None)]

\* Nothing is put over what is no file, nor a copy over a link, forced or not.
UnsafeType(request, snapshot) ==
    snapshot.kind = "special" \/ (snapshot.kind = "symlink" /\ request.mode = "copy")

\* An effect of the kind that was recorded before is still said to have made its
\* destination, or not to have.
ReplacementProof(proof, previous) ==
    IF previous # None /\ previous.kind = proof.kind THEN [proof EXCEPT !.created = previous.created] ELSE proof

\* Another recorded memory's block, whole, makes the file a shared one.
SharedManagedMemoryIsCurrent(records, request, snapshot) ==
    \E a \in DOMAIN records :
        /\ a # request.name /\ records[a] # None /\ records[a].kind = "managed-block"
        /\ Cardinality(Positions(snapshot.text, Token("begin", a))) = 1
        /\ Cardinality(Positions(snapshot.text, Token("end", a))) = 1
        /\ First(Positions(snapshot.text, Token("begin", a)))
             < First(Positions(snapshot.text, Token("end", a)))

\* Content that is neither wanted, nor merged into, nor what was recorded.
Conflicts(request, operation, records, snapshot) ==
    LET previous == records[request.name] IN
    /\ ~request.force
    /\ snapshot.kind # "absent" /\ snapshot # operation.want
    /\ operation.proof.kind # "merge-json"
    /\ ~(operation.proof.kind = "managed-block" /\ SharedManagedMemoryIsCurrent(records, request, snapshot))
    /\ ~(/\ previous # None
         /\ IF previous.kind = "symlink-file" THEN snapshot.target = previous.digest
            ELSE snapshot.kind = "file" /\ previous.digest = snapshot.digest)

\* The reviewed plan is still about the marketplace: the policy, the source and
\* its snapshot, the trust and the artifact.  A source may age, not degrade.
MarketplacePreconditionIsCurrent(plan, now) ==
    /\ now.found /\ now.policy = plan.policy
    /\ now.health = "degraded" => plan.health = "degraded"
    /\ now.snapshot = plan.snapshot /\ now.trust = plan.trust
    /\ now.source = plan.source /\ now.artifact = plan.artifact /\ now.provenance = plan.provenance

-----------------------------------------------------------------------------
(* Status, check and reconcile.                                             *)

ClassifyLink(proof, snapshot) ==
    CASE snapshot.kind # "symlink" -> "replaced"
      [] snapshot.kind = "symlink" /\ snapshot.target # proof.digest -> "retargeted"
      [] OTHER -> IF snapshot.live THEN "current" ELSE "broken"

MergeEffectStatus(proof, snapshot) ==
    LET matches == MatchesIn(snapshot.json, proof.id) IN
    CASE snapshot.kind # "file" \/ ~snapshot.json.valid -> "drifted"
      [] snapshot.kind = "file" /\ snapshot.json.valid /\ matches = {} ->
           IF \/ snapshot.json.type = "other"
              \/ proof.mode = "list" /\ snapshot.json.entries # <<>>
           THEN "drifted" ELSE "missing"
      [] OTHER -> IF /\ Cardinality(matches) = 1
                     /\ \A i \in matches : snapshot.json.entries[i].value = proof.digest
                  THEN "current" ELSE "drifted"

\* Only the markers are looked at, not what is between them.
ManagedBlockStatus(proof, snapshot) ==
    LET begins == Positions(snapshot.text, Token("begin", proof.name))
        ends == Positions(snapshot.text, Token("end", proof.name))
    IN  CASE snapshot.kind # "file" -> "drifted"
          [] snapshot.kind = "file" /\ begins \cup ends = {} -> "missing"
          [] OTHER -> IF /\ Cardinality(begins) = 1 /\ Cardinality(ends) = 1
                         /\ First(begins) < First(ends)
                      THEN "current" ELSE "drifted"

EffectStatus(proof, snapshot) ==
    CASE snapshot.kind = "absent" -> "missing"
      [] snapshot.kind # "absent" /\ proof.kind = "symlink-file" -> ClassifyLink(proof, snapshot)
      [] snapshot.kind # "absent" /\ proof.kind = "merge-json" -> MergeEffectStatus(proof, snapshot)
      [] snapshot.kind # "absent" /\ proof.kind = "managed-block" -> ManagedBlockStatus(proof, snapshot)
      [] OTHER -> IF snapshot.kind = "file" /\ snapshot.digest = proof.digest THEN "current" ELSE "drifted"

StatusPriority == <<"current", "missing", "broken", "drifted", "retargeted", "replaced", "failed">>

\* The worst of an installation's effects.
AggregateStatus(statuses) ==
    StatusPriority[CHOOSE i \in DOMAIN StatusPriority :
        /\ StatusPriority[i] \in statuses
        /\ \A j \in DOMAIN StatusPriority : StatusPriority[j] \in statuses => j <= i]

\* The alias still points at the same origin and ref, and gives a snapshot; the
\* identity the origin declares is not part of it.
RecordedSubscriptionCurrent(source, configured, views) ==
    /\ \E c \in configured : /\ c.alias = source.alias /\ c.enabled /\ c.kind = source.kind
                             /\ c.origin = source.origin /\ c.ref = source.ref
    /\ \E v \in views : /\ v.alias = source.alias /\ v.kind = source.kind /\ v.origin = source.origin
                        /\ v.snapshot # None /\ v.health \in {"healthy", "stale", "degraded"}

RecordedIdentityChanged(source, views) ==
    \E v \in views : v.alias = source.alias /\ v.declared # source.declared

\* A faulty variant: the version is taken for the content.
Versioned_SameArtifact(item, record) == item.content.version = record.content.version

\* The version and the digests of the manifest, the payload and the object.
SameArtifact(item, record) == item.content = record.content

CheckInstallation(record, configured, views, items) ==
    LET offered == {i \in items : i.alias = record.source.alias /\ i.name = record.name} IN
    CASE ~RecordedSubscriptionCurrent(record.source, configured, views) -> "source-unavailable"
      [] OTHER -> IF RecordedIdentityChanged(record.source, views) THEN "identity-changed"
                  ELSE IF offered = {} THEN "removed-upstream"
                  ELSE IF \E i \in offered : SameArtifact(i, record) THEN "current"
                  ELSE "update-available"

\* Local damage is what is shown, even when the origin has moved as well.
ReconcileInstallation(local, remote) == IF local = "current" THEN remote ELSE local

\* A prune reviewed as "no longer offered" is applied only while it still is.
PruneStillValid(record, configured, views, items) ==
    CheckInstallation(record, configured, views, items) = "removed-upstream"

\* The places that a proof owns; a replaced memory owns its sidecar too.
Locators(proof) ==
    {<<"destination", proof.id>>} \cup IF proof.restores = None THEN {} ELSE {<<"sidecar", None>>}

\* An update may not leave behind what the new version no longer puts somewhere.
RetiredEffects(old, new) == Locators(old) \ Locators(new)

-----------------------------------------------------------------------------
(* Taking back.                                                             *)

\* A faulty variant: the container is empty, whatever is beside it.
Leaf_IsBareContainerChain(json) == json.type = "container" /\ json.entries = <<>>

\* Nothing in the file but the empty containers of the path.
IsBareContainerChain(json) == json.keys = {} /\ json.type = "container" /\ json.entries = <<>>

\* What becomes of the destination, or None for a conflict.  sidecar is what is
\* found where a displaced text was kept.
PlanRemoval(proof, snapshot, force, sidecar) ==
    LET json == snapshot.json
        matches == MatchesIn(json, proof.id)
        at == CHOOSE i \in matches : TRUE
        without == [json EXCEPT !.entries = RemoveAt(json.entries, at)]
        drifted == EffectStatus(proof, snapshot) = "drifted"
        stripped == StripManagedBlock(snapshot.text, proof.name)
    IN  CASE snapshot.kind = "special" -> None
          [] snapshot.kind = "absent" -> snapshot
          [] snapshot.kind \notin {"special", "absent"} /\ proof.kind = "merge-json" ->
               CASE \/ snapshot.kind # "file" \/ ~json.valid
                    \/ Cardinality(matches) > 1
                    \/ drifted /\ ~force -> None
                 [] OTHER -> IF matches = {} THEN snapshot
                             ELSE IF proof.created /\ IsBareContainerChain(without) THEN Nowhere
                             ELSE JsonFile(without)
          [] snapshot.kind \notin {"special", "absent"} /\ proof.kind = "managed-block" ->
               IF snapshot.kind # "file" \/ stripped = None THEN None
               ELSE IF stripped = snapshot.text THEN snapshot
               ELSE IF stripped = <<>> THEN Nowhere ELSE TextFile(stripped)
          [] OTHER ->
               IF EffectStatus(proof, snapshot) \notin {"current", "broken"} /\ ~force THEN None
               ELSE IF proof.restores = None THEN Nowhere
               ELSE IF sidecar.kind = "file" THEN TextFile(sidecar.text) ELSE None
=============================================================================
