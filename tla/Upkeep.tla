------------------------------- MODULE Upkeep -------------------------------
(* One destination that AART and its operator both write: installs, updates, *)
(* prunes and uninstalls of two artifacts (installation/application.py and   *)
(* lifecycle/application.py, as Drift translates their decisions), with the  *)
(* operator's edits in between.  The destination is a JSON document that MCP *)
(* servers are merged into, a memory file, or a file of its own.             *)
EXTENDS Drift, TLC

CONSTANTS MaxOwn,    \* bounds the lines the operator adds
          MaxSteps   \* bounds the commands and the edits

Artifacts == {"x", "y"}

\* What the operator and AART write: tokens of a text, documents and the snapshots of files.
Tokens ==
    ({"newline"} \X {None}) \cup ({"own"} \X Int) \cup ({"begin", "end"} \X Artifacts)
      \cup ({"body", "link"} \X ((Artifacts \X {1, 2}) \cup {None}))

Documents ==
    [valid : BOOLEAN, keys : SUBSET {"k"}, type : {"missing", "container"},
     entries : Seq([id : {"x", "y", "o"}, value : ({"own"} \X {"x", "o"}) \cup ({"aart"} \X {1, 2})])]

Files ==
    [kind : {"absent", "file", "symlink"}, digest : Seq(Tokens) \cup Documents \cup {None},
     target : Seq(Tokens), live : BOOLEAN, json : Documents, text : Seq(Tokens)]

Proofs ==
    [kind : {"merge-json", "managed-block", "write-file", "symlink-file"}, name : Artifacts,
     digest : Seq(Tokens) \cup ({"aart"} \X {1, 2}), id : Artifacts \cup {None},
     mode : {"key", None}, created : BOOLEAN, restores : Seq(Tokens) \cup {None}]

ASSUME UpkeepAssumption == None \notin Seq(Tokens) \cup Files \cup Proofs \cup [want : Files, proof : Proofs]

VARIABLES family,   \* "mcp", "memory" or "guideline"
          disk,     \* the snapshot of the destination
          side,     \* the snapshot of a memory's sidecar
          records,  \* the proof recorded of each artifact, None if not installed
          versions, \* the version and the mode recorded of each
          steps,    \* how many there were
          own       \* the operator's pieces, but for those that were displaced

-----------------------------------------------------------------------------
Profile == [kinds |-> {"mcp", "memory", "guideline", "hook"}, directory |-> FALSE]

\* What of the operator's is in a snapshot.
Pieces(snapshot) ==
    {<<"line", t[2]>> : t \in {t \in ToSet(snapshot.text) : t[1] = "own"}}
      \cup {<<"key", k>> : k \in snapshot.json.keys}
      \cup {<<"entry", e.id, e.value>> : e \in {e \in ToSet(snapshot.json.entries) : e.value[1] = "own"}}

Remaining == Pieces(disk) \cup Pieces(side)

ObjectOf(n) ==
    [files |-> {n}, safe |-> TRUE, identity |-> n, manifest |-> n, payload |-> n, setup |-> n,
     provenance |-> n]

RequestOf(a, version, mode, force) ==
    [name |-> a, version |-> version, kind |-> family, scope |-> "user", force |-> force,
     mode |-> IF mode = "symlink" THEN "symlink" ELSE "copy", memoryMode |-> mode,
     merge |-> [id |-> a, value |-> <<"aart", version>>, mode |-> "key"]]

Modes == CASE family = "mcp" -> {"copy"}
           [] family = "memory" -> {"prepend", "append", "replace", "skip"}
           [] OTHER -> {"copy", "symlink"}

\* No two artifacts own the destination, unless by an entry or a block each.
Unshared(a, proof) ==
    \A b \in Artifacts \ {a} : records[b] # None =>
        proof.kind \in {"merge-json", "managed-block"} \/ records[b].kind \in {"merge-json", "managed-block"}

\* A block whose end the operator deleted: putting it again drops what follows it.
TornBlock(a) ==
    /\ Positions(disk.text, Token("begin", a)) # {}
    /\ Positions(disk.text, Token("end", a)) = {}

\* A destination the operator deleted: taking it back restores nothing, and still
\* removes the sidecar.
Missing(a) == records[a].restores # None /\ disk.kind = "absent"

EntryPieces(a) == {<<"entry", e.id, e.value>> : e \in {e \in ToSet(disk.json.entries) : e.id = a}}

\* The pieces a forced installation may lose: the value in the artifact's entry, a file
\* in whose place its own is put, and, once a memory is replaced again, the text that
\* the sidecar has from before, which AART's own then overwrites.
Overwritten(a, proof) ==
    CASE family = "mcp" -> EntryPieces(a)
      [] family = "guideline" -> Pieces(disk)
      [] OTHER -> IF proof.restores = None THEN {} ELSE Pieces(side)

\* The pieces that an installation may lose.
Displaced(a, proof, force) ==
    (IF force THEN Overwritten(a, proof) ELSE {})
      \cup (IF proof.kind = "managed-block" /\ TornBlock(a)
            THEN Pieces(TextFile(SubSeq(disk.text, First(Positions(disk.text, Token("begin", a))), Len(disk.text))))
            ELSE {})

\* The pieces that taking back may lose: the value in the artifact's entry or what was
\* written into a file of its own, by force, and the sidecar of a memory that is gone.
TakenAway(a, force) ==
    CASE records[a].kind = "merge-json" -> IF force THEN EntryPieces(a) ELSE {}
      [] records[a].kind = "managed-block" -> {}
      [] OTHER -> (IF force THEN Pieces(disk) ELSE {}) \cup (IF Missing(a) THEN Pieces(side) ELSE {})

UpkeepInit ==
    /\ family \in {"mcp", "memory", "guideline"}
    /\ disk = Nowhere /\ side = Nowhere
    /\ records = [a \in Artifacts |-> None]
    /\ versions = [a \in Artifacts |-> None]
    /\ steps = 0
    /\ own = {}

\* An install, or an update where one is recorded; only what it does displace is no
\* longer the operator's.
Install(a, version, mode, force, object, trust, now) ==
    LET request == RequestOf(a, version, mode, force)
        operation == NativeActions(request, Profile, disk)
        plan == [policy |-> 1, health |-> "healthy", snapshot |-> 1, trust |-> trust, source |-> 1,
                 artifact |-> a, provenance |-> 1]
    IN  /\ TargetPaths(family, Profile) # <<>>
        /\ PolicyAllows(request, trust, "registry-reviewed")
        /\ ValidateObjectEvidence(object, ObjectOf(1))
        /\ MarketplacePreconditionIsCurrent(plan, [plan EXCEPT !.snapshot = now] @@ [found |-> TRUE])
        /\ ~UnsafeType(request, disk)
        /\ operation # None
        /\ ~Conflicts(request, operation, records, disk)
        /\ Unshared(a, operation.proof)
        /\ disk' = operation.want
        /\ side' = IF operation.proof.restores = None THEN side ELSE TextFile(operation.proof.restores)
        /\ records' = [records EXCEPT ![a] = ReplacementProof(operation.proof, records[a])]
        /\ versions' = [versions EXCEPT ![a] = [content |-> version, mode |-> mode]]
        /\ own' = own \ (Displaced(a, operation.proof, force) \ Remaining')
        /\ UNCHANGED family

Sidecar(a) == [records[a] EXCEPT !.digest = records[a].restores, !.restores = None]

\* Each effect is taken back on its own: a sidecar is removed if it is what was put
\* there, whatever becomes of the destination it was to restore.
TakeBack(a, force) ==
    LET left == PlanRemoval(records[a], disk, force, side)
        beside == PlanRemoval(Sidecar(a), side, force, Nowhere)
    IN  /\ left # None
        /\ disk' = left
        /\ IF records[a].restores = None THEN UNCHANGED side ELSE beside # None /\ side' = beside
        /\ records' = [records EXCEPT ![a] = None]
        /\ versions' = [versions EXCEPT ![a] = None]
        /\ own' = own \ (TakenAway(a, force) \ Remaining')
        /\ UNCHANGED family

Uninstall(a, force) == records[a] # None /\ TakeBack(a, force)

\* What the origin offers of an artifact, and whether the alias still points at it.
World(a, offered, ref) ==
    [configured |-> {[alias |-> "r", enabled |-> TRUE, kind |-> "git", origin |-> 1, ref |-> ref]},
     views |-> {[alias |-> "r", kind |-> "git", origin |-> 1, snapshot |-> 1, health |-> "healthy",
                 declared |-> 1]},
     items |-> {[alias |-> "r", name |-> a, content |-> [version |-> v]] : v \in offered}]

RecordOf(a) ==
    [name |-> a, content |-> [version |-> versions[a].content],
     source |-> [alias |-> "r", kind |-> "git", origin |-> 1, ref |-> "main", declared |-> 1]]

\* update --prune takes back what is no longer offered.
Prune(a, offered, ref, force) ==
    LET world == World(a, offered, ref) IN
    /\ records[a] # None
    /\ PruneStillValid(RecordOf(a), world.configured, world.views, world.items)
    /\ TakeBack(a, force)

\* An update of what is still offered, in the mode of its installation, that leaves
\* nothing behind; what the health of it is shown as is not asked.
Update(a, offered, ref, force) ==
    LET world == World(a, offered, ref) IN
    /\ records[a] # None
    /\ RecordedSubscriptionCurrent(RecordOf(a).source, world.configured, world.views)
    /\ \E version \in offered :
          /\ Install(a, version, versions[a].mode, force, ObjectOf(1), "company-reviewed", 1)
          /\ RetiredEffects(records[a], records'[a]) = {}

-----------------------------------------------------------------------------
(* The operator.                                                            *)

Edited(snapshot, pieces) ==
    /\ disk' = snapshot
    /\ own' = (own \cap (Pieces(snapshot) \cup Pieces(side))) \cup pieces
    /\ UNCHANGED <<family, side, records, versions>>

AddLine(n, top) ==
    LET line == <<Token("own", n), Newline>>
        text == IF top THEN line \o disk.text ELSE disk.text \o line
    IN  /\ family \in {"memory", "guideline"} /\ disk.kind \in {"absent", "file"}
        /\ <<"line", n>> \notin own \cup Remaining
        /\ Edited(TextFile(text), {<<"line", n>>})

AddKey ==
    /\ family = "mcp" /\ disk.json.valid
    /\ Edited(JsonFile([disk.json EXCEPT !.keys = {"k"}]), {<<"key", "k">>})

\* An entry of its own, or another value in an artifact's entry.
SetEntry(id) ==
    LET json == disk.json
        entry == [id |-> id, value |-> <<"own", id>>]
        at == CHOOSE i \in MatchesIn(json, id) : TRUE
    IN  /\ family = "mcp" /\ json.valid /\ json.type # "other"
        /\ Edited(JsonFile([json EXCEPT !.type = "container",
                       !.entries = IF MatchesIn(json, id) = {} THEN Append(@, entry)
                                   ELSE [@ EXCEPT ![at] = entry]]), {<<"entry", id, <<"own", id>>>>})

\* A file that is no JSON any more keeps its text.
Break ==
    /\ family = "mcp" /\ disk.kind = "file"
    /\ Edited(JsonFile([disk.json EXCEPT !.valid = ~@]), {})

\* The end marker of a block is deleted.
TearBlock(a) ==
    /\ family = "memory" /\ Positions(disk.text, Token("end", a)) # {}
    /\ Edited(TextFile(RemoveAt(disk.text, First(Positions(disk.text, Token("end", a))))), {})

DeleteFile ==
    /\ disk.kind # "absent"
    /\ Edited(Nowhere, {})

Retarget ==
    /\ disk.kind = "symlink"
    /\ Edited(Link(<<Token("link", None)>>), {})

\* An object, a trust and a snapshot as they should be, or one of them not.
ReviewCases == {<<ObjectOf(1), "company-reviewed", 1>>, <<ObjectOf(2), "company-reviewed", 1>>,
            <<ObjectOf(1), "local", 1>>, <<ObjectOf(1), "company-reviewed", 2>>}

UpkeepStep ==
    \/ \E a \in Artifacts, mode \in Modes, force \in BOOLEAN, review \in ReviewCases :
          Install(a, 1, mode, force, review[1], review[2], review[3])
    \/ \E a \in Artifacts, force \in BOOLEAN : Uninstall(a, force)
    \/ \E a \in Artifacts, offered \in SUBSET {2}, ref \in {"main", "next"}, force \in BOOLEAN :
          Prune(a, offered, ref, force) \/ Update(a, offered, ref, force)
    \/ \E n \in 1..MaxOwn, top \in BOOLEAN : AddLine(n, top)
    \/ AddKey
    \/ \E id \in {"x", "o"} : SetEntry(id)
    \/ Break
    \/ \E a \in Artifacts : TearBlock(a)
    \/ DeleteFile
    \/ Retarget

UpkeepNext == steps < MaxSteps /\ steps' = steps + 1 /\ UpkeepStep

upkeep == <<family, disk, side, records, versions, steps, own>>

UpkeepSpec == UpkeepInit /\ [][UpkeepNext]_upkeep

-----------------------------------------------------------------------------
\* No command destroys what the operator wrote but where Displaced and TakenAway say so:
\* whatever the sequence of installs, updates, prunes and uninstalls of artifacts that
\* share a file, forced or not, and of edits between them, every line, key and entry of
\* the operator is in the destination or in the sidecar.  What a forced command takes is
\* the artifact's own entry or file.  A first forced replacement of a memory takes nothing;
\* a second one does take what the sidecar has (installation/application.py:487-489 says
\* that it stays reversible), and so do, without force, a block put again after its end
\* was deleted and the removal of a replaced memory whose file was deleted.
OwnKept == own \subseteq Remaining

\* What health shows of an installation, which compares on its own, agrees with
\* what the commands will do: an installation shown as current is taken back without
\* force, and an update that is offered of a file or a link is not refused.  Of what
\* AART shares with others it may be: a merged entry and a replaced memory are updated
\* only by force, and a line added beside a block is no drift and yet a conflict.
HealthIsHonest ==
    \A a \in Artifacts : records[a] # None =>
        LET world == World(a, {2}, "main")
            local == AggregateStatus({EffectStatus(records[a], disk)}
                        \cup IF records[a].restores = None THEN {} ELSE {EffectStatus(Sidecar(a), side)})
            remote == CheckInstallation(RecordOf(a), world.configured, world.views, world.items)
            request == RequestOf(a, 2, versions[a].mode, FALSE)
            operation == NativeActions(request, Profile, disk)
        IN  /\ local = "current" => PlanRemoval(records[a], disk, FALSE, side) # None
            /\ ReconcileInstallation(local, remote) = "update-available" /\ family = "guideline"
               => operation # None /\ ~UnsafeType(request, disk) /\ ~Conflicts(request, operation, records, disk)

\* Both are promised of a removal: it gives back what is not AART's, and is refused only
\* where health has said so.
UnmergeRestores == OwnKept /\ HealthIsHonest
=============================================================================
