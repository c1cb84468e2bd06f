------------------------------- MODULE Market -------------------------------
(* The marketplace as the program computes it, from the sources' contents   *)
(* to the artifacts a command acts on: semantic versions, the compiled      *)
(* graph of a command and compatibility (compiler/graph.py),                *)
(* the catalog with its trust (marketplace/catalog.py), the projection of a *)
(* registry's snapshot (consumer/runtime.py) and the resolution of          *)
(* selectors with their dependencies (consumer/resolution.py).              *)
(*                                                                          *)
(* An artifact is a record: name, version, source (the source ID it says it *)
(* belongs to), requires (a set of [name, from, below]), content (the       *)
(* digests of its manifest, payload and object), aart (the bounds on the    *)
(* program), profiles, platforms, scopes, modes, effects, setup and review. *)
EXTENDS Nothing, Integers, Sequences, FiniteSets, FiniteSetsExt

-----------------------------------------------------------------------------
(* Versions: the core, the prerelease identifiers and the build.  A numeric *)
(* identifier and a textual one differ whatever their rank.                 *)

Identifiers == [number : BOOLEAN, rank : Nat]

\* Numbers come before texts, and a prefix before what extends it.
PrereleaseLess(left, right) ==
    LET common == {i \in 1..Len(left) : i <= Len(right)}
        differing == {i \in common : left[i] # right[i]}
        l == left[Min(differing)]
        r == right[Min(differing)]
    IN  CASE left = <<>> -> FALSE
          [] left # <<>> /\ right = <<>> -> TRUE
          [] left # <<>> /\ right # <<>> /\ differing = {} -> Len(left) < Len(right)
          [] OTHER -> IF l.number # r.number THEN l.number ELSE l.rank < r.rank

SamePrecedence(v, w) == v.core = w.core /\ v.pre = w.pre

Precedes(v, w) ==
    v.core < w.core \/ (v.core = w.core /\ PrereleaseLess(v.pre, w.pre))

\* VersionBounds.allows; a bound may be absent.
Allows(bounds, v) ==
    /\ bounds.from = None \/ ~Precedes(v, bounds.from)
    /\ bounds.below = None \/ Precedes(v, bounds.below)

-----------------------------------------------------------------------------
(* The graph.  A source offers artifacts and collections; a collection      *)
(* names artifacts and other collections of the same source.                *)

SourceProblems(sources, capabilities) ==
    {x \in sources :
        \/ \E y \in sources \ {x} : y.alias = x.alias \/ y.source = x.source
        \/ ~(x.needs \subseteq capabilities)
        \/ \E a \in x.artifacts : a.source # x.source
        \/ \E a, b \in x.artifacts : a # b /\ a.name = b.name}

\* What a collection stands for, or the reason it stands for nothing: a cycle,
\* a collection or an artifact that is missing, a version it excludes.
Invalid == None

ExpandMembers(x, name) ==
    LET names == {c.name : c \in x.collections}
        collection(n) == CHOOSE c \in x.collections : c.name = n
        member(sel) == {a \in x.artifacts : a.name = sel.name /\ Allows(sel, a.version)}
        direct(n) == UNION {IF member(sel) = {} THEN {Invalid} ELSE {a.name : a \in member(sel)} :
                               sel \in collection(n).artifacts}
        expand[visiting \in SUBSET names] ==
            [n \in names |-> direct(n) \cup
                UNION {IF m \in names \ (visiting \cup {n}) THEN expand[visiting \cup {n}][m]
                       ELSE {Invalid} : m \in collection(n).nested}]
    IN  expand[{}][name]

CompiledCollections(sources) ==
    UNION {{[alias |-> x.alias, name |-> n, members |-> ExpandMembers(x, n)] :
               n \in {c.name : c \in x.collections}} : x \in sources}

CollectionProblems(sources) ==
    \/ \E x \in sources : \E c, d \in x.collections : c # d /\ c.name = d.name
    \/ \E c \in CompiledCollections(sources) : Invalid \in c.members

Entry(alias, artifact, lifecycle) ==
    [alias |-> alias, artifact |-> artifact, lifecycle |-> lifecycle]

CurrentEntries(sources) ==
    UNION {{Entry(x.alias, a, "available") : a \in x.artifacts} : x \in sources}

NoGraph == [ok |-> FALSE, artifacts |-> {}, collections |-> {}]

\* Every command compiles the sources as they are, with no earlier graph to compare with:
\* all that they offer is available, and nothing that they dropped is remembered.
CompileMarketplaceGraph(sources, capabilities) ==
    IF SourceProblems(sources, capabilities) # {} \/ CollectionProblems(sources)
    THEN NoGraph
    ELSE [ok |-> TRUE, artifacts |-> CurrentEntries(sources),
          collections |-> CompiledCollections(sources)]

-----------------------------------------------------------------------------
(* Compatibility.                                                           *)

PayloadReasons(entry, target) ==
    LET a == entry.artifact IN
    {r \in {"aart-version-unsupported", "artifact-removed", "profile-unsupported",
            "platform-unsupported", "scope-unsupported", "mode-unsupported",
            "effect-unsupported"} :
        CASE r = "aart-version-unsupported" -> ~Allows(a.aart, target.aart)
          [] r = "artifact-removed" -> entry.lifecycle = "removed"
          [] r = "profile-unsupported" -> target.profile \notin a.profiles
          [] r = "platform-unsupported" -> target.platform \notin a.platforms
          [] r = "scope-unsupported" -> target.scope \notin a.scopes
          [] r = "mode-unsupported" -> target.mode \notin a.modes
          [] r = "effect-unsupported" -> ~(a.effects \subseteq target.effects)}

SetupReasons(entry, target) ==
    IF entry.artifact.setup = None THEN {}
    ELSE LET setup == entry.artifact.setup IN
         {r \in {"setup-platform-unsupported", "setup-capability-missing"} :
             IF r = "setup-platform-unsupported" THEN target.platform \notin setup.platforms
             ELSE ~(setup.capabilities \subseteq target.capabilities)}

Reasons(entry, target) ==
    PayloadReasons(entry, target)
      \cup (IF target.requireSetup THEN SetupReasons(entry, target) ELSE {})

-----------------------------------------------------------------------------
(* The catalog: the graph under the configured sources and their health.    *)

\* A registry's review is only as good as the registry's identity.
Trust(artifact, view, reviewed) ==
    CASE view.kind = "source-local" -> "local"
      [] view.kind = "source-git" -> "direct-source"
      [] view.kind = "registry-git" /\ artifact.review = "approved"
            /\ <<view.source, view.origin>> \in reviewed -> "company-reviewed"
      [] view.kind = "registry-git" /\ artifact.review = "approved"
            /\ <<view.source, view.origin>> \notin reviewed -> "registry-reviewed"
      [] OTHER -> "unverified"

NoCatalog == [ok |-> FALSE, sources |-> {}, items |-> {}, collections |-> {}]

\* Every enabled source has one state, and every artifact a source that still
\* has the identity it was compiled under.
BuildMarketplace(graph, enabled, views, reviewed) ==
    LET viewOf(e) == {v \in views : v.alias = e.alias} IN
    IF \/ {v.alias : v \in views} # enabled
       \/ \E v, u \in views : v # u /\ v.alias = u.alias
       \/ \E e \in graph.artifacts : ~\E v \in viewOf(e) : v.source = e.artifact.source
    THEN NoCatalog
    ELSE [ok |-> TRUE, sources |-> views, collections |-> graph.collections,
          items |-> {[alias |-> e.alias, artifact |-> e.artifact, lifecycle |-> e.lifecycle,
                      trust |-> Trust(e.artifact, CHOOSE v \in viewOf(e) : TRUE, reviewed)] :
                        e \in graph.artifacts}]

\* The layer that failed, the artifact's name last.
ResolutionFailure(catalog, query) ==
    LET scope == {v \in catalog.sources : query.source = None \/ v.alias = query.source} IN
    CASE scope = {} -> "source-unavailable"
      [] scope # {} /\ (\A v \in scope : v.snapshot = None) -> "source-not-synchronized"
      [] OTHER -> "artifact-not-found"

ResolveArtifact(catalog, query) ==
    LET matches == {i \in catalog.items :
                      /\ i.lifecycle = "available"
                      /\ i.artifact.name = query.name
                      /\ query.source = None \/ i.alias = query.source
                      /\ query.version = None \/ i.artifact.version = query.version}
    IN  CASE matches = {} -> [error |-> ResolutionFailure(catalog, query), found |-> {}]
          [] Cardinality(matches) > 1 -> [error |-> "artifact-ambiguous", found |-> {}]
          [] OTHER -> [error |-> None, found |-> {<<i.alias, i.artifact.name>> : i \in matches}]

ResolveCollection(catalog, query) ==
    LET matches == {c \in catalog.collections :
                      c.name = query.name /\ (query.source = None \/ c.alias = query.source)}
    IN  CASE matches = {} -> [error |-> "collection-not-found", found |-> {}]
          [] Cardinality(matches) > 1 -> [error |-> "collection-ambiguous", found |-> {}]
          [] OTHER -> [error |-> None,
                       found |-> UNION {{<<c.alias, n>> : n \in c.members} : c \in matches}]

\* What a list or a search shows; an empty filter lets everything through.
SearchMarketplace(catalog, query) ==
    {i \in catalog.items :
        /\ query.removed \/ i.lifecycle = "available"
        /\ query.sources = {} \/ i.alias \in query.sources
        /\ query.names = {} \/ i.artifact.name \in query.names}

\* One row for each available item, compatible when every harness of the target
\* can take it; a setup's own capabilities are assumed where none are given.
ProjectMarketplaceRows(catalog, target, profiles, recorded) ==
    LET harness(i, p) ==
            [target EXCEPT !.profile = p,
                 !.capabilities = IF @ = None
                                  THEN IF i.artifact.setup = None THEN {} ELSE i.artifact.setup.capabilities
                                  ELSE @]
    IN  {[alias |-> i.alias, name |-> i.artifact.name, version |-> i.artifact.version,
          trust |-> i.trust,
          compatible |-> \A p \in profiles : Reasons(i, harness(i, p)) = {},
          installed |-> \E r \in recorded : r.alias = i.alias /\ r.name = i.artifact.name
                                               /\ r.scope = target.scope /\ r.profile \in profiles] :
            i \in {i \in catalog.items : i.lifecycle = "available"}}

FilterMarketplaceRows(rows, filters) ==
    {r \in rows : /\ filters.sources = {} \/ r.alias \in filters.sources
                  /\ filters.trusts = {} \/ r.trust \in filters.trusts
                  /\ filters.compatibleOnly => r.compatible
                  /\ filters.installedOnly => r.installed}

\* The dependency of an item that a requirement names, from the same source.
Dependency(catalog, item, req) ==
    {d \in catalog.items : d.alias = item.alias /\ d.artifact.name = req.name
                             /\ Allows(req, d.artifact.version)}

\* A faulty variant: the requirements of a requirement are not followed.
Shallow_Include(catalog, acc, item, trail) ==
    [acc EXCEPT !.closure = @ \cup {item} \cup
        UNION {Dependency(catalog, item, req) : req \in item.artifact.requires}]

\* The walk from one item: a cycle along the trail and a requirement nothing
\* meets are reported, the rest goes on.
Include(catalog, acc, item, trail) ==
    LET items == catalog.items
        Walks == [closure : SUBSET items, errors : SUBSET {"dependency-cycle", "dependency-unavailable"}]
        include[w \in Walks, i \in items, t \in SUBSET items] ==
            LET found(req) == Dependency(catalog, i, req)
                follow(req, a) ==
                    IF found(req) = {} THEN [a EXCEPT !.errors = @ \cup {"dependency-unavailable"}]
                    ELSE include[a, CHOOSE d \in found(req) : TRUE, t \cup {i}]
            IN  CASE i \in t -> [w EXCEPT !.errors = @ \cup {"dependency-cycle"}]
                  [] i \notin t /\ i \in w.closure -> w
                  [] OTHER -> FoldSet(follow, [w EXCEPT !.closure = @ \cup {i}], i.artifact.requires)
    IN  include[acc, item, trail]

DependencyClosure(catalog, requested) ==
    LET item(c) == CHOOSE i \in catalog.items : i.alias = c[1] /\ i.artifact.name = c[2]
        walk(c, acc) == Include(catalog, acc, item(c), {})
    IN  FoldSet(walk, [closure |-> {}, errors |-> {}], requested)

\* Every selector is resolved before any failure is reported.
ResolveSelectors(catalog, selectors) ==
    LET resolved(q) == IF q.collection THEN ResolveCollection(catalog, q)
                       ELSE ResolveArtifact(catalog, q)
        failures == {resolved(q).error : q \in selectors} \ {None}
        requested == UNION {resolved(q).found : q \in selectors}
        walked == DependencyClosure(catalog, requested)
    IN  CASE failures # {} -> [errors |-> failures, closure |-> {}]
          [] failures = {} /\ walked.errors # {} -> [errors |-> walked.errors, closure |-> {}]
          [] OTHER -> walked

\* An uninstall resolves against what is recorded, not against the catalog.
ResolveInstalled(records, q) ==
    LET matches == {r \in records : /\ r.name = q.name
                                    /\ q.source = None \/ r.alias = q.source
                                    /\ q.version = None \/ r.version = q.version}
    IN  CASE matches = {} -> "installation-not-found"
          [] Cardinality({r.alias : r \in matches}) > 1 -> "artifact-ambiguous"
          [] OTHER -> None

-----------------------------------------------------------------------------
(* The projection of a source's snapshot.  A registry's committed lock and  *)
(* index must be those of the very entries and packages beside them; inputs *)
(* stands for the digest of the registry's inputs.                          *)

\* What the lock pins of an entry is what the index says of it.
LockedIndexAgrees(snapshot, n) == snapshot.lock.pins[n] = snapshot.index.digests[n]

RegistryReferences(declared, snapshot) ==
    /\ snapshot.source = declared /\ snapshot.index.registry = declared
    /\ snapshot.index.inputs = snapshot.inputs
    /\ \/ snapshot.lock = None /\ snapshot.entries = {}
       \/ /\ snapshot.lock # None
          /\ snapshot.lock.inputs = snapshot.inputs
          /\ DOMAIN snapshot.lock.pins = snapshot.entries
          /\ \A n \in snapshot.entries : LockedIndexAgrees(snapshot, n)
    /\ DOMAIN snapshot.index.digests = DOMAIN snapshot.owned \cup snapshot.entries

\* What a package of the registry hashes to is what the index says of it.
VerifyRegistryOwned(snapshot) ==
    \A n \in DOMAIN snapshot.owned :
        n \in DOMAIN snapshot.index.digests /\ snapshot.owned[n] = snapshot.index.digests[n]

\* A direct source offers its packages, a registry what its index lists.
ProjectGraphSource(kind, declared, snapshot) ==
    CASE kind # "registry-git" -> [ok |-> snapshot.valid, offers |-> snapshot.owned]
      [] kind = "registry-git" /\ snapshot.valid /\ snapshot.index # None
            /\ VerifyRegistryOwned(snapshot) /\ RegistryReferences(declared, snapshot) ->
            [ok |-> TRUE, offers |-> snapshot.index.digests]
      [] OTHER -> [ok |-> FALSE, offers |-> <<>>]

\* A pinned reference is published only if what its origin gives now is what
\* the lock and the index say.
AcquireRegistryReference(snapshot, n, upstream) ==
    upstream[n] = snapshot.lock.pins[n] /\ upstream[n] = snapshot.index.digests[n]

\* The content port: what is missing or damaged is acquired again, unless the
\* command is offline or the object cannot even be read.
EnsureContent(snapshot, wanted, object, upstream, offline) ==
    \A n \in wanted \cap snapshot.entries :
        \/ object[n] = "whole"
        \/ /\ object[n] \in {"absent", "damaged"}
           /\ ~offline
           /\ AcquireRegistryReference(snapshot, n, upstream)

\* One source that cannot be projected, and there is no marketplace at all; one
\* that was never synchronized is only left out.
LoadReadOnlyMarketplace(configured) ==
    LET synchronized == {x \in configured : x.enabled /\ x.snapshot # None}
        projected(x) == ProjectGraphSource(x.kind, x.declared, x.snapshot)
    IN  IF \E x \in synchronized : ~projected(x).ok THEN None
        ELSE [a \in {x.alias : x \in synchronized} |->
                 projected(CHOOSE x \in synchronized : x.alias = a).offers]
=============================================================================
