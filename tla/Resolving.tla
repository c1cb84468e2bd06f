------------------------------ MODULE Resolving ------------------------------
(* From the snapshots of the configured sources to the artifacts a command   *)
(* acts on (consumer/runtime.py, consumer/resolution.py): a registry of two  *)
(* packages of its own and one reference, beside a local source, is changed  *)
(* by its maintainer and by the reference's origin while commands resolve.   *)
EXTENDS Market, TLC

VARIABLES registry,  \* the snapshot that is current
          upstream,  \* what the reference's origin gives now
          answer     \* what the last command resolved, None before it

-----------------------------------------------------------------------------
Names == {"a", "b", "c"}

Bounds(name, from) ==
    [name |-> name, from |-> [core |-> from, pre |-> <<>>, build |-> 0], below |-> None]

\* Which artifact requires which, a and itself included, and one requirement that
\* no version meets.
Requirements ==
    {r \in [Names -> SUBSET {Bounds(n, 1) : n \in Names}] :
        Bounds("b", 1) \notin r["b"] /\ Bounds("c", 1) \notin r["c"]}
      \cup {[n \in Names |-> IF n = "a" THEN {Bounds("b", 1)}
                             ELSE IF n = "b" THEN {Bounds("c", 2)} ELSE {}]}

LockInputs(owned, requires) == <<owned, requires>>

\* What a build writes: a lock for the reference, and an index of everything.
Built(owned, pinned, requires) ==
    [valid |-> TRUE, source |-> "registry", owned |-> owned, entries |-> {"c"},
     inputs |-> LockInputs(owned, requires), requires |-> requires,
     lock |-> [inputs |-> LockInputs(owned, requires), pins |-> "c" :> pinned],
     index |-> [registry |-> "registry", inputs |-> LockInputs(owned, requires),
                digests |-> owned @@ ("c" :> pinned)]]

Direct == [valid |-> TRUE, owned |-> "a" :> 1]

Configured ==
    {[alias |-> "r", kind |-> "registry-git", declared |-> "registry", enabled |-> TRUE,
      snapshot |-> registry],
     [alias |-> "s", kind |-> "source-local", declared |-> "direct", enabled |-> TRUE,
      snapshot |-> Direct],
     [alias |-> "t", kind |-> "registry-git", declared |-> "other", enabled |-> TRUE,
      snapshot |-> None]}

Offered(source, name, digest) ==
    [name |-> name, version |-> [core |-> 1, pre |-> <<>>, build |-> 0], source |-> source,
     requires |-> IF source = "registry" THEN registry.requires[name] ELSE {},
     content |-> digest, aart |-> [from |-> None, below |-> None], profiles |-> {"claude"},
     platforms |-> {"darwin"}, scopes |-> {"project"}, modes |-> {"copy"},
     effects |-> {"write-file"}, setup |-> None, review |-> "approved"]

\* The catalog a command works on, from the offers of the sources it could read.
Catalog(offers) ==
    LET declared == "r" :> "registry" @@ "s" :> "direct"
        sources == {[alias |-> x, source |-> declared[x], needs |-> {},
                     artifacts |-> {Offered(declared[x], n, offers[x][n]) : n \in DOMAIN offers[x]},
                     collections |-> IF x # "r" THEN {}
                                     ELSE {[name |-> "all", nested |-> {},
                                            artifacts |-> {Bounds("b", 1), Bounds("c", 1)}]}] :
                        x \in DOMAIN offers}
        views == {[alias |-> c.alias, kind |-> c.kind, source |-> c.declared, origin |-> c.alias,
                   snapshot |-> c.snapshot] : c \in Configured}
    IN  BuildMarketplace(CompileMarketplaceGraph(sources, {}), {"r", "s", "t"}, views,
                         {<<"registry", "r">>})

Query(name, source, collection) ==
    [name |-> name, source |-> source, version |-> None, collection |-> collection]

Selections ==
    {{Query("a", "r", FALSE)}, {Query("b", None, FALSE)}, {Query("a", None, FALSE)},
     {Query("b", "t", FALSE)}, {Query("b", "u", FALSE)},
     {Query("all", None, TRUE)}, {Query("a", "r", FALSE), Query("all", "r", TRUE)},
     {Query("all", "s", TRUE)}}

-----------------------------------------------------------------------------
ResolvingInit ==
    /\ \E requires \in Requirements : registry = Built([n \in {"a", "b"} |-> 1], 1, requires)
    /\ upstream = "c" :> 1
    /\ answer = None

\* The maintainer edits a package and publishes without building.
Edit(n) ==
    /\ registry.owned[n] = 1
    /\ registry' = [registry EXCEPT !.owned[n] = 2,
                        !.inputs = LockInputs([registry.owned EXCEPT ![n] = 2], registry.requires)]
    /\ answer' = None /\ UNCHANGED upstream

\* The maintainer locks and builds, from what the origin gives at that time.
Build ==
    /\ registry' = Built(registry.owned, upstream["c"], registry.requires)
    /\ answer' = None /\ UNCHANGED upstream

Upstream ==
    /\ upstream["c"] = 1
    /\ upstream' = "c" :> 2
    /\ answer' = None /\ UNCHANGED registry

\* A command: the marketplace, the selectors, the closure, then its content.
Resolve(selectors, object, offline) ==
    LET offers == LoadReadOnlyMarketplace(Configured)
        catalog == Catalog(offers)
        resolved == ResolveSelectors(catalog, selectors)
        referenced == {i.artifact.name : i \in {i \in resolved.closure : i.alias = "r"}} \cap {"c"}
    IN  /\ answer' =
             CASE offers = None -> [errors |-> {"source-invalid"}, selectors |-> selectors]
               [] offers # None /\ resolved.errors # {} ->
                    [errors |-> resolved.errors, selectors |-> selectors]
               [] OTHER ->
                    IF EnsureContent(registry, referenced, "c" :> object, upstream, offline)
                    THEN [errors |-> {}, selectors |-> selectors, closure |-> resolved.closure,
                          content |-> [n \in referenced |-> IF object = "whole" THEN registry.lock.pins[n]
                                                            ELSE upstream[n]]]
                    ELSE [errors |-> {"content-unavailable"}, selectors |-> selectors]
        /\ UNCHANGED <<registry, upstream>>

Target == [aart |-> [core |-> 1, pre |-> <<>>, build |-> 0], profile |-> "claude",
           platform |-> "darwin", scope |-> "project", mode |-> "copy",
           effects |-> {"write-file"}, capabilities |-> None, requireSetup |-> TRUE]

\* The rows of the marketplace's table, and a search for the same.
Browse(aliases, harnesses, recorded) ==
    LET offers == LoadReadOnlyMarketplace(Configured)
        rows == ProjectMarketplaceRows(Catalog(offers), Target, harnesses, recorded)
    IN  /\ offers # None
        /\ answer' = [rows |-> FilterMarketplaceRows(rows,
                          [sources |-> aliases, trusts |-> {}, compatibleOnly |-> FALSE,
                           installedOnly |-> recorded # {}]),
                      found |-> SearchMarketplace(Catalog(offers),
                          [removed |-> FALSE, sources |-> aliases, names |-> {}]),
                      recorded |-> recorded]
        /\ UNCHANGED <<registry, upstream>>

\* An uninstall, from the records alone.
Remove(query, recorded) ==
    /\ answer' = [uninstall |-> ResolveInstalled(recorded, query), query |-> query,
                  recorded |-> recorded]
    /\ UNCHANGED <<registry, upstream>>

Records ==
    SUBSET {[alias |-> x, name |-> "a", version |-> 1, scope |-> "project", profile |-> "claude"] :
               x \in {"r", "s"}}

ResolvingNext ==
    \/ Edit("a")
    \/ Build
    \/ Upstream
    \/ /\ answer = None
       /\ \E selectors \in Selections, object \in {"whole", "damaged"}, offline \in BOOLEAN :
             Resolve(selectors, object, offline)
    \/ /\ answer = None
       /\ \E aliases \in {{}, {"r"}}, harnesses \in {{"claude"}, {"claude", "codex"}}, recorded \in Records :
             Browse(aliases, harnesses, recorded)
    \/ /\ answer = None
       /\ \E query \in UNION Selections, recorded \in Records :
             ~query.collection /\ Remove(query, recorded)

-----------------------------------------------------------------------------
(* The reference: what the selectors name among all that is offered, the     *)
(* least set with it that is closed under requirements, and its cycles.      *)

Items == {<<"r", n>> : n \in Names} \cup {<<"s", "a">>}

Needs(i) == IF i[1] = "s" THEN {} ELSE {<<"r", b.name>> : b \in registry.requires[i[2]]}

Named(q) ==
    IF q.collection THEN IF q.source \in {None, "r"} THEN {<<"r", "b">>, <<"r", "c">>} ELSE {}
    ELSE {i \in Items : i[2] = q.name /\ q.source \in {None, i[1]}}

Wanted(selectors) == UNION {Named(q) : q \in selectors}

Least(selectors) ==
    LET closed == {s \in SUBSET Items : Wanted(selectors) \subseteq s /\ \A i \in s : Needs(i) \subseteq s}
    IN  {i \in Items : \A s \in closed : i \in s}

Cyclic(items) == \E s \in SUBSET items \ {{}} : \A i \in s : Needs(i) \cap s # {}

Unmet(items) == \E i \in items : i[1] = "r" /\ \E b \in registry.requires[i[2]] : b.from.core > 1

\* What a command acts on is what its selectors name with everything they need,
\* each thing once and nothing else; an ambiguous name, a cycle and a requirement
\* that nothing meets are refused, each for its own reason and not otherwise
\* (resolution.py walks the requirements with a trail); and all of it has the
\* content the registry pinned and listed, although packages are edited without a
\* build and the origin of a reference moves on (runtime.py compares the lock, the
\* index, the packages and what is fetched).
ClosureSound ==
    answer # None /\ "errors" \in DOMAIN answer =>
        LET least == Least(answer.selectors)
            ambiguous == \E q \in answer.selectors : ~q.collection /\ Cardinality(Named(q)) > 1
            unnamed == \E q \in answer.selectors : Named(q) = {}
            readable == answer.errors \cap {"source-invalid"} = {}
        IN  /\ answer.errors = {} =>
                 /\ {<<i.alias, i.artifact.name>> : i \in answer.closure} = least
                 /\ ~ambiguous /\ ~unnamed /\ ~Cyclic(least) /\ ~Unmet(least)
                 /\ \A i \in answer.closure : i.alias = "r" =>
                      /\ i.artifact.content = registry.index.digests[i.artifact.name]
                      /\ i.artifact.name \in {"a", "b"} =>
                           registry.owned[i.artifact.name] = i.artifact.content
                 /\ \A n \in DOMAIN answer.content : answer.content[n] = registry.lock.pins[n]
            /\ readable =>
                 /\ ("artifact-ambiguous" \in answer.errors) <=> ambiguous
                 /\ ("dependency-cycle" \in answer.errors) <=> (~ambiguous /\ ~unnamed /\ Cyclic(least))
                 /\ ("dependency-unavailable" \in answer.errors) <=> (~ambiguous /\ ~unnamed /\ Unmet(least))

\* The marketplace's table and its search, which walk the catalog each on its own,
\* list the same artifacts; each row resolves when it is named with its source; a
\* row is marked installed only for a record of its own source; and an uninstall by
\* name never takes one of two sources' installations for the other.
ListingsAgree ==
    /\ answer # None /\ "rows" \in DOMAIN answer =>
         /\ \A r \in answer.rows :
              /\ \E i \in answer.found : r.alias = i.alias /\ r.name = i.artifact.name
              /\ ResolveArtifact(Catalog(LoadReadOnlyMarketplace(Configured)),
                     Query(r.name, r.alias, FALSE)).found = {<<r.alias, r.name>>}
              /\ r.installed <=> \E x \in answer.recorded : x.alias = r.alias /\ x.name = r.name
         /\ answer.recorded = {} => Cardinality(answer.rows) = Cardinality(answer.found)
    /\ answer # None /\ "uninstall" \in DOMAIN answer =>
         (answer.uninstall = None <=>
             Cardinality({x \in answer.recorded : /\ x.name = answer.query.name
                                                 /\ answer.query.source \in {None, x.alias}}) = 1)
=============================================================================
