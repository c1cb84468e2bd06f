------------------------------ MODULE Compiling ------------------------------
(* The marketplace of each command, compiled anew from what the sources hold *)
(* (consumer/runtime.py, compiler/graph.py), and what check says of the       *)
(* installations that earlier marketplaces led to (lifecycle/application.py), *)
(* while sources add, change, drop and bring back their artifacts.  No        *)
(* command passes the graph of an earlier one, so nothing but the records     *)
(* remembers what a version once was.                                         *)
EXTENDS Market, Drift

CONSTANT Sources  \* what the sources may hold when they are compiled

VARIABLES loaded,  \* what the sources held when the command under way read them
          graph,   \* the graph it compiled
          installs, \* the installations that are recorded
          checked  \* what the last check said of each, None if they or the graph moved on

-----------------------------------------------------------------------------
Content(artifact) == [version |-> artifact.version, digest |-> artifact.content]

\* What is recorded of an installation and of the subscription it came through, which is
\* configured as long as it is loaded.
RecordFrom(entry) ==
    [name |-> entry.artifact.name, content |-> Content(entry.artifact),
     source |-> [alias |-> entry.alias, kind |-> "git", origin |-> entry.alias, ref |-> "main",
                 declared |-> entry.artifact.source]]

CompilingInit ==
    /\ loaded = {} /\ graph = CompileMarketplaceGraph({}, {})
    /\ installs = {} /\ checked = None

\* The next command reads its sources; one that cannot compile them has no marketplace.
LoadMarketplace(sources) ==
    /\ loaded' = sources
    /\ graph' = CompileMarketplaceGraph(sources, {})
    /\ checked' = None
    /\ UNCHANGED installs

\* It installs what the graph lists under some names of one source, over what is
\* recorded of the same.
RecordNames(alias, names) ==
    /\ graph.ok
    /\ installs' = {r \in installs : r.source.alias # alias \/ r.name \notin names}
                \cup {RecordFrom(e) : e \in {e \in graph.artifacts :
                                             e.alias = alias /\ e.artifact.name \in names}}
    /\ checked' = None
    /\ UNCHANGED <<loaded, graph>>

InstallArtifact(e) == RecordNames(e.alias, {e.artifact.name})

InstallCollection(c) == RecordNames(c.alias, c.members)

CheckRecords ==
    LET configured == {[alias |-> x.alias, enabled |-> TRUE, kind |-> "git", origin |-> x.alias,
                        ref |-> "main"] : x \in loaded}
        views == {[alias |-> x.alias, kind |-> "git", origin |-> x.alias, snapshot |-> 1,
                   health |-> "healthy", declared |-> x.source] : x \in loaded}
        items == {[alias |-> e.alias, name |-> e.artifact.name,
                   content |-> Content(e.artifact)] : e \in graph.artifacts}
    IN  /\ graph.ok
        /\ checked' = [r \in installs |-> CheckInstallation(r, configured, views, items)]
        /\ UNCHANGED <<loaded, graph, installs>>

CompilingNext ==
    \/ \E sources \in Sources : LoadMarketplace(sources)
    \/ \E e \in graph.artifacts : InstallArtifact(e)
    \/ \E c \in graph.collections : InstallCollection(c)
    \/ CheckRecords

compiling == <<loaded, graph, installs, checked>>

CompilingSpec == CompilingInit /\ [][CompilingNext]_compiling

-----------------------------------------------------------------------------
\* A source may drop a version and bring it back with other content, and no graph
\* remembers it (graph.py:588-590).  What check says is true of the content all the
\* same: an installation is current exactly if the source it came from, under the
\* identity it had then, holds the very artifact that was recorded, and an update,
\* a removal and a change of identity are each told for what they are.
CheckTellsContent ==
    checked # None => \A r \in installs :
        LET there == {x \in loaded : x.alias = r.source.alias}
            same == {x \in there : x.source = r.source.declared}
            having == {a \in UNION {x.artifacts : x \in same} : a.name = r.name}
            exact == \E a \in having : Content(a) = r.content
        IN  /\ checked[r] = "current" <=> exact
            /\ checked[r] = "update-available" <=> having # {} /\ ~exact
            /\ checked[r] = "removed-upstream" <=> same # {} /\ having = {}
            /\ checked[r] = "identity-changed" <=> there # {} /\ same = {}
            /\ checked[r] = "source-unavailable" <=> there = {}

\* The reference for a collection: what is reachable over nested collections is in every
\* set of them that has it and is closed; a cycle is a set each of whose members nests
\* another.
ReachedFrom(x, c) ==
    LET names == {d.name : d \in x.collections}
        nests(S) == {d \in x.collections : d.name \in S}
        closed(S) == \A d \in nests(S) : d.nested \subseteq S
    IN  {n \in names : \A S \in SUBSET names : c.name \in S /\ closed(S) => n \in S}

BrokenCollections(x) ==
    LET names == {d.name : d \in x.collections} IN
    \/ \E c, d \in x.collections : c # d /\ c.name = d.name
    \/ \E c \in x.collections : ~(c.nested \subseteq names)
    \/ \E c \in x.collections : \E sel \in c.artifacts :
          ~\E a \in x.artifacts : a.name = sel.name /\ Allows(sel, a.version)
    \/ \E S \in SUBSET x.collections \ {{}} :
          \A c \in S : \E d \in S : d.name \in c.nested

\* A compiled collection is all that it names and that the collections it nests name, and a
\* graph is refused for its collections only where one of them is broken
\* (_expand_collection_members walks them with a memo and a trail).
CollectionsExact ==
    /\ graph.ok => \A x \in loaded : \A c \in x.collections :
         [alias |-> x.alias, name |-> c.name,
          members |-> {sel.name : sel \in UNION {d.artifacts :
                          d \in {d \in x.collections : d.name \in ReachedFrom(x, c)}}}]
            \in graph.collections
    /\ SourceProblems(loaded, {}) = {} =>
         (graph.ok <=> ~\E x \in loaded : BrokenCollections(x))
==============================================================================
