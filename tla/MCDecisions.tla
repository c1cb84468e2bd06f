----------------------------- MODULE MCDecisions -----------------------------
(* The seven decision procedures, each driven on its own: a behaviour is about *)
(* one topic, and the variables of the others rest.                          *)
EXTENDS Compiling, Screening, Upkeep, Recipes, Management, Reporting

VARIABLES topic, registry, upstream, answer

R == INSTANCE Resolving

resolving == <<registry, upstream, answer>>

\* The variables of a topic that a behaviour is not about.
IdleC == loaded = {} /\ graph = None /\ installs = {} /\ checked = None
IdleR == registry = None /\ upstream = None /\ answer = None
IdleS == subject = None /\ cache = None /\ documents = None /\ index = None /\ verdict = None
IdleU == /\ family = None /\ disk = Nowhere /\ side = Nowhere /\ records = [a \in Artifacts |-> None]
         /\ versions = None /\ steps = None /\ own = {}
IdleP == recipe = None /\ allowed = None /\ plan = None /\ stored = None /\ found = None /\ reported = None
IdleM == document = None /\ policy = None /\ wrote = None /\ manifest = {}
IdleT == /\ user = None /\ rules = None /\ snapshots = None /\ service = None /\ stage = None
         /\ session = None /\ offers = {} /\ sent = {}

Init ==
    \/ topic = "compiling" /\ CompilingInit /\ IdleR /\ IdleS /\ IdleU /\ IdleP /\ IdleM /\ IdleT
    \/ topic = "resolving" /\ R!ResolvingInit /\ IdleC /\ IdleS /\ IdleU /\ IdleP /\ IdleM /\ IdleT
    \/ topic = "screening" /\ ScreeningInit /\ IdleC /\ IdleR /\ IdleU /\ IdleP /\ IdleM /\ IdleT
    \/ topic = "upkeep" /\ UpkeepInit /\ IdleC /\ IdleR /\ IdleS /\ IdleP /\ IdleM /\ IdleT
    \/ topic = "recipes" /\ RecipesInit /\ IdleC /\ IdleR /\ IdleS /\ IdleU /\ IdleM /\ IdleT
    \/ topic = "management" /\ ManagementInit /\ IdleC /\ IdleR /\ IdleS /\ IdleU /\ IdleP /\ IdleT
    \/ topic = "reporting" /\ ReportingInit /\ IdleC /\ IdleR /\ IdleS /\ IdleU /\ IdleP /\ IdleM

Next ==
    \/ /\ topic = "compiling" /\ CompilingNext
       /\ UNCHANGED <<topic, resolving, screening, upkeep, recipes, management, reporting>>
    \/ /\ topic = "resolving" /\ R!ResolvingNext
       /\ UNCHANGED <<topic, compiling, screening, upkeep, recipes, management, reporting>>
    \/ /\ topic = "screening" /\ ScreeningNext
       /\ UNCHANGED <<topic, compiling, resolving, upkeep, recipes, management, reporting>>
    \/ /\ topic = "upkeep" /\ UpkeepNext
       /\ UNCHANGED <<topic, compiling, resolving, screening, recipes, management, reporting>>
    \/ /\ topic = "recipes" /\ RecipesNext
       /\ UNCHANGED <<topic, compiling, resolving, screening, upkeep, management, reporting>>
    \/ /\ topic = "management" /\ ManagementNext
       /\ UNCHANGED <<topic, compiling, resolving, screening, upkeep, recipes, reporting>>
    \/ /\ topic = "reporting" /\ ReportingNext
       /\ UNCHANGED <<topic, compiling, resolving, screening, upkeep, recipes, management>>

Spec == Init /\ [][Next]_<<topic, compiling, resolving, screening, upkeep, recipes, management, reporting>>

-----------------------------------------------------------------------------
(* The other topics bring their properties; this is of the one that is an    *)
(* instance.                                                                 *)

\* consumer/resolution.py, runtime.py and compiler/graph.py: a command acts on exactly
\* what its selectors name and need, with the content that was pinned, a collection
\* is all it nests, and every way to list the marketplace shows the same.
ClosureSound ==
    /\ topic = "resolving" => R!ClosureSound /\ R!ListingsAgree
    /\ topic = "compiling" => CollectionsExact

-----------------------------------------------------------------------------
(* What the marketplaces, recipes, sources, users, organizations and         *)
(* sessions of the topics are.                                               *)

Plain(core) == [core |-> core, pre |-> <<>>, build |-> 0]

\* 1.0.0-rc, 1.0.0, the same with another build, and 2.0.0.
Versions ==
    LET v(core, pre, build) == [core |-> core, pre |-> pre, build |-> build]
    IN  {v(1, <<[number |-> FALSE, rank |-> 1]>>, 0), v(1, <<>>, 0), v(1, <<>>, 1), v(2, <<>>, 0)}

Artifact(name, version, content) ==
    [name |-> name, version |-> version, source |-> "registry", requires |-> {},
     content |-> content, aart |-> [from |-> Plain(1), below |-> None], profiles |-> {"claude"},
     platforms |-> {"darwin"}, scopes |-> {"project"}, modes |-> {"copy"},
     effects |-> {"write-file"}, setup |-> None, review |-> "approved"]

\* A collection may name another one, an artifact that is gone, or itself.
Collection(name, artifacts, nested) ==
    [name |-> name, nested |-> nested,
     artifacts |-> {[name |-> n, from |-> Plain(1), below |-> None] : n \in artifacts}]

CollectionSets ==
    {{}, {Collection("all", {"b"}, {"core"}), Collection("core", {"a"}, {})},
     {Collection("all", {}, {"all"})}, {Collection("all", {"b"}, {"gone"})},
     {Collection("all", {}, {"core"}), Collection("core", {"b"}, {"all"})},
     {Collection("all", {"b"}, {}), Collection("all", {"a"}, {})},
     {Collection("all", {}, {"core", "more"}), Collection("core", {"b"}, {"more"}),
      Collection("more", {"a"}, {})}}

Offering(alias, source, artifacts, collections) ==
    [alias |-> alias, source |-> source, needs |-> {}, artifacts |-> artifacts, collections |-> collections]

\* One source in every state, once beside another that has the same name in it, and once
\* under another identity; two of one identity, and one that needs what is not supported.
MCSources ==
    {{Offering("r", "registry", x[1] \cup x[2], x[3])} :
        x \in ({{}} \cup {{Artifact("a", v, c)} : v \in Versions, c \in {"old", "new"}})
                \X {{}, {Artifact("b", Plain(1), "old")}} \X CollectionSets}
      \cup {{Offering("r", "registry", {Artifact("a", Plain(1), "old")}, {}),
             Offering("s", "other", {[Artifact("a", Plain(1), "new") EXCEPT !.source = "other"]}, {})},
            {Offering("r", "other", {[Artifact("a", Plain(1), "old") EXCEPT !.source = "other"]}, {})},
            {Offering("r", "registry", {}, {}), Offering("s", "registry", {}, {})},
            {[Offering("r", "registry", {}, {}) EXCEPT !.needs = {"later"}]}}

StepOf(id, use, inputs) ==
    [id |-> id, use |-> use, target |-> <<use>>, marker |-> None, inputs |-> inputs,
     interpolates |-> inputs, replace |-> FALSE, shaped |-> TRUE]

\* One step of any module, or two; exports before and after the build they are for, and
\* two blocks in one file, with one marker or with two.
StepLists ==
    {<<StepOf("1", use, inputs)>> : inputs \in {{}, {"secret"}, {"text"}},
        use \in {"keychain-store", "env-from-keychain", "env-from-input", "json-merge", "pull", "build", "verify",
                 "notice"}}
      \cup {<<StepOf(i, "export", {}), StepOf("2", "build", {})>> : i \in {"1", "2"}}
      \cup {<<StepOf("1", "build", {}), StepOf("2", "export", {})>>,
            <<StepOf("1", "managed-block", {}), StepOf("2", "pull", {})>>}
      \cup {<<StepOf("1", use, {}), StepOf("2", use, {})>> : use \in {"env-from-keychain", "managed-block"}}

MCAuthored ==
    [artifact : {"x"}, platforms : {{"darwin"}}, tools : {{}, {"docker", "security"}},
     capabilities : SUBSET {"network", "process", "docker", "filesystem", "custom-code"}
                      \cup {{"keychain"}, {"trust-store", "docker", "network", "process"}},
     inputs : {<<[id |-> "secret", type |-> "secret"], [id |-> "text", type |-> "text"]>>},
     steps : StepLists, custom : {None, "entry"}, shaped : {TRUE}]

Location(host, repo, safe, dotted) == [host |-> host, repo |-> repo, safe |-> safe, dotted |-> dotted]

Source(alias, kind, location, ref) ==
    [alias |-> alias, kind |-> kind, location |-> location, ref |-> ref, enabled |-> TRUE]

File(path, class, text, parse, hits) ==
    [path |-> path, class |-> class, text |-> text, parse |-> parse, hits |-> hits]

\* Clean, dangerous and seen to be, dangerous where a scan does not get to, more
\* findings than are kept, and a setup that says something else than its recipe.
Contents ==
    {{File(1, "python", "ok", "ok", {})},
     {File(1, "python", "ok", "ok", {"python-os-system"}), File(2, "requirements", "ok", "ok", {"p"})},
     {File(1, "python", "ok", "failed", {"python-subprocess-shell"})},
     {File(1, "python", "ok", "ok", {}), File(2, "shell", "text-decode-failed", "ok", {"shell-pipe-to-interpreter"})},
     {File(2, "shell", "ok", "ok", ShellLineRules \ {"shell-destructive-broad-path"}),
      File(3, "build", "ok", "limit", {"unpinned-package-install"})},
     {File(McpPath, "json", "ok", "ok", {"mcp-shell-dispatch"})}}

\* setup is what the index says of it, recipe what the object carries.
Shipped == [capabilities : {{"process"}}, custom : BOOLEAN, valid : BOOLEAN]
             \cup [capabilities : {{}}, custom : {FALSE}, valid : {TRUE}]

Object(files, setup, stated) ==
    [digest |-> <<files, setup, stated>>, manifest |-> stated, fields |-> 1, payload |-> 1,
     provenance |-> "p", files |-> files, recipe |-> setup]

MCSubjects == {Object(files, None, "m") : files \in Contents}
              \cup {Object({}, setup, "m") : setup \in Shipped} \cup {Object({}, None, None)}

\* The default policy, and one that wants the baseline's evidence and blocks without.
MCInstallPolicies ==
    {DefaultInstallPolicy,
     [unknown |-> "block", stale |-> "block", failed |-> "block", critical |-> "block", high |-> "block",
      minimumTrust |-> "registry-reviewed", insufficientTrust |-> "block",
      required |-> {"aart-baseline"}, missingProvider |-> "block", scopes |-> {"user"}]}

\* A change for the worse.
MCRevisions == {Object({File(1, "python", "ok", "failed", {"python-subprocess-shell"})}, None, "m")}

\* Two registries, one of them on a public host; the first again under another
\* alias; a local source; a Git source on a host without a dot; a location no one
\* may name.
MCInputs ==
    {Source("a", "registry-git", Location("corp.example", "a", TRUE, TRUE), None),
     Source("b", "registry-git", Location("github.com", "b", TRUE, TRUE), None),
     Source("c", "registry-git", Location("corp.example", "a", TRUE, TRUE), "main"),
     Source("c", "source-local", Location("local", "c", TRUE, TRUE), None),
     Source("c", "source-git", Location("intranet", "c", TRUE, FALSE), None),
     Source("c", "source-git", Location("corp.example", "d", FALSE, TRUE), None)}

MCPolicies ==
    LET free == DefaultOrganizationPolicy IN
    {free, [free EXCEPT !.destination = "a", !.mode = "automatic"], [free EXCEPT !.destination = "b"],
     [free EXCEPT !.hosts = {"corp.example"}, !.required = {"a"}, !.direct = FALSE],
     [free EXCEPT !.denyPublic = TRUE, !.repos = {"a", "b", "c", "d"}],
     [free EXCEPT !.mode = "automatic", !.destination = "b"], [free EXCEPT !.mode = "disabled"]}

Git(alias, kind, host) == Source(alias, kind, Location(host, alias, TRUE, TRUE), "main")

MCConfigurations ==
    {[DefaultUserConfiguration EXCEPT
        !.sources = {Git("a", "registry-git", "corp.example"), Git("b", "registry-git", "github.com"),
                     Git("c", "registry-git", "corp.example"), Git("d", "source-git", "corp.example")},
        !.reporting = r] :
       r \in {[mode |-> "prompt", destination |-> d] : d \in {None, "a", "b"}}
             \cup {[mode |-> "disabled", destination |-> None], [mode |-> "automatic", destination |-> "a"]}}

Issues(kind, repository) == {[name |-> "usage_reporting", kind |-> kind, repository |-> repository]}

Advertising == [services |-> Issues("github-issues", "org/reports"), coherent |-> TRUE]

MCSnapshots ==
    {None, Advertising, [Advertising EXCEPT !.coherent = FALSE], [Advertising EXCEPT !.services = {}],
     [Advertising EXCEPT !.services = Issues("other", None)]}

MCFetched ==
    {[alias \in {"a", "b", "c"} |-> IF alias = "a" THEN first ELSE Advertising] : first \in MCSnapshots}

MCBaskets == {{"x"}, {"x", "y"}, {"x", "z"}, {"x", "y", "z"}, {"y", "w"}}
==============================================================================
