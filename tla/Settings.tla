------------------------------ MODULE Settings ------------------------------
(* The documents AART keeps for its user, as what their parsers take and    *)
(* their writers give: the configuration and the organization's policy      *)
(* (configuration/schema.py, model.py, policy.py), the changes source       *)
(* management makes to a configuration (tui_sources.py), and the manifest   *)
(* of installations (install_state/model.py, schema.py).                    *)
(*                                                                          *)
(* A location is [host, repo, safe], or a path for a local source; a source *)
(* is [alias, kind, location, ref, enabled].  A document holds None where a *)
(* field is left out.                                                       *)
EXTENDS Nothing, Integers, Sequences, FiniteSets, FiniteSetsExt

CONSTANTS MaxAge,       \* 2^31 - 1 in the code
          PublicHosts,  \* github.com, gitlab.com, bitbucket.org
          Policies      \* what an organization may deploy

\* A source as it is given, and the documents it is kept in.
SourceInputs ==
    [alias : STRING, kind : {"registry-git", "source-git", "source-local"},
     location : [host : STRING, repo : STRING, safe : BOOLEAN, dotted : BOOLEAN],
     ref : STRING \cup {None}, enabled : BOOLEAN]

UserConfigurations ==
    [sources : SUBSET SourceInputs, default : STRING \cup {None},
     sync : [mode : STRING, age : Nat], reporting : [mode : STRING, destination : STRING \cup {None}]]

ASSUME SettingsAssumption ==
    /\ MaxAge \in Nat /\ MaxAge >= 900
    /\ None \notin SourceInputs /\ None \notin UserConfigurations
    /\ {"main", "auto", "prompt", "automatic", "a", "b"} \subseteq STRING  \* nothing else types a literal in a proof

-----------------------------------------------------------------------------
(* The configuration.                                                       *)

IsGit(source) == source.kind \in {"registry-git", "source-git"}

\* HTTPS, SSH and SCP forms of one repository are one origin.
OriginKey(source) == <<source.kind, source.location.host, source.location.repo, source.ref>>

\* A Git source that names no ref tracks main; a local one may not name any.
ConfiguredSourceFromInput(input) ==
    LET source == [input EXCEPT !.ref = IF input.kind # "source-local" /\ @ = None THEN "main" ELSE @] IN
    IF /\ source.location.safe
       /\ IF source.kind = "source-local" THEN source.ref = None ELSE source.ref # "unsafe"
    THEN source ELSE None

SourcesValid(sources) ==
    /\ \A s, t \in sources : s.alias = t.alias => s = t
    /\ \A s, t \in sources : IsGit(s) /\ IsGit(t) /\ OriginKey(s) = OriginKey(t) => s = t

SyncValid(sync) == sync.mode \in {"auto", "manual"} /\ sync.age \in 0 .. MaxAge

\* Automatic reporting needs somewhere to report to.
ReportingValid(reporting) == reporting.mode = "automatic" => reporting.destination # None

Registry(sources, alias) ==
    \E s \in sources : s.alias = alias /\ s.enabled /\ s.kind = "registry-git"

DefaultUserConfiguration ==
    [sources |-> {}, default |-> None, sync |-> [mode |-> "auto", age |-> 900],
     reporting |-> [mode |-> "prompt", destination |-> None]]

\* The configuration a document stands for, or None.
ParseUserConfiguration(document) ==
    LET sources == {ConfiguredSourceFromInput(s) : s \in document.sources}
        parsed == [document EXCEPT !.sources = sources,
                       !.sync = IF @ = None THEN DefaultUserConfiguration.sync ELSE @,
                       !.reporting = IF @ = None THEN DefaultUserConfiguration.reporting ELSE @]
    IN  IF /\ None \notin sources
           /\ Cardinality({s.alias : s \in document.sources}) = Cardinality(document.sources)
           /\ SourcesValid(sources)
           /\ SyncValid(parsed.sync) /\ ReportingValid(parsed.reporting)
           /\ parsed.default # None => Registry(sources, parsed.default)
           /\ parsed.reporting.destination # None => Registry(sources, parsed.reporting.destination)
        THEN parsed ELSE None

\* The writer leaves nothing to the parser's defaults.
UserConfigurationBytes(configuration) ==
    [sources |-> configuration.sources, default |-> configuration.default,
     sync |-> configuration.sync, reporting |-> configuration.reporting]

-----------------------------------------------------------------------------
(* The organization's policy over it.                                       *)

DefaultOrganizationPolicy ==
    [recommended |-> {}, required |-> {}, hosts |-> None, repos |-> None, direct |-> None,
     mode |-> None, destination |-> None, denyPublic |-> FALSE]

\* A document with a field of no form, or an alias both required and recommended,
\* is no policy, and then nothing works.
ParseOrganizationPolicy(document) ==
    IF document.shaped /\ document.policy.recommended \cap document.policy.required = {}
    THEN document.policy ELSE None

NoOverrides == [default |-> None, mode |-> None, destination |-> None]

LockedOverride(overrides, policy) ==
    \/ policy.mode # None /\ overrides.mode \notin {None, policy.mode}
    \/ policy.destination # None /\ overrides.destination \notin {None, policy.destination}

\* Every enabled source, and what is reported where.
PolicyDenies(configuration, policy, allowMissing) ==
    LET enabled == {s \in configuration.sources : s.enabled}
        destination == configuration.reporting.destination
        target == {s \in enabled : s.alias = destination /\ s.kind = "registry-git"}
    IN  \/ ~allowMissing /\ ~(policy.required \subseteq {s.alias : s \in enabled})
        \/ \E s \in enabled : policy.direct = FALSE /\ s.kind # "registry-git"
        \/ \E s \in {s \in enabled : IsGit(s)} :
              \/ ~s.location.safe
              \/ policy.hosts # None /\ s.location.host \notin policy.hosts
              \/ policy.repos # None /\ s.location.repo \notin policy.repos
        \/ destination # None /\ target = {}
        \/ /\ destination # None /\ policy.denyPublic
           /\ \E s \in target : s.location.host \in PublicHosts

\* What a command runs with, or None.  The policy is asked about the effective
\* values, in which its own lock has already replaced the user's.
ApplyConfiguration(user, overrides, policy, allowMissing) ==
    LET first(a, b) == IF a # None THEN a ELSE b
        effective == [user EXCEPT
            !.default = first(overrides.default, @),
            !.reporting = [mode |-> first(policy.mode, first(overrides.mode, @.mode)),
                           destination |-> first(policy.destination,
                                                 first(overrides.destination, @.destination))]]
    IN  IF \/ LockedOverride(overrides, policy)
           \/ ~ReportingValid(effective.reporting)
           \/ effective.default # None /\ ~Registry(effective.sources, effective.default)
           \/ PolicyDenies(effective, policy, allowMissing)
        THEN None ELSE effective

\* What a command works from: a document that does not parse gives defaults to a
\* command that needs no content, together with a plan to recover.
LoadConfiguration(document, policy, overrides, content) ==
    LET parsed == IF document = None THEN DefaultUserConfiguration ELSE ParseUserConfiguration(document)
        user == IF parsed = None THEN DefaultUserConfiguration ELSE parsed
        effective == ApplyConfiguration(user, overrides, policy, ~content)
    IN  IF \/ parsed = None /\ content
           \/ effective = None
           \/ content /\ ~\E s \in effective.sources : s.enabled
        THEN None
        ELSE [configuration |-> user, effective |-> effective, recovery |-> parsed = None]

-----------------------------------------------------------------------------
(* Source management: what each command would write, or None.               *)

Checked(configuration, policy, allowMissing) ==
    IF ApplyConfiguration(configuration, NoOverrides, policy, allowMissing) = None THEN None
    ELSE UserConfigurationBytes(configuration)

\* The user may say whether the new source becomes the default registry (default is
\* TRUE or FALSE); otherwise, None, a first registry does.
WithSource(configuration, source, default, policy) ==
    LET first == source.kind = "registry-git"
                   /\ ~\E s \in configuration.sources : s.kind = "registry-git"
        chosen == IF default = None THEN first ELSE default
    IN  IF \/ ~source.enabled
           \/ \E s \in configuration.sources : s.alias = source.alias
           \/ \E s \in configuration.sources : IsGit(s) /\ IsGit(source) /\ OriginKey(s) = OriginKey(source)
           \/ source.kind # "registry-git" /\ (policy.direct = FALSE \/ chosen)
        THEN None
        ELSE Checked([configuration EXCEPT !.sources = @ \cup {source},
                          !.default = IF chosen THEN source.alias ELSE @], policy, TRUE)

\* A faulty variant: the default registry survives its source.
Dangling_WithoutSource(configuration, alias, policy) ==
    IF alias \in policy.required \/ ~\E s \in configuration.sources : s.alias = alias THEN None
    ELSE UserConfigurationBytes([configuration EXCEPT !.sources = {s \in @ : s.alias # alias}])

WithoutSource(configuration, alias, policy) ==
    IF alias \in policy.required \/ ~\E s \in configuration.sources : s.alias = alias THEN None
    ELSE Checked([configuration EXCEPT !.sources = {s \in @ : s.alias # alias},
                      !.default = IF @ = alias THEN None ELSE @], policy, TRUE)

\* A selection enables what is chosen and nothing else; the default stays where it
\* can, or goes to the first registry that is left.
WithEnabled(configuration, aliases, policy) ==
    LET chosen == {s \in configuration.sources : s.alias \in aliases}
        registries == {s.alias : s \in {s \in chosen : s.kind = "registry-git"}}
        default == IF configuration.default \in aliases THEN configuration.default
                   ELSE IF registries = {} THEN None ELSE CHOOSE a \in registries : TRUE
    IN  IF ~(policy.required \subseteq aliases) \/ (aliases = {} /\ policy.required # {}) THEN None
        ELSE Checked([configuration EXCEPT !.sources = {[s EXCEPT !.enabled = s.alias \in aliases] : s \in @},
                          !.default = default], policy, FALSE)

-----------------------------------------------------------------------------
(* The manifest of installations.                                           *)

\* An origin is recorded as host/repository, and a host without a dot is none.
SourceEvidence(source, revision) ==
    IF IsGit(source) => source.location.dotted /\ source.ref # "unsafe" /\ revision # "local"
    THEN [alias |-> source.alias, kind |-> source.kind, origin |-> source.location,
          revision |-> revision, ref |-> source.ref]
    ELSE None

EffectValid(proof) ==
    /\ proof.restores # None => proof.kind = "write-file"
    /\ (proof.kind = "merge-json") <=> (proof.mode # None)
    /\ proof.kind = "merge-json" => proof.id # None

Locator(proof) == <<proof.destination, proof.id>>

RecordValid(record) ==
    /\ record.effects # {} /\ record.source # None
    /\ \A p \in record.effects : EffectValid(p)
    /\ \A p, q \in record.effects : Locator(p) = Locator(q) => p = q

\* No two installations own one place; only managed blocks share a file.
OwnershipUnique(records) ==
    \A r, s \in records : \A p \in r.effects, q \in s.effects :
        /\ r # s /\ r.scope = s.scope /\ Locator(p) = Locator(q)
        => p.kind = "managed-block" \/ q.kind = "managed-block"

InstallStateValid(records) ==
    /\ \A r \in records : RecordValid(r)
    /\ \A r, s \in records : <<r.name, r.profile, r.scope>> = <<s.name, s.profile, s.scope>> => r = s
    /\ OwnershipUnique(records)

\* The retired envelope is recognised as a whole, and refused by its own name.
ParseInstallState(document) ==
    CASE document.envelope = "legacy" -> "install-state-legacy"
      [] document.envelope = "v2" /\ InstallStateValid(document.installations) -> None
      [] OTHER -> "install-state-invalid"
=============================================================================
