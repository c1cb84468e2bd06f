----------------------------- MODULE Management -----------------------------
(* A user's configuration written by source management, edited by hand and   *)
(* governed by an organization's policy that changes (tui_sources.py,        *)
(* application/configuration.py), with the manifest of what is installed     *)
(* from the configured sources (install_state/).                             *)
EXTENDS Settings, TLC

CONSTANTS Inputs,      \* the sources a user may add
          MaxRecords   \* bounds the installations

ASSUME ManagementAssumption == Inputs \subseteq SourceInputs

VARIABLES document,  \* the configuration on disk, None if there is none
          policy,    \* the organization's
          wrote,     \* the policy source management last wrote under, None after an edit
          manifest   \* the recorded installations

-----------------------------------------------------------------------------
Loaded(content) == LoadConfiguration(document, policy, NoOverrides, content)

\* What source management works from: a document it had to recover from is left alone.
Manageable == Loaded(FALSE) # None /\ ~Loaded(FALSE).recovery

Write(written) ==
    /\ written # None
    /\ document' = written
    /\ wrote' = policy
    /\ UNCHANGED <<policy, manifest>>

-----------------------------------------------------------------------------
ManagementInit ==
    /\ document = None
    /\ policy = DefaultOrganizationPolicy
    /\ wrote = None
    /\ manifest = {}

Add(input, default) ==
    /\ Manageable
    /\ ConfiguredSourceFromInput(input) # None
    /\ Write(WithSource(Loaded(FALSE).configuration, ConfiguredSourceFromInput(input),
                        default, policy))

RemoveSource(alias) ==
    /\ Manageable
    /\ Write(WithoutSource(Loaded(FALSE).configuration, alias, policy))

SelectSources(aliases) ==
    /\ Manageable
    /\ aliases \subseteq {s.alias : s \in Loaded(FALSE).configuration.sources}
    /\ Write(WithEnabled(Loaded(FALSE).configuration, aliases, policy))

\* The user edits the file: where to report, how old content may be.
HandEdit(mode, destination, age) ==
    /\ document # None
    /\ document' = [document EXCEPT !.reporting = [mode |-> mode, destination |-> destination],
                                    !.sync = [mode |-> "auto", age |-> age]]
    /\ wrote' = None /\ UNCHANGED <<policy, manifest>>

\* A deployed document of no form is no policy, and nothing changes.
Deploy(deployed) ==
    /\ ParseOrganizationPolicy(deployed) # None
    /\ policy' = ParseOrganizationPolicy(deployed)
    /\ UNCHANGED <<document, wrote, manifest>>

Effect(kind, destination, id) ==
    [kind |-> kind, destination |-> destination, id |-> id,
     mode |-> IF kind = "merge-json" THEN "key" ELSE None,
     restores |-> IF kind = "write-file" THEN "sidecar" ELSE None]

\* An install from an enabled source, refused where the manifest would not be valid.
Record(name, alias, effect) ==
    \E source \in {s \in Loaded(TRUE).effective.sources : s.alias = alias /\ s.enabled} :
        LET record == [name |-> name, profile |-> "claude", scope |-> "project",
                       source |-> SourceEvidence(source, "rev"), effects |-> {effect}]
            next == {r \in manifest : r.name # name} \cup {record}
        IN  /\ Cardinality(next) <= MaxRecords
            /\ RecordValid(record) /\ InstallStateValid(next)
            /\ manifest' = next
            /\ UNCHANGED <<document, policy, wrote>>

\* Neither file is read to write the other: the configuration is settled first.
ManagementNext ==
    \/ /\ manifest = {}
       /\ \/ \E input \in Inputs, default \in {None, TRUE, FALSE} : Add(input, default)
          \/ \E alias \in {"a", "b", "c"} : RemoveSource(alias)
          \/ \E aliases \in SUBSET {"a", "b", "c"} : SelectSources(aliases)
          \/ \E mode \in {"prompt", "automatic"}, destination \in {None, "a", "b"} :
                HandEdit(mode, destination, 0)
          \/ HandEdit("prompt", None, MaxAge + 1)
          \/ \E p \in Policies, shaped \in BOOLEAN : Deploy([policy |-> p, shaped |-> shaped])
    \/ /\ Loaded(TRUE) # None
       /\ \E name \in {"x", "y"}, alias \in {"a", "c"},
             effect \in {Effect("merge-json", "settings", "x"), Effect("managed-block", "memory", None),
                         Effect("write-file", "memory", None)} : Record(name, alias, effect)

management == <<document, policy, wrote, manifest>>

ManagementSpec == ManagementInit /\ [][ManagementNext]_management

-----------------------------------------------------------------------------
\* What source management writes, the parser takes and the policy it was written
\* under accepts: removing, disabling or adding a source leaves no default registry
\* and no report destination that is not an enabled registry, so that no command of
\* AART's own locks the user out of the others.  This holds unless the policy locks
\* a destination other than the document's own: then only the locked one is checked
\* (configuration/policy.py:_apply_configuration).  And the manifest holds no
\* installation that a second reading would refuse (install_state/schema.py).
WrittenIsReadable ==
    /\ /\ wrote # None
       /\ wrote.destination \in {None, document.reporting.destination}
       => /\ ParseUserConfiguration(document) # None
          /\ ApplyConfiguration(ParseUserConfiguration(document), NoOverrides, wrote, TRUE) # None
    /\ ParseInstallState([envelope |-> "v2", installations |-> manifest]) = None
==============================================================================
