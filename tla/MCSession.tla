----------------------------- MODULE MCSession ------------------------------
(* A registry and a direct source, two artifacts and a collection of both.  *)
EXTENDS Session

CONSTANTS reg, own, a1, a2, bundle, claude

MCSources == {reg, own}
MCRegistries == {reg}
MCProfiles == {claude}
MCCurations == {"health", "vendor"}
MCDetailed == {"vendor"}
MCArtifacts == {a1, a2}
MCCollections == {bundle}
MCHome == (a1 :> reg) @@ (a2 :> own) @@ (bundle :> reg)
MCMembers == bundle :> {a1, a2}
\* The second artifact merges into a file, so it is never linked, and has no
\* place in the user scope.
MCFits == (a1 :> {<<claude, c, m>> : c \in Scopes, m \in Modes}) @@
          (a2 :> {<<claude, "project", "copy">>})
MCSetUp == {a1}
NoOne == {}

\* The wizard starts with the registry alone, which is readable and the
\* default, and with the first artifact installed.
MCInit ==
    /\ Init
    /\ config = [state |-> (reg :> "on") @@ (own :> "absent"), default |-> reg]
    /\ snap[reg] = "current"
    /\ manifest["project"] = {<<a1, claude>>}

MCSpec == MCInit /\ [][Next]_vars /\ WF_vars(Program)
=============================================================================
