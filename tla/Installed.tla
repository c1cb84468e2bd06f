----------------------------- MODULE Installed -----------------------------
(***************************************************************************)
(* What installing promises: a command is all or nothing.  An artifact has *)
(* three places, its private tree, its entry in the shared settings file   *)
(* and its record in the installation state; a command changes all three   *)
(* in one step, touches no other artifact, and otherwise has no effect.    *)
(***************************************************************************)
CONSTANTS Arts, Removable, Digests, Absent, Foreign, Preinstalled, Seed

VARIABLES tree, config, manifest

vars == <<tree, config, manifest>>

Init ==
    /\ manifest = [a \in Arts |-> IF a \in Preinstalled THEN Seed ELSE Absent]
    /\ tree = manifest /\ config = manifest

Becomes(a, x) ==
    /\ tree' = [tree EXCEPT ![a] = x]
    /\ config' = [config EXCEPT ![a] = x]
    /\ manifest' = [manifest EXCEPT ![a] = x]

Install(a, d) == Becomes(a, d)

Uninstall(a) == a \in Removable /\ manifest[a] # Absent /\ Becomes(a, Absent)

Edit(a) ==
    /\ tree[a] # Absent
    /\ tree' = [tree EXCEPT ![a] = Foreign]
    /\ UNCHANGED <<config, manifest>>

Next ==
    \E a \in Arts : Uninstall(a) \/ Edit(a) \/ \E d \in Digests : Install(a, d)

Spec == Init /\ [][Next]_vars
=============================================================================
