----------------------------- MODULE Capabilities ------------------------------
(***************************************************************************)
(* The capability manifest (src/src/runtime_capabilities.cpp): what the    *)
(* DLL may do to a client, computed once from the fingerprint and the      *)
(* discoveries, before any hook is installed.  allowed: the permissions;   *)
(* validated: the targets whose address the installers may use.            *)
(* Permissions that no client ever gets (every trace) are left out.        *)
(***************************************************************************)
EXTENDS ClientImage

Allow(manifest, permission, granted) ==
    IF granted THEN [manifest EXCEPT !.allowed = @ \cup {permission}] ELSE manifest

\* Without a working proxy.
BuildDisabledCapabilityManifest == [allowed |-> {}, validated |-> {}]

BuildCapabilityManifest(client) ==
    [allowed |-> IF Evaluate(client)
                 THEN {"hooks", "spellDiscovery", "classDiscovery", "skillVisibility"}
                 ELSE {},
     validated |-> {}]

ApplyReceiveDispatchDiscovery(manifest, validated) ==
    Allow(manifest, "packetHooks", "hooks" \in manifest.allowed /\ validated)

\* Mutant: item usability with the second of its two targets alone.
ApplySpellUsabilityHalf(manifest, validated) ==
    LET spells == Allow([manifest EXCEPT !.validated = @ \cup validated],
                        "spellUsability", "level" \in validated)
    IN Allow(spells, "itemUsability", "canEquip" \in validated)

ApplySpellUsabilityDiscovery(manifest, validated) ==
    LET spells == Allow([manifest EXCEPT !.validated = @ \cup validated],
                        "spellUsability", "level" \in validated)
    IN Allow(spells, "itemUsability", {"classUsable", "canEquip"} \subseteq validated)

\* The name writer of the character selection is validated for itself.
ApplyClassDisplayDiscovery(manifest, validated) ==
    Allow([manifest EXCEPT !.validated = @ \cup validated], "uiDisplay",
          {"whoClassName", "classDesc", "threeLetter"} \subseteq validated)

\* The manifest the proxy publishes, from the one it built.
PublishCapabilitiesWithDiscovery(built, client) ==
    LET received == ApplyReceiveDispatchDiscovery(
            built, RunReceiveDispatchDiscovery(client, "hooks" \in built.allowed))
        spells == ApplySpellUsabilityDiscovery(
            received, RunSpellUsabilityDiscovery(client, "spellDiscovery" \in built.allowed))
    IN ApplyClassDisplayDiscovery(
           spells, RunClassDisplayDiscovery(client, "classDiscovery" \in built.allowed))
==============================================================================
