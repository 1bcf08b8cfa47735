---------------------------- MODULE MCHookLifecycle ----------------------------
(* The client the DLL was written for, and every client that differs from it  *)
(* in its fingerprint, in one or two pieces of evidence, in a seam that cannot *)
(* be patched, in one that cannot be restored, or in one of each kind.         *)
EXTENDS HookLifecycle

Genuine == [name |-> TRUE, version |-> "both", scan |-> "both", sha |-> TRUE,
            pe |-> TRUE, off |-> {}, unable |-> {}, stuck |-> {}]

Markers == {"both", "other", "none"}

Fingerprints == [name : BOOLEAN, version : Markers, scan : Markers, sha : BOOLEAN,
                 pe : BOOLEAN, off : {{}}, unable : {{}}, stuck : {{}}]

Functions == Recognised \cup Nested
               \cup {"rButtonUp", "memming", "spellbook", "scribe", "modeGetter", "lookup",
                     "sendPath", "memorize", "hasSkill", "dispatcher", "compareTree",
                     "unknownPath"}

Evidence ==
    {Found(f) : f \in Functions} \cup {Executable(f) : f \in Functions}
    \cup {Entry(f) : f \in Functions}
    \cup {<<at, part>> : at \in {"dispatcher", "compareTree", "unknownPath"},
                         part \in {"compares", "branches", "call", "stack"}}
    \cup {Call(feeder, "dispatcher") : feeder \in {"feederA", "feederB"}}
    \cup {<<"epilogue", "ret10">>, Call("memming", "level"), Call("scribe", "level"),
          Call("scribe", "gate"), Call("sendPath", "send"), Call("scribeLike", "send"),
          Call("spellbook", "scribe"), Call("spellbook", "memming")}
    \cup {Call("gate", f) : f \in Nested}

Without(sha, missing) == [Genuine EXCEPT !.sha = sha, !.off = missing]

Patching(unable, stuck) == [Genuine EXCEPT !.unable = unable, !.stuck = stuck]

MCClients ==
    Fingerprints
    \cup {Without(sha, {e}) : sha \in BOOLEAN, e \in Evidence}
    \cup {Without(TRUE, {Entry(f), Entry(g)}) : f, g \in Recognised \cup {"hasSkill"}}
    \cup {Patching({a}, {}) : a \in Seams}
    \cup {Patching({}, {b}) : b \in Seams}
    \cup {Patching({a}, {b}) : a, b \in Seams}
=============================================================================
