---- MODULE MCUsableAbilities ----
(* The combat abilities, the spell gate, or the hands: they share nothing    *)
(* but the mask and the thread, so part bounds a behaviour to the calls of    *)
(* one of them; packets come in each.                                         *)
EXTENDS UsableAbilities

CONSTANTS War, Clr, Mnk, BitX, B1, B2, Disc, Comb, Prof

VARIABLE part

MCInit ==
    /\ Init
    /\ part \in {"abilities", "spells", "hands"}
    /\ part # "spells" => installed = {"getter", "rule", "usability"}
    /\ part # "hands" => worn = [h \in Hands |-> NoItem]

MCNext ==
    /\ Next
    /\ part # "abilities" => UNCHANGED combatVars
    /\ part # "spells" => UNCHANGED gateVars
    /\ part # "hands" => UNCHANGED handVars
    /\ UNCHANGED part

MCSpec == MCInit /\ [][MCNext]_<<usableVars, part>>

MCClassBits       == {War, Clr, Mnk, BitX}
MCPlayableClasses == {War, Clr, Mnk}
MCCastingClasses  == {Clr}
MCClassOrder      == <<War, Clr, Mnk>>
MCReceivedMasks   == {{War, Mnk}, {Clr, BitX}, {}}

Levels(war, clr, mnk) ==
    [c \in MCPlayableClasses |-> CASE c = War -> war [] c = Clr -> clr [] c = Mnk -> mnk]

Ability(category, group, rank, levels) ==
    [skill |-> TRUE, category |-> category, costs |-> category = Prof, deity |-> 0,
     group |-> group, subgroup |-> 0, rank |-> rank, level |-> levels]

\* One group of four, of both classes, and three spells without one.
MCSpell ==
    <<Ability(Comb, 7, 1, Levels(1, 255, 255)),
      Ability(Prof, 7, 1, Levels(255, 255, 1)),
      [Ability(Comb, 0, 0, Levels(1, 1, 1)) EXCEPT !.deity = 5],
      Ability(Disc, 7, 1, Levels(9, 255, 255)),
      Ability(Comb, 7, 2, Levels(255, 255, 1)),
      Ability(Disc, 0, 0, Levels(60, 255, 9)),
      [Ability(Disc, 7, 9, Levels(1, 1, 1)) EXCEPT !.skill = FALSE]>>

Player(level, displayed, learned) ==
    [level |-> level, deity |-> 5, displayed |-> displayed, learned |-> learned]

MCPlayers  == {Player(9, Mnk, <<>>), Player(60, War, <<-1, 4, 4>>)}
MCBuffers  == {B1, B2}
MCContents == {<<1, 0>>, <<0, 5>>}
MCLengths  == {0, 2}

MCSpellMasks  == {{}, {War}, {Clr}, {War, Mnk, BitX}}
MCInstalls    == {{"usability", "getter"}, {"usability", "getter", "rule"},
                  {"usability", "resolver", "getter", "rule"}, {"resolver", "getter", "rule"},
                  {"usability", "resolver", "rule"}}
MCLevelTables == {Levels(w, c, m) : w, c, m \in {0, 9, 60, 255}}

\* A two-hander of the warrior, a weapon of the monk for either hand, a shield.
MCItem ==
    [Sword  |-> [kind |-> "twoHand", classes |-> {War}, wears |-> {"primary"}],
     Claw   |-> [kind |-> "oneHand", classes |-> {Mnk}, wears |-> {"primary", "secondary"}],
     Shield |-> [kind |-> "other", classes |-> {War, Clr}, wears |-> {"secondary"}]]

MCDualWieldLevel == [c \in {War, Mnk} |-> IF c = Mnk THEN 1 ELSE 13]

MCSights ==
    {[item |-> TRUE, animation |-> TRUE, skill |-> "yes", level |-> 1],
     [item |-> TRUE, animation |-> FALSE, skill |-> "no", level |-> 9],
     [item |-> TRUE, animation |-> TRUE, skill |-> "unreadable", level |-> 0],
     [item |-> FALSE, animation |-> TRUE, skill |-> "yes", level |-> 60]}
=============================
