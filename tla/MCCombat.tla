------------------------------ MODULE MCCombat ------------------------------
EXTENDS Combat, TLC

\* One unit is ten hit points of the roster.
NoEffect == [type |-> "status", on |-> "target", amount |-> 0, damage |-> "normal", status |-> "",
             breaks |-> 0, bonus |-> 0, bonus_if |-> "", if |-> "", if_user |-> "", if_before |-> "",
             primary |-> FALSE]
Hit(n, type) == [NoEffect EXCEPT !.type = "damage", !.amount = n, !.damage = type]
Cast(on, id) == [NoEffect EXCEPT !.on = on, !.status = id]
Skl(kind, classes, fixed, wild, cooldown, effects) ==
    [kind |-> kind, classes |-> classes, fixed |-> fixed, wild |-> wild, cooldown |-> cooldown,
     needs |-> "", effects |-> effects]

MCSkill ==
    [ swarm    |-> Skl("enemy", {"cursed"}, 1, 0, 0, <<Hit(1, "normal"), Cast("self", "stock")>>),
      uzumaki  |-> Skl("enemy", {}, 2, 1, 2, <<[Hit(4, "piercing") EXCEPT !.breaks = 2],
                      [Cast("self", "stock") EXCEPT !.type = "consume", !.amount = 3]>>),
      hookworm |-> Skl("enemy", {"control"}, 1, 1, 2, <<Hit(2, "normal"), Cast("target", "body_stun"),
                      [Cast("self", "stock") EXCEPT !.type = "consume", !.amount = 1]>>),
      sting    |-> Skl("enemy", {"soul"}, 1, 0, 0, <<Hit(1, "soul"), Cast("target", "poison")>>),
      screen   |-> Skl("ally", {"strategic"}, 1, 0, 2, <<Cast("target", "screen")>>),
      veil     |-> [Skl("enemies", {"strategic"}, 0, 1, 4, <<Cast("self", "veil"),
                      [Cast("target", "poison") EXCEPT !.type = "extend", !.amount = 1]>>)
                      EXCEPT !.needs = "poison"],
      draw     |-> Skl("enemy", {"melee"}, 1, 0, 1, <<Hit(2, "normal"),
                      [Cast("target", "draw_stun") EXCEPT !.if_user = "stance"]>>),
      stance   |-> Skl("self", {"barrier"}, 1, 1, 4, <<Cast("self", "stance")>>),
      palm     |-> Skl("enemy", {"melee"}, 1, 0, 0,
                      <<[Hit(2, "normal") EXCEPT !.bonus = 1, !.bonus_if = "boogie"]>>),
      boogie   |-> Skl("enemy", {"strategic"}, 2, 0, 3, <<Cast("target", "boogie")>>),
      katana   |-> Skl("enemy", {"melee"}, 1, 0, 0, <<Hit(2, "normal")>>),
      rika     |-> Skl("self", {"strategic"}, 1, 1, 4, <<Cast("self", "rika")>>),
      speech   |-> Skl("enemy", {"control"}, 1, 1, 1, <<Cast("target", "speech_stun"),
                      [Hit(1, "soul") EXCEPT !.on = "self"]>>),
      rhythm   |-> Skl("allies", {"strategic"}, 2, 0, 4, <<[Cast("self", "rhythm") EXCEPT !.type = "team"]>>),
      mend     |-> Skl("ally", {"strategic"}, 2, 0, 1, <<[NoEffect EXCEPT !.type = "heal", !.amount = 2],
                      [NoEffect EXCEPT !.type = "cleanse"]>>),
      read     |-> Skl("enemy", {"strategic"}, 1, 0, 2, <<Cast("self", "read")>>),
      infinity |-> Skl("self", {"barrier", "strategic"}, 1, 1, 4, <<Cast("self", "infinity")>>),
      red      |-> Skl("enemy", {"cursed"}, 1, 1, 2, <<Hit(3, "piercing")>>),
      revolver |-> Skl("enemy", {}, 1, 0, 0, <<Hit(2, "normal"),
                      [Hit(2, "piercing") EXCEPT !.if_user = "bullet"]>>),
      feint    |-> Skl("enemy", {"strategic"}, 1, 0, 1, <<Cast("target", "feint")>>),
      bullet   |-> Skl("self", {"cursed", "strategic"}, 1, 1, 3, <<Cast("self", "bullet"),
                      [Hit(1, "soul") EXCEPT !.on = "self"]>>),
      barrage  |-> Skl("enemy", {}, 1, 0, 0, <<Hit(2, "normal"), Cast("target", "nail")>>),
      resonance |-> Skl("enemy", {"soul"}, 2, 0, 1, <<[Hit(2, "soul") EXCEPT !.if = "nail"], Hit(1, "normal")>>),
      hairpin  |-> [Skl("enemies", {}, 1, 1, 3, <<Hit(2, "piercing"),
                      [Cast("target", "nail") EXCEPT !.type = "remove"]>>) EXCEPT !.needs = "nail"],
      arrow    |-> Skl("enemy", {"cursed"}, 1, 0, 0, <<Hit(2, "normal"), Cast("target", "blood_mark")>>),
      binding  |-> Skl("enemy", {"cursed", "control"}, 1, 1, 2, <<Hit(1, "normal"), Cast("target", "bound"),
                      [Cast("target", "drain") EXCEPT !.if = "blood_mark"]>>),
      scout    |-> Skl("enemy", {"strategic"}, 1, 0, 3, <<Cast("target", "revealed"), Cast("self", "scout")>>) ]

NoKind == [for |-> 2, clock |-> "target", max |-> 0, unlock |-> 0, swap |-> <<>>,
           reduction |-> 0, taken |-> 0, output |-> 0, healing |-> 0, wild_delta |-> 0, defense |-> 0,
           poison |-> 0, poison_type |-> "normal", retaliate |-> 0, spite |-> "", drains |-> 0,
           grants |-> "", punish |-> "", exposes |-> "", reward |-> "",
           counter |-> "", reflect |-> "", stun |-> {}, affliction |-> FALSE,
           invulnerable |-> FALSE, anti_domain |-> FALSE, ignore_stun |-> FALSE, redirect |-> FALSE,
           watch |-> FALSE, watch_for |-> {}, watch_harmful |-> FALSE,
           bound |-> FALSE, once |-> FALSE, after_damage |-> FALSE, after_skill |-> ""]

\* Each kind by what it has beyond NoKind.
Differs ==
    [ stock       |-> [clock |-> "source", for |-> 4, max |-> 3, unlock |-> 3, swap |-> [swarm |-> "uzumaki"]],
      body_stun   |-> [stun |-> {"melee"}],
      poison      |-> [poison |-> 1, poison_type |-> "soul", affliction |-> TRUE],
      screen      |-> [defense |-> 1, retaliate |-> 1, spite |-> "poison"],
      veil        |-> [clock |-> "source", invulnerable |-> TRUE],
      draw_stun   |-> [stun |-> {"harmful"}],
      stance      |-> [clock |-> "source", for |-> 1, counter |-> "melee", reduction |-> 2, punish |-> "wound"],
      wound       |-> <<>>,
      boogie      |-> [for |-> 1, redirect |-> TRUE, grants |-> "boogie_guard"],
      boogie_guard |-> [defense |-> 1],
      rika        |-> [clock |-> "source", for |-> 2, defense |-> 1, swap |-> [rika |-> "speech"]],
      speech_stun |-> [stun |-> {"harmful"}],
      unbound     |-> [clock |-> "source", for |-> -1, defense |-> 1],
      rhythm      |-> [clock |-> "source", for |-> 3, output |-> 1, reduction |-> 1, bound |-> TRUE],
      read        |-> [for |-> 1, clock |-> "round", watch |-> TRUE, watch_for |-> {"cursed"},
                      watch_harmful |-> TRUE, reward |-> "insight"],
      insight     |-> [clock |-> "source", for |-> 1, output |-> 1, after_damage |-> TRUE],
      infinity    |-> [clock |-> "source", invulnerable |-> TRUE, wild_delta |-> 1, once |-> TRUE],
      feint       |-> [output |-> -2, exposes |-> "exposed"],
      exposed     |-> <<>>,
      bullet      |-> [clock |-> "source", for |-> 3, after_skill |-> "revolver"],
      nail        |-> <<>>,
      blood_mark  |-> <<>>,
      bound       |-> [stun |-> {"harmful"}],
      drain       |-> [drains |-> 1],
      revealed    |-> [taken |-> 1],
      scout       |-> [for |-> 1, clock |-> "round", watch |-> TRUE] ]
MCKind == [k \in DOMAIN Differs |-> Differs[k] @@ NoKind]

MCSide == [geto |-> "a", yuta |-> "a", uta |-> "a", junpei |-> "b", miwa |-> "b", todo |-> "b",
           mai |-> "a", gojo |-> "b", nobara |-> "a", kamo |-> "b", momo |-> "b"]
MCBase == [geto |-> {"swarm", "hookworm"}, yuta |-> {"katana", "rika"}, uta |-> {"rhythm", "mend"},
           junpei |-> {"sting", "screen", "veil"}, miwa |-> {"draw", "stance"}, todo |-> {"palm", "boogie"},
           mai |-> {"revolver", "feint", "bullet"}, gojo |-> {"read", "infinity", "red"},
           nobara |-> {"barrage", "resonance", "hairpin"}, kamo |-> {"arrow", "binding"}, momo |-> {"scout"}]
MCPassive == [yuta |-> [at |-> 2, gives |-> "unbound"]]
MCLineups == {<<"geto", "junpei">>, <<"geto", "miwa">>, <<"yuta", "miwa">>, <<"yuta", "uta", "todo">>,
              <<"geto", "gojo">>, <<"mai", "gojo">>, <<"nobara", "kamo", "momo">>}
=============================================================================
