------------------------------- MODULE Combat -------------------------------
(***************************************************************************)
(* The rules of a battle turn (battle_v2/resolver.py, effects.py,          *)
(* conditions.py, targeting.py, energy.py): a queue of skills is checked   *)
(* and paid as a whole, its actions resolve one after the other on the     *)
(* board the earlier ones left, then the turn is cleaned up (poison,       *)
(* clocks, expiries), the winner looked for and the next player's energy   *)
(* granted.  A turn runs under the room's lock: it is one step.            *)
(*                                                                         *)
(* Skills and statuses are data: the constants Skill and Kind say what     *)
(* each does, and a status in force adds only what changes.  The colours   *)
(* of energy are not told apart.                                           *)
(***************************************************************************)
EXTENDS Integers, Sequences, SequencesExt, FiniteSetsExt

CONSTANTS First, Second,  \* the players, in the order of state.players
          Side,           \* character -> its player
          Lineups,        \* the line-ups played: characters, First's before Second's
          Base, Passive,  \* character -> base_skill_ids, and the awakenings some have
          Skill, Kind,    \* skill id -> SkillSpec, status id -> its payload
          MaxHp, Sources, \* hit points; what a transmutation costs
          MaxTurn,        \* bound on the turns played
          MaxQueue        \* bound on the skills in a queue

VARIABLE battle

combatVars == <<battle>>

Open == "open"
Draw == "draw"
NoOne == "no one"

Character == DOMAIN Side
Other(p) == IF p = First THEN Second ELSE First

\* The members of s that are in T, in their order.
Kept(out, x, T) == IF x \in T THEN Append(out, x) ELSE out
Only(s, T) == FoldLeft(LAMBDA out, x : Kept(out, x, T), <<>>, s)

Members(b, p) == Only(b.lineup, {c \in Character : Side[c] = p})
Living(b, p) == Only(Members(b, p), {c \in DOMAIN b.team : b.team[c].alive})

-----------------------------------------------------------------------------
(* What the roster's data keeps to (starter_roster.py).                    *)

Redirecting(skill) ==
    \E i \in DOMAIN skill.effects : skill.effects[i].type = "status" /\ Kind[skill.effects[i].status].redirect

Casts(skill, id) ==
    \E i \in DOMAIN skill.effects :
        skill.effects[i].type \in {"status", "team"} /\ skill.effects[i].status = id

Replacing(id) == DOMAIN Kind[id].swap # {}
Lasting(id) == Kind[id].for < 0 \/ \E c \in DOMAIN Passive : Passive[c].gives = id

\* A line-up is of two sides; nobody is in it twice.
ASSUME CombatAssumption ==
    /\ First # Second /\ {First, Second} \cap {Open, Draw} = {}
    /\ MaxHp \in Nat \ {0} /\ MaxTurn \in Nat /\ MaxQueue \in Nat /\ Sources \in Nat
    /\ \A c \in Character : Side[c] \in {First, Second} /\ Base[c] \subseteq DOMAIN Skill
    /\ \A line \in Lineups :
          /\ line \in Seq(Character) /\ IsInjective(line)
          /\ \A p \in {First, Second} : \E i \in DOMAIN line : Side[line[i]] = p

\* What the engine gives by itself, an awakening, a guard, an answer, neither
\* redirects nor replaces, nor does the next skill use it up.
ASSUME KindAssumption ==
    LET plain == {id \in DOMAIN Kind : ~Kind[id].redirect /\ ~Replacing(id)} IN
    /\ \A c \in DOMAIN Passive : Passive[c].gives \in plain
    /\ \A id \in DOMAIN Kind : LET k == Kind[id] IN
          /\ k.for \in Int \ {0} /\ {k.max, k.unlock, k.defense} \subseteq Nat
          /\ {k.reduction, k.taken, k.output, k.healing, k.wild_delta,
              k.poison, k.retaliate, k.drains} \subseteq Int
          /\ {k.spite, k.grants, k.punish, k.exposes, k.reward} \subseteq
                {id2 \in plain : ~Kind[id2].once} \cup {""}

\* Only what has an end is extended, only what stacks is spent; a whole team is
\* not made to redirect.
ASSUME SkillAssumption ==
    \A id \in DOMAIN Skill : LET skill == Skill[id] IN
        /\ skill.kind \in {"self", "enemies", "allies", "enemy", "ally"}
        /\ {skill.fixed, skill.wild, skill.cooldown} \subseteq Int
        /\ skill.effects \in Seq(ToSet(skill.effects))
        /\ \A e \in ToSet(skill.effects) :
              /\ e.type \in {"damage", "status", "team", "heal", "consume", "extend", "remove", "cleanse"}
              /\ {e.amount, e.bonus, e.breaks} \subseteq Int
              /\ e.type \in {"status", "team", "extend", "consume"} => e.status \in DOMAIN Kind
              /\ e.type = "consume" => Kind[e.status].max > 0
              /\ e.type = "team" => ~Kind[e.status].redirect
              /\ e.type = "extend" => e.amount \in Nat /\ ~Lasting(e.status)

\* No two statuses replace the same slot.  One that replaces is not used up
\* beside the others, and if it does not stack it is all that the very skill it
\* replaces does.
ASSUME ReplacementAssumption ==
    \A id \in {id \in DOMAIN Kind : Replacing(id)} : LET k == Kind[id] IN
        /\ \A j \in DOMAIN Kind : j # id => DOMAIN k.swap \cap DOMAIN Kind[j].swap = {}
        /\ \A slot \in DOMAIN k.swap :
              /\ k.swap[slot] \in DOMAIN Skill \ {slot} /\ slot \in DOMAIN Skill
              /\ ~Redirecting(Skill[slot]) /\ ~Redirecting(Skill[k.swap[slot]])
              /\ \A j \in DOMAIN Kind :
                    Replacing(j) /\ Kind[j].max = 0 => ~Casts(Skill[k.swap[slot]], j)
        /\ ~k.redirect /\ ~k.watch /\ ~k.once /\ ~k.after_damage /\ k.after_skill \notin DOMAIN Skill
        /\ k.counter = "" /\ k.reflect = ""
        /\ k.max = 0 =>
              /\ k.unlock <= 1
              /\ \A sid \in DOMAIN Skill : Casts(Skill[sid], id) =>
                    /\ DOMAIN k.swap = {sid} /\ Len(Skill[sid].effects) = 1
                    /\ Skill[sid].effects[1].type = "status" /\ Skill[sid].effects[1].on = "self"

-----------------------------------------------------------------------------
Newcomer(c) ==
    [hp |-> MaxHp, alive |-> TRUE, acted |-> FALSE, reduced |-> 0, awake |-> FALSE,
     statuses |-> <<>>, swap |-> [k \in Base[c] |-> k], cool |-> <<>>]

CombatInit ==
    \E line \in Lineups :
        battle = [lineup |-> line, team |-> [c \in ToSet(line) |-> Newcomer(c)],
                  energy |-> [p \in {First, Second} |-> IF p = First THEN 1 ELSE 0],
                  converted |-> FALSE, turn |-> 1, mover |-> First, verdict |-> Open]

-----------------------------------------------------------------------------
(* Statuses.                                                               *)

\* A status with no time left does nothing until the end of the turn takes it.
InForce(c) == Only(c.statuses, {s \in ToSet(c.statuses) : s.left # 0})
Shows(c, field) == \E i \in DOMAIN c.statuses : c.statuses[i].left # 0 /\ Kind[c.statuses[i].id][field]
Has(c, id) == \E i \in DOMAIN c.statuses : c.statuses[i].left # 0 /\ c.statuses[i].id = id
Total(c, field) == FoldLeft(LAMBDA n, s : n + Kind[s.id][field], 0, InForce(c))
Shield(c) == FoldLeft(LAMBDA n, s : n + s.defense, 0, InForce(c))

\* skill_replacements: a status puts its replacements over the base slots once
\* it has the stacks, and takes back those that still are its own.
Unlocked(s) == s.stacks >= Kind[s.id].unlock
Unswapped(c, s) ==
    [c EXCEPT !.swap = [k \in DOMAIN @ |->
        IF k \in DOMAIN Kind[s.id].swap /\ @[k] = Kind[s.id].swap[k] THEN k ELSE @[k]]]
Swapped(c, s) ==
    IF ~Unlocked(s) THEN Unswapped(c, s)
    ELSE [c EXCEPT !.swap = [k \in DOMAIN @ |->
            IF k \in DOMAIN Kind[s.id].swap THEN Kind[s.id].swap[k] ELSE @[k]]]

Status(id, by, to, turn, clock, for) ==
    [id |-> id, by |-> by, to |-> to, born |-> turn, clock |-> clock,
     left |-> for, full |-> for, stacks |-> 1, defense |-> Kind[id].defense]

\* What the engine appends by itself: no application turn, on every turn's clock.
Bare(id, by) == Status(id, by, NoOne, 0, "turn", 2)

Same(c, id) == {i \in DOMAIN c.statuses : c.statuses[i].left # 0 /\ c.statuses[i].id = id}

Replaced(c, i, s) == Swapped([c EXCEPT !.statuses[i] = s], s)

\* The payload of the new one, its defense with it, replaces the old one's.
Renewed(old, s) ==
    [old EXCEPT !.stacks = Min({Kind[s.id].max, @ + s.stacks}), !.born = s.born, !.defense = s.defense,
                !.left = Max({@, s.left}), !.full = Max({old.left, s.left})]

\* apply_status: a stacking status already there is renewed, another is added.
Put(c, s) ==
    IF Kind[s.id].max > 0 /\ Has(c, s.id)
    THEN LET i == Min(Same(c, s.id)) IN Replaced(c, i, Renewed(c.statuses[i], s))
    ELSE Swapped([c EXCEPT !.statuses = Append(@, s)], s)

Give(b, on, id, by, to) ==
    LET clock == IF Kind[id].clock # "" THEN Kind[id].clock
                 ELSE IF Side[on] = Side[by] THEN "source" ELSE "target"
    IN [b EXCEPT !.team[on] = Put(@, Status(id, by, to, b.turn, clock, Kind[id].for))]

GiveAll(b, members, id, by, to) == FoldLeft(LAMBDA acc, m : Give(acc, m, id, by, to), b, members)

\* Statuses go by what they are, all of those in gone, or one by itself: what is
\* equal to it stays.
Drop(c, gone) ==
    [c EXCEPT !.statuses = Only(@, {s \in ToSet(@) : s.left = 0 \/ s \notin gone})]

TakenBack(c, statuses) == FoldLeft(Unswapped, c, statuses)

\* remove_status undoes the replacements too.
Removed(c, gone) == TakenBack(Drop(c, gone), Only(InForce(c), gone))

Without(c, i) == TakenBack([c EXCEPT !.statuses = RemoveAt(@, i)], <<c.statuses[i]>>)

\* _cleanse_one_self_affliction: the first of them.
Afflictions(c) == {i \in DOMAIN c.statuses : c.statuses[i].left # 0 /\ Kind[c.statuses[i].id].affliction}
Cleansed(c) == IF Afflictions(c) = {} THEN c ELSE Without(c, Min(Afflictions(c)))

\* consume_status_stacks
Spent(c, id, n) ==
    IF ~Has(c, id) THEN c
    ELSE LET i == Min(Same(c, id)) IN
         IF c.statuses[i].stacks <= n THEN Without(c, i)
         ELSE Replaced(c, i, [c.statuses[i] EXCEPT !.stacks = @ - n])

-----------------------------------------------------------------------------
(* Damage.                                                                 *)

\* _consume_destructible_defense, status by status.
Bears(acc, s) ==
    LET d == IF s.left = 0 THEN 0 ELSE Min({s.defense, acc.n})
    IN [n |-> acc.n - d, out |-> Append(acc.out, [s EXCEPT !.defense = @ - d])]

Wear(statuses, n) == FoldLeft(Bears, [n |-> n, out |-> <<>>], statuses)
Worn(statuses, n) == Wear(statuses, n).out

Wound(c, amount, reduced, blocked) ==
    LET hp == c.hp - Min({c.hp, amount - reduced - blocked})
    IN [c EXCEPT !.hp = hp, !.alive = hp > 0, !.reduced = @ + reduced, !.statuses = Worn(@, blocked)]

Guarded(c, amount, reduced, type) ==
    Wound(c, amount, reduced,
          IF type \in {"normal", "piercing"} THEN Min({amount - reduced, Shield(c)}) ELSE 0)

Reduced(c, amount, type) ==
    Guarded(c, amount,
            IF type = "normal" THEN Min({amount, Max({0, Total(c, "reduction") - c.reduced})}) ELSE 0,
            type)

\* apply_damage: reduction is a budget for the turn, defense is used up.
Hurt(c, amount, type) ==
    IF amount <= 0 \/ ~c.alive \/ (Shows(c, "invulnerable") /\ type # "sure_hit") THEN c
    ELSE Reduced(c, Max({0, amount + Total(c, "taken")}), type)

\* A sure hit is an ordinary one against anti-domain.
DamageType(c, type) == IF type = "sure_hit" /\ Shows(c, "anti_domain") THEN "normal" ELSE type

\* check_passive_awakenings
Awakened(c, who) ==
    IF ~c.alive \/ who \notin DOMAIN Passive \/ c.awake THEN c
    ELSE IF c.hp > Passive[who].at THEN c
    ELSE LET s == Status(Passive[who].gives, who, NoOne, 0, "turn", -1)
         IN Swapped([c EXCEPT !.awake = TRUE, !.statuses = Append(@, s)], s)

Struck(b, who, amount, type) ==
    [b EXCEPT !.team[who] = Awakened(Hurt(@, amount, type), who)]

-----------------------------------------------------------------------------
(* What a player may queue.                                                *)

Harmful(skill) ==
    IF skill.kind \in {"enemy", "enemies"}
    THEN "control" \in skill.classes \/ \E i \in DOMAIN skill.effects : skill.effects[i].on # "self"
    ELSE \E i \in DOMAIN skill.effects :
            skill.effects[i].on # "self" /\ skill.effects[i].type \in {"damage", "remove"}

Stunned(c, skill) ==
    /\ ~Shows(c, "ignore_stun")
    /\ \E s \in ToSet(InForce(c)) :
          \/ Kind[s.id].stun \cap (skill.classes \cup {"all"}) # {}
          \/ "harmful" \in Kind[s.id].stun /\ Harmful(skill)

\* _adjusted_cost_skill: a discount never reaches the specific part.
Price(c, skill) == skill.fixed + Max({0, skill.wild + Total(c, "wild_delta")})

Bypasses(skill, c) ==
    \/ "bypassing" \in skill.classes
    \/ /\ "domain" \in skill.classes \/ \E i \in DOMAIN skill.effects : skill.effects[i].damage = "sure_hit"
       /\ ~Shows(c, "anti_domain")

\* validate_target_rule, for the targets an action names.
CanTarget(b, a, skill) ==
    \A i \in DOMAIN a.at :
        LET t == b.team[a.at[i]]
            hostile == Side[a.at[i]] # Side[a.by]
                       \/ \E j \in DOMAIN skill.effects :
                             skill.effects[j].type = "damage" /\ skill.effects[j].on # "self"
        IN /\ skill.kind \in {"enemy", "enemies"} <=> Side[a.at[i]] # Side[a.by]
           /\ skill.kind = "self" => a.at[i] = a.by
           /\ t.alive
           /\ ~(Shows(t, "invulnerable") /\ hostile /\ ~Bypasses(skill, t))
           /\ skill.needs # "" => Has(t, skill.needs)

\* get_skill_for_action, through the replacement of the base slot.
SkillOf(b, a) == b.team[a.by].swap[a.slot]

\* validate_action
MayUse(b, a) ==
    LET c == b.team[a.by]
        skill == Skill[SkillOf(b, a)]
    IN /\ c.alive /\ ~c.acted
       /\ SkillOf(b, a) \notin DOMAIN c.cool
       /\ ~Stunned(c, skill)
       /\ (\E i \in DOMAIN skill.effects : skill.effects[i].type = "status"
                                           /\ Kind[skill.effects[i].status].redirect)
          => a.alt # NoOne /\ b.team[a.alt].alive /\ a.alt # a.at[1]
       /\ CanTarget(b, a, skill)

QueuePrice(b, q) == FoldLeft(LAMBDA n, a : n + Price(b.team[a.by], Skill[SkillOf(b, a)]), 0, q)

\* validate_queue: one skill per caster, the price of all of them at once.
MayQueue(b, q) ==
    /\ \A i, j \in DOMAIN q : i # j => q[i].by # q[j].by
    /\ \A i \in DOMAIN q : Side[q[i].by] = b.mover /\ MayUse(b, q[i])
    /\ QueuePrice(b, q) <= b.energy[b.mover]

-----------------------------------------------------------------------------
(* Resolving one action.                                                   *)

\* _trigger_watch_statuses: a scout of this caster that watches for such a skill
\* earns its energy, and what else it promises, once.
Sees(s, a, skill) ==
    /\ Kind[s.id].watch /\ s.to = a.by
    /\ Kind[s.id].watch_for # {} => Kind[s.id].watch_for \cap skill.classes # {}
    /\ Kind[s.id].watch_harmful => Harmful(skill)

Scouts(b, c, a, skill) ==
    Only(InForce(b.team[c]), {s \in ToSet(b.team[c].statuses) : Sees(s, a, skill)})

Gained(c, statuses) == [c EXCEPT !.statuses = @ \o statuses]

Rewards(c, scouts) ==
    LET paid == Only(scouts, {s \in ToSet(scouts) : Kind[s.id].reward # ""})
    IN [i \in DOMAIN paid |->
           Status(Kind[paid[i].id].reward, c, NoOne, 0, "source", Kind[Kind[paid[i].id].reward].for)]

Scouted(b, c, scouts) ==
    [b EXCEPT !.energy[Side[c]] = @ + Len(scouts),
              !.team[c] = Gained(Drop(@, ToSet(scouts)), Rewards(c, scouts))]

Watched(b, a, skill) == FoldLeft(LAMBDA acc, c : Scouted(acc, c, Scouts(b, c, a, skill)), b, b.lineup)

\* _maybe_redirect_action: what the status on the caster makes of the action,
\* and the board once it is consumed.
Redirects(b, a, id) ==
    Only(InForce(b.team[a.by]), {s \in ToSet(b.team[a.by].statuses) :
        Kind[s.id].redirect /\ Harmful(Skill[id]) /\ Skill[id].kind \in {"enemy", "ally"}})

\* _counter_status and _reflect_status
Immune == [counter |-> "uncounterable", reflect |-> "unreflectable"]

Traps(c, skill, field) ==
    Only(InForce(c), {s \in ToSet(c.statuses) :
        /\ Kind[s.id][field] # ""
        /\ Harmful(skill) /\ Immune[field] \notin skill.classes
        /\ Kind[s.id][field] = "non_domain" => "domain" \notin skill.classes
        /\ Kind[s.id][field] = "melee" => "melee" \in skill.classes})

Trapped(b, targets, skill, field) ==
    Only(targets, {t \in ToSet(targets) : Traps(b.team[t], skill, field) # <<>>})

\* _consume_status takes the status away and nothing else.
Consumed(c, s) == [c EXCEPT !.statuses = RemoveFirst(@, s)]

\* _apply_melee_punishments
Spites(c) == Only(InForce(c), {s \in ToSet(c.statuses) : Kind[s.id].punish # ""})

Spited(b, a, t, spites) ==
    IF spites = <<>> THEN b
    ELSE [b EXCEPT !.team[a.by].statuses = Append(@, Bare(Kind[Head(spites).id].punish, t))]

Punished(b, a, skill, targets) ==
    IF "melee" \notin skill.classes THEN b
    ELSE FoldLeft(LAMBDA acc, t : Spited(acc, a, t, Spites(b.team[t])), b, targets)

Answer(b, a, g) ==
    LET b1 == [b EXCEPT !.team[a.by] = Hurt(@, Kind[g.id].retaliate, "soul")]
    IN IF Kind[g.id].spite = "" THEN b1 ELSE Give(b1, a.by, Kind[g.id].spite, g.by, NoOne)

\* The first guard of whoever was hit answers with soul damage and its status.
Retaliated(b, a, guards) ==
    IF guards = <<>> THEN b
    ELSE [Answer(b, a, Head(guards)) EXCEPT !.team[a.by] = Awakened(@, a.by)]

\* The conditions of an effect: on the board, and on the statuses its recipient
\* had when the action began to take effect, if it is a target at all.
Meets(b, a, e, on, b0) ==
    /\ e.if # "" => Has(b.team[on], e.if)
    /\ e.if_user # "" => Has(b.team[a.by], e.if_user)
    /\ e.if_before # "" => on \in ToSet(a.at) /\ Has(b0.team[on], e.if_before)

Amount(b, a, e, on) ==
    LET n == e.amount + IF e.bonus_if # "" /\ Has(b.team[on], e.bonus_if) THEN e.bonus ELSE 0
    IN IF e.on = "self" THEN n ELSE Max({0, n + Total(b.team[a.by], "output")})

\* A hit that took hit points of somebody else is answered.
Answered(b, b1, a, e, on) ==
    IF e.on = "self" \/ b1.team[on].hp = b.team[on].hp THEN b1
    ELSE Retaliated([b1 EXCEPT !.team[on] = Awakened(@, on)], a,
                    Only(InForce(b1.team[on]), {s \in ToSet(b1.team[on].statuses) : Kind[s.id].retaliate > 0}))

Broken(c, n) == [c EXCEPT !.statuses = Worn(@, n)]

DamageEffect(b, a, e, on) ==
    Answered(b, [b EXCEPT !.team[on] =
                    Hurt(Broken(@, e.breaks), Amount(b, a, e, on), DamageType(@, e.damage))], a, e, on)

Healed(c, n) ==
    LET hp == Min({MaxHp, c.hp + Max({0, n + Total(c, "healing")})})
    IN [c EXCEPT !.hp = hp, !.alive = @ \/ hp > 0]

Longer(s, n) == [s EXCEPT !.left = @ + n, !.full = @ + n]
Extended(c, id, n) ==
    [c EXCEPT !.statuses = [i \in DOMAIN @ |-> IF i \in Same(c, id) THEN Longer(@[i], n) ELSE @[i]]]

\* apply_effect
Affect(b, a, e, on, by, b0) ==
    LET to == IF Kind[e.status].redirect THEN a.alt ELSE a.mark
    IN IF ~Meets(b, a, e, on, b0) THEN b
       ELSE CASE e.type = "damage" -> DamageEffect(b, a, e, on)
         [] e.type = "status" -> Give(b, on, e.status, by, to)
         [] e.type = "team" -> GiveAll(b, Living(b, Side[on]), e.status, by, to)
         [] e.type = "heal" -> [b EXCEPT !.team[on] = Healed(@, e.amount)]
         [] e.type = "consume" -> [b EXCEPT !.team[on] = Spent(@, e.status, e.amount)]
         [] e.type = "extend" -> [b EXCEPT !.team[on] = Extended(@, e.status, e.amount)]
         [] e.type = "remove" ->
              [b EXCEPT !.team[on] = Removed(@, {s \in ToSet(InForce(@)) : s.id = e.status})]
         [] e.type = "cleanse" -> [b EXCEPT !.team[on] = Cleansed(@)]

\* Harmful effects on whoever reflects the skill fall back on its caster, as
\* the reflector's own.
Recipients(a, e) ==
    IF e.on = "self" THEN <<a.by>> ELSE IF e.primary THEN SubSeq(a.at, 1, 1) ELSE a.at

Back(e, t, mirror) == e.on # "self" /\ t \in DOMAIN mirror /\ e.type \in {"damage", "status", "remove"}

AffectOne(b, a, e, t, mirror, b0) ==
    IF Back(e, t, mirror) THEN Affect(b, a, e, a.by, mirror[t].by, b0) ELSE Affect(b, a, e, t, a.by, b0)

ApplyEffect(b, a, e, mirror, b0) ==
    FoldLeft(LAMBDA acc, t : AffectOne(acc, a, e, t, mirror, b0), b, Recipients(a, e))

Strikes(id) ==
    \E i \in DOMAIN Skill[id].effects :
        Skill[id].effects[i].type = "damage" /\ Skill[id].effects[i].on # "self"

\* Statuses of its caster that a skill uses up, without taking anything else
\* back: after damage, after this very skill, and of those for one skill the ones
\* there before it, whatever it applies anew.
Mark(s) == IF Kind[s.id].max > 0 THEN <<s.id>> ELSE <<s.id, s.by, s.born>>
OneShots(c) == {Mark(s) : s \in {s \in ToSet(InForce(c)) : Kind[s.id].once}}

DealtOut(b, a) == [b EXCEPT !.team[a.by] = Drop(@, {s \in ToSet(@.statuses) : Kind[s.id].after_damage})]

UsedUp(b, a, id, once) ==
    [b EXCEPT !.team[a.by] = Drop(@, {s \in ToSet(@.statuses) :
        Kind[s.id].after_skill = id \/ (Kind[s.id].once /\ Mark(s) \in once)})]

\* Who acts on the source of what it bears may be exposed to it.
Exposers(b, a) ==
    Only(InForce(b.team[a.by]),
         {s \in ToSet(b.team[a.by].statuses) : Kind[s.id].exposes # "" /\ s.by \in ToSet(a.at)})

Exposed(b, a, exposers) ==
    [b EXCEPT !.team[a.by] = Gained(@, [i \in DOMAIN exposers |->
                                           Bare(Kind[exposers[i].id].exposes, exposers[i].by)])]

Effects(b, a, id, mirror) ==
    FoldLeft(LAMBDA acc, e : ApplyEffect(acc, a, e, mirror, b), b, Skill[id].effects)

Carry(b, a, id, mirror, once) ==
    LET struck == Effects([b EXCEPT !.team = [t \in DOMAIN @ |->
                      IF t \in DOMAIN mirror THEN Consumed(@[t], mirror[t]) ELSE @[t]]], a, id, mirror)
        used == UsedUp(IF Strikes(id) THEN Punished(DealtOut(struck, a), a, Skill[id], a.at) ELSE struck,
                       a, id, once)
    IN Exposed(used, a, Exposers(used, a))

\* The first counter among the targets stops the skill; each mirror returns it.
Counter(b, a, id, t, trap) ==
    [(IF Kind[trap.id].punish # "" THEN Punished(b, a, Skill[id], <<t>>) ELSE b)
        EXCEPT !.team[t] = Consumed(@, trap)]

Meet(b, a, id, once, counters) ==
    IF counters # <<>>
    THEN Counter(b, a, id, Head(counters), Head(Traps(b.team[Head(counters)], Skill[id], "counter")))
    ELSE Carry(b, a, id, [t \in ToSet(Trapped(b, a.at, Skill[id], "reflect")) |->
                             Head(Traps(b.team[t], Skill[id], "reflect"))], once)

Cooling(cool, id, n) == [k \in DOMAIN cool \cup {id} |-> IF k = id THEN n ELSE cool[k]]

Used(b, a, id, once) ==
    LET b1 == [b EXCEPT !.team[a.by].acted = TRUE,
                        !.team[a.by].cool = IF Skill[id].cooldown > 0 THEN Cooling(@, id, Skill[id].cooldown + 1) ELSE @]
    IN Meet(b1, a, id, once, Trapped(b, a.at, Skill[id], "counter"))

Aim(b, a, id, once, redirects) ==
    IF redirects = <<>> THEN Used(b, a, id, once)
    ELSE Used([b EXCEPT !.team[a.by] = Consumed(@, Head(redirects))],
              [a EXCEPT !.at = <<Head(redirects).to>>], id, once)

Declare(b, a, id) ==
    Aim(b, a, id, OneShots(b.team[a.by]), Redirects(b, a, id))

\* One action, on the board the earlier ones left: a dead caster is passed
\* over, and a target that is no longer legal makes it fizzle.
Resolve(b, a) ==
    IF ~b.team[a.by].alive \/ ~CanTarget(b, a, Skill[SkillOf(b, a)]) THEN b
    ELSE Declare(Watched(b, a, Skill[SkillOf(b, a)]), [a EXCEPT !.mark = a.at[1]], SkillOf(b, a))

Resolved(b, q) == FoldLeft(Resolve, b, q)

-----------------------------------------------------------------------------
(* The end of a turn.                                                      *)

BugTicksAtOnce(s, owner, p, turn) ==
    CASE s.clock = "source" -> Side[s.by] = p
      [] s.clock = "target" -> Side[owner] = p
      [] s.clock = "round"  -> p = Second
      [] OTHER -> TRUE

\* should_tick_status: never in the turn that applied it.
Ticks(s, owner, p, turn) ==
    /\ s.born # turn
    /\ CASE s.clock = "source" -> Side[s.by] = p
         [] s.clock = "target" -> Side[owner] = p
         [] s.clock = "round"  -> p = Second
         [] OTHER -> TRUE

Ended(c, i, ends) == [c EXCEPT !.statuses[i].left = IF ends THEN 0 ELSE @]
Joined(c, joins, s) == [c EXCEPT !.statuses = IF joins THEN Append(@, s) ELSE @]

\* A status that expires may leave its living source a guard; one bound to a
\* source that is dead ends; a draining one takes energy and ends.
Expiring(b, c, s, i, ticks) ==
    LET grants == s.left = 1 /\ ticks /\ Kind[s.id].grants # "" /\ b.team[s.by].alive
        drains == Kind[s.id].drains > 0 /\ ticks /\ Side[c] = b.mover
        ends == (Kind[s.id].bound /\ ~b.team[s.by].alive) \/ drains
        b1 == [b EXCEPT !.team[c] = Ended(@, i, ends),
                        !.energy[b.mover] = IF drains THEN @ - Min({@, Kind[s.id].drains}) ELSE @]
    IN [b1 EXCEPT !.team[s.by] = Joined(@, grants, Bare(Kind[s.id].grants, s.by))]

ExpiringAt(b, c, i, p) ==
    Expiring(b, c, b.team[c].statuses[i], i, Ticks(b.team[c].statuses[i], c, p, b.turn))

Places(s) == [i \in DOMAIN s |-> i]
Expired(b, c, p) == FoldLeft(LAMBDA acc, i : ExpiringAt(acc, c, i, p), b, Places(b.team[c].statuses))

\* apply_turn_end_statuses
PoisonedBy(b, c, s, p) ==
    IF s.left = 0 \/ Kind[s.id].poison = 0 \/ ~Ticks(s, c, p, b.turn) THEN b
    ELSE Struck(b, c, Kind[s.id].poison, DamageType(b.team[c], Kind[s.id].poison_type))

Poisoned(b, c, p) == FoldLeft(LAMBDA acc, s : PoisonedBy(acc, c, s, p), b, b.team[c].statuses)

\* tick_statuses
Ticked(b, c, p) ==
    LET older(s) == IF s.left > 0 /\ Ticks(s, c, p, b.turn) THEN [s EXCEPT !.left = @ - 1] ELSE s
        aged == [i \in DOMAIN b.team[c].statuses |-> older(b.team[c].statuses[i])]
    IN [b EXCEPT !.team[c] =
            TakenBack([@ EXCEPT !.statuses = Only(aged, {s \in ToSet(aged) : s.left # 0})],
                      Only(aged, {s \in ToSet(aged) : s.left = 0}))]

Rested(b, c, p) ==
    [b EXCEPT !.team[c].acted = FALSE, !.team[c].reduced = 0,
              !.team[c].cool = IF Side[c] # p THEN @
                                ELSE [k \in {k \in DOMAIN @ : @[k] > 1} |-> @[k] - 1]]

\* finish_turn, character by character in the order of the line-up.
Cleanup(b, c, p) == Rested(Ticked(Poisoned(Expired(b, c, p), c, p), c, p), c, p)
CleanedUp(b, p) == FoldLeft(LAMBDA acc, c : Cleanup(acc, c, p), b, b.lineup)

FinishTurn(b, p) == [CleanedUp(b, p) EXCEPT !.turn = @ + 1, !.mover = Other(p), !.converted = FALSE]

Standing(b, p) == \E i \in DOMAIN b.lineup : Side[b.lineup[i]] = p /\ b.team[b.lineup[i]].alive

CheckWinner(b) ==
    [b EXCEPT !.verdict = IF Standing(b, First) /\ Standing(b, Second) THEN Open
                          ELSE IF Standing(b, First) THEN First
                          ELSE IF Standing(b, Second) THEN Second ELSE Draw]

\* _grant_next_turn_energy: one for each who lives, unless the match is over.
Granted(b) ==
    IF b.verdict # Open THEN b
    ELSE [b EXCEPT !.energy[b.mover] = @ + Len(Living(b, b.mover))]

BugVerdictFirst(b) == Granted(FinishTurn(CheckWinner(b), b.mover))

Concluded(b) == Granted(CheckWinner(FinishTurn(b, b.mover)))

-----------------------------------------------------------------------------
(* The commands.                                                           *)

\* What an action can name: one target, or some living ones of a side, each once.
\* The mark it leaves for a watch is its first target, redirected or not (see
\* Resolve).
Some(s) == {q \in UNION {[1 .. n -> ToSet(s)] : n \in 1 .. Len(s)} : IsInjective(q)}

Targets(b, by, kind) ==
    CASE kind = "self" -> {<<by>>}
      [] kind = "enemies" -> Some(Living(b, Other(Side[by])))
      [] kind = "allies" -> Some(Living(b, Side[by]))
      [] kind = "enemy" -> {<<c>> : c \in ToSet(Living(b, Other(Side[by])))}
      [] kind = "ally" -> {<<c>> : c \in ToSet(Living(b, Side[by]))}

Actions(b, by) ==
    UNION {[by : {by}, slot : {k}, at : Targets(b, by, Skill[b.team[by].swap[k]].kind),
            mark : {NoOne},
            alt : IF Redirecting(Skill[b.team[by].swap[k]]) THEN DOMAIN b.team ELSE {NoOne}] : k \in Base[by]}

Queues(b) ==
    LET acts == UNION {{a \in Actions(b, c) : MayUse(b, a)} : c \in ToSet(Members(b, b.mover))}
    IN UNION {[1 .. n -> acts] : n \in 1 .. MaxQueue}

\* A queue is confirmed, as it was planned: nothing else happens in between.
ConfirmQueue(q) ==
    /\ battle.verdict = Open /\ battle.turn <= MaxTurn
    /\ MayQueue(battle, q)
    /\ battle' = Concluded(Resolved([battle EXCEPT !.energy[battle.mover] = @ - QueuePrice(battle, q)], q))

\* end_turn, and the timer's auto-pass.
EndTurn ==
    /\ battle.verdict = Open /\ battle.turn <= MaxTurn
    /\ battle' = Concluded(battle)

ConvertEnergy ==
    /\ battle.verdict = Open /\ battle.turn <= MaxTurn
    /\ ~battle.converted
    /\ battle.energy[battle.mover] >= Sources
    /\ battle' = [battle EXCEPT !.energy[battle.mover] = @ - Sources + 1, !.converted = TRUE]

CombatNext ==
    \/ \E q \in Queues(battle) : ConfirmQueue(q)
    \/ EndTurn \/ ConvertEnergy

CombatSpec == CombatInit /\ [][CombatNext]_combatVars

-----------------------------------------------------------------------------
CombatTypeOK ==
    /\ battle.verdict \in {Open, Draw, First, Second}
    /\ battle.turn \in 1 .. MaxTurn + 1
    /\ \A p \in {First, Second} : battle.energy[p] \in Nat
    /\ \A c \in DOMAIN battle.team :
          LET x == battle.team[c] IN
          /\ x.hp \in 0 .. MaxHp
          /\ ~x.acted /\ x.reduced = 0
          /\ \A i \in DOMAIN x.statuses :
                x.statuses[i].id \in DOMAIN Kind /\ x.statuses[i].left # 0 /\ x.statuses[i].defense \in Nat

\* Between turns the verdict is what the board shows: the battle goes on while
\* both sides stand, the last one standing has won, and poison, retaliation or a
\* price paid in blood that ends both is a draw; the dead have no hit points.
VerdictMatchesBoard ==
    /\ \A c \in DOMAIN battle.team : battle.team[c].alive <=> battle.team[c].hp > 0
    /\ \A p \in {First, Second} :
          battle.verdict = p <=> Standing(battle, p) /\ ~Standing(battle, Other(p))
    /\ battle.verdict = Open <=> Standing(battle, First) /\ Standing(battle, Second)

\* A status that a skill applied is in force for as many of its clock's turns as
\* it was given for, not counting the turn that applied it, whatever stacking and
\* extending happened in between.
StatusKeepsTime(c) ==
    LET at(t) == IF t % 2 = 1 THEN First ELSE Second
        counts(s, t) == CASE s.clock = "source" -> at(t) = Side[s.by]
                          [] s.clock = "target" -> at(t) = Side[c]
                          [] s.clock = "round"  -> at(t) = Second
                          [] OTHER -> TRUE
        spent(s) == Cardinality({t \in s.born + 1 .. battle.turn - 1 : counts(s, t)})
    IN \A i \in DOMAIN battle.team[c].statuses :
          LET s == battle.team[c].statuses[i]
          IN s.born > 0 /\ s.full > 0 => s.left = s.full - spent(s)

\* A base slot is replaced exactly while a status that has the stacks for it is.
ReplacementIsBacked(c) ==
    LET x == battle.team[c]
        backers(k) == {i \in DOMAIN x.statuses : k \in DOMAIN Kind[x.statuses[i].id].swap
                                                 /\ Unlocked(x.statuses[i])}
    IN \A k \in DOMAIN x.swap :
          /\ x.swap[k] # k => \E i \in backers(k) : Kind[x.statuses[i].id].swap[k] = x.swap[k]
          /\ backers(k) # {} => x.swap[k] # k

\* What statuses do lasts as long as they do, and they last as long as they should.
StatusesAreTrue ==
    \A c \in DOMAIN battle.team : StatusKeepsTime(c) /\ ReplacementIsBacked(c)

=============================================================================
