------------------------------- MODULE MCParts -------------------------------
(***************************************************************************)
(* The parts that share no state with each other, checked in one run: the  *)
(* first state chooses the part that moves, the others rest.               *)
(***************************************************************************)
EXTENDS Backup, ClientStore, DrainGate, MCCombat

VARIABLE moving

partsVars == <<moving, backupVars, clientVars, drainVars, combatVars>>

\* A part that rests is at one of its initial states.
PartsInit ==
    /\ moving \in {"backup", "client", "drain", "combat"}
    /\ BackupInit /\ ClientInit /\ DrainInit /\ CombatInit
    /\ moving # "backup" => source.side = 0 /\ \A b \in Bundle : claimed[b] = NoFile
    /\ moving # "combat" => battle.lineup = <<"geto", "junpei">>

PartsNext ==
    \/ moving = "backup" /\ BackupNext /\ UNCHANGED <<moving, clientVars, drainVars, combatVars>>
    \/ moving = "client" /\ ClientNext /\ UNCHANGED <<moving, backupVars, drainVars, combatVars>>
    \/ moving = "drain" /\ DrainNext /\ UNCHANGED <<moving, backupVars, clientVars, combatVars>>
    \/ moving = "combat" /\ CombatNext /\ UNCHANGED <<moving, backupVars, clientVars, drainVars>>

PartsSpec == PartsInit /\ [][PartsNext]_partsVars

\* The state of each part keeps its type, within the limits the code sets: the
\* outbox its cap, the queues of the wire their bounds, hit points their maximum.
PartsTypeOK == BackupTypeOK /\ ClientTypeOK /\ DrainTypeOK /\ CombatTypeOK

Symmetric == Permutations(Invocation) \cup Permutations(Bundle) \cup Permutations(Match)

\* Bounds.  At most one published copy has decayed, before the worker wrote
\* another release, and no removal was passed over; of the bundles at most one
\* was taken before, with a sidecar.
Decayed == {v \in Bundle \X {"db", "side"} : Exists(v[1], v[2]) /\ files[v[1]][v[2]].holds = Damaged}
BackupBound ==
    /\ Cardinality(Decayed) <= 1 /\ ~stuck
    /\ Decayed # {} => source.db = 1
    /\ \E b \in Bundle : claimed[b] # Earlier
    /\ \A b \in Bundle : claimed[b] = Earlier => Exists(b, "side")

\* At most two messages on the wire; one revision in the second match, which
\* nobody leaves; the opponent is away at one revision of the first, before the
\* player has come back.
ClientBound ==
    /\ Cardinality(up) + Cardinality(taken) + due + Len(down) <= 2
    /\ ~crossed
    /\ "foe" \in server.away => server.rev = 1 /\ store.epoch = 1
    /\ server.match = MaxMatch =>
          server.rev <= 1 /\ store.epoch = 1 /\ server.away = {}

\* Two flushes overlap only under drain, and before anything was dropped.
DrainBound == accepting \/ lost => \E f \in Flusher : pending[f] = 0

\* The line-ups of three play two turns less.
CombatBound == Len(battle.lineup) > 2 => battle.turn + 1 < MaxTurn
===============================================================================
