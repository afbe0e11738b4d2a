----------------------------- MODULE Settlement -----------------------------
(***************************************************************************)
(* Mission settlement: the terminal snapshots of maintenance.py and the    *)
(* durable outbox of runtime_store.py, whose rows concurrent drains claim  *)
(* under leases, merge into the player's profile and mark, or give back.   *)
(*                                                                         *)
(* Every action is one SQLite transaction, or one step of a handler        *)
(* between two.  A crash loses rooms, markers and drains, never a commit.  *)
(* Two matches of a player never overlap, so wall-clock time is reduced to *)
(* the order of starts and finishes; leases and delays are countdowns.     *)
(***************************************************************************)
EXTENDS Integers, FiniteSets

CONSTANTS
  Player, Mission, Drain,
  MatchCount,         \* bound: matches played
  Completes,          \* missions a player completes in a match
  Malformed,          \* snapshots that do not validate until repaired
  Lease,              \* SETTLEMENT_CLAIM_LEASE_SECONDS, in ticks
  MaxDelay,           \* SETTLEMENT_MAX_RETRY_DELAY_SECONDS, in ticks
  CleanupOvertakes,   \* may a room be removed under a handler without its lock?
  MaxFaults,          \* bound: storage errors, crashes, redrives and leases that
                      \* run out on a drain still at work, taken together
  NoKey

Match == 1 .. MatchCount

Key == Match \X Player

ASSUME ConstantsAssumption ==
  /\ \A n \in {MatchCount, Lease, MaxDelay, MaxFaults} : n \in Nat
  /\ Lease > 0 /\ MaxDelay > 0
  /\ IsFiniteSet(Player)
  /\ Completes \in [Key -> SUBSET Mission]
  /\ Malformed \subseteq Key
  /\ CleanupOvertakes \in BOOLEAN
  /\ NoKey \notin Key

VARIABLES
  begun,              \* matches started so far
  room,               \* per match: what the server's memory holds of it
  retry,              \* mission_snapshot_retry_rooms
  handoff,            \* snapshots missed by handlers that do not hold the room lock
  snapshotted,        \* missions_snapshotted_players
  row,                \* mission_settlement_outbox
  profile, events,    \* first_creation_profiles; mission_completed analytics
  drain,              \* the running calls of process_mission_settlements
  faults, repaired    \* faults so far; malformed snapshots that have been repaired

memoryVars == <<begun, room, retry, handoff, snapshotted>>
storeVars  == <<row, profile, events>>
faultVars  == <<faults, repaired>>
vars == <<memoryVars, storeVars, drain, faultVars>>

-----------------------------------------------------------------------------
(* time.time() at the start and at the finish of a match *)
StartOf(m)  == 2 * m - 1
FinishOf(m) == 2 * m

Never == 0

Lesser(a, b) == IF a < b THEN a ELSE b

NoRow == [status |-> "absent", progress |-> "none", retries |-> 0, due |-> 0,
          holder |-> {}, lease |-> 0]

(* A claim token is drawn afresh for every claim; as a drain holds one claim *)
(* at a time, the drain itself stands for it.                                *)
Released(r, status, retries, due) ==
  [r EXCEPT !.status = status, !.retries = retries, !.due = due,
            !.holder = {}, !.lease = 0]

Free(step) == [at |-> step, key |-> NoKey, progress |-> "none", retries |-> 0]

Idle == Free("idle")

EmptyProfile ==
  [completed |-> {}, first |-> [x \in Mission |-> Never], team |-> 0, team_at |-> Never]

Init ==
  /\ begun = 0
  /\ room = [m \in Match |-> "none"]
  /\ retry = {}
  /\ handoff = {}
  /\ snapshotted = {}
  /\ row = [k \in Key |-> NoRow]
  /\ profile = [p \in Player |-> EmptyProfile]
  /\ events = {}
  /\ drain = [d \in Drain |-> Idle]
  /\ faults = 0
  /\ repaired = {}

Fault == faults < MaxFaults /\ faults' = faults + 1

-----------------------------------------------------------------------------
(* Rooms and snapshots *)

(* The match is remembered as a choice of team by the player who opened it, *)
(* not by who joined it, and not when it is a rematch.                      *)
StartMatch(m) ==
  /\ m = begun + 1
  /\ \A n \in Match : room[n] # "playing"
  /\ begun' = m
  /\ room' = [room EXCEPT ![m] = "playing"]
  /\ \E choosing \in SUBSET Player :
       profile' = [p \in Player |->
         IF p \in choosing THEN [profile[p] EXCEPT !.team = m, !.team_at = StartOf(m)]
         ELSE profile[p]]
  /\ UNCHANGED <<retry, handoff, snapshotted, row, events, drain, faultVars>>

(* The terminal hook runs and stamps the finish; or the room is pruned while *)
(* it is still being played.                                                 *)
EndMatch(m) ==
  /\ room[m] = "playing"
  /\ \E after \in {"finished", "lost"} : room' = [room EXCEPT ![m] = after]
  /\ UNCHANGED <<begun, retry, handoff, snapshotted, storeVars, drain, faultVars>>

(* enqueue_mission_settlement: ON CONFLICT takes the new progress, leaves   *)
(* rows that are settled, claimed or dead else as they are, and makes the   *)
(* others due.                                                              *)
Enqueued(k, progress) ==
  LET r == [row[k] EXCEPT !.progress = progress]
  IN  IF r.status \in {"settled", "processing", "dead_letter"} THEN r
      ELSE Released(r, "pending", r.retries, 0)

Mark(marks, m) ==
  /\ snapshotted' = marks
  /\ retry' = IF \A p \in Player : <<m, p>> \in marks THEN retry \ {m} ELSE retry

Missing(k) == room[k[1]] = "finished" /\ k \notin snapshotted

(* The terminal hook, and the cleanup before it removes the room, work      *)
(* under the room lock.                                                     *)
Snapshot(k) ==
  /\ Missing(k)
  /\ row' = [row EXCEPT ![k] = Enqueued(k, "terminal")]
  /\ Mark(snapshotted \cup {k}, k[1])
  /\ UNCHANGED <<begun, room, handoff, profile, events, drain, faultVars>>

(* The insert fails, with or without the lock; the room is marked, so that  *)
(* updates, profile reads and maintenance look again.                       *)
SnapshotFails(k) ==
  /\ Missing(k) \/ k \in handoff
  /\ retry' = retry \cup {k[1]}
  /\ handoff' = handoff \ {k}
  /\ UNCHANGED <<begun, room, snapshotted, storeVars, drain, faultVars>>

(* Looking again may find everything stored by somebody else. *)
NothingMissing(m) ==
  /\ m \in retry
  /\ room[m] = "finished"
  /\ Mark(snapshotted, m)
  /\ UNCHANGED <<begun, room, handoff, storeVars, drain, faultVars>>

(* reconstruct_terminal_mission_snapshots looks at the marked rooms without *)
(* their locks.                                                             *)
FindMissing(k) ==
  /\ k[1] \in retry
  /\ Missing(k)
  /\ handoff' = handoff \cup {k}
  /\ UNCHANGED <<begun, room, retry, snapshotted, storeVars, drain, faultVars>>

(* ... and stores what it finds later.  When the room has gone meanwhile,   *)
(* it has the progress from before or, the manager knowing nothing of the   *)
(* room any more, an empty one.                                             *)
Reconstruct(k) ==
  /\ k \in handoff
  /\ handoff' = handoff \ {k}
  /\ IF room[k[1]] = "finished"
     THEN /\ row' = [row EXCEPT ![k] = Enqueued(k, "terminal")]
          /\ Mark(snapshotted \cup {k}, k[1])
     ELSE /\ \E progress \in {"terminal", "empty"} :
               row' = [row EXCEPT ![k] = Enqueued(k, progress)]
          /\ UNCHANGED <<retry, snapshotted>>
  /\ UNCHANGED <<begun, room, profile, events, drain, faultVars>>

BugRemoveAnyway(m) == TRUE

(* terminal_persistence_pending, as far as missions go. *)
Persisted(m) == \A p \in Player : <<m, p>> \in snapshotted

RemoveRoom(m) ==
  /\ room[m] = "finished"
  /\ Persisted(m)
  /\ CleanupOvertakes \/ \A p \in Player : <<m, p>> \notin handoff
  /\ room' = [room EXCEPT ![m] = "removed"]
  /\ retry' = retry \ {m}
  /\ snapshotted' = {k \in snapshotted : k[1] # m}
  /\ UNCHANGED <<begun, handoff, storeVars, drain, faultVars>>

-----------------------------------------------------------------------------
(* Draining the outbox *)

BugLeaseForever(r) == r

BugHolderKept(r) ==
  IF r.status = "processing" /\ r.lease = 0
  THEN [r EXCEPT !.status = "failed_retryable", !.due = 0] ELSE r

(* The claim transaction first takes back the rows whose lease has run out. *)
Reclaimed(r) ==
  IF r.status = "processing" /\ r.lease = 0
  THEN Released(r, "failed_retryable", r.retries, 0) ELSE r

(* process_mission_settlements claims for everybody or for one player, and  *)
(* may disregard the backoff with the first claim of a call.  One of the    *)
(* rows that have waited longest is taken; those that are due count alike.  *)
Claim(d, who, force) ==
  /\ drain[d].at = "idle" \/ (drain[d].at = "claim" /\ ~force)
  /\ LET rows == [k \in Key |-> Reclaimed(row[k])]
         candidates == {k \in Key : /\ k[2] \in who
                                     /\ rows[k].status \in {"pending", "failed_retryable"}
                                     /\ (force \/ rows[k].due = 0)}
     IN  \/ /\ candidates = {}
            /\ row' = rows
            /\ drain' = [drain EXCEPT ![d] = Idle]
         \/ \E k \in candidates :
              /\ \A j \in candidates : rows[k].due <= rows[j].due
              /\ row' = [rows EXCEPT ![k].status = "processing",
                                     ![k].holder = {d}, ![k].lease = Lease]
              /\ drain' = [drain EXCEPT ![d] =
                             [at |-> "merge", key |-> k, progress |-> rows[k].progress,
                              retries |-> rows[k].retries]]
  /\ UNCHANGED <<memoryVars, profile, events, faultVars>>

Holds(d, k) == row[k].status = "processing" /\ row[k].holder = {d}

Valid(k) == k \notin Malformed \ repaired

Validates(d) == drain[d].progress = "empty" \/ Valid(drain[d].key)

Reported(k, progress) == IF progress = "empty" THEN {} ELSE Completes[k]

BugLastCompletion(old, done, at) ==
  [x \in Mission |-> IF x \in done THEN at ELSE old[x]]

(* The earliest completion counts, whichever is settled first. *)
FirstCompletion(old, done, at) ==
  [x \in Mission |-> IF x \in done /\ (old[x] = Never \/ at < old[x]) THEN at ELSE old[x]]

(* merge_first_creation_profile_snapshot; only a full progress has a team. *)
Merged(old, k, progress) ==
  LET at    == FinishOf(k[1])
      done  == Reported(k, progress)
      newer == progress = "terminal" /\ at >= old.team_at
  IN  [completed |-> old.completed \cup done,
       first     |-> FirstCompletion(old.first, done, at),
       team      |-> IF newer THEN k[1] ELSE old.team,
       team_at   |-> IF newer THEN at ELSE old.team_at]

(* _commit_profile_mission_settlement: nothing is done for a claim that has *)
(* been lost; otherwise profile, analytics and status go together.          *)
CommitMerge(d) ==
  /\ drain[d].at = "merge"
  /\ Validates(d)
  /\ LET k == drain[d].key
         p == k[2]
         before == profile[p]
         after  == Merged(before, k, drain[d].progress)
     IN  IF Holds(d, k)
         THEN /\ profile' = [profile EXCEPT ![p] = after]
              /\ events' = events \cup {<<k, x>> : x \in after.completed \ before.completed}
              /\ row' = [row EXCEPT ![k] = Released(@, "settled", @.retries, 0)]
         ELSE UNCHANGED storeVars
  /\ drain' = [drain EXCEPT ![d] = Free("claim")]
  /\ UNCHANGED <<memoryVars, faultVars>>

(* The snapshot does not validate, or the storage fails. *)
MergeFails(d) ==
  /\ drain[d].at = "merge"
  /\ IF Validates(d)
     THEN /\ Fault
          /\ drain' = [drain EXCEPT ![d].at = "failed_retryable"]
     ELSE /\ drain' = [drain EXCEPT ![d].at = "dead_letter"]
          /\ UNCHANGED faults
  /\ UNCHANGED <<memoryVars, storeVars, repaired>>

(* The delay doubles with each failure, eight times at most. *)
Delay(retries) == Lesser(MaxDelay, 2 ^ Lesser(retries - 1, 8))

Failed(d, r) ==
  LET retries == drain[d].retries + 1
  IN  Released(r, drain[d].at, retries, Delay(retries))

BugFailUnguarded(d, k) ==
  row' = [row EXCEPT ![k] = Failed(d, @)]

(* Only the holder of the claim may give the row back. *)
GiveBack(d, k) ==
  row' = [row EXCEPT ![k] = IF Holds(d, k) THEN Failed(d, @) ELSE @]

(* _fail_mission_settlement_claim *)
FailClaim(d) ==
  /\ drain[d].at \in {"failed_retryable", "dead_letter"}
  /\ GiveBack(d, drain[d].key)
  /\ drain' = [drain EXCEPT ![d] = Free("claim")]
  /\ UNCHANGED <<memoryVars, profile, events, faultVars>>

(* When even that raises, or the claim does, the drain ends; a claim it     *)
(* holds is left to its lease.                                              *)
DrainRaises(d) ==
  /\ drain[d].at \in {"claim", "failed_retryable", "dead_letter"}
  /\ Fault
  /\ drain' = [drain EXCEPT ![d] = Idle]
  /\ UNCHANGED <<memoryVars, storeVars, repaired>>

(* redrive_mission_settlement, after a repair or too early. *)
Redrive(k) ==
  /\ row[k].status \in {"failed_retryable", "dead_letter"}
  /\ Fault
  /\ repaired' \in {repaired, repaired \cup {k}}
  /\ row' = [row EXCEPT ![k] = Released(@, "pending", 0, 0)]
  /\ UNCHANGED <<memoryVars, profile, events, drain>>

-----------------------------------------------------------------------------
Crash ==
  /\ Fault
  /\ room' = [m \in Match |-> IF room[m] \in {"playing", "finished"} THEN "lost" ELSE room[m]]
  /\ retry' = {}
  /\ handoff' = {}
  /\ snapshotted' = {}
  /\ drain' = [d \in Drain |-> Idle]
  /\ UNCHANGED <<begun, storeVars, repaired>>

Earlier(n) == IF n = 0 THEN 0 ELSE n - 1

(* Claims that run out with the next tick although their drain works on. *)
Stalled == {k \in Key : row[k].lease = 1 /\ \E d \in row[k].holder : drain[d].key = k}

Tick ==
  /\ \E k \in Key : row[k].due > 0 \/ row[k].lease > 0
  /\ faults' = faults + Cardinality(Stalled)
  /\ faults' <= MaxFaults
  /\ row' = [k \in Key |-> [row[k] EXCEPT !.due = Earlier(@), !.lease = Earlier(@)]]
  /\ UNCHANGED <<memoryVars, profile, events, drain, repaired>>

WhoseCredit == {Player} \cup {{p} : p \in Player}

Next ==
  \/ \E m \in Match : StartMatch(m) \/ EndMatch(m) \/ NothingMissing(m) \/ RemoveRoom(m)
  \/ \E k \in Key : \/ Snapshot(k) \/ SnapshotFails(k) \/ FindMissing(k)
                    \/ Reconstruct(k) \/ Redrive(k)
  \/ \E d \in Drain : \/ \E who \in WhoseCredit, force \in BOOLEAN : Claim(d, who, force)
                      \/ CommitMerge(d) \/ MergeFails(d) \/ FailClaim(d) \/ DrainRaises(d)
  \/ Crash
  \/ Tick

(* Time passes, a drain goes on with the row it has claimed, and maintenance *)
(* claims for everybody as long as anybody uses the server.                  *)
Fairness ==
  /\ WF_vars(Tick)
  /\ \A d \in Drain : /\ WF_vars(Claim(d, Player, FALSE))
                       /\ WF_vars(CommitMerge(d) \/ MergeFails(d))
                       /\ WF_vars(FailClaim(d) \/ DrainRaises(d))

Spec == Init /\ [][Next]_vars /\ Fairness

-----------------------------------------------------------------------------
(* Properties *)

Statuses == {"absent", "pending", "processing", "failed_retryable", "dead_letter", "settled"}

Progress == {"none", "terminal", "empty"}

(* Types; in particular no backoff exceeds the longest delay, and a row has *)
(* a holder exactly while it is claimed.                                    *)
TypeOK ==
  /\ begun \in 0 .. MatchCount
  /\ room \in [Match -> {"none", "playing", "finished", "lost", "removed"}]
  /\ retry \subseteq Match /\ handoff \subseteq Key /\ snapshotted \subseteq Key
  /\ row \in [Key -> [status : Statuses, progress : Progress, retries : Nat, due : 0 .. MaxDelay,
                      holder : SUBSET Drain, lease : 0 .. Lease]]
  /\ \A k \in Key : Cardinality(row[k].holder) = IF row[k].status = "processing" THEN 1 ELSE 0
  /\ profile \in [Player -> [completed : SUBSET Mission, first : [Mission -> 0 .. FinishOf(MatchCount)],
                             team : 0 .. MatchCount, team_at : 0 .. FinishOf(MatchCount)]]
  /\ events \subseteq Key \X Mission
  /\ drain \in [Drain -> [at : {"idle", "claim", "merge", "failed_retryable", "dead_letter"},
                          key : Key \cup {NoKey}, progress : Progress, retries : Nat]]
  /\ faults \in 0 .. MaxFaults
  /\ repaired \subseteq Key

Settled(p) == {m \in Match : row[<<m, p>>].status = "settled"}

(* In whatever order rows are settled, retried or redriven, the profile is  *)
(* what its settled rows say: their missions, each completed when it first  *)
(* was, announced once, and a team no settled match is newer than           *)
(* (production_runbook.md, the stable match-finish timestamp).              *)
ProfileIsLedger ==
  \A p \in Player :
    LET With(x) == {m \in Settled(p) : x \in Completes[<<m, p>>]}
    IN  /\ profile[p].completed = {x \in Mission : With(x) # {}}
        /\ \A x \in profile[p].completed :
             /\ \E m \in With(x) : profile[p].first[x] = FinishOf(m)
             /\ \A m \in With(x) : profile[p].first[x] <= FinishOf(m)
             /\ Cardinality({m \in Match : <<<<m, p>>, x>> \in events}) = 1
             /\ \E m \in With(x) : <<<<m, p>>, x>> \in events
        /\ \A m \in Settled(p) : profile[p].team_at >= FinishOf(m)
        /\ profile[p].team_at \in {0, StartOf(profile[p].team), FinishOf(profile[p].team)}

(* Cleanup deletes a finished room only when what its players are owed is   *)
(* durable, whatever inserts failed before and whatever was settled since   *)
(* (remove_battle_v2_room, ensure_terminal_persistence).                    *)
RemovedIsDurable ==
  \A m \in Match, p \in Player : room[m] = "removed" => row[<<m, p>>].status # "absent"

(* A row says settled only when the missions the player completed in that   *)
(* match are in the profile, whichever handler stored the progress last     *)
(* (production_runbook.md: terminal mission snapshots are durable).         *)
SettledIsCredited ==
  \A k \in Key : row[k].status = "settled" => Completes[k] \subseteq profile[k[2]].completed

(* Credit that is durable is entered in the end, over expired leases, late  *)
(* drains, storage errors and crashes; a malformed snapshot is put aside    *)
(* until it is repaired.                                                    *)
OwedIsSettled ==
  \A k \in Key : row[k].status = "pending" ~>
                   (row[k].status = "settled" \/ (row[k].status = "dead_letter" /\ ~Valid(k)))

-----------------------------------------------------------------------------
Contract == INSTANCE SettlementContract WITH
  credit <- [k \in Key |->
               CASE row[k].status = "absent" -> "none"
                 [] row[k].status = "settled" -> "credited"
                 [] row[k].status = "dead_letter" -> "parked"
                 [] OTHER -> "owed"],
  completed <- [p \in Player |-> profile[p].completed]

(* The outbox keeps the promise of SettlementContract: each credit is       *)
(* entered once and together with the row, although claims may overlap.     *)
ImplementsContract == Contract!Spec
=============================================================================
