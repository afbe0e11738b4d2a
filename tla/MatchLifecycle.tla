--------------------------- MODULE MatchLifecycle ---------------------------
(***************************************************************************)
(* The life of one Battle v2 room: turns, phase deadlines, disconnect      *)
(* pauses, forfeits and endings, as jjk_arena/battle_v2/manager.py keeps   *)
(* them in a BattleState.                                                  *)
(*                                                                         *)
(* Every action is one mutation made under the room's lock, and reads the  *)
(* clock once.  The board is abstracted to what the lifecycle reads of it: *)
(* who is still standing after a turn, whether the turn made progress, and *)
(* who leads the tiebreak before timeout strikes are compared.             *)
(*                                                                         *)
(* Command handlers call expire_phase_if_needed before anything else, so a *)
(* command that meets an overdue phase is the step ExpirePhase followed,   *)
(* under the same lock, by the command in the state that step leaves.      *)
(***************************************************************************)
EXTENDS Integers, FiniteSets

CONSTANTS
  p1, p2,             \* the seats: state.players in insertion order
  NoPlayer,           \* winner_id = None
  Second,             \* clock ticks per second (the clock is a float)
  PlanningTime,       \* timer_policy.planning_seconds, 60
  GracePeriod,        \* seconds of grace for one disconnect, 90
  DisconnectBudget,   \* cumulative seconds per player and match, 180
  MinResume,          \* least seconds left to a resumed phase, 15
  StrikeRunLimit,     \* consecutive timeouts that forfeit, 3
  StrikeLimit,        \* total timeouts that forfeit, 5
  HardCap,            \* completed turns that end the match, 72
  NoProgressLimit,    \* turns without progress that end it, 12
  MaxClock            \* bound: the clock stops here

ASSUME ConstantsAssumption ==
  /\ p1 # p2
  /\ NoPlayer \notin {p1, p2}
  /\ \A n \in {Second, PlanningTime, GracePeriod, DisconnectBudget, MinResume,
               StrikeRunLimit, StrikeLimit, HardCap, NoProgressLimit} :
       n \in Nat /\ n > 0
  /\ MaxClock \in Nat

VARIABLES
  clock,                     \* manager.clock(), in ticks
  phase,                     \* the phases an unlocked room can show
  turn_player_id,
  phase_deadline,            \* tick, or None
  pending,                   \* who has actions in pending_actions
  paused, paused_phase, paused_seconds_remaining,
  disconnected_at,           \* per player: tick of the drop, or None
  disconnect_deadlines,      \* per player: tick of the forfeit, or None
  disconnect_seconds_used,   \* per player: seconds charged so far
  player_turns_completed, no_progress_turns,
  timeout_total, timeout_consecutive,
  result                     \* result_type, winner_id and finish_reason

turnVars   == <<turn_player_id, pending, player_turns_completed,
                no_progress_turns, timeout_total, timeout_consecutive>>
pauseVars  == <<paused, paused_phase, paused_seconds_remaining>>
absentVars == <<disconnected_at, disconnect_deadlines, disconnect_seconds_used>>
vars == <<clock, phase, phase_deadline, result, turnVars, pauseVars, absentVars>>

-----------------------------------------------------------------------------
Player == {p1, p2}

Opponent(p) == IF p = p1 THEN p2 ELSE p1

None == -1            \* Python's None where a time is expected

Lesser(a, b)  == IF a < b THEN a ELSE b
Greater(a, b) == IF a > b THEN a ELSE b

(* math.ceil and int() of a duration in ticks, to whole seconds. *)
SecondsUp(ticks)   == (ticks + Second - 1) \div Second
SecondsDown(ticks) == ticks \div Second

LivePhases == {"PLANNING", "QUEUE_REVIEW"}

Result(type, winner, reason) ==
  [type |-> type, winner |-> winner, reason |-> reason]

NoResult == Result("NONE", NoPlayer, "none")

Finished == phase = "FINISHED"

Init ==
  /\ clock = 0
  /\ phase = "PLANNING"
  /\ turn_player_id = p1
  /\ phase_deadline = PlanningTime * Second
  /\ pending = [p \in Player |-> FALSE]
  /\ paused = FALSE
  /\ paused_phase = "NONE"
  /\ paused_seconds_remaining = None
  /\ disconnected_at = [p \in Player |-> None]
  /\ disconnect_deadlines = [p \in Player |-> None]
  /\ disconnect_seconds_used = [p \in Player |-> 0]
  /\ player_turns_completed = 0
  /\ no_progress_turns = 0
  /\ timeout_total = [p \in Player |-> 0]
  /\ timeout_consecutive = [p \in Player |-> 0]
  /\ result = NoResult

-----------------------------------------------------------------------------
(* Time *)

PhaseExpired == phase_deadline # None /\ clock >= phase_deadline

BugRoundsDown ==
  IF phase_deadline = None THEN None
  ELSE Greater(0, SecondsDown(phase_deadline - clock))

PhaseSecondsRemaining ==
  IF phase_deadline = None THEN None
  ELSE Greater(0, SecondsUp(phase_deadline - clock))

(* The players whose disconnect deadline has passed. *)
Lapsed == {p \in Player : /\ disconnect_deadlines[p] # None
                          /\ clock >= disconnect_deadlines[p]}

Absent == {p \in Player : disconnected_at[p] # None}

Tick ==
  /\ ~Finished
  /\ clock < MaxClock
  /\ clock' = clock + 1
  /\ UNCHANGED <<phase, phase_deadline, result, turnVars, pauseVars, absentVars>>

-----------------------------------------------------------------------------
(* Ending a match *)

(* _finish_match: the caller has not finished the match before. *)
Finish(r) ==
  /\ result' = r
  /\ phase' = "FINISHED"
  /\ phase_deadline' = None
  /\ paused' = FALSE
  /\ paused_phase' = "NONE"
  /\ paused_seconds_remaining' = None

(* Who wins on points: leader is ahead on living fighters, hit points and   *)
(* damage dealt, or NoPlayer when those are level and strikes decide.       *)
TiebreakWinner(leader) ==
  IF leader # NoPlayer THEN leader
  ELSE IF timeout_total'[p1] < timeout_total'[p2] THEN p1
  ELSE IF timeout_total'[p2] < timeout_total'[p1] THEN p2
  ELSE NoPlayer

OnPoints(leader, reason) ==
  LET w == TiebreakWinner(leader)
  IN  Result(IF w = NoPlayer THEN "DRAW" ELSE "WIN", w, reason)

StruckOut(p) ==
  \/ timeout_consecutive'[p] >= StrikeRunLimit
  \/ timeout_total'[p] >= StrikeLimit

BugCapsFirst(p, timeout, survivors, leader) ==
  IF survivors = {} THEN Result("DRAW", NoPlayer, "defeat")
  ELSE IF survivors = {p1} THEN Result("WIN", p1, "defeat")
  ELSE IF survivors = {p2} THEN Result("WIN", p2, "defeat")
  ELSE IF player_turns_completed' >= HardCap THEN OnPoints(leader, "hard_cap")
  ELSE IF no_progress_turns' >= NoProgressLimit THEN OnPoints(leader, "no_progress")
  ELSE IF timeout /\ StruckOut(p) THEN Result("FORFEIT", Opponent(p), "timeout")
  ELSE NoResult

(* check_winner, then the rules of _complete_player_turn in their order. *)
TurnVerdict(p, timeout, survivors, leader) ==
  IF survivors = {} THEN Result("DRAW", NoPlayer, "defeat")
  ELSE IF survivors = {p1} THEN Result("WIN", p1, "defeat")
  ELSE IF survivors = {p2} THEN Result("WIN", p2, "defeat")
  ELSE IF timeout /\ StruckOut(p) THEN Result("FORFEIT", Opponent(p), "timeout")
  ELSE IF player_turns_completed' >= HardCap THEN OnPoints(leader, "hard_cap")
  ELSE IF no_progress_turns' >= NoProgressLimit THEN OnPoints(leader, "no_progress")
  ELSE NoResult

(* One completed turn of p: finish_turn hands the turn over, check_winner   *)
(* and _complete_player_turn decide whether the match goes on, and          *)
(* _grant_next_turn_energy re-arms the phase timer.                         *)
CompleteTurn(p, timeout, survivors, progress, leader) ==
  /\ timeout_total' = [timeout_total EXCEPT ![p] = IF timeout THEN @ + 1 ELSE @]
  /\ timeout_consecutive' =
       [timeout_consecutive EXCEPT ![p] = IF timeout THEN @ + 1 ELSE 0]
  /\ player_turns_completed' = player_turns_completed + 1
  /\ no_progress_turns' = IF progress THEN 0 ELSE no_progress_turns + 1
  /\ pending' = [pending EXCEPT ![p] = FALSE]
  /\ turn_player_id' = Opponent(p)
  /\ LET verdict == TurnVerdict(p, timeout, survivors, leader)
     IN  IF verdict # NoResult
         THEN Finish(verdict)
         ELSE /\ phase' = "PLANNING"
              /\ phase_deadline' = clock + PlanningTime * Second
              /\ UNCHANGED <<result, pauseVars>>
  /\ UNCHANGED <<clock, absentVars>>

-----------------------------------------------------------------------------
(* Player commands: execute_player_command lets none through while the      *)
(* match is paused or finished, and has just expired an overdue phase.      *)

CommandsOpen == ~Finished /\ ~paused /\ ~PhaseExpired

BugMayActWhilePaused(p) == ~Finished /\ turn_player_id = p

MayAct(p) == CommandsOpen /\ turn_player_id = p

(* The actions are kept for review, and the phase deadline is not moved. *)
SubmitPlan(p) ==
  /\ MayAct(p)
  /\ \E planned \in BOOLEAN : pending' = [pending EXCEPT ![p] = planned]
  /\ phase' = "QUEUE_REVIEW"
  /\ UNCHANGED <<clock, phase_deadline, result, turn_player_id,
                 player_turns_completed, no_progress_turns,
                 timeout_total, timeout_consecutive, pauseVars, absentVars>>

CancelQueue(p) ==
  /\ MayAct(p)
  /\ pending' = [pending EXCEPT ![p] = FALSE]
  /\ phase' = "PLANNING"
  /\ UNCHANGED <<clock, phase_deadline, result, turn_player_id,
                 player_turns_completed, no_progress_turns,
                 timeout_total, timeout_consecutive, pauseVars, absentVars>>

(* The queue is resolved from any live phase, an empty one included. *)
ConfirmQueue(p) ==
  /\ MayAct(p)
  /\ \E survivors \in SUBSET Player, progress \in BOOLEAN,
        leader \in Player \cup {NoPlayer} :
       CompleteTurn(p, FALSE, survivors, progress, leader)

(* The queue is dropped; statuses that hurt at turn end may still kill.     *)
(* take_cpu_turn ends in this step or in ConfirmQueue's.                    *)
EndTurn(p) ==
  /\ MayAct(p)
  /\ \E survivors \in SUBSET Player, progress \in BOOLEAN,
        leader \in Player \cup {NoPlayer} :
       CompleteTurn(p, FALSE, survivors, progress, leader)

Surrender(p) ==
  /\ CommandsOpen
  /\ Finish(Result("FORFEIT", Opponent(p), "surrender"))
  /\ UNCHANGED <<clock, turnVars, absentVars>>

-----------------------------------------------------------------------------
(* The scheduler's two transitions, and the transport's two *)

(* The turn player's unconfirmed actions are discarded and the turn passes. *)
ExpirePhase ==
  /\ ~paused
  /\ PhaseExpired
  /\ ~Finished
  /\ \E survivors \in SUBSET Player, progress \in BOOLEAN,
        leader \in Player \cup {NoPlayer} :
       CompleteTurn(turn_player_id, TRUE, survivors, progress, leader)

BugResumeTimeAsGrace(p) == Lesser(MinResume, DisconnectBudget - disconnect_seconds_used[p])

(* Seconds until a drop of p is a forfeit. *)
GraceFor(p) ==
  Lesser(GracePeriod, Greater(0, DisconnectBudget - disconnect_seconds_used[p]))

(* The first drop freezes the phase; a second one only starts its own grace. *)
DisconnectPlayer(p) ==
  /\ ~Finished
  /\ disconnected_at[p] = None
  /\ disconnected_at' = [disconnected_at EXCEPT ![p] = clock]
  /\ disconnect_deadlines' =
       [disconnect_deadlines EXCEPT ![p] = clock + Second * GraceFor(p)]
  /\ IF paused
     THEN UNCHANGED <<pauseVars, phase_deadline>>
     ELSE /\ paused' = TRUE
          /\ paused_phase' = phase
          /\ paused_seconds_remaining' = PhaseSecondsRemaining
          /\ phase_deadline' = None
  /\ UNCHANGED <<clock, phase, result, disconnect_seconds_used, turnVars>>

BugUncapped(p) == disconnect_seconds_used[p] + SecondsDown(clock - disconnected_at[p])

(* What p has used of the budget once the current absence is counted. *)
ChargedSeconds(p) ==
  Lesser(DisconnectBudget,
         disconnect_seconds_used[p] + SecondsDown(clock - disconnected_at[p]))

BugGraceIgnored(p) == ~Finished /\ disconnected_at[p] # None

MayReconnect(p) ==
  /\ ~Finished
  /\ disconnected_at[p] # None
  /\ clock < disconnect_deadlines[p]

BugResumeForOne(p) == TRUE

BugResumeNever(p) == Absent = {}

(* Whether nobody is missing once p is back. *)
AllBackWith(p) == Absent \subseteq {p}

BugFullRestart == clock + Second * PlanningTime

(* The phase goes on with what was saved, or with the minimum. *)
ResumedDeadline == clock + Second * Greater(MinResume, paused_seconds_remaining)

(* The last absentee to come back resumes the saved phase. *)
ReconnectPlayer(p) ==
  /\ MayReconnect(p)
  /\ disconnect_seconds_used' = [disconnect_seconds_used EXCEPT ![p] = ChargedSeconds(p)]
  /\ disconnected_at' = [disconnected_at EXCEPT ![p] = None]
  /\ disconnect_deadlines' = [disconnect_deadlines EXCEPT ![p] = None]
  /\ IF AllBackWith(p)
     THEN /\ paused' = FALSE
          /\ phase' = IF paused_phase = "NONE" THEN phase ELSE paused_phase
          /\ paused_phase' = "NONE"
          /\ paused_seconds_remaining' = None
          /\ phase_deadline' = ResumedDeadline
     ELSE UNCHANGED <<phase, phase_deadline, pauseVars>>
  /\ UNCHANGED <<clock, result, turnVars>>

(* Lapsed players are charged; whoever is still connected then wins, and a  *)
(* match both have abandoned is no contest.  With one lapsed and the other  *)
(* away but in grace, nothing ends and the charge is all that happens.      *)
ExpireDisconnects ==
  /\ ~Finished
  /\ Lapsed # {}
  /\ disconnect_seconds_used' =
       [p \in Player |-> IF p \in Lapsed THEN ChargedSeconds(p)
                         ELSE disconnect_seconds_used[p]]
  /\ LET connected == Player \ Absent
         reason == IF \E p \in Lapsed : disconnect_seconds_used'[p] >= DisconnectBudget
                   THEN "disconnect_budget" ELSE "disconnect"
     IN  \/ \E p \in connected : Finish(Result("FORFEIT", p, reason))
         \/ /\ connected = {}
            /\ Lapsed = Player
            /\ Finish(Result("NO_CONTEST", NoPlayer, "disconnect"))
         \/ /\ connected = {}
            /\ Lapsed # Player
            /\ UNCHANGED <<phase, phase_deadline, result, pauseVars>>
  /\ UNCHANGED <<clock, disconnected_at, disconnect_deadlines, turnVars>>

(* A finished room answers every operation by changing nothing. *)
AnswerFinished == Finished /\ UNCHANGED vars

Next ==
  \/ Tick
  \/ \E p \in Player : \/ SubmitPlan(p)
                       \/ CancelQueue(p)
                       \/ ConfirmQueue(p)
                       \/ EndTurn(p)
                       \/ Surrender(p)
                       \/ DisconnectPlayer(p)
                       \/ ReconnectPlayer(p)
  \/ ExpirePhase
  \/ ExpireDisconnects
  \/ AnswerFinished

Spec == Init /\ [][Next]_vars

-----------------------------------------------------------------------------
(* Properties *)

TickOrNone == Nat \cup {None}

Results == [type   : {"NONE", "WIN", "DRAW", "FORFEIT", "NO_CONTEST"},
            winner : Player \cup {NoPlayer},
            reason : {"none", "defeat", "timeout", "hard_cap", "no_progress",
                      "surrender", "disconnect", "disconnect_budget"}]

(* Every field of the room keeps its type; in particular no disconnect      *)
(* charge ever exceeds the budget.                                          *)
TypeOK ==
  /\ clock \in Nat
  /\ phase \in LivePhases \cup {"FINISHED"}
  /\ turn_player_id \in Player
  /\ phase_deadline \in TickOrNone
  /\ pending \in [Player -> BOOLEAN]
  /\ paused \in BOOLEAN
  /\ paused_phase \in LivePhases \cup {"NONE"}
  /\ paused_seconds_remaining \in TickOrNone
  /\ disconnected_at \in [Player -> TickOrNone]
  /\ disconnect_deadlines \in [Player -> TickOrNone]
  /\ disconnect_seconds_used \in [Player -> 0 .. DisconnectBudget]
  /\ player_turns_completed \in Nat
  /\ no_progress_turns \in Nat
  /\ timeout_total \in [Player -> Nat]
  /\ timeout_consecutive \in [Player -> Nat]
  /\ result \in Results

(* While a match is live it is paused exactly when somebody is away, every  *)
(* absentee has a forfeit deadline, and the phase being kept for the resume *)
(* is the one the room shows, over any sequence of overlapping drops,       *)
(* reconnects and expiries (manager.py disconnect_player/reconnect_player). *)
PauseMatchesAbsence ==
  /\ \A p \in Player : disconnected_at[p] = None <=> disconnect_deadlines[p] = None
  /\ ~Finished => /\ paused <=> Absent # {}
                  /\ paused => paused_phase = phase /\ paused_seconds_remaining # None
                  /\ ~paused => paused_phase = "NONE"

(* A live room always has a moment at which the scheduler must act: a phase *)
(* deadline when it is being played, a disconnect deadline when it is       *)
(* paused, and never further ahead than the longest timer.  A finished room *)
(* has no phase deadline (app.py _timer_deadline relies on both).           *)
LiveRoomHasWakeup ==
  /\ ~Finished /\ ~paused =>
       /\ phase_deadline # None
       /\ phase_deadline <= clock + Second * Greater(PlanningTime, MinResume)
  /\ ~Finished /\ paused =>
       /\ phase_deadline = None
       /\ \E p \in Player :
            /\ disconnect_deadlines[p] # None
            /\ disconnect_deadlines[p] <= disconnected_at[p] + Second * GracePeriod
  /\ Finished => phase_deadline = None

Loser == Opponent(result.winner)

BelowStrikes(p) ==
  timeout_consecutive[p] < StrikeRunLimit /\ timeout_total[p] < StrikeLimit

(* Every ending is backed by the ledger that is left: a timeout forfeit by  *)
(* the loser's strikes, a points decision by the cap it names, an absence   *)
(* forfeit by a loser past the deadline and a winner who is there, and no   *)
(* contest by two lapsed players; and a live match is below every limit.    *)
(* Of the limits that one turn reaches at once, strikes come before points, *)
(* and the cap on turns before the one on turns without progress.           *)
ResultJustified ==
  /\ result.type \in {"WIN", "FORFEIT"} <=> result.winner # NoPlayer
  /\ Finished <=> result.type # "NONE"
  /\ result.reason = "timeout" =>
       \/ timeout_consecutive[Loser] >= StrikeRunLimit
       \/ timeout_total[Loser] >= StrikeLimit
  /\ result.reason = "hard_cap" => player_turns_completed = HardCap
  /\ result.reason = "no_progress" =>
       no_progress_turns = NoProgressLimit /\ player_turns_completed < HardCap
  /\ result.reason \in {"hard_cap", "no_progress"} => \A p \in Player : BelowStrikes(p)
  /\ result.type = "FORFEIT" /\ result.reason \in {"disconnect", "disconnect_budget"} =>
       Loser \in Lapsed /\ result.winner \notin Absent
  /\ result.type = "NO_CONTEST" => Lapsed = Player
  /\ result.type \in {"WIN", "DRAW"} => Absent = {}
  /\ ~Finished =>
       /\ result = NoResult
       /\ player_turns_completed < HardCap
       /\ no_progress_turns < NoProgressLimit
       /\ \A p \in Player : BelowStrikes(p)

(* "Expired sessions cannot recover": once a player's grace has lapsed, no  *)
(* step brings the player back, lets the match resume, or awards it to him, *)
(* however late the expiry pass runs.                                       *)
ExpiredCannotRecover ==
  [][\A p \in Lapsed : /\ disconnected_at'[p] # None
                       /\ phase' # "FINISHED" => paused'
                       /\ phase # "FINISHED" => result'.winner # p]_vars

(* The room implements the contract its two players rely on. *)
Contract == INSTANCE MatchContract WITH
  TurnCap <- HardCap,
  status  <- IF Finished THEN "over" ELSE IF paused THEN "frozen" ELSE "running",
  mover   <- turn_player_id,
  moves   <- player_turns_completed,
  verdict <- [type |-> result.type, winner |-> result.winner]

ImplementsContract == Contract!Spec
=============================================================================
