------------------------ MODULE MatchLifecycleProofs ------------------------
(***************************************************************************)
(* Theorems about MatchLifecycle, and about what its observer MatchAudit   *)
(* sees, for every pair of players and every value of the timing and limit *)
(* constants.                                                              *)
(***************************************************************************)
EXTENDS MatchAudit, TLAPS

-----------------------------------------------------------------------------
(* Arithmetic of the clock *)

(* Rounding a non-negative duration to seconds gives a natural number. *)
LEMMA RoundingType ==
  ASSUME NEW t \in Nat
  PROVE  SecondsDown(t) \in Nat /\ SecondsUp(t) \in Nat
  BY ConstantsAssumption, Z3 DEF SecondsDown, SecondsUp

(* A duration of at most n seconds is at most n when rounded up. *)
LEMMA RoundingUpBound ==
  ASSUME NEW t \in Int, NEW n \in Nat, t <= Second * n
  PROVE  SecondsUp(t) <= n
  BY ConstantsAssumption, Z3 DEF SecondsUp

(* Seconds convert to ticks monotonically. *)
LEMMA TicksMonotonic ==
  ASSUME NEW m \in Nat, NEW n \in Nat, m <= n
  PROVE  Second * m \in Nat /\ Second * n \in Nat /\ Second * m <= Second * n
  BY ConstantsAssumption, Z3

-----------------------------------------------------------------------------
(* Type correctness *)

(* A drop is never recorded in the future: what makes charges natural. *)
DropsInThePast == \A p \in Player : disconnected_at[p] <= clock

TypeInv == TypeOK /\ DropsInThePast

(* The verdict on a completed turn is a result. *)
LEMMA TurnVerdictType ==
  ASSUME NEW p \in Player, NEW timeout \in BOOLEAN,
         NEW survivors \in SUBSET Player, NEW leader \in Player \cup {NoPlayer}
  PROVE  TurnVerdict(p, timeout, survivors, leader) \in Results
  BY DEF TurnVerdict, Results, Result, NoResult, OnPoints, TiebreakWinner, Player, Opponent

(* Finishing a match keeps the fields it sets well typed. *)
LEMMA FinishType ==
  ASSUME NEW r \in Results, Finish(r)
  PROVE  /\ phase' \in LivePhases \cup {"FINISHED"}
         /\ phase_deadline' \in TickOrNone
         /\ paused' \in BOOLEAN
         /\ paused_phase' \in LivePhases \cup {"NONE"}
         /\ paused_seconds_remaining' \in TickOrNone
         /\ result' \in Results
  BY DEF Finish, TickOrNone, None

(* Completing a turn keeps the room well typed. *)
LEMMA CompleteTurnType ==
  ASSUME TypeInv,
         NEW p \in Player, NEW timeout \in BOOLEAN, NEW survivors \in SUBSET Player,
         NEW progress \in BOOLEAN, NEW leader \in Player \cup {NoPlayer},
         CompleteTurn(p, timeout, survivors, progress, leader)
  PROVE  TypeInv'
  <1> DEFINE verdict == TurnVerdict(p, timeout, survivors, leader)
  <1>1. /\ turn_player_id' \in Player
        /\ pending' \in [Player -> BOOLEAN]
        /\ player_turns_completed' \in Nat
        /\ no_progress_turns' \in Nat
        /\ timeout_total' \in [Player -> Nat]
        /\ timeout_consecutive' \in [Player -> Nat]
    BY DEF TypeInv, TypeOK, CompleteTurn, Opponent, Player
  <1>2. /\ phase' \in LivePhases \cup {"FINISHED"}
        /\ phase_deadline' \in TickOrNone
        /\ paused' \in BOOLEAN
        /\ paused_phase' \in LivePhases \cup {"NONE"}
        /\ paused_seconds_remaining' \in TickOrNone
        /\ result' \in Results
    <2>1. CASE verdict # NoResult
      <3>1. Finish(verdict)
        BY <2>1 DEF CompleteTurn
      <3>2. QED
        BY <3>1, FinishType, TurnVerdictType
    <2>2. CASE verdict = NoResult
      <3>1. PlanningTime * Second \in Nat
        BY ConstantsAssumption, TicksMonotonic
      <3>2. QED
        BY <2>2, <3>1 DEF CompleteTurn, TypeInv, TypeOK, pauseVars, LivePhases, TickOrNone
    <2>3. QED
      BY <2>1, <2>2
  <1>3. UNCHANGED <<clock, absentVars>>
    BY DEF CompleteTurn
  <1>4. QED
    BY <1>1, <1>2, <1>3 DEF TypeInv, TypeOK, DropsInThePast, absentVars

(* A charge is a number of seconds within the budget. *)
LEMMA ChargeType ==
  ASSUME TypeInv, NEW p \in Player
  PROVE  ChargedSeconds(p) \in 0 .. DisconnectBudget
  <1>1. clock - disconnected_at[p] \in Nat
    BY DEF TypeInv, TypeOK, DropsInThePast, TickOrNone, None
  <1>2. SecondsDown(clock - disconnected_at[p]) \in Nat
    BY <1>1, RoundingType
  <1>3. disconnect_seconds_used[p] \in 0 .. DisconnectBudget
    BY DEF TypeInv, TypeOK
  <1>4. QED
    BY <1>2, <1>3, ConstantsAssumption DEF ChargedSeconds, Lesser

(* The grace of a drop is a number of seconds within the grace period. *)
LEMMA GraceType ==
  ASSUME TypeInv, NEW p \in Player
  PROVE  GraceFor(p) \in 0 .. GracePeriod
  BY ConstantsAssumption DEF TypeInv, TypeOK, GraceFor, Lesser, Greater

(* What a pause saves of the phase is a time in seconds or nothing. *)
LEMMA SavedSecondsType ==
  ASSUME TypeInv
  PROVE  PhaseSecondsRemaining \in TickOrNone
  <1>1. CASE phase_deadline - clock >= 0 /\ phase_deadline # None
    <2>1. SecondsUp(phase_deadline - clock) \in Nat
      BY <1>1, RoundingType DEF TypeInv, TypeOK, TickOrNone, None
    <2>2. QED
      BY <1>1, <2>1 DEF PhaseSecondsRemaining, Greater, TickOrNone, None
  <1>2. CASE phase_deadline - clock < 0 /\ phase_deadline # None
    <2>1. SecondsUp(phase_deadline - clock) <= 0
      BY <1>2, RoundingUpBound, ConstantsAssumption DEF TypeInv, TypeOK, TickOrNone, None
    <2>2. SecondsUp(phase_deadline - clock) \in Int
      BY <1>2, ConstantsAssumption DEF TypeInv, TypeOK, TickOrNone, None, SecondsUp
    <2>3. QED
      BY <1>2, <2>1, <2>2 DEF PhaseSecondsRemaining, Greater, TickOrNone, None
  <1>3. CASE phase_deadline = None
    BY <1>3 DEF PhaseSecondsRemaining, TickOrNone
  <1>4. QED
    BY <1>1, <1>2, <1>3 DEF TypeInv, TypeOK, TickOrNone, None

(* Every step keeps the room well typed. *)
LEMMA TypeInvStep == TypeInv /\ [Next]_vars => TypeInv'
  <1> SUFFICES ASSUME TypeInv, [Next]_vars
               PROVE  TypeInv'
    OBVIOUS
  <1>1. CASE Tick
    BY <1>1 DEF Tick, TypeInv, TypeOK, DropsInThePast, TickOrNone, None,
                turnVars, pauseVars, absentVars
  <1>2. ASSUME NEW p \in Player, SubmitPlan(p)
        PROVE  TypeInv'
    BY <1>2 DEF SubmitPlan, TypeInv, TypeOK, DropsInThePast, LivePhases,
                pauseVars, absentVars
  <1>3. ASSUME NEW p \in Player, CancelQueue(p)
        PROVE  TypeInv'
    BY <1>3 DEF CancelQueue, TypeInv, TypeOK, DropsInThePast, LivePhases,
                pauseVars, absentVars
  <1>4. ASSUME NEW p \in Player, ConfirmQueue(p)
        PROVE  TypeInv'
    BY <1>4, CompleteTurnType DEF ConfirmQueue
  <1>5. ASSUME NEW p \in Player, EndTurn(p)
        PROVE  TypeInv'
    BY <1>5, CompleteTurnType DEF EndTurn
  <1>6. ASSUME NEW p \in Player, Surrender(p)
        PROVE  TypeInv'
    <2>1. Result("FORFEIT", Opponent(p), "surrender") \in Results
      BY DEF Result, Results, Opponent, Player
    <2>2. Finish(Result("FORFEIT", Opponent(p), "surrender"))
          /\ UNCHANGED <<clock, turnVars, absentVars>>
      BY <1>6 DEF Surrender
    <2>3. QED
      BY <2>1, <2>2, FinishType DEF TypeInv, TypeOK, DropsInThePast, turnVars, absentVars
  <1>7. ASSUME NEW p \in Player, DisconnectPlayer(p)
        PROVE  TypeInv'
    <2>1. Second * GraceFor(p) \in Nat
      BY GraceType, TicksMonotonic, ConstantsAssumption
    <2>2. /\ disconnected_at' \in [Player -> TickOrNone]
          /\ disconnect_deadlines' \in [Player -> TickOrNone]
          /\ DropsInThePast'
      BY <1>7, <2>1 DEF DisconnectPlayer, TypeInv, TypeOK, DropsInThePast, TickOrNone
    <2>3. /\ paused' \in BOOLEAN
          /\ paused_phase' \in LivePhases \cup {"NONE"}
          /\ paused_seconds_remaining' \in TickOrNone
          /\ phase_deadline' \in TickOrNone
      <3>1. CASE paused
        BY <1>7, <3>1 DEF DisconnectPlayer, TypeInv, TypeOK, pauseVars
      <3>2. CASE ~paused
        BY <1>7, <3>2, SavedSecondsType
           DEF DisconnectPlayer, TypeInv, TypeOK, Finished, TickOrNone
      <3>3. QED
        BY <3>1, <3>2
    <2>4. UNCHANGED <<clock, phase, result, disconnect_seconds_used, turnVars>>
      BY <1>7 DEF DisconnectPlayer
    <2>5. QED
      BY <2>2, <2>3, <2>4 DEF TypeInv, TypeOK, turnVars
  <1>8. ASSUME NEW p \in Player, ReconnectPlayer(p)
        PROVE  TypeInv'
    <2>1. /\ disconnected_at' \in [Player -> TickOrNone]
          /\ disconnect_deadlines' \in [Player -> TickOrNone]
          /\ DropsInThePast'
      BY <1>8 DEF ReconnectPlayer, TypeInv, TypeOK, DropsInThePast, TickOrNone, None
    <2>2. disconnect_seconds_used' \in [Player -> 0 .. DisconnectBudget]
      BY <1>8, ChargeType DEF ReconnectPlayer, TypeInv, TypeOK
    <2>3. /\ phase' \in LivePhases \cup {"FINISHED"}
          /\ phase_deadline' \in TickOrNone
          /\ paused' \in BOOLEAN
          /\ paused_phase' \in LivePhases \cup {"NONE"}
          /\ paused_seconds_remaining' \in TickOrNone
      <3>1. CASE AllBackWith(p)
        <4>1. Greater(MinResume, paused_seconds_remaining) \in Nat
          BY ConstantsAssumption DEF Greater, TypeInv, TypeOK, TickOrNone, None
        <4>2. ResumedDeadline \in Nat
          BY <4>1, TicksMonotonic, ConstantsAssumption DEF ResumedDeadline, TypeInv, TypeOK
        <4>3. QED
          BY <1>8, <3>1, <4>2 DEF ReconnectPlayer, TypeInv, TypeOK, TickOrNone
      <3>2. CASE ~AllBackWith(p)
        BY <1>8, <3>2 DEF ReconnectPlayer, pauseVars, TypeInv, TypeOK
      <3>3. QED
        BY <3>1, <3>2
    <2>4. UNCHANGED <<clock, result, turnVars>>
      BY <1>8 DEF ReconnectPlayer
    <2>5. QED
      BY <2>1, <2>2, <2>3, <2>4 DEF TypeInv, TypeOK, turnVars
  <1>9. CASE ExpirePhase
    <2>1. turn_player_id \in Player
      BY DEF TypeInv, TypeOK
    <2>2. QED
      BY <1>9, <2>1, CompleteTurnType DEF ExpirePhase
  <1>10. CASE ExpireDisconnects
    <2>1. disconnect_seconds_used' \in [Player -> 0 .. DisconnectBudget]
      BY <1>10, ChargeType DEF ExpireDisconnects, TypeInv, TypeOK
    <2>2. UNCHANGED <<clock, disconnected_at, disconnect_deadlines, turnVars>>
      BY <1>10 DEF ExpireDisconnects
    <2>3. /\ phase' \in LivePhases \cup {"FINISHED"}
          /\ phase_deadline' \in TickOrNone
          /\ paused' \in BOOLEAN
          /\ paused_phase' \in LivePhases \cup {"NONE"}
          /\ paused_seconds_remaining' \in TickOrNone
          /\ result' \in Results
      <3>1. CASE UNCHANGED <<phase, phase_deadline, result, pauseVars>>
        BY <3>1 DEF pauseVars, TypeInv, TypeOK
      <3>2. CASE \E r \in Results : Finish(r)
        BY <3>2, FinishType
      <3>3. QED
        BY <1>10, <3>1, <3>2 DEF ExpireDisconnects, Result, Results
    <2>4. QED
      BY <2>1, <2>2, <2>3 DEF TypeInv, TypeOK, DropsInThePast, turnVars
  <1>11. CASE UNCHANGED vars
    BY <1>11 DEF vars, turnVars, pauseVars, absentVars, TypeInv, TypeOK, DropsInThePast
  <1>12. QED
    BY <1>1, <1>2, <1>3, <1>4, <1>5, <1>6, <1>7, <1>8, <1>9, <1>10, <1>11
       DEF Next, AnswerFinished

(* The initial room is well typed. *)
LEMMA TypeInvInit == Init => TypeInv
  <1>1. PlanningTime * Second \in Nat
    BY ConstantsAssumption, TicksMonotonic
  <1>2. DisconnectBudget \in Nat
    BY ConstantsAssumption
  <1>3. NoResult \in Results
    BY DEF NoResult, Result, Results
  <1>4. Init => TypeOK
    <2> SUFFICES ASSUME Init
                 PROVE  TypeOK
      OBVIOUS
    <2>1. pending \in [Player -> BOOLEAN] /\ paused \in BOOLEAN
      BY DEF Init
    <2>2. /\ clock \in Nat
          /\ phase \in LivePhases \cup {"FINISHED"}
          /\ turn_player_id \in Player
          /\ phase_deadline \in TickOrNone
          /\ paused_phase \in LivePhases \cup {"NONE"}
          /\ paused_seconds_remaining \in TickOrNone
      BY <1>1 DEF Init, TickOrNone, LivePhases, Player
    <2>3. /\ disconnected_at \in [Player -> TickOrNone]
          /\ disconnect_deadlines \in [Player -> TickOrNone]
          /\ disconnect_seconds_used \in [Player -> 0 .. DisconnectBudget]
          /\ player_turns_completed \in Nat
          /\ no_progress_turns \in Nat
          /\ timeout_total \in [Player -> Nat]
          /\ timeout_consecutive \in [Player -> Nat]
      BY <1>2 DEF Init, TickOrNone
    <2>4. QED
      BY <2>1, <2>2, <2>3, <1>3 DEF Init, TypeOK
  <1>5. Init => DropsInThePast
    BY DEF Init, DropsInThePast, None
  <1>6. QED
    BY <1>4, <1>5 DEF TypeInv

(* Every reachable room is well typed: in particular no sequence of drops   *)
(* and expiry passes charges a player more than the disconnect budget.      *)
THEOREM TypeCorrect == Spec => []TypeOK
  <1>1. TypeInv => TypeOK
    BY DEF TypeInv
  <1>2. QED
    BY <1>1, TypeInvInit, TypeInvStep, PTL DEF Spec

-----------------------------------------------------------------------------
(* The pause and the deadlines *)

LongestTimer == Greater(PlanningTime, MinResume)

(* What a step must keep for the deadlines to stay bounded: no disconnect   *)
(* deadline lies beyond the grace of its drop, and no pause has saved more  *)
(* than the longest phase timer.                                            *)
DeadlineBounds ==
  /\ \A p \in Player : disconnect_deadlines[p] # None =>
       disconnect_deadlines[p] <= disconnected_at[p] + Second * GracePeriod
  /\ ~Finished /\ paused => paused_seconds_remaining <= LongestTimer

RoomFacts == PauseMatchesAbsence /\ LiveRoomHasWakeup /\ DeadlineBounds

RoomInv == TypeInv /\ RoomFacts

LEMMA LongestTimerType ==
  /\ LongestTimer \in Nat
  /\ PlanningTime <= LongestTimer /\ MinResume <= LongestTimer
  /\ Second * LongestTimer \in Nat
  /\ PlanningTime * Second \in Nat /\ PlanningTime * Second <= Second * LongestTimer
  <1>1. /\ LongestTimer \in Nat
        /\ PlanningTime <= LongestTimer /\ MinResume <= LongestTimer
    BY ConstantsAssumption DEF LongestTimer, Greater
  <1>2. PlanningTime \in Nat /\ Second \in Nat
    BY ConstantsAssumption
  <1>3. PlanningTime * Second = Second * PlanningTime
    BY <1>2
  <1>4. QED
    BY <1>1, <1>2, <1>3, TicksMonotonic

(* Ending the match keeps the facts: a finished room has no deadline left   *)
(* and makes no claim about pauses.                                         *)
LEMMA FinishRoomFacts ==
  ASSUME RoomInv, NEW r \in Results, Finish(r),
         UNCHANGED <<disconnected_at, disconnect_deadlines>>
  PROVE  RoomFacts'
  BY DEF RoomInv, RoomFacts, PauseMatchesAbsence, LiveRoomHasWakeup, DeadlineBounds,
         Finish, Finished

(* So does completing a turn of a match that is not paused. *)
LEMMA CompleteTurnRoomFacts ==
  ASSUME RoomInv, ~Finished, ~paused,
         NEW p \in Player, NEW timeout \in BOOLEAN, NEW survivors \in SUBSET Player,
         NEW progress \in BOOLEAN, NEW leader \in Player \cup {NoPlayer},
         CompleteTurn(p, timeout, survivors, progress, leader)
  PROVE  RoomFacts'
  <1> DEFINE verdict == TurnVerdict(p, timeout, survivors, leader)
  <1>1. UNCHANGED <<disconnected_at, disconnect_deadlines>>
    BY DEF CompleteTurn, absentVars
  <1>2. CASE verdict # NoResult
    BY <1>1, <1>2, TurnVerdictType, FinishRoomFacts DEF CompleteTurn
  <1>3. CASE verdict = NoResult
    <2>1. /\ phase' = "PLANNING"
          /\ phase_deadline' = clock + PlanningTime * Second
          /\ UNCHANGED <<clock, paused, paused_phase, paused_seconds_remaining>>
      BY <1>3 DEF CompleteTurn, pauseVars
    <2>2. /\ PlanningTime * Second \in Nat
          /\ PlanningTime * Second <= Second * LongestTimer
      BY LongestTimerType
    <2>3. PauseMatchesAbsence'
      BY <1>1, <2>1 DEF RoomInv, RoomFacts, PauseMatchesAbsence, Absent, Finished
    <2>4. LiveRoomHasWakeup'
      BY <2>1, <2>2, LongestTimerType
         DEF RoomInv, TypeInv, TypeOK, LiveRoomHasWakeup, LongestTimer, Finished, None
    <2>5. DeadlineBounds'
      BY <1>1, <2>1 DEF RoomInv, RoomFacts, DeadlineBounds
    <2>6. QED
      BY <2>3, <2>4, <2>5 DEF RoomFacts
  <1>4. QED
    BY <1>2, <1>3

(* A pause saves at most the longest timer. *)
LEMMA SavedSecondsBound ==
  ASSUME RoomInv, ~Finished, ~paused
  PROVE  PhaseSecondsRemaining \in Nat /\ PhaseSecondsRemaining <= LongestTimer
  <1>1. /\ phase_deadline \in Nat
        /\ clock \in Nat
        /\ phase_deadline - clock <= Second * LongestTimer
    BY LongestTimerType
       DEF RoomInv, RoomFacts, LiveRoomHasWakeup, TypeInv, TypeOK, TickOrNone, LongestTimer
  <1>2. SecondsUp(phase_deadline - clock) <= LongestTimer
    BY <1>1, LongestTimerType, RoundingUpBound
  <1>3. SecondsUp(phase_deadline - clock) \in Int
    BY <1>1, ConstantsAssumption DEF SecondsUp
  <1>4. QED
    BY <1>1, <1>2, <1>3, LongestTimerType DEF PhaseSecondsRemaining, Greater, None

(* A drop pauses the match and starts a grace of bounded length. *)
LEMMA DisconnectRoomFacts ==
  ASSUME RoomInv, NEW p \in Player, DisconnectPlayer(p)
  PROVE  RoomFacts'
  <1> DEFINE grace == Second * GraceFor(p)
  <1>1. /\ ~Finished
        /\ disconnected_at[p] = None
        /\ disconnected_at' = [disconnected_at EXCEPT ![p] = clock]
        /\ disconnect_deadlines' = [disconnect_deadlines EXCEPT ![p] = clock + grace]
        /\ UNCHANGED <<clock, phase>>
    BY DEF DisconnectPlayer
  <1>2. grace \in Nat /\ grace <= Second * GracePeriod
    BY GraceType, TicksMonotonic, ConstantsAssumption DEF RoomInv
  <1>3. clock \in Nat
        /\ disconnected_at \in [Player -> TickOrNone]
        /\ disconnect_deadlines \in [Player -> TickOrNone]
    BY DEF RoomInv, TypeInv, TypeOK
  <1>4. /\ disconnected_at'[p] = clock /\ disconnected_at'[p] # None
        /\ disconnect_deadlines'[p] = clock + grace /\ disconnect_deadlines'[p] # None
        /\ \A q \in Player \ {p} : /\ disconnected_at'[q] = disconnected_at[q]
                                   /\ disconnect_deadlines'[q] = disconnect_deadlines[q]
    BY <1>1, <1>2, <1>3 DEF None
  <1>5. /\ paused'
        /\ phase_deadline' = None
        /\ paused_phase' = phase
        /\ paused_seconds_remaining' # None
        /\ paused_seconds_remaining' <= LongestTimer
    <2>1. CASE paused
      BY <2>1, <1>1 DEF DisconnectPlayer, pauseVars, RoomInv, RoomFacts,
                        PauseMatchesAbsence, LiveRoomHasWakeup, DeadlineBounds
    <2>2. CASE ~paused
      BY <2>2, <1>1, SavedSecondsBound DEF DisconnectPlayer, None
    <2>3. QED
      BY <2>1, <2>2
  <1>6. PauseMatchesAbsence'
    <2>1. Absent' # {}
      BY <1>4 DEF Absent
    <2>2. \A q \in Player : disconnected_at'[q] = None <=> disconnect_deadlines'[q] = None
      BY <1>4 DEF RoomInv, RoomFacts, PauseMatchesAbsence
    <2>3. QED
      BY <2>1, <2>2, <1>1, <1>5 DEF PauseMatchesAbsence
  <1>7. LiveRoomHasWakeup'
    BY <1>1, <1>2, <1>3, <1>4, <1>5, ConstantsAssumption, TicksMonotonic
       DEF LiveRoomHasWakeup, Finished
  <1>8. DeadlineBounds'
    <2>1. \A q \in Player : disconnect_deadlines'[q] # None =>
            disconnect_deadlines'[q] <= disconnected_at'[q] + Second * GracePeriod
      BY <1>2, <1>3, <1>4, TicksMonotonic, ConstantsAssumption
         DEF RoomInv, RoomFacts, DeadlineBounds
    <2>2. QED
      BY <2>1, <1>5 DEF DeadlineBounds, LongestTimer
  <1>9. QED
    BY <1>6, <1>7, <1>8 DEF RoomFacts

(* A reconnect resumes the match when nobody else is away, with a timer no  *)
(* longer than the longest; otherwise the pause stands.                     *)
LEMMA ReconnectRoomFacts ==
  ASSUME RoomInv, NEW p \in Player, ReconnectPlayer(p)
  PROVE  RoomFacts'
  <1>1. /\ ~Finished
        /\ disconnected_at[p] # None
        /\ disconnected_at' = [disconnected_at EXCEPT ![p] = None]
        /\ disconnect_deadlines' = [disconnect_deadlines EXCEPT ![p] = None]
        /\ UNCHANGED clock
    BY DEF ReconnectPlayer, MayReconnect
  <1>2. clock \in Nat
        /\ disconnected_at \in [Player -> TickOrNone]
        /\ disconnect_deadlines \in [Player -> TickOrNone]
    BY DEF RoomInv, TypeInv, TypeOK
  <1>3. /\ disconnected_at'[p] = None
        /\ disconnect_deadlines'[p] = None
        /\ \A q \in Player \ {p} : /\ disconnected_at'[q] = disconnected_at[q]
                                   /\ disconnect_deadlines'[q] = disconnect_deadlines[q]
    BY <1>1, <1>2
  <1>4. paused /\ paused_phase = phase /\ paused_seconds_remaining # None
    BY <1>1 DEF RoomInv, RoomFacts, PauseMatchesAbsence, Absent
  <1>5. \A q \in Player : disconnected_at'[q] = None <=> disconnect_deadlines'[q] = None
    BY <1>3 DEF RoomInv, RoomFacts, PauseMatchesAbsence
  <1>6. \A q \in Player : disconnect_deadlines'[q] # None =>
          disconnect_deadlines'[q] <= disconnected_at'[q] + Second * GracePeriod
    BY <1>3 DEF RoomInv, RoomFacts, DeadlineBounds
  <1>7. CASE AllBackWith(p)
    <2>1. Absent' = {}
      BY <1>3, <1>7 DEF Absent, AllBackWith
    <2>2. /\ ~paused' /\ paused_phase' = "NONE" /\ phase' = phase
          /\ phase_deadline' = ResumedDeadline
      BY <1>4, <1>7 DEF ReconnectPlayer
    <2>3. /\ Greater(MinResume, paused_seconds_remaining) \in Nat
          /\ Greater(MinResume, paused_seconds_remaining) <= LongestTimer
      <3>1. paused_seconds_remaining \in Nat /\ paused_seconds_remaining <= LongestTimer
        BY <1>1, <1>4 DEF RoomInv, RoomFacts, DeadlineBounds, TypeInv, TypeOK, TickOrNone
      <3>2. QED
        BY <3>1, LongestTimerType, ConstantsAssumption DEF Greater
    <2>4. /\ ResumedDeadline \in Nat
          /\ ResumedDeadline <= clock + Second * LongestTimer
      BY <1>2, <2>3, LongestTimerType, TicksMonotonic DEF ResumedDeadline
    <2>5. PauseMatchesAbsence'
      BY <1>5, <2>1, <2>2 DEF PauseMatchesAbsence
    <2>6. LiveRoomHasWakeup'
      BY <1>1, <2>2, <2>4 DEF LiveRoomHasWakeup, LongestTimer, Finished, None
    <2>7. DeadlineBounds'
      BY <1>6, <2>2 DEF DeadlineBounds
    <2>8. QED
      BY <2>5, <2>6, <2>7 DEF RoomFacts
  <1>8. CASE ~AllBackWith(p)
    <2>1. UNCHANGED <<phase, phase_deadline, paused, paused_phase, paused_seconds_remaining>>
      BY <1>8 DEF ReconnectPlayer, pauseVars
    <2>2. PICK q \in Player : q # p /\ disconnected_at[q] # None
      BY <1>8 DEF AllBackWith, Absent
    <2>3. disconnected_at'[q] # None /\ disconnect_deadlines'[q] # None
      BY <1>3, <1>5, <2>2
    <2>4. PauseMatchesAbsence'
      <3>1. Absent' # {}
        BY <2>3 DEF Absent
      <3>2. QED
        BY <1>4, <1>5, <2>1, <3>1 DEF PauseMatchesAbsence
    <2>5. LiveRoomHasWakeup'
      <3>1. phase_deadline = None
        BY <1>1, <1>4 DEF RoomInv, RoomFacts, LiveRoomHasWakeup
      <3>2. QED
        BY <1>1, <1>4, <1>6, <2>1, <2>3, <3>1 DEF LiveRoomHasWakeup, Finished
    <2>6. DeadlineBounds'
      BY <1>6, <2>1 DEF RoomInv, RoomFacts, DeadlineBounds, Finished, LongestTimer
    <2>7. QED
      BY <2>4, <2>5, <2>6 DEF RoomFacts
  <1>9. QED
    BY <1>7, <1>8

(* An expiry pass ends the match, or leaves everything but the charges.     *)
LEMMA ExpireRoomFacts ==
  ASSUME RoomInv, ExpireDisconnects
  PROVE  RoomFacts'
  <1>1. UNCHANGED <<clock, disconnected_at, disconnect_deadlines>>
    BY DEF ExpireDisconnects
  <1>2. CASE \E r \in Results : Finish(r)
    BY <1>1, <1>2, FinishRoomFacts
  <1>3. CASE UNCHANGED <<phase, phase_deadline, result, pauseVars>>
    BY <1>1, <1>3 DEF RoomInv, RoomFacts, PauseMatchesAbsence, LiveRoomHasWakeup,
                      DeadlineBounds, Absent, Finished, pauseVars, LongestTimer
  <1>4. QED
    BY <1>2, <1>3 DEF ExpireDisconnects, Result, Results

(* Reviewing or cancelling a plan moves the phase of an unpaused match and  *)
(* nothing these facts mention besides.                                     *)
LEMMA ReviewRoomFacts ==
  ASSUME RoomInv, ~Finished, ~paused, phase' \in LivePhases,
         UNCHANGED <<clock, phase_deadline, pauseVars, absentVars>>
  PROVE  RoomFacts'
  BY DEF RoomInv, RoomFacts, PauseMatchesAbsence, LiveRoomHasWakeup, DeadlineBounds,
         Absent, Finished, LivePhases, pauseVars, absentVars, LongestTimer

(* The passing of time only brings the deadlines nearer. *)
LEMMA TickRoomFacts ==
  ASSUME RoomInv, Tick
  PROVE  RoomFacts'
  <1>1. /\ clock \in Nat /\ clock' = clock + 1
        /\ UNCHANGED <<phase, phase_deadline, paused, paused_phase,
                       paused_seconds_remaining, disconnected_at, disconnect_deadlines>>
    BY DEF Tick, RoomInv, TypeInv, TypeOK, pauseVars, absentVars
  <1>2. PauseMatchesAbsence'
    BY <1>1 DEF RoomInv, RoomFacts, PauseMatchesAbsence, Absent, Finished
  <1>3. LiveRoomHasWakeup'
    <2>1. ~Finished /\ ~paused =>
            phase_deadline \in Nat /\ phase_deadline <= clock + Second * LongestTimer
      BY DEF RoomInv, RoomFacts, LiveRoomHasWakeup, TypeInv, TypeOK, TickOrNone, LongestTimer
    <2>2. ~Finished' /\ ~paused' => phase_deadline' <= clock' + Second * LongestTimer
      BY <1>1, <2>1, LongestTimerType DEF Finished
    <2>3. QED
      BY <1>1, <2>1, <2>2 DEF RoomInv, RoomFacts, LiveRoomHasWakeup, Finished, LongestTimer
  <1>4. DeadlineBounds'
    BY <1>1 DEF RoomInv, RoomFacts, DeadlineBounds, Finished, LongestTimer
  <1>5. QED
    BY <1>2, <1>3, <1>4 DEF RoomFacts

LEMMA RoomInvStep == RoomInv /\ [Next]_vars => RoomInv'
  <1> SUFFICES ASSUME RoomInv, [Next]_vars
               PROVE  RoomFacts'
    BY TypeInvStep DEF RoomInv
  <1>1. CASE Tick
    BY <1>1, TickRoomFacts
  <1>2. ASSUME NEW p \in Player, SubmitPlan(p)
        PROVE  RoomFacts'
    BY <1>2, ReviewRoomFacts DEF SubmitPlan, MayAct, CommandsOpen, LivePhases
  <1>3. ASSUME NEW p \in Player, CancelQueue(p)
        PROVE  RoomFacts'
    BY <1>3, ReviewRoomFacts DEF CancelQueue, MayAct, CommandsOpen, LivePhases
  <1>4. ASSUME NEW p \in Player, ConfirmQueue(p)
        PROVE  RoomFacts'
    BY <1>4, CompleteTurnRoomFacts DEF ConfirmQueue, MayAct, CommandsOpen
  <1>5. ASSUME NEW p \in Player, EndTurn(p)
        PROVE  RoomFacts'
    BY <1>5, CompleteTurnRoomFacts DEF EndTurn, MayAct, CommandsOpen
  <1>6. ASSUME NEW p \in Player, Surrender(p)
        PROVE  RoomFacts'
    <2>1. Result("FORFEIT", Opponent(p), "surrender") \in Results
      BY DEF Result, Results, Opponent, Player
    <2>2. QED
      BY <1>6, <2>1, FinishRoomFacts DEF Surrender, absentVars
  <1>7. ASSUME NEW p \in Player, DisconnectPlayer(p)
        PROVE  RoomFacts'
    BY <1>7, DisconnectRoomFacts
  <1>8. ASSUME NEW p \in Player, ReconnectPlayer(p)
        PROVE  RoomFacts'
    BY <1>8, ReconnectRoomFacts
  <1>9. CASE ExpirePhase
    <2>1. turn_player_id \in Player
      BY DEF RoomInv, TypeInv, TypeOK
    <2>2. QED
      BY <1>9, <2>1, CompleteTurnRoomFacts DEF ExpirePhase
  <1>10. CASE ExpireDisconnects
    BY <1>10, ExpireRoomFacts
  <1>11. CASE UNCHANGED vars
    BY <1>11 DEF vars, pauseVars, absentVars, RoomInv, RoomFacts, PauseMatchesAbsence,
                 LiveRoomHasWakeup, DeadlineBounds, Absent, Finished, LongestTimer
  <1>12. QED
    BY <1>1, <1>2, <1>3, <1>4, <1>5, <1>6, <1>7, <1>8, <1>9, <1>10, <1>11
       DEF Next, AnswerFinished

LEMMA RoomInvInit == Init => RoomInv
  <1> SUFFICES ASSUME Init
               PROVE  RoomFacts
    BY TypeInvInit DEF RoomInv
  <1>1. /\ PlanningTime * Second \in Nat
        /\ PlanningTime * Second <= Second * LongestTimer
    BY LongestTimerType
  <1>2. ~paused /\ Absent = {} /\ ~Finished
    BY DEF Init, Absent, Finished
  <1>3. QED
    BY <1>1, <1>2, LongestTimerType
       DEF Init, RoomFacts, PauseMatchesAbsence, LiveRoomHasWakeup, DeadlineBounds,
           LongestTimer, None

(* However drops, reconnects and expiries overlap, a live match is paused   *)
(* exactly while a player is missing.                                       *)
THEOREM PauseCorrect == Spec => []PauseMatchesAbsence
  <1>1. RoomInv => PauseMatchesAbsence
    BY DEF RoomInv, RoomFacts
  <1>2. QED
    BY <1>1, RoomInvInit, RoomInvStep, PTL DEF Spec

(* A live room always holds the deadline the scheduler has to act on. *)
THEOREM WakeupCorrect == Spec => []LiveRoomHasWakeup
  <1>1. RoomInv => LiveRoomHasWakeup
    BY DEF RoomInv, RoomFacts
  <1>2. QED
    BY <1>1, RoomInvInit, RoomInvStep, PTL DEF Spec

-----------------------------------------------------------------------------
(* The ending *)

(* What the rules of a completed turn allow a verdict to be. *)
LEMMA TurnVerdictMeaning ==
  ASSUME NEW p \in Player, NEW timeout \in BOOLEAN,
         NEW survivors \in SUBSET Player, NEW leader \in Player \cup {NoPlayer},
         player_turns_completed' \in Nat, no_progress_turns' \in Nat
  PROVE  LET r == TurnVerdict(p, timeout, survivors, leader)
         IN  /\ r = NoResult => /\ ~(timeout /\ StruckOut(p))
                                /\ player_turns_completed' < HardCap
                                /\ no_progress_turns' < NoProgressLimit
             /\ r # NoResult =>
                  /\ r.type \in {"WIN", "DRAW", "FORFEIT"}
                  /\ r.reason \in {"defeat", "timeout", "hard_cap", "no_progress"}
                  /\ r.type = "FORFEIT" <=> r.reason = "timeout"
                  /\ r.type \in {"WIN", "FORFEIT"} <=> r.winner # NoPlayer
                  /\ r.reason = "timeout" => StruckOut(p) /\ r.winner = Opponent(p)
                  /\ r.reason = "hard_cap" => player_turns_completed' >= HardCap
                  /\ r.reason = "no_progress" => /\ no_progress_turns' >= NoProgressLimit
                                                 /\ player_turns_completed' < HardCap
                  /\ r.reason \in {"hard_cap", "no_progress"} => ~(timeout /\ StruckOut(p))
  <1>1. NoPlayer \notin Player /\ Opponent(p) \in Player
    BY ConstantsAssumption DEF Player, Opponent
  <1>2. HardCap \in Nat /\ NoProgressLimit \in Nat
    BY ConstantsAssumption
  <1>3. \A reason \in {"hard_cap", "no_progress"} :
          LET r == OnPoints(leader, reason)
          IN  /\ r.type \in {"WIN", "DRAW"} /\ r.reason = reason
              /\ r.type = "WIN" <=> r.winner # NoPlayer
    BY <1>1 DEF OnPoints, TiebreakWinner, Result, Player
  <1>4. /\ p1 # NoPlayer /\ p2 # NoPlayer
        /\ NoResult.type = "NONE"
    BY <1>1 DEF Player, NoResult, Result
  <1> DEFINE r == TurnVerdict(p, timeout, survivors, leader)
  <1>5. CASE survivors \in {{}, {p1}, {p2}}
    BY <1>4, <1>5 DEF TurnVerdict, Result
  <1>6. CASE survivors \notin {{}, {p1}, {p2}} /\ timeout /\ StruckOut(p)
    <2>1. r = Result("FORFEIT", Opponent(p), "timeout")
      BY <1>6 DEF TurnVerdict
    <2>2. QED
      BY <2>1, <1>1, <1>4, <1>6 DEF Result
  <1>7. CASE survivors \notin {{}, {p1}, {p2}} /\ ~(timeout /\ StruckOut(p))
    <2>1. CASE player_turns_completed' >= HardCap
      BY <1>7, <1>3, <1>4, <2>1 DEF TurnVerdict
    <2>2. CASE ~(player_turns_completed' >= HardCap) /\ no_progress_turns' >= NoProgressLimit
      BY <1>7, <1>2, <1>3, <1>4, <2>2 DEF TurnVerdict
    <2>3. CASE ~(player_turns_completed' >= HardCap) /\ ~(no_progress_turns' >= NoProgressLimit)
      BY <1>7, <1>2, <2>3 DEF TurnVerdict
    <2>4. QED
      BY <2>1, <2>2, <2>3
  <1>8. QED
    BY <1>5, <1>6, <1>7

(* A step that leaves the match live has only the limits to respect. *)
LimitsHold ==
  /\ player_turns_completed < HardCap
  /\ no_progress_turns < NoProgressLimit
  /\ \A p \in Player : BelowStrikes(p)

LEMMA StillLive ==
  ASSUME ~Finished', result' = NoResult, LimitsHold'
  PROVE  ResultJustified'
  BY DEF ResultJustified, NoResult, Result, LimitsHold

(* A live match has no result and is below every limit. *)
LEMMA LiveMatch ==
  ASSUME ResultJustified, ~Finished
  PROVE  result = NoResult /\ LimitsHold
  BY DEF ResultJustified, LimitsHold

LEMMA CompleteTurnJustified ==
  ASSUME RoomInv, ResultJustified, ~Finished, ~paused,
         NEW p \in Player, NEW timeout \in BOOLEAN, NEW survivors \in SUBSET Player,
         NEW progress \in BOOLEAN, NEW leader \in Player \cup {NoPlayer},
         CompleteTurn(p, timeout, survivors, progress, leader)
  PROVE  ResultJustified'
  <1> DEFINE verdict == TurnVerdict(p, timeout, survivors, leader)
  <1>1. result = NoResult /\ LimitsHold
    BY LiveMatch
  <1>2. /\ timeout_total \in [Player -> Nat] /\ timeout_consecutive \in [Player -> Nat]
        /\ player_turns_completed \in Nat /\ no_progress_turns \in Nat
    BY DEF RoomInv, TypeInv, TypeOK
  <1>3. /\ player_turns_completed' = player_turns_completed + 1
        /\ no_progress_turns' \in {0, no_progress_turns + 1}
        /\ timeout_total' = [timeout_total EXCEPT ![p] = IF timeout THEN @ + 1 ELSE @]
        /\ timeout_consecutive' =
             [timeout_consecutive EXCEPT ![p] = IF timeout THEN @ + 1 ELSE 0]
    BY DEF CompleteTurn
  <1>4. player_turns_completed' \in Nat /\ no_progress_turns' \in Nat
    BY <1>2, <1>3
  <1>5. Absent' = {}
    BY DEF RoomInv, RoomFacts, PauseMatchesAbsence, Absent, CompleteTurn, absentVars
  <1>6. ASSUME ~(timeout /\ StruckOut(p)) PROVE \A q \in Player : BelowStrikes(q)'
    <2>3. /\ timeout_consecutive'[p] < StrikeRunLimit
          /\ timeout_total'[p] < StrikeLimit
      <3>1. CASE timeout
        BY <1>2, <1>3, <1>6, <3>1, ConstantsAssumption DEF StruckOut
      <3>2. CASE ~timeout
        BY <1>1, <1>2, <1>3, <3>2, ConstantsAssumption DEF LimitsHold, BelowStrikes
      <3>3. QED
        BY <3>1, <3>2
    <2>4. \A q \in Player \ {p} : /\ timeout_consecutive'[q] = timeout_consecutive[q]
                                  /\ timeout_total'[q] = timeout_total[q]
      BY <1>2, <1>3
    <2>5. QED
      BY <1>1, <2>3, <2>4 DEF LimitsHold, BelowStrikes
  <1>7. CASE verdict = NoResult
    <2>1. ~Finished' /\ result' = NoResult
      BY <1>1, <1>7 DEF CompleteTurn, Finished
    <2>2. /\ player_turns_completed' < HardCap
          /\ no_progress_turns' < NoProgressLimit
          /\ ~(timeout /\ StruckOut(p))
      BY <1>4, <1>7, TurnVerdictMeaning
    <2>3. LimitsHold'
      BY <1>6, <2>2 DEF LimitsHold
    <2>4. QED
      BY <2>1, <2>3, StillLive
  <1>8. CASE verdict # NoResult
    <2>1. Finished' /\ result' = verdict
      BY <1>8 DEF CompleteTurn, Finish, Finished
    <2>2. /\ verdict.type \in {"WIN", "DRAW", "FORFEIT"}
          /\ verdict.reason \in {"defeat", "timeout", "hard_cap", "no_progress"}
          /\ verdict.type = "FORFEIT" <=> verdict.reason = "timeout"
          /\ verdict.type \in {"WIN", "FORFEIT"} <=> verdict.winner # NoPlayer
          /\ verdict.reason = "timeout" => StruckOut(p) /\ verdict.winner = Opponent(p)
          /\ verdict.reason = "hard_cap" => player_turns_completed' >= HardCap
          /\ verdict.reason = "no_progress" => /\ no_progress_turns' >= NoProgressLimit
                                               /\ player_turns_completed' < HardCap
          /\ verdict.reason \in {"hard_cap", "no_progress"} => ~(timeout /\ StruckOut(p))
      BY <1>4, <1>8, TurnVerdictMeaning
    <2>3. Opponent(Opponent(p)) = p
      BY ConstantsAssumption DEF Opponent, Player
    <2>4. verdict.reason = "timeout" =>
            \/ timeout_consecutive'[Loser'] >= StrikeRunLimit
            \/ timeout_total'[Loser'] >= StrikeLimit
      BY <2>1, <2>2, <2>3 DEF StruckOut, Loser
    <2>5. verdict.reason = "hard_cap" => player_turns_completed' = HardCap
      BY <1>1, <1>2, <1>3, <2>2, ConstantsAssumption DEF LimitsHold
    <2>6. verdict.reason = "no_progress" =>
            no_progress_turns' = NoProgressLimit /\ player_turns_completed' < HardCap
      <3>1. NoProgressLimit \in Nat /\ NoProgressLimit > 0
        BY ConstantsAssumption
      <3>2. no_progress_turns < NoProgressLimit
        BY <1>1 DEF LimitsHold
      <3>3. no_progress_turns' >= NoProgressLimit => no_progress_turns' = NoProgressLimit
        BY <1>2, <1>3, <3>1, <3>2
      <3>4. QED
        BY <2>2, <3>3
    <2>7. verdict.reason \in {"hard_cap", "no_progress"} => \A q \in Player : BelowStrikes(q)'
      BY <1>6, <2>2
    <2>8. QED
      BY <1>5, <1>8, <2>1, <2>2, <2>4, <2>5, <2>6, <2>7 DEF ResultJustified
  <1>9. QED
    BY <1>7, <1>8

(* Giving up, or being away too long, is an ending the ledger backs too.    *)
LEMMA SurrenderJustified ==
  ASSUME RoomInv, ResultJustified, NEW p \in Player, Surrender(p)
  PROVE  ResultJustified'
  <1>1. result' = Result("FORFEIT", Opponent(p), "surrender") /\ Finished'
    BY DEF Surrender, Finish, Finished
  <1>2. Opponent(p) # NoPlayer
    BY ConstantsAssumption DEF Opponent, Player
  <1>3. QED
    BY <1>1, <1>2 DEF ResultJustified, Result, NoResult

LEMMA ExpireJustified ==
  ASSUME RoomInv, ResultJustified, ExpireDisconnects
  PROVE  ResultJustified'
  <1>1. result = NoResult /\ LimitsHold /\ Lapsed # {} /\ ~Finished
    BY LiveMatch DEF ExpireDisconnects
  <1>2. Lapsed' = Lapsed /\ Absent' = Absent
    BY DEF ExpireDisconnects, Lapsed, Absent
  <1>3. Lapsed \subseteq Absent
    BY DEF RoomInv, RoomFacts, PauseMatchesAbsence, Lapsed, Absent
  <1>4. p1 # p2 /\ NoPlayer \notin Player
    BY ConstantsAssumption DEF Player
  <1>5. ASSUME NEW w \in Player \ Absent, NEW reason \in {"disconnect", "disconnect_budget"},
               Finish(Result("FORFEIT", w, reason))
        PROVE  ResultJustified'
    <2>1. result' = Result("FORFEIT", w, reason) /\ Finished'
      BY <1>5 DEF Finish, Finished
    <2>2. Opponent(w) \in Lapsed
      BY <1>1, <1>3, <1>4, <1>5 DEF Opponent, Player, Absent, Lapsed
    <2>3. QED
      BY <1>2, <1>4, <2>1, <2>2 DEF ResultJustified, Result, NoResult, Loser
  <1>6. CASE Lapsed = Player /\ Finish(Result("NO_CONTEST", NoPlayer, "disconnect"))
    <2>1. result' = Result("NO_CONTEST", NoPlayer, "disconnect") /\ Finished'
      BY <1>6 DEF Finish, Finished
    <2>2. QED
      BY <1>2, <1>6, <2>1 DEF ResultJustified, Result, NoResult
  <1>7. CASE UNCHANGED <<phase, phase_deadline, result, pauseVars>>
    <2>1. ~Finished' /\ result' = NoResult /\ LimitsHold'
      BY <1>1, <1>7 DEF ExpireDisconnects, turnVars, LimitsHold, BelowStrikes, Finished
    <2>2. QED
      BY <2>1, StillLive
  <1>8. QED
    BY <1>5, <1>6, <1>7 DEF ExpireDisconnects

LEMMA JustifiedStep == RoomInv /\ ResultJustified /\ [Next]_vars => ResultJustified'
  <1> SUFFICES ASSUME RoomInv, ResultJustified, [Next]_vars
               PROVE  ResultJustified'
    OBVIOUS
  <1>1. ASSUME ~Finished, ~Finished',
               UNCHANGED <<result, player_turns_completed, no_progress_turns,
                           timeout_total, timeout_consecutive>>
        PROVE  ResultJustified'
    BY <1>1, LiveMatch, StillLive DEF LimitsHold, BelowStrikes
  <1>2. CASE Tick
    BY <1>1, <1>2 DEF Tick, turnVars, Finished
  <1>3. ASSUME NEW p \in Player, SubmitPlan(p) \/ CancelQueue(p)
        PROVE  ResultJustified'
    BY <1>1, <1>3 DEF SubmitPlan, CancelQueue, MayAct, CommandsOpen, Finished
  <1>4. ASSUME NEW p \in Player, ConfirmQueue(p) \/ EndTurn(p)
        PROVE  ResultJustified'
    BY <1>4, CompleteTurnJustified DEF ConfirmQueue, EndTurn, MayAct, CommandsOpen
  <1>5. ASSUME NEW p \in Player, Surrender(p)
        PROVE  ResultJustified'
    BY <1>5, SurrenderJustified
  <1>6. ASSUME NEW p \in Player, DisconnectPlayer(p)
        PROVE  ResultJustified'
    BY <1>1, <1>6 DEF DisconnectPlayer, turnVars, Finished
  <1>7. ASSUME NEW p \in Player, ReconnectPlayer(p)
        PROVE  ResultJustified'
    <2>1. ~Finished /\ paused /\ paused_phase = phase
      BY <1>7 DEF ReconnectPlayer, MayReconnect, RoomInv, RoomFacts,
                  PauseMatchesAbsence, Absent
    <2>2. ~Finished'
      BY <1>7, <2>1 DEF ReconnectPlayer, Finished
    <2>3. QED
      BY <1>1, <1>7, <2>1, <2>2 DEF ReconnectPlayer, turnVars
  <1>8. CASE ExpirePhase
    <2>1. turn_player_id \in Player
      BY DEF RoomInv, TypeInv, TypeOK
    <2>2. QED
      BY <1>8, <2>1, CompleteTurnJustified DEF ExpirePhase
  <1>9. CASE ExpireDisconnects
    BY <1>9, ExpireJustified
  <1>10. CASE UNCHANGED vars
    BY <1>10 DEF vars, turnVars, pauseVars, absentVars, ResultJustified, BelowStrikes, Finished,
                 Loser, Lapsed, Absent
  <1>11. QED
    BY <1>2, <1>3, <1>4, <1>5, <1>6, <1>7, <1>8, <1>9, <1>10 DEF Next, AnswerFinished

LEMMA JustifiedInit == Init => ResultJustified
  <1> SUFFICES ASSUME Init
               PROVE  ResultJustified
    OBVIOUS
  <1>1. ~Finished /\ result = NoResult
    BY DEF Init, Finished
  <1>2. LimitsHold
    BY ConstantsAssumption DEF Init, LimitsHold, BelowStrikes
  <1>3. QED
    BY <1>1, <1>2 DEF ResultJustified, NoResult, Result, LimitsHold

(* Every ending is backed by the ledger: strikes behind a timeout forfeit,  *)
(* a lapsed absence behind a disconnect forfeit, both players lapsed behind *)
(* a no contest, and the very turn of the cap behind a decision on points.  *)
THEOREM EndingsJustified == Spec => []ResultJustified
  BY RoomInvInit, RoomInvStep, JustifiedInit, JustifiedStep, PTL DEF Spec

-----------------------------------------------------------------------------
(* Expired sessions cannot recover *)

FullInv == RoomInv /\ ResultJustified

LEMMA FullInvStep == FullInv /\ [Next]_vars => FullInv'
  BY RoomInvStep, JustifiedStep DEF FullInv

LEMMA FullInvInit == Init => FullInv
  BY RoomInvInit, JustifiedInit DEF FullInv

(* A player whose grace has lapsed is away, and a live match stands still   *)
(* for him.                                                                 *)
LEMMA LapsedMeansPaused ==
  ASSUME FullInv, NEW p \in Lapsed
  PROVE  /\ p \in Player
         /\ disconnected_at[p] # None
         /\ ~Finished => paused
  BY DEF FullInv, RoomInv, RoomFacts, PauseMatchesAbsence, Lapsed, Absent

NotRecovered(p) ==
  /\ disconnected_at'[p] # None
  /\ phase' # "FINISHED" => paused'
  /\ phase # "FINISHED" => result'.winner # p

LEMMA NotRecoveredStep ==
  ASSUME FullInv, [Next]_vars, NEW p \in Lapsed
  PROVE  NotRecovered(p)
  <1>1. /\ p \in Player
        /\ disconnected_at[p] # None
        /\ ~Finished => paused
        /\ ~Finished => result.winner # p
    BY LapsedMeansPaused, LiveMatch, ConstantsAssumption
       DEF FullInv, NoResult, Result, Player
  <1>2. CASE UNCHANGED vars
    BY <1>1, <1>2 DEF vars, pauseVars, absentVars, NotRecovered, Finished
  <1>3. CASE Tick
    BY <1>1, <1>3 DEF Tick, pauseVars, absentVars, NotRecovered, Finished
  <1>4. ASSUME NEW q \in Player,
               SubmitPlan(q) \/ CancelQueue(q) \/ ConfirmQueue(q) \/ EndTurn(q) \/ Surrender(q)
        PROVE  FALSE
    BY <1>1, <1>4 DEF SubmitPlan, CancelQueue, ConfirmQueue, EndTurn, Surrender,
                      MayAct, CommandsOpen
  <1>5. ASSUME NEW q \in Player, DisconnectPlayer(q)
        PROVE  NotRecovered(p)
    <2>1. q # p /\ paused
      BY <1>1, <1>5 DEF DisconnectPlayer
    <2>2. disconnected_at'[p] = disconnected_at[p]
      BY <1>5, <2>1 DEF DisconnectPlayer, FullInv, RoomInv, TypeInv, TypeOK
    <2>3. QED
      BY <1>1, <1>5, <2>1, <2>2 DEF DisconnectPlayer, pauseVars, NotRecovered, Finished
  <1>6. ASSUME NEW q \in Player, ReconnectPlayer(q)
        PROVE  NotRecovered(p)
    <2>1. q # p
      <3>1. clock \in Nat /\ disconnect_deadlines[p] \in TickOrNone
        BY <1>1 DEF FullInv, RoomInv, TypeInv, TypeOK
      <3>2. QED
        BY <1>6, <3>1 DEF ReconnectPlayer, MayReconnect, Lapsed, TickOrNone, None
    <2>2. ~AllBackWith(q)
      BY <1>1, <2>1 DEF AllBackWith, Absent
    <2>3. disconnected_at'[p] = disconnected_at[p]
      BY <1>6, <2>1 DEF ReconnectPlayer, FullInv, RoomInv, TypeInv, TypeOK
    <2>4. QED
      BY <1>1, <1>6, <2>2, <2>3 DEF ReconnectPlayer, MayReconnect, pauseVars,
                                    NotRecovered, Finished
  <1>7. CASE ExpirePhase
    BY <1>1, <1>7 DEF ExpirePhase
  <1>8. CASE ExpireDisconnects
    <2>1. ~Finished /\ UNCHANGED disconnected_at
      BY <1>8 DEF ExpireDisconnects
    <2>2. p \notin Player \ Absent
      BY <1>1 DEF Absent
    <2>3. ASSUME NEW w \in (Player \ Absent) \cup {NoPlayer}, NEW type, NEW reason,
                 Finish(Result(type, w, reason))
          PROVE  result'.winner # p /\ phase' = "FINISHED"
      BY <1>1, <2>2, <2>3, ConstantsAssumption DEF Finish, Result, Player
    <2>4. CASE UNCHANGED <<phase, phase_deadline, result, pauseVars>>
      BY <1>1, <2>1, <2>4 DEF pauseVars, NotRecovered, Finished
    <2>5. CASE \E w \in (Player \ Absent) \cup {NoPlayer},
                  type \in {"FORFEIT", "NO_CONTEST"},
                  reason \in {"disconnect", "disconnect_budget"} :
                 Finish(Result(type, w, reason))
      BY <1>1, <2>1, <2>3, <2>5 DEF NotRecovered
    <2>6. QED
      BY <1>8, <2>4, <2>5 DEF ExpireDisconnects
  <1>9. QED
    BY <1>2, <1>3, <1>4, <1>5, <1>6, <1>7, <1>8 DEF Next, AnswerFinished

(* "Expired sessions cannot recover": no step brings back a player whose    *)
(* grace has lapsed, resumes the match under him, or makes him the winner,  *)
(* however late the expiry pass runs.                                       *)
THEOREM NoRecovery == Spec => ExpiredCannotRecover
  <1>1. FullInv /\ [Next]_vars =>
          [\A p \in Lapsed : /\ disconnected_at'[p] # None
                             /\ phase' # "FINISHED" => paused'
                             /\ phase # "FINISHED" => result'.winner # p]_vars
    BY NotRecoveredStep DEF NotRecovered
  <1>2. QED
    BY <1>1, FullInvInit, FullInvStep, PTL DEF Spec, ExpiredCannotRecover

-----------------------------------------------------------------------------
(* The room implements the contract *)

(* The values the contract's status and verdict take here. *)
StatusBar  == IF Finished THEN "over" ELSE IF paused THEN "frozen" ELSE "running"
VerdictBar == [type |-> result.type, winner |-> result.winner]

(* The verdict a step ends the match with is one of the contract's. *)
LEMMA VerdictBarType ==
  ASSUME FullInv', Finished'
  PROVE  VerdictBar' \in Contract!Verdicts
  <1>1. /\ result'.type \in {"NONE", "WIN", "DRAW", "FORFEIT", "NO_CONTEST"}
        /\ result'.winner \in Player \cup {NoPlayer}
    BY DEF FullInv, RoomInv, TypeInv, TypeOK, Results
  <1>2. /\ result'.type \in {"WIN", "FORFEIT"} <=> result'.winner # NoPlayer
        /\ result'.type # "NONE"
    BY DEF FullInv, ResultJustified
  <1>3. QED
    BY <1>1, <1>2, ConstantsAssumption
       DEF VerdictBar, Contract!Verdicts, Contract!Players, Player

(* A completed turn is a move, and the cap is one the match cannot pass.    *)
LEMMA CompleteTurnImplements ==
  ASSUME FullInv, FullInv', ~Finished, ~paused,
         NEW timeout \in BOOLEAN, NEW survivors \in SUBSET Player,
         NEW progress \in BOOLEAN, NEW leader \in Player \cup {NoPlayer},
         CompleteTurn(turn_player_id, timeout, survivors, progress, leader)
  PROVE  Contract!CompleteMove
  <1> DEFINE r == TurnVerdict(turn_player_id, timeout, survivors, leader)
  <1>1. /\ StatusBar = "running"
        /\ player_turns_completed' = player_turns_completed + 1
        /\ turn_player_id' = Contract!OtherPlayer(turn_player_id)
    BY DEF StatusBar, CompleteTurn, Opponent, Contract!OtherPlayer
  <1>2. CASE r = NoResult
    <2>1. /\ phase' = "PLANNING" /\ ~Finished'
          /\ UNCHANGED <<result, paused>>
      BY <1>2 DEF CompleteTurn, pauseVars, Finished
    <2>2. player_turns_completed' < HardCap
      BY <2>1 DEF FullInv, ResultJustified
    <2>3. QED
      BY <1>1, <2>1, <2>2 DEF Contract!CompleteMove, StatusBar, VerdictBar
  <1>3. CASE r # NoResult
    <2>1. Finished' /\ result' = r
      BY <1>3 DEF CompleteTurn, Finish, Finished
    <2>2. VerdictBar' \in Contract!Verdicts
      BY <2>1, VerdictBarType
    <2>3. VerdictBar'.type # "NO_CONTEST"
      <3>1. /\ player_turns_completed' \in Nat /\ no_progress_turns' \in Nat
            /\ turn_player_id \in Player
        BY DEF FullInv, RoomInv, TypeInv, TypeOK
      <3>2. r.type \in {"WIN", "DRAW", "FORFEIT"}
        BY <1>3, <3>1, TurnVerdictMeaning
      <3>3. QED
        BY <2>1, <3>2 DEF VerdictBar
    <2>4. QED
      BY <1>1, <2>1, <2>2, <2>3 DEF Contract!CompleteMove, StatusBar, VerdictBar
  <1>4. QED
    BY <1>2, <1>3

(* Ending a match by a forfeit is a resignation while it is running and an  *)
(* abandonment while it is frozen; a no contest is an abandonment.          *)
LEMMA FinishImplements ==
  ASSUME FullInv', ~Finished, NEW r, Finish(r),
         UNCHANGED <<turn_player_id, player_turns_completed>>,
         \/ r.type = "FORFEIT"
         \/ r.type = "NO_CONTEST" /\ paused
  PROVE  Contract!Resign \/ Contract!Abandon
  <1>1. Finished' /\ result' = r
    BY DEF Finish, Finished
  <1>2. VerdictBar' \in Contract!Verdicts /\ StatusBar' = "over"
    BY <1>1, VerdictBarType DEF StatusBar
  <1>3. VerdictBar'.type = r.type
    BY <1>1 DEF VerdictBar
  <1>4. CASE paused
    BY <1>2, <1>3, <1>4 DEF Contract!Abandon, StatusBar, VerdictBar
  <1>5. CASE ~paused
    BY <1>2, <1>3, <1>5 DEF Contract!Resign, StatusBar, VerdictBar
  <1>6. QED
    BY <1>4, <1>5

(* Every step of the room is a step of the contract or leaves it as it is.  *)
LEMMA StepImplements ==
  ASSUME FullInv, FullInv', [Next]_vars
  PROVE  [Contract!Next]_<<StatusBar, turn_player_id, player_turns_completed, VerdictBar>>
  <1> DEFINE Stutter ==
        UNCHANGED <<StatusBar, turn_player_id, player_turns_completed, VerdictBar>>
  <1>1. ASSUME UNCHANGED <<paused, result, turn_player_id, player_turns_completed>>,
               Finished' <=> Finished
        PROVE  Stutter
    BY <1>1 DEF StatusBar, VerdictBar
  <1>2. CASE Tick
    BY <1>1, <1>2 DEF Tick, turnVars, pauseVars, Finished
  <1>3. ASSUME NEW p \in Player, SubmitPlan(p) \/ CancelQueue(p)
        PROVE  Stutter
    BY <1>1, <1>3 DEF SubmitPlan, CancelQueue, MayAct, CommandsOpen, pauseVars, Finished
  <1>4. ASSUME NEW p \in Player, ConfirmQueue(p) \/ EndTurn(p)
        PROVE  Contract!CompleteMove
    BY <1>4, CompleteTurnImplements DEF ConfirmQueue, EndTurn, MayAct, CommandsOpen
  <1>5. ASSUME NEW p \in Player, Surrender(p)
        PROVE  Contract!Resign \/ Contract!Abandon
    BY <1>5, FinishImplements DEF Surrender, CommandsOpen, turnVars, Result
  <1>6. ASSUME NEW p \in Player, DisconnectPlayer(p)
        PROVE  Contract!Freeze \/ Stutter
    <2>1. /\ ~Finished /\ ~Finished'
          /\ UNCHANGED <<result, turn_player_id, player_turns_completed>>
      BY <1>6 DEF DisconnectPlayer, turnVars, Finished
    <2>2. CASE paused
      BY <1>1, <1>6, <2>1, <2>2 DEF DisconnectPlayer, pauseVars
    <2>3. CASE ~paused
      <3>1. paused' = TRUE
        BY <1>6, <2>3 DEF DisconnectPlayer
      <3>2. QED
        BY <2>1, <2>3, <3>1 DEF Contract!Freeze, StatusBar, VerdictBar
    <2>4. QED
      BY <2>2, <2>3
  <1>7. ASSUME NEW p \in Player, ReconnectPlayer(p)
        PROVE  Contract!Thaw \/ Stutter
    <2>1. /\ ~Finished /\ paused /\ paused_phase = phase
          /\ UNCHANGED <<result, turn_player_id, player_turns_completed>>
      BY <1>7 DEF ReconnectPlayer, MayReconnect, turnVars, FullInv, RoomInv, RoomFacts,
                  PauseMatchesAbsence, Absent
    <2>2. phase' = phase
      BY <1>7, <2>1 DEF ReconnectPlayer
    <2>3. CASE AllBackWith(p)
      <3>1. paused' = FALSE
        BY <1>7, <2>3 DEF ReconnectPlayer
      <3>2. QED
        BY <2>1, <2>2, <3>1 DEF Contract!Thaw, StatusBar, VerdictBar, Finished
    <2>4. CASE ~AllBackWith(p)
      BY <1>1, <1>7, <2>1, <2>2, <2>4 DEF ReconnectPlayer, pauseVars, Finished
    <2>5. QED
      BY <2>3, <2>4
  <1>8. ASSUME ExpirePhase
        PROVE  Contract!CompleteMove
    BY <1>8, CompleteTurnImplements DEF ExpirePhase
  <1>9. ASSUME ExpireDisconnects
        PROVE  Contract!Resign \/ Contract!Abandon \/ Stutter
    <2>1. /\ ~Finished /\ paused
          /\ UNCHANGED <<turn_player_id, player_turns_completed>>
      BY <1>9, LapsedMeansPaused DEF ExpireDisconnects, turnVars
    <2>2. CASE UNCHANGED <<phase, phase_deadline, result, pauseVars>>
      BY <1>1, <2>1, <2>2 DEF pauseVars, Finished
    <2>3. CASE \E type \in {"FORFEIT", "NO_CONTEST"}, w \in Player \cup {NoPlayer},
                  reason \in {"disconnect", "disconnect_budget"} :
                 Finish(Result(type, w, reason))
      BY <2>1, <2>3, FinishImplements DEF Result
    <2>4. QED
      BY <1>9, <2>2, <2>3 DEF ExpireDisconnects
  <1>10. CASE UNCHANGED vars
    BY <1>1, <1>10 DEF vars, turnVars, pauseVars, Finished
  <1>11. QED
    BY <1>2, <1>3, <1>4, <1>5, <1>6, <1>7, <1>8, <1>9, <1>10
       DEF Next, AnswerFinished, Contract!Next

(* The room is an implementation of the contract: turns alternate, nothing  *)
(* is played while it is frozen, and it ends once, with one final verdict,  *)
(* no later than the hard cap.                                              *)
THEOREM RoomImplementsContract == Spec => ImplementsContract
  <1>1. Init => Contract!Init
    BY DEF Init, Contract!Init, Contract!NoVerdict, NoResult, Result, Finished
  <1>2. FullInv /\ FullInv' /\ [Next]_vars => [Contract!Next]_Contract!contractVars
    BY StepImplements DEF StatusBar, VerdictBar, Contract!contractVars
  <1>3. QED
    BY <1>1, <1>2, FullInvInit, FullInvStep, PTL DEF Spec, ImplementsContract, Contract!Spec

-----------------------------------------------------------------------------
(* The observer *)

(* What the observer's variables are, in terms of the room's. *)
AuditTyped ==
  /\ away \in [Player -> Nat]
  /\ played \in Nat
  /\ drops \in Nat

(* How a step can touch the room's time, but for Tick and the transport's. *)
TurnPasses ==
  /\ ~Finished /\ ~paused
  /\ UNCHANGED <<clock, absentVars>>
  /\ player_turns_completed' = player_turns_completed + 1
  /\ Finished' \/ (~paused' /\ phase_deadline' = clock + PlanningTime * Second)

PhaseGoesOn ==
  /\ UNCHANGED <<clock, phase_deadline, pauseVars, absentVars, player_turns_completed>>
  /\ Finished' <=> Finished

MatchStops ==
  /\ ~Finished /\ Finished'
  /\ UNCHANGED <<clock, player_turns_completed, disconnected_at, disconnect_deadlines>>

(* A completed turn hands the next player a whole planning time, or ends    *)
(* the match.                                                               *)
LEMMA CompleteTurnPasses ==
  ASSUME ~Finished, ~paused,
         NEW p \in Player, NEW timeout \in BOOLEAN, NEW survivors \in SUBSET Player,
         NEW progress \in BOOLEAN, NEW leader \in Player \cup {NoPlayer},
         CompleteTurn(p, timeout, survivors, progress, leader)
  PROVE  TurnPasses
  <1> DEFINE verdict == TurnVerdict(p, timeout, survivors, leader)
  <1>1. UNCHANGED <<clock, absentVars>> /\ player_turns_completed' = player_turns_completed + 1
    BY DEF CompleteTurn
  <1>2. CASE verdict # NoResult
    <2>1. Finish(verdict)
      BY <1>2 DEF CompleteTurn
    <2>2. Finished'
      BY <2>1 DEF Finish, Finished
    <2>3. QED
      BY <1>1, <2>2 DEF TurnPasses
  <1>3. CASE verdict = NoResult
    <2>1. phase_deadline' = clock + PlanningTime * Second /\ UNCHANGED paused
      BY <1>3 DEF CompleteTurn, pauseVars
    <2>2. QED
      BY <1>1, <2>1 DEF TurnPasses
  <1>4. QED
    BY <1>2, <1>3

(* Every step of the room, as the observer sees it. *)
LEMMA StepShape ==
  ASSUME RoomInv, [Next]_vars
  PROVE  \/ Tick
         \/ TurnPasses
         \/ PhaseGoesOn
         \/ MatchStops /\ UNCHANGED disconnect_seconds_used
         \/ ExpireDisconnects /\ MatchStops
         \/ ExpireDisconnects /\ UNCHANGED <<clock, phase, phase_deadline, pauseVars,
                disconnected_at, disconnect_deadlines, player_turns_completed>>
         \/ \E p \in Player : DisconnectPlayer(p) \/ ReconnectPlayer(p)
  <1>1. turn_player_id \in Player /\ TRUE \in BOOLEAN /\ FALSE \in BOOLEAN
    BY DEF RoomInv, TypeInv, TypeOK
  <1>2. ASSUME NEW p \in Player, SubmitPlan(p) \/ CancelQueue(p)
        PROVE  PhaseGoesOn
    BY <1>2 DEF SubmitPlan, CancelQueue, MayAct, CommandsOpen, Finished, PhaseGoesOn
  <1>3. ASSUME NEW p \in Player, ConfirmQueue(p) \/ EndTurn(p)
        PROVE  TurnPasses
    BY <1>1, <1>3, CompleteTurnPasses DEF ConfirmQueue, EndTurn, MayAct, CommandsOpen
  <1>4. ASSUME NEW p \in Player, Surrender(p)
        PROVE  MatchStops /\ UNCHANGED disconnect_seconds_used
    BY <1>4 DEF Surrender, CommandsOpen, Finish, Finished, MatchStops, turnVars, absentVars
  <1>5. CASE ExpirePhase
    BY <1>1, <1>5, CompleteTurnPasses DEF ExpirePhase
  <1>6. CASE ExpireDisconnects
    <2>1. ~Finished /\ UNCHANGED <<clock, disconnected_at, disconnect_deadlines, turnVars>>
      BY <1>6 DEF ExpireDisconnects
    <2>2. ASSUME NEW r, Finish(r) PROVE MatchStops
      BY <2>1, <2>2 DEF Finish, Finished, MatchStops, turnVars
    <2>3. CASE UNCHANGED <<phase, phase_deadline, result, pauseVars>>
      BY <1>6, <2>1, <2>3 DEF turnVars
    <2>4. CASE \E r : Finish(r)
      BY <1>6, <2>2, <2>4
    <2>5. QED
      BY <1>6, <2>3, <2>4 DEF ExpireDisconnects
  <1>7. CASE UNCHANGED vars
    BY <1>7 DEF vars, turnVars, Finished, PhaseGoesOn
  <1>8. QED
    BY <1>2, <1>3, <1>4, <1>5, <1>6, <1>7 DEF Next, AnswerFinished

LEMMA AuditTypedInit == AuditInit => AuditTyped
  BY DEF AuditInit, AuditTyped

(* Only Tick moves the clock. *)
LEMMA ClockSteps ==
  ASSUME RoomInv, [Next]_vars
  PROVE  clock \in Nat /\ (clock' = clock \/ (Tick /\ clock' = clock + 1))
  <1>1. clock \in Nat
    BY DEF RoomInv, TypeInv, TypeOK
  <1>2. ASSUME NEW p \in Player, DisconnectPlayer(p) \/ ReconnectPlayer(p)
        PROVE  clock' = clock
    BY <1>2 DEF DisconnectPlayer, ReconnectPlayer
  <1>3. QED
    BY <1>1, <1>2, StepShape DEF Tick, TurnPasses, PhaseGoesOn, MatchStops

LEMMA AuditTypedStep ==
  ASSUME RoomInv, AuditTyped, [AuditNext]_auditVars
  PROVE  AuditTyped'
  <1>1. CASE AuditNext
    <2>1. clock' - clock \in Nat
      BY <1>1, ClockSteps DEF AuditNext
    <2>2. /\ away' = [p \in Player |-> away[p] + (IF p \in Absent THEN clock' - clock ELSE 0)]
          /\ played' \in {0, played, played + (clock' - clock)}
          /\ drops' \in {drops, drops + 1}
      BY <1>1 DEF AuditNext, Observe
    <2>3. QED
      BY <2>1, <2>2 DEF AuditTyped
  <1>2. CASE UNCHANGED auditVars
    BY <1>2 DEF auditVars, AuditTyped
  <1>3. QED
    BY <1>1, <1>2

-----------------------------------------------------------------------------
(* The length of a turn *)

(* What a drop can add to a turn: the least resume time, and rounding.      *)
Drift == Second * MinResume + Second - 1

Allowed(n) == TurnAllowance + n * Drift

(* A live turn has had, with what the room still grants it, no less than    *)
(* the allowance and no more than the drops explain; a pause has room for   *)
(* the least resume time; and no deadline is overrun.                       *)
TurnInv ==
  /\ played <= Allowed(drops)
  /\ ~Finished /\ ~paused =>
       /\ clock <= phase_deadline
       /\ played + (phase_deadline - clock) >= TurnAllowance
       /\ played + (phase_deadline - clock) <= Allowed(drops)
  /\ ~Finished /\ paused =>
       /\ played + Second * paused_seconds_remaining >= TurnAllowance
       /\ played + Second * paused_seconds_remaining + Second * MinResume <= Allowed(drops)

LEMMA AllowedGrows ==
  /\ Drift \in Nat /\ TurnAllowance \in Nat
  /\ Second * MinResume \in Nat
  /\ \A n \in Nat : /\ Allowed(n) \in Nat
                    /\ Allowed(n + 1) = Allowed(n) + Drift
                    /\ Allowed(n) >= TurnAllowance
  <1>1. Second \in Nat /\ Second > 0 /\ MinResume \in Nat /\ PlanningTime \in Nat
    BY ConstantsAssumption
  <1>2. Second * MinResume \in Nat /\ PlanningTime * Second \in Nat
    BY <1>1
  <1>3. Drift \in Nat /\ TurnAllowance \in Nat
    BY <1>1, <1>2 DEF Drift, TurnAllowance
  <1>4. \A d, n \in Nat : n * d \in Nat /\ (n + 1) * d = n * d + d
    OBVIOUS
  <1>5. \A n \in Nat : n * Drift \in Nat /\ (n + 1) * Drift = n * Drift + Drift
    BY <1>3, <1>4
  <1>6. QED
    BY <1>2, <1>3, <1>5 DEF Allowed

(* Rounding up loses nothing and gains less than a second. *)
LEMMA RoundingGains ==
  ASSUME NEW t \in Nat
  PROVE  /\ SecondsUp(t) \in Nat
         /\ Second * SecondsUp(t) >= t
         /\ Second * SecondsUp(t) <= t + (Second - 1)
  <1>1. Second \in Nat /\ Second > 0
    BY ConstantsAssumption
  <1>2. \A n \in Nat, s \in Nat : s > 0 =>
          /\ (n + s - 1) \div s \in Nat
          /\ s * ((n + s - 1) \div s) >= n
          /\ s * ((n + s - 1) \div s) <= n + (s - 1)
    BY Z3
  <1>3. QED
    BY <1>1, <1>2 DEF SecondsUp

(* Until a deadline is overrun, a pause saves what is left of the phase,    *)
(* rounded up.                                                              *)
LEMMA PauseSaves ==
  ASSUME RoomInv, ~Finished, ~paused, clock <= phase_deadline
  PROVE  /\ PhaseSecondsRemaining \in Nat
         /\ Second * PhaseSecondsRemaining >= phase_deadline - clock
         /\ Second * PhaseSecondsRemaining <= phase_deadline - clock + (Second - 1)
  <1>1. phase_deadline \in Nat /\ clock \in Nat /\ phase_deadline # None
    BY DEF RoomInv, RoomFacts, LiveRoomHasWakeup, TypeInv, TypeOK, TickOrNone
  <1>2. phase_deadline - clock \in Nat
    BY <1>1
  <1>3. SecondsUp(phase_deadline - clock) \in Nat
    BY <1>2, RoundingGains
  <1>4. PhaseSecondsRemaining = SecondsUp(phase_deadline - clock)
    BY <1>1, <1>3 DEF PhaseSecondsRemaining, Greater
  <1>5. QED
    BY <1>2, <1>4, RoundingGains

LEMMA TurnInvInit == AuditInit => TurnInv
  <1> SUFFICES ASSUME AuditInit PROVE TurnInv
    OBVIOUS
  <1>1. /\ clock = 0 /\ played = 0 /\ drops = 0 /\ paused = FALSE
        /\ phase_deadline = TurnAllowance
    BY DEF AuditInit, Init, TurnAllowance
  <1>2. 0 \in Nat
    OBVIOUS
  <1>3. TurnAllowance \in Nat /\ Allowed(0) \in Nat /\ Allowed(0) >= TurnAllowance
    BY <1>2, AllowedGrows
  <1>4. QED
    BY <1>1, <1>3 DEF TurnInv

(* The numbers the invariant is about. *)
LEMMA TurnNumbers ==
  ASSUME RoomInv, AuditTyped
  PROVE  /\ clock \in Nat /\ played \in Nat /\ drops \in Nat
         /\ Second \in Nat /\ Second > 0 /\ MinResume \in Nat
         /\ Second * MinResume \in Nat
         /\ Allowed(drops) \in Nat
         /\ ~Finished /\ ~paused => phase_deadline \in Nat /\ phase_deadline # None
         /\ ~Finished /\ paused => /\ paused_seconds_remaining \in Nat
                                   /\ Second * paused_seconds_remaining \in Nat
  <1>1. Second \in Nat /\ Second > 0 /\ MinResume \in Nat
    BY ConstantsAssumption
  <1>2. \A n \in Nat : Second * n \in Nat
    BY <1>1
  <1>3. ~Finished /\ paused => paused_seconds_remaining \in Nat
    BY DEF RoomInv, RoomFacts, PauseMatchesAbsence, TypeInv, TypeOK, TickOrNone
  <1>4. ~Finished /\ ~paused => phase_deadline \in Nat /\ phase_deadline # None
    BY DEF RoomInv, RoomFacts, LiveRoomHasWakeup, TypeInv, TypeOK, TickOrNone
  <1>5. clock \in Nat
    BY DEF RoomInv, TypeInv, TypeOK
  <1>6. QED
    BY <1>1, <1>2, <1>3, <1>4, <1>5, AllowedGrows DEF AuditTyped

(* A tick of a match that is played takes from what is left what it adds to *)
(* what was had; one of a paused match does neither.                        *)
LEMMA TickTurn ==
  ASSUME RoomInv, AuditTyped, TurnInv, Tick, Observe
  PROVE  TurnInv'
  <1>1. /\ ~Finished /\ ~Finished' /\ clock' = clock + 1
        /\ UNCHANGED <<phase_deadline, paused, paused_seconds_remaining,
                       player_turns_completed, disconnected_at>>
    BY DEF Tick, Finished, turnVars, pauseVars, absentVars
  <1>2. ~Due
    BY <1>1, TurnNumbers DEF Observe
  <1>3. drops' = drops
    BY <1>1 DEF Observe, Dropped
  <1>4. CASE paused
    <2>1. played' = played
      BY <1>1, <1>4 DEF Observe
    <2>2. QED
      BY <1>1, <1>3, <1>4, <2>1 DEF TurnInv, Allowed
  <1>5. CASE ~paused
    <2>1. phase_deadline \in Nat /\ clock \in Nat /\ played \in Nat
      BY <1>1, <1>5, TurnNumbers
    <2>2. clock < phase_deadline
      BY <1>1, <1>2, <1>5, <2>1, TurnNumbers DEF Due, PhaseExpired
    <2>3. played' = played + 1
      BY <1>1, <1>5, <2>1 DEF Observe
    <2>4. Allowed(drops)' = Allowed(drops) /\ Allowed(drops) \in Nat
      BY <1>3, TurnNumbers DEF Allowed
    <2>5. /\ clock <= phase_deadline
          /\ played + (phase_deadline - clock) >= TurnAllowance
          /\ played + (phase_deadline - clock) <= Allowed(drops)
          /\ TurnAllowance \in Nat
      BY <1>1, <1>5, AllowedGrows DEF TurnInv
    <2>6. /\ played' <= Allowed(drops)'
          /\ clock' <= phase_deadline'
          /\ played' + (phase_deadline' - clock') >= TurnAllowance
          /\ played' + (phase_deadline' - clock') <= Allowed(drops)'
      BY <1>1, <2>1, <2>2, <2>3, <2>4, <2>5
    <2>7. QED
      BY <1>1, <1>5, <2>6 DEF TurnInv
  <1>6. QED
    BY <1>4, <1>5 DEF RoomInv, TypeInv, TypeOK

(* The next player gets a turn of his own. *)
LEMMA PassTurn ==
  ASSUME RoomInv, AuditTyped, TurnPasses, Observe
  PROVE  TurnInv'
  <1>1. /\ clock' = clock /\ player_turns_completed' = player_turns_completed + 1
        /\ player_turns_completed \in Nat /\ UNCHANGED disconnected_at
    BY DEF TurnPasses, absentVars, RoomInv, TypeInv, TypeOK
  <1>2. played' = 0 /\ drops' = drops
    BY <1>1 DEF Observe, Dropped
  <1>3. Allowed(drops)' \in Nat /\ Allowed(drops)' >= TurnAllowance /\ TurnAllowance \in Nat
    BY <1>2, AllowedGrows DEF AuditTyped
  <1>4. clock \in Nat
    BY TurnNumbers
  <1>5. CASE Finished'
    BY <1>2, <1>3, <1>5 DEF TurnInv
  <1>6. CASE ~paused' /\ phase_deadline' = clock + TurnAllowance
    BY <1>1, <1>2, <1>3, <1>4, <1>6 DEF TurnInv
  <1>7. QED
    BY <1>5, <1>6 DEF TurnPasses, TurnAllowance

(* A first drop saves what is left and makes room for the least resume time. *)
LEMMA DropTurn ==
  ASSUME RoomInv, AuditTyped, TurnInv, NEW p \in Player, DisconnectPlayer(p), Observe
  PROVE  TurnInv'
  <1>1. /\ ~Finished /\ ~Finished' /\ clock' = clock
        /\ player_turns_completed' = player_turns_completed
        /\ disconnected_at[p] = None /\ disconnected_at'[p] # None
        /\ clock \in Nat
    BY TurnNumbers DEF DisconnectPlayer, turnVars, Finished, RoomInv, TypeInv, TypeOK, None
  <1>2. played \in Nat
    BY DEF AuditTyped
  <1>3. played' = played /\ drops' = drops + 1
    BY <1>1, <1>2 DEF Observe, Dropped
  <1>4. /\ Allowed(drops)' = Allowed(drops) + Drift
        /\ Allowed(drops) \in Nat /\ Drift \in Nat
        /\ Drift = Second * MinResume + Second - 1
    BY <1>3, AllowedGrows DEF AuditTyped, Drift
  <1>5. CASE paused
    <2>1. paused' /\ UNCHANGED paused_seconds_remaining
      BY <1>5 DEF DisconnectPlayer, pauseVars
    <2>2. /\ played + Second * paused_seconds_remaining >= TurnAllowance
          /\ played + Second * paused_seconds_remaining + Second * MinResume <= Allowed(drops)
          /\ played <= Allowed(drops)
      BY <1>1, <1>5 DEF TurnInv
    <2>3. /\ played' <= Allowed(drops)'
          /\ played' + Second * paused_seconds_remaining' >= TurnAllowance
          /\ played' + Second * paused_seconds_remaining' + Second * MinResume <= Allowed(drops)'
      <3>1. Second * paused_seconds_remaining \in Nat /\ Second * MinResume \in Nat
        BY <1>1, <1>5, TurnNumbers
      <3>2. Second * paused_seconds_remaining' = Second * paused_seconds_remaining
        BY <2>1
      <3>3. QED
        BY <1>2, <1>3, <1>4, <2>2, <3>1, <3>2
    <2>4. QED
      BY <1>1, <2>1, <2>3 DEF TurnInv
  <1>6. CASE ~paused
    <2>1. paused' /\ paused_seconds_remaining' = PhaseSecondsRemaining
      BY <1>6 DEF DisconnectPlayer
    <2>2. /\ clock <= phase_deadline
          /\ played + (phase_deadline - clock) >= TurnAllowance
          /\ played + (phase_deadline - clock) <= Allowed(drops)
          /\ played <= Allowed(drops)
      BY <1>1, <1>6 DEF TurnInv
    <2>3. /\ PhaseSecondsRemaining \in Nat
          /\ Second * PhaseSecondsRemaining >= phase_deadline - clock
          /\ Second * PhaseSecondsRemaining <= phase_deadline - clock + (Second - 1)
      BY <1>1, <1>6, <2>2, PauseSaves
    <2>4. /\ phase_deadline \in Nat /\ Second \in Nat /\ Second * MinResume \in Nat
          /\ TurnAllowance \in Nat
      BY <1>1, <1>6, TurnNumbers, AllowedGrows
    <2> DEFINE saved == Second * PhaseSecondsRemaining
               least == Second * MinResume
    <2>5. saved \in Nat
      BY <2>3, <2>4
    <2> HIDE DEF saved, least
    <2>6. /\ saved >= phase_deadline - clock
          /\ saved <= phase_deadline - clock + (Second - 1)
          /\ least \in Nat /\ Drift = least + Second - 1
      BY <1>4, <2>3, <2>4 DEF saved, least
    <2>7. /\ played' <= Allowed(drops)'
          /\ played' + saved >= TurnAllowance
          /\ played' + saved + least <= Allowed(drops)'
      BY <1>1, <1>2, <1>3, <1>4, <2>2, <2>4, <2>5, <2>6
    <2>8. QED
      BY <1>1, <2>1, <2>7 DEF TurnInv, saved, least
  <1>7. QED
    BY <1>5, <1>6 DEF RoomInv, TypeInv, TypeOK

(* The last one back gets what was saved, or the least resume time. *)
LEMMA ReturnTurn ==
  ASSUME RoomInv, AuditTyped, TurnInv, NEW p \in Player, ReconnectPlayer(p), Observe
  PROVE  TurnInv'
  <1>1. /\ ~Finished /\ clock' = clock
        /\ player_turns_completed' = player_turns_completed
        /\ disconnected_at[p] # None
        /\ disconnected_at' = [disconnected_at EXCEPT ![p] = None]
    BY DEF ReconnectPlayer, MayReconnect, turnVars
  <1>2. paused
    BY <1>1 DEF RoomInv, RoomFacts, PauseMatchesAbsence, Absent
  <1>3. played' = played
    BY <1>1, <1>2 DEF Observe
  <1>4. drops' = drops
    <2>1. ~Dropped
      BY <1>1 DEF Dropped, RoomInv, TypeInv, TypeOK
    <2>2. QED
      BY <2>1 DEF Observe
  <1>5. Allowed(drops)' = Allowed(drops)
    BY <1>4 DEF Allowed
  <1>6. /\ played + Second * paused_seconds_remaining >= TurnAllowance
        /\ played + Second * paused_seconds_remaining + Second * MinResume <= Allowed(drops)
        /\ played <= Allowed(drops)
    BY <1>1, <1>2 DEF TurnInv
  <1>7. CASE AllBackWith(p)
    <2>1. /\ ~paused'
          /\ phase_deadline' = clock + Second * Greater(MinResume, paused_seconds_remaining)
      BY <1>7 DEF ReconnectPlayer, ResumedDeadline
    <2>2. /\ paused_seconds_remaining \in Nat /\ MinResume \in Nat /\ Second \in Nat
          /\ Second * paused_seconds_remaining \in Nat /\ Second * MinResume \in Nat
          /\ clock \in Nat /\ played \in Nat /\ Allowed(drops) \in Nat
      BY <1>1, <1>2, TurnNumbers
    <2> DEFINE granted == Second * Greater(MinResume, paused_seconds_remaining)
    <2>3. \/ granted = Second * paused_seconds_remaining
          \/ granted = Second * MinResume
      BY DEF Greater
    <2>4. Greater(MinResume, paused_seconds_remaining) \in Nat
      BY <2>2 DEF Greater
    <2>5. paused_seconds_remaining <= Greater(MinResume, paused_seconds_remaining)
      BY <2>2 DEF Greater
    <2>6. granted \in Nat /\ granted >= Second * paused_seconds_remaining
      BY <2>2, <2>4, <2>5, TicksMonotonic
    <2> HIDE DEF granted
    <2>7. /\ clock' <= phase_deadline'
          /\ played' + (phase_deadline' - clock') >= TurnAllowance
          /\ played' + (phase_deadline' - clock') <= Allowed(drops)'
          /\ played' <= Allowed(drops)'
      <3>1. phase_deadline' - clock' = granted /\ clock' <= phase_deadline'
        BY <1>1, <2>1, <2>2, <2>6 DEF granted
      <3>2. played + granted >= TurnAllowance
        BY <1>6, <2>2, <2>6, AllowedGrows
      <3>3. played + granted <= Allowed(drops)
        BY <1>6, <2>2, <2>3, <2>6
      <3>4. QED
        BY <1>3, <1>5, <1>6, <3>1, <3>2, <3>3
    <2>8. QED
      BY <2>1, <2>7 DEF TurnInv
  <1>8. CASE ~AllBackWith(p)
    <2>1. UNCHANGED <<phase, paused, paused_seconds_remaining>>
      BY <1>8 DEF ReconnectPlayer, pauseVars
    <2>2. QED
      BY <1>1, <1>2, <1>3, <1>5, <1>6, <2>1 DEF TurnInv, Finished
  <1>9. QED
    BY <1>7, <1>8

LEMMA TurnInvStep ==
  ASSUME RoomInv, AuditTyped, TurnInv, [AuditNext]_auditVars
  PROVE  TurnInv'
  <1>1. CASE UNCHANGED auditVars
    BY <1>1 DEF auditVars, vars, pauseVars, turnVars, TurnInv, Allowed, Finished
  <1>2. CASE AuditNext
    <2>1. [Next]_vars /\ Observe
      BY <1>2 DEF AuditNext
    <2>2. played \in Nat /\ clock \in Nat /\ Allowed(drops) \in Nat
      BY TurnNumbers
    <2>3. CASE Tick
      BY <2>1, <2>3, TickTurn
    <2>4. CASE TurnPasses
      BY <2>1, <2>4, PassTurn
    <2>5. ASSUME UNCHANGED <<clock, player_turns_completed, disconnected_at>>
          PROVE  played' = played /\ drops' = drops /\ Allowed(drops)' = Allowed(drops)
      <3>1. played' = played /\ drops' = drops
        BY <2>1, <2>2, <2>5 DEF Observe, Dropped
      <3>2. QED
        BY <3>1 DEF Allowed
    <2>6. CASE PhaseGoesOn
      BY <2>5, <2>6 DEF PhaseGoesOn, absentVars, pauseVars, TurnInv
    <2>7. CASE MatchStops
      BY <2>5, <2>7 DEF MatchStops, TurnInv
    <2>8. CASE UNCHANGED <<clock, phase, phase_deadline, pauseVars, disconnected_at,
                           disconnect_deadlines, player_turns_completed>>
      BY <2>5, <2>8 DEF pauseVars, TurnInv, Finished
    <2>9. ASSUME NEW p \in Player, DisconnectPlayer(p) \/ ReconnectPlayer(p)
          PROVE  TurnInv'
      BY <2>1, <2>9, DropTurn, ReturnTurn
    <2>10. QED
      BY <2>1, <2>3, <2>4, <2>6, <2>7, <2>8, <2>9, StepShape
  <1>3. QED
    BY <1>1, <1>2

(* A turn is never cut short: what the turn player has had plus what the    *)
(* room still grants is the whole planning time, over any sequence of       *)
(* pauses and resumes (manager.py disconnect_player, reconnect_player).     *)
THEOREM TurnNeverCutShort == AuditSpec => []NoEarlyTimeout
  <1>1. RoomInv /\ TurnInv => NoEarlyTimeout
    <2> SUFFICES ASSUME RoomInv, TurnInv, ~Finished
                 PROVE  IF paused THEN played + paused_seconds_remaining * Second >= TurnAllowance
                        ELSE played + (phase_deadline - clock) >= TurnAllowance
      BY DEF NoEarlyTimeout
    <2>1. CASE paused
      <3>1. paused_seconds_remaining \in Nat
        BY <2>1 DEF RoomInv, RoomFacts, PauseMatchesAbsence, TypeInv, TypeOK, TickOrNone
      <3>2. paused_seconds_remaining * Second = Second * paused_seconds_remaining
        BY <3>1, ConstantsAssumption
      <3>3. QED
        BY <2>1, <3>2 DEF TurnInv
    <2>2. CASE ~paused
      BY <2>2 DEF TurnInv
    <2>3. QED
      BY <2>1, <2>2
  <1>2. RoomInv /\ AuditTyped /\ TurnInv /\ [AuditNext]_auditVars =>
          RoomInv' /\ AuditTyped' /\ TurnInv'
    BY RoomInvStep, AuditTypedStep, TurnInvStep DEF AuditNext, auditVars
  <1>3. AuditInit => RoomInv /\ AuditTyped /\ TurnInv
    BY RoomInvInit, AuditTypedInit, TurnInvInit DEF AuditInit
  <1>4. QED
    BY <1>1, <1>2, <1>3, PTL DEF AuditSpec

(* Nor is it stretched: where the scheduler is punctual, a drop adds at     *)
(* most the least resume time and what rounding up gains.                   *)
THEOREM TurnAlwaysBounded == AuditSpec => []TurnIsBounded
  <1>1. TurnInv => TurnIsBounded
    BY DEF TurnInv, TurnIsBounded, Allowed, Drift
  <1>2. RoomInv /\ AuditTyped /\ TurnInv /\ [AuditNext]_auditVars =>
          RoomInv' /\ AuditTyped' /\ TurnInv'
    BY RoomInvStep, AuditTypedStep, TurnInvStep DEF AuditNext, auditVars
  <1>3. AuditInit => RoomInv /\ AuditTyped /\ TurnInv
    BY RoomInvInit, AuditTypedInit, TurnInvInit DEF AuditInit
  <1>4. QED
    BY <1>1, <1>2, <1>3, PTL DEF AuditSpec

-----------------------------------------------------------------------------
(* The length of an absence *)

LeastAbsence == Second * Lesser(GracePeriod, DisconnectBudget)

(* A player who is there has been away for all he was charged; one who is   *)
(* away within his grace, for that and for the time since his drop; and one *)
(* whose grace has lapsed, for the whole grace or the whole budget.         *)
AwayCounted(p) ==
  /\ p \notin Absent => away[p] >= Second * disconnect_seconds_used[p]
  /\ p \in Absent /\ p \notin Lapsed =>
       /\ disconnect_deadlines[p] = disconnected_at[p] + Second * GraceFor(p)
       /\ away[p] >= Second * disconnect_seconds_used[p] + (clock - disconnected_at[p])
  /\ p \in Lapsed => away[p] >= LeastAbsence

AwayInv == \A p \in Player : AwayCounted(p)

(* Once the grace of a drop is over, the grace or the budget is used up.    *)
LEMMA GraceCovers ==
  ASSUME RoomInv, NEW p \in Player, NEW n \in Int,
         n >= Second * disconnect_seconds_used[p] + Second * GraceFor(p)
  PROVE  n >= LeastAbsence
  <1> DEFINE used == disconnect_seconds_used[p]
  <1>1. /\ used \in Nat /\ used <= DisconnectBudget /\ DisconnectBudget \in Nat
        /\ GracePeriod \in Nat /\ Second \in Nat /\ Second > 0
    BY ConstantsAssumption DEF RoomInv, TypeInv, TypeOK
  <1>2. /\ GraceFor(p) \in Nat /\ Lesser(GracePeriod, DisconnectBudget) \in Nat
        /\ used + GraceFor(p) >= Lesser(GracePeriod, DisconnectBudget)
    BY <1>1 DEF GraceFor, Lesser, Greater
  <1>3. Second * (used + GraceFor(p)) >= LeastAbsence
    BY <1>1, <1>2, TicksMonotonic DEF LeastAbsence
  <1>4. /\ Second * (used + GraceFor(p)) = Second * used + Second * GraceFor(p)
        /\ Second * (used + GraceFor(p)) \in Nat /\ LeastAbsence \in Nat
    <2>1. \A a, b, c \in Nat : a * (b + c) = a * b + a * c /\ a * b \in Nat
      OBVIOUS
    <2>2. QED
      BY <1>1, <1>2, <2>1 DEF LeastAbsence
  <1>5. QED
    BY <1>3, <1>4

LEMMA AwayInvInit == AuditInit => AwayInv
  <1>1. ASSUME AuditInit, NEW p \in Player
        PROVE  /\ p \notin Absent /\ p \notin Lapsed
               /\ away[p] = 0 /\ disconnect_seconds_used[p] = 0
    BY <1>1 DEF AuditInit, Init, Absent, Lapsed
  <1>2. Second * 0 = 0
    BY ConstantsAssumption
  <1>3. QED
    BY <1>1, <1>2 DEF AwayInv, AwayCounted

(* Time away is counted while it passes. *)
LEMMA TickAway ==
  ASSUME RoomInv, AuditTyped, AwayInv, Tick, Observe
  PROVE  AwayInv'
  <1>1. /\ clock \in Nat /\ clock' = clock + 1 /\ away \in [Player -> Nat]
        /\ away' = [p \in Player |-> away[p] + (IF p \in Absent THEN 1 ELSE 0)]
    <2>1. clock \in Nat /\ clock' = clock + 1
      BY DEF Tick, RoomInv, TypeInv, TypeOK
    <2>2. clock' - clock = 1
      BY <2>1
    <2>3. QED
      BY <2>1, <2>2 DEF Observe, AuditTyped
  <1>2. UNCHANGED <<disconnected_at, disconnect_deadlines, disconnect_seconds_used>>
    BY DEF Tick, absentVars
  <1>3. ASSUME NEW p \in Player
        PROVE  AwayCounted(p)'
    <2>1. /\ Absent' = Absent /\ GraceFor(p)' = GraceFor(p)
          /\ p \in Lapsed => p \in Lapsed'
      BY <1>1, <1>2 DEF Absent, GraceFor, Lapsed, RoomInv, TypeInv, TypeOK, TickOrNone, None
    <2>2. p \in Lapsed' => p \in Absent
      BY <1>2 DEF Lapsed, Absent, RoomInv, RoomFacts, PauseMatchesAbsence
    <2>3. /\ disconnect_seconds_used[p] \in Nat /\ Second \in Nat
          /\ Second * disconnect_seconds_used[p] \in Nat
          /\ disconnected_at[p] \in Int /\ away[p] \in Nat
      <3>1. \A a, b \in Nat : a * b \in Nat
        OBVIOUS
      <3>2. QED
        BY <1>1, <3>1, ConstantsAssumption DEF RoomInv, TypeInv, TypeOK, TickOrNone, None
    <2>4. CASE p \notin Absent
      <3>1. away'[p] = away[p]
        BY <1>1, <2>4
      <3>2. QED
        BY <1>2, <2>1, <2>2, <2>4, <3>1 DEF AwayInv, AwayCounted
    <2>5. CASE p \in Absent /\ p \in Lapsed
      <3>1. away'[p] = away[p] + 1 /\ away[p] >= LeastAbsence
        BY <1>1, <2>5 DEF AwayInv, AwayCounted
      <3>2. LeastAbsence \in Int
        <4>1. Lesser(GracePeriod, DisconnectBudget) \in Nat
          BY ConstantsAssumption DEF Lesser
        <4>2. QED
          BY <2>3, <4>1 DEF LeastAbsence
      <3>3. QED
        BY <2>1, <2>3, <2>5, <3>1, <3>2 DEF AwayCounted
    <2>6. CASE p \in Absent /\ p \notin Lapsed
      <3>1. /\ away'[p] = away[p] + 1
            /\ disconnect_deadlines[p] = disconnected_at[p] + Second * GraceFor(p)
            /\ away[p] >= Second * disconnect_seconds_used[p] + (clock - disconnected_at[p])
        BY <1>1, <2>6 DEF AwayInv, AwayCounted
      <3>2. away'[p] >= Second * disconnect_seconds_used[p] + (clock' - disconnected_at[p])
        BY <1>1, <2>3, <3>1
      <3>3. GraceFor(p) \in Nat /\ Second * GraceFor(p) \in Nat
        <4>1. GraceFor(p) \in Nat
          BY GraceType, ConstantsAssumption DEF RoomInv
        <4>2. QED
          BY <2>3, <4>1
      <3>4. ASSUME p \in Lapsed' PROVE away'[p] >= LeastAbsence
        <4>1. clock' >= disconnected_at[p] + Second * GraceFor(p)
          BY <1>2, <3>1, <3>4 DEF Lapsed
        <4>2. away'[p] >= Second * disconnect_seconds_used[p] + Second * GraceFor(p)
          BY <1>1, <2>3, <3>1, <3>2, <3>3, <4>1
        <4>3. QED
          BY <2>3, <3>1, <4>2, GraceCovers
      <3>5. QED
        BY <1>2, <2>1, <2>6, <3>1, <3>2, <3>4 DEF AwayCounted
    <2>7. QED
      BY <2>4, <2>5, <2>6
  <1>4. QED
    BY <1>3 DEF AwayInv, AwayCounted

(* A step in which no time passes leaves the counts of the absent alone. *)
LEMMA NoTimeAway ==
  ASSUME RoomInv, AuditTyped, Observe, clock' = clock
  PROVE  away' = away
  <1>1. clock \in Nat /\ away \in [Player -> Nat]
    BY DEF RoomInv, TypeInv, TypeOK, AuditTyped
  <1>2. clock' - clock = 0
    BY <1>1
  <1>3. away' = [p \in Player |-> away[p] + (IF p \in Absent THEN 0 ELSE 0)]
    BY <1>2 DEF Observe
  <1>4. QED
    BY <1>1, <1>3

(* What holds of a player whom the step does not concern. *)
LEMMA OthersAway ==
  ASSUME AwayInv, away' = away, clock' = clock, NEW p \in Player,
         disconnected_at'[p] = disconnected_at[p],
         disconnect_deadlines'[p] = disconnect_deadlines[p],
         \/ disconnect_seconds_used'[p] = disconnect_seconds_used[p]
         \/ p \in Lapsed /\ p \in Absent
  PROVE  AwayCounted(p)'
  <1>1. (p \in Absent' <=> p \in Absent) /\ (p \in Lapsed' <=> p \in Lapsed)
    BY DEF Absent, Lapsed
  <1>2. CASE p \in Lapsed /\ p \in Absent
    BY <1>1, <1>2 DEF AwayInv, AwayCounted
  <1>3. CASE disconnect_seconds_used'[p] = disconnect_seconds_used[p]
    <2>1. GraceFor(p)' = GraceFor(p)
      BY <1>3 DEF GraceFor
    <2>2. QED
      BY <1>1, <1>3, <2>1 DEF AwayInv, AwayCounted
  <1>4. QED
    BY <1>2, <1>3

LEMMA DropAway ==
  ASSUME RoomInv, AuditTyped, AwayInv, NEW p \in Player, DisconnectPlayer(p), Observe
  PROVE  AwayInv'
  <1>1. /\ clock' = clock /\ disconnected_at[p] = None
        /\ disconnected_at' = [disconnected_at EXCEPT ![p] = clock]
        /\ disconnect_deadlines' = [disconnect_deadlines EXCEPT ![p] = clock + Second * GraceFor(p)]
        /\ disconnect_seconds_used' = disconnect_seconds_used
    BY DEF DisconnectPlayer
  <1>2. away' = away
    BY <1>1, NoTimeAway
  <1>3. /\ disconnected_at \in [Player -> TickOrNone]
        /\ disconnect_deadlines \in [Player -> TickOrNone]
        /\ clock \in Nat /\ away[p] \in Nat
    BY DEF RoomInv, TypeInv, TypeOK, AuditTyped
  <1>4. p \notin Absent /\ away[p] >= Second * disconnect_seconds_used[p]
    BY <1>1 DEF Absent, AwayInv, AwayCounted
  <1>5. GraceFor(p)' = GraceFor(p)
    BY <1>1 DEF GraceFor
  <1>6. /\ disconnected_at'[p] = clock
        /\ disconnect_deadlines'[p] = clock + Second * GraceFor(p)
    BY <1>1, <1>3
  <1>7. /\ Second * disconnect_seconds_used[p] \in Nat
        /\ GraceFor(p) \in Nat /\ Second * GraceFor(p) \in Nat
    <2>1. \A a, b \in Nat : a * b \in Nat
      OBVIOUS
    <2>2. GraceFor(p) \in Nat /\ disconnect_seconds_used[p] \in Nat /\ Second \in Nat
      BY GraceType, ConstantsAssumption DEF RoomInv, TypeInv, TypeOK
    <2>3. QED
      BY <2>1, <2>2
  <1>8. ASSUME p \in Lapsed' PROVE away'[p] >= LeastAbsence
    <2>1. clock >= clock + Second * GraceFor(p)
      BY <1>1, <1>6, <1>8 DEF Lapsed
    <2>2. away[p] >= Second * disconnect_seconds_used[p] + Second * GraceFor(p)
      BY <1>3, <1>4, <1>7, <2>1
    <2>3. QED
      BY <1>2, <1>3, <2>2, GraceCovers
  <1>9. away'[p] >= Second * disconnect_seconds_used'[p] + (clock' - disconnected_at'[p])
    BY <1>1, <1>2, <1>3, <1>4, <1>6, <1>7
  <1>10. p \in Absent'
    BY <1>3, <1>6 DEF Absent, None
  <1>11. ASSUME NEW q \in Player, q # p
         PROVE  AwayCounted(q)'
    <2>1. /\ disconnected_at'[q] = disconnected_at[q]
          /\ disconnect_deadlines'[q] = disconnect_deadlines[q]
      BY <1>1, <1>3, <1>11
    <2>2. QED
      BY <1>1, <1>2, <2>1, OthersAway
  <1>12. QED
    BY <1>5, <1>6, <1>8, <1>9, <1>10, <1>11 DEF AwayInv, AwayCounted

LEMMA ReturnAway ==
  ASSUME RoomInv, AuditTyped, AwayInv, NEW p \in Player, ReconnectPlayer(p), Observe
  PROVE  AwayInv'
  <1>1. /\ clock' = clock /\ disconnected_at[p] # None /\ clock < disconnect_deadlines[p]
        /\ disconnected_at' = [disconnected_at EXCEPT ![p] = None]
        /\ disconnect_deadlines' = [disconnect_deadlines EXCEPT ![p] = None]
        /\ disconnect_seconds_used' = [disconnect_seconds_used EXCEPT ![p] = ChargedSeconds(p)]
    BY DEF ReconnectPlayer, MayReconnect
  <1>2. away' = away
    BY <1>1, NoTimeAway
  <1>3. /\ disconnected_at \in [Player -> TickOrNone]
        /\ disconnect_deadlines \in [Player -> TickOrNone]
        /\ disconnect_seconds_used \in [Player -> 0 .. DisconnectBudget]
        /\ clock \in Nat /\ away[p] \in Nat
        /\ Second \in Nat /\ Second > 0 /\ DisconnectBudget \in Nat
    BY ConstantsAssumption DEF RoomInv, TypeInv, TypeOK, AuditTyped
  <1>4. p \in Absent /\ p \notin Lapsed
    BY <1>1, <1>3 DEF Absent, Lapsed, TickOrNone, None
  <1>5. away[p] >= Second * disconnect_seconds_used[p] + (clock - disconnected_at[p])
    BY <1>4 DEF AwayInv, AwayCounted
  <1>6. p \notin Absent' /\ p \notin Lapsed'
    BY <1>1, <1>3 DEF Absent, Lapsed
  <1>7. Second * ChargedSeconds(p) <=
          Second * disconnect_seconds_used[p] + (clock - disconnected_at[p])
    <2> DEFINE gone == clock - disconnected_at[p]
               used == disconnect_seconds_used[p]
    <2>1. gone \in Nat /\ used \in Nat /\ used <= DisconnectBudget
      BY <1>1, <1>3 DEF RoomInv, TypeInv, DropsInThePast, TickOrNone, None
    <2>2. SecondsDown(gone) \in Nat /\ Second * SecondsDown(gone) <= gone
      <3>1. \A n \in Nat, s \in Nat : s > 0 => n \div s \in Nat /\ s * (n \div s) <= n
        BY Z3
      <3>2. QED
        BY <1>3, <2>1, <3>1 DEF SecondsDown
    <2>3. ChargedSeconds(p) \in Nat /\ ChargedSeconds(p) <= used + SecondsDown(gone)
      BY <1>3, <2>1, <2>2 DEF ChargedSeconds, Lesser
    <2>4. Second * ChargedSeconds(p) <= Second * (used + SecondsDown(gone))
      BY <1>3, <2>1, <2>2, <2>3, TicksMonotonic
    <2>5. \A a, b, c \in Nat : a * (b + c) = a * b + a * c /\ a * b \in Nat
      OBVIOUS
    <2>6. /\ Second * (used + SecondsDown(gone)) = Second * used + Second * SecondsDown(gone)
          /\ Second * used \in Nat /\ Second * SecondsDown(gone) \in Nat
          /\ Second * ChargedSeconds(p) \in Nat
      BY <1>3, <2>1, <2>2, <2>3, <2>5
    <2> HIDE DEF gone, used
    <2>7. Second * ChargedSeconds(p) <= Second * used + gone
      BY <2>1, <2>2, <2>4, <2>6
    <2>8. QED
      BY <2>7 DEF gone, used
  <1>8. away'[p] >= Second * disconnect_seconds_used'[p]
    <2>1. disconnect_seconds_used'[p] = ChargedSeconds(p)
      BY <1>1, <1>3
    <2>2. /\ Second * ChargedSeconds(p) \in Int
          /\ Second * disconnect_seconds_used[p] + (clock - disconnected_at[p]) \in Int
      <3>1. \A a, b \in Int : a * b \in Int
        OBVIOUS
      <3>2. /\ Second \in Int /\ ChargedSeconds(p) \in Int /\ disconnect_seconds_used[p] \in Int
            /\ disconnected_at[p] \in Int /\ clock \in Int
        BY <1>3, ChargeType DEF RoomInv, TickOrNone, None
      <3>3. Second * ChargedSeconds(p) \in Int /\ Second * disconnect_seconds_used[p] \in Int
        BY <3>1, <3>2
      <3>4. QED
        BY <3>2, <3>3
    <2>3. QED
      BY <1>2, <1>3, <1>5, <1>7, <2>1, <2>2
  <1>9. ASSUME NEW q \in Player, q # p
        PROVE  AwayCounted(q)'
    <2>1. /\ disconnected_at'[q] = disconnected_at[q]
          /\ disconnect_deadlines'[q] = disconnect_deadlines[q]
          /\ disconnect_seconds_used'[q] = disconnect_seconds_used[q]
      BY <1>1, <1>3, <1>9
    <2>2. QED
      BY <1>1, <1>2, <2>1, OthersAway
  <1>10. QED
    BY <1>6, <1>8, <1>9 DEF AwayInv, AwayCounted

LEMMA AwayInvStep ==
  ASSUME RoomInv, AuditTyped, AwayInv, [AuditNext]_auditVars
  PROVE  AwayInv'
  <1>1. ASSUME away' = away, UNCHANGED <<clock, disconnected_at, disconnect_deadlines>>,
               \A p \in Player : \/ disconnect_seconds_used'[p] = disconnect_seconds_used[p]
                                 \/ p \in Lapsed /\ p \in Absent
        PROVE  AwayInv'
    BY <1>1, OthersAway DEF AwayInv, AwayCounted
  <1>2. CASE UNCHANGED auditVars
    BY <1>1, <1>2 DEF auditVars, vars, absentVars
  <1>3. CASE AuditNext
    <2>1. [Next]_vars /\ Observe
      BY <1>3 DEF AuditNext
    <2>2. CASE Tick
      BY <2>1, <2>2, TickAway
    <2>3. CASE TurnPasses \/ PhaseGoesOn
      BY <1>1, <2>1, <2>3, NoTimeAway DEF TurnPasses, PhaseGoesOn, absentVars
    <2>4. CASE MatchStops /\ UNCHANGED disconnect_seconds_used
      BY <1>1, <2>1, <2>4, NoTimeAway DEF MatchStops
    <2>5. CASE ExpireDisconnects
      <3>1. UNCHANGED <<clock, disconnected_at, disconnect_deadlines>>
        BY <2>5 DEF ExpireDisconnects
      <3>2. ASSUME NEW p \in Player
            PROVE  \/ disconnect_seconds_used'[p] = disconnect_seconds_used[p]
                   \/ p \in Lapsed /\ p \in Absent
        <4>1. p \in Lapsed => p \in Absent
          BY DEF Lapsed, Absent, RoomInv, RoomFacts, PauseMatchesAbsence
        <4>2. QED
          BY <2>5, <4>1 DEF ExpireDisconnects
      <3>3. QED
        BY <1>1, <2>1, <3>1, <3>2, NoTimeAway
    <2>6. ASSUME NEW p \in Player, DisconnectPlayer(p) \/ ReconnectPlayer(p)
          PROVE  AwayInv'
      BY <2>1, <2>6, DropAway, ReturnAway
    <2>7. QED
      BY <2>1, <2>2, <2>3, <2>4, <2>5, <2>6, StepShape
  <1>4. QED
    BY <1>2, <1>3

(* Nobody forfeits by absence without having been away, in real time, for   *)
(* the whole grace or the whole budget, however the charges of earlier      *)
(* absences were rounded or repeated (manager.py disconnect_player,         *)
(* expire_disconnects).                                                     *)
THEOREM ForfeitAlwaysEarned == AuditSpec => []AbsenceForfeitIsEarned
  <1>1. FullInv /\ AwayInv => AbsenceForfeitIsEarned
    <2> SUFFICES ASSUME FullInv, AwayInv, result.type = "FORFEIT",
                        result.reason \in {"disconnect", "disconnect_budget"}
                 PROVE  away[Loser] >= LeastAbsence
      BY DEF AbsenceForfeitIsEarned, LeastAbsence
    <2>1. Loser \in Lapsed
      BY DEF FullInv, ResultJustified
    <2>2. QED
      BY <2>1 DEF AwayInv, AwayCounted, Lapsed
  <1>2. FullInv /\ AuditTyped /\ AwayInv /\ [AuditNext]_auditVars =>
          FullInv' /\ AuditTyped' /\ AwayInv'
    BY FullInvStep, AuditTypedStep, AwayInvStep DEF FullInv, AuditNext, auditVars
  <1>3. AuditInit => FullInv /\ AuditTyped /\ AwayInv
    BY FullInvInit, AuditTypedInit, AwayInvInit DEF AuditInit
  <1>4. QED
    BY <1>1, <1>2, <1>3, PTL DEF AuditSpec

=============================================================================
