----------------------------- MODULE MatchAudit -----------------------------
(***************************************************************************)
(* MatchLifecycle observed from outside: history variables record how long *)
(* each player has really been away and how long the current turn has      *)
(* really been open, and the room's own bookkeeping is judged by them.     *)
(*                                                                         *)
(* The scheduler is assumed punctual here: the clock does not pass a       *)
(* deadline whose expiry would change the room (timer_scheduler.py runs    *)
(* one worker for that; TimerScheduler models when it does).               *)
(***************************************************************************)
EXTENDS MatchLifecycle

CONSTANT MaxDrops       \* bound: disconnects in one behavior

VARIABLES away,         \* ticks each player has been disconnected
          played,       \* ticks the current turn has been open, pauses excluded
          drops         \* disconnects so far

auditVars == <<vars, away, played, drops>>

AuditInit ==
  /\ Init
  /\ away = [p \in Player |-> 0]
  /\ played = 0
  /\ drops = 0

(* An expiry that would end the match or pass the turn is due. *)
Due ==
  /\ ~Finished
  /\ \/ ~paused /\ PhaseExpired
     \/ Lapsed # {} /\ (Absent # Player \/ Lapsed = Player)

Dropped == \E p \in Player : disconnected_at[p] = None /\ disconnected_at'[p] # None

(* The history a step leaves. *)
Observe ==
  /\ clock' # clock => ~Due
  /\ away' = [p \in Player |-> away[p] + (IF p \in Absent THEN clock' - clock ELSE 0)]
  /\ played' = IF player_turns_completed' # player_turns_completed THEN 0
               ELSE IF paused THEN played
               ELSE played + (clock' - clock)
  /\ drops' = IF Dropped THEN drops + 1 ELSE drops
  /\ drops' <= MaxDrops

AuditNext == Next /\ Observe

(* Time passes, and the worker runs what is due; no player has to act. *)
AuditFairness ==
  /\ WF_auditVars(Tick /\ Observe)
  /\ WF_auditVars(ExpirePhase /\ Observe)
  /\ WF_auditVars(ExpireDisconnects /\ Observe)

AuditSpec == AuditInit /\ [][AuditNext]_auditVars /\ AuditFairness

-----------------------------------------------------------------------------
(* Properties *)

TurnAllowance == PlanningTime * Second

(* A turn is never cut short: what the turn player has had plus what the    *)
(* room still grants him is the whole planning time, however the turn is    *)
(* paused and resumed (disconnect_player rounds up, reconnect_player keeps  *)
(* at least what was saved).                                                *)
NoEarlyTimeout ==
  ~Finished =>
    IF paused THEN played + paused_seconds_remaining * Second >= TurnAllowance
    ELSE played + (phase_deadline - clock) >= TurnAllowance

(* Nor is it stretched without limit: every drop adds at most the minimum   *)
(* resume time and the part of a second lost to rounding.                   *)
TurnIsBounded ==
  played <= TurnAllowance + drops * (Second * MinResume + Second - 1)

(* Nobody forfeits by absence without having been away for the whole grace, *)
(* or for the whole budget, in real time.                                   *)
AbsenceForfeitIsEarned ==
  result.type = "FORFEIT" /\ result.reason \in {"disconnect", "disconnect_budget"} =>
    away[Loser] >= Second * Lesser(GracePeriod, DisconnectBudget)

(* "90 seconds per disconnect and 180 cumulative seconds per player per     *)
(* match": an ending blamed on the cumulative budget means that the budget  *)
(* was really spent.  The code charges a lapsed absence again in every pass *)
(* of expire_disconnects that does not end the match.                       *)
BudgetIsHonest ==
  result.reason = "disconnect_budget" =>
    \E p \in Lapsed : away[p] >= Second * DisconnectBudget

(* A match ends even if nobody acts again: planning timeouts, strikes, the  *)
(* no-progress rule and the disconnect deadlines are enough, once players   *)
(* stop dropping and coming back.                                           *)
MatchEnds == <>Finished
=============================================================================
