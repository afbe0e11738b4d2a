--------------------------- MODULE TimerScheduler ---------------------------
(***************************************************************************)
(* The background wakeups of timer_scheduler.py as app.py wires them to    *)
(* the rooms: handler threads that change a room and then arm it, and the  *)
(* one worker that fires what is due.                                      *)
(*                                                                         *)
(* Every action is one critical section, or one read outside any: arm      *)
(* reads the room's deadline without the room's lock and before it takes   *)
(* the scheduler's, the worker takes an entry off the heap in one section  *)
(* and marks its room as firing in the next, and the callbacks run outside *)
(* the lock.  A room is abstracted to its next deadline, which is what     *)
(* app.py's _timer_deadline makes of the fields MatchLifecycle keeps, and  *)
(* to whether it is played, paused (one player is away), deserted (both    *)
(* are), ended or removed.  The later of the two grace deadlines of a      *)
(* deserted room is not kept: it comes by MaxClock.                        *)
(***************************************************************************)
EXTENDS Integers, FiniteSets

CONSTANTS
  Room,
  Thread,             \* handler threads
  MaxClock,           \* bound: no deadline lies beyond it
  MaxChanges,         \* bound: changes handlers make to the rooms
  Unset,              \* no deadline: Python's None, or no dictionary entry
  NoRoom

ASSUME ConstantsAssumption ==
  /\ MaxClock \in Nat \ {0} /\ MaxChanges \in Nat
  /\ Unset \notin Nat
  /\ NoRoom \notin Room

VARIABLES
  clock,
  room,       \* per room: its state and its next deadline
  locked,     \* the room a reconnect is halfway through, per thread
  changes,    \* handler changes so far
  pc, read,   \* per thread: where in arm it is, for which room, what it read
  deadlines, heap, stopped,      \* _deadlines, _heap, _stopped
  worker, firing, held           \* the worker's step, _firing_room_id, what it read

schedulerVars == <<deadlines, heap, stopped>>
threadVars == <<pc, read, locked, changes>>
workerVars == <<worker, firing, held>>
vars == <<clock, room, schedulerVars, threadVars, workerVars>>

-----------------------------------------------------------------------------
Time == 0 .. MaxClock

Later == {t \in Time : t > clock}

(* A handler reads the clock before it stores a deadline, so that by then   *)
(* the deadline may have come.                                              *)
NowOrLater == {t \in Time : t >= clock}

Live(r) == room[r].state \in {"playing", "paused", "deserted"}

(* A match that ends keeps the deadlines it had. *)
Set(r, state, d) == [room EXCEPT ![r] = [state |-> state, deadline |-> d]]
Ended(r)         == [room EXCEPT ![r].state = "ended"]

BugEndedRoomTimed(r) == room[r].deadline

(* _timer_deadline: a room that has ended or is gone needs no wakeup. *)
TimerDeadline(r) == IF Live(r) THEN room[r].deadline ELSE Unset

NothingRead == [room |-> NoRoom, deadline |-> Unset]

Free(r) == \A t \in Thread : locked[t] # r

Overdue(r) == Live(r) /\ room[r].deadline # Unset /\ room[r].deadline <= clock

Init ==
  /\ clock = 0
  /\ room = [r \in Room |-> [state |-> "playing", deadline |-> 1]]
  /\ locked = [t \in Thread |-> NoRoom]
  /\ changes = 0
  /\ pc = [t \in Thread |-> "idle"]
  /\ read = [t \in Thread |-> NothingRead]
  /\ deadlines = [r \in Room |-> 1]
  /\ heap = {<<1, r>> : r \in Room}
  /\ stopped = FALSE
  /\ worker = [at |-> "waiting", room |-> NoRoom]
  /\ firing = NoRoom
  /\ held = Unset

Tick ==
  /\ clock < MaxClock
  /\ clock' = clock + 1
  /\ UNCHANGED <<room, schedulerVars, threadVars, workerVars>>

-----------------------------------------------------------------------------
(* Handlers: a mutation under the room's lock, then arm *)

Arming(t, r) == /\ pc' = [pc EXCEPT ![t] = "read"]
                /\ read' = [read EXCEPT ![t] = [room |-> r, deadline |-> Unset]]

MayChange(t, r) == pc[t] = "idle" /\ Live(r) /\ Free(r) /\ changes < MaxChanges

(* A completed turn sets another deadline, a surrender or a last turn ends  *)
(* the match, and a disconnect pauses it.                                   *)
PlayOn(r) ==
  /\ room[r].state = "playing"
  /\ \/ \E d \in NowOrLater, state \in {"playing", "paused"} : room' = Set(r, state, d)
     \/ room' = Ended(r)

(* The other player drops too, with a grace that may be shorter.            *)
Desert(r) ==
  /\ room[r].state = "paused"
  /\ \E d \in NowOrLater \cup {room[r].deadline} :
       d <= room[r].deadline /\ room' = Set(r, "deserted", d)

(* The first of two absentees returns: whose grace was to lapse first, or,  *)
(* when that one has lapsed and waits to be settled, the other one.         *)
ReturnToOther(r) ==
  /\ room[r].state = "deserted"
  /\ \E d \in Time : /\ IF Overdue(r) THEN d = room[r].deadline /\ clock < MaxClock
                                       ELSE d >= room[r].deadline
                     /\ room' = Set(r, "paused", d)

ChangeRoom(t, r) ==
  /\ MayChange(t, r)
  /\ PlayOn(r) \/ Desert(r) \/ ReturnToOther(r)
  /\ Arming(t, r)
  /\ changes' = changes + 1
  /\ UNCHANGED <<clock, locked, schedulerVars, workerVars>>

(* When the only absentee returns in time, reconnect_player removes the     *)
(* disconnect deadline before it restores the phase deadline: in between    *)
(* the room has none, for those who do not take its lock.                   *)
ReconnectBegins(t, r) ==
  /\ MayChange(t, r)
  /\ room[r].state = "paused"
  /\ ~Overdue(r)
  /\ room' = Set(r, "paused", Unset)
  /\ locked' = [locked EXCEPT ![t] = r]
  /\ pc' = [pc EXCEPT ![t] = "reconnect"]
  /\ changes' = changes + 1
  /\ UNCHANGED <<clock, read, schedulerVars, workerVars>>

ReconnectEnds(t) ==
  /\ pc[t] = "reconnect"
  /\ \E d \in NowOrLater : room' = Set(locked[t], "playing", d)
  /\ Arming(t, locked[t])
  /\ locked' = [locked EXCEPT ![t] = NoRoom]
  /\ UNCHANGED <<clock, changes, schedulerVars, workerVars>>

(* arm, before the condition is taken *)
ReadDeadline(t) ==
  /\ pc[t] = "read"
  /\ read' = [read EXCEPT ![t].deadline = TimerDeadline(read[t].room)]
  /\ pc' = [pc EXCEPT ![t] = "install"]
  /\ UNCHANGED <<clock, room, locked, changes, schedulerVars, workerVars>>

BugNotPushed(r, d) ==
  IF stopped THEN UNCHANGED <<deadlines, heap>>
  ELSE /\ deadlines' = [deadlines EXCEPT ![r] = d]
       /\ heap' = IF d = Unset \/ deadlines[r] # Unset THEN heap
                  ELSE heap \cup {<<d, r>>}

BugNonePushed(r, d) ==
  IF stopped THEN UNCHANGED <<deadlines, heap>>
  ELSE /\ deadlines' = [deadlines EXCEPT ![r] = d]
       /\ heap' = IF deadlines[r] = d THEN heap ELSE heap \cup {<<d, r>>}

BugArmsAfterShutdown(r, d) ==
  /\ deadlines' = [deadlines EXCEPT ![r] = d]
  /\ heap' = IF d = Unset \/ deadlines[r] = d THEN heap ELSE heap \cup {<<d, r>>}

(* arm, under the condition: old heap entries are left for the worker.      *)
Install(r, d) ==
  IF stopped THEN UNCHANGED <<deadlines, heap>>
  ELSE /\ deadlines' = [deadlines EXCEPT ![r] = d]
       /\ heap' = IF d = Unset \/ deadlines[r] = d THEN heap ELSE heap \cup {<<d, r>>}

InstallDeadline(t) ==
  /\ pc[t] = "install"
  /\ Install(read[t].room, read[t].deadline)
  /\ pc' = [pc EXCEPT ![t] = "idle"]
  /\ read' = [read EXCEPT ![t] = NothingRead]
  /\ UNCHANGED <<clock, room, locked, changes, stopped, workerVars>>

(* remove_battle_v2_room: under the room's lock, a room that has been idle  *)
(* for long and whose timer cancel_if_idle can cancel (its callback is not  *)
(* running) is deleted.                                                     *)
RemoveRoom(r) ==
  /\ room[r].state # "removed"
  /\ Free(r)
  /\ firing # r
  /\ deadlines' = [deadlines EXCEPT ![r] = Unset]
  /\ room' = Set(r, "removed", Unset)
  /\ UNCHANGED <<clock, heap, stopped, threadVars, workerVars>>

Shutdown ==
  /\ ~stopped
  /\ stopped' = TRUE
  /\ deadlines' = [r \in Room |-> Unset]
  /\ heap' = {}
  /\ UNCHANGED <<clock, room, threadVars, workerVars>>

-----------------------------------------------------------------------------
(* The worker *)

At(step) == worker.at = step

Goto(step) == worker' = [worker EXCEPT !.at = step]

(* Heap entries that are still what their room is scheduled for. *)
Current == {e \in heap : deadlines[e[2]] = e[1]}

Earliest(e) == \A f \in Current : e[1] <= f[1]

BugForgetsOthers(e) == {}

(* The entry taken goes, and so do the outdated ones above it. *)
HeapWithout(e) == heap \ ({e} \cup {f \in heap \ Current : f[1] < e[1]})

Pop ==
  /\ At("waiting")
  /\ ~stopped
  /\ \E e \in Current :
       /\ Earliest(e)
       /\ e[1] <= clock
       /\ heap' = HeapWithout(e)
       /\ deadlines' = [deadlines EXCEPT ![e[2]] = Unset]
       /\ worker' = [at |-> "popped", room |-> e[2]]
  /\ UNCHANGED <<clock, room, stopped, threadVars, firing, held>>

MarkFiring ==
  /\ At("popped")
  /\ firing' = worker.room
  /\ Goto("expire")
  /\ UNCHANGED <<clock, room, schedulerVars, threadVars, held>>

(* _expire_timer_room and handle_battle_v2_timeout: an overdue phase gets   *)
(* another deadline or ends the match, and a lapsed grace ends it; but      *)
(* while one of two absentees is still in grace the pass leaves the lapsed  *)
(* deadline where it is.  A callback that raises after its change goes on   *)
(* to the re-arm like one that does not.                                    *)
Expire ==
  /\ At("expire")
  /\ Free(worker.room)
  /\ \/ ~Overdue(worker.room) /\ UNCHANGED room
     \/ /\ Overdue(worker.room)
        /\ \/ /\ room[worker.room].state = "playing"
              /\ \E d \in Later : room' = Set(worker.room, "playing", d)
           \/ /\ room[worker.room].state = "deserted"
              /\ clock < MaxClock
              /\ UNCHANGED room
           \/ room' = Ended(worker.room)
  /\ Goto("read")
  /\ UNCHANGED <<clock, schedulerVars, threadVars, firing, held>>

RereadDeadline ==
  /\ At("read")
  /\ held' = TimerDeadline(worker.room)
  /\ Goto("install")
  /\ UNCHANGED <<clock, room, schedulerVars, threadVars, firing>>

(* The re-arm; afterwards the room no longer counts as firing. *)
Rearm ==
  /\ At("install")
  /\ Install(worker.room, held)
  /\ held' = Unset
  /\ Goto("fired")
  /\ UNCHANGED <<clock, room, stopped, threadVars, firing>>

EndFiring ==
  /\ At("fired")
  /\ firing' = NoRoom
  /\ worker' = [at |-> "waiting", room |-> NoRoom]
  /\ UNCHANGED <<clock, room, schedulerVars, threadVars, held>>

Stop ==
  /\ At("waiting")
  /\ stopped
  /\ Goto("stopped")
  /\ UNCHANGED <<clock, room, schedulerVars, threadVars, firing, held>>

WorkerStep ==
  Pop \/ MarkFiring \/ Expire \/ RereadDeadline \/ Rearm \/ EndFiring \/ Stop

ThreadStep(t) == ReconnectEnds(t) \/ ReadDeadline(t) \/ InstallDeadline(t)

Next ==
  \/ Tick
  \/ \E t \in Thread : \/ \E r \in Room : ChangeRoom(t, r) \/ ReconnectBegins(t, r)
                       \/ ThreadStep(t)
  \/ \E r \in Room : RemoveRoom(r)
  \/ Shutdown
  \/ WorkerStep

(* A handler finishes what it has begun, the worker runs, and time passes.  *)
Progress == WF_vars(WorkerStep) /\ \A t \in Thread : WF_vars(ThreadStep(t))

Spec == Init /\ [][Next]_vars /\ Progress /\ WF_vars(Tick)

(* The same without waiting for time to pass: seconds are long for the      *)
(* worker, which fires thousands of times in one.                           *)
PromptSpec == Init /\ [][Next]_vars /\ Progress

-----------------------------------------------------------------------------
(* Types of the scheduler's variables: the heap holds times only, which it  *)
(* has to compare (arm returns before it would push None).                  *)
TypeOK ==
  /\ clock \in Time
  /\ room \in [Room -> [state : {"playing", "paused", "deserted", "ended", "removed"},
                        deadline : Time \cup {Unset}]]
  /\ locked \in [Thread -> Room \cup {NoRoom}]
  /\ changes \in 0 .. MaxChanges
  /\ pc \in [Thread -> {"idle", "reconnect", "read", "install"}]
  /\ read \in [Thread -> [room : Room \cup {NoRoom}, deadline : Time \cup {Unset}]]
  /\ deadlines \in [Room -> Time \cup {Unset}]
  /\ heap \subseteq Time \X Room
  /\ stopped \in BOOLEAN
  /\ worker \in [at : {"waiting", "popped", "expire", "read", "install",
                       "fired", "stopped"},
                 room : Room \cup {NoRoom}]
  /\ firing \in Room \cup {NoRoom}
  /\ held \in Time \cup {Unset}

(* Lazy deletion never loses a live entry: whatever the worker drops from   *)
(* the heap, every deadline some arm installed is still on it, whichever    *)
(* threads armed, cancelled and re-armed the room in between.               *)
HeapCoversDeadlines ==
  \A r \in Room : deadlines[r] # Unset => <<deadlines[r], r>> \in heap

(* A deadline the scheduler holds does not outstay its time: the worker     *)
(* takes it, or an arm, a cleanup or the shutdown has replaced it.          *)
ArmedIsServed ==
  \A r \in Room : \A d \in Time :
    (deadlines[r] = d /\ d <= clock) ~> (deadlines[r] # d)

(* A match that is over ends up without a timer for good, whichever stale   *)
(* deadline was armed last: the worker does not keep firing a finished room *)
(* (the comment in _timer_deadline).                                        *)
EndedIsForgotten ==
  \A r \in Room : ~Live(r) ~> [](deadlines[r] = Unset)

(* shutdown is deterministic: the worker leaves its loop, and no handler    *)
(* still between reading a deadline and installing it revives a timer.      *)
ShutdownIsFinal ==
  stopped ~> [](worker.at = "stopped" /\ \A r \in Room : deadlines[r] = Unset)

(* The server wakes the room itself when a deadline passes, with no help    *)
(* from a client (battle_v2_socket_contract.md): an overdue room is         *)
(* expired, unless the server has been shut down.                           *)
OverdueIsServed ==
  \A r \in Room : Overdue(r) ~> (~Overdue(r) \/ stopped)

(* A deadline that has come is served without more time having to pass: no  *)
(* room makes the worker spin on an unchanged overdue deadline, which       *)
(* _timer_deadline's comment means to exclude, while another room's         *)
(* deadline waits.  (Equal deadlines are left out, because the heap serves  *)
(* those in turn and the model does not.)                                   *)
ServedInItsTime ==
  \A r \in Room : \A d \in Time :
    LET Tied == \E q \in Room \ {r} : room[q].deadline = d
    IN  (deadlines[r] = d /\ d <= clock) ~> (deadlines[r] # d \/ Tied)

=============================================================================
