----------------------------- MODULE DrainGate -----------------------------
(***************************************************************************)
(* What a finished match leaves for analytics and replay, and the report   *)
(* that tells an operator the worker may be stopped: recording with an     *)
(* in-memory outbox for writes that fail (runtime_store.py), the hooks     *)
(* that retry it before a room goes (app.py, maintenance.py), drain and    *)
(* the counters of /ops/runtime (ops_routes.py).                           *)
(*                                                                         *)
(* Every database write may fail.  A room's recording runs under the       *)
(* room's lock; flushes (periodic maintenance, a drain request) run next   *)
(* to it and to each other.  The report reads the rooms under the          *)
(* lifecycle lock and the outbox after it.                                 *)
(***************************************************************************)
EXTENDS Naturals, Sequences, SequencesExt, FiniteSets

CONSTANTS Match,        \* match rooms
          Flusher,      \* threads that may flush
          MaxOutbox     \* SQLiteRuntimeStore.MAX_OUTBOX_SIZE

ASSUME DrainAssumption == MaxOutbox \in Nat \ {0} /\ IsFiniteSet(Flusher)

VARIABLES room,       \* match -> "none", "live", "finished" or "removed"
          todo,       \* match -> events its recorder has yet to write
          recording,  \* matches whose recorder is at work
          rows,       \* analytics_events, by key
          recorded,   \* analytics_recorded_matches
          replays,    \* battle_replays; archived_replays while the room is there
          outbox, lost,     \* the in-memory outbox; outbox_dropped_total > 0
          pending, batch,   \* flusher -> how much it swapped out; what is left of it
          inflight,         \* _outbox_inflight
          accepting,  \* accepting_new_matches
          report      \* the report being read: "none", "rooms" or "green"

drainVars == <<room, todo, recording, rows, recorded, replays, outbox, lost,
               pending, batch, inflight, accepting, report>>
storeVars == <<rows, outbox, lost>>
flushVars == <<pending, batch, inflight>>

\* match_finished:{m}, and match_player_result:{m}:{player} for one player
Events(m) == <<(<<m, "finished">>), (<<m, "result">>)>>
Event == Match \X {"finished", "result"}

DrainInit ==
    /\ room = [m \in Match |-> "none"]
    /\ todo = [m \in Match |-> <<>>]
    /\ recording = {} /\ rows = {} /\ recorded = {} /\ replays = {}
    /\ outbox = <<>> /\ lost = FALSE
    /\ pending = [f \in Flusher |-> 0] /\ batch = [f \in Flusher |-> <<>>] /\ inflight = 0
    /\ accepting = TRUE /\ report = "none"

-----------------------------------------------------------------------------
(* The store.                                                              *)

BugEnqueueUncapped(e) == outbox' = Append(outbox, e) /\ lost' = lost

\* _enqueue_outbox: at the cap the oldest entry makes room.
Enqueue(e) ==
    IF Len(outbox) >= MaxOutbox
    THEN outbox' = Append(Tail(outbox), e) /\ lost' = TRUE
    ELSE outbox' = Append(outbox, e) /\ lost' = lost

\* _insert_analytics_row, with the outbox behind it: one row per key.
Write(e, ok) ==
    IF ok THEN rows' = rows \cup {e} /\ UNCHANGED <<outbox, lost>>
    ELSE rows' = rows /\ Enqueue(e)

BugSizeWithoutInflight == Len(outbox)

\* outbox_size: what waits, and what a flush has swapped out and not settled.
OutboxSize == Len(outbox) + inflight

FlushTake(f) ==
    /\ pending[f] = 0
    /\ outbox # <<>>
    /\ pending' = [pending EXCEPT ![f] = Len(outbox)]
    /\ batch' = [batch EXCEPT ![f] = outbox]
    /\ inflight' = inflight + Len(outbox)
    /\ outbox' = <<>>
    /\ UNCHANGED <<room, todo, recording, rows, recorded, replays, lost, accepting, report>>

\* A failed event goes to the back of the queue, behind what came in between.
FlushOne(f, ok) ==
    /\ batch[f] # <<>>
    /\ Write(Head(batch[f]), ok)
    /\ batch' = [batch EXCEPT ![f] = Tail(@)]
    /\ UNCHANGED <<room, todo, recording, recorded, replays, pending, inflight, accepting, report>>

FlushEnd(f) ==
    /\ pending[f] > 0 /\ batch[f] = <<>>
    /\ inflight' = inflight - pending[f]
    /\ pending' = [pending EXCEPT ![f] = 0]
    /\ UNCHANGED <<room, todo, recording, rows, recorded, replays, outbox, lost,
                   batch, accepting, report>>

-----------------------------------------------------------------------------
(* Rooms.                                                                  *)

StartRoom(m) ==
    /\ accepting
    /\ room[m] = "none"
    /\ room' = [room EXCEPT ![m] = "live"]
    /\ UNCHANGED <<todo, recording, recorded, replays, flushVars, accepting,
                   report, storeVars>>

BeginRecording(m) ==
    /\ recording' = recording \cup {m}
    /\ todo' = [todo EXCEPT ![m] = Events(m)]

\* The terminal transition calls on_battle_v2_match_finished under the lock.
FinishRoom(m) ==
    /\ room[m] = "live"
    /\ room' = [room EXCEPT ![m] = "finished"]
    /\ BeginRecording(m)
    /\ UNCHANGED <<recorded, replays, flushVars, accepting, report, storeVars>>

RecordEvent(m, ok) ==
    /\ m \in recording
    /\ todo[m] # <<>>
    /\ Write(Head(todo[m]), ok)
    /\ todo' = [todo EXCEPT ![m] = Tail(@)]
    /\ UNCHANGED <<room, recording, recorded, replays, flushVars, accepting, report>>

BugMarkRecorded(m, ok) == ok

\* Only events found in the database count as recorded; the read may fail too.
Durable(m, ok) == ok /\ ToSet(Events(m)) \subseteq rows

CheckRecorded(m, ok) ==
    /\ m \in recording
    /\ todo[m] = <<>>
    /\ recorded' = IF Durable(m, ok) THEN recorded \cup {m} ELSE recorded
    /\ recording' = recording \ {m}
    /\ UNCHANGED <<room, todo, replays, flushVars, accepting, report, storeVars>>

\* archive_finished_replay, from a broadcast or before the cleanup; a save
\* that fails leaves everything for the next call.
ArchiveReplay(m) ==
    /\ room[m] = "finished"
    /\ m \notin replays
    /\ replays' = replays \cup {m}
    /\ UNCHANGED <<room, todo, recording, recorded, flushVars, accepting, report, storeVars>>

PersistencePending(m) == room[m] = "finished" /\ (m \notin recorded \/ m \notin replays)

\* ensure_terminal_persistence, by the drain request or the cleanup.
RetryRecording(m) ==
    /\ room[m] = "finished"
    /\ m \notin recording /\ m \notin recorded
    /\ BeginRecording(m)
    /\ UNCHANGED <<room, recorded, replays, flushVars, accepting, report, storeVars>>

\* remove_battle_v2_room of a finished room, once nothing is left to hand off.
\* An idle live room past its time goes with nothing to record.
RemoveRoom(m) ==
    /\ room[m] \in {"live", "finished"}
    /\ m \notin recording
    /\ ~PersistencePending(m)
    /\ room' = [room EXCEPT ![m] = IF @ = "live" THEN "abandoned" ELSE "removed"]
    /\ recorded' = recorded \ {m}
    /\ UNCHANGED <<todo, recording, replays, flushVars, accepting, report, storeVars>>

-----------------------------------------------------------------------------
(* Drain and the operator's report.                                        *)

SetDraining(draining) ==
    /\ accepting = draining
    /\ accepting' = ~draining
    /\ report' = "none"
    /\ UNCHANGED <<room, todo, recording, recorded, replays, flushVars, storeVars>>

\* runtime_status, first what it reads under the lifecycle lock ...
ReportRooms ==
    /\ report = "none"
    /\ ~accepting
    /\ \A m \in Match : room[m] # "live" /\ ~PersistencePending(m)
    /\ report' = "rooms"
    /\ UNCHANGED <<room, todo, recording, recorded, replays, flushVars, accepting, storeVars>>

\* ... then the size of the outbox.
ReportOutbox ==
    /\ report = "rooms"
    /\ report' = IF OutboxSize = 0 THEN "green" ELSE "none"
    /\ UNCHANGED <<room, todo, recording, recorded, replays, flushVars, accepting, storeVars>>

DrainNext ==
    \/ \E m \in Match :
          \/ StartRoom(m) \/ FinishRoom(m) \/ ArchiveReplay(m)
          \/ RetryRecording(m) \/ RemoveRoom(m)
          \/ \E ok \in BOOLEAN : RecordEvent(m, ok) \/ CheckRecorded(m, ok)
    \/ \E f \in Flusher :
          FlushTake(f) \/ FlushEnd(f) \/ \E ok \in BOOLEAN : FlushOne(f, ok)
    \/ \E draining \in BOOLEAN : SetDraining(draining)
    \/ ReportRooms \/ ReportOutbox

DrainSpec == DrainInit /\ [][DrainNext]_drainVars

-----------------------------------------------------------------------------
DrainTypeOK ==
    /\ room \in [Match -> {"none", "live", "finished", "removed", "abandoned"}]
    /\ todo \in [Match -> Seq(Event)]
    /\ recording \subseteq Match /\ recorded \subseteq Match /\ replays \subseteq Match
    /\ rows \subseteq Event
    /\ outbox \in Seq(Event) /\ Len(outbox) <= MaxOutbox
    /\ lost \in BOOLEAN /\ accepting \in BOOLEAN
    /\ batch \in [Flusher -> Seq(Event)] /\ pending \in [Flusher -> 0 .. MaxOutbox]
    /\ inflight \in 0 .. (MaxOutbox * Cardinality(Flusher))
    /\ report \in {"none", "rooms", "green"}

Over(m) == room[m] \in {"finished", "removed"}

\* An outbox reported empty, with nothing ever dropped, means that every event
\* some recorder has dealt with is in the database: also while a flush holds
\* the entries it swapped out, or another one has put some back.
EmptyOutboxIsDurable ==
    OutboxSize = 0 /\ ~lost =>
        \A m \in Match : Over(m) => ToSet(Events(m)) \ ToSet(todo[m]) \subseteq rows

\* A worker whose report was green under drain can be stopped at any later
\* moment: each match that finished has its events and its replay on disk,
\* whatever the outbox dropped, and none is being played.
GreenReportIsSafe ==
    report = "green" =>
        \A m \in Match : /\ room[m] # "live"
                         /\ Over(m) => ToSet(Events(m)) \subseteq rows /\ m \in replays

=============================================================================
