------------------------ MODULE CommandTransaction ------------------------
(***************************************************************************)
(* Versioned player commands on one room: manager.py's                     *)
(* execute_player_command, one statement at a time, with the failure that  *)
(* can follow each of them and the rollback that answers it.               *)
(*                                                                         *)
(* The room's lock keeps every other mutation out of a transaction, but it *)
(* does not stop the clock: the phase deadline can pass between the expiry *)
(* check that precedes the snapshot and the checks that the command itself *)
(* and the serialization of its answer make.                               *)
(*                                                                         *)
(* The network is not a variable: an envelope can arrive at any time, any  *)
(* number of times, or never.  Rejected envelopes are stuttering steps.    *)
(***************************************************************************)
EXTENDS Integers, Sequences, SequencesExt

CONSTANTS
  p1, p2,             \* the seats; p1 moves first
  Nonce,              \* client_action_nonce values
  ReceiptCap,         \* receipts kept per player, 128
  MaxRevision,        \* bound: no transaction or timeout starts beyond it
  MaxTimers,          \* bound: no reconnect re-arms the phase timer beyond it
  NoTxn               \* no transaction is open

ASSUME ConstantsAssumption ==
  /\ p1 # p2
  /\ ReceiptCap \in Nat \ {0}
  /\ MaxRevision \in Nat /\ MaxTimers \in Nat

VARIABLES
  room,         \* rooms[room_id]: the fields of BattleState a rollback must keep
  receipts,     \* command_receipts[room_id]: per player, least recent first
  transcript,   \* room_replays[room_id]: the events that move the revision
  published,    \* calls of on_match_finished
  passed,       \* the phase timers up to this one have run out
  txn           \* the transaction holding the room's lock, or NoTxn

vars == <<room, receipts, transcript, published, passed, txn>>

-----------------------------------------------------------------------------
Player == {p1, p2}

Opponent(p) == IF p = p1 THEN p2 ELSE p1

(* What commands do to the fields kept here: most of them edit the turn     *)
(* player's plan, some complete the turn, and surrender ends the match.     *)
Command == {"edit", "complete", "surrender"}

Envelope == [player : Player, nonce : Nonce, command : Command,
             revision : 0 .. MaxRevision]

Timeout == [type |-> "expire_phase"]
Executed(e) == [type |-> "command", envelope |-> e]

Entry == {Timeout} \cup {Executed(e) : e \in Envelope}

Room(revision, turn, over, timer, away) ==
  [revision |-> revision, turn |-> turn, over |-> over, timer |-> timer, away |-> away]

RoomState == [revision : Nat, turn : Player, over : BOOLEAN, timer : Nat,
              away : SUBSET Player]

Init ==
  /\ room = Room(0, p1, FALSE, 1, {})
  /\ receipts = [p \in Player |-> <<>>]
  /\ transcript = <<>>
  /\ published = 0
  /\ passed = 0
  /\ txn = NoTxn

-----------------------------------------------------------------------------
(* The clock, and the transitions of the room *)

Overdue == ~room.over /\ room.away = {} /\ room.timer <= passed

DeadlinePasses ==
  /\ ~room.over /\ room.away = {} /\ ~Overdue
  /\ passed' = room.timer
  /\ UNCHANGED <<room, receipts, transcript, published, txn>>

(* A completed turn: the other player is to move under a new phase timer,   *)
(* unless it ended the match.                                               *)
TurnCompleted(r, ends) ==
  IF ends THEN [r EXCEPT !.over = TRUE, !.turn = Opponent(@)]
  ELSE [r EXCEPT !.turn = Opponent(@), !.timer = @ + 1]

(* _expire_phase_if_needed past its guard *)
TimedOut(r, ends) == [TurnCompleted(r, ends) EXCEPT !.revision = @ + 1]

Announced(ends) == IF ends THEN 1 ELSE 0

(* expire_phase_if_needed on its own: by the scheduler, by serialization,   *)
(* or as the first thing a command does, before its snapshot.               *)
ExpirePhase ==
  /\ txn = NoTxn
  /\ Overdue
  /\ room.revision <= MaxRevision
  /\ \E ends \in BOOLEAN :
       /\ room' = TimedOut(room, ends)
       /\ published' = published + Announced(ends)
  /\ transcript' = Append(transcript, Timeout)
  /\ UNCHANGED <<receipts, passed, txn>>

(* Disconnects and reconnects change the room but not its revision. *)
DisconnectPlayer(p) ==
  /\ txn = NoTxn
  /\ ~room.over
  /\ p \notin room.away
  /\ room' = [room EXCEPT !.away = @ \cup {p}]
  /\ UNCHANGED <<receipts, transcript, published, passed, txn>>

ReconnectPlayer(p) ==
  /\ txn = NoTxn
  /\ ~room.over
  /\ p \in room.away
  /\ room.timer < MaxTimers
  /\ room' = [room EXCEPT !.away = @ \ {p},
                          !.timer = IF room.away = {p} THEN @ + 1 ELSE @]
  /\ UNCHANGED <<receipts, transcript, published, passed, txn>>

(* The grace of an absentee has run out. *)
ExpireDisconnects ==
  /\ txn = NoTxn
  /\ ~room.over
  /\ room.away # {}
  /\ room' = [room EXCEPT !.over = TRUE]
  /\ published' = published + 1
  /\ UNCHANGED <<receipts, transcript, passed, txn>>

-----------------------------------------------------------------------------
(* Receipts *)

Fingerprint(e) == e.command

Receipts == [nonce : Nonce, fingerprint : Command]

EntriesFor(ledger, n) == {i \in DOMAIN ledger : ledger[i].nonce = n}
ReceiptsFor(p, n) == EntriesFor(receipts[p], n)

Known(e) == ReceiptsFor(e.player, e.nonce) # {}

(* The ledger is keyed by nonce: there is one entry to take out, or none. *)
Without(ledger, n) ==
  IF EntriesFor(ledger, n) = {} THEN ledger
  ELSE RemoveAt(ledger, CHOOSE i \in EntriesFor(ledger, n) : TRUE)

Receipt(e) == [nonce |-> e.nonce, fingerprint |-> Fingerprint(e)]

BugUnbounded(ledger, e) == Append(Without(ledger, e.nonce), Receipt(e))

BugDropsNewest(ledger, e) ==
  IF Len(ledger) >= ReceiptCap THEN ledger ELSE Append(ledger, Receipt(e))

(* _record_command_receipt: the newest goes last and the oldest is dropped. *)
WithReceipt(ledger, e) ==
  LET grown == Append(Without(ledger, e.nonce), Receipt(e))
  IN  IF Len(grown) > ReceiptCap THEN Tail(grown) ELSE grown

(* An identical retry is answered without running, and its receipt is the   *)
(* most recent again.  The same nonce with another command is rejected.     *)
AnswerRetry(e) ==
  /\ txn = NoTxn
  /\ ~Overdue
  /\ \E i \in ReceiptsFor(e.player, e.nonce) :
       /\ receipts[e.player][i].fingerprint = Fingerprint(e)
       /\ receipts' = [receipts EXCEPT ![e.player] =
                         Append(Without(@, e.nonce), @[i])]
  /\ UNCHANGED <<room, transcript, published, passed, txn>>

-----------------------------------------------------------------------------
(* The transaction *)

BugAcceptsAnyRevision(e) ==
  /\ ~Known(e)
  /\ ~room.over
  /\ room.away = {}

(* What is copied before a command runs, and how far it has come. *)
Transaction ==
  [envelope : Envelope, at : {"check", "run", "answer", "advance", "record", "receipt"},
   pending : Nat, room : RoomState, receipts : Seq(Receipts), transcript : Seq(Entry)]

ASSUME NoTxnAssumption == NoTxn \notin Transaction

Admissible(e) ==
  /\ ~Known(e)
  /\ ~room.over
  /\ room.away = {}
  /\ e.revision = room.revision

(* An admissible envelope: everything that may change is copied first. *)
Begin(e) ==
  /\ txn = NoTxn
  /\ ~Overdue
  /\ room.revision < MaxRevision
  /\ Admissible(e)
  /\ txn' = [envelope |-> e, at |-> "check", pending |-> 0,
             room |-> room, receipts |-> receipts[e.player], transcript |-> transcript]
  /\ UNCHANGED <<room, receipts, transcript, published, passed>>

At(stage) == txn # NoTxn /\ txn.at = stage

(* expire_phase_if_needed inside the transaction, if it finds the phase     *)
(* overdue: as the first statement of every command but surrender, and      *)
(* while the answer is serialized.  The terminal callback of a match that   *)
(* ends here is deferred.                                                   *)
NestedExpiry ==
  /\ \/ At("check") /\ txn.envelope.command # "surrender"
     \/ At("answer")
  /\ Overdue
  /\ \E ends \in BOOLEAN :
       /\ room' = TimedOut(room, ends)
       /\ txn' = [txn EXCEPT !.at = IF @ = "check" THEN "run" ELSE "advance",
                             !.pending = @ + Announced(ends)]
  /\ transcript' = Append(transcript, Timeout)
  /\ UNCHANGED <<receipts, published, passed>>

(* The command's own change; _ensure_turn_player guards all but surrender.  *)
Mutate ==
  /\ \/ At("run")
     \/ At("check") /\ (~Overdue \/ txn.envelope.command = "surrender")
  /\ ~room.over
  /\ txn.envelope.command # "surrender" => room.turn = txn.envelope.player
  /\ \E ends \in BOOLEAN :
       /\ \/ /\ txn.envelope.command = "surrender" /\ ends
             /\ room' = [room EXCEPT !.over = TRUE]
          \/ /\ txn.envelope.command = "edit" /\ ~ends
             /\ UNCHANGED room
          \/ /\ txn.envelope.command = "complete"
             /\ room' = TurnCompleted(room, ends)
       /\ txn' = [txn EXCEPT !.at = "answer", !.pending = @ + Announced(ends)]
  /\ UNCHANGED <<receipts, transcript, published, passed>>

(* The answer is serialized; the revision moves. *)
AdvanceRevision ==
  /\ \/ At("answer") /\ ~Overdue
     \/ At("advance")
  /\ room' = [room EXCEPT !.revision = @ + 1]
  /\ txn' = [txn EXCEPT !.at = "record"]
  /\ UNCHANGED <<receipts, transcript, published, passed>>

AppendTranscript ==
  /\ At("record")
  /\ transcript' = Append(transcript, Executed(txn.envelope))
  /\ txn' = [txn EXCEPT !.at = "receipt"]
  /\ UNCHANGED <<room, receipts, published, passed>>

(* The receipt is the last statement; leaving the block publishes. *)
Commit ==
  /\ At("receipt")
  /\ receipts' = [receipts EXCEPT ![txn.envelope.player] = WithReceipt(@, txn.envelope)]
  /\ published' = published + txn.pending
  /\ txn' = NoTxn
  /\ UNCHANGED <<room, transcript, passed>>

BugTranscriptKept ==
  /\ txn # NoTxn
  /\ room' = txn.room
  /\ receipts' = [receipts EXCEPT ![txn.envelope.player] = txn.receipts]
  /\ txn' = NoTxn
  /\ UNCHANGED <<transcript, published, passed>>

BugCallbackEscapes ==
  /\ txn # NoTxn
  /\ room' = txn.room
  /\ transcript' = txn.transcript
  /\ receipts' = [receipts EXCEPT ![txn.envelope.player] = txn.receipts]
  /\ published' = published + txn.pending
  /\ txn' = NoTxn
  /\ UNCHANGED passed

(* Any statement may raise: a payload that is not legal, a player who is    *)
(* not to move, a failing hash, transcript or receipt.  The copies are put  *)
(* back and the deferred callbacks are dropped with their queue.            *)
Rollback ==
  /\ txn # NoTxn
  /\ room' = txn.room
  /\ transcript' = txn.transcript
  /\ receipts' = [receipts EXCEPT ![txn.envelope.player] = txn.receipts]
  /\ txn' = NoTxn
  /\ UNCHANGED <<published, passed>>

(* A finished room has nothing left to do but answer retries. *)
Done == room.over /\ txn = NoTxn /\ UNCHANGED vars

Next ==
  \/ DeadlinePasses
  \/ ExpirePhase
  \/ \E p \in Player : DisconnectPlayer(p) \/ ReconnectPlayer(p)
  \/ ExpireDisconnects
  \/ \E e \in Envelope : AnswerRetry(e) \/ Begin(e)
  \/ NestedExpiry
  \/ Mutate
  \/ AdvanceRevision
  \/ AppendTranscript
  \/ Commit
  \/ Rollback
  \/ Done

Spec == Init /\ [][Next]_vars

-----------------------------------------------------------------------------
(* Properties *)

(* The fields keep their types, and no player's ledger outgrows its cap. *)
TypeOK ==
  /\ room \in RoomState
  /\ receipts \in [Player -> Seq(Receipts)]
  /\ \A p \in Player : Len(receipts[p]) <= ReceiptCap
  /\ transcript \in Seq(Entry)
  /\ published \in Nat
  /\ passed \in Nat
  /\ txn \in Transaction \cup {NoTxn}

(* The envelopes a transcript says were executed, for one player. *)
ExecutedBy(p, t) == {i \in DOMAIN t : t[i] # Timeout /\ t[i].envelope.player = p}

(* Between transactions the revision counts exactly the commands and the    *)
(* timeouts in the transcript: none is lost, repeated or left behind by a   *)
(* rollback, whichever statement failed (manager.py except block).          *)
RevisionCountsTranscript == txn = NoTxn => room.revision = Len(transcript)

(* Between transactions every receipt stands for a command that was really  *)
(* executed, a nonce has one receipt, and a player's latest command always  *)
(* has its receipt, so that an immediate retry is never executed again.     *)
ReceiptsMatchTranscript ==
  txn = NoTxn =>
    \A p \in Player :
      /\ \A i \in DOMAIN receipts[p] :
           /\ ReceiptsFor(p, receipts[p][i].nonce) = {i}
           /\ \E k \in ExecutedBy(p, transcript) :
                Receipt(transcript[k].envelope) = receipts[p][i]
      /\ \A k \in ExecutedBy(p, transcript) :
           (\A l \in ExecutedBy(p, transcript) : l <= k) =>
             \E i \in DOMAIN receipts[p] : receipts[p][i] = Receipt(transcript[k].envelope)

(* "The server rejects stale revisions before gameplay mutation": a command *)
(* changes the room only at the revision its envelope names.  The check     *)
(* precedes the command's own expiry check, which can move the revision.    *)
StaleNeverRuns ==
  [][~At("answer") /\ At("answer")' => room.revision = txn.envelope.revision]_vars

(* The room as everybody outside its lock may know it. *)
Settled == IF txn = NoTxn THEN [room |-> room, transcript |-> transcript]
           ELSE [room |-> txn.room, transcript |-> txn.transcript]

(* The room implements the contract of the envelopes. *)
Contract == INSTANCE CommandContract WITH
  revision  <- Settled.room.revision,
  done      <- {Settled.transcript[i].envelope :
                  i \in {k \in DOMAIN Settled.transcript : Settled.transcript[k] # Timeout}},
  over      <- Settled.room.over,
  announced <- published

ImplementsContract == Contract!Spec
=============================================================================
