---------------------- MODULE CommandTransactionProofs ----------------------
(***************************************************************************)
(* CommandTransaction for every set of nonces and every bound: the types,  *)
(* what revision, transcript and receipts say of each other between two    *)
(* transactions, and that the room implements CommandContract.             *)
(*                                                                         *)
(* The argument follows the room as others may know it (Settled): the live *)
(* one while no transaction is open, the copy taken at its beginning while *)
(* one is.  Only Commit moves it from inside a transaction, and what a     *)
(* transaction has added by then is tracked by OpenInv.                    *)
(***************************************************************************)
EXTENDS CommandTransaction, TLAPS

-----------------------------------------------------------------------------
(* Types *)

LEMMA EntryTyped ==
  /\ Timeout \in Entry
  /\ \A e \in Envelope : /\ Executed(e) \in Entry
                         /\ Executed(e) # Timeout
                         /\ Executed(e).envelope = e
  /\ \A x \in Entry : x # Timeout => x.envelope \in Envelope /\ x = Executed(x.envelope)
<1>1. \A e \in Envelope : Executed(e).type = "command" /\ Executed(e).envelope = e
  BY DEF Executed
<1>2. Timeout.type = "expire_phase"
  BY DEF Timeout
<1> QED BY <1>1, <1>2 DEF Entry

(* What a step writes into a room or into the open transaction fits there. *)
LEMMA RoomWritten ==
  ASSUME NEW r \in RoomState, NEW ends \in BOOLEAN, NEW q \in Player,
         NEW t \in Nat, NEW n \in Nat, NEW a \in SUBSET Player
  PROVE  /\ [r EXCEPT !.over = ends] \in RoomState
         /\ [r EXCEPT !.revision = n] \in RoomState
         /\ [r EXCEPT !.over = ends, !.turn = q] \in RoomState
         /\ [r EXCEPT !.turn = q, !.timer = t] \in RoomState
         /\ [r EXCEPT !.away = a] \in RoomState
         /\ [r EXCEPT !.away = a, !.timer = t] \in RoomState
BY DEF RoomState

LEMMA TransactionWritten ==
  ASSUME NEW t \in Transaction, NEW n \in Nat,
         NEW stage \in {"check", "run", "answer", "advance", "record", "receipt"}
  PROVE  /\ [t EXCEPT !.at = stage] \in Transaction
         /\ [t EXCEPT !.at = stage, !.pending = n] \in Transaction
BY DEF Transaction

LEMMA TransactionFields ==
  ASSUME NEW t \in Transaction
  PROVE  /\ t.envelope \in Envelope /\ t.envelope.player \in Player
         /\ t.at \in {"check", "run", "answer", "advance", "record", "receipt"}
         /\ t.pending \in Nat
         /\ t.room \in RoomState
         /\ t.receipts \in Seq(Receipts)
         /\ t.transcript \in Seq(Entry)
BY DEF Transaction, Envelope

LEMMA PendingTyped ==
  ASSUME NEW t \in Transaction, NEW ends \in BOOLEAN
  PROVE  t.pending + Announced(ends) \in Nat /\ Announced(ends) \in Nat
BY TransactionFields DEF Announced

LEMMA TimedOutTyped ==
  ASSUME NEW r \in RoomState, NEW ends \in BOOLEAN
  PROVE  /\ TurnCompleted(r, ends) \in RoomState
         /\ TurnCompleted(r, ends).revision = r.revision
         /\ TurnCompleted(r, ends).over = (r.over \/ ends)
         /\ TimedOut(r, ends) \in RoomState
         /\ TimedOut(r, ends).revision = r.revision + 1
         /\ TimedOut(r, ends).over = (r.over \/ ends)
<1>1. \A p \in Player : Opponent(p) \in Player
  BY DEF Opponent, Player
<1>2. /\ r.turn \in Player /\ r.timer \in Nat /\ r.revision \in Nat
      /\ r.over \in BOOLEAN /\ r.away \in SUBSET Player
      /\ Opponent(r.turn) \in Player /\ r.timer + 1 \in Nat
  BY <1>1 DEF RoomState
<1>3. /\ TurnCompleted(r, ends) \in RoomState
      /\ TurnCompleted(r, ends).revision = r.revision
      /\ TurnCompleted(r, ends).over = (r.over \/ ends)
  <2>1. CASE ends
    <3>1. TurnCompleted(r, ends) = [r EXCEPT !.over = TRUE, !.turn = Opponent(r.turn)]
      BY <2>1 DEF TurnCompleted
    <3>2. TurnCompleted(r, ends) \in RoomState
      BY <1>2, <3>1, RoomWritten
    <3>3. /\ TurnCompleted(r, ends).revision = r.revision
          /\ TurnCompleted(r, ends).over = TRUE
      BY <3>1 DEF RoomState
    <3> QED BY <2>1, <3>2, <3>3
  <2>2. CASE ~ends
    <3>1. TurnCompleted(r, ends)
            = [r EXCEPT !.turn = Opponent(r.turn), !.timer = r.timer + 1]
      BY <2>2 DEF TurnCompleted
    <3>2. TurnCompleted(r, ends) \in RoomState
      <4>1. [r EXCEPT !.turn = Opponent(r.turn), !.timer = r.timer + 1] \in RoomState
        BY <1>2, RoomWritten
      <4> QED BY <3>1, <4>1
    <3>3. /\ TurnCompleted(r, ends).revision = r.revision
          /\ TurnCompleted(r, ends).over = r.over
      BY <3>1 DEF RoomState
    <3> QED BY <1>2, <2>2, <3>2, <3>3
  <2> QED BY <2>1, <2>2
<1>4. TimedOut(r, ends) \in RoomState
  <2>1. TimedOut(r, ends) = [TurnCompleted(r, ends) EXCEPT !.revision = r.revision + 1]
    BY <1>3 DEF TimedOut
  <2>2. r.revision + 1 \in Nat
    BY <1>2
  <2> QED BY <1>2, <1>3, <2>1, <2>2, RoomWritten
<1>5. /\ TimedOut(r, ends).revision = r.revision + 1
      /\ TimedOut(r, ends).over = (r.over \/ ends)
  BY <1>2, <1>3 DEF TimedOut, RoomState
<1> QED BY <1>3, <1>4, <1>5

LEMMA ConcatReceipts ==
  ASSUME NEW front \in Seq(Receipts), NEW back \in Seq(Receipts)
  PROVE  /\ front \o back \in Seq(Receipts)
         /\ Len(front \o back) = Len(front) + Len(back)
         /\ \A k \in 1 .. Len(front) + Len(back) :
              (front \o back)[k] = IF k <= Len(front) THEN front[k] ELSE back[k - Len(front)]
OBVIOUS

(* Without takes out the entry at one position, or none. *)
LEMMA WithoutAsPositions ==
  ASSUME NEW ledger \in Seq(Receipts), NEW n
  PROVE  \/ /\ EntriesFor(ledger, n) = {} /\ Without(ledger, n) = ledger
         \/ \E i \in EntriesFor(ledger, n) :
              /\ Without(ledger, n) \in Seq(Receipts)
              /\ Len(Without(ledger, n)) = Len(ledger) - 1
              /\ \A k \in 1 .. Len(ledger) - 1 :
                   Without(ledger, n)[k] = ledger[IF k < i THEN k ELSE k + 1]
<1>1. CASE EntriesFor(ledger, n) = {}
  BY <1>1 DEF Without
<1>2. CASE EntriesFor(ledger, n) # {}
  <2> DEFINE i == CHOOSE i \in EntriesFor(ledger, n) : TRUE
             front == SubSeq(ledger, 1, i - 1)
             back == SubSeq(ledger, i + 1, Len(ledger))
  <2>1. i \in EntriesFor(ledger, n)
    BY <1>2
  <2>2. i \in 1 .. Len(ledger)
    BY <2>1 DEF EntriesFor
  <2>3. Without(ledger, n) = front \o back
    BY <1>2 DEF Without, RemoveAt
  <2> HIDE DEF i
  <2>4. /\ front \in Seq(Receipts) /\ Len(front) = i - 1
        /\ \A k \in 1 .. i - 1 : front[k] = ledger[k]
    BY <2>2
  <2>5. /\ back \in Seq(Receipts) /\ Len(back) = Len(ledger) - i
        /\ \A k \in 1 .. Len(ledger) - i : back[k] = ledger[i + k]
    BY <2>2
  <2> HIDE DEF front, back
  <2>6. /\ front \o back \in Seq(Receipts)
        /\ Len(front \o back) = Len(ledger) - 1
        /\ \A k \in 1 .. Len(ledger) - 1 :
             (front \o back)[k] = IF k <= i - 1 THEN front[k] ELSE back[k - (i - 1)]
    <3>1. Len(front) + Len(back) = Len(ledger) - 1
      BY <2>2, <2>4, <2>5
    <3> QED BY <2>4, <2>5, <3>1, ConcatReceipts
  <2>7. \A k \in 1 .. Len(ledger) - 1 :
          (front \o back)[k] = ledger[IF k < i THEN k ELSE k + 1]
    <3> SUFFICES ASSUME NEW k \in 1 .. Len(ledger) - 1
                 PROVE  (front \o back)[k] = ledger[IF k < i THEN k ELSE k + 1]
      OBVIOUS
    <3>1. CASE k < i
      BY <2>2, <2>4, <2>6, <3>1
    <3>2. CASE ~(k < i)
      <4>1. k - (i - 1) \in 1 .. Len(ledger) - i /\ i + (k - (i - 1)) = k + 1
        BY <2>2, <3>2
      <4>2. back[k - (i - 1)] = ledger[k + 1]
        BY <2>5, <4>1
      <4> QED BY <2>2, <2>6, <3>2, <4>2
    <3> QED BY <3>1, <3>2
  <2> QED BY <2>1, <2>3, <2>6, <2>7
<1> QED BY <1>1, <1>2

LEMMA WithoutTyped ==
  ASSUME NEW ledger \in Seq(Receipts), NEW n
  PROVE  Without(ledger, n) \in Seq(Receipts) /\ Len(Without(ledger, n)) <= Len(ledger)
BY WithoutAsPositions

LEMMA ReceiptTyped ==
  ASSUME NEW e \in Envelope
  PROVE  Receipt(e) \in Receipts /\ Receipt(e).nonce = e.nonce
BY DEF Receipt, Receipts, Envelope, Fingerprint

LEMMA WithReceiptTyped ==
  ASSUME NEW ledger \in Seq(Receipts), Len(ledger) <= ReceiptCap, NEW e \in Envelope
  PROVE  WithReceipt(ledger, e) \in Seq(Receipts) /\ Len(WithReceipt(ledger, e)) <= ReceiptCap
BY WithoutTyped, ReceiptTyped, ConstantsAssumption DEF WithReceipt

(* A transaction touches the ledger it copied with its last statement only, *)
(* so that putting the copy back keeps the ledger within its cap.           *)
CopyIsLedger == txn # NoTxn => txn.receipts = receipts[txn.envelope.player]

Typed == TypeOK /\ CopyIsLedger

LEMMA TypeInit == Init => Typed
<1> SUFFICES ASSUME Init PROVE Typed
  OBVIOUS
<1>1. room \in RoomState
  BY DEF Init, Room, RoomState, Player
<1>2. receipts \in [Player -> Seq(Receipts)] /\ \A p \in Player : Len(receipts[p]) <= ReceiptCap
  BY ConstantsAssumption DEF Init
<1>3. <<>> \in Seq(Entry)
  OBVIOUS
<1> QED BY <1>1, <1>2, <1>3 DEF Init, Typed, TypeOK, CopyIsLedger

LEMMA TypeNext == Typed /\ [Next]_vars => TypeOK'
<1> SUFFICES ASSUME TypeOK, CopyIsLedger, [Next]_vars PROVE TypeOK'
  BY DEF Typed
<1> USE DEF TypeOK
<1>1. CASE DeadlinePasses
  BY <1>1 DEF DeadlinePasses, RoomState
<1>2. CASE ExpirePhase
  BY <1>2, TimedOutTyped, EntryTyped DEF ExpirePhase, Announced
<1>3. ASSUME NEW p \in Player, DisconnectPlayer(p) \/ ReconnectPlayer(p) PROVE TypeOK'
  <2>1. /\ room.away \in SUBSET Player /\ room.timer \in Nat /\ room.turn \in Player
        /\ room.away \cup {p} \in SUBSET Player /\ room.away \ {p} \in SUBSET Player
    BY DEF RoomState
  <2>2. room' \in RoomState
    <3>1. CASE DisconnectPlayer(p)
      BY <2>1, <3>1, RoomWritten DEF DisconnectPlayer
    <3>2. CASE ReconnectPlayer(p)
      <4> DEFINE t == IF room.away = {p} THEN room.timer + 1 ELSE room.timer
      <4>1. t \in Nat /\ room' = [room EXCEPT !.away = room.away \ {p}, !.timer = t]
        BY <2>1, <3>2 DEF ReconnectPlayer
      <4> HIDE DEF t
      <4> QED BY <2>1, <4>1, RoomWritten
    <3> QED BY <1>3, <3>1, <3>2
  <2> QED BY <1>3, <2>2 DEF DisconnectPlayer, ReconnectPlayer
<1>4. CASE ExpireDisconnects
  <2>1. room.turn \in Player /\ room.timer \in Nat /\ room.away \in SUBSET Player
    BY DEF RoomState
  <2>2. room' = [room EXCEPT !.over = TRUE]
    BY <1>4 DEF ExpireDisconnects
  <2>3. room' \in RoomState
    BY <2>1, <2>2, RoomWritten
  <2> QED BY <1>4, <2>3 DEF ExpireDisconnects
<1>5. ASSUME NEW e \in Envelope, AnswerRetry(e) PROVE TypeOK'
  <2>1. e.player \in Player
    BY DEF Envelope
  <2>2. PICK i \in ReceiptsFor(e.player, e.nonce) :
          receipts' = [receipts EXCEPT ![e.player] = Append(Without(@, e.nonce), @[i])]
    BY <1>5 DEF AnswerRetry
  <2>3. /\ i \in DOMAIN receipts[e.player] /\ receipts[e.player][i].nonce = e.nonce
        /\ receipts[e.player][i] \in Receipts /\ receipts[e.player] \in Seq(Receipts)
    BY <2>1, <2>2 DEF ReceiptsFor, EntriesFor
  <2>4. Len(Without(receipts[e.player], e.nonce)) <= Len(receipts[e.player]) - 1
    BY <2>3, WithoutAsPositions DEF EntriesFor
  <2>5. Without(receipts[e.player], e.nonce) \in Seq(Receipts)
    BY <2>3, WithoutTyped
  <2>6. /\ receipts'[e.player] \in Seq(Receipts)
        /\ Len(receipts'[e.player]) <= ReceiptCap
    BY <2>1, <2>2, <2>3, <2>4, <2>5, ConstantsAssumption
  <2> QED BY <1>5, <2>1, <2>2, <2>6 DEF AnswerRetry
<1>6. ASSUME NEW e \in Envelope, Begin(e) PROVE TypeOK'
  <2>1. receipts[e.player] \in Seq(Receipts)
    BY DEF Envelope
  <2> QED BY <1>6, <2>1 DEF Begin, Transaction
<1>7. CASE NestedExpiry
  <2>1. txn \in Transaction
    BY <1>7 DEF NestedExpiry, At
  <2>2. PICK ends \in BOOLEAN :
          /\ room' = TimedOut(room, ends)
          /\ txn' = [txn EXCEPT !.at = IF @ = "check" THEN "run" ELSE "advance",
                                !.pending = @ + Announced(ends)]
    BY <1>7 DEF NestedExpiry
  <2>3. txn' \in Transaction
    BY <2>1, <2>2, PendingTyped, TransactionWritten, TransactionFields
  <2> QED BY <1>7, <2>2, <2>3, TimedOutTyped, EntryTyped DEF NestedExpiry
<1>8. CASE Mutate
  <2>1. txn \in Transaction
    BY <1>8 DEF Mutate, At
  <2>2. PICK ends \in BOOLEAN :
          /\ room' \in {room, [room EXCEPT !.over = TRUE], TurnCompleted(room, ends)}
          /\ txn' = [txn EXCEPT !.at = "answer", !.pending = @ + Announced(ends)]
    BY <1>8 DEF Mutate
  <2>3. txn' \in Transaction
    BY <2>1, <2>2, PendingTyped, TransactionWritten, TransactionFields
  <2>4. room' \in RoomState
    <3>1. /\ room.turn \in Player /\ room.timer \in Nat /\ room.revision \in Nat
          /\ room.away \in SUBSET Player
      BY DEF RoomState
    <3>2. [room EXCEPT !.over = TRUE] \in RoomState
      BY <3>1, RoomWritten
    <3>3. TurnCompleted(room, ends) \in RoomState
      BY TimedOutTyped
    <3> QED BY <2>2, <3>2, <3>3
  <2> QED BY <1>8, <2>3, <2>4 DEF Mutate
<1>9. CASE AdvanceRevision
  <2>1. txn \in Transaction
    BY <1>9 DEF AdvanceRevision, At
  <2>2. txn' \in Transaction /\ room' \in RoomState
    <3>1. /\ room.turn \in Player /\ room.timer \in Nat /\ room.revision + 1 \in Nat
          /\ room.away \in SUBSET Player
      BY DEF RoomState
    <3> QED BY <1>9, <2>1, <3>1, RoomWritten, TransactionWritten DEF AdvanceRevision
  <2> QED BY <1>9, <2>2 DEF AdvanceRevision
<1>10. CASE AppendTranscript
  <2>1. txn \in Transaction
    BY <1>10 DEF AppendTranscript, At
  <2>2. txn' \in Transaction /\ txn.envelope \in Envelope
    BY <1>10, <2>1, TransactionWritten, TransactionFields DEF AppendTranscript
  <2> QED BY <1>10, <2>2, EntryTyped DEF AppendTranscript
<1>11. CASE Commit
  <2>1. txn \in Transaction
    BY <1>11 DEF Commit, At
  <2>2. txn.envelope \in Envelope /\ txn.envelope.player \in Player /\ txn.pending \in Nat
    BY <2>1, TransactionFields
  <2> DEFINE ledger == WithReceipt(receipts[txn.envelope.player], txn.envelope)
  <2>3. ledger \in Seq(Receipts) /\ Len(ledger) <= ReceiptCap
    BY <2>2, WithReceiptTyped
  <2>4. /\ receipts' = [receipts EXCEPT ![txn.envelope.player] = ledger]
        /\ published' = published + txn.pending /\ txn' = NoTxn
        /\ room' = room /\ transcript' = transcript /\ passed' = passed
    BY <1>11 DEF Commit
  <2> HIDE DEF ledger
  <2> QED BY <2>2, <2>3, <2>4
<1>12. CASE Rollback
  <2>1. txn \in Transaction
    BY <1>12 DEF Rollback
  <2>2. /\ txn.envelope.player \in Player /\ txn.room \in RoomState
        /\ txn.transcript \in Seq(Entry)
    BY <2>1, TransactionFields
  <2>3. receipts' = receipts
    BY <1>12, <2>2 DEF Rollback, CopyIsLedger
  <2>4. /\ room' \in RoomState /\ transcript' \in Seq(Entry) /\ txn' = NoTxn
        /\ published' = published /\ passed' = passed
    BY <1>12, <2>2 DEF Rollback
  <2> QED BY <2>3, <2>4
<1>13. CASE Done \/ UNCHANGED vars
  BY <1>13 DEF Done, vars
<1> QED BY <1>1, <1>2, <1>3, <1>4, <1>5, <1>6, <1>7, <1>8, <1>9, <1>10, <1>11, <1>12, <1>13
       DEF Next

LEMMA CopyNext == Typed /\ [Next]_vars => CopyIsLedger'
<1> SUFFICES ASSUME TypeOK, CopyIsLedger, [Next]_vars PROVE CopyIsLedger'
  BY DEF Typed
<1> USE DEF CopyIsLedger
<1>1. CASE txn = NoTxn
  <2>1. ASSUME NEW e \in Envelope, Begin(e) PROVE CopyIsLedger'
    BY <2>1 DEF Begin
  <2>2. CASE txn' = NoTxn
    BY <2>2
  <2> QED BY <1>1, <2>1, <2>2
         DEF Next, vars, DeadlinePasses, ExpirePhase, DisconnectPlayer, ReconnectPlayer,
             ExpireDisconnects, AnswerRetry, NestedExpiry, Mutate, AdvanceRevision,
             AppendTranscript, Commit, Rollback, Done, At
<1>2. CASE txn # NoTxn
  <2>1. txn \in Transaction
    BY <1>2 DEF TypeOK
  <2>2. CASE NestedExpiry \/ Mutate \/ AdvanceRevision \/ AppendTranscript
    <3>1. txn'.receipts = txn.receipts /\ txn'.envelope = txn.envelope
      BY <2>1, <2>2
         DEF NestedExpiry, Mutate, AdvanceRevision, AppendTranscript, Transaction
    <3>2. receipts' = receipts
      BY <2>2 DEF NestedExpiry, Mutate, AdvanceRevision, AppendTranscript
    <3> QED BY <1>2, <3>1, <3>2
  <2>3. CASE Commit \/ Rollback
    BY <2>3 DEF Commit, Rollback
  <2>4. CASE DeadlinePasses \/ UNCHANGED vars
    BY <2>4 DEF DeadlinePasses, vars
  <2> QED BY <1>2, <2>2, <2>3, <2>4
         DEF Next, ExpirePhase, DisconnectPlayer, ReconnectPlayer, ExpireDisconnects,
             AnswerRetry, Begin, Done
<1> QED BY <1>1, <1>2

LEMMA TypedAlways == Spec => []Typed
<1>1. Typed /\ [Next]_vars => Typed'
  BY TypeNext, CopyNext DEF Typed
<1> QED BY <1>1, TypeInit, PTL DEF Spec

(* Every field of the room and of an open transaction keeps its type, and no *)
(* player's ledger of receipts outgrows its cap.                             *)
THEOREM CommandTypeCorrect == Spec => []TypeOK
<1>1. Typed => TypeOK
  BY DEF Typed
<1> QED BY <1>1, TypedAlways, PTL

-----------------------------------------------------------------------------
(* What a transcript and the ledgers say of each other *)

Older(t) == \A k \in DOMAIN t : t[k] # Timeout => t[k].envelope.revision < k

OnePerNonce(ledger) ==
  \A i, j \in DOMAIN ledger : ledger[i].nonce = ledger[j].nonce => i = j

Backed(ledger, p, t) ==
  \A i \in DOMAIN ledger :
    \E k \in ExecutedBy(p, t) : Receipt(t[k].envelope) = ledger[i]

KeepsLatest(ledger, p, t) ==
  \A k \in ExecutedBy(p, t) :
    (\A l \in ExecutedBy(p, t) : l <= k) =>
      \E i \in DOMAIN ledger : ledger[i] = Receipt(t[k].envelope)

LedgerOK(ledger, p, t) ==
  OnePerNonce(ledger) /\ Backed(ledger, p, t) /\ KeepsLatest(ledger, p, t)

(* u is t with timeouts after it, up to its position n. *)
TimeoutsAfter(t, u, n) ==
  /\ Len(t) <= n /\ n <= Len(u)
  /\ \A k \in 1 .. Len(t) : u[k] = t[k]
  /\ \A k \in Len(t) + 1 .. n : u[k] = Timeout

(* A timeout adds nothing any ledger has to know. *)
LEMMA SameExecuted ==
  ASSUME NEW t \in Seq(Entry), NEW u \in Seq(Entry), NEW p \in Player, NEW n \in Nat,
         TimeoutsAfter(t, u, n),
         \A k \in n + 1 .. Len(u) : u[k] # Timeout => u[k].envelope.player # p
  PROVE  ExecutedBy(p, u) = ExecutedBy(p, t)
<1>1. \A k \in 1 .. Len(u) : \/ k \in 1 .. Len(t)
                            \/ k \in Len(t) + 1 .. n
                            \/ k \in n + 1 .. Len(u)
  OBVIOUS
<1>2. \A k \in ExecutedBy(p, u) : k \in ExecutedBy(p, t)
  BY <1>1 DEF ExecutedBy, TimeoutsAfter
<1>3. \A k \in ExecutedBy(p, t) : k \in ExecutedBy(p, u)
  BY DEF ExecutedBy, TimeoutsAfter
<1> QED BY <1>2, <1>3

LEMMA SameLedgerOK ==
  ASSUME NEW t \in Seq(Entry), NEW u \in Seq(Entry), NEW p \in Player, NEW n \in Nat,
         TimeoutsAfter(t, u, n),
         \A k \in n + 1 .. Len(u) : u[k] # Timeout => u[k].envelope.player # p,
         NEW ledger, LedgerOK(ledger, p, t)
  PROVE  LedgerOK(ledger, p, u)
<1>1. ExecutedBy(p, u) = ExecutedBy(p, t)
  BY SameExecuted
<1>2. \A k \in ExecutedBy(p, t) : u[k] = t[k]
  BY DEF ExecutedBy, TimeoutsAfter
<1> QED BY <1>1, <1>2 DEF LedgerOK, Backed, KeepsLatest

(* A ledger without one nonce keeps exactly the other entries, in order. *)
LEMMA WithoutKeepsOthers ==
  ASSUME NEW ledger \in Seq(Receipts), OnePerNonce(ledger), NEW n
  PROVE  /\ OnePerNonce(Without(ledger, n))
         /\ \A i \in DOMAIN Without(ledger, n) :
              /\ Without(ledger, n)[i].nonce # n
              /\ \E j \in DOMAIN ledger : ledger[j] = Without(ledger, n)[i]
         /\ \A j \in DOMAIN ledger :
              ledger[j].nonce # n => \E i \in DOMAIN Without(ledger, n) :
                                       Without(ledger, n)[i] = ledger[j]
<1> DEFINE rest == Without(ledger, n)
<1>1. CASE EntriesFor(ledger, n) = {} /\ rest = ledger
  <2>1. \A j \in DOMAIN ledger : ledger[j].nonce # n
    BY <1>1 DEF EntriesFor
  <2>2. rest = ledger
    BY <1>1
  <2> HIDE DEF rest
  <2> QED BY <2>1, <2>2 DEF rest
<1>2. CASE \E i \in EntriesFor(ledger, n) :
             /\ rest \in Seq(Receipts)
             /\ Len(rest) = Len(ledger) - 1
             /\ \A k \in 1 .. Len(ledger) - 1 : rest[k] = ledger[IF k < i THEN k ELSE k + 1]
  <2> HIDE DEF rest
  <2>1. PICK i \in EntriesFor(ledger, n) :
          /\ rest \in Seq(Receipts)
          /\ Len(rest) = Len(ledger) - 1
          /\ \A k \in 1 .. Len(ledger) - 1 : rest[k] = ledger[IF k < i THEN k ELSE k + 1]
    BY <1>2
  <2>2. i \in 1 .. Len(ledger) /\ ledger[i].nonce = n
    BY DEF EntriesFor
  <2> DEFINE at(k) == IF k < i THEN k ELSE k + 1
  <2>3. /\ DOMAIN rest = 1 .. Len(ledger) - 1 /\ DOMAIN ledger = 1 .. Len(ledger)
        /\ \A k \in DOMAIN rest : at(k) \in DOMAIN ledger /\ at(k) # i /\ rest[k] = ledger[at(k)]
    BY <2>1, <2>2
  <2>4. \A k, l \in DOMAIN rest : at(k) = at(l) => k = l
    BY <2>2, <2>3
  <2>5. \A j \in DOMAIN ledger : j # i => \E k \in DOMAIN rest : at(k) = j
    <3> SUFFICES ASSUME NEW j \in DOMAIN ledger, j # i
                 PROVE  \E k \in DOMAIN rest : at(k) = j
      OBVIOUS
    <3>1. CASE j < i
      BY <2>2, <2>3, <3>1
    <3>2. CASE j > i
      <4>1. j - 1 \in DOMAIN rest /\ at(j - 1) = j
        BY <2>2, <2>3, <3>2
      <4> QED BY <4>1
    <3> QED BY <2>2, <2>3, <3>1, <3>2
  <2> HIDE DEF at
  <2>6. OnePerNonce(rest)
    BY <2>3, <2>4 DEF OnePerNonce
  <2>7. \A k \in DOMAIN rest : rest[k].nonce # n
    BY <2>2, <2>3 DEF OnePerNonce
  <2> QED BY <2>2, <2>3, <2>5, <2>6, <2>7 DEF rest
<1> QED BY <1>1, <1>2, WithoutAsPositions

(* Moved or added to the end, an entry is the only one with its nonce.      *)
LEMMA MovedToEnd ==
  ASSUME NEW ledger \in Seq(Receipts), OnePerNonce(ledger), NEW x \in Receipts
  PROVE  LET grown == Append(Without(ledger, x.nonce), x)
         IN  /\ grown \in Seq(Receipts) /\ Len(grown) >= 1 /\ grown[Len(grown)] = x
             /\ OnePerNonce(grown)
             /\ \A i \in DOMAIN grown :
                  grown[i] = x \/ \E j \in DOMAIN ledger : ledger[j] = grown[i]
             /\ \A j \in DOMAIN ledger :
                  ledger[j].nonce # x.nonce => \E i \in DOMAIN grown : grown[i] = ledger[j]
<1> DEFINE rest == Without(ledger, x.nonce)
           grown == Append(rest, x)
<1>1. rest \in Seq(Receipts)
  BY WithoutTyped
<1>2. /\ OnePerNonce(rest)
      /\ \A i \in DOMAIN rest : /\ rest[i].nonce # x.nonce
                               /\ \E j \in DOMAIN ledger : ledger[j] = rest[i]
      /\ \A j \in DOMAIN ledger :
           ledger[j].nonce # x.nonce => \E i \in DOMAIN rest : rest[i] = ledger[j]
  <2>1. OnePerNonce(rest)
    BY WithoutKeepsOthers
  <2>2. \A i \in DOMAIN rest : /\ rest[i].nonce # x.nonce
                               /\ \E j \in DOMAIN ledger : ledger[j] = rest[i]
    BY WithoutKeepsOthers
  <2>3. \A j \in DOMAIN ledger :
           ledger[j].nonce # x.nonce => \E i \in DOMAIN rest : rest[i] = ledger[j]
    BY WithoutKeepsOthers
  <2> QED BY <2>1, <2>2, <2>3
<1> HIDE DEF rest
<1>3. /\ grown \in Seq(Receipts) /\ Len(grown) = Len(rest) + 1 /\ grown[Len(grown)] = x
      /\ DOMAIN grown = 1 .. Len(rest) + 1 /\ DOMAIN rest = 1 .. Len(rest)
      /\ \A i \in DOMAIN rest : grown[i] = rest[i]
  BY <1>1
<1> HIDE DEF grown
<1>4. \A i \in DOMAIN grown : i \in DOMAIN rest \/ i = Len(grown)
  BY <1>1, <1>3
<1>5. OnePerNonce(grown)
  BY <1>2, <1>3, <1>4 DEF OnePerNonce
<1>6. Len(grown) >= 1 /\ \A i \in DOMAIN rest : i \in DOMAIN grown
  BY <1>1, <1>3
<1> QED BY <1>2, <1>3, <1>4, <1>5, <1>6 DEF grown, rest

(* An identical retry moves its receipt to the end. *)
LEMMA RetryKeepsLedger ==
  ASSUME NEW ledger \in Seq(Receipts), NEW i \in DOMAIN ledger,
         NEW p \in Player, NEW t \in Seq(Entry), LedgerOK(ledger, p, t)
  PROVE  LedgerOK(Append(Without(ledger, ledger[i].nonce), ledger[i]), p, t)
<1> DEFINE x == ledger[i]
           grown == Append(Without(ledger, x.nonce), x)
<1>1. x \in Receipts /\ OnePerNonce(ledger)
  BY DEF LedgerOK
<1>2. /\ grown \in Seq(Receipts) /\ Len(grown) >= 1 /\ grown[Len(grown)] = x
      /\ OnePerNonce(grown)
      /\ \A k \in DOMAIN grown :
           grown[k] = x \/ \E j \in DOMAIN ledger : ledger[j] = grown[k]
      /\ \A j \in DOMAIN ledger :
           ledger[j].nonce # x.nonce => \E k \in DOMAIN grown : grown[k] = ledger[j]
  BY <1>1, MovedToEnd
<1> HIDE DEF grown
<1>3. \A k \in DOMAIN grown : \E j \in DOMAIN ledger : ledger[j] = grown[k]
  BY <1>2
<1>4. \A j \in DOMAIN ledger : \E k \in DOMAIN grown : grown[k] = ledger[j]
  <2> SUFFICES ASSUME NEW j \in DOMAIN ledger
               PROVE  \E k \in DOMAIN grown : grown[k] = ledger[j]
    OBVIOUS
  <2>1. CASE ledger[j].nonce = x.nonce
    <3>1. ledger[j] = x
      BY <1>1, <2>1 DEF OnePerNonce
    <3>2. Len(grown) \in DOMAIN grown
      BY <1>2
    <3> QED BY <1>2, <3>1, <3>2
  <2> QED BY <1>2, <2>1
<1>5. Backed(grown, p, t)
  BY <1>3 DEF LedgerOK, Backed
<1>6. KeepsLatest(grown, p, t)
  BY <1>4 DEF LedgerOK, KeepsLatest
<1> QED BY <1>2, <1>5, <1>6 DEF LedgerOK, grown

(* A command enters transcript and ledger together, after what may have     *)
(* timed out before it: both keep agreeing, the oldest receipt dropped or   *)
(* not.                                                                     *)
LEMMA CommandKeepsLedger ==
  ASSUME NEW ledger \in Seq(Receipts), NEW e \in Envelope,
         NEW t \in Seq(Entry), NEW u \in Seq(Entry), Len(u) >= 1,
         TimeoutsAfter(t, u, Len(u) - 1), u[Len(u)] = Executed(e),
         LedgerOK(ledger, e.player, t)
  PROVE  LedgerOK(WithReceipt(ledger, e), e.player, u)
<1> DEFINE x == Receipt(e)
           p == e.player
           grown == Append(Without(ledger, x.nonce), x)
           new == WithReceipt(ledger, e)
<1>1. x \in Receipts /\ x.nonce = e.nonce /\ OnePerNonce(ledger) /\ p \in Player
  BY ReceiptTyped DEF LedgerOK, Envelope
<1>2. /\ grown \in Seq(Receipts) /\ Len(grown) >= 1 /\ grown[Len(grown)] = x
      /\ OnePerNonce(grown)
      /\ \A i \in DOMAIN grown :
           grown[i] = x \/ \E j \in DOMAIN ledger : ledger[j] = grown[i]
  BY <1>1, MovedToEnd
<1>3. new = IF Len(grown) > ReceiptCap THEN Tail(grown) ELSE grown
  BY <1>1 DEF WithReceipt
<1> HIDE DEF grown, new
<1>4. /\ new \in Seq(Receipts) /\ Len(new) >= 1 /\ new[Len(new)] = x
      /\ OnePerNonce(new)
      /\ \A i \in DOMAIN new :
           new[i] = x \/ \E j \in DOMAIN ledger : ledger[j] = new[i]
  <2>1. CASE Len(grown) > ReceiptCap
    <3>1. Len(grown) > 1
      BY <1>2, <2>1, ConstantsAssumption
    <3>2. new = Tail(grown)
      BY <1>3, <2>1
    <3>3. /\ new \in Seq(Receipts) /\ Len(new) = Len(grown) - 1
          /\ DOMAIN new = 1 .. Len(grown) - 1 /\ DOMAIN grown = 1 .. Len(grown)
          /\ \A i \in DOMAIN new : i + 1 \in DOMAIN grown /\ new[i] = grown[i + 1]
      BY <1>2, <3>1, <3>2
    <3>4. Len(new) >= 1 /\ new[Len(new)] = x
      <4>1. Len(new) \in DOMAIN new /\ Len(new) + 1 = Len(grown) /\ Len(new) >= 1
        BY <1>2, <3>1, <3>3
      <4>2. new[Len(new)] = grown[Len(new) + 1]
        BY <3>3, <4>1
      <4> QED BY <1>2, <4>1, <4>2
    <3>5. OnePerNonce(new)
      <4> SUFFICES ASSUME NEW i \in DOMAIN new, NEW j \in DOMAIN new,
                          new[i].nonce = new[j].nonce
                   PROVE  i = j
        BY DEF OnePerNonce
      <4>1. i + 1 = j + 1
        BY <1>2, <3>3 DEF OnePerNonce
      <4> QED BY <3>3, <4>1
    <3> QED BY <1>2, <3>3, <3>4, <3>5
  <2>2. CASE ~(Len(grown) > ReceiptCap)
    BY <1>2, <1>3, <2>2
  <2> QED BY <2>1, <2>2
<1>5. /\ Len(u) \in ExecutedBy(p, u) /\ u[Len(u)].envelope = e
      /\ \A l \in ExecutedBy(p, u) : l <= Len(u)
  BY EntryTyped DEF ExecutedBy
<1>6. \A k \in ExecutedBy(p, t) : k \in ExecutedBy(p, u) /\ u[k] = t[k]
  BY DEF ExecutedBy, TimeoutsAfter
<1>7. Backed(new, p, u)
  <2> SUFFICES ASSUME NEW i \in DOMAIN new
               PROVE  \E k \in ExecutedBy(p, u) : Receipt(u[k].envelope) = new[i]
    BY DEF Backed
  <2>1. CASE new[i] = x
    BY <1>5, <2>1
  <2>2. CASE \E j \in DOMAIN ledger : ledger[j] = new[i]
    <3>1. PICK k \in ExecutedBy(p, t) : Receipt(t[k].envelope) = new[i]
      BY <2>2 DEF LedgerOK, Backed
    <3> QED BY <1>6, <3>1
  <2> QED BY <1>4, <2>1, <2>2
<1>8. KeepsLatest(new, p, u)
  <2> SUFFICES ASSUME NEW k \in ExecutedBy(p, u), \A l \in ExecutedBy(p, u) : l <= k
               PROVE  \E i \in DOMAIN new : new[i] = Receipt(u[k].envelope)
    BY DEF KeepsLatest
  <2>1. k = Len(u)
    BY <1>5 DEF ExecutedBy
  <2>2. Len(new) \in DOMAIN new
    BY <1>4
  <2> QED BY <1>4, <1>5, <2>1, <2>2
<1> QED BY <1>4, <1>7, <1>8 DEF LedgerOK, new

-----------------------------------------------------------------------------
(* Between transactions, and inside one *)

(* Room, transcript and ledgers that belong together. *)
Agree(r, t, ledgers) ==
  /\ r.revision = Len(t)
  /\ Older(t)
  /\ \A p \in Player : LedgerOK(ledgers[p], p, t)

SettledOK ==
  /\ txn = NoTxn => Agree(room, transcript, receipts)
  /\ txn # NoTxn => Agree(txn.room, txn.transcript, receipts)

(* How far the transcript of an open transaction may hold timeouts only. *)
Own == IF txn.at = "receipt" THEN Len(transcript) - 1 ELSE Len(transcript)

OpenOK ==
  txn # NoTxn =>
    /\ ~txn.room.over
    /\ txn.envelope.revision = txn.room.revision
    /\ TimeoutsAfter(txn.transcript, transcript, Own)
    /\ txn.at = "receipt" => transcript[Len(transcript)] = Executed(txn.envelope)
    /\ room.revision = Len(transcript) + (IF txn.at = "record" THEN 1 ELSE 0)
    /\ txn.pending = Announced(room.over)

IInv == Typed /\ SettledOK /\ OpenOK

LEMMA StaysOpen ==
  ASSUME txn \in Transaction,
         NestedExpiry \/ Mutate \/ AdvanceRevision \/ AppendTranscript
  PROVE  txn' \in Transaction
<1>1. CASE NestedExpiry
  <2>1. PICK ends \in BOOLEAN :
          txn' = [txn EXCEPT !.at = IF @ = "check" THEN "run" ELSE "advance",
                             !.pending = @ + Announced(ends)]
    BY <1>1 DEF NestedExpiry
  <2> QED BY <2>1, PendingTyped, TransactionWritten
<1>2. CASE Mutate
  <2>1. PICK ends \in BOOLEAN :
          txn' = [txn EXCEPT !.at = "answer", !.pending = @ + Announced(ends)]
    BY <1>2 DEF Mutate
  <2> QED BY <2>1, PendingTyped, TransactionWritten
<1>3. CASE AdvanceRevision \/ AppendTranscript
  BY <1>3, TransactionWritten DEF AdvanceRevision, AppendTranscript
<1> QED BY <1>1, <1>2, <1>3

LEMMA TimeoutAppended ==
  ASSUME NEW t \in Seq(Entry)
  PROVE  /\ Append(t, Timeout) \in Seq(Entry)
         /\ Len(Append(t, Timeout)) = Len(t) + 1
         /\ \A k \in 1 .. Len(t) : Append(t, Timeout)[k] = t[k]
         /\ Append(t, Timeout)[Len(t) + 1] = Timeout
BY EntryTyped

LEMMA TimeoutAgrees ==
  ASSUME NEW t \in Seq(Entry), NEW r, NEW s, NEW ledgers,
         Agree(r, t, ledgers), s.revision = r.revision + 1
  PROVE  Agree(s, Append(t, Timeout), ledgers)
<1> DEFINE u == Append(t, Timeout)
<1>1. /\ u \in Seq(Entry) /\ Len(u) = Len(t) + 1 /\ u[Len(t) + 1] = Timeout
      /\ \A k \in 1 .. Len(t) : u[k] = t[k]
  BY TimeoutAppended
<1> HIDE DEF u
<1>2. TimeoutsAfter(t, u, Len(u)) /\ Len(u) \in Nat
  BY <1>1 DEF TimeoutsAfter
<1>3. \A p \in Player : LedgerOK(ledgers[p], p, u)
  <2> SUFFICES ASSUME NEW p \in Player PROVE LedgerOK(ledgers[p], p, u)
    OBVIOUS
  <2>1. LedgerOK(ledgers[p], p, t)
    BY DEF Agree
  <2>2. \A k \in Len(u) + 1 .. Len(u) : u[k] # Timeout => u[k].envelope.player # p
    BY <1>1
  <2> QED BY <1>1, <1>2, <2>1, <2>2, SameLedgerOK
<1>4. Older(u)
  BY <1>1 DEF Agree, Older
<1>5. s.revision = Len(u)
  BY <1>1 DEF Agree
<1> QED BY <1>3, <1>4, <1>5 DEF Agree, u

LEMMA CommandAgrees ==
  ASSUME NEW t \in Seq(Entry), NEW u \in Seq(Entry), NEW r, NEW s,
         NEW ledgers \in [Player -> Seq(Receipts)], NEW e \in Envelope,
         Agree(r, t, ledgers), e.revision = r.revision, s.revision = Len(u),
         Len(u) >= 1, TimeoutsAfter(t, u, Len(u) - 1), u[Len(u)] = Executed(e)
  PROVE  Agree(s, u, [ledgers EXCEPT ![e.player] = WithReceipt(@, e)])
<1> DEFINE after == [ledgers EXCEPT ![e.player] = WithReceipt(@, e)]
<1>1. e.player \in Player
  BY DEF Envelope
<1>2. /\ after[e.player] = WithReceipt(ledgers[e.player], e)
      /\ \A p \in Player : p # e.player => after[p] = ledgers[p]
  BY <1>1
<1> HIDE DEF after
<1>3. Executed(e) # Timeout /\ Executed(e).envelope = e
  BY EntryTyped
<1>4. \A p \in Player : LedgerOK(after[p], p, u)
  <2> SUFFICES ASSUME NEW p \in Player PROVE LedgerOK(after[p], p, u)
    OBVIOUS
  <2>1. LedgerOK(ledgers[p], p, t) /\ ledgers[p] \in Seq(Receipts)
    BY DEF Agree
  <2>2. CASE p = e.player
    BY <1>2, <2>1, <2>2, CommandKeepsLedger
  <2>3. CASE p # e.player
    <3>1. \A k \in (Len(u) - 1) + 1 .. Len(u) : u[k] # Timeout => u[k].envelope.player # p
      <4>1. \A k \in (Len(u) - 1) + 1 .. Len(u) : k = Len(u)
        OBVIOUS
      <4> QED BY <1>3, <2>3, <4>1
    <3>2. Len(u) - 1 \in Nat
      OBVIOUS
    <3>3. LedgerOK(ledgers[p], p, u)
      BY <2>1, <3>1, <3>2, SameLedgerOK
    <3> QED BY <1>2, <2>3, <3>3
  <2> QED BY <2>2, <2>3
<1>5. Older(u)
  <2> SUFFICES ASSUME NEW k \in DOMAIN u, u[k] # Timeout PROVE u[k].envelope.revision < k
    BY DEF Older
  <2>1. CASE k \in 1 .. Len(t)
    BY <2>1 DEF Agree, Older, TimeoutsAfter
  <2>2. CASE k = Len(u)
    BY <1>3, <2>2 DEF Agree, TimeoutsAfter
  <2>3. k \in 1 .. Len(t) \/ k \in Len(t) + 1 .. Len(u) - 1 \/ k = Len(u)
    OBVIOUS
  <2> QED BY <2>1, <2>2, <2>3 DEF TimeoutsAfter
<1> QED BY <1>4, <1>5 DEF Agree, after

LEMMA IInvInit == Init => IInv
<1> SUFFICES ASSUME Init PROVE IInv
  OBVIOUS
<1>1. Typed
  BY TypeInit
<1>2. room.revision = 0 /\ transcript = <<>> /\ txn = NoTxn
      /\ \A p \in Player : receipts[p] = <<>>
  BY DEF Init, Room
<1>3. \A p \in Player : LedgerOK(receipts[p], p, transcript)
  BY <1>2 DEF LedgerOK, OnePerNonce, Backed, KeepsLatest, ExecutedBy
<1>4. Older(transcript) /\ room.revision = Len(transcript)
  BY <1>2 DEF Older
<1> QED BY <1>1, <1>2, <1>3, <1>4 DEF IInv, SettledOK, OpenOK, Agree

LEMMA SettledNext == IInv /\ [Next]_vars => SettledOK'
<1> SUFFICES ASSUME TypeOK, CopyIsLedger, SettledOK, OpenOK, [Next]_vars PROVE SettledOK'
  BY DEF IInv, Typed
<1>0. /\ transcript \in Seq(Entry) /\ room \in RoomState /\ receipts \in [Player -> Seq(Receipts)]
      /\ txn # NoTxn => txn \in Transaction
  BY DEF TypeOK
<1>1. CASE DeadlinePasses \/ UNCHANGED vars \/ Done
  BY <1>1 DEF DeadlinePasses, Done, vars, SettledOK
<1>2. CASE ExpirePhase
  <2>1. PICK ends \in BOOLEAN : room' = TimedOut(room, ends)
    BY <1>2 DEF ExpirePhase
  <2>2. room'.revision = room.revision + 1
    BY <1>0, <2>1, TimedOutTyped
  <2>3. /\ txn = NoTxn /\ txn' = NoTxn /\ receipts' = receipts
        /\ transcript' = Append(transcript, Timeout)
    BY <1>2 DEF ExpirePhase
  <2>4. Agree(room', transcript', receipts)
    BY <1>0, <2>2, <2>3, TimeoutAgrees DEF SettledOK
  <2> QED BY <2>3, <2>4 DEF SettledOK
<1>3. CASE ExpireDisconnects \/ \E p \in Player : DisconnectPlayer(p) \/ ReconnectPlayer(p)
  <2>1. room'.revision = room.revision
    BY <1>0, <1>3 DEF ExpireDisconnects, DisconnectPlayer, ReconnectPlayer, RoomState
  <2>2. txn = NoTxn /\ txn' = NoTxn /\ receipts' = receipts /\ transcript' = transcript
    BY <1>3 DEF ExpireDisconnects, DisconnectPlayer, ReconnectPlayer
  <2> QED BY <2>1, <2>2 DEF SettledOK, Agree
<1>4. ASSUME NEW e \in Envelope, AnswerRetry(e) PROVE SettledOK'
  <2>1. /\ txn = NoTxn /\ txn' = NoTxn /\ room' = room /\ transcript' = transcript
        /\ e.player \in Player
    BY <1>4 DEF AnswerRetry, Envelope
  <2>2. PICK i \in ReceiptsFor(e.player, e.nonce) :
          receipts' = [receipts EXCEPT ![e.player] = Append(Without(@, e.nonce), @[i])]
    BY <1>4 DEF AnswerRetry
  <2> DEFINE ledger == receipts[e.player]
  <2>3. i \in DOMAIN ledger /\ ledger[i].nonce = e.nonce /\ ledger \in Seq(Receipts)
    BY <1>0, <2>1, <2>2 DEF ReceiptsFor, EntriesFor
  <2>4. /\ receipts'[e.player] = Append(Without(ledger, ledger[i].nonce), ledger[i])
        /\ \A p \in Player : p # e.player => receipts'[p] = receipts[p]
    BY <1>0, <2>1, <2>2, <2>3
  <2>5. \A p \in Player : LedgerOK(receipts[p], p, transcript)
    BY <2>1 DEF SettledOK, Agree
  <2>6. LedgerOK(receipts'[e.player], e.player, transcript)
    <3>1. LedgerOK(ledger, e.player, transcript)
      BY <2>1, <2>5
    <3> HIDE DEF ledger
    <3> QED BY <1>0, <2>1, <2>3, <2>4, <3>1, RetryKeepsLedger
  <2>7. \A p \in Player : LedgerOK(receipts'[p], p, transcript)
    BY <2>4, <2>5, <2>6
  <2> QED BY <2>1, <2>7 DEF SettledOK, Agree
<1>5. ASSUME NEW e \in Envelope, Begin(e) PROVE SettledOK'
  <2>1. /\ txn = NoTxn /\ txn'.room = room /\ txn'.transcript = transcript
        /\ receipts' = receipts /\ room' = room /\ transcript' = transcript
    BY <1>5 DEF Begin
  <2> QED BY <2>1 DEF SettledOK
<1>6. CASE NestedExpiry \/ Mutate \/ AdvanceRevision \/ AppendTranscript
  <2>1. txn # NoTxn /\ txn \in Transaction /\ receipts' = receipts
    BY <1>0, <1>6 DEF NestedExpiry, Mutate, AdvanceRevision, AppendTranscript, At
  <2>2. txn'.room = txn.room /\ txn'.transcript = txn.transcript
    BY <1>6, <2>1 DEF NestedExpiry, Mutate, AdvanceRevision, AppendTranscript, Transaction
  <2>3. txn' # NoTxn
    BY <1>6, <2>1, StaysOpen, NoTxnAssumption
  <2> QED BY <2>1, <2>2, <2>3 DEF SettledOK
<1>7. CASE Commit
  <2>1. /\ txn # NoTxn /\ txn.at = "receipt" /\ txn \in Transaction
        /\ txn' = NoTxn /\ room' = room /\ transcript' = transcript
        /\ receipts' = [receipts EXCEPT ![txn.envelope.player] = WithReceipt(@, txn.envelope)]
    BY <1>0, <1>7 DEF Commit, At
  <2>2. txn.envelope \in Envelope /\ txn.transcript \in Seq(Entry)
    BY <2>1, TransactionFields
  <2>3. /\ Agree(txn.room, txn.transcript, receipts)
        /\ txn.envelope.revision = txn.room.revision
        /\ TimeoutsAfter(txn.transcript, transcript, Len(transcript) - 1)
        /\ transcript[Len(transcript)] = Executed(txn.envelope)
        /\ room.revision = Len(transcript)
    BY <1>0, <2>1 DEF SettledOK, OpenOK, Own
  <2>4. Len(transcript) >= 1
    BY <1>0, <2>2, <2>3 DEF TimeoutsAfter
  <2>5. Agree(room, transcript, receipts')
    BY <1>0, <2>1, <2>2, <2>3, <2>4, CommandAgrees
  <2> QED BY <2>1, <2>5 DEF SettledOK
<1>8. CASE Rollback
  <2>1. /\ txn # NoTxn /\ txn' = NoTxn /\ room' = txn.room /\ transcript' = txn.transcript
        /\ receipts' = [receipts EXCEPT ![txn.envelope.player] = txn.receipts]
    BY <1>8 DEF Rollback
  <2>2. receipts' = receipts
    BY <1>0, <2>1 DEF CopyIsLedger
  <2> QED BY <2>1, <2>2 DEF SettledOK
<1> QED BY <1>1, <1>2, <1>3, <1>4, <1>5, <1>6, <1>7, <1>8 DEF Next

LEMMA OpenNext == IInv /\ [Next]_vars => OpenOK'
<1> SUFFICES ASSUME TypeOK, SettledOK, OpenOK, [Next]_vars PROVE OpenOK'
  BY DEF IInv, Typed
<1>0. /\ transcript \in Seq(Entry) /\ room \in RoomState
      /\ txn # NoTxn => txn \in Transaction
  BY DEF TypeOK
<1>1. CASE txn' = NoTxn
  BY <1>1 DEF OpenOK
<1>2. CASE UNCHANGED vars
  BY <1>2 DEF vars, OpenOK, Own
<1>3. ASSUME NEW e \in Envelope, Begin(e) PROVE OpenOK'
  <2>1. /\ txn'.room = room /\ txn'.transcript = transcript /\ txn'.envelope = e
        /\ txn'.at = "check" /\ txn'.pending = 0 /\ txn = NoTxn
        /\ ~room.over /\ e.revision = room.revision
        /\ room' = room /\ transcript' = transcript
    BY <1>3 DEF Begin, Admissible
  <2>2. room.revision = Len(transcript)
    BY <2>1 DEF SettledOK, Agree
  <2>3. TimeoutsAfter(transcript, transcript, Len(transcript))
    BY <1>0 DEF TimeoutsAfter
  <2> QED BY <1>0, <2>1, <2>2, <2>3 DEF OpenOK, Own, Announced
<1>4. CASE txn # NoTxn /\ NestedExpiry
  <2>1. PICK ends \in BOOLEAN :
          /\ room' = TimedOut(room, ends)
          /\ txn' = [txn EXCEPT !.at = IF @ = "check" THEN "run" ELSE "advance",
                                !.pending = @ + Announced(ends)]
    BY <1>4 DEF NestedExpiry
  <2>2. txn \in Transaction /\ txn.pending \in Nat
    BY <1>0, <1>4, TransactionFields
  <2>3. /\ txn'.room = txn.room /\ txn'.transcript = txn.transcript
        /\ txn'.envelope = txn.envelope
        /\ txn'.at \in {"run", "advance"} /\ txn'.pending = txn.pending + Announced(ends)
        /\ txn.at \in {"check", "answer"}
    BY <1>4, <2>1, <2>2 DEF Transaction, NestedExpiry, At
  <2>4. /\ room'.revision = room.revision + 1 /\ room'.over = ends /\ ~room.over
        /\ room.revision \in Nat
    <3>1. ~room.over /\ room.over \in BOOLEAN /\ room.revision \in Nat
      BY <1>0, <1>4 DEF NestedExpiry, Overdue, RoomState
    <3>2. /\ TimedOut(room, ends).revision = room.revision + 1
          /\ TimedOut(room, ends).over = (room.over \/ ends)
      BY <1>0, TimedOutTyped
    <3>3. (room.over \/ ends) = ends
      BY <3>1
    <3> QED BY <2>1, <3>1, <3>2, <3>3
  <2>5. transcript' = Append(transcript, Timeout)
    BY <1>4 DEF NestedExpiry
  <2>6. /\ TimeoutsAfter(txn.transcript, transcript, Len(transcript))
        /\ room.revision = Len(transcript) /\ txn.pending = 0
        /\ ~txn.room.over /\ txn.envelope.revision = txn.room.revision
    BY <1>4, <2>3, <2>4 DEF OpenOK, Own, Announced
  <2>7. txn.transcript \in Seq(Entry)
    BY <2>2, TransactionFields
  <2>8. TimeoutsAfter(txn.transcript, transcript', Len(transcript'))
    <3>1. /\ Len(transcript') = Len(transcript) + 1
          /\ \A k \in 1 .. Len(transcript) : transcript'[k] = transcript[k]
          /\ transcript'[Len(transcript) + 1] = Timeout
      BY <1>0, <2>5, TimeoutAppended
    <3>2. \A k \in Len(txn.transcript) + 1 .. Len(transcript') :
            k \in Len(txn.transcript) + 1 .. Len(transcript) \/ k = Len(transcript) + 1
      BY <1>0, <2>7, <3>1
    <3>3. \A k \in 1 .. Len(txn.transcript) : k \in 1 .. Len(transcript)
      BY <1>0, <2>6, <2>7 DEF TimeoutsAfter
    <3>4. \A k \in Len(txn.transcript) + 1 .. Len(transcript) : k \in 1 .. Len(transcript)
      BY <1>0, <2>7
    <3> QED BY <1>0, <2>6, <2>7, <3>1, <3>2, <3>3, <3>4 DEF TimeoutsAfter
  <2>9. room'.revision = Len(transcript')
    BY <1>0, <2>4, <2>5, <2>6, TimeoutAppended
  <2>10. txn'.pending = Announced(room'.over)
    BY <2>3, <2>4, <2>6 DEF Announced
  <2> QED BY <2>3, <2>6, <2>8, <2>9, <2>10 DEF OpenOK, Own
<1>5. CASE txn # NoTxn /\ Mutate
  <2>1. PICK ends \in BOOLEAN :
          /\ \/ ends /\ room' = [room EXCEPT !.over = TRUE]
             \/ ~ends /\ room' = room
             \/ room' = TurnCompleted(room, ends)
          /\ txn' = [txn EXCEPT !.at = "answer", !.pending = @ + Announced(ends)]
    BY <1>5 DEF Mutate
  <2>2. txn \in Transaction
    BY <1>0, <1>5
  <2>3. /\ txn'.room = txn.room /\ txn'.transcript = txn.transcript
        /\ txn'.envelope = txn.envelope
        /\ txn'.at = "answer" /\ txn'.pending = txn.pending + Announced(ends)
        /\ txn.at \in {"check", "run"}
    BY <1>5, <2>1, <2>2 DEF Transaction, Mutate, At
  <2>4. ~room.over /\ room.over \in BOOLEAN
    BY <1>0, <1>5 DEF Mutate, RoomState
  <2>5. room'.revision = room.revision /\ room'.over = ends
    <3>1. CASE ends /\ room' = [room EXCEPT !.over = TRUE]
      <4>1. room'.revision = room.revision /\ room'.over = TRUE
        BY <1>0, <3>1 DEF RoomState
      <4> QED BY <3>1, <4>1
    <3>2. CASE ~ends /\ room' = room
      BY <2>4, <3>2
    <3>3. CASE room' = TurnCompleted(room, ends)
      <4>1. /\ TurnCompleted(room, ends).revision = room.revision
            /\ TurnCompleted(room, ends).over = (room.over \/ ends)
        BY <1>0, TimedOutTyped
      <4>2. (room.over \/ ends) = ends
        BY <2>4
      <4> QED BY <3>3, <4>1, <4>2
    <3> QED BY <2>1, <3>1, <3>2, <3>3
  <2>6. transcript' = transcript
    BY <1>5 DEF Mutate
  <2>7. /\ TimeoutsAfter(txn.transcript, transcript, Len(transcript))
        /\ room.revision = Len(transcript) /\ txn.pending = 0
        /\ ~txn.room.over /\ txn.envelope.revision = txn.room.revision
    BY <1>0, <1>5, <2>3, <2>4 DEF OpenOK, Own, Announced
  <2>8. txn'.pending = Announced(room'.over)
    BY <2>3, <2>5, <2>7 DEF Announced
  <2> QED BY <1>0, <2>3, <2>5, <2>6, <2>7, <2>8 DEF OpenOK, Own
<1>6. CASE txn # NoTxn /\ AdvanceRevision
  <2>1. txn \in Transaction
    BY <1>0, <1>6
  <2>2. /\ txn'.room = txn.room /\ txn'.transcript = txn.transcript
        /\ txn'.envelope = txn.envelope /\ txn'.at = "record" /\ txn'.pending = txn.pending
        /\ txn.at \in {"answer", "advance"} /\ transcript' = transcript
    BY <1>6, <2>1 DEF Transaction, AdvanceRevision, At
  <2>3. /\ room'.revision = room.revision + 1 /\ room'.over = room.over
    BY <1>0, <1>6 DEF AdvanceRevision, RoomState
  <2> QED BY <1>0, <1>6, <2>2, <2>3 DEF OpenOK, Own
<1>7. CASE txn # NoTxn /\ AppendTranscript
  <2>1. txn \in Transaction /\ txn.transcript \in Seq(Entry) /\ Executed(txn.envelope) \in Entry
    BY <1>0, <1>7, TransactionFields, EntryTyped
  <2>2. /\ txn'.room = txn.room /\ txn'.transcript = txn.transcript
        /\ txn'.envelope = txn.envelope /\ txn'.at = "receipt" /\ txn'.pending = txn.pending
        /\ txn.at = "record" /\ room' = room
        /\ transcript' = Append(transcript, Executed(txn.envelope))
    BY <1>7, <2>1 DEF Transaction, AppendTranscript, At
  <2>3. /\ Len(transcript') = Len(transcript) + 1
        /\ \A k \in 1 .. Len(transcript) : transcript'[k] = transcript[k]
        /\ transcript'[Len(transcript')] = Executed(txn.envelope)
    BY <1>0, <2>1, <2>2
  <2>4. /\ TimeoutsAfter(txn.transcript, transcript, Len(transcript))
        /\ room.revision = Len(transcript) + 1 /\ txn.pending = Announced(room.over)
        /\ ~txn.room.over /\ txn.envelope.revision = txn.room.revision
    BY <1>7, <2>2 DEF OpenOK, Own
  <2>5. TimeoutsAfter(txn.transcript, transcript', Len(transcript') - 1)
    <3>1. Len(transcript') - 1 = Len(transcript) /\ Len(transcript) \in Nat
      BY <1>0, <2>3
    <3>2. /\ \A k \in 1 .. Len(txn.transcript) : k \in 1 .. Len(transcript)
          /\ \A k \in Len(txn.transcript) + 1 .. Len(transcript) : k \in 1 .. Len(transcript)
      BY <1>0, <2>1, <2>4 DEF TimeoutsAfter
    <3> QED BY <2>3, <2>4, <3>1, <3>2 DEF TimeoutsAfter
  <2> QED BY <2>2, <2>3, <2>4, <2>5 DEF OpenOK, Own
<1>8. CASE txn = NoTxn /\ txn' # NoTxn
  <2>1. \E e \in Envelope : Begin(e)
    BY <1>8
       DEF Next, vars, DeadlinePasses, ExpirePhase, DisconnectPlayer, ReconnectPlayer,
           ExpireDisconnects, AnswerRetry, NestedExpiry, Mutate, AdvanceRevision,
           AppendTranscript, Commit, Rollback, Done, At
  <2> QED BY <1>3, <2>1
<1>9. CASE txn # NoTxn /\ txn' # NoTxn
  <2>1. NestedExpiry \/ Mutate \/ AdvanceRevision \/ AppendTranscript \/ DeadlinePasses
        \/ UNCHANGED vars
    BY <1>9
       DEF Next, ExpirePhase, DisconnectPlayer, ReconnectPlayer, ExpireDisconnects,
           AnswerRetry, Begin, Commit, Rollback, Done
  <2>2. CASE DeadlinePasses
    BY <2>2 DEF DeadlinePasses, OpenOK, Own
  <2> QED BY <1>2, <1>4, <1>5, <1>6, <1>7, <1>9, <2>1, <2>2
<1> QED BY <1>1, <1>8, <1>9

LEMMA IInvAlways == Spec => []IInv
<1>1. IInv /\ [Next]_vars => IInv'
  BY TypeNext, CopyNext, SettledNext, OpenNext DEF IInv, Typed
<1> QED BY <1>1, IInvInit, PTL DEF Spec

(* Between transactions the revision counts the commands and the timeouts of *)
(* the transcript, whatever failed (manager.py except block).                *)
THEOREM RevisionAlwaysCounts == Spec => []RevisionCountsTranscript
<1>1. IInv => RevisionCountsTranscript
  BY DEF IInv, SettledOK, Agree, RevisionCountsTranscript
<1> QED BY <1>1, IInvAlways, PTL

(* Between transactions every receipt stands for an executed command, a      *)
(* nonce has one receipt, and the latest command of a player has its own.    *)
THEOREM ReceiptsAlwaysMatch == Spec => []ReceiptsMatchTranscript
<1>1. IInv => ReceiptsMatchTranscript
  <2> SUFFICES ASSUME IInv, txn = NoTxn, NEW p \in Player
               PROVE  /\ \A i \in DOMAIN receipts[p] :
                           /\ ReceiptsFor(p, receipts[p][i].nonce) = {i}
                           /\ \E k \in ExecutedBy(p, transcript) :
                                Receipt(transcript[k].envelope) = receipts[p][i]
                      /\ \A k \in ExecutedBy(p, transcript) :
                           (\A l \in ExecutedBy(p, transcript) : l <= k) =>
                             \E i \in DOMAIN receipts[p] :
                               receipts[p][i] = Receipt(transcript[k].envelope)
    BY DEF ReceiptsMatchTranscript
  <2>1. LedgerOK(receipts[p], p, transcript)
    BY DEF IInv, SettledOK, Agree
  <2>2. \A i \in DOMAIN receipts[p] : ReceiptsFor(p, receipts[p][i].nonce) = {i}
    BY <2>1 DEF LedgerOK, OnePerNonce, ReceiptsFor, EntriesFor
  <2> QED BY <2>1, <2>2 DEF LedgerOK, Backed, KeepsLatest
<1> QED BY <1>1, IInvAlways, PTL

-----------------------------------------------------------------------------
(* The contract *)

DoneIn(t) == {t[i].envelope : i \in {k \in DOMAIN t : t[k] # Timeout}}

LEMMA SettledFields ==
  /\ txn = NoTxn => Settled.room = room /\ Settled.transcript = transcript
  /\ txn # NoTxn => Settled.room = txn.room /\ Settled.transcript = txn.transcript
BY DEF Settled

LEMMA TimeoutDoesNothing ==
  ASSUME NEW t \in Seq(Entry)
  PROVE  DoneIn(Append(t, Timeout)) = DoneIn(t)
<1> DEFINE u == Append(t, Timeout)
<1>1. /\ DOMAIN u = 1 .. Len(t) + 1 /\ DOMAIN t = 1 .. Len(t)
      /\ \A k \in 1 .. Len(t) : u[k] = t[k]
      /\ u[Len(t) + 1] = Timeout
  BY EntryTyped
<1> HIDE DEF u
<1>2. {k \in DOMAIN u : u[k] # Timeout} = {k \in DOMAIN t : t[k] # Timeout}
  BY <1>1
<1> QED BY <1>1, <1>2 DEF DoneIn, u

(* A command takes effect once: an envelope names the revision it moves.    *)
LEMMA CommandIsDone ==
  ASSUME NEW t \in Seq(Entry), NEW u \in Seq(Entry), NEW e \in Envelope,
         Older(t), e.revision = Len(t), Len(u) >= 1,
         TimeoutsAfter(t, u, Len(u) - 1), u[Len(u)] = Executed(e)
  PROVE  e \notin DoneIn(t) /\ DoneIn(u) = DoneIn(t) \cup {e}
<1>1. e \notin DoneIn(t)
  <2> SUFFICES ASSUME NEW k \in DOMAIN t, t[k] # Timeout, t[k].envelope = e PROVE FALSE
    BY DEF DoneIn
  <2>1. e.revision < k /\ k <= Len(t)
    BY DEF Older
  <2> QED BY <2>1
<1>2. Executed(e) # Timeout /\ Executed(e).envelope = e
  BY EntryTyped
<1>3. ASSUME NEW x \in DoneIn(u) PROVE x \in DoneIn(t) \cup {e}
  <2>1. PICK k \in DOMAIN u : u[k] # Timeout /\ u[k].envelope = x
    BY <1>3 DEF DoneIn
  <2>2. CASE k \in 1 .. Len(t)
    BY <2>1, <2>2 DEF DoneIn, TimeoutsAfter
  <2>3. CASE k = Len(u)
    BY <1>2, <2>1, <2>3
  <2>4. k \in 1 .. Len(t) \/ k \in Len(t) + 1 .. Len(u) - 1 \/ k = Len(u)
    OBVIOUS
  <2> QED BY <2>1, <2>2, <2>3, <2>4 DEF TimeoutsAfter
<1>4. ASSUME NEW x \in DoneIn(t) PROVE x \in DoneIn(u)
  <2>1. PICK k \in DOMAIN t : t[k] # Timeout /\ t[k].envelope = x
    BY <1>4 DEF DoneIn
  <2>2. k \in DOMAIN u /\ u[k] = t[k]
    BY DEF TimeoutsAfter
  <2> QED BY <2>1, <2>2 DEF DoneIn
<1>5. e \in DoneIn(u)
  BY <1>2 DEF DoneIn
<1> QED BY <1>1, <1>3, <1>4, <1>5

LEMMA ContractInit == Init => Contract!Init
<1> SUFFICES ASSUME Init PROVE Contract!Init
  OBVIOUS
<1>1. txn = NoTxn /\ transcript = <<>> /\ published = 0
      /\ room.revision = 0 /\ room.over = FALSE
  BY DEF Init, Room
<1>2. Settled.room = room /\ Settled.transcript = <<>>
  BY <1>1, SettledFields
<1> QED BY <1>1, <1>2 DEF Contract!Init

LEMMA ContractNext == IInv /\ IInv' /\ [Next]_vars => [Contract!Next]_(Contract!contractVars)
<1> SUFFICES ASSUME TypeOK, TypeOK', SettledOK, OpenOK, [Next]_vars
             PROVE  [Contract!Next]_(Contract!contractVars)
  BY DEF IInv, Typed
<1> DEFINE
  rev == Settled.room.revision
  over == Settled.room.over
  did == DoneIn(Settled.transcript)
<1>0. /\ transcript \in Seq(Entry) /\ room \in RoomState
      /\ txn # NoTxn => txn \in Transaction
  BY DEF TypeOK
<1>s. /\ Settled.room = IF txn = NoTxn THEN room ELSE txn.room
      /\ Settled.transcript = IF txn = NoTxn THEN transcript ELSE txn.transcript
      /\ Settled'.room = IF txn' = NoTxn THEN room' ELSE txn'.room
      /\ Settled'.transcript = IF txn' = NoTxn THEN transcript' ELSE txn'.transcript
  BY DEF Settled
<1>e. ASSUME rev' = rev, over' = over, did' = did, published' = published
      PROVE  UNCHANGED Contract!contractVars
  BY <1>e DEF Contract!contractVars, DoneIn
<1>1. CASE UNCHANGED vars \/ DeadlinePasses \/ Done
  <2>1. Settled' = Settled /\ published' = published
    BY <1>1 DEF DeadlinePasses, Done, vars, Settled
  <2> QED BY <1>e, <2>1
<1>2. CASE ExpirePhase
  <2>1. PICK ends \in BOOLEAN : /\ room' = TimedOut(room, ends)
                               /\ published' = published + Announced(ends)
    BY <1>2 DEF ExpirePhase
  <2>2. /\ ~room.over /\ transcript' = Append(transcript, Timeout)
        /\ txn = NoTxn /\ txn' = NoTxn
    BY <1>2 DEF ExpirePhase, Overdue
  <2>3. room'.revision = room.revision + 1 /\ room'.over = ends /\ room.over = FALSE
    <3>1. room.over \in BOOLEAN
      BY <1>0 DEF RoomState
    <3>2. /\ TimedOut(room, ends).revision = room.revision + 1
          /\ TimedOut(room, ends).over = (room.over \/ ends)
      BY <1>0, TimedOutTyped
    <3>3. (room.over \/ ends) = ends
      BY <2>2
    <3> QED BY <2>1, <2>2, <3>1, <3>2, <3>3
  <2>4. rev' = rev + 1 /\ over = FALSE /\ over' = ends /\ did' = did
    BY <1>0, <1>s, <2>2, <2>3, TimeoutDoesNothing
  <2>5. Contract!MayEnd
    <3>1. CASE ends
      BY <2>1, <2>4, <3>1 DEF Contract!MayEnd, Announced
    <3>2. CASE ~ends
      <4>1. over' = over
        BY <2>4, <3>2
      <4>2. published' = published
        BY <2>1, <3>2 DEF Announced, TypeOK
      <4> QED BY <4>1, <4>2 DEF Contract!MayEnd
    <3> QED BY <3>1, <3>2
  <2> QED BY <2>4, <2>5 DEF Contract!Next, Contract!Continue, DoneIn
<1>3. CASE ExpireDisconnects
  <2>1. /\ txn = NoTxn /\ txn' = NoTxn /\ transcript' = transcript
        /\ ~room.over /\ published' = published + 1
        /\ room'.revision = room.revision /\ room'.over = TRUE
    BY <1>0, <1>3 DEF ExpireDisconnects, RoomState
  <2>2. rev' = rev /\ ~over /\ over' = TRUE /\ did' = did
    BY <1>s, <2>1
  <2> QED BY <2>1, <2>2 DEF Contract!Next, Contract!Abandon, DoneIn
<1>4. CASE \/ \E p \in Player : DisconnectPlayer(p) \/ ReconnectPlayer(p)
           \/ \E e \in Envelope : AnswerRetry(e)
  <2>1. /\ txn = NoTxn /\ txn' = NoTxn /\ transcript' = transcript
        /\ published' = published
        /\ room'.revision = room.revision /\ room'.over = room.over
    BY <1>0, <1>4 DEF DisconnectPlayer, ReconnectPlayer, AnswerRetry, RoomState
  <2>2. rev' = rev /\ over' = over /\ did' = did
    BY <1>s, <2>1
  <2> QED BY <1>e, <2>1, <2>2
<1>5. ASSUME NEW e \in Envelope, Begin(e) PROVE [Contract!Next]_(Contract!contractVars)
  <2>1. /\ txn = NoTxn /\ room' = room /\ transcript' = transcript /\ published' = published
        /\ txn'.room = room /\ txn'.transcript = transcript
    BY <1>5 DEF Begin
  <2>2. rev' = rev /\ over' = over /\ did' = did
    BY <1>s, <2>1
  <2> QED BY <1>e, <2>1, <2>2
<1>6. CASE NestedExpiry \/ Mutate \/ AdvanceRevision \/ AppendTranscript
  <2>1. txn # NoTxn /\ txn \in Transaction /\ published' = published
    BY <1>0, <1>6 DEF NestedExpiry, Mutate, AdvanceRevision, AppendTranscript, At
  <2>2. txn'.room = txn.room /\ txn'.transcript = txn.transcript
    BY <1>6, <2>1 DEF NestedExpiry, Mutate, AdvanceRevision, AppendTranscript, Transaction
  <2>3. txn' # NoTxn
    BY <1>6, <2>1, StaysOpen, NoTxnAssumption
  <2>4. rev' = rev /\ over' = over /\ did' = did
    BY <1>s, <2>1, <2>2, <2>3
  <2> QED BY <1>e, <2>1, <2>4
<1>7. CASE Rollback
  <2>1. /\ txn # NoTxn /\ txn' = NoTxn /\ room' = txn.room /\ transcript' = txn.transcript
        /\ published' = published
    BY <1>7 DEF Rollback
  <2>2. rev' = rev /\ over' = over /\ did' = did
    BY <1>s, <2>1
  <2> QED BY <1>e, <2>1, <2>2
<1>8. CASE Commit
  <2>1. /\ txn # NoTxn /\ txn.at = "receipt" /\ txn \in Transaction
        /\ txn' = NoTxn /\ room' = room /\ transcript' = transcript
        /\ published' = published + txn.pending
    BY <1>0, <1>8 DEF Commit, At
  <2>2. txn.transcript \in Seq(Entry) /\ txn.room \in RoomState
    BY <2>1, TransactionFields
  <2>c. PICK e \in Envelope : e = txn.envelope
    BY <2>1, TransactionFields
  <2>3. /\ txn.room.revision = Len(txn.transcript) /\ Older(txn.transcript)
        /\ ~txn.room.over /\ e.revision = txn.room.revision
        /\ TimeoutsAfter(txn.transcript, transcript, Len(transcript) - 1)
        /\ transcript[Len(transcript)] = Executed(e)
        /\ room.revision = Len(transcript)
        /\ txn.pending = Announced(room.over)
    BY <1>0, <2>c, <2>1 DEF SettledOK, Agree, OpenOK, Own
  <2>4. Len(transcript) >= 1 /\ room.revision > txn.room.revision
    BY <1>0, <2>2, <2>3 DEF TimeoutsAfter
  <2>5. e \notin DoneIn(txn.transcript) /\ DoneIn(transcript) = DoneIn(txn.transcript) \cup {e}
    BY <1>0, <2>2, <2>3, <2>4, CommandIsDone
  <2>6. /\ rev = e.revision /\ rev' > rev /\ e \notin did /\ did' = did \cup {e}
        /\ ~over /\ over' = room.over
    BY <1>s, <2>1, <2>3, <2>4, <2>5
  <2>7. Contract!MayEnd
    <3>1. room.over \in BOOLEAN /\ txn.room.over = FALSE /\ over = FALSE
      BY <1>0, <1>s, <2>1, <2>2, <2>3 DEF RoomState
    <3>2. CASE room.over
      BY <2>1, <2>3, <2>6, <3>1, <3>2 DEF Contract!MayEnd, Announced
    <3>3. CASE ~room.over
      <4>1. over' = over
        BY <2>6, <3>1, <3>3
      <4>2. published' = published
        BY <2>1, <2>3, <3>3 DEF Announced, TypeOK
      <4> QED BY <4>1, <4>2 DEF Contract!MayEnd
    <3> QED BY <3>2, <3>3
  <2>8. Contract!Apply(e)
    BY <2>6, <2>7 DEF Contract!Apply, DoneIn
  <2>9. Contract!Next
    BY <2>8 DEF Contract!Next
  <2> QED BY <2>9
<1> QED BY <1>1, <1>2, <1>3, <1>4, <1>5, <1>6, <1>7, <1>8 DEF Next

(* Whatever failed and however often it was sent, an envelope takes effect   *)
(* as a whole or not at all, at most once and at the revision it names, and  *)
(* the end of the match is announced by the step that ends it (manager.py    *)
(* execute_player_command, runtime_store.py deferred callbacks).             *)
THEOREM RoomImplementsContract == Spec => ImplementsContract
<1>1. IInv /\ IInv' /\ [Next]_vars => [Contract!Next]_(Contract!contractVars)
  BY ContractNext
<1> QED BY <1>1, ContractInit, IInvAlways, PTL
   DEF Spec, ImplementsContract, Contract!Spec
=============================================================================
