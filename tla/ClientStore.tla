---------------------------- MODULE ClientStore ----------------------------
(***************************************************************************)
(* The browser's copy of a battle (phaser/store/game-store.js and          *)
(* network/socket-client.js) against the socket handlers that feed it.     *)
(* The store keeps the last snapshot it accepted, at most one queue        *)
(* command in flight, and the resume credential; the server handles the    *)
(* messages of a socket in threads of their own and broadcasts a snapshot  *)
(* in two steps (serialize, then emit), so snapshots may overtake each     *)
(* other; a connection may break, losing what is on the wire.              *)
(*                                                                         *)
(* The server side is what the handlers in web/battle_v2_sockets.py show   *)
(* this player: revision, turn, phase, who is away and the current resume  *)
(* token.  Three fields are kept for the properties only: "made" is the    *)
(* phase the revision began with, "heard" the newest revision a broadcast  *)
(* follows, and "foreign" the newest that no command of the store's        *)
(* present connection made.  update_queue is "order", end_turn is "end".   *)
(***************************************************************************)
EXTENDS Naturals, Sequences, SequencesExt, FiniteSets

CONSTANTS MaxMatch, MaxRevision, MaxEpoch,   \* matches, revisions, connections
          MaxDue, MaxDown,                   \* broadcasts under way, messages queued
          MaxRetired,                        \* matches left the store remembers
          NoView, NoCommand

VARIABLES store,    \* the GameStore
          server,   \* the player's match and credential on the server
          up,       \* what the player sent and no handler has taken
          due,      \* broadcasts that have yet to serialize the match
          taken,    \* serialized snapshots not yet emitted
          down,     \* what was emitted to the player's socket
          unseen,   \* broken connections the server has yet to notice
          dropped,  \* the rate limit swallowed the pending command
          crossed,  \* an error of another request released a command
          strayed   \* matches the store turned away from without leaving them

QueueKind == {"plan", "order", "confirm", "end"}

Phase == {"planning", "review", "finished"}

ViewType == [match : 1 .. MaxMatch, rev : 0 .. MaxRevision, phase : Phase,
             mine : BOOLEAN, paused : BOOLEAN]
CommandType == [kind : QueueKind, rev : 0 .. MaxRevision, match : 1 .. MaxMatch]

ASSUME ClientAssumption ==
    /\ {MaxMatch, MaxRevision, MaxDue, MaxDown} \subseteq Nat
    /\ {MaxEpoch, MaxRetired} \subseteq Nat \ {0}
    /\ NoView \notin ViewType /\ NoCommand \notin CommandType

notes == <<crossed, strayed>>
clientVars == <<store, server, up, due, taken, down, unseen, dropped, notes>>

IsOver(board) == board.phase = "finished"
Live == server.match # 0 /\ ~IsOver(server)
Paused == server.away # {}

View == [match |-> server.match, rev |-> server.rev, phase |-> server.phase,
         mine |-> server.mine, paused |-> Paused]

\* A message carries a revision or a token; the connection it went out on and
\* the match that was shown are remembered for the properties only.
Message(kind, rev) ==
    [kind |-> kind, rev |-> rev, token |-> store.session, epoch |-> store.epoch,
     match |-> IF store.view = NoView THEN 0 ELSE store.view.match]

ClientInit ==
    /\ store = [epoch |-> 1, online |-> TRUE, resuming |-> FALSE, launching |-> FALSE,
                ignore |-> FALSE, view |-> NoView, pending |-> NoCommand,
                retired |-> <<>>, session |-> 0]
    /\ server = [match |-> 0, rev |-> 0, phase |-> "planning", mine |-> FALSE, away |-> {},
                 token |-> 0, room |-> 0, made |-> "planning", heard |-> 0, foreign |-> 0]
    /\ up = {} /\ due = 0 /\ taken = {} /\ down = <<>> /\ unseen = 0 /\ dropped = FALSE
    /\ crossed = FALSE /\ strayed = {}

-----------------------------------------------------------------------------
(* The player at the store.                                                *)

ControlsLocked ==
    \/ ~store.online \/ store.resuming
    \/ store.pending # NoCommand
    \/ store.view.paused \/ IsOver(store.view) \/ ~store.view.mine

Pending(kind) == [kind |-> kind, rev |-> store.view.rev, match |-> store.view.match]

\* addAction, confirmQueue and endTurn, through beginCommand; confirming sends
\* the order first and the confirmation when its answer arrives.
SendCommand(kind) ==
    /\ store.view # NoView
    /\ ~ControlsLocked
    /\ kind = "order" => store.view.phase = "review"
    /\ store' = [store EXCEPT !.pending = Pending(kind)]
    /\ up' = up \cup {Message(kind, store.view.rev)}
    /\ dropped' = FALSE
    /\ UNCHANGED <<server, due, taken, down, unseen, notes>>

Retired(match) == match \in ToSet(store.retired)

\* retireMatchId: the match shown is none of those retired; the oldest is forgotten.
Retire ==
    LET grown == Append(store.retired, store.view.match)
    IN IF store.view = NoView THEN store.retired
       ELSE IF Len(grown) > MaxRetired THEN Tail(grown) ELSE grown

StartMatch ==
    /\ store.online /\ ~store.launching
    /\ store.view # NoView => IsOver(store.view)
    /\ store' = [store EXCEPT !.retired = Retire, !.view = NoView, !.session = 0,
                              !.ignore = FALSE, !.launching = TRUE]
    /\ up' = up \cup {Message("start", 0)}
    /\ UNCHANGED <<server, due, taken, down, unseen, dropped, notes>>

LaunchTimeout ==
    /\ store.launching
    /\ store' = [store EXCEPT !.launching = FALSE]
    /\ UNCHANGED <<server, up, due, taken, down, unseen, dropped, notes>>

LobbyStore == [store EXCEPT !.retired = Retire, !.view = NoView, !.pending = NoCommand,
                            !.resuming = FALSE, !.session = 0, !.launching = FALSE]

\* resetToLobby from the battle: a live match is surrendered beside any
\* command in flight, and nothing more is heard of it.
Leave ==
    /\ store.view # NoView
    /\ store' = [LobbyStore EXCEPT !.ignore = @ \/ ~IsOver(store.view)]
    /\ up' = IF IsOver(store.view) THEN up ELSE up \cup {Message("surrender", store.view.rev)}
    /\ UNCHANGED <<server, due, taken, down, unseen, dropped, notes>>

-----------------------------------------------------------------------------
(* The store's handlers.                                                   *)

BugAcceptOlder(v) == store.ignore \/ Retired(v.match)

Ignored(v) ==
    \/ store.ignore \/ Retired(v.match)
    \/ store.view # NoView /\ store.view.match = v.match /\ v.rev < store.view.rev

BugAnswersSame(v) == v.match = store.pending.match /\ v.rev >= store.pending.rev

Answers(v) == v.match = store.pending.match /\ v.rev > store.pending.rev

Frees(v) == store.pending # NoCommand /\ (v.match # store.pending.match \/ Answers(v))

Shown == ToSet(store.retired) \cup (IF store.view = NoView THEN {} ELSE {store.view.match})

\* For the properties only.  The store turns away from a match when it swallows
\* an update of it after a surrender, and from the matches it has shown when a
\* late update of an older one takes their place.
Strays(v) ==
    IF store.ignore THEN {v.match}
    ELSE IF Ignored(v) THEN {}
    ELSE {match \in Shown : match > v.match}

\* receiveBattleState: a newer revision of the match completes the command in
\* flight, another match drops it, and a completed order of a queue that is
\* still under review is followed by its confirmation.
ReceiveUpdate ==
    /\ down # <<>> /\ Head(down).kind = "update"
    /\ LET v == Head(down).view
           confirms == /\ store.pending # NoCommand /\ Answers(v)
                       /\ store.pending.kind = "order" /\ v.phase = "review" /\ v.mine
       IN IF Ignored(v) THEN UNCHANGED <<store, up>>
          ELSE /\ store' = [store EXCEPT !.view = v, !.resuming = FALSE, !.launching = FALSE,
                     !.pending = IF confirms
                                 THEN [kind |-> "confirm", rev |-> v.rev, match |-> v.match]
                                 ELSE IF Frees(v) THEN NoCommand ELSE @]
               /\ up' = IF confirms THEN up \cup {Message("confirm", v.rev)} ELSE up
    /\ down' = Tail(down)
    /\ strayed' = strayed \cup Strays(Head(down).view)
    /\ dropped' = (dropped /\ store'.pending = store.pending)
    /\ UNCHANGED <<server, due, taken, unseen, crossed>>

BugErrorKeepsCommand ==
    /\ down # <<>> /\ Head(down).kind = "error"
    /\ store' = [store EXCEPT !.launching = FALSE]
    /\ down' = Tail(down)
    /\ UNCHANGED <<server, up, due, taken, unseen, dropped, notes>>

\* An error of whatever request releases the command and the launch.
ReceiveError ==
    /\ down # <<>> /\ Head(down).kind = "error"
    /\ store' = [store EXCEPT !.pending = NoCommand, !.launching = FALSE]
    /\ down' = Tail(down)
    /\ dropped' = FALSE
    /\ crossed' = (crossed \/ (store.pending # NoCommand /\ Head(down).to # store.pending))
    /\ UNCHANGED <<server, up, due, taken, unseen, strayed>>

ReceiveSession ==
    /\ down # <<>> /\ Head(down).kind = "session"
    /\ store' = [store EXCEPT !.session = Head(down).token]
    /\ down' = Tail(down)
    /\ UNCHANGED <<server, up, due, taken, unseen, dropped, notes>>

ReceiveRejected ==
    /\ down # <<>> /\ Head(down).kind = "rejected"
    /\ store' = LobbyStore
    /\ down' = Tail(down)
    /\ dropped' = FALSE
    /\ UNCHANGED <<server, up, due, taken, unseen, notes>>

\* What the server has not taken up may be lost with the connection.
ConnectionLost(lost) ==
    /\ store.online
    /\ lost \subseteq up
    /\ store' = [store EXCEPT !.online = FALSE, !.pending = NoCommand, !.launching = FALSE]
    /\ up' = up \ lost
    /\ down' = <<>>
    /\ unseen' = unseen + 1
    /\ dropped' = FALSE
    /\ server' = [server EXCEPT !.foreign = server.rev]
    /\ UNCHANGED <<due, taken, notes>>

Reconnect ==
    /\ ~store.online
    /\ store.epoch < MaxEpoch
    /\ store' = [store EXCEPT !.online = TRUE, !.epoch = @ + 1, !.resuming = (store.session # 0)]
    /\ up' = IF store.session = 0 THEN up
             ELSE up \cup {[Message("resume", 0) EXCEPT !.epoch = store.epoch + 1]}
    /\ UNCHANGED <<server, due, taken, down, unseen, dropped, notes>>

-----------------------------------------------------------------------------
(* The server.                                                             *)

\* A reply reaches the socket that sent the request, if it still stands.
Reply(m, message) ==
    down' = IF store.online /\ m.epoch = store.epoch THEN Append(down, message) ELSE down

Identity(m) == [kind |-> m.kind, rev |-> m.rev, match |-> m.match]

Error(m) == [kind |-> "error", to |-> Identity(m)]
Grant(t) == [kind |-> "session", token |-> t]

CanBroadcast == due < MaxDue /\ Len(down) + 2 <= MaxDown
Broadcast == due' = due + 1

Allowed(m) ==
    /\ Live /\ ~Paused
    /\ m.rev = server.rev
    /\ m.kind # "surrender" => server.mine
    /\ m.kind \in {"order", "confirm"} => server.phase = "review"

Own(m) == store.online /\ m.epoch = store.epoch /\ m.match = server.match

\* A turn that ends may end the match: a team is defeated, or a cap is reached.
Begun == {"planning", "finished"}

EndsTurn(m) == m.kind \in {"confirm", "end"}

PhasesAfter(m) ==
    IF EndsTurn(m) THEN Begun ELSE {IF m.kind = "surrender" THEN "finished" ELSE "review"}

After(m, phase) ==
    [server EXCEPT !.rev = @ + 1, !.heard = server.rev + 1,
                   !.foreign = IF Own(m) THEN @ ELSE server.rev + 1,
                   !.phase = phase, !.made = phase,
                   !.mine = @ /\ ~EndsTurn(m)]

\* A command is applied and broadcast, or refused and the snapshot sent again.
\* What the moves of the CPU raise after it is reported as an error too.
HandleCommand(m, phase) ==
    /\ m.kind \in QueueKind \cup {"surrender"}
    /\ CanBroadcast
    /\ up' = up \ {m}
    /\ IF Allowed(m)
       THEN /\ server.rev < MaxRevision
            /\ server' = After(m, phase)
            /\ \/ UNCHANGED down
               \/ EndsTurn(m) /\ Reply(m, Error([m EXCEPT !.kind = "cpu"]))
       ELSE server' = server /\ Reply(m, Error(m))
    /\ IF server.match = 0 THEN UNCHANGED due ELSE Broadcast
    /\ UNCHANGED <<store, taken, unseen, dropped, notes>>

HandleStart(m, mine) ==
    /\ m.kind = "start"
    /\ CanBroadcast
    /\ up' = up \ {m}
    /\ IF Live
       THEN server' = server /\ Reply(m, Error(m)) /\ UNCHANGED due
       ELSE /\ server.match < MaxMatch
            /\ server' = [match |-> server.match + 1, rev |-> 0, phase |-> "planning",
                          mine |-> mine, away |-> {},
                          token |-> server.token + 1, room |-> m.epoch,
                          made |-> "planning", heard |-> 0, foreign |-> 0]
            /\ Reply(m, Grant(server.token + 1))
            /\ Broadcast
    /\ UNCHANGED <<store, taken, unseen, dropped, notes>>

\* Only a player seen to be away can come back, with the token as rotated last.
HandleResume(m) ==
    /\ m.kind = "resume"
    /\ CanBroadcast
    /\ up' = up \ {m}
    /\ IF Live /\ m.token = server.token /\ "me" \in server.away
       THEN /\ server' = [server EXCEPT !.away = @ \ {"me"}, !.token = @ + 1, !.room = m.epoch]
            /\ Reply(m, Grant(server.token + 1))
            /\ Broadcast
       ELSE server' = server /\ Reply(m, [kind |-> "rejected"]) /\ UNCHANGED due
    /\ UNCHANGED <<store, taken, unseen, dropped, notes>>

\* allow_event: a message beyond the limit is answered by a notice only.
RateLimited(m) ==
    /\ m.kind \in QueueKind
    /\ up' = up \ {m}
    /\ dropped' = (dropped \/ m.epoch = store.epoch)
    /\ UNCHANGED <<store, server, due, taken, down, unseen, notes>>

\* The opponent, the CPU or the phase timer makes the next revision.  The CPU
\* moves inside a handler that has yet to broadcast; when it raises after the
\* timer ended the player's turn, that handler never does.
OthersMove(mine, phase) ==
    /\ Live /\ ~Paused
    /\ server.rev < MaxRevision
    /\ \/ CanBroadcast /\ Broadcast
       \/ (due > 0 \/ ~mine) /\ UNCHANGED due
    /\ server' = [server EXCEPT !.rev = @ + 1, !.foreign = server.rev + 1,
                                !.mine = mine, !.phase = phase, !.made = phase,
                                !.heard = IF due' > 0 THEN server.rev + 1 ELSE @]
    /\ UNCHANGED <<store, up, taken, down, unseen, dropped, notes>>

\* Leaving and coming back pauses the match without a new revision.
OpponentConnection ==
    /\ Live /\ CanBroadcast
    /\ server' = [server EXCEPT !.away = IF "foe" \in @ THEN @ \ {"foe"} ELSE @ \cup {"foe"}]
    /\ Broadcast
    /\ UNCHANGED <<store, up, taken, down, unseen, dropped, notes>>

NoticeDisconnect ==
    /\ unseen > 0 /\ CanBroadcast
    /\ unseen' = unseen - 1
    /\ IF Live THEN server' = [server EXCEPT !.away = @ \cup {"me"}] ELSE UNCHANGED server
    /\ IF Live THEN Broadcast ELSE UNCHANGED due
    /\ UNCHANGED <<store, up, taken, down, dropped, notes>>

\* A grace period runs out: the match is over, but its revision stays.
Forfeit ==
    /\ Live /\ Paused /\ CanBroadcast
    /\ server' = [server EXCEPT !.phase = "finished", !.away = {}]
    /\ Broadcast
    /\ UNCHANGED <<store, up, taken, down, unseen, dropped, notes>>

Serialize ==
    /\ due > 0
    /\ due' = due - 1
    /\ taken' = taken \cup {View}
    /\ UNCHANGED <<store, server, up, down, unseen, dropped, notes>>

Emit(v) ==
    /\ v \in taken
    /\ Len(down) < MaxDown
    /\ taken' = taken \ {v}
    /\ down' = IF store.online /\ server.room = store.epoch
               THEN Append(down, [kind |-> "update", view |-> v]) ELSE down
    /\ UNCHANGED <<store, server, up, due, unseen, dropped, notes>>

ClientNext ==
    \/ \E kind \in QueueKind \ {"confirm"} : SendCommand(kind)
    \/ StartMatch \/ LaunchTimeout \/ Leave
    \/ ReceiveUpdate \/ ReceiveError \/ ReceiveSession \/ ReceiveRejected
    \/ \E lost \in SUBSET up : ConnectionLost(lost)
    \/ Reconnect
    \/ \E m \in up : \/ HandleResume(m) \/ RateLimited(m)
                     \/ \E phase \in PhasesAfter(m) : HandleCommand(m, phase)
                     \/ \E mine \in BOOLEAN : HandleStart(m, mine)
    \/ \E mine \in BOOLEAN, phase \in Begun : OthersMove(mine, phase)
    \/ OpponentConnection \/ NoticeDisconnect \/ Forfeit
    \/ Serialize \/ \E v \in taken : Emit(v)

ClientSpec == ClientInit /\ [][ClientNext]_clientVars

-----------------------------------------------------------------------------
ClientTypeOK ==
    /\ store.view \in ViewType \cup {NoView}
    /\ store.pending \in CommandType \cup {NoCommand}
    /\ ToSet(store.retired) \subseteq 1 .. MaxMatch /\ Len(store.retired) <= MaxRetired
    /\ store.session \in 0 .. server.token
    /\ server.away \subseteq {"me", "foe"}
    /\ server.room <= store.epoch
    /\ taken \subseteq ViewType
    /\ due \in 0 .. MaxDue /\ Len(down) <= MaxDown /\ unseen \in 0 .. MaxEpoch

\* A command in flight that will be refused as stale was overtaken by somebody
\* else (the timer, the opponent, what a broken connection or a match that was
\* left still had to say): the store never races its own commands, as long as
\* an error was that of the command it released and no other match came between.
StaleOnlyIfOvertaken ==
    ~crossed /\ server.match \notin strayed => \A m \in up :
        (/\ m.kind \in QueueKind /\ m.epoch = store.epoch
         /\ store.view # NoView /\ m.match = store.view.match
         /\ m.match = server.match /\ m.rev < server.rev)
        => server.foreign > m.rev

Releases(v) == ~Ignored(v) /\ Frees(v)

\* While a command locks the controls of a store the server broadcasts to,
\* something that unlocks them is on the way: the command itself, an error, or
\* a snapshot that the store will take and that releases it; unless the rate
\* limit swallowed the command, or the store turned away from the match.
PendingIsAnswered ==
    (/\ store.pending # NoCommand /\ server.room = store.epoch
     /\ server.match \notin strayed) =>
        \/ dropped
        \/ \E m \in up : Identity(m) = store.pending /\ m.epoch = store.epoch
        \/ \E i \in DOMAIN down : \/ down[i].kind \in {"error", "rejected"}
                                  \/ down[i].kind = "update" /\ Releases(down[i].view)
        \/ \E v \in taken : Releases(v)
        \/ due > 0 /\ Releases(View)

\* When nothing is on the way, a store whose connection the server broadcasts to
\* shows, in whatever order the snapshots arrived, no revision older than the
\* last one a broadcast followed; and of the revision the match is at its turn
\* and its phase.  The end of a match that was forfeited has no revision of its
\* own: then the phase shown may be the one the revision began with.  None of
\* this once the store turned away from the match.
QuietViewIsLatest ==
    (/\ store.view # NoView /\ store.view.match = server.match
     /\ server.match \notin strayed
     /\ store.online /\ server.room = store.epoch
     /\ due = 0 /\ taken = {} /\ down = <<>>)
    => /\ store.view.rev \in server.heard .. server.rev
       /\ store.view.rev = server.rev => /\ store.view.mine = server.mine
                                         /\ store.view.phase \in {server.phase, server.made}

=============================================================================
