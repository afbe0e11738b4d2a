------------------------------- MODULE Lobby --------------------------------
(***************************************************************************)
(* Lobbies, matches and the indexes between them, as the Socket.IO         *)
(* handlers of battle_v2_sockets.py, the operator routes and the cleanup   *)
(* change them.                                                            *)
(*                                                                         *)
(* The server is one process with a few handler threads.  What a handler   *)
(* does under lifecycle_lock is one action; what it does before or after,  *)
(* outside the lock, is a step of its own, and every other thread, the     *)
(* phase timers and the cleanup can run in between.  A match is abstracted *)
(* to its members, whether it is live, and which of them are away: what    *)
(* happens inside one is MatchLifecycle's.  Roster modes and teams are not *)
(* kept: that two players' modes differ, or that a team is refused, is one *)
(* of the ways in which a match is not made (JoinRefusedLate).             *)
(***************************************************************************)
EXTENDS ResumeSessions, FiniteSets

CONSTANTS
  Code,           \* lobby codes; never the id of a match
  Thread,         \* handler threads
  MaxMatches,     \* bound: matches made
  MaxTokens,      \* bound: credentials issued per seat
  None            \* no match, no player, no code

ASSUME LobbyAssumption ==
  /\ MaxMatches \in Nat /\ Match = 1 .. MaxMatches
  /\ MaxTokens \in Nat \ {0}
  /\ None \notin Match \cup Player \cup Code

VARIABLES
  made,           \* matches made so far: new_match_id never repeats one
  room, members,  \* battle_v2_manager.rooms: the match's state, its players but the CPU
  away,           \* per live match: the members the server takes for disconnected
  lobby,          \* v2_pvp_lobbies: the one player waiting under a code
  waiting, active, byCode, codeOf, rematchOf, accepting,
  job,            \* per thread: the rest of the handler it is in
  overbound,      \* players whose live match a late resume took out of the index
  unlisted        \* players whose lobby entry outlived its index entry

registryVars == <<made, room, members, away>>
indexVars == <<active, byCode, codeOf, rematchOf>>
lobbyVars == <<lobby, waiting>>
historyVars == <<overbound, unlisted>>
vars == <<registryVars, indexVars, lobbyVars, accepting, job, historyVars, sessionVars>>

-----------------------------------------------------------------------------
Exists(m) == m \in Match /\ room[m] \in {"live", "finished"}

(* _is_live_match *)
Live(m) == m \in Match /\ room[m] = "live"

Idle(t) == job[t].at = "idle"

NoJob == [at |-> "idle", match |-> None, player |-> None, code |-> None, token |-> NoToken]

Job(at, m, p) == [NoJob EXCEPT !.at = at, !.match = m, !.player = p]

Then(t, next) == job' = [job EXCEPT ![t] = next]
Done(t)       == Then(t, NoJob)

Init ==
  /\ made = 0
  /\ room = [m \in Match |-> "unmade"]
  /\ members = [m \in Match |-> {}]
  /\ away = [m \in Match |-> {}]
  /\ lobby = [c \in Code |-> None]
  /\ waiting = [p \in Player |-> None]
  /\ active = [p \in Player |-> None]
  /\ byCode = [c \in Code |-> None]
  /\ codeOf = [m \in Match |-> None]
  /\ rematchOf = [m \in Match |-> None]
  /\ accepting = TRUE
  /\ job = [t \in Thread |-> NoJob]
  /\ overbound = {} /\ unlisted = {}
  /\ SessionInit

-----------------------------------------------------------------------------
(* What the handlers do under the lock, piece by piece *)

(* start_battle_v2_match_for_mode with a new id, then the player index.     *)
NextMatch == made + 1

MakeMatch(ps) ==
  /\ made < MaxMatches
  /\ made' = NextMatch
  /\ room' = [room EXCEPT ![NextMatch] = "live"]
  /\ members' = [members EXCEPT ![NextMatch] = ps]
  /\ UNCHANGED away

Seat(index, ps) == [p \in Player |-> IF p \in ps THEN NextMatch ELSE index[p]]

(* remove_v2_pvp_lobby_player *)
LobbyWithout(entries, c, p) == [d \in Code |-> IF d = c /\ entries[d] = p THEN None ELSE entries[d]]
WaitingWithout(index, c, p) == [q \in Player |-> IF q = p /\ index[q] = c THEN None ELSE index[q]]

RemoveFromLobby(c, p) == /\ lobby' = LobbyWithout(lobby, c, p)
                         /\ waiting' = WaitingWithout(waiting, c, p)

BugAcknowledgeLive(m, p) ==
  /\ active' = [active EXCEPT ![p] = IF @ = m THEN None ELSE @]
  /\ UNCHANGED <<byCode, codeOf, rematchOf>>

(* acknowledge_finished_match *)
Acknowledge(m, p) ==
  IF Exists(m) /\ ~Live(m) /\ p \in members[m]
  THEN /\ active' = [active EXCEPT ![p] = IF @ = m THEN None ELSE @]
       /\ byCode' = [c \in Code |-> IF codeOf[m] = c /\ byCode[c] = m THEN None ELSE byCode[c]]
       /\ UNCHANGED <<codeOf, rematchOf>>
  ELSE UNCHANGED indexVars

(* prune_context_indexes *)
PrunedActive  == [p \in Player |-> IF Exists(active[p]) THEN active[p] ELSE None]
PrunedCodes   == [c \in Code |-> IF Exists(byCode[c]) THEN byCode[c] ELSE None]
PrunedWaiting == [p \in Player |-> IF waiting[p] \in Code /\ lobby[waiting[p]] = p
                                   THEN waiting[p] ELSE None]

(* active_v2_context: the match a request is taken to mean.                 *)
Context(c, p) == IF Live(active[p]) THEN active[p]
                 ELSE IF c \in Code /\ byCode[c] # None THEN byCode[c] ELSE c

-----------------------------------------------------------------------------
(* Starting against the CPU: on_battle_v2_start_classic *)

StartCpu(t, p, c) ==
  /\ Idle(t) /\ accepting
  /\ ~Live(Context(c, p)) /\ ~Live(active[p])
  /\ MakeMatch({p})
  /\ RemoveFromLobby(waiting[p], p)
  /\ active' = Seat(active, {p})
  /\ Then(t, Job("grant", NextMatch, p))
  /\ UNCHANGED <<byCode, codeOf, rematchOf, accepting, historyVars, sessionVars>>

(* authorize_match_context, then issue_battle_v2_resume_sessions, outside   *)
(* the lock: nothing when the room has gone in the meantime.                *)
Grant(t) ==
  /\ job[t].at = "grant"
  /\ LET m == job[t].match
     IN  IF Exists(m) THEN Issue(m, members[m]) /\ UNCHANGED reservation
                      ELSE UNCHANGED sessionVars
  /\ Done(t)
  /\ UNCHANGED <<registryVars, indexVars, lobbyVars, accepting, historyVars>>

-----------------------------------------------------------------------------
(* Joining a lobby: on_battle_v2_join_pvp *)

JoinRefused(p, c) ==
  /\ accepting
  /\ Live(PrunedActive[p]) \/ Live(PrunedCodes[c])
  /\ active' = PrunedActive /\ byCode' = PrunedCodes /\ waiting' = PrunedWaiting
  /\ UNCHANGED <<registryVars, codeOf, rematchOf, lobby, accepting, job, historyVars, sessionVars>>

(* A stale binding of the code goes, and the player leaves the lobby he was *)
(* waiting in.                                                              *)
BugJoinWhilePlaying(p, c) == accepting /\ ~Live(PrunedCodes[c])

MayJoin(p, c) == accepting /\ ~Live(PrunedActive[p]) /\ ~Live(PrunedCodes[c])

LeftCode(p, c)      == IF PrunedWaiting[p] = c THEN None ELSE PrunedWaiting[p]

BugLobbyNotLeft(p, c) == lobby

JoinedLobby(p, c)   == LobbyWithout(lobby, LeftCode(p, c), p)
JoinedWaiting(p, c) == WaitingWithout(PrunedWaiting, LeftCode(p, c), p)
JoinedCodes(c)      == [PrunedCodes EXCEPT ![c] = None]

BugCodeBoundToItself(c) == [JoinedCodes(c) EXCEPT ![c] = c]

MatchedCodes(c)     == [JoinedCodes(c) EXCEPT ![c] = NextMatch]

JoinWaits(t, p, c) ==
  /\ Idle(t) /\ MayJoin(p, c)
  /\ JoinedLobby(p, c)[c] \in {None, p}
  /\ lobby' = [JoinedLobby(p, c) EXCEPT ![c] = p]
  /\ waiting' = [JoinedWaiting(p, c) EXCEPT ![p] = c]
  /\ active' = PrunedActive /\ byCode' = JoinedCodes(c)
  /\ UNCHANGED <<registryVars, codeOf, rematchOf, accepting, job, historyVars, sessionVars>>

Opponent(p, c) == JoinedLobby(p, c)[c]

(* Another player is there but no match is made: the modes differ, the      *)
(* waiting player is in a live match, or the manager refuses a team.  The   *)
(* lobby is as it was, and what was undone before stays undone.             *)
JoinRefusedLate(p, c) ==
  /\ MayJoin(p, c)
  /\ Opponent(p, c) \notin {None, p}
  /\ lobby' = JoinedLobby(p, c) /\ waiting' = JoinedWaiting(p, c)
  /\ active' = PrunedActive /\ byCode' = JoinedCodes(c)
  /\ UNCHANGED <<registryVars, codeOf, rematchOf, accepting, job, historyVars, sessionVars>>

JoinMatched(t, p, c) ==
  LET pair == {p, Opponent(p, c)}
  IN  /\ Idle(t) /\ MayJoin(p, c)
      /\ Opponent(p, c) \notin {None, p} /\ ~Live(PrunedActive[Opponent(p, c)])
      /\ MakeMatch(pair)
      /\ active' = Seat(PrunedActive, pair)
      /\ waiting' = [q \in Player |-> IF q \in pair THEN None ELSE JoinedWaiting(p, c)[q]]
      /\ byCode' = MatchedCodes(c)
      /\ codeOf' = [codeOf EXCEPT ![NextMatch] = c]
      /\ lobby' = [JoinedLobby(p, c) EXCEPT ![c] = None]
      /\ Then(t, Job("grant", NextMatch, p))
      /\ UNCHANGED <<rematchOf, accepting, historyVars, sessionVars>>

-----------------------------------------------------------------------------
(* Leaving, acknowledging and asking for a rematch *)

(* on_battle_v2_leave_pvp: the code is resolved to a match first, so that a  *)
(* player of a live match leaves no lobby.                                  *)
Leave(p, c) ==
  LET target == Context(c, p)
  IN  /\ Acknowledge(target, p)
      /\ RemoveFromLobby(target, p)
      /\ UNCHANGED <<registryVars, accepting, job, historyVars, sessionVars>>

(* on_battle_v2_ack_result *)
AckResult(p, m) ==
  /\ Exists(m)
  /\ Acknowledge(m, p)
  /\ UNCHANGED <<registryVars, lobbyVars, accepting, job, historyVars, sessionVars>>

(* A participant who plays elsewhere. *)
Elsewhere(q, m) == active[q] # m /\ Live(active[q])

(* on_battle_v2_rematch, the first request of either player; a later one is  *)
(* answered with the match already made.  The lobbies are not looked at.    *)
Rematch(p, m) ==
  /\ Exists(m) /\ ~Live(m) /\ p \in members[m]
  /\ rematchOf[m] = None
  /\ accepting
  /\ \A q \in members[m] : ~Elsewhere(q, m)
  /\ MakeMatch(members[m])
  /\ rematchOf' = [rematchOf EXCEPT ![m] = NextMatch]
  /\ active' = Seat(active, members[m])
  /\ Issue(NextMatch, members[m])
  /\ UNCHANGED <<byCode, codeOf, lobbyVars, accepting, job, historyVars, reservation>>

-----------------------------------------------------------------------------
(* Resuming a seat with a credential: on_battle_v2_resume *)

ResumeReserve(t, m, p, token) ==
  /\ Idle(t)
  /\ Exists(m) /\ p \in members[m]
  /\ hash[m][p] < MaxTokens
  /\ MayReserve(m, p, token)
  /\ Reserve(m, p, token)
  /\ Then(t, [Job("reconnect", m, p) EXCEPT !.token = token])
  /\ UNCHANGED <<registryVars, indexVars, lobbyVars, accepting, historyVars>>

(* reconnect_player, under the room's lock, and serialize_for_player.  The   *)
(* grace may be over although nobody has noticed yet, so that a refusal is   *)
(* always possible; and what the snapshot raises aborts the resume of a player *)
(* who is back already (any BattleV2Error, KeyError or RuntimeError).        *)
ResumeReconnect(t) ==
  LET m == job[t].match
      p == job[t].player
  IN  /\ job[t].at = "reconnect"
      /\ \/ /\ Live(m) /\ p \in away[m]
            /\ away' = [away EXCEPT ![m] = @ \ {p}]
            /\ \E next \in {"commit", "abort"} : Then(t, [job[t] EXCEPT !.at = next])
         \/ /\ Then(t, [job[t] EXCEPT !.at = "abort"])
            /\ UNCHANGED away
      /\ UNCHANGED <<made, room, members, indexVars, lobbyVars, accepting, historyVars, sessionVars>>

ResumeAbort(t) ==
  /\ job[t].at = "abort"
  /\ Abort(job[t].match, job[t].player)
  /\ Done(t)
  /\ UNCHANGED <<registryVars, indexVars, lobbyVars, accepting, historyVars>>

ResumeCommit(t) ==
  LET m == job[t].match
      p == job[t].player
      token == job[t].token
  IN  /\ job[t].at = "commit"
      /\ Commit(m, p, token)
      /\ IF MayCommit(m, p, token) THEN Then(t, [job[t] EXCEPT !.at = "bind"]) ELSE Done(t)
      /\ UNCHANGED <<registryVars, indexVars, lobbyVars, accepting, historyVars>>

(* The index is set to the match of the credential, whatever it says by now, *)
(* and the lobby index forgets the player, whose lobby entry stays.         *)
ResumeBind(t) ==
  LET m == job[t].match
      p == job[t].player
  IN  /\ job[t].at = "bind"
      /\ active' = [active EXCEPT ![p] = m]
      /\ waiting' = [waiting EXCEPT ![p] = None]
      /\ overbound' = IF active[p] # m /\ Live(active[p]) THEN overbound \cup {p} ELSE overbound
      /\ unlisted' = IF waiting[p] # None THEN unlisted \cup {p} ELSE unlisted
      /\ Done(t)
      /\ UNCHANGED <<registryVars, byCode, codeOf, rematchOf, lobby, accepting, sessionVars>>

-----------------------------------------------------------------------------
(* A socket that closes: on_disconnect *)

DisconnectLobby(t, p) ==
  /\ Idle(t)
  /\ RemoveFromLobby(waiting[p], p)
  /\ Then(t, [NoJob EXCEPT !.at = "away", !.player = p])
  /\ UNCHANGED <<registryVars, indexVars, accepting, historyVars, sessionVars>>

(* The match is the one the index names, else one the socket was bound to.  *)
SocketMatch(p) == IF active[p] # None THEN {active[p]} ELSE {m \in Match : p \in members[m]}

DisconnectMatch(t) ==
  LET p == job[t].player
  IN  /\ job[t].at = "away"
      /\ \/ UNCHANGED away /\ \A m \in SocketMatch(p) : active[p] = None \/ ~Live(m) \/ p \notin members[m]
         \/ \E m \in SocketMatch(p) : /\ Live(m) /\ p \in members[m]
                                      /\ away' = [away EXCEPT ![m] = @ \cup {p}]
      /\ Done(t)
      /\ UNCHANGED <<made, room, members, indexVars, lobbyVars, accepting, historyVars, sessionVars>>

-----------------------------------------------------------------------------
(* What ends matches and lobbies *)

(* A command, a phase deadline or a grace that ran out (MatchLifecycle).  Who *)
(* is away from a match that is over is not read again, and not kept.       *)
Finish(m) ==
  /\ Live(m)
  /\ room' = [room EXCEPT ![m] = "finished"]
  /\ away' = [away EXCEPT ![m] = {}]
  /\ UNCHANGED <<made, members, indexVars, lobbyVars, accepting, job, historyVars, sessionVars>>

(* remove_battle_v2_room, once its time to live is over and nothing of the  *)
(* room is in flight or owed to the store (Settlement, TimerScheduler).     *)
RemoveRoom(m) ==
  /\ Exists(m)
  /\ room' = [room EXCEPT ![m] = "removed"]
  /\ members' = [members EXCEPT ![m] = {}]
  /\ away' = [away EXCEPT ![m] = {}]
  /\ active' = [p \in Player |-> IF active[p] = m THEN None ELSE active[p]]
  /\ byCode' = [c \in Code |-> IF codeOf[m] = c /\ byCode[c] = m THEN None ELSE byCode[c]]
  /\ codeOf' = [codeOf EXCEPT ![m] = None]
  /\ rematchOf' = [n \in Match |-> IF n = m \/ rematchOf[n] = m THEN None ELSE rematchOf[n]]
  /\ RemoveSessions(m)
  /\ UNCHANGED <<made, lobbyVars, accepting, job, historyVars>>

(* prune_stale_runtime takes an expired lobby out and then its players out   *)
(* of the index, without the lock.                                          *)
SweepLobby(t, c) ==
  /\ Idle(t) /\ lobby[c] # None
  /\ lobby' = [lobby EXCEPT ![c] = None]
  /\ Then(t, [NoJob EXCEPT !.at = "sweep", !.player = lobby[c], !.code = c])
  /\ UNCHANGED <<registryVars, indexVars, waiting, accepting, historyVars, sessionVars>>

SweepIndex(t) ==
  LET p == job[t].player
      c == job[t].code
  IN  /\ job[t].at = "sweep"
      /\ waiting' = WaitingWithout(waiting, c, p)
      /\ unlisted' = IF waiting[p] = c /\ lobby[c] = p THEN unlisted \cup {p} ELSE unlisted
      /\ Done(t)
      /\ UNCHANGED <<registryVars, indexVars, lobby, accepting, overbound, sessionVars>>

(* runtime_drain *)
Drain ==
  /\ accepting
  /\ accepting' = FALSE
  /\ lobby' = [c \in Code |-> None] /\ waiting' = [p \in Player |-> None]
  /\ UNCHANGED <<registryVars, indexVars, job, historyVars, sessionVars>>

Undrain ==
  /\ ~accepting
  /\ accepting' = TRUE
  /\ UNCHANGED <<registryVars, indexVars, lobbyVars, job, historyVars, sessionVars>>

-----------------------------------------------------------------------------
Request(t) ==
  \E p \in Player :
    \/ \E c \in Code : \/ StartCpu(t, p, c) \/ JoinWaits(t, p, c) \/ JoinMatched(t, p, c)
    \/ DisconnectLobby(t, p)
    \/ \E m \in Match, token \in 1 .. MaxTokens : ResumeReserve(t, m, p, token)

Continue(t) ==
  \/ Grant(t)
  \/ ResumeReconnect(t) \/ ResumeAbort(t) \/ ResumeCommit(t) \/ ResumeBind(t)
  \/ DisconnectMatch(t)
  \/ SweepIndex(t)

Locked ==
  \/ \E p \in Player, c \in Code : JoinRefused(p, c) \/ JoinRefusedLate(p, c) \/ Leave(p, c)
  \/ \E p \in Player, m \in Match : AckResult(p, m) \/ Rematch(p, m)
  \/ Drain \/ Undrain

Housekeeping ==
  \/ \E m \in Match : Finish(m) \/ RemoveRoom(m)
  \/ \E t \in Thread, c \in Code : SweepLobby(t, c)

Next == (\E t \in Thread : Request(t) \/ Continue(t)) \/ Locked \/ Housekeeping

Spec == Init /\ [][Next]_vars

-----------------------------------------------------------------------------
(* What may never go wrong *)

JobType == [at : {"idle", "grant", "reconnect", "abort", "commit", "bind", "away", "sweep"},
            match : Match \cup {None}, player : Player \cup {None},
            code : Code \cup {None}, token : Nat]

(* Every variable has its type. *)
TypeOK ==
  /\ made \in 0 .. MaxMatches
  /\ room \in [Match -> {"unmade", "live", "finished", "removed"}]
  /\ members \in [Match -> SUBSET Player]
  /\ away \in [Match -> SUBSET Player]
  /\ lobby \in [Code -> Player \cup {None}]
  /\ waiting \in [Player -> Code \cup {None}]
  /\ active \in [Player -> Match \cup {None}]
  /\ byCode \in [Code -> Match \cup {None}]
  /\ codeOf \in [Match -> Code \cup {None}]
  /\ rematchOf \in [Match -> Match \cup {None}]
  /\ accepting \in BOOLEAN
  /\ job \in [Thread -> JobType]
  /\ overbound \subseteq Player /\ unlisted \subseteq Player
  /\ hash \in [Match -> [Player -> Nat]]
  /\ reservation \in [Match -> [Player -> Nat]]

(* The index that every handler trusts is right: a live match is what it     *)
(* names for each of its players, whatever joins, rematches, disconnects and *)
(* cleanups overlap (active_match_by_player).  The one exception is a resume *)
(* whose last section runs when its match is over and the player has begun   *)
(* another: it writes the old match over the new one.                        *)
LiveMatchIsIndexed ==
  \A m \in Match : Live(m) => \A p \in members[m] : active[p] = m \/ p \in overbound

(* Nobody plays two live matches at once, however many handlers run: what    *)
(* app.py's live_match_memberships is there to reveal.  Only a player whose  *)
(* live match a late resume has overwritten can come to.                     *)
OneLiveMatch ==
  \A p \in Player \ overbound : \A m, n \in Match :
    Live(m) /\ Live(n) /\ p \in members[m] /\ p \in members[n] => m = n

(* Who waits in a lobby can be found there again: the handlers that take a   *)
(* player out of the lobby (disconnect, start, join) look him up in          *)
(* waiting_code_by_player, so that a player without entry there stays behind *)
(* and is matched when he is gone, and can wait in two lobbies.  Two steps   *)
(* lose the entry, both by overtaking: the sweep of an expired lobby, which  *)
(* takes no lock, and the last section of a resume.                          *)
WaitingIsListed ==
  \A c \in Code : lobby[c] # None => waiting[lobby[c]] = c \/ lobby[c] \in unlisted

(* A reservation is somebody's: the resume that took it is still to settle   *)
(* it.  One left behind would keep the player out for the rest of the match. *)
ReservationIsHeld ==
  \A m \in Match, p \in Player :
    reservation[m][p] # NoToken =>
      \E t \in Thread : /\ job[t].at \in {"reconnect", "abort", "commit"}
                        /\ job[t].match = m /\ job[t].player = p
                        /\ job[t].token = reservation[m][p]

(* A resume that has reconnected the player and could show him his match is  *)
(* granted the next credential unless the room has gone: between the         *)
(* reservation and the commit nothing another handler does can take it from  *)
(* him (battle_v2_sockets.py, "reserve the credential before attempting the  *)
(* authoritative reconnect").                                                *)
ReconnectedIsGranted ==
  \A t \in Thread : job[t].at = "commit" /\ Exists(job[t].match) =>
    MayCommit(job[t].match, job[t].player, job[t].token)
=============================================================================
