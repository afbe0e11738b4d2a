---------------------------- MODULE LobbyProofs -----------------------------
(***************************************************************************)
(* Lobby for every set of players, codes and threads and every bound: the  *)
(* types, that the index of live matches is right and nobody plays two of  *)
(* them, and that the credentials of a seat serve one resume at a time.    *)
(***************************************************************************)
EXTENDS Lobby, TLAPS

(* A step that needs a match, a player or a code has one. *)
JobsNamed ==
  \A t \in Thread :
    /\ job[t].at \in {"grant", "reconnect", "abort", "commit", "bind"} =>
         job[t].match \in Match /\ job[t].player \in Player
    /\ job[t].at \in {"away", "sweep"} => job[t].player \in Player
    /\ job[t].at = "sweep" => job[t].code \in Code

TypeInv == TypeOK /\ JobsNamed

-----------------------------------------------------------------------------
(* Types *)

LEMMA JobTyped ==
  ASSUME NEW at \in {"idle", "grant", "reconnect", "abort", "commit", "bind", "away", "sweep"},
         NEW m \in Match \cup {None}, NEW p \in Player \cup {None}
  PROVE  /\ Job(at, m, p) \in JobType
         /\ NoJob \in JobType
         /\ Job(at, m, p).at = at /\ Job(at, m, p).match = m /\ Job(at, m, p).player = p
         /\ NoJob.at = "idle" /\ NoJob.token = NoToken
BY DEF Job, NoJob, JobType, NoToken

LEMMA ThenTyped ==
  ASSUME TypeInv, NEW t \in Thread, NEW j \in JobType, Then(t, j),
         j.at \in {"grant", "reconnect", "abort", "commit", "bind"} =>
           j.match \in Match /\ j.player \in Player,
         j.at \in {"away", "sweep"} => j.player \in Player,
         j.at = "sweep" => j.code \in Code
  PROVE  job' \in [Thread -> JobType] /\ JobsNamed'
BY DEF TypeInv, TypeOK, Then, JobsNamed

LEMMA DoneTyped ==
  ASSUME TypeInv, NEW t \in Thread, Done(t)
  PROVE  job' \in [Thread -> JobType] /\ JobsNamed'
<1>1. NoJob \in JobType /\ NoJob.at = "idle"
  BY DEF NoJob, JobType, NoToken
<1> QED BY <1>1, ThenTyped DEF Done

LEMMA MakeTyped ==
  ASSUME TypeInv, NEW ps \in SUBSET Player, MakeMatch(ps)
  PROVE  /\ NextMatch \in Match
         /\ made' \in 0 .. MaxMatches
         /\ room' \in [Match -> {"unmade", "live", "finished", "removed"}]
         /\ members' \in [Match -> SUBSET Player]
         /\ away' \in [Match -> SUBSET Player]
BY LobbyAssumption DEF TypeInv, TypeOK, MakeMatch, NextMatch

LEMMA SeatTyped ==
  ASSUME NextMatch \in Match, NEW ps, NEW index \in [Player -> Match \cup {None}]
  PROVE  Seat(index, ps) \in [Player -> Match \cup {None}]
BY DEF Seat

LEMMA PrunedTyped ==
  ASSUME TypeInv
  PROVE  /\ PrunedActive \in [Player -> Match \cup {None}]
         /\ PrunedCodes \in [Code -> Match \cup {None}]
         /\ PrunedWaiting \in [Player -> Code \cup {None}]
BY DEF TypeInv, TypeOK, PrunedActive, PrunedCodes, PrunedWaiting

LEMMA LobbyWithoutTyped ==
  ASSUME NEW c, NEW p, NEW entries \in [Code -> Player \cup {None}]
  PROVE  LobbyWithout(entries, c, p) \in [Code -> Player \cup {None}]
BY DEF LobbyWithout

LEMMA WaitingWithoutTyped ==
  ASSUME NEW c, NEW p, NEW index \in [Player -> Code \cup {None}]
  PROVE  WaitingWithout(index, c, p) \in [Player -> Code \cup {None}]
BY DEF WaitingWithout

LEMMA JoinedTyped ==
  ASSUME TypeInv, NEW p \in Player, NEW c \in Code
  PROVE  /\ JoinedLobby(p, c) \in [Code -> Player \cup {None}]
         /\ JoinedWaiting(p, c) \in [Player -> Code \cup {None}]
         /\ JoinedCodes(c) \in [Code -> Match \cup {None}]
         /\ NextMatch \in Match => MatchedCodes(c) \in [Code -> Match \cup {None}]
<1>1. JoinedLobby(p, c) \in [Code -> Player \cup {None}]
  BY LobbyWithoutTyped DEF TypeInv, TypeOK, JoinedLobby
<1>2. JoinedWaiting(p, c) \in [Player -> Code \cup {None}]
  BY PrunedTyped, WaitingWithoutTyped DEF JoinedWaiting
<1>3. JoinedCodes(c) \in [Code -> Match \cup {None}]
  BY PrunedTyped DEF JoinedCodes
<1> QED BY <1>1, <1>2, <1>3 DEF MatchedCodes

LEMMA IssueTyped ==
  ASSUME TypeInv, NEW m \in Match, NEW ps, Issue(m, ps)
  PROVE  hash' \in [Match -> [Player -> Nat]]
BY DEF TypeInv, TypeOK, Issue

LEMMA AcknowledgeTyped ==
  ASSUME TypeInv, NEW m, NEW p \in Player, Acknowledge(m, p)
  PROVE  /\ active' \in [Player -> Match \cup {None}]
         /\ byCode' \in [Code -> Match \cup {None}]
         /\ codeOf' = codeOf /\ rematchOf' = rematchOf
BY DEF TypeInv, TypeOK, Acknowledge, indexVars

LEMMA TypeInit == Init => TypeInv
<1> SUFFICES ASSUME Init PROVE TypeInv
  OBVIOUS
<1>1. NoJob \in JobType /\ NoJob.at = "idle"
  BY DEF NoJob, JobType, NoToken
<1>2. made \in 0 .. MaxMatches
  BY LobbyAssumption DEF Init
<1>3. /\ hash \in [Match -> [Player -> Nat]]
      /\ reservation \in [Match -> [Player -> Nat]]
  BY DEF Init, SessionInit, NoSeats, NoToken
<1>4. TypeOK
  BY <1>1, <1>2, <1>3 DEF Init, TypeOK
<1> QED BY <1>1, <1>4 DEF Init, TypeInv, JobsNamed

LEMMA RemoveTyped ==
  ASSUME TypeInv, NEW c, NEW p, RemoveFromLobby(c, p)
  PROVE  /\ lobby' \in [Code -> Player \cup {None}]
         /\ waiting' \in [Player -> Code \cup {None}]
BY LobbyWithoutTyped, WaitingWithoutTyped DEF TypeInv, TypeOK, RemoveFromLobby

LEMMA RequestTyped ==
  ASSUME TypeInv, NEW t \in Thread, NEW p \in Player, NEW c \in Code
  PROVE  /\ StartCpu(t, p, c) => TypeInv'
         /\ JoinWaits(t, p, c) => TypeInv'
         /\ JoinMatched(t, p, c) => TypeInv'
<1> USE DEF TypeInv
<1>1. ASSUME StartCpu(t, p, c) PROVE TypeInv'
  <2>1. /\ NextMatch \in Match /\ made' \in 0 .. MaxMatches
        /\ room' \in [Match -> {"unmade", "live", "finished", "removed"}]
        /\ members' \in [Match -> SUBSET Player] /\ away' \in [Match -> SUBSET Player]
    BY <1>1, MakeTyped DEF StartCpu
  <2>2. active' \in [Player -> Match \cup {None}]
    BY <1>1, <2>1, SeatTyped DEF StartCpu, TypeOK
  <2>3. job' \in [Thread -> JobType] /\ JobsNamed'
    BY <1>1, <2>1, JobTyped, ThenTyped DEF StartCpu
  <2> QED BY <1>1, <2>1, <2>2, <2>3, RemoveTyped DEF StartCpu, TypeOK, historyVars, sessionVars
<1>2. ASSUME JoinWaits(t, p, c) PROVE TypeInv'
  BY <1>2, PrunedTyped, JoinedTyped
     DEF JoinWaits, TypeOK, JobsNamed, registryVars, historyVars, sessionVars
<1>3. ASSUME JoinMatched(t, p, c) PROVE TypeInv'
  <2>1. Opponent(p, c) \in Player
    BY <1>3, JoinedTyped DEF JoinMatched, Opponent
  <2>2. /\ NextMatch \in Match /\ made' \in 0 .. MaxMatches
        /\ room' \in [Match -> {"unmade", "live", "finished", "removed"}]
        /\ members' \in [Match -> SUBSET Player] /\ away' \in [Match -> SUBSET Player]
    BY <1>3, <2>1, MakeTyped DEF JoinMatched
  <2>3. /\ active' \in [Player -> Match \cup {None}]
        /\ byCode' \in [Code -> Match \cup {None}]
        /\ codeOf' \in [Match -> Code \cup {None}]
    BY <1>3, <2>2, SeatTyped, PrunedTyped, JoinedTyped DEF JoinMatched, TypeOK
  <2>4. /\ lobby' \in [Code -> Player \cup {None}]
        /\ waiting' \in [Player -> Code \cup {None}]
    BY <1>3, JoinedTyped DEF JoinMatched
  <2>5. job' \in [Thread -> JobType] /\ JobsNamed'
    BY <1>3, <2>2, JobTyped, ThenTyped DEF JoinMatched
  <2> QED BY <1>3, <2>2, <2>3, <2>4, <2>5 DEF JoinMatched, TypeOK, historyVars, sessionVars
<1> QED BY <1>1, <1>2, <1>3

LEMMA DisconnectTyped ==
  ASSUME TypeInv, NEW t \in Thread, NEW p \in Player, DisconnectLobby(t, p)
  PROVE  TypeInv'
<1> USE DEF TypeInv
<1>1. job' \in [Thread -> JobType] /\ JobsNamed'
  <2> DEFINE j == [NoJob EXCEPT !.at = "away", !.player = p]
  <2>1. j \in JobType /\ j.at = "away" /\ j.player = p
    BY DEF NoJob, JobType, NoToken
  <2>2. Then(t, j)
    BY DEF DisconnectLobby
  <2> HIDE DEF j
  <2> QED BY <2>1, <2>2, ThenTyped
<1> QED BY <1>1, RemoveTyped
        DEF DisconnectLobby, TypeOK, registryVars, indexVars, historyVars, sessionVars

LEMMA ReserveTyped ==
  ASSUME TypeInv, NEW t \in Thread, NEW m \in Match, NEW p \in Player, NEW token \in 1 .. MaxTokens,
         ResumeReserve(t, m, p, token)
  PROVE  TypeInv'
<1> USE DEF TypeInv
<1> DEFINE j == [Job("reconnect", m, p) EXCEPT !.token = token]
<1>0. token \in Nat
  BY LobbyAssumption
<1>1. j \in JobType /\ j.at = "reconnect" /\ j.match = m /\ j.player = p
  BY <1>0 DEF Job, NoJob, JobType, NoToken
<1>2. Then(t, j)
  BY DEF ResumeReserve
<1>3. job' \in [Thread -> JobType] /\ JobsNamed'
  <2> HIDE DEF j
  <2> QED BY <1>1, <1>2, ThenTyped
<1>4. reservation' \in [Match -> [Player -> Nat]] /\ hash' = hash
  BY <1>0 DEF ResumeReserve, Reserve, TypeOK
<1> QED BY <1>3, <1>4
        DEF ResumeReserve, TypeOK, registryVars, indexVars, lobbyVars, historyVars

LEMMA ReleaseTyped ==
  ASSUME TypeInv, NEW m \in Match, NEW p \in Player, Release(m, p)
  PROVE  reservation' \in [Match -> [Player -> Nat]]
BY DEF TypeInv, TypeOK, Release, NoToken

(* The next phase of a job keeps what the job is about. *)
LEMMA PhaseTyped ==
  ASSUME TypeInv, NEW t \in Thread, NEW at \in {"abort", "commit", "bind"},
         job[t].at \in {"reconnect", "commit"},
         Then(t, [job[t] EXCEPT !.at = at])
  PROVE  job' \in [Thread -> JobType] /\ JobsNamed'
<1> DEFINE j == [job[t] EXCEPT !.at = at]
<1>1. /\ j \in JobType /\ j.at = at
      /\ j.match \in Match /\ j.player \in Player
  BY DEF TypeInv, TypeOK, JobsNamed, JobType
<1>2. Then(t, j)
  OBVIOUS
<1> HIDE DEF j
<1> QED BY <1>1, <1>2, ThenTyped

LEMMA ContinueTyped ==
  ASSUME TypeInv, NEW t \in Thread, Continue(t)
  PROVE  TypeInv'
<1> USE DEF TypeInv
<1>1. CASE Grant(t)
  <2>1. job[t].match \in Match
    BY <1>1 DEF Grant, JobsNamed
  <2>2. hash' \in [Match -> [Player -> Nat]] /\ reservation' = reservation
    BY <1>1, <2>1, IssueTyped DEF Grant, sessionVars, TypeOK
  <2> QED BY <1>1, <2>2, DoneTyped
          DEF Grant, TypeOK, registryVars, indexVars, lobbyVars, historyVars
<1>2. CASE ResumeReconnect(t)
  <2>1. job[t].match \in Match
    BY <1>2 DEF ResumeReconnect, JobsNamed
  <2>2. job' \in [Thread -> JobType] /\ JobsNamed'
    BY <1>2, PhaseTyped DEF ResumeReconnect
  <2>3. away' \in [Match -> SUBSET Player]
    <3>1. away \in [Match -> SUBSET Player]
      BY DEF TypeOK
    <3>2. \/ away' = away
          \/ away' = [away EXCEPT ![job[t].match] = @ \ {job[t].player}]
      BY <1>2 DEF ResumeReconnect
    <3> QED BY <2>1, <3>1, <3>2
  <2> QED BY <1>2, <2>2, <2>3
          DEF ResumeReconnect, TypeOK, indexVars, lobbyVars, historyVars, sessionVars
<1>3. CASE ResumeAbort(t)
  <2>1. job[t].match \in Match /\ job[t].player \in Player
    BY <1>3 DEF ResumeAbort, JobsNamed
  <2>2. reservation' \in [Match -> [Player -> Nat]] /\ hash' = hash
    BY <1>3, <2>1, ReleaseTyped DEF ResumeAbort, Abort
  <2> QED BY <1>3, <2>2, DoneTyped
          DEF ResumeAbort, TypeOK, registryVars, indexVars, lobbyVars, historyVars
<1>4. CASE ResumeCommit(t)
  <2>1. job[t].match \in Match /\ job[t].player \in Player
    BY <1>4 DEF ResumeCommit, JobsNamed
  <2>2. reservation' \in [Match -> [Player -> Nat]]
    BY <1>4, <2>1, ReleaseTyped DEF ResumeCommit, Commit
  <2>3. hash' \in [Match -> [Player -> Nat]]
    BY <1>4, <2>1, IssueTyped DEF ResumeCommit, Commit, TypeOK
  <2>4. job' \in [Thread -> JobType] /\ JobsNamed'
    BY <1>4, PhaseTyped, DoneTyped DEF ResumeCommit
  <2> QED BY <1>4, <2>2, <2>3, <2>4
          DEF ResumeCommit, TypeOK, registryVars, indexVars, lobbyVars, historyVars
<1>5. CASE ResumeBind(t)
  <2>1. job[t].match \in Match /\ job[t].player \in Player
    BY <1>5 DEF ResumeBind, JobsNamed
  <2>2. /\ active' \in [Player -> Match \cup {None}]
        /\ waiting' \in [Player -> Code \cup {None}]
        /\ overbound' \subseteq Player /\ unlisted' \subseteq Player
    BY <1>5, <2>1 DEF ResumeBind, TypeOK
  <2> QED BY <1>5, <2>2, DoneTyped DEF ResumeBind, TypeOK, registryVars, sessionVars
<1>6. CASE DisconnectMatch(t)
  <2>1. job[t].player \in Player
    BY <1>6 DEF DisconnectMatch, JobsNamed
  <2>2. away' \in [Match -> SUBSET Player]
    <3>1. away \in [Match -> SUBSET Player]
      BY DEF TypeOK
    <3>2. \/ away' = away
          \/ \E m \in Match : away' = [away EXCEPT ![m] = @ \cup {job[t].player}]
      BY <1>6 DEF DisconnectMatch, Live
    <3> QED BY <2>1, <3>1, <3>2
  <2> QED BY <1>6, <2>2, DoneTyped
          DEF DisconnectMatch, TypeOK, indexVars, lobbyVars, historyVars, sessionVars
<1>7. CASE SweepIndex(t)
  <2>1. job[t].player \in Player
    BY <1>7 DEF SweepIndex, JobsNamed
  <2>2. waiting' \in [Player -> Code \cup {None}] /\ unlisted' \subseteq Player
    BY <1>7, <2>1, WaitingWithoutTyped DEF SweepIndex, TypeOK
  <2> QED BY <1>7, <2>2, DoneTyped DEF SweepIndex, TypeOK, registryVars, indexVars, sessionVars
<1> QED BY <1>1, <1>2, <1>3, <1>4, <1>5, <1>6, <1>7 DEF Continue

LEMMA LockedTyped == TypeInv /\ Locked => TypeInv'
<1> SUFFICES ASSUME TypeInv, Locked PROVE TypeInv'
  OBVIOUS
<1> USE DEF TypeInv
<1>1. ASSUME NEW p \in Player, NEW c \in Code, JoinRefused(p, c) PROVE TypeInv'
  BY <1>1, PrunedTyped DEF JoinRefused, TypeOK, JobsNamed, registryVars, historyVars, sessionVars
<1>2. ASSUME NEW p \in Player, NEW c \in Code, JoinRefusedLate(p, c) PROVE TypeInv'
  BY <1>2, PrunedTyped, JoinedTyped
     DEF JoinRefusedLate, TypeOK, JobsNamed, registryVars, historyVars, sessionVars
<1>3. ASSUME NEW p \in Player, NEW c \in Code, Leave(p, c) PROVE TypeInv'
  <2>1. /\ active' \in [Player -> Match \cup {None}] /\ byCode' \in [Code -> Match \cup {None}]
        /\ codeOf' = codeOf /\ rematchOf' = rematchOf
    BY <1>3, AcknowledgeTyped DEF Leave
  <2>2. /\ lobby' \in [Code -> Player \cup {None}] /\ waiting' \in [Player -> Code \cup {None}]
    BY <1>3, RemoveTyped DEF Leave
  <2> QED BY <1>3, <2>1, <2>2 DEF Leave, TypeOK, JobsNamed, registryVars, historyVars, sessionVars
<1>4. ASSUME NEW p \in Player, NEW m \in Match, AckResult(p, m) PROVE TypeInv'
  <2>1. /\ active' \in [Player -> Match \cup {None}] /\ byCode' \in [Code -> Match \cup {None}]
        /\ codeOf' = codeOf /\ rematchOf' = rematchOf
    BY <1>4, AcknowledgeTyped DEF AckResult
  <2> QED BY <1>4, <2>1
          DEF AckResult, TypeOK, JobsNamed, registryVars, lobbyVars, historyVars, sessionVars
<1>5. ASSUME NEW p \in Player, NEW m \in Match, Rematch(p, m) PROVE TypeInv'
  <2>1. members[m] \in SUBSET Player
    BY DEF TypeOK
  <2>2. /\ NextMatch \in Match /\ made' \in 0 .. MaxMatches
        /\ room' \in [Match -> {"unmade", "live", "finished", "removed"}]
        /\ members' \in [Match -> SUBSET Player] /\ away' \in [Match -> SUBSET Player]
    BY <1>5, <2>1, MakeTyped DEF Rematch
  <2>3. active' \in [Player -> Match \cup {None}] /\ rematchOf' \in [Match -> Match \cup {None}]
    BY <1>5, <2>2, SeatTyped DEF Rematch, TypeOK
  <2>4. hash' \in [Match -> [Player -> Nat]]
    BY <1>5, <2>2, IssueTyped DEF Rematch
  <2> QED BY <1>5, <2>2, <2>3, <2>4 DEF Rematch, TypeOK, JobsNamed, lobbyVars, historyVars
<1>6. CASE Drain
  BY <1>6 DEF Drain, TypeOK, JobsNamed, registryVars, indexVars, historyVars, sessionVars
<1>7. CASE Undrain
  BY <1>7 DEF Undrain, TypeOK, JobsNamed, registryVars, indexVars, lobbyVars, historyVars, sessionVars
<1> QED BY <1>1, <1>2, <1>3, <1>4, <1>5, <1>6, <1>7 DEF Locked

LEMMA HousekeepingTyped == TypeInv /\ Housekeeping => TypeInv'
<1> SUFFICES ASSUME TypeInv, Housekeeping PROVE TypeInv'
  OBVIOUS
<1> USE DEF TypeInv
<1>1. ASSUME NEW m \in Match, Finish(m) PROVE TypeInv'
  BY <1>1 DEF Finish, TypeOK, JobsNamed, indexVars, lobbyVars, historyVars, sessionVars
<1>2. ASSUME NEW m \in Match, RemoveRoom(m) PROVE TypeInv'
  <2>1. /\ room' \in [Match -> {"unmade", "live", "finished", "removed"}]
        /\ members' \in [Match -> SUBSET Player] /\ away' \in [Match -> SUBSET Player]
    BY <1>2 DEF RemoveRoom, TypeOK
  <2>2. /\ active' \in [Player -> Match \cup {None}]
        /\ byCode' \in [Code -> Match \cup {None}]
        /\ codeOf' \in [Match -> Code \cup {None}]
        /\ rematchOf' \in [Match -> Match \cup {None}]
    BY <1>2 DEF RemoveRoom, TypeOK
  <2>3. /\ hash' \in [Match -> [Player -> Nat]] /\ reservation' \in [Match -> [Player -> Nat]]
    BY <1>2 DEF RemoveRoom, RemoveSessions, NoSeats, NoToken, TypeOK
  <2> QED BY <1>2, <2>1, <2>2, <2>3 DEF RemoveRoom, TypeOK, JobsNamed, lobbyVars, historyVars
<1>3. ASSUME NEW t \in Thread, NEW c \in Code, SweepLobby(t, c) PROVE TypeInv'
  <2> DEFINE j == [NoJob EXCEPT !.at = "sweep", !.player = lobby[c], !.code = c]
  <2>1. j \in JobType /\ j.at = "sweep" /\ j.player \in Player /\ j.code \in Code
    BY <1>3 DEF SweepLobby, NoJob, JobType, NoToken, TypeOK
  <2>2. Then(t, j)
    BY <1>3 DEF SweepLobby
  <2>3. job' \in [Thread -> JobType] /\ JobsNamed'
    <3> HIDE DEF j
    <3> QED BY <2>1, <2>2, ThenTyped
  <2> QED BY <1>3, <2>3 DEF SweepLobby, TypeOK, registryVars, indexVars, historyVars, sessionVars
<1> QED BY <1>1, <1>2, <1>3 DEF Housekeeping

LEMMA TypeNext == TypeInv /\ [Next]_vars => TypeInv'
<1> SUFFICES ASSUME TypeInv, [Next]_vars PROVE TypeInv'
  OBVIOUS
<1>1. ASSUME NEW t \in Thread, Request(t) PROVE TypeInv'
  <2>1. PICK p \in Player :
          \/ \E c \in Code : StartCpu(t, p, c) \/ JoinWaits(t, p, c) \/ JoinMatched(t, p, c)
          \/ DisconnectLobby(t, p)
          \/ \E m \in Match, token \in 1 .. MaxTokens : ResumeReserve(t, m, p, token)
    BY <1>1 DEF Request
  <2>2. CASE DisconnectLobby(t, p)
    BY <2>2, DisconnectTyped
  <2>3. CASE \E c \in Code : StartCpu(t, p, c) \/ JoinWaits(t, p, c) \/ JoinMatched(t, p, c)
    BY <2>3, RequestTyped
  <2> QED BY <2>1, <2>2, <2>3, ReserveTyped
<1>2. CASE UNCHANGED vars
  BY <1>2 DEF vars, registryVars, indexVars, lobbyVars, historyVars, sessionVars,
              TypeInv, TypeOK, JobsNamed
<1> QED BY <1>1, <1>2, ContinueTyped, LockedTyped, HousekeepingTyped DEF Next

(* Every variable of the lobby keeps its type, with any number of players,  *)
(* codes, threads and matches.                                              *)
THEOREM LobbyTypeCorrect == Spec => []TypeOK
<1>1. TypeInv => TypeOK
  BY DEF TypeInv
<1> QED BY <1>1, TypeInit, TypeNext, PTL DEF Spec

-----------------------------------------------------------------------------
(* The index of live matches *)

(* A new match whose players have no live match in the index they bring.    *)
LEMMA SeatedIndexed ==
  ASSUME TypeInv, LiveMatchIsIndexed,
         NEW ps \in SUBSET Player, MakeMatch(ps),
         NEW index \in [Player -> Match \cup {None}],
         \A p \in Player : Live(active[p]) => index[p] = active[p],
         \A p \in ps : ~Live(active[p]),
         active' = Seat(index, ps), UNCHANGED overbound
  PROVE  LiveMatchIsIndexed'
<1> SUFFICES ASSUME NEW m \in Match, Live(m)', NEW p \in members'[m], p \notin overbound
             PROVE  active'[p] = m
  BY DEF LiveMatchIsIndexed
<1> USE DEF TypeInv
<1>1. NextMatch \in Match /\ members' \in [Match -> SUBSET Player] /\ p \in Player
  BY MakeTyped
<1>2. CASE m = NextMatch
  <2>1. p \in ps
    BY <1>1, <1>2 DEF MakeMatch, TypeOK
  <2> QED BY <1>1, <1>2, <2>1 DEF Seat
<1>3. CASE m # NextMatch
  <2>1. Live(m) /\ p \in members[m]
    BY <1>1, <1>3 DEF MakeMatch, Live, TypeOK
  <2>2. active[p] = m
    BY <2>1 DEF LiveMatchIsIndexed
  <2>3. p \notin ps /\ index[p] = m
    BY <1>1, <2>1, <2>2
  <2> QED BY <1>1, <2>3 DEF Seat
<1> QED BY <1>2, <1>3

(* What makes no match live, and leaves the index entries of live ones.     *)
LEMMA KeptIndexed ==
  ASSUME TypeInv, LiveMatchIsIndexed,
         \A m \in Match : Live(m)' => Live(m) /\ members'[m] = members[m],
         \A m \in Match, p \in Player :
           Live(m)' /\ active[p] = m => active'[p] = m \/ p \in overbound',
         overbound \subseteq overbound'
  PROVE  LiveMatchIsIndexed'
<1> SUFFICES ASSUME NEW m \in Match, Live(m)', NEW p \in members'[m], p \notin overbound'
             PROVE  active'[p] = m
  BY DEF LiveMatchIsIndexed
<1>1. Live(m) /\ p \in members[m] /\ p \in Player
  BY DEF TypeInv, TypeOK
<1>2. active[p] = m
  BY <1>1 DEF LiveMatchIsIndexed
<1> QED BY <1>1, <1>2

LEMMA AcknowledgeKeeps ==
  ASSUME TypeInv, NEW n, NEW q \in Player, Acknowledge(n, q),
         NEW m \in Match, NEW p \in Player, Live(m), active[p] = m
  PROVE  active'[p] = m
BY DEF TypeInv, TypeOK, Acknowledge, indexVars

LEMMA PrunedKeeps ==
  ASSUME TypeInv, NEW p \in Player, Live(active[p])
  PROVE  PrunedActive[p] = active[p]
BY DEF PrunedActive, Live, Exists

LEMMA IndexedNext == TypeInv /\ LiveMatchIsIndexed /\ [Next]_vars => LiveMatchIsIndexed'
<1> SUFFICES ASSUME TypeInv, LiveMatchIsIndexed, [Next]_vars PROVE LiveMatchIsIndexed'
  OBVIOUS
<1>0. \A m \in Match, p \in Player : members[m] \in SUBSET Player
  BY DEF TypeInv, TypeOK
<1>1. ASSUME UNCHANGED <<room, members, active, overbound>> PROVE LiveMatchIsIndexed'
  BY <1>1 DEF LiveMatchIsIndexed, Live
<1>2. ASSUME NEW t \in Thread, Request(t) PROVE LiveMatchIsIndexed'
  <2>1. PICK p \in Player :
          \/ \E c \in Code : StartCpu(t, p, c) \/ JoinWaits(t, p, c) \/ JoinMatched(t, p, c)
          \/ DisconnectLobby(t, p)
          \/ \E m \in Match, token \in 1 .. MaxTokens : ResumeReserve(t, m, p, token)
    BY <1>2 DEF Request
  <2>2. ASSUME NEW c \in Code, StartCpu(t, p, c) PROVE LiveMatchIsIndexed'
    <3>1. /\ {p} \in SUBSET Player /\ MakeMatch({p})
          /\ \A q \in {p} : ~Live(active[q])
          /\ active' = Seat(active, {p}) /\ UNCHANGED overbound
      BY <2>2 DEF StartCpu, historyVars
    <3>2. active \in [Player -> Match \cup {None}]
      BY DEF TypeInv, TypeOK
    <3> QED BY <3>1, <3>2, SeatedIndexed
  <2>3. ASSUME NEW c \in Code, JoinWaits(t, p, c) PROVE LiveMatchIsIndexed'
    BY <2>3, PrunedKeeps, KeptIndexed DEF JoinWaits, registryVars, historyVars, Live
  <2>4. ASSUME NEW c \in Code, JoinMatched(t, p, c) PROVE LiveMatchIsIndexed'
    <3> DEFINE pair == {p, Opponent(p, c)}
    <3>1. Opponent(p, c) \in Player
      BY <2>4, JoinedTyped DEF JoinMatched, Opponent
    <3>2. MakeMatch(pair) /\ active' = Seat(PrunedActive, pair) /\ UNCHANGED overbound
      BY <2>4 DEF JoinMatched, historyVars
    <3>3. ~Live(PrunedActive[p]) /\ ~Live(PrunedActive[Opponent(p, c)])
      BY <2>4 DEF JoinMatched, MayJoin
    <3>4. \A q \in pair : ~Live(active[q])
      BY <3>1, <3>3, PrunedKeeps
    <3>5. pair \in SUBSET Player
      BY <3>1
    <3> HIDE DEF pair
    <3> QED BY <3>2, <3>4, <3>5, PrunedKeeps, PrunedTyped, SeatedIndexed
  <2>5. CASE DisconnectLobby(t, p)
    BY <2>5, <1>1 DEF DisconnectLobby, registryVars, indexVars, historyVars
  <2>6. ASSUME NEW m \in Match, NEW token \in 1 .. MaxTokens, ResumeReserve(t, m, p, token)
        PROVE  LiveMatchIsIndexed'
    BY <2>6, <1>1 DEF ResumeReserve, registryVars, indexVars, historyVars
  <2> QED BY <2>1, <2>2, <2>3, <2>4, <2>5, <2>6
<1>3. ASSUME NEW t \in Thread, Continue(t) PROVE LiveMatchIsIndexed'
  <2>1. CASE ResumeBind(t)
    <3>1. job[t].match \in Match /\ job[t].player \in Player
      BY <2>1 DEF ResumeBind, TypeInv, JobsNamed
    <3>2. \A m \in Match, p \in Player :
             Live(m) /\ active[p] = m => active'[p] = m \/ p \in overbound'
      BY <2>1, <3>1 DEF ResumeBind, TypeInv, TypeOK
    <3> QED BY <2>1, <3>2, KeptIndexed DEF ResumeBind, registryVars, Live
  <2>2. CASE ~ResumeBind(t)
    BY <1>1, <1>3, <2>2
       DEF Continue, Grant, ResumeReconnect, ResumeAbort, ResumeCommit, DisconnectMatch, SweepIndex,
           registryVars, indexVars, historyVars
  <2> QED BY <2>1, <2>2
<1>4. CASE Locked
  <2>1. ASSUME NEW p \in Player, NEW c \in Code, JoinRefused(p, c) \/ JoinRefusedLate(p, c)
        PROVE  LiveMatchIsIndexed'
    BY <2>1, PrunedKeeps, KeptIndexed DEF JoinRefused, JoinRefusedLate, registryVars, historyVars, Live
  <2>2. ASSUME NEW p \in Player, NEW c \in Code, Leave(p, c) PROVE LiveMatchIsIndexed'
    BY <2>2, AcknowledgeKeeps, KeptIndexed DEF Leave, registryVars, historyVars, Live
  <2>3. ASSUME NEW p \in Player, NEW m \in Match, AckResult(p, m) PROVE LiveMatchIsIndexed'
    BY <2>3, AcknowledgeKeeps, KeptIndexed DEF AckResult, registryVars, historyVars, Live
  <2>4. ASSUME NEW p \in Player, NEW m \in Match, Rematch(p, m) PROVE LiveMatchIsIndexed'
    <3>1. /\ MakeMatch(members[m]) /\ active' = Seat(active, members[m]) /\ UNCHANGED overbound
          /\ \A q \in members[m] : ~Live(active[q])
      BY <2>4 DEF Rematch, Elsewhere, historyVars
    <3>2. active \in [Player -> Match \cup {None}]
      BY DEF TypeInv, TypeOK
    <3> QED BY <1>0, <3>1, <3>2, SeatedIndexed
  <2>5. CASE Drain \/ Undrain
    BY <2>5, <1>1 DEF Drain, Undrain, registryVars, indexVars, historyVars
  <2> QED BY <1>4, <2>1, <2>2, <2>3, <2>4, <2>5 DEF Locked
<1>5. CASE Housekeeping
  <2>1. ASSUME NEW m \in Match, Finish(m) PROVE LiveMatchIsIndexed'
    BY <2>1, KeptIndexed DEF Finish, indexVars, historyVars, Live, TypeInv, TypeOK
  <2>2. ASSUME NEW m \in Match, RemoveRoom(m) PROVE LiveMatchIsIndexed'
    BY <2>2, KeptIndexed DEF RemoveRoom, historyVars, Live, TypeInv, TypeOK
  <2>3. ASSUME NEW t \in Thread, NEW c \in Code, SweepLobby(t, c) PROVE LiveMatchIsIndexed'
    BY <2>3, <1>1 DEF SweepLobby, registryVars, indexVars, historyVars
  <2> QED BY <1>5, <2>1, <2>2, <2>3 DEF Housekeeping
<1>6. CASE UNCHANGED vars
  BY <1>6, <1>1 DEF vars, registryVars, indexVars, historyVars
<1> QED BY <1>2, <1>3, <1>4, <1>5, <1>6 DEF Next

LEMMA IndexedAlways == Spec => [](TypeInv /\ LiveMatchIsIndexed)
<1>1. Init => LiveMatchIsIndexed
  BY DEF Init, LiveMatchIsIndexed, Live
<1> QED BY <1>1, TypeInit, TypeNext, IndexedNext, PTL DEF Spec

(* The index names the live match of each of its players, whatever joins,    *)
(* rematches, resumes, disconnects and removals overlap.                     *)
THEOREM LiveMatchIndexed == Spec => []LiveMatchIsIndexed
BY IndexedAlways, PTL

(* Nobody plays two live matches, unless a late resume has overwritten one.  *)
THEOREM OneLiveMatchEach == Spec => []OneLiveMatch
<1>1. TypeInv /\ LiveMatchIsIndexed => OneLiveMatch
  BY DEF LiveMatchIsIndexed, OneLiveMatch
<1> QED BY <1>1, IndexedAlways, PTL

-----------------------------------------------------------------------------
(* Lobbies and the index of who waits *)

LEMMA RemoveKeepsListed ==
  ASSUME TypeInv, WaitingIsListed, NEW c, NEW p, RemoveFromLobby(c, p), unlisted \subseteq unlisted'
  PROVE  WaitingIsListed'
BY DEF TypeInv, TypeOK, WaitingIsListed, RemoveFromLobby, LobbyWithout, WaitingWithout

LEMMA PrunedListed ==
  ASSUME TypeInv, WaitingIsListed, NEW d \in Code, lobby[d] # None, lobby[d] \notin unlisted
  PROVE  PrunedWaiting[lobby[d]] = d
BY DEF TypeInv, TypeOK, WaitingIsListed, PrunedWaiting

LEMMA JoinedListed ==
  ASSUME TypeInv, WaitingIsListed, NEW p \in Player, NEW c \in Code, NEW d \in Code,
         JoinedLobby(p, c)[d] # None, JoinedLobby(p, c)[d] \notin unlisted
  PROVE  /\ JoinedLobby(p, c)[d] = lobby[d]
         /\ JoinedWaiting(p, c)[lobby[d]] = d
         /\ lobby[d] = p => d = c
<1>1. JoinedLobby(p, c)[d] = lobby[d] /\ (lobby[d] # p \/ d # LeftCode(p, c))
  BY DEF JoinedLobby, LobbyWithout
<1>2. PrunedWaiting[lobby[d]] = d /\ lobby[d] \in Player
  BY <1>1, PrunedListed DEF TypeInv, TypeOK
<1>3. CASE lobby[d] = p
  <2>1. d = c
    BY <1>1, <1>2, <1>3 DEF LeftCode
  <2>2. LeftCode(p, c) = None /\ d # None
    BY <1>2, <1>3, <2>1, LobbyAssumption DEF LeftCode
  <2> QED BY <1>1, <1>2, <1>3, <2>1, <2>2 DEF JoinedWaiting, WaitingWithout
<1>4. CASE lobby[d] # p
  BY <1>1, <1>2, <1>4 DEF JoinedWaiting, WaitingWithout
<1> QED BY <1>1, <1>3, <1>4

LEMMA ListedNext == TypeInv /\ WaitingIsListed /\ [Next]_vars => WaitingIsListed'
<1> SUFFICES ASSUME TypeInv, WaitingIsListed, [Next]_vars PROVE WaitingIsListed'
  OBVIOUS
<1>1. ASSUME UNCHANGED <<lobby, waiting>>, unlisted \subseteq unlisted' PROVE WaitingIsListed'
  BY <1>1 DEF WaitingIsListed
<1>2. ASSUME NEW t \in Thread, Request(t) PROVE WaitingIsListed'
  <2>1. PICK p \in Player :
          \/ \E c \in Code : StartCpu(t, p, c) \/ JoinWaits(t, p, c) \/ JoinMatched(t, p, c)
          \/ DisconnectLobby(t, p)
          \/ \E m \in Match, token \in 1 .. MaxTokens : ResumeReserve(t, m, p, token)
    BY <1>2 DEF Request
  <2>2. ASSUME NEW c \in Code, StartCpu(t, p, c) PROVE WaitingIsListed'
    BY <2>2, RemoveKeepsListed DEF StartCpu, historyVars
  <2>3. ASSUME NEW c \in Code, JoinWaits(t, p, c) PROVE WaitingIsListed'
    <3> SUFFICES ASSUME NEW d \in Code, lobby'[d] # None, lobby'[d] \notin unlisted
                 PROVE  waiting'[lobby'[d]] = d
      BY <2>3 DEF WaitingIsListed, JoinWaits, historyVars
    <3>1. /\ JoinedLobby(p, c) \in [Code -> Player \cup {None}]
          /\ JoinedWaiting(p, c) \in [Player -> Code \cup {None}]
      BY JoinedTyped
    <3>2. CASE d = c
      BY <2>3, <3>1, <3>2 DEF JoinWaits
    <3>3. CASE d # c
      <4>1. lobby'[d] = JoinedLobby(p, c)[d]
        BY <2>3, <3>1, <3>3 DEF JoinWaits
      <4>2. lobby'[d] = lobby[d] /\ lobby[d] # p /\ JoinedWaiting(p, c)[lobby[d]] = d
        BY <3>3, <4>1, JoinedListed
      <4>3. lobby[d] \in Player
        BY <4>2 DEF TypeInv, TypeOK
      <4> QED BY <2>3, <3>1, <4>2, <4>3 DEF JoinWaits
    <3> QED BY <3>2, <3>3
  <2>4. ASSUME NEW c \in Code, JoinMatched(t, p, c) PROVE WaitingIsListed'
    <3> SUFFICES ASSUME NEW d \in Code, lobby'[d] # None, lobby'[d] \notin unlisted
                 PROVE  waiting'[lobby'[d]] = d
      BY <2>4 DEF WaitingIsListed, JoinMatched, historyVars
    <3>1. JoinedLobby(p, c) \in [Code -> Player \cup {None}]
      BY JoinedTyped
    <3>2. d # c /\ lobby'[d] = JoinedLobby(p, c)[d]
      BY <2>4, <3>1 DEF JoinMatched
    <3>3. lobby'[d] = lobby[d] /\ lobby[d] # p /\ JoinedWaiting(p, c)[lobby[d]] = d
      BY <3>2, JoinedListed
    <3>4. lobby[d] # Opponent(p, c)
      <4> SUFFICES ASSUME lobby[d] = Opponent(p, c) PROVE FALSE
        OBVIOUS
      <4>1. JoinedLobby(p, c)[c] = lobby[d] /\ lobby[d] # None /\ lobby[d] \notin unlisted
        BY <3>2, <3>3 DEF Opponent
      <4>2. JoinedWaiting(p, c)[lobby[d]] = c
        BY <4>1, JoinedListed
      <4> QED BY <3>2, <3>3, <4>2
    <3>5. lobby[d] \in Player
      BY <3>3 DEF TypeInv, TypeOK
    <3> QED BY <2>4, <3>3, <3>4, <3>5 DEF JoinMatched
  <2>5. CASE DisconnectLobby(t, p)
    BY <2>5, RemoveKeepsListed DEF DisconnectLobby, historyVars
  <2>6. ASSUME NEW m \in Match, NEW token \in 1 .. MaxTokens, ResumeReserve(t, m, p, token)
        PROVE  WaitingIsListed'
    BY <2>6, <1>1 DEF ResumeReserve, lobbyVars, historyVars
  <2> QED BY <2>1, <2>2, <2>3, <2>4, <2>5, <2>6
<1>3. ASSUME NEW t \in Thread, Continue(t) PROVE WaitingIsListed'
  <2>1. CASE ResumeBind(t)
    BY <2>1 DEF ResumeBind, TypeInv, TypeOK, JobsNamed, WaitingIsListed
  <2>2. CASE SweepIndex(t)
    BY <2>2 DEF SweepIndex, WaitingWithout, TypeInv, TypeOK, JobsNamed, WaitingIsListed
  <2>3. CASE ~ResumeBind(t) /\ ~SweepIndex(t)
    BY <1>1, <1>3, <2>3
       DEF Continue, Grant, ResumeReconnect, ResumeAbort, ResumeCommit, DisconnectMatch,
           lobbyVars, historyVars
  <2> QED BY <2>1, <2>2, <2>3
<1>4. CASE Locked
  <2>1. ASSUME NEW p \in Player, NEW c \in Code, JoinRefused(p, c) PROVE WaitingIsListed'
    <3> SUFFICES ASSUME NEW d \in Code, lobby[d] # None, lobby[d] \notin unlisted
                 PROVE  PrunedWaiting[lobby[d]] = d
      BY <2>1 DEF WaitingIsListed, JoinRefused, historyVars
    <3> QED BY PrunedListed
  <2>2. ASSUME NEW p \in Player, NEW c \in Code, JoinRefusedLate(p, c) PROVE WaitingIsListed'
    <3> SUFFICES ASSUME NEW d \in Code, JoinedLobby(p, c)[d] # None, JoinedLobby(p, c)[d] \notin unlisted
                 PROVE  JoinedWaiting(p, c)[JoinedLobby(p, c)[d]] = d
      BY <2>2 DEF WaitingIsListed, JoinRefusedLate, historyVars
    <3> QED BY JoinedListed
  <2>3. ASSUME NEW p \in Player, NEW c \in Code, Leave(p, c) PROVE WaitingIsListed'
    BY <2>3, RemoveKeepsListed DEF Leave, historyVars
  <2>4. ASSUME NEW p \in Player, NEW m \in Match, AckResult(p, m) \/ Rematch(p, m)
        PROVE  WaitingIsListed'
    BY <2>4, <1>1 DEF AckResult, Rematch, lobbyVars, historyVars
  <2>5. CASE Drain
    BY <2>5 DEF Drain, WaitingIsListed
  <2>6. CASE Undrain
    BY <2>6, <1>1 DEF Undrain, lobbyVars, historyVars
  <2> QED BY <1>4, <2>1, <2>2, <2>3, <2>4, <2>5, <2>6 DEF Locked
<1>5. CASE Housekeeping
  <2>1. ASSUME NEW m \in Match, Finish(m) \/ RemoveRoom(m) PROVE WaitingIsListed'
    BY <2>1, <1>1 DEF Finish, RemoveRoom, lobbyVars, historyVars
  <2>2. ASSUME NEW t \in Thread, NEW c \in Code, SweepLobby(t, c) PROVE WaitingIsListed'
    BY <2>2 DEF SweepLobby, historyVars, WaitingIsListed, TypeInv, TypeOK
  <2> QED BY <1>5, <2>1, <2>2 DEF Housekeeping
<1>6. CASE UNCHANGED vars
  BY <1>6, <1>1 DEF vars, lobbyVars, historyVars
<1> QED BY <1>2, <1>3, <1>4, <1>5, <1>6 DEF Next

(* Whoever waits in a lobby can be found and taken out of it again, but for  *)
(* players whose index entry an overtaken sweep or resume has dropped.       *)
THEOREM LobbyEntriesListed == Spec => []WaitingIsListed
<1>1. Init => WaitingIsListed
  BY DEF Init, WaitingIsListed
<1> QED BY <1>1, TypeInit, TypeNext, ListedNext, PTL DEF Spec

-----------------------------------------------------------------------------
(* Credentials *)

Settling(t) == job[t].at \in {"reconnect", "abort", "commit"}

SameSeat(t, u) == job[t].match = job[u].match /\ job[t].player = job[u].player

(* A match that is not made yet has no credentials and nobody at work on it. *)
UnmadeIsBlank ==
  /\ \A m \in Match : m > made => room[m] = "unmade" /\ hash[m] = NoSeats
  /\ \A t \in Thread : job[t].at = "grant" \/ Settling(t) => job[t].match \leq made

(* The first credentials of a match are issued once.                        *)
GrantIsFirst ==
  \A t \in Thread : job[t].at = "grant" /\ Exists(job[t].match) =>
    /\ hash[job[t].match] = NoSeats
    /\ \A u \in Thread : job[u].at = "grant" /\ job[u].match = job[t].match => u = t

(* A resume in flight holds the current credential of its seat, alone.      *)
ResumeIsAlone ==
  \A t \in Thread : Settling(t) /\ Exists(job[t].match) =>
    /\ job[t].token # NoToken
    /\ reservation[job[t].match][job[t].player] = job[t].token
    /\ hash[job[t].match][job[t].player] = job[t].token
    /\ \A u \in Thread : Settling(u) /\ SameSeat(t, u) => u = t

CredentialInv == UnmadeIsBlank /\ GrantIsFirst /\ ResumeIsAlone

LEMMA CredentialInit == Init => CredentialInv
<1> SUFFICES ASSUME Init PROVE CredentialInv
  OBVIOUS
<1>1. \A t \in Thread : job[t].at = "idle"
  BY DEF Init, NoJob
<1>2. \A m \in Match : room[m] = "unmade" /\ hash[m] = NoSeats
  BY DEF Init, SessionInit
<1> QED BY <1>1, <1>2 DEF CredentialInv, UnmadeIsBlank, GrantIsFirst, ResumeIsAlone, Settling

(* Steps that leave the credentials and the jobs on them alone, and bring no *)
(* match back.                                                              *)
LEMMA CredentialKept ==
  ASSUME TypeInv, CredentialInv, UNCHANGED <<made, hash, reservation>>,
         \A m \in Match : (room'[m] = room[m]) \/ (Live(m) /\ room'[m] = "finished"),
         \A t \in Thread : \/ job'[t] = job[t]
                           \/ job'[t].at \notin {"grant", "reconnect", "abort", "commit"}
                           \/ /\ Settling(t) /\ job'[t].at \in {"reconnect", "abort", "commit"}
                              /\ job'[t].match = job[t].match /\ job'[t].player = job[t].player
                              /\ job'[t].token = job[t].token
  PROVE  CredentialInv'
<1>1. \A m : Exists(m)' => Exists(m)
  BY DEF Exists, Live
<1>2. \A t \in Thread :
        /\ Settling(t)' => /\ Settling(t) /\ job'[t].match = job[t].match
                           /\ job'[t].player = job[t].player /\ job'[t].token = job[t].token
        /\ (job[t].at = "grant")' => job'[t] = job[t]
  BY DEF Settling
<1>3. UnmadeIsBlank'
  BY <1>2, LobbyAssumption DEF CredentialInv, UnmadeIsBlank, TypeInv, TypeOK, Live
<1>4. GrantIsFirst'
  BY <1>1, <1>2 DEF CredentialInv, GrantIsFirst
<1>5. ResumeIsAlone'
  BY <1>1, <1>2 DEF CredentialInv, ResumeIsAlone, SameSeat
<1> QED BY <1>3, <1>4, <1>5 DEF CredentialInv

(* A match is made, and one thread may have to issue its credentials.       *)
LEMMA CredentialMade ==
  ASSUME TypeInv, CredentialInv, NEW ps \in SUBSET Player, MakeMatch(ps),
         UNCHANGED <<hash, reservation>>, NEW t \in Thread, NEW p \in Player,
         job' = [job EXCEPT ![t] = Job("grant", NextMatch, p)]
  PROVE  CredentialInv'
<1> DEFINE j == Job("grant", NextMatch, p)
<1>1. /\ NextMatch \in Match /\ NextMatch = made + 1 /\ made' = made + 1 /\ made \in Nat
      /\ \A m \in Match : m \in Nat /\ (m # NextMatch => room'[m] = room[m])
  BY MakeTyped, LobbyAssumption DEF MakeMatch, NextMatch, TypeInv, TypeOK
<1>2. j.at = "grant" /\ j.match = NextMatch
  BY <1>1, JobTyped
<1>3. /\ job'[t] = j
      /\ \A u \in Thread : u # t => job'[u] = job[u]
  BY DEF TypeInv, TypeOK
<1> HIDE DEF j
<1>4. hash[NextMatch] = NoSeats
  BY <1>1 DEF CredentialInv, UnmadeIsBlank
<1>5. \A u \in Thread : u # t /\ (job[u].at = "grant" \/ Settling(u)) => job[u].match # NextMatch
                                                                      /\ job[u].match \in Match
  BY <1>1 DEF CredentialInv, UnmadeIsBlank, TypeInv, JobsNamed, Settling
<1>6. \A m \in Match : m # NextMatch => Exists(m)' = Exists(m)
  BY <1>1 DEF Exists
<1>7. UnmadeIsBlank'
  <2>1. \A m \in Match : m > made' => room'[m] = "unmade" /\ hash[m] = NoSeats
    BY <1>1 DEF CredentialInv, UnmadeIsBlank
  <2>2. \A u \in Thread : (job[u].at = "grant" \/ Settling(u))' => job'[u].match \leq made'
    <3> SUFFICES ASSUME NEW u \in Thread, (job[u].at = "grant" \/ Settling(u))'
                 PROVE  job'[u].match \leq made'
      OBVIOUS
    <3>1. CASE u = t
      BY <1>1, <1>2, <1>3, <3>1
    <3>2. CASE u # t
      <4>1. job[u].match \leq made /\ job[u].match \in Match
        BY <1>3, <1>5, <3>2 DEF CredentialInv, UnmadeIsBlank, Settling
      <4>2. job[u].match \in Nat /\ job'[u].match = job[u].match
        BY <1>1, <1>3, <3>2, <4>1
      <4> HIDE <1>2, <1>5, <1>6
      <4> QED BY <1>1, <4>1, <4>2
    <3> QED BY <3>1, <3>2
  <2> QED BY <2>1, <2>2 DEF UnmadeIsBlank
<1>8. GrantIsFirst'
  <2> SUFFICES ASSUME NEW u \in Thread, job'[u].at = "grant", Exists(job[u].match)'
               PROVE  /\ hash[job'[u].match] = NoSeats
                      /\ \A v \in Thread : job'[v].at = "grant" /\ job'[v].match = job'[u].match => v = u
    BY DEF GrantIsFirst
  <2>1. CASE u = t
    BY <1>2, <1>3, <1>4, <1>5, <2>1
  <2>2. CASE u # t
    BY <1>2, <1>3, <1>5, <1>6, <2>2 DEF CredentialInv, GrantIsFirst
  <2> QED BY <2>1, <2>2
<1>9. ResumeIsAlone'
  <2> SUFFICES ASSUME NEW u \in Thread, Settling(u)', Exists(job[u].match)'
               PROVE  /\ job'[u].token # NoToken
                      /\ reservation[job'[u].match][job'[u].player] = job'[u].token
                      /\ hash[job'[u].match][job'[u].player] = job'[u].token
                      /\ \A v \in Thread : Settling(v)' /\ SameSeat(u, v)' => v = u
    BY DEF ResumeIsAlone
  <2>1. u # t
    BY <1>2, <1>3 DEF Settling
  <2>2. Settling(u) /\ Exists(job[u].match) /\ job'[u] = job[u]
    BY <1>3, <1>5, <1>6, <2>1 DEF Settling
  <2>3. \A v \in Thread : Settling(v)' => Settling(v) /\ job'[v] = job[v]
    BY <1>2, <1>3 DEF Settling
  <2> QED BY <2>2, <2>3 DEF CredentialInv, ResumeIsAlone, SameSeat
<1> QED BY <1>7, <1>8, <1>9 DEF CredentialInv

(* A rematch is made and its credentials issued in one section. *)
LEMMA CredentialRematch ==
  ASSUME TypeInv, CredentialInv, NEW ps \in SUBSET Player, MakeMatch(ps),
         Issue(NextMatch, ps), UNCHANGED <<reservation, job>>
  PROVE  CredentialInv'
<1>1. /\ NextMatch \in Match /\ NextMatch = made + 1 /\ made' = made + 1 /\ made \in Nat
      /\ \A m \in Match : m \in Nat /\ (m # NextMatch => room'[m] = room[m] /\ hash'[m] = hash[m])
  BY MakeTyped, LobbyAssumption DEF MakeMatch, NextMatch, TypeInv, TypeOK, Issue
<1>2. \A u \in Thread : job[u].at = "grant" \/ Settling(u) =>
        job[u].match \in Match /\ job[u].match \in Nat /\ job[u].match \leq made
  BY <1>1 DEF CredentialInv, UnmadeIsBlank, TypeInv, JobsNamed, Settling
<1>3. \A u \in Thread : job[u].at = "grant" \/ Settling(u) => job[u].match # NextMatch
  BY <1>1, <1>2
<1>4. \A m \in Match : m # NextMatch => Exists(m)' = Exists(m)
  BY <1>1 DEF Exists
<1>5. UnmadeIsBlank'
  <2>1. \A m \in Match : m > made' => room'[m] = "unmade" /\ hash'[m] = NoSeats
    BY <1>1 DEF CredentialInv, UnmadeIsBlank
  <2>2. \A u \in Thread : job[u].at = "grant" \/ Settling(u) => job[u].match \leq made'
    BY <1>1, <1>2
  <2> QED BY <2>1, <2>2 DEF UnmadeIsBlank, Settling
<1>6. GrantIsFirst'
  BY <1>1, <1>2, <1>3, <1>4 DEF CredentialInv, GrantIsFirst
<1>7. ResumeIsAlone'
  BY <1>1, <1>2, <1>3, <1>4 DEF CredentialInv, ResumeIsAlone, Settling, SameSeat
<1> QED BY <1>5, <1>6, <1>7 DEF CredentialInv

LEMMA CredentialGrant ==
  ASSUME TypeInv, CredentialInv, NEW t \in Thread, Grant(t)
  PROVE  CredentialInv'
<1> DEFINE m == job[t].match
<1>1. /\ m \in Match /\ job[t].at = "grant" /\ m \leq made
      /\ \A n \in Match : n # m => hash'[n] = hash[n]
      /\ UNCHANGED <<made, room, reservation>>
      /\ ~Exists(m) => hash' = hash
  BY DEF Grant, CredentialInv, UnmadeIsBlank, TypeInv, TypeOK, JobsNamed, Issue, sessionVars, registryVars
<1>2. /\ job'[t].at = "idle"
      /\ \A u \in Thread : u # t => job'[u] = job[u]
  BY DEF Grant, Done, Then, NoJob, TypeInv, TypeOK
<1>3. \A u \in Thread : job'[u].at = "grant" \/ Settling(u)' => u # t /\ job'[u] = job[u]
  BY <1>2 DEF Settling
<1>4. \A n : Exists(n)' = Exists(n)
  BY <1>1 DEF Exists
<1>5. UnmadeIsBlank'
  <2>1. \A n \in Match : n > made => n # m
    BY <1>1, LobbyAssumption DEF TypeInv, TypeOK
  <2> QED BY <1>1, <1>3, <2>1 DEF CredentialInv, UnmadeIsBlank, Settling
<1>6. GrantIsFirst'
  <2> SUFFICES ASSUME NEW u \in Thread, job'[u].at = "grant", Exists(job[u].match)'
               PROVE  /\ hash'[job'[u].match] = NoSeats
                      /\ \A v \in Thread : job'[v].at = "grant" /\ job'[v].match = job'[u].match => v = u
    BY DEF GrantIsFirst
  <2>1. u # t /\ job'[u] = job[u] /\ job[u].at = "grant" /\ Exists(job[u].match)
    BY <1>3, <1>4
  <2>2. /\ hash[job[u].match] = NoSeats
        /\ \A v \in Thread : job[v].at = "grant" /\ job[v].match = job[u].match => v = u
    BY <2>1 DEF CredentialInv, GrantIsFirst
  <2>3. job[u].match # m /\ job[u].match \in Match
    BY <1>1, <2>1, <2>2 DEF Exists
  <2> QED BY <1>1, <1>3, <2>1, <2>2, <2>3
<1>7. ResumeIsAlone'
  <2> SUFFICES ASSUME NEW u \in Thread, Settling(u)', Exists(job[u].match)'
               PROVE  /\ job'[u].token # NoToken
                      /\ reservation'[job'[u].match][job'[u].player] = job'[u].token
                      /\ hash'[job'[u].match][job'[u].player] = job'[u].token
                      /\ \A v \in Thread : Settling(v)' /\ SameSeat(u, v)' => v = u
    BY DEF ResumeIsAlone
  <2>1. job'[u] = job[u] /\ Settling(u) /\ Exists(job[u].match) /\ job[u].player \in Player
    BY <1>3, <1>4 DEF Settling, TypeInv, JobsNamed
  <2>2. /\ job[u].token # NoToken
        /\ reservation[job[u].match][job[u].player] = job[u].token
        /\ hash[job[u].match][job[u].player] = job[u].token
        /\ \A v \in Thread : Settling(v) /\ SameSeat(u, v) => v = u
    BY <2>1 DEF CredentialInv, ResumeIsAlone
  <2>3. job[u].match # m /\ job[u].match \in Match
    BY <1>1, <2>1, <2>2 DEF CredentialInv, GrantIsFirst, NoSeats, Exists
  <2>4. \A v \in Thread : Settling(v)' => Settling(v) /\ job'[v] = job[v]
    BY <1>3 DEF Settling
  <2> QED BY <1>1, <2>1, <2>2, <2>3, <2>4 DEF SameSeat
<1> QED BY <1>5, <1>6, <1>7 DEF CredentialInv

(* A resume that gives its seat back, with or without the next credential.  *)
LEMMA CredentialSettled ==
  ASSUME TypeInv, CredentialInv, NEW t \in Thread, Settling(t),
         UNCHANGED <<made, room>>, Release(job[t].match, job[t].player),
         hash' = hash \/ (/\ MayCommit(job[t].match, job[t].player, job[t].token)
                          /\ Issue(job[t].match, {job[t].player})),
         NEW j, Then(t, j), j.at \in {"idle", "bind"}
  PROVE  CredentialInv'
<1> DEFINE m == job[t].match
           p == job[t].player
<1>1. m \in Match /\ p \in Player /\ m \leq made
  BY DEF Settling, CredentialInv, UnmadeIsBlank, TypeInv, JobsNamed
<1>2. /\ \A n \in Match, q \in Player : ~(n = m /\ q = p) => /\ reservation'[n][q] = reservation[n][q]
                                                             /\ hash'[n][q] = hash[n][q]
      /\ \A n \in Match : n # m => hash'[n] = hash[n]
      /\ hash' # hash => hash[m][p] # NoToken
  BY <1>1 DEF Release, Issue, MayCommit, Verify, TypeInv, TypeOK
<1>3. \A u \in Thread : job'[u].at = "grant" \/ Settling(u)' => u # t /\ job'[u] = job[u]
  BY DEF Settling, Then, TypeInv, TypeOK
<1>4. \A n : Exists(n)' = Exists(n)
  BY DEF Exists
<1>5. UnmadeIsBlank'
  <2>1. \A n \in Match : n > made => n # m
    BY <1>1, LobbyAssumption DEF TypeInv, TypeOK
  <2> QED BY <1>2, <1>3, <2>1 DEF CredentialInv, UnmadeIsBlank, Settling
<1>6. GrantIsFirst'
  <2> SUFFICES ASSUME NEW u \in Thread, job'[u].at = "grant", Exists(job[u].match)'
               PROVE  /\ hash'[job'[u].match] = NoSeats
                      /\ \A v \in Thread : job'[v].at = "grant" /\ job'[v].match = job'[u].match => v = u
    BY DEF GrantIsFirst
  <2>1. u # t /\ job'[u] = job[u] /\ job[u].at = "grant" /\ Exists(job[u].match)
    BY <1>3, <1>4
  <2>2. /\ hash[job[u].match] = NoSeats
        /\ \A v \in Thread : job[v].at = "grant" /\ job[v].match = job[u].match => v = u
    BY <2>1 DEF CredentialInv, GrantIsFirst
  <2>3. job[u].match # m \/ hash' = hash
    BY <1>1, <1>2, <2>2 DEF NoSeats
  <2> QED BY <1>2, <1>3, <2>1, <2>2, <2>3 DEF Exists
<1>7. ResumeIsAlone'
  <2> SUFFICES ASSUME NEW u \in Thread, Settling(u)', Exists(job[u].match)'
               PROVE  /\ job'[u].token # NoToken
                      /\ reservation'[job'[u].match][job'[u].player] = job'[u].token
                      /\ hash'[job'[u].match][job'[u].player] = job'[u].token
                      /\ \A v \in Thread : Settling(v)' /\ SameSeat(u, v)' => v = u
    BY DEF ResumeIsAlone
  <2>1. u # t /\ job'[u] = job[u] /\ Settling(u) /\ Exists(job[u].match) /\ job[u].player \in Player
    BY <1>3, <1>4 DEF Settling, TypeInv, JobsNamed
  <2>2. /\ job[u].token # NoToken
        /\ reservation[job[u].match][job[u].player] = job[u].token
        /\ hash[job[u].match][job[u].player] = job[u].token
        /\ \A v \in Thread : Settling(v) /\ SameSeat(u, v) => v = u
    BY <2>1 DEF CredentialInv, ResumeIsAlone
  <2>3. ~(job[u].match = m /\ job[u].player = p) /\ job[u].match \in Match
    BY <2>1, <2>2 DEF SameSeat, Exists
  <2>4. \A v \in Thread : Settling(v)' => Settling(v) /\ job'[v] = job[v]
    BY <1>3 DEF Settling
  <2> QED BY <1>2, <2>1, <2>2, <2>3, <2>4 DEF SameSeat
<1> QED BY <1>5, <1>6, <1>7 DEF CredentialInv

LEMMA CredentialReserved ==
  ASSUME TypeInv, CredentialInv, NEW t \in Thread, NEW m \in Match, NEW p \in Player,
         NEW token \in 1 .. MaxTokens, ResumeReserve(t, m, p, token)
  PROVE  CredentialInv'
<1> DEFINE j == [Job("reconnect", m, p) EXCEPT !.token = token]
<1>1. j.at = "reconnect" /\ j.match = m /\ j.player = p /\ j.token = token
  BY DEF Job, NoJob
<1>2. /\ job'[t] = j
      /\ \A u \in Thread : u # t => job'[u] = job[u]
  BY DEF ResumeReserve, Then, TypeInv, TypeOK
<1> HIDE DEF j
<1>3. /\ UNCHANGED <<made, room, hash>>
      /\ reservation[m][p] = NoToken /\ token # NoToken /\ hash[m][p] = token /\ Exists(m)
      /\ reservation'[m][p] = token
      /\ \A n \in Match, q \in Player : ~(n = m /\ q = p) => reservation'[n][q] = reservation[n][q]
  BY DEF ResumeReserve, MayReserve, Verify, Reserve, registryVars, TypeInv, TypeOK
<1>4. m \leq made
  BY <1>3, LobbyAssumption DEF CredentialInv, UnmadeIsBlank, Exists, TypeInv, TypeOK
<1>5. \A u \in Thread : Settling(u) => ~(job[u].match = m /\ job[u].player = p)
  BY <1>3 DEF CredentialInv, ResumeIsAlone
<1>6. \A n : Exists(n)' = Exists(n)
  BY <1>3 DEF Exists
<1>7. \A u \in Thread : job'[u].at = "grant" => u # t /\ job'[u] = job[u]
  BY <1>1, <1>2
<1>8. UnmadeIsBlank'
  BY <1>1, <1>2, <1>3, <1>4 DEF CredentialInv, UnmadeIsBlank, Settling
<1>9. GrantIsFirst'
  BY <1>3, <1>6, <1>7 DEF CredentialInv, GrantIsFirst
<1>10. ResumeIsAlone'
  <2> SUFFICES ASSUME NEW u \in Thread, Settling(u)', Exists(job[u].match)'
               PROVE  /\ job'[u].token # NoToken
                      /\ reservation'[job'[u].match][job'[u].player] = job'[u].token
                      /\ hash'[job'[u].match][job'[u].player] = job'[u].token
                      /\ \A v \in Thread : Settling(v)' /\ SameSeat(u, v)' => v = u
    BY DEF ResumeIsAlone
  <2>1. \A v \in Thread : Settling(v)' /\ v # t => Settling(v) /\ job'[v] = job[v]
    BY <1>2 DEF Settling
  <2>2. CASE u = t
    BY <1>1, <1>2, <1>3, <1>5, <2>1, <2>2 DEF SameSeat
  <2>3. CASE u # t
    <3>1. Settling(u) /\ job'[u] = job[u] /\ Exists(job[u].match)
          /\ job[u].match \in Match /\ job[u].player \in Player
      BY <1>6, <2>1, <2>3 DEF Settling, TypeInv, JobsNamed
    <3>2. ~(job[u].match = m /\ job[u].player = p)
      BY <1>5, <3>1
    <3>3. /\ job[u].token # NoToken
          /\ reservation[job[u].match][job[u].player] = job[u].token
          /\ hash[job[u].match][job[u].player] = job[u].token
          /\ \A v \in Thread : Settling(v) /\ SameSeat(u, v) => v = u
      BY <3>1 DEF CredentialInv, ResumeIsAlone
    <3> QED BY <1>1, <1>2, <1>3, <2>1, <3>1, <3>2, <3>3 DEF SameSeat
  <2> QED BY <2>2, <2>3
<1> QED BY <1>8, <1>9, <1>10 DEF CredentialInv

LEMMA CredentialRemoved ==
  ASSUME TypeInv, CredentialInv, NEW m \in Match, RemoveRoom(m)
  PROVE  CredentialInv'
<1>1. /\ UNCHANGED <<made, job>> /\ ~Exists(m)'
      /\ \A n \in Match : n # m => /\ room'[n] = room[n] /\ hash'[n] = hash[n]
                                   /\ reservation'[n] = reservation[n]
  BY DEF RemoveRoom, RemoveSessions, Exists, TypeInv, TypeOK
<1>2. m \leq made
  BY LobbyAssumption DEF RemoveRoom, CredentialInv, UnmadeIsBlank, Exists, TypeInv, TypeOK
<1>3. \A n : Exists(n)' => n # m /\ Exists(n) /\ n \in Match
  BY <1>1 DEF Exists
<1>4. UnmadeIsBlank'
  <2>1. \A n \in Match : n > made => n # m
    BY <1>2, LobbyAssumption DEF TypeInv, TypeOK
  <2> QED BY <1>1, <2>1 DEF CredentialInv, UnmadeIsBlank, Settling
<1>5. GrantIsFirst'
  BY <1>1, <1>3 DEF CredentialInv, GrantIsFirst
<1>6. ResumeIsAlone'
  BY <1>1, <1>3 DEF CredentialInv, ResumeIsAlone, Settling, SameSeat
<1> QED BY <1>4, <1>5, <1>6 DEF CredentialInv

LEMMA CredentialNext == TypeInv /\ CredentialInv /\ [Next]_vars => CredentialInv'
<1> SUFFICES ASSUME TypeInv, CredentialInv, [Next]_vars PROVE CredentialInv'
  OBVIOUS
<1>1. ASSUME UNCHANGED <<made, room, hash, reservation, job>> PROVE CredentialInv'
  BY <1>1, CredentialKept
<1>2. ASSUME NEW t \in Thread, Request(t) PROVE CredentialInv'
  <2>1. PICK p \in Player :
          \/ \E c \in Code : StartCpu(t, p, c) \/ JoinWaits(t, p, c) \/ JoinMatched(t, p, c)
          \/ DisconnectLobby(t, p)
          \/ \E m \in Match, token \in 1 .. MaxTokens : ResumeReserve(t, m, p, token)
    BY <1>2 DEF Request
  <2>2. ASSUME NEW c \in Code, StartCpu(t, p, c) PROVE CredentialInv'
    <3>1. /\ MakeMatch({p}) /\ UNCHANGED <<hash, reservation>>
          /\ job' = [job EXCEPT ![t] = Job("grant", NextMatch, p)]
      BY <2>2 DEF StartCpu, Then, sessionVars
    <3> QED BY <3>1, CredentialMade
  <2>3. ASSUME NEW c \in Code, JoinWaits(t, p, c) PROVE CredentialInv'
    BY <2>3, <1>1 DEF JoinWaits, registryVars, sessionVars
  <2>4. ASSUME NEW c \in Code, JoinMatched(t, p, c) PROVE CredentialInv'
    <3> DEFINE pair == {p, Opponent(p, c)}
    <3>1. Opponent(p, c) \in Player
      BY <2>4, JoinedTyped DEF JoinMatched, Opponent
    <3>2. /\ MakeMatch(pair) /\ UNCHANGED <<hash, reservation>>
          /\ job' = [job EXCEPT ![t] = Job("grant", NextMatch, p)]
      BY <2>4 DEF JoinMatched, Then, sessionVars
    <3>3. pair \in SUBSET Player
      BY <3>1
    <3> HIDE DEF pair
    <3> QED BY <3>2, <3>3, CredentialMade
  <2>5. CASE DisconnectLobby(t, p)
    <3>1. /\ UNCHANGED <<made, room, hash, reservation>>
          /\ job'[t].at = "away"
          /\ \A u \in Thread : u # t => job'[u] = job[u]
      BY <2>5 DEF DisconnectLobby, Then, NoJob, registryVars, sessionVars, TypeInv, TypeOK
    <3> QED BY <3>1, CredentialKept
  <2>6. ASSUME NEW m \in Match, NEW token \in 1 .. MaxTokens, ResumeReserve(t, m, p, token)
        PROVE  CredentialInv'
    BY <2>6, CredentialReserved
  <2> QED BY <2>1, <2>2, <2>3, <2>4, <2>5, <2>6
<1>3. ASSUME NEW t \in Thread, Continue(t) PROVE CredentialInv'
  <2>1. CASE ResumeReconnect(t)
    <3>1. /\ UNCHANGED <<made, room, hash, reservation>>
          /\ Settling(t) /\ job'[t].at \in {"reconnect", "abort", "commit"}
          /\ job'[t].match = job[t].match /\ job'[t].player = job[t].player
          /\ job'[t].token = job[t].token
          /\ \A u \in Thread : u # t => job'[u] = job[u]
      BY <2>1 DEF ResumeReconnect, Settling, Then, sessionVars, TypeInv, TypeOK, JobType
    <3> QED BY <3>1, CredentialKept
  <2>2. CASE ResumeAbort(t)
    <3>1. NoJob.at = "idle"
      BY DEF NoJob
    <3>2. /\ Settling(t) /\ UNCHANGED <<made, room>> /\ hash' = hash
          /\ Release(job[t].match, job[t].player) /\ Then(t, NoJob)
      BY <2>2 DEF ResumeAbort, Abort, Settling, Done, registryVars
    <3> QED BY <3>1, <3>2, CredentialSettled
  <2>3. CASE ResumeCommit(t)
    <3> DEFINE granted == MayCommit(job[t].match, job[t].player, job[t].token)
               j == IF granted THEN [job[t] EXCEPT !.at = "bind"] ELSE NoJob
    <3>1. j.at \in {"idle", "bind"}
      BY DEF NoJob, TypeInv, TypeOK, JobType
    <3>2. /\ Settling(t) /\ UNCHANGED <<made, room>>
          /\ Release(job[t].match, job[t].player) /\ Then(t, j)
          /\ hash' = hash \/ (granted /\ Issue(job[t].match, {job[t].player}))
      BY <2>3 DEF ResumeCommit, Commit, Settling, Done, registryVars
    <3> HIDE DEF j
    <3> QED BY <3>1, <3>2, CredentialSettled
  <2>4. CASE Grant(t)
    BY <2>4, CredentialGrant
  <2>5. CASE ResumeBind(t) \/ DisconnectMatch(t) \/ SweepIndex(t)
    <3>1. /\ UNCHANGED <<made, room, hash, reservation>>
          /\ job'[t].at = "idle"
          /\ \A u \in Thread : u # t => job'[u] = job[u]
      BY <2>5 DEF ResumeBind, DisconnectMatch, SweepIndex, Done, Then, NoJob,
                  registryVars, sessionVars, TypeInv, TypeOK
    <3> QED BY <3>1, CredentialKept
  <2> QED BY <1>3, <2>1, <2>2, <2>3, <2>4, <2>5 DEF Continue
<1>4. CASE Locked
  <2>1. ASSUME NEW p \in Player, NEW m \in Match, Rematch(p, m) PROVE CredentialInv'
    <3>1. /\ members[m] \in SUBSET Player /\ MakeMatch(members[m])
          /\ Issue(NextMatch, members[m]) /\ UNCHANGED <<reservation, job>>
      BY <2>1 DEF Rematch, TypeInv, TypeOK
    <3> QED BY <3>1, CredentialRematch
  <2>2. ASSUME NEW p \in Player, NEW c \in Code, JoinRefused(p, c) \/ JoinRefusedLate(p, c) \/ Leave(p, c)
        PROVE  CredentialInv'
    BY <2>2, <1>1 DEF JoinRefused, JoinRefusedLate, Leave, registryVars, sessionVars
  <2>3. ASSUME NEW p \in Player, NEW m \in Match, AckResult(p, m) PROVE CredentialInv'
    BY <2>3, <1>1 DEF AckResult, registryVars, sessionVars
  <2>4. CASE Drain \/ Undrain
    BY <2>4, <1>1 DEF Drain, Undrain, registryVars, sessionVars
  <2> QED BY <1>4, <2>1, <2>2, <2>3, <2>4 DEF Locked
<1>5. CASE Housekeeping
  <2>1. ASSUME NEW m \in Match, Finish(m) PROVE CredentialInv'
    <3>1. /\ UNCHANGED <<made, hash, reservation, job>> /\ Live(m)
          /\ \A n \in Match : room'[n] = room[n] \/ (n = m /\ room'[n] = "finished")
      BY <2>1 DEF Finish, sessionVars, TypeInv, TypeOK
    <3> QED BY <3>1, CredentialKept
  <2>2. ASSUME NEW m \in Match, RemoveRoom(m) PROVE CredentialInv'
    BY <2>2, CredentialRemoved
  <2>3. ASSUME NEW t \in Thread, NEW c \in Code, SweepLobby(t, c) PROVE CredentialInv'
    <3>1. /\ UNCHANGED <<made, room, hash, reservation>>
          /\ job'[t].at = "sweep"
          /\ \A u \in Thread : u # t => job'[u] = job[u]
      BY <2>3 DEF SweepLobby, Then, NoJob, registryVars, sessionVars, TypeInv, TypeOK
    <3> QED BY <3>1, CredentialKept
  <2> QED BY <1>5, <2>1, <2>2, <2>3 DEF Housekeeping
<1>6. CASE UNCHANGED vars
  BY <1>6, <1>1 DEF vars, registryVars, sessionVars
<1> QED BY <1>2, <1>3, <1>4, <1>5, <1>6 DEF Next

(* A resume that has reconnected its player is granted the next credential,  *)
(* unless the room has gone: nothing another thread does takes it from him.  *)
THEOREM ReconnectIsGranted == Spec => []ReconnectedIsGranted
<1>1. TypeInv /\ CredentialInv => ReconnectedIsGranted
  BY DEF CredentialInv, ResumeIsAlone, Settling, ReconnectedIsGranted, MayCommit, Verify
<1> QED BY <1>1, TypeInit, TypeNext, CredentialInit, CredentialNext, PTL DEF Spec

-----------------------------------------------------------------------------
(* Reservations *)

(* Steps that leave the reservations and those who settle them alone.       *)
LEMMA HeldKept ==
  ASSUME ReservationIsHeld,
         \A m \in Match, p \in Player : reservation'[m][p] \in {NoToken, reservation[m][p]},
         \A t \in Thread : Settling(t) => /\ job'[t].at \in {"reconnect", "abort", "commit"}
                                          /\ job'[t].match = job[t].match
                                          /\ job'[t].player = job[t].player
                                          /\ job'[t].token = job[t].token
  PROVE  ReservationIsHeld'
BY DEF ReservationIsHeld, Settling

LEMMA HeldSettled ==
  ASSUME TypeInv, ReservationIsHeld, NEW t \in Thread, Settling(t), NEW j,
         Then(t, j), Release(job[t].match, job[t].player)
  PROVE  ReservationIsHeld'
<1> SUFFICES ASSUME NEW m \in Match, NEW p \in Player, reservation'[m][p] # NoToken
             PROVE  \E u \in Thread : /\ job'[u].at \in {"reconnect", "abort", "commit"}
                                      /\ job'[u].match = m /\ job'[u].player = p
                                      /\ job'[u].token = reservation'[m][p]
  BY DEF ReservationIsHeld
<1>1. job[t].match \in Match /\ job[t].player \in Player
  BY DEF Settling, TypeInv, JobsNamed
<1>2. ~(job[t].match = m /\ job[t].player = p) /\ reservation'[m][p] = reservation[m][p]
  BY <1>1 DEF Release, TypeInv, TypeOK
<1>3. PICK u \in Thread : /\ job[u].at \in {"reconnect", "abort", "commit"}
                          /\ job[u].match = m /\ job[u].player = p
                          /\ job[u].token = reservation[m][p]
  BY <1>2 DEF ReservationIsHeld
<1>4. u # t
  BY <1>2, <1>3
<1>5. job'[u] = job[u]
  BY <1>4 DEF Then, TypeInv, TypeOK
<1> QED BY <1>2, <1>3, <1>5

LEMMA HeldReserved ==
  ASSUME TypeInv, ReservationIsHeld, NEW t \in Thread, NEW m \in Match, NEW p \in Player,
         NEW token \in 1 .. MaxTokens, ResumeReserve(t, m, p, token)
  PROVE  ReservationIsHeld'
<1> DEFINE j == [Job("reconnect", m, p) EXCEPT !.token = token]
<1>1. j.at = "reconnect" /\ j.match = m /\ j.player = p /\ j.token = token
  BY DEF Job, NoJob
<1>2. /\ job'[t] = j /\ job[t].at = "idle"
      /\ \A u \in Thread : u # t => job'[u] = job[u]
      /\ reservation'[m][p] = token
      /\ \A n \in Match, q \in Player : ~(n = m /\ q = p) => reservation'[n][q] = reservation[n][q]
  BY DEF ResumeReserve, Reserve, Then, Idle, TypeInv, TypeOK
<1> HIDE DEF j
<1> SUFFICES ASSUME NEW n \in Match, NEW q \in Player, reservation'[n][q] # NoToken
             PROVE  \E u \in Thread : /\ job'[u].at \in {"reconnect", "abort", "commit"}
                                      /\ job'[u].match = n /\ job'[u].player = q
                                      /\ job'[u].token = reservation'[n][q]
  BY DEF ReservationIsHeld
<1>3. CASE n = m /\ q = p
  BY <1>1, <1>2, <1>3
<1>4. CASE ~(n = m /\ q = p)
  <2>1. PICK u \in Thread : /\ job[u].at \in {"reconnect", "abort", "commit"}
                            /\ job[u].match = n /\ job[u].player = q
                            /\ job[u].token = reservation[n][q]
    BY <1>2, <1>4 DEF ReservationIsHeld
  <2>2. u # t
    BY <1>2, <2>1
  <2> QED BY <1>2, <1>4, <2>1, <2>2
<1> QED BY <1>3, <1>4

LEMMA HeldNext == TypeInv /\ ReservationIsHeld /\ [Next]_vars => ReservationIsHeld'
<1> SUFFICES ASSUME TypeInv, ReservationIsHeld, [Next]_vars PROVE ReservationIsHeld'
  OBVIOUS
(* A thread that turns from idle, or from another handler, to something.    *)
<1>1. ASSUME NEW t \in Thread, ~Settling(t), UNCHANGED reservation,
             NEW j, job' = [job EXCEPT ![t] = j]
      PROVE  ReservationIsHeld'
  <2>1. \A u \in Thread : Settling(u) => job'[u] = job[u]
    BY <1>1 DEF TypeInv, TypeOK
  <2> QED BY <1>1, <2>1, HeldKept DEF Settling
<1>2. ASSUME UNCHANGED <<reservation, job>> PROVE ReservationIsHeld'
  BY <1>2, HeldKept DEF Settling
<1>3. ASSUME NEW t \in Thread, Request(t) PROVE ReservationIsHeld'
  <2>1. PICK p \in Player :
          \/ \E c \in Code : StartCpu(t, p, c) \/ JoinWaits(t, p, c) \/ JoinMatched(t, p, c)
          \/ DisconnectLobby(t, p)
          \/ \E m \in Match, token \in 1 .. MaxTokens : ResumeReserve(t, m, p, token)
    BY <1>3 DEF Request
  <2>2. ASSUME NEW c \in Code, StartCpu(t, p, c) \/ JoinMatched(t, p, c) PROVE ReservationIsHeld'
    <3>1. ~Settling(t) /\ UNCHANGED reservation /\ job' = [job EXCEPT ![t] = Job("grant", NextMatch, p)]
      BY <2>2 DEF StartCpu, JoinMatched, Idle, Settling, Then, sessionVars
    <3> QED BY <3>1, <1>1
  <2>3. ASSUME NEW c \in Code, JoinWaits(t, p, c) PROVE ReservationIsHeld'
    BY <2>3, <1>2 DEF JoinWaits, sessionVars
  <2>4. CASE DisconnectLobby(t, p)
    BY <2>4, <1>1 DEF DisconnectLobby, Idle, Settling, Then, sessionVars
  <2>5. ASSUME NEW m \in Match, NEW token \in 1 .. MaxTokens, ResumeReserve(t, m, p, token)
        PROVE  ReservationIsHeld'
    BY <2>5, HeldReserved
  <2> QED BY <2>1, <2>2, <2>3, <2>4, <2>5
<1>4. ASSUME NEW t \in Thread, Continue(t) PROVE ReservationIsHeld'
  <2>1. CASE ResumeReconnect(t)
    <3>1. \A u \in Thread : /\ u # t => job'[u] = job[u]
                            /\ u = t => /\ job'[u].at \in {"abort", "commit"}
                                        /\ job'[u].match = job[u].match
                                        /\ job'[u].player = job[u].player
                                        /\ job'[u].token = job[u].token
      BY <2>1 DEF ResumeReconnect, Then, TypeInv, TypeOK, JobType
    <3> QED BY <2>1, <3>1, HeldKept DEF ResumeReconnect, sessionVars, Settling
  <2>2. CASE ResumeAbort(t)
    BY <2>2, HeldSettled DEF ResumeAbort, Abort, Settling, Done
  <2>3. CASE ResumeCommit(t)
    <3>1. Settling(t) /\ Release(job[t].match, job[t].player) /\ \E j : Then(t, j)
      BY <2>3 DEF ResumeCommit, Commit, Settling, Done
    <3> QED BY <3>1, HeldSettled
  <2>4. CASE Grant(t) \/ ResumeBind(t) \/ DisconnectMatch(t) \/ SweepIndex(t)
    <3>1. ~Settling(t) /\ UNCHANGED reservation /\ job' = [job EXCEPT ![t] = NoJob]
      BY <2>4 DEF Grant, ResumeBind, DisconnectMatch, SweepIndex, Settling, Done, Then, sessionVars
    <3> QED BY <3>1, <1>1
  <2> QED BY <1>4, <2>1, <2>2, <2>3, <2>4 DEF Continue
<1>5. CASE Locked
  BY <1>5, <1>2 DEF Locked, JoinRefused, JoinRefusedLate, Leave, AckResult, Rematch, Drain, Undrain, sessionVars
<1>6. CASE Housekeeping
  <2>1. ASSUME NEW m \in Match, Finish(m) PROVE ReservationIsHeld'
    BY <2>1, <1>2 DEF Finish, sessionVars
  <2>2. ASSUME NEW m \in Match, RemoveRoom(m) PROVE ReservationIsHeld'
    <3>1. /\ job' = job
          /\ \A n \in Match, q \in Player : reservation'[n][q] \in {NoToken, reservation[n][q]}
      BY <2>2 DEF RemoveRoom, RemoveSessions, NoSeats, TypeInv, TypeOK
    <3> QED BY <3>1, HeldKept DEF Settling
  <2>3. ASSUME NEW t \in Thread, NEW c \in Code, SweepLobby(t, c) PROVE ReservationIsHeld'
    BY <2>3, <1>1 DEF SweepLobby, Idle, Settling, Then, sessionVars
  <2> QED BY <1>6, <2>1, <2>2, <2>3 DEF Housekeeping
<1>7. CASE UNCHANGED vars
  BY <1>7, <1>2 DEF vars, sessionVars
<1> QED BY <1>3, <1>4, <1>5, <1>6, <1>7 DEF Next

(* No reservation is left behind: whoever took it is still to settle it.    *)
THEOREM ReservationHasHolder == Spec => []ReservationIsHeld
<1>1. Init => ReservationIsHeld
  BY DEF Init, SessionInit, NoSeats, ReservationIsHeld
<1> QED BY <1>1, TypeInit, TypeNext, HeldNext, PTL DEF Spec
=============================================================================
