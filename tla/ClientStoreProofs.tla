------------------------- MODULE ClientStoreProofs -------------------------
(***************************************************************************)
(* ClientStore for any number of matches, revisions, connections and       *)
(* messages: what the store shows, how its command is answered and when    *)
(* that is refused.                                                        *)
(***************************************************************************)
EXTENDS ClientStore, Integers, SequenceTheorems, TLAPS

-----------------------------------------------------------------------------
(* The inductive invariant *)

StoreType ==
    [epoch : 1 .. MaxEpoch, online : BOOLEAN, resuming : BOOLEAN, launching : BOOLEAN,
     ignore : BOOLEAN, view : ViewType \cup {NoView}, pending : CommandType \cup {NoCommand},
     retired : Seq(1 .. MaxMatch), session : Nat]

ServerRecord ==
    [match : 0 .. MaxMatch, rev : 0 .. MaxRevision, phase : Phase,
     mine : BOOLEAN, away : SUBSET {"me", "foe"}, token : Nat, room : 0 .. MaxEpoch,
     made : Phase, heard : 0 .. MaxRevision, foreign : 0 .. MaxRevision]

\* Only a match that is over has another phase than its revision began with.
ServerType == {s \in ServerRecord : s.heard <= s.rev /\ (IsOver(s) \/ s.phase = s.made)}

MessageType ==
    [kind : QueueKind \cup {"start", "surrender", "resume"}, rev : 0 .. MaxRevision,
     token : Nat, epoch : 1 .. MaxEpoch, match : 0 .. MaxMatch]

IdentityType ==
    [kind : QueueKind \cup {"start", "surrender", "resume", "cpu"}, rev : 0 .. MaxRevision,
     match : 0 .. MaxMatch]

NoteType ==
    [kind : {"update"}, view : ViewType] \cup [kind : {"error"}, to : IdentityType]
    \cup [kind : {"session"}, token : Nat] \cup [kind : {"rejected"}]

StoreTyped == store \in StoreType /\ Len(store.retired) <= MaxRetired

ServerTyped ==
    /\ server \in ServerType
    /\ server.room <= store.epoch
    /\ store.session <= server.token

DownTyped ==
    /\ down \in Seq(NoteType) /\ Len(down) <= MaxDown
    /\ \A i \in DOMAIN down : down[i].kind = "session" => down[i].token <= server.token

WireTyped ==
    /\ up \subseteq MessageType /\ \A m \in up : m.epoch <= store.epoch
    /\ taken \subseteq ViewType
    /\ due \in 0 .. MaxDue /\ (due > 0 => server.match > 0)
    /\ unseen \in Nat /\ unseen <= store.epoch
    /\ store.online => unseen < store.epoch

Typed ==
    /\ StoreTyped /\ ServerTyped /\ DownTyped /\ WireTyped
    /\ dropped \in BOOLEAN /\ crossed \in BOOLEAN

Updates == {i \in DOMAIN down : down[i].kind = "update"}
Errors == {i \in DOMAIN down : down[i].kind = "error"}

\* A snapshot tells nothing that the match had not come to, and the newest
\* revision as it is, or as it began when the match has ended since.
FaithfulTo(s, v) ==
    /\ v.match <= s.match
    /\ v.match = s.match =>
          /\ v.rev <= s.rev
          /\ v.rev = s.rev => v.mine = s.mine /\ v.phase \in {s.phase, s.made}
          /\ IsOver(v) => IsOver(s) /\ v.rev = s.rev

Faithful(v) == FaithfulTo(server, v)

ViewsFaithful ==
    /\ \A v \in taken : Faithful(v)
    /\ \A i \in Updates : Faithful(down[i].view)
    /\ store.view # NoView => Faithful(store.view)

\* Nothing was asked of a match or a revision that had not come.
PastFor(s, c) == c.match <= s.match /\ (c.match = s.match => c.rev <= s.rev)

Past(c) == PastFor(server, c)

\* The store turned away from the match or left it.
Turned(match) == Retired(match) \/ match \in strayed

\* A match that is retired while an older one is shown had been shown before it.
OlderShown(match) == \A r \in ToSet(store.retired) : r > match => r \in strayed

Listening ==
    /\ \A m \in up : Past(m)
    /\ \A i \in Errors : Past(down[i].to)
    /\ \A m \in up : m.kind = "surrender" /\ m.match = server.match => Turned(m.match)
    /\ store.ignore => store.view = NoView
    /\ store.view # NoView => ~Retired(store.view.match) /\ OlderShown(store.view.match)
    /\ server.foreign <= server.rev

\* The command in flight is of the revision shown, or of a match that was over.
InFlight ==
    store.pending # NoCommand =>
        /\ store.online /\ ~store.ignore
        /\ Past(store.pending) /\ OlderShown(store.pending.match)
        /\ store.view # NoView =>
              store.view.match = store.pending.match /\ store.view.rev = store.pending.rev
        /\ store.view = NoView =>
              /\ Retired(store.pending.match)
              /\ store.pending.match = server.match =>
                    IsOver(server) /\ server.rev = store.pending.rev

\* It is on its way, or its answer is, or a broadcast follows its revision.
Waits(c) == \E m \in up : Identity(m) = c /\ m.epoch = store.epoch
Failing == \E i \in DOMAIN down : down[i].kind \in {"error", "rejected"}
Passed(c) == server.match # c.match \/ server.heard > c.rev

Replied ==
    store.pending # NoCommand =>
        dropped \/ Waits(store.pending) \/ Failing \/ Passed(store.pending)

\* The newest revision that a broadcast follows, or a newer one, is shown or on
\* its way.
Latest(v) == v.match = server.match /\ v.rev >= server.heard

Carried ==
    \/ due > 0
    \/ \E v \in taken : Latest(v)
    \/ \E i \in Updates : Latest(down[i].view)

Following == store.online /\ server.room = store.epoch /\ ~Turned(server.match)

Followed ==
    Following => (store.view # NoView /\ Latest(store.view)) \/ Carried

\* The commands of this connection for the match the server has, and the errors
\* that answered some.
Mine(m) == m.kind \in QueueKind /\ m.epoch = store.epoch /\ m.match = server.match
Faults == {i \in Errors : down[i].to.kind \in QueueKind /\ down[i].to.match = server.match}

ShowsCurrent == store.view # NoView /\ store.view.match = server.match

\* It is the command in flight, or an earlier one.
Accounted(c) == ShowsCurrent /\ (c.rev < store.view.rev \/ c = store.pending)

\* No two commands of one revision, and one that is late was overtaken ...
CommandsInv ==
    \A m \in up : Mine(m) =>
        /\ m.rev < server.rev => server.foreign > m.rev
        /\ store.online => Accounted(Identity(m))
        /\ \A n \in up : Mine(n) /\ n.rev = m.rev => n = m

\* ... nor an error beside the command it answered ...
ErrorsInv ==
    \A i \in Faults :
        /\ Accounted(down[i].to)
        /\ \A m \in up : Mine(m) => m.rev # down[i].to.rev
        /\ \A j \in Faults : down[j].to.rev = down[i].to.rev => i = j

\* ... and past the revision shown all are foreign, but the next one while a
\* command is in flight that was not refused.
ForeignInv ==
    /\ /\ ShowsCurrent /\ server.rev > store.view.rev
       /\ \/ store.pending = NoCommand
          \/ server.rev > store.view.rev + 1
          \/ \E i \in Faults : down[i].to = store.pending
       => server.foreign = server.rev
    /\ ~ShowsCurrent => server.foreign = server.rev

Steady == ~crossed /\ ~Turned(server.match)

Racing == Steady => CommandsInv /\ ErrorsInv /\ ForeignInv

WireInv == ViewsFaithful /\ Listening /\ InFlight /\ Replied /\ Followed /\ Racing
ClientInv == Typed /\ WireInv

-----------------------------------------------------------------------------
(* Sequences *)

LEMMA TailOf ==
  ASSUME NEW S, NEW s \in Seq(S), s # <<>>
  PROVE  /\ Tail(s) \in Seq(S) /\ Head(s) = s[1] /\ 1 \in DOMAIN s
         /\ Len(Tail(s)) = Len(s) - 1 /\ Len(s) \in Nat
         /\ \A i \in DOMAIN Tail(s) : i \in Nat /\ i + 1 \in DOMAIN s /\ Tail(s)[i] = s[i + 1]
         /\ \A i \in DOMAIN s : i \in Nat /\ (i # 1 => i - 1 \in DOMAIN Tail(s))
  OBVIOUS

LEMMA AppendOf ==
  ASSUME NEW S, NEW s \in Seq(S), NEW x \in S
  PROVE  /\ Append(s, x) \in Seq(S) /\ Len(Append(s, x)) = Len(s) + 1 /\ Len(s) \in Nat
         /\ DOMAIN Append(s, x) = DOMAIN s \cup {Len(s) + 1}
         /\ \A i \in DOMAIN s : i \in Nat /\ i <= Len(s) /\ Append(s, x)[i] = s[i]
         /\ Append(s, x)[Len(s) + 1] = x
  OBVIOUS

LEMMA SetOf ==
  ASSUME NEW S, NEW s \in Seq(S)
  PROVE  ToSet(s) \subseteq S
<1>1. \A i \in DOMAIN s : s[i] \in S
  OBVIOUS
<1> QED BY <1>1 DEF ToSet

\* Retiring the match that is shown forgets at most the oldest.
LEMMA RetireOf ==
  ASSUME Typed
  PROVE  /\ Retire \in Seq(1 .. MaxMatch) /\ Len(Retire) <= MaxRetired
         /\ store.view = NoView => Retire = store.retired
         /\ store.view # NoView =>
               /\ store.view.match \in ToSet(Retire)
               /\ ToSet(Retire) \subseteq ToSet(store.retired) \cup {store.view.match}
<1> DEFINE s == store.retired
           x == store.view.match
           g == Append(s, x)
<1>1. s \in Seq(1 .. MaxMatch) /\ Len(s) <= MaxRetired /\ store.view \in ViewType \cup {NoView}
  BY DEF Typed, StoreTyped, StoreType
<1>2. CASE store.view = NoView
  BY <1>1, <1>2 DEF Retire
<1>3. CASE store.view # NoView
  <2>1. x \in 1 .. MaxMatch
    BY <1>1, <1>3 DEF ViewType
  <2>2. MaxRetired \in Nat \ {0}
    BY ClientAssumption
  <2> HIDE DEF x, s
  <2>3. /\ g \in Seq(1 .. MaxMatch) /\ Len(g) = Len(s) + 1 /\ Len(s) \in Nat
        /\ DOMAIN g = DOMAIN s \cup {Len(s) + 1}
        /\ \A i \in DOMAIN s : g[i] = s[i]
        /\ g[Len(s) + 1] = x
    BY <1>1, <2>1, AppendOf
  <2> HIDE DEF g
  <2>4. ToSet(g) = ToSet(s) \cup {x}
    BY <2>3 DEF ToSet
  <2>5. CASE Len(g) <= MaxRetired
    <3>1. Retire = g
      BY <1>3, <2>2, <2>3, <2>5 DEF Retire, g, s, x
    <3> QED BY <1>3, <2>3, <2>4, <2>5, <3>1 DEF s, x
  <2>6. CASE Len(g) > MaxRetired
    <3>1. Retire = Tail(g)
      BY <1>3, <2>6 DEF Retire, g, s, x
    <3>2. g # <<>>
      BY <2>3
    <3>3. /\ Tail(g) \in Seq(1 .. MaxMatch) /\ Len(Tail(g)) = Len(g) - 1
          /\ \A i \in DOMAIN Tail(g) : i + 1 \in DOMAIN g /\ Tail(g)[i] = g[i + 1]
          /\ \A i \in DOMAIN g : i # 1 => i - 1 \in DOMAIN Tail(g)
      BY <2>3, <3>2, TailOf
    <3>4. ToSet(Tail(g)) \subseteq ToSet(g)
      BY <3>3 DEF ToSet
    <3>5. Len(s) \in DOMAIN Tail(g) /\ Tail(g)[Len(s)] = x
      BY <1>1, <2>2, <2>3, <2>6, <3>3
    <3>6. x \in ToSet(Tail(g))
      BY <3>5 DEF ToSet
    <3>7. Len(Tail(g)) <= MaxRetired
      BY <1>1, <2>2, <2>3, <3>3
    <3> QED BY <1>3, <2>4, <3>1, <3>3, <3>4, <3>6, <3>7 DEF s, x
  <2> QED BY <2>2, <2>3, <2>5, <2>6
<1> QED BY <1>2, <1>3

-----------------------------------------------------------------------------
(* Types are kept *)

LEMMA StoreFields ==
  ASSUME Typed
  PROVE  /\ store \in StoreType
         /\ store.epoch \in 1 .. MaxEpoch /\ store.online \in BOOLEAN
         /\ store.ignore \in BOOLEAN /\ store.session \in Nat
         /\ store.view \in ViewType \cup {NoView}
         /\ store.pending \in CommandType \cup {NoCommand}
         /\ store.retired \in Seq(1 .. MaxMatch)
  BY DEF Typed, StoreTyped, StoreType

LEMMA ServerFields ==
  ASSUME Typed
  PROVE  /\ server \in ServerType
         /\ server.match \in 0 .. MaxMatch /\ server.rev \in 0 .. MaxRevision
         /\ server.foreign \in 0 .. MaxRevision /\ server.token \in Nat
         /\ server.heard \in 0 .. MaxRevision /\ server.heard <= server.rev
         /\ server.phase \in Phase /\ (IsOver(server) \/ server.phase = server.made)
         /\ server.room \in 0 .. MaxEpoch
         /\ server.room <= store.epoch /\ store.session <= server.token
  BY DEF Typed, ServerTyped, ServerType, ServerRecord, IsOver

LEMMA ShownFields ==
  ASSUME Typed, store.view # NoView
  PROVE  /\ store.view \in ViewType /\ store.view.match \in 1 .. MaxMatch
         /\ store.view.rev \in 0 .. MaxRevision
  BY StoreFields DEF ViewType

LEMMA PendingFields ==
  ASSUME Typed, store.pending # NoCommand
  PROVE  /\ store.pending \in CommandType /\ store.pending.match \in 1 .. MaxMatch
         /\ store.pending.rev \in 0 .. MaxRevision /\ store.pending.kind \in QueueKind
  BY StoreFields DEF CommandType

LEMMA MessageFields ==
  ASSUME Typed, NEW m \in up
  PROVE  /\ m \in MessageType /\ m.rev \in 0 .. MaxRevision /\ m.match \in 0 .. MaxMatch
         /\ m.epoch \in 1 .. MaxEpoch /\ m.epoch <= store.epoch
         /\ m.kind \in QueueKind \cup {"start", "surrender", "resume"}
         /\ Identity(m) \in IdentityType
         /\ Identity(m).kind = m.kind /\ Identity(m).rev = m.rev /\ Identity(m).match = m.match
  BY DEF Typed, WireTyped, MessageType, IdentityType, Identity

LEMMA NoteFields ==
  ASSUME NEW n \in NoteType
  PROVE  /\ n.kind = "update" => n.view \in ViewType
         /\ n.kind = "error" => /\ n.to \in IdentityType /\ n.to.rev \in 0 .. MaxRevision
                                /\ n.to.match \in 0 .. MaxMatch
         /\ n.kind = "session" => n.token \in Nat
  BY DEF NoteType, IdentityType

\* What the CPU raised after a command was applied.
CpuError(m) == Error([m EXCEPT !.kind = "cpu"])

LEMMA NewNotes ==
  ASSUME Typed
  PROVE  /\ \A m \in up : Error(m) \in NoteType /\ Error(m).kind = "error"
                          /\ Error(m).to = Identity(m)
         /\ \A m \in up : /\ CpuError(m) \in NoteType /\ CpuError(m).kind = "error"
                          /\ CpuError(m).to.kind = "cpu" /\ CpuError(m).to.rev = m.rev
                          /\ CpuError(m).to.match = m.match
         /\ \A t \in Nat : Grant(t) \in NoteType /\ Grant(t).kind = "session" /\ Grant(t).token = t
         /\ [kind |-> "rejected"] \in NoteType
<1>1. ASSUME NEW m \in up
      PROVE  Error(m) \in NoteType /\ Error(m).kind = "error" /\ Error(m).to = Identity(m)
  BY MessageFields DEF NoteType, Error
<1>2. ASSUME NEW t \in Nat
      PROVE  Grant(t) \in NoteType /\ Grant(t).kind = "session" /\ Grant(t).token = t
  BY DEF NoteType, Grant
<1>3. [kind |-> "rejected"] \in NoteType
  BY DEF NoteType
<1>4. ASSUME NEW m \in up
      PROVE  /\ CpuError(m) \in NoteType /\ CpuError(m).kind = "error"
             /\ CpuError(m).to.kind = "cpu" /\ CpuError(m).to.rev = m.rev
             /\ CpuError(m).to.match = m.match
  <2> DEFINE e == [kind |-> "cpu", rev |-> m.rev, match |-> m.match]
  <2>1. Identity([m EXCEPT !.kind = "cpu"]) = e
    BY MessageFields DEF Identity, MessageType
  <2>2. e \in IdentityType
    BY MessageFields DEF IdentityType
  <2>3. CpuError(m) = [kind |-> "error", to |-> e]
    BY <2>1 DEF CpuError, Error
  <2> QED BY <2>2, <2>3 DEF NoteType
<1> QED BY <1>1, <1>2, <1>3, <1>4

LEMMA SentMessage ==
  ASSUME Typed, NEW kind \in QueueKind \cup {"start", "surrender", "resume"},
         NEW rev \in 0 .. MaxRevision
  PROVE  /\ Message(kind, rev) \in MessageType
         /\ Message(kind, rev).kind = kind /\ Message(kind, rev).rev = rev
         /\ Message(kind, rev).epoch = store.epoch
         /\ store.view = NoView => Message(kind, rev).match = 0
         /\ store.view # NoView => Message(kind, rev).match = store.view.match
<1>1. store.view # NoView => store.view.match \in 0 .. MaxMatch
  BY ShownFields
<1>2. 0 \in 0 .. MaxMatch
  BY ClientAssumption
<1> QED BY <1>1, <1>2, StoreFields DEF Message, MessageType

LEMMA DownKept ==
  ASSUME Typed, server'.token \in Nat, server'.token >= server.token,
         down' = down \/ (down # <<>> /\ down' = Tail(down))
  PROVE  DownTyped'
<1>1. /\ down \in Seq(NoteType) /\ Len(down) <= MaxDown
      /\ \A i \in DOMAIN down : down[i].kind = "session" => down[i].token <= server.token
  BY DEF Typed, DownTyped
<1>2. \A i \in DOMAIN down :
         down[i].kind = "session" => down[i].token \in Nat /\ down[i].token <= server'.token
  BY <1>1, NoteFields, ServerFields
<1>3. CASE down' = down
  BY <1>1, <1>2, <1>3 DEF DownTyped
<1>4. CASE down # <<>> /\ down' = Tail(down)
  <2>1. /\ down' \in Seq(NoteType) /\ Len(down') = Len(down) - 1 /\ Len(down) \in Nat
        /\ \A i \in DOMAIN down' : i + 1 \in DOMAIN down /\ down'[i] = down[i + 1]
    BY <1>1, <1>4, TailOf
  <2>2. Len(down') <= MaxDown
    BY <1>1, <2>1, ClientAssumption
  <2> QED BY <1>2, <2>1, <2>2 DEF DownTyped
<1> QED BY <1>3, <1>4

LEMMA DownAppended ==
  ASSUME Typed, server'.token \in Nat, server'.token >= server.token,
         NEW n \in NoteType, n.kind = "session" => n.token <= server'.token,
         Len(down) < MaxDown, down' = Append(down, n)
  PROVE  DownTyped'
<1>1. /\ down \in Seq(NoteType)
      /\ \A i \in DOMAIN down : down[i].kind = "session" => down[i].token <= server.token
  BY DEF Typed, DownTyped
<1>2. \A i \in DOMAIN down :
         down[i].kind = "session" => down[i].token \in Nat /\ down[i].token <= server'.token
  BY <1>1, NoteFields, ServerFields
<1>3. /\ down' \in Seq(NoteType) /\ Len(down') = Len(down) + 1 /\ Len(down) \in Nat
      /\ DOMAIN down' = DOMAIN down \cup {Len(down) + 1}
      /\ \A i \in DOMAIN down : down'[i] = down[i]
      /\ down'[Len(down) + 1] = n
  BY <1>1, AppendOf
<1>4. Len(down') <= MaxDown
  BY <1>3, ClientAssumption
<1> QED BY <1>2, <1>3, <1>4 DEF DownTyped

LEMMA ReplyTyped ==
  ASSUME Typed, CanBroadcast, server'.token \in Nat, server'.token >= server.token,
         NEW m, NEW n \in NoteType, n.kind = "session" => n.token <= server'.token, Reply(m, n)
  PROVE  DownTyped'
<1>1. Len(down) \in Nat /\ Len(down) < MaxDown
  <2>1. Len(down) \in Nat
    BY DEF Typed, DownTyped
  <2> QED BY <2>1, ClientAssumption DEF CanBroadcast
<1>2. down' = down \/ down' = Append(down, n)
  BY DEF Reply
<1> QED BY <1>1, <1>2, DownKept, DownAppended

LEMMA RestTyped ==
  ASSUME Typed
  PROVE  /\ up \subseteq MessageType /\ (\A m \in up : m.epoch <= store.epoch)
         /\ taken \subseteq ViewType /\ due \in 0 .. MaxDue /\ (due > 0 => server.match > 0)
         /\ unseen \in Nat /\ unseen <= store.epoch /\ (store.online => unseen < store.epoch)
         /\ dropped \in BOOLEAN /\ crossed \in BOOLEAN
         /\ MaxDue \in Nat /\ MaxEpoch \in Nat
  BY ClientAssumption DEF Typed, WireTyped

\* A step that leaves the server and what is under way from it alone.
LEMMA StoreStepTyped ==
  ASSUME Typed, store' \in StoreType, Len(store'.retired) <= MaxRetired,
         store'.epoch = store.epoch, store'.online = store.online,
         store'.session <= server.token,
         up' \subseteq MessageType, \A m \in up' : m.epoch <= store.epoch,
         server' = server, due' = due, taken' = taken, unseen' = unseen,
         down' = down \/ (down # <<>> /\ down' = Tail(down)),
         dropped' \in BOOLEAN, crossed' \in BOOLEAN
  PROVE  Typed'
<1>1. StoreTyped'
  BY DEF StoreTyped
<1>2. ServerTyped'
  BY ServerFields DEF ServerTyped
<1>3. DownTyped'
  BY DownKept, ServerFields
<1>4. WireTyped'
  BY RestTyped DEF WireTyped
<1> QED BY <1>1, <1>2, <1>3, <1>4 DEF Typed

\* A step of the server, which the store does not see.
LEMMA ServerStepTyped ==
  ASSUME Typed, store' = store, server' \in ServerType, server'.room <= store.epoch,
         server'.token >= server.token, up' \subseteq up,
         taken' \subseteq ViewType, DownTyped',
         due' \in 0 .. MaxDue, due' > 0 => server'.match > 0,
         unseen' \in Nat, unseen' <= unseen, dropped' \in BOOLEAN, crossed' = crossed
  PROVE  Typed'
<1>1. StoreTyped'
  BY DEF Typed, StoreTyped
<1>2. ServerTyped'
  <2>1. store.session <= server'.token
    <3>1. server'.token \in Nat
      BY DEF ServerType, ServerRecord
    <3> QED BY <3>1, ServerFields, StoreFields
  <2> QED BY <2>1 DEF ServerTyped
<1>3. WireTyped'
  BY RestTyped, StoreFields DEF WireTyped
<1> QED BY <1>1, <1>2, <1>3, RestTyped DEF Typed

LEMMA TypedInit ==
  ASSUME ClientInit
  PROVE  Typed
<1>1. StoreTyped
  BY ClientAssumption DEF ClientInit, StoreTyped, StoreType
<1>2. ServerTyped
  BY ClientAssumption DEF ClientInit, ServerTyped, ServerType, ServerRecord, Phase
<1>3. DownTyped
  <2>1. down \in Seq(NoteType) /\ Len(down) = 0 /\ DOMAIN down = {}
    BY DEF ClientInit
  <2> QED BY <2>1, ClientAssumption DEF DownTyped
<1>4. WireTyped
  BY ClientAssumption DEF ClientInit, WireTyped
<1> QED BY <1>1, <1>2, <1>3, <1>4 DEF Typed, ClientInit

LEMMA SendCommandTyped ==
  ASSUME Typed, NEW kind \in QueueKind, SendCommand(kind)
  PROVE  Typed'
<1>1. store.view # NoView /\ store' = [store EXCEPT !.pending = Pending(kind)]
  BY DEF SendCommand
<1>2. Pending(kind) \in CommandType
  BY <1>1, ShownFields DEF Pending, CommandType
<1>3. store' \in StoreType /\ store'.retired = store.retired /\ store'.epoch = store.epoch
      /\ store'.online = store.online /\ store'.session = store.session
  BY <1>1, <1>2, StoreFields DEF StoreType
<1>4. /\ Message(kind, store.view.rev) \in MessageType
      /\ Message(kind, store.view.rev).epoch = store.epoch
  BY <1>1, ShownFields, SentMessage
<1>5. up' \subseteq MessageType /\ \A m \in up' : m.epoch <= store.epoch
  BY <1>4, RestTyped, StoreFields DEF SendCommand
<1> QED BY <1>3, <1>5, StoreStepTyped, ServerFields, RestTyped
        DEF SendCommand, Typed, StoreTyped, notes

\* What leaving a match does to the store.
Cleared ==
    /\ store' \in StoreType /\ store'.retired = Retire /\ store'.view = NoView
    /\ store'.epoch = store.epoch /\ store'.online = store.online /\ store'.session = 0
    /\ Len(store'.retired) <= MaxRetired

LEMMA LobbyFields ==
  ASSUME Typed
  PROVE  /\ LobbyStore \in StoreType /\ LobbyStore.retired = Retire /\ LobbyStore.view = NoView
         /\ LobbyStore.epoch = store.epoch /\ LobbyStore.online = store.online
         /\ LobbyStore.session = 0 /\ LobbyStore.pending = NoCommand
         /\ LobbyStore.ignore = store.ignore /\ Len(Retire) <= MaxRetired
<1>1. Retire \in Seq(1 .. MaxMatch) /\ Len(Retire) <= MaxRetired
  BY RetireOf
<1> QED BY <1>1, StoreFields DEF LobbyStore, StoreType

LEMMA LobbyClears ==
  ASSUME Typed, store' = LobbyStore
  PROVE  Cleared /\ store'.pending = NoCommand /\ store'.ignore = store.ignore
  BY LobbyFields DEF Cleared

LEMMA LeaveClears ==
  ASSUME Typed, Leave
  PROVE  /\ Cleared /\ store'.pending = NoCommand
         /\ store'.ignore = (store.ignore \/ ~IsOver(store.view))
<1>1. IsOver(store.view) \in BOOLEAN
  BY DEF IsOver
<1>2. (store.ignore \/ ~IsOver(store.view)) \in BOOLEAN
  OBVIOUS
<1>3. store' = [LobbyStore EXCEPT !.ignore = (store.ignore \/ ~IsOver(store.view))]
  BY LobbyFields DEF Leave
<1> DEFINE x == (store.ignore \/ ~IsOver(store.view))
<1> HIDE DEF x
<1>4. x \in BOOLEAN /\ store' = [LobbyStore EXCEPT !.ignore = x]
  BY <1>2, <1>3 DEF x
<1>5. Cleared /\ store'.pending = NoCommand /\ store'.ignore = x
  BY <1>4, LobbyFields DEF Cleared, StoreType
<1> QED BY <1>5 DEF x

LEMMA StartClears ==
  ASSUME Typed, StartMatch
  PROVE  /\ Cleared /\ store'.pending = store.pending /\ store'.ignore = FALSE
         /\ store.online
<1>1. Retire \in Seq(1 .. MaxMatch) /\ Len(Retire) <= MaxRetired
  BY RetireOf
<1>2. store' = [store EXCEPT !.retired = Retire, !.view = NoView, !.session = 0,
                             !.ignore = FALSE, !.launching = TRUE]
  BY DEF StartMatch
<1>3. store' \in StoreType
  BY <1>1, <1>2, StoreFields DEF StoreType
<1>4. /\ store'.retired = Retire /\ store'.view = NoView /\ store'.epoch = store.epoch
      /\ store'.online = store.online /\ store'.session = 0
      /\ store'.pending = store.pending /\ store'.ignore = FALSE
  BY <1>2, StoreFields DEF StoreType
<1> QED BY <1>1, <1>3, <1>4 DEF StartMatch, Cleared

LEMMA StartMatchTyped ==
  ASSUME Typed, StartMatch
  PROVE  Typed'
<1>1. Message("start", 0) \in MessageType /\ Message("start", 0).epoch = store.epoch
  BY SentMessage, ClientAssumption
<1>2. up' \subseteq MessageType /\ \A m \in up' : m.epoch <= store.epoch
  BY <1>1, RestTyped, StoreFields DEF StartMatch
<1>3. /\ store' \in StoreType /\ Len(store'.retired) <= MaxRetired
      /\ store'.epoch = store.epoch /\ store'.online = store.online
      /\ store'.session <= server.token
  BY StartClears, ServerFields DEF Cleared
<1> QED BY <1>2, <1>3, StoreStepTyped, RestTyped DEF StartMatch, notes

LEMMA LeaveTyped ==
  ASSUME Typed, Leave
  PROVE  Typed'
<1>1. /\ Message("surrender", store.view.rev) \in MessageType
      /\ Message("surrender", store.view.rev).epoch = store.epoch
  BY SentMessage, ShownFields DEF Leave
<1>2. up' \subseteq MessageType /\ \A m \in up' : m.epoch <= store.epoch
  BY <1>1, RestTyped, StoreFields DEF Leave
<1> QED BY <1>2, LeaveClears, StoreStepTyped, ServerFields, RestTyped DEF Leave, Cleared, notes

LEMMA LaunchTimeoutTyped ==
  ASSUME Typed, LaunchTimeout
  PROVE  Typed'
<1>1. /\ store' \in StoreType /\ store'.retired = store.retired /\ store'.epoch = store.epoch
      /\ store'.online = store.online /\ store'.session = store.session
  BY StoreFields DEF LaunchTimeout, StoreType
<1> QED BY <1>1, StoreStepTyped, ServerFields, RestTyped
        DEF LaunchTimeout, notes, Typed, StoreTyped

LEMMA ReceiveErrorTyped ==
  ASSUME Typed, ReceiveError
  PROVE  Typed'
<1>1. /\ store' \in StoreType /\ store'.retired = store.retired /\ store'.epoch = store.epoch
      /\ store'.online = store.online /\ store'.session = store.session
  BY StoreFields DEF ReceiveError, StoreType
<1>2. crossed' \in BOOLEAN
  BY RestTyped DEF ReceiveError
<1> QED BY <1>1, <1>2, StoreStepTyped, ServerFields, RestTyped
        DEF ReceiveError, Typed, StoreTyped

LEMMA ReceiveSessionTyped ==
  ASSUME Typed, ReceiveSession
  PROVE  Typed'
<1>1. Head(down).token \in Nat /\ Head(down).token <= server.token
  <2>1. down \in Seq(NoteType) /\ down # <<>> /\ Head(down).kind = "session"
    BY DEF Typed, DownTyped, ReceiveSession
  <2>2. Head(down) = down[1] /\ 1 \in DOMAIN down /\ down[1] \in NoteType
    BY <2>1, TailOf
  <2> QED BY <2>1, <2>2, NoteFields DEF Typed, DownTyped
<1>2. store' = [store EXCEPT !.session = Head(down).token]
  BY DEF ReceiveSession
<1>3. /\ store' \in StoreType /\ store'.retired = store.retired /\ store'.epoch = store.epoch
      /\ store'.online = store.online /\ store'.session = Head(down).token
  BY <1>1, <1>2, StoreFields DEF StoreType
<1> QED BY <1>1, <1>3, StoreStepTyped, ServerFields, RestTyped
        DEF ReceiveSession, notes, Typed, StoreTyped

LEMMA ReceiveRejectedTyped ==
  ASSUME Typed, ReceiveRejected
  PROVE  Typed'
<1>1. /\ store' \in StoreType /\ Len(store'.retired) <= MaxRetired
      /\ store'.epoch = store.epoch /\ store'.online = store.online
      /\ store'.session <= server.token
  BY LobbyClears, ServerFields DEF ReceiveRejected, Cleared
<1>2. /\ up' \subseteq MessageType /\ \A m \in up' : m.epoch <= store.epoch
      /\ server' = server /\ due' = due /\ taken' = taken /\ unseen' = unseen
      /\ down # <<>> /\ down' = Tail(down)
      /\ dropped' \in BOOLEAN /\ crossed' \in BOOLEAN
  BY RestTyped DEF ReceiveRejected, notes
<1> QED BY <1>1, <1>2, StoreStepTyped

LEMMA HeadNote ==
  ASSUME Typed, down # <<>>
  PROVE  /\ Head(down) = down[1] /\ 1 \in DOMAIN down /\ Head(down) \in NoteType
         /\ down \in Seq(NoteType) /\ Tail(down) \in Seq(NoteType)
         /\ \A i \in DOMAIN Tail(down) :
               i \in Nat /\ i + 1 \in DOMAIN down /\ Tail(down)[i] = down[i + 1]
         /\ \A i \in DOMAIN down : i \in Nat /\ (i # 1 => i - 1 \in DOMAIN Tail(down))
<1>1. down \in Seq(NoteType)
  BY DEF Typed, DownTyped
<1>2. \A i \in DOMAIN down : down[i] \in NoteType
  BY <1>1
<1> QED BY <1>1, <1>2, TailOf

\* The confirmation that follows a completed order.
Confirms(v) ==
    /\ store.pending # NoCommand /\ Answers(v)
    /\ store.pending.kind = "order" /\ v.phase = "review" /\ v.mine

Accepted(v) ==
    /\ store' \in StoreType /\ store'.retired = store.retired /\ store'.epoch = store.epoch
    /\ store'.online = store.online /\ store'.session = store.session
    /\ store'.ignore = store.ignore /\ store'.view = v
    /\ \/ /\ Confirms(v)
          /\ store'.pending = [kind |-> "confirm", rev |-> v.rev, match |-> v.match]
          /\ up' = up \cup {Message("confirm", v.rev)}
       \/ Frees(v) /\ store'.pending = NoCommand /\ up' = up
       \/ ~Frees(v) /\ store'.pending = store.pending /\ up' = up

\* A snapshot is swallowed, or it is shown.
LEMMA UpdateTaken ==
  ASSUME Typed, ReceiveUpdate
  PROVE  /\ down # <<>> /\ Head(down).view \in ViewType
         /\ down[1].kind = "update" /\ down[1].view = Head(down).view /\ 1 \in Updates
         /\ IF Ignored(Head(down).view) THEN store' = store /\ up' = up
            ELSE Accepted(Head(down).view)
<1> DEFINE v == Head(down).view
<1>1. down # <<>> /\ Head(down).kind = "update"
  BY DEF ReceiveUpdate
<1>2. v \in ViewType /\ down[1].kind = "update" /\ down[1].view = v /\ 1 \in Updates
  BY <1>1, HeadNote, NoteFields DEF Updates
<1>3. CASE Ignored(v)
  BY <1>1, <1>2, <1>3 DEF ReceiveUpdate
<1>4. CASE ~Ignored(v)
  <2> DEFINE c == [kind |-> "confirm", rev |-> v.rev, match |-> v.match]
             x == IF Confirms(v) THEN c ELSE IF Frees(v) THEN NoCommand ELSE store.pending
  <2>1. /\ store' = [store EXCEPT !.view = v, !.resuming = FALSE, !.launching = FALSE,
                                  !.pending = x]
        /\ up' = IF Confirms(v) THEN up \cup {Message("confirm", v.rev)} ELSE up
    BY <1>4 DEF ReceiveUpdate, Confirms
  <2>2. c \in CommandType
    BY <1>2 DEF ViewType, CommandType, QueueKind
  <2>3. \/ Confirms(v) /\ x = c
        \/ ~Confirms(v) /\ Frees(v) /\ x = NoCommand
        \/ ~Confirms(v) /\ ~Frees(v) /\ x = store.pending
    OBVIOUS
  <2>4. x \in CommandType \cup {NoCommand}
    BY <2>2, <2>3, StoreFields
  <2> HIDE DEF x, c, v
  <2>5. store' \in StoreType /\ store'.pending = x /\ store'.view = v
    BY <1>2, <2>1, <2>4, StoreFields DEF StoreType
  <2>6. /\ store'.retired = store.retired /\ store'.epoch = store.epoch
        /\ store'.online = store.online /\ store'.session = store.session
        /\ store'.ignore = store.ignore
    BY <2>1, StoreFields DEF StoreType
  <2>7. Accepted(v)
    BY <2>1, <2>3, <2>5, <2>6 DEF Accepted, c
  <2> QED BY <1>1, <1>2, <1>4, <2>7 DEF v
<1> QED BY <1>3, <1>4

LEMMA ReceiveUpdateTyped ==
  ASSUME Typed, ReceiveUpdate
  PROVE  Typed'
<1> DEFINE v == Head(down).view
<1>1. /\ server' = server /\ due' = due /\ taken' = taken /\ unseen' = unseen
      /\ down # <<>> /\ down' = Tail(down) /\ crossed' \in BOOLEAN
  BY RestTyped DEF ReceiveUpdate
<1>2. dropped' \in BOOLEAN
  BY RestTyped DEF ReceiveUpdate
<1>3. CASE Ignored(v)
  <2>1. store' = store /\ up' = up
    BY <1>3, UpdateTaken
  <2>2. /\ store' \in StoreType /\ Len(store'.retired) <= MaxRetired
        /\ store'.epoch = store.epoch /\ store'.online = store.online
        /\ store'.session <= server.token
    BY <2>1, StoreFields, ServerFields DEF Typed, StoreTyped
  <2>3. up' \subseteq MessageType /\ \A m \in up' : m.epoch <= store.epoch
    BY <2>1, RestTyped
  <2> QED BY <1>1, <1>2, <2>2, <2>3, StoreStepTyped
<1>4. CASE ~Ignored(v)
  <2>1. Accepted(v) /\ v \in ViewType
    BY <1>4, UpdateTaken
  <2> HIDE DEF v
  <2>2. Message("confirm", v.rev) \in MessageType
        /\ Message("confirm", v.rev).epoch = store.epoch
    BY <2>1, SentMessage DEF ViewType, QueueKind
  <2>3. up' \subseteq MessageType /\ \A m \in up' : m.epoch <= store.epoch
    BY <2>1, <2>2, RestTyped, StoreFields DEF Accepted
  <2>4. /\ store' \in StoreType /\ Len(store'.retired) <= MaxRetired
        /\ store'.epoch = store.epoch /\ store'.online = store.online
        /\ store'.session <= server.token
    BY <2>1, ServerFields DEF Accepted, Typed, StoreTyped
  <2> QED BY <1>1, <1>2, <2>3, <2>4, StoreStepTyped
<1> QED BY <1>3, <1>4

LEMMA ConnectionLostTyped ==
  ASSUME Typed, NEW lost \in SUBSET up, ConnectionLost(lost)
  PROVE  Typed'
<1>1. /\ store' \in StoreType /\ store'.retired = store.retired /\ store'.epoch = store.epoch
      /\ store'.online = FALSE /\ store'.session = store.session
  BY StoreFields DEF ConnectionLost, StoreType
<1>2. /\ server' \in ServerType /\ server'.match = server.match /\ server'.token = server.token
      /\ server'.room = server.room
  BY ServerFields DEF ConnectionLost, ServerType, ServerRecord, IsOver
<1>3. StoreTyped'
  BY <1>1 DEF StoreTyped, Typed
<1>4. ServerTyped'
  BY <1>1, <1>2, ServerFields DEF ServerTyped
<1>5. DownTyped'
  <2>1. down' \in Seq(NoteType) /\ Len(down') = 0 /\ DOMAIN down' = {}
    BY DEF ConnectionLost
  <2> QED BY <2>1, ClientAssumption DEF DownTyped
<1>6. WireTyped'
  BY <1>1, <1>2, RestTyped, StoreFields DEF WireTyped, ConnectionLost
<1> QED BY <1>3, <1>4, <1>5, <1>6, RestTyped DEF Typed, ConnectionLost, notes

LEMMA ReconnectTyped ==
  ASSUME Typed, Reconnect
  PROVE  Typed'
<1>1. /\ store.epoch + 1 \in 1 .. MaxEpoch /\ store.epoch \in Nat
      /\ (store.session # 0) \in BOOLEAN
  BY StoreFields, ClientAssumption DEF Reconnect
<1> DEFINE e == store.epoch + 1
           b == store.session # 0
<1>2. store' = [store EXCEPT !.online = TRUE, !.epoch = e, !.resuming = b] /\ e > store.epoch
  BY <1>1 DEF Reconnect
<1>3. e \in 1 .. MaxEpoch /\ b \in BOOLEAN
  BY <1>1
<1> HIDE DEF e, b
<1>4. /\ store' \in StoreType /\ store'.retired = store.retired /\ store'.epoch = e
      /\ store'.session = store.session
  BY <1>2, <1>3, StoreFields DEF StoreType
<1>5. StoreTyped'
  BY <1>4 DEF StoreTyped, Typed
<1>6. server' = server /\ e \in Nat
  BY <1>3 DEF Reconnect
<1>7. ServerTyped'
  BY <1>1, <1>2, <1>4, <1>6, ServerFields DEF ServerTyped
<1>8. DownTyped'
  BY <1>6, DownKept, ServerFields DEF Reconnect
<1>9. up' \subseteq MessageType /\ \A m \in up' : m.epoch <= e
  <2>1. \A m \in up : m.epoch <= e
    BY <1>1, <1>2, <1>6, MessageFields
  <2>2. Message("resume", 0) \in MessageType
    BY SentMessage, ClientAssumption
  <2>3. /\ [Message("resume", 0) EXCEPT !.epoch = e] \in MessageType
        /\ [Message("resume", 0) EXCEPT !.epoch = e].epoch = e
    BY <1>3, <2>2 DEF MessageType
  <2> DEFINE r == [Message("resume", 0) EXCEPT !.epoch = e]
  <2>4. up' \subseteq up \cup {r}
    BY DEF Reconnect, e
  <2>5. r \in MessageType /\ r.epoch = e
    BY <2>3
  <2> HIDE DEF r
  <2> QED BY <1>6, <2>1, <2>4, <2>5, RestTyped
<1>10. WireTyped'
  BY <1>1, <1>2, <1>4, <1>6, <1>9, RestTyped DEF WireTyped, Reconnect
<1> QED BY <1>5, <1>7, <1>8, <1>10, RestTyped DEF Typed, Reconnect, notes

\* A reply, or none.
LEMMA Replies ==
  ASSUME Typed, NEW m, NEW n, Reply(m, n)
  PROVE  \/ down' = down /\ ~(store.online /\ m.epoch = store.epoch)
         \/ down' = Append(down, n) /\ store.online /\ m.epoch = store.epoch
  BY DEF Reply

LEMMA BroadcastTyped ==
  ASSUME Typed, CanBroadcast, Broadcast
  PROVE  due' \in 0 .. MaxDue /\ due' > 0
  BY RestTyped, ClientAssumption DEF CanBroadcast, Broadcast

\* The steps, whatever phase they lead to.
Handled(m) == \E phase \in PhasesAfter(m) : HandleCommand(m, phase)
OtherMoved(mine) == \E phase \in Begun : OthersMove(mine, phase)

\* The two outcomes of a command.
CommandApplied(m) ==
    /\ Allowed(m) /\ server.rev < MaxRevision
    /\ \E phase \in PhasesAfter(m) : server' = After(m, phase)
    /\ down' = down \/ Reply(m, CpuError(m))
    /\ due' = due + 1 /\ server.match > 0

CommandRefused(m) ==
    /\ ~Allowed(m) /\ server' = server /\ Reply(m, Error(m))
    /\ IF server.match = 0 THEN due' = due ELSE due' = due + 1

LEMMA CommandOutcome ==
  ASSUME Typed, NEW m \in up, Handled(m)
  PROVE  /\ CommandApplied(m) \/ CommandRefused(m)
         /\ m.kind \in QueueKind \cup {"surrender"}
         /\ up' = up \ {m} /\ CanBroadcast
         /\ store' = store /\ taken' = taken /\ unseen' = unseen /\ dropped' = dropped
         /\ crossed' = crossed /\ strayed' = strayed
<1>1. server.match \in Nat
  BY ServerFields
<1>2. CASE Allowed(m)
  <2>1. server.match # 0
    BY <1>2 DEF Allowed, Live
  <2> QED BY <1>1, <1>2, <2>1 DEF Handled, HandleCommand, CommandApplied, CpuError, Broadcast, notes
<1>3. CASE ~Allowed(m)
  BY <1>3 DEF Handled, HandleCommand, CommandRefused, Broadcast, notes
<1> QED BY <1>2, <1>3

LEMMA AfterFields ==
  ASSUME Typed, NEW m \in up, server.rev < MaxRevision,
         NEW phase \in PhasesAfter(m), server' = After(m, phase)
  PROVE  /\ server' \in ServerType /\ server'.match = server.match
         /\ server'.rev = server.rev + 1 /\ server'.room = server.room
         /\ server'.token = server.token /\ server'.heard = server.rev + 1
         /\ server'.foreign = IF Own(m) THEN server.foreign ELSE server.rev + 1
<1> DEFINE f == IF Own(m) THEN server.foreign ELSE server.rev + 1
           mine == server.mine /\ ~EndsTurn(m)
           r == server.rev + 1
<1>1. server' = [server EXCEPT !.rev = r, !.heard = r, !.foreign = f, !.phase = phase,
                               !.made = phase, !.mine = mine]
  BY ServerFields DEF After, ServerType, ServerRecord
<1>2. r \in 0 .. MaxRevision /\ f \in 0 .. MaxRevision /\ r <= r
  BY ServerFields, ClientAssumption
<1>3. phase \in Phase /\ mine \in BOOLEAN
  BY DEF PhasesAfter, Begun, Phase
<1>4. r = server.rev + 1 /\ f = IF Own(m) THEN server.foreign ELSE server.rev + 1
  OBVIOUS
<1> HIDE DEF f, mine, r
<1>5. server' \in ServerType
  BY <1>1, <1>2, <1>3, ServerFields DEF ServerType, ServerRecord
<1>6. /\ server'.match = server.match /\ server'.rev = r /\ server'.room = server.room
      /\ server'.token = server.token /\ server'.heard = r /\ server'.foreign = f
  BY <1>1, ServerFields DEF ServerType, ServerRecord
<1> QED BY <1>4, <1>5, <1>6

LEMMA HandleCommandTyped ==
  ASSUME Typed, NEW m \in up, Handled(m)
  PROVE  Typed'
<1>1. /\ CommandApplied(m) \/ CommandRefused(m)
      /\ up' = up \ {m} /\ CanBroadcast /\ store' = store /\ taken' = taken
      /\ unseen' = unseen /\ dropped' = dropped /\ crossed' = crossed
  BY CommandOutcome
<1>2. due' = due + 1 => due' \in 0 .. MaxDue
  BY BroadcastTyped, <1>1 DEF Broadcast
<1>3. CASE CommandApplied(m)
  <2>1. /\ server' \in ServerType /\ server'.room = server.room /\ server'.match = server.match
        /\ server'.token = server.token
    BY <1>3, AfterFields DEF CommandApplied
  <2>2. DownTyped'
    BY <1>1, <1>3, <2>1, DownKept, ReplyTyped, NewNotes, ServerFields DEF CommandApplied
  <2>3. due' \in 0 .. MaxDue /\ server'.match > 0
    BY <1>2, <1>3, <2>1 DEF CommandApplied
  <2> QED BY <1>1, <2>1, <2>2, <2>3, ServerStepTyped, ServerFields, RestTyped
<1>4. CASE CommandRefused(m)
  <2>1. server' = server /\ Reply(m, Error(m))
    BY <1>4 DEF CommandRefused
  <2>2. DownTyped'
    BY <1>1, <2>1, ReplyTyped, NewNotes, ServerFields
  <2>3. due' \in 0 .. MaxDue /\ (due' > 0 => server'.match > 0)
    BY <1>2, <1>4, <2>1, RestTyped, ServerFields DEF CommandRefused
  <2> QED BY <1>1, <2>1, <2>2, <2>3, ServerStepTyped, ServerFields, RestTyped
<1> QED BY <1>1, <1>3, <1>4

\* The two outcomes of a start.
Started(m) ==
    /\ server' \in ServerType /\ server'.match = server.match + 1 /\ server'.rev = 0
    /\ server'.foreign = 0 /\ server'.room = m.epoch /\ server'.token = server.token + 1
    /\ Reply(m, Grant(server.token + 1)) /\ due' = due + 1

LEMMA StartOutcome ==
  ASSUME Typed, NEW m \in up, NEW mine \in BOOLEAN, HandleStart(m, mine)
  PROVE  /\ \/ Started(m)
            \/ server' = server /\ Reply(m, Error(m)) /\ due' = due
         /\ m.kind = "start" /\ up' = up \ {m} /\ CanBroadcast
         /\ store' = store /\ taken' = taken /\ unseen' = unseen /\ dropped' = dropped
         /\ crossed' = crossed /\ strayed' = strayed
<1>1. CASE Live
  BY <1>1 DEF HandleStart, notes
<1>2. CASE ~Live
  <2> DEFINE k == server.match + 1
             t == server.token + 1
  <2>1. k \in 0 .. MaxMatch /\ t \in Nat /\ 0 \in 0 .. MaxRevision /\ m.epoch \in 0 .. MaxEpoch
    BY <1>2, ServerFields, MessageFields, ClientAssumption DEF HandleStart
  <2>2. server' = [match |-> k, rev |-> 0, phase |-> "planning", mine |-> mine, away |-> {},
                   token |-> t, room |-> m.epoch, made |-> "planning", heard |-> 0, foreign |-> 0]
    BY <1>2 DEF HandleStart
  <2>3. k = server.match + 1 /\ t = server.token + 1
    OBVIOUS
  <2> HIDE DEF k, t
  <2>4. server' \in ServerType
    BY <2>1, <2>2 DEF ServerType, ServerRecord, Phase
  <2>5. Started(m)
    BY <1>2, <2>2, <2>3, <2>4 DEF HandleStart, Started, Broadcast
  <2> QED BY <2>5 DEF HandleStart, notes
<1> QED BY <1>1, <1>2

LEMMA HandleStartTyped ==
  ASSUME Typed, NEW m \in up, NEW mine \in BOOLEAN, HandleStart(m, mine)
  PROVE  Typed'
<1>1. /\ CanBroadcast /\ up' = up \ {m} /\ store' = store /\ taken' = taken /\ unseen' = unseen
      /\ dropped' = dropped /\ crossed' = crossed
  BY StartOutcome
<1>2. CASE Started(m)
  <2>1. /\ server' \in ServerType /\ server'.room <= store.epoch
        /\ server'.token \in Nat /\ server'.token >= server.token /\ server'.match > 0
    BY <1>2, ServerFields, MessageFields DEF Started
  <2>2. DownTyped'
    <3>1. /\ Grant(server.token + 1) \in NoteType
          /\ Grant(server.token + 1).token = server'.token
          /\ Reply(m, Grant(server.token + 1))
      BY <1>2, NewNotes, ServerFields DEF Started
    <3> QED BY <1>1, <2>1, <3>1, ReplyTyped
  <2>3. due' \in 0 .. MaxDue
    BY <1>1, <1>2, BroadcastTyped DEF Broadcast, Started
  <2> QED BY <1>1, <2>1, <2>2, <2>3, ServerStepTyped, RestTyped
<1>3. CASE server' = server /\ Reply(m, Error(m)) /\ due' = due
  <2>1. DownTyped'
    BY <1>1, <1>3, ReplyTyped, NewNotes, ServerFields
  <2> QED BY <1>1, <1>3, <2>1, ServerStepTyped, ServerFields, RestTyped
<1> QED BY <1>2, <1>3, StartOutcome

\* The two outcomes of a resume.
Resumed(m) ==
    /\ server' \in ServerType /\ server'.match = server.match /\ server'.rev = server.rev
    /\ server'.phase = server.phase /\ server'.mine = server.mine /\ server'.made = server.made
    /\ server'.heard = server.heard /\ server'.foreign = server.foreign /\ server'.room = m.epoch
    /\ server'.token = server.token + 1 /\ server.match > 0
    /\ Reply(m, Grant(server.token + 1)) /\ due' = due + 1

LEMMA ResumeOutcome ==
  ASSUME Typed, NEW m \in up, HandleResume(m)
  PROVE  /\ \/ Resumed(m)
            \/ server' = server /\ Reply(m, [kind |-> "rejected"]) /\ due' = due
         /\ m.kind = "resume" /\ up' = up \ {m} /\ CanBroadcast
         /\ store' = store /\ taken' = taken /\ unseen' = unseen /\ dropped' = dropped
         /\ crossed' = crossed /\ strayed' = strayed
<1> DEFINE g == Live /\ m.token = server.token /\ "me" \in server.away
<1>1. CASE g
  <2> DEFINE a == server.away \ {"me"}
             t == server.token + 1
  <2>1. /\ a \in SUBSET {"me", "foe"} /\ t \in Nat /\ m.epoch \in 0 .. MaxEpoch
        /\ server.match > 0
    <3>1. server.away \in SUBSET {"me", "foe"}
      BY ServerFields DEF ServerType, ServerRecord, IsOver
    <3> QED BY <1>1, <3>1, ServerFields, MessageFields, ClientAssumption DEF Live
  <2>2. server' = [server EXCEPT !.away = a, !.token = t, !.room = m.epoch]
    BY <1>1, ServerFields DEF HandleResume, ServerType, ServerRecord, IsOver
  <2>3. t = server.token + 1
    OBVIOUS
  <2> HIDE DEF a, t
  <2>4. server' \in ServerType
    BY <2>1, <2>2, ServerFields DEF ServerType, ServerRecord, IsOver
  <2>5. /\ server'.match = server.match /\ server'.rev = server.rev
        /\ server'.phase = server.phase /\ server'.mine = server.mine
        /\ server'.made = server.made /\ server'.heard = server.heard
        /\ server'.foreign = server.foreign
        /\ server'.room = m.epoch /\ server'.token = t
    BY <2>2, ServerFields DEF ServerType, ServerRecord, IsOver
  <2>6. Reply(m, Grant(server.token + 1)) /\ due' = due + 1
    BY <1>1 DEF HandleResume, Broadcast
  <2>7. Resumed(m)
    BY <2>1, <2>3, <2>4, <2>5, <2>6 DEF Resumed
  <2> QED BY <2>7 DEF HandleResume, notes
<1>2. CASE ~g
  BY <1>2 DEF HandleResume, notes
<1> QED BY <1>1, <1>2

LEMMA HandleResumeTyped ==
  ASSUME Typed, NEW m \in up, HandleResume(m)
  PROVE  Typed'
<1>1. /\ CanBroadcast /\ up' = up \ {m} /\ store' = store /\ taken' = taken /\ unseen' = unseen
      /\ dropped' = dropped /\ crossed' = crossed
  BY ResumeOutcome
<1>2. CASE Resumed(m)
  <2>1. /\ server' \in ServerType /\ server'.room <= store.epoch
        /\ server'.token \in Nat /\ server'.token >= server.token /\ server'.match > 0
    BY <1>2, ServerFields, MessageFields DEF Resumed
  <2>2. DownTyped'
    <3>1. /\ Grant(server.token + 1) \in NoteType
          /\ Grant(server.token + 1).token = server'.token
          /\ Reply(m, Grant(server.token + 1))
      BY <1>2, NewNotes, ServerFields DEF Resumed
    <3> QED BY <1>1, <2>1, <3>1, ReplyTyped
  <2>3. due' \in 0 .. MaxDue
    BY <1>1, <1>2, BroadcastTyped DEF Broadcast, Resumed
  <2> QED BY <1>1, <2>1, <2>2, <2>3, ServerStepTyped, RestTyped
<1>3. CASE server' = server /\ Reply(m, [kind |-> "rejected"]) /\ due' = due
  <2>1. /\ [kind |-> "rejected"] \in NoteType
        /\ [kind |-> "rejected"].kind # "session"
    BY NewNotes
  <2>2. DownTyped'
    BY <1>1, <1>3, <2>1, ReplyTyped, ServerFields
  <2> QED BY <1>1, <1>3, <2>2, ServerStepTyped, ServerFields, RestTyped
<1> QED BY <1>2, <1>3, ResumeOutcome

\* What the server does of its own.
Unmoved ==
    /\ server'.match = server.match /\ server'.rev = server.rev
    /\ server'.made = server.made /\ server'.mine = server.mine
    /\ server'.heard = server.heard /\ server'.foreign = server.foreign

Apart ==
    /\ store' = store /\ up' = up /\ taken' = taken /\ down' = down /\ dropped' = dropped
    /\ crossed' = crossed /\ strayed' = strayed
    /\ server' \in ServerType /\ server'.room = server.room /\ server'.token = server.token
    /\ server'.match = server.match

LEMMA OthersMoveEffect ==
  ASSUME Typed, NEW mine \in BOOLEAN, OtherMoved(mine)
  PROVE  /\ Apart /\ Live /\ server'.rev = server.rev + 1 /\ server'.foreign = server.rev + 1
         /\ \/ due' = due + 1 /\ CanBroadcast
            \/ due' = due
         /\ server'.heard = IF due' > 0 THEN server.rev + 1 ELSE server.heard
         /\ unseen' = unseen
<1>1. PICK phase \in Begun : OthersMove(mine, phase)
  BY DEF OtherMoved
<1> DEFINE r == server.rev + 1
           h == IF due' > 0 THEN r ELSE server.heard
<1>2. r \in 0 .. MaxRevision /\ h \in 0 .. MaxRevision /\ h <= r
  BY <1>1, ServerFields, ClientAssumption DEF OthersMove
<1>3. server' = [server EXCEPT !.rev = r, !.foreign = r, !.mine = mine, !.phase = phase,
                               !.made = phase, !.heard = h]
  BY <1>1, ServerFields DEF OthersMove, ServerType, ServerRecord
<1>4. r = server.rev + 1 /\ h = IF due' > 0 THEN server.rev + 1 ELSE server.heard
  OBVIOUS
<1>5. phase \in Phase
  BY DEF Begun, Phase
<1> HIDE DEF r, h
<1>6. server' \in ServerType
  BY <1>2, <1>3, <1>5, ServerFields DEF ServerType, ServerRecord
<1>7. /\ server'.match = server.match /\ server'.rev = r /\ server'.foreign = r
      /\ server'.heard = h /\ server'.room = server.room /\ server'.token = server.token
  BY <1>3, ServerFields DEF ServerType, ServerRecord
<1> QED BY <1>1, <1>4, <1>6, <1>7 DEF OthersMove, Apart, Broadcast, notes

LEMMA OpponentConnectionEffect ==
  ASSUME Typed, OpponentConnection
  PROVE  /\ Apart /\ Live /\ Unmoved /\ server'.phase = server.phase
         /\ due' = due + 1 /\ CanBroadcast /\ unseen' = unseen
<1> DEFINE a == IF "foe" \in server.away THEN server.away \ {"foe"} ELSE server.away \cup {"foe"}
<1>1. a \in SUBSET {"me", "foe"}
  <2>1. server.away \in SUBSET {"me", "foe"}
    BY ServerFields DEF ServerType, ServerRecord, IsOver
  <2> QED BY <2>1
<1>2. server' = [server EXCEPT !.away = a]
  BY ServerFields DEF OpponentConnection, ServerType, ServerRecord, IsOver
<1> HIDE DEF a
<1>3. server' \in ServerType
  BY <1>1, <1>2, ServerFields DEF ServerType, ServerRecord, IsOver
<1>4. /\ Unmoved /\ server'.phase = server.phase
      /\ server'.room = server.room /\ server'.token = server.token
  BY <1>2, ServerFields DEF ServerType, ServerRecord, IsOver, Unmoved
<1> QED BY <1>3, <1>4 DEF OpponentConnection, Apart, Broadcast, notes, Unmoved

LEMMA NoticeDisconnectEffect ==
  ASSUME Typed, NoticeDisconnect
  PROVE  /\ Apart /\ Unmoved /\ server'.phase = server.phase
         /\ \/ Live /\ due' = due + 1 /\ CanBroadcast
            \/ due' = due
         /\ unseen' \in Nat /\ unseen' <= unseen
<1>1. unseen' \in Nat /\ unseen' <= unseen
  BY RestTyped DEF NoticeDisconnect
<1>2. CASE Live
  <2> DEFINE a == server.away \cup {"me"}
  <2>1. a \in SUBSET {"me", "foe"}
    <3>1. server.away \in SUBSET {"me", "foe"}
      BY ServerFields DEF ServerType, ServerRecord, IsOver
    <3> QED BY <3>1
  <2>2. server' = [server EXCEPT !.away = a]
    BY <1>2, ServerFields DEF NoticeDisconnect, ServerType, ServerRecord, IsOver
  <2> HIDE DEF a
  <2>3. server' \in ServerType
    BY <2>1, <2>2, ServerFields DEF ServerType, ServerRecord, IsOver
  <2>4. /\ Unmoved /\ server'.phase = server.phase
        /\ server'.room = server.room /\ server'.token = server.token
    BY <2>2, ServerFields DEF ServerType, ServerRecord, IsOver, Unmoved
  <2> QED BY <1>1, <1>2, <2>3, <2>4 DEF NoticeDisconnect, Apart, Broadcast, notes, Unmoved
<1>3. CASE ~Live
  BY <1>1, <1>3, ServerFields DEF NoticeDisconnect, Apart, notes, Unmoved
<1> QED BY <1>2, <1>3

LEMMA ForfeitEffect ==
  ASSUME Typed, Forfeit
  PROVE  /\ Apart /\ Live /\ Unmoved /\ IsOver(server')
         /\ due' = due + 1 /\ CanBroadcast /\ unseen' = unseen
<1>1. server' = [server EXCEPT !.phase = "finished", !.away = {}]
  BY DEF Forfeit
<1>2. server' \in ServerType
  BY <1>1, ServerFields DEF ServerType, ServerRecord, IsOver, Phase
<1>3. /\ Unmoved /\ IsOver(server')
      /\ server'.room = server.room /\ server'.token = server.token
  BY <1>1, ServerFields DEF ServerType, ServerRecord, IsOver, Unmoved
<1> QED BY <1>2, <1>3 DEF Forfeit, Apart, Broadcast, notes, Unmoved

LEMMA ApartTyped ==
  ASSUME Typed, Apart, due' = due \/ (Live /\ due' = due + 1 /\ CanBroadcast),
         unseen' \in Nat, unseen' <= unseen
  PROVE  Typed'
<1>1. DownTyped'
  BY DownKept, ServerFields DEF Apart
<1>2. due' \in 0 .. MaxDue /\ (due' > 0 => server'.match > 0)
  BY RestTyped, BroadcastTyped, ServerFields DEF Apart, Live, Broadcast
<1> QED BY <1>1, <1>2, ServerStepTyped, ServerFields, RestTyped DEF Apart

LEMMA RateLimitedTyped ==
  ASSUME Typed, NEW m \in up, RateLimited(m)
  PROVE  Typed'
<1>1. DownTyped'
  BY DownKept, ServerFields DEF RateLimited
<1>2. dropped' \in BOOLEAN
  BY RestTyped DEF RateLimited
<1>3. /\ store' = store /\ server' = server /\ up' \subseteq up /\ taken' = taken
      /\ due' = due /\ unseen' = unseen /\ crossed' = crossed
  BY DEF RateLimited, notes
<1> QED BY <1>1, <1>2, <1>3, ServerStepTyped, ServerFields, RestTyped

LEMMA ViewTyped ==
  ASSUME Typed, server.match > 0
  PROVE  View \in ViewType
<1>1. /\ server.match \in 1 .. MaxMatch /\ server.phase \in Phase
      /\ server.mine \in BOOLEAN /\ Paused \in BOOLEAN
  BY ServerFields, ClientAssumption DEF ServerType, ServerRecord, IsOver, Paused
<1> QED BY <1>1, ServerFields DEF View, ViewType

LEMMA SerializeTyped ==
  ASSUME Typed, Serialize
  PROVE  Typed'
<1>1. DownTyped'
  BY DownKept, ServerFields DEF Serialize
<1>2. taken' \subseteq ViewType
  BY ViewTyped, RestTyped DEF Serialize
<1>3. due' \in 0 .. MaxDue /\ server.match > 0
  BY RestTyped DEF Serialize
<1>4. /\ store' = store /\ server' = server /\ up' = up /\ unseen' = unseen
      /\ crossed' = crossed /\ dropped' = dropped
  BY DEF Serialize, notes
<1> QED BY <1>1, <1>2, <1>3, <1>4, ServerStepTyped, ServerFields, RestTyped

Update(v) == [kind |-> "update", view |-> v]

LEMMA EmitEffect ==
  ASSUME Typed, NEW v \in taken, Emit(v)
  PROVE  /\ store' = store /\ server' = server /\ up' = up /\ due' = due /\ unseen' = unseen
         /\ crossed' = crossed /\ strayed' = strayed /\ dropped' = dropped
         /\ taken' = taken \ {v} /\ Update(v) \in NoteType /\ Len(down) < MaxDown
         /\ \/ down' = Append(down, Update(v))
            \/ down' = down /\ ~(store.online /\ server.room = store.epoch)
<1>1. v \in ViewType
  BY RestTyped
<1> QED BY <1>1 DEF Emit, notes, Update, NoteType

LEMMA EmitTyped ==
  ASSUME Typed, NEW v \in taken, Emit(v)
  PROVE  Typed'
<1>1. DownTyped'
  <2>1. Update(v).kind # "session"
    BY DEF Update
  <2> QED BY <2>1, EmitEffect, DownKept, DownAppended, ServerFields
<1>2. taken' \subseteq ViewType
  BY EmitEffect, RestTyped
<1> QED BY <1>1, <1>2, EmitEffect, ServerStepTyped, ServerFields, RestTyped

LEMMA TypedNext ==
  ASSUME Typed, [ClientNext]_clientVars
  PROVE  Typed'
<1>1. CASE UNCHANGED clientVars
  <2>1. /\ store' = store /\ server' = server /\ up' = up /\ due' = due /\ taken' = taken
        /\ down' = down /\ unseen' = unseen /\ dropped' = dropped /\ crossed' = crossed
    BY <1>1 DEF clientVars, notes
  <2>2. DownTyped'
    BY <2>1, DownKept, ServerFields
  <2> QED BY <2>1, <2>2, ServerStepTyped, ServerFields, RestTyped
<1>2. CASE \E kind \in QueueKind \ {"confirm"} : SendCommand(kind)
  BY <1>2, SendCommandTyped
<1>3. CASE StartMatch \/ LaunchTimeout \/ Leave
  BY <1>3, StartMatchTyped, LaunchTimeoutTyped, LeaveTyped
<1>4. CASE ReceiveUpdate \/ ReceiveError \/ ReceiveSession \/ ReceiveRejected
  BY <1>4, ReceiveUpdateTyped, ReceiveErrorTyped, ReceiveSessionTyped, ReceiveRejectedTyped
<1>5. CASE (\E lost \in SUBSET up : ConnectionLost(lost)) \/ Reconnect
  BY <1>5, ConnectionLostTyped, ReconnectTyped
<1>6. CASE \E m \in up : Handled(m) \/ HandleResume(m) \/ RateLimited(m)
                         \/ \E mine \in BOOLEAN : HandleStart(m, mine)
  BY <1>6, HandleCommandTyped, HandleResumeTyped, RateLimitedTyped, HandleStartTyped
<1>7. CASE \E mine \in BOOLEAN : OtherMoved(mine)
  BY <1>7, OthersMoveEffect, ApartTyped, RestTyped
<1>8. CASE OpponentConnection \/ NoticeDisconnect \/ Forfeit
  <2>1. CASE OpponentConnection
    BY <2>1, OpponentConnectionEffect, ApartTyped, RestTyped
  <2>2. CASE NoticeDisconnect
    BY <2>2, NoticeDisconnectEffect, ApartTyped, RestTyped
  <2>3. CASE Forfeit
    BY <2>3, ForfeitEffect, ApartTyped, RestTyped
  <2> QED BY <1>8, <2>1, <2>2, <2>3
<1>9. CASE Serialize \/ \E v \in taken : Emit(v)
  BY <1>9, SerializeTyped, EmitTyped
<1> QED BY <1>1, <1>2, <1>3, <1>4, <1>5, <1>6, <1>7, <1>8, <1>9 DEF ClientNext, Handled, OtherMoved

-----------------------------------------------------------------------------
(* What each step does *)

SameMark == server'.match = server.match /\ server'.heard = server.heard

SameBoard ==
    /\ SameMark /\ server'.rev = server.rev
    /\ server'.made = server.made /\ server'.mine = server.mine

\* The phase stays, or the match is forfeited; or a revision or a match begins.
ServerStep ==
    \/ SameBoard /\ server'.phase = server.phase
    \/ SameBoard /\ Live /\ IsOver(server')
    \/ /\ Live /\ server'.match = server.match /\ server'.rev = server.rev + 1
       /\ server'.heard \in {server.heard, server.rev + 1}
    \/ server'.match = server.match + 1 /\ server'.rev = 0

SameConnection == store'.epoch = store.epoch /\ store'.online = store.online
SameMemory == store'.retired = store.retired /\ store'.ignore = store.ignore
SameScreen == SameConnection /\ SameMemory /\ store'.view = store.view

DownLess == down' = down \/ (down # <<>> /\ down' = Tail(down)) \/ down' = <<>>

\* Nothing moves but the store and what it sends and hears.
ServerRests ==
    /\ server' = server /\ due' = due /\ taken' = taken /\ unseen' = unseen

LEMMA SendEffect ==
  ASSUME Typed, NEW kind \in QueueKind, SendCommand(kind)
  PROVE  /\ store.view # NoView /\ store.online /\ store.pending = NoCommand
         /\ SameScreen /\ store'.pending = Pending(kind) /\ Pending(kind) # NoCommand
         /\ Pending(kind).match = store.view.match /\ Pending(kind).rev = store.view.rev
         /\ up' = up \cup {Message(kind, store.view.rev)}
         /\ Identity(Message(kind, store.view.rev)) = Pending(kind)
         /\ ServerRests /\ down' = down /\ strayed' = strayed /\ crossed' = crossed
<1>1. store.view # NoView /\ store.online /\ store.pending = NoCommand
  BY StoreFields DEF SendCommand, ControlsLocked
<1>2. store' = [store EXCEPT !.pending = Pending(kind)]
  BY DEF SendCommand
<1>3. Pending(kind) \in CommandType /\ Pending(kind) # NoCommand
  BY <1>1, ShownFields, ClientAssumption DEF Pending, CommandType
<1>4. Pending(kind).match = store.view.match /\ Pending(kind).rev = store.view.rev
  BY DEF Pending
<1>5. Identity(Message(kind, store.view.rev)) = Pending(kind)
  BY <1>1 DEF Identity, Message, Pending
<1>6. SameScreen /\ store'.pending = Pending(kind)
  BY <1>2, StoreFields DEF SameScreen, SameConnection, SameMemory, StoreType
<1> QED BY <1>1, <1>3, <1>4, <1>5, <1>6 DEF SendCommand, ServerRests, notes

LEMMA LaunchTimeoutEffect ==
  ASSUME Typed, LaunchTimeout
  PROVE  /\ SameScreen /\ store'.pending = store.pending /\ ServerRests /\ up' = up
         /\ down' = down /\ strayed' = strayed /\ crossed' = crossed /\ dropped' = dropped
  BY StoreFields
  DEF LaunchTimeout, SameScreen, SameConnection, SameMemory, StoreType, ServerRests, notes

LEMMA ReceiveSessionEffect ==
  ASSUME Typed, ReceiveSession
  PROVE  /\ SameScreen /\ store'.pending = store.pending /\ ServerRests /\ up' = up
         /\ down # <<>> /\ down[1].kind = "session" /\ down' = Tail(down)
         /\ strayed' = strayed /\ crossed' = crossed /\ dropped' = dropped
<1>1. store' = [store EXCEPT !.session = Head(down).token]
  BY DEF ReceiveSession
<1>2. SameScreen /\ store'.pending = store.pending
  BY <1>1, StoreFields DEF SameScreen, SameConnection, SameMemory, StoreType
<1> QED BY <1>2, HeadNote DEF ReceiveSession, ServerRests, notes

LEMMA ReceiveErrorEffect ==
  ASSUME Typed, ReceiveError
  PROVE  /\ SameScreen /\ store'.pending = NoCommand /\ ServerRests /\ up' = up
         /\ down # <<>> /\ down[1].kind = "error" /\ down' = Tail(down)
         /\ crossed' = (crossed \/ (store.pending # NoCommand /\ down[1].to # store.pending))
         /\ strayed' = strayed
<1>1. SameScreen /\ store'.pending = NoCommand
  BY StoreFields DEF ReceiveError, SameScreen, SameConnection, SameMemory, StoreType
<1>2. down # <<>> /\ Head(down) = down[1]
  BY HeadNote DEF ReceiveError
<1> QED BY <1>1, <1>2 DEF ReceiveError, ServerRests

LEMMA ConnectionLostEffect ==
  ASSUME Typed, NEW lost \in SUBSET up, ConnectionLost(lost)
  PROVE  /\ store'.epoch = store.epoch /\ store'.online = FALSE /\ SameMemory
         /\ store'.view = store.view /\ store'.pending = NoCommand
         /\ up' \subseteq up /\ down' = <<>> /\ due' = due /\ taken' = taken
         /\ SameBoard /\ server'.phase = server.phase /\ server'.room = server.room
         /\ server'.foreign = server.rev /\ strayed' = strayed /\ crossed' = crossed
<1>1. /\ store'.epoch = store.epoch /\ store'.online = FALSE /\ SameMemory
      /\ store'.view = store.view /\ store'.pending = NoCommand
  BY StoreFields DEF ConnectionLost, SameMemory, StoreType
<1>2. /\ SameBoard /\ server'.phase = server.phase /\ server'.room = server.room
      /\ server'.foreign = server.rev
  BY ServerFields DEF ConnectionLost, SameBoard, SameMark, ServerType, ServerRecord, IsOver
<1> QED BY <1>1, <1>2 DEF ConnectionLost, notes

Resume == [Message("resume", 0) EXCEPT !.epoch = store.epoch + 1]

LEMMA ReconnectEffect ==
  ASSUME Typed, Reconnect
  PROVE  /\ ~store.online /\ store'.epoch = store.epoch + 1 /\ store'.online = TRUE /\ SameMemory
         /\ store'.view = store.view /\ store'.pending = store.pending
         /\ up' \subseteq up \cup {Resume} /\ Resume.kind = "resume" /\ Resume.rev = 0
         /\ (store.view = NoView => Resume.match = 0)
         /\ (store.view # NoView => Resume.match = store.view.match)
         /\ ServerRests /\ down' = down /\ strayed' = strayed /\ crossed' = crossed
<1> DEFINE e == store.epoch + 1
           b == store.session # 0
<1>1. store' = [store EXCEPT !.online = TRUE, !.epoch = e, !.resuming = b]
  BY StoreFields DEF Reconnect, StoreType
<1>2. e = store.epoch + 1
  OBVIOUS
<1> HIDE DEF e, b
<1>3. /\ store'.epoch = e /\ store'.online = TRUE /\ SameMemory
      /\ store'.view = store.view /\ store'.pending = store.pending
  BY <1>1, StoreFields DEF SameMemory, StoreType
<1>4. /\ Resume.kind = "resume" /\ Resume.rev = 0
      /\ (store.view = NoView => Resume.match = 0)
      /\ (store.view # NoView => Resume.match = store.view.match)
  BY DEF Resume, Message
<1>5. up' \subseteq up \cup {Resume}
  BY DEF Reconnect, Resume
<1> QED BY <1>2, <1>3, <1>4, <1>5 DEF Reconnect, ServerRests, notes

LEMMA StartEffect ==
  ASSUME Typed, StartMatch
  PROVE  /\ Cleared /\ store'.pending = store.pending /\ store'.ignore = FALSE /\ store.online
         /\ (store.view # NoView => IsOver(store.view))
         /\ up' = up \cup {Message("start", 0)}
         /\ ServerRests /\ down' = down /\ strayed' = strayed /\ crossed' = crossed
         /\ dropped' = dropped
  BY StartClears DEF StartMatch, ServerRests, notes

LEMMA LeaveEffect ==
  ASSUME Typed, Leave
  PROVE  /\ Cleared /\ store'.pending = NoCommand /\ store.view # NoView
         /\ up' \subseteq up \cup {Message("surrender", store.view.rev)}
         /\ ServerRests /\ down' = down /\ strayed' = strayed /\ crossed' = crossed
  BY LeaveClears DEF Leave, ServerRests, notes

LEMMA RejectedEffect ==
  ASSUME Typed, ReceiveRejected
  PROVE  /\ Cleared /\ store'.pending = NoCommand /\ store'.ignore = store.ignore
         /\ up' = up /\ down # <<>> /\ down[1].kind = "rejected" /\ down' = Tail(down)
         /\ ServerRests /\ strayed' = strayed /\ crossed' = crossed
  BY LobbyClears, HeadNote DEF ReceiveRejected, ServerRests, notes

LEMMA UpdateEffect ==
  ASSUME Typed, ReceiveUpdate
  PROVE  /\ down # <<>> /\ down[1].kind = "update" /\ 1 \in Updates /\ down' = Tail(down)
         /\ down[1].view \in ViewType /\ ServerRests /\ crossed' = crossed
         /\ strayed' = strayed \cup Strays(down[1].view)
         /\ dropped' = (dropped /\ store'.pending = store.pending)
         /\ IF Ignored(down[1].view) THEN store' = store /\ up' = up ELSE Accepted(down[1].view)
<1>1. down # <<>> /\ Head(down) = down[1]
  BY UpdateTaken, HeadNote
<1> QED BY <1>1, UpdateTaken DEF ReceiveUpdate, ServerRests

LEMMA RateLimitedEffect ==
  ASSUME Typed, NEW m \in up, RateLimited(m)
  PROVE  /\ store' = store /\ ServerRests /\ down' = down /\ up' = up \ {m}
         /\ m.kind \in QueueKind /\ dropped' = (dropped \/ m.epoch = store.epoch)
         /\ strayed' = strayed /\ crossed' = crossed
  BY DEF RateLimited, ServerRests, notes

LEMMA SerializeEffect ==
  ASSUME Typed, Serialize
  PROVE  /\ store' = store /\ server' = server /\ up' = up /\ down' = down
         /\ due > 0 /\ due' = due - 1 /\ taken' = taken \cup {View}
         /\ View.match = server.match /\ View.rev = server.rev /\ View.phase = server.phase
         /\ View.mine = server.mine
         /\ dropped' = dropped /\ strayed' = strayed /\ crossed' = crossed
  BY RestTyped DEF Serialize, View, notes

LEMMA RestEffect ==
  ASSUME UNCHANGED clientVars
  PROVE  /\ store' = store /\ ServerRests /\ up' = up /\ down' = down
         /\ dropped' = dropped /\ strayed' = strayed /\ crossed' = crossed
  BY DEF clientVars, notes, ServerRests

LEMMA AppliedStep ==
  ASSUME Typed, NEW m \in up, CommandApplied(m)
  PROVE  /\ Live /\ server'.match = server.match /\ server'.rev = server.rev + 1
         /\ server'.room = server.room /\ server' \in ServerType
         /\ server'.foreign = IF Own(m) THEN server.foreign ELSE server.rev + 1
         /\ server'.heard = server.rev + 1 /\ m.rev = server.rev
  BY AfterFields DEF CommandApplied, Allowed

-----------------------------------------------------------------------------
(* Steps of the server, and what comes and goes on the wire *)

LEMMA ServerSteps ==
  ASSUME Typed, [ClientNext]_clientVars
  PROVE  ServerStep
<1>1. server' = server => ServerStep
  BY DEF ServerStep, SameBoard, SameMark
<1>2. ServerRests => ServerStep
  BY <1>1 DEF ServerRests
<1>3. ASSUME NEW m \in up, Handled(m) PROVE ServerStep
  BY <1>1, <1>3, CommandOutcome, AppliedStep DEF CommandRefused, ServerStep
<1>4. ASSUME NEW m \in up, NEW mine \in BOOLEAN, HandleStart(m, mine) PROVE ServerStep
  BY <1>1, <1>4, StartOutcome DEF Started, ServerStep
<1>5. ASSUME NEW m \in up, HandleResume(m) PROVE ServerStep
  BY <1>1, <1>5, ResumeOutcome DEF Resumed, ServerStep, SameBoard, SameMark
<1>6. ASSUME NEW mine \in BOOLEAN, OtherMoved(mine) PROVE ServerStep
  BY <1>6, OthersMoveEffect DEF Apart, ServerStep
<1>7. CASE OpponentConnection \/ NoticeDisconnect \/ Forfeit
  <2>1. Unmoved => SameBoard
    BY DEF Unmoved, SameBoard, SameMark
  <2> QED BY <1>7, <2>1, OpponentConnectionEffect, NoticeDisconnectEffect, ForfeitEffect
          DEF ServerStep
<1>8. ASSUME NEW lost \in SUBSET up, ConnectionLost(lost) PROVE ServerStep
  BY <1>8, ConnectionLostEffect DEF ServerStep
<1>9. CASE StartMatch \/ LaunchTimeout \/ Leave \/ Reconnect
  BY <1>2, <1>9, StartEffect, LaunchTimeoutEffect, LeaveEffect, ReconnectEffect
<1>10. CASE ReceiveUpdate \/ ReceiveError \/ ReceiveSession \/ ReceiveRejected
  BY <1>2, <1>10, UpdateEffect, ReceiveErrorEffect, ReceiveSessionEffect, RejectedEffect
<1>11. ASSUME NEW kind \in QueueKind, SendCommand(kind) PROVE ServerStep
  BY <1>2, <1>11, SendEffect
<1>12. ASSUME NEW m \in up, RateLimited(m) PROVE ServerStep
  BY <1>2, <1>12, RateLimitedEffect
<1>13. CASE Serialize
  BY <1>1, <1>13, SerializeEffect
<1>14. ASSUME NEW v \in taken, Emit(v) PROVE ServerStep
  BY <1>1, <1>14, EmitEffect
<1>15. CASE UNCHANGED clientVars
  BY <1>2, <1>15, RestEffect
<1> QED BY <1>3, <1>4, <1>5, <1>6, <1>7, <1>8, <1>9, <1>10, <1>11, <1>12, <1>13, <1>14, <1>15
        DEF ClientNext, Handled, OtherMoved

LEMMA FaithfulKept ==
  ASSUME Typed, Typed', ServerStep, NEW v \in ViewType, Faithful(v)
  PROVE  FaithfulTo(server', v)
<1>1. v.match \in Nat /\ v.rev \in Nat
  BY ClientAssumption DEF ViewType
<1>2. /\ server.match \in Nat /\ server.rev \in Nat /\ (IsOver(server) \/ server.phase = server.made)
      /\ server'.match \in Nat /\ server'.rev \in Nat
  BY ServerFields, ClientAssumption DEF Typed, ServerTyped, ServerType, ServerRecord, IsOver
<1>3. CASE SameBoard /\ server'.phase = server.phase
  BY <1>3 DEF Faithful, FaithfulTo, SameBoard, SameMark, IsOver
<1>4. CASE SameBoard /\ Live /\ IsOver(server')
  BY <1>2, <1>4 DEF Faithful, FaithfulTo, SameBoard, SameMark, Live
<1>5. CASE Live /\ server'.match = server.match /\ server'.rev = server.rev + 1
  BY <1>1, <1>2, <1>5 DEF Faithful, FaithfulTo, Live
<1>6. CASE server'.match = server.match + 1 /\ server'.rev = 0
  BY <1>1, <1>2, <1>6 DEF Faithful, FaithfulTo
<1> QED BY <1>3, <1>4, <1>5, <1>6 DEF ServerStep

LEMMA PastKept ==
  ASSUME Typed, Typed', ServerStep, NEW c, c.match \in Nat, c.rev \in Nat, Past(c)
  PROVE  PastFor(server', c)
<1>1. /\ server.match \in Nat /\ server.rev \in Nat
      /\ server'.match \in Nat /\ server'.rev \in Nat
  BY ServerFields, ClientAssumption DEF Typed, ServerTyped, ServerType, ServerRecord, IsOver
<1> QED BY <1>1 DEF ServerStep, SameBoard, SameMark, Past, PastFor

OnWire == taken \cup {down[i].view : i \in Updates}

\* A shorter queue is the old one, shifted.
Shifted(k) ==
    \A i \in DOMAIN down' : i \in Nat /\ i + k \in DOMAIN down /\ down'[i] = down[i + k]

LEMMA DownIsLess ==
  ASSUME Typed, DownLess
  PROVE  /\ \E k \in {0, 1} : Shifted(k)
         /\ down' = Tail(down) /\ down # <<>> =>
               Shifted(1) /\ \A j \in DOMAIN down : j # 1 => j - 1 \in DOMAIN down'
<1>1. down \in Seq(NoteType) /\ \A i \in DOMAIN down : i \in Nat
  BY DEF Typed, DownTyped
<1>2. CASE down' = down \/ down' = <<>>
  BY <1>1, <1>2 DEF Shifted
<1>3. CASE down # <<>> /\ down' = Tail(down)
  <2>1. Shifted(1) /\ \A j \in DOMAIN down : j # 1 => j - 1 \in DOMAIN down'
    BY <1>3, HeadNote DEF Shifted
  <2> QED BY <1>3, <2>1
<1> QED BY <1>2, <1>3 DEF DownLess

LEMMA DownIsMore ==
  ASSUME Typed, NEW n \in NoteType, down' = Append(down, n)
  PROVE  /\ DOMAIN down' = DOMAIN down \cup {Len(down) + 1} /\ Len(down) + 1 \notin DOMAIN down
         /\ \A i \in DOMAIN down : i \in Nat /\ down'[i] = down[i]
         /\ down'[Len(down) + 1] = n /\ Len(down) \in Nat
  BY AppendOf DEF Typed, DownTyped

\* Nothing new but a note that shows nothing.
LEMMA ViewsOnWire ==
  ASSUME Typed, DownLess \/ \E n \in NoteType : n.kind # "update" /\ down' = Append(down, n)
  PROVE  \A i \in Updates' : down'[i].view \in OnWire
<1>1. CASE DownLess
  <2>1. PICK k \in {0, 1} : Shifted(k)
    BY <1>1, DownIsLess
  <2> QED BY <2>1 DEF Shifted, Updates, OnWire
<1>2. ASSUME NEW n \in NoteType, n.kind # "update", down' = Append(down, n)
      PROVE  \A i \in Updates' : down'[i].view \in OnWire
  <2>1. /\ DOMAIN down' = DOMAIN down \cup {Len(down) + 1}
        /\ \A i \in DOMAIN down : down'[i] = down[i]
        /\ down'[Len(down) + 1] = n
    BY <1>2, DownIsMore
  <2> QED BY <1>2, <2>1 DEF Updates, OnWire
<1> QED BY <1>1, <1>2

LEMMA WireViewsTyped ==
  ASSUME Typed
  PROVE  /\ OnWire \subseteq ViewType
         /\ \A i \in Updates : down[i].view \in ViewType
         /\ \A i \in DOMAIN down : down[i] \in NoteType /\ i \in Nat
<1>1. \A i \in DOMAIN down : down[i] \in NoteType /\ i \in Nat
  BY DEF Typed, DownTyped
<1>2. \A i \in Updates : down[i].view \in ViewType
  BY <1>1, NoteFields DEF Updates
<1> QED BY <1>1, <1>2, RestTyped DEF OnWire

LEMMA ReplyOnWire ==
  ASSUME Typed, NEW m, NEW n \in NoteType, n.kind # "update", Reply(m, n)
  PROVE  \A i \in Updates' : down'[i].view \in OnWire
<1>1. down' = down \/ down' = Append(down, n)
  BY DEF Reply
<1> QED BY <1>1, ViewsOnWire DEF DownLess

\* Every snapshot on the wire was there before, but the one just serialized.
LEMMA WireStep ==
  ASSUME Typed, [ClientNext]_clientVars
  PROVE  /\ \A i \in Updates' : down'[i].view \in OnWire
         /\ \/ taken' \subseteq taken
            \/ server' = server /\ taken' = taken \cup {View}
<1> DEFINE Goal == /\ \A i \in Updates' : down'[i].view \in OnWire
                   /\ \/ taken' \subseteq taken
                      \/ server' = server /\ taken' = taken \cup {View}
<1> SUFFICES Goal
  OBVIOUS
<1>1. ServerRests /\ DownLess => Goal
  BY ViewsOnWire DEF ServerRests
<1>2. Apart => Goal
  BY ViewsOnWire DEF Apart, DownLess
<1>3. ASSUME NEW m \in up, Handled(m) PROVE Goal
  <2>1. taken' = taken
    BY <1>3, CommandOutcome
  <2>2. CASE CommandApplied(m)
    <3>1. CpuError(m).kind # "update" /\ CpuError(m) \in NoteType
      BY NewNotes
    <3> QED BY <2>1, <2>2, <3>1, ViewsOnWire, ReplyOnWire DEF CommandApplied, DownLess
  <2>3. CASE CommandRefused(m)
    <3>1. Error(m).kind # "update" /\ Error(m) \in NoteType
      BY NewNotes
    <3> QED BY <2>1, <2>3, <3>1, ReplyOnWire DEF CommandRefused
  <2> QED BY <1>3, <2>2, <2>3, CommandOutcome
<1>4. ASSUME NEW m \in up, NEW mine \in BOOLEAN, HandleStart(m, mine) PROVE Goal
  <2>1. /\ Error(m).kind # "update" /\ Error(m) \in NoteType
        /\ Grant(server.token + 1).kind # "update" /\ Grant(server.token + 1) \in NoteType
    BY NewNotes, ServerFields
  <2>2. taken' = taken /\ (Reply(m, Error(m)) \/ Reply(m, Grant(server.token + 1)))
    BY <1>4, StartOutcome DEF Started
  <2> QED BY <2>1, <2>2, ReplyOnWire
<1>5. ASSUME NEW m \in up, HandleResume(m) PROVE Goal
  <2>1. /\ [kind |-> "rejected"] \in NoteType /\ [kind |-> "rejected"].kind # "update"
        /\ Grant(server.token + 1).kind # "update" /\ Grant(server.token + 1) \in NoteType
    BY NewNotes, ServerFields
  <2>2. taken' = taken /\ (Reply(m, [kind |-> "rejected"]) \/ Reply(m, Grant(server.token + 1)))
    BY <1>5, ResumeOutcome DEF Resumed
  <2> QED BY <2>1, <2>2, ReplyOnWire
<1>6. ASSUME NEW mine \in BOOLEAN, OtherMoved(mine) PROVE Goal
  BY <1>2, <1>6, OthersMoveEffect
<1>7. CASE OpponentConnection \/ NoticeDisconnect \/ Forfeit
  BY <1>2, <1>7, OpponentConnectionEffect, NoticeDisconnectEffect, ForfeitEffect
<1>8. ASSUME NEW lost \in SUBSET up, ConnectionLost(lost) PROVE Goal
  BY <1>8, ConnectionLostEffect, ViewsOnWire DEF DownLess
<1>9. CASE StartMatch \/ LaunchTimeout \/ Leave \/ Reconnect
  <2>1. StartMatch => Goal
    BY <1>1, StartEffect DEF DownLess
  <2>2. LaunchTimeout => Goal
    BY <1>1, LaunchTimeoutEffect DEF DownLess
  <2>3. Leave => Goal
    BY <1>1, LeaveEffect DEF DownLess
  <2>4. Reconnect => Goal
    BY <1>1, ReconnectEffect DEF DownLess
  <2> QED BY <1>9, <2>1, <2>2, <2>3, <2>4
<1>10. CASE ReceiveUpdate \/ ReceiveError \/ ReceiveSession \/ ReceiveRejected
  BY <1>1, <1>10, UpdateEffect, ReceiveErrorEffect, ReceiveSessionEffect, RejectedEffect
  DEF DownLess
<1>11. ASSUME NEW kind \in QueueKind, SendCommand(kind) PROVE Goal
  BY <1>1, <1>11, SendEffect DEF DownLess
<1>12. ASSUME NEW m \in up, RateLimited(m) PROVE Goal
  BY <1>1, <1>12, RateLimitedEffect DEF DownLess
<1>13. CASE Serialize
  BY <1>13, SerializeEffect, ViewsOnWire DEF DownLess
<1>14. ASSUME NEW v \in taken, Emit(v) PROVE Goal
  <2>1. taken' \subseteq taken /\ Update(v) \in NoteType
    BY <1>14, EmitEffect
  <2>2. CASE down' = Append(down, Update(v))
    <3>1. /\ DOMAIN down' = DOMAIN down \cup {Len(down) + 1}
          /\ \A i \in DOMAIN down : down'[i] = down[i]
          /\ down'[Len(down) + 1] = Update(v)
      BY <2>1, <2>2, DownIsMore
    <3> QED BY <2>1, <3>1 DEF Updates, OnWire, Update
  <2>3. CASE down' = down
    BY <2>1, <2>3, ViewsOnWire DEF DownLess
  <2> QED BY <1>14, <2>2, <2>3, EmitEffect
<1>15. CASE UNCHANGED clientVars
  BY <1>1, <1>15, RestEffect DEF DownLess
<1> HIDE DEF Goal
<1> QED BY <1>3, <1>4, <1>5, <1>6, <1>7, <1>8, <1>9, <1>10, <1>11, <1>12, <1>13, <1>14, <1>15
        DEF ClientNext, Handled, OtherMoved

-----------------------------------------------------------------------------
(* What the store remembers and shows *)

\* A match is only forgotten when one is retired, which clears the screen.
LEMMA MemoryStep ==
  ASSUME Typed, [ClientNext]_clientVars
  PROVE  /\ strayed \subseteq strayed'
         /\ \/ SameMemory
            \/ Cleared /\ server' = server /\ strayed' = strayed
               /\ (store'.ignore => store.ignore \/ Leave)
<1> DEFINE Goal == /\ strayed \subseteq strayed'
                   /\ \/ SameMemory
                      \/ Cleared /\ server' = server /\ strayed' = strayed
                         /\ (store'.ignore => store.ignore \/ Leave)
<1> SUFFICES Goal
  OBVIOUS
<1>1. store' = store /\ strayed' = strayed => Goal
  BY DEF SameMemory
<1>2. SameScreen /\ strayed' = strayed => Goal
  BY DEF SameScreen
<1>3. ASSUME NEW m \in up, Handled(m) PROVE Goal
  BY <1>1, <1>3, CommandOutcome
<1>4. ASSUME NEW m \in up, NEW mine \in BOOLEAN, HandleStart(m, mine) PROVE Goal
  BY <1>1, <1>4, StartOutcome
<1>5. ASSUME NEW m \in up, HandleResume(m) PROVE Goal
  BY <1>1, <1>5, ResumeOutcome
<1>6. ASSUME NEW mine \in BOOLEAN, OtherMoved(mine) PROVE Goal
  BY <1>1, <1>6, OthersMoveEffect DEF Apart
<1>7. CASE OpponentConnection \/ NoticeDisconnect \/ Forfeit
  BY <1>1, <1>7, OpponentConnectionEffect, NoticeDisconnectEffect, ForfeitEffect DEF Apart
<1>8. ASSUME NEW lost \in SUBSET up, ConnectionLost(lost) PROVE Goal
  BY <1>8, ConnectionLostEffect
<1>9. CASE StartMatch
  BY <1>9, StartEffect DEF ServerRests
<1>10. CASE Leave
  BY <1>10, LeaveEffect DEF ServerRests
<1>11. CASE ReceiveRejected
  BY <1>11, RejectedEffect DEF ServerRests
<1>12. CASE LaunchTimeout \/ ReceiveError \/ ReceiveSession
  BY <1>2, <1>12, LaunchTimeoutEffect, ReceiveErrorEffect, ReceiveSessionEffect
<1>13. CASE Reconnect
  BY <1>13, ReconnectEffect
<1>14. CASE ReceiveUpdate
  <2>1. strayed \subseteq strayed'
    BY <1>14, UpdateEffect
  <2>2. SameMemory
    BY <1>14, UpdateEffect DEF Accepted, SameMemory
  <2> QED BY <2>1, <2>2
<1>15. ASSUME NEW kind \in QueueKind, SendCommand(kind) PROVE Goal
  BY <1>2, <1>15, SendEffect
<1>16. ASSUME NEW m \in up, RateLimited(m) PROVE Goal
  BY <1>1, <1>16, RateLimitedEffect
<1>17. CASE Serialize
  BY <1>1, <1>17, SerializeEffect
<1>18. ASSUME NEW v \in taken, Emit(v) PROVE Goal
  BY <1>1, <1>18, EmitEffect
<1>19. CASE UNCHANGED clientVars
  BY <1>1, <1>19, RestEffect
<1> HIDE DEF Goal
<1> QED BY <1>3, <1>4, <1>5, <1>6, <1>7, <1>8, <1>9, <1>10, <1>11, <1>12, <1>13, <1>14, <1>15,
           <1>16, <1>17, <1>18, <1>19
        DEF ClientNext, Handled, OtherMoved

\* A snapshot is shown that was in the queue, or the one before, or none.
LEMMA ViewStep ==
  ASSUME Typed, [ClientNext]_clientVars
  PROVE  \/ store'.view = store.view
         \/ Cleared
         \/ ReceiveUpdate /\ Accepted(down[1].view) /\ ~Ignored(down[1].view)
<1> DEFINE Goal == \/ store'.view = store.view
                   \/ Cleared
                   \/ ReceiveUpdate /\ Accepted(down[1].view) /\ ~Ignored(down[1].view)
<1> SUFFICES Goal
  OBVIOUS
<1>1. store' = store => Goal
  OBVIOUS
<1>2. SameScreen => Goal
  BY DEF SameScreen
<1>3. ASSUME NEW m \in up, Handled(m) PROVE Goal
  BY <1>1, <1>3, CommandOutcome
<1>4. ASSUME NEW m \in up, NEW mine \in BOOLEAN, HandleStart(m, mine) PROVE Goal
  BY <1>1, <1>4, StartOutcome
<1>5. ASSUME NEW m \in up, HandleResume(m) PROVE Goal
  BY <1>1, <1>5, ResumeOutcome
<1>6. ASSUME NEW mine \in BOOLEAN, OtherMoved(mine) PROVE Goal
  BY <1>1, <1>6, OthersMoveEffect DEF Apart
<1>7. CASE OpponentConnection \/ NoticeDisconnect \/ Forfeit
  BY <1>1, <1>7, OpponentConnectionEffect, NoticeDisconnectEffect, ForfeitEffect DEF Apart
<1>8. ASSUME NEW lost \in SUBSET up, ConnectionLost(lost) PROVE Goal
  BY <1>8, ConnectionLostEffect
<1>9. CASE StartMatch \/ Leave \/ ReceiveRejected
  BY <1>9, StartEffect, LeaveEffect, RejectedEffect
<1>12. CASE LaunchTimeout \/ ReceiveError \/ ReceiveSession
  BY <1>2, <1>12, LaunchTimeoutEffect, ReceiveErrorEffect, ReceiveSessionEffect
<1>13. CASE Reconnect
  BY <1>13, ReconnectEffect
<1>14. CASE ReceiveUpdate
  BY <1>1, <1>14, UpdateEffect
<1>15. ASSUME NEW kind \in QueueKind, SendCommand(kind) PROVE Goal
  BY <1>2, <1>15, SendEffect
<1>16. ASSUME NEW m \in up, RateLimited(m) PROVE Goal
  BY <1>1, <1>16, RateLimitedEffect
<1>17. CASE Serialize
  BY <1>1, <1>17, SerializeEffect
<1>18. ASSUME NEW v \in taken, Emit(v) PROVE Goal
  BY <1>1, <1>18, EmitEffect
<1>19. CASE UNCHANGED clientVars
  BY <1>1, <1>19, RestEffect
<1> HIDE DEF Goal
<1> QED BY <1>3, <1>4, <1>5, <1>6, <1>7, <1>8, <1>9, <1>12, <1>13, <1>14, <1>15,
           <1>16, <1>17, <1>18, <1>19
        DEF ClientNext, Handled, OtherMoved

\* The store does not come back to the server's match once it turned away: were
\* it forgotten, an older match would be shown and it had been turned away from.
LEMMA TurnedStays ==
  ASSUME Typed, ViewsFaithful, Listening, [ClientNext]_clientVars,
         server'.match = server.match, Turned(server.match)
  PROVE  Turned(server.match)'
<1>1. strayed \subseteq strayed'
  BY MemoryStep
<1>2. CASE server.match \in strayed
  BY <1>1, <1>2 DEF Turned
<1>3. CASE server.match \notin strayed
  <2>1. Retired(server.match)
    BY <1>3 DEF Turned
  <2>2. CASE SameMemory
    BY <2>1, <2>2 DEF SameMemory, Retired, Turned
  <2>3. CASE Cleared
    <3>1. CASE store.view = NoView
      BY <2>1, <2>3, <3>1, RetireOf DEF Cleared, Retired, Turned
    <3>2. CASE store.view # NoView
      <4>1. /\ store.view.match <= server.match /\ ~Retired(store.view.match)
            /\ OlderShown(store.view.match)
            /\ store.view.match \in Nat /\ server.match \in Nat
        BY <3>2, ShownFields, ServerFields, ClientAssumption
        DEF ViewsFaithful, Faithful, FaithfulTo, Listening
      <4>2. server.match > store.view.match
        BY <2>1, <4>1
      <4> QED BY <1>3, <2>1, <4>1, <4>2 DEF OlderShown, Retired
    <3> QED BY <3>1, <3>2
  <2> QED BY <2>2, <2>3, MemoryStep
<1> QED BY <1>2, <1>3

LEMMA ViewsFaithfulStep ==
  ASSUME Typed, Typed', ViewsFaithful, [ClientNext]_clientVars
  PROVE  ViewsFaithful'
<1>1. \A v \in OnWire : v \in ViewType /\ Faithful(v)
  BY WireViewsTyped DEF OnWire, ViewsFaithful
<1>2. ServerStep
  BY ServerSteps
<1>3. \A v \in OnWire : FaithfulTo(server', v)
  BY <1>1, <1>2, FaithfulKept
<1>4. \A i \in Updates' : FaithfulTo(server', down'[i].view)
  BY <1>3, WireStep
<1>5. \A v \in taken' : FaithfulTo(server', v)
  <2>1. CASE taken' \subseteq taken
    BY <1>3, <2>1 DEF OnWire
  <2>2. CASE server' = server /\ taken' = taken \cup {View}
    <3>1. FaithfulTo(server', View)
      BY <2>2, ServerFields, ClientAssumption DEF FaithfulTo, View, IsOver
    <3> QED BY <1>3, <2>2, <3>1 DEF OnWire
  <2> QED BY <2>1, <2>2, WireStep
<1>6. store'.view # NoView => FaithfulTo(server', store'.view)
  <2>1. CASE store'.view = store.view
    <3>1. store.view # NoView => Faithful(store.view) /\ store.view \in ViewType
      BY ShownFields DEF ViewsFaithful
    <3> QED BY <1>2, <2>1, <3>1, FaithfulKept
  <2>2. CASE Cleared
    BY <2>2 DEF Cleared
  <2>3. CASE ReceiveUpdate /\ Accepted(down[1].view)
    <3>1. store'.view = down[1].view /\ down[1].view \in OnWire
      BY <2>3, UpdateEffect DEF Accepted, OnWire
    <3> QED BY <1>3, <3>1
  <2> QED BY <2>1, <2>2, <2>3, ViewStep
<1> QED BY <1>4, <1>5, <1>6 DEF ViewsFaithful, Faithful

-----------------------------------------------------------------------------
(* What the store sends and hears of *)

\* A message tells of nothing that had not come; a surrender leaves its match.
Sent(m) ==
    /\ server' = server /\ Past(m)
    /\ m.kind = "surrender" => store.view # NoView /\ m.match = store.view.match /\ Cleared

LEMMA MessagePast ==
  ASSUME Typed, ViewsFaithful, NEW m, m.rev = 0 \/ (store.view # NoView /\ m.rev = store.view.rev),
         store.view = NoView => m.match = 0,
         store.view # NoView => m.match = store.view.match
  PROVE  Past(m)
<1>1. server.match \in Nat /\ server.rev \in Nat
  BY ServerFields, ClientAssumption
<1>2. CASE store.view = NoView
  BY <1>1, <1>2 DEF Past, PastFor
<1>3. CASE store.view # NoView
  BY <1>1, <1>3, ShownFields, ClientAssumption
  DEF ViewsFaithful, Faithful, FaithfulTo, Past, PastFor
<1> QED BY <1>2, <1>3

\* A command in flight keeps its match on the screen until it is answered.
LEMMA ConfirmsShown ==
  ASSUME Typed, InFlight, NEW v, ~Ignored(v), store.pending # NoCommand,
         v.match = store.pending.match
  PROVE  /\ store.view # NoView /\ store.view.match = v.match
         /\ store.view.rev = store.pending.rev
  BY DEF InFlight, Ignored

LEMMA SentStep ==
  ASSUME Typed, ViewsFaithful, InFlight, [ClientNext]_clientVars
  PROVE  \A m \in up' \ up : Sent(m)
<1> DEFINE Goal == \A m \in up' \ up : Sent(m)
<1> SUFFICES Goal
  OBVIOUS
<1>1. up' \subseteq up => Goal
  OBVIOUS
<1>2. 0 \in 0 .. MaxRevision /\ (store.view # NoView => store.view.rev \in 0 .. MaxRevision)
  BY ClientAssumption, ShownFields
<1>3. ASSUME NEW m \in up, Handled(m) PROVE Goal
  BY <1>1, <1>3, CommandOutcome
<1>4. ASSUME NEW m \in up, NEW mine \in BOOLEAN, HandleStart(m, mine) PROVE Goal
  BY <1>1, <1>4, StartOutcome
<1>5. ASSUME NEW m \in up, HandleResume(m) PROVE Goal
  BY <1>1, <1>5, ResumeOutcome
<1>6. ASSUME NEW mine \in BOOLEAN, OtherMoved(mine) PROVE Goal
  BY <1>1, <1>6, OthersMoveEffect DEF Apart
<1>7. CASE OpponentConnection \/ NoticeDisconnect \/ Forfeit
  BY <1>1, <1>7, OpponentConnectionEffect, NoticeDisconnectEffect, ForfeitEffect DEF Apart
<1>8. ASSUME NEW lost \in SUBSET up, ConnectionLost(lost) PROVE Goal
  BY <1>1, <1>8, ConnectionLostEffect
<1>9. CASE StartMatch
  <2> DEFINE m == Message("start", 0)
  <2>1. /\ m.kind = "start" /\ m.rev = 0
        /\ store.view = NoView => m.match = 0
        /\ store.view # NoView => m.match = store.view.match
    BY <1>2, SentMessage
  <2>2. up' = up \cup {m} /\ server' = server
    BY <1>9, StartEffect DEF ServerRests
  <2> HIDE DEF m
  <2> QED BY <2>1, <2>2, MessagePast DEF Sent
<1>10. CASE Leave
  <2> DEFINE m == Message("surrender", store.view.rev)
  <2>1. up' \subseteq up \cup {m} /\ server' = server /\ Cleared /\ store.view # NoView
    BY <1>10, LeaveEffect DEF ServerRests
  <2>2. m.rev = store.view.rev /\ m.match = store.view.match
    BY <1>2, <2>1, SentMessage
  <2> HIDE DEF m
  <2> QED BY <2>1, <2>2, MessagePast DEF Sent
<1>11. CASE Reconnect
  <2>1. /\ Resume.kind = "resume" /\ Resume.rev = 0
        /\ store.view = NoView => Resume.match = 0
        /\ store.view # NoView => Resume.match = store.view.match
        /\ up' \subseteq up \cup {Resume} /\ server' = server
    BY <1>11, ReconnectEffect DEF ServerRests
  <2> QED BY <2>1, MessagePast DEF Sent
<1>12. CASE LaunchTimeout \/ ReceiveError \/ ReceiveSession \/ ReceiveRejected
  BY <1>1, <1>12, LaunchTimeoutEffect, ReceiveErrorEffect, ReceiveSessionEffect, RejectedEffect
<1>14. CASE ReceiveUpdate
  <2> DEFINE v == down[1].view
             m == Message("confirm", v.rev)
  <2>1. /\ v \in ViewType /\ 1 \in Updates /\ server' = server
        /\ Ignored(v) => up' = up
        /\ ~Ignored(v) => Accepted(v)
    BY <1>14, UpdateEffect DEF ServerRests
  <2>2. Faithful(v)
    BY <2>1 DEF ViewsFaithful
  <2>3. CASE ~Ignored(v) /\ Confirms(v) /\ up' = up \cup {m}
    <3>1. store.view # NoView /\ store.view.match = v.match
      BY <2>3, ConfirmsShown DEF Confirms, Answers
    <3>2. "confirm" \in QueueKind /\ v.rev \in 0 .. MaxRevision
      BY <2>1 DEF QueueKind, ViewType
    <3>3. m.kind = "confirm" /\ m.rev = v.rev /\ m.match = v.match
      BY <3>1, <3>2, SentMessage
    <3> HIDE DEF m, v
    <3>4. Past(m)
      BY <2>2, <3>3 DEF Past, PastFor, Faithful, FaithfulTo
    <3> QED BY <2>1, <2>3, <3>3, <3>4 DEF Sent
  <2>4. CASE up' = up
    BY <2>4
  <2> QED BY <2>1, <2>3, <2>4 DEF Accepted
<1>15. ASSUME NEW kind \in QueueKind, SendCommand(kind) PROVE Goal
  <2> DEFINE m == Message(kind, store.view.rev)
  <2>1. up' = up \cup {m} /\ server' = server /\ store.view # NoView
    BY <1>15, SendEffect DEF ServerRests
  <2>2. m.kind = kind /\ m.rev = store.view.rev /\ m.match = store.view.match
    BY <1>2, <2>1, SentMessage
  <2> HIDE DEF m
  <2>3. kind # "surrender"
    BY DEF QueueKind
  <2> QED BY <2>1, <2>2, <2>3, MessagePast DEF Sent
<1>16. ASSUME NEW m \in up, RateLimited(m) PROVE Goal
  BY <1>1, <1>16, RateLimitedEffect
<1>17. CASE Serialize
  BY <1>1, <1>17, SerializeEffect
<1>18. ASSUME NEW v \in taken, Emit(v) PROVE Goal
  BY <1>1, <1>18, EmitEffect
<1>19. CASE UNCHANGED clientVars
  BY <1>1, <1>19, RestEffect
<1> HIDE DEF Goal
<1> QED BY <1>3, <1>4, <1>5, <1>6, <1>7, <1>8, <1>9, <1>10, <1>11, <1>12, <1>14, <1>15,
           <1>16, <1>17, <1>18, <1>19
        DEF ClientNext, Handled, OtherMoved

\* What an error answers was sent.
OldError(n) == \E j \in Errors : n = down[j]
Refusal(n) ==
    \E m \in up : n.kind = "error" /\ n.to.rev = m.rev /\ n.to.match = m.match

LEMMA ErrorsLess ==
  ASSUME Typed, DownLess
  PROVE  \A i \in Errors' : OldError(down'[i])
<1>1. PICK k \in {0, 1} : Shifted(k)
  BY DownIsLess
<1> QED BY <1>1 DEF Shifted, Errors, OldError

LEMMA ErrorsMore ==
  ASSUME Typed, NEW n \in NoteType, down' = down \/ down' = Append(down, n)
  PROVE  \A i \in Errors' : OldError(down'[i]) \/ (n.kind = "error" /\ down'[i] = n)
<1>1. CASE down' = down
  BY <1>1 DEF Errors, OldError
<1>2. CASE down' = Append(down, n)
  <2>1. /\ DOMAIN down' = DOMAIN down \cup {Len(down) + 1}
        /\ \A i \in DOMAIN down : down'[i] = down[i]
        /\ down'[Len(down) + 1] = n
    BY <1>2, DownIsMore
  <2> QED BY <2>1 DEF Errors, OldError
<1> QED BY <1>1, <1>2

LEMMA ErrorStep ==
  ASSUME Typed, [ClientNext]_clientVars
  PROVE  \A i \in Errors' : OldError(down'[i]) \/ Refusal(down'[i])
<1> DEFINE Goal == \A i \in Errors' : OldError(down'[i]) \/ Refusal(down'[i])
<1> SUFFICES Goal
  OBVIOUS
<1>1. DownLess => Goal
  BY ErrorsLess
<1>2. down' = down => Goal
  BY <1>1 DEF DownLess
<1>3. ASSUME NEW m \in up, Reply(m, Error(m)) PROVE Goal
  <2>1. /\ Error(m) \in NoteType /\ Error(m).kind = "error" /\ Error(m).to = Identity(m)
        /\ down' = down \/ down' = Append(down, Error(m))
    BY <1>3, NewNotes DEF Reply
  <2>2. Identity(m).rev = m.rev /\ Identity(m).match = m.match
    BY MessageFields
  <2> QED BY <2>1, <2>2, ErrorsMore DEF Refusal
<1>4. ASSUME NEW m \in up, NEW n \in NoteType, n.kind # "error", Reply(m, n) PROVE Goal
  <2>1. down' = down \/ down' = Append(down, n)
    BY <1>4 DEF Reply
  <2> QED BY <1>4, <2>1, ErrorsMore
<1>5. /\ [kind |-> "rejected"] \in NoteType /\ [kind |-> "rejected"].kind # "error"
      /\ Grant(server.token + 1).kind # "error" /\ Grant(server.token + 1) \in NoteType
  BY NewNotes, ServerFields
<1> HIDE DEF Goal
<1>6. ASSUME NEW m \in up, Handled(m) PROVE Goal
  <2>1. ASSUME Reply(m, CpuError(m)) PROVE Goal
    <3>1. /\ CpuError(m) \in NoteType /\ CpuError(m).kind = "error"
          /\ CpuError(m).to.rev = m.rev /\ CpuError(m).to.match = m.match
          /\ down' = down \/ down' = Append(down, CpuError(m))
      BY <2>1, NewNotes DEF Reply
    <3> QED BY <3>1, ErrorsMore DEF Goal, Refusal
  <2> QED BY <1>2, <1>3, <1>6, <2>1, CommandOutcome DEF CommandApplied, CommandRefused
<1>7. ASSUME NEW m \in up, NEW mine \in BOOLEAN, HandleStart(m, mine) PROVE Goal
  BY <1>3, <1>4, <1>5, <1>7, StartOutcome DEF Started
<1>8. ASSUME NEW m \in up, HandleResume(m) PROVE Goal
  BY <1>4, <1>5, <1>8, ResumeOutcome DEF Resumed
<1>9. ASSUME NEW mine \in BOOLEAN, OtherMoved(mine) PROVE Goal
  BY <1>2, <1>9, OthersMoveEffect DEF Apart
<1>10. OpponentConnection \/ NoticeDisconnect \/ Forfeit => Goal
  BY <1>2, OpponentConnectionEffect, NoticeDisconnectEffect, ForfeitEffect DEF Apart
<1>11. ASSUME NEW lost \in SUBSET up, ConnectionLost(lost) PROVE Goal
  BY <1>1, <1>11, ConnectionLostEffect DEF DownLess
<1>12. StartMatch => Goal
  BY <1>2, StartEffect
<1>13. Leave => Goal
  BY <1>2, LeaveEffect
<1>14. Reconnect \/ LaunchTimeout => Goal
  BY <1>2, ReconnectEffect, LaunchTimeoutEffect
<1>15. ReceiveUpdate \/ ReceiveError \/ ReceiveSession \/ ReceiveRejected => Goal
  BY <1>1, UpdateEffect, ReceiveErrorEffect, ReceiveSessionEffect, RejectedEffect DEF DownLess
<1>16. ASSUME NEW kind \in QueueKind, SendCommand(kind) PROVE Goal
  BY <1>2, <1>16, SendEffect
<1>17. ASSUME NEW m \in up, RateLimited(m) PROVE Goal
  BY <1>2, <1>17, RateLimitedEffect
<1>18. Serialize => Goal
  BY <1>2, SerializeEffect
<1>19. ASSUME NEW v \in taken, Emit(v) PROVE Goal
  <2>1. /\ Update(v) \in NoteType /\ Update(v).kind # "error"
        /\ down' = down \/ down' = Append(down, Update(v))
    BY <1>19, EmitEffect DEF Update
  <2> QED BY <2>1, ErrorsMore DEF Goal
<1>20. UNCHANGED clientVars => Goal
  BY <1>2, RestEffect
<1> QED BY <1>6, <1>7, <1>8, <1>9, <1>10, <1>11, <1>12, <1>13, <1>14, <1>15, <1>16, <1>17,
           <1>18, <1>19, <1>20
        DEF ClientNext, Handled, OtherMoved

LEMMA ForeignStep ==
  ASSUME Typed, server.foreign <= server.rev, [ClientNext]_clientVars
  PROVE  server'.foreign <= server'.rev
<1> DEFINE Goal == server'.foreign <= server'.rev
<1> SUFFICES Goal
  OBVIOUS
<1>1. server.foreign \in Nat /\ server.rev \in Nat
  BY ServerFields, ClientAssumption
<1>2. server' = server => Goal
  OBVIOUS
<1>3. ServerRests => Goal
  BY DEF ServerRests
<1>4. ASSUME NEW m \in up, Handled(m) PROVE Goal
  BY <1>1, <1>4, CommandOutcome, AppliedStep DEF CommandRefused
<1>5. ASSUME NEW m \in up, NEW mine \in BOOLEAN, HandleStart(m, mine) PROVE Goal
  BY <1>5, StartOutcome DEF Started
<1>6. ASSUME NEW m \in up, HandleResume(m) PROVE Goal
  BY <1>6, ResumeOutcome DEF Resumed
<1>7. ASSUME NEW mine \in BOOLEAN, OtherMoved(mine) PROVE Goal
  BY <1>1, <1>7, OthersMoveEffect
<1>8. OpponentConnection \/ NoticeDisconnect \/ Forfeit => Goal
  BY OpponentConnectionEffect, NoticeDisconnectEffect, ForfeitEffect DEF Unmoved
<1>9. ASSUME NEW lost \in SUBSET up, ConnectionLost(lost) PROVE Goal
  <2>1. server'.foreign = server.rev /\ server'.rev = server.rev
    BY <1>9, ConnectionLostEffect DEF SameBoard, SameMark
  <2> QED BY <1>1, <2>1
<1> HIDE DEF Goal
<1>10. StartMatch => Goal
  BY <1>3, StartEffect
<1>11. Leave => Goal
  BY <1>3, LeaveEffect
<1>12. Reconnect \/ LaunchTimeout => Goal
  BY <1>3, ReconnectEffect, LaunchTimeoutEffect
<1>13. ReceiveUpdate \/ ReceiveError \/ ReceiveSession \/ ReceiveRejected => Goal
  BY <1>3, UpdateEffect, ReceiveErrorEffect, ReceiveSessionEffect, RejectedEffect
<1>14. ASSUME NEW kind \in QueueKind, SendCommand(kind) PROVE Goal
  BY <1>3, <1>14, SendEffect
<1>15. ASSUME NEW m \in up, RateLimited(m) PROVE Goal
  BY <1>3, <1>15, RateLimitedEffect
<1>16. Serialize => Goal
  BY <1>2, SerializeEffect
<1>17. ASSUME NEW v \in taken, Emit(v) PROVE Goal
  BY <1>2, <1>17, EmitEffect
<1>18. UNCHANGED clientVars => Goal
  BY <1>3, RestEffect
<1> QED BY <1>4, <1>5, <1>6, <1>7, <1>8, <1>9, <1>10, <1>11, <1>12, <1>13, <1>14, <1>15,
           <1>16, <1>17, <1>18
        DEF ClientNext, Handled, OtherMoved

\* A surrender that is still on its way is of a match the store turned away from.
LEMMA SurrenderStep ==
  ASSUME Typed, Typed', ViewsFaithful, Listening, InFlight, [ClientNext]_clientVars,
         NEW m \in up', m.kind = "surrender", m.match = server'.match
  PROVE  Turned(server.match)' /\ (m \in up => server'.match = server.match)
<1>1. server.match \in Nat /\ server'.match \in Nat
  BY ServerFields, ClientAssumption DEF Typed, ServerTyped, ServerType, ServerRecord, IsOver
<1>2. CASE m \in up
  <2>1. server'.match = server.match
    <3>1. m.match <= server.match
      BY <1>2 DEF Listening, Past, PastFor
    <3>2. ServerStep
      BY ServerSteps
    <3>3. server'.match = server.match \/ server'.match = server.match + 1
      BY <3>2 DEF ServerStep, SameBoard, SameMark
    <3> QED BY <1>1, <3>1, <3>3
  <2> QED BY <1>2, <2>1, TurnedStays DEF Listening
<1>3. CASE m \notin up
  <2>1. server' = server /\ store.view # NoView /\ m.match = store.view.match /\ Cleared
    BY <1>3, SentStep DEF Sent
  <2> QED BY <1>3, <2>1, RetireOf DEF Cleared, Turned, Retired
<1> QED BY <1>2, <1>3

LEMMA WatchedStep ==
  ASSUME Typed, Typed', ViewsFaithful, Listening, InFlight, [ClientNext]_clientVars
  PROVE  Listening'
<1>1. ServerStep
  BY ServerSteps
<1>2. \A m \in up' : PastFor(server', m)
  <2>1. ASSUME NEW m \in up' PROVE PastFor(server', m)
    <3>1. CASE m \in up
      <4>1. m.match \in Nat /\ m.rev \in Nat
        BY <3>1, MessageFields, ClientAssumption
      <4> QED BY <1>1, <3>1, <4>1, PastKept DEF Listening
    <3>2. CASE m \notin up
      BY <3>2, SentStep DEF Sent, Past
    <3> QED BY <3>1, <3>2
  <2> QED BY <2>1
<1>3. \A i \in Errors' : PastFor(server', down'[i].to)
  <2>1. ASSUME NEW i \in Errors' PROVE PastFor(server', down'[i].to)
    <3>1. CASE OldError(down'[i])
      <4>1. PICK j \in Errors : down'[i] = down[j]
        BY <3>1 DEF OldError
      <4>2. down[j].to.match \in Nat /\ down[j].to.rev \in Nat
        BY WireViewsTyped, NoteFields, ClientAssumption DEF Errors
      <4> QED BY <1>1, <4>1, <4>2, PastKept DEF Listening
    <3>2. CASE Refusal(down'[i])
      <4>1. PICK m \in up : down'[i].to.rev = m.rev /\ down'[i].to.match = m.match
        BY <3>2 DEF Refusal
      <4>2. Past(m)
        BY DEF Listening
      <4>3. m.match \in Nat /\ m.rev \in Nat
        BY MessageFields, ClientAssumption
      <4>4. PastFor(server', m)
        BY <1>1, <4>2, <4>3, PastKept
      <4> QED BY <4>1, <4>4 DEF PastFor
    <3> QED BY <3>1, <3>2, ErrorStep
  <2> QED BY <2>1
<1>4. \A m \in up' : m.kind = "surrender" /\ m.match = server'.match => Turned(server.match)'
  BY SurrenderStep
<1>5. store'.ignore => store'.view = NoView
  <2>1. CASE Cleared
    BY <2>1 DEF Cleared
  <2>2. CASE ~Cleared
    <3>1. store'.ignore = store.ignore
      BY <2>2, MemoryStep DEF SameMemory
    <3> QED BY <2>2, <3>1, ViewStep DEF Listening, Ignored
  <2> QED BY <2>1, <2>2
<1>6. store'.view # NoView => ~Retired(store.view.match)' /\ OlderShown(store.view.match)'
  <2> SUFFICES ASSUME store'.view # NoView
               PROVE  ~Retired(store.view.match)' /\ OlderShown(store.view.match)'
    OBVIOUS
  <2>1. ~Cleared
    BY DEF Cleared
  <2>2. store'.retired = store.retired /\ strayed \subseteq strayed'
    BY <2>1, MemoryStep DEF SameMemory
  <2>3. CASE store'.view = store.view
    BY <2>2, <2>3 DEF Listening, Retired, OlderShown
  <2>4. CASE ReceiveUpdate /\ Accepted(down[1].view) /\ ~Ignored(down[1].view)
    <3> DEFINE v == down[1].view
    <3>1. store'.view = v
      BY <2>4 DEF Accepted
    <3>2. ~Retired(v.match)
      BY <2>4 DEF Ignored
    <3>3. \A r \in ToSet(store.retired) : r > v.match => r \in strayed'
      <4>1. ~store.ignore /\ strayed' = strayed \cup Strays(v)
        BY <2>4, UpdateEffect DEF Ignored
      <4>2. Strays(v) = {match \in Shown : match > v.match}
        BY <2>4, <4>1 DEF Strays
      <4> QED BY <4>1, <4>2 DEF Shown
    <3> HIDE DEF v
    <3> QED BY <2>2, <3>1, <3>2, <3>3 DEF Retired, OlderShown
  <2> QED BY <2>1, <2>3, <2>4, ViewStep
<1>7. server'.foreign <= server'.rev
  BY ForeignStep DEF Listening
<1> QED BY <1>2, <1>3, <1>4, <1>5, <1>6, <1>7 DEF Listening, Past

-----------------------------------------------------------------------------
(* The command in flight *)

SameFlight == SameScreen /\ store'.pending = store.pending
ShowsHead == ReceiveUpdate /\ Accepted(down[1].view) /\ ~Ignored(down[1].view)

LEMMA FlightStep ==
  ASSUME Typed, [ClientNext]_clientVars
  PROVE  \/ SameFlight
         \/ store'.pending = NoCommand
         \/ \E kind \in QueueKind : SendCommand(kind)
         \/ StartMatch \/ Reconnect \/ ShowsHead
<1> DEFINE Goal == \/ SameFlight
                   \/ store'.pending = NoCommand
                   \/ \E kind \in QueueKind : SendCommand(kind)
                   \/ StartMatch \/ Reconnect \/ ShowsHead
<1> SUFFICES Goal
  OBVIOUS
<1>1. store' = store => Goal
  BY DEF SameFlight, SameScreen, SameConnection, SameMemory
<1>2. SameFlight => Goal
  OBVIOUS
<1>3. store'.pending = NoCommand \/ StartMatch \/ Reconnect \/ ShowsHead => Goal
  OBVIOUS
<1>4. ASSUME NEW kind \in QueueKind, SendCommand(kind) PROVE Goal
  BY <1>4
<1> HIDE DEF Goal
<1>5. ASSUME NEW m \in up, Handled(m) PROVE Goal
  BY <1>1, <1>5, CommandOutcome
<1>6. ASSUME NEW m \in up, NEW mine \in BOOLEAN, HandleStart(m, mine) PROVE Goal
  BY <1>1, <1>6, StartOutcome
<1>7. ASSUME NEW m \in up, HandleResume(m) PROVE Goal
  BY <1>1, <1>7, ResumeOutcome
<1>8. ASSUME NEW mine \in BOOLEAN, OtherMoved(mine) PROVE Goal
  BY <1>1, <1>8, OthersMoveEffect DEF Apart
<1>9. OpponentConnection \/ NoticeDisconnect \/ Forfeit => Goal
  BY <1>1, OpponentConnectionEffect, NoticeDisconnectEffect, ForfeitEffect DEF Apart
<1>10. ASSUME NEW lost \in SUBSET up, ConnectionLost(lost) PROVE Goal
  BY <1>3, <1>10, ConnectionLostEffect
<1>11. Leave \/ ReceiveError \/ ReceiveRejected => Goal
  BY <1>3, LeaveEffect, ReceiveErrorEffect, RejectedEffect
<1>12. LaunchTimeout \/ ReceiveSession => Goal
  BY <1>2, LaunchTimeoutEffect, ReceiveSessionEffect DEF SameFlight
<1>13. ReceiveUpdate => Goal
  BY <1>1, <1>3, UpdateEffect DEF ShowsHead
<1>14. ASSUME NEW m \in up, RateLimited(m) PROVE Goal
  BY <1>1, <1>14, RateLimitedEffect
<1>15. Serialize => Goal
  BY <1>1, SerializeEffect
<1>16. ASSUME NEW v \in taken, Emit(v) PROVE Goal
  BY <1>1, <1>16, EmitEffect
<1>17. UNCHANGED clientVars => Goal
  BY <1>1, RestEffect
<1> QED BY <1>3, <1>4, <1>5, <1>6, <1>7, <1>8, <1>9, <1>10, <1>11, <1>12, <1>13, <1>14, <1>15,
           <1>16, <1>17
        DEF ClientNext, Handled, OtherMoved

\* A command that a snapshot does not release is of the revision it shows.
LEMMA KeptPending ==
  ASSUME Typed, InFlight, NEW v \in ViewType, ~Ignored(v), ~Frees(v), store.pending # NoCommand
  PROVE  v.match = store.pending.match /\ v.rev = store.pending.rev
<1>1. v.match = store.pending.match /\ ~(v.rev > store.pending.rev)
  BY DEF Frees, Answers
<1>2. store.view # NoView /\ store.view.match = v.match /\ store.view.rev = store.pending.rev
  BY <1>1, ConfirmsShown
<1>3. v.rev \in Nat /\ store.view.rev \in Nat /\ ~(v.rev < store.view.rev)
  BY <1>2, ShownFields, ClientAssumption DEF Ignored, ViewType
<1> QED BY <1>1, <1>2, <1>3

LEMMA InFlightStep ==
  ASSUME Typed, Typed', ViewsFaithful, Listening, InFlight, [ClientNext]_clientVars
  PROVE  InFlight'
<1> SUFFICES ASSUME store'.pending # NoCommand
             PROVE  /\ store'.online /\ ~store'.ignore
                    /\ Past(store.pending)' /\ OlderShown(store.pending.match)'
                    /\ store'.view # NoView =>
                          /\ store'.view.match = store'.pending.match
                          /\ store'.view.rev = store'.pending.rev
                    /\ store'.view = NoView =>
                          /\ Retired(store.pending.match)'
                          /\ store'.pending.match = server'.match =>
                                IsOver(server') /\ server'.rev = store'.pending.rev
  BY DEF InFlight
<1>1. ServerStep /\ strayed \subseteq strayed'
  BY ServerSteps, MemoryStep
<1>2. /\ server.match \in Nat /\ server.rev \in Nat /\ server'.match \in Nat
      /\ server'.rev \in Nat
  BY ServerFields, ClientAssumption DEF Typed, ServerTyped, ServerType, ServerRecord, IsOver
<1>3. store.pending # NoCommand =>
         /\ store.pending.match \in Nat /\ store.pending.rev \in Nat
         /\ store.online /\ ~store.ignore /\ Past(store.pending)
         /\ OlderShown(store.pending.match)
  BY PendingFields, ClientAssumption DEF InFlight
<1>4. CASE SameFlight
  <2>1. /\ store'.pending = store.pending /\ store'.view = store.view
        /\ store'.online = store.online /\ store'.ignore = store.ignore
        /\ store'.retired = store.retired
    BY <1>4 DEF SameFlight, SameScreen, SameConnection, SameMemory
  <2>2. Past(store.pending)'
    BY <1>1, <1>3, <2>1, PastKept DEF Past
  <2>3. OlderShown(store.pending.match)'
    BY <1>1, <1>3, <2>1 DEF OlderShown
  <2>4. store'.view = NoView =>
           /\ Retired(store.pending.match)'
           /\ store'.pending.match = server'.match =>
                 IsOver(server') /\ server'.rev = store'.pending.rev
    <3> SUFFICES ASSUME store'.view = NoView
                 PROVE  /\ Retired(store.pending.match)'
                        /\ store'.pending.match = server'.match =>
                              IsOver(server') /\ server'.rev = store'.pending.rev
      OBVIOUS
    <3>1. /\ Retired(store.pending.match)
          /\ store.pending.match = server.match => IsOver(server) /\ server.rev = store.pending.rev
      BY <2>1 DEF InFlight
    <3>2. Retired(store.pending.match)'
      BY <2>1, <3>1 DEF Retired
    <3>3. ASSUME store'.pending.match = server'.match
          PROVE  IsOver(server') /\ server'.rev = store'.pending.rev
      <4>1. store.pending.match <= server.match
        BY <1>3, <2>1 DEF Past, PastFor
      <4>2. CASE SameBoard /\ (server'.phase = server.phase \/ IsOver(server'))
        BY <2>1, <3>1, <3>3, <4>2 DEF SameBoard, SameMark, IsOver
      <4>3. CASE Live /\ server'.match = server.match
        BY <2>1, <3>1, <3>3, <4>3 DEF Live
      <4>4. CASE server'.match = server.match + 1
        BY <1>2, <1>3, <2>1, <3>3, <4>1, <4>4
      <4> QED BY <1>1, <4>2, <4>3, <4>4 DEF ServerStep
    <3> QED BY <3>2, <3>3
  <2> QED BY <1>3, <2>1, <2>2, <2>3, <2>4 DEF InFlight
<1>5. ASSUME NEW kind \in QueueKind, SendCommand(kind)
      PROVE  /\ store'.online /\ ~store'.ignore /\ Past(store.pending)'
             /\ OlderShown(store.pending.match)' /\ store'.view # NoView
             /\ store'.view.match = store'.pending.match /\ store'.view.rev = store'.pending.rev
  <2>1. /\ store.view # NoView /\ store.online /\ SameScreen /\ server' = server
        /\ store'.pending.match = store.view.match /\ store'.pending.rev = store.view.rev
    BY <1>5, SendEffect DEF ServerRests
  <2>2. /\ store'.view = store.view /\ store'.online = store.online
        /\ store'.ignore = store.ignore /\ store'.retired = store.retired
    BY <2>1 DEF SameScreen, SameConnection, SameMemory
  <2>3. ~store.ignore /\ OlderShown(store.view.match) /\ Faithful(store.view)
    BY <2>1 DEF Listening, ViewsFaithful
  <2>4. Past(store.pending)'
    BY <2>1, <2>3 DEF Past, PastFor, Faithful, FaithfulTo
  <2>5. OlderShown(store.pending.match)'
    BY <1>1, <2>1, <2>2, <2>3 DEF OlderShown
  <2> QED BY <2>1, <2>2, <2>3, <2>4, <2>5
<1>6. CASE StartMatch
  <2>1. /\ Cleared /\ store'.pending = store.pending /\ ~store'.ignore /\ store.online
        /\ store.view # NoView => IsOver(store.view)
        /\ server' = server
    BY <1>6, StartEffect DEF ServerRests
  <2>2. store'.view = NoView /\ store'.online = store.online /\ store'.retired = Retire
    BY <2>1 DEF Cleared
  <2>3. OlderShown(store.pending.match)'
    BY <1>1, <1>3, <2>1, <2>2, RetireOf DEF OlderShown, InFlight
  <2>4. Retired(store.pending.match)'
    BY <2>1, <2>2, RetireOf DEF InFlight, Retired
  <2>5. store'.pending.match = server'.match => IsOver(server') /\ server'.rev = store'.pending.rev
    <3>1. CASE store.view = NoView
      BY <2>1, <3>1 DEF InFlight
    <3>2. CASE store.view # NoView
      BY <2>1, <3>2 DEF InFlight, ViewsFaithful, Faithful, FaithfulTo
    <3> QED BY <3>1, <3>2
  <2>6. Past(store.pending)'
    BY <1>3, <2>1 DEF Past
  <2> QED BY <2>1, <2>2, <2>3, <2>4, <2>5, <2>6
<1>7. CASE Reconnect
  BY <1>3, <1>7, ReconnectEffect
<1>8. CASE ShowsHead
  <2> DEFINE v == down[1].view
  <2>1. /\ v \in ViewType /\ server' = server /\ Faithful(v) /\ ~Ignored(v) /\ Accepted(v)
        /\ v # NoView
    BY <1>8, UpdateEffect, ClientAssumption DEF ShowsHead, ViewsFaithful, ServerRests
  <2> HIDE DEF v
  <2>2. store.pending # NoCommand
    BY <2>1 DEF Accepted, Confirms
  <2>3. /\ store'.view = v /\ store'.online = store.online /\ store'.ignore = store.ignore
        /\ store'.retired = store.retired
    BY <2>1 DEF Accepted
  <2>4. store'.pending.match = v.match /\ store'.pending.rev = v.rev
        /\ v.match = store.pending.match
    <3>1. CASE /\ Confirms(v)
               /\ store'.pending = [kind |-> "confirm", rev |-> v.rev, match |-> v.match]
      BY <3>1 DEF Confirms, Answers
    <3>2. CASE ~Frees(v) /\ store'.pending = store.pending
      BY <2>1, <2>2, <3>2, KeptPending
    <3> QED BY <2>1, <3>1, <3>2 DEF Accepted
  <2>5. Past(store.pending)'
    BY <2>1, <2>4 DEF Past, PastFor, Faithful, FaithfulTo
  <2>6. OlderShown(store.pending.match)'
    BY <1>1, <1>3, <2>2, <2>3, <2>4 DEF OlderShown
  <2> QED BY <1>3, <2>1, <2>2, <2>3, <2>4, <2>5, <2>6
<1> QED BY <1>4, <1>5, <1>6, <1>7, <1>8, FlightStep

-----------------------------------------------------------------------------
(* The command in flight is answered *)

LEMMA FailingLess ==
  ASSUME Typed, Failing,
         \/ down' = down
         \/ /\ down # <<>> /\ down' = Tail(down)
            /\ down[1].kind # "error" /\ down[1].kind # "rejected"
  PROVE  Failing'
<1>1. PICK j \in DOMAIN down : down[j].kind \in {"error", "rejected"}
  BY DEF Failing
<1>2. CASE down' = down
  BY <1>1, <1>2 DEF Failing
<1>3. CASE down # <<>> /\ down' = Tail(down) /\ j # 1
  <2>1. Shifted(1) /\ j - 1 \in DOMAIN down' /\ j \in Nat
    BY <1>3, DownIsLess, WireViewsTyped DEF DownLess
  <2>2. down'[j - 1] = down[j]
    BY <2>1 DEF Shifted
  <2> QED BY <1>1, <2>1, <2>2 DEF Failing
<1> QED BY <1>1, <1>2, <1>3

LEMMA FailingMore ==
  ASSUME Typed, NEW n \in NoteType, down' = Append(down, n),
         Failing \/ n.kind \in {"error", "rejected"}
  PROVE  Failing'
<1>1. /\ DOMAIN down' = DOMAIN down \cup {Len(down) + 1}
      /\ \A i \in DOMAIN down : down'[i] = down[i]
      /\ down'[Len(down) + 1] = n
  BY DownIsMore
<1> QED BY <1>1 DEF Failing

LEMMA ReplyFailing ==
  ASSUME Typed, NEW m, NEW n \in NoteType, Reply(m, n), Failing
  PROVE  Failing'
<1>1. down' = down \/ down' = Append(down, n)
  BY DEF Reply
<1> QED BY <1>1, FailingLess, FailingMore

LEMMA PassedStays ==
  ASSUME Typed, Typed', InFlight, ServerStep, store.pending # NoCommand,
         store'.pending = store.pending, Passed(store.pending)
  PROVE  Passed(store.pending)'
<1>1. /\ server.match \in Nat /\ server.rev \in Nat /\ server'.match \in Nat
      /\ server'.rev \in Nat /\ server.heard \in Nat /\ server'.heard \in Nat
      /\ server.heard <= server.rev
  BY ServerFields, ClientAssumption DEF Typed, ServerTyped, ServerType, ServerRecord, IsOver
<1>2. store.pending.match \in Nat /\ store.pending.rev \in Nat /\ Past(store.pending)
  BY PendingFields, ClientAssumption DEF InFlight
<1>3. \/ server'.match = server.match /\ server'.heard >= server.heard
      \/ server'.match = server.match + 1
  BY <1>1 DEF ServerStep, SameBoard, SameMark
<1> QED BY <1>1, <1>2, <1>3 DEF Passed, Past, PastFor

Asked == dropped \/ Waits(store.pending) \/ Failing \/ Passed(store.pending)

\* Neither the command nor its answer is touched.
LEMMA AskedStays ==
  ASSUME Typed, Typed', InFlight, Replied, ServerStep, store.pending # NoCommand,
         store'.pending = store.pending, store'.epoch = store.epoch,
         \A m \in up : m.kind \in QueueKind => m \in up',
         dropped => dropped', Failing => Failing'
  PROVE  Asked'
<1>1. CASE dropped \/ Failing
  BY <1>1 DEF Asked
<1>2. CASE Passed(store.pending)
  BY <1>2, PassedStays DEF Asked
<1>3. CASE Waits(store.pending)
  <2>1. PICK m \in up : Identity(m) = store.pending /\ m.epoch = store.epoch
    BY <1>3 DEF Waits
  <2>2. m.kind \in QueueKind
    BY <2>1, MessageFields, PendingFields
  <2> QED BY <2>1, <2>2 DEF Asked, Waits
<1> QED BY <1>1, <1>2, <1>3 DEF Replied

\* The command itself is applied, or it is refused with an error.
LEMMA CommandAnswered ==
  ASSUME Typed, Typed', InFlight, Replied, store.pending # NoCommand,
         NEW m \in up, Handled(m), ServerStep
  PROVE  Asked'
<1>1. /\ CommandApplied(m) \/ CommandRefused(m)
      /\ up' = up \ {m} /\ store' = store /\ dropped' = dropped
  BY CommandOutcome
<1>2. Error(m) \in NoteType /\ Error(m).kind = "error"
  BY NewNotes
<1>3. Failing => Failing'
  BY <1>1, <1>2, NewNotes, ReplyFailing, FailingLess DEF CommandApplied, CommandRefused
<1>4. CASE dropped \/ Failing
  BY <1>1, <1>3, <1>4 DEF Asked
<1>5. CASE Passed(store.pending)
  BY <1>1, <1>5, PassedStays DEF Asked
<1>6. CASE Waits(store.pending)
  <2>1. PICK n \in up : Identity(n) = store.pending /\ n.epoch = store.epoch
    BY <1>6 DEF Waits
  <2>2. CASE n # m
    BY <1>1, <2>1, <2>2 DEF Asked, Waits
  <2>3. CASE n = m /\ CommandApplied(m)
    <3>1. server'.heard = server.rev + 1 /\ m.rev = server.rev /\ m.rev = store.pending.rev
      BY <2>1, <2>3, AppliedStep, MessageFields
    <3>2. server'.heard > store'.pending.rev
      BY <1>1, <3>1, ServerFields, ClientAssumption
    <3> QED BY <3>2 DEF Asked, Passed
  <2>4. CASE n = m /\ CommandRefused(m)
    <3>1. store.online
      BY DEF InFlight
    <3>2. down' = Append(down, Error(m))
      BY <2>1, <2>4, <3>1 DEF CommandRefused, Reply
    <3> QED BY <1>2, <3>2, FailingMore DEF Asked
  <2> QED BY <1>1, <2>2, <2>3, <2>4
<1> QED BY <1>4, <1>5, <1>6 DEF Replied

LEMMA LimitAnswered ==
  ASSUME Typed, Typed', InFlight, Replied, store.pending # NoCommand,
         NEW m \in up, RateLimited(m), ServerStep
  PROVE  Asked'
<1>1. /\ store' = store /\ up' = up \ {m} /\ down' = down
      /\ dropped' = (dropped \/ m.epoch = store.epoch)
  BY RateLimitedEffect
<1>2. CASE dropped \/ Failing
  BY <1>1, <1>2, FailingLess DEF Asked
<1>3. CASE Passed(store.pending)
  BY <1>1, <1>3, PassedStays DEF Asked
<1>4. CASE Waits(store.pending)
  BY <1>1, <1>4 DEF Waits, Asked
<1> QED BY <1>2, <1>3, <1>4 DEF Replied

LEMMA UpdateAnswered ==
  ASSUME Typed, Typed', InFlight, Replied, ReceiveUpdate, ServerStep,
         store'.pending # NoCommand
  PROVE  Asked'
<1> DEFINE v == down[1].view
<1>1. /\ down # <<>> /\ down[1].kind = "update" /\ down' = Tail(down)
      /\ dropped' = (dropped /\ store'.pending = store.pending)
      /\ IF Ignored(v) THEN store' = store /\ up' = up ELSE Accepted(v)
      /\ v \in ViewType
  BY UpdateEffect
<1>2. Failing => Failing'
  BY <1>1, FailingLess
<1> HIDE DEF v
<1>3. CASE store'.pending = store.pending /\ up' = up
  <2>1. store'.epoch = store.epoch
    BY <1>1 DEF Accepted
  <2> QED BY <1>1, <1>2, <1>3, <2>1, AskedStays
<1>4. CASE /\ store.pending # NoCommand /\ Confirms(v) /\ ~Ignored(v)
           /\ store'.pending = [kind |-> "confirm", rev |-> v.rev, match |-> v.match]
           /\ up' = up \cup {Message("confirm", v.rev)}
  <2>1. store.view # NoView /\ store.view.match = v.match
    BY <1>4, ConfirmsShown DEF Confirms, Answers
  <2>2. v.rev \in 0 .. MaxRevision /\ "confirm" \in QueueKind
    BY <1>1 DEF ViewType, QueueKind
  <2>3. Identity(Message("confirm", v.rev)) = store'.pending
    BY <1>4, <2>1 DEF Identity, Message
  <2>4. Message("confirm", v.rev).epoch = store.epoch /\ store'.epoch = store.epoch
    BY <1>1, <1>4, <2>2, SentMessage DEF Accepted
  <2> QED BY <1>4, <2>3, <2>4 DEF Asked, Waits
<1> QED BY <1>1, <1>3, <1>4 DEF Accepted, Confirms

LEMMA AnsweredStep ==
  ASSUME Typed, Typed', InFlight, Replied, [ClientNext]_clientVars
  PROVE  Replied'
<1> SUFFICES ASSUME store'.pending # NoCommand PROVE Asked'
  BY DEF Replied, Asked
<1>1. ServerStep
  BY ServerSteps
<1>2. /\ store' = store /\ (\A m \in up : m.kind \in QueueKind => m \in up')
      /\ (dropped => dropped') /\ (Failing => Failing')
      => Asked'
  BY <1>1, AskedStays
<1>3. down' = down => (Failing => Failing')
  BY FailingLess
<1>4. ASSUME NEW kind \in QueueKind, SendCommand(kind) PROVE Asked'
  <2>1. /\ store'.pending = Pending(kind) /\ up' = up \cup {Message(kind, store.view.rev)}
        /\ Identity(Message(kind, store.view.rev)) = Pending(kind)
        /\ store'.epoch = store.epoch /\ store.view # NoView
    BY <1>4, SendEffect DEF SameScreen, SameConnection
  <2>2. Message(kind, store.view.rev).epoch = store.epoch
    BY <2>1, SentMessage, ShownFields
  <2> QED BY <2>1, <2>2 DEF Asked, Waits
<1>5. ASSUME NEW m \in up, Handled(m) PROVE Asked'
  BY <1>1, <1>5, CommandOutcome, CommandAnswered
<1>6. ASSUME NEW m \in up, NEW mine \in BOOLEAN, HandleStart(m, mine) PROVE Asked'
  <2>1. /\ m.kind = "start" /\ up' = up \ {m} /\ store' = store /\ dropped' = dropped
        /\ Reply(m, Error(m)) \/ Reply(m, Grant(server.token + 1))
    BY <1>6, StartOutcome DEF Started
  <2>2. Error(m) \in NoteType /\ Grant(server.token + 1) \in NoteType
    BY NewNotes, ServerFields
  <2>3. Failing => Failing'
    BY <2>1, <2>2, ReplyFailing
  <2>4. "start" \notin QueueKind
    BY DEF QueueKind
  <2> QED BY <1>2, <2>1, <2>3, <2>4
<1>7. ASSUME NEW m \in up, HandleResume(m) PROVE Asked'
  <2>1. /\ m.kind = "resume" /\ up' = up \ {m} /\ store' = store /\ dropped' = dropped
        /\ Reply(m, [kind |-> "rejected"]) \/ Reply(m, Grant(server.token + 1))
    BY <1>7, ResumeOutcome DEF Resumed
  <2>2. [kind |-> "rejected"] \in NoteType /\ Grant(server.token + 1) \in NoteType
    BY NewNotes, ServerFields
  <2>3. Failing => Failing'
    BY <2>1, <2>2, ReplyFailing
  <2>4. "resume" \notin QueueKind
    BY DEF QueueKind
  <2> QED BY <1>2, <2>1, <2>3, <2>4
<1>8. ASSUME NEW mine \in BOOLEAN, OtherMoved(mine) PROVE Asked'
  BY <1>2, <1>3, <1>8, OthersMoveEffect DEF Apart
<1>9. OpponentConnection \/ NoticeDisconnect \/ Forfeit => Asked'
  BY <1>2, <1>3, OpponentConnectionEffect, NoticeDisconnectEffect, ForfeitEffect DEF Apart
<1>10. ASSUME NEW lost \in SUBSET up, ConnectionLost(lost) PROVE Asked'
  BY <1>10, ConnectionLostEffect
<1>11. Leave \/ ReceiveError \/ ReceiveRejected => Asked'
  BY LeaveEffect, ReceiveErrorEffect, RejectedEffect
<1>12. Reconnect => Asked'
  BY ReconnectEffect DEF InFlight
<1>13. StartMatch => Asked'
  BY <1>1, <1>3, StartEffect, AskedStays DEF Cleared
<1>14. LaunchTimeout => Asked'
  BY <1>1, <1>3, LaunchTimeoutEffect, AskedStays DEF SameScreen, SameConnection
<1>15. ReceiveSession => Asked'
  <2> SUFFICES ASSUME ReceiveSession PROVE Asked'
    OBVIOUS
  <2>1. /\ store'.pending = store.pending /\ store'.epoch = store.epoch /\ up' = up
        /\ dropped' = dropped /\ down # <<>> /\ down[1].kind = "session" /\ down' = Tail(down)
    BY ReceiveSessionEffect DEF SameScreen, SameConnection
  <2>2. Failing => Failing'
    BY <2>1, FailingLess
  <2> QED BY <1>1, <2>1, <2>2, AskedStays
<1>16. ReceiveUpdate => Asked'
  BY <1>1, UpdateAnswered
<1>17. ASSUME NEW m \in up, RateLimited(m) PROVE Asked'
  BY <1>1, <1>17, RateLimitedEffect, LimitAnswered
<1>18. Serialize => Asked'
  BY <1>2, <1>3, SerializeEffect
<1>19. ASSUME NEW v \in taken, Emit(v) PROVE Asked'
  <2>1. /\ store' = store /\ up' = up /\ dropped' = dropped /\ Update(v) \in NoteType
        /\ down' = down \/ down' = Append(down, Update(v))
    BY <1>19, EmitEffect
  <2>2. Failing => Failing'
    BY <1>3, <2>1, FailingMore
  <2> QED BY <1>2, <2>1, <2>2
<1>20. UNCHANGED clientVars => Asked'
  BY <1>2, <1>3, RestEffect
<1> QED BY <1>4, <1>5, <1>6, <1>7, <1>8, <1>9, <1>10, <1>11, <1>12, <1>13, <1>14, <1>15,
           <1>16, <1>17, <1>18, <1>19, <1>20
        DEF ClientNext, Handled, OtherMoved

-----------------------------------------------------------------------------
(* The newest revision is shown or on its way *)

UpToDate == (store.view # NoView /\ Latest(store.view)) \/ Carried

\* Due and taken are kept, and the snapshots of the queue.
LEMMA CarriedKept ==
  ASSUME Typed, Carried, SameMark, due' = due, taken' = taken,
         \/ down' = down
         \/ \E n \in NoteType : down' = Append(down, n)
         \/ down # <<>> /\ down' = Tail(down) /\ down[1].kind # "update"
  PROVE  Carried'
<1>1. CASE due > 0 \/ \E v \in taken : Latest(v)
  BY <1>1 DEF Carried, Latest, SameMark
<1>2. ASSUME NEW i \in Updates, Latest(down[i].view) PROVE Carried'
  <2>1. CASE down' = down
    BY <1>2, <2>1 DEF Carried, Updates, Latest, SameMark
  <2>2. ASSUME NEW n \in NoteType, down' = Append(down, n) PROVE Carried'
    <3>1. /\ DOMAIN down' = DOMAIN down \cup {Len(down) + 1}
          /\ \A j \in DOMAIN down : down'[j] = down[j]
      BY <2>2, DownIsMore
    <3> QED BY <1>2, <3>1 DEF Carried, Updates, Latest, SameMark
  <2>3. CASE down # <<>> /\ down' = Tail(down) /\ down[1].kind # "update"
    <3>1. Shifted(1) /\ i - 1 \in DOMAIN down' /\ i \in Nat
      BY <1>2, <2>3, DownIsLess, WireViewsTyped DEF DownLess, Updates
    <3>2. down'[i - 1] = down[i]
      BY <3>1 DEF Shifted
    <3> QED BY <1>2, <3>1, <3>2 DEF Carried, Updates, Latest, SameMark
  <2> QED BY <2>1, <2>2, <2>3
<1> QED BY <1>1, <1>2 DEF Carried

LEMMA FollowedStays ==
  ASSUME Typed, ViewsFaithful, Listening, Followed, [ClientNext]_clientVars, Following',
         SameConnection, store'.view = store.view, SameMark, server'.room = server.room,
         Carried => Carried'
  PROVE  UpToDate'
<1>1. Following
  BY TurnedStays DEF Following, SameConnection, SameMark
<1>2. UpToDate
  BY <1>1 DEF Followed, UpToDate
<1>3. store.view # NoView /\ Latest(store.view) => UpToDate'
  BY DEF UpToDate, Latest, SameMark
<1> QED BY <1>2, <1>3 DEF UpToDate

LEMMA DueCarries ==
  ASSUME Typed, due' = due + 1
  PROVE  UpToDate'
<1>1. due \in Nat
  BY ClientAssumption DEF Typed, WireTyped
<1> QED BY <1>1 DEF UpToDate, Carried

\* Clearing the screen leaves the match that was shown.
LEMMA ClearedFollowed ==
  ASSUME Typed, ViewsFaithful, Listening, Followed, [ClientNext]_clientVars, Following',
         Cleared, ServerRests,
         down' = down \/ (down # <<>> /\ down' = Tail(down) /\ down[1].kind # "update")
  PROVE  UpToDate'
<1>1. SameBoard
  BY DEF ServerRests, SameBoard, SameMark
<1>2. Following
  BY <1>1, TurnedStays DEF Following, Cleared, SameBoard, SameMark, ServerRests
<1>3. CASE store.view # NoView /\ Latest(store.view)
  <2>1. Retired(server.match)'
    BY <1>1, <1>3, RetireOf DEF Cleared, Retired, Latest, SameBoard, SameMark
  <2> QED BY <2>1 DEF Following, Turned
<1>4. CASE Carried
  BY <1>1, <1>4, CarriedKept DEF ServerRests, SameBoard, UpToDate
<1> QED BY <1>2, <1>3, <1>4 DEF Followed

\* The newest snapshot is shown when it comes, whatever is shown before it, or
\* the store turns away from the match.
LEMMA UpdateFollowed ==
  ASSUME Typed, ViewsFaithful, Listening, Followed, ReceiveUpdate, Following',
         server'.match = server.match => (Turned(server.match) => Turned(server.match)')
  PROVE  UpToDate'
<1> DEFINE v == down[1].view
<1>1. /\ down # <<>> /\ down[1].kind = "update" /\ 1 \in Updates /\ down' = Tail(down)
      /\ v \in ViewType /\ ServerRests /\ strayed' = strayed \cup Strays(v)
      /\ IF Ignored(v) THEN store' = store /\ up' = up ELSE Accepted(v)
  BY UpdateEffect
<1>2. server' = server /\ due' = due /\ taken' = taken
  BY <1>1 DEF ServerRests
<1>3. SameConnection
  BY <1>1 DEF Accepted, SameConnection
<1>4. ~Turned(server.match)' /\ ~Turned(server.match) /\ Following
  BY <1>2, <1>3 DEF Following, SameConnection
<1>5. Faithful(v) /\ v.match \in Nat /\ v.rev \in Nat /\ server.match \in Nat /\ server.rev \in Nat
      /\ server.heard \in Nat /\ v # NoView
  <2>1. Faithful(v)
    BY <1>1 DEF ViewsFaithful
  <2> HIDE DEF v
  <2>2. v \in ViewType /\ v # NoView
    BY <1>1, ClientAssumption
  <2>3. v.match \in Nat /\ v.rev \in Nat
    BY <2>2, ClientAssumption DEF ViewType
  <2> QED BY <2>1, <2>2, <2>3, ServerFields, ClientAssumption
<1> HIDE DEF v
<1>6. store.view # NoView =>
        /\ store.view.match \in Nat /\ store.view.rev \in Nat /\ Faithful(store.view)
  BY ShownFields, ClientAssumption DEF ViewsFaithful
<1>7. CASE Latest(v)
  <2>1. ~store.ignore
    BY <1>1, <1>2, <1>4, <1>7 DEF Strays, Turned, Latest
  <2>2. ~Retired(v.match)
    BY <1>4, <1>7 DEF Turned, Latest
  <2>3. CASE store.view # NoView /\ store.view.match = v.match /\ v.rev < store.view.rev
    <3>1. Ignored(v) /\ Latest(store.view)
      BY <1>5, <1>6, <1>7, <2>3 DEF Ignored, Latest
    <3> QED BY <1>1, <1>2, <2>3, <3>1 DEF UpToDate, Latest
  <2>4. CASE ~(store.view # NoView /\ store.view.match = v.match /\ v.rev < store.view.rev)
    <3>1. Accepted(v)
      BY <1>1, <2>1, <2>2, <2>4 DEF Ignored
    <3> QED BY <1>2, <1>5, <1>7, <3>1 DEF Accepted, UpToDate, Latest
  <2> QED BY <2>3, <2>4
<1>8. CASE store.view # NoView /\ Latest(store.view)
  <2>1. CASE Ignored(v)
    BY <1>1, <1>2, <1>8, <2>1 DEF UpToDate, Latest
  <2>2. CASE ~Ignored(v)
    <3>1. v.match = server.match
      <4>1. ~(server.match > v.match)
        <5>1. Strays(v) = {match \in Shown : match > v.match}
          BY <2>2 DEF Strays, Ignored
        <5>2. server.match \in Shown
          BY <1>8 DEF Shown, Latest
        <5> QED BY <1>1, <1>2, <1>4, <5>1, <5>2 DEF Turned
      <4> QED BY <1>5, <4>1 DEF Faithful, FaithfulTo
    <3>2. v.rev >= store.view.rev
      BY <1>5, <1>6, <1>8, <2>2, <3>1 DEF Ignored, Latest
    <3>3. Latest(v)
      BY <1>5, <1>6, <1>8, <3>1, <3>2 DEF Latest, Faithful, FaithfulTo
    <3> QED BY <1>7, <3>3
  <2> QED BY <2>1, <2>2
<1>9. CASE Carried /\ ~Latest(v)
  <2>1. CASE due > 0 \/ \E w \in taken : Latest(w)
    BY <1>2, <2>1 DEF UpToDate, Carried, Latest
  <2>2. ASSUME NEW i \in Updates, Latest(down[i].view) PROVE UpToDate'
    <3>1. i # 1
      BY <1>9, <2>2 DEF v
    <3>2. Shifted(1) /\ i - 1 \in DOMAIN down' /\ i \in Nat
      BY <1>1, <2>2, <3>1, DownIsLess, WireViewsTyped DEF DownLess, Updates
    <3>3. down'[i - 1] = down[i]
      BY <3>2 DEF Shifted
    <3> QED BY <1>2, <2>2, <3>2, <3>3 DEF UpToDate, Carried, Updates, Latest
  <2> QED BY <1>9, <2>1, <2>2 DEF Carried
<1> QED BY <1>4, <1>7, <1>8, <1>9 DEF Followed

LEMMA EmitFollowed ==
  ASSUME Typed, Followed, NEW v \in taken, Emit(v), Following'
  PROVE  UpToDate'
<1>1. /\ store' = store /\ server' = server /\ due' = due /\ strayed' = strayed
      /\ taken' = taken \ {v} /\ Update(v) \in NoteType
      /\ \/ down' = Append(down, Update(v))
         \/ down' = down /\ ~(store.online /\ server.room = store.epoch)
  BY EmitEffect
<1>2. Following /\ down' = Append(down, Update(v))
  BY <1>1 DEF Following, Turned, Retired
<1>3. /\ DOMAIN down' = DOMAIN down \cup {Len(down) + 1}
      /\ \A j \in DOMAIN down : down'[j] = down[j]
      /\ down'[Len(down) + 1] = Update(v)
  BY <1>1, <1>2, DownIsMore
<1>4. CASE (store.view # NoView /\ Latest(store.view)) \/ due > 0
  BY <1>1, <1>4 DEF UpToDate, Latest, Carried
<1>5. CASE Latest(v)
  BY <1>1, <1>3, <1>5 DEF UpToDate, Carried, Latest, Updates, Update
<1>6. CASE ~Latest(v) /\ \E w \in taken : Latest(w)
  BY <1>1, <1>6 DEF UpToDate, Carried, Latest
<1>7. ASSUME NEW i \in Updates, Latest(down[i].view) PROVE UpToDate'
  BY <1>1, <1>3, <1>7 DEF UpToDate, Carried, Latest, Updates
<1> QED BY <1>2, <1>4, <1>5, <1>6, <1>7 DEF Followed, Carried

LEMMA FollowedStep ==
  ASSUME Typed, Typed', ViewsFaithful, Listening, Followed, [ClientNext]_clientVars
  PROVE  Followed'
<1> SUFFICES ASSUME Following' PROVE UpToDate'
  BY DEF Followed, UpToDate
<1>1. ASSUME SameConnection, store'.view = store.view, ServerRests,
             \/ down' = down
             \/ \E n \in NoteType : down' = Append(down, n)
             \/ down # <<>> /\ down' = Tail(down) /\ down[1].kind # "update"
      PROVE  UpToDate'
  <2>1. SameBoard /\ server'.room = server.room
    BY <1>1 DEF ServerRests, SameBoard, SameMark
  <2>2. Carried => Carried'
    BY <1>1, <2>1, CarriedKept DEF ServerRests, SameBoard
  <2> QED BY <1>1, <2>1, <2>2, FollowedStays DEF SameBoard
<1>2. store' = store => SameConnection /\ store'.view = store.view
  BY DEF SameConnection
<1>3. ASSUME NEW m \in up, Handled(m) PROVE UpToDate'
  <2>1. store' = store /\ taken' = taken /\ unseen' = unseen
    BY <1>3, CommandOutcome
  <2>2. CASE due' = due + 1
    BY <2>2, DueCarries
  <2>3. CASE due' = due /\ CommandRefused(m)
    <3>1. Error(m) \in NoteType /\ (down' = down \/ down' = Append(down, Error(m)))
      BY <2>3, NewNotes DEF CommandRefused, Reply
    <3>2. ServerRests
      BY <2>1, <2>3 DEF CommandRefused, ServerRests
    <3> QED BY <1>1, <1>2, <2>1, <3>1, <3>2
  <2> QED BY <1>3, <2>2, <2>3, CommandOutcome DEF CommandApplied, CommandRefused
<1>4. ASSUME NEW m \in up, NEW mine \in BOOLEAN, HandleStart(m, mine) PROVE UpToDate'
  <2>1. store' = store /\ taken' = taken /\ unseen' = unseen
    BY <1>4, StartOutcome
  <2>2. CASE due' = due + 1
    BY <2>2, DueCarries
  <2>3. CASE server' = server /\ Reply(m, Error(m)) /\ due' = due
    <3>1. Error(m) \in NoteType /\ (down' = down \/ down' = Append(down, Error(m)))
      BY <2>3, NewNotes DEF Reply
    <3>2. ServerRests
      BY <2>1, <2>3 DEF ServerRests
    <3> QED BY <1>1, <1>2, <2>1, <3>1, <3>2
  <2> QED BY <1>4, <2>2, <2>3, StartOutcome DEF Started
<1>5. ASSUME NEW m \in up, HandleResume(m) PROVE UpToDate'
  <2>1. store' = store /\ taken' = taken /\ unseen' = unseen
    BY <1>5, ResumeOutcome
  <2>2. CASE due' = due + 1
    BY <2>2, DueCarries
  <2>3. CASE server' = server /\ Reply(m, [kind |-> "rejected"]) /\ due' = due
    <3>1. /\ [kind |-> "rejected"] \in NoteType
          /\ down' = down \/ down' = Append(down, [kind |-> "rejected"])
      BY <2>3, NewNotes DEF Reply
    <3>2. ServerRests
      BY <2>1, <2>3 DEF ServerRests
    <3> QED BY <1>1, <1>2, <2>1, <3>1, <3>2
  <2> QED BY <1>5, <2>2, <2>3, ResumeOutcome DEF Resumed
<1>6. ASSUME NEW mine \in BOOLEAN, OtherMoved(mine) PROVE UpToDate'
  <2>1. CASE due' > 0
    BY <2>1 DEF UpToDate, Carried
  <2>2. CASE ~(due' > 0)
    <3>1. /\ SameConnection /\ store'.view = store.view /\ SameMark /\ taken' = taken
          /\ server'.room = server.room /\ down' = down /\ due' = due
      <4>1. due \in Nat
        BY RestTyped
      <4> QED BY <1>6, <2>2, <4>1, OthersMoveEffect DEF Apart, SameConnection, SameMark
    <3>2. Carried => Carried'
      BY <3>1, CarriedKept
    <3> QED BY <3>1, <3>2, FollowedStays
  <2> QED BY <2>1, <2>2
<1>7. OpponentConnection \/ Forfeit => UpToDate'
  BY OpponentConnectionEffect, ForfeitEffect, DueCarries
<1>8. NoticeDisconnect => UpToDate'
  <2> SUFFICES ASSUME NoticeDisconnect PROVE UpToDate'
    OBVIOUS
  <2>1. CASE due' = due + 1
    BY <2>1, DueCarries
  <2>2. CASE due' = due
    <3>1. /\ SameConnection /\ store'.view = store.view /\ SameBoard /\ taken' = taken
          /\ server'.room = server.room /\ down' = down
      BY NoticeDisconnectEffect DEF Apart, Unmoved, SameConnection, SameBoard, SameMark
    <3>2. Carried => Carried'
      BY <2>2, <3>1, CarriedKept DEF SameBoard
    <3> QED BY <3>1, <3>2, FollowedStays DEF SameBoard
  <2> QED BY <2>1, <2>2, NoticeDisconnectEffect
<1>9. ASSUME NEW lost \in SUBSET up, ConnectionLost(lost) PROVE UpToDate'
  BY <1>9, ConnectionLostEffect DEF Following
<1>10. Reconnect => UpToDate'
  BY ReconnectEffect, ServerFields, StoreFields, ClientAssumption DEF Following, ServerRests
<1>11. StartMatch => UpToDate'
  BY StartEffect, ClearedFollowed
<1>12. Leave => UpToDate'
  BY LeaveEffect, ClearedFollowed
<1>13. ReceiveRejected => UpToDate'
  BY RejectedEffect, ClearedFollowed
<1>14. ReceiveUpdate => UpToDate'
  BY TurnedStays, UpdateFollowed
<1>15. LaunchTimeout => UpToDate'
  BY <1>1, LaunchTimeoutEffect DEF SameScreen
<1>16. ReceiveError => UpToDate'
  BY <1>1, ReceiveErrorEffect DEF SameScreen
<1>17. ReceiveSession => UpToDate'
  BY <1>1, ReceiveSessionEffect DEF SameScreen
<1>18. ASSUME NEW kind \in QueueKind, SendCommand(kind) PROVE UpToDate'
  BY <1>1, <1>18, SendEffect DEF SameScreen
<1>19. ASSUME NEW m \in up, RateLimited(m) PROVE UpToDate'
  BY <1>1, <1>2, <1>19, RateLimitedEffect
<1>20. Serialize => UpToDate'
  <2>1. View.rev >= server.heard
    BY ServerFields, ClientAssumption DEF View
  <2> QED BY <2>1, SerializeEffect DEF UpToDate, Carried, Latest
<1>21. ASSUME NEW v \in taken, Emit(v) PROVE UpToDate'
  BY <1>21, EmitFollowed
<1>22. UNCHANGED clientVars => UpToDate'
  BY <1>1, <1>2, RestEffect
<1> QED BY <1>3, <1>4, <1>5, <1>6, <1>7, <1>8, <1>9, <1>10, <1>11, <1>12, <1>13, <1>14, <1>15,
           <1>16, <1>17, <1>18, <1>19, <1>20, <1>21, <1>22
        DEF ClientNext, Handled, OtherMoved

-----------------------------------------------------------------------------
(* The store does not race its own commands *)

Raced == CommandsInv /\ ErrorsInv /\ ForeignInv

LEMMA CountedFields ==
  ASSUME Typed, NEW c \in IdentityType, c.kind \in QueueKind, c.match = server.match, ShowsCurrent
  PROVE  c # NoCommand /\ c.rev \in Nat
<1>1. c.match \in 1 .. MaxMatch /\ c.rev \in 0 .. MaxRevision
  BY ShownFields DEF ShowsCurrent, IdentityType
<1>2. c = [kind |-> c.kind, rev |-> c.rev, match |-> c.match]
  BY DEF IdentityType
<1>3. c \in CommandType
  BY <1>1, <1>2 DEF CommandType
<1> QED BY <1>1, <1>3, ClientAssumption

LEMMA MineFields ==
  ASSUME Typed, NEW m \in up, Mine(m)
  PROVE  /\ m.rev \in Nat /\ Identity(m).rev = m.rev /\ Identity(m).kind = m.kind
         /\ Identity(m).match = server.match
         /\ ShowsCurrent => Identity(m) # NoCommand
<1>1. /\ Identity(m) \in IdentityType /\ Identity(m).kind = m.kind /\ Identity(m).rev = m.rev
      /\ Identity(m).match = m.match /\ m.rev \in 0 .. MaxRevision
  BY MessageFields
<1>2. ShowsCurrent => Identity(m) # NoCommand
  BY <1>1, CountedFields DEF Mine
<1> QED BY <1>1, <1>2, ClientAssumption DEF Mine

LEMMA FaultFields ==
  ASSUME Typed, NEW i \in Faults
  PROVE  /\ i \in DOMAIN down /\ i \in Nat /\ down[i].kind = "error"
         /\ down[i].to.kind \in QueueKind /\ down[i].to.match = server.match
         /\ down[i].to.rev \in Nat
         /\ ShowsCurrent => down[i].to # NoCommand
<1>1. /\ i \in DOMAIN down /\ down[i].kind = "error" /\ down[i].to.kind \in QueueKind
      /\ down[i].to.match = server.match
  BY DEF Faults, Errors
<1>2. i \in Nat /\ down[i] \in NoteType
  BY <1>1, WireViewsTyped
<1>3. down[i].to \in IdentityType /\ down[i].to.rev \in 0 .. MaxRevision
  BY <1>1, <1>2, NoteFields
<1> QED BY <1>1, <1>2, <1>3, CountedFields, ClientAssumption

\* The errors that are left, or all with others beside them.
FaultsFrom(k) == \A i \in Faults' : i \in Nat /\ i + k \in Faults /\ down'[i] = down[i + k]

LEMMA FaultsLess ==
  ASSUME Typed, NEW k \in {0, 1}, Shifted(k), server'.match = server.match
  PROVE  FaultsFrom(k)
  BY DEF Shifted, FaultsFrom, Faults, Errors

LEMMA FaultsMore ==
  ASSUME Typed, NEW n \in NoteType, down' = down \/ down' = Append(down, n),
         server'.match = server.match,
         n.kind # "error" \/ n.to.kind \notin QueueKind \/ n.to.match # server.match
  PROVE  FaultsFrom(0)
<1>1. CASE down' = down
  BY <1>1, WireViewsTyped DEF FaultsFrom, Faults, Errors
<1>2. CASE down' = Append(down, n)
  <2>1. /\ DOMAIN down' = DOMAIN down \cup {Len(down) + 1}
        /\ \A i \in DOMAIN down : i \in Nat /\ down'[i] = down[i]
        /\ down'[Len(down) + 1] = n
    BY <1>2, DownIsMore
  <2>2. ASSUME NEW i \in Faults' PROVE i \in Nat /\ i + 0 \in Faults /\ down'[i] = down[i + 0]
    <3>1. /\ i \in DOMAIN down' /\ down'[i].kind = "error" /\ down'[i].to.kind \in QueueKind
          /\ down'[i].to.match = server.match
      BY DEF Faults, Errors
    <3>2. i \in DOMAIN down
      BY <2>1, <3>1
    <3>3. i \in Nat /\ i + 0 = i /\ down'[i] = down[i]
      BY <2>1, <3>2
    <3> QED BY <3>1, <3>2, <3>3 DEF Faults, Errors
  <2> QED BY <2>2 DEF FaultsFrom
<1> QED BY <1>1, <1>2

\* The errors of this connection's commands are as they were: what the CPU
\* raises is not one.
SameFaults == Faults' = Faults /\ \A i \in Faults : down'[i] = down[i]

LEMMA CpuFaults ==
  ASSUME Typed, NEW m \in up, down' = down \/ Reply(m, CpuError(m)),
         server'.match = server.match
  PROVE  SameFaults
<1>1. /\ CpuError(m) \in NoteType /\ CpuError(m).to.kind = "cpu"
      /\ "cpu" \notin QueueKind
  BY NewNotes DEF QueueKind
<1>2. CASE down' = down
  BY <1>2 DEF SameFaults, Faults, Errors
<1>3. CASE down' = Append(down, CpuError(m))
  <2>1. /\ DOMAIN down' = DOMAIN down \cup {Len(down) + 1}
        /\ \A i \in DOMAIN down : down'[i] = down[i]
        /\ down'[Len(down) + 1] = CpuError(m)
    BY <1>1, <1>3, DownIsMore
  <2>2. Faults' = Faults
    BY <1>1, <2>1 DEF Faults, Errors
  <2>3. \A i \in Faults : down'[i] = down[i]
    BY <2>1 DEF Faults, Errors
  <2> QED BY <2>2, <2>3 DEF SameFaults
<1> QED BY <1>2, <1>3 DEF Reply

\* No revision, no answer and nothing new of this match.
LEMMA RaceIdle ==
  ASSUME Typed, Raced, NEW k \in {0, 1}, FaultsFrom(k),
         server'.match = server.match, server'.rev = server.rev,
         server'.foreign = server.foreign,
         store'.view = store.view, store'.pending = store.pending, store'.epoch = store.epoch,
         store'.online => store.online,
         \A m \in up' : m.kind \in QueueKind => m \in up
  PROVE  Raced'
<1>1. \A m \in up' : Mine(m)' => m \in up /\ Mine(m)
  BY DEF Mine
<1>2. ShowsCurrent' <=> ShowsCurrent
  BY DEF ShowsCurrent
<1>3. CommandsInv'
  BY <1>1, <1>2 DEF Raced, CommandsInv, Accounted
<1>4. \A i \in Faults' : i \in Nat /\ i + k \in Faults /\ down'[i] = down[i + k]
  BY DEF FaultsFrom
<1>5. ErrorsInv'
  <2>1. ASSUME NEW i \in Faults'
        PROVE  /\ Accounted(down[i].to)'
               /\ \A m \in up' : Mine(m)' => m.rev # down'[i].to.rev
               /\ \A j \in Faults' : down'[j].to.rev = down'[i].to.rev => i = j
    <3>1. Accounted(down[i].to)'
      BY <1>2, <1>4 DEF Raced, ErrorsInv, Accounted
    <3>2. \A m \in up' : Mine(m)' => m.rev # down'[i].to.rev
      BY <1>1, <1>4 DEF Raced, ErrorsInv
    <3>3. ASSUME NEW j \in Faults', down'[j].to.rev = down'[i].to.rev PROVE i = j
      <4>1. i + k = j + k
        BY <1>4, <3>3 DEF Raced, ErrorsInv
      <4> QED BY <1>4, <4>1
    <3> QED BY <3>1, <3>2, <3>3
  <2> QED BY <2>1 DEF ErrorsInv
<1>6. ForeignInv'
  BY <1>2, <1>4 DEF Raced, ForeignInv
<1> QED BY <1>3, <1>5, <1>6 DEF Raced

\* Somebody else made the newest revision.
LEMMA RaceForeign ==
  ASSUME Typed, Typed', Raced, server'.match = server.match, server'.foreign = server'.rev,
         store' = store, up' \subseteq up, SameFaults
  PROVE  Raced'
<1>1. \A m \in up' : m \in up /\ (Mine(m)' => Mine(m))
  BY DEF Mine
<1>2. ShowsCurrent' <=> ShowsCurrent
  BY DEF ShowsCurrent
<1>3. CommandsInv'
  BY <1>1, <1>2 DEF Raced, CommandsInv, Accounted
<1>4. ErrorsInv'
  BY <1>1, <1>2 DEF Raced, ErrorsInv, Accounted, SameFaults
<1>5. ForeignInv'
  BY DEF ForeignInv
<1> QED BY <1>3, <1>4, <1>5 DEF Raced

LEMMA RaceLost ==
  ASSUME Typed, Raced, NEW lost \in SUBSET up, ConnectionLost(lost)
  PROVE  Raced'
<1>1. /\ store'.epoch = store.epoch /\ store'.online = FALSE /\ up' \subseteq up /\ down' = <<>>
      /\ server'.match = server.match /\ server'.rev = server.rev /\ server'.foreign = server.rev
  BY ConnectionLostEffect DEF SameBoard, SameMark
<1>2. \A m \in up' : m \in up /\ (Mine(m)' => Mine(m))
  BY <1>1 DEF Mine
<1>3. CommandsInv'
  BY <1>1, <1>2 DEF Raced, CommandsInv
<1>4. Faults' = {}
  BY <1>1 DEF Faults, Errors
<1>5. ErrorsInv' /\ ForeignInv'
  BY <1>1, <1>4 DEF ErrorsInv, ForeignInv
<1> QED BY <1>3, <1>5 DEF Raced

\* Nothing was asked of a new match.
LEMMA RaceNew ==
  ASSUME Typed, ViewsFaithful, Listening, NEW m \in up, Started(m), store' = store, up' \subseteq up
  PROVE  Raced'
<1>1. server'.match = server.match + 1 /\ server'.rev = 0 /\ server'.foreign = 0
  BY DEF Started
<1>2. server.match \in Nat
  BY ServerFields, ClientAssumption
<1>3. \A n \in up' : ~Mine(n)'
  <2>1. \A n \in up : n.match \in Nat /\ n.match <= server.match
    BY MessageFields, ClientAssumption DEF Listening, Past, PastFor
  <2> QED BY <1>1, <1>2, <2>1 DEF Mine
<1>4. Faults' = {}
  <2>1. \A i \in Errors : down[i].to.match \in Nat /\ down[i].to.match <= server.match
    BY WireViewsTyped, NoteFields, ClientAssumption DEF Errors, Listening, Past, PastFor
  <2>2. /\ Grant(server.token + 1) \in NoteType /\ Grant(server.token + 1).kind # "error"
        /\ down' = down \/ down' = Append(down, Grant(server.token + 1))
    BY NewNotes, ServerFields DEF Started, Reply
  <2>3. \A i \in Errors' : OldError(down'[i])
    BY <2>2, ErrorsMore
  <2>4. \A i \in Errors' : down'[i].to.match # server'.match
    BY <1>1, <1>2, <2>1, <2>3 DEF OldError
  <2> QED BY <2>4 DEF Faults
<1>5. ~ShowsCurrent'
  <2>1. store.view # NoView => store.view.match \in Nat /\ store.view.match <= server.match
    BY ShownFields, ClientAssumption DEF ViewsFaithful, Faithful, FaithfulTo
  <2> QED BY <1>1, <1>2, <2>1 DEF ShowsCurrent
<1> QED BY <1>1, <1>3, <1>4, <1>5 DEF Raced, CommandsInv, ErrorsInv, ForeignInv

\* The command in flight makes the revision after the one shown: every other
\* command of this connection is older, and nobody else made it.
LEMMA RaceOwn ==
  ASSUME Typed, ViewsFaithful, Listening, InFlight, Raced, ~Turned(server.match),
         NEW m \in up, m.kind \in QueueKind \cup {"surrender"}, CommandApplied(m), Own(m),
         store' = store, up' = up \ {m}
  PROVE  Raced'
<1>1. /\ server'.match = server.match /\ server'.rev = server.rev + 1
      /\ server'.foreign = server.foreign /\ m.rev = server.rev
  BY AppliedStep DEF CommandApplied
<1>2. store.online /\ m.epoch = store.epoch /\ m.match = server.match
  BY DEF Own
<1>3. m.kind \in QueueKind
  BY <1>2 DEF Listening
<1>4. Mine(m)
  BY <1>2, <1>3 DEF Mine
<1>5. server.rev \in Nat /\ (ShowsCurrent => store.view.rev \in Nat /\ store.view.rev <= server.rev)
  BY ShownFields, ServerFields, ClientAssumption
  DEF ShowsCurrent, ViewsFaithful, Faithful, FaithfulTo
<1>6. ShowsCurrent /\ Identity(m) = store.pending
  <2>1. Accounted(Identity(m)) /\ Identity(m).rev = server.rev
    BY <1>1, <1>2, <1>4, MineFields DEF Raced, CommandsInv
  <2> QED BY <1>5, <2>1 DEF Accounted
<1>7. store.pending # NoCommand /\ store.pending.rev = server.rev /\ store.view.rev = server.rev
  <2>1. store.pending # NoCommand /\ store.pending.rev = server.rev
    BY <1>1, <1>4, <1>6, MineFields
  <2> QED BY <1>6, <2>1 DEF InFlight, ShowsCurrent
<1>8. \A n \in up' : Mine(n)' => n \in up /\ n # m /\ Mine(n)
  BY <1>1 DEF Mine
<1>9. /\ ShowsCurrent' <=> ShowsCurrent
      /\ Faults' = Faults /\ \A i \in Faults : down'[i] = down[i]
  BY <1>1, CpuFaults DEF ShowsCurrent, SameFaults, CommandApplied
<1>10. CommandsInv'
  <2>1. ASSUME NEW n \in up', Mine(n)'
        PROVE  /\ n.rev < server'.rev => server'.foreign > n.rev
               /\ Accounted(Identity(n))'
               /\ \A o \in up' : Mine(o)' /\ o.rev = n.rev => o = n
    <3>1. n \in up /\ n # m /\ Mine(n) /\ n.rev \in Nat
      BY <1>8, <2>1, MineFields
    <3>2. n.rev # server.rev
      BY <1>1, <1>4, <3>1 DEF Raced, CommandsInv
    <3>3. n.rev < server'.rev => server'.foreign > n.rev
      BY <1>1, <1>5, <3>1, <3>2 DEF Raced, CommandsInv
    <3>4. Accounted(Identity(n))'
      BY <1>1, <1>2, <1>9, <3>1 DEF Raced, CommandsInv, Accounted, Identity
    <3>5. \A o \in up' : Mine(o)' /\ o.rev = n.rev => o = n
      BY <1>8, <3>1 DEF Raced, CommandsInv
    <3> QED BY <3>3, <3>4, <3>5
  <2> QED BY <2>1 DEF CommandsInv, Identity
<1>11. ErrorsInv'
  BY <1>1, <1>8, <1>9 DEF Raced, ErrorsInv, Accounted
<1>12. ForeignInv'
  <2>1. \A i \in Faults : down[i].to # store.pending
    BY <1>1, <1>4, <1>7 DEF Raced, ErrorsInv
  <2>2. server'.rev = store'.view.rev + 1 /\ store'.pending # NoCommand /\ ShowsCurrent'
    BY <1>1, <1>6, <1>7, <1>9
  <2>3. ~(server'.rev > store'.view.rev + 1)
    BY <1>1, <1>5, <1>7
  <2>4. \A i \in Faults' : down'[i].to # store'.pending
    BY <1>1, <1>9, <2>1
  <2> QED BY <2>2, <2>3, <2>4 DEF ForeignInv
<1> QED BY <1>10, <1>11, <1>12 DEF Raced

\* The refused command has gone, and its error takes its place.
LEMMA RaceRefused ==
  ASSUME Typed, ViewsFaithful, Listening, InFlight, Raced, NEW m \in up, Mine(m), store.online,
         server' = server, store' = store, up' = up \ {m}, down' = Append(down, Error(m))
  PROVE  Raced'
<1> DEFINE l == Len(down) + 1
<1>1. Error(m) \in NoteType /\ Error(m).kind = "error" /\ Error(m).to = Identity(m)
  BY NewNotes
<1>2. /\ DOMAIN down' = DOMAIN down \cup {l} /\ l \notin DOMAIN down
      /\ \A i \in DOMAIN down : down'[i] = down[i]
      /\ down'[l] = Error(m)
  BY <1>1, DownIsMore
<1> HIDE DEF l
<1>3. /\ m.rev \in Nat /\ Identity(m).rev = m.rev /\ Identity(m).kind \in QueueKind
      /\ Identity(m).match = server.match
  BY MineFields DEF Mine
<1>4. \A i \in Faults' : (i \in Faults /\ down'[i] = down[i]) \/ (i = l /\ i \notin Faults)
  BY <1>2 DEF Faults, Errors
<1>5. down'[l].to = Identity(m)
  BY <1>1, <1>2
<1>6. \A n \in up' : Mine(n)' => n \in up /\ n # m /\ Mine(n)
  BY DEF Mine
<1>7. (ShowsCurrent' <=> ShowsCurrent) /\ Accounted(Identity(m))
  BY DEF ShowsCurrent, Raced, CommandsInv
<1>8. CommandsInv'
  BY <1>6, <1>7 DEF Raced, CommandsInv, Accounted, Identity
<1>9. ErrorsInv'
  <2>1. ASSUME NEW i \in Faults'
        PROVE  /\ Accounted(down[i].to)'
               /\ \A n \in up' : Mine(n)' => n.rev # down'[i].to.rev
               /\ \A j \in Faults' : down'[j].to.rev = down'[i].to.rev => i = j
    <3>1. CASE i \in Faults /\ down'[i] = down[i]
      <4>1. Accounted(down[i].to)'
        BY <1>7, <3>1 DEF Raced, ErrorsInv, Accounted
      <4>2. \A n \in up' : Mine(n)' => n.rev # down'[i].to.rev
        BY <1>6, <3>1 DEF Raced, ErrorsInv
      <4>3. down[i].to.rev # m.rev
        BY <3>1 DEF Raced, ErrorsInv
      <4>4. \A j \in Faults' : down'[j].to.rev = down'[i].to.rev => i = j
        BY <1>3, <1>4, <1>5, <3>1, <4>3 DEF Raced, ErrorsInv
      <4> QED BY <4>1, <4>2, <4>4
    <3>2. CASE i = l
      <4>1. Accounted(down[i].to)'
        BY <1>5, <1>7, <3>2 DEF Accounted
      <4>2. \A n \in up' : Mine(n)' => n.rev # m.rev
        BY <1>6 DEF Raced, CommandsInv
      <4>3. \A j \in Faults : down[j].to.rev # m.rev
        BY DEF Raced, ErrorsInv
      <4>4. \A j \in Faults' : down'[j].to.rev = down'[i].to.rev => i = j
        BY <1>3, <1>4, <1>5, <3>2, <4>3
      <4> QED BY <1>3, <1>5, <3>2, <4>1, <4>2, <4>4
    <3> QED BY <1>4, <3>1, <3>2
  <2> QED BY <2>1 DEF ErrorsInv
<1>10. ForeignInv'
  <2>1. CASE \E i \in Faults' : down'[i].to = store'.pending
    <3>1. CASE \E i \in Faults : down[i].to = store.pending
      BY <1>7, <3>1 DEF Raced, ForeignInv
    <3>2. CASE Identity(m) = store.pending
      <4>1. ShowsCurrent
        BY <1>7 DEF Accounted
      <4>2. store.pending # NoCommand /\ store.view.rev = m.rev
        BY <1>3, <3>2, <4>1, MineFields DEF InFlight, ShowsCurrent
      <4>3. server.rev > m.rev => server.foreign = server.rev
        <5>1. server.rev \in Nat /\ server.foreign \in Nat /\ server.foreign <= server.rev
          BY ServerFields, ClientAssumption DEF Listening
        <5>2. server.rev > m.rev => server.foreign > m.rev
          BY DEF Raced, CommandsInv
        <5>3. server.rev > m.rev + 1 => server.foreign = server.rev
          BY <1>3, <4>1, <4>2, <5>1 DEF Raced, ForeignInv
        <5> QED BY <1>3, <5>1, <5>2, <5>3
      <4> QED BY <1>7, <4>1, <4>2, <4>3 DEF ForeignInv
    <3> QED BY <1>4, <1>5, <2>1, <3>1, <3>2
  <2>2. CASE ~\E i \in Faults' : down'[i].to = store'.pending
    BY <1>7, <2>2 DEF Raced, ForeignInv
  <2> QED BY <2>1, <2>2
<1> QED BY <1>8, <1>9, <1>10 DEF Raced

\* With no command in flight, all of them are older than the revision shown.
LEMMA AllOlder ==
  ASSUME Typed, Raced, store.pending = NoCommand
  PROVE  /\ \A m \in up : Mine(m) /\ store.online => ShowsCurrent /\ m.rev < store.view.rev
         /\ \A i \in Faults : ShowsCurrent /\ down[i].to.rev < store.view.rev
<1>1. ASSUME NEW m \in up, Mine(m), store.online PROVE ShowsCurrent /\ m.rev < store.view.rev
  BY <1>1, MineFields DEF Raced, CommandsInv, Accounted
<1>2. ASSUME NEW i \in Faults PROVE ShowsCurrent /\ down[i].to.rev < store.view.rev
  BY FaultFields DEF Raced, ErrorsInv, Accounted
<1> QED BY <1>1, <1>2

\* A command is of the revision shown, later than all the commands before.
LEMMA RaceSend ==
  ASSUME Typed, Raced, NEW kind \in QueueKind, SendCommand(kind)
  PROVE  Raced'
<1> DEFINE o == Message(kind, store.view.rev)
<1>1. /\ store.view # NoView /\ store.online /\ store.pending = NoCommand
      /\ SameScreen /\ store'.pending = Pending(kind) /\ Pending(kind) # NoCommand
      /\ Pending(kind).rev = store.view.rev
      /\ up' = up \cup {o} /\ Identity(o) = Pending(kind) /\ ServerRests /\ down' = down
  BY SendEffect
<1>2. /\ server' = server /\ store'.view = store.view /\ store'.epoch = store.epoch
      /\ store'.online = store.online
  BY <1>1 DEF ServerRests, SameScreen, SameConnection
<1>3. store.view.rev \in Nat /\ store.view.rev \in 0 .. MaxRevision
  BY <1>1, ShownFields, ClientAssumption
<1>4. o.kind = kind /\ o.rev = store.view.rev /\ o.match = store.view.match
  BY <1>1, <1>3, SentMessage
<1> HIDE DEF o
<1>5. (ShowsCurrent' <=> ShowsCurrent) /\ Faults' = Faults /\ \A m : Mine(m)' <=> Mine(m)
  BY <1>1, <1>2 DEF ShowsCurrent, Faults, Errors, Mine
<1>6. Mine(o) => ShowsCurrent
  BY <1>1, <1>4 DEF Mine, ShowsCurrent
<1>7. ShowsCurrent /\ server.rev > store.view.rev => server.foreign = server.rev
  BY <1>1 DEF Raced, ForeignInv
<1>8. CommandsInv'
  <2>1. ASSUME NEW m \in up', Mine(m)'
        PROVE  /\ m.rev < server'.rev => server'.foreign > m.rev
               /\ Accounted(Identity(m))'
               /\ \A n \in up' : Mine(n)' /\ n.rev = m.rev => n = m
    <3>1. CASE m = o
      <4>1. m.rev < server'.rev => server'.foreign > m.rev
        BY <1>2, <1>4, <1>5, <1>6, <1>7, <2>1, <3>1, ServerFields, ClientAssumption
      <4>2. Accounted(Identity(m))'
        BY <1>1, <1>5, <1>6, <2>1, <3>1 DEF Accounted, Identity
      <4>3. \A n \in up : Mine(n) => n.rev # m.rev
        BY <1>1, <1>3, <1>4, <3>1, AllOlder, MineFields
      <4> QED BY <1>1, <1>5, <3>1, <4>1, <4>2, <4>3
    <3>2. CASE m \in up
      <4>1. Mine(m) /\ ShowsCurrent /\ m.rev < store.view.rev /\ m.rev \in Nat
        BY <1>1, <1>5, <2>1, <3>2, AllOlder, MineFields
      <4>2. m.rev < server'.rev => server'.foreign > m.rev
        BY <1>2, <3>2, <4>1 DEF Raced, CommandsInv
      <4>3. Accounted(Identity(m))'
        BY <1>2, <1>5, <3>2, <4>1, MineFields DEF Accounted, Identity
      <4>4. \A n \in up' : Mine(n)' /\ n.rev = m.rev => n = m
        BY <1>1, <1>3, <1>4, <1>5, <3>2, <4>1 DEF Raced, CommandsInv
      <4> QED BY <4>2, <4>3, <4>4
    <3> QED BY <1>1, <3>1, <3>2
  <2> QED BY <2>1 DEF CommandsInv, Identity
<1>9. ErrorsInv'
  <2>1. ASSUME NEW i \in Faults'
        PROVE  /\ Accounted(down[i].to)'
               /\ \A n \in up' : Mine(n)' => n.rev # down'[i].to.rev
               /\ \A j \in Faults' : down'[j].to.rev = down'[i].to.rev => i = j
    <3>1. /\ i \in Faults /\ down'[i] = down[i] /\ ShowsCurrent /\ down[i].to.rev < store.view.rev
          /\ down[i].to.rev \in Nat
      BY <1>1, <1>5, AllOlder, FaultFields
    <3>2. Accounted(down[i].to)'
      BY <1>1, <1>2, <1>5, <3>1 DEF Accounted
    <3>3. \A n \in up' : Mine(n)' => n.rev # down'[i].to.rev
      BY <1>1, <1>3, <1>4, <1>5, <3>1 DEF Raced, ErrorsInv
    <3>4. \A j \in Faults' : down'[j].to.rev = down'[i].to.rev => i = j
      BY <1>1, <1>5, <3>1 DEF Raced, ErrorsInv
    <3> QED BY <3>2, <3>3, <3>4
  <2> QED BY <2>1 DEF ErrorsInv
<1>10. ForeignInv'
  BY <1>1, <1>2, <1>5, <1>7 DEF Raced, ForeignInv
<1> QED BY <1>8, <1>9, <1>10 DEF Raced

\* The error is the answer of the command it releases.
LEMMA RaceError ==
  ASSUME Typed, InFlight, Raced, ReceiveError,
         store.pending # NoCommand, down[1].to = store.pending
  PROVE  Raced'
<1>1. /\ SameScreen /\ store'.pending = NoCommand /\ ServerRests /\ up' = up
      /\ down # <<>> /\ down[1].kind = "error" /\ down' = Tail(down)
  BY ReceiveErrorEffect
<1>2. /\ server' = server /\ store'.view = store.view /\ store'.epoch = store.epoch
      /\ store'.online = store.online
  BY <1>1 DEF ServerRests, SameScreen, SameConnection
<1>3. store.online
  BY DEF InFlight
<1>4. (ShowsCurrent' <=> ShowsCurrent) /\ \A m : Mine(m)' <=> Mine(m)
  BY <1>2 DEF ShowsCurrent, Mine
<1>5. \A i \in Faults' : i \in Nat /\ i + 1 \in Faults /\ down'[i] = down[i + 1]
  BY <1>1, <1>2, DownIsLess, FaultsLess DEF DownLess, FaultsFrom
<1>6. ShowsCurrent => 1 \in Faults
  <2>1. store.pending.kind \in QueueKind /\ 1 \in DOMAIN down
    BY <1>1, PendingFields, HeadNote
  <2> QED BY <1>1, <2>1 DEF ShowsCurrent, InFlight, Faults, Errors
<1>7. \A m \in up : Mine(m) => ShowsCurrent /\ m.rev < store.view.rev
  <2>1. ASSUME NEW m \in up, Mine(m) PROVE ShowsCurrent /\ m.rev < store.view.rev
    <3>1. ShowsCurrent /\ (m.rev < store.view.rev \/ Identity(m) = store.pending)
      BY <1>3, <2>1, MineFields DEF Raced, CommandsInv, Accounted
    <3>2. m.rev # store.pending.rev
      BY <1>6, <2>1, <3>1 DEF Raced, ErrorsInv
    <3> QED BY <2>1, <3>1, <3>2, MineFields
  <2> QED BY <2>1
<1>8. \A i \in Faults : i # 1 => ShowsCurrent /\ down[i].to.rev < store.view.rev
  <2>1. ASSUME NEW i \in Faults, i # 1 PROVE ShowsCurrent /\ down[i].to.rev < store.view.rev
    <3>1. ShowsCurrent /\ (down[i].to.rev < store.view.rev \/ down[i].to = store.pending)
      BY DEF Raced, ErrorsInv, Accounted
    <3>2. down[i].to.rev # store.pending.rev
      BY <1>6, <2>1, <3>1 DEF Raced, ErrorsInv
    <3> QED BY <3>1, <3>2
  <2> QED BY <2>1
<1>9. CommandsInv'
  BY <1>1, <1>2, <1>4, <1>7 DEF Raced, CommandsInv, Accounted, Identity
<1>10. ErrorsInv'
  <2>1. ASSUME NEW i \in Faults'
        PROVE  /\ Accounted(down[i].to)'
               /\ \A n \in up' : Mine(n)' => n.rev # down'[i].to.rev
               /\ \A j \in Faults' : down'[j].to.rev = down'[i].to.rev => i = j
    <3>1. i + 1 # 1 /\ i + 1 \in Faults /\ i \in Nat /\ down'[i] = down[i + 1]
      <4>1. down' \in Seq(NoteType) /\ i \in DOMAIN down'
        BY <1>1, HeadNote DEF Faults, Errors
      <4>2. i # 0
        BY <4>1
      <4> QED BY <1>5, <4>2
    <3>2. Accounted(down[i].to)'
      BY <1>2, <1>4, <1>8, <3>1 DEF Accounted
    <3>3. \A n \in up' : Mine(n)' => n.rev # down'[i].to.rev
      BY <1>1, <1>4, <3>1 DEF Raced, ErrorsInv
    <3>4. ASSUME NEW j \in Faults', down'[j].to.rev = down'[i].to.rev PROVE i = j
      <4>1. i + 1 = j + 1
        BY <1>5, <3>1, <3>4 DEF Raced, ErrorsInv
      <4> QED BY <1>5, <3>1, <4>1
    <3> QED BY <3>2, <3>3, <3>4
  <2> QED BY <2>1 DEF ErrorsInv
<1>11. ForeignInv'
  BY <1>1, <1>2, <1>4, <1>6 DEF Raced, ForeignInv
<1> QED BY <1>9, <1>10, <1>11 DEF Raced

\* The match that was shown is left; what is cleared besides was not its own.
LEMMA RaceClear ==
  ASSUME Typed, Raced, Cleared, ServerRests, DownLess, ~Turned(server.match)',
         \A m \in up' : m.kind \in QueueKind => m \in up
  PROVE  Raced'
<1>1. /\ server' = server /\ store'.view = NoView /\ store'.epoch = store.epoch
      /\ store'.online = store.online /\ store'.retired = Retire
  BY DEF Cleared, ServerRests
<1>2. ~ShowsCurrent
  <2>1. ShowsCurrent => server.match \in ToSet(Retire)
    BY RetireOf DEF ShowsCurrent
  <2> QED BY <1>1, <2>1 DEF Turned, Retired
<1>3. ~ShowsCurrent'
  BY <1>1 DEF ShowsCurrent
<1>4. \A m \in up' : Mine(m)' => m \in up /\ Mine(m)
  BY <1>1 DEF Mine
<1>5. CommandsInv'
  BY <1>1, <1>2, <1>4 DEF Raced, CommandsInv, Accounted
<1>6. Faults' = {}
  <2>1. PICK k \in {0, 1} : Shifted(k)
    BY DownIsLess
  <2>2. FaultsFrom(k)
    BY <1>1, <2>1, FaultsLess
  <2>3. Faults = {}
    BY <1>2 DEF Raced, ErrorsInv, Accounted
  <2> QED BY <2>2, <2>3 DEF FaultsFrom
<1>7. ErrorsInv'
  BY <1>6 DEF ErrorsInv
<1>8. ForeignInv'
  BY <1>1, <1>2, <1>3 DEF Raced, ForeignInv
<1> QED BY <1>5, <1>7, <1>8 DEF Raced

\* Nothing was sent over a new connection yet.
LEMMA RaceReconnect ==
  ASSUME Typed, Raced, Reconnect
  PROVE  Raced'
<1>1. /\ store'.epoch = store.epoch + 1 /\ store'.view = store.view
      /\ store'.pending = store.pending /\ server' = server /\ down' = down
      /\ up' \subseteq up \cup {Resume} /\ Resume.kind = "resume"
  BY ReconnectEffect DEF ServerRests
<1>2. \A m \in up' : ~Mine(m)'
  <2>1. \A m \in up : m.epoch \in Nat /\ m.epoch <= store.epoch /\ store.epoch \in Nat
    BY MessageFields, StoreFields, ClientAssumption
  <2>2. "resume" \notin QueueKind
    BY DEF QueueKind
  <2> QED BY <1>1, <2>1, <2>2 DEF Mine
<1>3. (ShowsCurrent' <=> ShowsCurrent) /\ Faults' = Faults
  BY <1>1 DEF ShowsCurrent, Faults, Errors
<1>4. CommandsInv'
  BY <1>2 DEF CommandsInv
<1>5. ErrorsInv'
  BY <1>1, <1>2, <1>3 DEF Raced, ErrorsInv, Accounted
<1>6. ForeignInv'
  BY <1>1, <1>3 DEF Raced, ForeignInv
<1> QED BY <1>4, <1>5, <1>6 DEF Raced

\* What a snapshot that is shown leaves of the queue and of the commands.
LEMMA ShownStep ==
  ASSUME Typed, ReceiveUpdate
  PROVE  /\ server' = server /\ down[1].kind = "update" /\ down[1].view \in ViewType
         /\ 1 \in Updates /\ FaultsFrom(1)
         /\ strayed' = strayed \cup Strays(down[1].view)
         /\ IF Ignored(down[1].view) THEN store' = store /\ up' = up ELSE Accepted(down[1].view)
<1>1. /\ down # <<>> /\ down[1].kind = "update" /\ 1 \in Updates /\ down' = Tail(down)
      /\ down[1].view \in ViewType /\ ServerRests
      /\ strayed' = strayed \cup Strays(down[1].view)
      /\ IF Ignored(down[1].view) THEN store' = store /\ up' = up ELSE Accepted(down[1].view)
  BY UpdateEffect
<1>2. server' = server
  BY <1>1 DEF ServerRests
<1>3. FaultsFrom(1)
  BY <1>1, <1>2, DownIsLess, FaultsLess DEF DownLess
<1> QED BY <1>1, <1>2, <1>3

\* A snapshot of another match than the server's leaves the commands alone.
LEMMA RaceElsewhere ==
  ASSUME Typed, ViewsFaithful, InFlight, Raced, ReceiveUpdate, ~Turned(server.match)',
         ~Ignored(down[1].view), down[1].view.match # server.match
  PROVE  Raced'
<1> DEFINE v == down[1].view
<1>1. /\ server' = server /\ v \in ViewType /\ Faithful(v) /\ FaultsFrom(1) /\ Accepted(v)
      /\ strayed' = strayed \cup Strays(v) /\ ~Ignored(v) /\ v.match # server.match
  BY ShownStep DEF ViewsFaithful
<1> HIDE DEF v
<1>2. store'.view = v /\ store'.epoch = store.epoch /\ store'.online = store.online
  BY <1>1 DEF Accepted
<1>3. ~ShowsCurrent
  <2>1. server.match > v.match
    BY <1>1, ServerFields, ClientAssumption DEF Faithful, FaithfulTo, ViewType
  <2>2. Strays(v) = {match \in Shown : match > v.match}
    BY <1>1 DEF Strays, Ignored
  <2>3. ShowsCurrent => server.match \in Shown
    BY DEF ShowsCurrent, Shown
  <2> QED BY <1>1, <2>1, <2>2, <2>3 DEF Turned
<1>4. ~ShowsCurrent'
  BY <1>1, <1>2 DEF ShowsCurrent
<1>5. \A m \in up' : Mine(m)' => m \in up /\ Mine(m)
  <2>1. CASE up' = up
    BY <1>1, <1>2, <2>1 DEF Mine
  <2>2. CASE Confirms(v) /\ up' = up \cup {Message("confirm", v.rev)}
    <3>1. store.view # NoView /\ store.view.match = v.match
      BY <1>1, <2>2, ConfirmsShown DEF Confirms, Answers
    <3>2. Message("confirm", v.rev).match = v.match
      BY <3>1 DEF Message
    <3> QED BY <1>1, <1>2, <2>2, <3>2 DEF Mine
  <2> QED BY <1>1, <2>1, <2>2 DEF Accepted
<1>6. CommandsInv'
  BY <1>1, <1>2, <1>3, <1>5 DEF Raced, CommandsInv, Accounted
<1>7. Faults' = {}
  <2>1. Faults = {}
    BY <1>3 DEF Raced, ErrorsInv, Accounted
  <2> QED BY <1>1, <2>1 DEF FaultsFrom
<1>8. ErrorsInv' /\ ForeignInv'
  BY <1>1, <1>3, <1>4, <1>7 DEF Raced, ErrorsInv, ForeignInv
<1> QED BY <1>6, <1>8 DEF Raced

\* The first snapshot of the match that is shown, or the first after it was
\* shown no more: no command of the connection is about.
LEMMA RaceAnew ==
  ASSUME Typed, ViewsFaithful, InFlight, Raced, ReceiveUpdate,
         ~Ignored(down[1].view), down[1].view.match = server.match, ~ShowsCurrent
  PROVE  Raced'
<1> DEFINE v == down[1].view
<1>1. /\ server' = server /\ v \in ViewType /\ FaultsFrom(1) /\ Accepted(v)
      /\ ~Ignored(v) /\ v.match = server.match
  BY ShownStep
<1> HIDE DEF v
<1>2. store'.view = v /\ store'.epoch = store.epoch /\ store'.online = store.online
  BY <1>1 DEF Accepted
<1>3. ~Confirms(v)
  <2>1. store.pending # NoCommand /\ v.match = store.pending.match => ShowsCurrent
    BY <1>1, ConfirmsShown DEF ShowsCurrent
  <2> QED BY <2>1 DEF Confirms, Answers
<1>4. up' = up
  BY <1>1, <1>3 DEF Accepted
<1>5. \A m \in up' : Mine(m)' => m \in up /\ Mine(m)
  BY <1>1, <1>2, <1>4 DEF Mine
<1>6. CommandsInv'
  BY <1>1, <1>2, <1>5 DEF Raced, CommandsInv, Accounted
<1>7. Faults' = {}
  <2>1. Faults = {}
    BY DEF Raced, ErrorsInv, Accounted
  <2> QED BY <1>1, <2>1 DEF FaultsFrom
<1>8. ErrorsInv' /\ ForeignInv'
  BY <1>1, <1>7 DEF Raced, ErrorsInv, ForeignInv
<1> QED BY <1>6, <1>8 DEF Raced

\* A newer snapshot of the match that is shown completes the command in flight:
\* all commands are older than it, but the confirmation that follows.
LEMMA RaceOnward ==
  ASSUME Typed, ViewsFaithful, InFlight, Raced, ReceiveUpdate,
         ~Ignored(down[1].view), down[1].view.match = server.match, ShowsCurrent,
         store.pending = NoCommand \/ down[1].view.rev > store.pending.rev
  PROVE  Raced'
<1> DEFINE v == down[1].view
           o == Message("confirm", v.rev)
<1>1. /\ server' = server /\ v \in ViewType /\ FaultsFrom(1) /\ Accepted(v)
      /\ ~Ignored(v) /\ v.match = server.match
      /\ store.pending = NoCommand \/ v.rev > store.pending.rev
  BY ShownStep
<1>2. "confirm" \in QueueKind
  BY DEF QueueKind
<1> HIDE DEF v
<1>3. /\ store'.view = v /\ store'.epoch = store.epoch /\ store'.online = store.online
      /\ v # NoView
  BY <1>1, ClientAssumption DEF Accepted
<1>4. /\ v.rev \in Nat /\ v.rev \in 0 .. MaxRevision /\ store.view.rev \in Nat
      /\ store.view # NoView /\ store.view.match = server.match
      /\ server.rev \in Nat /\ server.foreign \in Nat
  BY <1>1, ShownFields, ServerFields, ClientAssumption DEF ShowsCurrent, ViewType
<1>5. store.view.rev <= v.rev
  BY <1>1, <1>4 DEF Ignored
<1>6. store.pending # NoCommand =>
         /\ store.pending.match = v.match /\ store.pending.rev = store.view.rev
         /\ store.view.rev < v.rev /\ Frees(v) /\ store.online
  BY <1>1, <1>4 DEF InFlight, Frees, Answers
<1>7. \/ store'.pending = NoCommand /\ up' = up
      \/ /\ store.pending # NoCommand /\ up' = up \cup {o}
         /\ store'.pending = [kind |-> "confirm", rev |-> v.rev, match |-> v.match]
  BY <1>1, <1>6 DEF Accepted, Confirms
<1>8. o.kind = "confirm" /\ o.rev = v.rev /\ o.match = v.match /\ o.epoch = store.epoch
  BY <1>1, <1>2, <1>4, SentMessage
<1> HIDE DEF o
<1>9. ShowsCurrent' /\ ShowsCurrent
  BY <1>1, <1>3 DEF ShowsCurrent
<1>11. \A m \in up : Mine(m) /\ store.online => m.rev < v.rev
  <2>1. ASSUME NEW m \in up, Mine(m), store.online PROVE m.rev < v.rev
    <3>1. m.rev < store.view.rev \/ Identity(m) = store.pending
      BY <2>1, MineFields DEF Raced, CommandsInv, Accounted
    <3> QED BY <1>4, <1>5, <1>6, <1>9, <2>1, <3>1, MineFields
  <2> QED BY <2>1
<1>12. \A i \in Faults : down[i].to.rev < v.rev /\ down[i].to.rev \in Nat
  <2>1. ASSUME NEW i \in Faults PROVE down[i].to.rev < v.rev
    <3>1. down[i].to.rev < store.view.rev \/ down[i].to = store.pending
      BY DEF Raced, ErrorsInv, Accounted
    <3> QED BY <1>4, <1>5, <1>6, <1>9, <3>1, FaultFields
  <2> QED BY <2>1, FaultFields
<1>13. server.rev > v.rev => server.foreign = server.rev
  <2>1. CASE store.pending = NoCommand
    BY <1>4, <1>5, <1>9, <2>1 DEF Raced, ForeignInv
  <2>2. CASE store.pending # NoCommand
    <3>1. server.rev > v.rev => server.rev > store.view.rev + 1
      BY <1>4, <1>6, <2>2
    <3> QED BY <1>4, <1>5, <1>9, <3>1 DEF Raced, ForeignInv
  <2> QED BY <2>1, <2>2
<1>14. \A m \in up : Mine(m)' <=> Mine(m)
  BY <1>1, <1>3 DEF Mine
<1>15. CommandsInv'
  <2>1. ASSUME NEW m \in up', Mine(m)'
        PROVE  /\ m.rev < server'.rev => server'.foreign > m.rev
               /\ store'.online => Accounted(Identity(m))'
               /\ \A n \in up' : Mine(n)' /\ n.rev = m.rev => n = m
    <3>1. CASE m \in up
      <4>1. m.rev \in Nat /\ Mine(m)
        BY <1>14, <2>1, <3>1, MineFields
      <4>2. m.rev < server'.rev => server'.foreign > m.rev
        BY <1>1, <3>1, <4>1 DEF Raced, CommandsInv
      <4>3. store'.online => Accounted(Identity(m))'
        BY <1>3, <1>9, <1>11, <3>1, <4>1, MineFields DEF Accounted, Identity
      <4>4. ASSUME NEW n \in up', Mine(n)', n.rev = m.rev PROVE n = m
        <5>1. CASE n \in up
          BY <1>14, <3>1, <4>1, <4>4, <5>1 DEF Raced, CommandsInv
        <5>2. CASE n = o /\ store.pending # NoCommand
          BY <1>4, <1>6, <1>8, <1>11, <3>1, <4>1, <4>4, <5>2
        <5> QED BY <1>7, <5>1, <5>2
      <4> QED BY <4>2, <4>3, <4>4
    <3>2. CASE m = o /\ store.pending # NoCommand /\ m \notin up
             /\ store'.pending = [kind |-> "confirm", rev |-> v.rev, match |-> v.match]
      <4>1. m.rev < server'.rev => server'.foreign > m.rev
        BY <1>1, <1>4, <1>8, <1>13, <3>2
      <4>2. Accounted(Identity(m))'
        BY <1>8, <1>9, <3>2 DEF Accounted, Identity
      <4>3. ASSUME NEW n \in up', Mine(n)', n.rev = m.rev PROVE n = m
        <5>1. CASE n \in up
          <6>1. n.rev < v.rev /\ n.rev \in Nat
            BY <1>6, <1>11, <1>14, <3>2, <4>3, <5>1, MineFields
          <6> QED BY <1>4, <1>8, <3>2, <4>3, <6>1
        <5>2. CASE n = o
          BY <3>2, <5>2
        <5> QED BY <1>7, <5>1, <5>2
      <4> QED BY <4>1, <4>2, <4>3
    <3> QED BY <1>7, <3>1, <3>2
  <2> QED BY <2>1 DEF CommandsInv, Identity
<1>16. ErrorsInv'
  <2>1. ASSUME NEW i \in Faults'
        PROVE  /\ Accounted(down[i].to)'
               /\ \A n \in up' : Mine(n)' => n.rev # down'[i].to.rev
               /\ \A j \in Faults' : down'[j].to.rev = down'[i].to.rev => i = j
    <3>1. /\ i + 1 \in Faults /\ i \in Nat /\ down'[i] = down[i + 1]
          /\ down[i + 1].to.rev < v.rev /\ down[i + 1].to.rev \in Nat
      BY <1>1, <1>12 DEF FaultsFrom
    <3>2. Accounted(down[i].to)'
      BY <1>3, <1>9, <3>1 DEF Accounted
    <3>3. ASSUME NEW n \in up', Mine(n)' PROVE n.rev # down'[i].to.rev
      <4>1. CASE n \in up
        BY <1>14, <3>1, <3>3, <4>1 DEF Raced, ErrorsInv
      <4>2. CASE n = o
        BY <1>4, <1>8, <3>1, <4>2
      <4> QED BY <1>7, <4>1, <4>2
    <3>4. ASSUME NEW j \in Faults', down'[j].to.rev = down'[i].to.rev PROVE i = j
      <4>1. j + 1 \in Faults /\ j \in Nat /\ down'[j] = down[j + 1]
        BY <1>1 DEF FaultsFrom
      <4>2. i + 1 = j + 1
        BY <3>1, <3>4, <4>1 DEF Raced, ErrorsInv
      <4> QED BY <3>1, <4>1, <4>2
    <3> QED BY <3>2, <3>3, <3>4
  <2> QED BY <2>1 DEF ErrorsInv
<1>17. ForeignInv'
  BY <1>1, <1>3, <1>9, <1>13 DEF ForeignInv
<1> QED BY <1>15, <1>16, <1>17 DEF Raced

\* The revision that is shown again changes nothing.
LEMMA RaceAgain ==
  ASSUME Typed, ViewsFaithful, InFlight, Raced, ReceiveUpdate,
         ~Ignored(down[1].view), down[1].view.match = server.match, ShowsCurrent,
         store.pending # NoCommand, ~(down[1].view.rev > store.pending.rev)
  PROVE  Raced'
<1> DEFINE v == down[1].view
<1>1. /\ server' = server /\ v \in ViewType /\ FaultsFrom(1) /\ Accepted(v)
      /\ ~Ignored(v) /\ v.match = server.match /\ ~(v.rev > store.pending.rev)
  BY ShownStep
<1> HIDE DEF v
<1>2. /\ store'.view = v /\ store'.epoch = store.epoch /\ store'.online = store.online
      /\ v # NoView
  BY <1>1, ClientAssumption DEF Accepted
<1>3. store.pending.match = v.match /\ store.pending.rev = store.view.rev
  BY <1>1 DEF ShowsCurrent, InFlight
<1>4. ~Frees(v) /\ ~Answers(v)
  BY <1>1, <1>3 DEF Frees, Answers
<1>5. store'.pending = store.pending /\ up' = up
  BY <1>1, <1>4 DEF Accepted, Confirms
<1>6. v.rev = store.view.rev
  BY <1>1, <1>3, <1>4, KeptPending
<1>7. (ShowsCurrent' <=> ShowsCurrent) /\ \A m \in up : Mine(m)' <=> Mine(m)
  BY <1>1, <1>2 DEF ShowsCurrent, Mine
<1>8. CommandsInv'
  BY <1>1, <1>2, <1>5, <1>6, <1>7 DEF Raced, CommandsInv, Accounted, Identity
<1>9. ErrorsInv'
  <2>1. ASSUME NEW i \in Faults'
        PROVE  /\ Accounted(down[i].to)'
               /\ \A n \in up' : Mine(n)' => n.rev # down'[i].to.rev
               /\ \A j \in Faults' : down'[j].to.rev = down'[i].to.rev => i = j
    <3>1. i + 1 \in Faults /\ i \in Nat /\ down'[i] = down[i + 1]
      BY <1>1 DEF FaultsFrom
    <3>2. Accounted(down[i].to)'
      BY <1>2, <1>5, <1>6, <1>7, <3>1 DEF Raced, ErrorsInv, Accounted
    <3>3. \A n \in up' : Mine(n)' => n.rev # down'[i].to.rev
      BY <1>5, <1>7, <3>1 DEF Raced, ErrorsInv
    <3>4. ASSUME NEW j \in Faults', down'[j].to.rev = down'[i].to.rev PROVE i = j
      <4>1. j + 1 \in Faults /\ j \in Nat /\ down'[j] = down[j + 1]
        BY <1>1 DEF FaultsFrom
      <4>2. i + 1 = j + 1
        BY <3>1, <3>4, <4>1 DEF Raced, ErrorsInv
      <4> QED BY <3>1, <4>1, <4>2
    <3> QED BY <3>2, <3>3, <3>4
  <2> QED BY <2>1 DEF ErrorsInv
<1>10. ForeignInv'
  <2>1. \A i \in Faults' : i + 1 \in Faults /\ down'[i] = down[i + 1]
    BY <1>1 DEF FaultsFrom
  <2> QED BY <1>1, <1>2, <1>5, <1>6, <1>7, <2>1 DEF Raced, ForeignInv
<1> QED BY <1>8, <1>9, <1>10 DEF Raced

LEMMA CrossedStays ==
  ASSUME Typed, [ClientNext]_clientVars, crossed
  PROVE  crossed'
<1>1. crossed' = crossed => crossed'
  OBVIOUS
<1>2. ASSUME NEW m \in up, Handled(m) PROVE crossed'
  BY <1>1, <1>2, CommandOutcome
<1>3. ASSUME NEW m \in up, NEW mine \in BOOLEAN, HandleStart(m, mine) PROVE crossed'
  BY <1>1, <1>3, StartOutcome
<1>4. ASSUME NEW m \in up, HandleResume(m) PROVE crossed'
  BY <1>1, <1>4, ResumeOutcome
<1>5. ASSUME NEW mine \in BOOLEAN, OtherMoved(mine) PROVE crossed'
  BY <1>1, <1>5, OthersMoveEffect DEF Apart
<1>6. OpponentConnection \/ NoticeDisconnect \/ Forfeit => crossed'
  BY <1>1, OpponentConnectionEffect, NoticeDisconnectEffect, ForfeitEffect DEF Apart
<1>7. ASSUME NEW lost \in SUBSET up, ConnectionLost(lost) PROVE crossed'
  BY <1>1, <1>7, ConnectionLostEffect
<1>8. StartMatch \/ LaunchTimeout \/ Leave \/ Reconnect => crossed'
  BY <1>1, StartEffect, LaunchTimeoutEffect, LeaveEffect, ReconnectEffect
<1>9. ReceiveUpdate \/ ReceiveError \/ ReceiveSession \/ ReceiveRejected => crossed'
  BY <1>1, UpdateEffect, ReceiveErrorEffect, ReceiveSessionEffect, RejectedEffect
<1>10. ASSUME NEW kind \in QueueKind, SendCommand(kind) PROVE crossed'
  BY <1>1, <1>10, SendEffect
<1>11. ASSUME NEW m \in up, RateLimited(m) PROVE crossed'
  BY <1>1, <1>11, RateLimitedEffect
<1>12. Serialize => crossed'
  BY <1>1, SerializeEffect
<1>13. ASSUME NEW v \in taken, Emit(v) PROVE crossed'
  BY <1>1, <1>13, EmitEffect
<1>14. UNCHANGED clientVars => crossed'
  BY <1>1, RestEffect
<1> QED BY <1>2, <1>3, <1>4, <1>5, <1>6, <1>7, <1>8, <1>9, <1>10, <1>11, <1>12, <1>13, <1>14
        DEF ClientNext, Handled, OtherMoved

LEMMA RaceCommand ==
  ASSUME Typed, Typed', ViewsFaithful, Listening, InFlight, Raced, ~Turned(server.match),
         NEW m \in up, Handled(m)
  PROVE  Raced'
<1>1. /\ CommandApplied(m) \/ CommandRefused(m)
      /\ m.kind \in QueueKind \cup {"surrender"} /\ up' = up \ {m} /\ store' = store
  BY CommandOutcome
<1>2. CASE CommandApplied(m) /\ Own(m)
  BY <1>1, <1>2, RaceOwn
<1>3. CASE CommandApplied(m) /\ ~Own(m)
  <2>1. /\ server'.match = server.match /\ server'.foreign = server'.rev /\ up' \subseteq up
    BY <1>1, <1>3, AppliedStep
  <2>2. SameFaults
    BY <1>3, <2>1, CpuFaults DEF CommandApplied
  <2> QED BY <1>1, <2>1, <2>2, RaceForeign
<1>4. CASE CommandRefused(m)
  <2>1. /\ server' = server /\ Error(m) \in NoteType /\ Error(m).kind = "error"
        /\ Error(m).to = Identity(m) /\ Identity(m).kind = m.kind /\ Identity(m).match = m.match
        /\ IF store.online /\ m.epoch = store.epoch
           THEN down' = Append(down, Error(m)) ELSE down' = down
    BY <1>4, NewNotes, MessageFields DEF CommandRefused, Reply
  <2>2. CASE Mine(m) /\ store.online
    BY <1>1, <2>1, <2>2, RaceRefused DEF Mine
  <2>3. CASE ~(Mine(m) /\ store.online)
    <3>1. FaultsFrom(0)
      <4>1. CASE down' = down
        BY <2>1, <4>1, FaultsLess DEF FaultsFrom, Faults, Errors, Typed, DownTyped
      <4>2. CASE m.kind \notin QueueKind \/ m.match # server.match
        BY <2>1, <4>2, FaultsMore
      <4> QED BY <2>1, <2>3, <4>1, <4>2 DEF Mine
    <3> QED BY <1>1, <2>1, <3>1, RaceIdle
  <2> QED BY <2>2, <2>3
<1> QED BY <1>1, <1>2, <1>3, <1>4

LEMMA RaceUpdate ==
  ASSUME Typed, ViewsFaithful, InFlight, Raced, ReceiveUpdate, ~Turned(server.match)'
  PROVE  Raced'
<1> DEFINE v == down[1].view
<1>1. CASE Ignored(v)
  <2>1. server' = server /\ FaultsFrom(1) /\ store' = store /\ up' = up
    BY <1>1, ShownStep
  <2> QED BY <2>1, RaceIdle
<1>2. CASE ~Ignored(v) /\ v.match # server.match
  BY <1>2, RaceElsewhere
<1>3. CASE ~Ignored(v) /\ v.match = server.match /\ ~ShowsCurrent
  BY <1>3, RaceAnew
<1>4. CASE ~Ignored(v) /\ v.match = server.match /\ ShowsCurrent
  BY <1>4, RaceOnward, RaceAgain
<1> QED BY <1>1, <1>2, <1>3, <1>4

LEMMA RacingStep ==
  ASSUME Typed, Typed', ViewsFaithful, Listening, InFlight, Racing, [ClientNext]_clientVars
  PROVE  Racing'
<1> SUFFICES ASSUME Steady' PROVE Raced'
  BY DEF Racing, Raced
<1>1. server'.match = server.match => Raced /\ ~Turned(server.match) /\ ~Turned(server.match)'
  BY CrossedStays, TurnedStays DEF Steady, Racing, Raced
<1>2. ~crossed' /\ ~Turned(server.match)'
  BY DEF Steady
<1>3. ServerRests => server'.match = server.match
  BY DEF ServerRests
<1>4. "start" \notin QueueKind /\ "surrender" \notin QueueKind /\ "resume" \notin QueueKind
  BY DEF QueueKind
<1>5. down' = down => Shifted(0)
  BY WireViewsTyped DEF Shifted
<1>6. ASSUME ServerRests, SameFlight, up' \subseteq up, NEW k \in {0, 1}, Shifted(k)
      PROVE  Raced'
  <2>1. /\ server' = server /\ store'.view = store.view /\ store'.epoch = store.epoch
        /\ store'.online = store.online /\ store'.pending = store.pending
    BY <1>6 DEF ServerRests, SameFlight, SameScreen, SameConnection
  <2>2. FaultsFrom(k)
    BY <1>6, <2>1, FaultsLess
  <2> QED BY <1>1, <1>6, <2>1, <2>2, RaceIdle
<1>7. store' = store => SameFlight
  BY DEF SameFlight, SameScreen, SameConnection, SameMemory
<1>8. ASSUME NEW m \in up, Handled(m) PROVE Raced'
  <2>1. server'.match = server.match
    BY <1>8, CommandOutcome, AppliedStep DEF CommandRefused
  <2> QED BY <1>1, <1>8, <2>1, RaceCommand
<1>9. ASSUME NEW m \in up, NEW mine \in BOOLEAN, HandleStart(m, mine) PROVE Raced'
  <2>1. m.kind = "start" /\ up' = up \ {m} /\ store' = store
    BY <1>9, StartOutcome
  <2>2. CASE Started(m)
    BY <2>1, <2>2, RaceNew
  <2>3. CASE server' = server /\ Reply(m, Error(m))
    <3>1. /\ Error(m) \in NoteType /\ Error(m).to.kind = "start"
          /\ down' = down \/ down' = Append(down, Error(m))
      BY <2>1, <2>3, NewNotes, MessageFields DEF Reply
    <3>2. FaultsFrom(0)
      BY <1>4, <2>3, <3>1, FaultsMore
    <3> QED BY <1>1, <2>1, <2>3, <3>2, RaceIdle
  <2> QED BY <1>9, <2>2, <2>3, StartOutcome
<1>10. ASSUME NEW m \in up, HandleResume(m) PROVE Raced'
  <2>1. /\ up' = up \ {m} /\ store' = store /\ server'.match = server.match
        /\ server'.rev = server.rev /\ server'.foreign = server.foreign
        /\ Reply(m, [kind |-> "rejected"]) \/ Reply(m, Grant(server.token + 1))
    BY <1>10, ResumeOutcome DEF Resumed
  <2>2. /\ [kind |-> "rejected"] \in NoteType /\ [kind |-> "rejected"].kind # "error"
        /\ Grant(server.token + 1) \in NoteType /\ Grant(server.token + 1).kind # "error"
    BY NewNotes, ServerFields
  <2>3. FaultsFrom(0)
    BY <2>1, <2>2, FaultsMore DEF Reply
  <2> QED BY <1>1, <2>1, <2>3, RaceIdle
<1>11. ASSUME NEW mine \in BOOLEAN, OtherMoved(mine) PROVE Raced'
  <2>1. /\ store' = store /\ up' \subseteq up /\ SameFaults /\ server'.match = server.match
        /\ server'.foreign = server'.rev
    BY <1>11, OthersMoveEffect DEF Apart, SameFaults, Faults, Errors
  <2> QED BY <1>1, <2>1, RaceForeign
<1>12. OpponentConnection \/ NoticeDisconnect \/ Forfeit => Raced'
  <2> SUFFICES ASSUME OpponentConnection \/ NoticeDisconnect \/ Forfeit PROVE Raced'
    OBVIOUS
  <2>1. Apart /\ Unmoved
    BY OpponentConnectionEffect, NoticeDisconnectEffect, ForfeitEffect
  <2>2. /\ store' = store /\ up' = up /\ down' = down /\ server'.match = server.match
        /\ server'.rev = server.rev /\ server'.foreign = server.foreign
    BY <2>1 DEF Apart, Unmoved
  <2>3. FaultsFrom(0)
    BY <1>5, <2>2, FaultsLess
  <2> QED BY <1>1, <2>2, <2>3, RaceIdle
<1>13. ASSUME NEW lost \in SUBSET up, ConnectionLost(lost) PROVE Raced'
  <2>1. server'.match = server.match
    BY <1>13, ConnectionLostEffect DEF SameBoard, SameMark
  <2> QED BY <1>1, <1>13, <2>1, RaceLost
<1>14. Reconnect => Raced'
  BY <1>1, <1>3, ReconnectEffect, RaceReconnect
<1>15. StartMatch => Raced'
  <2> SUFFICES ASSUME StartMatch PROVE Raced'
    OBVIOUS
  <2>1. Cleared /\ ServerRests /\ DownLess /\ up' = up \cup {Message("start", 0)}
    BY StartEffect DEF DownLess
  <2>2. Message("start", 0).kind = "start"
    BY DEF Message
  <2>3. \A m \in up' : m.kind \in QueueKind => m \in up
    BY <1>4, <2>1, <2>2
  <2> QED BY <1>1, <1>3, <2>1, <2>3, RaceClear
<1>16. Leave => Raced'
  <2> SUFFICES ASSUME Leave PROVE Raced'
    OBVIOUS
  <2>1. /\ Cleared /\ ServerRests /\ DownLess
        /\ up' \subseteq up \cup {Message("surrender", store.view.rev)}
    BY LeaveEffect DEF DownLess
  <2>2. Message("surrender", store.view.rev).kind = "surrender"
    BY DEF Message
  <2>3. \A m \in up' : m.kind \in QueueKind => m \in up
    BY <1>4, <2>1, <2>2
  <2> QED BY <1>1, <1>3, <2>1, <2>3, RaceClear
<1>17. ReceiveRejected => Raced'
  BY <1>1, <1>3, RejectedEffect, RaceClear DEF DownLess
<1>18. ReceiveUpdate => Raced'
  BY <1>1, <1>3, UpdateEffect, RaceUpdate
<1>19. ReceiveError => Raced'
  <2> SUFFICES ASSUME ReceiveError PROVE Raced'
    OBVIOUS
  <2>1. /\ SameScreen /\ store'.pending = NoCommand /\ ServerRests /\ up' = up
        /\ down # <<>> /\ down' = Tail(down)
        /\ store.pending = NoCommand \/ down[1].to = store.pending
    BY <1>2, ReceiveErrorEffect
  <2>2. CASE store.pending = NoCommand
    <3>1. SameFlight /\ Shifted(1)
      BY <2>1, <2>2, DownIsLess DEF SameFlight, DownLess
    <3> QED BY <1>6, <2>1, <3>1
  <2>3. CASE store.pending # NoCommand /\ down[1].to = store.pending
    BY <1>1, <1>3, <2>1, <2>3, RaceError
  <2> QED BY <2>1, <2>2, <2>3
<1>20. ReceiveSession => Raced'
  <2> SUFFICES ASSUME ReceiveSession PROVE Raced'
    OBVIOUS
  <2>1. SameFlight /\ ServerRests /\ up' = up /\ Shifted(1)
    BY ReceiveSessionEffect, DownIsLess DEF SameFlight, DownLess
  <2> QED BY <1>6, <2>1
<1>21. LaunchTimeout => Raced'
  BY <1>5, <1>6, LaunchTimeoutEffect DEF SameFlight
<1>22. ASSUME NEW kind \in QueueKind, SendCommand(kind) PROVE Raced'
  BY <1>1, <1>3, <1>22, SendEffect, RaceSend
<1>23. ASSUME NEW m \in up, RateLimited(m) PROVE Raced'
  <2>1. SameFlight /\ ServerRests /\ up' \subseteq up /\ Shifted(0)
    BY <1>5, <1>7, <1>23, RateLimitedEffect
  <2> QED BY <1>6, <2>1
<1>24. Serialize => Raced'
  <2> SUFFICES ASSUME Serialize PROVE Raced'
    OBVIOUS
  <2>1. store' = store /\ server' = server /\ up' = up /\ Shifted(0)
    BY <1>5, SerializeEffect
  <2>2. FaultsFrom(0)
    BY <2>1, FaultsLess
  <2> QED BY <1>1, <2>1, <2>2, RaceIdle
<1>25. ASSUME NEW v \in taken, Emit(v) PROVE Raced'
  <2>1. /\ store' = store /\ server' = server /\ up' = up /\ Update(v) \in NoteType
        /\ Update(v).kind # "error" /\ (down' = down \/ down' = Append(down, Update(v)))
    BY <1>25, EmitEffect DEF Update
  <2>2. FaultsFrom(0)
    BY <2>1, FaultsMore
  <2> QED BY <1>1, <2>1, <2>2, RaceIdle
<1>26. UNCHANGED clientVars => Raced'
  BY <1>5, <1>6, <1>7, RestEffect
<1> QED BY <1>8, <1>9, <1>10, <1>11, <1>12, <1>13, <1>14, <1>15, <1>16, <1>17, <1>18, <1>19,
           <1>20, <1>21, <1>22, <1>23, <1>24, <1>25, <1>26
        DEF ClientNext, Handled, OtherMoved

-----------------------------------------------------------------------------
(* The theorems *)

LEMMA ClientInit_Inv ==
  ASSUME ClientInit
  PROVE  ClientInv
<1>1. Typed
  BY TypedInit
<1>2. /\ store.epoch = 1 /\ store.view = NoView /\ store.pending = NoCommand /\ ~store.ignore
      /\ server.match = 0 /\ server.rev = 0 /\ server.room = 0 /\ server.foreign = 0
      /\ up = {} /\ taken = {} /\ down = <<>>
  BY DEF ClientInit
<1>3. Updates = {} /\ Errors = {}
  BY <1>2 DEF Updates, Errors
<1>4. ViewsFaithful /\ Listening
  BY <1>2, <1>3 DEF ViewsFaithful, Listening
<1>5. InFlight /\ Replied /\ Followed
  BY <1>2 DEF InFlight, Replied, Followed, Following
<1>6. Racing
  BY <1>2, <1>3 DEF Racing, CommandsInv, ErrorsInv, ForeignInv, Faults, ShowsCurrent
<1> QED BY <1>1, <1>4, <1>5, <1>6 DEF ClientInv, WireInv

LEMMA ClientNext_Inv ==
  ASSUME ClientInv, [ClientNext]_clientVars
  PROVE  ClientInv'
<1>1. Typed /\ ViewsFaithful /\ Listening /\ InFlight /\ Replied /\ Followed /\ Racing
  BY DEF ClientInv, WireInv
<1>2. Typed'
  BY <1>1, TypedNext
<1>3. ViewsFaithful'
  BY <1>1, <1>2, ViewsFaithfulStep
<1>4. Listening'
  BY <1>1, <1>2, WatchedStep
<1>5. InFlight'
  BY <1>1, <1>2, InFlightStep
<1>6. Replied'
  BY <1>1, <1>2, AnsweredStep
<1>7. Followed'
  BY <1>1, <1>2, FollowedStep
<1>8. Racing'
  BY <1>1, <1>2, RacingStep
<1> QED BY <1>2, <1>3, <1>4, <1>5, <1>6, <1>7, <1>8 DEF ClientInv, WireInv

LEMMA ClientInvariant == ClientSpec => []ClientInv
  BY ClientInit_Inv, ClientNext_Inv, PTL DEF ClientSpec

\* The store, the server and the wire keep to their types: no queue outgrows its
\* bound, no more matches are remembered than MAX_RETIRED_MATCH_IDS, and the
\* store never holds a credential that the server has not issued yet.
THEOREM ClientTypeCorrect == ClientSpec => []ClientTypeOK
<1>1. ASSUME ClientInv PROVE ClientTypeOK
  <2>1. Typed
    BY <1>1 DEF ClientInv
  <2>2. /\ store.retired \in Seq(1 .. MaxMatch) /\ Len(store.retired) <= MaxRetired
        /\ Len(down) <= MaxDown
    BY <2>1 DEF Typed, StoreTyped, StoreType, DownTyped
  <2>3. ToSet(store.retired) \subseteq 1 .. MaxMatch
    BY <2>2, SetOf
  <2>4. store.session \in 0 .. server.token
    BY <2>1, StoreFields, ServerFields
  <2>5. server.away \subseteq {"me", "foe"}
    BY <2>1, ServerFields DEF ServerType, ServerRecord, IsOver
  <2>6. unseen \in 0 .. MaxEpoch
    BY <2>1, RestTyped, StoreFields
  <2> QED BY <2>1, <2>2, <2>3, <2>4, <2>5, <2>6, StoreFields, ServerFields, RestTyped
          DEF ClientTypeOK
<1> QED BY <1>1, ClientInvariant, PTL

\* A match that is shown, or that an earlier update may still bring back, is not
\* among those left: what a broadcast followed is then shown or on its way.
LEMMA QuietIsLatest ==
  ASSUME ClientInv
  PROVE  QuietViewIsLatest
<1> SUFFICES ASSUME store.view # NoView, store.view.match = server.match,
                    server.match \notin strayed, store.online, server.room = store.epoch,
                    due = 0, taken = {}, down = <<>>
             PROVE  /\ store.view.rev \in server.heard .. server.rev
                    /\ store.view.rev = server.rev =>
                          /\ store.view.mine = server.mine
                          /\ store.view.phase \in {server.phase, server.made}
  BY DEF QuietViewIsLatest
<1>1. Typed /\ ViewsFaithful /\ Listening /\ Followed
  BY DEF ClientInv, WireInv
<1>2. Following
  BY <1>1 DEF Listening, Following, Turned
<1>3. ~Carried
  BY DEF Carried, Updates
<1>4. Latest(store.view) /\ Faithful(store.view)
  BY <1>1, <1>2, <1>3 DEF Followed, ViewsFaithful
<1>5. store.view.rev \in Nat /\ server.rev \in Nat /\ server.heard \in Nat
  BY <1>1, ShownFields, ServerFields, ClientAssumption
<1> QED BY <1>4, <1>5 DEF Latest, Faithful, FaithfulTo

\* Once nothing is on the way to a connected store that did not turn away from
\* its match, it shows no revision older than the last one a broadcast followed,
\* whatever order serialize_match and emit let the snapshots come in; and of the
\* newest revision its turn and the phase it has, or began with when the match
\* was forfeited in it.
THEOREM QuietViewAlwaysLatest == ClientSpec => []QuietViewIsLatest
  BY QuietIsLatest, ClientInvariant, PTL

\* The newest snapshot releases a command that the server has passed.
LEMMA LatestReleases ==
  ASSUME ClientInv, store.pending # NoCommand, Passed(store.pending), Following,
         NEW v \in ViewType, Latest(v)
  PROVE  Releases(v)
<1>1. Typed /\ ViewsFaithful /\ InFlight
  BY DEF ClientInv, WireInv
<1>2. ~store.ignore /\ ~Retired(v.match)
  BY <1>1 DEF InFlight, Following, Turned, Latest
<1>3. /\ v.rev \in Nat /\ server.heard \in Nat /\ store.pending.rev \in Nat
      /\ store.view # NoView =>
            store.view.rev = store.pending.rev /\ store.view.match = store.pending.match
  BY <1>1, PendingFields, ServerFields, ClientAssumption DEF InFlight, ViewType
<1>4. v.match = store.pending.match => v.rev > store.pending.rev
  BY <1>3 DEF Passed, Latest
<1>5. ~(store.view # NoView /\ store.view.match = v.match /\ v.rev < store.view.rev)
  BY <1>3, <1>4
<1>6. Frees(v)
  BY <1>4 DEF Frees, Answers
<1> QED BY <1>2, <1>5, <1>6 DEF Releases, Ignored

\* A match that the command has passed is not among those left.
LEMMA PassedFollows ==
  ASSUME ClientInv, store.pending # NoCommand, Passed(store.pending),
         server.room = store.epoch, server.match \notin strayed
  PROVE  Following
<1>1. Typed /\ InFlight /\ Listening
  BY DEF ClientInv, WireInv
<1>2. store.online /\ Past(store.pending) /\ OlderShown(store.pending.match)
  BY <1>1 DEF InFlight
<1>3. ~Retired(server.match)
  <2>1. CASE store.pending.match = server.match /\ store.view = NoView
    <3>1. server.rev = store.pending.rev /\ server.heard > store.pending.rev
      BY <1>1, <2>1 DEF InFlight, Passed
    <3> QED BY <1>1, <3>1, ServerFields, ClientAssumption
  <2>2. CASE store.pending.match = server.match /\ store.view # NoView
    BY <1>1, <2>2 DEF InFlight, Listening
  <2>3. CASE store.pending.match # server.match
    <3>1. server.match > store.pending.match
      BY <1>1, <1>2, <2>3, PendingFields, ServerFields, ClientAssumption DEF Past, PastFor
    <3> QED BY <1>2, <3>1 DEF OlderShown, Retired
  <2> QED BY <2>1, <2>2, <2>3
<1> QED BY <1>2, <1>3 DEF Following, Turned

LEMMA AnswerIsComing ==
  ASSUME ClientInv
  PROVE  PendingIsAnswered
<1> SUFFICES ASSUME store.pending # NoCommand, server.room = store.epoch,
                    server.match \notin strayed
             PROVE  \/ dropped
                    \/ \E m \in up : Identity(m) = store.pending /\ m.epoch = store.epoch
                    \/ \E i \in DOMAIN down : \/ down[i].kind \in {"error", "rejected"}
                                              \/ down[i].kind = "update" /\ Releases(down[i].view)
                    \/ \E v \in taken : Releases(v)
                    \/ due > 0 /\ Releases(View)
  BY DEF PendingIsAnswered
<1>1. Typed /\ InFlight /\ Replied /\ Followed
  BY DEF ClientInv, WireInv
<1>2. CASE dropped \/ Waits(store.pending) \/ Failing
  BY <1>2 DEF Waits, Failing
<1>3. CASE Passed(store.pending)
  <2>1. Following
    BY <1>3, PassedFollows
  <2>2. ~(store.view # NoView /\ Latest(store.view))
    <3>1. server.heard \in Nat
      BY <1>1, ServerFields, ClientAssumption
    <3>2. store.view # NoView => store.view.rev \in Nat
      BY <1>1, ShownFields, ClientAssumption
    <3> QED BY <1>1, <1>3, <3>1, <3>2 DEF InFlight, Latest, Passed
  <2>3. Carried
    BY <1>1, <2>1, <2>2 DEF Followed
  <2>4. CASE due > 0
    <3>1. server.match > 0
      BY <1>1, <2>4, RestTyped
    <3>2. View \in ViewType /\ Latest(View)
      BY <1>1, <3>1, ViewTyped, ServerFields, ClientAssumption DEF Latest, View
    <3> QED BY <1>3, <2>1, <2>4, <3>2, LatestReleases
  <2>5. ASSUME NEW v \in taken, Latest(v) PROVE Releases(v)
    <3>1. v \in ViewType
      BY <1>1, RestTyped
    <3> QED BY <1>3, <2>1, <2>5, <3>1, LatestReleases
  <2>6. ASSUME NEW i \in Updates, Latest(down[i].view)
        PROVE  i \in DOMAIN down /\ down[i].kind = "update" /\ Releases(down[i].view)
    <3>1. down[i].view \in ViewType
      BY <1>1, WireViewsTyped
    <3>2. Releases(down[i].view)
      BY <1>3, <2>1, <2>6, <3>1, LatestReleases
    <3> QED BY <3>2 DEF Updates
  <2> QED BY <2>3, <2>4, <2>5, <2>6 DEF Carried
<1> QED BY <1>1, <1>2, <1>3 DEF Replied

\* The controls are never locked for nothing: while a command is in flight over a
\* connection the server broadcasts to, that very command, an error, or a
\* snapshot that receiveBattleState takes and that releases it is on the way,
\* unless the rate limit swallowed it or the store turned away from the match.
THEOREM PendingAlwaysAnswered == ClientSpec => []PendingIsAnswered
  BY AnswerIsComing, ClientInvariant, PTL

LEMMA StaleIsOvertaken ==
  ASSUME ClientInv
  PROVE  StaleOnlyIfOvertaken
<1> SUFFICES ASSUME ~crossed, server.match \notin strayed, NEW m \in up,
                    m.kind \in QueueKind, m.epoch = store.epoch, store.view # NoView,
                    m.match = store.view.match, m.match = server.match, m.rev < server.rev
             PROVE  server.foreign > m.rev
  BY DEF StaleOnlyIfOvertaken
<1>1. Listening /\ Racing
  BY DEF ClientInv, WireInv
<1>2. Steady
  BY <1>1 DEF Listening, Steady, Turned
<1> QED BY <1>1, <1>2 DEF Racing, CommandsInv, Mine

\* The store never races its own commands: one that the server will refuse as
\* stale was overtaken by the opponent, the timer or an earlier connection, as
\* long as each error released the command it was about and the store did not
\* turn away from the match.
THEOREM StaleAlwaysOvertaken == ClientSpec => []StaleOnlyIfOvertaken
  BY StaleIsOvertaken, ClientInvariant, PTL

=============================================================================
