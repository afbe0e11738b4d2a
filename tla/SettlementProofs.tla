-------------------------- MODULE SettlementProofs --------------------------
(***************************************************************************)
(* Settlement for any number of players, missions, drains and matches:     *)
(* what is removed is durable, a profile is what its settled rows say, and *)
(* the outbox implements SettlementContract.  The last two need what       *)
(* CleanupOvertakes denies the server: that no room goes while a handler   *)
(* without its lock still has progress of it to store.                     *)
(***************************************************************************)
EXTENDS Settlement, FiniteSetTheorems, TLAPS

-----------------------------------------------------------------------------
(* Types, as far as the arguments below need them *)

Row == [status : Statuses, progress : Progress, retries : Nat, due : Int,
        holder : SUBSET Drain, lease : Int]

Stage == {"idle", "claim", "merge", "failed_retryable", "dead_letter"}

Job == [at : Stage, key : Key \cup {NoKey}, progress : Progress, retries : Nat]

ProfileState == [completed : SUBSET Mission, first : [Mission -> Int], team : Int, team_at : Int]

RoomStatus == {"none", "playing", "finished", "lost", "removed"}

Typed ==
  /\ begun \in Nat
  /\ room \in [Match -> RoomStatus]
  /\ handoff \subseteq Key /\ snapshotted \subseteq Key
  /\ row \in [Key -> Row]
  /\ profile \in [Player -> ProfileState]
  /\ drain \in [Drain -> Job]
  /\ \A d \in Drain : drain[d].at \in {"merge", "failed_retryable", "dead_letter"} =>
                        drain[d].key \in Key

LEMMA KeyParts ==
  /\ \A k \in Key : k[1] \in Match /\ k[2] \in Player /\ k = <<k[1], k[2]>>
  /\ \A m \in Match, p \in Player : <<m, p>> \in Key
  /\ \A m \in Match : m \in Nat /\ m > 0
BY DEF Key, Match

LEMMA RowFields ==
  ASSUME NEW r \in Row
  PROVE  /\ r.status \in Statuses /\ r.progress \in Progress /\ r.retries \in Nat
         /\ r.due \in Int /\ r.holder \in SUBSET Drain /\ r.lease \in Int
BY DEF Row

LEMMA JobFields ==
  ASSUME NEW j \in Job
  PROVE  /\ j.at \in Stage /\ j.key \in Key \cup {NoKey}
         /\ j.progress \in Progress /\ j.retries \in Nat
BY DEF Job

LEMMA ReleasedRow ==
  ASSUME NEW r \in Row, NEW s \in Statuses, NEW n \in Nat, NEW t \in Int
  PROVE  /\ Released(r, s, n, t) \in Row
         /\ Released(r, s, n, t).status = s
         /\ Released(r, s, n, t).progress = r.progress
<1> DEFINE q == [r EXCEPT !.status = s, !.retries = n, !.due = t]
<1>1. q \in Row /\ q.status = s /\ q.progress = r.progress
  BY DEF Row
<1>2. Released(r, s, n, t) = [q EXCEPT !.holder = {}, !.lease = 0]
  BY DEF Released
<1> HIDE DEF q
<1>3. [q EXCEPT !.holder = {}, !.lease = 0].status = q.status
  BY <1>1 DEF Row
<1>4. [q EXCEPT !.holder = {}, !.lease = 0].progress = q.progress
  BY <1>1 DEF Row
<1>5. [q EXCEPT !.holder = {}, !.lease = 0] \in Row
  <2>1. {} \in SUBSET Drain /\ 0 \in Int
    OBVIOUS
  <2>2. \A h \in SUBSET Drain, l \in Int : [q EXCEPT !.holder = h, !.lease = l] \in Row
    BY <1>1 DEF Row
  <2> QED BY <2>1, <2>2
<1> QED BY <1>1, <1>2, <1>3, <1>4, <1>5

LEMMA EnqueuedRow ==
  ASSUME Typed, NEW k \in Key, NEW progress \in Progress
  PROVE  /\ Enqueued(k, progress) \in Row
         /\ Enqueued(k, progress).progress = progress
         /\ Enqueued(k, progress).status =
              IF row[k].status \in {"settled", "processing", "dead_letter"}
              THEN row[k].status ELSE "pending"
<1> DEFINE r == [row[k] EXCEPT !.progress = progress]
<1>1. r \in Row /\ r.progress = progress /\ r.status = row[k].status /\ r.retries \in Nat
  BY DEF Typed, Row
<1>2. Enqueued(k, progress) =
        IF r.status \in {"settled", "processing", "dead_letter"} THEN r
        ELSE Released(r, "pending", r.retries, 0)
  BY DEF Enqueued
<1> HIDE DEF r
<1>3. "pending" \in Statuses
  BY DEF Statuses
<1>4. CASE r.status \in {"settled", "processing", "dead_letter"}
  BY <1>1, <1>2, <1>4
<1>5. CASE r.status \notin {"settled", "processing", "dead_letter"}
  <2>1. /\ Released(r, "pending", r.retries, 0) \in Row
        /\ Released(r, "pending", r.retries, 0).status = "pending"
        /\ Released(r, "pending", r.retries, 0).progress = r.progress
    BY <1>1, <1>3, ReleasedRow
  <2> QED BY <1>1, <1>2, <1>5, <2>1
<1> QED BY <1>4, <1>5

LEMMA ReclaimedRow ==
  ASSUME NEW r \in Row
  PROVE  /\ Reclaimed(r) \in Row
         /\ Reclaimed(r).progress = r.progress
         /\ \/ Reclaimed(r).status = r.status
            \/ r.status = "processing" /\ Reclaimed(r).status = "failed_retryable"
<1>1. CASE r.status = "processing" /\ r.lease = 0
  <2>1. "failed_retryable" \in Statuses /\ r.retries \in Nat
    BY RowFields DEF Statuses
  <2>2. Reclaimed(r) = Released(r, "failed_retryable", r.retries, 0)
    BY <1>1 DEF Reclaimed
  <2> QED BY <1>1, <2>1, <2>2, ReleasedRow
<1>2. CASE ~(r.status = "processing" /\ r.lease = 0)
  BY <1>2 DEF Reclaimed
<1> QED BY <1>1, <1>2

LEMMA DelayInLimits ==
  ASSUME NEW n \in Nat
  PROVE  Delay(n + 1) \in 0 .. MaxDelay
<1> DEFINE e == Lesser(n, 8)
<1>1. e \in {0, 1, 2, 3, 4, 5, 6, 7, 8}
  BY DEF Lesser
<1>2. 2 ^ e \in Nat
  <2> HIDE DEF e
  <2>1. /\ 2 ^ 0 \in Nat /\ 2 ^ 1 \in Nat /\ 2 ^ 2 \in Nat
        /\ 2 ^ 3 \in Nat /\ 2 ^ 4 \in Nat /\ 2 ^ 5 \in Nat
        /\ 2 ^ 6 \in Nat /\ 2 ^ 7 \in Nat /\ 2 ^ 8 \in Nat
    OBVIOUS
  <2> QED BY <1>1, <2>1, Zenon
<1>3. (n + 1) - 1 = n /\ MaxDelay \in Nat
  BY ConstantsAssumption
<1>4. Delay(n + 1) = Lesser(MaxDelay, 2 ^ e)
  BY <1>3 DEF Delay
<1> HIDE DEF e
<1> QED BY <1>2, <1>3, <1>4 DEF Lesser

LEMMA FailedRow ==
  ASSUME Typed, NEW d \in Drain, drain[d].at \in {"failed_retryable", "dead_letter"}, NEW r \in Row
  PROVE  /\ Failed(d, r) \in Row
         /\ Failed(d, r).status = drain[d].at
         /\ Failed(d, r).progress = r.progress
<1>1. drain[d].retries \in Nat /\ drain[d].at \in Statuses /\ drain[d].retries + 1 \in Nat
  BY JobFields DEF Typed, Statuses
<1>2. Delay(drain[d].retries + 1) \in 0 .. MaxDelay
  BY <1>1, DelayInLimits
<1>3. Delay(drain[d].retries + 1) \in Int
  BY <1>2
<1> QED BY <1>1, <1>3, ReleasedRow DEF Failed

(* What a claim leaves: everything reclaimed, and one row claimed or none.  *)
LEMMA ClaimedRows ==
  ASSUME Typed, NEW d \in Drain, NEW who, NEW force, Claim(d, who, force)
  PROVE  /\ row' \in [Key -> Row]
         /\ \A j \in Key :
              /\ row'[j].progress = row[j].progress
              /\ \/ row'[j].status = row[j].status
                 \/ row[j].status = "processing" /\ row'[j].status = "failed_retryable"
                 \/ /\ row[j].status \in {"pending", "failed_retryable", "processing"}
                    /\ row'[j].status = "processing"
         /\ drain' \in [Drain -> Job]
         /\ \A e \in Drain :
              drain'[e] = drain[e]
              \/ drain'[e].at = "idle"
              \/ /\ drain'[e].at = "merge" /\ drain'[e].key \in Key
                 /\ drain'[e].progress = row[drain'[e].key].progress
                 /\ row[drain'[e].key].status # "absent"
<1> DEFINE rows == [k \in Key |-> Reclaimed(row[k])]
           candidates == {k \in Key : /\ k[2] \in who
                                      /\ rows[k].status \in {"pending", "failed_retryable"}
                                      /\ (force \/ rows[k].due = 0)}
<1>1. /\ rows \in [Key -> Row]
      /\ \A j \in Key : /\ rows[j].progress = row[j].progress
                        /\ \/ rows[j].status = row[j].status
                           \/ row[j].status = "processing" /\ rows[j].status = "failed_retryable"
  <2> SUFFICES ASSUME NEW j \in Key
               PROVE  /\ Reclaimed(row[j]) \in Row
                      /\ Reclaimed(row[j]).progress = row[j].progress
                      /\ \/ Reclaimed(row[j]).status = row[j].status
                         \/ /\ row[j].status = "processing"
                            /\ Reclaimed(row[j]).status = "failed_retryable"
    OBVIOUS
  <2>1. row[j] \in Row
    BY DEF Typed
  <2> QED BY <2>1, ReclaimedRow
<1>2. Idle \in Job /\ Idle.at = "idle"
  BY DEF Idle, Free, Job, Stage, Progress
<1>3. \/ /\ candidates = {}
         /\ row' = rows
         /\ drain' = [drain EXCEPT ![d] = Idle]
      \/ \E k \in candidates :
           /\ row' = [rows EXCEPT ![k].status = "processing",
                                  ![k].holder = {d}, ![k].lease = Lease]
           /\ drain' = [drain EXCEPT ![d] =
                          [at |-> "merge", key |-> k, progress |-> rows[k].progress,
                           retries |-> rows[k].retries]]
  BY DEF Claim
<1> HIDE DEF rows
<1>4. CASE row' = rows /\ drain' = [drain EXCEPT ![d] = Idle]
  BY <1>1, <1>2, <1>4 DEF Typed
<1>5. CASE \E k \in candidates :
             /\ row' = [rows EXCEPT ![k].status = "processing",
                                    ![k].holder = {d}, ![k].lease = Lease]
             /\ drain' = [drain EXCEPT ![d] =
                            [at |-> "merge", key |-> k, progress |-> rows[k].progress,
                             retries |-> rows[k].retries]]
  <2>1. PICK k \in Key :
          /\ rows[k].status \in {"pending", "failed_retryable"}
          /\ row' = [rows EXCEPT ![k].status = "processing",
                                 ![k].holder = {d}, ![k].lease = Lease]
          /\ drain' = [drain EXCEPT ![d] =
                         [at |-> "merge", key |-> k, progress |-> rows[k].progress,
                          retries |-> rows[k].retries]]
    BY <1>5
  <2> DEFINE claimed == [rows[k] EXCEPT !.status = "processing", !.holder = {d}, !.lease = Lease]
  <2>2. claimed \in Row /\ claimed.status = "processing" /\ claimed.progress = rows[k].progress
    <3>1. rows[k] \in Row /\ {d} \in SUBSET Drain /\ Lease \in Int /\ "processing" \in Statuses
      BY <1>1, ConstantsAssumption DEF Statuses
    <3> QED BY <3>1 DEF Row
  <2>3. row' = [rows EXCEPT ![k] = claimed]
    BY <1>1, <2>1
  <2> HIDE DEF claimed
  <2>4. row' \in [Key -> Row] /\ \A j \in Key : row'[j] = IF j = k THEN claimed ELSE rows[j]
    BY <1>1, <2>2, <2>3
  <2>5. \A j \in Key :
          /\ row'[j].progress = row[j].progress
          /\ \/ row'[j].status = row[j].status
             \/ row[j].status = "processing" /\ row'[j].status = "failed_retryable"
             \/ /\ row[j].status \in {"pending", "failed_retryable", "processing"}
                /\ row'[j].status = "processing"
    BY <1>1, <2>1, <2>2, <2>4
  <2> DEFINE job == [at |-> "merge", key |-> k, progress |-> rows[k].progress,
                     retries |-> rows[k].retries]
  <2>6. job \in Job /\ job.at = "merge" /\ job.key = k /\ job.progress = row[k].progress
    <3>1. rows[k].progress \in Progress /\ rows[k].retries \in Nat
      BY <1>1, RowFields
    <3> QED BY <1>1, <3>1 DEF Job, Stage
  <2>7. drain' = [drain EXCEPT ![d] = job]
    BY <2>1
  <2> HIDE DEF job
  <2>8. drain' \in [Drain -> Job] /\ \A e \in Drain : drain'[e] = IF e = d THEN job ELSE drain[e]
    BY <2>6, <2>7 DEF Typed
  <2>9. row[k].status # "absent"
    BY <1>1, <2>1
  <2> QED BY <2>4, <2>5, <2>6, <2>8, <2>9
<1> QED BY <1>3, <1>4, <1>5

LEMMA MergedProfile ==
  ASSUME NEW old \in ProfileState, NEW k \in Key, NEW progress \in Progress
  PROVE  /\ Merged(old, k, progress) \in ProfileState
         /\ Merged(old, k, progress).completed = old.completed \cup Reported(k, progress)
<1>1. Reported(k, progress) \in SUBSET Mission
  BY ConstantsAssumption DEF Reported
<1>2. FinishOf(k[1]) \in Int /\ k[1] \in Int
  BY KeyParts DEF FinishOf
<1>3. /\ old.completed \in SUBSET Mission /\ old.first \in [Mission -> Int]
      /\ old.team \in Int /\ old.team_at \in Int
  BY DEF ProfileState
<1>4. FirstCompletion(old.first, Reported(k, progress), FinishOf(k[1])) \in [Mission -> Int]
  BY <1>2, <1>3 DEF FirstCompletion
<1> QED BY <1>1, <1>2, <1>3, <1>4 DEF Merged, ProfileState

LEMMA TypedInit == Init => Typed
<1> SUFFICES ASSUME Init PROVE Typed
  OBVIOUS
<1>1. NoRow \in Row
  BY DEF NoRow, Row, Statuses, Progress
<1>2. EmptyProfile \in ProfileState
  BY DEF EmptyProfile, ProfileState, Never
<1>3. Idle \in Job /\ Idle.at = "idle"
  BY DEF Idle, Free, Job, Stage, Progress
<1> QED BY <1>1, <1>2, <1>3 DEF Init, Typed, RoomStatus

LEMMA FreeJob ==
  /\ Free("claim") \in Job /\ Free("claim").at = "claim"
  /\ Idle \in Job /\ Idle.at = "idle"
BY DEF Idle, Free, Job, Stage, Progress

LEMMA TypedNext == Typed /\ [Next]_vars => Typed'
<1> SUFFICES ASSUME Typed, [Next]_vars PROVE Typed'
  OBVIOUS
<1> USE DEF Typed
<1>1. ASSUME NEW m \in Match, StartMatch(m) PROVE Typed'
  <2>1. PICK choosing \in SUBSET Player :
          profile' = [p \in Player |->
            IF p \in choosing THEN [profile[p] EXCEPT !.team = m, !.team_at = StartOf(m)]
            ELSE profile[p]]
    BY <1>1 DEF StartMatch
  <2>2. profile' \in [Player -> ProfileState]
    <3> SUFFICES ASSUME NEW p \in Player
                 PROVE  [profile[p] EXCEPT !.team = m, !.team_at = StartOf(m)] \in ProfileState
      BY <2>1
    <3>1. m \in Int /\ StartOf(m) \in Int /\ profile[p] \in ProfileState
      BY KeyParts DEF StartOf
    <3> QED BY <3>1 DEF ProfileState
  <2>3. begun' \in Nat /\ room' \in [Match -> RoomStatus]
    BY <1>1, KeyParts DEF StartMatch, RoomStatus
  <2> QED BY <1>1, <2>2, <2>3 DEF StartMatch, faultVars
<1>2. ASSUME NEW m \in Match, EndMatch(m) \/ NothingMissing(m) \/ RemoveRoom(m) PROVE Typed'
  <2>1. room' \in [Match -> RoomStatus]
    BY <1>2 DEF EndMatch, NothingMissing, RemoveRoom, RoomStatus
  <2>2. snapshotted' \subseteq Key
    BY <1>2 DEF EndMatch, NothingMissing, RemoveRoom, Mark
  <2> QED BY <1>2, <2>1, <2>2 DEF EndMatch, NothingMissing, RemoveRoom, storeVars, faultVars
<1>3. ASSUME NEW k \in Key, SnapshotFails(k) \/ FindMissing(k) PROVE Typed'
  BY <1>3 DEF SnapshotFails, FindMissing, storeVars, faultVars
<1>4. ASSUME NEW k \in Key, Snapshot(k) \/ Reconstruct(k) PROVE Typed'
  <2>1. PICK progress \in Progress : row' = [row EXCEPT ![k] = Enqueued(k, progress)]
    BY <1>4 DEF Snapshot, Reconstruct, Progress
  <2>2. row' \in [Key -> Row]
    BY <2>1, EnqueuedRow
  <2>3. handoff' \subseteq Key /\ snapshotted' \subseteq Key
    BY <1>4 DEF Snapshot, Reconstruct, Mark
  <2> QED BY <1>4, <2>2, <2>3 DEF Snapshot, Reconstruct, faultVars
<1>5. ASSUME NEW k \in Key, Redrive(k) PROVE Typed'
  <2>1. row[k] \in Row /\ "pending" \in Statuses
    BY DEF Statuses
  <2>2. Released(row[k], "pending", 0, 0) \in Row
    BY <2>1, ReleasedRow
  <2>3. row' \in [Key -> Row]
    BY <1>5, <2>2 DEF Redrive
  <2> QED BY <1>5, <2>3 DEF Redrive, memoryVars
<1>6. ASSUME NEW d \in Drain, NEW who, NEW force, Claim(d, who, force) PROVE Typed'
  <2>1. row' \in [Key -> Row] /\ drain' \in [Drain -> Job]
    BY <1>6, ClaimedRows
  <2>2. \A e \in Drain : \/ drain'[e] = drain[e]
                         \/ drain'[e].at = "idle"
                         \/ drain'[e].key \in Key
    BY <1>6, ClaimedRows
  <2> QED BY <1>6, <2>1, <2>2 DEF Claim, memoryVars
<1>7. ASSUME NEW d \in Drain, CommitMerge(d) PROVE Typed'
  <2>1. drain' \in [Drain -> Job]
    BY <1>7, FreeJob DEF CommitMerge
  <2>2. \A e \in Drain : drain'[e] = drain[e] \/ drain'[e].at = "claim"
    BY <1>7, FreeJob DEF CommitMerge
  <2>3. drain[d].key \in Key /\ drain[d].progress \in Progress
    BY <1>7, JobFields DEF CommitMerge
  <2> DEFINE k == drain[d].key
             after == Merged(profile[k[2]], k, drain[d].progress)
             settled == Released(row[k], "settled", row[k].retries, 0)
  <2>4. k[2] \in Player /\ profile[k[2]] \in ProfileState
    BY <2>3, KeyParts
  <2>5. after \in ProfileState
    BY <2>3, <2>4, MergedProfile
  <2>6. settled \in Row
    <3>1. row[k] \in Row /\ row[k].retries \in Nat /\ "settled" \in Statuses
      BY <2>3, RowFields DEF Statuses
    <3> QED BY <3>1, ReleasedRow
  <2>7. \/ profile' = [profile EXCEPT ![k[2]] = after] /\ row' = [row EXCEPT ![k] = settled]
        \/ profile' = profile /\ row' = row
    BY <1>7 DEF CommitMerge, storeVars
  <2> HIDE DEF k, after, settled
  <2>8. profile' \in [Player -> ProfileState] /\ row' \in [Key -> Row]
    BY <2>4, <2>5, <2>6, <2>7
  <2> QED BY <1>7, <2>1, <2>2, <2>8 DEF CommitMerge, memoryVars
<1>8. ASSUME NEW d \in Drain, MergeFails(d) PROVE Typed'
  <2>1. PICK at \in {"failed_retryable", "dead_letter"} : drain' = [drain EXCEPT ![d].at = at]
    BY <1>8 DEF MergeFails
  <2>2. drain[d] \in Job /\ drain[d].key \in Key
    BY <1>8 DEF MergeFails
  <2>3. [drain[d] EXCEPT !.at = at] \in Job /\ [drain[d] EXCEPT !.at = at].key = drain[d].key
    BY <2>2 DEF Job, Stage
  <2>4. drain' = [drain EXCEPT ![d] = [drain[d] EXCEPT !.at = at]]
    BY <2>1
  <2>5. /\ drain' \in [Drain -> Job]
        /\ \A e \in Drain : drain'[e] = drain[e] \/ drain'[e].key \in Key
    BY <2>2, <2>3, <2>4
  <2> QED BY <1>8, <2>5 DEF MergeFails, memoryVars, storeVars
<1>9. ASSUME NEW d \in Drain, FailClaim(d) PROVE Typed'
  <2>1. drain' \in [Drain -> Job] /\ \A e \in Drain : drain'[e] = drain[e] \/ drain'[e].at = "claim"
    BY <1>9, FreeJob DEF FailClaim
  <2>2. drain[d].key \in Key /\ row[drain[d].key] \in Row
    BY <1>9 DEF FailClaim
  <2>3. Failed(d, row[drain[d].key]) \in Row
    BY <1>9, <2>2, FailedRow DEF FailClaim
  <2>4. row' \in [Key -> Row]
    BY <1>9, <2>2, <2>3 DEF FailClaim, GiveBack
  <2> QED BY <1>9, <2>1, <2>4 DEF FailClaim, memoryVars, faultVars
<1>10. ASSUME NEW d \in Drain, DrainRaises(d) PROVE Typed'
  BY <1>10, FreeJob DEF DrainRaises, memoryVars, storeVars
<1>11. CASE Crash
  <2>1. room' \in [Match -> RoomStatus]
    BY <1>11 DEF Crash, RoomStatus
  <2> QED BY <1>11, <2>1, FreeJob DEF Crash, storeVars
<1>12. CASE Tick
  <2>1. \A k \in Key : [row[k] EXCEPT !.due = Earlier(@), !.lease = Earlier(@)] \in Row
    <3> SUFFICES ASSUME NEW k \in Key
                 PROVE  [row[k] EXCEPT !.due = Earlier(@), !.lease = Earlier(@)] \in Row
      OBVIOUS
    <3>1. row[k] \in Row /\ Earlier(row[k].due) \in Int /\ Earlier(row[k].lease) \in Int
      BY RowFields DEF Earlier
    <3> QED BY <3>1 DEF Row
  <2> QED BY <1>12, <2>1 DEF Tick, memoryVars
<1>13. CASE UNCHANGED vars
  BY <1>13 DEF vars, memoryVars, storeVars, faultVars
<1> QED BY <1>1, <1>2, <1>3, <1>4, <1>5, <1>6, <1>7, <1>8, <1>9, <1>10, <1>11, <1>12, <1>13
       DEF Next

-----------------------------------------------------------------------------
(* Types with their limits *)

(* No backoff is longer than the longest, and who claimed a row holds it.   *)
RowLimits(r) ==
  /\ r.due \in 0 .. MaxDelay /\ r.lease \in 0 .. Lease
  /\ IF r.status = "processing" THEN \E d \in Drain : r.holder = {d} ELSE r.holder = {}

ProfileLimits(q) ==
  /\ q.first \in [Mission -> 0 .. FinishOf(MatchCount)]
  /\ q.team \in 0 .. MatchCount /\ q.team_at \in 0 .. FinishOf(MatchCount)

Limits ==
  /\ begun <= MatchCount /\ retry \subseteq Match
  /\ \A k \in Key : RowLimits(row[k])
  /\ \A p \in Player : ProfileLimits(profile[p])
  /\ events \subseteq Key \X Mission
  /\ faults \in 0 .. MaxFaults /\ repaired \subseteq Key

LEMMA ReleasedLimits ==
  ASSUME NEW r \in Row, NEW s \in Statuses \ {"processing"}, NEW n \in Nat, NEW t \in 0 .. MaxDelay
  PROVE  RowLimits(Released(r, s, n, t))
<1>1. /\ Released(r, s, n, t).due = t /\ Released(r, s, n, t).lease = 0
      /\ Released(r, s, n, t).holder = {} /\ Released(r, s, n, t).status = s
  <2> DEFINE q == [r EXCEPT !.status = s, !.retries = n, !.due = t]
  <2>1. q \in Row /\ q.status = s /\ q.due = t
    <3>1. t \in Int /\ s \in Statuses
      OBVIOUS
    <3> QED BY <3>1 DEF Row
  <2>2. Released(r, s, n, t) = [q EXCEPT !.holder = {}, !.lease = 0]
    BY DEF Released
  <2> HIDE DEF q
  <2> QED BY <2>1, <2>2 DEF Row
<1> QED BY <1>1, ConstantsAssumption DEF RowLimits

LEMMA StatusNames ==
  {"pending", "failed_retryable", "dead_letter", "settled"} \subseteq Statuses \ {"processing"}
BY DEF Statuses

LEMMA ZeroDelay == 0 \in 0 .. MaxDelay /\ Lease \in 0 .. Lease /\ Lease \in Nat /\ MaxDelay \in Nat
BY ConstantsAssumption

LEMMA EnqueuedLimits ==
  ASSUME Typed, NEW k \in Key, RowLimits(row[k]), NEW progress \in Progress
  PROVE  RowLimits(Enqueued(k, progress))
<1> DEFINE r == [row[k] EXCEPT !.progress = progress]
<1>1. /\ r \in Row /\ r.status = row[k].status /\ r.retries \in Nat
      /\ r.due = row[k].due /\ r.lease = row[k].lease /\ r.holder = row[k].holder
  BY DEF Typed, Row
<1>2. Enqueued(k, progress) =
        IF r.status \in {"settled", "processing", "dead_letter"} THEN r
        ELSE Released(r, "pending", r.retries, 0)
  BY DEF Enqueued
<1> HIDE DEF r
<1>3. RowLimits(r)
  BY <1>1 DEF RowLimits
<1>4. RowLimits(Released(r, "pending", r.retries, 0))
  BY <1>1, StatusNames, ZeroDelay, ReleasedLimits
<1> QED BY <1>2, <1>3, <1>4

LEMMA ReclaimedLimits ==
  ASSUME NEW r \in Row, RowLimits(r)
  PROVE  RowLimits(Reclaimed(r))
<1>1. RowLimits(Released(r, "failed_retryable", r.retries, 0))
  BY RowFields, StatusNames, ZeroDelay, ReleasedLimits
<1> QED BY <1>1 DEF Reclaimed

LEMMA FailedLimits ==
  ASSUME Typed, NEW d \in Drain, drain[d].at \in {"failed_retryable", "dead_letter"}, NEW r \in Row
  PROVE  RowLimits(Failed(d, r))
<1>1. drain[d].retries \in Nat /\ drain[d].retries + 1 \in Nat
  BY JobFields DEF Typed
<1>2. Delay(drain[d].retries + 1) \in 0 .. MaxDelay
  BY <1>1, DelayInLimits
<1> QED BY <1>1, <1>2, StatusNames, ReleasedLimits DEF Failed

LEMMA AgedLimits ==
  ASSUME NEW r \in Row, RowLimits(r)
  PROVE  RowLimits([r EXCEPT !.due = Earlier(@), !.lease = Earlier(@)])
<1> DEFINE q == [r EXCEPT !.due = Earlier(@), !.lease = Earlier(@)]
<1>1. /\ q.due = Earlier(r.due) /\ q.lease = Earlier(r.lease)
      /\ q.status = r.status /\ q.holder = r.holder
  BY DEF Row
<1>2. Earlier(r.due) \in 0 .. MaxDelay /\ Earlier(r.lease) \in 0 .. Lease
  BY ZeroDelay DEF RowLimits, Earlier
<1> HIDE DEF q
<1> QED BY <1>1, <1>2 DEF RowLimits

LEMMA TimesInLimits ==
  ASSUME NEW m \in Match
  PROVE  /\ m \in 0 .. MatchCount
         /\ StartOf(m) \in 0 .. FinishOf(MatchCount) /\ FinishOf(m) \in 0 .. FinishOf(MatchCount)
BY KeyParts, ConstantsAssumption DEF Match, StartOf, FinishOf

LEMMA MergedLimits ==
  ASSUME NEW old \in ProfileState, ProfileLimits(old), NEW k \in Key, NEW progress \in Progress
  PROVE  ProfileLimits(Merged(old, k, progress))
<1>1. k[1] \in 0 .. MatchCount /\ FinishOf(k[1]) \in 0 .. FinishOf(MatchCount)
  BY KeyParts, TimesInLimits
<1>2. FirstCompletion(old.first, Reported(k, progress), FinishOf(k[1]))
        \in [Mission -> 0 .. FinishOf(MatchCount)]
  BY <1>1 DEF FirstCompletion, ProfileLimits
<1> QED BY <1>1, <1>2 DEF Merged, ProfileLimits

LEMMA LimitsInit == Init => Limits
<1> SUFFICES ASSUME Init PROVE Limits
  OBVIOUS
<1>1. RowLimits(NoRow)
  BY ZeroDelay DEF NoRow, RowLimits
<1>2. ProfileLimits(EmptyProfile)
  BY ConstantsAssumption DEF EmptyProfile, ProfileLimits, Never, FinishOf
<1>3. MatchCount \in Nat /\ MaxFaults \in Nat
  BY ConstantsAssumption
<1> QED BY <1>1, <1>2, <1>3 DEF Init, Limits

LEMMA StalledCounted == Cardinality(Stalled) \in Nat
<1>1. IsFiniteSet(Match) /\ IsFiniteSet(Player)
  BY FS_Interval, ConstantsAssumption DEF Match
<1>2. IsFiniteSet(Key)
  BY <1>1, FS_Product DEF Key
<1>3. IsFiniteSet(Stalled)
  BY <1>2, FS_Subset DEF Stalled
<1> QED BY <1>3, FS_CardinalityType

LEMMA FaultLimits == Limits /\ Fault => faults' \in 0 .. MaxFaults
BY ConstantsAssumption DEF Limits, Fault

LEMMA LimitsNext == Typed /\ Limits /\ [Next]_vars => Limits'
<1> SUFFICES ASSUME Typed, Limits, [Next]_vars PROVE Limits'
  OBVIOUS
<1>r. \A k \in Key : row[k] \in Row /\ RowLimits(row[k])
  BY DEF Typed, Limits
<1>p. \A p \in Player : profile[p] \in ProfileState /\ ProfileLimits(profile[p])
  BY DEF Typed, Limits
<1>1. ASSUME NEW m \in Match, StartMatch(m) PROVE Limits'
  <2>1. PICK choosing \in SUBSET Player :
          profile' = [p \in Player |->
            IF p \in choosing THEN [profile[p] EXCEPT !.team = m, !.team_at = StartOf(m)]
            ELSE profile[p]]
    BY <1>1 DEF StartMatch
  <2>2. ASSUME NEW p \in Player
        PROVE  ProfileLimits([profile[p] EXCEPT !.team = m, !.team_at = StartOf(m)])
    BY <1>p, TimesInLimits DEF ProfileLimits, ProfileState
  <2>3. \A p \in Player : ProfileLimits(profile'[p])
    BY <1>p, <2>1, <2>2
  <2>4. begun' <= MatchCount
    <3>1. begun' = m
      BY <1>1 DEF StartMatch
    <3>2. m <= MatchCount
      BY TimesInLimits, ConstantsAssumption
    <3> QED BY <3>1, <3>2
  <2> QED BY <1>1, <2>3, <2>4 DEF StartMatch, faultVars, Limits
<1>2. ASSUME NEW m \in Match, EndMatch(m) \/ NothingMissing(m) \/ RemoveRoom(m) PROVE Limits'
  BY <1>2 DEF EndMatch, NothingMissing, RemoveRoom, Mark, Limits, storeVars, faultVars
<1>3. ASSUME NEW k \in Key, SnapshotFails(k) \/ FindMissing(k) PROVE Limits'
  BY <1>3, KeyParts DEF SnapshotFails, FindMissing, Limits, storeVars, faultVars
<1>4. ASSUME NEW k \in Key, Snapshot(k) \/ Reconstruct(k) PROVE Limits'
  <2>1. PICK progress \in Progress : row' = [row EXCEPT ![k] = Enqueued(k, progress)]
    BY <1>4 DEF Snapshot, Reconstruct, Progress
  <2>2. RowLimits(Enqueued(k, progress))
    BY <1>r, EnqueuedLimits
  <2>3. \A j \in Key : RowLimits(row'[j])
    BY <1>r, <2>1, <2>2 DEF Typed
  <2>4. retry' \subseteq Match
    BY <1>4 DEF Snapshot, Reconstruct, Mark, Limits
  <2> QED BY <1>4, <2>3, <2>4 DEF Snapshot, Reconstruct, faultVars, Limits
<1>5. ASSUME NEW k \in Key, Redrive(k) PROVE Limits'
  <2>1. RowLimits(Released(row[k], "pending", 0, 0))
    BY <1>r, StatusNames, ZeroDelay, ReleasedLimits
  <2>2. \A j \in Key : RowLimits(row'[j])
    BY <1>5, <1>r, <2>1 DEF Redrive, Typed
  <2>3. faults' \in 0 .. MaxFaults /\ repaired' \subseteq Key
    BY <1>5, FaultLimits DEF Redrive, Limits
  <2> QED BY <1>5, <2>2, <2>3 DEF Redrive, memoryVars, Limits
<1>6. ASSUME NEW d \in Drain, NEW who, NEW force, Claim(d, who, force) PROVE Limits'
  <2> DEFINE rows == [k \in Key |-> Reclaimed(row[k])]
  <2>1. \A k \in Key : rows[k] \in Row /\ RowLimits(rows[k])
    <3> SUFFICES ASSUME NEW k \in Key PROVE Reclaimed(row[k]) \in Row /\ RowLimits(Reclaimed(row[k]))
      OBVIOUS
    <3> QED BY <1>r, ReclaimedRow, ReclaimedLimits
  <2>2. \/ row' = rows
        \/ \E k \in Key : row' = [rows EXCEPT ![k].status = "processing",
                                              ![k].holder = {d}, ![k].lease = Lease]
    BY <1>6 DEF Claim
  <2>3. DOMAIN rows = Key
    OBVIOUS
  <2> HIDE DEF rows
  <2>4. ASSUME NEW k \in Key,
               row' = [rows EXCEPT ![k].status = "processing", ![k].holder = {d}, ![k].lease = Lease]
        PROVE  \A j \in Key : RowLimits(row'[j])
    <3> DEFINE q == [rows[k] EXCEPT !.status = "processing", !.holder = {d}, !.lease = Lease]
    <3>1. /\ q.status = "processing" /\ q.holder = {d} /\ q.lease = Lease
          /\ q.due = rows[k].due
      BY <2>1 DEF Row
    <3>2. row' = [rows EXCEPT ![k] = q]
      BY <2>3, <2>4
    <3> HIDE DEF q
    <3>3. RowLimits(q)
      BY <2>1, <3>1, ZeroDelay DEF RowLimits
    <3> QED BY <2>1, <2>3, <3>2, <3>3
  <2>5. \A j \in Key : RowLimits(row'[j])
    BY <2>1, <2>2, <2>4
  <2> QED BY <1>6, <2>5 DEF Claim, memoryVars, faultVars, Limits
<1>7. ASSUME NEW d \in Drain, CommitMerge(d) PROVE Limits'
  <2> DEFINE k == drain[d].key
             after == Merged(profile[k[2]], k, drain[d].progress)
             settled == Released(row[k], "settled", row[k].retries, 0)
  <2>1. k \in Key /\ k[2] \in Player /\ drain[d].progress \in Progress
    BY <1>7, JobFields, KeyParts DEF CommitMerge, Typed
  <2>2. ProfileLimits(after) /\ after.completed \subseteq Mission
    <3>1. after \in ProfileState
      BY <1>p, <2>1, MergedProfile
    <3> QED BY <1>p, <2>1, <3>1, MergedLimits DEF ProfileState
  <2>3. RowLimits(settled)
    BY <1>r, <2>1, RowFields, StatusNames, ZeroDelay, ReleasedLimits
  <2>4. \/ /\ profile' = [profile EXCEPT ![k[2]] = after] /\ row' = [row EXCEPT ![k] = settled]
           /\ events' = events \cup {<<k, x>> : x \in after.completed \ profile[k[2]].completed}
        \/ UNCHANGED storeVars
    BY <1>7 DEF CommitMerge
  <2> HIDE DEF k, after, settled
  <2>5. \A p \in Player : ProfileLimits(profile'[p])
    BY <1>p, <2>1, <2>2, <2>4 DEF storeVars, Typed
  <2>6. \A j \in Key : RowLimits(row'[j])
    BY <1>r, <2>1, <2>3, <2>4 DEF storeVars, Typed
  <2>7. events' \subseteq Key \X Mission
    BY <2>1, <2>2, <2>4 DEF storeVars, Limits
  <2> QED BY <1>7, <2>5, <2>6, <2>7 DEF CommitMerge, memoryVars, faultVars, Limits
<1>8. ASSUME NEW d \in Drain, MergeFails(d) \/ DrainRaises(d) PROVE Limits'
  <2>1. faults' \in 0 .. MaxFaults
    BY <1>8, FaultLimits DEF MergeFails, DrainRaises, Limits
  <2> QED BY <1>8, <2>1 DEF MergeFails, DrainRaises, memoryVars, storeVars, Limits
<1>9. ASSUME NEW d \in Drain, FailClaim(d) PROVE Limits'
  <2>1. drain[d].key \in Key
    BY <1>9 DEF FailClaim, Typed
  <2>2. RowLimits(Failed(d, row[drain[d].key]))
    BY <1>9, <1>r, <2>1, FailedLimits DEF FailClaim
  <2>3. \A j \in Key : RowLimits(row'[j])
    BY <1>9, <1>r, <2>1, <2>2 DEF FailClaim, GiveBack, Typed
  <2> QED BY <1>9, <2>3 DEF FailClaim, memoryVars, faultVars, Limits
<1>10. CASE Crash
  <2>1. faults' \in 0 .. MaxFaults
    BY <1>10, FaultLimits DEF Crash
  <2> QED BY <1>10, <2>1 DEF Crash, storeVars, Limits
<1>11. CASE Tick
  <2>1. \A j \in Key : RowLimits(row'[j])
    <3> SUFFICES ASSUME NEW j \in Key
                 PROVE  RowLimits([row[j] EXCEPT !.due = Earlier(@), !.lease = Earlier(@)])
      BY <1>11 DEF Tick
    <3> QED BY <1>r, AgedLimits
  <2>2. faults' \in 0 .. MaxFaults
    <3>1. faults' = faults + Cardinality(Stalled) /\ faults' <= MaxFaults
      BY <1>11 DEF Tick
    <3>2. faults \in Nat /\ MaxFaults \in Nat
      BY ConstantsAssumption DEF Limits
    <3> QED BY <3>1, <3>2, StalledCounted
  <2> QED BY <1>11, <2>1, <2>2 DEF Tick, memoryVars, Limits
<1>12. CASE UNCHANGED vars
  BY <1>12 DEF vars, memoryVars, storeVars, faultVars, Limits
<1> QED BY <1>1, <1>2, <1>3, <1>4, <1>5, <1>6, <1>7, <1>8, <1>9, <1>10, <1>11, <1>12 DEF Next

LEMMA LimitsGiveTypes == Typed /\ Limits => TypeOK
<1> SUFFICES ASSUME Typed, Limits PROVE TypeOK
  OBVIOUS
<1>1. row \in [Key -> [status : Statuses, progress : Progress, retries : Nat, due : 0 .. MaxDelay,
                       holder : SUBSET Drain, lease : 0 .. Lease]]
  BY DEF Typed, Limits, RowLimits, Row
<1>2. \A k \in Key : Cardinality(row[k].holder) = IF row[k].status = "processing" THEN 1 ELSE 0
  BY FS_EmptySet, FS_Singleton DEF Limits, RowLimits
<1>3. profile \in [Player -> [completed : SUBSET Mission,
                              first : [Mission -> 0 .. FinishOf(MatchCount)],
                              team : 0 .. MatchCount, team_at : 0 .. FinishOf(MatchCount)]]
  BY DEF Typed, Limits, ProfileLimits, ProfileState
<1>4. begun \in 0 .. MatchCount
  BY ConstantsAssumption DEF Typed, Limits
<1> QED BY <1>1, <1>2, <1>3, <1>4 DEF Typed, Limits, TypeOK, RoomStatus, Job, Stage

(* The types hold with their limits: no backoff is longer than               *)
(* SETTLEMENT_MAX_RETRY_DELAY_SECONDS whatever the count of retries          *)
(* (_fail_mission_settlement_claim), and a row is held by one drain exactly  *)
(* while it is being processed.                                              *)
THEOREM SettlementTypeCorrect == Spec => []TypeOK
<1>1. Init => Typed /\ Limits
  BY TypedInit, LimitsInit
<1>2. Typed /\ Limits /\ [Next]_vars => (Typed /\ Limits)'
  BY TypedNext, LimitsNext
<1> QED BY <1>1, <1>2, LimitsGiveTypes, PTL DEF Spec

-----------------------------------------------------------------------------
(* What is stored, and when *)

(* Matches are played in order, and nothing is known of the next ones.      *)
InOrder ==
  /\ \A m \in Match : m > begun => room[m] = "none"
  /\ \A k \in handoff : k[1] <= begun
  /\ \A k \in Key : row[k].status # "absent" => k[1] <= begun

(* A snapshot that is ticked off is in the outbox, and outlives its room.   *)
TickedIsStored ==
  /\ \A k \in snapshotted : row[k].status # "absent"
  /\ RemovedIsDurable

(* Where no handler is overtaken, only full progress is ever stored.        *)
OnlyTerminal ==
  /\ \A k \in handoff : room[k[1]] = "finished"
  /\ \A k \in Key : row[k].status # "absent" => row[k].progress = "terminal"
  /\ \A d \in Drain : drain[d].at = "merge" => drain[d].progress = "terminal"

Stored == Typed /\ InOrder /\ TickedIsStored /\ (~CleanupOvertakes => OnlyTerminal)

LEMMA StoredInit == Init => Stored
<1> SUFFICES ASSUME Init PROVE Stored
  OBVIOUS
<1>1. \A k \in Key : row[k].status = "absent"
  BY DEF Init, NoRow
<1>2. \A d \in Drain : drain[d].at = "idle"
  BY DEF Init, Idle, Free
<1>3. \A m \in Match : room[m] = "none"
  BY DEF Init
<1>4. \A m \in Match, p \in Player : room[m] # "removed"
  BY <1>3
<1> QED BY <1>1, <1>2, <1>3, <1>4, TypedInit
       DEF Stored, InOrder, TickedIsStored, OnlyTerminal, RemovedIsDurable, Init

(* No row is ever taken out, and only a finished match gets a new one.      *)
LEMMA RowSteps ==
  ASSUME Typed, [Next]_vars, NEW k \in Key
  PROVE  /\ row[k].status # "absent" => row'[k].status # "absent"
         /\ row'[k].status # "absent" =>
              \/ row[k].status # "absent" /\ row'[k].progress = row[k].progress
              \/ room[k[1]] = "finished" /\ row'[k].progress = "terminal"
              \/ k \in handoff /\ Reconstruct(k)
<1> USE DEF Typed
<1>1. ASSUME NEW j \in Key, Snapshot(j) PROVE
        /\ row[k].status # "absent" => row'[k].status # "absent"
        /\ row'[k].status # "absent" =>
             \/ row[k].status # "absent" /\ row'[k].progress = row[k].progress
             \/ room[k[1]] = "finished" /\ row'[k].progress = "terminal"
  <2>1. /\ room[j[1]] = "finished" /\ "terminal" \in Progress
        /\ row' = [row EXCEPT ![j] = Enqueued(j, "terminal")]
    BY <1>1 DEF Snapshot, Missing, Progress
  <2>2. /\ Enqueued(j, "terminal").progress = "terminal"
        /\ Enqueued(j, "terminal").status # "absent"
    BY <2>1, EnqueuedRow
  <2> QED BY <2>1, <2>2
<1>2. ASSUME NEW j \in Key, Reconstruct(j) PROVE
        /\ row[k].status # "absent" => row'[k].status # "absent"
        /\ row'[k].status # "absent" =>
             \/ row[k].status # "absent" /\ row'[k].progress = row[k].progress
             \/ k \in handoff /\ Reconstruct(k)
  <2>1. PICK progress \in Progress : row' = [row EXCEPT ![j] = Enqueued(j, progress)]
    BY <1>2 DEF Reconstruct, Progress
  <2>2. j \in handoff
    BY <1>2 DEF Reconstruct
  <2>3. Enqueued(j, progress).status # "absent"
    BY EnqueuedRow
  <2>4. CASE k = j
    BY <1>2, <2>1, <2>2, <2>3, <2>4
  <2>5. CASE k # j
    BY <2>1, <2>5
  <2> QED BY <2>4, <2>5
<1>3. ASSUME NEW j \in Key, Redrive(j)
      PROVE  /\ row'[k].progress = row[k].progress
             /\ row'[k].status = "absent" <=> row[k].status = "absent"
  <2>1. row[j] \in Row /\ "pending" \in Statuses /\ row[j].status # "absent"
    BY <1>3 DEF Redrive, Statuses
  <2>2. /\ Released(row[j], "pending", 0, 0).status = "pending"
        /\ Released(row[j], "pending", 0, 0).progress = row[j].progress
    BY <2>1, ReleasedRow
  <2> QED BY <1>3, <2>1, <2>2 DEF Redrive
<1>4. ASSUME NEW d \in Drain, NEW who, NEW force, Claim(d, who, force)
      PROVE  /\ row'[k].progress = row[k].progress
             /\ row'[k].status = "absent" <=> row[k].status = "absent"
  BY <1>4, ClaimedRows
<1>5. ASSUME NEW d \in Drain, CommitMerge(d)
      PROVE  /\ row'[k].progress = row[k].progress
             /\ row'[k].status = "absent" <=> row[k].status = "absent"
  <2> DEFINE j == drain[d].key
  <2>1. j \in Key /\ row[j] \in Row /\ row[j].retries \in Nat /\ "settled" \in Statuses
    BY <1>5, RowFields DEF CommitMerge, Statuses
  <2>2. \/ row' = row
        \/ /\ row' = [row EXCEPT ![j] = Released(row[j], "settled", row[j].retries, 0)]
           /\ row[j].status = "processing"
    BY <1>5 DEF CommitMerge, Holds, storeVars
  <2>3. /\ Released(row[j], "settled", row[j].retries, 0).status = "settled"
        /\ Released(row[j], "settled", row[j].retries, 0).progress = row[j].progress
    BY <2>1, ReleasedRow
  <2> HIDE DEF j
  <2> QED BY <2>1, <2>2, <2>3
<1>6. ASSUME NEW d \in Drain, FailClaim(d)
      PROVE  /\ row'[k].progress = row[k].progress
             /\ row'[k].status = "absent" <=> row[k].status = "absent"
  <2> DEFINE j == drain[d].key
  <2>1. j \in Key /\ row[j] \in Row /\ drain[d].at \in {"failed_retryable", "dead_letter"}
    BY <1>6 DEF FailClaim
  <2>2. \/ row' = row
        \/ row' = [row EXCEPT ![j] = Failed(d, row[j])] /\ row[j].status = "processing"
    BY <1>6, <2>1 DEF FailClaim, GiveBack, Holds
  <2>3. Failed(d, row[j]).status = drain[d].at /\ Failed(d, row[j]).progress = row[j].progress
    BY <2>1, FailedRow
  <2> HIDE DEF j
  <2> QED BY <2>1, <2>2, <2>3
<1>7. CASE Tick
  <2>1. row'[k] = [row[k] EXCEPT !.due = Earlier(@), !.lease = Earlier(@)]
    BY <1>7 DEF Tick
  <2>2. row[k] \in Row
    OBVIOUS
  <2>3. row'[k].progress = row[k].progress /\ row'[k].status = row[k].status
    BY <2>1, <2>2 DEF Row
  <2> QED BY <2>3
<1>8. CASE row' = row
  BY <1>8
<1>9. \/ row' = row \/ Tick
      \/ \E j \in Key : Snapshot(j) \/ Reconstruct(j) \/ Redrive(j)
      \/ \E d \in Drain : \/ \E who \in WhoseCredit, force \in BOOLEAN : Claim(d, who, force)
                          \/ CommitMerge(d) \/ FailClaim(d)
  BY DEF Next, StartMatch, EndMatch, NothingMissing, RemoveRoom, SnapshotFails, FindMissing,
         MergeFails, DrainRaises, Crash, vars, storeVars
<1> QED BY <1>1, <1>2, <1>3, <1>4, <1>5, <1>6, <1>7, <1>8, <1>9

(* What the steps do to rooms, markers and hand-offs.                       *)
LEMMA MemorySteps ==
  ASSUME Typed, InOrder, [Next]_vars
  PROVE  /\ begun <= begun'
         /\ \A m \in Match : room'[m] # "none" => room[m] # "none" \/ m <= begun'
         /\ \A m \in Match : room'[m] = "removed" =>
              room[m] = "removed" \/ \A p \in Player : <<m, p>> \in snapshotted
         /\ \A k \in handoff' : k \in handoff \/ room[k[1]] = "finished"
         /\ \A k \in snapshotted' : k \in snapshotted \/ row'[k].status # "absent"
         /\ ~CleanupOvertakes =>
              \A k \in handoff' : room[k[1]] = "finished" => room'[k[1]] = "finished"
<1> USE DEF Typed
<1>k. \A k \in Key : k[1] \in Match /\ k[2] \in Player /\ k = <<k[1], k[2]>>
  BY KeyParts
<1>1. ASSUME NEW m \in Match, StartMatch(m)
      PROVE  /\ begun' = m /\ begun <= begun' /\ handoff' = handoff /\ snapshotted' = snapshotted
             /\ \A n \in Match : n # m => room'[n] = room[n]
             /\ room'[m] = "playing" /\ room[m] = "none"
  <2>1. m > begun /\ begun' = m /\ begun <= m
    <3>1. m = begun + 1 /\ begun' = m
      BY <1>1 DEF StartMatch
    <3> QED BY <3>1
  <2>2. room[m] = "none"
    BY <2>1 DEF InOrder
  <2> QED BY <1>1, <2>1, <2>2 DEF StartMatch
<1>2. ASSUME NEW m \in Match, EndMatch(m)
      PROVE  /\ begun' = begun /\ handoff' = handoff /\ snapshotted' = snapshotted
             /\ \A n \in Match : n # m => room'[n] = room[n]
             /\ room[m] = "playing" /\ room'[m] # "removed"
  BY <1>2 DEF EndMatch
<1>3. ASSUME NEW m \in Match, RemoveRoom(m)
      PROVE  /\ begun' = begun /\ handoff' = handoff
             /\ \A k \in snapshotted' : k \in snapshotted
             /\ \A n \in Match : n # m => room'[n] = room[n]
             /\ room[m] = "finished" /\ \A p \in Player : <<m, p>> \in snapshotted
             /\ ~CleanupOvertakes => \A k \in handoff : k[1] # m
  <2>1. ASSUME ~CleanupOvertakes, NEW k \in handoff PROVE k[1] # m
    <3>1. \A p \in Player : <<m, p>> \notin handoff
      BY <1>3, <2>1 DEF RemoveRoom
    <3> QED BY <1>k, <3>1
  <2> QED BY <1>3, <2>1 DEF RemoveRoom, Persisted
<1>4. ASSUME NEW k \in Key, Snapshot(k) \/ Reconstruct(k)
      PROVE  /\ begun' = begun /\ room' = room /\ \A j \in handoff' : j \in handoff
             /\ \A j \in snapshotted' : j \in snapshotted \/ j = k
             /\ row'[k].status # "absent"
  <2>1. PICK progress \in Progress : row' = [row EXCEPT ![k] = Enqueued(k, progress)]
    BY <1>4 DEF Snapshot, Reconstruct, Progress
  <2>2. row'[k].status # "absent"
    BY <2>1, EnqueuedRow
  <2> QED BY <1>4, <2>2 DEF Snapshot, Reconstruct, Mark
<1>5. ASSUME NEW k \in Key, SnapshotFails(k) \/ FindMissing(k)
      PROVE  /\ begun' = begun /\ room' = room /\ snapshotted' = snapshotted
             /\ \A j \in handoff' : j \in handoff \/ room[j[1]] = "finished"
  BY <1>5 DEF SnapshotFails, FindMissing, Missing
<1>6. CASE Crash
  BY <1>6 DEF Crash
<1>7. CASE UNCHANGED <<begun, room, handoff, snapshotted>>
  BY <1>7
<1>8. \/ UNCHANGED <<begun, room, handoff, snapshotted>> \/ Crash
      \/ \E m \in Match : StartMatch(m) \/ EndMatch(m) \/ RemoveRoom(m)
      \/ \E k \in Key : Snapshot(k) \/ Reconstruct(k) \/ SnapshotFails(k) \/ FindMissing(k)
  BY DEF Next, NothingMissing, Mark, Redrive, Claim, CommitMerge, MergeFails, FailClaim,
         DrainRaises, Tick, vars, memoryVars
<1>9. CASE \E m \in Match : StartMatch(m)
  <2>1. PICK m \in Match : StartMatch(m)
    BY <1>9
  <2>2. /\ begun' = m /\ begun <= begun' /\ handoff' = handoff /\ snapshotted' = snapshotted
        /\ \A n \in Match : n # m => room'[n] = room[n]
        /\ room'[m] = "playing" /\ room[m] = "none"
    BY <1>1, <2>1
  <2> QED BY <1>k, <2>2, KeyParts
<1>10. CASE \E m \in Match : EndMatch(m)
  <2>1. PICK m \in Match : EndMatch(m)
    BY <1>10
  <2>2. /\ begun' = begun /\ handoff' = handoff /\ snapshotted' = snapshotted
        /\ \A n \in Match : n # m => room'[n] = room[n]
        /\ room[m] = "playing" /\ room'[m] # "removed"
    BY <1>2, <2>1
  <2> QED BY <1>k, <2>2
<1>11. CASE \E m \in Match : RemoveRoom(m)
  <2>1. PICK m \in Match : RemoveRoom(m)
    BY <1>11
  <2>2. /\ begun' = begun /\ handoff' = handoff
        /\ \A k \in snapshotted' : k \in snapshotted
        /\ \A n \in Match : n # m => room'[n] = room[n]
        /\ room[m] = "finished" /\ \A p \in Player : <<m, p>> \in snapshotted
        /\ ~CleanupOvertakes => \A k \in handoff : k[1] # m
    BY <1>3, <2>1
  <2> QED BY <1>k, <2>2
<1> QED BY <1>4, <1>5, <1>6, <1>7, <1>8, <1>9, <1>10, <1>11

(* Only a claim brings a drain to its merge.                                *)
LEMMA OthersDoNotClaim ==
  ASSUME Typed, [Next]_vars, NEW d \in Drain, drain'[d].at = "merge", drain'[d] # drain[d]
  PROVE  \E e \in Drain, who \in WhoseCredit, force \in BOOLEAN : Claim(e, who, force)
<1>1. ASSUME NEW e \in Drain, CommitMerge(e) \/ FailClaim(e) \/ DrainRaises(e) PROVE FALSE
  <2>1. PICK job \in {Free("claim"), Idle} : drain' = [drain EXCEPT ![e] = job]
    BY <1>1 DEF CommitMerge, FailClaim, DrainRaises
  <2>2. job.at # "merge"
    BY FreeJob
  <2> QED BY <2>1, <2>2 DEF Typed
<1>2. ASSUME NEW e \in Drain, MergeFails(e) PROVE FALSE
  <2>1. PICK at \in {"failed_retryable", "dead_letter"} : drain' = [drain EXCEPT ![e].at = at]
    BY <1>2 DEF MergeFails
  <2>2. drain[e] \in Job /\ drain' = [drain EXCEPT ![e] = [drain[e] EXCEPT !.at = at]]
    BY <2>1 DEF Typed
  <2>3. [drain[e] EXCEPT !.at = at].at = at
    BY <2>2 DEF Job
  <2> QED BY <2>2, <2>3 DEF Typed
<1>3. ~Crash
  BY FreeJob DEF Crash
<1> QED BY <1>1, <1>2, <1>3
       DEF Next, StartMatch, EndMatch, NothingMissing, RemoveRoom, Snapshot, SnapshotFails,
           FindMissing, Reconstruct, Redrive, Tick, vars

LEMMA StoredNext == Stored /\ [Next]_vars => Stored'
<1> SUFFICES ASSUME Typed, InOrder, TickedIsStored, ~CleanupOvertakes => OnlyTerminal, [Next]_vars
             PROVE  Stored'
  BY DEF Stored
<1>k. \A k \in Key : k[1] \in Match
  BY KeyParts
<1>t. Typed'
  BY TypedNext
<1>m. /\ begun \in Nat /\ begun' \in Nat /\ begun <= begun'
      /\ \A m \in Match : m \in Nat
  BY <1>t, MemorySteps, KeyParts DEF Typed
<1>1. InOrder'
  <2>1. ASSUME NEW m \in Match, m > begun' PROVE room'[m] = "none"
    <3>1. m > begun /\ ~(m <= begun')
      BY <1>m, <2>1
    <3>2. room[m] = "none"
      BY <3>1 DEF InOrder
    <3> QED BY <3>1, <3>2, MemorySteps
  <2>2. \A k \in Key : room[k[1]] = "finished" => k[1] <= begun
    BY <1>k, <1>m DEF InOrder
  <2>3. ASSUME NEW k \in handoff' PROVE k[1] <= begun'
    <3>1. k \in Key /\ (k \in handoff \/ room[k[1]] = "finished")
      BY <1>t, MemorySteps DEF Typed
    <3>2. k[1] <= begun
      BY <2>2, <3>1 DEF InOrder
    <3> QED BY <1>k, <1>m, <3>1, <3>2
  <2>4. ASSUME NEW k \in Key, row'[k].status # "absent" PROVE k[1] <= begun'
    <3>1. row[k].status # "absent" \/ room[k[1]] = "finished" \/ k \in handoff
      BY <2>4, RowSteps
    <3>2. k[1] <= begun
      BY <2>2, <3>1 DEF InOrder
    <3> QED BY <1>k, <1>m, <3>2
  <2> QED BY <2>1, <2>3, <2>4 DEF InOrder
<1>2. TickedIsStored'
  <2>1. ASSUME NEW k \in snapshotted' PROVE row'[k].status # "absent"
    <3>1. k \in Key /\ (k \in snapshotted \/ row'[k].status # "absent")
      BY <1>t, MemorySteps DEF Typed
    <3> QED BY <3>1, RowSteps DEF TickedIsStored
  <2>2. ASSUME NEW m \in Match, NEW p \in Player, room'[m] = "removed"
        PROVE  row'[<<m, p>>].status # "absent"
    <3>1. room[m] = "removed" \/ <<m, p>> \in snapshotted
      BY <2>2, MemorySteps
    <3>2. <<m, p>> \in Key /\ row[<<m, p>>].status # "absent"
      BY <3>1, KeyParts DEF TickedIsStored, RemovedIsDurable
    <3> QED BY <3>2, RowSteps
  <2> QED BY <2>1, <2>2 DEF TickedIsStored, RemovedIsDurable
<1>3. ASSUME ~CleanupOvertakes PROVE OnlyTerminal'
  <2>1. OnlyTerminal
    BY <1>3
  <2>2. ASSUME NEW k \in handoff' PROVE room'[k[1]] = "finished"
    <3>1. room[k[1]] = "finished"
      BY <2>1, MemorySteps DEF OnlyTerminal
    <3> QED BY <1>3, <3>1, MemorySteps
  <2>3. ASSUME NEW k \in Key, row'[k].status # "absent" PROVE row'[k].progress = "terminal"
    <3>1. CASE k \notin handoff
      BY <2>1, <2>3, <3>1, RowSteps DEF OnlyTerminal
    <3>2. CASE k \in handoff
      <4>1. room[k[1]] = "finished"
        BY <2>1, <3>2 DEF OnlyTerminal
      <4>2. CASE Reconstruct(k)
        <5>1. row' = [row EXCEPT ![k] = Enqueued(k, "terminal")]
          BY <4>1, <4>2 DEF Reconstruct
        <5>2. Enqueued(k, "terminal").progress = "terminal" /\ row \in [Key -> Row]
          BY EnqueuedRow DEF Typed, Progress
        <5> QED BY <5>1, <5>2
      <4>3. CASE ~Reconstruct(k)
        <5>1. \/ row[k].status # "absent" /\ row'[k].progress = row[k].progress
              \/ row'[k].progress = "terminal"
          BY <2>3, <4>3, RowSteps
        <5> QED BY <2>1, <5>1 DEF OnlyTerminal
      <4> QED BY <4>2, <4>3
    <3> QED BY <3>1, <3>2
  <2>4. ASSUME NEW d \in Drain, drain'[d].at = "merge" PROVE drain'[d].progress = "terminal"
    <3>1. CASE drain'[d] = drain[d]
      BY <2>1, <2>4, <3>1 DEF OnlyTerminal
    <3>2. CASE drain'[d] # drain[d]
      <4>1. \E e \in Drain, who \in WhoseCredit, force \in BOOLEAN : Claim(e, who, force)
        BY <2>4, <3>2, OthersDoNotClaim
      <4>2. drain'[d].key \in Key /\ drain'[d].progress = row[drain'[d].key].progress
            /\ row[drain'[d].key].status # "absent"
        BY <2>4, <3>2, <4>1, ClaimedRows
      <4> QED BY <2>1, <4>2 DEF OnlyTerminal
    <3> QED BY <3>1, <3>2
  <2> QED BY <2>2, <2>3, <2>4 DEF OnlyTerminal
<1> QED BY <1>t, <1>1, <1>2, <1>3 DEF Stored

LEMMA StoredAlways == Spec => []Stored
BY StoredInit, StoredNext, PTL DEF Spec

(* A finished room is removed only when what its players are owed is         *)
(* durable (remove_battle_v2_room), overtaken handlers or not.               *)
THEOREM RemovedAlwaysDurable == Spec => []RemovedIsDurable
<1>1. Stored => RemovedIsDurable
  BY DEF Stored, TickedIsStored
<1> QED BY <1>1, StoredAlways, PTL

-----------------------------------------------------------------------------
(* Profiles and the rows that are settled *)

Tally(p, st, x) == {m \in st : x \in Completes[<<m, p>>]}

(* ev announces x for p in match m, and in no other.                        *)
AnnouncedIn(p, ev, x, m) ==
  <<<<m, p>>, x>> \in ev /\ \A n \in Match : <<<<n, p>>, x>> \in ev => n = m

(* What profile pr and events ev say of p when the matches st are settled.  *)
LedgerOf(p, pr, ev, st) ==
  /\ pr.completed = {x \in Mission : Tally(p, st, x) # {}}
  /\ \A x \in pr.completed :
       /\ \E m \in Tally(p, st, x) : pr.first[x] = FinishOf(m)
       /\ \A m \in Tally(p, st, x) : pr.first[x] <= FinishOf(m)
       /\ \E m \in Tally(p, st, x) : AnnouncedIn(p, ev, x, m)
  /\ \A x \in Mission \ pr.completed :
       /\ pr.first[x] = Never
       /\ \A n \in Match : <<<<n, p>>, x>> \notin ev
  /\ \A m \in st : pr.team_at >= FinishOf(m)
  /\ pr.team_at \in {0, StartOf(pr.team), FinishOf(pr.team)}

Balanced == \A p \in Player : LedgerOf(p, profile[p], events, Settled(p))

LEMMA CompletesTyped ==
  \A k \in Key : Completes[k] \in SUBSET Mission
BY ConstantsAssumption

(* Events of others do not matter.                                          *)
LEMMA OthersEvents ==
  ASSUME NEW p, NEW pr, NEW ev, NEW more, NEW st \in SUBSET Match, LedgerOf(p, pr, ev, st),
         \A n \in Match, x \in Mission : <<<<n, p>>, x>> \in more => <<<<n, p>>, x>> \in ev,
         \A n \in Match, x \in Mission : <<<<n, p>>, x>> \in ev => <<<<n, p>>, x>> \in more
  PROVE  LedgerOf(p, pr, more, st)
<1>1. ASSUME NEW x \in pr.completed, NEW m \in Tally(p, st, x), AnnouncedIn(p, ev, x, m)
      PROVE  AnnouncedIn(p, more, x, m)
  <2>1. m \in Match /\ x \in Mission
    BY DEF Tally, LedgerOf
  <2> QED BY <1>1, <2>1 DEF AnnouncedIn
<1> QED BY <1>1 DEF LedgerOf

(* A match that begins is newer than every settled one.                     *)
LEMMA TeamChosen ==
  ASSUME NEW p \in Player, NEW pr \in ProfileState, NEW ev, NEW st \in SUBSET Match,
         LedgerOf(p, pr, ev, st), NEW m \in Match, \A n \in st : n < m
  PROVE  LedgerOf(p, [pr EXCEPT !.team = m, !.team_at = StartOf(m)], ev, st)
<1> DEFINE new == [pr EXCEPT !.team = m, !.team_at = StartOf(m)]
<1>1. /\ new.completed = pr.completed /\ new.first = pr.first
      /\ new.team = m /\ new.team_at = StartOf(m)
  BY DEF ProfileState
<1> HIDE DEF new
<1>2. ASSUME NEW n \in st PROVE StartOf(m) >= FinishOf(n)
  <2>1. n \in Nat /\ m \in Nat /\ n < m
    BY KeyParts
  <2> QED BY <2>1 DEF StartOf, FinishOf
<1> QED BY <1>1, <1>2 DEF LedgerOf, new

(* Settling one more match.                                                 *)
LEMMA MatchSettled ==
  ASSUME NEW p \in Player, NEW pr \in ProfileState, NEW ev, NEW st \in SUBSET Match,
         LedgerOf(p, pr, ev, st), NEW m \in Match, m \notin st
  PROVE  LET new == Merged(pr, <<m, p>>, "terminal")
         IN  LedgerOf(p, new,
                      ev \cup {<<<<m, p>>, x>> : x \in new.completed \ pr.completed},
                      st \cup {m})
<1> DEFINE k == <<m, p>>
           done == Completes[k]
           at == FinishOf(m)
           new == Merged(pr, k, "terminal")
           more == ev \cup {<<k, x>> : x \in new.completed \ pr.completed}
           late == st \cup {m}
<1>1. k \in Key /\ k[1] = m /\ done \in SUBSET Mission /\ m \in Nat /\ m > 0
  BY KeyParts, CompletesTyped
<1>2. /\ new.completed = pr.completed \cup done
      /\ new.first = [x \in Mission |-> IF x \in done /\ (pr.first[x] = Never \/ at < pr.first[x])
                                        THEN at ELSE pr.first[x]]
      /\ new.team = IF at >= pr.team_at THEN m ELSE pr.team
      /\ new.team_at = IF at >= pr.team_at THEN at ELSE pr.team_at
  BY <1>1 DEF Merged, Reported, FirstCompletion
<1>3. /\ pr.completed \in SUBSET Mission /\ pr.first \in [Mission -> Int]
      /\ pr.team \in Int /\ pr.team_at \in Int
      /\ at \in Int /\ at > 0 /\ \A n \in Match : FinishOf(n) \in Int /\ FinishOf(n) > 0
  BY <1>1, KeyParts DEF ProfileState, FinishOf
<1> HIDE DEF new
<1>4. \A x \in Mission : Tally(p, late, x) = IF x \in done THEN Tally(p, st, x) \cup {m}
                                             ELSE Tally(p, st, x)
  BY DEF Tally
<1>5. new.completed = {x \in Mission : Tally(p, late, x) # {}}
  <2>1. \A x \in Mission : x \in pr.completed <=> Tally(p, st, x) # {}
    BY DEF LedgerOf
  <2>2. \A x \in Mission : x \in new.completed <=> Tally(p, late, x) # {}
    BY <1>2, <1>4, <2>1
  <2>3. new.completed \in SUBSET Mission
    BY <1>1, <1>2, <1>3
  <2> QED BY <2>2, <2>3
<1>6. \A n \in Match, x \in Mission :
        <<<<n, p>>, x>> \in more <=>
          <<<<n, p>>, x>> \in ev \/ (n = m /\ x \in done /\ x \notin pr.completed)
  BY <1>2, <1>3
<1> HIDE DEF more
<1>7. ASSUME NEW x \in new.completed
      PROVE  /\ \E n \in Tally(p, late, x) : new.first[x] = FinishOf(n)
             /\ \A n \in Tally(p, late, x) : new.first[x] <= FinishOf(n)
             /\ \E n \in Tally(p, late, x) : AnnouncedIn(p, more, x, n)
  <2>0. x \in Mission /\ \A n \in Tally(p, st, x) : n \in Match
    BY <1>5 DEF Tally
  <2>1. CASE x \in pr.completed /\ x \in done
    <3>1. PICK n \in Tally(p, st, x) : pr.first[x] = FinishOf(n)
      BY <2>1 DEF LedgerOf
    <3>2. \A j \in Tally(p, st, x) : pr.first[x] <= FinishOf(j)
      BY <2>1 DEF LedgerOf
    <3>3. pr.first[x] # Never
      BY <1>3, <2>0, <3>1 DEF Never
    <3>4. new.first[x] = IF at < pr.first[x] THEN at ELSE pr.first[x]
      BY <1>2, <2>0, <2>1, <3>3
    <3>5. PICK j \in Tally(p, st, x) : AnnouncedIn(p, ev, x, j)
      BY <2>1 DEF LedgerOf
    <3>6. AnnouncedIn(p, more, x, j)
      BY <1>6, <2>0, <2>1, <3>5 DEF AnnouncedIn
    <3>7. Tally(p, late, x) = Tally(p, st, x) \cup {m}
      BY <1>4, <2>0, <2>1
    <3>8. \A i \in Tally(p, late, x) : new.first[x] <= FinishOf(i)
      BY <1>3, <2>0, <3>1, <3>2, <3>4, <3>7
    <3>9. \E i \in Tally(p, late, x) : new.first[x] = FinishOf(i)
      BY <3>1, <3>4, <3>7
    <3> QED BY <3>5, <3>6, <3>7, <3>8, <3>9
  <2>2. CASE x \in pr.completed /\ x \notin done
    <3>1. new.first[x] = pr.first[x] /\ Tally(p, late, x) = Tally(p, st, x)
      BY <1>2, <1>4, <2>0, <2>2
    <3>2. PICK j \in Tally(p, st, x) : AnnouncedIn(p, ev, x, j)
      BY <2>2 DEF LedgerOf
    <3>3. AnnouncedIn(p, more, x, j)
      BY <1>6, <2>0, <2>2, <3>2 DEF AnnouncedIn
    <3>4. /\ \E n \in Tally(p, st, x) : pr.first[x] = FinishOf(n)
          /\ \A n \in Tally(p, st, x) : pr.first[x] <= FinishOf(n)
      BY <2>2 DEF LedgerOf
    <3> QED BY <3>1, <3>2, <3>3, <3>4
  <2>3. CASE x \notin pr.completed
    <3>1. x \in done /\ Tally(p, st, x) = {} /\ pr.first[x] = Never
      BY <1>2, <2>0, <2>3 DEF LedgerOf
    <3>2. Tally(p, late, x) = {m} /\ new.first[x] = at
      BY <1>2, <1>4, <2>0, <3>1
    <3>3. \A n \in Match : <<<<n, p>>, x>> \notin ev
      BY <2>0, <2>3 DEF LedgerOf
    <3>4. AnnouncedIn(p, more, x, m)
      BY <1>6, <2>0, <2>3, <3>1, <3>3 DEF AnnouncedIn
    <3>5. m \in Tally(p, late, x) /\ \A n \in Tally(p, late, x) : n = m
      BY <3>2
    <3>6. new.first[x] = FinishOf(m) /\ FinishOf(m) <= FinishOf(m)
      BY <1>3, <3>2
    <3> QED BY <3>4, <3>5, <3>6
  <2> QED BY <2>1, <2>2, <2>3
<1>8. ASSUME NEW x \in Mission \ new.completed
      PROVE  new.first[x] = Never /\ \A n \in Match : <<<<n, p>>, x>> \notin more
  <2>1. x \notin pr.completed /\ x \notin done /\ x \in Mission
    BY <1>2
  <2>2. new.first[x] = pr.first[x]
    BY <1>2, <2>1
  <2> QED BY <1>6, <2>1, <2>2 DEF LedgerOf
<1>9. \A n \in late : new.team_at >= FinishOf(n)
  <2>1. \A n \in st : pr.team_at >= FinishOf(n) /\ FinishOf(n) \in Int
    BY <1>3 DEF LedgerOf
  <2> QED BY <1>2, <1>3, <2>1
<1>10. new.team_at \in {0, StartOf(new.team), FinishOf(new.team)}
  BY <1>2 DEF LedgerOf
<1> HIDE DEF late
<1>11. LedgerOf(p, new, more, late)
  BY <1>5, <1>7, <1>8, <1>9, <1>10 DEF LedgerOf
<1> QED BY <1>11 DEF new, more, late

(* What a step does to the settled rows, the profiles and the events.       *)
LEMMA LedgerSteps ==
  ASSUME Typed, [Next]_vars
  PROVE  \/ /\ \A k \in Key : row'[k].status = "settled" <=> row[k].status = "settled"
            /\ UNCHANGED <<profile, events>>
         \/ /\ \E m \in Match : StartMatch(m)
            /\ row' = row /\ events' = events
         \/ \E d \in Drain : CommitMerge(d) /\ Holds(d, drain[d].key)
<1> USE DEF Typed
<1> DEFINE Same == \A k \in Key : row'[k].status = "settled" <=> row[k].status = "settled"
<1>1. ASSUME NEW k \in Key, Snapshot(k) \/ Reconstruct(k)
      PROVE  Same /\ UNCHANGED <<profile, events>>
  <2>1. PICK progress \in Progress : row' = [row EXCEPT ![k] = Enqueued(k, progress)]
    BY <1>1 DEF Snapshot, Reconstruct, Progress
  <2>2. Enqueued(k, progress).status = "settled" <=> row[k].status = "settled"
    BY EnqueuedRow
  <2> QED BY <1>1, <2>1, <2>2 DEF Snapshot, Reconstruct
<1>2. ASSUME NEW k \in Key, Redrive(k) PROVE Same /\ UNCHANGED <<profile, events>>
  <2>1. row[k] \in Row /\ "pending" \in Statuses /\ row[k].status # "settled"
    BY <1>2 DEF Redrive, Statuses
  <2>2. Released(row[k], "pending", 0, 0).status = "pending"
    BY <2>1, ReleasedRow
  <2> QED BY <1>2, <2>1, <2>2 DEF Redrive
<1>3. ASSUME NEW d \in Drain, NEW who, NEW force, Claim(d, who, force)
      PROVE  Same /\ UNCHANGED <<profile, events>>
  <2>1. Same
    BY <1>3, ClaimedRows
  <2>2. UNCHANGED <<profile, events>>
    BY <1>3 DEF Claim
  <2> QED BY <2>1, <2>2
<1>4. ASSUME NEW d \in Drain, CommitMerge(d), ~Holds(d, drain[d].key)
      PROVE  Same /\ UNCHANGED <<profile, events>>
  BY <1>4 DEF CommitMerge, storeVars
<1>5. ASSUME NEW d \in Drain, FailClaim(d) PROVE Same /\ UNCHANGED <<profile, events>>
  <2> DEFINE j == drain[d].key
  <2>1. j \in Key /\ row[j] \in Row /\ drain[d].at \in {"failed_retryable", "dead_letter"}
    BY <1>5 DEF FailClaim
  <2>2. \/ row' = row
        \/ row' = [row EXCEPT ![j] = Failed(d, row[j])] /\ row[j].status = "processing"
    BY <1>5, <2>1 DEF FailClaim, GiveBack, Holds
  <2>3. Failed(d, row[j]).status = drain[d].at
    BY <2>1, FailedRow
  <2>4. UNCHANGED <<profile, events>>
    BY <1>5 DEF FailClaim
  <2> HIDE DEF j
  <2> QED BY <2>1, <2>2, <2>3, <2>4
<1>6. CASE Tick
  <2>1. \A k \in Key : row'[k].status = row[k].status
    <3> SUFFICES ASSUME NEW k \in Key PROVE row'[k].status = row[k].status
      OBVIOUS
    <3>1. row'[k] = [row[k] EXCEPT !.due = Earlier(@), !.lease = Earlier(@)] /\ row[k] \in Row
      BY <1>6 DEF Tick
    <3> QED BY <3>1 DEF Row
  <2> QED BY <1>6, <2>1 DEF Tick
<1>7. \/ UNCHANGED <<row, profile, events>> \/ Tick
      \/ \E m \in Match : StartMatch(m)
      \/ \E j \in Key : Snapshot(j) \/ Reconstruct(j) \/ Redrive(j)
      \/ \E d \in Drain : \/ \E who \in WhoseCredit, force \in BOOLEAN : Claim(d, who, force)
                          \/ CommitMerge(d) \/ FailClaim(d)
  BY DEF Next, EndMatch, NothingMissing, RemoveRoom, SnapshotFails, FindMissing,
         MergeFails, DrainRaises, Crash, vars, storeVars
<1>8. CASE \E m \in Match : StartMatch(m)
  BY <1>8 DEF StartMatch
<1> QED BY <1>1, <1>2, <1>3, <1>4, <1>5, <1>6, <1>7, <1>8

(* The merge of a claim that is still held, full progress given.            *)
LEMMA MergeStep ==
  ASSUME Typed, OnlyTerminal, NEW d \in Drain, CommitMerge(d), Holds(d, drain[d].key)
  PROVE  LET k == drain[d].key
             old == profile[k[2]]
             new == Merged(old, k, "terminal")
         IN  /\ k \in Key /\ row[k].status = "processing" /\ old \in ProfileState
             /\ \A j \in Key : row'[j].status = IF j = k THEN "settled" ELSE row[j].status
             /\ \A p \in Player : profile'[p] = IF p = k[2] THEN new ELSE profile[p]
             /\ events' = events \cup {<<k, x>> : x \in new.completed \ old.completed}
             /\ new.completed = old.completed \cup Completes[k]
<1> USE DEF Typed
<1> DEFINE k == drain[d].key
           old == profile[k[2]]
           new == Merged(old, k, "terminal")
<1>1. k \in Key /\ drain[d].progress = "terminal" /\ row[k].status = "processing"
  BY DEF CommitMerge, OnlyTerminal, Holds
<1>2. /\ profile' = [profile EXCEPT ![k[2]] = new]
      /\ events' = events \cup {<<k, x>> : x \in new.completed \ old.completed}
      /\ row' = [row EXCEPT ![k] = Released(row[k], "settled", row[k].retries, 0)]
  BY <1>1 DEF CommitMerge
<1>3. Released(row[k], "settled", row[k].retries, 0).status = "settled"
  <2>1. row[k] \in Row /\ row[k].retries \in Nat /\ "settled" \in Statuses
    BY <1>1, RowFields DEF Statuses
  <2> QED BY <2>1, ReleasedRow
<1>4. k[2] \in Player /\ old \in ProfileState
  BY <1>1, KeyParts
<1>5. new.completed = old.completed \cup Completes[k]
  <2>1. "terminal" \in Progress /\ Reported(k, "terminal") = Completes[k]
    BY DEF Progress, Reported
  <2> QED BY <1>1, <1>4, <2>1, MergedProfile
<1> HIDE DEF k, new
<1>6. \A j \in Key : row'[j].status = IF j = k THEN "settled" ELSE row[j].status
  BY <1>1, <1>2, <1>3
<1>7. \A p \in Player : profile'[p] = IF p = k[2] THEN new ELSE profile[p]
  BY <1>2, <1>4
<1> QED BY <1>1, <1>2, <1>4, <1>5, <1>6, <1>7 DEF k, new

LEMMA BalancedInit == Init => Balanced
<1> SUFFICES ASSUME Init, NEW p \in Player PROVE LedgerOf(p, profile[p], events, Settled(p))
  BY DEF Balanced
<1>1. Settled(p) = {}
  BY KeyParts DEF Init, Settled, NoRow
<1>2. /\ profile[p].completed = {} /\ profile[p].first = [x \in Mission |-> Never]
      /\ profile[p].team = 0 /\ profile[p].team_at = 0 /\ events = {}
  BY DEF Init, EmptyProfile, Never
<1> QED BY <1>1, <1>2 DEF LedgerOf, Tally

LEMMA BalancedNext ==
  ASSUME ~CleanupOvertakes, Stored, Balanced, [Next]_vars
  PROVE  Balanced'
<1>0. Typed /\ InOrder /\ OnlyTerminal
  BY DEF Stored
<1> SUFFICES ASSUME NEW p \in Player
             PROVE  LedgerOf(p, profile'[p], events', Settled(p)')
  BY DEF Balanced
<1>1. /\ LedgerOf(p, profile[p], events, Settled(p))
      /\ Settled(p) \in SUBSET Match /\ profile[p] \in ProfileState
  BY <1>0 DEF Balanced, Settled, Typed
<1>2. CASE /\ \A k \in Key : row'[k].status = "settled" <=> row[k].status = "settled"
           /\ UNCHANGED <<profile, events>>
  <2>1. Settled(p)' = Settled(p)
    BY <1>2, KeyParts DEF Settled
  <2> QED BY <1>1, <1>2, <2>1
<1>3. CASE (\E m \in Match : StartMatch(m)) /\ row' = row /\ events' = events
  <2>1. PICK m \in Match : StartMatch(m)
    BY <1>3
  <2>2. Settled(p)' = Settled(p)
    BY <1>3 DEF Settled
  <2>3. \A n \in Settled(p) : n < m
    <3> SUFFICES ASSUME NEW n \in Settled(p) PROVE n < m
      OBVIOUS
    <3>1. <<n, p>> \in Key /\ row[<<n, p>>].status # "absent" /\ n \in Nat
      BY KeyParts DEF Settled
    <3>2. n <= begun
      BY <1>0, <3>1 DEF InOrder
    <3>3. m = begun + 1 /\ begun \in Nat
      BY <1>0, <2>1 DEF StartMatch, Typed
    <3> QED BY <3>1, <3>2, <3>3
  <2>4. profile'[p] = profile[p]
        \/ profile'[p] = [profile[p] EXCEPT !.team = m, !.team_at = StartOf(m)]
    BY <2>1 DEF StartMatch
  <2>5. LedgerOf(p, [profile[p] EXCEPT !.team = m, !.team_at = StartOf(m)], events, Settled(p))
    BY <1>1, <2>3, TeamChosen
  <2>6. LedgerOf(p, profile'[p], events, Settled(p))
    BY <1>1, <2>4, <2>5
  <2> QED BY <1>3, <2>2, <2>6
<1>4. ASSUME NEW d \in Drain, CommitMerge(d), Holds(d, drain[d].key)
      PROVE  LedgerOf(p, profile'[p], events', Settled(p)')
  <2> DEFINE k == drain[d].key
             old == profile[k[2]]
             new == Merged(old, k, "terminal")
  <2>1. /\ k \in Key /\ row[k].status = "processing" /\ old \in ProfileState
        /\ \A j \in Key : row'[j].status = IF j = k THEN "settled" ELSE row[j].status
        /\ \A q \in Player : profile'[q] = IF q = k[2] THEN new ELSE profile[q]
        /\ events' = events \cup {<<k, x>> : x \in new.completed \ old.completed}
    BY <1>0, <1>4, MergeStep
  <2>2. k[1] \in Match /\ k[2] \in Player /\ k = <<k[1], k[2]>>
    BY <2>1, KeyParts
  <2>3. CASE p = k[2]
    <3>1. k = <<k[1], p>> /\ old = profile[p] /\ k[1] \notin Settled(p)
      BY <2>1, <2>2, <2>3 DEF Settled
    <3>2. Settled(p)' = Settled(p) \cup {k[1]}
      BY <2>1, <2>2, <3>1, KeyParts DEF Settled
    <3>3. LedgerOf(p, new, events \cup {<<k, x>> : x \in new.completed \ old.completed},
                   Settled(p) \cup {k[1]})
      BY <1>1, <2>2, <3>1, MatchSettled
    <3> QED BY <2>1, <2>3, <3>2, <3>3
  <2>4. CASE p # k[2]
    <3>1. profile'[p] = profile[p]
      BY <2>1, <2>4
    <3>2. Settled(p)' = Settled(p)
      BY <2>1, <2>2, <2>4, KeyParts DEF Settled
    <3>3. \A n \in Match, x \in Mission :
            /\ <<<<n, p>>, x>> \in events' => <<<<n, p>>, x>> \in events
            /\ <<<<n, p>>, x>> \in events => <<<<n, p>>, x>> \in events'
      BY <2>1, <2>2, <2>4
    <3> QED BY <1>1, <3>1, <3>2, <3>3, OthersEvents
  <2> QED BY <2>3, <2>4
<1> QED BY <1>0, <1>2, <1>3, <1>4, LedgerSteps

(* Where no handler is overtaken, a profile is what its settled rows say,    *)
(* in whatever order they are settled, retried or redriven.                  *)
THEOREM ProfileAlwaysLedger ==
  ASSUME ~CleanupOvertakes
  PROVE  Spec => []ProfileIsLedger
<1>1. Balanced => ProfileIsLedger
  <2> SUFFICES ASSUME Balanced, NEW p \in Player
               PROVE  LET With(x) == {m \in Settled(p) : x \in Completes[<<m, p>>]}
                      IN  /\ profile[p].completed = {x \in Mission : With(x) # {}}
                          /\ \A x \in profile[p].completed :
                               /\ \E m \in With(x) : profile[p].first[x] = FinishOf(m)
                               /\ \A m \in With(x) : profile[p].first[x] <= FinishOf(m)
                               /\ Cardinality({m \in Match : <<<<m, p>>, x>> \in events}) = 1
                               /\ \E m \in With(x) : <<<<m, p>>, x>> \in events
                          /\ \A m \in Settled(p) : profile[p].team_at >= FinishOf(m)
                          /\ profile[p].team_at
                               \in {0, StartOf(profile[p].team), FinishOf(profile[p].team)}
    BY DEF ProfileIsLedger
  <2>1. LedgerOf(p, profile[p], events, Settled(p))
    BY DEF Balanced
  <2>2. ASSUME NEW x \in profile[p].completed
        PROVE  /\ Cardinality({m \in Match : <<<<m, p>>, x>> \in events}) = 1
               /\ \E m \in Tally(p, Settled(p), x) : <<<<m, p>>, x>> \in events
    <3>1. PICK m \in Tally(p, Settled(p), x) : AnnouncedIn(p, events, x, m)
      BY <2>1 DEF LedgerOf
    <3>2. m \in Match
      BY DEF Tally, Settled
    <3>3. {n \in Match : <<<<n, p>>, x>> \in events} = {m}
      BY <3>1, <3>2 DEF AnnouncedIn
    <3> QED BY <3>1, <3>3, FS_Singleton DEF AnnouncedIn
  <2> QED BY <2>1, <2>2 DEF LedgerOf, Tally
<1>2. Init => Balanced
  BY BalancedInit
<1>3. Stored /\ Balanced /\ [Next]_vars => Balanced'
  BY BalancedNext
<1> QED BY <1>1, <1>2, <1>3, StoredAlways, PTL DEF Spec

-----------------------------------------------------------------------------
(* The contract *)

CreditOf(status) ==
  CASE status = "absent" -> "none"
    [] status = "settled" -> "credited"
    [] status = "dead_letter" -> "parked"
    [] OTHER -> "owed"

Credits == [k \in Key |-> CreditOf(row[k].status)]

Completions == [p \in Player |-> profile[p].completed]

LEMMA CreditValues ==
  /\ CreditOf("absent") = "none" /\ CreditOf("settled") = "credited"
  /\ CreditOf("dead_letter") = "parked"
  /\ \A s \in {"pending", "processing", "failed_retryable"} : CreditOf(s) = "owed"
BY DEF CreditOf

LEMMA CreditsMapped ==
  Credits = [k \in Key |->
               CASE row[k].status = "absent" -> "none"
                 [] row[k].status = "settled" -> "credited"
                 [] row[k].status = "dead_letter" -> "parked"
                 [] OTHER -> "owed"]
BY DEF Credits, CreditOf

LEMMA SettlementInit == Init => Contract!Init
<1> SUFFICES ASSUME Init PROVE Contract!Init
  OBVIOUS
<1>1. Credits = [k \in Key |-> "none"]
  BY CreditValues DEF Init, Credits, NoRow
<1>2. Completions = [p \in Player |-> {}]
  BY DEF Init, Completions, EmptyProfile
<1> QED BY <1>1, <1>2, CreditsMapped DEF Contract!Init, Contract!Key, Key, Completions

LEMMA SameCredits ==
  ASSUME \A j \in Key : CreditOf(row'[j].status) = CreditOf(row[j].status),
         \A p \in Player : profile'[p].completed = profile[p].completed
  PROVE  UNCHANGED Contract!vars
<1>1. Credits' = Credits
  BY DEF Credits
<1>2. Completions' = Completions
  BY DEF Completions
<1> QED BY <1>1, <1>2, CreditsMapped DEF Contract!vars, Credits, CreditOf, Completions

LEMMA MovedCredit ==
  ASSUME NEW k \in Key, NEW s,
         \A j \in Key : row'[j].status = IF j = k THEN s ELSE row[j].status
  PROVE  Contract!Move(k, CreditOf(row[k].status), CreditOf(s))
<1>1. Credits' = [Credits EXCEPT ![k] = CreditOf(s)]
  BY DEF Credits
<1>2. Credits[k] = CreditOf(row[k].status)
  BY DEF Credits
<1> QED BY <1>1, <1>2 DEF Contract!Move, Credits, CreditOf

LEMMA SettlementNext ==
  ASSUME ~CleanupOvertakes, Stored, [Next]_vars
  PROVE  [Contract!Next]_(Contract!vars)
<1>0. Typed /\ OnlyTerminal
  BY DEF Stored
<1>c. Completions = [p \in Player |-> profile[p].completed]
  BY DEF Completions
<1>1. CASE \E m \in Match : StartMatch(m)
  <2>1. PICK m \in Match : StartMatch(m)
    BY <1>1
  <2>2. row' = row
    BY <2>1 DEF StartMatch
  <2>3. ASSUME NEW p \in Player PROVE profile'[p].completed = profile[p].completed
    <3>1. \/ profile'[p] = profile[p]
          \/ profile'[p] = [profile[p] EXCEPT !.team = m, !.team_at = StartOf(m)]
      BY <2>1 DEF StartMatch
    <3>2. profile[p] \in ProfileState
      BY <1>0 DEF Typed
    <3> QED BY <3>1, <3>2 DEF ProfileState
  <2> QED BY <2>2, <2>3, SameCredits
<1>2. ASSUME NEW k \in Key, Snapshot(k) \/ Reconstruct(k)
      PROVE  [Contract!Next]_(Contract!vars)
  <2>1. PICK progress \in Progress : row' = [row EXCEPT ![k] = Enqueued(k, progress)]
    BY <1>2 DEF Snapshot, Reconstruct, Progress
  <2>2. profile' = profile
    BY <1>2 DEF Snapshot, Reconstruct
  <2> DEFINE s == IF row[k].status \in {"settled", "processing", "dead_letter"}
                  THEN row[k].status ELSE "pending"
  <2>3. \A j \in Key : row'[j].status = IF j = k THEN s ELSE row[j].status
    BY <1>0, <2>1, EnqueuedRow DEF Typed
  <2>4. CASE row[k].status = "absent"
    <3>1. s = "pending"
      BY <2>4
    <3>2. Contract!Move(k, "none", "owed")
      BY <2>3, <2>4, <3>1, MovedCredit, CreditValues
    <3>3. Contract!Owe(k)
      BY <2>2, <3>2 DEF Contract!Owe
    <3> QED BY <3>3 DEF Contract!Next, Contract!Key, Key
  <2>5. CASE row[k].status # "absent"
    <3>1. row[k].status \in Statuses
      BY <1>0, RowFields DEF Typed
    <3>2. CreditOf(s) = CreditOf(row[k].status)
      BY <2>5, <3>1, CreditValues DEF Statuses
    <3> QED BY <2>2, <2>3, <3>2, SameCredits
  <2> QED BY <2>4, <2>5
<1>3. ASSUME NEW k \in Key, Redrive(k) PROVE [Contract!Next]_(Contract!vars)
  <2>1. row[k] \in Row /\ "pending" \in Statuses
    BY <1>0 DEF Typed, Statuses
  <2>2. Released(row[k], "pending", 0, 0).status = "pending"
    BY <2>1, ReleasedRow
  <2>3. \A j \in Key : row'[j].status = IF j = k THEN "pending" ELSE row[j].status
    BY <1>0, <1>3, <2>2 DEF Redrive, Typed
  <2>4. row[k].status \in {"failed_retryable", "dead_letter"} /\ profile' = profile
    BY <1>3 DEF Redrive
  <2>5. CASE row[k].status = "dead_letter"
    <3>1. Contract!Move(k, "parked", "owed")
      BY <2>3, <2>5, MovedCredit, CreditValues
    <3>2. Contract!Resume(k)
      BY <2>4, <3>1 DEF Contract!Resume
    <3> QED BY <3>2 DEF Contract!Next, Contract!Key, Key
  <2>6. CASE row[k].status = "failed_retryable"
    BY <2>3, <2>4, <2>6, SameCredits, CreditValues
  <2> QED BY <2>4, <2>5, <2>6
<1>4. ASSUME NEW d \in Drain, NEW who, NEW force, Claim(d, who, force)
      PROVE  [Contract!Next]_(Contract!vars)
  <2>1. \A j \in Key : CreditOf(row'[j].status) = CreditOf(row[j].status)
    BY <1>0, <1>4, ClaimedRows, CreditValues
  <2>2. profile' = profile
    BY <1>4 DEF Claim
  <2> QED BY <2>1, <2>2, SameCredits
<1>5. ASSUME NEW d \in Drain, CommitMerge(d), Holds(d, drain[d].key)
      PROVE  [Contract!Next]_(Contract!vars)
  <2>1. PICK k \in Key : k = drain[d].key
    BY <1>0, <1>5 DEF CommitMerge, Typed
  <2> DEFINE new == Merged(profile[k[2]], k, "terminal")
  <2>2. /\ row[k].status = "processing"
        /\ \A j \in Key : row'[j].status = IF j = k THEN "settled" ELSE row[j].status
        /\ \A p \in Player : profile'[p] = IF p = k[2] THEN new ELSE profile[p]
        /\ new.completed = profile[k[2]].completed \cup Completes[k]
    BY <1>0, <1>5, <2>1, MergeStep
  <2> HIDE DEF new
  <2>3. k[2] \in Player
    BY KeyParts
  <2>4. Completions' = [Completions EXCEPT ![k[2]] = @ \cup Completes[k]]
    BY <2>2, <2>3 DEF Completions
  <2>5. Contract!Move(k, "owed", "credited")
    BY <2>2, MovedCredit, CreditValues
  <2>6. Contract!Credit(k)
    BY <2>4, <2>5 DEF Contract!Credit, Completions
  <2> QED BY <2>6 DEF Contract!Next, Contract!Key, Key
<1>6. ASSUME NEW d \in Drain, CommitMerge(d), ~Holds(d, drain[d].key)
      PROVE  [Contract!Next]_(Contract!vars)
  <2>1. row' = row /\ profile' = profile
    BY <1>6 DEF CommitMerge, storeVars
  <2> QED BY <2>1, SameCredits
<1>7. ASSUME NEW d \in Drain, FailClaim(d) PROVE [Contract!Next]_(Contract!vars)
  <2>1. PICK k \in Key : k = drain[d].key
    BY <1>0, <1>7 DEF FailClaim, Typed
  <2>2. /\ row[k] \in Row /\ drain[d].at \in {"failed_retryable", "dead_letter"}
        /\ profile' = profile
    BY <1>0, <1>7 DEF FailClaim, Typed
  <2>3. CASE ~Holds(d, k)
    <3>1. row' = row
      BY <1>0, <1>7, <2>1, <2>3 DEF FailClaim, GiveBack, Typed
    <3> QED BY <2>2, <3>1, SameCredits
  <2>4. CASE Holds(d, k)
    <3>1. row' = [row EXCEPT ![k] = Failed(d, row[k])]
      BY <1>7, <2>1, <2>4 DEF FailClaim, GiveBack
    <3>2. Failed(d, row[k]).status = drain[d].at
      BY <1>0, <2>2, FailedRow
    <3>3. /\ \A j \in Key : row'[j].status = IF j = k THEN drain[d].at ELSE row[j].status
          /\ row[k].status = "processing"
      BY <1>0, <2>4, <3>1, <3>2 DEF Typed, Holds
    <3>4. CASE drain[d].at = "dead_letter"
      <4>1. \A j \in Key : row'[j].status = IF j = k THEN "dead_letter" ELSE row[j].status
        BY <3>3, <3>4
      <4>2. Contract!Move(k, "owed", "parked")
        BY <3>3, <4>1, MovedCredit, CreditValues
      <4>3. Contract!Park(k)
        BY <2>2, <4>2 DEF Contract!Park
      <4> QED BY <4>3 DEF Contract!Next, Contract!Key, Key
    <3>5. CASE drain[d].at = "failed_retryable"
      BY <2>2, <3>3, <3>5, SameCredits, CreditValues
    <3> QED BY <2>2, <3>4, <3>5
  <2> QED BY <2>3, <2>4
<1>8. CASE Tick
  <2>1. \A k \in Key : row'[k].status = row[k].status
    <3> SUFFICES ASSUME NEW k \in Key PROVE row'[k].status = row[k].status
      OBVIOUS
    <3>1. row'[k] = [row[k] EXCEPT !.due = Earlier(@), !.lease = Earlier(@)] /\ row[k] \in Row
      BY <1>0, <1>8 DEF Tick, Typed
    <3> QED BY <3>1 DEF Row
  <2>2. profile' = profile
    BY <1>8 DEF Tick
  <2> QED BY <2>1, <2>2, SameCredits
<1>9. CASE UNCHANGED <<row, profile>>
  BY <1>9, SameCredits
<1>10. \/ UNCHANGED <<row, profile>> \/ Tick
       \/ \E m \in Match : StartMatch(m)
       \/ \E j \in Key : Snapshot(j) \/ Reconstruct(j) \/ Redrive(j)
       \/ \E d \in Drain : \/ \E who \in WhoseCredit, force \in BOOLEAN : Claim(d, who, force)
                           \/ CommitMerge(d) \/ FailClaim(d)
  BY DEF Next, EndMatch, NothingMissing, RemoveRoom, SnapshotFails, FindMissing,
         MergeFails, DrainRaises, Crash, vars, storeVars
<1> QED BY <1>1, <1>2, <1>3, <1>4, <1>5, <1>6, <1>7, <1>8, <1>9, <1>10

(* Where no handler is overtaken, each credit is entered once, in the step   *)
(* in which it stops being owed, although claims may overlap                 *)
(* (runtime_store.py, _commit_profile_mission_settlement).                   *)
THEOREM OutboxImplementsContract ==
  ASSUME ~CleanupOvertakes
  PROVE  Spec => ImplementsContract
<1>1. Init => Contract!Init
  BY SettlementInit
<1>2. Stored /\ [Next]_vars => [Contract!Next]_(Contract!vars)
  BY SettlementNext
<1> QED BY <1>1, <1>2, StoredAlways, PTL DEF Spec, ImplementsContract, Contract!Spec
=============================================================================
