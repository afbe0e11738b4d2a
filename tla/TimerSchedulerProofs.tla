------------------------ MODULE TimerSchedulerProofs ------------------------
(***************************************************************************)
(* TimerScheduler for every set of rooms and threads and every bound: the  *)
(* types, and that lazy deletion never loses a deadline.                   *)
(***************************************************************************)
EXTENDS TimerScheduler, TLAPS

(* A step that needs a room has one. *)
RoomsNamed ==
  /\ \A t \in Thread : /\ pc[t] \in {"read", "install"} => read[t].room \in Room
                       /\ pc[t] = "reconnect" => locked[t] \in Room
  /\ worker.at \in {"popped", "expire", "read", "install"} => worker.room \in Room

TypeInv == TypeOK /\ RoomsNamed

TimeOrUnset == Time \cup {Unset}

RoomState == {"playing", "paused", "deserted", "ended", "removed"}

-----------------------------------------------------------------------------
(* Types *)

LEMMA SetTyped ==
  ASSUME TypeOK, NEW r \in Room, NEW s \in RoomState, NEW d \in TimeOrUnset
  PROVE  Set(r, s, d) \in [Room -> [state : RoomState, deadline : TimeOrUnset]]
BY DEF TypeOK, Set, RoomState, TimeOrUnset

LEMMA EndedTyped ==
  ASSUME TypeOK, NEW r \in Room
  PROVE  Ended(r) \in [Room -> [state : RoomState, deadline : TimeOrUnset]]
BY DEF TypeOK, Ended, RoomState, TimeOrUnset

LEMMA DeadlineTyped ==
  ASSUME TypeOK, NEW r \in Room
  PROVE  TimerDeadline(r) \in TimeOrUnset
BY DEF TypeOK, TimerDeadline, TimeOrUnset

LEMMA InstallTyped ==
  ASSUME TypeOK, NEW r \in Room, NEW d \in TimeOrUnset, Install(r, d)
  PROVE  /\ deadlines' \in [Room -> TimeOrUnset]
         /\ heap' \subseteq Time \X Room
BY DEF TypeOK, Install, TimeOrUnset

LEMMA TypeInit == Init => TypeInv
<1> SUFFICES ASSUME Init PROVE TypeInv
  OBVIOUS
<1>1. 0 \in Time /\ 1 \in Time
  BY ConstantsAssumption DEF Time
<1>2. /\ room \in [Room -> [state : RoomState, deadline : TimeOrUnset]]
      /\ deadlines \in [Room -> TimeOrUnset]
      /\ heap \subseteq Time \X Room
  BY <1>1 DEF Init, RoomState, TimeOrUnset
<1>3. /\ read \in [Thread -> [room : Room \cup {NoRoom}, deadline : TimeOrUnset]]
      /\ changes \in 0 .. MaxChanges
  BY ConstantsAssumption DEF Init, NothingRead, TimeOrUnset
<1>4. TypeOK
  BY <1>1, <1>2, <1>3 DEF Init, TypeOK, RoomState, TimeOrUnset
<1>5. RoomsNamed
  BY DEF Init, RoomsNamed
<1> QED BY <1>4, <1>5 DEF TypeInv

LEMMA TypeNext == TypeInv /\ [Next]_vars => TypeInv'
<1> SUFFICES ASSUME TypeInv, [Next]_vars
             PROVE  TypeInv'
  OBVIOUS
<1> USE DEF TypeInv
<1>1. CASE Tick
  BY <1>1, ConstantsAssumption
     DEF Tick, TypeOK, RoomsNamed, Time, schedulerVars, threadVars, workerVars
<1>2. ASSUME NEW t \in Thread, NEW r \in Room, ChangeRoom(t, r)
      PROVE  TypeInv'
  <2>1. room' \in [Room -> [state : RoomState, deadline : TimeOrUnset]]
    <3>1. CASE PlayOn(r)
      <4>1. CASE room' = Ended(r)
        BY <4>1, EndedTyped
      <4>2. CASE \E d \in NowOrLater, state \in {"playing", "paused"} : room' = Set(r, state, d)
        <5>1. PICK d \in NowOrLater, state \in {"playing", "paused"} : room' = Set(r, state, d)
          BY <4>2
        <5>2. d \in TimeOrUnset /\ state \in RoomState
          BY <5>1 DEF NowOrLater, TimeOrUnset, RoomState
        <5> QED BY <5>1, <5>2, SetTyped
      <4> QED BY <3>1, <4>1, <4>2 DEF PlayOn
    <3>2. CASE Desert(r)
      <4>1. room[r].deadline \in TimeOrUnset
        BY DEF TypeOK, TimeOrUnset
      <4> QED BY <3>2, <4>1, SetTyped DEF Desert, NowOrLater, TimeOrUnset, RoomState
    <3>3. CASE ReturnToOther(r)
      BY <3>3, SetTyped DEF ReturnToOther, TimeOrUnset, RoomState
    <3> QED BY <1>2, <3>1, <3>2, <3>3 DEF ChangeRoom
  <2>2. changes' \in 0 .. MaxChanges
    BY <1>2, ConstantsAssumption DEF ChangeRoom, MayChange, TypeOK
  <2> QED BY <1>2, <2>1, <2>2 DEF ChangeRoom, MayChange, Arming, TypeOK, RoomsNamed,
                                  TimeOrUnset, RoomState, schedulerVars, workerVars
<1>3. ASSUME NEW t \in Thread, NEW r \in Room, ReconnectBegins(t, r)
      PROVE  TypeInv'
  <2>1. room' \in [Room -> [state : RoomState, deadline : TimeOrUnset]]
    BY <1>3, SetTyped DEF ReconnectBegins, TimeOrUnset, RoomState
  <2>2. changes' \in 0 .. MaxChanges
    BY <1>3, ConstantsAssumption DEF ReconnectBegins, MayChange, TypeOK
  <2> QED BY <1>3, <2>1, <2>2 DEF ReconnectBegins, MayChange, TypeOK, RoomsNamed,
                                  TimeOrUnset, RoomState, schedulerVars, workerVars
<1>4. ASSUME NEW t \in Thread, ReconnectEnds(t)
      PROVE  TypeInv'
  <2>1. locked[t] \in Room
    BY <1>4 DEF ReconnectEnds, RoomsNamed
  <2>2. room' \in [Room -> [state : RoomState, deadline : TimeOrUnset]]
    BY <1>4, <2>1, SetTyped DEF ReconnectEnds, NowOrLater, TimeOrUnset, RoomState
  <2> QED BY <1>4, <2>1, <2>2 DEF ReconnectEnds, Arming, TypeOK, RoomsNamed,
                                  TimeOrUnset, RoomState, schedulerVars, workerVars
<1>5. ASSUME NEW t \in Thread, ReadDeadline(t)
      PROVE  TypeInv'
  <2>1. read[t].room \in Room
    BY <1>5 DEF ReadDeadline, RoomsNamed
  <2>2. TimerDeadline(read[t].room) \in TimeOrUnset
    BY <2>1, DeadlineTyped
  <2> QED BY <1>5, <2>1, <2>2 DEF ReadDeadline, TypeOK, RoomsNamed, TimeOrUnset,
                                  schedulerVars, workerVars
<1>6. ASSUME NEW t \in Thread, InstallDeadline(t)
      PROVE  TypeInv'
  <2>1. /\ read[t].room \in Room
        /\ read[t].deadline \in TimeOrUnset
    BY <1>6 DEF InstallDeadline, RoomsNamed, TypeOK, TimeOrUnset
  <2>2. /\ deadlines' \in [Room -> TimeOrUnset]
        /\ heap' \subseteq Time \X Room
    BY <1>6, <2>1, InstallTyped DEF InstallDeadline
  <2> QED BY <1>6, <2>2 DEF InstallDeadline, TypeOK, RoomsNamed, TimeOrUnset,
                            NothingRead, workerVars
<1>7. ASSUME NEW r \in Room, RemoveRoom(r)
      PROVE  TypeInv'
  <2>1. room' \in [Room -> [state : RoomState, deadline : TimeOrUnset]]
    BY <1>7, SetTyped DEF RemoveRoom, TimeOrUnset, RoomState
  <2> QED BY <1>7, <2>1 DEF RemoveRoom, TypeOK, RoomsNamed, TimeOrUnset, RoomState,
                            threadVars, workerVars
<1>8. CASE Shutdown
  BY <1>8 DEF Shutdown, TypeOK, RoomsNamed, threadVars, workerVars
<1>9. CASE Pop
  <2> USE DEF At
  <2>1. PICK e \in Current :
          /\ heap' = HeapWithout(e)
          /\ deadlines' = [deadlines EXCEPT ![e[2]] = Unset]
          /\ worker' = [at |-> "popped", room |-> e[2]]
    BY <1>9 DEF Pop
  <2>2. e[2] \in Room
    BY <2>1 DEF Current, TypeOK
  <2> QED BY <1>9, <2>1, <2>2 DEF Pop, HeapWithout, TypeOK, RoomsNamed, threadVars
<1>10. CASE MarkFiring
  BY <1>10 DEF MarkFiring, At, Goto, TypeOK, RoomsNamed, schedulerVars, threadVars
<1>11. CASE Expire
  <2>1. worker.room \in Room
    BY <1>11 DEF Expire, At, RoomsNamed
  <2>2. room' \in [Room -> [state : RoomState, deadline : TimeOrUnset]]
    <3>1. CASE UNCHANGED room
      BY <3>1 DEF TypeOK, TimeOrUnset, RoomState
    <3>2. CASE room' = Ended(worker.room)
      BY <2>1, <3>2, EndedTyped
    <3>3. CASE \E d \in Later : room' = Set(worker.room, "playing", d)
      BY <2>1, <3>3, SetTyped DEF Later, TimeOrUnset, RoomState
    <3> QED BY <1>11, <3>1, <3>2, <3>3 DEF Expire
  <2> QED BY <1>11, <2>1, <2>2 DEF Expire, Goto, TypeOK, RoomsNamed, TimeOrUnset,
                                   RoomState, schedulerVars, threadVars
<1>12. CASE RereadDeadline
  <2>1. worker.room \in Room
    BY <1>12 DEF RereadDeadline, At, RoomsNamed
  <2>2. held' \in TimeOrUnset
    BY <1>12, <2>1, DeadlineTyped DEF RereadDeadline
  <2> QED BY <1>12, <2>1, <2>2 DEF RereadDeadline, Goto, TypeOK, RoomsNamed,
                                   TimeOrUnset, schedulerVars, threadVars
<1>13. CASE Rearm
  <2>1. worker.room \in Room /\ held \in TimeOrUnset
    BY <1>13 DEF Rearm, At, RoomsNamed, TypeOK, TimeOrUnset
  <2>2. /\ deadlines' \in [Room -> TimeOrUnset]
        /\ heap' \subseteq Time \X Room
    BY <1>13, <2>1, InstallTyped DEF Rearm
  <2> QED BY <1>13, <2>2 DEF Rearm, Goto, TypeOK, RoomsNamed, TimeOrUnset, threadVars
<1>14. CASE EndFiring
  BY <1>14 DEF EndFiring, TypeOK, RoomsNamed, schedulerVars, threadVars
<1>15. CASE Stop
  BY <1>15 DEF Stop, Goto, TypeOK, RoomsNamed, schedulerVars, threadVars
<1>16. CASE UNCHANGED vars
  BY <1>16 DEF vars, TypeOK, RoomsNamed, schedulerVars, threadVars, workerVars
<1> QED BY <1>1, <1>2, <1>3, <1>4, <1>5, <1>6, <1>7, <1>8, <1>9, <1>10, <1>11, <1>12,
           <1>13, <1>14, <1>15, <1>16 DEF Next, ThreadStep, WorkerStep

(* The scheduler's variables keep their types; the heap never holds None,   *)
(* which it could not compare, whatever the reads of arm saw.               *)
THEOREM TypeCorrect == Spec => []TypeOK
<1>1. Init => TypeInv BY TypeInit
<1>2. TypeInv /\ [Next]_vars => TypeInv' BY TypeNext
<1>3. TypeInv => TypeOK BY DEF TypeInv
<1> QED BY <1>1, <1>2, <1>3, PTL DEF Spec

-----------------------------------------------------------------------------
(* The heap and the deadlines *)

LEMMA InstallCovers ==
  ASSUME TypeOK, HeapCoversDeadlines, NEW r \in Room, NEW d \in TimeOrUnset,
         Install(r, d)
  PROVE  HeapCoversDeadlines'
<1> SUFFICES ASSUME NEW q \in Room, deadlines'[q] # Unset
             PROVE  <<deadlines'[q], q>> \in heap'
  BY DEF HeapCoversDeadlines
<1>1. CASE deadlines'[q] = deadlines[q]
  BY <1>1 DEF HeapCoversDeadlines, Install
<1>2. CASE deadlines'[q] # deadlines[q]
  BY <1>2 DEF Install, TypeOK
<1> QED BY <1>1, <1>2

(* What the worker drops is the entry it takes and entries that no longer   *)
(* say what their room is scheduled for.                                    *)
LEMMA PopCovers == TypeOK /\ HeapCoversDeadlines /\ Pop => HeapCoversDeadlines'
<1> SUFFICES ASSUME TypeOK, HeapCoversDeadlines, Pop, NEW q \in Room, deadlines'[q] # Unset
             PROVE  <<deadlines'[q], q>> \in heap'
  BY DEF HeapCoversDeadlines
<1>1. PICK e \in Current : /\ heap' = HeapWithout(e)
                          /\ deadlines' = [deadlines EXCEPT ![e[2]] = Unset]
  BY DEF Pop
<1>2. e[2] # q /\ deadlines'[q] = deadlines[q]
  BY <1>1 DEF TypeOK
<1>3. <<deadlines[q], q>> \in Current
  BY <1>2 DEF HeapCoversDeadlines, Current
<1>4. <<deadlines[q], q>> # e
  BY <1>2
<1> QED BY <1>1, <1>2, <1>3, <1>4 DEF HeapWithout, Current

LEMMA CoverNext == TypeInv /\ HeapCoversDeadlines /\ [Next]_vars => HeapCoversDeadlines'
<1> SUFFICES ASSUME TypeInv, HeapCoversDeadlines, [Next]_vars
             PROVE  HeapCoversDeadlines'
  OBVIOUS
<1> USE DEF TypeInv
<1>1. CASE UNCHANGED <<deadlines, heap>>
  BY <1>1 DEF HeapCoversDeadlines
<1>2. ASSUME NEW t \in Thread, InstallDeadline(t)
      PROVE  HeapCoversDeadlines'
  <2>1. /\ read[t].room \in Room
        /\ read[t].deadline \in TimeOrUnset
    BY <1>2 DEF InstallDeadline, RoomsNamed, TypeOK, TimeOrUnset
  <2> QED BY <1>2, <2>1, InstallCovers DEF InstallDeadline
<1>3. CASE Rearm
  <2>1. worker.room \in Room /\ held \in TimeOrUnset
    BY <1>3 DEF Rearm, At, RoomsNamed, TypeOK, TimeOrUnset
  <2> QED BY <1>3, <2>1, InstallCovers DEF Rearm
<1>4. ASSUME NEW r \in Room, RemoveRoom(r)
      PROVE  HeapCoversDeadlines'
  BY <1>4 DEF RemoveRoom, HeapCoversDeadlines, TypeOK
<1>5. CASE Shutdown
  BY <1>5 DEF Shutdown, HeapCoversDeadlines
<1>6. CASE Pop
  BY <1>6, PopCovers
<1> QED BY <1>1, <1>2, <1>3, <1>4, <1>5, <1>6
        DEF Next, ThreadStep, WorkerStep, vars, schedulerVars, Tick, ChangeRoom, ReconnectBegins,
            ReconnectEnds, ReadDeadline, MarkFiring, Expire, RereadDeadline, EndFiring, Stop

(* No interleaving of arms, re-arms, cleanups and pops loses a deadline     *)
(* from the lazily deleted heap: whatever a room is scheduled for, the      *)
(* worker will find.                                                        *)
THEOREM HeapSound == Spec => []HeapCoversDeadlines
<1> DEFINE Inv == TypeInv /\ HeapCoversDeadlines
<1>1. Init => HeapCoversDeadlines
  BY DEF Init, HeapCoversDeadlines
<1>2. Init => Inv BY <1>1, TypeInit
<1>3. Inv /\ [Next]_vars => Inv' BY TypeNext, CoverNext
<1>4. Inv => HeapCoversDeadlines OBVIOUS
<1> QED BY <1>2, <1>3, <1>4, PTL DEF Spec

=============================================================================
