----------------------------- MODULE PartsProofs -----------------------------
(***************************************************************************)
(* The parts of MCParts.  Backup for any number of invocations, bundles    *)
(* and releases: what a verified bundle holds and what a completion marker *)
(* stands for.  DrainGate for any number of matches and flushing threads   *)
(* and any cap on the outbox: what an empty outbox and a green report      *)
(* stand for.  Last, the four parts together.                              *)
(***************************************************************************)
EXTENDS MCParts, ClientStoreProofs, CombatProofs, SequenceTheorems, FiniteSetTheorems, TLAPS

-----------------------------------------------------------------------------
(* Backup: the inductive invariant *)

OneRelease(s) == s \in Snapshot /\ s.side \in {0, s.db}

\* How far the publication of a snapshot has come.
Linking(s, installed, ahead) ==
    \/ installed = <<>> /\ ahead = DataParts(s)
    \/ installed = <<"db">> /\ s.side # 0 /\ ahead = <<"side">>
    \/ installed = DataParts(s) /\ ahead \in {<<>>, <<"mark">>}
    \/ installed = Append(DataParts(s), "mark") /\ ahead = <<>>

\* What there can be to take back.
Undoable == {<<>>, <<"db">>, <<"db", "side">>, <<"db", "mark">>, <<"db", "side", "mark">>}

\* Where the invocation stands, step by step.
Staging(r) ==
    /\ r.pc \in {"stage_db", "stage_side", "claim"} =>
          r.place \in Bundle /\ r.todo = <<>> /\ r.installed = <<>>
    /\ r.pc = "copy" => r.place = Environment /\ r.installed = <<>>
    /\ r.pc = "install" => r.place \in Place /\ Linking(r.seen, r.installed, r.todo)
    /\ r.pc = "check" =>
          r.place = Environment /\ r.todo = <<>> /\ r.installed = DataParts(r.seen)
    /\ r.pc = "undo" => r.place \in Place /\ r.installed \in Undoable
    /\ r.pc = "idle" => r.installed = <<>>

BackupTyped ==
    /\ BackupTypeOK
    /\ files = [q \in Place |-> [part \in Part |-> files[q][part]]]
    /\ \A p \in Invocation : Staging(run[p])

\* A copy is staged of one release, since the worker rests meanwhile.
CopiedBy(p) ==
    /\ run[p].pc \in {"stage_db", "stage_side"} => worker = "stopped"
    /\ run[p].pc = "stage_side" => run[p].seen.db = source.db
    /\ run[p].pc \in {"claim", "copy", "install", "check"} => OneRelease(run[p].seen)

MarkOneRelease(b) == Exists(b, "mark") => OneRelease(files[b]["mark"].holds)

Copied ==
    /\ source.side \in {0, source.db}
    /\ \A p \in Invocation : CopiedBy(p)
    /\ \A b \in Bundle : MarkOneRelease(b)

Restoring(p) == Active(p) /\ run[p].place = Environment

\* The data are durable and the mark is the next or the last link.
Sealing(p) ==
    /\ Restoring(p)
    /\ run[p].pc \in {"check", "install"}
    /\ run[p].pc = "install" => run[p].todo = <<"mark">>

Owns(p, part) == Exists(Environment, part) /\ files[Environment][part].by = p

\* What an invocation linked in the environment stays as it was linked while
\* the invocation runs ...
Keeps(p) ==
    Restoring(p) =>
        \A part \in ToSet(run[p].installed) :
            /\ Exists(Environment, part)
            /\ files[Environment][part] = [by |-> p, holds |-> Holds(run[p].seen, part)]

\* ... it has no other links there ...
OwnsOnly(p) ==
    /\ run[p].pc = "idle" => \A part \in Part : ~Owns(p, part)
    /\ ~stuck /\ Active(p) =>
          \A part \in Part : Owns(p, part) =>
              run[p].place = Environment /\ part \in ToSet(run[p].installed)

\* ... and no restore runs next to a sidecar that outlived its database.
SideWithDatabase ==
    ~stuck /\ Exists(Environment, "side") /\ (\E p \in Invocation : Restoring(p)) =>
        Exists(Environment, "db")
        /\ files[Environment]["db"].by = files[Environment]["side"].by

Owned == SideWithDatabase /\ \A p \in Invocation : Keeps(p) /\ OwnsOnly(p)

\* No power loss takes the data from under a marker.
DataDurable == \A part \in {"db", "side"} : <<Environment, part>> \notin volatile
Completed ==
    /\ \A p \in Invocation : Sealing(p) => DataDurable
    /\ ~stuck /\ Exists(Environment, "mark") => DataDurable

EnvInv == Owned /\ Completed /\ MarkerIsRestored
BackupInv == BackupTyped /\ Copied /\ EnvInv

-----------------------------------------------------------------------------
(* Backup: the sequences of a publication *)

LEMMA AppendToNone ==
  ASSUME NEW S, NEW x \in S
  PROVE  Append(<<>>, x) = <<x>>
<1>1. <<>> \in Seq(S) /\ <<x>> \in Seq(S)
  OBVIOUS
<1>2. /\ Append(<<>>, x) \in Seq(S) /\ Len(Append(<<>>, x)) = 1 /\ Len(<<x>>) = 1
      /\ Append(<<>>, x)[1] = x /\ <<x>>[1] = x
  BY <1>1
<1> QED BY <1>1, <1>2, SeqEqual

LEMMA AppendToOne ==
  ASSUME NEW S, NEW x \in S, NEW y \in S
  PROVE  Append(<<x>>, y) = <<x, y>>
<1>1. <<x>> \in Seq(S) /\ <<x, y>> \in Seq(S)
  OBVIOUS
<1>2. /\ Append(<<x>>, y) \in Seq(S) /\ Len(Append(<<x>>, y)) = 2 /\ Len(<<x, y>>) = 2
      /\ \A i \in 1 .. 2 : Append(<<x>>, y)[i] = <<x, y>>[i]
  BY <1>1
<1> QED BY <1>1, <1>2, SeqEqual

LEMMA AppendToTwo ==
  ASSUME NEW S, NEW x \in S, NEW y \in S, NEW z \in S
  PROVE  Append(<<x, y>>, z) = <<x, y, z>>
<1>1. <<x, y>> \in Seq(S) /\ <<x, y, z>> \in Seq(S)
  OBVIOUS
<1>2. /\ Append(<<x, y>>, z) \in Seq(S)
      /\ Len(Append(<<x, y>>, z)) = 3 /\ Len(<<x, y, z>>) = 3
      /\ \A i \in 1 .. 3 : Append(<<x, y>>, z)[i] = <<x, y, z>>[i]
  BY <1>1
<1> QED BY <1>1, <1>2, SeqEqual

LEMMA LastOfTwo ==
  ASSUME NEW S, NEW x \in S, NEW y \in S
  PROVE  Front(<<x, y>>) = <<x>> /\ Last(<<x, y>>) = y
<1>1. /\ <<x>> \in Seq(S) /\ <<x, y>> \in Seq(S)
      /\ Len(<<x, y>>) = 2 /\ Len(<<x>>) = 1
      /\ <<x, y>>[1] = x /\ <<x, y>>[2] = y /\ <<x>>[1] = x
  OBVIOUS
<1>2. /\ Front(<<x, y>>) \in Seq(S) /\ Len(Front(<<x, y>>)) = 1
      /\ \A i \in 1 .. 1 : Front(<<x, y>>)[i] = <<x, y>>[i]
  BY <1>1 DEF Front
<1>3. Front(<<x, y>>) = <<x>>
  BY <1>1, <1>2, SeqEqual
<1> QED BY <1>1, <1>3 DEF Last

LEMMA LastOfThree ==
  ASSUME NEW S, NEW x \in S, NEW y \in S, NEW z \in S
  PROVE  Front(<<x, y, z>>) = <<x, y>> /\ Last(<<x, y, z>>) = z
<1>1. /\ <<x, y>> \in Seq(S) /\ <<x, y, z>> \in Seq(S)
      /\ Len(<<x, y, z>>) = 3 /\ Len(<<x, y>>) = 2
      /\ <<x, y, z>>[1] = x /\ <<x, y, z>>[2] = y /\ <<x, y, z>>[3] = z
  OBVIOUS
<1>2. /\ Front(<<x, y, z>>) \in Seq(S) /\ Len(Front(<<x, y, z>>)) = 2
      /\ \A i \in 1 .. 2 : Front(<<x, y, z>>)[i] = <<x, y, z>>[i]
  BY <1>1 DEF Front
<1>3. Front(<<x, y, z>>) = <<x, y>>
  BY <1>1, <1>2, SeqEqual
<1> QED BY <1>1, <1>3 DEF Last

LEMMA PublishedParts ==
  ASSUME NEW s
  PROVE  /\ s.side = 0 => /\ DataParts(s) = <<"db">>
                          /\ Append(DataParts(s), "mark") = <<"db", "mark">>
         /\ s.side # 0 => /\ DataParts(s) = <<"db", "side">>
                          /\ Append(DataParts(s), "mark") = <<"db", "side", "mark">>
         /\ DataParts(s) \in Undoable
         /\ Append(DataParts(s), "mark") \in Undoable
         /\ ~Contains(DataParts(s), "mark")
         /\ Contains(Append(DataParts(s), "mark"), "mark")
<1>0. "db" \in Part /\ "side" \in Part /\ "mark" \in Part
  BY DEF Part
<1>1. CASE s.side = 0
  <2>1. DataParts(s) = <<"db">>
    BY <1>1 DEF DataParts
  <2>2. Append(<<"db">>, "mark") = <<"db", "mark">>
    BY <1>0, AppendToOne
  <2>3. ~Contains(<<"db">>, "mark") /\ Contains(<<"db", "mark">>, "mark")
    BY DEF Contains
  <2> QED BY <1>1, <2>1, <2>2, <2>3 DEF Undoable
<1>2. CASE s.side # 0
  <2>1. DataParts(s) = <<"db", "side">>
    BY <1>2 DEF DataParts
  <2>2. Append(<<"db", "side">>, "mark") = <<"db", "side", "mark">>
    BY <1>0, AppendToTwo
  <2>3. ~Contains(<<"db", "side">>, "mark") /\ Contains(<<"db", "side", "mark">>, "mark")
    BY DEF Contains
  <2> QED BY <1>2, <2>1, <2>2, <2>3 DEF Undoable
<1> QED BY <1>1, <1>2

LEMMA LinkedSets ==
  /\ ToSet(<<>>) = {} /\ ToSet(<<"db">>) = {"db"} /\ ToSet(<<"db", "side">>) = {"db", "side"}
  /\ ToSet(<<"db", "mark">>) = {"db", "mark"}
  /\ ToSet(<<"db", "side", "mark">>) = {"db", "side", "mark"}
<1>1. ToSet(<<>>) = {} /\ ToSet(<<"db">>) = {"db"}
  BY DEF ToSet
<1>2. ToSet(<<"db", "side">>) = {"db", "side"} /\ ToSet(<<"db", "mark">>) = {"db", "mark"}
  <2>1. DOMAIN <<"db", "side">> = {1, 2} /\ DOMAIN <<"db", "mark">> = {1, 2}
    OBVIOUS
  <2> QED BY <2>1 DEF ToSet
<1>3. ToSet(<<"db", "side", "mark">>) = {"db", "side", "mark"}
  <2>1. DOMAIN <<"db", "side", "mark">> = {1, 2, 3}
    OBVIOUS
  <2> QED BY <2>1 DEF ToSet
<1> QED BY <1>1, <1>2, <1>3

LEMMA UndoneLast ==
  /\ Front(<<"db">>) = <<>> /\ Last(<<"db">>) = "db"
  /\ Front(<<"db", "side">>) = <<"db">> /\ Last(<<"db", "side">>) = "side"
  /\ Front(<<"db", "mark">>) = <<"db">> /\ Last(<<"db", "mark">>) = "mark"
  /\ Front(<<"db", "side", "mark">>) = <<"db", "side">> /\ Last(<<"db", "side", "mark">>) = "mark"
<1>1. "db" \in Part /\ "side" \in Part /\ "mark" \in Part
  BY DEF Part
<1>2. Front(<<"db">>) = <<>> /\ Last(<<"db">>) = "db"
  BY DEF Front, Last
<1> QED BY <1>1, <1>2, LastOfTwo, LastOfThree

LEMMA UndoableParts ==
  ASSUME NEW s \in Undoable, s # <<>>
  PROVE  /\ Front(s) \in Undoable /\ Last(s) \in Part
         /\ Last(s) \notin ToSet(Front(s))
         /\ ToSet(s) = ToSet(Front(s)) \cup {Last(s)}
         /\ "mark" \in ToSet(s) => Last(s) = "mark"
BY LinkedSets, UndoneLast DEF Undoable, Part

LEMMA UndoableType == Undoable \subseteq Seq(Part)
BY DEF Undoable, Part

-----------------------------------------------------------------------------
(* Backup: one invocation takes its turn *)

Turn(p) ==
    /\ run' \in [Invocation -> RunType]
    /\ Staging(run'[p])
    /\ \A r \in Invocation : r # p => run'[r] = run[r]

LEMMA TurnTaken ==
  ASSUME BackupTyped, NEW p \in Invocation, NEW r \in RunType, Staging(r),
         run' = [run EXCEPT ![p] = r]
  PROVE  Turn(p) /\ run'[p] = r
<1>1. run \in [Invocation -> RunType]
  BY DEF BackupTyped, BackupTypeOK
<1> QED BY <1>1 DEF Turn

LEMMA RunFields ==
  ASSUME BackupTyped, NEW p \in Invocation
  PROVE  /\ run \in [Invocation -> RunType] /\ run[p] \in RunType /\ Staging(run[p])
         /\ run[p] = [pc |-> run[p].pc, place |-> run[p].place, from |-> run[p].from,
                      seen |-> run[p].seen, todo |-> run[p].todo,
                      installed |-> run[p].installed]
         /\ run[p].seen = [db |-> run[p].seen.db, side |-> run[p].seen.side]
<1>1. run \in [Invocation -> RunType] /\ run[p] \in RunType /\ Staging(run[p])
  BY DEF BackupTyped, BackupTypeOK
<1> QED BY <1>1 DEF RunType

LEMMA FreshRun ==
  /\ Fresh \in RunType
  /\ Fresh.pc = "idle" /\ Fresh.place = NoBundle /\ Fresh.from = NoBundle
  /\ Fresh.seen = NoSnapshot /\ Fresh.todo = <<>> /\ Fresh.installed = <<>>
BY BackupAssumption DEF RunType, Place, NoSnapshot, Fresh

LEMMA BeginBackupTurn ==
  ASSUME BackupTyped, NEW p \in Invocation, NEW b \in Bundle, BeginBackup(p, b)
  PROVE  /\ Turn(p)
         /\ run'[p].pc = "stage_db" /\ run'[p].place = b /\ run'[p].installed = <<>>
<1> DEFINE r == [Fresh EXCEPT !.pc = "stage_db", !.place = b]
<1>1. /\ r \in RunType
      /\ r.pc = "stage_db" /\ r.place = b /\ r.todo = <<>> /\ r.installed = <<>>
  BY FreshRun DEF RunType, Place
<1>2. Staging(r)
  BY <1>1 DEF Staging
<1>3. run' = [run EXCEPT ![p] = r]
  BY DEF BeginBackup
<1> QED BY <1>1, <1>2, <1>3, TurnTaken

LEMMA StageDatabaseTurn ==
  ASSUME BackupTyped, NEW p \in Invocation, StageDatabase(p)
  PROVE  Turn(p) /\ run'[p] = [run[p] EXCEPT !.pc = "stage_side", !.seen.db = source.db]
<1> DEFINE r == [run[p] EXCEPT !.pc = "stage_side", !.seen.db = source.db]
<1>1. /\ run[p] \in RunType /\ Staging(run[p])
      /\ run[p].pc = "stage_db" /\ source.db \in 0 .. MaxRelease
  BY RunFields, BackupAssumption DEF StageDatabase, BackupTyped, BackupTypeOK, Snapshot, Release
<1>2. r \in RunType
  BY <1>1 DEF RunType
<1>3. Staging(r)
  BY <1>1 DEF Staging, RunType
<1>4. run' = [run EXCEPT ![p] = r]
  BY DEF StageDatabase
<1> QED BY <1>2, <1>3, <1>4, TurnTaken

LEMMA StageSidecarTurn ==
  ASSUME BackupTyped, NEW p \in Invocation, StageSidecar(p)
  PROVE  Turn(p) /\ run'[p] = [run[p] EXCEPT !.pc = "claim", !.seen.side = source.side]
<1> DEFINE r == [run[p] EXCEPT !.pc = "claim", !.seen.side = source.side]
<1>1. /\ run[p] \in RunType /\ Staging(run[p])
      /\ run[p].pc = "stage_side" /\ source.side \in 0 .. MaxRelease
  BY RunFields DEF StageSidecar, BackupTyped, BackupTypeOK, Snapshot
<1>2. r \in RunType
  BY <1>1 DEF RunType
<1>3. Staging(r)
  BY <1>1 DEF Staging, RunType
<1>4. run' = [run EXCEPT ![p] = r]
  BY DEF StageSidecar
<1> QED BY <1>2, <1>3, <1>4, TurnTaken

\* A step that raises leaves for the except clause what was linked so far.
LEMMA Raising ==
  ASSUME BackupTyped, NEW p \in Invocation, Active(p)
  PROVE  LET r == [run[p] EXCEPT !.pc = "undo"] IN r \in RunType /\ Staging(r)
<1>1. run[p] \in RunType /\ Staging(run[p])
  BY RunFields
<1>2. run[p].place \in Place /\ run[p].installed \in Undoable
  <2>1. run[p].pc = "install" => run[p].installed \in Undoable
    BY <1>1, PublishedParts DEF Staging, Linking, Undoable
  <2> QED BY <1>1, <2>1, PublishedParts DEF Staging, RunType, Active, Place, Undoable
<1> QED BY <1>1, <1>2 DEF RunType, Staging

LEMMA Proceeding ==
  ASSUME BackupTyped, NEW p \in Invocation, Active(p), NEW ok \in BOOLEAN, NEW next \in RunType,
         ok => Staging(next), Proceed(p, ok, next)
  PROVE  /\ Turn(p)
         /\ ok => run'[p] = next
         /\ ~ok => run'[p] = [run[p] EXCEPT !.pc = "undo"]
<1>1. run \in [Invocation -> RunType]
  BY RunFields
<1>2. CASE ok
  <2>1. run' = [run EXCEPT ![p] = next]
    BY <1>1, <1>2 DEF Proceed
  <2> QED BY <1>2, <2>1, TurnTaken
<1>3. CASE ~ok
  <2>1. run' = [run EXCEPT ![p] = [run[p] EXCEPT !.pc = "undo"]]
    BY <1>1, <1>3 DEF Proceed
  <2> QED BY <1>3, <2>1, TurnTaken, Raising
<1> QED BY <1>2, <1>3

LEMMA PartsTyped == \A s : DataParts(s) \in Seq(Part)
BY PublishedParts, UndoableType

LEMMA ClaimTurn ==
  ASSUME BackupTyped, NEW p \in Invocation, Claim(p)
  PROVE  /\ Turn(p) /\ run[p].pc = "claim"
         /\ run'[p].place = run[p].place /\ run'[p].seen = run[p].seen
         /\ run'[p].installed = <<>> /\ run'[p].pc \in {"install", "undo"}
         /\ run'[p].pc = "install" => run'[p].todo = DataParts(run'[p].seen)
<1> DEFINE ok == claimed[run[p].place] = NoFile
           next == [run[p] EXCEPT !.pc = "install", !.todo = DataParts(run[p].seen)]
<1>1. /\ run[p] \in RunType /\ Staging(run[p]) /\ run[p].pc = "claim"
      /\ run[p].place \in Bundle /\ run[p].installed = <<>> /\ Active(p)
  BY RunFields DEF Claim, Staging, Active
<1>2. next \in RunType
  BY <1>1, PartsTyped DEF RunType
<1>3. Staging(next)
  BY <1>1 DEF Staging, Linking, RunType, Place
<1>4. Proceed(p, ok, next)
  BY DEF Claim
<1>5. ok \in BOOLEAN
  OBVIOUS
<1>6. /\ Turn(p)
      /\ ok => run'[p] = next
      /\ ~ok => run'[p] = [run[p] EXCEPT !.pc = "undo"]
  BY <1>1, <1>2, <1>3, <1>4, <1>5, Proceeding
<1>7. CASE ok
  BY <1>1, <1>6, <1>7 DEF RunType
<1>8. CASE ~ok
  BY <1>1, <1>6, <1>8 DEF RunType
<1> QED BY <1>7, <1>8

LEMMA LinkingType ==
  ASSUME NEW s, NEW i, NEW t, Linking(s, i, t)
  PROVE  i \in Undoable /\ i \in Seq(Part) /\ t \in Seq(Part)
<1>1. i \in Undoable
  BY PublishedParts DEF Linking, Undoable
<1>2. <<>> \in Seq(Part) /\ <<"side">> \in Seq(Part) /\ <<"mark">> \in Seq(Part)
  BY DEF Part
<1> QED BY <1>1, <1>2, UndoableType, PartsTyped DEF Linking

LEMMA NextLink ==
  ASSUME NEW s, NEW i, NEW t, Linking(s, i, t), t # <<>>
  PROVE  /\ Linking(s, Append(i, Head(t)), Tail(t)) /\ Head(t) \in Part
         /\ ToSet(Append(i, Head(t))) = ToSet(i) \cup {Head(t)}
         /\ Head(t) \notin ToSet(i)
         /\ Head(t) = "db" => i = <<>>
         /\ Head(t) = "side" => i = <<"db">> /\ s.side # 0
         /\ Head(t) = "mark" => i = DataParts(s) /\ t = <<"mark">>
<1>0. "db" \in Part /\ "side" \in Part /\ "mark" \in Part
  BY DEF Part
<1>1. CASE i = <<>> /\ t = DataParts(s) /\ s.side = 0
  <2>1. t = <<"db">> /\ Tail(t) = <<>> /\ Append(i, Head(t)) = <<"db">> /\ Head(t) = "db"
    <3>1. t = <<"db">>
      BY <1>1, PublishedParts
    <3>2. Tail(<<"db">>) = <<>> /\ Head(<<"db">>) = "db"
      OBVIOUS
    <3> QED BY <1>0, <1>1, <3>1, <3>2, AppendToNone
  <2> QED BY <1>0, <1>1, <2>1, LinkedSets, PublishedParts DEF Linking
<1>2. CASE i = <<>> /\ t = DataParts(s) /\ s.side # 0
  <2>1. /\ t = <<"db", "side">> /\ Tail(t) = <<"side">>
        /\ Append(i, Head(t)) = <<"db">> /\ Head(t) = "db"
    <3>1. t = <<"db", "side">>
      BY <1>2, PublishedParts
    <3>2. Tail(<<"db", "side">>) = <<"side">> /\ Head(<<"db", "side">>) = "db"
      OBVIOUS
    <3> QED BY <1>0, <1>2, <3>1, <3>2, AppendToNone
  <2> QED BY <1>0, <1>2, <2>1, LinkedSets DEF Linking
<1>3. CASE i = <<"db">> /\ s.side # 0 /\ t = <<"side">>
  <2>1. Tail(t) = <<>> /\ Append(i, Head(t)) = <<"db", "side">> /\ Head(t) = "side"
    BY <1>0, <1>3, AppendToOne
  <2> QED BY <1>0, <1>3, <2>1, LinkedSets, PublishedParts DEF Linking
<1>4. CASE i = DataParts(s) /\ t = <<"mark">>
  <2>1. Tail(t) = <<>> /\ Append(i, Head(t)) = Append(DataParts(s), "mark") /\ Head(t) = "mark"
    BY <1>4
  <2>2. CASE s.side = 0
    BY <1>0, <1>4, <2>1, <2>2, LinkedSets, PublishedParts DEF Linking
  <2>3. CASE s.side # 0
    BY <1>0, <1>4, <2>1, <2>3, LinkedSets, PublishedParts DEF Linking
  <2> QED BY <2>2, <2>3
<1> QED BY <1>1, <1>2, <1>3, <1>4 DEF Linking

LEMMA InstallTurn ==
  ASSUME BackupTyped, NEW p \in Invocation, Install(p)
  PROVE  LET part == Head(run[p].todo)
             free == ~Exists(run[p].place, part)
         IN  /\ Turn(p) /\ run[p].pc = "install" /\ part \in Part /\ run[p].place \in Place
             /\ Linking(run[p].seen, run[p].installed, run[p].todo)
             /\ run'[p].place = run[p].place /\ run'[p].seen = run[p].seen
             /\ free => /\ run'[p].pc = "install" /\ run'[p].todo = Tail(run[p].todo)
                        /\ run'[p].installed = Append(run[p].installed, part)
             /\ ~free => run'[p].pc = "undo" /\ run'[p].installed = run[p].installed
<1> DEFINE part == Head(run[p].todo)
           free == ~Exists(run[p].place, part)
           i == Append(run[p].installed, part)
           t == Tail(run[p].todo)
           next == [run[p] EXCEPT !.todo = Tail(@), !.installed = Append(@, part)]
<1>1. /\ run[p] \in RunType /\ Staging(run[p]) /\ run[p].pc = "install" /\ Active(p)
      /\ Linking(run[p].seen, run[p].installed, run[p].todo) /\ run[p].todo # <<>>
      /\ run[p].place \in Place
  BY RunFields DEF Install, Staging, Active
<1>2. part \in Part /\ Linking(run[p].seen, i, t)
  BY <1>1, NextLink
<1>3. i \in Seq(Part) /\ t \in Seq(Part)
  BY <1>2, LinkingType
<1>4. /\ next \in RunType /\ next.pc = "install" /\ next.place = run[p].place
      /\ next.seen = run[p].seen /\ next.todo = t /\ next.installed = i
  BY <1>1, <1>3 DEF RunType
<1>5. Staging(next)
  BY <1>1, <1>2, <1>4 DEF Staging
<1>6. Proceed(p, free, next) /\ free \in BOOLEAN
  BY DEF Install
<1>7. /\ Turn(p)
      /\ free => run'[p] = next
      /\ ~free => run'[p] = [run[p] EXCEPT !.pc = "undo"]
  BY <1>1, <1>4, <1>5, <1>6, Proceeding
<1>8. CASE free
  BY <1>1, <1>2, <1>4, <1>7, <1>8
<1>9. CASE ~free
  BY <1>1, <1>2, <1>7, <1>9 DEF RunType
<1> QED BY <1>8, <1>9

LEMMA LinkedAll ==
  ASSUME NEW s, NEW i, Linking(s, i, <<>>)
  PROVE  /\ i = DataParts(s) \/ i = Append(DataParts(s), "mark")
         /\ ~Contains(i, "mark") => i = DataParts(s)
         /\ Contains(i, "mark") => i = Append(DataParts(s), "mark")
<1>1. <<"db">> # <<>> /\ <<"db", "side">> # <<>> /\ <<"side">> # <<>>
  OBVIOUS
<1>2. DataParts(s) # <<>>
  BY <1>1 DEF DataParts
<1> QED BY <1>1, <1>2, PublishedParts DEF Linking

LEMMA SyncDataTurn ==
  ASSUME BackupTyped, NEW p \in Invocation, SyncData(p)
  PROVE  /\ Turn(p) /\ run[p].pc = "install" /\ run[p].place \in Place
         /\ run[p].installed = DataParts(run[p].seen)
         /\ run'[p].place = run[p].place /\ run'[p].seen = run[p].seen
         /\ run'[p].installed = run[p].installed
         /\ run[p].place = Environment => run'[p].pc = "check"
         /\ run[p].place # Environment => run'[p].pc = "install" /\ run'[p].todo = <<"mark">>
<1> DEFINE checks == [run[p] EXCEPT !.pc = "check"]
           marks == [run[p] EXCEPT !.todo = <<"mark">>]
<1>1. /\ run[p] \in RunType /\ Staging(run[p]) /\ run[p].pc = "install"
      /\ run[p].todo = <<>> /\ run[p].place \in Place
      /\ Linking(run[p].seen, run[p].installed, <<>>)
      /\ run \in [Invocation -> RunType]
  BY RunFields DEF SyncData, Staging
<1>2. run[p].installed = DataParts(run[p].seen)
  BY <1>1, LinkedAll DEF SyncData
<1>3. CASE run[p].place = Environment
  <2>1. /\ checks \in RunType /\ checks.pc = "check" /\ checks.place = Environment
        /\ checks.seen = run[p].seen /\ checks.installed = run[p].installed
        /\ checks.todo = <<>>
    BY <1>1, <1>3 DEF RunType
  <2>2. Staging(checks)
    BY <1>2, <2>1 DEF Staging
  <2>3. run' = [run EXCEPT ![p] = checks]
    BY <1>1, <1>3 DEF SyncData
  <2> QED BY <1>1, <1>2, <1>3, <2>1, <2>2, <2>3, TurnTaken
<1>4. CASE run[p].place # Environment
  <2>1. <<"mark">> \in Seq(Part)
    BY DEF Part
  <2>2. /\ marks \in RunType /\ marks.pc = "install" /\ marks.place = run[p].place
        /\ marks.seen = run[p].seen /\ marks.installed = run[p].installed
        /\ marks.todo = <<"mark">>
    BY <1>1, <2>1 DEF RunType
  <2>3. Staging(marks)
    BY <1>1, <1>2, <2>2 DEF Staging, Linking
  <2>4. run' = [run EXCEPT ![p] = marks]
    BY <1>1, <1>4 DEF SyncData
  <2> QED BY <1>1, <1>2, <1>4, <2>2, <2>3, <2>4, TurnTaken
<1> QED BY <1>3, <1>4

\* The ways out of an invocation: done, failed and dead.
LEMMA LeavingTurn ==
  ASSUME BackupTyped, NEW p \in Invocation, NEW pc \in {"done", "failed", "dead"},
         run' = [run EXCEPT ![p].pc = pc]
  PROVE  Turn(p) /\ run'[p].pc = pc
<1> DEFINE r == [run[p] EXCEPT !.pc = pc]
<1>1. run[p] \in RunType /\ r \in RunType /\ r.pc = pc
  BY RunFields DEF RunType
<1>2. Staging(r)
  BY <1>1 DEF Staging
<1> QED BY <1>1, <1>2, TurnTaken

LEMMA RaiseTurn ==
  ASSUME BackupTyped, NEW p \in Invocation, Raise(p)
  PROVE  /\ Turn(p) /\ Active(p)
         /\ run'[p].pc = "undo" /\ run'[p].place = run[p].place
         /\ run'[p].seen = run[p].seen /\ run'[p].installed = run[p].installed
<1> DEFINE r == [run[p] EXCEPT !.pc = "undo"]
<1>1. run[p] \in RunType /\ r \in RunType /\ Staging(r) /\ Active(p)
  BY RunFields, Raising DEF Raise
<1>2. run' = [run EXCEPT ![p] = r]
  BY DEF Raise
<1>3. /\ r.pc = "undo" /\ r.place = run[p].place /\ r.seen = run[p].seen
      /\ r.installed = run[p].installed
  BY <1>1 DEF RunType
<1> QED BY <1>1, <1>2, <1>3, TurnTaken

LEMMA UndoLinkTurn ==
  ASSUME BackupTyped, NEW p \in Invocation, NEW removed \in BOOLEAN, UndoLink(p, removed)
  PROVE  /\ Turn(p) /\ run[p].pc = "undo" /\ run[p].place \in Place
         /\ run[p].installed \in Undoable /\ run[p].installed # <<>>
         /\ run'[p].pc = "undo" /\ run'[p].place = run[p].place
         /\ run'[p].seen = run[p].seen /\ run'[p].installed = Front(run[p].installed)
<1> DEFINE r == [run[p] EXCEPT !.installed = Front(@)]
<1>1. /\ run[p] \in RunType /\ run[p].pc = "undo" /\ run[p].place \in Place
      /\ run[p].installed \in Undoable /\ run[p].installed # <<>>
  BY RunFields DEF UndoLink, Staging
<1>2. Front(run[p].installed) \in Undoable /\ Front(run[p].installed) \in Seq(Part)
  BY <1>1, UndoableParts, UndoableType
<1>3. /\ r \in RunType /\ r.pc = "undo" /\ r.place = run[p].place /\ r.seen = run[p].seen
      /\ r.installed = Front(run[p].installed)
  BY <1>1, <1>2 DEF RunType
<1>4. Staging(r)
  BY <1>1, <1>2, <1>3 DEF Staging
<1>5. run' = [run EXCEPT ![p] = r]
  BY DEF UndoLink
<1> QED BY <1>1, <1>3, <1>4, <1>5, TurnTaken

LEMMA LinkType ==
  ASSUME BackupTyped, NEW q \in Place, NEW part \in Part, Exists(q, part)
  PROVE  /\ files[q][part].by \in Invocation \cup {Earlier}
         /\ files[q][part].holds \in Content(part)
         /\ files[q][part] = [by |-> files[q][part].by, holds |-> files[q][part].holds]
BY DEF BackupTyped, BackupTypeOK, FileType, Exists

LEMMA HeldType ==
  ASSUME NEW s \in Snapshot, NEW part \in Part
  PROVE  Holds(s, part) \in Content(part)
<1>1. s.db \in 0 .. MaxRelease /\ s.side \in 0 .. MaxRelease
  BY BackupAssumption DEF Snapshot, Release
<1>2. CASE part = "mark"
  BY <1>2 DEF Holds, Content
<1>3. CASE part = "db"
  BY <1>1, <1>3 DEF Holds, Content
<1>4. CASE part = "side"
  BY <1>1, <1>4 DEF Holds, Content
<1> QED BY <1>2, <1>3, <1>4 DEF Part

LEMMA NewLink ==
  ASSUME NEW p \in Invocation \cup {Earlier}, NEW part \in Part, NEW x \in Content(part)
  PROVE  /\ [by |-> p, holds |-> x] \in FileType(part)
         /\ [by |-> p, holds |-> x] # NoFile
<1>1. x \in Snapshot \cup (0 .. MaxRelease)
  BY DEF Content
<1>2. [by |-> p, holds |-> x] \in Link
  BY <1>1 DEF Link
<1> QED BY <1>2, BackupAssumption DEF FileType

LEMMA BeginRestoreTurn ==
  ASSUME BackupTyped, NEW p \in Invocation, NEW b \in Bundle, BeginRestore(p, b)
  PROVE  /\ Turn(p) /\ run[p].pc = "idle"
         /\ run'[p].pc = "copy" /\ run'[p].place = Environment /\ run'[p].installed = <<>>
         /\ run'[p].seen = files[b]["mark"].holds /\ Exists(b, "mark")
<1> DEFINE m == files[b]["mark"].holds
           r == [Fresh EXCEPT !.pc = "copy", !.place = Environment, !.from = b,
                              !.seen = m, !.todo = DataParts(m)]
<1>1. Exists(b, "mark") /\ "mark" \in Part /\ b \in Place
  BY DEF BeginRestore, Verified, Part, Place
<1>2. m \in Snapshot
  BY <1>1, LinkType DEF Content
<1>3. m \in [db : 0 .. MaxRelease, side : 0 .. MaxRelease]
  BY <1>2, BackupAssumption DEF Snapshot, Release
<1>4. /\ r.pc = "copy" /\ r.place = Environment /\ r.installed = <<>> /\ r.seen = m
      /\ r \in RunType
  BY <1>3, FreshRun, PartsTyped DEF RunType, Place
<1>5. Staging(r)
  BY <1>4 DEF Staging
<1>6. run' = [run EXCEPT ![p] = r] /\ run[p].pc = "idle"
  BY DEF BeginRestore
<1> QED BY <1>1, <1>4, <1>5, <1>6, TurnTaken

LEMMA CopyTurn ==
  ASSUME BackupTyped, NEW p \in Invocation, CopyFromBundle(p)
  PROVE  /\ Turn(p) /\ run[p].pc = "copy" /\ run[p].installed = <<>>
         /\ run[p].place = Environment
         /\ run'[p].pc \in {"copy", "undo"} /\ run'[p].place = run[p].place
         /\ run'[p].seen = run[p].seen /\ run'[p].installed = <<>>
<1> DEFINE part == Head(run[p].todo)
           ok == Exists(run[p].from, part)
                 /\ files[run[p].from][part].holds = run[p].seen[part]
           next == [run[p] EXCEPT !.todo = Tail(@)]
<1>1. /\ run[p] \in RunType /\ Staging(run[p]) /\ run[p].pc = "copy" /\ run[p].todo # <<>>
      /\ run[p].place = Environment /\ run[p].installed = <<>> /\ Active(p)
  BY RunFields DEF CopyFromBundle, Staging, Active
<1>2. Tail(run[p].todo) \in Seq(Part)
  BY <1>1 DEF RunType
<1>3. /\ next \in RunType /\ next.pc = "copy" /\ next.place = Environment
      /\ next.seen = run[p].seen /\ next.installed = <<>>
  BY <1>1, <1>2 DEF RunType
<1>4. Staging(next)
  BY <1>3 DEF Staging
<1>5. Proceed(p, ok, next) /\ ok \in BOOLEAN
  BY DEF CopyFromBundle
<1>6. /\ Turn(p)
      /\ ok => run'[p] = next
      /\ ~ok => run'[p] = [run[p] EXCEPT !.pc = "undo"]
  BY <1>1, <1>3, <1>4, <1>5, Proceeding
<1>7. CASE ok
  BY <1>1, <1>3, <1>6, <1>7
<1>8. CASE ~ok
  BY <1>1, <1>6, <1>8 DEF RunType
<1> QED BY <1>7, <1>8

LEMMA RecheckTurn ==
  ASSUME BackupTyped, NEW p \in Invocation, Recheck(p)
  PROVE  /\ Turn(p) /\ run[p].pc = "copy" /\ run[p].installed = <<>>
         /\ run[p].place = Environment
         /\ run'[p].place = run[p].place /\ run'[p].seen = run[p].seen
         /\ run'[p].installed = <<>> /\ run'[p].pc \in {"install", "undo"}
         /\ run'[p].pc = "install" => run'[p].todo = DataParts(run'[p].seen)
<1> DEFINE ok == Clear(Environment)
           next == [run[p] EXCEPT !.pc = "install", !.todo = DataParts(run[p].seen)]
<1>1. /\ run[p] \in RunType /\ Staging(run[p]) /\ run[p].pc = "copy"
      /\ run[p].place = Environment /\ run[p].installed = <<>> /\ Active(p)
  BY RunFields DEF Recheck, Staging, Active
<1>2. /\ next \in RunType /\ next.pc = "install" /\ next.place = Environment
      /\ next.seen = run[p].seen /\ next.installed = <<>>
      /\ next.todo = DataParts(run[p].seen)
  BY <1>1, PartsTyped DEF RunType
<1>3. Staging(next)
  BY <1>2 DEF Staging, Linking, Place
<1>4. Proceed(p, ok, next) /\ ok \in BOOLEAN
  BY DEF Recheck, Clear
<1>5. /\ Turn(p)
      /\ ok => run'[p] = next
      /\ ~ok => run'[p] = [run[p] EXCEPT !.pc = "undo"]
  BY <1>1, <1>2, <1>3, <1>4, Proceeding
<1>6. CASE ok
  BY <1>1, <1>2, <1>5, <1>6
<1>7. CASE ~ok
  BY <1>1, <1>5, <1>7 DEF RunType
<1> QED BY <1>6, <1>7

LEMMA CheckTurn ==
  ASSUME BackupTyped, NEW p \in Invocation, CheckInstalled(p)
  PROVE  /\ Turn(p) /\ run[p].pc = "check" /\ run[p].place = Environment
         /\ run'[p].place = run[p].place /\ run'[p].seen = run[p].seen
         /\ run'[p].installed = run[p].installed /\ run'[p].pc \in {"install", "undo"}
         /\ run'[p].pc = "install" => run'[p].todo = <<"mark">>
<1> DEFINE ok == \A part \in ToSet(DataParts(run[p].seen)) :
                     Exists(Environment, part)
                     /\ files[Environment][part].holds = run[p].seen[part]
           next == [run[p] EXCEPT !.pc = "install", !.todo = <<"mark">>]
<1>1. /\ run[p] \in RunType /\ Staging(run[p]) /\ run[p].pc = "check"
      /\ run[p].place = Environment /\ run[p].installed = DataParts(run[p].seen) /\ Active(p)
  BY RunFields DEF CheckInstalled, Staging, Active
<1>2. <<"mark">> \in Seq(Part)
  BY DEF Part
<1>3. /\ next \in RunType /\ next.pc = "install" /\ next.place = Environment
      /\ next.seen = run[p].seen /\ next.installed = run[p].installed
      /\ next.todo = <<"mark">>
  BY <1>1, <1>2 DEF RunType
<1>4. Staging(next)
  BY <1>1, <1>3 DEF Staging, Linking, Place
<1>5. Proceed(p, ok, next) /\ ok \in BOOLEAN
  BY DEF CheckInstalled
<1>6. /\ Turn(p)
      /\ ok => run'[p] = next
      /\ ~ok => run'[p] = [run[p] EXCEPT !.pc = "undo"]
  BY <1>1, <1>3, <1>4, <1>5, Proceeding
<1>7. CASE ok
  BY <1>1, <1>3, <1>6, <1>7
<1>8. CASE ~ok
  BY <1>1, <1>6, <1>8 DEF RunType
<1> QED BY <1>7, <1>8

-----------------------------------------------------------------------------
(* Backup: types *)

FilesTyped ==
    /\ files = [q \in Place |-> [part \in Part |-> files[q][part]]]
    /\ \A q \in Place, part \in Part : files[q][part] \in FileType(part)

SetsFile(q, part, x) == files' = [files EXCEPT ![q][part] = x]

LEMMA OneFile ==
  ASSUME FilesTyped, NEW q \in Place, NEW part \in Part, NEW x \in FileType(part),
         SetsFile(q, part, x)
  PROVE  /\ FilesTyped'
         /\ \A o \in Place, k \in Part :
               files'[o][k] = IF o = q /\ k = part THEN x ELSE files[o][k]
<1>1. DOMAIN files = Place /\ \A o \in Place : DOMAIN files[o] = Part
  BY DEF FilesTyped
<1>2. \A o \in Place : files[o] = [k \in Part |-> files[o][k]]
  BY DEF FilesTyped
<1>3. files' = [o \in Place |-> IF o = q THEN [files[q] EXCEPT ![part] = x] ELSE files[o]]
  BY <1>1 DEF SetsFile
<1>4. [files[q] EXCEPT ![part] = x] = [k \in Part |-> IF k = part THEN x ELSE files[q][k]]
  BY <1>1
<1>5. \A o \in Place, k \in Part :
         files'[o][k] = IF o = q /\ k = part THEN x ELSE files[o][k]
  BY <1>3, <1>4
<1>6. \A o \in Place : files'[o] = [k \in Part |-> files'[o][k]]
  BY <1>2, <1>3, <1>4, <1>5
<1>7. files' = [o \in Place |-> [k \in Part |-> files'[o][k]]]
  BY <1>3, <1>6
<1> QED BY <1>5, <1>7 DEF FilesTyped

LEMMA TypedParts ==
  BackupTyped <=> /\ source \in Snapshot /\ worker \in {"running", "stopped"}
            /\ claimed \in [Bundle -> Invocation \cup {Earlier, NoFile}]
            /\ FilesTyped /\ volatile \subseteq Place \X Part
            /\ run \in [Invocation -> RunType] /\ stuck \in BOOLEAN
            /\ \A p \in Invocation : Staging(run[p])
BY DEF BackupTyped, BackupTypeOK, FilesTyped

\* A turn that leaves the files alone.
LEMMA QuietTurn ==
  ASSUME BackupTyped, NEW p \in Invocation, Turn(p), UNCHANGED <<source, worker, files, stuck>>,
         claimed' \in [Bundle -> Invocation \cup {Earlier, NoFile}],
         volatile' \subseteq volatile
  PROVE  BackupTyped'
<1>1. FilesTyped'
  BY TypedParts DEF FilesTyped
<1>2. \A r \in Invocation : Staging(run'[r])
  BY DEF Turn, BackupTyped
<1>3. /\ source' \in Snapshot /\ worker' \in {"running", "stopped"}
      /\ volatile' \subseteq Place \X Part /\ stuck' \in BOOLEAN
  BY TypedParts
<1> QED BY <1>1, <1>2, <1>3 DEF Turn, BackupTyped, BackupTypeOK, FilesTyped

LEMMA InitTyped == BackupInit => BackupTyped
<1> SUFFICES ASSUME BackupInit PROVE BackupTyped
  OBVIOUS
<1>1. source \in Snapshot
  BY BackupAssumption DEF BackupInit, Snapshot, Release
<1>2. run \in [Invocation -> RunType] /\ \A p \in Invocation : Staging(run[p])
  BY FreshRun DEF BackupInit, Staging
<1>3. PICK used \in SUBSET Bundle :
        /\ claimed = [b \in Bundle |-> IF b \in used THEN Earlier ELSE NoFile]
        /\ \E past \in [used -> {[db |-> 1, side |-> x] : x \in {0, 1}}] :
              files = [q \in Place |-> IF q \in used THEN Complete(Earlier, past[q]) ELSE Unused]
  BY DEF BackupInit
<1>4. PICK past \in [used -> {[db |-> 1, side |-> x] : x \in {0, 1}}] :
        files = [q \in Place |-> IF q \in used THEN Complete(Earlier, past[q]) ELSE Unused]
  BY <1>3
<1>5. \A q \in used : past[q] \in Snapshot
  <2>1. \A x \in {0, 1} : [db |-> 1, side |-> x] \in Snapshot
    BY BackupAssumption DEF Snapshot, Release
  <2> QED BY <2>1
<1>6. ASSUME NEW q \in Place, NEW part \in Part PROVE files[q][part] \in FileType(part)
  <2>1. CASE q \notin used
    BY <1>4, <2>1 DEF Unused, FileType
  <2>2. CASE q \in used
    <3>1. files[q][part] = IF part = "side" /\ past[q].side = 0 THEN NoFile
                           ELSE [by |-> Earlier, holds |-> Holds(past[q], part)]
      BY <1>4, <2>2 DEF Complete
    <3>2. past[q] \in Snapshot
      BY <1>5, <2>2
    <3>3. Holds(past[q], part) \in Content(part)
      BY <3>2, HeldType
    <3> QED BY <3>1, <3>3, NewLink DEF FileType
  <2> QED BY <2>1, <2>2
<1>7. files = [q \in Place |-> [part \in Part |-> files[q][part]]]
  BY <1>4 DEF Complete, Unused
<1>8. claimed \in [Bundle -> Invocation \cup {Earlier, NoFile}]
  BY <1>3
<1> QED BY <1>1, <1>2, <1>6, <1>7, <1>8 DEF BackupInit, BackupTyped, BackupTypeOK

-----------------------------------------------------------------------------
(* Backup: what each step does to the files *)

LEMMA InstallFiles ==
  ASSUME BackupTyped, Copied, NEW p \in Invocation, Install(p)
  PROVE  LET q == run[p].place
             part == Head(run[p].todo)
             x == [by |-> p, holds |-> Holds(run[p].seen, part)]
         IN  /\ FilesTyped' /\ x # NoFile
             /\ Exists(q, part) => files' = files /\ volatile' = volatile
             /\ ~Exists(q, part) =>
                  /\ \A o \in Place, k \in Part :
                        files'[o][k] = IF o = q /\ k = part THEN x ELSE files[o][k]
                  /\ volatile' = volatile \cup {<<q, part>>}
<1> DEFINE q == run[p].place
           part == Head(run[p].todo)
           x == [by |-> p, holds |-> Holds(run[p].seen, part)]
<1>1. part \in Part /\ q \in Place /\ run[p].pc = "install"
  BY InstallTurn
<1>2. run[p].seen \in Snapshot
  BY <1>1 DEF Copied, CopiedBy, OneRelease
<1>3. x \in FileType(part) /\ x # NoFile
  BY <1>1, <1>2, HeldType, NewLink
<1>4. FilesTyped
  BY TypedParts
<1>5. CASE Exists(q, part)
  <2>1. files' = [files EXCEPT ![q][part] = files[q][part]] /\ volatile' = volatile
    BY <1>5 DEF Install
  <2>2. files' = files
    BY <1>1, <1>4, <2>1 DEF FilesTyped
  <2>3. FilesTyped'
    BY <1>4, <2>2 DEF FilesTyped
  <2> QED BY <1>3, <1>5, <2>1, <2>2, <2>3
<1>6. CASE ~Exists(q, part)
  <2>1. files' = [files EXCEPT ![q][part] = x] /\ volatile' = volatile \cup {<<q, part>>}
    BY <1>6 DEF Install
  <2> HIDE DEF q, part, x
  <2>2. /\ FilesTyped'
        /\ \A o \in Place, k \in Part :
              files'[o][k] = IF o = q /\ k = part THEN x ELSE files[o][k]
    <3>1. x \in FileType(part) /\ SetsFile(q, part, x)
      BY <1>3, <2>1 DEF SetsFile
    <3> QED BY <1>1, <1>4, <3>1, OneFile
  <2> QED BY <1>3, <1>6, <2>1, <2>2 DEF q, part, x
<1> QED BY <1>5, <1>6

\* What undoing its newest link leaves: that link is gone when the invocation
\* still owns it and the removal worked, and every other file is as it was.
UndoneFiles(p, removed) ==
    LET q == run[p].place
        part == Last(run[p].installed)
        mine == Exists(q, part) /\ files[q][part].by = p
    IN  /\ FilesTyped' /\ part \in Part
        /\ \A o \in Place, k \in Part :
              files'[o][k] = IF removed /\ o = q /\ k = part /\ mine THEN NoFile
                             ELSE files[o][k]

LEMMA UndoLinkFiles ==
  ASSUME BackupTyped, NEW p \in Invocation, NEW removed \in BOOLEAN, UndoLink(p, removed)
  PROVE  UndoneFiles(p, removed)
<1> USE DEF UndoneFiles
<1> DEFINE q == run[p].place
           part == Last(run[p].installed)
           mine == Exists(q, part) /\ files[q][part].by = p
           x == IF mine THEN NoFile ELSE files[q][part]
<1>1. q \in Place /\ part \in Part
  BY UndoLinkTurn, UndoableParts
<1>2. FilesTyped
  BY TypedParts
<1>3. CASE removed
  <2>1. files' = [files EXCEPT ![q][part] = x]
    BY <1>1, <1>2, <1>3 DEF UndoLink, Unlinked, Exists, FilesTyped
  <2>2. x \in FileType(part)
    BY <1>1, <1>2 DEF FilesTyped, FileType
  <2> HIDE DEF q, part, mine, x
  <2>3. /\ FilesTyped'
        /\ \A o \in Place, k \in Part :
              files'[o][k] = IF o = q /\ k = part THEN x ELSE files[o][k]
    <3>1. SetsFile(q, part, x)
      BY <2>1 DEF SetsFile
    <3> QED BY <1>1, <1>2, <2>2, <3>1, OneFile
  <2> QED BY <1>1, <1>3, <2>3 DEF q, part, mine, x
<1>4. CASE ~removed
  <2>1. files' = files
    BY <1>4 DEF UndoLink
  <2> QED BY <1>1, <1>2, <1>4, <2>1 DEF FilesTyped
<1> QED BY <1>3, <1>4

LEMMA PowerLossEffect ==
  ASSUME BackupTyped, NEW gone \in SUBSET volatile, PowerLoss(gone)
  PROVE  /\ FilesTyped'
         /\ \A o \in Place, k \in Part :
               files'[o][k] = IF <<o, k>> \in gone THEN NoFile ELSE files[o][k]
         /\ run' \in [Invocation -> RunType]
         /\ \A p \in Invocation :
               /\ Staging(run'[p])
               /\ Active(p) => run'[p].pc = "dead"
               /\ ~Active(p) => run'[p] = run[p]
<1>1. \A o \in Place, k \in Part :
         files'[o][k] = IF <<o, k>> \in gone THEN NoFile ELSE files[o][k]
  BY DEF PowerLoss
<1>2. FilesTyped'
  <2>1. files' = [q \in Place |-> [part \in Part |-> files'[q][part]]]
    BY DEF PowerLoss
  <2>2. \A o \in Place, k \in Part : files'[o][k] \in FileType(k)
    BY <1>1, TypedParts DEF FilesTyped, FileType
  <2> QED BY <2>1, <2>2 DEF FilesTyped
<1>3. ASSUME NEW p \in Invocation
      PROVE  /\ run'[p] \in RunType /\ Staging(run'[p])
             /\ Active(p) => run'[p].pc = "dead"
             /\ ~Active(p) => run'[p] = run[p]
  <2>1. run[p] \in RunType /\ Staging(run[p])
    BY RunFields
  <2>2. run'[p] = IF Active(p) THEN [run[p] EXCEPT !.pc = "dead"] ELSE run[p]
    BY DEF PowerLoss
  <2>3. CASE Active(p)
    <3>1. run'[p] \in RunType /\ run'[p].pc = "dead"
      BY <2>1, <2>2, <2>3 DEF RunType
    <3> QED BY <2>3, <3>1 DEF Staging
  <2>4. CASE ~Active(p)
    BY <2>1, <2>2, <2>4
  <2> QED BY <2>3, <2>4
<1>4. run' \in [Invocation -> RunType]
  BY <1>3 DEF PowerLoss
<1> QED BY <1>1, <1>2, <1>3, <1>4

LEMMA DecayFiles ==
  ASSUME BackupTyped, NEW b \in Bundle, NEW part \in {"db", "side"}, Decay(b, part)
  PROVE  /\ FilesTyped'
         /\ \A o \in Place, k \in Part : k = "mark" \/ o = Environment => files'[o][k] = files[o][k]
<1> DEFINE x == [files[b][part] EXCEPT !.holds = Damaged]
<1>1. FilesTyped /\ b \in Place /\ part \in Part /\ b # Environment
  BY TypedParts, BackupAssumption DEF Place, Part
<1>2. /\ files[b][part].by \in Invocation \cup {Earlier}
      /\ files[b][part] = [by |-> files[b][part].by, holds |-> files[b][part].holds]
  BY <1>1, LinkType DEF Decay
<1>3. x = [by |-> files[b][part].by, holds |-> Damaged]
  BY <1>2
<1>4. x \in FileType(part)
  BY <1>1, <1>2, <1>3, NewLink, BackupAssumption DEF Content, Damaged
<1>5. SetsFile(b, part, x)
  BY DEF Decay, SetsFile
<1> HIDE DEF x
<1>6. /\ FilesTyped'
      /\ \A o \in Place, k \in Part :
            files'[o][k] = IF o = b /\ k = part THEN x ELSE files[o][k]
  BY <1>1, <1>4, <1>5, OneFile
<1> QED BY <1>1, <1>6

-----------------------------------------------------------------------------
(* Backup, the invariant is kept: types *)

\* The turns that leave the files, the sources and the ledger of links alone.
ThinkingTurn(p) ==
    \/ \E b \in Bundle : BeginBackup(p, b) \/ BeginRestore(p, b)
    \/ StageDatabase(p) \/ StageSidecar(p) \/ CopyFromBundle(p) \/ Recheck(p)
    \/ CheckInstalled(p) \/ Raise(p) \/ Die(p)

LEMMA ThinkingTurnTaken ==
  ASSUME BackupTyped, NEW p \in Invocation, ThinkingTurn(p)
  PROVE  Turn(p) /\ UNCHANGED <<source, worker, claimed, files, volatile, stuck>>
<1>1. ASSUME NEW b \in Bundle, BeginBackup(p, b)
      PROVE  Turn(p) /\ UNCHANGED <<source, worker, claimed, files, volatile, stuck>>
  BY <1>1, BeginBackupTurn DEF BeginBackup
<1>2. ASSUME NEW b \in Bundle, BeginRestore(p, b)
      PROVE  Turn(p) /\ UNCHANGED <<source, worker, claimed, files, volatile, stuck>>
  BY <1>2, BeginRestoreTurn DEF BeginRestore
<1>3. CASE StageDatabase(p)
  BY <1>3, StageDatabaseTurn DEF StageDatabase
<1>4. CASE StageSidecar(p)
  BY <1>4, StageSidecarTurn DEF StageSidecar
<1>5. CASE CopyFromBundle(p)
  BY <1>5, CopyTurn DEF CopyFromBundle
<1>6. CASE Recheck(p)
  BY <1>6, RecheckTurn DEF Recheck
<1>7. CASE CheckInstalled(p)
  BY <1>7, CheckTurn DEF CheckInstalled
<1>8. CASE Raise(p)
  BY <1>8, RaiseTurn DEF Raise
<1>9. CASE Die(p)
  <2>1. run' = [run EXCEPT ![p].pc = "dead"]
    BY <1>9 DEF Die
  <2> QED BY <1>9, <2>1, LeavingTurn DEF Die
<1> QED BY <1>1, <1>2, <1>3, <1>4, <1>5, <1>6, <1>7, <1>8, <1>9 DEF ThinkingTurn

\* The steps that are nobody's turn and leave the files alone.
WorkerStep == StopWorker \/ StartWorker \/ \E side \in {0, 1} : WorkerWrites(side)

LEMMA NextKinds ==
  ASSUME BackupNext
  PROVE  \/ WorkerStep
         \/ \E p \in Invocation :
               \/ ThinkingTurn(p) \/ Claim(p) \/ Install(p) \/ SyncData(p) \/ Finish(p)
               \/ UndoDirectory(p) \/ \E removed \in BOOLEAN : UndoLink(p, removed)
         \/ \E gone \in SUBSET volatile : PowerLoss(gone)
         \/ \E b \in Bundle, part \in {"db", "side"} : Decay(b, part)
BY DEF BackupNext, WorkerStep, ThinkingTurn

LEMMA FinishTurns ==
  ASSUME BackupTyped, NEW p \in Invocation, Finish(p)
  PROVE  Turn(p) /\ run'[p].pc = "done"
<1>1. run' = [run EXCEPT ![p].pc = "done"]
  BY DEF Finish
<1> QED BY <1>1, LeavingTurn

LEMMA UndoDirectoryTurn ==
  ASSUME BackupTyped, NEW p \in Invocation, UndoDirectory(p)
  PROVE  Turn(p) /\ run'[p].pc = "failed"
<1>1. run' = [run EXCEPT ![p].pc = "failed"]
  BY DEF UndoDirectory
<1> QED BY <1>1, LeavingTurn

LEMMA TypedStep ==
  ASSUME BackupTyped, Copied, [BackupNext]_backupVars
  PROVE  BackupTyped'
<1>1. CASE UNCHANGED backupVars
  BY <1>1 DEF backupVars, BackupTyped, BackupTypeOK, Staging, Linking
<1>2. CASE WorkerStep
  <2>1. UNCHANGED <<claimed, files, volatile, run, stuck>>
    BY <1>2 DEF WorkerStep, StopWorker, StartWorker, WorkerWrites
  <2>2. worker' \in {"running", "stopped"}
    BY <1>2 DEF WorkerStep, StopWorker, StartWorker, WorkerWrites, BackupTyped, BackupTypeOK
  <2>3. source' \in Snapshot
    <3>1. source \in Snapshot
      BY DEF BackupTyped, BackupTypeOK
    <3>2. ASSUME NEW side \in {0, 1}, WorkerWrites(side) PROVE source' \in Snapshot
      <4>1. source.db + 1 \in Release /\ side * (source.db + 1) \in 0 .. MaxRelease
        BY <3>1, <3>2, BackupAssumption DEF WorkerWrites, Snapshot, Release
      <4> QED BY <3>2, <4>1 DEF WorkerWrites, Snapshot
    <3> QED BY <1>2, <3>1, <3>2 DEF WorkerStep, StopWorker, StartWorker
  <2> QED BY <2>1, <2>2, <2>3 DEF BackupTyped, BackupTypeOK
<1>3. ASSUME NEW p \in Invocation, ThinkingTurn(p) PROVE BackupTyped'
  BY <1>3, ThinkingTurnTaken, QuietTurn, TypedParts
<1>4. ASSUME NEW p \in Invocation, Claim(p) PROVE BackupTyped'
  <2>1. /\ Turn(p) /\ UNCHANGED <<source, worker, files, stuck>> /\ volatile' \subseteq volatile
    BY <1>4, ClaimTurn DEF Claim
  <2>2. claimed' \in [Bundle -> Invocation \cup {Earlier, NoFile}]
    BY <1>4 DEF Claim, BackupTyped, BackupTypeOK
  <2> QED BY <2>1, <2>2, QuietTurn
<1>5. ASSUME NEW p \in Invocation, Install(p) PROVE BackupTyped'
  <2>1. Turn(p) /\ Head(run[p].todo) \in Part /\ run[p].place \in Place
    BY <1>5, InstallTurn
  <2>2. FilesTyped' /\ volatile' \subseteq volatile \cup {<<run[p].place, Head(run[p].todo)>>}
    BY <1>5, InstallFiles
  <2>3. UNCHANGED <<source, worker, claimed, stuck>>
    BY <1>5 DEF Install
  <2>4. volatile' \subseteq Place \X Part
    BY <2>1, <2>2, TypedParts
  <2> QED BY <2>1, <2>2, <2>3, <2>4 DEF Turn, BackupTyped, BackupTypeOK, FilesTyped
<1>6. ASSUME NEW p \in Invocation, SyncData(p) \/ Finish(p) PROVE BackupTyped'
  <2>1. Turn(p)
    BY <1>6, SyncDataTurn, FinishTurns
  <2>2. UNCHANGED <<source, worker, claimed, files, stuck>> /\ volatile' \subseteq volatile
    BY <1>6 DEF SyncData, Finish, Synced
  <2> QED BY <2>1, <2>2, QuietTurn, TypedParts
<1>7. ASSUME NEW p \in Invocation, UndoDirectory(p) PROVE BackupTyped'
  <2>1. Turn(p)
    BY <1>7, UndoDirectoryTurn
  <2>2. UNCHANGED <<source, worker, files, stuck>> /\ volatile' \subseteq volatile
    BY <1>7 DEF UndoDirectory, Synced
  <2>3. claimed' \in [Bundle -> Invocation \cup {Earlier, NoFile}]
    BY <1>7 DEF UndoDirectory, BackupTyped, BackupTypeOK
  <2> QED BY <2>1, <2>2, <2>3, QuietTurn
<1>8. ASSUME NEW p \in Invocation, NEW removed \in BOOLEAN, UndoLink(p, removed) PROVE BackupTyped'
  <2>1. Turn(p) /\ FilesTyped'
    BY <1>8, UndoLinkTurn, UndoLinkFiles DEF UndoneFiles
  <2>2. /\ UNCHANGED <<source, worker, claimed>> /\ volatile' \subseteq volatile
        /\ stuck' \in BOOLEAN
    BY <1>8 DEF UndoLink, BackupTyped, BackupTypeOK
  <2> QED BY <2>1, <2>2 DEF Turn, BackupTyped, BackupTypeOK, FilesTyped
<1>9. ASSUME NEW gone \in SUBSET volatile, PowerLoss(gone) PROVE BackupTyped'
  <2>1. /\ UNCHANGED <<source, worker, claimed>> /\ volatile' = {} /\ stuck' \in BOOLEAN
    BY <1>9 DEF PowerLoss, BackupTyped, BackupTypeOK
  <2> QED BY <1>9, <2>1, PowerLossEffect DEF BackupTyped, BackupTypeOK, FilesTyped
<1>10. ASSUME NEW b \in Bundle, NEW part \in {"db", "side"}, Decay(b, part) PROVE BackupTyped'
  <2>1. UNCHANGED <<source, worker, claimed, volatile, run, stuck>>
    BY <1>10 DEF Decay
  <2> QED BY <1>10, <2>1, DecayFiles DEF BackupTyped, BackupTypeOK, FilesTyped
<1> QED BY <1>1, <1>2, <1>3, <1>4, <1>5, <1>6, <1>7, <1>8, <1>9, <1>10, NextKinds

-----------------------------------------------------------------------------
(* Backup, the invariant is kept: copies are of one release *)

LEMMA CopiedTurn ==
  ASSUME Copied, NEW p \in Invocation, Turn(p), UNCHANGED <<source, worker>>, CopiedBy(p)',
         \A b \in Bundle : MarkOneRelease(b)'
  PROVE  Copied'
<1>1. ASSUME NEW r \in Invocation PROVE CopiedBy(r)'
  <2>1. CASE r = p
    BY <2>1
  <2>2. CASE r # p
    BY <2>2 DEF Turn, Copied, CopiedBy
  <2> QED BY <2>1, <2>2
<1> QED BY <1>1 DEF Copied

LEMMA SameMarks ==
  ASSUME Copied, \A b \in Bundle : files'[b]["mark"] = NoFile
                                   \/ files'[b]["mark"] = files[b]["mark"]
  PROVE  \A b \in Bundle : MarkOneRelease(b)'
BY DEF Copied, MarkOneRelease, Exists

LEMMA CopiedStep ==
  ASSUME BackupTyped, Copied, [BackupNext]_backupVars
  PROVE  Copied'
<1>0. \A b \in Bundle : b \in Place /\ b # Environment
  BY BackupAssumption DEF Place
<1>1. CASE UNCHANGED backupVars
  BY <1>1 DEF backupVars, Copied, CopiedBy, MarkOneRelease, Exists
<1>2. CASE WorkerStep
  <2>1. /\ UNCHANGED <<files, run>>
        /\ source' # source => worker = "running"
        /\ worker' # worker /\ worker = "stopped" =>
              \A p \in Invocation : run[p].pc \notin {"stage_db", "stage_side"}
    BY <1>2 DEF WorkerStep, StopWorker, StartWorker, WorkerWrites, Creating
  <2>2. source'.side \in {0, source'.db}
    <3>1. ASSUME NEW side \in {0, 1}, WorkerWrites(side) PROVE source'.side \in {0, source'.db}
      <4>1. source.db + 1 \in Nat
        BY BackupAssumption DEF BackupTyped, BackupTypeOK, Snapshot, Release
      <4> QED BY <3>1, <4>1 DEF WorkerWrites
    <3> QED BY <1>2, <3>1 DEF WorkerStep, StopWorker, StartWorker, Copied
  <2>3. ASSUME NEW p \in Invocation PROVE CopiedBy(p)'
    <3>1. worker \in {"running", "stopped"} /\ worker' \in {"running", "stopped"}
      BY TypedStep, TypedParts DEF BackupTyped, BackupTypeOK
    <3> QED BY <2>1, <3>1 DEF Copied, CopiedBy
  <2> QED BY <2>1, <2>2, <2>3, SameMarks DEF Copied
<1>3. ASSUME NEW p \in Invocation, ThinkingTurn(p) PROVE Copied'
  <2>1. Turn(p) /\ UNCHANGED <<source, worker, files>>
    BY <1>3, ThinkingTurnTaken
  <2>2. \A b \in Bundle : MarkOneRelease(b)'
    BY <2>1, SameMarks
  <2>3. ASSUME NEW b \in Bundle, BeginBackup(p, b) PROVE CopiedBy(p)'
    BY <2>1, <2>3, BeginBackupTurn DEF BeginBackup, Quiesced, CopiedBy
  <2>4. ASSUME NEW b \in Bundle, BeginRestore(p, b) PROVE CopiedBy(p)'
    BY <2>4, BeginRestoreTurn DEF Copied, MarkOneRelease, CopiedBy
  <2>5. ASSUME StageDatabase(p) PROVE CopiedBy(p)'
    <3>1. /\ run[p].pc = "stage_db" /\ run[p] \in RunType
          /\ run'[p] = [run[p] EXCEPT !.pc = "stage_side", !.seen.db = source.db]
      BY <2>5, RunFields, StageDatabaseTurn DEF StageDatabase
    <3>2. run'[p].pc = "stage_side" /\ run'[p].seen.db = source.db
      BY <3>1 DEF RunType
    <3>3. worker = "stopped"
      BY <3>1 DEF Copied, CopiedBy
    <3> QED BY <2>1, <3>2, <3>3 DEF CopiedBy
  <2>6. ASSUME StageSidecar(p) PROVE CopiedBy(p)'
    <3>1. /\ run[p].pc = "stage_side" /\ run[p] \in RunType
          /\ run'[p] = [run[p] EXCEPT !.pc = "claim", !.seen.side = source.side]
      BY <2>6, RunFields, StageSidecarTurn DEF StageSidecar
    <3>2. /\ run'[p].pc = "claim" /\ run'[p].seen.db = source.db
          /\ run'[p].seen = [db |-> source.db, side |-> source.side]
      BY <3>1 DEF Copied, CopiedBy, RunType
    <3>3. source \in Snapshot
      BY DEF BackupTyped, BackupTypeOK
    <3>4. OneRelease(run'[p].seen)
      BY <3>2, <3>3 DEF Copied, OneRelease, Snapshot
    <3> QED BY <3>2, <3>4 DEF CopiedBy
  <2>7. ASSUME CopyFromBundle(p) PROVE CopiedBy(p)'
    BY <2>7, CopyTurn DEF Copied, CopiedBy
  <2>8. ASSUME Recheck(p) PROVE CopiedBy(p)'
    BY <2>8, RecheckTurn DEF Copied, CopiedBy
  <2>9. ASSUME CheckInstalled(p) PROVE CopiedBy(p)'
    BY <2>9, CheckTurn DEF Copied, CopiedBy
  <2>10. ASSUME Raise(p) PROVE CopiedBy(p)'
    BY <2>10, RaiseTurn DEF CopiedBy
  <2>11. ASSUME Die(p) PROVE CopiedBy(p)'
    <3>1. run' = [run EXCEPT ![p].pc = "dead"]
      BY <2>11 DEF Die
    <3> QED BY <3>1, LeavingTurn DEF CopiedBy
  <2>12. CopiedBy(p)'
    BY <1>3, <2>3, <2>4, <2>5, <2>6, <2>7, <2>8, <2>9, <2>10, <2>11 DEF ThinkingTurn
  <2> QED BY <2>1, <2>2, <2>12, CopiedTurn
<1>4. ASSUME NEW p \in Invocation, Claim(p) PROVE Copied'
  <2>1. UNCHANGED <<source, worker, files>>
    BY <1>4 DEF Claim
  <2>2. CopiedBy(p)'
    BY <1>4, ClaimTurn DEF Copied, CopiedBy
  <2> QED BY <1>4, <2>1, <2>2, ClaimTurn, CopiedTurn, SameMarks
<1>5. ASSUME NEW p \in Invocation, Install(p) PROVE Copied'
  <2> DEFINE q == run[p].place
             part == Head(run[p].todo)
             x == [by |-> p, holds |-> Holds(run[p].seen, part)]
  <2>1. UNCHANGED <<source, worker>>
    BY <1>5 DEF Install
  <2>2. /\ Turn(p) /\ run[p].pc = "install" /\ run'[p].seen = run[p].seen
        /\ run'[p].pc \in {"install", "undo"}
    BY <1>5, InstallTurn
  <2>3. OneRelease(run[p].seen)
    BY <2>2 DEF Copied, CopiedBy
  <2>4. CopiedBy(p)'
    BY <2>2, <2>3 DEF CopiedBy
  <2>5. ASSUME NEW b \in Bundle PROVE MarkOneRelease(b)'
    <3>1. b \in Place /\ "mark" \in Part
      BY DEF Place, Part
    <3>2. CASE files'[b]["mark"] = files[b]["mark"]
      BY <3>2 DEF Copied, MarkOneRelease, Exists
    <3>3. CASE files'[b]["mark"] # files[b]["mark"]
      <4>1. part = "mark" /\ files'[b]["mark"] = x
        BY <1>5, <3>1, <3>3, InstallFiles
      <4>2. files'[b]["mark"].holds = run[p].seen
        BY <4>1 DEF Holds
      <4> QED BY <2>3, <4>2 DEF MarkOneRelease
    <3> QED BY <3>2, <3>3
  <2> QED BY <2>1, <2>2, <2>4, <2>5, CopiedTurn
<1>6. ASSUME NEW p \in Invocation, SyncData(p) \/ Finish(p) \/ UndoDirectory(p) PROVE Copied'
  <2>1. UNCHANGED <<source, worker, files>>
    BY <1>6 DEF SyncData, Finish, UndoDirectory
  <2>2. CASE SyncData(p)
    <3>1. CopiedBy(p)'
      BY <2>2, SyncDataTurn DEF Copied, CopiedBy
    <3> QED BY <2>1, <2>2, <3>1, SyncDataTurn, CopiedTurn, SameMarks
  <2>3. CASE Finish(p) \/ UndoDirectory(p)
    <3>1. Turn(p) /\ run'[p].pc \in {"done", "failed"}
      BY <2>3, FinishTurns, UndoDirectoryTurn
    <3>2. CopiedBy(p)'
      BY <3>1 DEF CopiedBy
    <3> QED BY <2>1, <3>1, <3>2, CopiedTurn, SameMarks
  <2> QED BY <1>6, <2>2, <2>3
<1>7. ASSUME NEW p \in Invocation, NEW removed \in BOOLEAN, UndoLink(p, removed) PROVE Copied'
  <2>1. UNCHANGED <<source, worker>>
    BY <1>7 DEF UndoLink
  <2>2. Turn(p) /\ CopiedBy(p)'
    BY <1>7, UndoLinkTurn DEF CopiedBy
  <2>3. \A b \in Bundle : files'[b]["mark"] = NoFile \/ files'[b]["mark"] = files[b]["mark"]
    <3>1. "mark" \in Part
      BY DEF Part
    <3> QED BY <1>0, <1>7, <3>1, UndoLinkFiles DEF UndoneFiles
  <2> QED BY <2>1, <2>2, <2>3, CopiedTurn, SameMarks
<1>8. ASSUME NEW gone \in SUBSET volatile, PowerLoss(gone) PROVE Copied'
  <2>1. UNCHANGED <<source, worker>>
    BY <1>8 DEF PowerLoss
  <2>2. \A p \in Invocation : CopiedBy(p)'
    BY <1>8, <2>1, PowerLossEffect DEF Copied, CopiedBy
  <2>3. \A b \in Bundle : files'[b]["mark"] = NoFile \/ files'[b]["mark"] = files[b]["mark"]
    <3>1. "mark" \in Part
      BY DEF Part
    <3> QED BY <1>0, <1>8, <3>1, PowerLossEffect
  <2> QED BY <2>1, <2>2, <2>3, SameMarks DEF Copied
<1>9. ASSUME NEW b \in Bundle, NEW part \in {"db", "side"}, Decay(b, part) PROVE Copied'
  <2>1. UNCHANGED <<source, worker, run>>
    BY <1>9 DEF Decay
  <2>2. \A o \in Bundle : files'[o]["mark"] = files[o]["mark"]
    <3>1. "mark" \in Part
      BY DEF Part
    <3> QED BY <1>0, <1>9, <3>1, DecayFiles
  <2> QED BY <2>1, <2>2, SameMarks DEF Copied, CopiedBy
<1> QED BY <1>1, <1>2, <1>3, <1>4, <1>5, <1>6, <1>7, <1>8, <1>9, NextKinds

-----------------------------------------------------------------------------
(* Backup, the invariant is kept: the environment *)

SameEnvironment == \A part \in Part : files'[Environment][part] = files[Environment][part]
NoNewVolatile ==
    \A part \in {"db", "side"} :
       <<Environment, part>> \in volatile' => <<Environment, part>> \in volatile

LEMMA InstalledParts ==
  ASSUME BackupTyped, NEW p \in Invocation
  PROVE  ToSet(run[p].installed) \subseteq Part
<1>1. run[p].installed \in Seq(Part)
  BY RunFields DEF RunType
<1> QED BY <1>1 DEF ToSet

LEMMA AllParts == "db" \in Part /\ "side" \in Part /\ "mark" \in Part
BY DEF Part

LEMMA SameMarker ==
  ASSUME MarkerIsRestored, SameEnvironment, ~stuck' => ~stuck
  PROVE  MarkerIsRestored'
BY AllParts DEF MarkerIsRestored, SameEnvironment, Exists

\* A step of no invocation that leaves the environment alone.
LEMMA RestingStep ==
  ASSUME BackupTyped, EnvInv, SameEnvironment, NoNewVolatile, UNCHANGED <<run, stuck>>
  PROVE  EnvInv'
<1>1. ASSUME NEW p \in Invocation PROVE Keeps(p)' /\ OwnsOnly(p)'
  BY InstalledParts DEF EnvInv, Owned, Keeps, OwnsOnly, Owns, SameEnvironment, Restoring,
                        Active, Exists
<1>2. SideWithDatabase'
  BY AllParts DEF EnvInv, Owned, SideWithDatabase, SameEnvironment, Restoring, Active, Exists
<1>3. Completed'
  BY AllParts DEF EnvInv, Completed, DataDurable, Sealing, Restoring, Active, SameEnvironment,
                  NoNewVolatile, Exists
<1> QED BY <1>1, <1>2, <1>3, SameMarker DEF EnvInv, Owned

\* A turn that leaves the environment alone: a restore goes on with what it has
\* linked, or begins with nothing while the environment is clear.
Continues(p) ==
    /\ Active(p) /\ run'[p].place = run[p].place
    /\ run'[p].installed = run[p].installed /\ run'[p].seen = run[p].seen
Begins(p) ==
    /\ run[p].pc = "idle" /\ run'[p].installed = <<>>
    /\ run'[p].place = Environment => Clear(Environment)

Elsewhere(p) ==
    Active(p) /\ run'[p].place = run[p].place /\ run[p].place # Environment

LEMMA QuietEnvironment ==
  ASSUME BackupTyped, EnvInv, NEW p \in Invocation, Turn(p), SameEnvironment, NoNewVolatile,
         stuck => stuck', run'[p].pc # "idle",
         Active(p)' => Begins(p) \/ Continues(p) \/ Elsewhere(p),
         Sealing(p)' => Sealing(p) \/ DataDurable'
  PROVE  EnvInv'
<1>1. ASSUME NEW r \in Invocation, r # p PROVE Keeps(r)' /\ OwnsOnly(r)'
  <2>1. run'[r] = run[r]
    BY <1>1 DEF Turn
  <2> QED BY <2>1, InstalledParts DEF EnvInv, Owned, Keeps, OwnsOnly, Owns, SameEnvironment,
                                       Restoring, Active, Exists
<1>2. Keeps(p)'
  <2>1. CASE Begins(p) /\ Active(p)'
    BY <2>1, LinkedSets DEF Begins, Keeps
  <2>2. CASE Continues(p) /\ Active(p)'
    BY <2>2, InstalledParts DEF Continues, EnvInv, Owned, Keeps, SameEnvironment, Restoring, Exists
  <2> QED BY <2>1, <2>2 DEF Keeps, Restoring, Elsewhere
<1>3. OwnsOnly(p)'
  <2>1. \A part \in Part : Owns(p, part)' => Owns(p, part)
    BY DEF Owns, Exists, SameEnvironment
  <2>2. OwnsOnly(p)
    BY DEF EnvInv, Owned
  <2>3. CASE Begins(p)
    BY <2>1, <2>2, <2>3 DEF Begins, OwnsOnly
  <2>4. CASE Continues(p)
    BY <2>1, <2>2, <2>4 DEF Continues, OwnsOnly
  <2>5. CASE Elsewhere(p)
    BY <2>1, <2>2, <2>5 DEF Elsewhere, OwnsOnly
  <2> QED BY <2>1, <2>2, <2>3, <2>4, <2>5 DEF OwnsOnly
<1>4. SideWithDatabase'
  <2>1. ASSUME NEW r \in Invocation, Restoring(r)', Exists(Environment, "side")'
        PROVE  \E o \in Invocation : Restoring(o)
    <3>1. CASE r # p
      BY <2>1, <3>1 DEF Turn, Restoring, Active
    <3>2. CASE r = p
      BY <2>1, <3>2, AllParts DEF Restoring, Begins, Continues, Elsewhere, Clear,
                                  SameEnvironment, Exists
    <3> QED BY <3>1, <3>2
  <2>2. SideWithDatabase
    BY DEF EnvInv, Owned
  <2> QED BY <2>1, <2>2, AllParts DEF SideWithDatabase, SameEnvironment, Exists
<1>5. Completed'
  <2>1. ASSUME NEW r \in Invocation, Sealing(r)' PROVE DataDurable'
    <3>1. CASE r # p
      BY <2>1, <3>1 DEF Turn, Sealing, Restoring, Active, EnvInv, Completed, DataDurable, NoNewVolatile
    <3>2. CASE r = p
      BY <2>1, <3>2 DEF EnvInv, Completed, DataDurable, NoNewVolatile
    <3> QED BY <3>1, <3>2
  <2>2. ~stuck' /\ Exists(Environment, "mark")' => DataDurable'
    BY AllParts DEF EnvInv, Completed, DataDurable, NoNewVolatile, SameEnvironment, Exists
  <2> QED BY <2>1, <2>2 DEF Completed
<1> QED BY <1>1, <1>2, <1>3, <1>4, <1>5, SameMarker DEF EnvInv, Owned

LEMMA KeptLink ==
  ASSUME NEW p \in Invocation, Restoring(p), Keeps(p), NEW part \in ToSet(run[p].installed)
  PROVE  /\ Exists(Environment, part) /\ files[Environment][part].by = p
         /\ files[Environment][part] = [by |-> p, holds |-> Holds(run[p].seen, part)]
<1>1. /\ Exists(Environment, part)
      /\ files[Environment][part] = [by |-> p, holds |-> Holds(run[p].seen, part)]
  BY DEF Keeps
<1> QED BY <1>1

LEMMA MarkedDatabase ==
  ASSUME BackupTyped, MarkerIsRestored, ~stuck, Exists(Environment, "mark")
  PROVE  /\ Exists(Environment, "db")
         /\ files[Environment]["db"].by = files[Environment]["mark"].by
         /\ Exists(Environment, "side") =>
               files[Environment]["side"].by = files[Environment]["mark"].by
<1> DEFINE m == files[Environment]["mark"]
<1>1. Environment \in Place
  BY DEF Place
<1>2. m.by \in Invocation \cup {Earlier} /\ m.holds \in Snapshot
  BY <1>1, AllParts, LinkType DEF Content
<1>3. m.holds["db"] \in Content("db")
  BY <1>2, HeldType, AllParts DEF Holds
<1>4. files[Environment]["db"] = [by |-> m.by, holds |-> m.holds["db"]]
  BY DEF MarkerIsRestored
<1>5. Exists(Environment, "db") /\ files[Environment]["db"].by = m.by
  BY <1>2, <1>3, <1>4, NewLink, AllParts DEF Exists
<1>6. Exists(Environment, "side") => files[Environment]["side"].by = m.by
  BY DEF MarkerIsRestored, Exists
<1> QED BY <1>5, <1>6

LEMMA DataLinked ==
  ASSUME NEW s
  PROVE  /\ "db" \in ToSet(DataParts(s)) /\ "mark" \notin ToSet(DataParts(s))
         /\ "side" \in ToSet(DataParts(s)) <=> s.side # 0
BY PublishedParts, LinkedSets

LEMMA SealedData ==
  ASSUME BackupTyped, NEW p \in Invocation, Sealing(p)
  PROVE  run[p].installed = DataParts(run[p].seen)
<1>1. Staging(run[p])
  BY RunFields
<1>2. CASE run[p].pc = "check"
  BY <1>1, <1>2 DEF Staging
<1>3. CASE run[p].pc = "install" /\ run[p].todo = <<"mark">>
  <2>1. Linking(run[p].seen, run[p].installed, <<"mark">>)
    BY <1>1, <1>3 DEF Staging
  <2>2. <<"mark">> # <<>> /\ <<"mark">> # <<"side">> /\ <<"mark">> # <<"db">>
        /\ <<"mark">> # <<"db", "side">>
    OBVIOUS
  <2> QED BY <2>1, <2>2, PublishedParts DEF Linking
<1> QED BY <1>2, <1>3 DEF Sealing

LEMMA MoreToLink ==
  ASSUME NEW s, NEW i, NEW t, Linking(s, i, t), t # <<>>, Tail(t) = <<"mark">>
  PROVE  FALSE
<1>1. /\ <<"mark">> # <<>> /\ <<"mark">> # <<"side">>
      /\ Tail(<<"db">>) = <<>> /\ Tail(<<"side">>) = <<>> /\ Tail(<<"mark">>) = <<>>
      /\ Tail(<<"db", "side">>) = <<"side">>
  OBVIOUS
<1>2. t \in {<<"db">>, <<"side">>, <<"mark">>, <<"db", "side">>}
  BY PublishedParts DEF Linking
<1> QED BY <1>1, <1>2

LEMMA MarkIsLast == <<"mark">> # <<"db">> /\ <<"mark">> # <<"db", "side">>
OBVIOUS

\* A restore links a file where there was none.
LEMMA InstallEnvironment ==
  ASSUME BackupTyped, Copied, EnvInv, NEW p \in Invocation, Install(p),
         run[p].place = Environment, ~Exists(Environment, Head(run[p].todo))
  PROVE  EnvInv'
<1> DEFINE part == Head(run[p].todo)
           x == [by |-> p, holds |-> Holds(run[p].seen, part)]
           i == run[p].installed
<1>1. /\ Turn(p) /\ run[p].pc = "install" /\ part \in Part
      /\ Linking(run[p].seen, i, run[p].todo) /\ run[p].todo # <<>>
      /\ run'[p].pc = "install" /\ run'[p].place = Environment /\ run'[p].seen = run[p].seen
      /\ run'[p].todo = Tail(run[p].todo) /\ run'[p].installed = Append(i, part)
      /\ UNCHANGED stuck
  BY InstallTurn DEF Install
<1>2. /\ \A o \in Place, k \in Part :
            files'[o][k] = IF o = Environment /\ k = part THEN x ELSE files[o][k]
      /\ volatile' = volatile \cup {<<Environment, part>>} /\ x # NoFile
  BY InstallFiles
<1>3. /\ files'[Environment][part] = x /\ x # NoFile
      /\ \A k \in Part : k # part => files'[Environment][k] = files[Environment][k]
  BY <1>1, <1>2 DEF Place, Exists
<1>4. /\ ToSet(run'[p].installed) = ToSet(i) \cup {part} /\ part \notin ToSet(i)
      /\ part = "db" => i = <<>>
      /\ part = "side" => i = <<"db">> /\ run[p].seen.side # 0
      /\ part = "mark" => i = DataParts(run[p].seen) /\ run[p].todo = <<"mark">>
      /\ run'[p].todo # <<"mark">>
  BY <1>1, NextLink, MoreToLink
<1>5. Restoring(p) /\ Active(p) /\ Keeps(p) /\ OwnsOnly(p)
  BY <1>1 DEF Restoring, Active, EnvInv, Owned
<1> HIDE DEF x
<1>6. x.by = p /\ x.holds = Holds(run[p].seen, part)
  BY DEF x
<1>7. part = "side" => /\ Exists(Environment, "db")
                       /\ files[Environment]["db"].by = p
                       /\ ~stuck => ~Exists(Environment, "mark")
  <2>1. part = "side" => Exists(Environment, "db") /\ files[Environment]["db"].by = p
    BY <1>4, <1>5, LinkedSets, KeptLink
  <2>2. part = "side" /\ Exists(Environment, "mark") /\ ~stuck => Owns(p, "mark")
    BY <2>1, MarkedDatabase DEF EnvInv, Owns
  <2>3. part = "side" => "mark" \notin ToSet(i)
    BY <1>4, LinkedSets
  <2> QED BY <1>5, <2>1, <2>2, <2>3, AllParts DEF OwnsOnly
<1>8. part = "db" => (~stuck => ~Exists(Environment, "mark") /\ ~Exists(Environment, "side"))
  BY <1>5, MarkedDatabase DEF EnvInv, Owned, SideWithDatabase
<1>9. ASSUME NEW r \in Invocation PROVE Keeps(r)' /\ OwnsOnly(r)'
  <2>1. CASE r = p
    <3>1. Keeps(p)'
      <4>1. ASSUME NEW k \in ToSet(run'[p].installed)
            PROVE  /\ Exists(Environment, k)'
                   /\ files'[Environment][k] = [by |-> p, holds |-> Holds(run'[p].seen, k)]
        <5>1. CASE k = part
          BY <1>1, <1>3, <5>1 DEF x, Exists
        <5>2. CASE k # part
          <6>1. k \in ToSet(i) /\ k \in Part
            BY <1>4, <5>2, InstalledParts
          <6> QED BY <1>1, <1>3, <1>5, <5>2, <6>1 DEF Keeps, Exists
        <5> QED BY <5>1, <5>2
      <4> QED BY <4>1 DEF Keeps
    <3>2. OwnsOnly(p)'
      <4>1. \A k \in Part : Owns(p, k)' => k = part \/ Owns(p, k)
        BY <1>3 DEF Owns, Exists
      <4> QED BY <1>1, <1>4, <1>5, <4>1 DEF OwnsOnly
    <3> QED BY <2>1, <3>1, <3>2
  <2>2. CASE r # p
    <3>1. run'[r] = run[r]
      BY <1>1, <2>2 DEF Turn
    <3>2. Keeps(r) /\ OwnsOnly(r)
      BY DEF EnvInv, Owned
    <3>3. \A k \in Part : Owns(r, k)' => Owns(r, k)
      BY <1>3, <1>6, <2>2 DEF Owns, Exists
    <3>4. Keeps(r)'
      <4>1. ASSUME Restoring(r)', NEW k \in ToSet(run[r].installed)
            PROVE  k \in Part /\ Exists(Environment, k) /\ k # part
        BY <3>1, <3>2, <4>1, InstalledParts DEF Keeps, Restoring, Active
      <4> QED BY <1>3, <3>1, <3>2, <4>1 DEF Keeps, Restoring, Active, Exists
    <3>5. OwnsOnly(r)'
      BY <1>1, <3>1, <3>2, <3>3 DEF OwnsOnly, Active
    <3> QED BY <3>4, <3>5
  <2> QED BY <2>1, <2>2
<1>10. SideWithDatabase'
  <2>1. CASE part = "side"
    BY <1>3, <1>6, <1>7, <2>1, AllParts DEF SideWithDatabase, Exists
  <2>2. CASE part = "db"
    BY <1>1, <1>3, <1>8, <2>2, AllParts DEF SideWithDatabase, Exists
  <2>3. CASE part = "mark"
    BY <1>1, <1>3, <1>5, <2>3, AllParts DEF EnvInv, Owned, SideWithDatabase, Exists
  <2> QED BY <1>1, <2>1, <2>2, <2>3 DEF Part
<1>11. Completed'
  <2>1. ~Sealing(p)'
    BY <1>1, <1>4 DEF Sealing
  <2>2. ASSUME NEW r \in Invocation, Sealing(r)' PROVE DataDurable'
    <3>1. r # p /\ run'[r] = run[r] /\ Sealing(r)
      BY <1>1, <2>1, <2>2 DEF Turn, Sealing, Restoring, Active
    <3>2. DataDurable /\ Restoring(r) /\ Keeps(r)
      BY <3>1 DEF EnvInv, Completed, Owned, Sealing
    <3>3. "db" \in ToSet(run[r].installed)
      BY <3>1, SealedData, DataLinked
    <3>4. Exists(Environment, "db") /\ files[Environment]["db"].by = r
      BY <3>2, <3>3, KeptLink
    <3>5. part # "db" /\ part # "side"
      BY <1>7, <3>1, <3>4
    <3> QED BY <1>2, <3>2, <3>5 DEF DataDurable
  <2>3. ASSUME ~stuck', Exists(Environment, "mark")' PROVE DataDurable'
    <3>1. CASE part = "mark"
      <4>1. Sealing(p)
        BY <1>1, <1>4, <1>5, <3>1 DEF Sealing
      <4> QED BY <1>2, <3>1, <4>1 DEF EnvInv, Completed, DataDurable
    <3>2. CASE part # "mark"
      <4>1. ~stuck /\ Exists(Environment, "mark")
        BY <1>1, <1>3, <2>3, <3>2, AllParts DEF Exists
      <4> QED BY <1>1, <1>7, <1>8, <3>2, <4>1 DEF Part
    <3> QED BY <3>1, <3>2
  <2> QED BY <2>2, <2>3 DEF Completed
<1>12. MarkerIsRestored'
  <2>1. CASE part = "mark"
    <3>1. i = DataParts(run[p].seen) /\ "db" \in ToSet(i)
      BY <1>4, <2>1, DataLinked
    <3>2. files[Environment]["db"] = [by |-> p, holds |-> run[p].seen["db"]]
      BY <1>5, <3>1 DEF Keeps, Holds
    <3>3. CASE run[p].seen.side # 0
      <4>1. files[Environment]["side"] = [by |-> p, holds |-> run[p].seen["side"]]
        BY <1>5, <3>1, <3>3, DataLinked DEF Keeps, Holds
      <4> QED BY <1>3, <1>6, <2>1, <3>2, <3>3, <4>1, AllParts DEF MarkerIsRestored, Holds
    <3>4. CASE run[p].seen.side = 0
      <4>1. "side" \notin ToSet(i)
        BY <3>1, <3>4, DataLinked
      <4>2. ~stuck => ~Exists(Environment, "side")
        <5>1. ~stuck /\ Exists(Environment, "side") => Owns(p, "side")
          BY <1>5, <3>2 DEF EnvInv, Owned, SideWithDatabase, Owns
        <5> QED BY <1>5, <4>1, <5>1, AllParts DEF OwnsOnly
      <4> QED BY <1>1, <1>3, <1>6, <2>1, <3>2, <3>4, <4>2, AllParts
              DEF MarkerIsRestored, Holds, Exists
    <3> QED BY <3>3, <3>4
  <2>2. CASE part # "mark"
    <3>1. ~stuck => ~Exists(Environment, "mark")
      BY <1>1, <1>7, <1>8, <2>2 DEF Part
    <3> QED BY <1>1, <1>3, <2>2, <3>1, AllParts DEF MarkerIsRestored, Exists
  <2> QED BY <2>1, <2>2
<1> QED BY <1>9, <1>10, <1>11, <1>12 DEF EnvInv, Owned

\* A restore that raised removes the newest of its links.
LEMMA UndoEnvironment ==
  ASSUME BackupTyped, EnvInv, NEW p \in Invocation, UndoLink(p, TRUE), run[p].place = Environment
  PROVE  EnvInv'
<1> DEFINE part == Last(run[p].installed)
           i == run[p].installed
<1>1. /\ Turn(p) /\ run[p].pc = "undo" /\ i \in Undoable /\ i # <<>>
      /\ run'[p].pc = "undo" /\ run'[p].place = Environment /\ run'[p].seen = run[p].seen
      /\ run'[p].installed = Front(i) /\ volatile' \subseteq volatile
      /\ stuck \in BOOLEAN /\ stuck' = stuck
  BY UndoLinkTurn DEF UndoLink, BackupTyped, BackupTypeOK
<1>2. /\ ToSet(i) = ToSet(Front(i)) \cup {part} /\ part \notin ToSet(Front(i)) /\ part \in Part
      /\ "mark" \in ToSet(i) => part = "mark"
      /\ part = "db" => i = <<"db">>
  BY <1>1, UndoableParts, UndoneLast DEF Undoable
<1>3. Restoring(p) /\ Active(p) /\ Keeps(p) /\ OwnsOnly(p)
  BY <1>1 DEF Restoring, Active, EnvInv, Owned
<1>4. Exists(Environment, part) /\ files[Environment][part].by = p
  BY <1>2, <1>3, KeptLink
<1>5. /\ files'[Environment][part] = NoFile
      /\ \A k \in Part : k # part => files'[Environment][k] = files[Environment][k]
  <2>1. Environment \in Place /\ run[p].place = Environment
    BY DEF Place
  <2>2. \A k \in Part :
           files'[Environment][k] = IF k = part /\ Exists(Environment, part)
                                         /\ files[Environment][part].by = p
                                    THEN NoFile ELSE files[Environment][k]
    <3>1. UndoneFiles(p, TRUE)
      BY UndoLinkFiles
    <3> QED BY <2>1, <3>1 DEF UndoneFiles
  <2> HIDE DEF part
  <2> QED BY <1>2, <1>4, <2>2
<1>6. ASSUME NEW r \in Invocation PROVE Keeps(r)' /\ OwnsOnly(r)'
  <2>1. \A k \in Part : Owns(r, k)' => Owns(r, k) /\ k # part
    BY <1>5 DEF Owns, Exists
  <2>2. Keeps(r) /\ OwnsOnly(r)
    BY DEF EnvInv, Owned
  <2>3. CASE r = p
    <3>1. ASSUME NEW k \in ToSet(Front(i))
          PROVE  k \in ToSet(i) /\ k \in Part /\ k # part
      BY <1>2, InstalledParts
    <3>2. Keeps(p)'
      BY <1>1, <1>3, <1>5, <3>1 DEF Keeps, Exists
    <3>3. OwnsOnly(p)'
      BY <1>1, <1>2, <1>3, <2>1, <2>3 DEF OwnsOnly
    <3> QED BY <2>3, <3>2, <3>3
  <2>4. CASE r # p
    <3>1. run'[r] = run[r]
      BY <1>1, <2>4 DEF Turn
    <3>2. Keeps(r)'
      <4>1. ASSUME Restoring(r), NEW k \in ToSet(run[r].installed)
            PROVE  k \in Part /\ k # part
        BY <1>4, <2>2, <2>4, <4>1, KeptLink, InstalledParts
      <4> QED BY <1>5, <2>2, <3>1, <4>1 DEF Keeps, Restoring, Active, Exists
    <3>3. OwnsOnly(r)'
      BY <1>1, <2>1, <2>2, <3>1 DEF OwnsOnly, Active
    <3> QED BY <3>2, <3>3
  <2> QED BY <2>3, <2>4
<1>7. SideWithDatabase'
  <2>1. ASSUME ~stuck', Exists(Environment, "side")'
        PROVE  /\ Exists(Environment, "db")'
               /\ files'[Environment]["db"].by = files'[Environment]["side"].by
    <3>1. Exists(Environment, "side") /\ part # "side" /\ ~stuck
      BY <1>1, <1>5, <2>1, AllParts DEF Exists
    <3>2. /\ Exists(Environment, "db")
          /\ files[Environment]["db"].by = files[Environment]["side"].by
      BY <1>3, <3>1 DEF EnvInv, Owned, SideWithDatabase
    <3>3. part # "db"
      <4>1. part = "db" => Owns(p, "side") /\ "side" \notin ToSet(i)
        BY <1>2, <1>4, <3>1, <3>2, LinkedSets DEF Owns
      <4> QED BY <1>3, <3>1, <4>1, AllParts DEF OwnsOnly
    <3> QED BY <1>5, <3>1, <3>2, <3>3, AllParts DEF Exists
  <2> QED BY <2>1 DEF SideWithDatabase
<1>8. Completed'
  <2>1. ASSUME NEW r \in Invocation, Sealing(r)' PROVE DataDurable'
    <3>1. r # p /\ Sealing(r)
      BY <1>1, <2>1 DEF Turn, Sealing, Restoring, Active
    <3> QED BY <1>1, <3>1 DEF EnvInv, Completed, DataDurable
  <2>2. ~stuck' /\ Exists(Environment, "mark")' => DataDurable'
    BY <1>1, <1>5, AllParts DEF EnvInv, Completed, DataDurable, Exists
  <2> QED BY <2>1, <2>2 DEF Completed
<1>9. MarkerIsRestored'
  <2>1. CASE ~stuck' /\ Exists(Environment, "mark")'
    <3>1. ~stuck /\ Exists(Environment, "mark") /\ part # "mark"
      BY <1>1, <1>5, <2>1, AllParts DEF Exists
    <3>2. files[Environment]["mark"].by = p
      BY <1>2, <1>4, <3>1, MarkedDatabase DEF EnvInv, Part
    <3>3. "mark" \in ToSet(i)
      BY <1>3, <3>1, <3>2, AllParts DEF OwnsOnly, Owns
    <3> QED BY <1>2, <3>1, <3>3
  <2>2. CASE ~(~stuck' /\ Exists(Environment, "mark")')
    BY <2>2 DEF MarkerIsRestored
  <2> QED BY <2>1, <2>2
<1> QED BY <1>6, <1>7, <1>8, <1>9 DEF EnvInv, Owned

\* A removal that did not take effect is passed over.
LEMMA StuckEnvironment ==
  ASSUME BackupTyped, EnvInv, NEW p \in Invocation, UndoLink(p, FALSE)
  PROVE  EnvInv'
<1> DEFINE i == run[p].installed
<1>1. /\ Turn(p) /\ run[p].pc = "undo" /\ i \in Undoable /\ i # <<>>
      /\ run'[p].pc = "undo" /\ run'[p].place = run[p].place /\ run'[p].seen = run[p].seen
      /\ run'[p].installed = Front(i) /\ UNCHANGED <<files, volatile>> /\ stuck'
  BY UndoLinkTurn DEF UndoLink
<1>2. ToSet(Front(i)) \subseteq ToSet(i)
  BY <1>1, UndoableParts
<1>3. ASSUME NEW r \in Invocation PROVE Keeps(r)' /\ OwnsOnly(r)'
  <2>1. Keeps(r) /\ OwnsOnly(r)
    BY DEF EnvInv, Owned
  <2>2. CASE r = p
    BY <1>1, <1>2, <2>1, <2>2 DEF Keeps, OwnsOnly, Restoring, Active, Exists
  <2>3. CASE r # p
    <3>1. run'[r] = run[r]
      BY <1>1, <2>3 DEF Turn
    <3> QED BY <1>1, <2>1, <3>1 DEF Keeps, OwnsOnly, Owns, Restoring, Active, Exists
  <2> QED BY <2>2, <2>3
<1>4. Completed'
  <2>1. ASSUME NEW r \in Invocation, Sealing(r)' PROVE Sealing(r)
    BY <1>1, <2>1 DEF Turn, Sealing, Restoring, Active
  <2> QED BY <1>1, <2>1 DEF EnvInv, Completed, DataDurable
<1> QED BY <1>1, <1>3, <1>4 DEF EnvInv, Owned, SideWithDatabase, MarkerIsRestored

LEMMA PowerLossEnvironment ==
  ASSUME BackupTyped, EnvInv, NEW gone \in SUBSET volatile, PowerLoss(gone)
  PROVE  EnvInv'
<1>1. /\ volatile' = {} /\ (~stuck' => ~stuck)
      /\ \A k \in Part : files'[Environment][k] =
                            IF <<Environment, k>> \in gone THEN NoFile ELSE files[Environment][k]
  BY PowerLossEffect DEF PowerLoss, Place
<1>2. ASSUME NEW p \in Invocation
      PROVE  ~Active(p)' /\ (run'[p].pc = "idle" => run[p].pc = "idle")
  <2>1. (Active(p) => run'[p].pc = "dead") /\ (~Active(p) => run'[p] = run[p])
    BY PowerLossEffect
  <2> QED BY <2>1 DEF Active
<1>3. ASSUME NEW p \in Invocation PROVE Keeps(p)' /\ OwnsOnly(p)'
  <2>1. \A k \in Part : Owns(p, k)' => Owns(p, k)
    BY <1>1 DEF Owns, Exists
  <2>2. OwnsOnly(p)
    BY DEF EnvInv, Owned
  <2> QED BY <1>2, <2>1, <2>2 DEF Keeps, OwnsOnly, Restoring
<1>4. SideWithDatabase' /\ Completed'
  BY <1>1, <1>2 DEF SideWithDatabase, Completed, Sealing, Restoring, DataDurable
<1>5. MarkerIsRestored'
  <2>1. ASSUME ~stuck', Exists(Environment, "mark")'
        PROVE  /\ ~stuck /\ Exists(Environment, "mark")
               /\ \A k \in Part : files'[Environment][k] = files[Environment][k]
    <3>1. /\ ~stuck /\ Exists(Environment, "mark")
          /\ files'[Environment]["mark"] = files[Environment]["mark"]
      BY <1>1, <2>1, AllParts DEF Exists
    <3>2. DataDurable
      BY <3>1 DEF EnvInv, Completed
    <3> QED BY <1>1, <3>1, <3>2, AllParts DEF DataDurable, Part
  <2>2. MarkerIsRestored
    BY DEF EnvInv
  <2> QED BY <2>1, <2>2, AllParts DEF MarkerIsRestored
<1> QED BY <1>3, <1>4, <1>5 DEF EnvInv, Owned

LEMMA EnvironmentStep ==
  ASSUME BackupTyped, Copied, EnvInv, [BackupNext]_backupVars
  PROVE  EnvInv'
<1>0. Environment \in Place /\ Environment \notin Bundle
  BY BackupAssumption DEF Place
<1>1. CASE UNCHANGED backupVars
  BY <1>1, RestingStep DEF backupVars, SameEnvironment, NoNewVolatile
<1>2. CASE WorkerStep
  <2>1. UNCHANGED <<files, volatile, run, stuck>>
    BY <1>2 DEF WorkerStep, StopWorker, StartWorker, WorkerWrites
  <2> QED BY <2>1, RestingStep DEF SameEnvironment, NoNewVolatile
<1>3. ASSUME NEW p \in Invocation, ThinkingTurn(p) PROVE EnvInv'
  <2> DEFINE Goal == /\ run'[p].pc # "idle"
                     /\ Active(p)' => Begins(p) \/ Continues(p) \/ Elsewhere(p)
                     /\ Sealing(p)' => Sealing(p)
  <2>1. Turn(p) /\ SameEnvironment /\ NoNewVolatile /\ (stuck => stuck')
    BY <1>3, ThinkingTurnTaken DEF SameEnvironment, NoNewVolatile
  <2>2. ASSUME NEW b \in Bundle, BeginBackup(p, b) PROVE Goal
    BY <1>0, <2>2, BeginBackupTurn DEF BeginBackup, Begins, Sealing
  <2>3. ASSUME NEW b \in Bundle, BeginRestore(p, b) PROVE Goal
    BY <2>3, BeginRestoreTurn DEF BeginRestore, Begins, Sealing
  <2>4. ASSUME StageDatabase(p) PROVE Goal
    <3>1. /\ run[p].pc = "stage_db" /\ run[p].place # Environment /\ run[p] \in RunType
          /\ run'[p] = [run[p] EXCEPT !.pc = "stage_side", !.seen.db = source.db]
      BY <1>0, <2>4, RunFields, StageDatabaseTurn DEF StageDatabase, Staging
    <3>2. run'[p].pc = "stage_side" /\ run'[p].place = run[p].place
      BY <3>1 DEF RunType
    <3> QED BY <3>1, <3>2 DEF Elsewhere, Active, Sealing
  <2>5. ASSUME StageSidecar(p) PROVE Goal
    <3>1. /\ run[p].pc = "stage_side" /\ run[p].place # Environment /\ run[p] \in RunType
          /\ run'[p] = [run[p] EXCEPT !.pc = "claim", !.seen.side = source.side]
      BY <1>0, <2>5, RunFields, StageSidecarTurn DEF StageSidecar, Staging
    <3>2. run'[p].pc = "claim" /\ run'[p].place = run[p].place
      BY <3>1 DEF RunType
    <3> QED BY <3>1, <3>2 DEF Elsewhere, Active, Sealing
  <2>6. ASSUME CopyFromBundle(p) PROVE Goal
    BY <2>6, CopyTurn DEF Continues, Active, Sealing
  <2>7. ASSUME Recheck(p) PROVE Goal
    <3>1. DataParts(run'[p].seen) # <<"mark">>
      BY PublishedParts, MarkIsLast
    <3> QED BY <2>7, <3>1, RecheckTurn DEF Continues, Active, Sealing
  <2>8. ASSUME CheckInstalled(p) PROVE Goal
    BY <2>8, CheckTurn DEF Continues, Active, Sealing, Restoring
  <2>9. ASSUME Raise(p) PROVE Goal
    BY <2>9, RaiseTurn DEF Continues, Sealing
  <2>10. ASSUME Die(p) PROVE Goal
    <3>1. run' = [run EXCEPT ![p].pc = "dead"]
      BY <2>10 DEF Die
    <3> QED BY <3>1, LeavingTurn DEF Active, Sealing
  <2>11. Goal
    BY <1>3, <2>2, <2>3, <2>4, <2>5, <2>6, <2>7, <2>8, <2>9, <2>10 DEF ThinkingTurn
  <2> QED BY <2>1, <2>11, QuietEnvironment
<1>4. ASSUME NEW p \in Invocation, Claim(p) PROVE EnvInv'
  <2>1. /\ Turn(p) /\ SameEnvironment /\ NoNewVolatile /\ (stuck => stuck')
    BY <1>4, ClaimTurn DEF Claim, SameEnvironment, NoNewVolatile
  <2>2. run[p].place # Environment /\ Active(p)
    BY <1>0, <1>4, RunFields, ClaimTurn DEF Staging, Active
  <2>3. /\ run'[p].pc # "idle" /\ Elsewhere(p) /\ ~Sealing(p)'
    BY <1>4, <2>2, ClaimTurn DEF Elsewhere, Sealing, Restoring
  <2> QED BY <2>1, <2>3, QuietEnvironment
<1>5. ASSUME NEW p \in Invocation, Install(p) PROVE EnvInv'
  <2> DEFINE q == run[p].place
             part == Head(run[p].todo)
  <2>1. /\ Turn(p) /\ Active(p) /\ run'[p].place = q /\ stuck' = stuck
        /\ run'[p].pc \in {"install", "undo"} /\ q \in Place /\ run'[p].seen = run[p].seen
    BY <1>5, InstallTurn DEF Install, Active
  <2>2. CASE Exists(q, part)
    <3>1. SameEnvironment /\ NoNewVolatile
      BY <1>5, <2>2, InstallFiles DEF SameEnvironment, NoNewVolatile
    <3>2. run'[p].pc = "undo" /\ run'[p].installed = run[p].installed
      BY <1>5, <2>2, InstallTurn
    <3>3. Continues(p) /\ ~Sealing(p)'
      BY <2>1, <3>2 DEF Continues, Sealing
    <3> QED BY <2>1, <3>1, <3>2, <3>3, QuietEnvironment
  <2>3. CASE ~Exists(q, part) /\ q # Environment
    <3>1. /\ \A o \in Place, k \in Part : o # q => files'[o][k] = files[o][k]
          /\ volatile' = volatile \cup {<<q, part>>}
      BY <1>5, <2>3, InstallFiles
    <3>2. SameEnvironment /\ NoNewVolatile
      BY <1>0, <2>3, <3>1 DEF SameEnvironment, NoNewVolatile
    <3>3. Elsewhere(p) /\ ~Sealing(p)'
      BY <2>1, <2>3 DEF Elsewhere, Sealing, Restoring
    <3> QED BY <2>1, <3>2, <3>3, QuietEnvironment
  <2>4. CASE ~Exists(q, part) /\ q = Environment
    BY <1>5, <2>4, InstallEnvironment
  <2> QED BY <2>2, <2>3, <2>4
<1>6. ASSUME NEW p \in Invocation, SyncData(p) PROVE EnvInv'
  <2>1. /\ Turn(p) /\ Continues(p) /\ run'[p].pc # "idle"
    BY <1>6, SyncDataTurn DEF Continues, Active
  <2>2. SameEnvironment /\ NoNewVolatile /\ stuck' = stuck
    BY <1>6 DEF SyncData, Synced, SameEnvironment, NoNewVolatile
  <2>3. Sealing(p)' => DataDurable'
    <3>1. run[p].place = Environment => DataDurable'
      BY <1>6 DEF SyncData, Synced, DataDurable
    <3> QED BY <2>1, <3>1 DEF Continues, Sealing, Restoring
  <2> QED BY <2>1, <2>2, <2>3, QuietEnvironment
<1>7. ASSUME NEW p \in Invocation, Finish(p) \/ UndoDirectory(p) PROVE EnvInv'
  <2>1. Turn(p) /\ run'[p].pc \in {"done", "failed"}
    BY <1>7, FinishTurns, UndoDirectoryTurn
  <2>2. SameEnvironment /\ NoNewVolatile /\ stuck' = stuck
    BY <1>7 DEF Finish, UndoDirectory, Synced, SameEnvironment, NoNewVolatile
  <2>3. ~Active(p)' /\ ~Sealing(p)' /\ run'[p].pc # "idle"
    BY <2>1 DEF Active, Sealing, Restoring
  <2> QED BY <2>1, <2>2, <2>3, QuietEnvironment
<1>8. ASSUME NEW p \in Invocation, NEW removed \in BOOLEAN, UndoLink(p, removed) PROVE EnvInv'
  <2>1. CASE removed = FALSE
    BY <1>8, <2>1, StuckEnvironment
  <2>2. CASE removed = TRUE /\ run[p].place = Environment
    BY <1>8, <2>2, UndoEnvironment
  <2>3. CASE removed = TRUE /\ run[p].place # Environment
    <3>1. Turn(p) /\ run'[p].pc = "undo" /\ Elsewhere(p) /\ ~Sealing(p)'
      BY <1>8, <2>3, UndoLinkTurn DEF Elsewhere, Active, Sealing
    <3>2. SameEnvironment
      <4>1. Environment \in Place
        BY DEF Place
      <4>2. ASSUME NEW k \in Part PROVE files'[Environment][k] = files[Environment][k]
        <5>1. UndoneFiles(p, removed)
          BY <1>0, <1>8, UndoLinkFiles
        <5> QED BY <2>3, <4>1, <5>1 DEF UndoneFiles
      <4> QED BY <4>2 DEF SameEnvironment
    <3>3. NoNewVolatile /\ (stuck => stuck')
      BY <1>8, <2>3 DEF UndoLink, NoNewVolatile
    <3> QED BY <3>1, <3>2, <3>3, QuietEnvironment
  <2> QED BY <2>1, <2>2, <2>3
<1>9. ASSUME NEW gone \in SUBSET volatile, PowerLoss(gone) PROVE EnvInv'
  BY <1>9, PowerLossEnvironment
<1>10. ASSUME NEW b \in Bundle, NEW part \in {"db", "side"}, Decay(b, part) PROVE EnvInv'
  <2>1. UNCHANGED <<volatile, run, stuck>>
    BY <1>10 DEF Decay
  <2>2. SameEnvironment
    BY <1>0, <1>10, DecayFiles DEF SameEnvironment
  <2> QED BY <2>1, <2>2, RestingStep DEF NoNewVolatile
<1> QED BY <1>1, <1>2, <1>3, <1>4, <1>5, <1>6, <1>7, <1>8, <1>9, <1>10, NextKinds

-----------------------------------------------------------------------------
(* Backup: the theorems *)

LEMMA InitInv == BackupInit => BackupInv
<1> SUFFICES ASSUME BackupInit PROVE BackupInv
  OBVIOUS
<1>1. BackupTyped
  BY InitTyped
<1>2. \A p \in Invocation : run[p].pc = "idle" /\ ~Active(p) /\ ~Restoring(p) /\ ~Sealing(p)
  BY FreshRun DEF BackupInit, Active, Restoring, Sealing
<1>3. PICK used \in SUBSET Bundle :
        \E past \in [used -> {[db |-> 1, side |-> x] : x \in {0, 1}}] :
           files = [q \in Place |-> IF q \in used THEN Complete(Earlier, past[q]) ELSE Unused]
  BY DEF BackupInit
<1>4. PICK past \in [used -> {[db |-> 1, side |-> x] : x \in {0, 1}}] :
        files = [q \in Place |-> IF q \in used THEN Complete(Earlier, past[q]) ELSE Unused]
  BY <1>3
<1>5. \A s \in {[db |-> 1, side |-> x] : x \in {0, 1}} : OneRelease(s)
  BY BackupAssumption DEF OneRelease, Snapshot, Release
<1>6. Copied
  <2>1. source.side \in {0, source.db}
    BY DEF BackupInit
  <2>2. ASSUME NEW b \in Bundle PROVE MarkOneRelease(b)
    <3>1. CASE b \in used
      <4>1. files[b]["mark"].holds = past[b] /\ OneRelease(past[b])
        BY <1>4, <1>5, <3>1, AllParts DEF Complete, Holds, Place
      <4> QED BY <4>1 DEF MarkOneRelease
    <3>2. CASE b \notin used
      BY <1>4, <3>2, AllParts DEF MarkOneRelease, Unused, Exists, Place
    <3> QED BY <3>1, <3>2
  <2> QED BY <1>2, <2>1, <2>2 DEF Copied, CopiedBy
<1>7. Environment \in Place /\ Environment \notin used
  BY BackupAssumption DEF Place
<1>8. \A part \in Part : ~Exists(Environment, part)
  BY <1>4, <1>7 DEF Unused, Exists
<1>9. EnvInv
  BY <1>2, <1>8, AllParts DEF EnvInv, Owned, Keeps, OwnsOnly, Owns, SideWithDatabase, Completed,
                              MarkerIsRestored
<1> QED BY <1>1, <1>6, <1>9 DEF BackupInv

LEMMA BackupInvStep == BackupInv /\ [BackupNext]_backupVars => BackupInv'
BY TypedStep, CopiedStep, EnvironmentStep DEF BackupInv

LEMMA Invariance == BackupSpec => []BackupInv
<1> QED BY InitInv, BackupInvStep, PTL DEF BackupSpec

\* The state of the backup tool keeps its type: also after a step raised, the
\* process died or the machine lost power, and whatever decayed.
THEOREM BackupTypeCorrect == BackupSpec => []BackupTypeOK
<1>1. BackupInv => BackupTypeOK
  BY DEF BackupInv, BackupTyped
<1> QED BY <1>1, Invariance, PTL

\* A bundle that verify_runtime_backup accepts holds the database and the sidecar
\* of one release of the source, for any number of invocations that raise, die or
\* lose power next to each other while the worker is stopped and started.
THEOREM VerifiedAlwaysOneRelease == BackupSpec => []VerifiedIsOneRelease
<1>1. BackupInv => VerifiedIsOneRelease
  BY DEF BackupInv, Copied, MarkOneRelease, OneRelease, VerifiedIsOneRelease, Verified
<1> QED BY <1>1, Invariance, PTL

\* The completion marker of a restore stands for exactly the files its bundle
\* recorded, linked by the same invocation, unless a rollback could not remove a
\* file; a second restore that is taken back and a power loss included.
THEOREM MarkerAlwaysRestored == BackupSpec => []MarkerIsRestored
<1>1. BackupInv => MarkerIsRestored
  BY DEF BackupInv, EnvInv
<1> QED BY <1>1, Invariance, PTL


-----------------------------------------------------------------------------
(* DrainGate: sequences of events as sets *)

LEMMA AppendedSet ==
  ASSUME NEW S, NEW s \in Seq(S), NEW e \in S
  PROVE  /\ Append(s, e) \in Seq(S)
         /\ Len(Append(s, e)) = Len(s) + 1
         /\ ToSet(Append(s, e)) = ToSet(s) \cup {e}
<1>1. /\ Append(s, e) \in Seq(S) /\ Len(Append(s, e)) = Len(s) + 1 /\ Len(s) \in Nat
      /\ \A i \in 1 .. Len(s) : Append(s, e)[i] = s[i]
      /\ Append(s, e)[Len(s) + 1] = e
      /\ DOMAIN s = 1 .. Len(s) /\ DOMAIN Append(s, e) = 1 .. Len(s) + 1
  OBVIOUS
<1>2. 1 .. Len(s) + 1 = (1 .. Len(s)) \cup {Len(s) + 1}
  BY <1>1
<1> QED BY <1>1, <1>2 DEF ToSet

LEMMA HeadAndTail ==
  ASSUME NEW S, NEW s \in Seq(S), s # <<>>
  PROVE  /\ Tail(s) \in Seq(S) /\ Head(s) \in S
         /\ Len(s) \in Nat /\ Len(s) > 0 /\ Len(Tail(s)) = Len(s) - 1
         /\ ToSet(s) = {Head(s)} \cup ToSet(Tail(s))
<1>1. /\ Tail(s) \in Seq(S) /\ Head(s) = s[1] /\ Len(s) \in Nat /\ Len(s) > 0
      /\ Len(Tail(s)) = Len(s) - 1
      /\ \A i \in 1 .. Len(s) - 1 : Tail(s)[i] = s[i + 1]
      /\ DOMAIN s = 1 .. Len(s) /\ DOMAIN Tail(s) = 1 .. Len(s) - 1
      /\ \A i \in 1 .. Len(s) : s[i] \in S
  OBVIOUS
<1>2. \A i \in 1 .. Len(s) : i = 1 \/ i - 1 \in 1 .. Len(s) - 1
  BY <1>1
<1>3. ASSUME NEW x \in ToSet(s) PROVE x \in {Head(s)} \cup ToSet(Tail(s))
  <2>1. PICK i \in 1 .. Len(s) : x = s[i]
    BY <1>1, <1>3 DEF ToSet
  <2>2. CASE i = 1
    BY <1>1, <2>1, <2>2
  <2>3. CASE i - 1 \in 1 .. Len(s) - 1
    <3>1. Tail(s)[i - 1] = s[i]
      BY <1>1, <2>3
    <3> QED BY <1>1, <2>1, <2>3, <3>1 DEF ToSet
  <2> QED BY <1>2, <2>1, <2>2, <2>3
<1>4. ASSUME NEW x \in {Head(s)} \cup ToSet(Tail(s)) PROVE x \in ToSet(s)
  <2>1. CASE x = Head(s)
    BY <1>1, <2>1 DEF ToSet
  <2>2. CASE x \in ToSet(Tail(s))
    <3>1. PICK i \in 1 .. Len(s) - 1 : x = Tail(s)[i]
      BY <1>1, <2>2 DEF ToSet
    <3>2. x = s[i + 1] /\ i + 1 \in 1 .. Len(s)
      BY <1>1, <3>1
    <3> QED BY <1>1, <3>2 DEF ToSet
  <2> QED BY <1>4, <2>1, <2>2
<1>5. Head(s) \in S
  BY <1>1
<1> QED BY <1>1, <1>3, <1>4, <1>5

LEMMA EmptySet == ToSet(<<>>) = {}
BY DEF ToSet

LEMMA TwoEvents ==
  ASSUME NEW m \in Match
  PROVE  /\ Events(m) \in Seq(Event) /\ Events(m) # <<>>
         /\ ToSet(Events(m)) \subseteq Event
<1>1. <<m, "finished">> \in Event /\ <<m, "result">> \in Event
  BY DEF Event
<1>2. Events(m) \in Seq(Event) /\ Events(m) # <<>> /\ DOMAIN Events(m) = 1 .. 2
  BY <1>1 DEF Events
<1>3. \A i \in 1 .. 2 : Events(m)[i] \in Event
  BY <1>1 DEF Events
<1> QED BY <1>2, <1>3 DEF ToSet

-----------------------------------------------------------------------------
(* DrainGate: types, and what the counter of the outbox counts *)

(* The entries that flushes have swapped out, by number.                    *)
SwappedBy(out) == {s \in Flusher \X (1 .. MaxOutbox) : s[2] <= out[s[1]]}

SwappedBack == SwappedBy(pending)

Counted ==
  /\ inflight = Cardinality(SwappedBack)
  /\ \A f \in Flusher : Len(batch[f]) <= pending[f]

DrainTyped ==
  /\ DrainTypeOK
  /\ Counted

LEMMA SwappedFinite ==
  /\ IsFiniteSet(Flusher \X (1 .. MaxOutbox))
  /\ Cardinality(Flusher \X (1 .. MaxOutbox)) = MaxOutbox * Cardinality(Flusher)
  /\ Cardinality(Flusher) \in Nat
<1>1. MaxOutbox \in Nat /\ IsFiniteSet(Flusher)
  BY DrainAssumption
<1>2. IsFiniteSet(1 .. MaxOutbox) /\ Cardinality(1 .. MaxOutbox) = MaxOutbox
  BY <1>1, FS_Interval
<1>3. Cardinality(Flusher) \in Nat
  BY <1>1, FS_CardinalityType
<1>4. /\ IsFiniteSet(Flusher \X (1 .. MaxOutbox))
      /\ Cardinality(Flusher \X (1 .. MaxOutbox)) =
           Cardinality(Flusher) * Cardinality(1 .. MaxOutbox)
  BY <1>1, <1>2, FS_Product
<1> QED BY <1>1, <1>2, <1>3, <1>4

(* However much was swapped out, no flush holds more than the outbox does.  *)
LEMMA SwappedCount ==
  ASSUME NEW out
  PROVE  /\ IsFiniteSet(SwappedBy(out))
         /\ Cardinality(SwappedBy(out)) \in 0 .. (MaxOutbox * Cardinality(Flusher))
<1>1. SwappedBy(out) \subseteq Flusher \X (1 .. MaxOutbox)
  BY DEF SwappedBy
<1>2. /\ IsFiniteSet(SwappedBy(out))
      /\ Cardinality(SwappedBy(out)) <= Cardinality(Flusher \X (1 .. MaxOutbox))
      /\ Cardinality(SwappedBy(out)) \in Nat
  BY <1>1, SwappedFinite, FS_Subset, FS_CardinalityType
<1> QED BY <1>2, SwappedFinite

LEMMA DrainTypedInit == DrainInit => DrainTyped
<1> SUFFICES ASSUME DrainInit PROVE DrainTyped
  OBVIOUS
<1>1. <<>> \in Seq(Event) /\ Len(<<>>) = 0
  OBVIOUS
<1>2. MaxOutbox \in Nat /\ MaxOutbox > 0
  BY DrainAssumption
<1>3. SwappedBack = {}
  BY <1>2 DEF DrainInit, SwappedBack, SwappedBy
<1>4. inflight = Cardinality(SwappedBack)
  BY <1>3, FS_EmptySet DEF DrainInit
<1>5. Counted
  BY <1>1, <1>4 DEF DrainInit, Counted
<1>6. inflight \in 0 .. (MaxOutbox * Cardinality(Flusher))
  BY <1>4, SwappedCount DEF SwappedBack
<1>7. DrainTypeOK
  <2>1. /\ todo \in [Match -> Seq(Event)] /\ batch \in [Flusher -> Seq(Event)]
        /\ outbox \in Seq(Event) /\ Len(outbox) <= MaxOutbox
    BY <1>1, <1>2 DEF DrainInit
  <2>2. /\ room \in [Match -> {"none", "live", "finished", "removed", "abandoned"}]
        /\ pending \in [Flusher -> 0 .. MaxOutbox]
    BY <1>2 DEF DrainInit
  <2> QED BY <1>6, <2>1, <2>2 DEF DrainInit, DrainTypeOK
<1> QED BY <1>5, <1>7 DEF DrainTyped

LEMMA WriteTyped ==
  ASSUME DrainTypeOK, NEW e \in Event, NEW ok \in BOOLEAN, Write(e, ok)
  PROVE  /\ rows' \subseteq Event
         /\ outbox' \in Seq(Event) /\ Len(outbox') <= MaxOutbox
         /\ lost' \in BOOLEAN
<1>1. MaxOutbox \in Nat /\ MaxOutbox > 0 /\ Len(outbox) \in Nat
  BY DrainAssumption DEF DrainTypeOK
<1>2. CASE ok
  BY <1>2 DEF Write, DrainTypeOK
<1>3. CASE ~ok
  <2>1. CASE Len(outbox) >= MaxOutbox
    <3>1. outbox \in Seq(Event) /\ outbox # <<>> /\ Len(outbox) <= MaxOutbox
      BY <1>1, <2>1 DEF DrainTypeOK
    <3>2. Tail(outbox) \in Seq(Event) /\ Len(Tail(outbox)) = Len(outbox) - 1
      BY <3>1, HeadAndTail
    <3>3. outbox' = Append(Tail(outbox), e) /\ lost' = TRUE /\ rows' = rows
      BY <1>3, <2>1 DEF Write, Enqueue
    <3>4. outbox' \in Seq(Event) /\ Len(outbox') = Len(outbox)
      BY <1>1, <3>2, <3>3, AppendedSet
    <3> QED BY <3>1, <3>3, <3>4 DEF DrainTypeOK
  <2>2. CASE Len(outbox) < MaxOutbox
    <3>1. outbox \in Seq(Event)
      BY DEF DrainTypeOK
    <3>2. outbox' = Append(outbox, e) /\ lost' = lost /\ rows' = rows
      BY <1>1, <1>3, <2>2 DEF Write, Enqueue
    <3>3. outbox' \in Seq(Event) /\ Len(outbox') = Len(outbox) + 1
      BY <3>1, <3>2, AppendedSet
    <3> QED BY <1>1, <2>2, <3>2, <3>3 DEF DrainTypeOK
  <2> QED BY <1>1, <2>1, <2>2
<1> QED BY <1>2, <1>3

(* A flush that swaps out n entries adds n to the count.                    *)
LEMMA SwapCounts ==
  ASSUME NEW out \in [Flusher -> 0 .. MaxOutbox], NEW f \in Flusher, out[f] = 0,
         NEW n \in 0 .. MaxOutbox
  PROVE  Cardinality(SwappedBy([out EXCEPT ![f] = n])) = Cardinality(SwappedBy(out)) + n
<1> DEFINE more == [out EXCEPT ![f] = n]
           mine == {f} \X (1 .. n)
<1>1. MaxOutbox \in Nat /\ n \in Nat
  BY DrainAssumption
<1>2. SwappedBy(more) = SwappedBy(out) \cup mine
  BY <1>1 DEF SwappedBy
<1>3. SwappedBy(out) \cap mine = {}
  BY <1>1 DEF SwappedBy
<1>4. SwappedBy(out) \subseteq Flusher \X (1 .. MaxOutbox)
  BY DEF SwappedBy
<1>5. IsFiniteSet(SwappedBy(out)) /\ Cardinality(SwappedBy(out)) \in Nat
  BY <1>4, SwappedFinite, FS_Subset, FS_CardinalityType
<1>6. /\ IsFiniteSet({f}) /\ Cardinality({f}) = 1
      /\ IsFiniteSet(1 .. n) /\ Cardinality(1 .. n) = n
  <2>1. 1 \in Int /\ n \in Int
    BY <1>1
  <2>2. IsFiniteSet(1 .. n) /\ Cardinality(1 .. n) = IF 1 > n THEN 0 ELSE n - 1 + 1
    BY <2>1, FS_Interval
  <2>3. Cardinality(1 .. n) = n
    BY <1>1, <2>2
  <2>4. IsFiniteSet({f}) /\ Cardinality({f}) = 1
    BY FS_Singleton
  <2> QED BY <2>2, <2>3, <2>4
<1>7. IsFiniteSet(mine) /\ Cardinality(mine) = Cardinality({f}) * Cardinality(1 .. n)
  BY <1>6, FS_Product
<1>8. Cardinality({}) = 0
  BY FS_EmptySet
<1> HIDE DEF mine, more
<1>9. Cardinality(SwappedBy(out) \cup mine) =
        Cardinality(SwappedBy(out)) + Cardinality(mine) - Cardinality(SwappedBy(out) \cap mine)
  BY <1>5, <1>7, FS_Union
<1>10. Cardinality(mine) = n
  BY <1>1, <1>6, <1>7
<1>11. Cardinality(SwappedBy(out) \cup mine) = Cardinality(SwappedBy(out)) + n
  <2>1. Cardinality(SwappedBy(out) \cap mine) = 0
    BY <1>3, <1>8, Zenon
  <2> QED BY <1>1, <1>5, <1>9, <1>10, <2>1
<1>12. Cardinality(SwappedBy(more)) = Cardinality(SwappedBy(out)) + n
  BY <1>2, <1>11
<1> QED BY <1>12 DEF more

(* A step that touches neither what is swapped out nor what of it is left.  *)
LEMMA SameCount ==
  ASSUME DrainTyped, UNCHANGED flushVars
  PROVE  /\ Counted'
         /\ batch' \in [Flusher -> Seq(Event)] /\ pending' \in [Flusher -> 0 .. MaxOutbox]
         /\ inflight' \in 0 .. (MaxOutbox * Cardinality(Flusher))
<1>1. SwappedBack' = SwappedBack
  BY DEF flushVars, SwappedBack, SwappedBy
<1>2. Counted'
  BY <1>1 DEF DrainTyped, Counted, flushVars
<1> QED BY <1>2 DEF DrainTyped, DrainTypeOK, flushVars

LEMMA FlushTakeTyped ==
  ASSUME DrainTyped, NEW f \in Flusher, FlushTake(f)
  PROVE  DrainTyped'
<1>1. /\ outbox \in Seq(Event) /\ Len(outbox) \in 0 .. MaxOutbox
      /\ pending \in [Flusher -> 0 .. MaxOutbox] /\ batch \in [Flusher -> Seq(Event)]
      /\ pending[f] = 0
  BY DrainAssumption DEF DrainTyped, DrainTypeOK, FlushTake
<1>2. /\ pending' = [pending EXCEPT ![f] = Len(outbox)]
      /\ batch' = [batch EXCEPT ![f] = outbox]
      /\ inflight' = inflight + Len(outbox)
      /\ outbox' = <<>>
  BY DEF FlushTake
<1>3. Cardinality(SwappedBy([pending EXCEPT ![f] = Len(outbox)])) =
        Cardinality(SwappedBack) + Len(outbox)
  BY <1>1, SwapCounts DEF SwappedBack
<1>4. Cardinality(SwappedBack') = Cardinality(SwappedBack) + Len(outbox)
  BY <1>2, <1>3 DEF SwappedBack
<1>5. inflight' = Cardinality(SwappedBack')
  BY <1>2, <1>4 DEF DrainTyped, Counted
<1>6. pending' \in [Flusher -> 0 .. MaxOutbox] /\ batch' \in [Flusher -> Seq(Event)]
  BY <1>1, <1>2
<1>7. \A g \in Flusher : Len(batch'[g]) <= pending'[g]
  BY <1>1, <1>2 DEF DrainTyped, Counted
<1>8. Counted'
  BY <1>5, <1>7 DEF Counted
<1>9. inflight' \in 0 .. (MaxOutbox * Cardinality(Flusher))
  BY <1>5, SwappedCount DEF SwappedBack
<1>10. outbox' \in Seq(Event) /\ Len(outbox') <= MaxOutbox
  BY <1>2, DrainAssumption
<1>11. DrainTypeOK'
  BY <1>6, <1>9, <1>10 DEF DrainTyped, DrainTypeOK, FlushTake
<1> QED BY <1>8, <1>11 DEF DrainTyped

LEMMA FlushEndTyped ==
  ASSUME DrainTyped, NEW f \in Flusher, FlushEnd(f)
  PROVE  DrainTyped'
<1>1. /\ pending \in [Flusher -> 0 .. MaxOutbox] /\ batch \in [Flusher -> Seq(Event)]
      /\ batch[f] = <<>> /\ pending[f] \in 0 .. MaxOutbox /\ 0 \in 0 .. MaxOutbox
  BY DrainAssumption DEF DrainTyped, DrainTypeOK, FlushEnd
<1>2. /\ pending' = [pending EXCEPT ![f] = 0]
      /\ batch' = batch
      /\ inflight' = inflight - pending[f]
  BY DEF FlushEnd
<1>3. /\ pending' \in [Flusher -> 0 .. MaxOutbox] /\ pending'[f] = 0
      /\ [pending' EXCEPT ![f] = pending[f]] = pending
  BY <1>1, <1>2
<1>4. Cardinality(SwappedBy([pending' EXCEPT ![f] = pending[f]])) =
        Cardinality(SwappedBy(pending')) + pending[f]
  BY <1>1, <1>3, SwapCounts
<1>5. Cardinality(SwappedBack) = Cardinality(SwappedBack') + pending[f]
  BY <1>3, <1>4 DEF SwappedBack
<1>6. Cardinality(SwappedBack') \in Int /\ pending[f] \in Int
  <2>1. Cardinality(SwappedBack') \in 0 .. (MaxOutbox * Cardinality(Flusher))
    BY SwappedCount DEF SwappedBack
  <2> QED BY <1>1, <2>1
<1>7. inflight' = Cardinality(SwappedBack')
  BY <1>2, <1>5, <1>6 DEF DrainTyped, Counted
<1>8. \A g \in Flusher : Len(batch'[g]) <= pending'[g]
  BY <1>1, <1>2 DEF DrainTyped, Counted
<1>9. Counted'
  BY <1>7, <1>8 DEF Counted
<1>10. inflight' \in 0 .. (MaxOutbox * Cardinality(Flusher))
  BY <1>7, SwappedCount DEF SwappedBack
<1>11. DrainTypeOK'
  BY <1>1, <1>2, <1>3, <1>10 DEF DrainTyped, DrainTypeOK, FlushEnd
<1> QED BY <1>9, <1>11 DEF DrainTyped

LEMMA FlushOneTyped ==
  ASSUME DrainTyped, NEW f \in Flusher, NEW ok \in BOOLEAN, FlushOne(f, ok)
  PROVE  DrainTyped'
<1>1. /\ batch \in [Flusher -> Seq(Event)] /\ batch[f] \in Seq(Event) /\ batch[f] # <<>>
      /\ batch' = [batch EXCEPT ![f] = Tail(batch[f])]
      /\ pending' = pending /\ inflight' = inflight
  BY DEF DrainTyped, DrainTypeOK, FlushOne
<1>2. /\ Head(batch[f]) \in Event /\ Tail(batch[f]) \in Seq(Event)
      /\ Len(Tail(batch[f])) = Len(batch[f]) - 1 /\ Len(batch[f]) \in Nat
  BY <1>1, HeadAndTail
<1>3. /\ rows' \subseteq Event /\ outbox' \in Seq(Event) /\ Len(outbox') <= MaxOutbox
      /\ lost' \in BOOLEAN
  BY <1>2, WriteTyped DEF DrainTyped, FlushOne
<1>4. batch' \in [Flusher -> Seq(Event)]
  BY <1>1, <1>2
<1>5. \A g \in Flusher : Len(batch'[g]) <= pending'[g]
  <2>1. Len(batch[f]) <= pending[f] /\ pending[f] \in Int
    BY DEF DrainTyped, Counted, DrainTypeOK
  <2>2. Len(batch'[f]) <= pending'[f]
    BY <1>1, <1>2, <2>1
  <2> QED BY <1>1, <2>2 DEF DrainTyped, Counted
<1>6. SwappedBack' = SwappedBack
  BY <1>1 DEF SwappedBack, SwappedBy
<1>7. Counted'
  BY <1>1, <1>5, <1>6 DEF DrainTyped, Counted
<1>8. DrainTypeOK'
  BY <1>1, <1>3, <1>4 DEF DrainTyped, DrainTypeOK, FlushOne
<1> QED BY <1>7, <1>8 DEF DrainTyped

LEMMA RoomStepTyped ==
  ASSUME DrainTyped, NEW m \in Match,
         \/ StartRoom(m) \/ FinishRoom(m) \/ ArchiveReplay(m) \/ RetryRecording(m) \/ RemoveRoom(m)
  PROVE  DrainTyped'
<1>1. Events(m) \in Seq(Event)
  BY TwoEvents
<1>2. UNCHANGED flushVars /\ UNCHANGED storeVars
  BY DEF StartRoom, FinishRoom, ArchiveReplay, RetryRecording, RemoveRoom
<1>3. todo' \in [Match -> Seq(Event)]
  BY <1>1 DEF StartRoom, FinishRoom, ArchiveReplay, RetryRecording, RemoveRoom, BeginRecording,
              DrainTyped, DrainTypeOK
<1>4. /\ recording' \subseteq Match /\ recorded' \subseteq Match /\ replays' \subseteq Match
      /\ room' \in [Match -> {"none", "live", "finished", "removed", "abandoned"}]
      /\ accepting' \in BOOLEAN /\ report' \in {"none", "rooms", "green"}
  BY DEF StartRoom, FinishRoom, ArchiveReplay, RetryRecording, RemoveRoom, BeginRecording,
         DrainTyped, DrainTypeOK
<1>5. /\ rows' \subseteq Event /\ outbox' \in Seq(Event) /\ Len(outbox') <= MaxOutbox
      /\ lost' \in BOOLEAN
  BY <1>2 DEF DrainTyped, DrainTypeOK, storeVars
<1>6. /\ Counted'
      /\ batch' \in [Flusher -> Seq(Event)] /\ pending' \in [Flusher -> 0 .. MaxOutbox]
      /\ inflight' \in 0 .. (MaxOutbox * Cardinality(Flusher))
  BY <1>2, SameCount
<1>7. DrainTypeOK'
  BY <1>3, <1>4, <1>5, <1>6 DEF DrainTypeOK
<1> QED BY <1>6, <1>7 DEF DrainTyped

LEMMA RecordTyped ==
  ASSUME DrainTyped, NEW m \in Match, NEW ok \in BOOLEAN, RecordEvent(m, ok) \/ CheckRecorded(m, ok)
  PROVE  DrainTyped'
<1>1. todo \in [Match -> Seq(Event)]
  BY DEF DrainTyped, DrainTypeOK
<1>2. UNCHANGED flushVars
  BY DEF RecordEvent, CheckRecorded
<1>3. /\ Counted'
      /\ batch' \in [Flusher -> Seq(Event)] /\ pending' \in [Flusher -> 0 .. MaxOutbox]
      /\ inflight' \in 0 .. (MaxOutbox * Cardinality(Flusher))
  BY <1>2, SameCount
<1>4. CASE RecordEvent(m, ok)
  <2>1. todo[m] \in Seq(Event) /\ todo[m] # <<>> /\ todo' = [todo EXCEPT ![m] = Tail(todo[m])]
    BY <1>1, <1>4 DEF RecordEvent
  <2>2. Head(todo[m]) \in Event /\ Tail(todo[m]) \in Seq(Event)
    BY <2>1, HeadAndTail
  <2>3. /\ rows' \subseteq Event /\ outbox' \in Seq(Event) /\ Len(outbox') <= MaxOutbox
        /\ lost' \in BOOLEAN
    BY <1>4, <2>2, WriteTyped DEF DrainTyped, RecordEvent
  <2>4. todo' \in [Match -> Seq(Event)]
    BY <1>1, <2>1, <2>2
  <2>5. DrainTypeOK'
    BY <1>3, <1>4, <2>3, <2>4 DEF DrainTyped, DrainTypeOK, RecordEvent
  <2> QED BY <1>3, <2>5 DEF DrainTyped
<1>5. CASE CheckRecorded(m, ok)
  <2>1. DrainTypeOK'
    BY <1>3, <1>5 DEF DrainTyped, DrainTypeOK, CheckRecorded, storeVars
  <2> QED BY <1>3, <2>1 DEF DrainTyped
<1> QED BY <1>4, <1>5

LEMMA ReportTyped ==
  ASSUME DrainTyped,
         (\E draining \in BOOLEAN : SetDraining(draining)) \/ ReportRooms \/ ReportOutbox
  PROVE  DrainTyped'
<1>1. UNCHANGED flushVars /\ UNCHANGED storeVars
  BY DEF SetDraining, ReportRooms, ReportOutbox
<1>2. /\ Counted'
      /\ batch' \in [Flusher -> Seq(Event)] /\ pending' \in [Flusher -> 0 .. MaxOutbox]
      /\ inflight' \in 0 .. (MaxOutbox * Cardinality(Flusher))
  BY <1>1, SameCount
<1>3. DrainTypeOK'
  BY <1>1, <1>2 DEF DrainTyped, DrainTypeOK, SetDraining, ReportRooms, ReportOutbox, storeVars
<1> QED BY <1>2, <1>3 DEF DrainTyped

LEMMA DrainTypedNext == DrainTyped /\ [DrainNext]_drainVars => DrainTyped'
<1> SUFFICES ASSUME DrainTyped, [DrainNext]_drainVars PROVE DrainTyped'
  OBVIOUS
<1>1. ASSUME NEW m \in Match,
             \/ StartRoom(m) \/ FinishRoom(m) \/ ArchiveReplay(m)
             \/ RetryRecording(m) \/ RemoveRoom(m)
      PROVE  DrainTyped'
  BY <1>1, RoomStepTyped
<1>2. ASSUME NEW m \in Match, NEW ok \in BOOLEAN, RecordEvent(m, ok) \/ CheckRecorded(m, ok)
      PROVE  DrainTyped'
  BY <1>2, RecordTyped
<1>3. ASSUME NEW f \in Flusher, FlushTake(f) PROVE DrainTyped'
  BY <1>3, FlushTakeTyped
<1>4. ASSUME NEW f \in Flusher, FlushEnd(f) PROVE DrainTyped'
  BY <1>4, FlushEndTyped
<1>5. ASSUME NEW f \in Flusher, NEW ok \in BOOLEAN, FlushOne(f, ok) PROVE DrainTyped'
  BY <1>5, FlushOneTyped
<1>6. CASE (\E draining \in BOOLEAN : SetDraining(draining)) \/ ReportRooms \/ ReportOutbox
  BY <1>6, ReportTyped
<1>7. CASE UNCHANGED drainVars
  <2>1. UNCHANGED flushVars
    BY <1>7 DEF drainVars, flushVars
  <2>2. Counted'
    BY <2>1, SameCount
  <2>3. DrainTypeOK'
    BY <1>7 DEF DrainTyped, DrainTypeOK, drainVars
  <2> QED BY <2>2, <2>3 DEF DrainTyped
<1> QED BY <1>1, <1>2, <1>3, <1>4, <1>5, <1>6, <1>7 DEF DrainNext

(* The store, the recorders and the report keep their types; no outbox       *)
(* outgrows MAX_OUTBOX_SIZE, and what is in flight is never negative         *)
(* (runtime_store.py, _enqueue_outbox, flush_outbox).                        *)
THEOREM DrainTypeCorrect == DrainSpec => []DrainTypeOK
<1>1. DrainTyped => DrainTypeOK
  BY DEF DrainTyped
<1> QED BY <1>1, DrainTypedInit, DrainTypedNext, PTL DEF DrainSpec

-----------------------------------------------------------------------------
(* DrainGate: where each event of a finished match is *)

(* In the database, waiting in the outbox, or in the hands of a flush.      *)
Held(e) ==
  \/ e \in rows
  \/ e \in ToSet(outbox)
  \/ \E f \in Flusher : e \in ToSet(batch[f])

(* Until something is dropped, no event that a recorder has dealt with is   *)
(* anywhere else.                                                           *)
NothingLost ==
  ~lost => \A m \in Match : Over(m) => \A e \in ToSet(Events(m)) : e \in ToSet(todo[m]) \/ Held(e)

(* A write that drops nothing keeps the event written, and all the others.  *)
LEMMA WriteKeeps ==
  ASSUME DrainTypeOK, NEW e \in Event, NEW ok \in BOOLEAN, Write(e, ok), ~lost'
  PROVE  /\ ~lost /\ lost' = lost
         /\ rows \subseteq rows' /\ ToSet(outbox) \subseteq ToSet(outbox')
         /\ e \in rows' \/ e \in ToSet(outbox')
<1>1. CASE ok
  BY <1>1 DEF Write
<1>2. CASE ~ok
  <2>1. outbox' = Append(outbox, e) /\ lost' = lost /\ rows' = rows
    BY <1>2 DEF Write, Enqueue
  <2>2. outbox \in Seq(Event)
    BY DEF DrainTypeOK
  <2>3. ToSet(outbox') = ToSet(outbox) \cup {e}
    BY <2>1, <2>2, AppendedSet
  <2> QED BY <2>1, <2>3
<1> QED BY <1>1, <1>2

LEMMA NothingLostInit == DrainInit => NothingLost
BY DEF DrainInit, NothingLost, Over

(* A step that takes nothing out of the store and of the batches, and       *)
(* after which a recorder has still to deal with what is not held.          *)
LEMMA StillKept ==
  ASSUME NothingLost, lost' = lost,
         \A e : Held(e) => Held(e)',
         \A m \in Match : Over(m)' => \/ Over(m) /\ todo'[m] = todo[m]
                                      \/ todo'[m] = Events(m)
  PROVE  NothingLost'
BY DEF NothingLost, Over

LEMMA NothingLostNext == DrainTyped /\ NothingLost /\ [DrainNext]_drainVars => NothingLost'
<1> SUFFICES ASSUME DrainTyped, NothingLost, [DrainNext]_drainVars PROVE NothingLost'
  OBVIOUS
<1>0. todo \in [Match -> Seq(Event)] /\ batch \in [Flusher -> Seq(Event)] /\ DrainTypeOK
  BY DEF DrainTyped, DrainTypeOK
<1>1. ASSUME NEW m \in Match,
             \/ StartRoom(m) \/ FinishRoom(m) \/ ArchiveReplay(m)
             \/ RetryRecording(m) \/ RemoveRoom(m)
      PROVE  NothingLost'
  <2>1. \A e : Held(e) => Held(e)'
    BY <1>1 DEF StartRoom, FinishRoom, ArchiveReplay, RetryRecording, RemoveRoom, Held,
                flushVars, storeVars
  <2>2. lost' = lost
    BY <1>1 DEF StartRoom, FinishRoom, ArchiveReplay, RetryRecording, RemoveRoom, storeVars
  <2>3. room \in [Match -> {"none", "live", "finished", "removed", "abandoned"}]
    BY DEF DrainTyped, DrainTypeOK
  <2>4. \A n \in Match : Over(n)' => \/ Over(n) /\ todo'[n] = todo[n]
                                     \/ todo'[n] = Events(n)
    BY <1>0, <1>1, <2>3
       DEF StartRoom, FinishRoom, ArchiveReplay, RetryRecording, RemoveRoom, BeginRecording, Over
  <2> QED BY <2>1, <2>2, <2>4, StillKept
<1>2. ASSUME NEW m \in Match, NEW ok \in BOOLEAN, RecordEvent(m, ok), ~lost'
      PROVE  NothingLost'
  <2>1. /\ todo[m] \in Seq(Event) /\ todo[m] # <<>>
        /\ todo' = [todo EXCEPT ![m] = Tail(todo[m])]
        /\ room' = room /\ batch' = batch
    BY <1>0, <1>2 DEF RecordEvent, flushVars
  <2>2. /\ Head(todo[m]) \in Event
        /\ ToSet(todo[m]) = {Head(todo[m])} \cup ToSet(Tail(todo[m]))
    BY <2>1, HeadAndTail
  <2>3. /\ ~lost /\ lost' = lost /\ rows \subseteq rows' /\ ToSet(outbox) \subseteq ToSet(outbox')
        /\ Head(todo[m]) \in rows' \/ Head(todo[m]) \in ToSet(outbox')
    BY <1>0, <1>2, <2>2, WriteKeeps DEF RecordEvent
  <2>4. \A e : Held(e) => Held(e)'
    BY <2>1, <2>3 DEF Held
  <2>5. \A e : e = Head(todo[m]) => Held(e)'
    BY <2>3 DEF Held
  <2>6. ASSUME NEW n \in Match, Over(n)', NEW e \in ToSet(Events(n))
        PROVE  e \in ToSet(todo'[n]) \/ Held(e)'
    <3>1. e \in ToSet(todo[n]) \/ Held(e)
      BY <2>1, <2>3, <2>6 DEF NothingLost, Over
    <3>2. CASE n = m
      <4>1. todo'[n] = Tail(todo[n])
        BY <1>0, <2>1, <3>2
      <4> QED BY <2>2, <2>4, <2>5, <3>1, <3>2, <4>1
    <3>3. CASE n # m
      <4>1. todo'[n] = todo[n]
        BY <1>0, <2>1, <3>3
      <4> QED BY <2>4, <3>1, <4>1
    <3> QED BY <3>2, <3>3
  <2> QED BY <2>6 DEF NothingLost
<1>3. ASSUME NEW m \in Match, NEW ok \in BOOLEAN, CheckRecorded(m, ok)
      PROVE  NothingLost'
  BY <1>3 DEF CheckRecorded, NothingLost, Over, Held, flushVars, storeVars
<1>4. ASSUME NEW f \in Flusher, FlushTake(f)
      PROVE  NothingLost'
  <2>1. \A e : Held(e) => Held(e)'
    <3> SUFFICES ASSUME NEW e, Held(e) PROVE Held(e)'
      OBVIOUS
    <3>1. batch[f] = <<>>
      <4>1. Len(batch[f]) <= 0 /\ batch[f] \in Seq(Event)
        BY <1>0, <1>4 DEF DrainTyped, Counted, FlushTake
      <4> QED BY <4>1
    <3>2. batch' = [batch EXCEPT ![f] = outbox] /\ rows' = rows
      BY <1>4 DEF FlushTake
    <3>3. CASE e \in ToSet(outbox)
      <4>1. e \in ToSet(batch'[f])
        BY <1>0, <3>2, <3>3
      <4> QED BY <4>1 DEF Held
    <3>4. ASSUME NEW g \in Flusher, e \in ToSet(batch[g]) PROVE Held(e)'
      <4>1. g # f
        BY <3>1, <3>4, EmptySet
      <4>2. batch'[g] = batch[g]
        BY <1>0, <3>2, <4>1
      <4> QED BY <3>4, <4>2 DEF Held
    <3>5. CASE e \in rows
      BY <3>2, <3>5 DEF Held
    <3> QED BY <3>3, <3>4, <3>5 DEF Held
  <2>2. lost' = lost /\ room' = room /\ todo' = todo
    BY <1>4 DEF FlushTake
  <2> QED BY <2>1, <2>2, StillKept DEF Over
<1>5. ASSUME NEW f \in Flusher, FlushEnd(f)
      PROVE  NothingLost'
  BY <1>5 DEF FlushEnd, NothingLost, Over, Held
<1>6. ASSUME NEW f \in Flusher, NEW ok \in BOOLEAN, FlushOne(f, ok), ~lost'
      PROVE  NothingLost'
  <2>1. /\ batch[f] \in Seq(Event) /\ batch[f] # <<>>
        /\ batch' = [batch EXCEPT ![f] = Tail(batch[f])]
        /\ room' = room /\ todo' = todo
    BY <1>0, <1>6 DEF FlushOne
  <2>2. /\ Head(batch[f]) \in Event
        /\ ToSet(batch[f]) = {Head(batch[f])} \cup ToSet(Tail(batch[f]))
    BY <2>1, HeadAndTail
  <2>3. /\ ~lost /\ lost' = lost /\ rows \subseteq rows' /\ ToSet(outbox) \subseteq ToSet(outbox')
        /\ Head(batch[f]) \in rows' \/ Head(batch[f]) \in ToSet(outbox')
    BY <1>0, <1>6, <2>2, WriteKeeps DEF FlushOne
  <2>4. ASSUME NEW e, Held(e) PROVE Held(e)'
    <3>1. CASE e \in rows \/ e \in ToSet(outbox)
      BY <2>3, <3>1 DEF Held
    <3>2. ASSUME NEW g \in Flusher, e \in ToSet(batch[g]) PROVE Held(e)'
      <4>1. CASE g = f
        <5>1. e = Head(batch[f]) \/ e \in ToSet(Tail(batch[f]))
          BY <2>2, <3>2, <4>1
        <5>2. batch'[f] = Tail(batch[f])
          BY <1>0, <2>1
        <5> QED BY <2>3, <5>1, <5>2 DEF Held
      <4>2. CASE g # f
        <5>1. batch'[g] = batch[g]
          BY <1>0, <2>1, <4>2
        <5> QED BY <3>2, <5>1 DEF Held
      <4> QED BY <4>1, <4>2
    <3> QED BY <2>4, <3>1, <3>2 DEF Held
  <2>5. lost' = lost
    BY <2>3
  <2> QED BY <2>1, <2>4, <2>5, StillKept DEF Over
<1>7. CASE (\E draining \in BOOLEAN : SetDraining(draining)) \/ ReportRooms \/ ReportOutbox
  BY <1>7 DEF SetDraining, ReportRooms, ReportOutbox, NothingLost, Over, Held, flushVars, storeVars
<1>8. CASE UNCHANGED drainVars
  BY <1>8 DEF drainVars, NothingLost, Over, Held
<1>9. CASE lost'
  BY <1>9 DEF NothingLost
<1> QED BY <1>1, <1>2, <1>3, <1>4, <1>5, <1>6, <1>7, <1>8, <1>9 DEF DrainNext

(* When the counter shows nothing waiting and nothing in flight, no flush    *)
(* holds an entry.                                                          *)
LEMMA EmptyMeansNone ==
  ASSUME DrainTyped, OutboxSize = 0
  PROVE  outbox = <<>> /\ \A f \in Flusher : batch[f] = <<>>
<1>1. /\ outbox \in Seq(Event) /\ Len(outbox) \in Nat
      /\ inflight = Cardinality(SwappedBack)
      /\ pending \in [Flusher -> 0 .. MaxOutbox] /\ MaxOutbox \in Nat
  BY DrainAssumption DEF DrainTyped, DrainTypeOK, Counted
<1>2. IsFiniteSet(SwappedBack) /\ Cardinality(SwappedBack) \in Nat
  BY SwappedCount, FS_CardinalityType DEF SwappedBack
<1>3. Len(outbox) = 0 /\ Cardinality(SwappedBack) = 0
  BY <1>1, <1>2 DEF OutboxSize
<1>4. SwappedBack = {}
  BY <1>2, <1>3, FS_EmptySet
<1>5. ASSUME NEW f \in Flusher PROVE batch[f] = <<>>
  <2>1. <<f, 1>> \notin SwappedBack
    BY <1>4
  <2>2. pending[f] = 0
    BY <1>1, <2>1 DEF SwappedBack, SwappedBy
  <2>3. batch[f] \in Seq(Event) /\ Len(batch[f]) <= 0
    BY <2>2 DEF DrainTyped, Counted, DrainTypeOK
  <2> QED BY <2>3
<1> QED BY <1>1, <1>3, <1>5

(* An outbox that reports itself empty, with nothing ever dropped, means     *)
(* that every event some recorder has dealt with is in the database, however *)
(* flushes overlap and writes fail (runtime_store.py, outbox_size).          *)
THEOREM EmptyOutboxAlwaysDurable == DrainSpec => []EmptyOutboxIsDurable
<1>1. DrainTyped /\ NothingLost => EmptyOutboxIsDurable
  <2> SUFFICES ASSUME DrainTyped, NothingLost, OutboxSize = 0, ~lost,
                      NEW m \in Match, Over(m), NEW e \in ToSet(Events(m)), e \notin ToSet(todo[m])
               PROVE  e \in rows
    BY DEF EmptyOutboxIsDurable
  <2>1. Held(e)
    BY DEF NothingLost
  <2> QED BY <2>1, EmptyMeansNone, EmptySet DEF Held
<1> QED BY <1>1, DrainTypedInit, DrainTypedNext, NothingLostInit, NothingLostNext, PTL DEF DrainSpec

-----------------------------------------------------------------------------
(* DrainGate: what the report has seen *)

(* What counts as recorded is in the database, and a room goes only when    *)
(* its events and its replay are.                                           *)
HandedOff ==
  /\ \A m \in recorded : ToSet(Events(m)) \subseteq rows
  /\ \A m \in Match : room[m] = "removed" => m \in replays /\ ToSet(Events(m)) \subseteq rows

(* What the report read of the rooms stays so while it is being read.       *)
ReportStands ==
  report # "none" => /\ ~accepting
                     /\ \A m \in Match : room[m] # "live" /\ ~PersistencePending(m)

ReportInv == HandedOff /\ ReportStands

LEMMA ReportInit == DrainInit => ReportInv
BY DEF DrainInit, ReportInv, HandedOff, ReportStands

LEMMA RowsGrow == [DrainNext]_drainVars => rows \subseteq rows'
<1> SUFFICES ASSUME [DrainNext]_drainVars PROVE rows \subseteq rows'
  OBVIOUS
<1>1. ASSUME NEW e, NEW ok \in BOOLEAN, Write(e, ok) PROVE rows \subseteq rows'
  BY <1>1 DEF Write
<1>2. CASE \E m \in Match, ok \in BOOLEAN : RecordEvent(m, ok)
  BY <1>1, <1>2 DEF RecordEvent
<1>3. CASE \E f \in Flusher, ok \in BOOLEAN : FlushOne(f, ok)
  BY <1>1, <1>3 DEF FlushOne
<1>4. CASE rows' = rows
  BY <1>4
<1>5. rows' = rows \/ (\E m \in Match, ok \in BOOLEAN : RecordEvent(m, ok))
                   \/ \E f \in Flusher, ok \in BOOLEAN : FlushOne(f, ok)
  BY DEF DrainNext, drainVars, storeVars, StartRoom, FinishRoom, ArchiveReplay, RetryRecording,
         RemoveRoom, CheckRecorded, FlushTake, FlushEnd, SetDraining, ReportRooms, ReportOutbox
<1> QED BY <1>2, <1>3, <1>4, <1>5

LEMMA ReportNext == DrainTyped /\ ReportInv /\ [DrainNext]_drainVars => ReportInv'
<1> SUFFICES ASSUME DrainTyped, ReportInv, [DrainNext]_drainVars PROVE ReportInv'
  OBVIOUS
<1>0. rows \subseteq rows'
  BY RowsGrow
<1>1. room \in [Match -> {"none", "live", "finished", "removed", "abandoned"}]
  BY DEF DrainTyped, DrainTypeOK
<1>2. ASSUME NEW m \in Match, StartRoom(m) PROVE ReportInv'
  BY <1>0, <1>1, <1>2 DEF StartRoom, ReportInv, HandedOff, ReportStands, PersistencePending
<1>3. ASSUME NEW m \in Match, FinishRoom(m) PROVE ReportInv'
  BY <1>0, <1>1, <1>3 DEF FinishRoom, ReportInv, HandedOff, ReportStands, PersistencePending
<1>4. ASSUME NEW m \in Match, ArchiveReplay(m) \/ RetryRecording(m) PROVE ReportInv'
  BY <1>0, <1>1, <1>4 DEF ArchiveReplay, RetryRecording, ReportInv, HandedOff, ReportStands,
                          PersistencePending
<1>5. ASSUME NEW m \in Match, RemoveRoom(m) PROVE ReportInv'
  <2>1. /\ room' = [room EXCEPT ![m] = IF room[m] = "live" THEN "abandoned" ELSE "removed"]
        /\ recorded' = recorded \ {m} /\ replays' = replays /\ room[m] \in {"live", "finished"}
        /\ accepting' = accepting /\ report' = report /\ ~PersistencePending(m)
    BY <1>5 DEF RemoveRoom
  <2>2. HandedOff'
    BY <1>0, <1>1, <2>1 DEF ReportInv, HandedOff, PersistencePending
  <2>3. ReportStands'
    BY <1>1, <2>1 DEF ReportInv, ReportStands, PersistencePending
  <2> QED BY <2>2, <2>3 DEF ReportInv
<1>6. ASSUME NEW m \in Match, NEW ok \in BOOLEAN, RecordEvent(m, ok) PROVE ReportInv'
  BY <1>0, <1>6 DEF RecordEvent, ReportInv, HandedOff, ReportStands, PersistencePending
<1>7. ASSUME NEW m \in Match, NEW ok \in BOOLEAN, CheckRecorded(m, ok) PROVE ReportInv'
  BY <1>0, <1>7 DEF CheckRecorded, Durable, ReportInv, HandedOff, ReportStands, PersistencePending
<1>8. ASSUME NEW f \in Flusher, FlushTake(f) \/ FlushEnd(f) \/ \E ok \in BOOLEAN : FlushOne(f, ok)
      PROVE  ReportInv'
  BY <1>0, <1>8 DEF FlushTake, FlushEnd, FlushOne, ReportInv, HandedOff, ReportStands,
                    PersistencePending
<1>9. CASE (\E draining \in BOOLEAN : SetDraining(draining)) \/ ReportRooms \/ ReportOutbox
  BY <1>0, <1>9 DEF SetDraining, ReportRooms, ReportOutbox, ReportInv, HandedOff, ReportStands,
                    PersistencePending
<1>10. CASE UNCHANGED drainVars
  BY <1>10 DEF drainVars, ReportInv, HandedOff, ReportStands, PersistencePending
<1> QED BY <1>2, <1>3, <1>4, <1>5, <1>6, <1>7, <1>8, <1>9, <1>10 DEF DrainNext

(* Once a report under drain was green, and until drain is lifted, every     *)
(* match that finished has its events and its replay on disk and none is     *)
(* being played, whatever happens after the report (ops_routes.py,           *)
(* runtime_status).                                                         *)
THEOREM GreenReportAlwaysSafe == DrainSpec => []GreenReportIsSafe
<1>1. ReportInv => GreenReportIsSafe
  BY DEF ReportInv, HandedOff, ReportStands, GreenReportIsSafe, PersistencePending, Over
<1> QED BY <1>1, DrainTypedInit, DrainTypedNext, ReportInit, ReportNext, PTL DEF DrainSpec

-----------------------------------------------------------------------------
(* The run of the four parts *)

\* What the run of MCParts explores are behaviours of each part's own
\* specification: the tool, the browser, the outbox and the battle share no
\* variable, and a part that is not chosen rests at one of its initial states.
THEOREM EachPartFollowsItsSpec ==
  PartsSpec => BackupSpec /\ ClientSpec /\ DrainSpec /\ CombatSpec
<1>1. PartsInit => BackupInit /\ ClientInit /\ DrainInit /\ CombatInit
  BY DEF PartsInit
<1>2. [PartsNext]_partsVars => /\ [BackupNext]_backupVars
                               /\ [ClientNext]_clientVars
                               /\ [DrainNext]_drainVars
                               /\ [CombatNext]_combatVars
  BY DEF PartsNext, partsVars
<1> QED BY <1>1, <1>2, PTL DEF PartsSpec, BackupSpec, ClientSpec, DrainSpec, CombatSpec

\* Whichever part moves, the state of all four keeps its type and the limits the
\* code sets: the outbox its cap, the queues of the wire their bounds, hit points
\* their maximum.
THEOREM PartsTypeCorrect == PartsSpec => []PartsTypeOK
<1>1. BackupTypeOK /\ ClientTypeOK /\ DrainTypeOK /\ CombatTypeOK => PartsTypeOK
  BY DEF PartsTypeOK
<1> QED BY <1>1, EachPartFollowsItsSpec, BackupTypeCorrect, ClientTypeCorrect,
           DrainTypeCorrect, CombatTypeCorrect, PTL

===============================================================================
