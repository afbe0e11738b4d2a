------------------------------- MODULE Backup -------------------------------
(***************************************************************************)
(* The offline backup tool (tools/runtime_backup.py): `backup` copies the  *)
(* database of a stopped worker and its settlement sidecar into a bundle   *)
(* directory, `restore` copies a bundle back into a new environment.  Both *)
(* stage private copies, publish them by linking one path at a time and    *)
(* never over an existing one, publish the mark that says "complete" (the  *)
(* manifest of a bundle, the completion marker of a restore) last, and     *)
(* take back what they installed when a step raises.                       *)
(*                                                                         *)
(* An invocation is one run of the tool.  Any of its steps may raise, the  *)
(* process may die between two steps, the machine may lose power, and      *)
(* other invocations work on the same paths at the same time.  What a file *)
(* holds is the number of the release of the source it is a copy of; its   *)
(* identity is the invocation that linked it.                              *)
(***************************************************************************)
EXTENDS Naturals, Sequences, SequencesExt, FiniteSets

CONSTANTS Invocation,      \* runs of the tool, each used once
          Bundle,          \* backup directories
          Environment,     \* the one database path restored to
          Earlier,         \* the invocations that had finished before
          NoFile, NoBundle,
          MaxRelease       \* bound on the releases the worker writes

Place   == Bundle \cup {Environment}
Part    == {"db", "side", "mark"}
Release == 1 .. MaxRelease
Damaged == 0

Snapshot == [db : Release, side : 0 .. MaxRelease]

\* A link: the invocation that made it and what the file holds.
Link == [by : Invocation \cup {Earlier}, holds : Snapshot \cup (0 .. MaxRelease)]

ASSUME BackupAssumption ==
    /\ Environment \notin Bundle /\ NoBundle \notin Bundle
    /\ NoFile \notin Invocation \cup {Earlier} /\ Earlier \notin Invocation
    /\ NoFile \notin Link
    /\ MaxRelease \in Nat \ {0}

VARIABLES source,     \* the runtime database and its sidecar (0: none)
          worker,     \* the authoritative worker: "running" or "stopped"
          claimed,    \* bundle -> the invocation whose mkdir made it
          files,      \* place -> part -> what is linked there
          volatile,   \* the links no directory fsync has covered yet
          run,        \* invocation -> where it stands
          stuck       \* some removal of a rollback did not take effect

backupVars == <<source, worker, claimed, files, volatile, run, stuck>>

NoSnapshot == [db |-> 0, side |-> 0]
Holds(s, part) == IF part = "mark" THEN s ELSE s[part]

\* The parts a snapshot is published as, before its mark.
DataParts(s) == IF s.side = 0 THEN <<"db">> ELSE <<"db", "side">>

Fresh == [pc |-> "idle", place |-> NoBundle, from |-> NoBundle,
          seen |-> NoSnapshot, todo |-> <<>>, installed |-> <<>>]

\* What a complete publication leaves at a place.
Complete(p, s) ==
    [part \in Part |-> IF part = "side" /\ s.side = 0 THEN NoFile
                       ELSE [by |-> p, holds |-> Holds(s, part)]]

Unused == [part \in Part |-> NoFile]

\* Some bundles were taken before, of the first release.
BackupInit ==
    /\ source \in {[db |-> 1, side |-> x] : x \in {0, 1}}
    /\ worker = "running"
    /\ \E taken \in SUBSET Bundle :
          /\ claimed = [b \in Bundle |-> IF b \in taken THEN Earlier ELSE NoFile]
          /\ \E past \in [taken -> {[db |-> 1, side |-> x] : x \in {0, 1}}] :
                files = [q \in Place |-> IF q \in taken THEN Complete(Earlier, past[q])
                                         ELSE Unused]
    /\ volatile = {}
    /\ run = [p \in Invocation |-> Fresh]
    /\ stuck = FALSE

Exists(q, part) == files[q][part] # NoFile
Clear(q) == \A part \in Part : ~Exists(q, part)

\* The invocation goes on to pc, or raises into its except clause.
Proceed(p, ok, next) ==
    run' = [run EXCEPT ![p] = IF ok THEN next ELSE [@ EXCEPT !.pc = "undo"]]

BugSyncedNothing(q) == volatile

Synced(q) == {v \in volatile : v[1] # q}

-----------------------------------------------------------------------------
(* The worker the operator must stop before a backup.                      *)

Creating(p) == run[p].pc \in {"stage_db", "stage_side", "claim"}

StopWorker ==
    /\ worker = "running"
    /\ worker' = "stopped"
    /\ UNCHANGED <<source, claimed, files, volatile, run, stuck>>

StartWorker ==
    /\ worker = "stopped"
    /\ \A p \in Invocation : ~Creating(p)
    /\ worker' = "running"
    /\ UNCHANGED <<source, claimed, files, volatile, run, stuck>>

WorkerWrites(side) ==
    /\ worker = "running"
    /\ source.db < MaxRelease
    /\ source' = [db |-> source.db + 1, side |-> side * (source.db + 1)]
    /\ UNCHANGED <<worker, claimed, files, volatile, run, stuck>>

-----------------------------------------------------------------------------
(* backup                                                                  *)

BugNotQuiesced == TRUE

Quiesced == worker = "stopped"

BeginBackup(p, b) ==
    /\ run[p].pc = "idle"
    /\ Quiesced
    /\ claimed[b] = NoFile
    /\ run' = [run EXCEPT ![p] = [Fresh EXCEPT !.pc = "stage_db", !.place = b]]
    /\ UNCHANGED <<source, worker, claimed, files, volatile, stuck>>

\* The counts compared before and after do not tell releases apart that only
\* updated rows: the copy is of whatever the source holds at this step.
StageDatabase(p) ==
    /\ run[p].pc = "stage_db"
    /\ run' = [run EXCEPT ![p].pc = "stage_side", ![p].seen.db = source.db]
    /\ UNCHANGED <<source, worker, claimed, files, volatile, stuck>>

StageSidecar(p) ==
    /\ run[p].pc = "stage_side"
    /\ run' = [run EXCEPT ![p].pc = "claim", ![p].seen.side = source.side]
    /\ UNCHANGED <<source, worker, claimed, files, volatile, stuck>>

\* An exclusive mkdir of the destination.
Claim(p) ==
    /\ run[p].pc = "claim"
    /\ LET b == run[p].place IN
       /\ Proceed(p, claimed[b] = NoFile,
                  [run[p] EXCEPT !.pc = "install", !.todo = DataParts(run[p].seen)])
       /\ claimed' = [claimed EXCEPT ![b] = IF @ = NoFile THEN p ELSE @]
    /\ UNCHANGED <<source, worker, files, volatile, stuck>>

-----------------------------------------------------------------------------
(* Publication, by backup and restore alike: link the next staged file     *)
(* where nothing is, or raise.                                             *)

Install(p) ==
    /\ run[p].pc = "install"
    /\ run[p].todo # <<>>
    /\ LET q == run[p].place
           part == Head(run[p].todo)
           free == ~Exists(q, part)
       IN /\ Proceed(p, free, [run[p] EXCEPT !.todo = Tail(@), !.installed = Append(@, part)])
          /\ files' = [files EXCEPT ![q][part] =
                IF free THEN [by |-> p, holds |-> Holds(run[p].seen, part)] ELSE @]
          /\ volatile' = IF free THEN volatile \cup {<<q, part>>} ELSE volatile
    /\ UNCHANGED <<source, worker, claimed, stuck>>

\* The links of the data are made durable before the mark is linked.
SyncData(p) ==
    /\ run[p].pc = "install"
    /\ run[p].todo = <<>> /\ ~Contains(run[p].installed, "mark")
    /\ run' = [run EXCEPT ![p] = IF @.place = Environment
                                 THEN [@ EXCEPT !.pc = "check"]
                                 ELSE [@ EXCEPT !.todo = <<"mark">>]]
    /\ volatile' = Synced(run[p].place)
    /\ UNCHANGED <<source, worker, claimed, files, stuck>>

Finish(p) ==
    /\ run[p].pc = "install"
    /\ run[p].todo = <<>> /\ Contains(run[p].installed, "mark")
    /\ run' = [run EXCEPT ![p].pc = "done"]
    /\ volatile' = Synced(run[p].place)
    /\ UNCHANGED <<source, worker, claimed, files, stuck>>

-----------------------------------------------------------------------------
(* restore                                                                 *)

\* verify_runtime_backup: the manifest, both hashes, and no file too many.
Verified(b) ==
    /\ Exists(b, "mark") /\ Exists(b, "db")
    /\ LET m == files[b]["mark"].holds IN
       /\ files[b]["db"].holds = m.db
       /\ IF m.side = 0 THEN ~Exists(b, "side")
          ELSE Exists(b, "side") /\ files[b]["side"].holds = m.side

BeginRestore(p, b) ==
    /\ run[p].pc = "idle"
    /\ Verified(b)
    /\ Clear(Environment)
    /\ run' = [run EXCEPT ![p] = [Fresh EXCEPT !.pc = "copy", !.place = Environment,
                 !.from = b, !.seen = files[b]["mark"].holds,
                 !.todo = DataParts(files[b]["mark"].holds)]]
    /\ UNCHANGED <<source, worker, claimed, files, volatile, stuck>>

\* Each private copy is compared with the manifest read before.
CopyFromBundle(p) ==
    /\ run[p].pc = "copy"
    /\ run[p].todo # <<>>
    /\ LET b == run[p].from
           part == Head(run[p].todo)
       IN Proceed(p, Exists(b, part) /\ files[b][part].holds = run[p].seen[part],
                  [run[p] EXCEPT !.todo = Tail(@)])
    /\ UNCHANGED <<source, worker, claimed, files, volatile, stuck>>

\* The paths are looked at once more before the first link.
Recheck(p) ==
    /\ run[p].pc = "copy"
    /\ run[p].todo = <<>>
    /\ Proceed(p, Clear(Environment),
               [run[p] EXCEPT !.pc = "install", !.todo = DataParts(run[p].seen)])
    /\ UNCHANGED <<source, worker, claimed, files, volatile, stuck>>

\* What is installed is read back before the marker is published.
CheckInstalled(p) ==
    /\ run[p].pc = "check"
    /\ Proceed(p, \A part \in ToSet(DataParts(run[p].seen)) :
                      Exists(Environment, part)
                      /\ files[Environment][part].holds = run[p].seen[part],
               [run[p] EXCEPT !.pc = "install", !.todo = <<"mark">>])
    /\ UNCHANGED <<source, worker, claimed, files, volatile, stuck>>

-----------------------------------------------------------------------------
(* Failures.                                                               *)

Active(p) == run[p].pc \notin {"idle", "done", "failed", "dead"}

\* Any step of the try block may raise instead (a full disk, a lost mount).
Raise(p) ==
    /\ Active(p) /\ run[p].pc # "undo"
    /\ run' = [run EXCEPT ![p].pc = "undo"]
    /\ UNCHANGED <<source, worker, claimed, files, volatile, stuck>>

Unlinked(q, part, p) ==
    [files EXCEPT ![q][part] = IF @ # NoFile /\ @.by = p THEN NoFile ELSE @]

\* The except clause: the newest link first, and only while the path still is
\* the file this invocation linked; a removal that fails is passed over.
UndoLink(p, removed) ==
    /\ run[p].pc = "undo"
    /\ run[p].installed # <<>>
    /\ LET q == run[p].place
           part == Last(run[p].installed)
       IN /\ files' = IF removed THEN Unlinked(q, part, p) ELSE files
          /\ volatile' = IF removed THEN volatile \ {<<q, part>>} ELSE volatile
    /\ run' = [run EXCEPT ![p].installed = Front(@)]
    /\ stuck' = (stuck \/ ~removed)
    /\ UNCHANGED <<source, worker, claimed>>

\* A bundle directory goes when it is empty and this invocation's; the parent
\* is fsynced whatever happened.
UndoDirectory(p) ==
    /\ run[p].pc = "undo"
    /\ run[p].installed = <<>>
    /\ LET q == run[p].place IN
       /\ claimed' = [b \in Bundle |-> IF b = q /\ claimed[b] = p /\ Clear(b)
                                       THEN NoFile ELSE claimed[b]]
       /\ volatile' = IF q = Environment THEN Synced(q) ELSE volatile
    /\ run' = [run EXCEPT ![p].pc = "failed"]
    /\ UNCHANGED <<source, worker, files, stuck>>

Die(p) ==
    /\ Active(p)
    /\ run' = [run EXCEPT ![p].pc = "dead"]
    /\ UNCHANGED <<source, worker, claimed, files, volatile, stuck>>

\* Every invocation dies and any of the links no fsync covered are gone; a
\* removal under way may come back, so nothing is claimed after one.
PowerLoss(lost) ==
    /\ \E p \in Invocation : Active(p)
    /\ lost \subseteq volatile
    /\ files' = [q \in Place |-> [part \in Part |->
                    IF <<q, part>> \in lost THEN NoFile ELSE files[q][part]]]
    /\ volatile' = {}
    /\ stuck' = (stuck \/ \E p \in Invocation : run[p].pc = "undo")
    /\ run' = [p \in Invocation |-> IF Active(p) THEN [run[p] EXCEPT !.pc = "dead"] ELSE run[p]]
    /\ UNCHANGED <<source, worker, claimed>>

\* A published copy decays on the medium.
Decay(b, part) ==
    /\ Exists(b, part) /\ files[b][part].holds # Damaged
    /\ files' = [files EXCEPT ![b][part].holds = Damaged]
    /\ UNCHANGED <<source, worker, claimed, volatile, run, stuck>>

BackupNext ==
    \/ StopWorker \/ StartWorker
    \/ \E side \in {0, 1} : WorkerWrites(side)
    \/ \E p \in Invocation :
          \/ \E b \in Bundle : BeginBackup(p, b) \/ BeginRestore(p, b)
          \/ StageDatabase(p) \/ StageSidecar(p) \/ Claim(p)
          \/ Install(p) \/ SyncData(p) \/ Finish(p)
          \/ CopyFromBundle(p) \/ Recheck(p) \/ CheckInstalled(p)
          \/ Raise(p) \/ Die(p) \/ UndoDirectory(p)
          \/ \E removed \in BOOLEAN : UndoLink(p, removed)
    \/ \E lost \in SUBSET volatile : PowerLoss(lost)
    \/ \E b \in Bundle, part \in {"db", "side"} : Decay(b, part)

BackupSpec == BackupInit /\ [][BackupNext]_backupVars

-----------------------------------------------------------------------------
Content(part) ==
    IF part = "mark" THEN Snapshot ELSE 0 .. MaxRelease

FileType(part) == {NoFile} \cup [by : Invocation \cup {Earlier}, holds : Content(part)]

RunType ==
    [pc : {"idle", "stage_db", "stage_side", "claim", "copy", "install", "check",
           "undo", "done", "failed", "dead"},
     place : Place \cup {NoBundle}, from : Bundle \cup {NoBundle},
     seen : [db : 0 .. MaxRelease, side : 0 .. MaxRelease],
     todo : Seq(Part), installed : Seq(Part)]

BackupTypeOK ==
    /\ source \in Snapshot
    /\ worker \in {"running", "stopped"}
    /\ claimed \in [Bundle -> Invocation \cup {Earlier, NoFile}]
    /\ \A q \in Place, part \in Part : files[q][part] \in FileType(part)
    /\ volatile \subseteq Place \X Part
    /\ run \in [Invocation -> RunType]
    /\ stuck \in BOOLEAN

\* A bundle that passes verification holds a database and a sidecar of one
\* release of the source, whatever was interrupted, taken back or begun again
\* under the same name, and whatever decayed since.
VerifiedIsOneRelease ==
    \A b \in Bundle : Verified(b) =>
        LET m == files[b]["mark"].holds IN m.side \in {0, m.db}

\* A restore's completion marker stands for exactly the files its bundle
\* recorded, of the same invocation, also after a power loss and next to a
\* second restore that is taken back; unless a rollback could not remove a file.
MarkerIsRestored ==
    ~stuck /\ Exists(Environment, "mark") =>
        LET m == files[Environment]["mark"]
        IN \A part \in {"db", "side"} :
              files[Environment][part] =
                 IF part = "side" /\ m.holds.side = 0 THEN NoFile
                 ELSE [by |-> m.by, holds |-> m.holds[part]]

=============================================================================
