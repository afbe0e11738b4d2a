# Verification of the Battle v2 server

TLA+ models of the authoritative part of FantasyDraft: the Python server that
runs two-player battles over Socket.IO. The modules are translated from
`src/jjk_arena/battle_v2/` and `src/web/`; TLC checks them on small instances
and TLAPS proves the main invariants for every value of the constants.
`PROJECT.json` ties each definition to the source lines it models.

    tlc -workers 2 -config MCMatchLifecycle.cfg MCMatchLifecycle
    tlapm MatchLifecycleProofs.tla

## 1. The system

One gunicorn worker with several threads (`gunicorn.conf.py`) serves everything.
Socket.IO and HTTP handlers run on those threads; one background thread runs the
phase timers. Rooms live in memory, under one re-entrant lock per room; profiles,
mission settlements and analytics live in SQLite.

| Component | State | Operations | Correct when |
|---|---|---|---|
| Match lifecycle (`manager.py`, `timers.py`, `models.py`) | one `BattleState` per room: phase, turn, deadlines, pause, absences, strikes, counters, result | plan, cancel, confirm, end turn, surrender, expire phase, disconnect, reconnect, expire disconnects | a pause lasts exactly as long as an absence, a live room always has a wakeup, every ending is one the rules allow, no player loses time or gains it without bound |
| Player commands (`manager.py`) | receipts, transcript, progress, RNG, deferred terminal callbacks | `execute_player_command` with its envelope (nonce, revision) | a command is applied once or not at all, each change of state moves the revision by one, a match's end is announced once |
| Timer scheduler (`timer_scheduler.py`, wired in `app.py`) | deadlines, lazily deleted heap, firing mark, stopped flag | arm, cancel_if_idle, shutdown, worker loop | nothing armed is lost or left unserved, a finished or removed room is forgotten, shutdown is final |
| Combat engine (`resolver.py`, `effects.py`, `energy.py`, `targeting.py`, `conditions.py`) | fighters, statuses, energy, pending actions | validate and confirm a queue, resolve it, tick statuses | a status lasts as many turns of its clock as it was given for, what it changes lasts as long as it does, the verdict is what the board shows |
| Resume credentials (`sessions.py`, `battle_v2_sockets.py`) | tokens, reservations | issue, reserve, commit, abort, remove | one token resumes one seat once, a reconnect is granted the next token, no reservation stays behind |
| Lobbies and matches (`app.py`, `battle_v2_sockets.py`, `ops_routes.py`, `maintenance.py`) | lobby lists, code and player indexes, drain flag | start, join, leave, rematch, acknowledge, remove, prune, drain | a player is in one lobby or one match, indexes agree with rooms |
| Settlement (`runtime_store.py`, `maintenance.py`) | rows with status, claim token, lease, attempts | enqueue, claim, commit, fail, redrive | mission credit exactly once, over crashes and expired leases |
| Analytics outbox and safe stop (`runtime_store.py`, `safe_stop.py`, `ops_routes.py`) | bounded list, recorded matches, counters | record, enqueue, flush, archive, report | an empty outbox means everything is on disk, a green report is safe to stop on |
| Replay (`replay.py`) | transcript document | run, verify | re-running gives the same hashes |
| Browser client (`static/phaser/store/game-store.js`) | last revision, one pending command | begin command, receive update, reconnect | never two commands in flight, never stuck, never shows an older state |
| Backup tool (`tools/runtime_backup.py`) | files on disk | create, verify, restore | what verifies is of one release, a completion marker stands for the files it was published after |

The rest (serialization, roster data, missions catalogue, statistics tools, health
routes, presentation, prototype front end, acceptance tools) is listed in
`PROJECT.json` as not modelled, with the reason.

**How they interact.** A handler runs a command under the room's lock
(`execute_v2_player_command`), then, outside it, arms the timer and emits a view to
each player. The worker calls back into the room (`expire_phase_if_needed`,
`expire_disconnects`), then drives CPU turns and emits. A finished match is
announced through `on_match_finished`, after the transaction has committed, to the
settlement and analytics code. Cleanup takes the lifecycle lock, then the room's
lock, and refuses while a command or a callback is in flight.

**What is hard.** Disconnects of both players that overlap; deadlines that pass
between two checks of one transaction; duplicated, delayed and reordered
commands; failures after any statement of a transaction; a deadline read outside
every lock; one worker for all rooms; crashes between claim and commit of a
settlement; handlers whose last section runs after the match they serve is over;
files published one by one by a tool that can be killed in between.
`PROJECT.json` lists them one by one under `hazards`, with the properties that
cover them or the reason why none does.

## 2. Modules

| Module | What it is |
|---|---|
| `MatchContract` | what a match promises: turns alternate, only the turn player plays, results are final |
| `MatchLifecycle` | one room, with all its timers, pauses and counters; refines `MatchContract` |
| `MCMatchLifecycle` | its instance for TLC |
| `MatchAudit` | `MatchLifecycle` with an observer that has a clock of its own |
| `MatchLifecycleProofs` | TLAPS proofs about `MatchLifecycle` and `MatchAudit` |
| `CommandContract` | what versioned commands promise: each applied at most once, at its revision, the end announced once |
| `CommandTransaction` | the transaction statement by statement; refines `CommandContract` |
| `MCCommandTransaction` | its instance for TLC, nonces symmetric |
| `CommandTransactionProofs` | TLAPS proofs about `CommandTransaction` |
| `TimerScheduler` | handler threads, the worker and the rooms' deadlines |
| `TimerSchedulerProofs` | TLAPS proofs about `TimerScheduler` |
| `SettlementContract` | what settlement promises: owed credit is entered once, in the step in which it stops being owed |
| `Settlement` | snapshots, the outbox and its concurrent drains; refines `SettlementContract` |
| `MCSettlement` | its instances for TLC |
| `SettlementProofs` | TLAPS proofs about `Settlement` |
| `ResumeSessions` | the resume credentials, one operator per critical section |
| `Lobby` | handlers, lobbies, matches and the indexes between them; builds on `ResumeSessions` |
| `MCLobby` | its instance for TLC, players, codes and threads symmetric |
| `LobbyProofs` | TLAPS proofs about `Lobby` |
| `Backup` | the backup tool, its files, and what can interrupt it |
| `ClientStore` | the browser's store of a battle, the network and the handlers that feed it |
| `ClientStoreProofs` | TLAPS proofs about `ClientStore` |
| `DrainGate` | the analytics outbox, the hooks that drain it, and the report before a stop |
| `Combat` | the rules of a turn, over skills and statuses given as constants |
| `MCCombat` | a catalogue of skills, statuses and line-ups for TLC |
| `CombatProofs` | TLAPS proofs about `Combat` |
| `MCParts` | `Backup`, `ClientStore`, `DrainGate` and `MCCombat` in one run |
| `PartsProofs` | TLAPS proofs about `Backup`, `DrainGate` and `MCParts` |

`MatchLifecycle`, `CommandTransaction` and `TimerScheduler` look at the same room at
three grains. The first has one action per operation under the room's lock. The
second opens the lock for one operation and keeps of the room only what a rollback
must restore. The third keeps of each room only its next deadline and whether it
is played, paused, deserted, ended or removed, and opens everything that happens
outside the lock.

`Settlement` follows a finished match out of the room into SQLite, where nothing but
transactions orders what happens. `DrainGate` follows it into analytics and replays.
`Lobby` stands above the rooms: for it a match is its members, whether it is live and
who is away. `Combat` is what `MatchLifecycle` leaves open, the board of one turn.
`ClientStore` is the other end of the socket, and `Backup` works on what is on disk when
the server is down.

Operators named `Bug...` are deliberate mistakes: each property is shown to fail
when the definition named in `mutants` is replaced by one of them.

### MatchLifecycle

The variables are the fields of `BattleState` by their own names; `result` bundles
`result_type`, `winner_id` and `finish_reason`. One action per operation of
`BattleV2Manager`, each reading the clock once: `SubmitPlan` (also `update_queue`),
`CancelQueue`, `ConfirmQueue`, `EndTurn` (also the end of a CPU turn), `Surrender`,
`ExpirePhase`, `DisconnectPlayer`, `ReconnectPlayer`, `ExpireDisconnects`.
`CompleteTurn` is `finish_turn`, `check_winner`, the rules of
`_complete_player_turn` in their order, and the re-arming of the phase. The clock
counts ticks and durations are rounded to seconds where the code rounds them, up
in `phase_seconds_remaining` and down in `int()`, because the properties about time
depend on it. The board is abstracted: which players survive a turn, whether it
made progress and who leads on fighters, hit points and damage are chosen freely.

`MatchAudit` adds what the room does not know: how long a player has really been
away, how long a turn has really been open. It assumes a punctual scheduler, one
that does not let the clock pass a deadline whose expiry changes the room.

### CommandTransaction

`Begin` takes the room's lock, makes the first expiry check, answers retries from
the receipts and compares revisions; `Mutate`, `AdvanceRevision`,
`AppendTranscript` and `Commit` are the statements that follow. `Rollback` can
follow any of them, because the payload, the hash, the transcript and the
receipt can each raise. The clock is not stopped by the lock:
`DeadlinePasses` can occur between any two steps, and the command's own expiry
check and the serialization of its answer (`NestedExpiry`) then complete somebody's
turn inside the transaction. The network is not a variable: any envelope may
arrive at any time, any number of times.

### TimerScheduler

Each action is one critical section of the scheduler's condition, or one read
outside it. `arm` is therefore two steps, `ReadDeadline` and `InstallDeadline`; the
worker's round is `Pop`, `MarkFiring`, `Expire`, `RereadDeadline`, `Rearm`,
`EndFiring`. `reconnect_player` is two steps as well, because `_timer_deadline` takes
no room lock and can see the room between them. Simplifications, each with its
reason:

- The heap is a set of (deadline, room): two equal entries behave as one, because
  after the first is popped the other is outdated. Equal deadlines of two rooms may
  be served in any order; the code serves them first come, first served, and the one
  property for which this matters excludes ties.
- The worker's callback also arms the room after a CPU turn. The re-arm that ends
  every round follows it, so it is left out.
- `RemoveRoom` is one step although the code takes several: the room's lock and the
  scheduler's checks keep others from acting on the room in between, and the
  unlocked read of a deadline gives the same values before or after.
- A callback that raises after its change behaves like one that does not: the round
  goes on to the re-arm. One that raises before it changes anything is not modelled.
- Of a deserted room (both players away) only the earlier grace deadline is kept; the
  later one comes at some moment up to `MaxClock`.

### Settlement

Each action is one SQLite transaction or one step of a handler between two. `Claim` is
`_claim_next_mission_settlement`, with the reset of expired leases that comes first;
`CommitMerge` is `_commit_profile_mission_settlement` with
`merge_first_creation_profile_snapshot`; `FailClaim` gives a row back or puts it aside.
A drain, one running call of `process_mission_settlements`, is `idle`, about to claim,
merging, or reporting a failure. Between any two of its steps its lease may run
out, another drain may take its row, the operator may redrive it, or the process may
die; a crash loses rooms, markers and drains, and nothing that was committed.

On the side of the room, `Snapshot` is what the terminal hook and cleanup do under the
room's lock; `FindMissing` and `Reconstruct` are the two halves of
`reconstruct_terminal_mission_snapshots`, which takes no lock. `CleanupOvertakes` says
whether a room may be removed between them. Simplifications:

- The matches of a player do not overlap, so `time.time()` is reduced to the order of
  starts and finishes. Leases and delays are countdowns. That claims are made in the
  order of due time is kept for rows that are not yet due (`force_due`); among those that
  are due any may be taken, which is more than the code does.
- The claim token is the drain that drew it, because a drain holds one claim at a time.
- Each claim chooses anew whether it is for one player or for all and whether it ignores
  the backoff; a call of the code decides once.
- A drain ends when it finds nothing to claim; the limit of 100 rows is not reached.
- After a drain has returned, the code also marks what it settled as snapshotted. Those
  rows are durable already, so the mark only spares a second look. It is left out.
- A team chosen in a lobby that never starts a match is left out.

### ResumeSessions and Lobby

`hash` and `reservation` are the two dictionaries of `BattleSessionRegistry`; tokens of a
seat are numbered, because only their order matters. `Lobby` has the module state of
`app.py` under shorter names: `lobby` is `v2_pvp_lobbies`, `waiting` is
`waiting_code_by_player`, `active` is `active_match_by_player`, `byCode` is
`active_by_code`, `codeOf` and `rematchOf` are `lobby_code_by_match` and
`rematch_by_old_match`, `accepting` is `accepting_new_matches`.

What a handler does under `lifecycle_lock` is one action, with everything the section
does: `JoinWaits`, `JoinMatched`, `JoinRefused` and `JoinRefusedLate` are the four ways
`join_pvp` can end, and all begin with the pruning of the indexes. What it does before
or after, outside the lock, is a step of its own, kept in `job`: a resume is
`ResumeReserve`, `ResumeReconnect`, `ResumeCommit` (or `ResumeAbort`) and `ResumeBind`;
a disconnect is `DisconnectLobby` and `DisconnectMatch`; a new match is made under the
lock and its credentials are granted after it (`Grant`), but for a rematch, which does
both under the lock. The sweep of lobbies (`SweepLobby`, `SweepIndex`) takes no lock at
all. Two history variables name the players for whom an overtaken step has broken an index:
`overbound` (findings, 6) and `unlisted` (8). The properties hold for everybody else.
Simplifications:

- What `ResumeReconnect` calls may raise before or after the reconnect has taken effect, and the
  reservation is then given back. The handler catches three types of exceptions; any other
  type would leave the reservation behind, and is left out.
- A code holds one waiting player, because a second one starts the match.
- Roster modes, teams and names are not kept; that they can refuse a match is
  `JoinRefusedLate`.
- A player's socket may be bound to any match he was in, when the index names none.
- `RemoveRoom` is taken whenever the room exists: its time to live, and what must
  not be in flight, belong to `TimerScheduler`, `Settlement` and `DrainGate`.

### DrainGate

Recording a finished match writes its events one by one and falls back on the in-memory
outbox; at its cap the oldest entry is dropped and counted. A flush swaps the list out and
works on its own copy, next to the recorders and to other flushes; `inflight` is the one
counter `_outbox_inflight`, to which each flush adds what it took and from which it takes the
same number, `pending`, in the end. Only events that are
found in the database count as recorded, and a room goes only once its events and its
replay do; the report of `runtime_status` reads the rooms first, under the lifecycle lock,
and the outbox after it. One player's result stands for the results of all.

### ClientStore

`store` is the part of `GameStore` the protocol depends on; `server` is what the handlers
show this player. A message of the player is taken by a handler thread at any time and in any
order. A broadcast is two steps, as in `emit_battle_v2_update`: `Serialize` under the room's
lock and `Emit` outside it, so that snapshots overtake each other and one of an older
revision can come last. Disconnecting and reconnecting pause a match without a new revision.
A connection that breaks loses any of what is on the wire; the server notices later.
`retired` is the bounded list of matches left: at `MaxRetired` (8 in the code) the oldest is
forgotten. Three marks name the cases in which the properties do not hold. `crossed`
and `dropped`: a command's own answer does not release it, because an error of another request
did (the error is compared with the command in flight by kind, revision and match), or because
the rate limit swallowed it. `strayed`: the matches the store turned away from without
leaving them (findings, 12).
A turn that ends, of either side, may end the match; a grace that runs out ends it without a new
revision (`Forfeit`). Three fields of `server` serve the properties only: `made` is the phase the
revision began with, `heard` the newest revision that some broadcast follows, and `foreign` the
newest that no command of the store's present connection made. `heard` can stay behind: when the phase timer
ends a turn and the CPU's own command is then refused, `handle_battle_v2_timeout` raises before
it broadcasts. When the CPU is refused inside a handler of the player's, he gets
an error for a command that was applied, and a broadcast.
`QuietViewIsLatest` therefore claims a revision no older than `heard`, and turn and phase of the
revision the match is at. It does not claim whether the match is paused, and allows `made` for
the phase: two snapshots of one revision, before and after a pause or a forfeit, can arrive in
either order, and the store keeps the one that came last (findings, 13).

### Backup

An invocation is one run of the tool; its steps are the statements that touch a path others
can see, and the private copies in between. A file is the release of the source it copies and
the invocation that linked it, which is what the hashes and the identity (`st_dev`,
`st_ino`) of the code tell apart. Any step may raise, after which what was installed is taken
back in reverse order; the process may die; a power loss also undoes links that no directory
fsync has covered. `stuck` says that some removal of a rollback did not take effect
(findings, 9). The worker is stopped by the operator: the tool takes a flag for it, and the
model takes the operator at his word.

### Combat

`battle` is one record, because a turn runs under the room's lock and is one step: a queue is
checked and paid as a whole (`MayQueue`), its actions are resolved one after the other on the
board the earlier ones left (`Resolve`), and the turn is cleaned up, judged and followed by the
next player's energy (`Concluded`). Skills and statuses are data in the code and constants here
(`Skill`, `Kind`): `MCCombat` gives a catalogue modelled on the roster, scaled to four hit
points, and seven line-ups that bring its mechanisms together: stacks and replacements,
poison, stuns, counters and melee punishments, redirection, guards that answer, an awakening,
scouts with their filters and rewards, one-shots, statuses used up by damage or by one skill,
exposures, drains, removal, cleansing, prices, conditions on the board. Reflections, anti-domain and
sure hits, statuses that ignore stuns or change healing, and conditions on what a recipient bore
when the action began are in `Combat` and in no line-up: only `CombatProofs` covers them.
Clocks and side effects are the code's, including what it does not do: a status consumed by a
counter, a redirection or a retaliation leaves without its side effects being undone. A status
that is used up by its identity in the code (the one-shots that were there before the skill) is told by
its id, source and turn here (`Mark`). What this leaves unsafe in general
is safe with the roster's data, and the module says which data:

- `KindAssumption`: the statuses the engine gives by itself (an awakening, the guard after an
  expiry, the answer of a retaliation or a melee punishment, an exposure, a scout's reward) neither
  redirect nor replace, and all but the awakening are no one-shots.
- `SkillAssumption`: only a status that has an end is extended, only one that stacks is spent, and
  a whole team is not made to redirect.
- `ReplacementAssumption`: no two statuses replace the same slot; a status that replaces is
  not one of those used up beside the others (scout, one-shot, counter, reflection,
  redirection); and one that does not stack is all that the very skill it replaces does, so that it
  cannot be applied twice.

`starter_roster.py` keeps to them (its only replacements are the curse stock and Rika's curse,
lines 1097 and 1116), and so does `MCCombat`, where TLC evaluates them. Without the last one a
replaced skill could outlast its status, or be lost while it lasts. Left out are energy
colours and the mechanisms listed under 6. The code has one skill for each caster in a queue;
`MaxQueue` bounds it from above, and with two casters a side in `MCCombat` two is all there can be.

`MCParts` lets the first state choose which of the four parts moves. They share no state, so
that one run asks each of them what a run of its own would.

## 3. Runs

| Run | Bounds | What it shows |
|---|---|---|
| `lifecycle` | 2 ticks a second, planning 1 s, grace 2 s, budget 3 s, minimum resume 1 s, strikes 2 in a row or 3, 6 turns, 3 without progress, clock to 9 | types; a pause is exactly an absence; a live room always has a wakeup; every ending is backed by the ledger; a lapsed player never comes back; the room implements `MatchContract` |
| `audit` | planning 2 s, 3 turns, 2 without progress, 2 disconnects, clock to 22 | no turn cut short, none stretched by more than the resume minimum for each drop, no absence forfeit unearned, every match ends |
| `audit-budget` | 3 disconnects | violation: see finding 1 |
| `commands` | 3 nonces, 2 receipts a player, 4 revisions, 2 timers | revision, transcript and receipts agree at every moment; the transaction implements `CommandContract` |
| `stale-command` | 2 nonces, 1 receipt | violation: see finding 2 |
| `scheduler` | 2 rooms, 1 handler thread, 2 changes, clock to 2 | types; the heap covers the deadlines; what is armed is served; ended rooms are forgotten; shutdown is final |
| `lost-wakeup` | 1 room, 1 thread, 2 changes, clock to 3 | violation: see finding 3 |
| `worker-spin` | 2 rooms, 1 thread, 2 changes, clock to 3 | violation: see finding 4 |
| `settlement` | 1 player, 2 matches with the same mission, 2 drains, lease 1, delay to 2, 2 faults, no cleanup over a handler without its lock | types; the profile is what the settled rows say, in whatever order they settle; cleanup leaves everything durable; each credit is entered once; durable credit is entered in the end |
| `lobby` | 2 players, 2 codes, 2 handler threads, 2 matches, 2 tokens a seat; the second thread only resumes while the first is in the middle of something | types; the index names every live match of every player; nobody plays two; who waits can be found; reservations are held; a reconnect is granted the next token |
| `parts` | backup: 2 invocations, 2 bundles, 2 releases, one decayed file (before the second release), no failed removal. Client: 2 matches, 2 revisions, 2 connections, 2 messages on the wire, 1 match left remembered; the opponent is away at one revision, while the player's first connection lasts. Drain: 2 matches, 2 flushes, outbox of 1. Combat: 7 line-ups of 2 or 3 characters, 7 turns (5 with three characters), queues of 1 or 2 skills (all that two casters can queue) | what verifies is of one release; a completion marker stands for its files; a store never races its own commands, its locked controls are always about to be answered, and with nothing on the way it shows the latest turn that was broadcast; an empty outbox and a green report mean everything is on disk; verdict and board agree; statuses and replacements last as long as they should |
| `settlement-overtaken` | 1 match, 1 drain, no faults, such a cleanup | violation: see finding 5 |

**Why the bounds are enough.** The limits of the real system enter the rules only
through comparisons, so the small values keep every order of events: a grace (2 s)
longer than a planning phase, a budget (3 s) that one absence does not exhaust and
two do, a run of strikes (2) below their total (3), a no-progress limit below the
turn cap. With two ticks a second, fractions of a second occur. Each bound is reached
in the runs: the caps end matches, the receipt ledger evicts, the clock outlasts both
graces. In `audit` the clock is long enough for three turns, each with its share of
two absences. In `commands` three nonces against a ledger of two show a retry after
its receipt is gone. In `scheduler` one handler thread and the worker give two
concurrent arms of one room, and the second room shows that nothing done to one
disturbs the other. In `settlement` two matches suffice for every order of settling
against finishing, and two drains for a claim that is lost to another. Two faults
of any kind combine: a lease that runs out and a crash of the drain that took over, a
storage error and a redrive. The second match is malformed, so that a row is put aside,
redriven too early or repaired. In `lobby` two players are enough for a lobby, a match, a
rematch and a match against the CPU of each; the second match is the newer one that a late
step of the first disturbs, and two threads give a resume beside any other handler and two
resumes with one token. That more players, codes or matches change nothing is what
`LobbyProofs` adds: all six properties are proved for any number of them. In `parts`, an outbox of
one overflows with the first two failures; two bundles and two invocations give a backup
beside a restore, two restores at once and a name used again after a rollback; two connections
and two messages give a resume, a stale command of a broken connection and two snapshots in
the wrong order; that `strayed` covers every exception beyond two matches is what `ClientStoreProofs` adds. Seven turns outlast
every status and cooldown of the catalogue; in the five that three characters play, each of their
statuses is put on.

**Deadlock.** A finished room answers every operation (`AnswerFinished`, `Done`), so
those models do not stop and TLC checks deadlock. In `Settlement` a drain that finds
nothing remains able to look again. The scheduler does stop: after
a shutdown, with the clock at its bound and the rooms removed, nothing is left to
do; its configurations switch the check off. `lobby` and `parts` stop at their bounds (matches and
tokens used up, all invocations done, the battle over), and switch it off too.

**Fairness.** `MatchAudit`: time passes and the worker runs what is due (weak
fairness of `Tick`, `ExpirePhase`, `ExpireDisconnects`); nothing is assumed of the
players. `TimerScheduler`: the worker thread, once it can step, steps; a handler
finishes the arm it has begun, because it holds no lock and waits for none for
long; time passes. Both are what the operating system's threads give. `PromptSpec`
leaves out the passage of time, to ask what the worker serves before more of it has
passed. `Settlement`: time passes, a drain goes on with the row it holds, and
maintenance claims for everybody, which the server does as long as anybody uses it
(`prune_stale_runtime` runs on socket activity); storage errors, crashes and leases
that run out on a drain still at work are bounded by `MaxFaults`, for a drain that is always
slower than its lease settles nothing. Nothing makes a handler store a snapshot: credit is
promised from the moment the row is durable. The fairness of the expiries in `MatchAudit`
is what the scheduler is there to provide; findings 3 and 4 are the two ways in which it
does not, or not in time.

## 4. Findings

1. **A lapsed absence is charged more than once** (`manager.py:1463`). While one
   absentee has lapsed and the other is still in grace, the match goes on, and every
   pass of `expire_disconnects` adds the same absence to the budget again. The
   match can then end as `disconnect_budget` for a player who has not used the
   budget. Run `audit-budget`.
2. **A stale command can run** (`manager.py:1230`). The revision is compared before
   the command's own expiry check; a deadline that passes in between moves the
   revision and the turn, and the command runs on a state its envelope does not name,
   if its sender is the player now to move. Run `stale-command`.
3. **A wakeup can be lost** (`timer_scheduler.py:69`). A re-arm that reads the deadline
   halfway through `reconnect_player` sees none; if it is installed after the handler's
   own arm, it cancels it. The room then sleeps until a player acts. Run `lost-wakeup`.
4. **The worker spins on a half-deserted room** (`manager.py:1470`). With one absentee
   lapsed and the other in grace, the pass leaves the lapsed deadline in place and the
   re-arm installs it again, overdue and earliest. For as long as the second grace
   lasts, up to 90 seconds, the worker fires and broadcasts this room in a loop, and
   no room with a later deadline is served. Run `worker-spin`.
5. **Cleanup can turn durable credit into none** (`maintenance.py:91`). After a snapshot
   has failed, profile reads, updates and maintenance look for what is missing without
   the room's lock. If cleanup, which retries too, stores the snapshot and removes the
   room after such a handler has found it missing, the handler reads the progress of a
   room the manager no longer knows, gets none, and stores an empty snapshot over the
   one that is pending (`runtime_store.py:395`). The row is then settled without a
   mission. Run `settlement-overtaken`; the run `settlement` excludes this one interleaving.

The next ones were met while modelling and have no run of their own. For 6, 8, 9 and 13 a
property of a passing run names the exception and fails without it; 12 is named by the three
properties of `ClientStore`, and was found on an instance larger than the run's.

6. **A late resume can overwrite the index** (`battle_v2_sockets.py:522`). The last section of
   `on_battle_v2_resume` binds the player to the room of the credential whatever the index
   says by then. If that match has ended meanwhile and the player has begun another, the index
   names a finished match, and the player can start a second live one.
   `docs/battle_v2_socket_contract.md:150-152` says the binding is there to prevent this.
   `overbound` in `Lobby`.
7. **The token is rotated after the reconnect** (`battle_v2_sockets.py:495-515`), reserved before
   it; `docs/battle_v2_socket_contract.md:146-149` says it is consumed before.
8. **The sweep of lobbies takes no lock** (`maintenance.py:262`). A player who joins the code
   again between its two steps loses his index entry, and a disconnect leaves him in the lobby.
   The bind of a resume does the same to a player who is waiting. `unlisted` in `Lobby`.
9. **A rollback passes over a failed removal** (`runtime_backup.py:637`). The completion marker can
   then remain without its database, although the comment at 615-617 says what its
   presence means. `stuck` in `Backup`.
10. **Retried events do not keep their order** (`runtime_store.py:949`), because what was enqueued
    during the flush is ahead of them.
11. **Panda's emergency form has no damage bonus** (`starter_roster.py:1248`): its status has
    another id than the one the bonus asks for.
12. **The store can turn away from its match** (`game-store.js:818`). After a surrender every update
    is ignored until the next start. If a start that was sent twice has begun a newer match
    meanwhile, its updates are swallowed. And only revisions of one match are compared: a late
    snapshot of an older match that is not retired, because it was never shown or is
    forgotten, takes the place of the one shown. The store then accepts the revisions of a
    match that is no longer the player's; a command sent from there is judged by the revision
    of the match he is in, and no update of that one need release it. `strayed` in
    `ClientStore`.
13. **A forfeit can go unseen** (`game-store.js:831`, `manager.py:1466`). A forfeit by absence finishes the match
    without a new revision, and the store ignores only older revisions. A snapshot serialized
    before the forfeit and emitted after its broadcast leaves the store with a live phase; the
    separate event `battle_v2_finished` only shows a notice. The player's next command is refused
    and brings the right snapshot. A pause can go unseen in the same way. `QuietViewIsLatest`
    claims the phase as it is or as the revision began (`made`).

## 5. Proofs

Assumed: `ConstantsAssumption` of each module (the two seats differ, limits are
positive, sentinels are no values), `NoTxnAssumption` of `CommandTransaction` (the
sentinel is no transaction), `DrainAssumption` (the outbox has a cap, and the threads that can
flush are finitely many), `BackupAssumption` (the database path is no bundle, the sentinel
no link, the worker writes at least one release), `ClientAssumption` (the bounds are
naturals, there is a connection and room for a retired match, the sentinels are no values) and,
for `Combat`, `CombatAssumption` (a line-up has both sides, and nobody twice) and the three about
data described there. Nothing else; TLC evaluates them in the runs.

**`MatchLifecycleProofs`** proves for every value of the timers, limits and budgets:

- `TypeCorrect`. `TypeOK` is not inductive: charging an absence needs the drop to lie in
  the past. The invariant is `TypeInv`, `TypeOK` with `DropsInThePast`.
- `PauseCorrect` and `WakeupCorrect`. `RoomFacts` joins `PauseMatchesAbsence`,
  `LiveRoomHasWakeup` and `DeadlineBounds` (how far ahead each deadline lies); none
  is inductive alone, because a resume takes its deadline from what the
  pause saved, and the pause from the deadline that was.
- `EndingsJustified`. Over `RoomInv`, `ResultJustified` is inductive: the counters that
  justify an ending stand still once the match is finished, and the lapsed stay lapsed
  because the clock only advances. It includes the order of the rules as far as the counters show
  it: nobody has struck out when points decide, and the cap on turns goes before the other.
- `NoRecovery`, an action property, from the same invariant: a reconnect needs a deadline
  that is still ahead.
- `RoomImplementsContract`. The initial state maps to the contract's, and each action to
  one of its actions or a stutter. Pauses, deadlines and strikes are stutters.

Of the observer of `MatchAudit`, for every value of the same constants:

- `TurnNeverCutShort` and `TurnAlwaysBounded`. `TurnInv` bounds what a turn has had and what
  the room still grants it from both sides, while it runs and while it is paused: each drop
  adds at most `Drift`, the least resume time and the second lost to rounding, and it keeps
  room for the least resume time of the pause in progress. A resume rounds up, so nothing is
  ever taken away. `StepShape` sorts the steps into those that end a turn, those that end the
  match, and those that leave a turn open, so that each is treated once.
- `ForfeitAlwaysEarned`. `AwayInv` compares what the room has charged a player with what he was
  away: a present player no less than the charge, an absent one that and the time since his
  drop, a lapsed one the whole grace or the whole budget. `GraceCovers` is the arithmetic of
  `disconnect_player`: the grace it grants is what one of the two limits leaves.

Both rest on the observer's punctual scheduler, as the runs do.

**`TimerSchedulerProofs`** proves for any number of rooms and threads:

- `TypeCorrect`, with `RoomsNamed` (a thread or worker in the middle of an arm has a
  room). The heap never holds a `None`.
- `HeapSound`: `HeapCoversDeadlines`, the soundness of lazy deletion. The step that matters
  is `Pop`: what it drops is the entry taken, whose deadline goes too, and entries that
  no longer say what their room is scheduled for.

**`CommandTransactionProofs`** proves for any number of nonces, any cap on receipts and
any bound on revisions. The argument follows the room as others may know it: the live
one between transactions, the copy taken by `Begin` inside one.

- `CommandTypeCorrect`, with `CopyIsLedger`: a rollback puts back a ledger within its cap
  because the transaction has not touched the ledger before its last statement.
- `RevisionAlwaysCounts` and `ReceiptsAlwaysMatch`. The invariant is `IInv`: `SettledOK`
  says that the room others know, its transcript and the ledgers agree; `OpenOK` says what
  an open transaction has added to its copy at each statement: timeouts, then its own entry,
  the revision one ahead of the transcript only at `"record"`, a pending announcement
  exactly when the live room is over. `Older` (an executed envelope names a revision
  below its position in the transcript) is what makes a second execution impossible,
  also after the receipt has been dropped at the cap.
- `RoomImplementsContract`. `Commit` is the contract's `Apply`, a timeout between
  transactions its `Continue`, a lapsed grace its `Abandon`; every statement before the last
  one, and `Rollback`, are stutters.

**`SettlementProofs`** proves for any finite number of players, and any number of missions, drains
and matches:

- `RemovedAlwaysDurable`, overtaken handlers or not. The invariant is `Stored`: what is
  ticked off as snapshotted has a row (`TickedIsStored`), and a match that has not begun has
  none (`InOrder`). No step deletes a row, so a removed room leaves its rows behind.
- `ProfileAlwaysLedger`. `Balanced` says of each player what the profile and the events
  owe to the set of settled rows alone, so the order of merges, failures and redrives does
  not matter. It rests on `OnlyTerminal`, within `Stored`: with no handler overtaken, only full
  progress is ever stored or merged.
- `OutboxImplementsContract`. A first snapshot is the contract's step that makes credit owed, a
  merge that finds its row still unsettled the one that enters it; claims, lapsed leases,
  failures, redrives, crashes and a second merge of a row already settled are stutters.

- `SettlementTypeCorrect`. `Typed`, with `Limits`: due times and leases stay within theirs, a row has
  a holder exactly while it is processed. `DelayInLimits` bounds the backoff, which the code
  caps at eight doublings, so that no induction over the power is needed.

The second and the third assume `~CleanupOvertakes`. Without it they are false: finding 5 and the
run `settlement-overtaken` show how.

**`LobbyProofs`** proves for any number of players, codes, threads, matches and tokens:

- `LobbyTypeCorrect`, with `JobsNamed`: a handler in the middle of something has the match, player
  or code that its next step reads.
- `LiveMatchIndexed` and `OneLiveMatchEach`. `LiveMatchIsIndexed` is inductive over the types
  and says more: with one index entry for each player, two live matches of one player cannot
  both be named. The step that matters is the making of a match, which must find every
  member's entry free of another live one.
- `LobbyEntriesListed`, inductive over the types: every step that takes an index entry away
  takes the lobby entry with it, or is one of the two that add to `unlisted`.
- `ReconnectIsGranted` and `ReservationHasHolder`. A resume's reservation is its own: no two
  threads hold one of the same seat, and only a removal of the room takes it away.

**`ClientStoreProofs`** proves for any number of matches, revisions, connections, messages
and retired matches:

- `ClientTypeCorrect`, the types of what is on the wire included.
- `QuietViewAlwaysLatest`, `PendingAlwaysAnswered` and `StaleAlwaysOvertaken`, from one invariant.
  `ViewsFaithful`: every snapshot, shown or on its way, is of a match and revision that has
  been, and two of one revision agree in turn, and in phase but for an end by forfeit. `Followed`: while the server broadcasts to
  the store, and the store has not turned away from the match, it shows a revision no older than the last one broadcast or
  a snapshot of it is on its way. `InFlight` and `Answered`: the command in flight is of the
  revision shown; it, its error, or the server's being past it is on the way. `Racing`: what the
  store's own commands, errors and updates say about the revision agrees with who made it, so
  that a stale one names somebody else. `Watched` says which matches the store can have turned away
  from; without it a late snapshot could undo the others.
- The three were at first stated without `strayed`, and held within the bounds of the run.
  The induction failed at `ReceiveUpdate`, and a larger instance gave the behaviours of finding 12.

**`CombatProofs`** proves for every catalogue that keeps to the assumptions, any line-ups, queues
of any length and any number of turns:

- `CombatTypeCorrect`, `VerdictAlwaysMatchesBoard` and `StatusesAreAlwaysTrue`, from one invariant,
  `CombatInvariant`: the board between two turns is a member of `Boards` over the fighters
  `Rests(line, t)`, and its verdict is what `CheckWinner` says of it (`Judged`).
- A fighter is a member of `Fighters(m, c, u, z)`: hit points within their limits, none exactly when
  dead; every status `OnTime`; at most one of each status that replaces (`Single`); replaced
  slots `Backed`. `OnTime` relates what a status has left to the turns of its clock that
  have passed since it was applied (`Elapsed`), where u is the first turn whose end it has yet to
  see, and z tells a turn being played from one being cleaned up, in which a status may stand at
  zero until it is taken away.
- Everything in a turn is a fold: over the queue, an action's effects, an effect's recipients, the
  statuses of a fighter, the members of the line-up. The prover has no induction over sequences. A
  fold is therefore unrolled as a table over the prefixes of its sequence (`FoldTable`),
  and that a step keeps a set makes the last entry a member (`UpTo`, from the well-foundedness of
  the naturals). Each fold of `Combat` has its lemma, so that nothing is said about folds in general.
- While a turn is played every step keeps `Play(line, t, p)`, and the proof follows the code
  from what a status does (`Put`, `Drop`, `Spent`) over what an action does (`Affect`, `Carry`, `Resolve`)
  to the queue. While it is cleaned up the members before the one at hand are of the next
  turn and those after it of this one (`Stage`): the step that matters is `Ticked`, which ages what
  `Expired` and `Poisoned` have left and takes the replacements of what has ended.
- A replacement that does not stack needs the most care. Two of one status would
  leave the slot to the first that ends. The status is applied by the skill it replaces, which is
  out of reach while it lasts (`Free`, `Exclusive`); a reflected, redirected or repeated action
  cannot apply it, because the skill has no effect on anybody else.

**`PartsProofs`** proves of `DrainGate`, for any number of matches and flushes, and any cap:

- `DrainTypeCorrect`, with `Counted`: the counter of entries in flight is the number of pairs
  of a flush and a place in the list it swapped out. Counted as the size of that set it goes up
  and down with the flushes, and is zero only when no flush holds anything.
- `EmptyOutboxAlwaysDurable`. `NothingLost` says where each event of a finished match is: with
  its recorder, in the outbox, in the batch of some flush or in the database, unless one was
  ever dropped. With `Counted`, an empty report leaves the first and the last.
- `GreenReportAlwaysSafe`. `HandedOff`: what counts as recorded, and every room that is gone,
  has its events (and its replay) on disk, dropped entries or not. `ReportStands`: a green report
  finds no live room and nothing pending, and under drain none can come back.

Of `Backup` it proves, for any number of invocations, bundles and releases:

- `BackupTypeCorrect`. The order of the links is part of the types: `Linking` says which parts a
  publication has linked and which it has yet to link.
- `VerifiedAlwaysOneRelease`. `Copied`: the two private copies are of one release, because no
  release is written while an invocation copies; what a mark records is such a copy.
- `MarkerAlwaysRestored`. A link in the environment belongs to the invocation that made it and
  is removed by no other (`Keeps`, `OwnsOnly`). The case that needs more is a second restore that
  found the environment clear before the first one linked: it fails on the database, but a
  sidecar that survived a power loss alone would be in its way, so `SideWithDatabase` says that
  no restore runs next to one. `Completed`: a power loss finds the data of a marker synced.
  All but `Keeps` hold only until a removal has failed (`stuck`), as the property does.

Of `MCParts` it proves that its behaviours are, seen from each of the four parts, behaviours
of that part (`EachPartFollowsItsSpec`), and with the four theorems on types
`PartsTypeCorrect`.

Only model-checked: liveness (`MatchEnds`, `ArmedIsServed`, `EndedIsForgotten`,
`ShutdownIsFinal`, `OwedIsSettled`), which is out of the prover's reach. Every invariant and every
other action property that a run checks is a theorem.

## 6. Not modelled, and the plan

Left out of modelled components, because it needs detail that no property here tells apart:

- *Combat*: colours of energy; effects that gain, drain or steal energy or health; the punishments
  of domain stuns; targets chosen by condition; defenses given to allies; statuses that block
  targets or classes; modifiers of the next skill and cooldown increases; reveals; conditions on the
  original target or another scope (`condition_original_*`, `condition_scope`), on a status that is
  missing, on hit points, on stacks and on what an ally did; the status `damaged_last_turn` that a hit leaves
  (`resolver.py:669`), which only one skill's bonus reads; scouts that earn another amount of energy or
  only for a new skill; the progress ledger of `damage_accounting.py`. Of an effect's damage bonuses
  the one for a status of the target is kept, not those for statuses of the caster, missing hit points
  or an execution; a status's `damage_bonus` is part of its `output`.
- *Client*: cancelling a queue and converting energy, which go through `beginCommand` like the
  commands that are modelled; the lobby view; local storage; rendering.
- *Drain*: the counters of commands and callbacks in flight, so that the gap between `Pop` and
  `MarkFiring`, in which the worker looks idle to a safe stop, is not checked; the pruning of
  old rows; the marker in `mission_snapshot_retry_rooms` that a late failure can leave behind
  for a room that is gone.
- *Settlement*: the generic handler path (no caller in the server), the restore of the legacy
  sidecar file, the pruning of settled rows after 30 days.
- *CPU turns*: the loop that drives them. It sends one command more after a draw, and loses a turn
  to a pause that comes between its read and its command; neither breaks a room. What the player's
  browser gets of it is in `ClientStore`.
- *Replay*: re-running a document compares hashes of whole states, which the models abstract.

Left out for good: text and layout of views, static data, search heuristics of the CPU player,
statistics, presentation, and the acceptance tools.

What remains to be proved is liveness, in a prover that has it; what remains to be checked are the
hazards of `PROJECT.json` that name no property, with the reason there.
