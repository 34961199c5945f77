# A TLA+ verification of the Binary Ninja agent bridge (`bn`)

`bn` lets command-line clients and agents drive Binary Ninja.  A *bridge* - a
thread pool inside a Binary Ninja GUI, or inside a headless process that the
client spawns - listens on a Unix socket; each CLI invocation sends it one JSON
request.  Several clients may talk to one bridge at once, and loads, analyses
and rename sweeps run for minutes.  The program's own logic is therefore mostly
about concurrency and failure: who may touch the open views when, what is still
unsaved and where it was saved, who owns a socket path, whether a request ran,
what happens when something fails half-way - and, in the taint engine, whether
silence may be read as "there is no flow".

This directory models that logic, checks it with TLC and proves part of it with
TLAPS.  `PROJECT.json` maps every definition to the source lines it stands for.
Source paths below are relative to `src/src/`; a bare `bridge.py:N` or
`mutation_engine.py:N` is under `bn_agent_bridge/`.

## 1. Inventory

| Part | State | Operations | Hard behaviour | What makes it correct |
|---|---|---|---|---|
| Target lock and write gate (`_ReadWriteLock`, `_WriteGate`) | readers, writer, queues, holder records, refresh reservation | read, write, enter and exit the gate, refresh, status | phases that give up and retake locks, writer priority, `no_wait` refusals | exclusion, no lost wake-up, truthful status, nothing done before a refusal |
| Dispatch and admission (`dispatch`, `_enter_request`, `_leave_request`) | in-flight count, shutdown latch, cancelled ids | admit, run, cancel, answer | a request admitted while the bridge stops | each admitted request is answered or said to be unfinished |
| Loads (`_load_binary`) | in-flight markers, published views, quick flags | open, judge a database, analyse, publish, clean up | two loads of one file, exceptions anywhere, closes meanwhile | one load at a time per file, nothing leaked, no stale database |
| Target ledger (`TargetManager`) | stable ids, dirty markers, successor | refresh, mark, clear, forget, succeed | snapshots older than the ledger, lossy UI walks, a restart | unsaved work stays marked, ids stay unique and stable |
| Lifecycle (`start`, `stop`, reaper, `_write_registry`, detached loads) | socket and registry file, latches | start, roll back, stop, publish, idle out | bridges that follow one another on one path, kills, late workers | a serving bridge is reachable, no ghost registry, idle shutdown interrupts nothing |
| Mutation engine (`mutation_engine.py`, `create_comments.py`) | undo transaction, restores, verification rows | apply, analyse, verify, commit, revert | failures in the middle, analysis between scopes | all or nothing, or a disclosed residue and a marked view |
| Go rename (`_go_rename`) | chunks applied so far | plan, rename, cancel, roll back | a GUI user between two chunks | rollback restores what it renamed |
| Save (`_save_database`, `note_database`) | backing paths, re-homed file name | save, export, cache fallback | failures around the re-homing, a shared cache | a restart reopens the database that holds the work |
| Client transport (`bn/transport.py`) | registries, deadlines, attempts | discover, spawn, send, retry, cancel, sweep | lost answers, a re-spawn during a sweep | no request runs twice, no live bridge is swept |
| Session stop and restart (`bn/commands/admin.py`, `bn/proc_identity.py`) | the pinned process, the listing of open targets | probe, shut down, signal, wait, respawn, reload | recycled process ids, hanging bridges, other clients' changes | the right process ends, nothing unsaved is dropped unasked |
| Session pins (`bn/session_state.py`) | the sticky pin file | read, update | two updates, a crash | no lost update, no torn pin |
| Taint engine (`taint_engine.py`, `taint_result.py`) | taint sets, summaries, budgets, caveats | fixpoint, descent, backward walk, ascent | budgets, recursion, summaries cached too early | an all-clear and a completeness claim are true |
| bn-kernel (`src/skills/bn-kernel/`) | retained rows, native or CLI backend | one request per call | none of its own: sequential | rows and conditions stay consistent |
| Reads, formatters, most commands | none | queries, layout, argument parsing | none | - |

**How they interact.**  A CLI process finds or spawns a bridge (transport), sends
one request and waits; `session stop` and `restart` act on the bridge's process
instead.  At the bridge a handler thread admits the request (lifecycle), takes
the locks its operation declares (locks), resolves its selector through the
ledger (which walks the open views), and works through the engine, the loader,
the saver or the taint engine; all call back into the locks between their
phases, and into the ledger and the registry when they are done.  `stop`, the
reaper and a GUI "Restart Bridge" act on the same state from other threads, and
the GUI's user changes tabs and names without any lock.

## 2. Modules

| Module | Models | Extends or uses |
|---|---|---|
| `BridgeThreads` | the request threads | - |
| `ReadWriteLock` | `_ReadWriteLock` | `BridgeThreads` |
| `WriteGate` | `_WriteGate` | `BridgeThreads` |
| `ViewAccess` | abstract: what locking promises | - |
| `BridgeLocks` | every lock-taking operation, as a graph of phases | the two locks; refines `ViewAccess` |
| `LoadDedupe` | `_load_binary` and closes | - |
| `TargetLedger` | `TargetManager` and the requests that use it | - |
| `BridgeLifecycle` | start, stop, admission, detached loads, idle reaper | - |
| `MutationReport` | a mutation's result, its compact status and exit code | - |
| `MutationBatch` | a batch, or a standalone create | `MutationReport` |
| `GoRename` | `bn go rename` | `MutationReport` |
| `Mutations` | the two as the client and the ledger see them | both, by `INSTANCE` |
| `SaveHome` | saves, exports, the cache fallback, restart | - |
| `InstanceRegistry` | discovery, sweep, spawn; the bridge's files | - |
| `ClientRequest` | a request's delivery, retry, timeout, cancel | `InstanceRegistry` |
| `SessionStop` | `session stop`, `session restart` | - |
| `SessionPins` | the pin file | - |
| `CommandLine` | the client side of the socket as a whole | the three above |
| `TaintForward` | a forward run and its all-clear | - |
| `TaintBackward` | a backward slice and its completeness report | - |
| `Taint` | one run of either | both |
| `BridgeLocksProofs`, `LoadDedupeProofs`, `TargetLedgerProofs`, `BridgeLifecycleProofs`, `CommandLineProofs`, `SaveHomeProofs`, `MutationsProofs`, `TaintProofs` | theorems about the module of that name | that module, `TLAPS` |
| `MC...` | symmetry sets and small programs for TLC | one module each |

`Mutations`, `CommandLine` and `Taint` put together parts that one TLC run can
check at once.  In `Mutations` both parts write the shared result and mark.  In
`CommandLine` and `Taint` the parts have no state in common, a behaviour takes
one of them, and nothing is claimed about their interplay; `ClientRequest` and
`InstanceRegistry`, in contrast, are one system.

### BridgeLocks: state and actions

A thread serves one request at a time (`op`, `noWait`) and is `in` a *phase* or
between two.  `GatedPhases`, `SharedPhases`, `ExclusivePhases` and
`ReservedPhases` say what each phase holds; `Flow` says which phase may follow
which, by returning or raising.  Between phases the thread runs the lock code
step by step: `EnterGate`/`WaitedGate`/`RecordGateHolder` are the non-blocking
acquire, the blocking one, and the record (`_WriteGate.__enter__`); `LeaveGate`
and `LeftGate` the two steps of `__exit__`; `EnterShared`, `WakeShared`,
`EnterExclusive` the while-loops on the one condition variable.  A critical
section of `_condition` is one action, since nothing else can run in it.  What a
phase does to the views is reduced to open, close, publish and resolve (`Effect`).
A batch is one exclusive scope per operation, so `apply` may follow `apply`.

### LoadDedupe

`at[t]` follows `_load_binary` line by line: `check` (look for an open view, no
lock), `judge`/`existing` (the already-open door), `claim`/`wait` (marker),
`open`, `provenance`, `recheck`/`reopen` (a refused database falls back to the
raw file), `analyze`, `publish`, `register`, `cleanup`, `finish`.  `Raise` may
happen at every step inside the `try`; `CloseView` by others at any time.  A
`close()` of Binary Ninja that raises is taken to have closed the view.

### TargetLedger

`unsaved` is the truth (views with committed work in no database), `dirty` what
each manager believes, under the ids it handed out.  A bridge admits a request
(`Admit`), which then waits for its locks (`Begin`).  Every operation
starts with `refresh()` from a snapshot taken earlier (`TakeSnapshot`, then
`ApplySnapshot`); a mutation commits, resolves again and marks; a ledger change
goes to the request's own manager and then to the successor (`UpdateLedger`,
`ForwardToSuccessor`).  Three refreshes hold no lock at all: the one by which
`dispatch` binds a `go_rename`, `function_delete` or `batch_apply` without a
selector to the sole open view (`BeginUnpinned`, `Pin`, then `BeginPinned` takes
the locks), and that of `_write_registry` after a load and in `start`
(`Register`).  `Restart` is `succeed()`, after which the new bridge writes its
registry too.

### BridgeLifecycle

`socketFile` and `registryFile` say whose the two files are; `bound` is the
kernel's bind, `handle` is `_server`.  `start` is `Probe`, `Bind`, `Serve`,
`FinishStart` or `StartFails`; `stop` is seven actions from `Stop` to
`CloseServer`, any two of which may interleave with those of a second `stop`;
the teardown lock is explicit where it spans several steps.

### MutationBatch, GoRename, MutationReport

An operation of a batch is a *kind*: what an undo group takes back (`rename`,
`declare`), what only an explicit restore does (`local`, `proto`), what cannot
be cleared again (`autoProto` pins `has_user_type`), a `create` whose restore
also repairs host functions, and a `delete`.  `live`, `pinned`, `drift` and
`imported` are what is really in the view; `rows`, `result` and `marked` what is
said of it.  Each exclusive scope is one action: `BeginUndo`, `ApplyOp`,
`ApplyNoop`, `ApplyFails`, `MidAnalysis`, `RevertApplied`, `Analyze`,
`VerifyAndCommit`, `VerifyAndRevert`, `VerifyRaises`, `RevertAndRaise`,
`FinishImports`, `Mark`.  A revert is all of its steps (undo, restores, drift and
host repair), each of which may fail if `Faults` says so.  `Row`, `Restamped` and
`Summary` are the row statuses and the CLI's `ok`/`changed`/`dirty_after`.

`GoRename` takes its candidates chunk by chunk; `GuiEdit` renames or deletes a
function between any two steps and `AskCancel` may come at any time.
`RollbackStep` puts names back in the order of the code.

### SaveHome

`filename` is the live `file.filename`, `recorded` is `_database_paths`, `disk`
what each file holds, `saved` what a plain save reported as saved.  `SaveTo` is a
whole `_save_database` (re-home, write, restore the name, note, clear the
mark); a failed first write leaves `pending` and goes on in `SaveToCache` or
`CacheFails`, so that another bridge can act in between.  `Restart` reopens
`RestartPath` of every open view and forgets the old bridge's records.

### InstanceRegistry and ClientRequest

One instance id: one registry record, one socket path, up to `MaxBridges`
bridges in succession.  `ReadRecord` and `Judge` are `_load_instance` and the
liveness checks on what was read; `UnlinkRecord` and `UnlinkSocket` compare once
more and unlink; `LockOrGiveUp` to `ReturnChild` are the spawn under
`_spawn_lock` with its poll loop and the reaping of a child that did not come
up.  `ClientRequest` goes on from the resolved instance: `Connect` with the
peer check, `Transmit` (whole or part), `Receive`, timeouts at each, `SendCancel`;
on the other side `Accept`, `ReadRequest`, `RefuseRequest`, `DispatchRequest`,
`Complete` or `ObeyCancel`, `WriteReply`, `HandleCancel`.  `runs`, `effect` are
what happened and `verdict` is what the user is told.

### SessionStop and SessionPins

`Find`, `Probe`, `Pin`, `Verify`, `Shutdown`, `Terminate`, `Kill`, `WaitEnds`,
`Respawn` and `Reload` are the steps of the command; `World` is everything else:
loads, changes, saves, exits, crashes, lost sockets, and process ids that are
given to strangers.  `Addressed` is the process that a signal goes to; `hit` and
`signalled` record whom a command's shutdown request and its signals reached.
`SessionPins` is `update`: lock, read, merge, replace, unlock, with a kill
between any two.

### TaintForward and TaintBackward

A forward *frame* is an activation of `_run_forward`: it sweeps its instructions
until nothing changes or `max_iters` is reached, descends into calls with tainted
arguments (`BeginCall`, `Cached`, `Cycle`, `TooDeep`, `Descend`), and leaves a
summary (`ReturnSummary`).  A call may pass more arguments than its target has
parameters: if no tainted one is left the hand-over is told (`Unmapped`), and
beside one that is followed it may be told or not (`DropLeaves`).  `Root` follows
a pointer through as many copies as `_pointee_var` does.  All sources of a run
are followed jointly, except that the calls of a single callee each get a run
(`FirstRun`).  `NothingWithheld` and `AllClear` are
`_derive_all_clear`.  The reference is what flows with no budget, sweep, summary
or guard: `Outcome` states the flow equations for one function and one set of
tainted parameters, `Flow[n]` applies them n times to every context at once, and
`Truth` is what the source does after `Rounds` of them.  A backward frame is one
`_backward_slice`: a depth-first walk over definitions that names one ranked
origin, then an ascent into the callers when the origin is a parameter.
`SaysComplete` is `backward_diagnostics`; the reference is `DependsOn`, and
a slice is complete when what it accounts for (`Covered`) has the sink's value
and is closed under it.

## 3. Runs

| Run | Instance | Result | States, time |
|---|---|---|---|
| `BridgeLocks` | 3 threads, all 9 operations, both `no_wait` values, 3 writes, 1 view | pass | 2.2 M, 1.5 min |
| `BridgeLocksLive` | 3 threads, reads without limit, 2 of `py_exec`/`refresh`; also `AccessSpec` | pass | 0.14 M, 1 min |
| `LoadDedupe` | 3 loads, each any of 5 requests, database fresh or stale | pass | 1.3 M, 0.5 min |
| `LoadDedupeDuplicate` | 2 loads | violation | seconds |
| `TargetLedger` | 2 views, 2 requests at a time without limit, ids to 2 | pass | 4.7 M, 2.5 min |
| `TargetLedgerActive` | the same, with the `focus` event | violation | seconds |
| `BridgeLifecycle` | 2 bridges, 2 requests, 2 stops | pass | 1 M, 0.5 min |
| `Mutations` | batches of up to 3 operations of 7 kinds; or 3 functions in chunks of 2, 2 user edits | pass | 0.7 M, 0.5 min |
| `SaveHome` | 2 views of one binary, 3 changes, 2 bridges | pass | 0.7 M, 1.2 min |
| `SaveHomeStale` | 1 view, with the `inPlace` fault | violation | seconds |
| `Client` | 2 clients, 3 bridges; or 1 command, 2 bridges, 2 process ids; or 2 pin users | pass | 2.1 M, 1.3 min |
| `Taint` | every program of 2 functions over a menu; every small slice | pass | 2.6 M, 1.5 min |

**What they show.**

* `LocksInv`, `AccessSpec`: reads share the views, an exclusive phase is alone,
  one writer at a time is serialised - the abstract `ViewAccess`.
* `NoLostWakeup`, `EveryRequestAnswered`: nobody sleeps on the condition without
  a reason that still holds, and under fairness every request is answered.
* `GateHolderNamed`, `BlockedReadIsReported`: a status reply is right.
* `RefreshNeverQueuesBehindRefresh`, `RefusedBeforeWorking`,
  `SessionViewStaysOpen`: the promises of `refresh`, of `no_wait`, and of the
  gate to an analysis that holds no target lock.
* `OpenersDisjoint`, `MarkersMatchWork`, `NoStrandedWaiter`, `NothingLeaked`,
  `CleanupClosesItsOwn`, `StaleDatabaseRefused`: loads.
* `UnsavedWorkIsMarked`, `CleanViewIsNotMarked`, `IdsIdentifyViews`,
  `UnsavedIdIsStable`: the ledger.
* `ServingBridgeReachable`, `RegistryStays`, `NoGhostRegistry`,
  `IdleInterruptsNothing`, `DrainedMeansAnswered`: the lifecycle.
* `OutcomeIsHonest`, `ModifiedViewIsMarked`, `DirtyAfterIsTheMark`: after any
  combination of failures a mutation that claims to have rolled back did, what is
  left is marked, and the CLI's `dirty_after` agrees with the mark.
  (`CleanViewIsNotMarked` is the converse; `UserNamesSurvive` concerns the user
  of the GUI during a Go rename.)
* `RestartFindsTheWork`, `FallbackKeepsWork`: a restart reopens the file that
  holds what was reported as saved; a fallback overwrites nobody's work.
* `RunAtMostOnce`, `VerdictIsTrue`: no retry, successor or sweep makes a request
  run twice, and "never delivered", "refused", "done", "cancelled" hold for ever.
* `BridgesInReach`: a sweep never unlinks a live bridge's files, and a spawned
  bridge is handed over or killed.
* `ItsBridgeEnds`, `NothingLostUnasked`: a stop signals only the process of the
  bridge that it found, neither a stranger nor a successor, and has seen it end
  when it reports success; what that bridge lost was changed after it was asked,
  unless the user said to discard.
* `PinsSurvive`: pin updates are serialised.
* `AllClearIsTrue`, `CompleteRunIsExact`, `CompleteSliceIsComplete`: no budget,
  recursion or cached summary makes the taint engine claim an absence wrongly.

**Bounds, and why they are enough.**  Three threads are a holder, one that is
queued and one that overtakes or refuses, which is all that the lock code tells
apart; `WriteBudget` limits how many requests other than reads arrive (three
suffices for one of each role).  One view makes every resolve and close collide.
Three loads are an opener, a waiter and a latecomer.  Two views and two requests
exercise each pair of ledger operations, with any number of requests one after
the other; `MaxId` = 2 lets both views be numbered, or one of them twice.  Two
bridges are a predecessor and a successor, each of which may be stopped by two
stops; the five properties are proved for any number of them (section 4).
Three operations are one that is applied, one that fails and one that is never
attempted, and an undo, a restore and a drift in one batch; three functions in
chunks of two give a full chunk, a boundary and a partial one.  Two views and
three changes are one saved, one unsaved and one of another bridge.  Two clients
sweep and spawn against each other; the third bridge is one that appears while
both still hold what they read of the first two.  A session command meets the
bridge that it probed and one that took its place, on the same or another
process id; three bridges (2.9 M states) showed nothing further.  The taint menus
hold each instruction with uses that make loops, recursion and both orders of
definition; after five rounds of the reference a sixth changes nothing for any of these programs,
which TLC confirms; the budgets are one that is exhausted and one that is ample, and the
caller lists are shorter and longer than `callers`.

**Fairness.**  `FairSpec` has weak fairness of `Serve(t)`: the operating system
runs every thread that can run, and phases end.  It has none for `Arrive`: no
client is obliged to send.  Reads arrive without limit, so the run shows that
writer priority keeps them from barring a writer for ever; requests for the gate
are limited by `WriteBudget`.  A plain mutex promises no order: among endlessly many
writers one might be overtaken for ever, and nothing is claimed about that.
Only the liveness run uses fairness.

**Where deadlock is not checked.**  Loads, ledger, bridges, mutations, clients,
views and taint runs may all simply be finished; there the configuration says so.
`BridgeLocks` and the liveness run do check it.

### Assumptions that a passing run makes explicit

* `Surprises` (TargetLedger).  The code does not defend a marker against five
  events, and each alone makes TLC find an unmarked view or a changed id:
  `"focus"` (a mutation of `active` whose tab loses the focus before the second
  resolve), `"lossyMark"` (the UI cuts that second walk short; the failed resolve
  is swallowed), `"stalePin"` and `"staleRegistry"` (the refresh of
  `pin_destructive_target`, `bridge.py:1646`, or of `_write_registry` after a load
  or in `start`, 2500, applies a snapshot that is complete but older than a view which is
  open and being changed, or unsaved; neither holds a lock), `"lateView"` (a request
  of a retired bridge changes a view that the new bridge has never listed).
  Without the two stale ones the refreshes that hold no lock still happen, but
  only `OnTime`: none forgets a view in use.  The passing run has none of the
  five, `TargetLedgerActive` has the first; to see the others, put one in
  `Surprises` in `TargetLedger.cfg`.
* `Headless` (BridgeLifecycle).  The client spawns headless bridges one at a
  time, under `_spawn_lock`, and a failed start ends the process.  With
  `Headless = FALSE` (GUI processes) TLC shows that two starts on the stale path of
  a third bridge may unlink a fresh socket, and that a request which outlives a failed start may
  overwrite the successor's registry.
* `Faults` (MutationBatch).  The passing run has every fault that the code has an
  answer to.  The remaining three escape it: `"midAnalysis"`, an analysis between
  two operations that raises (`mutation_engine.py:3009`) passes the handler for a
  failed operation; `"collect"`, collecting the imports raises in
  `_finalize_import_outcome` (`mutation_engine.py:2789`); `"createRollback"`, with
  a failing undo or restore beside it, lets the rollback of a standalone create
  fail, which leaves its function in an unmarked view.
* `GoFaults`.  `"lookup"` and `"restoreRaises"`, exceptions inside the rename and
  inside its rollback, are left out: nothing rolls back the names that remain
  then, and TLC finds an error that leaves them.
  `UserNamesSurvive` leaves out a user's rename of a function that the bridge had
  already renamed: a rollback overwrites it.
* `Faults` (SaveHome).  The passing run has none of six, each of which alone makes
  a property fail: `"inPlace"`, the finding below; `"restore"`, the name of a view
  with another database on record cannot be put back (`bridge.py:3861-3865`
  argues from the case with no record); `"rehome"`, a view stays re-homed to a
  fallback that was not written; `"window"`, another bridge creates the cache
  entry between the check and the write; `"shared"`, another bridge that loaded
  an entry saves it again; `"hardLink"`, a database saved through a hard link of
  itself.
* `Undisclosed` (TaintBackward).  Two losses of the backward slice go untold, and
  `CompleteSliceIsComplete` names them as exceptions: `"returnedSource"`, a source
  whose result is returned becomes the origin directly (`taint_engine.py:8663`)
  and so hides a parameter, against the comment at 8012-8015 that the parameter
  wins and the ascent is not lost; `"skippedSite"`, `_continue_into_callers`
  (9309-9324) passes over a call site without a word when another one is
  followed.  Without them in `Undisclosed` TLC finds both.

* `Overlooked` (TaintForward).  Three losses of the forward run go untold, and
  `AllClearIsTrue` names them as exceptions: `"unliftedPointer"`, a pointer to a
  tainted buffer that an unlifted instruction reads, since the sweep asks for the
  value alone (`taint_engine.py:6343-6345`); `"longPointer"`, a pointer copied
  more than six times (550, 3001), behind which the run sees no buffer;
  `"surplusArgument"`, a tainted argument beyond the parameters recovered of the
  callee, dropped beside one that is followed when `_arg_under_recovered_leaf`
  has nothing to go by (4942-4967).  With any one of them left out TLC finds a
  false all-clear.  A fourth member, `"surplusAlone"`, excepts such arguments
  handed over alone; the run does not use it, so it checks that these are told
  (5029-5058).

### Findings

1. *A load can duplicate an open view* (`LoadDedupeDuplicate`): the open-view
   lookup happens before the marker is claimed and is not repeated.
2. *A mutation of `active` may mark the wrong view* (`TargetLedgerActive`).
3. *A save in place after a fallback is lost by the next restart*
   (`SaveHomeStale`): the record of the cache entry is not dropped when a later
   save writes the view's own database, and `session restart` reopens the older
   copy.  Six steps.

Seen with a surprise let in, and not a run of its own: with `"stalePin"`, a
destructive request without a selector forgets unsaved work of another view,
against the comment at `bridge.py:1436-1437` that a view "that is STILL open and
still unsaved keeps its marker across any number of refreshes": the refresh that
binds the request to the sole open view holds no lock, and its complete but old
snapshot prunes the marker of a view that was opened and changed meanwhile.

Behaviour that the models have and that no property judges: `BN_NO_WAIT` does not
refuse an exclusive request at the views, since `_ReadWriteLock.write` never
refuses (`bridge.py:301`, against `bn/transport.py:97-98`).  `session stop` sends
its shutdown to whichever bridge then has the id (`admin.py:1335`, 1485), so it
may end an unprobed successor, and work that is done between the listing and the
shutdown (`admin.py:1467`) goes without a word.  `instance use` reads the pins,
then updates twice (`admin.py:2075-2083`), so it may clear a newer `target use`.

## 4. Proofs

TLC checks the instances of section 3; TLAPS proves the following for every
value of the constants: any number of threads, loads, views, bridges, clients,
commands, requests and ids.  Every invariant named here as inductive was first
given to TLC as an invariant of a run.

| Module | Theorems, and the property each states |
|---|---|
| `BridgeLocksProofs` | `LocksConsistent` (`LocksInv`), `WakeupsNotLost` (`NoLostWakeup`), `WaitsReported` (`BlockedReadIsReported`), `HolderNamed` (`GateHolderNamed`), `RefreshesDoNotQueue` (`RefreshNeverQueuesBehindRefresh`), `SessionViewsStayOpen` (`SessionViewStaysOpen`), `RefusalsAreClean` (`RefusedBeforeWorking`), `LocksImplementAccess` (`AccessSpec`) |
| `LoadDedupeProofs` | `LoadsOfOneFileExclude` (`OpenersDisjoint`), `MarkersAreAccurate` (`MarkersMatchWork`), `WaitersAreServed` (`NoStrandedWaiter`), `StaleDatabaseNeverReturned` (`StaleDatabaseRefused`), `CleanupIsSafe` (`CleanupClosesItsOwn`), `NoViewIsLeaked` (`NothingLeaked`) |
| `TargetLedgerProofs` | `IdsAreUnique` (`IdsIdentifyViews`), `CleanViewsReadClean` (`CleanViewIsNotMarked`), `UnsavedIdsAreStable` (`UnsavedIdIsStable`), `UnsavedWorkStaysMarked` (`UnsavedWorkIsMarked`) |
| `BridgeLifecycleProofs` | `NoGhosts` (`NoGhostRegistry`), `TheReaperInterruptsNothing` (`IdleInterruptsNothing`), `DrainsAreHonest` (`DrainedMeansAnswered`), `ServersAreReachable` (`ServingBridgeReachable`), `RecordsStay` (`RegistryStays`) |
| `CommandLineProofs` | `RequestsRunAtMostOnce` (`RunAtMostOnce`), `VerdictsAreTrue` (`VerdictIsTrue`), `BridgesStayInReach` (`BridgesInReach`), `TheBridgeEnds` (`ItsBridgeEnds`), `WorkIsNotLostUnasked` (`NothingLostUnasked`), `PinUpdatesSurvive` (`PinsSurvive`) |
| `SaveHomeProofs` | `RestartsFindTheWork` (`RestartFindsTheWork`), `FallbackTakesNothing` (`FallbackKeepsWork`) |
| `MutationsProofs` | `MutationOutcomesAreHonest` (`OutcomeIsHonest`), `ModifiedViewsAreMarked` (`ModifiedViewIsMarked`), `CleanViewsAreNotMarked` (`CleanViewIsNotMarked`), `DirtyAfterIsTheBridgesMark` (`DirtyAfterIsTheMark`), `GoRenamesSpareUserNames` (`UserNamesSurvive`) |
| `TaintProofs` | `AllClearsAreTrue` (`AllClearIsTrue`), `CompleteSlicesAreComplete` (`CompleteSliceIsComplete`) |

All proof modules but `SaveHomeProofs` and `TaintProofs` (whose invariants are the
lemmas `SliceInvHolds` and `TaintInvHolds`) state their inductive invariant as a
theorem too (`LocksInvariant` and `RequestsInvariant`, `DedupeInvariant`,
`BaseInvariant`, `AccountInvariant` and `PathsInvariant`, `RequestInvariant`,
`SessionInvariant`, `RequestsKeepTheirBooks`); `TypeCorrect` and
`RequestTypeCorrect` are type correctness.

**Assumptions.**  Those named in the modules say that reserved values are not
members of the sets, that the sets somebody counts are finite, and that numbers
are numbers.  Beyond these, fourteen theorems have a hypothesis, the one under which
the code keeps the promise:

| Theorem | Hypothesis |
|---|---|
| `PathsInvariant`, `ServersAreReachable`, `RecordsStay` | `Headless` |
| `CleanViewsReadClean` | `"focus"` is not among the `Surprises` |
| `UnsavedIdsAreStable` | neither `"stalePin"` nor `"staleRegistry"` among the `Surprises` |
| `UnsavedWorkStaysMarked` | there are no `Surprises` |
| `RestartsFindTheWork` | none of `"restore"`, `"rehome"`, `"inPlace"`, `"hardLink"` among the `Faults` |
| `FallbackTakesNothing` | neither `"window"` nor `"shared"` among the `Faults` |
| `MutationOutcomesAreHonest` | neither `"lookup"` nor `"restoreRaises"` among the `GoFaults`; any `Faults` |
| `ModifiedViewsAreMarked` | the same, and none of `"midAnalysis"`, `"collect"`, `"createRollback"` among the `Faults` |
| `CleanViewsAreNotMarked` | `"collect"` is not among the `Faults`; any `GoFaults` |
| `DirtyAfterIsTheBridgesMark` | `"createRollback"` is not among the `Faults`; any `GoFaults` |
| `AllClearsAreTrue` | all four `Oversights` are `Overlooked` |
| `CompleteSlicesAreComplete` | `"skippedSite"` and `"returnedSource"` are the `Undisclosed` |

In each case TLC finds the property violated when a single excluded member is let
in (in the last two rows, when one that is named is not), and section 3 names the
code that lets it happen.  The one exception is `"surplusAlone"`: that such an
argument is told the run checks, but the theorem leaves it out, because
after a small number of rounds the reference may know of fewer tainted arguments than the
run has found, and take for alone what the run follows beside another.  Except for
`UnsavedWorkStaysMarked`, `ModifiedViewsAreMarked`, the first row and the last
two, the
hypotheses are weaker than what the passing runs assume: a restart, for instance,
finds the work although another bridge writes cache entries as it likes, and the
outcome of a batch is told truly under every fault, those that no handler answers
included.

**The arguments.**

*BridgeLocks.*  `TypeOK` and `LocksInv` together are inductive
(`LocksInvariant`); none of the properties is on its own.  `readers` must be
known to be the number of threads inside a shared phase, or leaving one could
make it negative; that needs `writer` to be exactly "somebody is inside an
exclusive phase", which needs `queuedWriters` and `readWaiters` to be the threads
waiting in `write()` and `read()`; and waking needs `NoLostWakeup`: whoever
sleeps has a blocking condition that is true, so the action that makes it false
has to wake all.  The gate's part says that a thread holds the gate and the
reservation exactly where its phase asks for them.  `RequestsInvariant` adds
where the plan of each request stands (`Request`): one that has changed something
or fixed its view never waits for the gate again, and a refused one has nothing
left to do.  The graphs of phases enter through one lemma (`PhaseFlow`).  The
refinement maps each action to one action of `ViewAccess` or to a stutter.

*LoadDedupe.*  `MarkersMatchWork` is inductive with `NoStrandedWaiter`, and
`OpenersDisjoint` follows: a path carries one marker.  The properties about views
need to know whose hands a view is in at each place of its load (`Hands`,
`Owned`): an open, unpublished view belongs to the load that opened it, and that
load is at a place from which it publishes or closes it.  `JudgedInv` keeps a
database that stands in for the raw file from being analysed before it was judged.

*TargetLedger.*  The ids need only `Numbering`: both the ids that are handed out
and the dirty ones are below the counter, which a successor inherits.  A refresh
applies a snapshot that is older than the ledger, so a mark survives only because
of what every *pending* snapshot still shows (`Covering`, `Covered`): whoever has one
holds a lock that keeps commits away (`Doing`), and the view that is being
changed or marked was open before any of them was taken.  Of a snapshot taken
without a lock (`Unlocked`) the hypothesis says all that is known: it is applied
`OnTime`.  `Faithful` says that a
mutation marks the view it changed, which is what a change of tab breaks.

*BridgeLifecycle.*  A bridge binds once in its life, so the latches set by its
stops are never reset, and a stop goes on only over a bridge that has latched
(`Stopping`); the teardown lock makes the stop that unlinks the one that still
found the server.  This much (`Account`) holds of every process and gives the
three properties about a bridge and its own requests.  That bridges do not take each
other's files needs that they start one at a time (`Paths`): then what a starting
bridge finds on the path is the litter of one that ended.

*ClientRequest.*  Bridges are numbered in the order in which they start, so a new
one is never one that a client still has in mind, and a dead one stays dead, so
what a client judged to be litter still is when it unlinks it.  The rest is said
of one client at a time: `Finding` is what it has in hand while it looks for a
bridge, `Asking` ties its place, what it has sent, the state of its connection,
and what the handler has done.  `Irrevocable` lists what no step of another actor takes back.

*SessionStop.*  A bridge that has ended never lives again, and one that lives
holds its process id.  So a command that sees its bridge at that id after it
pinned what was there has pinned the bridge (`Stopping`).  Whatever a bridge comes to hold
after a command asked is late for that command, so what is not late is what the
command was told (`Knowing`).

*SaveHome.*  A restart reopens `Way(v)`: the file on record or else the view's
home.  `Ways` says that no other view with saved work leads over a file that is
on record, and that a save in progress has the cache to itself; hence a write
puts into a file only the work of the view whose way ends there.  A
fallback takes nothing away because what a view has on record in the cache it
holds itself (`OwnEntries`).

*Mutations.*  What a reply says of the view is settled at one point: where the
attempt ends, by a refusal, a deletion, a revert, a commit or an error
(`Attempt`).  Up to there `Applying` says of every operation what its row admits
to: what is live is applied or the one that just failed, and an undo group that is
still open or a registered restore can take it back (`Taken`), so a revert whose
steps all succeed leaves nothing but the types it pinned (`RevertClears`).  From
there `Told` holds to the end: the import outcome only makes the reply more
cautious (`FinishIs`).  The mark is then three invariants over the same steps.
`Disclosed`: while something is left, the view is marked or the reply says one of
the things `Mark` goes by.  `Justified`: what is marked is left, or excused.
`Agreed`: a create marks before its reply is complete, a batch after it, and only a
deletion has been marked by then.  For `GoRename` one invariant (`GoInv`) follows
the names: what the rename has not applied has the name that it had, what it has
applied and verified has the new one, and what a clean rollback has passed has the
old one again, the functions of the user apart; that the next candidate exists is
the least-number principle (`LowestIs`, `HighestIs`).

*TaintForward.* What a clean activation has shown is a certificate: a function,
the parameters or sources it was given, the values that it found tainted and
whether it returns one, such that the values account for every instruction
(`Heeds`) and each target of a call that is handed taint has a certificate for
just what it has parameters for (`Passed`). Certificates may lean on each other,
so `Certified` is the union of all closed sets of them; a larger set invalidates
none, and an activation whose last sweep found nothing new can be added
(`SweptIsCertified`). The invariant `TaintInv` says that the all-clear is lost
already (`Spoiled`) or that the run is `Sound`: each frame has accounted for the
instructions before the one it is at unless something was new in this sweep, each
call key in `done` stands for certified targets or for the call in progress, each
cached summary is confirmed, and so is each source that has been run. A cap, a
cycle or an opaque target spoils, which is why the provisional summary of a cycle
does no harm. Then `Within` says that whatever flows into a function from several
tainted parameters at once flows from one of them, as every certificate for that
parameter admits (the sources of a joint run included); the flow equations keep
it (`RoundStaysWithin`), so it holds after any number of rounds. That induction
is by the least round that fails (`Rounding`), since the library's induction
theorem takes an operator; the same principle shows that `Flow` is what its
recursive definition says (`FlowByRounds`).

*TaintBackward.*  A value that a slice accounts for is settled: what it reads is
accounted for or still to be walked, a parameter is named as an origin, hidden by a
returned source, followed at every call site, or about to be (`Settled`).  The
invariant `SliceInv` says so of the values of every activation and of everything
it has found, unless the run can no longer be called complete; what an ascent has
answered at a site is in the slices that the activation found there, and they are
never dropped.  At the end nothing is to be walked, so what is covered is closed
under `DependsOn`.

*SessionPins.*  `PinsSurvive` alone is not inductive: a write replaces the file
by what was read earlier.  `PinsInv` adds that whoever stands between taking the
lock and giving it back holds it (`LockHeld`), so there is at most one such
process, and what it read is still what the file holds (`DraftIsFresh`).

**Model-checked only.**

* `EveryRequestAnswered`: liveness under fairness is out of the prover's reach.
* `CompleteRunIsExact`: that a run reports no more than flows needs the number of
  rounds after which the reference stands still, which is a fact about all
  programs by induction over data; that it reports no less is `AllClearsAreTrue`
  where nothing is reported.
* The findings: each is a counterexample.

## 5. Not modelled

* *Read operations, formatters, most commands, bn-kernel.*  Queries over Binary
  Ninja's objects, layout, argument parsing, and a sequential client: no order or
  state of their own.  They are most of the repository's 78 thousand lines, which
  is why the map covers a modest share of them; the modules go after what has
  state, order or failure.
* *Binary Ninja itself*, seen only through what the bridge asks of it.
* *Locks, loads, ledger, lifecycle.*  The peer check's file modes; GUI saves that leave
  a marker behind; times; a save re-homes the file name for a moment, which an
  unlocked path lookup can see (`LoadDedupe` leaves saves out); session
  annotations; the spelling of selectors; the binders' parameter validation.
* *Mutations.*  What an operation does, beyond how it can be taken back; the
  recovery of Go names and their collisions.
* *Saves.*  Notes in replies; two views of one cache entry that are closed one
  after the other, of which the later overwrites the earlier, are one save each
  here and neither is blamed.
* *Transport.*  The choice among several instances, framing, paging; a client
  that dies while it holds the spawn lock; a last look at a file and its unlink are
  one step; `Bind` is atomic; the drain of a stop may be cut short at any time.
* *Session stop.*  Lookup and spawn are one step each (`InstanceRegistry` has
  theirs); a bridge that is stopped by a signal is one that cannot be reached.
* *Pins.*  How commands combine pins, environment and flags:
  `bn -i b target use t` stores `t` beside a pinned instance `a`, against
  `admin.py:2076-2077`.
* *Taint.*  Instructions are moves, stores, sinks, returns, sources, calls and
  what cannot be lifted; one local buffer per function; pointer analysis is
  reduced to `Root`; calls have a result.  Library models, tokenizer state and the
  guard against Python's own recursion limit are left out, and an error inside a summary is treated like
  a callee without a body.  Backward, one named parameter stands for all terminals;
  a chain that is cut at its depth is only disclosed as an assumption
  (`taint_engine.py:8614-8617`), which `SaysComplete` does not count; the key
  that stops a second visit of an origin (7866-7871) is not modelled.

## 6. Plan

1. `CompleteRunIsExact` for runs that report sinks: certificates that carry the
   sinks of an activation, and a `Rounds` that is shown to be enough.
2. What `MutationReport` leaves to the CLI: `ok` only of a reply without a failed
   row, as lemmas about the operators.
