# Verification of dsh-3rd-cli-monitor

The program observes runs of a third-party coding CLI (ZCode in v1) from the
files its wrapper leaves behind, and materialises each run as a snapshot
(`status.json`) and a history (`events.jsonl`) below a state root. Several
monitor processes may share the state root: the DSH host plugin, a standalone
`watch`, one-shot CLI commands. Nothing but the file system connects them.

This directory holds TLA+ models of the parts in which order, failure and time
matter, the TLC configurations that check them, and TLAPS proofs of the main
results. Paths below are relative to the repository.

## The system

| Component | Keeps | Operations | Hard because |
|---|---|---|---|
| Run lock (`src/storage/run-lock.mjs`) | `.monitor-lock` per run: token, expiry | acquire, release | create and write are two calls, takeover is read-then-unlink by path, leases run out, holders die |
| Monitor service (`src/application/monitor-service.mjs`) | nothing but `status.json` and `events.jsonl` | poll pass, heartbeat pass | observes before it locks; two files written one after the other; other processes do the same |
| File run store (`src/storage/file-run-store.mjs`) | `status.json`, two generations of events | writeStatus, loadStatus, appendEvents, rotation, readEvents | rotation is three calls; readers take no lock; torn tails |
| Scheduler (`src/scheduling/interval-scheduler.mjs`) | timers, a `stopped` flag per cadence | every, stop, stopAll | asynchronous ticks; stop from inside a tick |
| ZCode adapter (`src/adapters/zcode/adapter.mjs`, `report-parser.mjs`) | nothing | discoverRuns | the wrapper writes between any two reads; a file that cannot be looked at counts as not there; orphan timeout against a late report |
| ZCode log scanners (`rollout-scanner.mjs`, `session-log-scanner.mjs`) | nothing | scan | files shared by all sessions grow during the scan, and any call on them may fail; bounds on files, bytes, sessions |
| Domain model (`src/domain/model.mjs`) | nothing | snapshots, events, fingerprints | the decisions of a pass compare fingerprints |
| Atomic write (`src/storage/atomic-write.mjs`) | a temporary file per write | atomicWriteFileSync | five calls that may each fail, a rename that is refused and tried again, crashes between them |
| Active CLI selection (`src/application/active-cli.mjs`) | `active-cli.json` | get, set | several processes with different adapters read and replace one file without a lock |
| Host plugin (`src/host/plugin.mjs`, `typert-remote.mjs`) | what the host keeps for it: effects, a manifest | apply, mount, disposal | an asynchronous mount races the disposal; the host may refuse any effect |
| Queries, registry, config, compose, redaction, command line | nothing durable | see `PROJECT.json` | see "What is not modelled" |

How they interact: the scheduler starts a pass of the monitor service; the
service asks the adapter for observations of all runs, then, run by run, takes
the run lock, loads the last status, decides, writes the status, appends an
event and releases. All of a pass is synchronous, so one process interleaves
with others only, at every system call. The CLI that a pass looks at is the one
that active-cli.json names at its beginning. In the host, apply() makes a
scheduler of its own, polls once, starts the two cadences of the service on that
scheduler and hands the function that stops them to the host, which calls it when it
disposes of the plugin.

What makes each part correct, in a sentence: the lock admits one monitor to a run unless
it says otherwise, and never blocks for ever; the history ends in the state the status
shows, is a path, and both tell the truth about the wrapper's report, which they reach
in the end; rotation loses old events only, and readers see them in order without holes;
a cadence never overlaps itself, never leaks a timer, and is silent once stopped; the
observations of an adapter that can read its files follow the order of states the
monitor relies on; what a scan counts was there, and a session is attributed only when
it is alone; a file that is replaced is always whole, its temporary files do not pile
up, and the CLI that was selected is the one observed; a plugin that is gone polls no
more and leaves no manifest.

## The modules

```
AdvisoryLock  <-- implements --  RunLock  <-- EXTENDS --  LockedMonitor
     ^                                                        |
     | INSTANCE Lock                             INSTANCE Pass|
     +-------- MonitorRun  <----------------------------------+
                |     | implements
                |     v
                |  RunRecord            ZcodeAdapter
                |     | EXTENDS              | EXTENDS
                +-----+---->  RunModel  <----+

IntervalScheduler      AtomicRegister  <-- implements --  AtomicFile
     ^                                                        ^
     | INSTANCE Sched                                         | EXTENDS
HostPlugin             EventLog      RolloutScan      ActiveCli <-- MCActiveCli
```

`XProofs` extends module `X` and holds the theorems about it: RunLockProofs
(which extends LockedMonitor, and so RunLock), MonitorRunProofs,
IntervalSchedulerProofs, ZcodeAdapterProofs, EventLogProofs, ActiveCliProofs,
HostPluginProofs, RolloutScanProofs.

**AdvisoryLock** is the abstract lock: `holders`, and a flag `compromised`
after which exclusion is no longer promised.

**RunLock** is the lock file, one action per system call. The file is the pair
`(owner, expiresAt)`; `Unwritten` is the empty file between `openSync(path,
'wx')` and `writeSync`. `sampled[m]` is the clock as acquire() read it, once.
`Begin`, `CreateFile`/`CreateExists`, `WriteInfo`, `HolderLive`/`HolderStale`,
`TakeOver`/`TakeOverGone` are acquire() in order, `ReleaseRead` and
`ReleaseUnlink` release(). `IOError` and `Crash` are the failures of each call, and
`ReadError` and `ReleaseReadError` those of `_read()`, which answers null to any error:
the lock then looks stale whoever holds it, and release() leaves its own lock behind.
The token is not modelled as data: the module's comment says why the name of
the creator identifies a file. The history variable `rash` records that a
takeover was decided of a lock that was not a dead monitor's, or that another
monitor was taking over as well. The clock is one, and never goes back.

**MonitorRun** is `_processRun` over one run, with the observation of
`pollOnce`/`heartbeatOnce` before it. `artifact` is what the adapter would derive now,
`next[m]` the observation in the hands of monitor `m`: `Observe` takes the artifact as
it is, `ObserveError` what the adapter takes it for when it cannot look at a file
(`MistakenFor`). `Merge`, `Writes` and `EventFor` are the pure part of a pass; `Load`,
`WriteStatus`, `AppendEvent` and `Release` its file operations; `LoadError`,
`WriteError`, `AppendError` and `Crash` their failures. Where a pass ends its local
variables are forgotten (`Forget`), and so they are when it dies. The lock is an
instance of AdvisoryLock, so what RunLock promises is exactly what MonitorRun assumes. A
snapshot is its state, its session and one `detail` that stands for the other fields of
the fingerprint; `observedAt` is left out, for no decision reads it. Of the history only
the state in which it ends for a reader is kept, and whether the file ends in the middle
of a line (`torn`): an append that fails, or whose process dies, may leave a part of its
line, to which the next line is glued where no reader finds it. EventLog has the lines.
`lost` records that the state status.json shows has no event. writeStatus is one atomic
step: that is what AtomicFile implements. `Enter`, `Leave` and `Die` are `Acquire`,
`Release` and `Crash` without the lock.

**RunRecord** is what the passes promise to those who read a run: its status is
replaced (`Show`) only when no event is due, a new state makes one due, and the
event comes (`Tell`) or is lost (`Lose`) before the status moves on; so the history
is at most one event behind. After `Break` the order is anybody's (`Race`), but a
verdict is still the report's. It is the abstract specification of MonitorRun.

**LockedMonitor** puts the two halves of `_processRun` together: the passes of
MonitorRun over the lock file of RunLock, call by call, instead of over the promise
AdvisoryLock. `pc[m]` is where `m` is in the lock, `step[m]` where it is in its
pass. `CallAcquire`, `GoOnAcquire`, `AcquireFails` and `AcquireReturns` are the call
of acquire() (a Begin, the calls within, a return of null or an exception, a return
of a handle), `ProcessRun` the try block, `CallRelease` and `FinishRelease` the
finally block; a process dies in both at once (`CrashBoth`). It has no run of its
own: its smallest interesting instance has more than ten million states (2 monitors, a clock
to 1, one fault of each kind), and adds nothing to what is proved of it for every
instance. In the first ten million TLC finds no violation of the two refinements and of
ownership.

**RunModel** has the state vocabulary, the order `Successors` in which the states
of a run are observed, and `MistakenFor`, what an observation that cannot look at a
file may show instead. MonitorRun assumes the order of its artifacts; ZcodeAdapter
shows it of the observations in which no access fails.

**IntervalScheduler** is `every`, its two closures, its stop function and
`stopAll`, over the event loop of one process. `armed[c]` counts the timers the
event loop holds, `timers` is `this._timers`; `told[c]` records whether stop() of
the cadence or stopAll() was called, and whether stopAll() found it between two ticks
(`cleared`). Durations are left out: an armed timer may fire.

**EventLog** is `appendEvents`, `_rotate` and `readEvents`. Appends are
numbered; a file is the set of the appends readable in it. The cap is counted
in lines. A write may stop anywhere (`AppendTorn`), and the next line is then
glued to the torn tail. A write that lost nothing but its newline is counted as
unreadable, which only weakens what is claimed. Writers may overlap, for the
lock can be compromised; `overlap` records it and the properties say when they
depend on it.

**ZcodeAdapter** is one observation after the other of one run directory: `Observe`
samples the clock, `Look` is existsSync, then `ParseReport`, or `StatLogs` and
`Conclude`. The wrapper and the CLI write logs and report in between. Each access may
fail: `LookError` (a report that is there seems not to be, and the run is observed
live), `ParseError` (the report is as good as torn) and `StatError` (a log counts as not
written). `seen` is the state of the last snapshot, `sure` that of the last one that was
made without a failed access. The age of the run is the time, for the run starts at 0.

**RolloutScan** is `scan` of the rollout scanner: the listing of the directory (`Begin`,
`BeginError`), then file by file in the order of the names (`Unlisted`, `PassOver`,
`StatError`, `SkipLarge`, or `Stat` and then `ReadFile` or `ReadError`; `Truncate` at
the bound), then the session log narrowed to the sessions found (`ReadLog`, `LogError`),
while any session appends. Between `Stat` and `ReadFile` the file may grow. A file is
looked into when it was written since the window began (`Fresh`, its mtime), be it by
the line of an older request. A file is a bag of lines, each of one of four kinds. A
rollout file holds the lines of the session its name carries.

**AtomicRegister** is the promise of an atomic write: the file holds a whole value,
a write takes effect at one moment or not at all, and a writer that is told of a
failure knows that it did not.

**AtomicFile** is `atomicWriteFileSync`, one action per system call: `CreateTemp`
and `FillTemp` are the open and the write of writeFileSync, `Rename`,
`RenameBusy`, `RenameRefused` and `RenameError` the ways one round of the loop may
end, `UnlinkTemp` the cleanup. `temp[p]` is the temporary file of the write that
is under way, `litter` the number of those nobody will remove. It has no
specification of its own; its caller says what is written and when.

**ActiveCli** is that caller: `Get` and `GetError` are get(), `Set` and the
`Write` steps set() up to the `Return` of the get() at its end, or a `Throw`. A
content of the file is an id or `Unreadable`. The registry of each process is a
constant, so the processes may be of different versions. **MCActiveCli** gives the
registries of the instance that is checked.

**HostPlugin** composes the scheduler with its use: `StartCadences` and
`StopCadences` act on the variables of IntervalScheduler, whose `Fire`,
`ReturnPromise` and `Settle` are the ticks. `Effect` is ctx.effect() of the host,
which keeps the cleanup or not; `Mount` and `MountError` are the rest of
mountTypertRemote() after its import; `Dispose` is the host running the cleanups
it keeps. Each application of the plugin is a member of `Plugins`, with a scheduler of its
own; the variables of IntervalScheduler hold the cadences of all of them, for they
share the event loop, and the operation that goes through the timers of one
scheduler, stopAll(), is never called by the plugin. That a scope
that was disposed of runs no cleanup it is given later is an assumption about the
host, whose code is not here.

Operators whose names begin with `Mut` are bugs the definition after them could
have. No specification uses them; they serve to show that the properties can
fail.

## The runs

| Run | Bounds | Shows |
|---|---|---|
| `lock` | 2 monitors, lease 2, clock to 3, 2 faults | type; a monitor that created its file owns the path until it removes it, unless a takeover was rash; RunLock implements AdvisoryLock; an expired or empty lock of a dead monitor is taken over |
| `lock_contention` | 2 monitors, no faults, clock still | **violated**: mutual exclusion |
| `monitor` | 2 monitors, 1 fault, 3 artifact states, 1 session, 1 detail, lock may break | history and status agree; verdicts are true; the history is a path; sessions are sticky; the verdict is shown in the end and for good |
| `monitor_reopened` | 2 monitors, no faults, perfect lock | **violated**: a terminal state never changes |
| `scheduler` | 3 cadences | no overlap, no stray timer, silence after stop, and after a stopAll between two ticks, ticking for ever as long as nobody calls either |
| `scheduler_stopall` | 1 cadence | **violated**: stopAll cancels everything |
| `event_log` | 2 writers, 1 reader, cap 2, 6 appends, 2 faults | the last `Cap` readable events survive; reads are ordered and without gaps; growth is bounded; a torn tail costs at most two events |
| `zcode` | orphan age 3, freshness 1, clock to 5, 2 faults | states observed without a failed access follow `Successors`; a verdict is the report's; a run without a report is closed in the end |
| `rollout` | 3 sessions, 2 files per scan, 2 lines per file, 3 lines, 2 calls, 1 fault | counts lie between what was there at the beginning and at the end; a session is attributed only when alone; the calls counted for it are its own |
| `rollout_ambiguous` | 2 sessions, 1 line per file | **violated**: ambiguity is seen |
| `active_cli` | 2 processes with 2 adapters each, one of them in common, 2 retries, 2 faults | AtomicFile implements AtomicRegister; temporary files take faults; answers have an adapter; set() returns its own selection; the last selection takes effect |
| `plugin` | 2 applications of the plugin | a plugin that was disposed of is quiet; its manifest goes with it; the cadences of a live one go on |

Why the bounds are enough to be interesting. Two monitors suffice for every
race the lock has: each involves one holder and one contender, and the third
party of a double takeover is a dead monitor that restarts. The clock of `lock`
passes the first expiry. Two faults allow a crash inside a takeover of a
crashed lock. `monitor` has an open state, a terminal state that is not final
(orphaned) and a verdict. In `zcode` two faults
allow an observation with two failed accesses, and two bad observations in a row, or
one between good ones. In `active_cli` the default of each process is `zcode`,
which only one of them has an adapter for, so each kind of fallback happens; two
retries make a refusal that is the last and one that is not. In `plugin` the second
application may begin while the first is live, in a tick of it, or gone.
In `event_log` six appends at cap two rotate twice. In
`rollout` the third session exceeds the files of a scan, and a file may exceed
its bytes. The proofs below do not depend on any bound.

### What the violated runs say

- **lock_contention.** A monitor that finds the lock file just created and not
  written yet takes it for a stale one: `_read()` cannot parse it, and line 66
  of `run-lock.mjs` treats a holder it cannot read like an expired one. Both
  monitors then hold a handle. The header of the file (lines 4-6) excludes that.
- **monitor_reopened.** The lock is taken after the observation, and nothing
  compares their order. A monitor that saw the run open, and is then slow,
  overwrites `finished` with `running`. `model.mjs:25` calls the states terminal.
  The next poll repairs it (`VerdictIsShown` holds), with two transitions in the history
  that never happened.
- **scheduler_stopall.** `ports.mjs:76` promises of stopAll() to cancel everything the
  scheduler started, and `scheduler.test.mjs:86` is named "stopAll silences
  everything". A tick that is under way has no timer to clear, stopAll() leaves its
  cadence's flag alone, and the tick schedules the next one when it is done. So
  `StopAllSilences` is about the cadences between two ticks, and `KeepsTicking`
  demands nothing after a stopAll(). Only tests call stopAll() at this commit.
- **rollout_ambiguous.** A rollout file that is too large, or cannot be read,
  returns before its session is noted, so a window with two sessions looks as
  if it had one, and the wrong session is attributed. Then `_mergePrevious`
  keeps it.

Not a run of its own, but visible in RolloutScan: a request without a response
counts as an empty response and not as a response, so the difference that
`adapter.mjs:278` shows as modelResponses can be smaller than the number of
answered requests, and `asCount` turns a negative one into 0.

Others are written into a property of a passing run as its exception, so the property
holds beside them and does not catch them:

- Between writeStatus and appendEvents a fault loses the event for good, since later
  passes compare with the status; `monitor-service.mjs:110-111` promises the
  corresponding events. This is the exception `lost` of HistoryAgrees and
  HistoryIsAPath, and the step `Lose` of RunRecord. A status that cannot be read just
  now makes the run look new: HistoryIsAPath and SessionIsSticky except that.
- A takeover of a lock that is not a dead monitor's, or by two monitors at once, sets
  `rash`, after which the properties of the lock promise nothing: that goes for a
  lease that runs out under a slow holder, and for a lock that cannot be read.
- `model.mjs:25` counts orphaned among the states after which a run can never change,
  but the adapter turns an orphaned run into a finished one when its report comes late.
  `Successors` allows it, as the code does; NeverReopened and the states that
  VerdictIsShown speaks of say what is final.
- An observation that cannot look at a file is wrong once: a finished run is shown
  live, a running one discovered. StatesFollowTheModel compares the observations that
  could, and VerdictIsShown says that the verdict comes back.
- The host plugin never asks, after its import, whether it was disposed of meanwhile
  (`typert-remote.mjs:72`), and a ctx.effect that throws (line 120) makes the mount
  report a failure although the manifest is registered: the exceptions of
  ManifestGoesWithPlugin. A host that refuses the effect of the cadences
  (`plugin.mjs:197`) leaves them running: the exception of DisposedIsQuiet.
- What set() returns need not be what it selected when another process selects as well
  (SetReturnsItsOwn).

## Fairness

- RunLock: a running monitor takes its next call (`WF` of `Step`); acquire() and
  release() are synchronous and the cadences call them again. No fairness for
  crash, restart or the clock.
- MonitorRun: the same for a pass, and strong fairness of `Acquire`: a monitor
  that keeps polling sometimes finds the lock free. RunLock justifies it as far
  as it can: holders release after finitely many steps, and the locks of dead
  ones are taken over. A monitor that always loses the race would need an
  adversary that times it.
- IntervalScheduler: the event loop gets round to each due timer and settled
  promise although others are due (strong, since they compete for the stack);
  tick bodies return.
- ZcodeAdapter: observations go on, and time passes. The wrapper owes nothing.
- ActiveCli: a process that is in set() takes its next call (`WF`), for set() is
  synchronous; get() is called again and again at the beginning of each pass, which
  never comes in the middle of a set() (`SF`, since a set() disables it). A rename
  may be refused every time.
- HostPlugin: the fairness of IntervalScheduler and nothing else. The host may
  never dispose of a plugin, and the import may never settle.
- EventLog and RolloutScan: safety only.

The liveness properties are conditional on some monitor staying up, where a
process can die.

## What is proved

All with TLAPS, for any number of monitors or cadences and any bounds; the only
assumptions are the named ASSUMEs of the modules.

**RunLockProofs.** `TypeCorrect`, `Ownership` (OwnersKeepTheFile), `Exclusion`,
`Refinement` (RunLock implements AdvisoryLock) and `WaitFree`. OwnersKeepTheFile is not
inductive: TakeOver unlinks whatever is at the path. The strengthening `IInv`
adds that, without a rash decision, a monitor about to unlink is the only one
(`LoneTakeover`) and that the file there is an orphan. Since an orphan's creator
creates another file only when the path is free, nobody replaces it before the
unlink. Exclusion follows, for the path has one owner; and the refinement maps
the write of the lock to Acquire, the read in release (or a crash while
holding) to Release, and a rash decision to Compromise. `WaitFree` says that each
call of acquire() and release() is nearer to their end, and that no other monitor
takes one back: an acquire() makes at most five calls, however fierce the contention.

**The passes over the lock file (also RunLockProofs).** `LockBelow` says that in
LockedMonitor the lock takes only steps of RunLock, `PassesAbove` that the passes
take only steps of MonitorRun; `Coupled` relates the two program counters of a
monitor. So what is proved of either holds of the two together: `LockedAgreement`
(HistoryAgrees and VerdictsAreTrue), `LockedHistory` (HistoryIsAPath and
SessionIsSticky) and `LockedRecord` (RunRecord), where `compromised` is `rash`, for
any number of monitors, any lease and any faults. They instantiate MonitorRunProofs
(`Passes`), and their premise `PassAssumptions` repeats what MonitorRun assumes of
its constants. `LoneLock` says that a single monitor process never takes over
rashly, whatever crashes and expires, and `LoneAgreement` that its history and status
therefore agree with no condition on the lock.

**MonitorRunProofs.** `TypeCorrect`, `Agreement` (HistoryAgrees), `HistoryPath`,
`SessionKept` and `TrueVerdicts`. The invariant says that the lock's holders
are exactly the monitors between Acquire and Release and, while the lock is
exclusive, that the planned write and the planned event of the one holder fit
the status on disk (`WritePlan`, `AppendPlan`). TrueVerdicts needs none of it:
every observation of a verdict, in a monitor's hands or on disk, is the
report's, whatever the lock does. `RecordKept` is the refinement of RunRecord:
writeStatus is Show, an append that readers will find is Tell, and one that fails or
is glued to a torn tail, or a crash before it, is Lose; everything else is invisible
to readers; without exclusion each write is a Race. The inductive invariant is what
makes it go through: under the lock nobody else owes an event (`holders = Busy`), and
the event of the one who writes fits what is on disk.

Three theorems are the other side of the violated runs. `FaultlessAgreement`: no
event is lost before the first fault. `LoneNeverReopens`: with one monitor process a
run that was shown closed is never shown open again, even if the passes fail and die
and the lock breaks. `LoneVerdictStays`: nor is a verdict replaced. Both have the
premise `LooksSucceed`, that no observation fails to look at a file: an existsSync that
is false of a report that is there lets even a single process show a finished run live.
Their invariant (`ClosedInv`) is that the one observation under way is not
older than the status, which is just what a second process breaks.

**IntervalSchedulerProofs.** `TypeCorrect`, `NeverOverlaps`, `TimersAreTracked`,
`StopIsFinal`, `StopAllIsFinal` (of the cadences that stopAll() found between two
ticks) and `NeverLost`, from one invariant over each cadence.
NeverLost is the safety side of KeepsTicking: a cadence nobody stopped has a tick
under way or exactly one timer, so a fair event loop cannot lose it.

**ZcodeAdapterProofs.** `TypeCorrect`, `TrueVerdicts` and `SuccessiveStates`, for any
thresholds and without a bound on time. The verdict alone is not inductive: `Progress`
adds what an observation may rely on of those before it. An orphaned run was old when it
was seen, and a later observation is younger only if it read the clock earlier, which it
cannot, for the adapter observes one at a time; a run seen with activity has logs, so it
is never merely discovered again; and a run seen with a report has one, so no later
observation goes to the logs. All this is said of `sure`, the last observation whose
accesses succeeded, and of the observation under way only while its accesses do; one in
which an access fails follows no order, and disturbs none. `SuccessiveStates` is what
`MonitorRun` assumes of the observations an adapter makes one after the other; that the
observations of two processes interleave is modelled there.

**EventLogProofs.** Everything the `event_log` run checks, for any number of
writers, appends and faults and any cap. `Files` says that the two files are
sorted, that the previous generation precedes the live one and that together they
are a suffix of what was readable; `Lines`, that the live file started at least as
many appends ago as it has lines, which is why dropping the previous generation is
harmless when the live file is full; `Alone`, what the lock gives (only the premise
"no two writers at work at once" is used of it); `Reading`, what a reader holds
between its two reads. `TornTails` counts lost events against faults, with a debt
of one while the file ends in a torn line.

**ActiveCliProofs.** `TypeCorrect`, `LitterBounded`, `RegisteredAnswers`,
`SetAnswers` and `Refinement`. The invariant ties the temporary file of a process
to its next call: none before the open, a whole one at the rename, and one that is
abandoned took a fault. The refinement maps the first step of a write to Begin, the
rename to Commit, every way out of the loop and a crash to Abort; set() going on
clears the outcome. `SetIsWaitFree`: set() takes at most Retries + 5 steps, and no
other process takes one back.

**HostPluginProofs.** `TypeCorrect`, `DisposalStops`, `ManifestRemoved`,
`CadencesStaySound`, `PollingNeverLost` and `CadencesAreScheduled`. The
invariant says of a live plugin that the host keeps the cleanup or has refused it,
and of one that was disposed of that its cadences carry the flag `stopped`, which
is why a tick that was under way at the disposal does not schedule another: a timer
alone would not be enough. The invariant of IntervalScheduler holds of the cadences
of all the plugins together (`CoreInvariant`), from which CadencesStaySound and
PollingNeverLost (the safety side of KeepsPolling) follow. HostPlugin starts the two
cadences of an application in one step, so its scheduler does not take steps of
IntervalScheduler over all cadences; `CadencesAreScheduled` says that each cadence,
seen alone, does (`One(c)`).

**RolloutScanProofs.** Everything the `rollout` run checks, for any number of
sessions, any bounds and any growth of the files. The first half shows what a sum
over a finite set is: `SumStep` (the recursion of MapThenSumSet has a solution, by
well-foundedness of the strict subsets), then `SumRemove` (the order does not
matter), `SumOfMore` and `SumOfLarger`. Each is an induction over data done by hand,
with a minimal counterexample. The invariant `ScanInv` then compares the counts so
far with the files the scanner has looked at (`CountedSoFar`), and, unless the scan
came short, the counts at the beginning with the counts so far and the listed files to
come (`NothingMissed`, `Listed`); appends only make the sums larger. `ScanIsBounded`
says that a scan ends after at most two steps per session (stat and read) and two
more, however fast the files grow.

Only model-checked: all liveness (OrphanLockTakenOver, VerdictIsShown,
KeepsTicking, RunIsClosed, SelectionTakesEffect, KeepsPolling), which is beyond the
prover. What is proved of it is the safety side: that calls end in a bounded number of
their own steps (WaitFree, SetIsWaitFree, ScanIsBounded), and that a cadence always
has its next tick before it (NeverLost, PollingNeverLost).

## What is not modelled, and why

- Command line: argument parsing and printing. Its `watch` is one of the monitors
  and one of the cadences; its memory of the last states, which it keeps under the
  run id alone, is listed as a hazard.
- Host plugin: the poll of apply() before the cadences start, which is a pass as any
  other and awaits nothing; the routes and the remote it provides, which keep no state
  and answer from the queries; the host and its effect scopes are external.
- Queries, the filling of the registry, configuration, composition, redaction: pure or
  written once at start.
- In modelled parts: several runs in one pass, path segments and run directory
  names, string bounds, the filters and limit of readEvents, the daily files of
  the session log, the counts of malformed lines, event ids, clock skew between
  processes, the durations of timers and of the waits between renames (so an
  interval past the range of setTimeout, which `config.mjs` lets through, does not
  show),
  and the directories that an atomic write creates.

## Plan

1. Done: RunLock and AdvisoryLock; MonitorRun; IntervalScheduler; EventLog;
   ZcodeAdapter and RolloutScan.
2. Done: AtomicFile below ActiveCli, with AtomicRegister; HostPlugin on
   IntervalScheduler; the sums and counts of RolloutScan proved.
3. Done: LockedMonitor, the passes over the lock file; RunRecord, the abstract
   specification of a run's status and history, and the proof that MonitorRun
   implements it.
4. Several runs in one pass, where an exception of acquire() ends the pass, and
   runs of two logs directories that share a name, with the memory of `watch`.
5. MonitorRun with the status file of AtomicFile in place of an atomic step.
6. Proofs: an abstract history that EventLog implements for a reader, with what a
   torn tail costs.
