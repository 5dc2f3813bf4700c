---------------------------- MODULE ZcodeAdapter ----------------------------
(***************************************************************************)
(* The ZCode adapter observes one wrapper run: discoverRuns of             *)
(* src/src/adapters/zcode/adapter.mjs and the report parser it calls,      *)
(* while the wrapper and the CLI write.  RolloutScan models the two log    *)
(* scanners, whose findings do not decide the state of the run.            *)
(*                                                                         *)
(* The run starts at time 0, and its age is the time.  An observation      *)
(* reads the clock once, looks for report.json, and parses it or else      *)
(* reads the times of the logs.  Each file access is a step, for the files *)
(* change in between, and each may fail: the adapter takes a file that it  *)
(* cannot look at for one that is not there.  (If the logs directory can   *)
(* not be listed there is no snapshot at all.)                             *)
(***************************************************************************)
EXTENDS Integers, RunModel

CONSTANTS
    RunningFresh,   \* runningFreshMs
    OrphanAfter,    \* orphanAfterMs
    MaxTime,        \* bound: the clock stops here
    MaxFaults       \* bound: file accesses that fail

ASSUME TimeAssumption ==
    RunningFresh \in Nat /\ OrphanAfter \in Nat /\ MaxTime \in Nat
ASSUME BoundAssumption == MaxFaults \in Nat

VARIABLES
    now,        \* the clock
    logsAt,     \* time of the last write to out.log or err.log, or Never
    report,     \* report.json
    pc,         \* the adapter's next step
    at,         \* nowMs of the observation under way
    logs,       \* what it read of logsAt
    seen,       \* the state of the last snapshot
    accesses,   \* how the accesses of the observation under way went
    sure,       \* history: the state of the last snapshot that was made
                \* without a failed access
    faults      \* accesses that failed so far

worldVars == <<now, logsAt, report>>
resultVars == <<seen, sure>>
vars == <<worldVars, pc, at, logs, accesses, resultVars, faults>>

Never == -1

(* "undecided" is a report with neither status ok nor an errorKind, "torn" *)
(* one that cannot be parsed.                                              *)
Reports == {"none", "torn", "ok", "timeout", "error", "undecided"}

TypeOK ==
    /\ now \in Nat
    /\ logsAt \in Nat \cup {Never}
    /\ report \in Reports
    /\ pc \in {"idle", "look", "parse", "stat", "conclude"}
    /\ at \in Nat
    /\ logs \in Nat \cup {Never}
    /\ seen \in RunStates \cup {"unseen"}
    /\ accesses \in {"fine", "failed"}
    /\ sure \in RunStates \cup {"unseen"}
    /\ faults \in Nat

Init ==
    /\ now = 0
    /\ logsAt = Never
    /\ report = "none"
    /\ pc = "idle"
    /\ at = 0
    /\ logs = Never
    /\ seen = "unseen"
    /\ accesses = "fine"
    /\ sure = "unseen"
    /\ faults = 0

Fault ==
    /\ faults < MaxFaults
    /\ faults' = faults + 1

----------------------------------------------------------------------------
(* The state mapping.  The definitions whose names begin with Mut are bugs *)
(* these could have: each breaks a property below.                         *)

MutStateRaw(r) ==
    CASE r = "ok" -> "finished"
      [] r = "timeout" -> "timed-out"
      [] r = "error" -> "failed"
      [] OTHER -> r
MutStateGuess(r) ==
    CASE r = "ok" -> "finished"
      [] r = "timeout" -> "timed-out"
      [] r \in {"error", "undecided"} -> "failed"
      [] r = "torn" -> "unknown"
StateFromReport(r) ==
    CASE r = "ok" -> "finished"
      [] r = "timeout" -> "timed-out"
      [] r = "error" -> "failed"
      [] r \in {"undecided", "torn"} -> "unknown"

Fresh(t, written) == written # Never /\ t - written <= RunningFresh

(* the age of the run is tested first, whatever its logs say *)
MutLiveStateFresh(t, written) ==
    CASE Fresh(t, written) -> "running"
      [] t > OrphanAfter /\ ~Fresh(t, written) -> "orphaned"
      [] t <= OrphanAfter /\ written # Never /\ ~Fresh(t, written) -> "waiting"
      [] OTHER -> "discovered"
MutLiveStateEmpty(t, written) ==
    CASE written = Never -> "discovered"
      [] written # Never /\ t > OrphanAfter -> "orphaned"
      [] t <= OrphanAfter /\ Fresh(t, written) -> "running"
      [] OTHER -> "waiting"
LiveState(t, written) ==
    CASE t > OrphanAfter -> "orphaned"
      [] t <= OrphanAfter /\ Fresh(t, written) -> "running"
      [] t <= OrphanAfter /\ written # Never /\ ~Fresh(t, written) -> "waiting"
      [] OTHER -> "discovered"

----------------------------------------------------------------------------
(* An observation *)

(* discoverRuns(): the clock is read once, before all the files *)
Observe ==
    /\ pc = "idle"
    /\ pc' = "look"
    /\ at' = now
    /\ UNCHANGED <<worldVars, logs, accesses, resultVars, faults>>

(* existsSync(reportPath) *)
Look ==
    /\ pc = "look"
    /\ pc' = IF report = "none" THEN "stat" ELSE "parse"
    /\ UNCHANGED <<worldVars, at, logs, accesses, resultVars, faults>>

(* ... which is false, too, when it cannot tell *)
LookError ==
    /\ pc = "look"
    /\ report # "none"
    /\ Fault
    /\ pc' = "stat"
    /\ accesses' = "failed"
    /\ UNCHANGED <<worldVars, at, logs, resultVars>>

(* The snapshot is returned; what the observation read is forgotten. *)
Return(state) ==
    /\ pc' = "idle"
    /\ seen' = state
    /\ at' = 0
    /\ logs' = Never
    /\ accesses' = "fine"
    /\ UNCHANGED worldVars

(* _observeFromReport: the file is read now, and may have grown since *)
ParseReport ==
    /\ pc = "parse"
    /\ Return(StateFromReport(report))
    /\ sure' = seen'
    /\ UNCHANGED faults

(* ... or cannot be read just now *)
ParseError ==
    /\ pc = "parse"
    /\ Fault
    /\ Return(StateFromReport("torn"))
    /\ UNCHANGED sure

(* _observeLive: the times of out.log and err.log *)
StatLogs ==
    /\ pc = "stat"
    /\ pc' = "conclude"
    /\ logs' = logsAt
    /\ UNCHANGED <<worldVars, at, accesses, resultVars, faults>>

(* ... and a log whose statSync() fails counts as not written: what is     *)
(* left is the time of the other one, or Never                             *)
StatError ==
    /\ pc = "stat"
    /\ Fault
    /\ pc' = "conclude"
    /\ logs' \in Never .. (logsAt - 1)
    /\ accesses' = "failed"
    /\ UNCHANGED <<worldVars, at, resultVars>>

(* ... and, after the scans, the snapshot of a run without a report *)
Conclude ==
    /\ pc = "conclude"
    /\ Return(LiveState(at, logs))
    /\ sure' = IF accesses = "fine" THEN seen' ELSE sure
    /\ UNCHANGED faults

Adapter == Observe \/ Look \/ ParseReport \/ StatLogs \/ Conclude

----------------------------------------------------------------------------
(* The wrapper and the CLI, as the adapter relies on them: a report, once  *)
(* it can be parsed, stays.  They may stop at any time.                    *)

Tick ==
    /\ now < MaxTime
    /\ now' = now + 1
    /\ UNCHANGED <<logsAt, report, pc, at, logs, accesses, resultVars, faults>>

WriteLog ==
    /\ logsAt' = now
    /\ UNCHANGED <<now, report, pc, at, logs, accesses, resultVars, faults>>

WriteReport ==
    /\ report \in {"none", "torn"}
    /\ report' \in Reports \ {"none", report}
    /\ UNCHANGED <<now, logsAt, pc, at, logs, accesses, resultVars, faults>>

World == Tick \/ WriteLog \/ WriteReport

Errors == LookError \/ ParseError \/ StatError

Next == Adapter \/ Errors \/ World

(* The cadences observe again and again, an observation reads a bounded    *)
(* number of files, and time passes.                                       *)
Fairness == WF_vars(Adapter) /\ WF_vars(Tick)

Spec == Init /\ [][Next]_vars /\ Fairness

----------------------------------------------------------------------------
(* Properties *)

(* The observations of a run in which no access fails follow the order of  *)
(* the states that MonitorRun takes its artifacts to have, whatever failed *)
(* between two of them: an orphaned run is not live again, however late    *)
(* the CLI writes to its logs; a run whose report is there, readable or    *)
(* not, is not live again and can only get a verdict; and a verdict stays. *)
(* "States after which a run can never change again." (model.mjs:25) is    *)
(* true of the verdicts only: a report that comes late turns an orphaned   *)
(* run into a finished or an unknown one.                                  *)
StatesFollowTheModel ==
    [][sure' # sure => sure = "unseen" \/ sure' \in Successors(sure)]_vars

(* A verdict is the one in the report.  "An adapter must not infer         *)
(* finished merely because a process handle disappeared."                  *)
(* (docs/adapter-contract.md)                                              *)
VerdictIsReported ==
    /\ seen = "finished"  => report = "ok"
    /\ seen = "timed-out" => report = "timeout"
    /\ seen = "failed"    => report = "error"

(* A run is not shown as open for ever: if its supervisor dies without a   *)
(* report, even before it wrote a log, the run ends up orphaned.           *)
RunIsClosed == <>[](seen \in TerminalStates \cup {"unknown"})
=============================================================================
