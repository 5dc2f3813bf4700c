-------------------------- MODULE ZcodeAdapterProofs --------------------------
(* Proofs about ZcodeAdapter, for any thresholds and any length of a run. *)
EXTENDS ZcodeAdapter, TLAPS

(* What a later observation may rely on of the faultless ones before it:   *)
(* how far the clock, the report and the logs had come when the state was  *)
(* seen, unless an access of it failed.                                    *)
Progress ==
    /\ at <= now
    /\ logs # Never => logsAt # Never
    /\ pc = "parse" => report # "none"
    /\ sure # "response-ready"
    /\ sure = "orphaned" =>
        now > OrphanAfter /\ (pc # "idle" => at > OrphanAfter)
    /\ sure \in {"running", "waiting"} =>
        /\ logsAt # Never
        /\ pc = "conclude" /\ accesses = "fine" => logs # Never
    /\ sure \in Verdicts \cup {"unknown"} =>
        report # "none" /\ (pc \in {"stat", "conclude"} => accesses = "failed")
    /\ sure = "finished"  => report = "ok"
    /\ sure = "timed-out" => report = "timeout"
    /\ sure = "failed"    => report = "error"

IInv == TypeOK /\ VerdictIsReported /\ Progress

LEMMA InitInv == Init => IInv
  BY TimeAssumption
     DEF Init, IInv, TypeOK, VerdictIsReported, Progress, Reports, Verdicts

(* A report that is there settles the state; its verdict is the report's. *)
LEMMA ReportStates ==
    ASSUME NEW r \in Reports \ {"none"}
    PROVE  /\ StateFromReport(r) \in Verdicts \cup {"unknown"}
           /\ StateFromReport(r) = "finished"  => r = "ok"
           /\ StateFromReport(r) = "timed-out" => r = "timeout"
           /\ StateFromReport(r) = "failed"    => r = "error"
  BY DEF StateFromReport, Reports, Verdicts

(* Without a report the age comes first, then the logs. *)
LEMMA LiveStates ==
    ASSUME NEW t \in Nat, NEW written \in Nat \cup {Never}
    PROVE  /\ LiveState(t, written) \in
                {"orphaned", "running", "waiting", "discovered"}
           /\ LiveState(t, written) = "orphaned" <=> t > OrphanAfter
           /\ LiveState(t, written) \in {"running", "waiting"} =>
                written # Never
           /\ LiveState(t, written) = "discovered" => written = Never
  BY TimeAssumption DEF LiveState, Fresh, Never

LEMMA Step == IInv /\ [Next]_vars => IInv'
  <1> SUFFICES ASSUME IInv, [Next]_vars PROVE IInv'
    OBVIOUS
  <1> USE DEF IInv, TypeOK, VerdictIsReported, Progress, Verdicts, worldVars,
              resultVars, Fault
  <1>1. CASE Observe
    BY <1>1 DEF Observe
  <1>2. CASE Look \/ LookError
    BY <1>2 DEF Look, LookError
  <1>3. CASE ParseReport
    BY <1>3, ReportStates, TimeAssumption
       DEF ParseReport, Return, RunStates, TerminalStates
  <1>4. CASE ParseError
    BY <1>4, TimeAssumption
       DEF ParseError, Return, StateFromReport, RunStates
  <1>5. CASE StatLogs
    BY <1>5 DEF StatLogs
  <1>11. CASE StatError
    <2>1. logs' \in Nat \cup {Never} /\ (logs' # Never => logsAt # Never)
      BY <1>11 DEF StatError, Never
    <2> QED
      BY <1>11, <2>1 DEF StatError
  <1>6. CASE Conclude
    <2>1. /\ seen' = LiveState(at, logs)
          /\ sure' = IF accesses = "fine" THEN seen' ELSE sure
          /\ pc = "conclude" /\ pc' = "idle" /\ at' = 0 /\ logs' = Never
          /\ accesses' = "fine"
          /\ UNCHANGED <<now, logsAt, report, faults>>
      BY <1>6 DEF Conclude, Return
    <2>2. seen' \in {"orphaned", "running", "waiting", "discovered"}
      BY <2>1, LiveStates
    <2>3. CASE accesses = "fine"
      BY <2>1, <2>2, <2>3, LiveStates, TimeAssumption
         DEF RunStates, OpenStates, TerminalStates
    <2>4. CASE accesses = "failed"
      BY <2>1, <2>2, <2>4, TimeAssumption
         DEF RunStates, OpenStates, TerminalStates
    <2> QED
      BY <2>3, <2>4
  <1>7. CASE Tick
    BY <1>7, TimeAssumption DEF Tick
  <1>8. CASE WriteLog
    BY <1>8 DEF WriteLog, Never
  <1>9. CASE WriteReport
    BY <1>9 DEF WriteReport, Reports
  <1>10. CASE UNCHANGED vars
    BY <1>10 DEF vars
  <1> QED
    BY <1>1, <1>2, <1>3, <1>4, <1>5, <1>6, <1>7, <1>8, <1>9, <1>10, <1>11
       DEF Next, Adapter, Errors, World

LEMMA Invariant == Spec => []IInv
  BY InitInv, Step, PTL DEF Spec

(* Every variable of ZcodeAdapter has its type. *)
THEOREM TypeCorrect == Spec => []TypeOK
  BY Invariant, PTL DEF IInv

(* The verdict an observation returned is the one in report.json, however  *)
(* the wrapper writes that file while discoverRuns reads it.               *)
THEOREM TrueVerdicts == Spec => []VerdictIsReported
  BY Invariant, PTL DEF IInv

(* The assumption that MonitorRun makes about its adapters: from one       *)
(* faultless snapshot to the next the state moves on in the order of       *)
(* Successors, whatever accesses failed between the two.                   *)
THEOREM SuccessiveStates == Spec => StatesFollowTheModel
  <1> DEFINE A ==
        sure' # sure => sure = "unseen" \/ sure' \in Successors(sure)
  <1>1. IInv /\ [Next]_vars => A
    <2> SUFFICES ASSUME IInv, [Next]_vars, sure' # sure, sure # "unseen"
                 PROVE sure' \in Successors(sure)
      OBVIOUS
    <2>1. CASE ParseReport
      <3>1. /\ sure' = StateFromReport(report)
            /\ report \in Reports \ {"none"}
        BY <2>1 DEF ParseReport, Return, IInv, TypeOK, Progress
      <3>2. sure' \in Verdicts \cup {"unknown"}
        BY <3>1, ReportStates
      <3>3. sure \notin Verdicts
        BY <3>1 DEF IInv, Progress, StateFromReport, Verdicts
      <3> QED
        BY <3>2, <3>3 DEF Successors, Verdicts, RunStates, TerminalStates,
           IInv, TypeOK
    <2>2. CASE Conclude
      <3>1. /\ sure' = LiveState(at, logs) /\ pc = "conclude"
            /\ at \in Nat /\ logs \in Nat \cup {Never}
            /\ accesses = "fine"
        BY <2>2 DEF Conclude, Return, IInv, TypeOK
      <3>2. sure \in {"discovered", "running", "waiting"}
        (* an orphaned run is older still, and stays orphaned *)
        BY <3>1, LiveStates
           DEF IInv, TypeOK, Progress, Verdicts, RunStates, OpenStates,
               TerminalStates
      <3>3. sure' # "discovered"
        BY <3>1, <3>2, LiveStates DEF IInv, Progress
      <3> QED
        BY <3>1, <3>2, <3>3, LiveStates
           DEF Successors, Verdicts, RunStates, OpenStates, TerminalStates
    <2>3. CASE Observe \/ Look \/ StatLogs \/ Errors \/ World
               \/ UNCHANGED vars
      BY <2>3 DEF Observe, Look, StatLogs, Errors, LookError, ParseError,
         StatError, World, Tick, WriteLog, WriteReport, resultVars, vars
    <2> QED
      BY <2>1, <2>2, <2>3 DEF Next, Adapter
  <1>2. IInv /\ [Next]_vars => [A]_vars
    BY <1>1
  <1> QED
    BY <1>2, Invariant, PTL DEF Spec, StatesFollowTheModel
=============================================================================
