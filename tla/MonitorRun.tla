----------------------------- MODULE MonitorRun -----------------------------
(***************************************************************************)
(* Several monitor processes observe one run of the monitored CLI and      *)
(* materialise it: MonitorService.pollOnce, heartbeatOnce and _processRun  *)
(* of src/src/application/monitor-service.mjs over status.json and         *)
(* events.jsonl of that run, under the lock that AdvisoryLock promises.    *)
(*                                                                         *)
(* A pass of one process is synchronous, so a process has one program      *)
(* counter; every file operation is a step of its own, for the processes   *)
(* interleave between any two of them.  The observation is made before the *)
(* lock is taken: discoverRuns() observes all the runs, then _processRun   *)
(* is called for each.                                                     *)
(***************************************************************************)
EXTENDS Naturals, RunModel

CONSTANTS
    Monitors,       \* the monitor processes
    Nothing,        \* null: no status, no session, no event
    Sessions,       \* session ids the adapter may attribute
    Details,        \* the other fields of a snapshot's fingerprint
    Shown,          \* the states the run's artifacts go through
    LockMayBreak,   \* FALSE: the lock is never compromised
    MaxFaults       \* bound: crashes and I/O errors in all

ASSUME NothingAssumption == Nothing \notin RunStates \cup Sessions \cup Details
ASSUME ShownAssumption == Shown \subseteq RunStates
ASSUME BoundAssumption == MaxFaults \in Nat /\ LockMayBreak \in BOOLEAN

VARIABLES
    artifact,       \* what the adapter would derive from the CLI's files now
    status,         \* status.json
    recorded,       \* toState of the last event that readers find in
                    \* events.jsonl
    torn,           \* events.jsonl ends in the middle of a line (EventLog)
    pc,             \* pc[m]: the next step of m's pass over this run
    mode,           \* mode[m]: the pass is a poll or a heartbeat
    next,           \* next[m]: the observation, after Load the merged one
    event,          \* event[m]: the event the pass will append
    faults,         \* crashes and I/O errors so far
    lost,           \* history: the state status.json shows has no event,
                    \* for the append failed, never came, or hit a torn tail
    holders,        \* AdvisoryLock
    compromised     \* AdvisoryLock

lockVars == <<holders, compromised>>
historyVars == <<recorded, torn, lost>>
passVars == <<mode, next, event>>
vars == <<artifact, status, recorded, torn, pc, mode, next, event, faults,
          lost, holders, compromised>>

Lock == INSTANCE AdvisoryLock

----------------------------------------------------------------------------
(* Snapshots and events.  observedAt is left out: no decision reads it.    *)

Snapshots == [state : RunStates, session : Sessions \cup {Nothing},
              detail : Details]
NoSnapshot == [state |-> Nothing, session |-> Nothing, detail |-> Nothing]

(* run.discovered has from = Nothing, run.heartbeat has from = to, and     *)
(* run.state-changed is any other event.                                   *)
Events == [from : RunStates \cup {Nothing}, to : RunStates]
NoEvent == [from |-> Nothing, to |-> Nothing]

(* what the artifacts show next, in the run that is modelled *)
Becomes(s) == Shown \cap Successors(s)

PCs == {"idle", "observed", "load", "write", "append", "release", "down"}

TypeOK ==
    /\ artifact \in RunStates
    /\ status \in Snapshots \cup {NoSnapshot}
    /\ recorded \in RunStates \cup {Nothing}
    /\ torn \in BOOLEAN
    /\ pc \in [Monitors -> PCs]
    /\ mode \in [Monitors -> {"poll", "heartbeat"}]
    /\ next \in [Monitors -> Snapshots \cup {NoSnapshot}]
    /\ event \in [Monitors -> Events \cup {NoEvent}]
    /\ faults \in Nat
    /\ lost \in BOOLEAN
    /\ holders \in SUBSET Monitors
    /\ compromised \in BOOLEAN

Init ==
    /\ artifact \in Shown
    /\ status = NoSnapshot
    /\ recorded = Nothing
    /\ torn = FALSE
    /\ pc = [m \in Monitors |-> "idle"]
    /\ mode = [m \in Monitors |-> "poll"]
    /\ next = [m \in Monitors |-> NoSnapshot]
    /\ event = [m \in Monitors |-> NoEvent]
    /\ faults = 0
    /\ lost = FALSE
    /\ Lock!Init

Goto(m, label) == pc' = [pc EXCEPT ![m] = label]

Fault ==
    /\ faults < MaxFaults
    /\ faults' = faults + 1

----------------------------------------------------------------------------
(* The pure part of a pass.  The definitions whose names begin with Mut    *)
(* are bugs these could have: each breaks a property below.                *)

(* an observation shows the state of the artifacts *)
MutObservedRaw(session, detail) ==
    [state |-> IF artifact = "finished" THEN "ok" ELSE artifact,
     session |-> session, detail |-> detail]
MutObservedGuess(session, detail) ==
    [state |-> IF artifact = "orphaned" THEN "timed-out" ELSE artifact,
     session |-> session, detail |-> detail]
Observed(session, detail) ==
    [state |-> artifact, session |-> session, detail |-> detail]

(* _mergePrevious: only the session is carried forward *)
MutMerge(obs, prev) == obs
Merge(obs, prev) ==
    [obs EXCEPT !.session = IF obs.session = Nothing THEN prev.session ELSE @]

(* does this pass write status.json? *)
MutWrites(how, prev, snap) ==
    prev.state = Nothing \/ snap.state \in OpenStates
Writes(how, prev, snap) ==
    \/ prev.state # snap.state
    \/ how = "poll" /\ prev # snap
    \/ how = "heartbeat" /\ snap.state \in OpenStates

(* ... and which event does it append? *)
MutEventSilent(how, prev, snap) ==
    IF \/ prev.state # snap.state /\ how = "poll"
       \/ how = "heartbeat" /\ snap.state \in OpenStates
    THEN [from |-> prev.state, to |-> snap.state]
    ELSE NoEvent
MutEventFrom(how, prev, snap) ==
    IF prev.state # snap.state
    THEN [from |-> snap.state, to |-> snap.state]
    ELSE NoEvent
EventFor(how, prev, snap) ==
    IF \/ prev.state # snap.state
       \/ how = "heartbeat" /\ snap.state \in OpenStates
    THEN [from |-> prev.state, to |-> snap.state]
    ELSE NoEvent

----------------------------------------------------------------------------
(* A pass over the run *)

(* discoverRuns() of a poll or a heartbeat: the state the artifacts show,  *)
(* and a session only while the run is live and no other session is seen   *)
Observe(m) ==
    /\ pc[m] = "idle"
    /\ \E how \in {"poll", "heartbeat"}, detail \in Details,
          session \in Sessions \cup {Nothing} :
        /\ artifact \in Verdicts \cup {"unknown"} => session = Nothing
        /\ mode' = [mode EXCEPT ![m] = how]
        /\ next' = [next EXCEPT ![m] = Observed(session, detail)]
    /\ Goto(m, "observed")
    /\ UNCHANGED <<artifact, status, historyVars, event, faults, lockVars>>

(* ... or the one it is taken for, when a file cannot be looked at just    *)
(* now (ZcodeAdapter)                                                      *)
ObserveError(m) ==
    /\ pc[m] = "idle"
    /\ Fault
    /\ \E how \in {"poll", "heartbeat"}, detail \in Details,
          session \in Sessions \cup {Nothing},
          state \in MistakenFor(artifact) :
        /\ state = "unknown" => session = Nothing
        /\ mode' = [mode EXCEPT ![m] = how]
        /\ next' = [next EXCEPT ![m] = [state |-> state,
                                       session |-> session,
                                       detail |-> detail]]
    /\ Goto(m, "observed")
    /\ UNCHANGED <<artifact, status, historyVars, event, lockVars>>

(* the pass is over, and with it its local variables *)
Forget(m) ==
    /\ mode' = [mode EXCEPT ![m] = "poll"]
    /\ next' = [next EXCEPT ![m] = NoSnapshot]
    /\ event' = [event EXCEPT ![m] = NoEvent]

(* no lock: another monitor, or a dead one's lease, or an I/O error *)
Skip(m) ==
    /\ pc[m] = "observed"
    /\ Goto(m, "idle")
    /\ Forget(m)
    /\ UNCHANGED <<artifact, status, historyVars, faults, lockVars>>

(* acquireRunLock() returns a handle, and the pass enters the try block *)
Enter(m) ==
    /\ pc[m] = "observed"
    /\ Goto(m, "load")
    /\ UNCHANGED <<artifact, status, historyVars, passVars, faults>>

Acquire(m) == Lock!Acquire(m) /\ Enter(m)

(* what the pass decides once loadStatus() has returned prev; from then on *)
(* it does not matter how the pass was begun                               *)
Decide(m, prev) ==
    LET snap == Merge(next[m], prev) IN
        /\ mode' = [mode EXCEPT ![m] = "poll"]
        /\ next' = [next EXCEPT ![m] = snap]
        /\ event' = [event EXCEPT ![m] = EventFor(mode[m], prev, snap)]
        /\ Goto(m, IF Writes(mode[m], prev, snap) THEN "write" ELSE "release")

Load(m) ==
    /\ pc[m] = "load"
    /\ Decide(m, status)
    /\ UNCHANGED <<artifact, status, historyVars, faults, lockVars>>

(* loadStatus() returns null for a file it cannot read just now *)
LoadError(m) ==
    /\ pc[m] = "load"
    /\ Fault
    /\ Decide(m, NoSnapshot)
    /\ UNCHANGED <<artifact, status, historyVars, lockVars>>

WriteStatus(m) ==
    /\ pc[m] = "write"
    /\ status' = next[m]
    /\ Goto(m, IF event[m] = NoEvent THEN "release" ELSE "append")
    /\ UNCHANGED <<artifact, historyVars, passVars, faults, lockVars>>

(* writeStatus() throws, status.json is as before; the catch ends the pass *)
WriteError(m) ==
    /\ pc[m] = "write"
    /\ Fault
    /\ Goto(m, "release")
    /\ UNCHANGED <<artifact, status, historyVars, passVars, lockVars>>

(* the appended line is glued to a torn tail, where no reader finds it,    *)
(* unless the file was rotated first                                       *)
AppendEvent(m) ==
    /\ pc[m] = "append"
    /\ \E glued \in {torn, FALSE} :
        /\ recorded' = IF glued THEN recorded ELSE event[m].to
        /\ lost' = (glued /\ event[m].to # recorded)
    /\ torn' = FALSE
    /\ Goto(m, "release")
    /\ UNCHANGED <<artifact, status, passVars, faults, lockVars>>

(* An append that fails may leave a part of the line behind, and may have  *)
(* rotated the file.                                                       *)
EventLost(m) ==
    /\ lost' = (event[m].to # recorded)
    /\ torn' \in BOOLEAN
    /\ UNCHANGED recorded

(* appendEvents() throws after status.json was written *)
AppendError(m) ==
    /\ pc[m] = "append"
    /\ Fault
    /\ EventLost(m)
    /\ Goto(m, "release")
    /\ UNCHANGED <<artifact, status, passVars, lockVars>>

(* the finally block *)
Leave(m) ==
    /\ pc[m] = "release"
    /\ Goto(m, "idle")
    /\ Forget(m)
    /\ UNCHANGED <<artifact, status, historyVars, faults>>

Release(m) == Lock!Release(m) /\ Leave(m)

----------------------------------------------------------------------------
(* The environment *)

(* the process dies; what it held of the lock, AdvisoryLock releases *)
Die(m) ==
    /\ pc[m] # "down"
    /\ Fault
    /\ Goto(m, "down")
    /\ IF pc[m] = "append" THEN EventLost(m)
                           ELSE UNCHANGED historyVars
    /\ Forget(m)
    /\ UNCHANGED <<artifact, status>>

Crash(m) ==
    /\ Die(m)
    /\ IF m \in holders THEN Lock!Release(m) ELSE UNCHANGED lockVars

Restart(m) ==
    /\ pc[m] = "down"
    /\ Goto(m, "idle")
    /\ UNCHANGED <<artifact, status, historyVars, passVars, faults, lockVars>>

(* the monitored CLI and its wrapper make progress *)
Evolve ==
    /\ artifact' \in Becomes(artifact)
    /\ UNCHANGED <<status, historyVars, pc, passVars, faults, lockVars>>

(* the lock stops being exclusive: RunLock says when *)
Compromise ==
    /\ LockMayBreak
    /\ Lock!Compromise
    /\ UNCHANGED <<artifact, status, historyVars, pc, passVars, faults>>

(* The steps of a pass that a running process takes by itself. *)
Work(m) ==
    \/ Observe(m) \/ Skip(m) \/ Acquire(m) \/ Load(m) \/ WriteStatus(m)
    \/ AppendEvent(m) \/ Release(m)

Next ==
    \/ \E m \in Monitors :
        \/ Work(m)
        \/ ObserveError(m) \/ LoadError(m) \/ WriteError(m) \/ AppendError(m)
        \/ Crash(m) \/ Restart(m)
    \/ Evolve
    \/ Compromise

(* The cadences start pass after pass and a pass is synchronous; the lock  *)
(* is not always taken when a monitor that keeps polling comes by, because *)
(* its holders finish and dead ones' leases run out (RunLock).             *)
Fairness ==
    \A m \in Monitors : WF_vars(Work(m)) /\ SF_vars(Acquire(m))

Spec == Init /\ [][Next]_vars /\ Fairness

----------------------------------------------------------------------------
(* Properties *)

(* While the lock is exclusive, the history ends in the state status.json  *)
(* shows, whenever no pass is between the two writes and the last append   *)
(* was not lost: readers of events and of the status agree.                *)
HistoryAgrees ==
    ~compromised /\ ~lost /\ (\A m \in Monitors : pc[m] # "append")
        => recorded = status.state

(* While the lock is exclusive, the history is a path: a transition leaves *)
(* the state in which the history ended, except after a lost event, and    *)
(* except for run.discovered after a status that could not be read.        *)
HistoryIsAPath ==
    [][recorded' # recorded =>
        \/ compromised \/ lost
        \/ \E m \in Monitors : /\ pc[m] = "append"
                               /\ event[m].to = recorded'
                               /\ event[m].from \in {recorded, Nothing}]_vars

(* While the lock is exclusive, the session of a run, once attributed, is  *)
(* not forgotten, although no adapter reports it for ever                  *)
(* (_mergePrevious), except by a pass that could not read the status.      *)
SessionIsSticky ==
    [][status.session # Nothing /\ status'.session = Nothing =>
        \/ compromised
        \/ \E m \in Monitors : /\ pc[m] = "write"
                               /\ event[m].from = Nothing
                               /\ event[m] # NoEvent]_vars

(* No interleaving, crash or compromised lock makes status.json show a     *)
(* verdict other than the one the wrapper's report has.                    *)
VerdictsAreTrue == status.state \in Verdicts => artifact = status.state

(* The status and the history together are a RunRecord, for whoever reads  *)
(* them: under an exclusive lock the status does not move on before the    *)
(* event of the state it shows is in the history, or lost.                 *)
Record == INSTANCE RunRecord
            WITH truth <- artifact, shown <- status.state, told <- recorded,
                 due <- \E m \in Monitors : pc[m] = "append",
                 broken <- compromised
ImplementsRecord == Record!Spec

(* "States after which a run can never change again." (model.mjs:25)       *)
TerminalIsFinal ==
    [][status.state \in TerminalStates => status'.state = status.state]_vars

(* If some monitor stays up, status.json ends up showing the verdict and   *)
(* keeps showing it, however many old observations were still under way.   *)
VerdictIsShown ==
    \A m \in Monitors :
        <>[](pc[m] # "down")
            => <>[](artifact \in Verdicts => status.state = artifact)
=============================================================================
