-------------------------- MODULE MonitorRunProofs --------------------------
(***************************************************************************)
(* Proofs about MonitorRun, for any set of monitors, sessions, details,    *)
(* artifact states and bounds.                                             *)
(***************************************************************************)
EXTENDS MonitorRun, TLAPS

(* The types, with what a pass has in its hands at each program point. *)
TypeInv ==
    /\ TypeOK
    /\ \A m \in Monitors :
        /\ pc[m] \in {"observed", "load", "write"} => next[m] \in Snapshots
        /\ pc[m] = "append" => event[m] \in Events

(* The monitors between acquire() and release(). *)
Busy == {m \in Monitors : pc[m] \in {"load", "write", "append", "release"}}

(* What a pass that decided to write knows of status.json, as long as no   *)
(* other pass may touch it.                                                *)
WritePlan(m) ==
    /\ event[m] = NoEvent => next[m].state = status.state
    /\ event[m] # NoEvent =>
        /\ event[m].to = next[m].state
        /\ event[m].from \in {status.state, Nothing}
    /\ status.session # Nothing =>
        \/ next[m].session # Nothing
        \/ event[m].from = Nothing /\ event[m] # NoEvent

(* What it knows of events.jsonl once the status is written. *)
AppendPlan(m) ==
    /\ event[m].to = status.state
    /\ lost \/ event[m].from \in {recorded, Nothing}

(* The inductive invariant of the passes under an exclusive lock. *)
ExclusivePasses ==
    /\ \A m, n \in holders : m = n
    /\ \A m \in Monitors : pc[m] = "write" => WritePlan(m)
    /\ \A m \in Monitors : pc[m] = "append" => AppendPlan(m)
    /\ \/ lost
       \/ \E m \in Monitors : pc[m] = "append"
       \/ recorded = status.state

IInv ==
    /\ TypeInv
    /\ holders = Busy
    /\ compromised \/ ExclusivePasses

----------------------------------------------------------------------------
LEMMA NothingIsNoState == Nothing \notin RunStates /\ Nothing \notin Sessions
  BY NothingAssumption

LEMMA VerdictsAreStates == Verdicts \subseteq RunStates
  BY DEF Verdicts, RunStates, TerminalStates

(* _mergePrevious changes nothing but the session, which it never drops. *)
LEMMA MergeFacts ==
    ASSUME NEW obs \in Snapshots, NEW prev \in Snapshots \cup {NoSnapshot}
    PROVE  /\ Merge(obs, prev) \in Snapshots
           /\ Merge(obs, prev).state = obs.state
           /\ prev.session # Nothing => Merge(obs, prev).session # Nothing
  BY NothingIsNoState DEF Merge, Snapshots, NoSnapshot

(* The event of a pass that writes tells the transition it makes. *)
LEMMA EventFacts ==
    ASSUME NEW how \in {"poll", "heartbeat"}, NEW snap \in Snapshots,
           NEW prev \in Snapshots \cup {NoSnapshot}
    PROVE  /\ EventFor(how, prev, snap) \in Events \cup {NoEvent}
           /\ EventFor(how, prev, snap) = NoEvent => prev.state = snap.state
           /\ EventFor(how, prev, snap) # NoEvent =>
                /\ EventFor(how, prev, snap).to = snap.state
                /\ EventFor(how, prev, snap).from = prev.state
  BY NothingIsNoState
     DEF EventFor, Events, NoEvent, Snapshots, NoSnapshot

LEMMA InitInv == Init => IInv
  <1> SUFFICES ASSUME Init PROVE IInv
    OBVIOUS
  <1>1. /\ artifact \in RunStates
        /\ status = NoSnapshot /\ recorded = Nothing /\ faults = 0
        /\ lost = FALSE /\ holders = {} /\ compromised = FALSE
    BY ShownAssumption DEF Init, Lock!Init
  <1>2. /\ pc \in [Monitors -> PCs]
        /\ mode \in [Monitors -> {"poll", "heartbeat"}]
        /\ next \in [Monitors -> Snapshots \cup {NoSnapshot}]
        /\ event \in [Monitors -> Events \cup {NoEvent}]
        /\ \A m \in Monitors : pc[m] = "idle"
        /\ torn \in BOOLEAN
    BY Zenon DEF Init, PCs
  <1>3. NoSnapshot.state = Nothing
    BY DEF NoSnapshot
  <1>4. TypeInv
    <2>1. torn \in BOOLEAN /\ lost \in BOOLEAN /\ compromised \in BOOLEAN
      BY <1>1, <1>2, Zenon
    <2>2. \A m \in Monitors :
            pc[m] \notin {"observed", "load", "write", "append"}
      BY <1>2
    <2> QED
      BY <1>1, <1>2, <2>1, <2>2 DEF TypeInv, TypeOK
  <1>5. holders = Busy
    BY <1>1, <1>2 DEF Busy
  <1> QED
    BY <1>1, <1>2, <1>3, <1>4, <1>5 DEF IInv, ExclusivePasses

(* Becomes stays among the states of the model. *)
LEMMA BecomesStates == ASSUME NEW s PROVE Becomes(s) \subseteq RunStates
  BY ShownAssumption DEF Becomes

(* What Decide leaves behind. *)
LEMMA DecideFacts ==
    ASSUME TypeInv, NEW m \in Monitors, pc[m] = "load",
           NEW prev \in Snapshots \cup {NoSnapshot}, Decide(m, prev)
    PROVE  /\ next' \in [Monitors -> Snapshots \cup {NoSnapshot}]
           /\ event' \in [Monitors -> Events \cup {NoEvent}]
           /\ pc' \in [Monitors -> PCs]
           /\ pc'[m] \in {"write", "release"}
           /\ next'[m] \in Snapshots
           /\ \A n \in Monitors \ {m} :
                /\ next'[n] = next[n] /\ event'[n] = event[n]
                /\ pc'[n] = pc[n]
           /\ event'[m] = NoEvent => prev.state = next'[m].state
           /\ event'[m] # NoEvent =>
                event'[m].to = next'[m].state /\ event'[m].from = prev.state
           /\ prev.session # Nothing => next'[m].session # Nothing
  <1> DEFINE snap == Merge(next[m], prev)
             ev == EventFor(mode[m], prev, snap)
  <1>1. next[m] \in Snapshots /\ mode[m] \in {"poll", "heartbeat"}
    BY DEF TypeInv, TypeOK
  <1>2. /\ snap \in Snapshots
        /\ prev.session # Nothing => snap.session # Nothing
    BY <1>1, MergeFacts
  <1>3. /\ ev \in Events \cup {NoEvent}
        /\ ev = NoEvent => prev.state = snap.state
        /\ ev # NoEvent => ev.to = snap.state /\ ev.from = prev.state
    BY <1>1, <1>2, EventFacts
  <1>4. /\ next' = [next EXCEPT ![m] = snap]
        /\ event' = [event EXCEPT ![m] = ev]
        /\ \/ pc' = [pc EXCEPT ![m] = "write"]
           \/ pc' = [pc EXCEPT ![m] = "release"]
    BY DEF Decide, Goto
  <1> HIDE DEF snap, ev
  <1> QED
    BY <1>2, <1>3, <1>4 DEF TypeInv, TypeOK, PCs

(* A run whose files cannot be looked at is not taken for a decided one.   *)
LEMMA MistakesAreOpen ==
    ASSUME NEW s, NEW state \in MistakenFor(s)
    PROVE  state \in RunStates \ Verdicts
  BY DEF MistakenFor, RunStates, OpenStates, TerminalStates, Verdicts

LEMMA TypeStep == TypeInv /\ [Next]_vars => TypeInv'
  <1> SUFFICES ASSUME TypeInv, [Next]_vars PROVE TypeInv'
    OBVIOUS
  <1> USE DEF TypeInv, TypeOK, PCs, Goto, lockVars, passVars, historyVars
  <1>1. ASSUME NEW m \in Monitors, Observe(m) PROVE TypeInv'
    <2>1. PICK how \in {"poll", "heartbeat"}, detail \in Details,
               session \in Sessions \cup {Nothing} :
            /\ mode' = [mode EXCEPT ![m] = how]
            /\ next' = [next EXCEPT ![m] = Observed(session, detail)]
      BY <1>1 DEF Observe
    <2>2. Observed(session, detail) \in Snapshots
      BY DEF Observed, Snapshots
    <2> QED
      BY <1>1, <2>1, <2>2 DEF Observe
  <1>14. ASSUME NEW m \in Monitors, ObserveError(m) PROVE TypeInv'
    <2>1. PICK how \in {"poll", "heartbeat"}, detail \in Details,
               session \in Sessions \cup {Nothing},
               state \in MistakenFor(artifact) :
            /\ mode' = [mode EXCEPT ![m] = how]
            /\ next' = [next EXCEPT ![m] = [state |-> state,
                                           session |-> session,
                                           detail |-> detail]]
      BY <1>14 DEF ObserveError
    <2>2. [state |-> state, session |-> session, detail |-> detail]
            \in Snapshots
      BY MistakesAreOpen DEF Snapshots
    <2> QED
      BY <1>14, <2>1, <2>2 DEF ObserveError, Fault
  <1>2. ASSUME NEW m \in Monitors, Skip(m) \/ Restart(m) PROVE TypeInv'
    BY <1>2 DEF Skip, Forget, Restart
  <1>3. ASSUME NEW m \in Monitors, Acquire(m) PROVE TypeInv'
    BY <1>3 DEF Acquire, Enter, Lock!Acquire
  <1>4. ASSUME NEW m \in Monitors, Load(m) \/ LoadError(m) PROVE TypeInv'
    <2>1. PICK prev \in Snapshots \cup {NoSnapshot} : Decide(m, prev)
      BY <1>4 DEF Load, LoadError
    <2>2. pc[m] = "load"
      BY <1>4 DEF Load, LoadError
    <2>3. /\ next' \in [Monitors -> Snapshots \cup {NoSnapshot}]
          /\ event' \in [Monitors -> Events \cup {NoEvent}]
          /\ pc' \in [Monitors -> PCs]
          /\ pc'[m] \in {"write", "release"}
          /\ next'[m] \in Snapshots
          /\ \A n \in Monitors \ {m} :
                next'[n] = next[n] /\ event'[n] = event[n] /\ pc'[n] = pc[n]
      BY <2>1, <2>2, DecideFacts
    <2>4. /\ UNCHANGED <<artifact, status, recorded, torn, lost, holders,
                         compromised>>
          /\ mode' = [mode EXCEPT ![m] = "poll"]
          /\ faults' \in Nat
      BY <1>4 DEF Load, LoadError, Decide, Fault
    <2> QED
      BY <2>3, <2>4
  <1>5. ASSUME NEW m \in Monitors, WriteStatus(m) PROVE TypeInv'
    BY <1>5 DEF WriteStatus
  <1>6. ASSUME NEW m \in Monitors, WriteError(m) PROVE TypeInv'
    BY <1>6 DEF WriteError, Fault
  <1>7. ASSUME NEW m \in Monitors, AppendEvent(m) PROVE TypeInv'
    BY <1>7 DEF AppendEvent, Events
  <1>8. ASSUME NEW m \in Monitors, AppendError(m) PROVE TypeInv'
    BY <1>8 DEF AppendError, EventLost, Fault
  <1>9. ASSUME NEW m \in Monitors, Release(m) PROVE TypeInv'
    BY <1>9 DEF Release, Leave, Forget, Lock!Release
  <1>10. ASSUME NEW m \in Monitors, Crash(m) PROVE TypeInv'
    <2>1. /\ pc' = [pc EXCEPT ![m] = "down"]
          /\ next' = [next EXCEPT ![m] = NoSnapshot]
          /\ event' = [event EXCEPT ![m] = NoEvent]
          /\ faults' = faults + 1
          /\ mode' = [mode EXCEPT ![m] = "poll"]
          /\ UNCHANGED <<artifact, status, recorded>>
      BY <1>10 DEF Crash, Die, Forget, EventLost, Fault
    <2>2. torn' \in BOOLEAN /\ lost' \in BOOLEAN
      BY <1>10, Zenon DEF Crash, Die, Forget, EventLost
    <2>3. holders' \in SUBSET Monitors /\ compromised' \in BOOLEAN
      BY <1>10 DEF Crash, Lock!Release
    <2> QED
      BY <2>1, <2>2, <2>3
  <1>11. CASE Evolve
    BY <1>11, BecomesStates DEF Evolve
  <1>12. CASE Compromise
    BY <1>12 DEF Compromise, Lock!Compromise
  <1>13. CASE UNCHANGED vars
    BY <1>13 DEF vars
  <1> QED
    BY <1>1, <1>2, <1>3, <1>4, <1>5, <1>6, <1>7, <1>8, <1>9, <1>10, <1>11,
       <1>12, <1>13, <1>14 DEF Next, Work

(* The lock of AdvisoryLock is held exactly between acquire and release. *)
LEMMA BusyStep == TypeInv /\ holders = Busy /\ [Next]_vars => (holders = Busy)'
  <1> SUFFICES ASSUME TypeInv, holders = Busy, [Next]_vars
               PROVE holders' = Busy'
    OBVIOUS
  <1> USE DEF TypeInv, TypeOK, PCs, Goto, lockVars, passVars, historyVars, Busy
  <1>1. ASSUME NEW m \in Monitors, Observe(m) \/ ObserveError(m)
        PROVE holders' = Busy'
    BY <1>1 DEF Observe, ObserveError
  <1>2. ASSUME NEW m \in Monitors, Skip(m) \/ Restart(m)
        PROVE holders' = Busy'
    BY <1>2 DEF Skip, Forget, Restart
  <1>3. ASSUME NEW m \in Monitors, Acquire(m) PROVE holders' = Busy'
    BY <1>3 DEF Acquire, Enter, Lock!Acquire
  <1>4. ASSUME NEW m \in Monitors, Load(m) \/ LoadError(m)
        PROVE holders' = Busy'
    BY <1>4 DEF Load, LoadError, Decide
  <1>5. ASSUME NEW m \in Monitors,
               \/ WriteStatus(m) \/ WriteError(m)
               \/ AppendEvent(m) \/ AppendError(m)
        PROVE holders' = Busy'
    BY <1>5 DEF WriteStatus, WriteError, AppendEvent, AppendError
  <1>6. ASSUME NEW m \in Monitors, Release(m) PROVE holders' = Busy'
    BY <1>6 DEF Release, Leave, Forget, Lock!Release
  <1>7. ASSUME NEW m \in Monitors, Crash(m) PROVE holders' = Busy'
    BY <1>7 DEF Crash, Die, Forget, Lock!Release
  <1>8. CASE Evolve
    BY <1>8 DEF Evolve
  <1>9. CASE Compromise
    BY <1>9 DEF Compromise, Lock!Compromise
  <1>10. CASE UNCHANGED vars
    BY <1>10 DEF vars
  <1> QED
    BY <1>1, <1>2, <1>3, <1>4, <1>5, <1>6, <1>7, <1>8, <1>9, <1>10
       DEF Next, Work

(* Under an exclusive lock no step of any pass, crash or I/O error breaks  *)
(* what the passes rely on.                                                *)
LEMMA PassStep ==
    IInv /\ TypeInv' /\ [Next]_vars => (compromised \/ ExclusivePasses)'
  <1> SUFFICES ASSUME IInv, TypeInv', [Next]_vars, ~compromised'
               PROVE ExclusivePasses'
    OBVIOUS
  <1>1. ~compromised
    <2>1. ASSUME NEW m \in Monitors,
                 \/ Work(m) \/ ObserveError(m) \/ LoadError(m)
                 \/ WriteError(m) \/ AppendError(m) \/ Crash(m) \/ Restart(m)
          PROVE ~compromised
      BY <2>1 DEF Work, Observe, ObserveError, Skip, Acquire, Enter, Load,
         WriteStatus, AppendEvent, Release, Leave, LoadError, WriteError,
         AppendError, Crash, Die, Restart, Lock!Acquire, Lock!Release, lockVars
    <2>2. CASE Evolve \/ Compromise \/ UNCHANGED vars
      BY <2>2 DEF Evolve, Compromise, Lock!Compromise, vars, lockVars
    <2> QED
      BY <2>1, <2>2 DEF Next
  <1>2. TypeInv /\ holders = Busy /\ ExclusivePasses
    BY <1>1 DEF IInv
  <1> USE <1>2 DEF TypeInv, TypeOK, PCs, Goto, lockVars, passVars,
                   historyVars, Busy,
                   ExclusivePasses, WritePlan, AppendPlan
  <1>3. ASSUME NEW m \in Monitors, Observe(m) \/ ObserveError(m)
        PROVE ExclusivePasses'
    BY <1>3 DEF Observe, ObserveError
  <1>4. ASSUME NEW m \in Monitors, Skip(m) \/ Restart(m)
        PROVE ExclusivePasses'
    BY <1>4 DEF Skip, Forget, Restart
  <1>5. ASSUME NEW m \in Monitors, Acquire(m) PROVE ExclusivePasses'
    (* the lock was free, so nobody is at work on the run *)
    BY <1>1, <1>5 DEF Acquire, Enter, Lock!Acquire
  <1>6. ASSUME NEW m \in Monitors, Load(m) \/ LoadError(m)
        PROVE ExclusivePasses'
    (* whatever was read, the plan fits the status on disk *)
    <2>1. PICK prev \in {status, NoSnapshot} : Decide(m, prev)
      BY <1>6 DEF Load, LoadError
    <2>2. pc[m] = "load" /\ m \in Busy
      BY <1>6 DEF Load, LoadError
    <2>3. UNCHANGED <<status, recorded, lost, holders>>
      BY <1>6 DEF Load, LoadError
    <2>4. prev \in Snapshots \cup {NoSnapshot}
      BY <2>1
    <2>5. /\ pc'[m] \in {"write", "release"}
          /\ \A n \in Monitors \ {m} :
                /\ next'[n] = next[n] /\ event'[n] = event[n]
                /\ pc'[n] = pc[n]
          /\ event'[m] = NoEvent => prev.state = next'[m].state
          /\ event'[m] # NoEvent =>
                event'[m].to = next'[m].state /\ event'[m].from = prev.state
          /\ prev.session # Nothing => next'[m].session # Nothing
          /\ next'[m] \in Snapshots
      BY <2>1, <2>2, <2>4, DecideFacts
    <2>6. WritePlan(m)'
      <3>1. CASE prev = status
        BY <2>3, <2>5, <3>1
      <3>2. CASE prev = NoSnapshot
        (* a new run, so there is an event, and it comes from nowhere *)
        <4>1. prev.state = Nothing
          BY <3>2 DEF NoSnapshot
        <4>2. next'[m].state # Nothing
          BY <2>5, NothingIsNoState DEF Snapshots
        <4>3. event'[m] # NoEvent
          BY <2>5, <4>1, <4>2
        <4> QED
          BY <2>5, <4>1, <4>3
      <3> QED
        BY <2>1, <3>1, <3>2
    <2> QED
      BY <2>2, <2>3, <2>5, <2>6
  <1>7. ASSUME NEW m \in Monitors, WriteStatus(m) PROVE ExclusivePasses'
    (* m alone is past the lock: the event it owes tells the transition *)
    <2>1. \A n \in Monitors : n \in Busy => n = m
      BY <1>7 DEF WriteStatus
    <2> QED
      BY <1>7, <2>1 DEF WriteStatus
  <1>8. ASSUME NEW m \in Monitors, WriteError(m) PROVE ExclusivePasses'
    BY <1>8 DEF WriteError
  <1>9. ASSUME NEW m \in Monitors, AppendEvent(m) \/ AppendError(m)
        PROVE ExclusivePasses'
    <2>1. \A n \in Monitors : n \in Busy => n = m
      BY <1>9 DEF AppendEvent, AppendError
    <2> QED
      BY <1>9, <2>1 DEF AppendEvent, AppendError, EventLost
  <1>10. ASSUME NEW m \in Monitors, Release(m) PROVE ExclusivePasses'
    BY <1>10 DEF Release, Leave, Forget, Lock!Release
  <1>11. ASSUME NEW m \in Monitors, Crash(m) PROVE ExclusivePasses'
    <2>1. CASE m \in Busy
      <3>1. \A n \in Monitors : n \in Busy => n = m
        BY <2>1
      <3> QED
        BY <1>11, <2>1, <3>1 DEF Crash, Die, Forget, EventLost, Lock!Release
    <2>2. CASE m \notin Busy
      BY <1>11, <2>2 DEF Crash, Die, Forget
    <2> QED
      BY <2>1, <2>2
  <1>12. CASE Evolve \/ UNCHANGED vars
    BY <1>12 DEF Evolve, vars
  <1>13. CASE Compromise
    BY <1>13 DEF Compromise, Lock!Compromise
  <1> QED
    BY <1>3, <1>4, <1>5, <1>6, <1>7, <1>8, <1>9, <1>10, <1>11, <1>12, <1>13
       DEF Next, Work

LEMMA InvStep == IInv /\ [Next]_vars => IInv'
  BY TypeStep, BusyStep, PassStep DEF IInv

LEMMA Invariant == Spec => []IInv
  BY InitInv, InvStep, PTL DEF Spec

----------------------------------------------------------------------------
(* Every variable of MonitorRun has its type in every reachable state. *)
THEOREM TypeCorrect == Spec => []TypeOK
  BY Invariant, PTL DEF IInv, TypeInv

(* Under an exclusive lock the history and the status agree between        *)
(* passes, if the last append was not lost.                                *)
LEMMA InvAgrees == IInv => HistoryAgrees
  BY DEF IInv, ExclusivePasses, HistoryAgrees

THEOREM Agreement == Spec => []HistoryAgrees
  BY InvAgrees, Invariant, PTL

(* Only an append moves the end of the history. *)
LEMMA OnlyAppendsRecord ==
    ASSUME [Next]_vars, recorded' # recorded
    PROVE  \E m \in Monitors : AppendEvent(m)
  BY DEF Next, Work, Observe, ObserveError, Skip, Acquire, Enter, Load,
     WriteStatus, Release, Leave, LoadError, WriteError, AppendError, Crash,
     Die, EventLost, Restart, Evolve, Compromise, vars, historyVars

(* Only writeStatus touches the status. *)
LEMMA OnlyWritesShow ==
    ASSUME [Next]_vars, status' # status
    PROVE  \E m \in Monitors : WriteStatus(m)
  BY DEF Next, Work, Observe, ObserveError, Skip, Acquire, Enter, Load,
     AppendEvent, Release, Leave, LoadError, WriteError, AppendError, Crash,
     Die, EventLost, Restart, Evolve, Compromise, vars, historyVars

(* An append under an exclusive lock goes on from the end of the history.  *)
LEMMA PathStep ==
    IInv /\ [Next]_vars =>
        (recorded' # recorded =>
            \/ compromised \/ lost
            \/ \E m \in Monitors : /\ pc[m] = "append"
                                   /\ event[m].to = recorded'
                                   /\ event[m].from \in {recorded, Nothing})
  <1> SUFFICES ASSUME IInv, [Next]_vars, recorded' # recorded,
                      ~compromised, ~lost
               PROVE \E m \in Monitors :
                        /\ pc[m] = "append"
                        /\ event[m].to = recorded'
                        /\ event[m].from \in {recorded, Nothing}
    OBVIOUS
  <1>1. PICK m \in Monitors : AppendEvent(m)
    BY OnlyAppendsRecord
  <1>2. pc[m] = "append" /\ recorded' = event[m].to
    BY <1>1 DEF AppendEvent
  <1>3. event[m].from \in {recorded, Nothing}
    BY <1>2 DEF IInv, ExclusivePasses, AppendPlan
  <1> QED
    BY <1>2, <1>3

(* Under an exclusive lock, and lost events and unreadable statuses aside, *)
(* each transition in the history starts where the previous one ended.     *)
THEOREM HistoryPath == Spec => HistoryIsAPath
  BY PathStep, Invariant, PTL DEF Spec, HistoryIsAPath

(* Only a pass that could not read the status writes one without session.  *)
LEMMA SessionStep ==
    IInv /\ [Next]_vars =>
        (status.session # Nothing /\ status'.session = Nothing =>
            \/ compromised
            \/ \E m \in Monitors : /\ pc[m] = "write"
                                   /\ event[m].from = Nothing
                                   /\ event[m] # NoEvent)
  <1> SUFFICES ASSUME IInv, [Next]_vars, ~compromised,
                      status.session # Nothing, status'.session = Nothing
               PROVE \E m \in Monitors :
                        /\ pc[m] = "write"
                        /\ event[m].from = Nothing
                        /\ event[m] # NoEvent
    OBVIOUS
  <1>1. PICK m \in Monitors : WriteStatus(m)
    BY OnlyWritesShow
  <1>2. pc[m] = "write" /\ next[m].session = Nothing
    BY <1>1 DEF WriteStatus
  <1>3. event[m].from = Nothing /\ event[m] # NoEvent
    BY <1>2 DEF IInv, ExclusivePasses, WritePlan
  <1> QED
    BY <1>2, <1>3

(* Under an exclusive lock a session, once attributed, is not forgotten.   *)
THEOREM SessionKept == Spec => SessionIsSticky
  BY SessionStep, Invariant, PTL DEF Spec, SessionIsSticky

----------------------------------------------------------------------------
(* A verdict under way to status.json is the wrapper's too. *)
VerdictInv ==
    /\ VerdictsAreTrue
    /\ \A m \in Monitors :
            next[m].state \in Verdicts => artifact = next[m].state

(* A report that has a verdict is not replaced. *)
LEMMA VerdictHasNoSuccessor ==
    ASSUME NEW s \in Verdicts PROVE Becomes(s) = {}
  <1>1. s \in {"finished", "timed-out", "failed"}
    BY DEF Verdicts
  <1>2. Becomes(s) = Shown \cap {}
    BY DEF Becomes, Successors, Verdicts
  <1> QED
    BY <1>2

LEMMA NothingIsNoVerdict == Nothing \notin Verdicts
  BY NothingIsNoState, VerdictsAreStates

LEMMA VerdictStep == TypeInv /\ VerdictInv /\ [Next]_vars => VerdictInv'
  <1> SUFFICES ASSUME TypeInv, VerdictInv, [Next]_vars PROVE VerdictInv'
    OBVIOUS
  <1>0. NoSnapshot.state = Nothing
    BY DEF NoSnapshot
  <1> USE <1>0, NothingIsNoVerdict
      DEF VerdictInv, VerdictsAreTrue, TypeInv, TypeOK, passVars
  <1>1. ASSUME NEW m \in Monitors, Observe(m) PROVE VerdictInv'
    <2>1. PICK detail \in Details, session \in Sessions \cup {Nothing} :
            next' = [next EXCEPT ![m] = Observed(session, detail)]
      BY <1>1 DEF Observe
    <2>2. Observed(session, detail).state = artifact
      BY DEF Observed
    <2> QED
      BY <1>1, <2>1, <2>2 DEF Observe
  <1>8. ASSUME NEW m \in Monitors, ObserveError(m) PROVE VerdictInv'
    <2>1. PICK detail \in Details, session \in Sessions \cup {Nothing},
               state \in MistakenFor(artifact) :
            next' = [next EXCEPT ![m] = [state |-> state,
                                           session |-> session,
                                           detail |-> detail]]
      BY <1>8 DEF ObserveError
    <2>2. state \notin Verdicts
      BY MistakesAreOpen
    <2> QED
      BY <1>8, <2>1, <2>2 DEF ObserveError
  <1>2. ASSUME NEW m \in Monitors, Load(m) \/ LoadError(m) PROVE VerdictInv'
    <2>1. PICK prev \in Snapshots \cup {NoSnapshot} : Decide(m, prev)
      BY <1>2 DEF Load, LoadError
    <2>2. /\ next' = [next EXCEPT ![m] = Merge(next[m], prev)]
          /\ UNCHANGED <<artifact, status>>
      BY <1>2, <2>1 DEF Decide, Load, LoadError
    <2>3. Merge(next[m], prev).state = next[m].state
      <3>1. next[m] \in Snapshots
        BY <1>2 DEF Load, LoadError
      <3> QED
        BY <2>1, <3>1, MergeFacts
    <2> QED
      BY <2>2, <2>3
  <1>3. ASSUME NEW m \in Monitors, WriteStatus(m) PROVE VerdictInv'
    BY <1>3 DEF WriteStatus
  <1>4. ASSUME NEW m \in Monitors,
               \/ Acquire(m) \/ AppendEvent(m) \/ WriteError(m)
               \/ AppendError(m) \/ Restart(m)
        PROVE VerdictInv'
    BY <1>4 DEF Acquire, Enter, AppendEvent, WriteError, AppendError, Restart
  <1>5. ASSUME NEW m \in Monitors, Skip(m) \/ Release(m) \/ Crash(m)
        PROVE VerdictInv'
    <2>1. /\ next' = [next EXCEPT ![m] = NoSnapshot]
          /\ UNCHANGED <<artifact, status>>
      BY <1>5 DEF Skip, Release, Leave, Forget, Crash, Die
    <2> QED
      BY <2>1
  <1>6. CASE Evolve
    <2>1. artifact \notin Verdicts
      BY <1>6, VerdictHasNoSuccessor DEF Evolve
    <2> QED
      BY <1>6, <2>1 DEF Evolve
  <1>7. CASE Compromise \/ UNCHANGED vars
    BY <1>7 DEF Compromise, vars
  <1> QED
    BY <1>1, <1>2, <1>3, <1>4, <1>5, <1>6, <1>7, <1>8 DEF Next, Work

LEMMA VerdictInit == Init => VerdictInv
  BY NothingIsNoVerdict DEF Init, VerdictInv, VerdictsAreTrue, NoSnapshot

(* status.json never shows a verdict that the wrapper did not give: with   *)
(* several monitors, old observations, faults and a broken lock alike.     *)
THEOREM TrueVerdicts == Spec => []VerdictsAreTrue
  <1>1. Init => VerdictInv
    BY VerdictInit
  <1>2. IInv => TypeInv
    BY DEF IInv
  <1>3. TypeInv /\ VerdictInv /\ [Next]_vars => VerdictInv'
    BY VerdictStep
  <1>4. VerdictInv => VerdictsAreTrue
    BY DEF VerdictInv
  <1> QED
    BY <1>1, <1>2, <1>3, <1>4, Invariant, PTL DEF Spec

----------------------------------------------------------------------------
(* No event is lost, and no line torn, before the first fault. *)
Faultless == lost \/ torn => faults > 0

LEMMA FaultlessStep == TypeInv /\ Faultless /\ [Next]_vars => Faultless'
  <1> SUFFICES ASSUME TypeInv, Faultless, [Next]_vars PROVE Faultless'
    OBVIOUS
  <1> USE DEF TypeInv, TypeOK, Faultless, historyVars
  <1>1. faults' \in Nat /\ faults' >= faults
    BY DEF Next, Work, Observe, ObserveError, Skip, Acquire, Enter, Load,
       WriteStatus, AppendEvent, Release, Leave, LoadError, WriteError,
       AppendError, Crash, Die, Restart, Evolve, Compromise, Fault, vars
  <1>2. ASSUME NEW m \in Monitors, AppendError(m) \/ Crash(m)
        PROVE faults' > 0
    BY <1>2 DEF AppendError, Crash, Die, Fault
  <1>3. ASSUME NEW m \in Monitors, AppendEvent(m) PROVE Faultless'
    <2>1. faults' = faults /\ torn' = FALSE
      BY <1>3 DEF AppendEvent
    <2>2. PICK glued \in {torn, FALSE} :
            lost' = (glued /\ event[m].to # recorded)
      BY <1>3, Zenon DEF AppendEvent
    <2>3. lost' => glued
      BY <2>2, Zenon
    <2>4. lost' => torn
      <3>1. CASE glued = torn
        BY <2>3, <3>1, Zenon
      <3>2. CASE glued = FALSE
        BY <2>3, <3>2, Zenon
      <3> QED
        BY <3>1, <3>2, <2>2, Zenon
    <2> QED
      BY <2>1, <2>4
  <1>4. ASSUME NEW m \in Monitors,
               \/ Observe(m) \/ ObserveError(m) \/ Skip(m) \/ Acquire(m)
               \/ Load(m) \/ LoadError(m) \/ WriteStatus(m) \/ WriteError(m)
               \/ Release(m) \/ Restart(m)
        PROVE UNCHANGED <<lost, torn>>
    BY <1>4 DEF Observe, ObserveError, Skip, Acquire, Enter, Load, LoadError,
       WriteStatus, WriteError, Release, Leave, Restart
  <1>5. CASE Evolve \/ Compromise \/ UNCHANGED vars
    BY <1>1, <1>5 DEF Evolve, Compromise, vars
  <1> QED
    BY <1>1, <1>2, <1>3, <1>4, <1>5 DEF Next, Work

(* What HistoryAgrees says, with faults in place of the events they cost.  *)
AgreesUnlessFaulted ==
    ~compromised /\ faults = 0 /\ (\A m \in Monitors : pc[m] # "append")
        => recorded = status.state

(* Until something fails or the lock is compromised, readers of the events *)
(* and of the status agree between any two passes: it takes a fault to     *)
(* lose an event.                                                          *)
THEOREM FaultlessAgreement == Spec => []AgreesUnlessFaulted
  <1>1. Init => Faultless
    BY DEF Init, Faultless
  <1>2. IInv => TypeInv
    BY DEF IInv
  <1>3. Faultless /\ HistoryAgrees /\ TypeInv =>
            AgreesUnlessFaulted
    BY DEF Faultless, HistoryAgrees, AgreesUnlessFaulted
  <1> QED
    BY <1>1, <1>2, <1>3, FaultlessStep, Invariant, Agreement, PTL DEF Spec

----------------------------------------------------------------------------
(* The status and the history implement RunRecord. *)

LEMMA RecordInit == Init => Record!Init
  BY DEF Init, Record!Init, NoSnapshot, Lock!Init

(* A step outside the two writes and their failures is invisible to        *)
(* readers.                                                                *)
LEMMA Invisible ==
    ASSUME TypeInv, NEW m \in Monitors,
           \/ Observe(m) \/ ObserveError(m) \/ Skip(m) \/ Acquire(m)
           \/ Load(m) \/ LoadError(m) \/ WriteError(m) \/ Release(m)
           \/ Restart(m)
           \/ Crash(m) /\ pc[m] # "append"
    PROVE  UNCHANGED Record!vars
  <1>1. UNCHANGED <<artifact, status, recorded, compromised>>
    BY DEF Observe, ObserveError, Skip, Acquire, Enter, Load, LoadError,
       WriteError, Release, Leave, Restart, Crash, Die, historyVars, lockVars,
       Lock!Acquire, Lock!Release
  <1>2. pc[m] # "append" /\ pc'[m] # "append"
        /\ \A n \in Monitors \ {m} : pc'[n] = pc[n]
    BY DEF Observe, ObserveError, Skip, Acquire, Enter, Load, LoadError,
       Decide, WriteError, Release, Leave, Restart, Crash, Die, Goto, TypeInv,
       TypeOK
  <1>3. (\E n \in Monitors : pc'[n] = "append")
            <=> (\E n \in Monitors : pc[n] = "append")
    BY <1>2
  <1> QED
    BY <1>1, <1>3 DEF Record!vars

LEMMA RecordStep ==
    IInv /\ VerdictInv /\ [Next]_vars => [Record!Next]_(Record!vars)
  <1> SUFFICES ASSUME IInv, VerdictInv, [Next]_vars
               PROVE Record!Next \/ UNCHANGED Record!vars
    OBVIOUS
  <1> DEFINE Due == \E n \in Monitors : pc[n] = "append"
  <1>0. TypeInv /\ holders = Busy
    BY DEF IInv
  <1>1. ASSUME NEW m \in Monitors, WriteStatus(m) PROVE Record!Next
    <2>1. /\ pc[m] = "write" /\ next[m] \in Snapshots /\ status' = next[m]
          /\ UNCHANGED <<artifact, recorded, compromised, event>>
          /\ \A n \in Monitors \ {m} : pc'[n] = pc[n]
          /\ pc'[m] = IF event[m] = NoEvent THEN "release" ELSE "append"
      BY <1>0, <1>1 DEF WriteStatus, Goto, TypeInv, TypeOK, historyVars,
         passVars, lockVars
    <2>2. /\ status'.state \in RunStates
          /\ status'.state \in Verdicts => artifact = status'.state
      BY <2>1 DEF Snapshots, VerdictInv
    <2>3. CASE compromised
      BY <2>1, <2>2, <2>3 DEF Record!Next, Record!Race, Record!RunStates,
         RunStates,
         Record!Verdicts, Verdicts, Record!OpenStates, OpenStates,
         Record!TerminalStates, TerminalStates
    <2>4. CASE ~compromised
      <3>1. \A n \in Monitors : n \in Busy => n = m
        BY <1>0, <2>1, <2>4 DEF IInv, ExclusivePasses, Busy
      <3>2. ~Due
        BY <2>1, <3>1 DEF Busy
      <3>3. status'.state # status.state => Due'
        BY <2>1, <2>4 DEF IInv, ExclusivePasses, WritePlan
      <3> QED
        BY <2>1, <2>2, <3>2, <3>3 DEF Record!Next, Record!Show,
           Record!RunStates, RunStates, Record!Verdicts, Verdicts,
           Record!OpenStates, OpenStates, Record!TerminalStates,
           TerminalStates
    <2> QED
      BY <2>3, <2>4
  <1>2. ASSUME NEW m \in Monitors,
               \/ AppendEvent(m) \/ AppendError(m)
               \/ Crash(m) /\ pc[m] = "append"
        PROVE Record!Next
    <2>1. /\ pc[m] = "append" /\ event[m] \in Events
          /\ recorded' \in {recorded, event[m].to}
          /\ UNCHANGED <<artifact, status, compromised>>
          /\ \A n \in Monitors \ {m} : pc'[n] = pc[n]
          /\ pc'[m] # "append"
      BY <1>0, <1>2 DEF AppendEvent, AppendError, Crash, Die, EventLost, Goto,
         TypeInv, TypeOK, lockVars, Lock!Release
    <2>2. event[m].to \in RunStates
      BY <2>1 DEF Events
    <2>3. CASE compromised
      BY <2>1, <2>2, <2>3 DEF Record!Next, Record!Race, Record!RunStates,
         RunStates,
         Record!OpenStates, OpenStates, Record!TerminalStates, TerminalStates
    <2>4. CASE ~compromised
      <3>1. \A n \in Monitors : n \in Busy => n = m
        BY <1>0, <2>1, <2>4 DEF IInv, ExclusivePasses, Busy
      <3>2. Due /\ ~Due'
        BY <2>1, <3>1 DEF Busy
      <3>3. event[m].to = status.state
        BY <2>1, <2>4 DEF IInv, ExclusivePasses, AppendPlan
      <3>4. CASE recorded' = recorded
        BY <2>1, <3>2, <3>4 DEF Record!Next, Record!Lose
      <3>5. CASE recorded' = status.state
        BY <2>1, <3>2, <3>5 DEF Record!Next, Record!Tell
      <3> QED
        BY <2>1, <3>3, <3>4, <3>5
    <2> QED
      BY <2>3, <2>4
  <1>3. CASE Evolve
    BY <1>3 DEF Evolve, historyVars, lockVars, Becomes, Successors, Verdicts,
       RunStates, OpenStates, TerminalStates, Record!Next, Record!Evolve,
       Record!Successors, Record!Verdicts, Record!RunStates,
       Record!OpenStates, Record!TerminalStates
  <1>4. CASE Compromise
    BY <1>4 DEF Compromise, Lock!Compromise, historyVars, Record!Next,
       Record!Break
  <1>5. CASE UNCHANGED vars
    BY <1>5 DEF vars, Record!vars
  <1> QED
    BY <1>0, <1>1, <1>2, <1>3, <1>4, <1>5, Invisible DEF Next, Work

(* For whoever reads them, the status and the history are a RunRecord: the *)
(* history is never more than one event behind the status, unless an event *)
(* was lost or the monitors were not kept apart.                           *)
THEOREM RecordKept == Spec => ImplementsRecord
  <1>1. Init => VerdictInv
    BY VerdictInit
  <1>2. IInv => TypeInv
    BY DEF IInv
  <1> QED
    BY <1>1, <1>2, VerdictStep, RecordInit, RecordStep, Invariant, PTL
       DEF Spec, ImplementsRecord, Record!Spec

----------------------------------------------------------------------------
(* A single monitor process.  MonitorRunReopened shows how an old          *)
(* observation of a second one is written over a newer status; one process *)
(* has one observation under way, and it is the newest.                    *)
Lone == \A m, n \in Monitors : m = n

(* The adapter can look at the CLI's files whenever it wants to.  A look   *)
(* that fails reopens a run even with one monitor: without its report the  *)
(* run is live again.                                                      *)
LookSucceeds == \A m \in Monitors : ~ObserveError(m)
LooksSucceed == [][LookSucceeds]_vars

(* The states that the artifacts of a run leave for no open one. *)
Closed == TerminalStates \cup {"unknown"}

(* The status of a closed run stays closed, although a verdict may replace *)
(* "orphaned" ("States after which a run can never change again.",         *)
(* model.mjs:25).                                                          *)
NeverReopened ==
    [][status.state \in Closed => status'.state \in Closed]_vars

(* A verdict that status.json shows is final. *)
VerdictStays ==
    [][status.state \in Verdicts => status'.state = status.state]_vars

(* A closed status means closed artifacts, and an observation under way    *)
(* that is closed as well, with the same verdict.                          *)
ClosedInv ==
    /\ status.state \in Closed => artifact \in Closed
    /\ \A m \in Monitors :
        /\ next[m].state \in Closed => artifact \in Closed
        /\ status.state \in Closed /\ next[m] # NoSnapshot
               => next[m].state \in Closed
        /\ status.state \in Verdicts /\ next[m] # NoSnapshot
               => next[m].state = status.state

LEMMA ClosedFacts ==
    /\ Verdicts \subseteq Closed
    /\ "unknown" \in Closed \ Verdicts
    /\ Nothing \notin Closed
    /\ \A s \in Closed : Becomes(s) \subseteq Closed
  <1>1. /\ Verdicts \subseteq Closed
        /\ "unknown" \in Closed \ Verdicts
        /\ Nothing \notin Closed
    BY NothingIsNoState DEF Closed, TerminalStates, Verdicts, RunStates
  <1>2. ASSUME NEW s \in Closed PROVE Becomes(s) \subseteq Closed
    <2>1. s \in Verdicts \/ s = "unknown" \/ s = "orphaned"
      BY DEF Closed, TerminalStates, Verdicts
    <2>2. CASE s \in Verdicts
      BY <2>2, VerdictHasNoSuccessor
    <2>3. CASE s = "unknown"
      <3>1. Successors(s) = Verdicts
        BY <2>3 DEF Successors, Verdicts
      <3> QED
        BY <3>1, <1>1 DEF Becomes
    <2>4. CASE s = "orphaned"
      <3>1. Successors(s) = Verdicts \cup {"unknown"}
        BY <2>4 DEF Successors, Verdicts
      <3> QED
        BY <3>1, <1>1 DEF Becomes
    <2> QED
      BY <2>1, <2>2, <2>3, <2>4
  <1> QED
    BY <1>1, <1>2

LEMMA ClosedInit == Init => ClosedInv
  BY ClosedFacts DEF Init, ClosedInv, NoSnapshot

LEMMA ClosedStep ==
    Lone /\ TypeInv /\ VerdictsAreTrue /\ ClosedInv
        /\ [Next]_vars /\ [LookSucceeds]_vars
            => ClosedInv'
  <1> SUFFICES ASSUME Lone, TypeInv, VerdictsAreTrue, ClosedInv, [Next]_vars,
                      [LookSucceeds]_vars
               PROVE ClosedInv'
    OBVIOUS
  <1>0. NoSnapshot.state = Nothing
    BY DEF NoSnapshot
  <1> USE <1>0, ClosedFacts DEF ClosedInv, TypeInv, TypeOK, passVars
  <1>1. ASSUME NEW m \in Monitors, Observe(m) PROVE ClosedInv'
    <2>1. PICK detail \in Details, session \in Sessions \cup {Nothing} :
            next' = [next EXCEPT ![m] = Observed(session, detail)]
      BY <1>1 DEF Observe
    <2>2. Observed(session, detail).state = artifact
      BY DEF Observed
    <2> QED
      BY <1>1, <2>1, <2>2 DEF Observe, VerdictsAreTrue
  <1>2. ASSUME NEW m \in Monitors, ObserveError(m) PROVE FALSE
    <2>1. faults' # faults
      BY <1>2 DEF ObserveError, Fault, TypeInv, TypeOK
    <2>2. LookSucceeds
      BY <2>1 DEF vars
    <2> QED
      BY <1>2, <2>2 DEF LookSucceeds
  <1>3. ASSUME NEW m \in Monitors, Load(m) \/ LoadError(m) PROVE ClosedInv'
    <2>1. PICK prev \in Snapshots \cup {NoSnapshot} : Decide(m, prev)
      BY <1>3 DEF Load, LoadError
    <2>2. /\ next' = [next EXCEPT ![m] = Merge(next[m], prev)]
          /\ UNCHANGED <<artifact, status>>
      BY <1>3, <2>1 DEF Decide, Load, LoadError
    <2>3. next[m] \in Snapshots /\ Merge(next[m], prev).state = next[m].state
      <3>1. next[m] \in Snapshots
        BY <1>3 DEF Load, LoadError
      <3> QED
        BY <2>1, <3>1, MergeFacts
    <2>4. next[m] # NoSnapshot
      BY <2>3, NothingIsNoState DEF Snapshots, NoSnapshot
    <2> QED
      BY <2>2, <2>3, <2>4
  <1>4. ASSUME NEW m \in Monitors, WriteStatus(m) PROVE ClosedInv'
    <2>1. /\ status' = next[m] /\ UNCHANGED <<artifact, next>>
      BY <1>4 DEF WriteStatus
    <2>2. \A n \in Monitors : n = m
      BY DEF Lone
    <2> QED
      BY <2>1, <2>2
  <1>5. ASSUME NEW m \in Monitors,
               \/ Acquire(m) \/ AppendEvent(m) \/ WriteError(m)
               \/ AppendError(m) \/ Restart(m)
        PROVE ClosedInv'
    <2>1. UNCHANGED <<artifact, status, next>>
      BY <1>5 DEF Acquire, Enter, AppendEvent, WriteError, AppendError, Restart
    <2> QED
      BY <2>1
  <1>6. ASSUME NEW m \in Monitors, Skip(m) \/ Release(m) \/ Crash(m)
        PROVE ClosedInv'
    <2>1. /\ next' = [next EXCEPT ![m] = NoSnapshot]
          /\ UNCHANGED <<artifact, status>>
      BY <1>6 DEF Skip, Release, Leave, Forget, Crash, Die
    <2> QED
      BY <2>1
  <1>7. CASE Evolve
    <2>1. UNCHANGED <<status, next>>
      BY <1>7 DEF Evolve
    <2>2. artifact \in Closed => artifact' \in Closed
      BY <1>7 DEF Evolve
    <2> QED
      BY <2>1, <2>2
  <1>8. CASE Compromise \/ UNCHANGED vars
    BY <1>8 DEF Compromise, vars
  <1> QED
    BY <1>1, <1>2, <1>3, <1>4, <1>5, <1>6, <1>7, <1>8 DEF Next, Work

LEMMA ShownStep ==
    TypeInv /\ ClosedInv /\ [Next]_vars =>
        /\ status.state \in Closed => status'.state \in Closed
        /\ status.state \in Verdicts => status'.state = status.state
  <1> SUFFICES ASSUME TypeInv, ClosedInv, [Next]_vars, status' # status
               PROVE /\ status.state \in Closed => status'.state \in Closed
                     /\ status.state \in Verdicts
                            => status'.state = status.state
    OBVIOUS
  <1>1. PICK m \in Monitors : WriteStatus(m)
    BY OnlyWritesShow
  <1>2. status' = next[m] /\ next[m] \in Snapshots
    BY <1>1 DEF WriteStatus, TypeInv
  <1>3. next[m] # NoSnapshot
    BY <1>2, NothingIsNoState DEF Snapshots, NoSnapshot
  <1> QED
    BY <1>2, <1>3 DEF ClosedInv

LEMMA LoneInvariant ==
    Lone => (Spec /\ LooksSucceed => [](TypeInv /\ ClosedInv))
  <1> SUFFICES ASSUME Lone
               PROVE Spec /\ LooksSucceed => [](TypeInv /\ ClosedInv)
    OBVIOUS
  <1>1. TypeInv /\ VerdictsAreTrue /\ ClosedInv
            /\ [Next]_vars /\ [LookSucceeds]_vars
                => ClosedInv'
    BY ClosedStep
  <1>2. IInv => TypeInv
    BY DEF IInv
  <1> QED
    BY <1>1, <1>2, ClosedInit, Invariant, TrueVerdicts, PTL
       DEF Spec, LooksSucceed

(* With one monitor process no run is reopened, whatever fails of its own  *)
(* files and even under a broken lock, as long as no look at the CLI's     *)
(* files fails: the status of a closed run never shows it open.            *)
THEOREM LoneNeverReopens == Lone => (Spec /\ LooksSucceed => NeverReopened)
  <1> SUFFICES ASSUME Lone PROVE Spec /\ LooksSucceed => NeverReopened
    OBVIOUS
  <1>1. TypeInv /\ ClosedInv /\ [Next]_vars =>
            (status.state \in Closed => status'.state \in Closed)
    BY ShownStep
  <1> QED
    BY <1>1, LoneInvariant, PTL DEF Spec, NeverReopened

(* ... and a verdict that is shown is shown for good: it takes a second    *)
(* monitor or a failed look to take it back.                               *)
THEOREM LoneVerdictStays == Lone => (Spec /\ LooksSucceed => VerdictStays)
  <1> SUFFICES ASSUME Lone PROVE Spec /\ LooksSucceed => VerdictStays
    OBVIOUS
  <1>1. TypeInv /\ ClosedInv /\ [Next]_vars =>
            (status.state \in Verdicts => status'.state = status.state)
    BY ShownStep
  <1> QED
    BY <1>1, LoneInvariant, PTL DEF Spec, VerdictStays
=============================================================================
