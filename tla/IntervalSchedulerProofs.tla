----------------------- MODULE IntervalSchedulerProofs -----------------------
(* Proofs about IntervalScheduler, for any set of cadences. *)
EXTENDS IntervalScheduler, TLAPS

(* What is known of one cadence: it has one token (a timer or a body), its *)
(* timer can be cleared, and its flag is exactly the history of stop().    *)
CadenceInv(c) ==
    /\ IF body[c] \in {"calling", "awaiting"} THEN armed[c] = 0
                                              ELSE armed[c] <= 1
    /\ armed[c] > 0 => c \in timers /\ ~stopped[c]
    /\ "stop" \in told[c] <=> stopped[c]
    /\ body[c] = "unborn" => armed[c] = 0 /\ ~stopped[c]
    /\ "cleared" \in told[c] => body[c] = "idle" /\ armed[c] = 0
    /\ body[c] = "idle" /\ told[c] = {} => armed[c] > 0

(* The inductive invariant. *)
IInv == TypeOK /\ \A c \in Cadences : CadenceInv(c)

LEMMA InitInv == Init => IInv
  <1> SUFFICES ASSUME Init PROVE IInv
    OBVIOUS
  <1>1. /\ stopped \in [Cadences -> BOOLEAN]
        /\ told \in [Cadences -> SUBSET {"stop", "stopAll", "cleared"}]
        /\ \A c \in Cadences : ~stopped[c] /\ told[c] = {}
    BY Zenon DEF Init
  <1> QED
    BY <1>1 DEF Init, IInv, TypeOK, CadenceInv

(* scheduleNext() for a cadence that has no timer keeps all of it. *)
LEMMA ScheduleFacts ==
    ASSUME IInv, NEW c \in Cadences, armed[c] = 0, body[c] # "idle",
           ScheduleNext(c),
           NEW what \in {"idle"}, Begins(c, what), UNCHANGED <<stopped, told>>
    PROVE  IInv'
  <1>1. CASE stopped[c]
    BY <1>1 DEF ScheduleNext, Begins, IInv, TypeOK, CadenceInv
  <1>2. CASE ~stopped[c]
    BY <1>2 DEF ScheduleNext, Begins, IInv, TypeOK, CadenceInv
  <1> QED
    BY <1>1, <1>2

LEMMA Step == IInv /\ [Next]_vars => IInv'
  <1> SUFFICES ASSUME IInv, [Next]_vars PROVE IInv'
    OBVIOUS
  <1>1. ASSUME NEW c \in Cadences, Every(c) PROVE IInv'
    <2>1. armed[c] = 0 /\ body[c] # "idle"
      BY <1>1 DEF Every, IInv, CadenceInv
    <2> QED
      BY <1>1, <2>1, ScheduleFacts DEF Every
  <1>2. ASSUME NEW c \in Cadences, ReturnNow(c) \/ Settle(c) PROVE IInv'
    <2>1. armed[c] = 0 /\ body[c] # "idle"
      BY <1>2 DEF ReturnNow, Settle, IInv, CadenceInv
    <2> QED
      BY <1>2, <2>1, ScheduleFacts DEF ReturnNow, Settle
  <1>3. ASSUME NEW c \in Cadences, Fire(c) PROVE IInv'
    (* the timer that fires was the only token of c *)
    <2>1. armed[c] = 1 /\ ~stopped[c]
      BY <1>3 DEF Fire, Due, IInv, TypeOK, CadenceInv
    <2> QED
      BY <1>3, <2>1 DEF Fire, Begins, IInv, TypeOK, CadenceInv
  <1>4. ASSUME NEW c \in Cadences, ReturnPromise(c) PROVE IInv'
    BY <1>4
       DEF ReturnPromise, Begins, IInv, TypeOK, CadenceInv
  <1>5. ASSUME NEW c \in Cadences, Stop(c) PROVE IInv'
    <2>1. /\ stopped' \in [Cadences -> BOOLEAN] /\ stopped'[c]
          /\ \A d \in Cadences \ {c} : stopped'[d] = stopped[d]
      BY <1>5, Zenon DEF Stop, StopFlag, IInv, TypeOK
    <2>2. /\ told' \in [Cadences -> SUBSET {"stop", "stopAll", "cleared"}]
          /\ "stop" \in told'[c]
          /\ \A d \in Cadences \ {c} : told'[d] = told[d]
      BY <1>5 DEF Stop, IInv, TypeOK
    <2> QED
      BY <1>5, <2>1, <2>2
         DEF Stop, ClearTimer, IInv, TypeOK, CadenceInv
  <1>6. CASE StopAll
    <2>1. \A c \in Cadences : armed'[c] = 0
      BY <1>6 DEF StopAll, LeftSet, IInv, CadenceInv, TypeOK
    <2> QED
      BY <1>6, <2>1 DEF StopAll, LeftSet, IInv, TypeOK, CadenceInv
  <1>7. CASE UNCHANGED vars
    BY <1>7 DEF vars, IInv, TypeOK, CadenceInv
  <1> QED
    BY <1>1, <1>2, <1>3, <1>4, <1>5, <1>6, <1>7 DEF Next

LEMMA Invariant == Spec => []IInv
  BY InitInv, Step, PTL DEF Spec

(* Every variable of IntervalScheduler has its type. *)
THEOREM TypeCorrect == Spec => []TypeOK
  BY Invariant, PTL DEF IInv

(* A cadence has one timer, or one body under way, never both or two. *)
THEOREM NeverOverlaps == Spec => []NoOverlap
  <1>1. IInv => NoOverlap
    BY DEF IInv, CadenceInv, NoOverlap
  <1> QED
    BY <1>1, Invariant, PTL

(* Every live timer belongs to a running cadence and can be cleared. *)
THEOREM TimersAreTracked == Spec => []NoStrayTimer
  <1>1. IInv => NoStrayTimer
    BY DEF IInv, CadenceInv, NoStrayTimer
  <1> QED
    BY <1>1, Invariant, PTL

(* A cadence that nobody stopped has its next tick before it: a tick under *)
(* way, or exactly one timer, and that one in this._timers.                *)
NeverForgotten ==
    \A c \in Cadences : body[c] # "unborn" /\ told[c] = {} =>
        \/ body[c] \in {"calling", "awaiting"}
        \/ armed[c] = 1 /\ c \in timers

(* No order of ticks, errors and stops of other cadences loses a cadence:  *)
(* the safety side of KeepsTicking, which TLC checks.                      *)
THEOREM NeverLost == Spec => []NeverForgotten
  <1>1. IInv => NeverForgotten
    BY DEF IInv, TypeOK, CadenceInv, NeverForgotten
  <1> QED
    BY <1>1, Invariant, PTL

(* After stop() of a cadence, its fn is not called again. *)
THEOREM StopIsFinal == Spec => StopSilences
  <1> DEFINE A == \A c \in Cadences :
        "stop" \in told[c] /\ body[c] # "calling" => body'[c] # "calling"
  <1>1. IInv /\ [Next]_vars => A
    <2> SUFFICES ASSUME IInv, [Next]_vars,
                        NEW c \in Cadences, stopped[c], body[c] # "calling"
                 PROVE body'[c] # "calling"
      BY DEF IInv, CadenceInv
    <2>1. ASSUME NEW d \in Cadences, Fire(d) PROVE body'[c] # "calling"
      <3>1. d # c
        BY <2>1 DEF Fire, Due, IInv, CadenceInv, TypeOK
      <3> QED
        BY <2>1, <3>1 DEF Fire, Begins, IInv, TypeOK
    <2>2. ASSUME NEW d \in Cadences,
                 \/ Every(d) \/ ReturnNow(d) \/ ReturnPromise(d)
                 \/ Settle(d) \/ Stop(d)
          PROVE body'[c] # "calling"
      BY <2>2 DEF Every, ReturnNow, ReturnPromise, Settle, Stop, Begins, IInv,
         TypeOK
    <2>3. CASE StopAll \/ UNCHANGED vars
      BY <2>3 DEF StopAll, vars
    <2> QED
      BY <2>1, <2>2, <2>3 DEF Next
  <1>2. IInv /\ [Next]_vars => [A]_vars
    BY <1>1
  <1> QED
    BY <1>2, Invariant, PTL DEF Spec, StopSilences

(* A cadence that stopAll() finds between two ticks is not called again. *)
THEOREM StopAllIsFinal == Spec => StopAllSilences
  <1> DEFINE A == \A c \in Cadences :
        "cleared" \in told[c] => body'[c] # "calling"
  <1>1. IInv /\ [Next]_vars => A
    <2> SUFFICES ASSUME IInv, [Next]_vars, NEW c \in Cadences,
                        "cleared" \in told[c]
                 PROVE body'[c] # "calling"
      OBVIOUS
    <2>1. body[c] = "idle" /\ armed[c] = 0
      BY DEF IInv, CadenceInv
    <2>2. ASSUME NEW d \in Cadences,
                 \/ Every(d) \/ Fire(d) \/ ReturnNow(d) \/ ReturnPromise(d)
                 \/ Settle(d) \/ Stop(d)
          PROVE body'[c] # "calling"
      BY <2>1, <2>2 DEF Every, Fire, Due, ReturnNow, ReturnPromise, Settle,
         Stop, Begins, IInv, TypeOK
    <2>3. CASE StopAll \/ UNCHANGED vars
      BY <2>1, <2>3 DEF StopAll, vars
    <2> QED
      BY <2>2, <2>3 DEF Next
  <1>2. IInv /\ [Next]_vars => [A]_vars
    BY <1>1
  <1> QED
    BY <1>2, Invariant, PTL DEF Spec, StopAllSilences
=============================================================================
