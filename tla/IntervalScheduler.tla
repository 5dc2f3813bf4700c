-------------------------- MODULE IntervalScheduler --------------------------
(***************************************************************************)
(* The timer chains of src/src/scheduling/interval-scheduler.mjs, on the   *)
(* event loop of one process: at most one callback is on the stack, an     *)
(* asynchronous tick body is awaited between two callbacks, and stop() and *)
(* stopAll() may be called from anywhere, a tick body included.  How long  *)
(* an interval lasts is left out: a timer that is armed may fire.  The     *)
(* definitions whose names begin with Mut are bugs the next one could      *)
(* have: each breaks a property below.                                     *)
(***************************************************************************)
EXTENDS Naturals

CONSTANT Cadences       \* the calls of every(): poll, heartbeat, watch, ...

VARIABLES
    body,           \* body[c]: "unborn" before every(), then what fn is doing
    armed,          \* armed[c]: how many timers of c the event loop holds
    timers,         \* the cadences whose timer is in this._timers
    stopped,        \* stopped[c]: the closure's flag
    told            \* history: told[c] has "stop" once c was stopped,
                    \* "stopAll" once stopAll() was called after its every(),
                    \* and "cleared" if that was between two of its ticks

vars == <<body, armed, timers, stopped, told>>

TypeOK ==
    /\ body \in [Cadences -> {"unborn", "idle", "calling", "awaiting"}]
    /\ armed \in [Cadences -> Nat]
    /\ timers \in SUBSET Cadences
    /\ stopped \in [Cadences -> BOOLEAN]
    /\ told \in [Cadences -> SUBSET {"stop", "stopAll", "cleared"}]

Init ==
    /\ body = [c \in Cadences |-> "unborn"]
    /\ armed = [c \in Cadences |-> 0]
    /\ timers = {}
    /\ stopped = [c \in Cadences |-> FALSE]
    /\ told = [c \in Cadences |-> {}]

StackEmpty == \A c \in Cadences : body[c] # "calling"

Begins(c, what) == body' = [body EXCEPT ![c] = what]

(* scheduleNext() of the closure of c *)
ScheduleNext(c) ==
    IF stopped[c]
    THEN UNCHANGED <<armed, timers>>
    ELSE /\ armed' = [armed EXCEPT ![c] = @ + 1]
         /\ timers' = timers \cup {c}

(* every(ms, fn) *)
Every(c) ==
    /\ body[c] = "unborn"
    /\ ScheduleNext(c)
    /\ Begins(c, "idle")
    /\ UNCHANGED <<stopped, told>>

(* the event loop fires a timer that was set and not cleared *)
MutDue(c) == body[c] = "idle"
Due(c) == armed[c] > 0

(* a timer fires: onTick() returns at once if stopped, else it calls fn *)
Fire(c) ==
    /\ StackEmpty
    /\ Due(c)
    /\ armed' = [armed EXCEPT ![c] = @ - 1]
    /\ IF stopped[c]
       THEN UNCHANGED <<body, timers>>
       ELSE timers' = timers \ {c} /\ Begins(c, "calling")
    /\ UNCHANGED <<stopped, told>>

(* fn returns no promise, or throws: schedule the next tick right away *)
ReturnNow(c) ==
    /\ body[c] = "calling"
    /\ ScheduleNext(c)
    /\ Begins(c, "idle")
    /\ UNCHANGED <<stopped, told>>

(* fn returns a promise: the next tick waits for it *)
MutReturnPromise(c) ==
    /\ body[c] = "calling"
    /\ ScheduleNext(c)
    /\ Begins(c, "awaiting")
    /\ UNCHANGED <<stopped, told>>
ReturnPromise(c) ==
    /\ body[c] = "calling"
    /\ Begins(c, "awaiting")
    /\ UNCHANGED <<armed, timers, stopped, told>>

(* the promise settles, either way: then(scheduleNext, scheduleNext) *)
MutSettle(c) ==
    /\ StackEmpty
    /\ body[c] = "awaiting"
    /\ ScheduleNext(c) \/ UNCHANGED <<armed, timers>>
    /\ Begins(c, "idle")
    /\ UNCHANGED <<stopped, told>>
Settle(c) ==
    /\ StackEmpty
    /\ body[c] = "awaiting"
    /\ ScheduleNext(c)
    /\ Begins(c, "idle")
    /\ UNCHANGED <<stopped, told>>

(* what stop() does to the flag *)
MutStopFlag(c) == stopped
StopFlag(c) == [stopped EXCEPT ![c] = TRUE]

(* ... and to the timer *)
MutClearTimer(c) == UNCHANGED <<armed, timers>>
ClearTimer(c) ==
    /\ armed' = [armed EXCEPT ![c] = 0]
    /\ timers' = timers \ {c}

(* the function every() returned: MonitorService.stop() and the disposer *)
Stop(c) ==
    /\ body[c] # "unborn"
    /\ stopped' = StopFlag(c)
    /\ ClearTimer(c)
    /\ told' = [told EXCEPT ![c] = @ \cup {"stop"}]
    /\ UNCHANGED body

(* the timers that stopAll() leaves set *)
MutLeftSet(c) == armed[c]
LeftSet(c) == IF c \in timers THEN 0 ELSE armed[c]

(* stopAll() clears the timers it knows of; it sets no flag *)
StopAll ==
    /\ armed' = [c \in Cadences |-> LeftSet(c)]
    /\ timers' = {}
    /\ told' = [c \in Cadences |->
                    CASE body[c] = "unborn" -> told[c]
                      [] body[c] = "idle" -> told[c] \cup {"stopAll", "cleared"}
                      [] OTHER -> told[c] \cup {"stopAll"}]
    /\ UNCHANGED <<body, stopped>>

Next ==
    \/ \E c \in Cadences : \/ Every(c) \/ Fire(c) \/ ReturnNow(c)
                           \/ ReturnPromise(c) \/ Settle(c) \/ Stop(c)
    \/ StopAll

(* The event loop gets round to every due timer and settled promise; tick  *)
(* bodies return, and their promises settle: pollOnce and heartbeatOnce    *)
(* await nothing.                                                          *)
Fairness ==
    \A c \in Cadences :
        /\ SF_vars(Fire(c)) /\ SF_vars(Settle(c))
        /\ WF_vars(ReturnNow(c) \/ ReturnPromise(c))

Spec == Init /\ [][Next]_vars /\ Fairness

----------------------------------------------------------------------------
(* Properties *)

(* "a slow poll tick never overlaps itself" (lines 3-5): at any moment a   *)
(* cadence has one timer, or one body under way, never both and never two. *)
NoOverlap ==
    \A c \in Cadences :
        IF body[c] \in {"calling", "awaiting"} THEN armed[c] = 0
                                               ELSE armed[c] <= 1

(* Whatever the order of ticks, stops and stopAlls, no timer escapes: one  *)
(* that the event loop holds belongs to a running cadence and is in        *)
(* this._timers, where stopAll() finds it.                                 *)
NoStrayTimer ==
    \A c \in Cadences : armed[c] > 0 => c \in timers /\ ~stopped[c]

(* Once stop() of a cadence was called its fn is not called again, though  *)
(* a body of it may have been under way.                                   *)
StopSilences ==
    [][\A c \in Cadences :
         "stop" \in told[c] /\ body[c] # "calling" => body'[c] # "calling"]_vars

(* A tick that throws, rejects or takes long does not stop the cadence,    *)
(* nor does anything that happens to other cadences: it is called for ever *)
(* until it is stopped or stopAll() is called.                             *)
KeepsTicking ==
    \A c \in Cadences :
        [](body[c] # "unborn" => <>(\/ body[c] = "calling"
                                    \/ told[c] # {}))

(* A cadence that stopAll() finds between two ticks is not called again,   *)
(* whatever else is going on.                                              *)
StopAllSilences ==
    [][\A c \in Cadences : "cleared" \in told[c] => body'[c] # "calling"]_vars

(* "stopAll Cancel everything this scheduler started." (ports.mjs:76): no  *)
(* cadence is called again after stopAll().  It does not hold of one whose *)
(* tick is under way then: the tick sets the next timer when it is done.   *)
StopAllCancels ==
    [][\A c \in Cadences :
         "stopAll" \in told[c] /\ body[c] # "calling"
            => body'[c] # "calling"]_vars
=============================================================================
