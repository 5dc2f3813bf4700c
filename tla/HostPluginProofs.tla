--------------------------- MODULE HostPluginProofs ---------------------------
(* Proofs about HostPlugin, for any number of applications of the plugin. *)
EXTENDS HostPlugin, TLAPS

(* a cadence that has not begun, and one that will do nothing any more *)
Unborn(c) ==
    body[c] = "unborn" /\ armed[c] = 0 /\ ~stopped[c] /\ told[c] = {}
Quiet(c) == stopped[c] /\ armed[c] = 0 /\ body[c] # "calling"

(* what is known of the cadences of p *)
Cadence(p) ==
    /\ phase[p] \in {"absent", "failed"} => \A c \in Of(p) : Unborn(c)
    /\ phase[p] \in {"live", "disposed"} =>
            \A c \in Of(p) : body[c] # "unborn"
    /\ phase[p] = "live" =>
            /\ "cadences" \in refused[p] \cup owned[p]
            /\ \A c \in Of(p) : told[c] = {}
    /\ phase[p] = "disposed" /\ "cadences" \notin refused[p] =>
            \A c \in Of(p) : Quiet(c)

(* ... and of its manifest *)
Endpoint(p) ==
    /\ phase[p] \in {"absent", "failed"} => mount[p] = "none"
    /\ mount[p] \in {"none", "importing"} => ~manifest[p]
    /\ phase[p] = "live" /\ manifest[p] =>
            "manifest" \in refused[p] \cup owned[p]
    /\ phase[p] = "disposed" /\ manifest[p] =>
            refused[p] \cap {"unregister", "manifest", "late"} # {}

IInv == TypeOK /\ \A p \in Plugins : Cadence(p) /\ Endpoint(p)

----------------------------------------------------------------------------
LEMMA OfFacts ==
    ASSUME NEW p \in Plugins
    PROVE  /\ Of(p) \subseteq Cadences
           /\ \A q \in Plugins : q # p => Of(q) \cap Of(p) = {}
  BY DEF Of, Cadences

(* the types of the scheduler's variables, one by one *)
SchedType == Sched!TypeOK

LEMMA TickType ==
    ASSUME SchedType, NEW c \in Cadences,
           Sched!Fire(c) \/ Sched!ReturnPromise(c) \/ Sched!Settle(c)
    PROVE  /\ SchedType' /\ UNCHANGED <<stopped, told>>
           /\ \A d \in Cadences \ {c} :
                body'[d] = body[d] /\ armed'[d] = armed[d]
           /\ ~Unborn(c)
           /\ body[c] # "unborn" => body'[c] # "unborn"
           /\ Quiet(c) => Quiet(c)'
  <1> USE DEF SchedType, Sched!TypeOK, Sched!Begins, Unborn, Quiet
  <1>1. CASE Sched!Fire(c)
    BY <1>1 DEF Sched!Fire, Sched!Due
  <1>2. CASE Sched!ReturnPromise(c)
    BY <1>2 DEF Sched!ReturnPromise
  <1>3. CASE Sched!Settle(c)
    BY <1>3 DEF Sched!Settle, Sched!ScheduleNext
  <1> QED
    BY <1>1, <1>2, <1>3

LEMMA StartType ==
    ASSUME SchedType, NEW p \in Plugins, StartCadences(p)
    PROVE  /\ SchedType' /\ UNCHANGED <<stopped, told>>
           /\ \A c \in Of(p) : body'[c] = "idle"
           /\ \A c \in Cadences \ Of(p) :
                body'[c] = body[c] /\ armed'[c] = armed[c]
  BY OfFacts DEF SchedType, Sched!TypeOK, StartCadences, Started

LEMMA StopType ==
    ASSUME SchedType, NEW p \in Plugins, StopCadences(p)
    PROVE  /\ SchedType'
           /\ \A c \in Of(p) : stopped'[c] /\ armed'[c] = 0
           /\ \A c \in Cadences \ Of(p) :
                /\ stopped'[c] = stopped[c] /\ armed'[c] = armed[c]
                /\ told'[c] = told[c]
           /\ UNCHANGED body
  <1>1. stopped' \in [Cadences -> BOOLEAN]
    BY Zenon DEF StopCadences
  <1>2. \A c \in Of(p) : stopped'[c]
    BY OfFacts, Zenon DEF StopCadences, Stopped
  <1>3. \A c \in Cadences \ Of(p) : stopped'[c] = stopped[c]
    BY DEF StopCadences, Stopped, SchedType, Sched!TypeOK
  <1>4. armed' \in [Cadences -> Nat] /\ timers' \in SUBSET Cadences
    BY DEF StopCadences, SchedType, Sched!TypeOK
  <1>5. told' \in [Cadences -> SUBSET {"stop", "stopAll", "cleared"}]
    BY DEF StopCadences, SchedType, Sched!TypeOK
  <1> QED
    BY <1>1, <1>2, <1>3, <1>4, <1>5, OfFacts
       DEF StopCadences, Stopped, SchedType, Sched!TypeOK

(* the plugins that an action is not about keep what is known of them *)
Same(p) ==
    /\ phase'[p] = phase[p] /\ mount'[p] = mount[p]
    /\ manifest'[p] = manifest[p] /\ owned'[p] = owned[p]
    /\ refused'[p] = refused[p]
SameCadences(p) ==
    \A c \in Of(p) : /\ body'[c] = body[c] /\ armed'[c] = armed[c]
                     /\ stopped'[c] = stopped[c] /\ told'[c] = told[c]

LEMMA Untouched ==
    ASSUME NEW p \in Plugins, Same(p), Cadence(p), Endpoint(p)
    PROVE  Endpoint(p)' /\ (SameCadences(p) => Cadence(p)')
  BY DEF Same, SameCadences, Cadence, Endpoint, Unborn, Quiet

----------------------------------------------------------------------------
LEMMA InitInv == Init => IInv
  <1> SUFFICES ASSUME Init PROVE IInv
    OBVIOUS
  <1>1. stopped \in [Cadences -> BOOLEAN]
    BY Zenon DEF Init, Sched!Init
  <1>2. manifest \in [Plugins -> BOOLEAN] /\ \A p \in Plugins : ~manifest[p]
    BY Zenon DEF Init
  <1>3. TypeOK
    BY <1>1, <1>2 DEF Init, Sched!Init, TypeOK, Sched!TypeOK
  <1>4. \A c \in Cadences : ~stopped[c]
    BY Zenon DEF Init, Sched!Init
  <1>5. ASSUME NEW p \in Plugins PROVE Cadence(p) /\ Endpoint(p)
    BY <1>2, <1>4, OfFacts DEF Init, Sched!Init, Cadence, Endpoint, Unborn
  <1> QED
    BY <1>3, <1>5 DEF IInv

LEMMA ApplyStep ==
    ASSUME IInv, NEW p \in Plugins, Apply(p) PROVE IInv'
  <1>1. SchedType
    BY DEF IInv, TypeOK, SchedType
  <1>2. SchedType' /\ \A q \in Plugins \ {p} : SameCadences(q)
    BY <1>1, StartType, OfFacts DEF Apply, SameCadences
  <1>3. /\ phase'[p] = "live" /\ phase' \in [Plugins ->
                                    {"absent", "failed", "live", "disposed"}]
        /\ mount' \in [Plugins ->
                      {"none", "importing", "mounted", "unmounted"}]
        /\ manifest' = manifest
    BY DEF Apply, Enters, Mounts, IInv, TypeOK
  <1>4. /\ owned' \in [Plugins -> SUBSET Effects]
        /\ refused' \in [Plugins ->
                        SUBSET (Effects \cup {"unregister", "late"})]
        /\ "cadences" \in refused'[p] \cup owned'[p]
    BY DEF Apply, Effect, Kept, Refuses, Effects, IInv, TypeOK
  <1>5. \A q \in Plugins \ {p} : Same(q)
    BY DEF Apply, Enters, Mounts, Effect, Refuses, Same, IInv, TypeOK
  <1>6. ~manifest[p]
    BY DEF Apply, IInv, Endpoint
  <1>7. TypeOK'
    BY <1>2, <1>3, <1>4 DEF SchedType, IInv, TypeOK
  <1>8. \A c \in Of(p) : body'[c] = "idle" /\ told'[c] = {}
    BY <1>1, StartType DEF Apply, IInv, Cadence, Unborn
  <1>9. Cadence(p)' /\ Endpoint(p)'
    BY <1>3, <1>4, <1>6, <1>8 DEF Cadence, Endpoint
  <1> QED
    BY <1>2, <1>5, <1>7, <1>9, Untouched DEF IInv

LEMMA MountStep ==
    ASSUME IInv, NEW p \in Plugins, Mount(p) PROVE IInv'
  <1>1. /\ manifest' \in [Plugins -> BOOLEAN]
        /\ \A q \in Plugins \ {p} : manifest'[q] = manifest[q]
    BY Zenon DEF Mount, IInv, TypeOK
  <1>2. /\ mount' \in [Plugins ->
                      {"none", "importing", "mounted", "unmounted"}]
        /\ mount'[p] \in {"mounted", "unmounted"}
        /\ \A q \in Plugins \ {p} : mount'[q] = mount[q]
    BY DEF Mount, Mounts, IInv, TypeOK
  <1>3. /\ owned' \in [Plugins -> SUBSET Effects]
        /\ refused' \in [Plugins ->
                        SUBSET (Effects \cup {"unregister", "late"})]
        /\ IF phase[p] = "disposed" THEN "late" \in refused'[p]
           ELSE "manifest" \in refused'[p] \cup owned'[p]
        /\ owned[p] \subseteq owned'[p]
        /\ "cadences" \in refused'[p] <=> "cadences" \in refused[p]
        /\ \A q \in Plugins \ {p} :
                owned'[q] = owned[q] /\ refused'[q] = refused[q]
    BY DEF Mount, Effect, Kept, Refuses, Effects, IInv, TypeOK
  <1>4. phase' = phase /\ UNCHANGED schedVars
    BY DEF Mount
  <1>5. phase[p] \notin {"absent", "failed"}
    BY DEF Mount, IInv, Endpoint
  <1>6. TypeOK'
    BY <1>1, <1>2, <1>3, <1>4 DEF schedVars, IInv, TypeOK, Sched!TypeOK
  <1>7. Cadence(p)' /\ Endpoint(p)'
    BY <1>2, <1>3, <1>4, <1>5 DEF schedVars, IInv, Cadence, Endpoint, Quiet
  <1>8. \A q \in Plugins \ {p} : Same(q) /\ SameCadences(q)
    BY <1>1, <1>2, <1>3, <1>4 DEF schedVars, Same, SameCadences
  <1> QED
    BY <1>6, <1>7, <1>8, Untouched DEF IInv

LEMMA DisposeStep ==
    ASSUME IInv, NEW p \in Plugins, Dispose(p) PROVE IInv'
  <1>1. SchedType
    BY DEF IInv, TypeOK, SchedType
  <1>2. SchedType' /\ body' = body
    BY <1>1, StopType DEF Dispose, schedVars, SchedType, Sched!TypeOK
  <1>3. \A q \in Plugins \ {p} : SameCadences(q)
    BY <1>1, StopType, OfFacts DEF Dispose, schedVars, SameCadences
  <1>4. "cadences" \in owned[p] => \A c \in Of(p) : Quiet(c)'
    <2>1. \A c \in Of(p) : body[c] # "calling"
      BY OfFacts DEF Dispose, Sched!StackEmpty
    <2> QED
      BY <1>1, <1>2, <2>1, StopType DEF Dispose, Quiet
  <1>5. /\ manifest' \in [Plugins -> BOOLEAN]
        /\ \A q \in Plugins \ {p} : manifest'[q] = manifest[q]
        /\ manifest'[p] => manifest[p]
    <2>1. manifest' \in [Plugins -> BOOLEAN]
          /\ manifest' \in {manifest, [manifest EXCEPT ![p] = FALSE]}
      BY Zenon DEF Dispose, IInv, TypeOK
    <2> QED
      BY <2>1, Zenon DEF IInv, TypeOK
  <1>6. /\ refused' \in [Plugins ->
                        SUBSET (Effects \cup {"unregister", "late"})]
        /\ refused[p] \subseteq refused'[p]
        /\ "cadences" \in refused'[p] <=> "cadences" \in refused[p]
        /\ \A q \in Plugins \ {p} : refused'[q] = refused[q]
    BY DEF Dispose, Refuses, Effects, IInv, TypeOK
  <1>7. "manifest" \in owned[p] =>
            ~manifest'[p] \/ "unregister" \in refused'[p]
    BY DEF Dispose, Refuses, IInv, TypeOK
  <1>8. /\ phase' = [phase EXCEPT ![p] = "disposed"]
        /\ owned' = [owned EXCEPT ![p] = {}] /\ mount' = mount
        /\ phase[p] = "live"
    BY DEF Dispose, Enters
  <1>9. TypeOK'
    BY <1>2, <1>5, <1>6, <1>8 DEF SchedType, IInv, TypeOK
  <1>10. Cadence(p)'
    BY <1>2, <1>4, <1>6, <1>8 DEF IInv, TypeOK, Cadence
  <1>11. Endpoint(p)'
    BY <1>5, <1>6, <1>7, <1>8 DEF IInv, TypeOK, Endpoint
  <1>12. \A q \in Plugins \ {p} : Same(q)
    BY <1>5, <1>6, <1>8 DEF Same, IInv, TypeOK
  <1> QED
    BY <1>3, <1>9, <1>10, <1>11, <1>12, Untouched DEF IInv

LEMMA Step == IInv /\ [Next]_vars => IInv'
  <1> SUFFICES ASSUME IInv, [Next]_vars PROVE IInv'
    OBVIOUS
  <1>1. ASSUME NEW p \in Plugins, Apply(p) \/ Mount(p) \/ Dispose(p)
        PROVE  IInv'
    BY <1>1, ApplyStep, MountStep, DisposeStep
  <1>2. ASSUME NEW p \in Plugins, ApplyError(p) PROVE IInv'
    BY <1>2 DEF ApplyError, Enters, schedVars, IInv, TypeOK, Sched!TypeOK,
       Cadence, Endpoint, Unborn, Quiet
  <1>3. ASSUME NEW p \in Plugins, MountError(p) PROVE IInv'
    BY <1>3 DEF MountError, Mounts, schedVars, IInv, TypeOK, Sched!TypeOK,
       Cadence, Endpoint, Unborn, Quiet
  <1>4. ASSUME NEW c \in Cadences, Tick(c) PROVE IInv'
    <2>1. SchedType
      BY DEF IInv, TypeOK, SchedType
    <2>2. /\ SchedType' /\ UNCHANGED <<stopped, told>> /\ ~Unborn(c)
          /\ body[c] # "unborn" => body'[c] # "unborn"
          /\ \A d \in Cadences \ {c} :
                body'[d] = body[d] /\ armed'[d] = armed[d]
          /\ Quiet(c) => Quiet(c)'
      BY <1>4, <2>1, TickType DEF Tick
    <2>3. TypeOK' /\ UNCHANGED pluginVars
      BY <1>4, <2>2 DEF Tick, pluginVars, IInv, TypeOK, SchedType
    <2>4. ASSUME NEW p \in Plugins PROVE Cadence(p)' /\ Endpoint(p)'
      <3>1. \A d \in Of(p) : /\ Unborn(d) => Unborn(d)'
                             /\ Quiet(d) => Quiet(d)'
                             /\ body[d] # "unborn" => body'[d] # "unborn"
                             /\ told'[d] = told[d]
        BY <2>2, OfFacts DEF Unborn, Quiet
      <3>2. Cadence(p)'
        BY <2>3, <3>1 DEF pluginVars, IInv, Cadence
      <3> QED
        BY <2>3, <3>2 DEF pluginVars, IInv, Endpoint
    <2> QED
      BY <2>3, <2>4 DEF IInv
  <1>5. CASE UNCHANGED vars
    BY <1>5 DEF vars, pluginVars, schedVars, IInv, TypeOK, Sched!TypeOK,
       Cadence, Endpoint, Unborn, Quiet
  <1> QED
    BY <1>1, <1>2, <1>3, <1>4, <1>5 DEF Next

LEMMA Invariant == Spec => []IInv
  BY InitInv, Step, PTL DEF Spec

(* Every variable of HostPlugin and of its scheduler has its type. *)
THEOREM TypeCorrect == Spec => []TypeOK
  BY Invariant, PTL DEF IInv

(* A plugin that was disposed of neither ticks nor holds a timer, unless   *)
(* the host had refused the effect that stops its cadences.                *)
THEOREM DisposalStops == Spec => []DisposedIsQuiet
  <1>1. IInv => DisposedIsQuiet
    BY DEF IInv, Cadence, Quiet, DisposedIsQuiet
  <1> QED
    BY <1>1, Invariant, PTL

(* A manifest outlives its plugin only if the host kept it, or if it was   *)
(* registered after the disposal.                                          *)
THEOREM ManifestRemoved == Spec => []ManifestGoesWithPlugin
  <1>1. IInv => ManifestGoesWithPlugin
    BY DEF IInv, Endpoint, ManifestGoesWithPlugin
  <1> QED
    BY <1>1, Invariant, PTL

----------------------------------------------------------------------------
(* What IntervalSchedulerProofs knows of a scheduler, about the one of the *)
(* host: start and stop of two cadences at once keep it as well.           *)
Core == INSTANCE IntervalSchedulerProofs

LEMMA CoreInit == Init => Core!IInv
  <1>1. Init => Core!Init
    BY DEF Init, Sched!Init, Core!Init
  <1> QED
    BY <1>1, Core!InitInv

LEMMA CoreTick ==
    ASSUME NEW c \in Cadences, Tick(c) PROVE Core!Next
  <1>1. Core!Fire(c) \/ Core!ReturnPromise(c) \/ Core!Settle(c)
    BY DEF Tick, Sched!Fire, Core!Fire, Sched!StackEmpty, Core!StackEmpty,
       Sched!Due, Core!Due, Sched!Begins, Core!Begins, Sched!ReturnPromise,
       Core!ReturnPromise, Sched!Settle, Core!Settle, Sched!ScheduleNext,
       Core!ScheduleNext
  <1> QED
    BY <1>1 DEF Core!Next

LEMMA CoreStart ==
    ASSUME IInv, Core!IInv, NEW p \in Plugins, Apply(p) PROVE Core!IInv'
  <1> USE DEF Core!IInv, Core!TypeOK
  <1>1. \A c \in Of(p) : Unborn(c)
    BY DEF Apply, IInv, Cadence
  <1>2. /\ \A c \in Of(p) : /\ body'[c] = "idle" /\ armed'[c] = 1
                            /\ c \in timers'
        /\ \A c \in Cadences \ Of(p) :
                /\ body'[c] = body[c] /\ armed'[c] = armed[c]
                /\ c \in timers => c \in timers'
        /\ \A c \in Cadences : stopped'[c] = stopped[c] /\ told'[c] = told[c]
    BY OfFacts DEF Apply, StartCadences, Started
  <1>3. Core!TypeOK'
    BY OfFacts DEF Apply, StartCadences, Started
  <1>4. ASSUME NEW c \in Of(p)
        PROVE  c \in Cadences /\ ~stopped'[c] /\ told'[c] = {}
    BY <1>1, <1>2, OfFacts DEF Unborn
  <1>5. ASSUME NEW c \in Cadences PROVE Core!CadenceInv(c)'
    <2>1. CASE c \in Of(p)
      <3>1. /\ body'[c] = "idle" /\ armed'[c] = 1 /\ c \in timers'
            /\ ~stopped'[c] /\ told'[c] = {}
        BY <1>2, <1>4, <2>1
      <3> QED
        BY <3>1 DEF Core!CadenceInv
    <2>2. CASE c \notin Of(p)
      <3>1. /\ body'[c] = body[c] /\ armed'[c] = armed[c]
            /\ stopped'[c] = stopped[c] /\ told'[c] = told[c]
            /\ c \in timers => c \in timers'
        BY <1>2, <2>2
      <3>2. Core!CadenceInv(c)
        OBVIOUS
      <3> QED
        BY <3>1, <3>2, Zenon DEF Core!CadenceInv
    <2> QED
      BY <2>1, <2>2
  <1> QED
    BY <1>3, <1>5

LEMMA CoreStop ==
    ASSUME IInv, Core!IInv, NEW p \in Plugins, Dispose(p) PROVE Core!IInv'
  <1> USE DEF Core!IInv, Core!TypeOK, Core!CadenceInv
  <1>1. CASE UNCHANGED schedVars
    BY <1>1 DEF schedVars
  <1>2. CASE StopCadences(p)
    <2>1. SchedType
      BY DEF IInv, TypeOK, SchedType
    <2>2. /\ SchedType' /\ body' = body
          /\ \A c \in Of(p) : stopped'[c] /\ armed'[c] = 0
          /\ \A c \in Cadences \ Of(p) :
                /\ stopped'[c] = stopped[c] /\ armed'[c] = armed[c]
                /\ told'[c] = told[c]
      BY <1>2, <2>1, StopType
    <2>3. /\ \A c \in Of(p) : "stop" \in told'[c]
          /\ \A c \in Of(p) : "cleared" \in told'[c] => "cleared" \in told[c]
          /\ \A c \in Cadences \ Of(p) : c \in timers => c \in timers'
      BY <1>2, OfFacts DEF StopCadences, Stopped
    <2>4. \A c \in Of(p) : body[c] # "unborn" /\ c \in Cadences
      BY OfFacts DEF Dispose, IInv, Cadence
    <2>5. Core!TypeOK'
      BY <2>2 DEF SchedType, Sched!TypeOK
    <2> QED
      BY <2>2, <2>3, <2>4, <2>5
  <1> QED
    BY <1>1, <1>2 DEF Dispose

LEMMA CoreStep == IInv /\ Core!IInv /\ [Next]_vars => Core!IInv'
  <1> SUFFICES ASSUME IInv, Core!IInv, [Next]_vars PROVE Core!IInv'
    OBVIOUS
  <1>1. ASSUME NEW c \in Cadences, Tick(c) PROVE Core!IInv'
    BY <1>1, CoreTick, Core!Step
  <1>2. ASSUME NEW p \in Plugins, Apply(p) \/ Dispose(p) PROVE Core!IInv'
    BY <1>2, CoreStart, CoreStop
  <1>3. ASSUME UNCHANGED schedVars PROVE Core!IInv'
    <2>1. UNCHANGED Core!vars
      BY <1>3 DEF schedVars, Core!vars
    <2> QED
      BY <2>1, Core!Step
  <1> QED
    BY <1>1, <1>2, <1>3
       DEF Next, ApplyError, MountError, Mount, vars

LEMMA CoreInvariant == Spec => [](IInv /\ Core!IInv)
  BY CoreInit, CoreStep, Invariant, PTL DEF Spec

(* In the host, too, no cadence overlaps itself and no timer escapes       *)
(* stopAll(), however often the plugin is applied and disposed of.         *)
THEOREM CadencesStaySound == Spec => [](Sched!NoOverlap /\ Sched!NoStrayTimer)
  <1>1. Core!IInv => Sched!NoOverlap /\ Sched!NoStrayTimer
    BY DEF Core!IInv, Core!CadenceInv, Sched!NoOverlap, Sched!NoStrayTimer
  <1> QED
    BY <1>1, CoreInvariant, PTL

(* Both cadences of a live plugin have their next tick before them,        *)
(* whatever the host refused and whatever became of the mount and of other *)
(* applications: the safety side of KeepsPolling, which TLC checks.        *)
PollingIsSet ==
    \A p \in Plugins : phase[p] = "live" =>
        \A c \in Of(p) : \/ body[c] \in {"calling", "awaiting"}
                         \/ armed[c] = 1 /\ c \in timers

(* No refused effect, failed mount or other plugin takes a live plugin its *)
(* cadences.                                                               *)
THEOREM PollingNeverLost == Spec => []PollingIsSet
  <1>1. IInv /\ Core!IInv => PollingIsSet
    <2> SUFFICES ASSUME IInv, Core!IInv, NEW p \in Plugins,
                        phase[p] = "live", NEW c \in Of(p),
                        body[c] \notin {"calling", "awaiting"}
                 PROVE  armed[c] = 1 /\ c \in timers
      BY DEF PollingIsSet
    <2>1. body[c] # "unborn" /\ told[c] = {} /\ c \in Cadences
      BY OfFacts DEF IInv, Cadence
    <2> QED
      BY <2>1 DEF Core!IInv, Core!TypeOK, Core!CadenceInv
  <1> QED
    BY <1>1, CoreInvariant, PTL

----------------------------------------------------------------------------
(* Each cadence of each application, looked at alone.  Apply and Dispose   *)
(* start and stop two at once, so that the scheduler of the host is not    *)
(* IntervalScheduler, step by step; each of its cadences is.               *)
One(c) == INSTANCE IntervalScheduler
            WITH Cadences <- {c}, timers <- timers \cap {c},
                 body <- [d \in {c} |-> body[d]],
                 armed <- [d \in {c} |-> armed[d]],
                 stopped <- [d \in {c} |-> stopped[d]],
                 told <- [d \in {c} |-> told[d]]

(* A cadence of startCadences() goes through every(), its ticks and stop() *)
(* as the scheduler has them, and through nothing else.                    *)
ImplementsScheduler ==
    /\ \A c \in Cadences : One(c)!Init
    /\ [][\A c \in Cadences : [One(c)!Next]_(One(c)!vars)]_vars

LEMMA OneAlone ==
    ASSUME NEW c \in Cadences, body'[c] = body[c], armed'[c] = armed[c],
           stopped'[c] = stopped[c], told'[c] = told[c],
           c \in timers' <=> c \in timers
    PROVE  UNCHANGED One(c)!vars
  BY DEF One!vars

LEMMA OneTick ==
    ASSUME SchedType, NEW c \in Cadences, Tick(c) PROVE One(c)!Next
  <1> USE DEF SchedType, Sched!TypeOK, Sched!Begins, One!Begins,
              Sched!StackEmpty, One!StackEmpty
  <1>1. CASE Sched!Fire(c)
    <2>1. One(c)!Fire(c)
      BY <1>1 DEF Sched!Fire, One!Fire, Sched!Due, One!Due
    <2> QED
      BY <2>1 DEF One!Next
  <1>2. CASE Sched!ReturnPromise(c)
    <2>1. One(c)!ReturnPromise(c)
      BY <1>2 DEF Sched!ReturnPromise, One!ReturnPromise
    <2> QED
      BY <2>1 DEF One!Next
  <1>3. CASE Sched!Settle(c)
    <2>1. One(c)!Settle(c)
      BY <1>3 DEF Sched!Settle, One!Settle, Sched!ScheduleNext,
         One!ScheduleNext
    <2> QED
      BY <2>1 DEF One!Next
  <1> QED
    BY <1>1, <1>2, <1>3 DEF Tick

LEMMA OneStart ==
    ASSUME IInv, NEW p \in Plugins, Apply(p), NEW c \in Of(p)
    PROVE  One(c)!Next
  <1>1. c \in Cadences /\ Unborn(c)
    BY OfFacts DEF Apply, IInv, Cadence
  <1>2. /\ body'[c] = "idle" /\ armed'[c] = 1 /\ c \in timers'
        /\ stopped'[c] = stopped[c] /\ told'[c] = told[c]
    BY <1>1 DEF Apply, StartCadences, Started
  <1>3. One(c)!Every(c)
    <2>1. One(c)!ScheduleNext(c)
      BY <1>1, <1>2 DEF Unborn, One!ScheduleNext
    <2>2. One(c)!Begins(c, "idle")
      BY <1>1, <1>2 DEF One!Begins
    <2>3. /\ [d \in {c} |-> stopped'[d]] = [d \in {c} |-> stopped[d]]
          /\ [d \in {c} |-> told'[d]] = [d \in {c} |-> told[d]]
      BY <1>2
    <2> QED
      BY <1>1, <2>1, <2>2, <2>3 DEF Unborn, One!Every
  <1> QED
    BY <1>3 DEF One!Next

LEMMA OneStop ==
    ASSUME IInv, NEW p \in Plugins, Dispose(p), StopCadences(p),
           NEW c \in Of(p)
    PROVE  One(c)!Next
  <1>1. c \in Cadences /\ body[c] # "unborn"
    BY OfFacts DEF Dispose, IInv, Cadence
  <1>2. /\ body' = body /\ armed'[c] = 0 /\ c \notin timers'
        /\ told'[c] = told[c] \cup {"stop"}
    BY <1>1 DEF StopCadences, Stopped
  <1>3. stopped'[c] = TRUE
    BY <1>1, Zenon DEF StopCadences, Stopped
  <1>4. One(c)!Stop(c)
    BY <1>1, <1>2, <1>3 DEF One!Stop, One!StopFlag, One!ClearTimer
  <1> QED
    BY <1>4 DEF One!Next

LEMMA OneStep ==
    ASSUME IInv, [Next]_vars, NEW c \in Cadences
    PROVE  [One(c)!Next]_(One(c)!vars)
  <1>1. SchedType
    BY DEF IInv, TypeOK, SchedType
  <1>2. ASSUME NEW d \in Cadences, Tick(d) PROVE [One(c)!Next]_(One(c)!vars)
    <2>1. CASE d = c
      BY <1>1, <1>2, <2>1, OneTick
    <2>2. CASE d # c
      <3>1. /\ body'[c] = body[c] /\ armed'[c] = armed[c]
            /\ stopped' = stopped /\ told' = told
        BY <1>1, <1>2, <2>2, TickType DEF Tick
      <3>2. c \in timers' <=> c \in timers
        BY <1>2, <2>2 DEF Tick, Sched!Fire, Sched!ReturnPromise,
           Sched!Settle, Sched!ScheduleNext
      <3> QED
        BY <3>1, <3>2, OneAlone
    <2> QED
      BY <2>1, <2>2
  <1>3. ASSUME NEW p \in Plugins, Apply(p) PROVE [One(c)!Next]_(One(c)!vars)
    <2>1. CASE c \in Of(p)
      BY <1>3, <2>1, OneStart
    <2>2. CASE c \notin Of(p)
      <3>1. /\ body'[c] = body[c] /\ armed'[c] = armed[c]
            /\ stopped' = stopped /\ told' = told
            /\ c \in timers' <=> c \in timers
        BY <1>3, <2>2 DEF Apply, StartCadences, Started
      <3> QED
        BY <3>1, OneAlone
    <2> QED
      BY <2>1, <2>2
  <1>4. ASSUME NEW p \in Plugins, Dispose(p), StopCadences(p)
        PROVE  [One(c)!Next]_(One(c)!vars)
    <2>1. CASE c \in Of(p)
      BY <1>4, <2>1, OneStop
    <2>2. CASE c \notin Of(p)
      <3>1. /\ body' = body /\ armed'[c] = armed[c]
            /\ stopped'[c] = stopped[c] /\ told'[c] = told[c]
        BY <1>1, <1>4, <2>2, StopType
      <3>2. c \in timers' <=> c \in timers
        BY <1>4, <2>2 DEF StopCadences, Stopped
      <3> QED
        BY <3>1, <3>2, OneAlone
    <2> QED
      BY <2>1, <2>2
  <1>5. CASE UNCHANGED schedVars
    BY <1>5, OneAlone DEF schedVars
  <1> QED
    BY <1>2, <1>3, <1>4, <1>5
       DEF Next, ApplyError, MountError, Mount, Dispose, vars

(* Whatever the host does with the plugin, each cadence it starts is one   *)
(* of the scheduler's.                                                     *)
THEOREM CadencesAreScheduled == Spec => ImplementsScheduler
  <1>1. Init => \A c \in Cadences : One(c)!Init
    BY DEF Init, Sched!Init, One!Init
  <1>2. IInv /\ [Next]_vars =>
            [\A c \in Cadences : [One(c)!Next]_(One(c)!vars)]_vars
    BY OneStep
  <1> QED
    BY <1>1, <1>2, Invariant, PTL DEF Spec, ImplementsScheduler
=============================================================================
