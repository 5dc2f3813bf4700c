------------------------------ MODULE HostPlugin ------------------------------
(***************************************************************************)
(* The life of the plugin in its host: apply() of src/src/host/plugin.mjs, *)
(* the two cadences of MonitorService.startCadences() on the timers that   *)
(* IntervalScheduler models, the remote manifest that                      *)
(* mountTypertRemote() of src/src/host/typert-remote.mjs registers after   *)
(* an asynchronous import, and the disposal of the effects by the host,    *)
(* which may come at any time and be followed by another apply().  Each    *)
(* application of the plugin is one of Plugins, and has a scheduler of its *)
(* own (compose.mjs).  The schedulers share the event loop: body, armed,   *)
(* timers, stopped and told hold the cadences of all of them, which is     *)
(* sound because the plugin never calls stopAll(), the one operation that  *)
(* goes through the timers of a scheduler.                                 *)
(*                                                                         *)
(* ctx.provide() and ctx.route() are left out: they offer functions that   *)
(* keep no state, and each runs in a try of its own.  So is the initial    *)
(* pollOnce() of apply(): it awaits nothing, so it is over before the      *)
(* cadences start, and what it does is a pass of MonitorRun; its promise   *)
(* is only logged.  The definitions whose names begin with Mut are bugs    *)
(* the next one could have.                                                *)
(***************************************************************************)
EXTENDS Naturals

CONSTANT Plugins        \* the times that the host applies the plugin

VARIABLES
    phase,          \* phase[p]: where p is in its life
    mount,          \* mount[p]: the promise of mountTypertRemote()
    manifest,       \* manifest[p]: p's manifest is in the host's registry
    owned,          \* owned[p]: the cleanups in p's effect scope
    refused,        \* history: what the host would not do for p
    body, armed, timers, stopped, told      \* IntervalScheduler

pluginVars == <<phase, mount, manifest, owned, refused>>
schedVars == <<body, armed, timers, stopped, told>>
vars == <<pluginVars, schedVars>>

(* the calls of every() in startCadences() *)
Cadences == Plugins \X {"poll", "heartbeat"}
Of(p) == {p} \X {"poll", "heartbeat"}

Sched == INSTANCE IntervalScheduler

Effects == {"cadences", "manifest"}

TypeOK ==
    /\ phase \in [Plugins -> {"absent", "failed", "live", "disposed"}]
    /\ mount \in [Plugins -> {"none", "importing", "mounted", "unmounted"}]
    /\ manifest \in [Plugins -> BOOLEAN]
    /\ owned \in [Plugins -> SUBSET Effects]
    /\ refused \in [Plugins -> SUBSET (Effects \cup {"unregister", "late"})]
    /\ Sched!TypeOK

Init ==
    /\ phase = [p \in Plugins |-> "absent"]
    /\ mount = [p \in Plugins |-> "none"]
    /\ manifest = [p \in Plugins |-> FALSE]
    /\ owned = [p \in Plugins |-> {}]
    /\ refused = [p \in Plugins |-> {}]
    /\ Sched!Init

Enters(p, where) == phase' = [phase EXCEPT ![p] = where]
Mounts(p, result) == mount' = [mount EXCEPT ![p] = result]
Refuses(p, what) == refused' = [refused EXCEPT ![p] = @ \cup {what}]

----------------------------------------------------------------------------
(* startCadences(), and the function it returns *)

MutStarted(p) == {<<p, "heartbeat">>}
Started(p) == Of(p)

StartCadences(p) ==
    /\ body' = [c \in Cadences |-> IF c \in Started(p) THEN "idle" ELSE body[c]]
    /\ armed' = [c \in Cadences |-> IF c \in Started(p) THEN 1 ELSE armed[c]]
    /\ timers' = timers \cup Started(p)
    /\ UNCHANGED <<stopped, told>>

MutStopped(p) == {<<p, "poll">>}
Stopped(p) == Of(p)

StopCadences(p) ==
    /\ stopped' = [c \in Cadences |-> stopped[c] \/ c \in Stopped(p)]
    /\ armed' = [c \in Cadences |-> IF c \in Stopped(p) THEN 0 ELSE armed[c]]
    /\ timers' = timers \ Stopped(p)
    /\ told' = [c \in Cadences |-> IF c \in Stopped(p)
                                   THEN told[c] \cup {"stop"} ELSE told[c]]
    /\ UNCHANGED body

----------------------------------------------------------------------------
(* ctx.effect(f): the scope keeps the cleanup, or the host has no effect() *)
(* or one that throws; a scope that was disposed of runs no cleanup later  *)
MutKept(p, what) == {}
Kept(p, what) == {what}

Effect(p, what) ==
    \/ /\ phase[p] # "disposed"
       /\ owned' = [owned EXCEPT ![p] = @ \cup Kept(p, what)]
       /\ UNCHANGED refused
    \/ /\ Refuses(p, IF phase[p] = "disposed" THEN "late" ELSE what)
       /\ UNCHANGED owned

(* apply(): the mount is fired and forgotten, without a registry it ends   *)
(* at once; the first poll is made (see above); the cadences start, and go *)
(* on even if the host takes no effect                                     *)
Apply(p) ==
    /\ phase[p] = "absent"
    /\ Sched!StackEmpty
    /\ Enters(p, "live")
    /\ \E result \in {"importing", "unmounted"} : Mounts(p, result)
    /\ StartCadences(p)
    /\ Effect(p, "cadences")
    /\ UNCHANGED manifest

(* the configuration or the assembly throws: apply() returns null *)
ApplyError(p) ==
    /\ phase[p] = "absent"
    /\ Sched!StackEmpty
    /\ Enters(p, "failed")
    /\ UNCHANGED <<mount, manifest, owned, refused, schedVars>>

(* the import rejects, has no TypertRemoteService, the service does not    *)
(* bind, or register() throws                                              *)
MountError(p) ==
    /\ mount[p] = "importing"
    /\ Sched!StackEmpty
    /\ Mounts(p, "unmounted")
    /\ UNCHANGED <<phase, manifest, owned, refused, schedVars>>

(* the import is there: bind, register, and leave the cleanup to the scope *)
(* -- nothing asks whether the plugin was disposed of meanwhile.  When     *)
(* effect() throws, the mount reports a failure but stays registered.      *)
Mount(p) ==
    /\ mount[p] = "importing"
    /\ Sched!StackEmpty
    /\ manifest' = [manifest EXCEPT ![p] = TRUE]
    /\ Effect(p, "manifest")
    /\ \E result \in {"mounted", "unmounted"} :
        /\ result = "unmounted" => owned' = owned
        /\ Mounts(p, result)
    /\ UNCHANGED <<phase, schedVars>>

(* the host disposes of the plugin: it runs the cleanups it keeps; the     *)
(* registry may have given no function to unregister, or one that throws   *)
Dispose(p) ==
    /\ phase[p] = "live"
    /\ Sched!StackEmpty
    /\ Enters(p, "disposed")
    /\ owned' = [owned EXCEPT ![p] = {}]
    /\ IF "cadences" \in owned[p] THEN StopCadences(p) ELSE UNCHANGED schedVars
    /\ IF "manifest" \in owned[p]
       THEN \/ manifest' = [manifest EXCEPT ![p] = FALSE] /\ UNCHANGED refused
            \/ Refuses(p, "unregister") /\ UNCHANGED manifest
       ELSE UNCHANGED <<manifest, refused>>
    /\ UNCHANGED mount

(* the event loop; pollOnce and heartbeatOnce always return a promise *)
Tick(c) ==
    /\ Sched!Fire(c) \/ Sched!ReturnPromise(c) \/ Sched!Settle(c)
    /\ UNCHANGED pluginVars

Next ==
    \/ \E p \in Plugins : \/ Apply(p) \/ ApplyError(p)
                          \/ MountError(p) \/ Mount(p) \/ Dispose(p)
    \/ \E c \in Cadences : Tick(c)

(* The event loop is fair, as IntervalScheduler has it; the host owes      *)
(* nothing, nor does the import.                                           *)
Spec == Init /\ [][Next]_vars /\ Sched!Fairness

----------------------------------------------------------------------------
(* Properties *)

(* Once the host has disposed of the plugin, no timer of its cadences is   *)
(* left and none of its ticks begins, though a tick may have been under    *)
(* way: unless the host had refused the effect that stops them, in which   *)
(* case they go on for ever.                                               *)
DisposedIsQuiet ==
    \A p \in Plugins : phase[p] = "disposed" /\ "cadences" \notin refused[p] =>
        \A c \in Of(p) : armed[c] = 0 /\ body[c] # "calling"

(* "When the host disposes the plugin, unregister the endpoints via the    *)
(* closure (the registration itself happened asynchronously)."             *)
(* (typert-remote.mjs:117-118): a manifest outlives its plugin only if the *)
(* registry would not let go of it, the host refused its cleanup, or it    *)
(* was registered after the disposal, for the import was under way then.   *)
ManifestGoesWithPlugin ==
    \A p \in Plugins : phase[p] = "disposed" /\ manifest[p] =>
        refused[p] \cap {"unregister", "manifest", "late"} # {}

(* "this plugin is purely additive observability" (plugin.mjs:4-8):        *)
(* whatever the host refused, and whatever became of the mount and of      *)
(* other applications of the plugin, both cadences of a live plugin go on. *)
KeepsPolling ==
    \A p \in Plugins : \A c \in Of(p) :
        []<>(phase[p] = "live" => body[c] = "calling")
=============================================================================
