---------------------------- MODULE AdvisoryLock ----------------------------
(***************************************************************************)
(* What a per-run lock promises to the monitors that share a state root,   *)
(* as RunLockManager in src/src/domain/ports.mjs states it and as the code *)
(* of src/src/storage/run-lock.mjs can keep it: at most one monitor works  *)
(* on a run at a time, until the lock is compromised.  RunLock.tla is      *)
(* shown to implement this module, and MonitorRun.tla is built on it.      *)
(***************************************************************************)
CONSTANT Monitors           \* the monitor processes that share a state root

VARIABLES
    holders,                \* the monitors whose acquire() returned a handle
                            \* they have not released yet
    compromised             \* TRUE once exclusion is no longer promised

vars == <<holders, compromised>>

Init ==
    /\ holders = {}
    /\ compromised = FALSE

(* acquire() returns a handle *)
Acquire(m) ==
    /\ m \notin holders
    /\ holders = {} \/ compromised
    /\ holders' = holders \cup {m}
    /\ UNCHANGED compromised

(* release() is called, or the holder's process dies *)
Release(m) ==
    /\ m \in holders
    /\ holders' = holders \ {m}
    /\ UNCHANGED compromised

(* a monitor removes a lock that it has no right to remove: from here on   *)
(* two monitors may hold the lock                                          *)
Compromise ==
    /\ compromised' = TRUE
    /\ UNCHANGED holders

Next ==
    \/ \E m \in Monitors : Acquire(m) \/ Release(m)
    \/ Compromise

Spec == Init /\ [][Next]_vars

(* Mutual exclusion, until the lock is compromised. *)
Exclusive == ~compromised => \A m, n \in holders : m = n
=============================================================================
