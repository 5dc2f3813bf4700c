--------------------------- MODULE AtomicRegister ---------------------------
(***************************************************************************)
(* What atomicWriteFileSync of src/src/storage/atomic-write.mjs promises   *)
(* ("crash-safe file replacement"): the file always holds a value written  *)
(* as a whole, a write takes effect at one moment or not at all, and a     *)
(* writer that is told of a failure knows that nothing was written.        *)
(***************************************************************************)
CONSTANTS
    Processes,
    Contents,       \* what the file may hold
    Nothing         \* no write is pending

VARIABLES
    value,          \* what a reader finds
    pending,        \* pending[p]: what p is writing
    outcome         \* outcome[p]: what p's last write returned: "ok",
                    \* "failed", or "none" once p went on

vars == <<value, pending, outcome>>

Init ==
    /\ value \in Contents
    /\ pending = [p \in Processes |-> Nothing]
    /\ outcome = [p \in Processes |-> "none"]

Begin(p) ==
    /\ pending[p] = Nothing
    /\ \E v \in Contents : pending' = [pending EXCEPT ![p] = v]
    /\ outcome' = [outcome EXCEPT ![p] = "none"]
    /\ UNCHANGED value

Commit(p) ==
    /\ pending[p] # Nothing
    /\ value' = pending[p]
    /\ pending' = [pending EXCEPT ![p] = Nothing]
    /\ outcome' = [outcome EXCEPT ![p] = "ok"]

(* the write fails, or its process dies *)
Abort(p) ==
    /\ pending[p] # Nothing
    /\ pending' = [pending EXCEPT ![p] = Nothing]
    /\ \E result \in {"failed", "none"} :
            outcome' = [outcome EXCEPT ![p] = result]
    /\ UNCHANGED value

GoOn(p) ==
    /\ outcome' = [outcome EXCEPT ![p] = "none"]
    /\ UNCHANGED <<value, pending>>

Next == \E p \in Processes : Begin(p) \/ Commit(p) \/ Abort(p) \/ GoOn(p)

Spec == Init /\ [][Next]_vars
=============================================================================
