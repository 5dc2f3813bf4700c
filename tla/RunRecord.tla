------------------------------ MODULE RunRecord ------------------------------
(***************************************************************************)
(* What the readers of a state root (queries, the remote, watch) may rely  *)
(* on of one run's status and history, whoever writes them: what the       *)
(* passes of src/src/application/monitor-service.mjs promise with "persist *)
(* on change, and append the corresponding events" (line 111), as far as   *)
(* they can keep it.  MonitorRun is shown to implement this module.        *)
(***************************************************************************)
EXTENDS RunModel

CONSTANTS Nothing, Shown        \* as in MonitorRun

VARIABLES
    truth,      \* the state that the CLI's artifacts show
    shown,      \* the state in status.json
    told,       \* the state in which the history ends
    due,        \* an event of the shown state is to come
    broken      \* monitors are not kept apart any more

vars == <<truth, shown, told, due, broken>>

Init ==
    /\ truth \in Shown
    /\ shown = Nothing /\ told = Nothing
    /\ due = FALSE
    /\ broken = FALSE

(* the CLI and its wrapper make progress *)
Evolve ==
    /\ truth' \in Shown \cap Successors(truth)
    /\ UNCHANGED <<shown, told, due, broken>>

(* The status is replaced, by an observation that may be an old one, but   *)
(* not while an event is due.  A state that is new has its event.          *)
Show ==
    /\ ~due
    /\ shown' \in RunStates
    /\ shown' \in Verdicts => truth = shown'
    /\ due' \in BOOLEAN
    /\ shown' # shown => due'
    /\ UNCHANGED <<truth, told, broken>>

(* the event is there, for the state that is shown *)
Tell ==
    /\ due
    /\ told' = shown
    /\ due' = FALSE
    /\ UNCHANGED <<truth, shown, broken>>

(* ... or never comes *)
Lose ==
    /\ due
    /\ due' = FALSE
    /\ UNCHANGED <<truth, shown, told, broken>>

Break ==
    /\ broken' = TRUE
    /\ UNCHANGED <<truth, shown, told, due>>

(* From then on the order of the writes is anybody's, but a run that has a *)
(* status keeps one, and no verdict is invented.                           *)
Race ==
    /\ broken
    /\ shown' = shown \/ shown' \in RunStates \ (Verdicts \ {truth})
    /\ told' = told \/ told' \in RunStates
    /\ due' \in BOOLEAN
    /\ UNCHANGED <<truth, broken>>

Next == Evolve \/ Show \/ Tell \/ Lose \/ Break \/ Race

Spec == Init /\ [][Next]_vars
=============================================================================
