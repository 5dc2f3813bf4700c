------------------------------ MODULE RunModel ------------------------------
(* The closed state vocabulary of a run, from src/src/domain/model.mjs,    *)
(* and the order in which an adapter reports its states.                   *)

OpenStates == {"discovered", "running", "waiting", "response-ready"}

TerminalStates == {"finished", "timed-out", "failed", "orphaned"}

RunStates == OpenStates \cup TerminalStates \cup {"unknown"}

(* The states a wrapper's report settles; the report is never taken back. *)
Verdicts == {"finished", "timed-out", "failed"}

(* A run without a report shows log activity, until it is too old; a       *)
(* report that cannot be read yet, or has no verdict yet, is "unknown".    *)
(* ZcodeAdapter shows that its observations follow this order, as long as  *)
(* no file access fails.  A report may come late: "orphaned" is one of     *)
(* TERMINAL_STATES, "States after which a run can never change again", but *)
(* an adapter lets it change.                                              *)
Successors(s) ==
    CASE s \in Verdicts   -> {}
      [] s = "unknown"    -> Verdicts
      [] s = "orphaned"   -> Verdicts \cup {"unknown"}
      [] OTHER            -> RunStates \ {"discovered"}

(* What an adapter may take a run in state s for when it cannot look at a  *)
(* file: a report that cannot be read is "unknown", one that seems not to  *)
(* be there makes the run live or orphaned again; a log that seems not to  *)
(* be there makes the run quieter than it is.                              *)
MistakenFor(s) ==
    CASE s \in Verdicts \cup {"unknown"} ->
            {"unknown", "orphaned", "discovered", "running", "waiting"}
      [] s \in {"running", "waiting"} -> {"discovered", "waiting"}
      [] OTHER -> {}
=============================================================================
