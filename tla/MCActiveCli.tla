----------------------------- MODULE MCActiveCli -----------------------------
(* An instance of ActiveCli: a host with two adapters, and a command line  *)
(* of another version that has the second one and a third, and a default   *)
(* of its own.                                                             *)
EXTENDS ActiveCli

CONSTANTS host, cli, zcode, other, extra

MCRegistry ==
    [p \in Processes |-> IF p = host THEN <<zcode, other>> ELSE <<other, extra>>]
MCDefaultCli == [p \in Processes |-> zcode]
=============================================================================
