------------------------------ MODULE MCCleanup ------------------------------
(* Small instances of Cleanup for TLC. *)
EXTENDS MCForward, Cleanup

Everything == [name |-> None, target |-> None, stale |-> FALSE, dryRun |-> FALSE]

(* Everything; what would be removed by name; what is stale of one target. *)
MCCommands ==
  { Everything,
    [Everything EXCEPT !.name = "pf", !.dryRun = TRUE],
    [Everything EXCEPT !.target = "web", !.stale = TRUE] }

(* Detached forwards of a target on two networks, one dialling its name and *)
(* one its address; it leaves the one or comes back with another address.   *)
CleanupRequests ==
  { [Plain(t1) EXCEPT !.name = "pf"],
    [Plain(t1) EXCEPT !.network = "bridge", !.pairs = <<P("", 2, "tcp")>>] }

MCTwoNets == {{"app", "bridge"}, {"bridge"}}
MCBothNets == { t1 :> [Bridged("web") EXCEPT !.nets = {"app", "bridge"}] }
=============================================================================
