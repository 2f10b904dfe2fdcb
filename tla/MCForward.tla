------------------------------ MODULE MCForward ------------------------------
(* Small instances of StartForward for TLC. *)
EXTENDS ForwardProperties, TLC

CONSTANTS s1, s2, s3, t1, t2

Symmetric == Permutations(Sessions)

P(a, l, p) == [address |-> a, local |-> l, remote |-> 80, proto |-> p]

MCPairs == [address : {"", "127.0.0.1", "::1"}, local : {0, 1, 2, 3}, remote : {1, 2, 80, 81},
            proto : {"", "tcp", "udp"}]

MCNets     == <<"app", "inner">>
MCInternal == {"inner"}
MCIPs      == {"172.17.0.2", "172.17.0.3"}
MCNames    == {"web"}
MCThreeNames == {"web", "web2", "web3"}
MCTwoNames   == {"web", "web2"}
MCNetSets  == {{"app"}, {"inner", "bridge"}}
MCPlainNets == {{"bridge"}, {"app"}}
MCOneNet   == {{"app"}}

Unborn == [state |-> "absent", name |-> "web", ip |-> "", nets |-> {}]
Bridged(name) == [state |-> "running", name |-> name, ip |-> "172.17.0.2", nets |-> {"bridge"}]
Named(name)   == [state |-> "running", name |-> name, ip |-> "", nets |-> {"app"}]

MCTarget    == { (t1 :> i @@ t2 :> Unborn) : i \in {Bridged("web"), Named("web")} }
MCNamed     == { t1 :> Named("web") @@ t2 :> Named("web2") }
MCOneTarget == { t1 :> Named("web") }

(* A request for t, to be varied with EXCEPT. *)
Plain(t) ==
  [target |-> t, pairs |-> <<P("", 1, "tcp")>>, addresses |-> <<"127.0.0.1">>,
   name |-> "", detach |-> TRUE, restart |-> "unless-stopped", range |-> "",
   network |-> "", skip |-> FALSE, pull |-> "missing"]

(* One forward after another while targets drift and helpers exit; an      *)
(* automatic port may be the very one the request names, two requests want *)
(* one name, and one wants the image to be there.                          *)
SerialRequests ==
  { Plain(t1),
    [Plain(t2) EXCEPT !.restart = "no"],
    [Plain(t1) EXCEPT !.range = "r", !.name = "pf", !.restart = "no", !.pull = "never"],
    [Plain(t1) EXCEPT !.pairs = <<P("::1", 2, ""), P("::1", 0, "")>>, !.name = "pf", !.restart = "no"],
    [Plain(t1) EXCEPT !.network = "bridge", !.skip = TRUE, !.detach = FALSE] }

(* Forwards of both targets at the same time, one of them with two pairs. *)
DriftRequests ==
  { Plain(t2),
    [Plain(t1) EXCEPT !.range = "r", !.detach = FALSE],
    [Plain(t1) EXCEPT !.pairs = <<P("", 1, "udp"), P("", 1, "tcp")>>] }

(* The same target forwarded with two source ranges, detached after a      *)
(* preflight or attached without one, while another process may have the   *)
(* port, and one that only the daemon may bind.                            *)
LiveRequests ==
  { Plain(t1),
    [Plain(t1) EXCEPT !.pairs = <<P("", 3, "tcp")>>],
    [Plain(t1) EXCEPT !.range = "r", !.skip = TRUE, !.detach = FALSE] }

PortSockets == { [address |-> "127.0.0.1", proto |-> "tcp", port |-> 1] }

(* An attached forward and a detached one that ask for the same. *)
OwnerRequests   == { Plain(t1), [Plain(t1) EXCEPT !.detach = FALSE] }
AddressRequests == { Plain(t1), [Plain(t1) EXCEPT !.addresses = <<"*">>] }

(* A detached forward, and an attached one that must replace its helper. *)
RetryRequests ==
  { Plain(t1), [Plain(t1) EXCEPT !.range = "r", !.skip = TRUE, !.detach = FALSE] }

DefaultRequests == { [Plain(t1) EXCEPT !.addresses = <<"localhost">>] }
=============================================================================
