-------------------------------- MODULE Drift --------------------------------
(***************************************************************************)
(* Which network and address a helper uses to reach its target, and when a *)
(* helper can no longer reach it (pickTargetNetwork and its helpers in     *)
(* internal/forward.go, CheckHelper in internal/drift.go).                 *)
(*                                                                         *)
(* What the daemon says of a target container is                           *)
(*   [state, name, ip, nets]                                               *)
(* with state "absent", "stopped" or "running", nets the networks it is    *)
(* attached to and ip its address on the default bridge.  A container has  *)
(* an address on a network only while it runs.                             *)
(***************************************************************************)
EXTENDS Naturals, Sequences

CONSTANTS
  UserNets,   \* user-defined networks, a sequence in name order
  Internal,   \* the internal ones among them
  IPs         \* addresses the default bridge hands out

ASSUME NetworksAssumption ==
  /\ \A i \in DOMAIN UserNets : UserNets[i] \notin {"", "bridge", "host", "none"}
  /\ Internal \cap {"", "bridge"} = {}
  /\ "" \notin IPs

Exists(info)  == info.state # "absent"
Running(info) == info.state = "running"

attachedTo(info, net) == net \in info.nets

(* The container has an address on net. *)
HasAddress(info, net) == Running(info) /\ attachedTo(info, net)

(* What socat dials: the name on a user-defined network, the IP on the bridge. *)
targetAddress(info, net) == IF net = "bridge" THEN info.ip ELSE info.name

(* Mutant of Route: the two results are swapped. *)
SwappedRoute(info, net) == [net |-> targetAddress(info, net), addr |-> net]

Route(info, net) == [net |-> net, addr |-> targetAddress(info, net)]

(* The route on the requested network, or none: a set of at most one, empty *)
(* where the code returns an error.                                         *)
pickRequestedNetwork(info, requested) ==
  { Route(info, net) : net \in
      {n \in {requested} \ {"host", "none"} : HasAddress(info, n) /\ n \notin Internal} }

(* The first usable user-defined network in name order, else the bridge. *)
pickTargetNetwork(info, requested) ==
  LET usable == { i \in DOMAIN UserNets :
                    HasAddress(info, UserNets[i]) /\ UserNets[i] \notin Internal }
      first  == { i \in usable : \A j \in usable : i <= j }
  IN  IF requested # ""
      THEN pickRequestedNetwork(info, requested)
      ELSE { Route(info, UserNets[i]) : i \in first } \cup
           { Route(info, net) : net \in
               {n \in {"bridge"} : usable = {} /\ HasAddress(info, n)} }

(***************************************************************************)
(* CheckHelper: label is [target, network, address], the labels recorded   *)
(* when the helper was created, and infos what the daemon says now.        *)
(***************************************************************************)
StaleByName(label, infos) ==
  \A t \in DOMAIN infos :
    Exists(infos[t]) /\ infos[t].name = label.address
      => ~attachedTo(infos[t], label.network)

(* Mutant of StaleByIP: the container is found but its address not compared. *)
StaleIgnoringIP(label, infos) ==
  LET info == infos[label.target]
  IN  ~Exists(info) \/ (Running(info) /\ ~attachedTo(info, label.network))

StaleByIP(label, infos) ==
  LET info == infos[label.target]
  IN  \/ ~Exists(info)
      \/ /\ Running(info)
         /\ \/ ~attachedTo(info, label.network)
            \/ info.ip # label.address

(* Mutants of CheckHelper: it compares addresses of helpers that dial a *)
(* name, or does not look at those helpers at all.                      *)
CheckEveryIP(label, infos) == label.address # "" /\ StaleByIP(label, infos)
CheckOnlyIP(label, infos)  == label.address \in IPs /\ StaleByIP(label, infos)

CheckHelper(label, infos) ==
  /\ label.address # "" /\ label.network # ""
  /\ \/ label.network \in Internal
     \/ label.address \in IPs    /\ StaleByIP(label, infos)
     \/ label.address \notin IPs /\ StaleByName(label, infos)

(***************************************************************************)
(* The containers a helper's connections really end at: the running one    *)
(* that answers to the name on the network, or that has the bridge IP      *)
(* (external: Docker's DNS and bridge).                                    *)
(***************************************************************************)
Dials(label, infos) ==
  { t \in DOMAIN infos :
      /\ HasAddress(infos[t], label.network)
      /\ targetAddress(infos[t], label.network) = label.address }
=============================================================================
