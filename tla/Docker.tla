------------------------------- MODULE Docker -------------------------------
(***************************************************************************)
(* The Docker daemon as the forwarder uses it, and the host around it.     *)
(* None of it is this repository's code: it is modelled from the calls     *)
(* internal/docker.go declares and from what their callers rely on.        *)
(*                                                                         *)
(* Helper containers are named after the forward that creates them, since  *)
(* a forward creates at most one.  The environment (other docker users,    *)
(* crashes, other processes) acts only in the ways the constant Allowed    *)
(* names, so that each run asks one question.                              *)
(***************************************************************************)
EXTENDS PortPairs, Drift, FiniteSets

CONSTANTS
  Sessions,      \* forwards; each is also the id of the helper it creates
  Targets,       \* ids of target containers, never reused by Docker
  TargetInits,   \* what the targets may be at first
  TargetNames,   \* names a target can have
  NetSets,       \* sets of networks a target is created on
  Pairs,         \* the port pairs helpers are given
  Addresses,     \* default bind addresses
  HelperNames,   \* container names asked for; "" is a random, unique one
  Ranges,        \* source ranges; "" accepts every client
  Privileged,    \* ports the daemon can publish and this process cannot bind
  HostIPv6,      \* whether the host has IPv6
  ForeignSockets,\* [address, port, proto] that other processes may bind
  Allowed        \* what the environment does in this run

VARIABLES
  targets,   \* [Targets -> what the daemon says of the container]
  status,    \* [Sessions -> life-cycle state of the helper container]
  cfg,       \* [Sessions -> configuration the helper was created with]
  holding,   \* helpers whose published host ports are still taken
  foreign,   \* sockets bound by other processes
  image      \* the helper image is present

Networks == ToSet(UserNets) \cup {"bridge"}

TargetInfo == [state : {"absent", "stopped", "running"}, name : TargetNames,
               ip : IPs \cup {""}, nets : SUBSET Networks]

ASSUME TargetsAssumption ==
  /\ NetSets \subseteq SUBSET Networks /\ {} \notin NetSets
  /\ TargetInits \subseteq [Targets -> TargetInfo]
  /\ TargetNames \cap (IPs \cup {""}) = {}   \* no name reads as an address

(* What the daemon sees to: a container is on a network from its creation, *)
(* has an address on the bridge while it runs there, and a name of its own. *)
Consistent(infos) ==
  \A t \in Targets :
    /\ Exists(infos[t]) => infos[t].nets # {}
    /\ HasAddress(infos[t], "bridge") => infos[t].ip \in IPs
    /\ \A u \in Targets \ {t} :
         Exists(infos[t]) /\ Exists(infos[u]) => infos[t].name # infos[u].name

ASSUME ConsistencyAssumption == \A infos \in TargetInits : Consistent(infos)

daemonVars == <<targets, status, cfg, holding, foreign, image>>

Status == {"none", "created", "running", "restarting", "exited", "removing", "gone"}
Alive  == {"created", "running", "restarting", "exited"}

(* A container the daemon no longer has to the eyes of a caller that *)
(* treats "already in progress" as removed.                          *)
Removed(h) == status[h] \in {"none", "removing", "gone"}

RestartPolicies == {"no", "always", "unless-stopped", "on-failure"}

(* What ContainerCreate is given: buildHelperContainerConfig fills it in. *)
HelperConfig == [target : Targets, network : Networks \cup {""},
                 address : TargetNames \cup IPs \cup {""},
                 pairs : Seq(Pairs), addresses : Seq(Addresses),
                 name : HelperNames, detach : BOOLEAN,
                 restart : RestartPolicies, range : Ranges]

Labels(h) == [target  |-> cfg[h].target,
              network |-> cfg[h].network,
              address |-> cfg[h].address]

(***************************************************************************)
(* Host ports.  A helper holds its bindings from start until some time     *)
(* after it stops running: the daemon releases them asynchronously.        *)
(***************************************************************************)
Published(h) == Bindings(cfg[h].pairs, cfg[h].addresses)

Conflicts(b, c) == b.port = c.port /\ b.proto = c.proto /\ Clash(b.address, c.address)

(* Helpers, other than h itself, whose ports conflict with the bindings bs. *)
HelpersBlocking(bs, h) ==
  { g \in holding \ {h} : \E b \in bs, c \in Published(g) : Conflicts(b, c) }

ForeignBlocking(bs) ==
  { c \in foreign : \E b \in bs : Conflicts(b, c) }

NeedsIPv6(bs) == \E b \in bs : b.address \in IPv6

(* The daemon can publish the bindings of h. *)
CanPublish(h) ==
  /\ HelpersBlocking(Published(h), h) = {}
  /\ ForeignBlocking(Published(h)) = {}
  /\ ~SelfConflict(cfg[h].pairs, cfg[h].addresses)
  /\ NeedsIPv6(Published(h)) => HostIPv6

(* ContainerInspect of a name or an id. *)
Inspected(name) ==
  {t \in Targets : Exists(targets[t]) /\ name \in {t, targets[t].name}}

-----------------------------------------------------------------------------
(* Environment: target containers. *)

FreeName(t, n) == \A u \in Targets \ {t} : Exists(targets[u]) => targets[u].name # n
FreeIP(t, ip)  == \A u \in Targets \ {t} : targets[u].ip # ip

(* The address a container with these networks gets on start: *)
(* one from the bridge when it is attached to it.             *)
IPChoices(t, nets) == IF "bridge" \in nets THEN {ip \in IPs : FreeIP(t, ip)} ELSE {""}

SetTarget(t, info) ==
  /\ targets' = [targets EXCEPT ![t] = info]
  /\ UNCHANGED <<status, cfg, holding, foreign, image>>

CreateTarget(t) ==
  /\ targets[t].state = "absent" /\ targets[t].nets = {}
  /\ \E n \in TargetNames, nets \in NetSets : \E ip \in IPChoices(t, nets) :
       /\ FreeName(t, n)
       /\ SetTarget(t, [state |-> "running", name |-> n, ip |-> ip, nets |-> nets])

StopTarget(t) ==
  /\ Running(targets[t])
  /\ SetTarget(t, [targets[t] EXCEPT !.state = "stopped", !.ip = ""])

StartTarget(t) ==
  /\ targets[t].state = "stopped"
  /\ \E ip \in IPChoices(t, targets[t].nets) :
       SetTarget(t, [targets[t] EXCEPT !.state = "running", !.ip = ip])

(* The networks are kept, so that the id is not given out again. *)
RemoveTarget(t) ==
  /\ Exists(targets[t])
  /\ SetTarget(t, [targets[t] EXCEPT !.state = "absent", !.ip = ""])

RenameTarget(t) ==
  /\ Exists(targets[t])
  /\ \E n \in TargetNames :
       /\ FreeName(t, n) /\ n # targets[t].name
       /\ SetTarget(t, [targets[t] EXCEPT !.name = n])

(* docker network connect and disconnect, keeping at least one network. *)
ChangeNetworks(t) ==
  /\ Running(targets[t])
  /\ \E nets \in NetSets \ {targets[t].nets} :
     \E ip \in IPChoices(t, nets) :
       SetTarget(t, [targets[t] EXCEPT !.nets = nets, !.ip = ip])

(***************************************************************************)
(* Environment: helper containers.                                         *)
(***************************************************************************)
SetStatus(h, st) ==
  /\ status' = [status EXCEPT ![h] = st]
  /\ UNCHANGED <<targets, cfg, holding, foreign, image>>

(* The helper ends by itself or by docker stop: an auto-removed helper is  *)
(* removed, one with a restart policy is restarted unless it was stopped   *)
(* or its policy does not apply.                                           *)
HelperExit(h) ==
  /\ status[h] = "running"
  /\ \E st \in IF cfg[h].detach
               THEN IF cfg[h].restart = "no" THEN {"exited"} ELSE {"restarting", "exited"}
               ELSE {"removing"} :
       SetStatus(h, st)

HelperRestart(h) ==
  /\ status[h] = "restarting"
  /\ IF CanPublish(h)
     THEN /\ status' = [status EXCEPT ![h] = "running"]
          /\ holding' = holding \cup {h}
          /\ UNCHANGED <<targets, cfg, foreign, image>>
     ELSE SetStatus(h, "exited")

AutoRemoveDone(h) ==
  /\ status[h] = "removing"
  /\ SetStatus(h, "gone")

ReleasePorts(h) ==
  /\ h \in holding /\ status[h] # "running"
  /\ holding' = holding \ {h}
  /\ UNCHANGED <<targets, status, cfg, foreign, image>>

(* docker rm -f by somebody else, a cleanup command among them. *)
ExternalRemove(h) ==
  /\ status[h] \in Alive
  /\ SetStatus(h, "gone")

-----------------------------------------------------------------------------
(* Environment: other processes on the host. *)

ForeignBind(c) ==
  /\ c \notin foreign
  /\ ForeignBlocking({c}) = {}
  /\ \A g \in holding : \A b \in Published(g) : ~Conflicts(b, c)
  /\ foreign' = foreign \cup {c}
  /\ UNCHANGED <<targets, status, cfg, holding, image>>

ForeignClose(c) ==
  /\ c \in foreign
  /\ foreign' = foreign \ {c}
  /\ UNCHANGED <<targets, status, cfg, holding, image>>

(* docker image rm or prune. *)
ImageRemoved ==
  /\ image
  /\ image' = FALSE
  /\ UNCHANGED <<targets, status, cfg, holding, foreign>>

(* docker pull, by a probe or a forward of somebody else too. *)
ImagePulled ==
  /\ ~image
  /\ image' = TRUE
  /\ UNCHANGED <<targets, status, cfg, holding, foreign>>

TargetStep ==
  \E t \in Targets :
    \/ "drift" \in Allowed /\ (CreateTarget(t) \/ StopTarget(t) \/ StartTarget(t) \/ RemoveTarget(t))
    \/ "rename" \in Allowed /\ RenameTarget(t)
    \/ "network" \in Allowed /\ ChangeNetworks(t)

HelperStep ==
  \E h \in Sessions :
    \/ "exit" \in Allowed /\ HelperExit(h)
    \/ "cleanup" \in Allowed /\ ExternalRemove(h)

HostStep ==
  \/ "foreign" \in Allowed /\ \E c \in ForeignSockets : ForeignBind(c) \/ ForeignClose(c)
  \/ "image" \in Allowed /\ (ImageRemoved \/ ImagePulled)

(* What others do, and may never do. *)
Interference == TargetStep \/ HelperStep \/ HostStep

(* What the daemon does of its own accord, and always completes. *)
DaemonStep(h) == AutoRemoveDone(h) \/ ReleasePorts(h) \/ HelperRestart(h)

DaemonTypeOK ==
  /\ targets \in [Targets -> TargetInfo]
  /\ status \in [Sessions -> Status]
  /\ cfg \in [Sessions -> HelperConfig]
  /\ holding \subseteq Sessions
  /\ foreign \subseteq ForeignSockets
  /\ image \in BOOLEAN
=============================================================================
