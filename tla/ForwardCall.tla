----------------------------- MODULE ForwardCall -----------------------------
(***************************************************************************)
(* The library's Forward (portforward/forward.go) as the command and other *)
(* programs call it: it finds the container it was asked for               *)
(* (internal/target.go), probes it for ports where none were given         *)
(* (internal/probe.go), and calls StartForward.                            *)
(*                                                                         *)
(* stage[s] is where call s is; from "call" on pc[s] of StartForward is.   *)
(* Nothing is locked in between: targets come, go and change names while a *)
(* call resolves, probes and forwards.                                     *)
(***************************************************************************)
EXTENDS StartForward, Listeners

CONSTANTS
  Asks,      \* what Forward is asked for
  Compose,   \* [Targets -> the compose labels a container was created with]
  ListOrder, \* the targets in the order the daemon lists containers
  Sockets    \* [Targets -> the sockets in a container's network namespace]

VARIABLES
  stage,
  ask,       \* the call's options
  chosen,    \* the container the target was resolved to
  detected,  \* the pairs the probe found
  probe,     \* [Sessions -> life-cycle state of the call's probe container]
  probeNet,  \* the container whose network namespace the probe shares
  strayed    \* ghost: a call about its own probe failed and may have left it

callVars == <<stage, ask, chosen, detected, probe, probeNet, strayed>>
allVars  == <<vars, callVars>>

Probing == {"probeImage", "probeCreate", "probeStart", "probeWait", "probeLogs", "probeRemove"}
Stages  == {"asked", "container", "service", "call", "failed"} \cup Probing

(* The parsed target, what the compose project is taken from, and the rest  *)
(* of the options as StartForward is to get them; no pairs means to probe.  *)
AskType ==
  [type : {"container", "service", "auto"}, name : STRING,
   projectName : STRING, fileDir : STRING, cwdDir : STRING, options : RequestType]

(* The pairs for what a probe reads in the namespace of each target. *)
DetectedPairs ==
  [t \in Targets |->
     LET found == ExtractListeners(ProcTable(Sockets[t]))
     IN  [i \in DOMAIN found |->
            [address |-> "", local |-> found[i].port, remote |-> found[i].port,
             proto |-> found[i].proto]]]

RequestOf(a, t, ps) ==
  [a.options EXCEPT !.target = t, !.pairs = IF @ = <<>> THEN ps ELSE @]

ASSUME AsksAssumption ==
  /\ Asks \subseteq AskType /\ Asks # {}
  /\ {"image"} \subseteq Allowed /\ "serial" \notin Allowed
  /\ None \notin Targets
  /\ Compose \in [Targets -> [project : STRING, service : STRING, number : Nat]]
  /\ ListOrder \in Seq(Targets) /\ ToSet(ListOrder) = Targets
  /\ Sockets \in [Targets -> Seq(SocketType)]
  /\ \A a \in Asks, t \in Targets :
       a.options.pairs # <<>> \/ DetectedPairs[t] # <<>>
         => RequestOf(a, t, DetectedPairs[t]) \in Requests

GoTo(s, to) == stage' = [stage EXCEPT ![s] = to]

(* Forward acts for s until StartForward is called. *)
Early(s, at) == stage[s] = at /\ pc[s] = "idle"

-----------------------------------------------------------------------------
(* Target resolution. *)

(* The name of the compose project: as given, the directory of the first    *)
(* compose file given, or that of a compose file found where services may   *)
(* be meant; "" where there is none.                                        *)
resolveProjectName(a) ==
  IF a.projectName # "" THEN a.projectName
  ELSE IF a.fileDir # "" THEN a.fileDir
  ELSE IF a.type = "container" THEN "" ELSE a.cwdDir

Ask(s) ==
  /\ Early(s, "asked")
  /\ \E a \in Asks :
       /\ ask' = [ask EXCEPT ![s] = a]
       /\ GoTo(s, IF a.type # "service" THEN "container"
                  ELSE IF resolveProjectName(a) = "" THEN "failed" ELSE "service")
  /\ UNCHANGED <<vars, chosen, detected, probe, probeNet, strayed>>

(* The target is resolved: the call goes on with the container t. *)
Resolve(s, t) ==
  /\ chosen' = [chosen EXCEPT ![s] = t]
  /\ GoTo(s, IF ask[s].options.pairs = <<>> THEN "probeImage" ELSE "call")

(* Only a bare name the daemon does not know may be a service. *)
MayBeService(s) == ask[s].type = "auto" /\ resolveProjectName(ask[s]) # ""

resolveContainer(s) ==
  /\ Early(s, "container")
  /\ LET found == Inspected(ask[s].name)
     IN  \/ \E t \in found : Answers(s) /\ Running(targets[t]) /\ Resolve(s, t)
         \/ /\ Answers(s) /\ found = {} /\ MayBeService(s)
            /\ GoTo(s, "service")
            /\ UNCHANGED chosen
         \/ /\ \/ Fails(s)
               \/ \E t \in found : ~Running(targets[t])
               \/ found = {} /\ ~MayBeService(s)
            /\ GoTo(s, "failed")
            /\ UNCHANGED chosen
  /\ UNCHANGED <<vars, ask, detected, probe, probeNet, strayed>>

(* A label that is no positive number comes last. *)
containerNumber(t) ==
  IF Compose[t].number > 0 THEN Compose[t].number ELSE 2147483647

(* Mutant of Replicas: a service of the same name in any project. *)
ReplicasAnywhere(a) ==
  {t \in Targets : Running(targets[t]) /\ Compose[t].service = a.name}

Replicas(a) ==
  {t \in Targets : /\ Running(targets[t]) /\ Compose[t].service = a.name
                   /\ Compose[t].project = resolveProjectName(a)}

(* The first in the daemon's order among those with the lowest number. *)
LowestReplica(replicas) ==
  LET lowest == {t \in replicas : \A u \in replicas : containerNumber(t) <= containerNumber(u)}
      places == {i \in DOMAIN ListOrder : ListOrder[i] \in lowest}
  IN  ListOrder[CHOOSE i \in places : \A j \in places : i <= j]

resolveService(s) ==
  /\ Early(s, "service")
  /\ LET replicas == Replicas(ask[s])
     IN  \/ Answers(s) /\ replicas # {} /\ Resolve(s, LowestReplica(replicas))
         \/ /\ Fails(s) \/ replicas = {}
            /\ GoTo(s, "failed")
            /\ UNCHANGED chosen
  /\ UNCHANGED <<vars, ask, detected, probe, probeNet, strayed>>

-----------------------------------------------------------------------------
(* ProbeListeners.  It returns an error, or no listener, with no pairs in   *)
(* `detected`; the deferred removal of the probe comes first.               *)

ProbeImage(s) ==
  /\ Early(s, "probeImage")
  /\ LET pull == ask[s].options.pull
     IN  \/ Answers(s) /\ ImageEnsured(pull) /\ GoTo(s, "probeCreate")
         \/ /\ Fails(s) \/ (pull = "never" /\ ~image)
            /\ GoTo(s, "failed")
            /\ UNCHANGED image
  /\ UNCHANGED <<targets, status, cfg, holding, foreign, sessionVars,
                 ask, chosen, detected, probe, probeNet, strayed>>

SetProbe(s, st) == probe' = [probe EXCEPT ![s] = st]

(* Mutant of ProbeJoins: the target is named, not identified. *)
ProbeJoinsByName(s) ==
  \E t \in Inspected(targets[chosen[s]].name) : probeNet' = [probeNet EXCEPT ![s] = t]

ProbeJoins(s) == probeNet' = [probeNet EXCEPT ![s] = chosen[s]]

CreateProbe(s) ==
  /\ Early(s, "probeCreate")
  /\ \/ /\ Answers(s) /\ image /\ SetProbe(s, "created") /\ ProbeJoins(s)
        /\ GoTo(s, "probeStart")
        /\ UNCHANGED <<cancelled, strayed>>
     \/ /\ Fails(s) \/ ~image \/ ~Exists(targets[chosen[s]])
        /\ GoTo(s, "failed")
        /\ UNCHANGED <<cancelled, probe, probeNet, strayed>>
     \/ /\ Interrupted(s) /\ image /\ SetProbe(s, "created") /\ ProbeJoins(s)
        /\ GoTo(s, "failed")
        /\ strayed' = [strayed EXCEPT ![s] = TRUE]
  /\ UNCHANGED <<daemonVars, pc, req, pairs, via, helper, todo, removed, err, leaked,
                 ask, chosen, detected>>

(* The namespace of a target that does not run cannot be joined. *)
ProbeStarts(s) == probe[s] = "created" /\ Running(targets[probeNet[s]])

StartProbe(s) ==
  /\ Early(s, "probeStart")
  /\ \/ /\ Answers(s) /\ ProbeStarts(s) /\ SetProbe(s, "running")
        /\ GoTo(s, "probeWait")
        /\ UNCHANGED cancelled
     \/ /\ Fails(s) \/ ~ProbeStarts(s)
        /\ GoTo(s, "probeRemove")
        /\ UNCHANGED <<cancelled, probe>>
     \/ /\ Interrupted(s) /\ ProbeStarts(s) /\ SetProbe(s, "running")
        /\ GoTo(s, "probeRemove")
  /\ UNCHANGED <<daemonVars, pc, req, pairs, via, helper, todo, removed, err, leaked,
                 ask, chosen, detected, probeNet, strayed>>

(* Mutant of WaitProbe: no time limit. *)
WaitsForProbe(s) ==
  /\ Early(s, "probeWait")
  /\ \/ Answers(s) /\ probe[s] = "exited" /\ GoTo(s, "probeLogs")
     \/ (cancelled[s] \/ probe[s] = "gone") /\ GoTo(s, "probeRemove")
  /\ UNCHANGED <<vars, ask, chosen, detected, probe, probeNet, strayed>>

(* The wait ends with the probe, with an error, or after its time. *)
WaitProbe(s) ==
  /\ Early(s, "probeWait")
  /\ \/ Answers(s) /\ probe[s] = "exited" /\ GoTo(s, "probeLogs")
     \/ (Fails(s) \/ probe[s] # "exited") /\ GoTo(s, "probeRemove")
  /\ UNCHANGED <<vars, ask, chosen, detected, probe, probeNet, strayed>>

ReadProbe(s) ==
  /\ Early(s, "probeLogs")
  /\ GoTo(s, "probeRemove")
  /\ \/ /\ Answers(s) /\ probe[s] = "exited"
        /\ detected' = [detected EXCEPT ![s] = DetectedPairs[probeNet[s]]]
     \/ (Fails(s) \/ probe[s] # "exited") /\ UNCHANGED detected
  /\ UNCHANGED <<vars, ask, chosen, probe, probeNet, strayed>>

AfterProbe(s) == GoTo(s, IF detected[s] = <<>> THEN "failed" ELSE "call")

(* Mutant of RemoveProbe: the call's own context, not one apart. *)
RemoveProbeInContext(s) ==
  /\ Early(s, "probeRemove")
  /\ IF Answers(s) THEN SetProbe(s, "gone") ELSE UNCHANGED probe
  /\ AfterProbe(s)
  /\ UNCHANGED <<vars, ask, chosen, detected, probeNet, strayed>>

(* The removal has a context of its own and its error is dropped. *)
RemoveProbe(s) ==
  /\ Early(s, "probeRemove")
  /\ \/ SetProbe(s, "gone") /\ UNCHANGED strayed
     \/ /\ "fault" \in Allowed
        /\ strayed' = [strayed EXCEPT ![s] = TRUE]
        /\ UNCHANGED probe
  /\ AfterProbe(s)
  /\ UNCHANGED <<vars, ask, chosen, detected, probeNet>>

-----------------------------------------------------------------------------
(* Mutant of CallStartForward: the pairs of the options, detected ones or not. *)
CallWithOptions(s) ==
  /\ stage[s] = "call"
  /\ BeginWith(s, RequestOf(ask[s], chosen[s], <<>>))
  /\ UNCHANGED callVars

CallStartForward(s) ==
  /\ stage[s] = "call"
  /\ BeginWith(s, RequestOf(ask[s], chosen[s], detected[s]))
  /\ UNCHANGED callVars

(* What a call does on its own before StartForward does. *)
EarlyStep(s) ==
  \/ resolveContainer(s) \/ resolveService(s) \/ ProbeImage(s) \/ CreateProbe(s)
  \/ StartProbe(s) \/ WaitProbe(s) \/ ReadProbe(s) \/ RemoveProbe(s)

(* The probe ends by itself, and others may remove it. *)
ProbeEnds(s) ==
  /\ \/ probe[s] = "running" /\ SetProbe(s, "exited")
     \/ "cleanup" \in Allowed /\ probe[s] \in Alive /\ SetProbe(s, "gone")
  /\ UNCHANGED <<vars, stage, ask, chosen, detected, probeNet, strayed>>

CallInit ==
  /\ Init
  /\ stage = [s \in Sessions |-> "asked"]
  /\ ask = [s \in Sessions |-> CHOOSE a \in Asks : TRUE]
  /\ chosen = [s \in Sessions |-> None]
  /\ detected = [s \in Sessions |-> <<>>]
  /\ probe = [s \in Sessions |-> "none"]
  /\ probeNet = [s \in Sessions |-> None]
  /\ strayed = [s \in Sessions |-> FALSE]

CallNext ==
  \/ \E s \in Sessions :
       \/ Ask(s) \/ EarlyStep(s) \/ CallStartForward(s) \/ ProbeEnds(s)
       \/ (Step(s) \/ Cancel(s) \/ Crash(s)) /\ UNCHANGED callVars
       \/ DaemonStep(s) /\ UNCHANGED <<sessionVars, callVars>>
  \/ Interference /\ UNCHANGED <<sessionVars, callVars>>

CallSpec == CallInit /\ [][CallNext]_allVars

(* As for StartForward: a call that can act does.  The probe need not end. *)
CallFairness ==
  \A s \in Sessions :
    /\ WF_allVars(EarlyStep(s) \/ CallStartForward(s) \/ (Step(s) /\ UNCHANGED callVars))
    /\ WF_allVars(DaemonStep(s) /\ UNCHANGED <<sessionVars, callVars>>)

CallFairSpec == CallSpec /\ CallFairness

-----------------------------------------------------------------------------
(* Properties. *)

CallTypeOK ==
  /\ stage \in [Sessions -> Stages]
  /\ ask \in [Sessions -> Asks]
  /\ chosen \in [Sessions -> Targets \cup {None}]
  /\ detected \in [Sessions -> {<<>>} \cup {DetectedPairs[t] : t \in Targets}]
  /\ probe \in [Sessions -> {"none", "created", "running", "exited", "gone"}]
  /\ probeNet \in [Sessions -> Targets \cup {None}]
  /\ strayed \in [Sessions -> BOOLEAN]

(***************************************************************************)
(* What a call knows where it is: until StartForward is called nothing of  *)
(* it runs but the probe; a probe joined the container that was chosen;    *)
(* pairs are passed on only if they were asked for or read from there; and *)
(* a probe that may be left is one whose creation or removal failed.       *)
(***************************************************************************)
Joined == {"probeStart", "probeWait", "probeLogs", "probeRemove"}

CallSound(s) ==
  /\ stage[s] # "call" => pc[s] \in {"idle", "crashed"}
  /\ stage[s] \in Probing \cup {"call"} => chosen[s] \in Targets
  /\ stage[s] \in Joined => probeNet[s] = chosen[s] /\ probe[s] # "none"
  /\ detected[s] # <<>> =>
       stage[s] \in {"probeRemove", "call"} /\ detected[s] = DetectedPairs[chosen[s]]
  /\ stage[s] = "call" => ask[s].options.pairs # <<>> \/ detected[s] # <<>>
  /\ stage[s] \in {"asked", "container", "service", "probeImage", "probeCreate"} => probe[s] = "none"
  /\ stage[s] \in {"call", "failed"} => probe[s] \in {"none", "gone"} \/ strayed[s]

CallInv == CallTypeOK /\ \A s \in Sessions : CallSound(s)

(* A call is a StartForward among others: whatever resolution and probe do, *)
(* what holds of forwards there holds of those the library begins.          *)
ImplementsStartForward == Spec

(***************************************************************************)
(* The probe container is kept in custody by ProbeListeners: whether it is *)
(* interrupted, times out, cannot be started or read, or finds nothing, it *)
(* has removed it when the call goes on or fails, and makes no other.      *)
(***************************************************************************)
ProbeCall(s) ==
  CASE stage[s] \in {"call", "failed"} -> "returned"
    [] stage[s] \notin {"call", "failed"} /\ pc[s] = "crashed" -> "dead"
    [] stage[s] \in Probing /\ pc[s] # "crashed" -> "working"
    [] OTHER -> "waiting"

Probes == INSTANCE Custody WITH
  Owners  <- Sessions,
  call    <- [s \in Sessions |-> ProbeCall(s)],
  box     <- [s \in Sessions |-> IF probe[s] \in {"none", "gone"} THEN probe[s] ELSE "held"],
  excused <- strayed

ProbesInCustody == Probes!Spec

(* A helper with detected ports forwards exactly to what its target can be  *)
(* reached on, whichever containers took over the target's name while it    *)
(* was resolved, probed and inspected.                                      *)
DetectedIsServed ==
  \A s \in Sessions :
    status[s] # "none" /\ ask[s].options.pairs = <<>>
      => { [port |-> cfg[s].pairs[i].remote, proto |-> cfg[s].pairs[i].proto] :
           i \in DOMAIN cfg[s].pairs } = ReachableListeners(Sockets[cfg[s].target])

(* The container t is one that call s asked for: one of that name, or a      *)
(* replica of that service in that project.                                  *)
AskedFor(s, t) ==
  \/ ask[s].type # "service" /\ ask[s].name \in {t, targets[t].name}
  \/ /\ ask[s].type # "container"
     /\ Compose[t].service = ask[s].name
     /\ Compose[t].project = resolveProjectName(ask[s])

(* The helper a call comes to rest on, own or found, is of a container that *)
(* was asked for.  (For runs without renames.)                              *)
ServesAsked ==
  \A s \in Sessions : pc[s] \in {"done", "attached"} => AskedFor(s, cfg[helper[s]].target)

(* Forward returns, or blocks attached: the probe need not end for that.    *)
CallReturns ==
  \A s \in Sessions :
    stage[s] # "asked" ~> stage[s] = "failed" \/ pc[s] \in Ended \cup {"attached"}
=============================================================================
