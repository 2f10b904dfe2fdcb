------------------------------ MODULE CallProofs ------------------------------
(***************************************************************************)
(* Theorems about the library's Forward: a call is a forward among others, *)
(* so that the theorems about Spec hold of calls too; it keeps its probe   *)
(* container in custody, and serves the container that was asked for, on   *)
(* the ports it was found to listen on.                                    *)
(***************************************************************************)
EXTENDS ForwardServing, ForwardCall, ListenerProofs, WellFoundedInduction

Own(s) == <<stage[s], ask[s], chosen[s], detected[s], probe[s], probeNet[s], strayed[s]>>

(* What call s does before StartForward, and what happens to its probe. *)
CallActs(s) == Ask(s) \/ EarlyStep(s) \/ ProbeEnds(s)

(* The stages, one by one. *)
LEMMA StageValues ==
  /\ {"asked", "container", "service", "call", "failed", "probeImage", "probeCreate",
      "probeStart", "probeWait", "probeLogs", "probeRemove"} = Stages
  /\ Probing \subseteq Stages /\ Joined \subseteq Probing
BY DEF Stages, Probing, Joined

(* Going to a stage is being there. *)
LEMMA GoToType ==
  ASSUME CallTypeOK, NEW s \in Sessions, NEW to \in Stages, GoTo(s, to)
  PROVE  /\ stage' \in [Sessions -> Stages] /\ stage'[s] = to
         /\ \A u \in Sessions \ {s} : stage'[u] = stage[u]
BY DEF CallTypeOK, GoTo

(* The probe's state is what it was set to. *)
LEMMA SetProbeType ==
  ASSUME CallTypeOK, NEW s \in Sessions,
         NEW st \in {"created", "running", "exited", "gone"}, SetProbe(s, st)
  PROVE  /\ probe' \in [Sessions -> {"none", "created", "running", "exited", "gone"}]
         /\ probe'[s] = st
         /\ \A u \in Sessions \ {s} : probe'[u] = probe[u]
BY DEF CallTypeOK, SetProbe

(* A container that answers to a name is a target. *)
LEMMA InspectedType == ASSUME NEW name PROVE Inspected(name) \subseteq Targets
BY DEF Inspected

(* A set of numbers that has any has a least one. *)
LEMMA LeastNumber ==
  ASSUME NEW T \in SUBSET Nat, T # {}
  PROVE  \E x \in T : \A y \in T : x <= y
<1>1. PICK x \in T : \A y \in T : <<y, x>> \notin OpToRel(<, Nat)
  BY NatLessThanWellFounded, WFMin
<1>2. \A y \in T : ~(y < x)
  BY <1>1 DEF OpToRel
<1> QED
  BY <1>2

(* The replica that is chosen is one of those that were found. *)
LEMMA ReplicaType ==
  ASSUME NEW replicas \in SUBSET Targets, replicas # {}
  PROVE  LowestReplica(replicas) \in replicas
<1> DEFINE lowest == {t \in replicas :
                       \A u \in replicas : containerNumber(t) <= containerNumber(u)}
           places == {i \in DOMAIN ListOrder : ListOrder[i] \in lowest}
<1>1. \A t \in Targets : containerNumber(t) \in Nat
  BY AsksAssumption DEF containerNumber
<1>2. lowest # {}
  <2> DEFINE numbers == {containerNumber(t) : t \in replicas}
  <2>1. numbers \in SUBSET Nat /\ numbers # {}
    BY <1>1
  <2>2. PICK n \in numbers : \A m \in numbers : n <= m
    BY <2>1, LeastNumber
  <2> QED
    BY <2>2
<1>3. places \in SUBSET Nat /\ places # {}
  BY <1>2, AsksAssumption DEF ToSet
<1>4. \E i \in places : \A j \in places : i <= j
  BY <1>3, LeastNumber
<1> QED
  BY <1>4 DEF LowestReplica
-----------------------------------------------------------------------------
(* Each step, by the call it is of. *)

(* A call's own steps are its own. *)
LEMMA CallLocality ==
  ASSUME CallTypeOK, TypeOK, NEW s \in Sessions, CallActs(s), NEW u \in Sessions \ {s}
  PROVE  UNCHANGED <<Own(u), pc[u]>>
<1> USE DEF CallTypeOK, GoTo, Own
<1>1. CASE Ask(s) \/ ProbeEnds(s)
  BY <1>1 DEF Ask, ProbeEnds, SetProbe, vars, sessionVars
<1>2. CASE resolveContainer(s) \/ resolveService(s)
  BY <1>2 DEF resolveContainer, resolveService, Resolve, vars, sessionVars
<1>3. CASE ProbeImage(s) \/ CreateProbe(s) \/ StartProbe(s)
  BY <1>3 DEF ProbeImage, CreateProbe, StartProbe, SetProbe, ProbeJoins, sessionVars
<1>4. CASE WaitProbe(s) \/ ReadProbe(s) \/ RemoveProbe(s)
  BY <1>4 DEF WaitProbe, ReadProbe, RemoveProbe, AfterProbe, SetProbe, vars, sessionVars
<1> QED
  BY <1>1, <1>2, <1>3, <1>4 DEF CallActs, EarlyStep

(* To StartForward a call's own step is a stutter, somebody's pull of the *)
(* image, or a cancellation.                                              *)
LEMMA CallActsOutside ==
  ASSUME CallTypeOK, NEW s \in Sessions, CallActs(s)
  PROVE  \/ UNCHANGED vars
         \/ ImagePulled /\ UNCHANGED sessionVars
         \/ Cancel(s)
<1>1. CASE Ask(s) \/ ProbeEnds(s) \/ resolveContainer(s) \/ resolveService(s)
           \/ WaitProbe(s) \/ ReadProbe(s) \/ RemoveProbe(s)
  BY <1>1 DEF Ask, ProbeEnds, resolveContainer, resolveService, WaitProbe, ReadProbe, RemoveProbe
<1>2. CASE ProbeImage(s)
  BY <1>2 DEF ProbeImage, ImageEnsured, ImagePulled, vars, daemonVars, sessionVars
<1>3. CASE CreateProbe(s) \/ StartProbe(s)
  BY <1>3 DEF CreateProbe, StartProbe, Early, Interrupted, Cancel, Ended, vars, sessionVars
<1> QED
  BY <1>1, <1>2, <1>3 DEF CallActs, EarlyStep
(* Asking and resolving the target keep the invariant of the call. *)
LEMMA ResolutionInv ==
  ASSUME CallInv, TypeOK, NEW s \in Sessions,
         Ask(s) \/ resolveContainer(s) \/ resolveService(s)
  PROVE  CallTypeOK' /\ CallSound(s)'
<1> USE StageValues DEF CallInv
<1>1. CallTypeOK /\ pc[s] = "idle" /\ pc' = pc
  BY DEF Ask, resolveContainer, resolveService, Early, vars, sessionVars
<1>2. UNCHANGED <<detected, probe, probeNet, strayed>> /\ detected[s] = <<>> /\ probe[s] = "none"
  BY DEF Ask, resolveContainer, resolveService, Early, CallSound
<1>3. CASE Ask(s)
  <2>1. PICK a \in Asks : /\ ask' = [ask EXCEPT ![s] = a]
                         /\ GoTo(s, IF a.type # "service" THEN "container"
                                    ELSE IF resolveProjectName(a) = "" THEN "failed" ELSE "service")
    BY <1>3 DEF Ask
  <2>2. /\ stage' \in [Sessions -> Stages]
        /\ stage'[s] \in {"container", "failed", "service"}
    BY <1>1, <2>1, GoToType
  <2>3. UNCHANGED chosen
    BY <1>3 DEF Ask
  <2> QED
    BY <1>1, <1>2, <2>1, <2>2, <2>3 DEF CallTypeOK, CallSound, Probing, Joined
<1>4. ASSUME NEW t \in Targets, Resolve(s, t), UNCHANGED ask PROVE CallTypeOK' /\ CallSound(s)'
  <2>1. GoTo(s, "probeImage") \/ (GoTo(s, "call") /\ ask[s].options.pairs # <<>>)
    BY <1>4 DEF Resolve
  <2>2. /\ stage' \in [Sessions -> Stages]
        /\ \/ stage'[s] = "probeImage"
           \/ stage'[s] = "call" /\ ask[s].options.pairs # <<>>
    BY <1>1, <2>1, GoToType
  <2>3. chosen' \in [Sessions -> Targets \cup {None}] /\ chosen'[s] = t
    BY <1>1, <1>4 DEF Resolve, CallTypeOK
  <2> QED
    BY <1>1, <1>2, <1>4, <2>2, <2>3 DEF CallTypeOK, CallSound, Probing, Joined
<1>5. CASE resolveContainer(s) \/ resolveService(s)
  <2>1. UNCHANGED ask
    BY <1>5 DEF resolveContainer, resolveService
  <2>2. \/ \E t \in Targets : Resolve(s, t)
        \/ UNCHANGED chosen /\ (GoTo(s, "service") \/ GoTo(s, "failed"))
    <3>1. CASE resolveContainer(s)
      BY <3>1, InspectedType DEF resolveContainer
    <3>2. CASE resolveService(s)
      <4>1. Replicas(ask[s]) \in SUBSET Targets
        BY DEF Replicas
      <4> QED
        BY <3>2, <4>1, ReplicaType DEF resolveService
    <3> QED
      BY <1>5, <3>1, <3>2
  <2>3. CASE UNCHANGED chosen /\ (GoTo(s, "service") \/ GoTo(s, "failed"))
    <3>1. stage' \in [Sessions -> Stages] /\ stage'[s] \in {"service", "failed"}
      BY <1>1, <2>3, GoToType
    <3> QED
      BY <1>1, <1>2, <2>1, <2>3, <3>1 DEF CallTypeOK, CallSound, Probing, Joined
  <2> QED
    BY <1>4, <2>1, <2>2, <2>3
<1> QED
  BY <1>3, <1>5

(* The steps of the probe up to its start. *)
LEMMA ProbeStartInv ==
  ASSUME CallInv, TypeOK, NEW s \in Sessions,
         ProbeImage(s) \/ CreateProbe(s) \/ StartProbe(s)
  PROVE  CallTypeOK' /\ CallSound(s)'
<1> USE StageValues DEF CallInv
<1>1. CallTypeOK /\ pc[s] = "idle" /\ pc' = pc /\ UNCHANGED <<ask, chosen, detected>>
  BY DEF ProbeImage, CreateProbe, StartProbe, Early, sessionVars
<1>2. detected[s] = <<>> /\ chosen[s] \in Targets
  BY DEF ProbeImage, CreateProbe, StartProbe, Early, CallSound, Probing
<1>3. CASE ProbeImage(s)
  <2>1. stage' \in [Sessions -> Stages] /\ stage'[s] \in {"probeCreate", "failed"}
    BY <1>1, <1>3, GoToType DEF ProbeImage
  <2>2. probe[s] = "none" /\ UNCHANGED <<probe, probeNet, strayed>>
    BY <1>3 DEF ProbeImage, Early, CallSound
  <2> QED
    BY <1>1, <1>2, <2>1, <2>2 DEF CallTypeOK, CallSound, Probing, Joined
<1>4. CASE CreateProbe(s)
  <2>1. probe[s] = "none"
    BY <1>4 DEF CreateProbe, Early, CallSound
  <2>2. ASSUME SetProbe(s, "created"), ProbeJoins(s),
               \/ GoTo(s, "probeStart") /\ UNCHANGED strayed
               \/ GoTo(s, "failed") /\ strayed' = [strayed EXCEPT ![s] = TRUE]
        PROVE  CallTypeOK' /\ CallSound(s)'
    <3>1. /\ probe' \in [Sessions -> {"none", "created", "running", "exited", "gone"}]
          /\ probe'[s] = "created"
      BY <1>1, <2>2, SetProbeType
    <3>2. probeNet' \in [Sessions -> Targets \cup {None}] /\ probeNet'[s] = chosen[s]
      BY <1>1, <1>2, <2>2 DEF ProbeJoins, CallTypeOK
    <3>3. /\ stage' \in [Sessions -> Stages] /\ strayed' \in [Sessions -> BOOLEAN]
          /\ stage'[s] = "probeStart" \/ (stage'[s] = "failed" /\ strayed'[s])
      BY <1>1, <2>2, GoToType DEF CallTypeOK
    <3> QED
      BY <1>1, <1>2, <3>1, <3>2, <3>3 DEF CallTypeOK, CallSound, Probing, Joined
  <2>3. ASSUME GoTo(s, "failed"), UNCHANGED <<probe, probeNet, strayed>>
        PROVE  CallTypeOK' /\ CallSound(s)'
    <3>1. stage' \in [Sessions -> Stages] /\ stage'[s] = "failed"
      BY <1>1, <2>3, GoToType
    <3> QED
      BY <1>1, <1>2, <2>1, <2>3, <3>1 DEF CallTypeOK, CallSound, Probing, Joined
  <2> QED
    BY <1>4, <2>2, <2>3 DEF CreateProbe
<1>5. CASE StartProbe(s)
  <2>1. probe[s] # "none" /\ probeNet[s] = chosen[s] /\ UNCHANGED <<probeNet, strayed>>
    BY <1>5 DEF StartProbe, Early, CallSound, Joined
  <2>2. stage' \in [Sessions -> Stages] /\ stage'[s] \in {"probeWait", "probeRemove"}
    BY <1>1, <1>5, GoToType DEF StartProbe
  <2>3. /\ probe' \in [Sessions -> {"none", "created", "running", "exited", "gone"}]
        /\ probe'[s] # "none"
    <3>1. UNCHANGED probe \/ SetProbe(s, "running")
      BY <1>5 DEF StartProbe
    <3> QED
      BY <1>1, <2>1, <3>1, SetProbeType DEF CallTypeOK
  <2> QED
    BY <1>1, <1>2, <2>1, <2>2, <2>3 DEF CallTypeOK, CallSound, Probing, Joined
<1> QED
  BY <1>3, <1>4, <1>5

(* The rest of the probe's steps. *)
LEMMA ProbeEndInv ==
  ASSUME CallInv, TypeOK, NEW s \in Sessions,
         WaitProbe(s) \/ ReadProbe(s) \/ RemoveProbe(s)
  PROVE  CallTypeOK' /\ CallSound(s)'
<1> USE StageValues DEF CallInv
<1>1. CallTypeOK /\ pc[s] = "idle" /\ pc' = pc /\ UNCHANGED <<ask, chosen, probeNet>>
  BY DEF WaitProbe, ReadProbe, RemoveProbe, Early, vars, sessionVars
<1>2. chosen[s] \in Targets /\ probeNet[s] = chosen[s] /\ probe[s] # "none"
  BY DEF WaitProbe, ReadProbe, RemoveProbe, Early, CallSound, Probing, Joined
<1>3. CASE WaitProbe(s)
  <2>1. stage' \in [Sessions -> Stages] /\ stage'[s] \in {"probeLogs", "probeRemove"}
    BY <1>1, <1>3, GoToType DEF WaitProbe
  <2>2. detected[s] = <<>> /\ UNCHANGED <<detected, probe, strayed>>
    BY <1>3 DEF WaitProbe, Early, CallSound
  <2> QED
    BY <1>1, <1>2, <2>1, <2>2 DEF CallTypeOK, CallSound, Probing, Joined
<1>4. CASE ReadProbe(s)
  <2>1. stage' \in [Sessions -> Stages] /\ stage'[s] = "probeRemove"
    BY <1>1, <1>4, GoToType DEF ReadProbe
  <2>2. detected[s] = <<>> /\ UNCHANGED <<probe, strayed>>
    BY <1>4 DEF ReadProbe, Early, CallSound
  <2>3. UNCHANGED detected \/ detected' = [detected EXCEPT ![s] = DetectedPairs[probeNet[s]]]
    BY <1>4 DEF ReadProbe
  <2>4. /\ detected' \in [Sessions -> {<<>>} \cup {DetectedPairs[t] : t \in Targets}]
        /\ detected'[s] \in {<<>>, DetectedPairs[chosen[s]]}
    BY <1>1, <1>2, <2>2, <2>3 DEF CallTypeOK
  <2> QED
    BY <1>1, <1>2, <2>1, <2>2, <2>4 DEF CallTypeOK, CallSound, Probing, Joined
<1>5. CASE RemoveProbe(s)
  <2>1. UNCHANGED detected /\ detected[s] \in {<<>>, DetectedPairs[chosen[s]]}
    BY <1>5 DEF RemoveProbe, CallSound
  <2>2. /\ stage' \in [Sessions -> Stages]
        /\ stage'[s] = IF detected[s] = <<>> THEN "failed" ELSE "call"
    BY <1>1, <1>5, GoToType DEF RemoveProbe, AfterProbe
  <2>3. \/ SetProbe(s, "gone") /\ UNCHANGED strayed
        \/ UNCHANGED probe /\ strayed' = [strayed EXCEPT ![s] = TRUE]
    BY <1>5 DEF RemoveProbe
  <2>4. /\ probe' \in [Sessions -> {"none", "created", "running", "exited", "gone"}]
        /\ strayed' \in [Sessions -> BOOLEAN]
        /\ probe'[s] = "gone" \/ strayed'[s]
    BY <1>1, <2>3, SetProbeType DEF CallTypeOK
  <2> QED
    BY <1>1, <1>2, <2>1, <2>2, <2>4 DEF CallTypeOK, CallSound, Probing, Joined
<1> QED
  BY <1>3, <1>4, <1>5

(* So does what happens to a probe by itself. *)
LEMMA ProbeEndsInv ==
  ASSUME CallInv, NEW s \in Sessions, ProbeEnds(s)
  PROVE  CallTypeOK' /\ CallSound(s)'
<1>1. CallTypeOK /\ UNCHANGED <<pc, stage, ask, chosen, detected, probeNet, strayed>>
  BY DEF ProbeEnds, CallInv, vars, sessionVars
<1>2. /\ probe[s] \in {"created", "running", "exited"}
      /\ SetProbe(s, "exited") \/ SetProbe(s, "gone")
  BY <1>1 DEF ProbeEnds, Alive, CallTypeOK
<1>3. /\ probe' \in [Sessions -> {"none", "created", "running", "exited", "gone"}]
      /\ probe'[s] \in {"exited", "gone"}
  BY <1>1, <1>2, SetProbeType
<1> QED
  BY <1>1, <1>2, <1>3 DEF CallInv, CallTypeOK, CallSound, Probing
(* Steps of forwards and of everything else leave the calls alone. *)
LEMMA OutsideInv ==
  ASSUME CallInv, TypeInv, UNCHANGED callVars,
         \/ \E s \in Sessions : Acts(s) /\ (stage[s] = "call" \/ ~Begin(s))
         \/ UNCHANGED pc
  PROVE  CallInv'
<1>1. \A u \in Sessions : stage[u] # "call" /\ pc[u] \in {"idle", "crashed"}
        => pc'[u] \in {"idle", "crashed"}
  <2>1. ASSUME NEW s \in Sessions, Acts(s), stage[s] = "call" \/ ~Begin(s),
               NEW u \in Sessions, stage[u] # "call", pc[u] \in {"idle", "crashed"}
        PROVE  pc'[u] \in {"idle", "crashed"}
    <3>1. CASE u # s
      BY <2>1, <3>1, Locality
    <3>2. CASE u = s
      <4>1. Cancel(s) \/ Crash(s)
        BY <2>1, <3>2, Transitions DEF Acts, Step
      <4> QED
        BY <2>1, <3>2, <4>1 DEF Cancel, Crash, TypeInv, TypeOK
    <3> QED
      BY <3>1, <3>2
  <2> QED
    BY <2>1
<1> QED
  BY <1>1 DEF CallInv, CallTypeOK, CallSound, callVars

(* A call begins StartForward with one of its requests. *)
LEMMA CallBegins ==
  ASSUME CallInv, NEW s \in Sessions, CallStartForward(s) PROVE Begin(s)
<1> DEFINE a == ask[s]
<1>1. /\ a \in Asks /\ chosen[s] \in Targets
      /\ a.options.pairs # <<>> \/ detected[s] = DetectedPairs[chosen[s]]
      /\ a.options.pairs # <<>> \/ detected[s] # <<>>
  BY DEF CallStartForward, CallInv, CallTypeOK, CallSound
<1>2. RequestOf(a, chosen[s], detected[s]) = RequestOf(a, chosen[s], DetectedPairs[chosen[s]])
  <2>1. a.options \in RequestType
    BY <1>1, AsksAssumption DEF AskType
  <2>2. [a.options EXCEPT !.target = chosen[s]].pairs = a.options.pairs
    BY <2>1 DEF RequestType
  <2> QED
    BY <1>1, <2>1, <2>2 DEF RequestOf
<1>3. RequestOf(a, chosen[s], detected[s]) \in Requests
  BY <1>1, <1>2, AsksAssumption
<1> QED
  BY <1>3 DEF CallStartForward, Begin
-----------------------------------------------------------------------------
(* The invariant and the refinements. *)

(* Each step of the composition, by whose it is. *)
LEMMA CallNextCases ==
  ASSUME [CallNext]_allVars
  PROVE  \/ \E s \in Sessions : CallActs(s)
         \/ \E s \in Sessions : CallStartForward(s)
         \/ /\ UNCHANGED callVars
            /\ \/ \E s \in Sessions : Step(s) \/ Cancel(s) \/ Crash(s)
               \/ \E s \in Sessions : DaemonStep(s) /\ UNCHANGED sessionVars
               \/ Interference /\ UNCHANGED sessionVars
               \/ UNCHANGED vars
BY DEF CallNext, allVars, CallActs

(* CallInv is inductive beside the type invariant of StartForward. *)
LEMMA CallNextInv ==
  ASSUME CallInv, TypeInv, [CallNext]_allVars PROVE CallInv'
<1>1. ASSUME NEW s \in Sessions, CallActs(s) PROVE CallInv'
  <2>1. CallTypeOK' /\ CallSound(s)'
    BY <1>1, ResolutionInv, ProbeStartInv, ProbeEndInv, ProbeEndsInv
    DEF CallActs, EarlyStep, TypeInv
  <2>2. ASSUME NEW u \in Sessions \ {s} PROVE CallSound(u)'
    <3>1. UNCHANGED <<Own(u), pc[u]>>
      BY <1>1, CallLocality DEF CallInv, TypeInv
    <3> QED
      BY <3>1 DEF Own, CallInv, CallSound
  <2> QED
    BY <2>1, <2>2 DEF CallInv
<1>2. ASSUME NEW s \in Sessions, CallStartForward(s) PROVE CallInv'
  <2>1. Begin(s) /\ stage[s] = "call" /\ UNCHANGED callVars
    BY <1>2, CallBegins DEF CallStartForward
  <2> QED
    BY <2>1, OutsideInv DEF Acts
<1>3. CASE UNCHANGED callVars /\ \E s \in Sessions : Step(s) \/ Cancel(s) \/ Crash(s)
  <2>1. PICK s \in Sessions : Step(s) \/ Cancel(s) \/ Crash(s)
    BY <1>3
  <2>2. Begin(s) => stage[s] = "call" \/ CallInv'
    <3>1. Begin(s) => pc[s] = "idle" /\ pc'[s] \in {"inspect", "failed"}
      BY Transitions
    <3>2. Cancel(s) => pc'[s] = pc[s]
      BY DEF Cancel
    <3>3. Crash(s) => pc'[s] = "crashed"
      BY DEF Crash, TypeInv, TypeOK
    <3> QED
      BY <2>1, <3>1, <3>2, <3>3, Transitions DEF Step
  <2> QED
    BY <1>3, <2>1, <2>2, OutsideInv DEF Acts
<1>4. CASE UNCHANGED callVars /\ UNCHANGED pc
  BY <1>4, OutsideInv
<1> QED
  BY <1>1, <1>2, <1>3, <1>4, CallNextCases DEF vars, sessionVars

(* Every step of the composition is one of StartForward, or a stutter. *)
LEMMA CallNextIsNext ==
  ASSUME CallInv, [CallNext]_allVars PROVE [Next]_vars
<1>1. Quiet
  BY AsksAssumption DEF Quiet
<1>2. ASSUME NEW s \in Sessions, CallActs(s) PROVE [Next]_vars
  BY <1>1, <1>2, CallActsOutside, AsksAssumption DEF CallInv, Next, Interference, HostStep
<1>3. ASSUME NEW s \in Sessions, CallStartForward(s) PROVE [Next]_vars
  BY <1>3, CallBegins DEF Next
<1> QED
  BY <1>1, <1>2, <1>3, CallNextCases DEF Next

(* The invariant holds initially. *)
LEMMA CallInitInv == CallInit => CallInv
<1> SUFFICES ASSUME CallInit PROVE CallInv
  OBVIOUS
<1>1. (CHOOSE a \in Asks : TRUE) \in Asks
  BY AsksAssumption
<1> QED
  BY <1>1, StageValues DEF CallInit, Init, CallInv, CallTypeOK, CallSound, Probing, Joined

(* What a call knows is so in every reachable state. *)
THEOREM CallInvariant == CallSpec => []CallInv
<1>1. CallInit => CallInv /\ TypeInv
  BY CallInitInv, InitType DEF CallInit
<1>2. CallInv /\ TypeInv /\ [CallNext]_allVars => (CallInv /\ TypeInv)'
  BY CallNextInv, CallNextIsNext, NextType
<1> QED
  BY <1>1, <1>2, PTL DEF CallSpec

(* A call of the library is a StartForward among others: every theorem about *)
(* Spec holds of the composition with resolution and probe as well.          *)
THEOREM CallImplementsSpec == CallSpec => ImplementsStartForward
<1>1. CallInit => Init
  BY DEF CallInit
<1>2. CallInv /\ [CallNext]_allVars => [Next]_vars
  BY CallNextIsNext
<1> QED
  BY <1>1, <1>2, CallInvariant, PTL DEF CallSpec, Spec, ImplementsStartForward
-----------------------------------------------------------------------------
(* The probe container. *)

(* What Custody asks of one owner, in terms of the call. *)
KeepsProbe(s) ==
  /\ Probes!CallStep(s) /\ Probes!BoxStep(s) /\ Probes!ExcuseStep(s) /\ Probes!Settles(s)

BoxOfProbe(s) == IF probe[s] \in {"none", "gone"} THEN probe[s] ELSE "held"

(* The same, without the instance. *)
LEMMA KeepsProbeIs ==
  ASSUME NEW s \in Sessions,
         \/ ProbeCall(s)' = ProbeCall(s)
         \/ ProbeCall(s) = "waiting" /\ ProbeCall(s)' \in {"working", "returned", "dead"}
         \/ ProbeCall(s) = "working" /\ ProbeCall(s)' \in {"returned", "dead"},
         \/ BoxOfProbe(s)' = BoxOfProbe(s)
         \/ BoxOfProbe(s) = "none" /\ BoxOfProbe(s)' = "held" /\ ProbeCall(s) = "working"
         \/ BoxOfProbe(s) = "held" /\ BoxOfProbe(s)' = "gone",
         strayed'[s] = strayed[s] \/ (~strayed[s] /\ strayed'[s] /\ ProbeCall(s) = "working"),
         ProbeCall(s)' = "returned" => BoxOfProbe(s)' # "held" \/ strayed'[s]
  PROVE  KeepsProbe(s)
<1>1. Probes!CallStep(s)
  BY DEF Probes!CallStep
<1>2. Probes!BoxStep(s)
  BY DEF Probes!BoxStep, BoxOfProbe
<1>3. Probes!ExcuseStep(s)
  BY DEF Probes!ExcuseStep
<1>4. ProbeCall(s)' # ProbeCall(s) => ProbeCall(s)' # "handedOver"
  OBVIOUS
<1>5. Probes!Settles(s)
  BY <1>4 DEF Probes!Settles, BoxOfProbe
<1> QED
  BY <1>1, <1>2, <1>3, <1>5 DEF KeepsProbe

(* The probe's part of a call, by its stage. *)
LEMMA ProbeCallValues ==
  ASSUME NEW s \in Sessions
  PROVE  /\ stage[s] \in {"call", "failed"} => ProbeCall(s) = "returned"
         /\ stage[s] \notin {"call", "failed"} /\ pc[s] = "crashed" => ProbeCall(s) = "dead"
         /\ stage[s] \in Probing /\ pc[s] # "crashed" => ProbeCall(s) = "working"
         /\ stage[s] \in {"asked", "container", "service"} /\ pc[s] # "crashed"
              => ProbeCall(s) = "waiting"
BY DEF ProbeCall, Probing

(* A call's own step, but for the probe's end, keeps its probe in custody. *)
LEMMA EarlyKeepsProbe ==
  ASSUME CallInv, CallInv', TypeOK, NEW s \in Sessions, Ask(s) \/ EarlyStep(s)
  PROVE  KeepsProbe(s)
<1> USE StageValues DEF CallInv
<1>1. CallTypeOK /\ pc[s] = "idle" /\ pc'[s] = "idle"
  BY DEF Ask, EarlyStep, resolveContainer, resolveService, ProbeImage, CreateProbe, StartProbe,
         WaitProbe, ReadProbe, RemoveProbe, Early, vars, sessionVars
<1>2. CASE Ask(s) \/ resolveContainer(s) \/ resolveService(s)
  <2>1. /\ stage[s] \in {"asked", "container", "service"}
        /\ UNCHANGED <<probe, strayed>> /\ probe[s] = "none"
    BY <1>2 DEF Ask, resolveContainer, resolveService, Early, CallSound
  <2>2. stage'[s] \in Stages
    BY DEF CallTypeOK
  <2>3. ProbeCall(s) = "waiting" /\ ProbeCall(s)' \in {"waiting", "working", "returned"}
    BY <1>1, <2>1, <2>2, ProbeCallValues DEF ProbeCall, Stages
  <2> QED
    BY <2>1, <2>3, KeepsProbeIs DEF BoxOfProbe
<1>3. ASSUME stage[s] \in Probing,
             stage'[s] \in Stages \ {"asked", "container", "service"},
             strayed' = strayed \/ strayed' = [strayed EXCEPT ![s] = TRUE],
             \/ BoxOfProbe(s)' = BoxOfProbe(s)
             \/ BoxOfProbe(s) = "none" /\ BoxOfProbe(s)' = "held"
             \/ BoxOfProbe(s) = "held" /\ BoxOfProbe(s)' = "gone"
      PROVE  KeepsProbe(s)
  <2>1. ProbeCall(s) = "working" /\ ProbeCall(s)' \in {"working", "returned"}
    BY <1>1, <1>3, ProbeCallValues DEF ProbeCall, Stages
  <2>2. strayed'[s] = strayed[s] \/ (~strayed[s] /\ strayed'[s])
    BY <1>1, <1>3 DEF CallTypeOK
  <2>3. ProbeCall(s)' = "returned" => BoxOfProbe(s)' # "held" \/ strayed'[s]
    <3>1. ProbeCall(s)' = "returned" => stage'[s] \in {"call", "failed"}
      BY <1>1, <1>3 DEF ProbeCall, Stages
    <3> QED
      BY <3>1 DEF CallSound, BoxOfProbe
  <2> QED
    BY <1>3, <2>1, <2>2, <2>3, KeepsProbeIs
<1>4. CASE ProbeImage(s) \/ WaitProbe(s) \/ ReadProbe(s)
  <2>1. /\ stage[s] \in Probing /\ UNCHANGED <<probe, strayed>>
        /\ stage'[s] \in {"probeCreate", "failed", "probeLogs", "probeRemove"}
    BY <1>1, <1>4, GoToType DEF ProbeImage, WaitProbe, ReadProbe, Early, Probing
  <2> QED
    BY <1>3, <2>1 DEF BoxOfProbe
<1>5. CASE CreateProbe(s)
  <2>1. /\ stage[s] \in Probing /\ probe[s] = "none"
        /\ stage'[s] \in {"probeStart", "failed"}
    BY <1>1, <1>5, GoToType DEF CreateProbe, Early, Probing, CallSound
  <2>2. UNCHANGED probe \/ probe'[s] = "created"
    BY <1>1, <1>5, SetProbeType DEF CreateProbe
  <2>3. strayed' = strayed \/ strayed' = [strayed EXCEPT ![s] = TRUE]
    BY <1>5 DEF CreateProbe
  <2> QED
    BY <1>3, <2>1, <2>2, <2>3 DEF BoxOfProbe
<1>6. CASE StartProbe(s)
  <2>1. /\ stage[s] \in Probing /\ UNCHANGED strayed
        /\ stage'[s] \in {"probeWait", "probeRemove"}
    BY <1>1, <1>6, GoToType DEF StartProbe, Early, Probing
  <2>2. UNCHANGED probe \/ (probe[s] = "created" /\ probe'[s] = "running")
    BY <1>1, <1>6, SetProbeType DEF StartProbe, ProbeStarts
  <2> QED
    BY <1>3, <2>1, <2>2 DEF BoxOfProbe
<1>7. CASE RemoveProbe(s)
  <2>1. /\ stage[s] \in Probing /\ probe[s] # "none"
        /\ stage'[s] \in {"failed", "call"}
    BY <1>1, <1>7, GoToType DEF RemoveProbe, AfterProbe, Early, Probing, CallSound, Joined
  <2>2. UNCHANGED probe \/ probe'[s] = "gone"
    BY <1>1, <1>7, SetProbeType DEF RemoveProbe
  <2>3. strayed' = strayed \/ strayed' = [strayed EXCEPT ![s] = TRUE]
    BY <1>7 DEF RemoveProbe
  <2> QED
    BY <1>3, <2>1, <2>2, <2>3 DEF BoxOfProbe
<1> QED
  BY <1>2, <1>4, <1>5, <1>6, <1>7 DEF EarlyStep
(* What is not the call's own step keeps its probe in custody: it can only  *)
(* be removed, and a call that is killed is dead and stays so.              *)
LEMMA OutsideKeepsProbe ==
  ASSUME CallInv, TypeInv, [Next]_vars, NEW s \in Sessions,
         stage'[s] = stage[s], strayed'[s] = strayed[s],
         BoxOfProbe(s)' = BoxOfProbe(s) \/ (BoxOfProbe(s) = "held" /\ BoxOfProbe(s)' = "gone"),
         stage[s] # "call" => pc'[s] \in {pc[s], "crashed"}
  PROVE  KeepsProbe(s)
<1> USE StageValues DEF CallInv
<1>1. stage[s] \in Stages
  BY DEF CallTypeOK
<1>2. CASE stage[s] \in {"call", "failed"}
  <2>1. ProbeCall(s) = "returned" /\ ProbeCall(s)' = "returned"
    BY <1>2, ProbeCallValues DEF ProbeCall, Probing
  <2>2. BoxOfProbe(s)' # "held" \/ strayed'[s]
    BY <1>2 DEF CallSound, BoxOfProbe
  <2> QED
    BY <2>1, <2>2, KeepsProbeIs
<1>3. CASE stage[s] \notin {"call", "failed"}
  <2>1. \/ ProbeCall(s)' = ProbeCall(s)
        \/ ProbeCall(s) \in {"waiting", "working"} /\ ProbeCall(s)' = "dead"
    BY <1>1, <1>3 DEF ProbeCall, Stages
  <2>2. ProbeCall(s)' # "returned"
    BY <1>1, <1>3 DEF ProbeCall, Stages
  <2> QED
    BY <2>1, <2>2, KeepsProbeIs
<1> QED
  BY <1>2, <1>3

(* Every step of the composition is one of Custody. *)
LEMMA CallStepsAreCustody ==
  ASSUME CallInv, CallInv', TypeInv, [CallNext]_allVars PROVE Probes!Next
<1>1. [Next]_vars
  BY CallNextIsNext
<1>2. ASSUME NEW u \in Sessions PROVE KeepsProbe(u)
  <2>1. ASSUME NEW s \in Sessions, CallActs(s), u # s PROVE KeepsProbe(u)
    <3>1. UNCHANGED <<Own(u), pc[u]>>
      BY <2>1, CallLocality DEF CallInv, TypeInv
    <3> QED
      BY <1>1, <3>1, OutsideKeepsProbe DEF Own, BoxOfProbe
  <2>2. CASE Ask(u) \/ EarlyStep(u)
    BY <2>2, EarlyKeepsProbe DEF TypeInv
  <2>3. CASE ProbeEnds(u)
    <3>1. UNCHANGED <<stage, strayed, pc>>
      BY <2>3 DEF ProbeEnds, vars, sessionVars
    <3>2. /\ probe[u] \in {"created", "running", "exited"}
          /\ SetProbe(u, "exited") \/ SetProbe(u, "gone")
      BY <2>3 DEF ProbeEnds, Alive, CallInv, CallTypeOK
    <3>3. probe'[u] \in {"exited", "gone"}
      BY <3>2, SetProbeType DEF CallInv
    <3> QED
      BY <1>1, <3>1, <3>2, <3>3, OutsideKeepsProbe DEF BoxOfProbe
  <2>4. CASE UNCHANGED callVars
    <3>1. stage[u] # "call" => pc'[u] \in {pc[u], "crashed"}
      <4>1. CASE pc[u] = "crashed"
        <5>1. pc'[u] = "crashed"
          <6>1. ASSUME NEW s \in Sessions, Acts(s) PROVE pc'[u] = pc[u]
            BY <4>1, <6>1, Locality, Transitions DEF Acts, Step, Cancel, Crash, Ended
          <6> QED
            BY <1>1, <4>1, <6>1 DEF Next, Acts, vars, sessionVars
        <5> QED
          BY <5>1
      <4>2. CASE pc[u] # "crashed"
        BY <2>4, <4>2 DEF CallInv, CallSound, callVars
      <4> QED
        BY <4>1, <4>2
    <3> QED
      BY <1>1, <2>4, <3>1, OutsideKeepsProbe DEF callVars, BoxOfProbe
  <2> QED
    BY <2>1, <2>2, <2>3, <2>4, CallNextCases DEF CallActs, CallStartForward
<1>3. \A s \in Sessions :
        ProbeCall(s)' \in Probes!Calls /\ BoxOfProbe(s)' \in Probes!Boxes
  BY DEF ProbeCall, BoxOfProbe, Probes!Calls, Probes!Boxes
<1>4. strayed' \in [Sessions -> BOOLEAN]
  BY DEF CallInv, CallTypeOK
<1> QED
  BY <1>2, <1>3, <1>4 DEF KeepsProbe, BoxOfProbe, Probes!Next

(* Whatever becomes of the probe, of the target it joins and of the call's  *)
(* context, ProbeListeners implements the call that keeps its container.    *)
THEOREM ProbesAreKept == CallSpec => ProbesInCustody
<1>1. CallInit => Probes!Init
  <2> SUFFICES ASSUME CallInit PROVE Probes!Init
    OBVIOUS
  <2>1. \A s \in Sessions : ProbeCall(s) = "waiting" /\ probe[s] = "none" /\ strayed[s] = FALSE
    BY DEF CallInit, Init, ProbeCall, Probing
  <2>2. strayed = [s \in Sessions |-> FALSE]
    BY DEF CallInit
  <2> QED
    BY <2>1, <2>2 DEF Probes!Init
<1>2. CallInv /\ CallInv' /\ TypeInv /\ [CallNext]_allVars
        => [Probes!Next]_(Probes!custodyVars)
  BY CallStepsAreCustody
<1>3. CallSpec => []TypeInv
  BY CallImplementsSpec, TypeInvariant DEF ImplementsStartForward
<1> QED
  BY <1>1, <1>2, <1>3, CallInvariant, PTL DEF CallSpec, ProbesInCustody, Probes!Spec

-----------------------------------------------------------------------------
(* The right container is served. *)

(* A forward's own helper is of the target that was asked for, as long as   *)
(* the forward may return it.                                               *)
OwnTarget ==
  \A s \in Sessions :
    pc[s] \in AfterCreate \cup {"done"} /\ helper[s] = s => cfg[s].target = req[s].target

(* OwnTarget is inductive beside SafetyInv. *)
LEMMA OwnTargetStays ==
  ASSUME SafetyInv, OwnTarget, [Next]_vars PROVE OwnTarget'
<1> USE DEF SafetyInv
<1> SUFFICES ASSUME NEW u \in Sessions, pc'[u] \in AfterCreate \cup {"done"}, helper'[u] = u
             PROVE  cfg'[u].target = req'[u].target
  BY DEF OwnTarget
<1>1. CASE /\ pc[u] \in AfterCreate \cup {"done"} /\ helper[u] = u
           /\ cfg'[u] = cfg[u] /\ req'[u] = req[u]
  BY <1>1 DEF OwnTarget
<1>2. CASE \E s \in Sessions : Acts(s)
  <2>1. PICK s \in Sessions : Acts(s)
    BY <1>2
  <2>2. CASE u # s
    <3>1. cfg'[u] = cfg[u]
      BY <2>1, <2>2, SessionPersists DEF Persists
    <3> QED
      BY <1>1, <2>1, <2>2, <3>1, Locality
  <2>3. CASE u = s /\ CreateHelper(s)
    <3>1. ~Fail(s, "other")
      BY <2>3, FailType DEF TypeInv, AfterCreate
    <3>2. cfg' = [cfg EXCEPT ![s] = buildHelperContainerConfig(s)] /\ req' = req
      BY <2>3, <3>1 DEF CreateHelper, Created
    <3>3. cfg'[s] = buildHelperContainerConfig(s)
      BY <3>2 DEF TypeInv, TypeOK, DaemonTypeOK
    <3> QED
      BY <2>3, <3>2, <3>3 DEF buildHelperContainerConfig
  <2>4. CASE u = s /\ ~CreateHelper(s)
    <3>1. cfg' = cfg
      BY <2>1, <2>4, ContainerChange
    <3>2. ~CheckOverlapping(s) \/ pc'[s] # "done"
      <4> SUFFICES ASSUME CheckOverlapping(s) PROVE helper'[s] # s
        BY <2>4
      <4>1. pc[s] = "check" /\ helper' = helper
        BY Picked, Transitions
      <4> QED
        BY <4>1 DEF NoHelperYet, OthersExist, BeforeCreate
    <3>3. pc[s] \in AfterCreate \cup {"done"}
      BY <2>1, <2>4, <3>2, Arrivals, Transitions DEF AfterCreate
    <3>4. ~Begin(s) /\ ~findOverlappingHelper(s) /\ ~InspectOrphan(s)
      BY <3>3, Transitions DEF AfterCreate
    <3> QED
      BY <1>1, <2>1, <2>4, <3>1, <3>3, <3>4, OwnData
  <2> QED
    BY <2>2, <2>3, <2>4
<1>3. CASE ~\E s \in Sessions : Acts(s)
  BY <1>1, <1>3, EnvironmentChange DEF sessionVars
<1> QED
  BY <1>2, <1>3

(* A call has chosen a container that was asked for, tried to find one by    *)
(* name first unless it was told that the name is a service's, and asks      *)
(* StartForward for the container it chose.                                  *)
ChosenInv ==
  \A s \in Sessions :
    /\ stage[s] \in Probing \cup {"call"} => Born(chosen[s]) /\ AskedFor(s, chosen[s])
    /\ stage[s] = "container" => ask[s].type # "service"
    /\ stage[s] = "service" => ask[s].type # "container"
    /\ pc[s] \notin {"idle", "crashed"} => req[s].target = chosen[s]

(* A call's own steps keep what it has chosen, or choose what was asked for. *)
LEMMA OwnChoice ==
  ASSUME CallInv, TypeInv, Consistent(targets), ChosenInv, NEW s \in Sessions, CallActs(s)
  PROVE  /\ UNCHANGED <<targets, pc, req>>
         /\ stage'[s] \in Probing \cup {"call"} => Born(chosen'[s]) /\ AskedFor(s, chosen[s])'
         /\ stage'[s] = "container" => ask'[s].type # "service"
         /\ stage'[s] = "service" => ask'[s].type # "container"
<1> USE DEF CallInv
<1>1. UNCHANGED <<targets, pc, req>>
  BY DEF CallActs, Ask, EarlyStep, ProbeEnds, resolveContainer, resolveService, ProbeImage,
     CreateProbe, StartProbe, WaitProbe, ReadProbe, RemoveProbe, vars, daemonVars, sessionVars
<1>2. CASE Ask(s)
  <2>1. PICK a \in Asks :
          /\ ask' = [ask EXCEPT ![s] = a]
          /\ GoTo(s, IF a.type # "service" THEN "container"
                     ELSE IF resolveProjectName(a) = "" THEN "failed" ELSE "service")
    BY <1>2 DEF Ask
  <2>2. ask'[s] = a
    BY <2>1 DEF CallTypeOK
  <2>3. stage'[s] = IF a.type # "service" THEN "container"
                    ELSE IF resolveProjectName(a) = "" THEN "failed" ELSE "service"
    BY <2>1, GoToType, StageValues
  <2> QED
    BY <1>1, <2>2, <2>3 DEF Probing
<1>3. ASSUME NEW t \in Targets, Exists(targets[t]), AskedFor(s, t), Resolve(s, t), ask' = ask
      PROVE  /\ stage'[s] \in Probing \cup {"call"} /\ Born(chosen'[s]) /\ AskedFor(s, chosen[s])'
  <2>1. chosen'[s] = t
    BY <1>3 DEF Resolve, CallTypeOK
  <2>2. stage'[s] \in {"probeImage", "call"}
    BY <1>3, GoToType, StageValues DEF Resolve
  <2> QED
    BY <1>1, <1>3, <2>1, <2>2 DEF AskedFor, Born, Consistent, Probing
<1>4. CASE resolveContainer(s)
  <2>1. stage[s] = "container" /\ ask' = ask
    BY <1>4 DEF resolveContainer, Early
  <2>2. \/ \E t \in Inspected(ask[s].name) : Resolve(s, t)
        \/ MayBeService(s) /\ GoTo(s, "service")
        \/ GoTo(s, "failed")
    BY <1>4 DEF resolveContainer
  <2>3. ASSUME NEW t \in Inspected(ask[s].name), Resolve(s, t)
        PROVE  /\ stage'[s] \in Probing \cup {"call"} /\ Born(chosen'[s]) /\ AskedFor(s, chosen[s])'
    <3>1. t \in Targets /\ Exists(targets[t]) /\ AskedFor(s, t)
      BY <2>1, <2>3 DEF Inspected, AskedFor, ChosenInv
    <3> QED
      BY <1>3, <2>1, <2>3, <3>1
  <2>4. MayBeService(s) => ask'[s].type # "container"
    BY <2>1 DEF MayBeService
  <2> QED
    BY <1>1, <2>2, <2>3, <2>4, GoToType, StageValues DEF Probing
<1>5. CASE resolveService(s)
  <2>1. stage[s] = "service" /\ ask' = ask
    BY <1>5 DEF resolveService, Early
  <2>2. \/ Replicas(ask[s]) # {} /\ Resolve(s, LowestReplica(Replicas(ask[s])))
        \/ GoTo(s, "failed")
    BY <1>5 DEF resolveService
  <2>3. CASE Replicas(ask[s]) # {} /\ Resolve(s, LowestReplica(Replicas(ask[s])))
    <3> DEFINE t == LowestReplica(Replicas(ask[s]))
    <3>1. t \in Replicas(ask[s])
      BY <2>3, ReplicaType DEF Replicas
    <3>2. t \in Targets /\ Exists(targets[t]) /\ AskedFor(s, t)
      BY <2>1, <3>1 DEF Replicas, AskedFor, ChosenInv, Running, Exists
    <3> QED
      BY <1>1, <1>3, <2>1, <2>3, <3>2 DEF Probing
  <2> QED
    BY <1>1, <2>2, <2>3, GoToType, StageValues DEF Probing
<1>6. CASE ProbeEnds(s) \/ ProbeImage(s) \/ CreateProbe(s) \/ StartProbe(s) \/ WaitProbe(s)
           \/ ReadProbe(s) \/ RemoveProbe(s)
  <2>1. UNCHANGED <<ask, chosen>>
    BY <1>6 DEF ProbeEnds, ProbeImage, CreateProbe, StartProbe, WaitProbe, ReadProbe, RemoveProbe
  <2>2. stage' = stage \/ (stage[s] \in Probing /\ stage'[s] \notin {"container", "service"})
    <3>1. ProbeEnds(s) => stage' = stage
      BY DEF ProbeEnds
    <3>2. ~ProbeEnds(s) => stage[s] \in Probing
      BY <1>6 DEF ProbeImage, CreateProbe, StartProbe, WaitProbe, ReadProbe, RemoveProbe, Early,
         Probing
    <3>3. ~ProbeEnds(s) => \E to \in {"probeCreate", "probeStart", "probeWait", "probeLogs",
                                      "probeRemove", "failed", "call"} : GoTo(s, to)
      BY <1>6 DEF ProbeImage, CreateProbe, StartProbe, WaitProbe, ReadProbe, RemoveProbe,
         AfterProbe
    <3> QED
      BY <3>1, <3>2, <3>3, GoToType, StageValues
  <2> QED
    BY <1>1, <2>1, <2>2 DEF ChosenInv, AskedFor, Born
<1> QED
  BY <1>1, <1>2, <1>4, <1>5, <1>6 DEF CallActs, EarlyStep

(* A call keeps to the container it has chosen, whoever acts. *)
LEMMA ChosenStays ==
  ASSUME SafetyInv, CallInv, Consistent(targets), ChosenInv, "rename" \notin Allowed,
         [CallNext]_allVars
  PROVE  ChosenInv'
<1> USE DEF SafetyInv
<1>1. \A t \in Targets : Born(t) => Born(t)' /\ targets'[t].name = targets[t].name
  BY CallNextIsNext, NamesStay
<1>2. SUFFICES ASSUME NEW u \in Sessions
               PROVE  /\ stage'[u] \in Probing \cup {"call"}
                            => Born(chosen[u])' /\ AskedFor(u, chosen[u])'
                      /\ stage'[u] = "container" => ask'[u].type # "service"
                      /\ stage'[u] = "service" => ask'[u].type # "container"
                      /\ pc'[u] \notin {"idle", "crashed"} => req'[u].target = chosen'[u]
  BY DEF ChosenInv, Born
<1>3. ASSUME UNCHANGED <<stage[u], ask[u], chosen[u]>>
      PROVE  /\ stage'[u] \in Probing \cup {"call"}
                   => Born(chosen[u])' /\ AskedFor(u, chosen[u])'
             /\ stage'[u] = "container" => ask'[u].type # "service"
             /\ stage'[u] = "service" => ask'[u].type # "container"
  <2>1. stage[u] \in Probing \cup {"call"} => chosen[u] \in Targets
    BY DEF CallInv, CallSound
  <2> QED
    BY <1>1, <1>3, <2>1 DEF ChosenInv, AskedFor, Born, resolveProjectName
<1>4. ASSUME NEW s \in Sessions, CallActs(s), pc'[u] \notin {"idle", "crashed"}
      PROVE  req'[u].target = chosen'[u]
  <2>1. UNCHANGED <<pc, req>>
    BY <1>4, OwnChoice
  <2>2. CASE u = s
    <3>1. Ask(s) \/ resolveContainer(s) \/ resolveService(s) => pc[s] = "idle"
      BY DEF Ask, resolveContainer, resolveService, Early
    <3>2. chosen' = chosen
      BY <1>4, <2>1, <2>2, <3>1 DEF CallActs, EarlyStep, ProbeEnds, ProbeImage, CreateProbe,
         StartProbe, WaitProbe, ReadProbe, RemoveProbe
    <3> QED
      BY <1>4, <2>1, <3>2 DEF ChosenInv
  <2>3. CASE u # s
    BY <1>4, <2>1, <2>3, CallLocality DEF CallInv, TypeInv, Own, ChosenInv
  <2> QED
    BY <2>2, <2>3
<1>5. CASE \E s \in Sessions : CallActs(s)
  <2>1. PICK s \in Sessions : CallActs(s)
    BY <1>5
  <2>2. CASE u = s
    BY <1>4, <2>1, <2>2, OwnChoice DEF Born
  <2>3. CASE u # s
    <3>1. UNCHANGED <<stage[u], ask[u], chosen[u]>>
      BY <2>1, <2>3, CallLocality DEF CallInv, TypeInv, Own
    <3> QED
      BY <1>3, <1>4, <2>1, <3>1
  <2> QED
    BY <2>2, <2>3
<1>6. CASE \E s \in Sessions : CallStartForward(s)
  <2>1. PICK s \in Sessions : CallStartForward(s)
    BY <1>6
  <2>2. UNCHANGED <<stage, ask, chosen>> /\ Acts(s)
    BY <2>1, CallBegins DEF CallStartForward, callVars, Acts
  <2>3. CASE u = s
    <3>1. req' = [req EXCEPT ![s] = RequestOf(ask[s], chosen[s], detected[s])]
      BY <2>1 DEF CallStartForward, BeginWith
    <3>2. req'[s] = RequestOf(ask[s], chosen[s], detected[s])
      BY <3>1 DEF TypeInv, TypeOK
    <3>3. ask[s].options \in RequestType
      BY AsksAssumption DEF AskType, CallInv, CallTypeOK
    <3>4. req'[s].target = chosen[s]
      BY <3>2, <3>3 DEF RequestOf, RequestType
    <3> QED
      BY <1>3, <2>2, <2>3, <3>4
  <2>4. CASE u # s
    <3>1. pc'[u] = pc[u] /\ req'[u] = req[u]
      BY <2>2, <2>4, Locality
    <3> QED
      BY <1>3, <2>2, <3>1 DEF ChosenInv
  <2> QED
    BY <2>3, <2>4
<1>7. CASE ~\E s \in Sessions : CallActs(s) \/ CallStartForward(s)
  <2>1. UNCHANGED <<stage, ask, chosen>>
    BY <1>7, CallNextCases DEF callVars
  <2>2. CASE \E s \in Sessions : Step(s) \/ Cancel(s) \/ Crash(s)
    <3>1. PICK s \in Sessions : Step(s) \/ Cancel(s) \/ Crash(s)
      BY <2>2
    <3>2. Acts(s)
      BY <3>1 DEF Acts
    <3>3. CASE u # s
      BY <1>3, <2>1, <3>2, <3>3, Locality DEF ChosenInv
    <3>4. CASE u = s
      <4>1. pc[s] \in {"idle", "crashed"} => pc'[s] \in {"idle", "crashed"}
        BY <3>1, Transitions DEF Step, Cancel, Crash, Ended, TypeInv, TypeOK
      <4>2. pc[s] # "idle" => req'[s] = req[s]
        BY <3>2, OwnData, Transitions
      <4> QED
        BY <1>3, <2>1, <3>4, <4>1, <4>2 DEF ChosenInv
    <3> QED
      BY <3>3, <3>4
  <2>3. CASE UNCHANGED <<pc, req>>
    BY <1>3, <2>1, <2>3 DEF ChosenInv
  <2> QED
    BY <1>7, <2>2, <2>3, CallNextCases DEF sessionVars, vars
<1> QED
  BY <1>5, <1>6, <1>7

(* Whichever containers come, go and take over names while a call resolves, *)
(* probes and forwards, the helper it comes to rest on is of a container it *)
(* asked for, if no container is renamed.                                   *)
THEOREM AskedOnesAreServed == ASSUME "rename" \notin Allowed PROVE CallSpec => []ServesAsked
<1>1. CallInit => OwnTarget /\ ChosenInv
  BY DEF CallInit, Init, OwnTarget, ChosenInv, AfterCreate, Probing
<1>2. SafetyInv /\ RouteInv /\ CallInv /\ OwnTarget /\ ChosenInv /\ [CallNext]_allVars
        => OwnTarget' /\ ChosenInv'
  BY CallNextIsNext, OwnTargetStays, ChosenStays DEF RouteInv
<1>3. ASSUME SafetyInv, CallInv, OwnTarget, ChosenInv PROVE ServesAsked
  <2> SUFFICES ASSUME NEW s \in Sessions, pc[s] \in {"done", "attached"}
               PROVE  AskedFor(s, cfg[helper[s]].target)
    BY DEF ServesAsked
  <2>1. AskedFor(s, req[s].target)
    BY <1>3 DEF ChosenInv, CallInv, CallSound
  <2>2. CASE helper[s] = s
    BY <1>3, <2>1, <2>2 DEF OwnTarget, AfterCreate
  <2>3. CASE helper[s] # s
    BY <1>3, <2>1, <2>3 DEF SafetyInv, ReturnedMatches, Overlaps, OwnHelper, AfterCreate
  <2> QED
    BY <2>2, <2>3
<1>4. CallSpec => [](SafetyInv /\ RouteInv)
  BY CallImplementsSpec, RouteInvariant DEF ImplementsStartForward
<1> QED
  BY <1>1, <1>2, <1>3, <1>4, CallInvariant, PTL DEF CallSpec

-----------------------------------------------------------------------------
(* The detected ports are served. *)

RemotePorts(ps) == {[port |-> ps[i].remote, proto |-> ps[i].proto] : i \in DOMAIN ps}

(* The pairs made of what a probe found have the target's ports. *)
LEMMA DetectedPorts ==
  ASSUME NEW t \in Targets
  PROVE  /\ RemotePorts(DetectedPairs[t]) = ReachableListeners(Sockets[t])
         /\ \A i \in DOMAIN DetectedPairs[t] : DetectedPairs[t][i].proto \in {"tcp", "udp"}
<1> DEFINE found == ExtractListeners(ProcTable(Sockets[t]))
           ps    == DetectedPairs[t]
           any   == ""
<1>1. Sockets[t] \in Seq(SocketType)
  BY AsksAssumption
<1>2. found \in Seq(Listener) /\ {found[i] : i \in DOMAIN found} = ReachableListeners(Sockets[t])
  BY <1>1, ProbeFindsReachable
<1>3. ps = [i \in DOMAIN found |-> [address |-> any, local |-> found[i].port,
                                    remote |-> found[i].port, proto |-> found[i].proto]]
  BY DEF DetectedPairs
<1> HIDE DEF found, ps, any
<1>4. \A i \in DOMAIN found : found[i] \in Listener
  BY <1>2
<1>5. \A i \in DOMAIN found : /\ found[i] = [port |-> found[i].port, proto |-> found[i].proto]
                              /\ found[i].proto \in {"tcp", "udp"}
  BY <1>4 DEF Listener
<1>6. /\ DOMAIN ps = DOMAIN found
      /\ \A i \in DOMAIN found : ps[i].remote = found[i].port /\ ps[i].proto = found[i].proto
  <2>1. DOMAIN ps = DOMAIN found
    BY <1>3
  <2>2. ASSUME NEW i \in DOMAIN found
        PROVE  ps[i].remote = found[i].port /\ ps[i].proto = found[i].proto
    <3>1. ps[i] = [address |-> any, local |-> found[i].port, remote |-> found[i].port,
                   proto |-> found[i].proto]
      BY <1>3
    <3> QED
      BY <3>1
  <2> QED
    BY <2>1, <2>2
<1>7. RemotePorts(ps) = {found[i] : i \in DOMAIN found}
  BY <1>5, <1>6 DEF RemotePorts
<1> QED
  BY <1>2, <1>5, <1>6, <1>7 DEF ps

(* Resolving automatic ports changes neither remote ports nor protocols. *)
LEMMA ResolvedPorts ==
  ASSUME NEW ps, NEW assigned, \A i \in DOMAIN ps : ps[i].proto \in {"tcp", "udp"}
  PROVE  RemotePorts(resolveAutoPorts(ps, assigned)) = RemotePorts(ps)
<1> DEFINE qs == resolveAutoPorts(ps, assigned)
<1>1. DOMAIN qs = DOMAIN ps /\ \A i \in DOMAIN ps : qs[i] = Resolved(ps[i], assigned[i])
  BY DEF resolveAutoPorts
<1>2. \A i \in DOMAIN ps : qs[i].remote = ps[i].remote /\ qs[i].proto = NormalizeProtocol(ps[i].proto)
  BY <1>1 DEF Resolved
<1>3. \A i \in DOMAIN ps : qs[i].proto = ps[i].proto
  <2>1. NormalizeProtocol("tcp") = "tcp" /\ NormalizeProtocol("udp") = "udp"
    BY DEF NormalizeProtocol
  <2> HIDE DEF qs
  <2> SUFFICES ASSUME NEW i \in DOMAIN ps PROVE qs[i].proto = ps[i].proto
    OBVIOUS
  <2>2. ps[i].proto = "tcp" \/ ps[i].proto = "udp"
    OBVIOUS
  <2> QED
    BY <1>2, <2>1, <2>2
<1> HIDE DEF qs
<1>4. RemotePorts(qs) = RemotePorts(ps)
  BY <1>1, <1>2, <1>3 DEF RemotePorts
<1> QED
  BY <1>4 DEF qs

(* What a forward begins with. *)
LEMMA BeginsWith ==
  ASSUME TypeInv, NEW s \in Sessions, NEW r, BeginWith(s, r)
  PROVE  /\ req'[s] = r
         /\ pc'[s] = "failed" \/ \E f \in Assignments(r) : pairs'[s] = resolveAutoPorts(r.pairs, f)
<1>1. req'[s] = r
  <2>1. req' = [req EXCEPT ![s] = r]
    BY DEF BeginWith
  <2> QED
    BY <2>1 DEF TypeInv, TypeOK
<1>2. CASE \E f \in Assignments(r) : pairs' = [pairs EXCEPT ![s] = resolveAutoPorts(r.pairs, f)]
  <2>1. PICK f \in Assignments(r) : pairs' = [pairs EXCEPT ![s] = resolveAutoPorts(r.pairs, f)]
    BY <1>2
  <2> DEFINE ps == resolveAutoPorts(r.pairs, f)
  <2> HIDE DEF ps
  <2>2. pairs' = [pairs EXCEPT ![s] = ps]
    BY <2>1 DEF ps
  <2>3. DOMAIN pairs = Sessions
    BY DEF TypeInv, TypeOK
  <2>4. pairs'[s] = ps
    BY <2>2, <2>3
  <2> QED
    BY <1>1, <2>4 DEF ps
<1>3. CASE Fail(s, "port")
  <2>1. pc'[s] = "failed"
    BY <1>3, FailType DEF TypeInv
  <2> QED
    BY <1>1, <2>1
<1> QED
  BY <1>2, <1>3 DEF BeginWith

(* A call that found its ports begins with the ports of the container it is for. *)
LEMMA BeginsWithPorts ==
  ASSUME CallInv, TypeInv, NEW s \in Sessions, CallStartForward(s), ask[s].options.pairs = <<>>,
         pc'[s] # "failed"
  PROVE  RemotePorts(pairs'[s]) = ReachableListeners(Sockets[req'[s].target])
<1> DEFINE t == chosen[s]
           r == RequestOf(ask[s], t, detected[s])
<1>1. BeginWith(s, r) /\ stage[s] = "call" /\ t \in Targets
  BY DEF CallStartForward, CallInv, CallSound
<1>2. detected[s] = DetectedPairs[t]
  BY <1>1 DEF CallInv, CallSound
<1>3. r.target = t /\ r.pairs = detected[s]
  <2>1. ask[s].options \in RequestType
    BY AsksAssumption DEF CallInv, CallTypeOK, AskType
  <2>2. [ask[s].options EXCEPT !.target = t].pairs = <<>>
    BY <2>1 DEF RequestType
  <2>3. /\ [ask[s].options EXCEPT !.target = t, !.pairs = detected[s]].target = t
        /\ [ask[s].options EXCEPT !.target = t, !.pairs = detected[s]].pairs = detected[s]
    BY <2>1 DEF RequestType
  <2> QED
    BY <2>1, <2>2, <2>3 DEF RequestOf
<1> HIDE DEF r, t
<1>4. /\ req'[s] = r
      /\ \E f \in Assignments(r) : pairs'[s] = resolveAutoPorts(r.pairs, f)
  BY <1>1, BeginsWith
<1>5. PICK f \in Assignments(r) : pairs'[s] = resolveAutoPorts(detected[s], f)
  BY <1>3, <1>4
<1>7. RemotePorts(pairs'[s]) = RemotePorts(detected[s])
  BY <1>1, <1>2, <1>5, DetectedPorts, ResolvedPorts
<1> QED
  BY <1>1, <1>2, <1>3, <1>4, <1>7, DetectedPorts

(* Once a call that gave no ports has begun StartForward, the pairs it goes  *)
(* on with are the ports of the container it is for, and so are a helper's.  *)
ServedInv ==
  \A s \in Sessions :
    ask[s].options.pairs = <<>> =>
      /\ pc[s] \notin {"idle", "failed", "crashed"}
           => RemotePorts(pairs[s]) = ReachableListeners(Sockets[req[s].target])
      /\ status[s] # "none"
           => RemotePorts(cfg[s].pairs) = ReachableListeners(Sockets[cfg[s].target])

(* ServedInv is inductive beside SafetyInv and CallInv. *)
LEMMA ServedStays ==
  ASSUME SafetyInv, CallInv, ServedInv, [CallNext]_allVars PROVE ServedInv'
<1> DEFINE Past(u)   == pc[u] \notin {"idle", "failed", "crashed"}
           Going(u)  == RemotePorts(pairs[u]) = ReachableListeners(Sockets[req[u].target])
           Served(u) == RemotePorts(cfg[u].pairs) = ReachableListeners(Sockets[cfg[u].target])
<1>1. [Next]_vars
  BY CallNextIsNext
<1>2. SUFFICES ASSUME NEW u \in Sessions, ask'[u].options.pairs = <<>>
               PROVE  (Past(u)' => Going(u)') /\ (status'[u] # "none" => Served(u)')
  BY DEF ServedInv
<1>3. ask[u].options.pairs = <<>> => /\ Past(u) => Going(u)
                                     /\ status[u] # "none" => Served(u)
  BY DEF ServedInv
<1>4. /\ pc[u] = "idle" => status[u] = "none"
      /\ pc[u] = "create" => status[u] = "none"
  BY DEF SafetyInv, NoHelperYet, BeforeCreate
<1>5. TypeInv /\ CallTypeOK
  BY DEF SafetyInv, CallInv
<1>6. CASE \E s \in Sessions : CallActs(s)
  <2>1. PICK s \in Sessions : CallActs(s)
    BY <1>6
  <2>2. UNCHANGED <<pc, req, pairs, status, cfg>>
    BY <2>1 DEF CallActs, Ask, EarlyStep, ProbeEnds, resolveContainer, resolveService, ProbeImage,
       ImageEnsured, CreateProbe, StartProbe, WaitProbe, ReadProbe, RemoveProbe, vars, daemonVars,
       sessionVars
  <2>3. CASE Ask(s) /\ u = s
    <3>1. pc[u] = "idle"
      BY <2>3 DEF Ask, Early
    <3> QED
      BY <1>4, <2>2, <3>1
  <2>4. CASE ~(Ask(s) /\ u = s)
    <3>1. ask'[u] = ask[u]
      <4>1. CASE u = s
        BY <2>1, <2>4, <4>1 DEF CallActs, EarlyStep, ProbeEnds, resolveContainer, resolveService,
           ProbeImage, CreateProbe, StartProbe, WaitProbe, ReadProbe, RemoveProbe
      <4>2. CASE u # s
        BY <1>5, <2>1, <4>2, CallLocality DEF Own, TypeInv
      <4> QED
        BY <4>1, <4>2
    <3> QED
      BY <1>2, <1>3, <2>2, <3>1
  <2> QED
    BY <2>3, <2>4
<1>7. CASE \E s \in Sessions : CallStartForward(s)
  <2>1. PICK s \in Sessions : CallStartForward(s)
    BY <1>7
  <2>2. ask' = ask /\ UNCHANGED <<status, cfg>> /\ pc[s] = "idle"
    BY <2>1 DEF CallStartForward, BeginWith, callVars, daemonVars
  <2>3. CASE u = s
    <3>1. status'[u] = "none"
      BY <1>4, <2>2, <2>3
    <3>2. pc'[s] # "failed" => Going(u)'
      BY <1>2, <1>5, <2>1, <2>2, <2>3, BeginsWithPorts
    <3> QED
      BY <2>3, <3>1, <3>2
  <2>4. CASE u # s
    <3>1. Begin(s)
      BY <2>1, CallBegins
    <3>2. pc'[u] = pc[u] /\ req'[u] = req[u] /\ pairs'[u] = pairs[u]
      BY <1>5, <2>4, <3>1, Locality DEF Acts
    <3> QED
      BY <1>2, <1>3, <2>2, <3>2
  <2> QED
    BY <2>3, <2>4
<1>8. CASE ~\E s \in Sessions : CallActs(s) \/ CallStartForward(s)
  <2>1. ask' = ask /\ ask[u].options.pairs = <<>>
    BY <1>2, <1>8, CallNextCases DEF callVars
  <2>2. CASE \E s \in Sessions : Step(s) \/ Cancel(s) \/ Crash(s)
    <3>1. PICK s \in Sessions : Step(s) \/ Cancel(s) \/ Crash(s)
      BY <2>2
    <3>2. Acts(s)
      BY <3>1 DEF Acts
    <3>3. CASE u = s /\ CreateHelper(s)
      <4>1. pc[s] = "create" /\ UNCHANGED <<req, pairs>>
        BY <3>3 DEF CreateHelper
      <4>2. Going(u) /\ Going(u)'
        BY <1>3, <2>1, <3>3, <4>1
      <4>3. (status' = status /\ cfg' = cfg) \/ cfg' = [cfg EXCEPT ![s] = buildHelperContainerConfig(s)]
        BY <3>3 DEF CreateHelper, Created
      <4>4. CASE status' = status /\ cfg' = cfg
        BY <1>4, <3>3, <4>1, <4>2, <4>4
      <4>5. CASE cfg' = [cfg EXCEPT ![s] = buildHelperContainerConfig(s)]
        <5>1. cfg'[s] = buildHelperContainerConfig(s)
          BY <1>5, <4>5 DEF TypeInv, TypeOK, DaemonTypeOK
        <5>2. cfg'[u].pairs = pairs[u] /\ cfg'[u].target = req[u].target
          BY <3>3, <5>1 DEF buildHelperContainerConfig
        <5> QED
          BY <4>2, <5>2
      <4> QED
        BY <4>3, <4>4, <4>5
    <3>4. CASE ~(u = s /\ CreateHelper(s))
      <4>1. cfg'[u] = cfg[u] /\ (status[u] = "none" <=> status'[u] = "none")
        BY <1>5, <3>2, <3>4, SessionPersists DEF Persists
      <4>2. pc'[u] \notin {"idle", "failed", "crashed"}
              => Past(u) /\ req'[u] = req[u] /\ pairs'[u] = pairs[u]
        <5>1. CASE u # s
          BY <1>5, <3>2, <5>1, Locality
        <5>2. CASE u = s
          <6>1. pc[s] \in {"idle", "failed", "crashed"} => pc'[s] \in {"idle", "failed", "crashed"}
            BY <1>5, <3>1, Transitions DEF Step, Cancel, Crash, Ended, TypeInv, TypeOK
          <6>2. pc[s] # "idle" => req'[s] = req[s] /\ pairs'[s] = pairs[s]
            BY <1>5, <3>2, OwnData, Transitions
          <6> QED
            BY <5>2, <6>1, <6>2
        <5> QED
          BY <5>1, <5>2
      <4> QED
        BY <1>3, <2>1, <4>1, <4>2
    <3> QED
      BY <3>3, <3>4
  <2>3. CASE ~\E s \in Sessions : Acts(s)
    <3>1. UNCHANGED sessionVars /\ Persists(u)
      BY <1>1, <2>3, EnvironmentChange
    <3> QED
      BY <1>3, <2>1, <3>1 DEF Persists, sessionVars
  <2>4. CASE ~\E s \in Sessions : Step(s) \/ Cancel(s) \/ Crash(s)
    <3>1. UNCHANGED sessionVars
      BY <1>8, <2>4, CallNextCases DEF vars
    <3>2. CASE \E s \in Sessions : Acts(s)
      <4>1. PICK s \in Sessions : Acts(s)
        BY <3>2
      <4>2. pc'[s] # pc[s]
        BY <1>5, <2>4, <4>1, Transitions DEF Acts
      <4> QED
        BY <3>1, <4>2 DEF sessionVars
    <3> QED
      BY <2>3, <3>2
  <2> QED
    BY <2>2, <2>4
<1> QED
  BY <1>6, <1>7, <1>8

(* A helper of a call that gave no ports forwards exactly to what its target *)
(* can be reached on, whichever containers took over the target's name while *)
(* the call resolved, probed and began.                                      *)
THEOREM DetectedOnesAreServed == CallSpec => []DetectedIsServed
<1>1. CallInit => ServedInv
  <2>1. CallInit => \A s \in Sessions : pc[s] = "idle" /\ status[s] = "none"
    BY DEF CallInit, Init
  <2> QED
    BY <2>1 DEF ServedInv
<1>2. SafetyInv /\ CallInv /\ ServedInv /\ [CallNext]_allVars => ServedInv'
  BY ServedStays
<1>3. ServedInv => DetectedIsServed
  BY DEF ServedInv, DetectedIsServed, RemotePorts
<1>4. CallSpec => []SafetyInv
  BY CallImplementsSpec, SafetyInvariant, PTL DEF ImplementsStartForward
<1> QED
  BY <1>1, <1>2, <1>3, <1>4, CallInvariant, PTL DEF CallSpec
=============================================================================
