---------------------------- MODULE ForwardProofs ----------------------------
(***************************************************************************)
(* Theorems about StartForward, for every number of forwards and targets,  *)
(* every set of requests and every behaviour of the environment.           *)
(***************************************************************************)
EXTENDS ForwardProperties, SequenceTheorems, TLAPS

-----------------------------------------------------------------------------
(* Lemmas about the operators. *)

(* Resolving the automatic ports of a list of pairs gives a list of pairs. *)
LEMMA ResolvedPairs ==
  ASSUME NEW ps \in Seq(Pairs), NEW f \in [DOMAIN ps -> AutoPorts]
  PROVE  resolveAutoPorts(ps, f) \in Seq(Pairs)
<1>1. Len(ps) \in Nat /\ DOMAIN ps = 1..Len(ps) /\ ps \in [1..Len(ps) -> Pairs]
  BY LenProperties
<1>2. \A i \in 1..Len(ps) : Resolved(ps[i], f[i]) \in Pairs
  BY <1>1, RequestsAssumption
<1>3. resolveAutoPorts(ps, f) = [i \in 1..Len(ps) |-> Resolved(ps[i], f[i])]
  BY <1>1 DEF resolveAutoPorts
<1> QED
  BY <1>1, <1>2, <1>3, IsASeq

(* Every route leads over a network of the daemon to a name or an address. *)
LEMMA RouteType ==
  ASSUME NEW info \in TargetInfo, NEW requested,
         NEW route \in pickTargetNetwork(info, requested)
  PROVE  route \in [net : Networks \cup {""}, addr : TargetNames \cup IPs \cup {""}]
<1>1. PICK net : route = Route(info, net) /\ net \in Networks
  <2>1. CASE requested # ""
    BY <2>1 DEF pickTargetNetwork, pickRequestedNetwork, HasAddress, attachedTo, TargetInfo
  <2>2. CASE requested = ""
    BY <2>2 DEF pickTargetNetwork, Networks, ToSet
  <2> QED BY <2>1, <2>2
<1>2. targetAddress(info, net) \in TargetNames \cup IPs \cup {""}
  BY DEF targetAddress, TargetInfo
<1> QED
  BY <1>1, <1>2 DEF Route

(* The addresses a target can get are bridge addresses or none. *)
LEMMA IPChoicesType ==
  ASSUME NEW t, NEW nets
  PROVE  IPChoices(t, nets) \subseteq IPs \cup {""}
BY DEF IPChoices

(* The fields of a request have their types. *)
LEMMA RequestFields ==
  ASSUME NEW r \in Requests
  PROVE  /\ r.target \in Targets /\ r.pairs \in Seq(Pairs) /\ r.addresses \in Seq(Addresses)
         /\ r.name \in HelperNames /\ r.detach \in BOOLEAN /\ r.restart \in RestartPolicies
         /\ r.range \in Ranges
BY RequestsAssumption DEF RequestType

(* There is a request to start from. *)
LEMMA AnyRequestType == AnyRequest \in Requests
BY RequestsAssumption DEF AnyRequest

-----------------------------------------------------------------------------
(* Type correctness. *)

SessionTypeOK ==
  /\ pc \in [Sessions -> PCs]
  /\ req \in [Sessions -> Requests]
  /\ pairs \in [Sessions -> Seq(Pairs)]
  /\ via \in [Sessions -> [net : Networks \cup {""}, addr : TargetNames \cup IPs \cup {""}]]
  /\ helper \in [Sessions -> Sessions \cup {None}]
  /\ todo \in [Sessions -> SUBSET Sessions]
  /\ removed \in [Sessions -> SUBSET Sessions]
  /\ cancelled \in [Sessions -> BOOLEAN]
  /\ err \in [Sessions -> {"none", "port", "other"}]
  /\ leaked \in [Sessions -> {"none", "create", "remove"}]

(* TypeOK is the daemon's part and the forwards' part. *)
LEMMA TypeOKParts == TypeOK <=> DaemonTypeOK /\ SessionTypeOK
BY DEF TypeOK, SessionTypeOK

(* The places of a forward, one by one. *)
LEMMA PCValues ==
  \A p \in {"idle", "inspect", "find", "check", "replace", "listOrphans", "orphans",
            "removeOrphan", "waitPorts", "image", "create", "start", "startFailed",
            "waitRunning", "abort", "attached", "removing", "done", "failed", "crashed"} :
    p \in PCs
BY DEF PCs, Ended

(* Goto moves one forward to a place. *)
LEMMA GotoType ==
  ASSUME TypeOK, NEW s \in Sessions, NEW to \in PCs, Goto(s, to)
  PROVE  /\ pc' \in [Sessions -> PCs]
         /\ pc'[s] = to
         /\ \A u \in Sessions \ {s} : pc'[u] = pc[u]
BY DEF Goto, TypeOK

(* Fail ends one forward with an error. *)
LEMMA FailType ==
  ASSUME TypeOK, NEW s \in Sessions, NEW why \in {"none", "port", "other"}, Fail(s, why)
  PROVE  /\ pc' \in [Sessions -> PCs]
         /\ pc'[s] = "failed"
         /\ \A u \in Sessions \ {s} : pc'[u] = pc[u]
         /\ err' \in [Sessions -> {"none", "port", "other"}]
BY PCValues, GotoType DEF Fail, TypeOK

(* One forward takes up a helper; the others keep theirs. *)
LEMMA HelperType ==
  ASSUME TypeOK, NEW s \in Sessions, NEW h \in Sessions, helper' = [helper EXCEPT ![s] = h]
  PROVE  /\ helper' \in [Sessions -> Sessions \cup {None}]
         /\ helper'[s] = h
         /\ \A u \in Sessions \ {s} : helper'[u] = helper[u]
<1>1. helper \in [Sessions -> Sessions \cup {None}]
  BY DEF TypeOK
<1> QED
  BY <1>1

(* One container gets a status; the others keep theirs. *)
LEMMA StatusType ==
  ASSUME TypeOK, NEW h \in Sessions, NEW st \in Status, status' = [status EXCEPT ![h] = st]
  PROVE  /\ status' \in [Sessions -> Status]
         /\ status'[h] = st
         /\ \A g \in Sessions \ {h} : status'[g] = status[g]
<1>1. status \in [Sessions -> Status]
  BY DEF TypeOK, DaemonTypeOK
<1> QED
  BY <1>1

(* The states of a container, one by one. *)
LEMMA StatusValues ==
  \A st \in {"none", "created", "running", "restarting", "exited", "removing", "gone"} :
    st \in Status
BY DEF Status

(* ContainerRemove ends one live container and touches no other. *)
LEMMA ContainerRemoveType ==
  ASSUME TypeOK, NEW h, ContainerRemove(h)
  PROVE  /\ status' \in [Sessions -> Status]
         /\ \A g \in Sessions : g # h \/ status[g] \notin Alive => status'[g] = status[g]
         /\ h \in Sessions /\ status[h] \in Alive => status'[h] = "gone"
<1>1. status \in [Sessions -> Status] /\ "gone" \in Status
  BY DEF TypeOK, DaemonTypeOK, Status
<1> QED
  BY <1>1 DEF ContainerRemove

(* A cancellation keeps the type of cancelled. *)
LEMMA InterruptedType ==
  ASSUME TypeOK, NEW s \in Sessions, Interrupted(s)
  PROVE  /\ cancelled' \in [Sessions -> BOOLEAN]
         /\ ~cancelled[s] /\ cancelled'[s]
BY DEF Interrupted, TypeOK

(* The initial states are typed. *)
LEMMA InitType == Init => TypeInv
<1> SUFFICES ASSUME Init PROVE TypeInv
  OBVIOUS
<1>1. NoConfig \in HelperConfig
  <2>1. <<>> \in Seq(Pairs) /\ <<>> \in Seq(Addresses)
    BY EmptySeq
  <2> QED
    BY <2>1, AnyRequestType, RequestFields DEF NoConfig, HelperConfig, RestartPolicies
<1>2. DaemonTypeOK
  BY <1>1, TargetsAssumption DEF Init, DaemonTypeOK, Status
<1>3. SessionTypeOK
  BY AnyRequestType, EmptySeq, PCValues DEF Init, SessionTypeOK
<1>4. HelperAtHand
  BY DEF Init, HelperAtHand
<1> QED
  BY <1>2, <1>3, <1>4, TypeOKParts DEF TypeInv

(* Begin keeps TypeInv: resolved pairs are pairs. *)
LEMMA BeginType == ASSUME TypeInv, NEW s \in Sessions, Begin(s) PROVE TypeInv'
<1>1. PICK r \in Requests :
        /\ req' = [req EXCEPT ![s] = r]
        /\ \/ \E f \in Assignments(r) :
                /\ pairs' = [pairs EXCEPT ![s] = resolveAutoPorts(r.pairs, f)]
                /\ Goto(s, "inspect")
                /\ UNCHANGED err
           \/ /\ Fail(s, "port")
              /\ UNCHANGED pairs
  BY DEF Begin, BeginWith
<1>2. pairs' \in [Sessions -> Seq(Pairs)]
  <2>1. ASSUME NEW f \in Assignments(r)
        PROVE  resolveAutoPorts(r.pairs, f) \in Seq(Pairs)
    <3>1. f \in [DOMAIN r.pairs -> AutoPorts] /\ r.pairs \in Seq(Pairs)
      BY RequestFields DEF Assignments
    <3> QED
      BY <3>1, ResolvedPairs
  <2>2. pairs \in [Sessions -> Seq(Pairs)]
    BY DEF TypeInv, TypeOK
  <2> QED
    BY <1>1, <2>1, <2>2
<1>3. /\ pc' \in [Sessions -> PCs]
      /\ err' \in [Sessions -> {"none", "port", "other"}]
      /\ pc'[s] \in {"inspect", "failed"}
      /\ \A u \in Sessions \ {s} : pc'[u] = pc[u]
  BY <1>1, GotoType, FailType, PCValues DEF TypeInv, TypeOK
<1>4. req' \in [Sessions -> Requests]
  BY <1>1 DEF TypeInv, TypeOK
<1> QED
  BY <1>2, <1>3, <1>4 DEF TypeInv, TypeOK, DaemonTypeOK, HelperAtHand, Begin, BeginWith, daemonVars

(* InspectTarget keeps TypeInv: the route it picks is one. *)
LEMMA InspectTargetType ==
  ASSUME TypeInv, NEW s \in Sessions, InspectTarget(s) PROVE TypeInv'
<1>1. targets[req[s].target] \in TargetInfo
  BY RequestFields DEF TypeInv, TypeOK, DaemonTypeOK
<1>2. \/ \E route \in pickTargetNetwork(targets[req[s].target], req[s].network) :
           Goto(s, "find") /\ via' = [via EXCEPT ![s] = route] /\ UNCHANGED err
      \/ Fail(s, "other") /\ UNCHANGED via
  BY DEF InspectTarget
<1>3. via' \in [Sessions -> [net : Networks \cup {""}, addr : TargetNames \cup IPs \cup {""}]]
  <2>1. ASSUME NEW route \in pickTargetNetwork(targets[req[s].target], req[s].network)
        PROVE  route \in [net : Networks \cup {""}, addr : TargetNames \cup IPs \cup {""}]
    BY <1>1, RouteType
  <2>2. via \in [Sessions -> [net : Networks \cup {""}, addr : TargetNames \cup IPs \cup {""}]]
    BY DEF TypeInv, TypeOK
  <2> QED
    BY <1>2, <2>1, <2>2
<1>4. /\ pc' \in [Sessions -> PCs]
      /\ err' \in [Sessions -> {"none", "port", "other"}]
      /\ pc'[s] \in {"find", "failed"}
      /\ \A u \in Sessions \ {s} : pc'[u] = pc[u]
  BY <1>2, GotoType, FailType, PCValues DEF TypeInv, TypeOK
<1> QED
  BY <1>3, <1>4 DEF TypeInv, TypeOK, DaemonTypeOK, HelperAtHand, InspectTarget, daemonVars

(* CreateHelper keeps TypeInv: the configuration it builds is one. *)
LEMMA CreateHelperType ==
  ASSUME TypeInv, NEW s \in Sessions, CreateHelper(s) PROVE TypeInv'
<1>1. buildHelperContainerConfig(s) \in HelperConfig
  BY RequestFields
  DEF TypeInv, TypeOK, buildHelperContainerConfig, HelperConfig, RestartPolicies
<1>2. status' \in [Sessions -> Status]
  BY DEF TypeInv, TypeOK, DaemonTypeOK, CreateHelper, Created, Status
<1>3. cfg' \in [Sessions -> HelperConfig]
  BY <1>1 DEF TypeInv, TypeOK, DaemonTypeOK, CreateHelper, Created
<1>4. /\ pc' \in [Sessions -> PCs]
      /\ err' \in [Sessions -> {"none", "port", "other"}]
      /\ pc'[s] \in {"start", "failed"}
      /\ \A u \in Sessions \ {s} : pc'[u] = pc[u]
  BY GotoType, FailType, PCValues DEF TypeInv, TypeOK, CreateHelper
<1>5. /\ helper' \in [Sessions -> Sessions \cup {None}]
      /\ \A u \in Sessions \ {s} : helper'[u] = helper[u]
  <2>1. helper' = [helper EXCEPT ![s] = s] \/ UNCHANGED helper
    BY DEF CreateHelper
  <2> QED
    BY <2>1, HelperType DEF TypeInv, TypeOK
<1>6. leaked' \in [Sessions -> {"none", "create", "remove"}]
  BY DEF TypeInv, TypeOK, CreateHelper, Forgets
<1>7. cancelled' \in [Sessions -> BOOLEAN]
  BY InterruptedType DEF TypeInv, TypeOK, CreateHelper
<1> QED
  BY <1>2, <1>3, <1>4, <1>5, <1>6, <1>7 DEF TypeInv, TypeOK, DaemonTypeOK, HelperAtHand, CreateHelper

(* A removal keeps TypeInv. *)
LEMMA RemoveHelperType ==
  ASSUME TypeInv, NEW s \in Sessions, NEW from \in {"replace", "removeOrphan"},
         NEW next \in {"find", "orphans"}, RemoveHelper(s, from, next)
  PROVE  TypeInv'
<1>1. helper[s] \in Sessions
  BY DEF TypeInv, HelperAtHand, RemoveHelper
<1>2. status' \in [Sessions -> Status]
  BY ContainerRemoveType DEF TypeInv, TypeOK, DaemonTypeOK, RemoveHelper
<1>3. removed' \in [Sessions -> SUBSET Sessions]
  <2>1. removed[s] \cup {helper[s]} \in SUBSET Sessions
    BY <1>1 DEF TypeInv, TypeOK
  <2>2. \/ removed' = [removed EXCEPT ![s] = removed[s] \cup {helper[s]}]
        \/ removed' = removed
    BY DEF RemoveHelper
  <2> QED
    BY <2>1, <2>2 DEF TypeInv, TypeOK
<1>4. cancelled' \in [Sessions -> BOOLEAN]
  BY InterruptedType DEF TypeInv, TypeOK, RemoveHelper
<1>5. /\ pc' \in [Sessions -> PCs]
      /\ pc'[s] \notin {"check", "replace", "removeOrphan"}
      /\ \A u \in Sessions \ {s} : pc'[u] = pc[u]
      /\ err' \in [Sessions -> {"none", "port", "other"}]
  <2>1. next \in PCs
    BY PCValues
  <2>2. (Goto(s, next) /\ UNCHANGED err) \/ Fail(s, "other")
    BY DEF RemoveHelper
  <2> QED
    BY <2>1, <2>2, GotoType, FailType DEF TypeInv, TypeOK
<1> QED
  BY <1>2, <1>3, <1>4, <1>5 DEF TypeInv, TypeOK, DaemonTypeOK, HelperAtHand, RemoveHelper

(* StartHelper keeps TypeInv. *)
LEMMA StartHelperType ==
  ASSUME TypeInv, NEW s \in Sessions, StartHelper(s) PROVE TypeInv'
<1>1. status' \in [Sessions -> Status]
  <2>1. \/ status' = [status EXCEPT ![s] = "running"]
        \/ ContainerRemove(s)
        \/ UNCHANGED status
    BY DEF StartHelper, Started, StartRefused
  <2> QED
    BY <2>1, ContainerRemoveType, StatusType, StatusValues DEF TypeInv, TypeOK, DaemonTypeOK
<1>4. holding' \subseteq Sessions
  <2>1. holding' = holding \cup {s} \/ UNCHANGED holding
    BY DEF StartHelper, Started, StartRefused
  <2> QED
    BY <2>1 DEF TypeInv, TypeOK, DaemonTypeOK
<1>2. /\ pc' \in [Sessions -> PCs]
      /\ pc'[s] \in {"start", "waitRunning", "startFailed"}
      /\ \A u \in Sessions \ {s} : pc'[u] = pc[u]
  BY GotoType, PCValues DEF TypeInv, StartHelper
<1>3. /\ err' \in [Sessions -> {"none", "port", "other"}]
      /\ cancelled' \in [Sessions -> BOOLEAN]
  BY DEF TypeInv, TypeOK, StartHelper, Interrupted
<1> QED
  BY <1>1, <1>2, <1>3, <1>4 DEF TypeInv, TypeOK, DaemonTypeOK, HelperAtHand, StartHelper

(* findOverlappingHelper keeps TypeInv and leaves a helper at hand. *)
LEMMA FindType ==
  ASSUME TypeInv, NEW s \in Sessions, findOverlappingHelper(s) PROVE TypeInv'
<1>1. /\ pc' \in [Sessions -> PCs]
      /\ err' \in [Sessions -> {"none", "port", "other"}]
      /\ pc'[s] \in {"check", "listOrphans", "failed"}
      /\ \A u \in Sessions \ {s} : pc'[u] = pc[u]
  BY GotoType, FailType, PCValues DEF TypeInv, TypeOK, findOverlappingHelper
<1>2. /\ helper' \in [Sessions -> Sessions \cup {None}]
      /\ \A u \in Sessions \ {s} : helper'[u] = helper[u]
      /\ pc'[s] = "check" => helper'[s] \in Sessions
  <2>1. \/ \E h \in Sessions : Goto(s, "check") /\ helper' = [helper EXCEPT ![s] = h]
        \/ Goto(s, "listOrphans") /\ UNCHANGED helper
        \/ Fail(s, "other") /\ UNCHANGED helper
    BY DEF findOverlappingHelper, Listed
  <2>2. CASE \E h \in Sessions : Goto(s, "check") /\ helper' = [helper EXCEPT ![s] = h]
    BY <2>2, HelperType DEF TypeInv
  <2>3. CASE UNCHANGED helper /\ (Goto(s, "listOrphans") \/ Fail(s, "other"))
    <3>1. pc'[s] # "check"
      BY <2>3, GotoType, FailType, PCValues DEF TypeInv
    <3> QED
      BY <2>3, <3>1 DEF TypeInv, TypeOK
  <2> QED
    BY <2>1, <2>2, <2>3
<1> QED
  BY <1>1, <1>2
  DEF TypeInv, TypeOK, DaemonTypeOK, HelperAtHand, findOverlappingHelper, daemonVars

(* The steps of removeOrphanedHelpers keep TypeInv. *)
LEMMA OrphansType ==
  ASSUME TypeInv, NEW s \in Sessions, ListOrphans(s) \/ InspectOrphan(s) PROVE TypeInv'
<1>1. /\ pc' \in [Sessions -> PCs]
      /\ err' \in [Sessions -> {"none", "port", "other"}]
      /\ pc'[s] \in {"orphans", "removeOrphan", "failed"}
      /\ \A u \in Sessions \ {s} : pc'[u] = pc[u]
  BY GotoType, FailType, PCValues DEF TypeInv, TypeOK, ListOrphans, InspectOrphan
<1>2. todo' \in [Sessions -> SUBSET Sessions]
  <2>1. todo \in [Sessions -> SUBSET Sessions]
    BY DEF TypeInv, TypeOK
  <2>2. CASE ListOrphans(s)
    <3>1. (\E S \in SUBSET Sessions : todo' = [todo EXCEPT ![s] = S]) \/ todo' = todo
      BY <2>2 DEF ListOrphans, Listed
    <3> QED
      BY <2>1, <3>1
  <2>3. CASE InspectOrphan(s)
    <3>1. \E h : todo' = [todo EXCEPT ![s] = todo[s] \ {h}]
      BY <2>3 DEF InspectOrphan
    <3> QED
      BY <2>1, <3>1
  <2> QED
    BY <2>2, <2>3
<1>3. /\ helper' \in [Sessions -> Sessions \cup {None}]
      /\ \A u \in Sessions \ {s} : helper'[u] = helper[u]
      /\ pc'[s] = "removeOrphan" => helper'[s] \in Sessions
  <2>1. \/ \E h \in Sessions : Goto(s, "removeOrphan") /\ helper' = [helper EXCEPT ![s] = h]
        \/ Goto(s, "orphans") /\ UNCHANGED helper
        \/ Fail(s, "other") /\ UNCHANGED helper
    BY DEF TypeInv, TypeOK, ListOrphans, InspectOrphan
  <2>2. CASE \E h \in Sessions : Goto(s, "removeOrphan") /\ helper' = [helper EXCEPT ![s] = h]
    BY <2>2, HelperType DEF TypeInv
  <2>3. CASE UNCHANGED helper /\ (Goto(s, "orphans") \/ Fail(s, "other"))
    <3>1. pc'[s] # "removeOrphan"
      BY <2>3, GotoType, FailType, PCValues DEF TypeInv
    <3> QED
      BY <2>3, <3>1 DEF TypeInv, TypeOK
  <2> QED
    BY <2>1, <2>2, <2>3
<1> QED
  BY <1>1, <1>2, <1>3
  DEF TypeInv, TypeOK, DaemonTypeOK, HelperAtHand, ListOrphans, InspectOrphan, daemonVars

(* The remaining actions change neither the helper at hand nor what is listed. *)
LEMMA OtherStepType ==
  ASSUME TypeInv, NEW s \in Sessions,
         \/ CheckOverlapping(s) \/ Preflight(s) \/ waitForHostPorts(s)
         \/ ensureHelperImage(s) \/ StartFailed(s) \/ waitForRunning(s)
         \/ AbortHelper(s) \/ StopAttached(s) \/ RemoveAttached(s)
  PROVE  TypeInv'
<1>1. /\ pc' \in [Sessions -> PCs]
      /\ \A u \in Sessions \ {s} : pc'[u] = pc[u]
  BY GotoType, FailType, PCValues
  DEF TypeInv, CheckOverlapping, Preflight, waitForHostPorts, ensureHelperImage, ImageEnsured,
      StartFailed, waitForRunning, AbortHelper, StopAttached, RemoveAttached
<1>2. pc'[s] \in {"check", "replace", "removeOrphan"} => pc[s] = "check"
  BY GotoType, FailType, PCValues
  DEF TypeInv, CheckOverlapping, Preflight, waitForHostPorts, ensureHelperImage, ImageEnsured,
      StartFailed, waitForRunning, AbortHelper, StopAttached, RemoveAttached
<1>3. err' \in [Sessions -> {"none", "port", "other"}]
  BY FailType
  DEF TypeInv, TypeOK, CheckOverlapping, Preflight, waitForHostPorts, ensureHelperImage, ImageEnsured,
      StartFailed, waitForRunning, AbortHelper, StopAttached, RemoveAttached
<1>4. /\ status' \in [Sessions -> Status]
      /\ image' \in BOOLEAN
      /\ cancelled' \in [Sessions -> BOOLEAN]
      /\ leaked' \in [Sessions -> {"none", "create", "remove"}]
  BY DEF TypeInv, TypeOK, DaemonTypeOK, CheckOverlapping, Preflight, waitForHostPorts,
         ensureHelperImage, ImageEnsured, StartFailed, waitForRunning, AbortHelper, StopAttached,
         RemoveAttached, ContainerRemove, Forgets, Interrupted, Status, daemonVars
<1>5. /\ UNCHANGED <<targets, cfg, holding, foreign>>
      /\ UNCHANGED <<req, pairs, via, helper, todo, removed>>
  BY DEF CheckOverlapping, Preflight, waitForHostPorts, ensureHelperImage, ImageEnsured, StartFailed,
         waitForRunning, AbortHelper, StopAttached, RemoveAttached, daemonVars
<1> QED
  BY <1>1, <1>2, <1>3, <1>4, <1>5 DEF TypeInv, TypeOK, DaemonTypeOK, HelperAtHand

(* Every step of a forward keeps TypeInv. *)
LEMMA StepType == ASSUME TypeInv, NEW s \in Sessions, Step(s) PROVE TypeInv'
<1>1. CASE ReplaceHelper(s) \/ RemoveOrphan(s)
  BY <1>1, RemoveHelperType DEF ReplaceHelper, RemoveOrphan
<1>2. CASE ~(ReplaceHelper(s) \/ RemoveOrphan(s))
  BY <1>2, InspectTargetType, FindType, OrphansType, CreateHelperType, StartHelperType,
     OtherStepType DEF Step
<1> QED
  BY <1>1, <1>2

(* The daemon and the rest of the host. *)
LEMMA SetTargetType ==
  ASSUME TypeInv, NEW t \in Targets, NEW info \in TargetInfo, SetTarget(t, info),
         UNCHANGED sessionVars
  PROVE  TypeInv'
<1>1. targets' \in [Targets -> TargetInfo]
  BY DEF TypeInv, TypeOK, DaemonTypeOK, SetTarget
<1> QED
  BY <1>1 DEF TypeInv, TypeOK, DaemonTypeOK, HelperAtHand, SetTarget, sessionVars

(* What happens to targets keeps TypeInv. *)
LEMMA TargetStepType == ASSUME TypeInv, TargetStep, UNCHANGED sessionVars PROVE TypeInv'
<1>1. PICK t \in Targets :
        CreateTarget(t) \/ StopTarget(t) \/ StartTarget(t) \/ RemoveTarget(t)
        \/ RenameTarget(t) \/ ChangeNetworks(t)
  BY DEF TargetStep
<1> DEFINE old == targets[t]
<1>2. old \in TargetInfo
  BY DEF TypeInv, TypeOK, DaemonTypeOK
<1>3. \E info \in TargetInfo : SetTarget(t, info)
  <2>1. CASE CreateTarget(t)
    <3>1. PICK n \in TargetNames, nets \in NetSets : \E ip \in IPChoices(t, nets) :
            SetTarget(t, [state |-> "running", name |-> n, ip |-> ip, nets |-> nets])
      BY <2>1 DEF CreateTarget
    <3> QED
      BY <3>1, IPChoicesType, TargetsAssumption DEF TargetInfo
  <2>2. CASE StopTarget(t) \/ RemoveTarget(t)
    BY <1>2, <2>2 DEF StopTarget, RemoveTarget, TargetInfo
  <2>3. CASE StartTarget(t)
    BY <1>2, <2>3, IPChoicesType DEF StartTarget, TargetInfo
  <2>4. CASE RenameTarget(t)
    BY <1>2, <2>4 DEF RenameTarget, TargetInfo
  <2>5. CASE ChangeNetworks(t)
    BY <1>2, <2>5, IPChoicesType, TargetsAssumption DEF ChangeNetworks, TargetInfo
  <2> QED
    BY <1>1, <2>1, <2>2, <2>3, <2>4, <2>5
<1> QED
  BY <1>3, SetTargetType

(* What happens to helpers keeps TypeInv. *)
LEMMA HelperStepType ==
  ASSUME TypeInv, NEW h \in Sessions, UNCHANGED sessionVars,
         DaemonStep(h) \/ HelperExit(h) \/ ExternalRemove(h)
  PROVE  TypeInv'
<1>1. /\ (\E st \in Status : status' = [status EXCEPT ![h] = st]) \/ UNCHANGED status
      /\ holding' \subseteq holding \cup {h}
      /\ UNCHANGED <<targets, cfg, foreign, image>>
  BY StatusValues
  DEF DaemonStep, AutoRemoveDone, ReleasePorts, HelperRestart, HelperExit, ExternalRemove,
      SetStatus
<1>2. status' \in [Sessions -> Status]
  BY <1>1, StatusType DEF TypeInv, TypeOK, DaemonTypeOK
<1>3. holding' \subseteq Sessions
  BY <1>1 DEF TypeInv, TypeOK, DaemonTypeOK
<1> QED
  BY <1>1, <1>2, <1>3 DEF TypeInv, TypeOK, DaemonTypeOK, HelperAtHand, sessionVars

(* What happens on the host keeps TypeInv. *)
LEMMA HostStepType == ASSUME TypeInv, HostStep, UNCHANGED sessionVars PROVE TypeInv'
BY DEF TypeInv, TypeOK, DaemonTypeOK, HelperAtHand, sessionVars,
       HostStep, ForeignBind, ForeignClose, ImageRemoved, ImagePulled

(* Begin, Cancel and Crash keep TypeInv. *)
LEMMA SessionOnlyType ==
  ASSUME TypeInv, NEW s \in Sessions, Cancel(s) \/ Crash(s) PROVE TypeInv'
<1>1. CASE Cancel(s)
  BY <1>1 DEF Cancel, TypeInv, TypeOK, DaemonTypeOK, HelperAtHand, daemonVars
<1>2. CASE Crash(s)
  <2>1. Goto(s, "crashed")
    BY <1>2 DEF Crash, Goto
  <2>2. /\ pc' \in [Sessions -> PCs]
        /\ pc'[s] = "crashed"
        /\ \A u \in Sessions \ {s} : pc'[u] = pc[u]
    BY <2>1, GotoType, PCValues DEF TypeInv
  <2> QED
    BY <1>2, <2>2 DEF Crash, TypeInv, TypeOK, DaemonTypeOK, HelperAtHand, daemonVars
<1> QED
  BY <1>1, <1>2

(* TypeInv is inductive. *)
LEMMA NextType == ASSUME TypeInv, [Next]_vars PROVE TypeInv'
<1>1. CASE \E s \in Sessions : Begin(s) \/ Step(s) \/ Cancel(s) \/ Crash(s)
  BY <1>1, BeginType, StepType, SessionOnlyType
<1>2. CASE \E s \in Sessions : DaemonStep(s) /\ UNCHANGED sessionVars
  BY <1>2, HelperStepType
<1>3. CASE Interference /\ UNCHANGED sessionVars
  BY <1>3, TargetStepType, HelperStepType, HostStepType DEF Interference, HelperStep
<1>4. CASE UNCHANGED vars
  BY <1>4 DEF TypeInv, TypeOK, DaemonTypeOK, HelperAtHand, vars, daemonVars, sessionVars
<1> QED
  BY <1>1, <1>2, <1>3, <1>4 DEF Next

(* TypeInv holds in every reachable state. *)
LEMMA TypeInvariant == Spec => []TypeInv
  BY InitType, NextType, PTL DEF Spec

(* Every variable of every forward and of the daemon keeps its type. *)
THEOREM TypeCorrect == Spec => []TypeOK
<1>1. TypeInv => TypeOK
  BY DEF TypeInv
<1> QED
  BY <1>1, TypeInvariant, PTL
=============================================================================
