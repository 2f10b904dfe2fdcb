---------------------------- MODULE ForwardSafety ----------------------------
(***************************************************************************)
(* The safety theorems of StartForward: nothing is left behind, a forward  *)
(* removes only what it may, and what it reuses fits the request.  All     *)
(* follow from one inductive invariant, the named parts of                 *)
(* ForwardProperties together with type correctness.                       *)
(***************************************************************************)
EXTENDS ForwardProofs

-----------------------------------------------------------------------------
(* Control flow: where each action starts and where it may lead. *)

(* From where to where each step of a forward leads. *)
LEMMA Transitions ==
  ASSUME TypeInv, NEW s \in Sessions
  PROVE  /\ Begin(s) => pc[s] = "idle" /\ pc'[s] \in {"inspect", "failed"}
         /\ InspectTarget(s) => pc[s] = "inspect" /\ pc'[s] \in {"find", "failed"}
         /\ findOverlappingHelper(s) =>
              pc[s] = "find" /\ pc'[s] \in {"check", "listOrphans", "failed"}
         /\ CheckOverlapping(s) => pc[s] = "check" /\ pc'[s] \in {"replace", "done", "failed"}
         /\ ReplaceHelper(s) => pc[s] = "replace" /\ pc'[s] \in {"find", "failed"}
         /\ ListOrphans(s) => pc[s] = "listOrphans" /\ pc'[s] \in {"orphans", "failed"}
         /\ InspectOrphan(s) => pc[s] = "orphans" /\ pc'[s] \in {"orphans", "removeOrphan"}
         /\ RemoveOrphan(s) => pc[s] = "removeOrphan" /\ pc'[s] \in {"orphans", "failed"}
         /\ Preflight(s) => pc[s] = "orphans" /\ pc'[s] \in {"image", "waitPorts", "failed"}
         /\ waitForHostPorts(s) => pc[s] = "waitPorts" /\ pc'[s] \in {"image", "failed"}
         /\ ensureHelperImage(s) => pc[s] = "image" /\ pc'[s] \in {"create", "failed"}
         /\ CreateHelper(s) => pc[s] = "create" /\ pc'[s] \in {"start", "failed"}
         /\ StartHelper(s) => pc[s] = "start" /\ pc'[s] \in {"start", "waitRunning", "startFailed"}
         /\ StartFailed(s) => pc[s] = "startFailed" /\ pc'[s] = "failed"
         /\ waitForRunning(s) =>
              pc[s] = "waitRunning" /\ pc'[s] \in {"done", "attached", "abort"}
         /\ AbortHelper(s) => pc[s] = "abort" /\ pc'[s] = "failed"
         /\ StopAttached(s) => pc[s] = "attached" /\ pc'[s] = "removing"
         /\ RemoveAttached(s) => pc[s] = "removing" /\ pc'[s] = "done"
<1> USE GotoType, FailType, PCValues DEF TypeInv
<1>1. Begin(s) => pc[s] = "idle" /\ pc'[s] \in {"inspect", "failed"}
  BY DEF Begin, BeginWith
<1>2. InspectTarget(s) => pc[s] = "inspect" /\ pc'[s] \in {"find", "failed"}
  BY DEF InspectTarget
<1>3. findOverlappingHelper(s) =>
        pc[s] = "find" /\ pc'[s] \in {"check", "listOrphans", "failed"}
  BY DEF findOverlappingHelper
<1>4. CheckOverlapping(s) => pc[s] = "check" /\ pc'[s] \in {"replace", "done", "failed"}
  BY DEF CheckOverlapping
<1>5. ReplaceHelper(s) => pc[s] = "replace" /\ pc'[s] \in {"find", "failed"}
  BY DEF ReplaceHelper, RemoveHelper
<1>6. ListOrphans(s) => pc[s] = "listOrphans" /\ pc'[s] \in {"orphans", "failed"}
  BY DEF ListOrphans
<1>7. InspectOrphan(s) => pc[s] = "orphans" /\ pc'[s] \in {"orphans", "removeOrphan"}
  BY DEF InspectOrphan
<1>8. RemoveOrphan(s) => pc[s] = "removeOrphan" /\ pc'[s] \in {"orphans", "failed"}
  BY DEF RemoveOrphan, RemoveHelper
<1>9. Preflight(s) => pc[s] = "orphans" /\ pc'[s] \in {"image", "waitPorts", "failed"}
  BY DEF Preflight
<1>10. waitForHostPorts(s) => pc[s] = "waitPorts" /\ pc'[s] \in {"image", "failed"}
  BY DEF waitForHostPorts
<1>11. ensureHelperImage(s) => pc[s] = "image" /\ pc'[s] \in {"create", "failed"}
  BY DEF ensureHelperImage, ImageEnsured
<1>12. CreateHelper(s) => pc[s] = "create" /\ pc'[s] \in {"start", "failed"}
  BY DEF CreateHelper
<1>13. StartHelper(s) => pc[s] = "start" /\ pc'[s] \in {"start", "waitRunning", "startFailed"}
  BY DEF StartHelper
<1>14. StartFailed(s) => pc[s] = "startFailed" /\ pc'[s] = "failed"
  BY DEF StartFailed
<1>15. waitForRunning(s) => pc[s] = "waitRunning" /\ pc'[s] \in {"done", "attached", "abort"}
  BY DEF waitForRunning
<1>16. AbortHelper(s) => pc[s] = "abort" /\ pc'[s] = "failed"
  BY DEF AbortHelper
<1>17. StopAttached(s) => pc[s] = "attached" /\ pc'[s] = "removing"
  BY DEF StopAttached
<1>18. RemoveAttached(s) => pc[s] = "removing" /\ pc'[s] = "done"
  BY DEF RemoveAttached
<1> QED
  BY <1>1, <1>2, <1>3, <1>4, <1>5, <1>6, <1>7, <1>8, <1>9, <1>10, <1>11, <1>12, <1>13,
     <1>14, <1>15, <1>16, <1>17, <1>18

(* A step of one forward leaves the state of the others alone. *)
Acts(s) == Begin(s) \/ Step(s) \/ Cancel(s) \/ Crash(s)

(* A step of one forward leaves what belongs to the others alone. *)
LEMMA Locality ==
  ASSUME TypeInv, NEW s \in Sessions, Acts(s), NEW u \in Sessions \ {s}
  PROVE  /\ pc'[u] = pc[u] /\ req'[u] = req[u] /\ pairs'[u] = pairs[u]
         /\ helper'[u] = helper[u] /\ todo'[u] = todo[u] /\ leaked'[u] = leaked[u]
<1> USE DEF TypeInv, TypeOK, Goto, Fail, Forgets
<1>1. CASE Begin(s) \/ Cancel(s) \/ Crash(s)
  BY <1>1 DEF Begin, BeginWith, Cancel, Crash
<1>2. CASE InspectTarget(s) \/ findOverlappingHelper(s) \/ CheckOverlapping(s)
  BY <1>2 DEF InspectTarget, findOverlappingHelper, CheckOverlapping
<1>3. CASE ReplaceHelper(s) \/ RemoveOrphan(s)
  BY <1>3 DEF ReplaceHelper, RemoveOrphan, RemoveHelper
<1>4. CASE ListOrphans(s) \/ InspectOrphan(s) \/ Preflight(s) \/ waitForHostPorts(s)
  BY <1>4 DEF ListOrphans, InspectOrphan, Preflight, waitForHostPorts
<1>5. CASE ensureHelperImage(s) \/ CreateHelper(s) \/ StartHelper(s) \/ StartFailed(s)
  BY <1>5 DEF ensureHelperImage, ImageEnsured, CreateHelper, StartHelper, StartFailed
<1>6. CASE waitForRunning(s) \/ AbortHelper(s) \/ StopAttached(s) \/ RemoveAttached(s)
  BY <1>6 DEF waitForRunning, AbortHelper, StopAttached, RemoveAttached
<1> QED
  BY <1>1, <1>2, <1>3, <1>4, <1>5, <1>6 DEF Acts, Step

-----------------------------------------------------------------------------
(* What a step does to containers. *)

(* Life of a container between two states: it is configured when it is *)
(* created, and once removed it stays removed.                         *)
Persists(h) ==
  /\ cfg'[h] = cfg[h]
  /\ status[h] = "none" <=> status'[h] = "none"
  /\ Removed(h) => status'[h] \in {"none", "removing", "gone"}

(* The four things an action other than CreateHelper can do to containers. *)
LEMMA ContainerChange ==
  ASSUME TypeInv, NEW s \in Sessions, Acts(s), ~CreateHelper(s)
  PROVE  /\ UNCHANGED cfg
         /\ \/ UNCHANGED status
            \/ \E g : ContainerRemove(g)
            \/ status[s] = "created" /\ status' = [status EXCEPT ![s] = "running"]
            \/ status[s] = "running" /\ status' = [status EXCEPT ![s] = "removing"]
<1>1. CASE Begin(s) \/ Cancel(s) \/ Crash(s) \/ InspectTarget(s) \/ findOverlappingHelper(s)
           \/ CheckOverlapping(s) \/ ListOrphans(s) \/ InspectOrphan(s) \/ Preflight(s)
           \/ waitForHostPorts(s) \/ ensureHelperImage(s) \/ waitForRunning(s)
  BY <1>1 DEF Begin, BeginWith, Cancel, Crash, InspectTarget, findOverlappingHelper, CheckOverlapping,
     ListOrphans, InspectOrphan, Preflight, waitForHostPorts, ensureHelperImage, ImageEnsured,
     waitForRunning, daemonVars
<1>2. CASE ReplaceHelper(s) \/ RemoveOrphan(s)
  BY <1>2 DEF ReplaceHelper, RemoveOrphan, RemoveHelper
<1>3. CASE StartHelper(s)
  BY <1>3 DEF StartHelper, Started, StartRefused
<1>4. CASE StartFailed(s) \/ AbortHelper(s) \/ RemoveAttached(s)
  BY <1>4 DEF StartFailed, AbortHelper, RemoveAttached
<1>5. CASE StopAttached(s)
  <2>1. status = [status EXCEPT ![s] = status[s]]
    BY DEF TypeInv, TypeOK, DaemonTypeOK
  <2>2. UNCHANGED cfg
    BY <1>5 DEF StopAttached
  <2>3. \/ UNCHANGED status
        \/ status' = [status EXCEPT ![s] = IF status[s] = "running" THEN "removing" ELSE status[s]]
    BY <1>5 DEF StopAttached
  <2> QED
    BY <2>1, <2>2, <2>3
<1> QED
  BY <1>1, <1>2, <1>3, <1>4, <1>5 DEF Acts, Step

(* A step of a forward keeps every existing helper what it was. *)
LEMMA SessionPersists ==
  ASSUME TypeInv, NEW s \in Sessions, Acts(s), NEW h \in Sessions, ~(h = s /\ CreateHelper(s))
  PROVE  Persists(h)
<1>1. CASE ~CreateHelper(s)
  <2>1. UNCHANGED cfg
    BY <1>1, ContainerChange
  <2>2. CASE UNCHANGED status
    BY <2>1, <2>2 DEF Persists, Removed
  <2>3. CASE \E g : ContainerRemove(g)
    <3>1. PICK g : ContainerRemove(g)
      BY <2>3
    <3>2. status'[h] = status[h] \/ (status[h] \in Alive /\ status'[h] = "gone")
      BY <3>1, ContainerRemoveType DEF TypeInv
    <3> QED
      BY <2>1, <3>2 DEF Persists, Removed, Alive
  <2>4. ASSUME NEW st \in {"running", "removing"}, status[s] \in {"created", "running"},
               status' = [status EXCEPT ![s] = st]
        PROVE  Persists(h)
    <3>1. IF h = s THEN status'[h] = st ELSE status'[h] = status[h]
      BY <2>4, StatusType, StatusValues DEF TypeInv
    <3> QED
      BY <2>1, <2>4, <3>1 DEF Persists, Removed
  <2> QED
    BY <1>1, <2>2, <2>3, <2>4, ContainerChange
<1>2. CASE CreateHelper(s)
  BY <1>2 DEF TypeInv, TypeOK, DaemonTypeOK, CreateHelper, Created, Persists, Removed
<1> QED
  BY <1>1, <1>2

(* A status is one of Status. *)
LEMMA StatusIsStatus == ASSUME TypeInv, NEW h \in Sessions PROVE status[h] \in Status
BY DEF TypeInv, TypeOK, DaemonTypeOK

(* What others do to helpers keeps every existing helper what it was. *)
LEMMA HelperStepPersists ==
  ASSUME TypeInv, NEW g \in Sessions, NEW h \in Sessions,
         DaemonStep(g) \/ HelperExit(g) \/ ExternalRemove(g)
  PROVE  Persists(h)
<1>1. UNCHANGED cfg
  BY DEF DaemonStep, AutoRemoveDone, ReleasePorts, HelperRestart, HelperExit, ExternalRemove,
         SetStatus
<1>2. \/ UNCHANGED status
      \/ status[g] \in Alive /\ \E st \in {"running", "restarting", "exited", "removing", "gone"} :
           status' = [status EXCEPT ![g] = st]
      \/ status[g] = "removing" /\ status' = [status EXCEPT ![g] = "gone"]
  BY DEF DaemonStep, AutoRemoveDone, ReleasePorts, HelperRestart, HelperExit, ExternalRemove,
         SetStatus, Alive
<1>3. ASSUME NEW st \in {"running", "restarting", "exited", "removing", "gone"},
             status' = [status EXCEPT ![g] = st],
             status[g] \in Alive \/ (status[g] = "removing" /\ st = "gone")
      PROVE  Persists(h)
  <2>1. IF h = g THEN status'[h] = st ELSE status'[h] = status[h]
    BY <1>3, StatusType, StatusValues DEF TypeInv
  <2> QED
    BY <1>1, <1>3, <2>1 DEF Persists, Removed, Alive
<1> QED
  BY <1>1, <1>2, <1>3 DEF Persists, Removed

(* A target that was created once is never created again. *)
Lasts(t) == Born(t) => Born(t)' /\ (~Exists(targets[t]) => ~Exists(targets'[t]))

(* Changing a target that keeps its networks, or dies, is no rebirth. *)
LEMMA SetTargetLasts ==
  ASSUME TypeInv, NEW t \in Targets, NEW u \in Targets, NEW info, SetTarget(u, info),
         targets[u].nets # {} => info.nets # {} /\ (~Exists(targets[u]) => ~Exists(info))
  PROVE  Lasts(t)
<1>1. IF t = u THEN targets'[t] = info ELSE targets'[t] = targets[t]
  BY DEF TypeInv, TypeOK, DaemonTypeOK, SetTarget
<1> QED
  BY <1>1 DEF Lasts, Born

(* No step of the environment brings a removed target back. *)
LEMMA TargetsLast == ASSUME TypeInv, TargetStep, NEW t \in Targets PROVE Lasts(t)
<1>1. PICK u \in Targets :
        CreateTarget(u) \/ StopTarget(u) \/ StartTarget(u) \/ RemoveTarget(u)
        \/ RenameTarget(u) \/ ChangeNetworks(u)
  BY DEF TargetStep
<1>2. targets[u] \in TargetInfo
  BY DEF TypeInv, TypeOK, DaemonTypeOK
<1>3. CASE CreateTarget(u)
  BY <1>3, SetTargetLasts DEF CreateTarget
<1>4. CASE StopTarget(u) \/ RemoveTarget(u) \/ StartTarget(u)
  <2>1. PICK st \in {"absent", "stopped", "running"}, ip \in IPs \cup {""} :
          /\ SetTarget(u, [targets[u] EXCEPT !.state = st, !.ip = ip])
          /\ Exists(targets[u])
    BY <1>4 DEF StopTarget, RemoveTarget, StartTarget, IPChoices, Running, Exists
  <2>2. [targets[u] EXCEPT !.state = st, !.ip = ip].nets = targets[u].nets
    BY <1>2 DEF TargetInfo
  <2> QED
    BY <2>1, <2>2, SetTargetLasts
<1>5. CASE RenameTarget(u)
  <2>1. PICK n : SetTarget(u, [targets[u] EXCEPT !.name = n])
    BY <1>5 DEF RenameTarget
  <2>2. /\ [targets[u] EXCEPT !.name = n].nets = targets[u].nets
        /\ [targets[u] EXCEPT !.name = n].state = targets[u].state
    BY <1>2 DEF TargetInfo
  <2> QED
    BY <2>1, <2>2, SetTargetLasts DEF Exists
<1>6. CASE ChangeNetworks(u)
  <2>1. PICK nets, ip :
          /\ nets # {} /\ Exists(targets[u])
          /\ SetTarget(u, [targets[u] EXCEPT !.nets = nets, !.ip = ip])
    BY <1>6, TargetsAssumption DEF ChangeNetworks, Running, Exists
  <2>2. [targets[u] EXCEPT !.nets = nets, !.ip = ip].nets = nets
    BY <1>2 DEF TargetInfo
  <2> QED
    BY <2>1, <2>2, SetTargetLasts
<1> QED
  BY <1>1, <1>3, <1>4, <1>5, <1>6

(* The networks picked for helpers are usable ones. *)
LEMMA RouteUsable ==
  ASSUME NEW info, NEW requested, NEW route \in pickTargetNetwork(info, requested)
  PROVE  route.net \notin Internal
<1>1. \A net : Route(info, net).net = net
  BY DEF Route
<1>2. CASE requested # ""
  BY <1>1, <1>2 DEF pickTargetNetwork, pickRequestedNetwork
<1>3. CASE requested = ""
  <2>1. PICK net : route = Route(info, net) /\ net \notin Internal
    BY <1>3, NetworksAssumption DEF pickTargetNetwork
  <2> QED
    BY <1>1, <2>1
<1> QED
  BY <1>2, <1>3

(* Only InspectTarget picks a network, and only CreateHelper uses it. *)
LEMMA StepNetsUsable ==
  ASSUME TypeInv, NetsUsable, NEW s \in Sessions, Acts(s)
  PROVE  NetsUsable'
<1>1. \A u \in Sessions : via'[u] = via[u] \/ via'[u].net \notin Internal
  <2>1. CASE InspectTarget(s)
    <3>1. \/ UNCHANGED via
          \/ \E route : route.net \notin Internal /\ via' = [via EXCEPT ![s] = route]
      BY <2>1, RouteUsable DEF InspectTarget
    <3> QED
      BY <3>1 DEF TypeInv, TypeOK
  <2>2. CASE ~InspectTarget(s)
    BY <2>2 DEF Acts, Begin, BeginWith, Cancel, Crash, Step, findOverlappingHelper,
       CheckOverlapping, ReplaceHelper, RemoveOrphan, RemoveHelper, ListOrphans, InspectOrphan,
       Preflight, waitForHostPorts, ensureHelperImage, CreateHelper, StartHelper, StartFailed,
       waitForRunning, AbortHelper, StopAttached, RemoveAttached
  <2> QED
    BY <2>1, <2>2
<1>2. \A u \in Sessions : cfg'[u].network \in {cfg[u].network, via[u].net}
  <2>1. CASE CreateHelper(s)
    <3>1. cfg' = cfg \/ cfg' = [cfg EXCEPT ![s] = buildHelperContainerConfig(s)]
      BY <2>1 DEF CreateHelper, Created
    <3>2. buildHelperContainerConfig(s).network = via[s].net
      BY DEF buildHelperContainerConfig
    <3>3. cfg \in [Sessions -> HelperConfig]
      BY DEF TypeInv, TypeOK, DaemonTypeOK
    <3> QED
      BY <3>1, <3>2, <3>3
  <2>2. CASE ~CreateHelper(s)
    BY <2>2, ContainerChange
  <2> QED
    BY <2>1, <2>2
<1> QED
  BY <1>1, <1>2 DEF NetsUsable

(* Everything but the forwards keeps the invariant. *)
LEMMA OthersKeepInv ==
  ASSUME SafetyInv, UNCHANGED sessionVars,
         \A h \in Sessions : Persists(h), \A t \in Targets : Lasts(t), TypeInv'
  PROVE  SafetyInv'
<1> USE DEF sessionVars
<1>1. NoHelperYet' /\ OwnHelper'
  BY DEF SafetyInv, NoHelperYet, OwnHelper, Persists
<1>2. OthersExist'
  BY DEF SafetyInv, OthersExist, Persists, TypeInv, TypeOK, HelperAtHand
<1>3. \A s, h \in Sessions :
        /\ Overlaps(s, h) => Overlaps(s, h)'
        /\ RangeChanged(s, h)' => RangeChanged(s, h)
        /\ NetworkChanged(s, h)' => NetworkChanged(s, h)
  BY DEF Overlaps, Recorded, RangeChanged, NetworkChanged, Persists
<1>8. FoundMatches'
  <2> SUFFICES ASSUME NEW s \in Sessions, pc[s] \in {"check", "replace"}
               PROVE  Overlaps(s, helper[s])'
    BY DEF FoundMatches
  <2>1. helper[s] \in Sessions /\ Overlaps(s, helper[s])
    BY DEF SafetyInv, FoundMatches, TypeInv, HelperAtHand
  <2> QED
    BY <1>3, <2>1
<1>9. ReturnedMatches'
  BY <1>3 DEF SafetyInv, ReturnedMatches, Persists
<1>4. \A s \in Sessions : req[s].target \in Targets /\ cfg[s].target \in Targets
  BY RequestFields DEF SafetyInv, TypeInv, TypeOK, DaemonTypeOK, HelperConfig
<1>5. TargetsBorn'
  BY <1>4 DEF SafetyInv, TargetsBorn, Persists, Lasts, Born
<1>6. OrphanStays'
  BY <1>4 DEF SafetyInv, OrphanStays, Persists, Lasts, Born, TypeInv, HelperAtHand
<1>7. NothingLeftBehind'
  BY DEF SafetyInv, NothingLeftBehind, Persists, Removed
<1>10. NetsUsable'
  BY DEF SafetyInv, NetsUsable, Persists
<1> QED
  BY <1>1, <1>2, <1>5, <1>6, <1>7, <1>8, <1>9, <1>10 DEF SafetyInv

(* Everything the environment does keeps SafetyInv. *)
LEMMA EnvironmentInv ==
  ASSUME SafetyInv, UNCHANGED sessionVars, Interference \/ \E g \in Sessions : DaemonStep(g)
  PROVE  SafetyInv'
<1>1. TypeInv /\ TypeInv'
  BY TargetStepType, HelperStepType, HostStepType DEF SafetyInv, Interference, HelperStep
<1>2. CASE TargetStep
  <2>1. UNCHANGED <<status, cfg>>
    BY <1>2 DEF TargetStep, CreateTarget, StopTarget, StartTarget, RemoveTarget, RenameTarget,
      ChangeNetworks, SetTarget
  <2> QED
    BY <1>1, <1>2, <2>1, TargetsLast, OthersKeepInv DEF Persists, Removed
<1>3. CASE HelperStep \/ \E g \in Sessions : DaemonStep(g)
  <2>1. UNCHANGED targets
    BY <1>3 DEF HelperStep, DaemonStep, AutoRemoveDone, ReleasePorts, HelperRestart, HelperExit,
      ExternalRemove, SetStatus
  <2> QED
    BY <1>1, <1>3, <2>1, HelperStepPersists, OthersKeepInv DEF HelperStep, Lasts, Born
<1>4. CASE HostStep
  <2>1. UNCHANGED <<targets, status, cfg>>
    BY <1>4 DEF HostStep, ForeignBind, ForeignClose, ImageRemoved, ImagePulled
  <2> QED
    BY <1>1, <2>1, OthersKeepInv DEF Persists, Removed, Lasts, Born
<1> QED
  BY <1>2, <1>3, <1>4 DEF Interference
-----------------------------------------------------------------------------
(* A step of one forward keeps the invariant. *)

(* Which actions change what a forward remembers. *)
LEMMA OwnData ==
  ASSUME TypeInv, NEW s \in Sessions, Acts(s)
  PROVE  /\ UNCHANGED targets
         /\ ~Begin(s) => req'[s] = req[s] /\ pairs'[s] = pairs[s]
         /\ ~(findOverlappingHelper(s) \/ InspectOrphan(s) \/ CreateHelper(s)) => UNCHANGED helper
         /\ ~ListOrphans(s) => todo'[s] \subseteq todo[s]
<1> USE DEF TypeInv, TypeOK
<1>1. CASE Begin(s) \/ Cancel(s) \/ Crash(s)
  BY <1>1 DEF Begin, BeginWith, Cancel, Crash, daemonVars
<1>2. CASE InspectTarget(s) \/ findOverlappingHelper(s) \/ CheckOverlapping(s)
  BY <1>2 DEF InspectTarget, findOverlappingHelper, CheckOverlapping, daemonVars
<1>3. CASE ReplaceHelper(s) \/ RemoveOrphan(s)
  BY <1>3 DEF ReplaceHelper, RemoveOrphan, RemoveHelper
<1>4. CASE ListOrphans(s) \/ Preflight(s) \/ waitForHostPorts(s)
  BY <1>4 DEF ListOrphans, Preflight, waitForHostPorts, daemonVars
<1>7. CASE InspectOrphan(s)
  <2>1. PICK h : todo' = [todo EXCEPT ![s] = todo[s] \ {h}]
    BY <1>7 DEF InspectOrphan
  <2>2. todo'[s] \subseteq todo[s]
    BY <2>1
  <2> QED
    BY <1>7, <2>2 DEF InspectOrphan, daemonVars
<1>5. CASE ensureHelperImage(s) \/ CreateHelper(s) \/ StartHelper(s) \/ StartFailed(s)
  BY <1>5 DEF ensureHelperImage, ImageEnsured, CreateHelper, StartHelper, StartFailed
<1>6. CASE waitForRunning(s) \/ AbortHelper(s) \/ StopAttached(s) \/ RemoveAttached(s)
  BY <1>6 DEF waitForRunning, AbortHelper, StopAttached, RemoveAttached, daemonVars
<1> QED
  BY <1>1, <1>2, <1>3, <1>4, <1>5, <1>6, <1>7 DEF Acts, Step

(* How a forward can come to the places the invariant speaks of. *)
LEMMA Arrivals ==
  ASSUME TypeInv, NEW s \in Sessions, Acts(s), pc'[s] # pc[s]
  PROVE  /\ pc'[s] \in BeforeCreate => pc[s] \in BeforeCreate /\ ~CreateHelper(s)
         /\ pc'[s] \in BeforeCreate \ {"idle", "inspect"} =>
              InspectTarget(s) \/ pc[s] \in BeforeCreate \ {"idle", "inspect"}
         /\ pc'[s] = "check" => findOverlappingHelper(s)
         /\ pc'[s] = "replace" => CheckOverlapping(s)
         /\ pc'[s] = "removeOrphan" => InspectOrphan(s)
         /\ pc'[s] \in AfterCreate => CreateHelper(s) \/ pc[s] \in AfterCreate
         /\ pc'[s] = "done" => CheckOverlapping(s) \/ waitForRunning(s) \/ RemoveAttached(s)
         /\ pc'[s] = "failed" =>
              \/ pc[s] \in BeforeCreate
              \/ StartFailed(s) \/ AbortHelper(s)
         /\ ~Begin(s) \/ pc[s] = "idle"
<1>1. Cancel(s) => pc' = pc
  BY DEF Cancel
<1>2. Crash(s) => pc'[s] = "crashed"
  BY DEF Crash, TypeInv, TypeOK
<1>3. CASE Begin(s) \/ Crash(s) \/ InspectTarget(s) \/ findOverlappingHelper(s)
           \/ CheckOverlapping(s) \/ ReplaceHelper(s)
  BY <1>2, <1>3, Transitions DEF BeforeCreate, AfterCreate
<1>4. CASE ListOrphans(s) \/ InspectOrphan(s) \/ RemoveOrphan(s) \/ Preflight(s)
           \/ waitForHostPorts(s) \/ ensureHelperImage(s)
  BY <1>4, Transitions DEF BeforeCreate, AfterCreate
<1>5. CASE CreateHelper(s) \/ StartHelper(s) \/ StartFailed(s) \/ waitForRunning(s)
           \/ AbortHelper(s) \/ StopAttached(s) \/ RemoveAttached(s)
  BY <1>5, Transitions DEF BeforeCreate, AfterCreate
<1> QED
  BY <1>1, <1>3, <1>4, <1>5 DEF Acts, Step
(* A container that is there stays known, and keeps what it was given. *)
LEMMA KnownStays ==
  ASSUME SafetyInv, NEW s \in Sessions, Acts(s), NEW h \in Sessions, status[h] # "none"
  PROVE  Persists(h) /\ status'[h] # "none"
<1>1. ~(h = s /\ CreateHelper(s))
  BY DEF SafetyInv, NoHelperYet, CreateHelper, BeforeCreate
<1> QED
  BY <1>1, SessionPersists DEF SafetyInv, Persists

(* A step of a forward keeps NoHelperYet. *)
LEMMA StepNoHelperYet ==
  ASSUME SafetyInv, NEW s \in Sessions, Acts(s) PROVE NoHelperYet'
<1> SUFFICES ASSUME NEW u \in Sessions, pc'[u] \in BeforeCreate PROVE status'[u] = "none"
  BY DEF NoHelperYet
<1>1. CASE u # s
  BY <1>1, Locality, SessionPersists DEF SafetyInv, NoHelperYet, Persists
<1>2. CASE u = s
  <2>1. pc[s] \in BeforeCreate /\ ~CreateHelper(s)
    <3>1. CreateHelper(s) => pc'[s] # pc[s]
      BY Transitions DEF SafetyInv
    <3> QED
      BY <1>2, <3>1, Arrivals DEF SafetyInv
  <2> QED
    BY <1>2, <2>1, SessionPersists DEF SafetyInv, NoHelperYet, Persists
<1> QED
  BY <1>1, <1>2

(* A step of a forward keeps OwnHelper. *)
LEMMA StepOwnHelper ==
  ASSUME SafetyInv, NEW s \in Sessions, Acts(s) PROVE OwnHelper'
<1> SUFFICES ASSUME NEW u \in Sessions, pc'[u] \in AfterCreate PROVE helper'[u] = u
  BY DEF OwnHelper
<1>1. CASE u # s
  BY <1>1, Locality DEF SafetyInv, OwnHelper
<1>2. CASE u = s /\ CreateHelper(s)
  <2>1. pc'[s] # "failed"
    BY <1>2 DEF AfterCreate
  <2>2. helper' = [helper EXCEPT ![s] = s]
    BY <1>2, <2>1, FailType DEF CreateHelper, SafetyInv, TypeInv
  <2> QED
    BY <1>2, <2>2, HelperType DEF SafetyInv, TypeInv
<1>3. CASE u = s /\ ~CreateHelper(s)
  <2>1. pc[s] \in AfterCreate
    BY <1>3, Arrivals DEF SafetyInv
  <2>2. ~(findOverlappingHelper(s) \/ InspectOrphan(s))
    BY <2>1 DEF findOverlappingHelper, InspectOrphan, AfterCreate
  <2> QED
    BY <1>3, <2>1, <2>2, OwnData DEF SafetyInv, OwnHelper
<1> QED
  BY <1>1, <1>2, <1>3

(* What the three actions that pick a helper guarantee about it. *)
LEMMA Picked ==
  ASSUME SafetyInv, NEW s \in Sessions
  PROVE  /\ findOverlappingHelper(s) /\ pc'[s] = "check" =>
              /\ helper'[s] \in Sessions /\ status[helper'[s]] # "none"
              /\ Overlaps(s, helper'[s]) /\ UNCHANGED <<cfg, req, pairs, status>>
         /\ InspectOrphan(s) /\ pc'[s] = "removeOrphan" =>
              /\ helper'[s] \in todo[s] /\ Orphaned(helper'[s])
              /\ UNCHANGED <<cfg, targets, status>>
         /\ CheckOverlapping(s) =>
              /\ pc'[s] = "done" => /\ ~RangeChanged(s, helper[s]) /\ ~NetworkChanged(s, helper[s])
              /\ UNCHANGED <<cfg, req, pairs, helper, status>>
<1> USE GotoType, FailType, PCValues DEF SafetyInv, TypeInv
<1>1. ASSUME findOverlappingHelper(s), pc'[s] = "check"
      PROVE  /\ helper'[s] \in Sessions /\ status[helper'[s]] # "none"
             /\ Overlaps(s, helper'[s]) /\ UNCHANGED <<cfg, req, pairs, status>>
  <2>1. PICK h \in Listed : Overlaps(s, h) /\ helper' = [helper EXCEPT ![s] = h]
    BY <1>1 DEF findOverlappingHelper
  <2>2. helper'[s] = h
    BY <2>1, HelperType DEF Listed
  <2> QED
    BY <1>1, <2>1, <2>2 DEF Listed, findOverlappingHelper, daemonVars
<1>2. ASSUME InspectOrphan(s), pc'[s] = "removeOrphan"
      PROVE  /\ helper'[s] \in todo[s] /\ Orphaned(helper'[s])
             /\ UNCHANGED <<cfg, targets, status>>
  <2>1. PICK h \in todo[s] : Orphaned(h) /\ helper' = [helper EXCEPT ![s] = h]
    BY <1>2 DEF InspectOrphan
  <2>2. helper'[s] = h
    BY <2>1, HelperType DEF TypeOK
  <2> QED
    BY <1>2, <2>1, <2>2 DEF InspectOrphan, daemonVars
<1>3. ASSUME CheckOverlapping(s)
      PROVE  /\ pc'[s] = "done" => ~RangeChanged(s, helper[s]) /\ ~NetworkChanged(s, helper[s])
             /\ UNCHANGED <<cfg, req, pairs, helper, status>>
  BY <1>3 DEF CheckOverlapping, daemonVars
<1> QED
  BY <1>1, <1>2, <1>3

(* A step of a forward keeps OthersExist. *)
LEMMA StepOthersExist ==
  ASSUME SafetyInv, NEW s \in Sessions, Acts(s) PROVE OthersExist'
<1> USE DEF SafetyInv
<1> SUFFICES ASSUME NEW u \in Sessions
             PROVE  /\ \A h \in todo'[u] : status'[h] # "none"
                    /\ pc'[u] \in {"check", "replace", "removeOrphan"} => status'[helper'[u]] # "none"
  BY DEF OthersExist
<1>1. \A h \in Sessions : status[h] # "none" => status'[h] # "none"
  BY KnownStays
<1>2. \A h \in todo[u] : h \in Sessions /\ status[h] # "none"
  BY DEF OthersExist, TypeInv, TypeOK
<1>3. \A h \in todo'[u] : status'[h] # "none"
  <2>1. CASE u = s /\ ListOrphans(s)
    <3>1. PICK S : (todo' = [todo EXCEPT ![s] = S] /\ S \subseteq Listed) \/ todo' = todo
      BY <2>1 DEF ListOrphans
    <3>2. todo'[u] \subseteq Listed \/ todo'[u] = todo[u]
      BY <2>1, <3>1 DEF TypeInv, TypeOK
    <3> QED
      BY <1>1, <1>2, <3>2 DEF Listed
  <2>2. CASE ~(u = s /\ ListOrphans(s))
    <3>1. todo'[u] \subseteq todo[u]
      BY <2>2, OwnData, Locality
    <3> QED
      BY <1>1, <1>2, <3>1
  <2> QED
    BY <2>1, <2>2
<1>4. ASSUME pc'[u] \in {"check", "replace", "removeOrphan"}
      PROVE  status'[helper'[u]] # "none"
  <2>1. CASE pc'[u] = pc[u] /\ helper'[u] = helper[u]
    BY <1>1, <1>4, <2>1 DEF OthersExist, TypeInv, HelperAtHand
  <2>2. CASE u = s /\ pc'[s] # pc[s]
    BY <1>1, <1>2, <1>4, <2>2, Arrivals, Picked, Transitions DEF OthersExist, TypeInv, HelperAtHand
  <2>3. CASE u = s /\ pc'[s] = pc[s]
    <3>1. ~(findOverlappingHelper(s) \/ InspectOrphan(s) \/ CreateHelper(s))
      BY <1>4, <2>3, Transitions
    <3> QED
      BY <2>1, <2>3, <3>1, OwnData
  <2> QED
    BY <2>1, <2>2, <2>3, Locality
<1> QED
  BY <1>3, <1>4
(* While the pairs of a forward and the helper stay, so does the match. *)
LEMMA MatchStays ==
  ASSUME SafetyInv, NEW s \in Sessions, Acts(s), NEW u \in Sessions, NEW h \in Sessions,
         status[h] # "none", req'[u] = req[u], pairs'[u] = pairs[u]
  PROVE  /\ Overlaps(u, h) => Overlaps(u, h)'
         /\ RangeChanged(u, h)' => RangeChanged(u, h)
         /\ NetworkChanged(u, h)' => NetworkChanged(u, h)
<1>1. cfg'[h] = cfg[h]
  BY KnownStays DEF Persists
<1> QED
  BY <1>1 DEF Overlaps, Recorded, RangeChanged, NetworkChanged

(* A step of a forward keeps FoundMatches. *)
LEMMA StepFoundMatches ==
  ASSUME SafetyInv, NEW s \in Sessions, Acts(s) PROVE FoundMatches'
<1> USE DEF SafetyInv
<1> SUFFICES ASSUME NEW u \in Sessions, pc'[u] \in {"check", "replace"}
             PROVE  Overlaps(u, helper[u])'
  BY DEF FoundMatches
<1>1. CASE /\ pc[u] \in {"check", "replace"} /\ helper'[u] = helper[u]
           /\ req'[u] = req[u] /\ pairs'[u] = pairs[u]
  <2>1. helper[u] \in Sessions /\ status[helper[u]] # "none" /\ Overlaps(u, helper[u])
    BY <1>1 DEF FoundMatches, OthersExist, TypeInv, HelperAtHand
  <2> QED
    BY <1>1, <2>1, MatchStays
<1>2. CASE u # s
  BY <1>1, <1>2, Locality
<1>3. CASE u = s /\ findOverlappingHelper(s)
  <2>1. pc'[s] = "check"
    BY <1>3, Transitions
  <2>2. /\ helper'[s] \in Sessions /\ status[helper'[s]] # "none"
        /\ Overlaps(s, helper'[s]) /\ UNCHANGED <<req, pairs>>
    BY <1>3, <2>1, Picked
  <2> QED
    BY <1>3, <2>2, MatchStays
<1>4. CASE u = s /\ ~findOverlappingHelper(s)
  <2>1. pc[s] \in {"check", "replace"}
    BY <1>4, Arrivals, Transitions
  <2>2. ~(Begin(s) \/ InspectOrphan(s) \/ CreateHelper(s))
    BY <2>1, Transitions
  <2> QED
    BY <1>1, <1>4, <2>1, <2>2, OwnData
<1> QED
  BY <1>2, <1>3, <1>4

(* A step of a forward keeps ReturnedMatches. *)
LEMMA StepReturnedMatches ==
  ASSUME SafetyInv, NEW s \in Sessions, Acts(s) PROVE ReturnedMatches'
<1> USE DEF SafetyInv
<1> DEFINE Fits(u, h) == /\ h \in Sessions /\ status[h] # "none"
                         /\ Overlaps(u, h) /\ ~RangeChanged(u, h) /\ ~NetworkChanged(u, h)
<1> SUFFICES ASSUME NEW u \in Sessions, pc'[u] = "done", helper'[u] # u
             PROVE  Fits(u, helper[u])'
  BY DEF ReturnedMatches
<1>1. CASE /\ Fits(u, helper[u]) /\ helper'[u] = helper[u]
           /\ req'[u] = req[u] /\ pairs'[u] = pairs[u]
  BY <1>1, MatchStays, KnownStays
<1>2. CASE u # s
  BY <1>1, <1>2, Locality DEF ReturnedMatches
<1>3. CASE u = s /\ pc'[s] = pc[s]
  <2>1. Cancel(s)
    BY <1>3, Transitions DEF Acts, Step, Crash, TypeInv, TypeOK
  <2> QED
    BY <1>3, <2>1 DEF Cancel, Busy, Ended
<1>4. CASE u = s /\ pc'[s] # pc[s] /\ CheckOverlapping(s)
  <2>1. Fits(s, helper[s])
    BY <1>4, Picked, Transitions DEF FoundMatches, OthersExist, TypeInv, HelperAtHand
  <2> QED
    BY <1>1, <1>4, <2>1, Picked
<1>5. CASE u = s /\ (waitForRunning(s) \/ RemoveAttached(s))
  BY <1>5, StepOwnHelper, OwnData, Transitions DEF OwnHelper, AfterCreate
<1> QED
  BY <1>2, <1>3, <1>4, <1>5, Arrivals
(* A container that can be reached is attached to a network. *)
LEMMA RouteNeedsNetwork ==
  ASSUME NEW info, NEW requested, pickTargetNetwork(info, requested) # {}
  PROVE  info.nets # {}
BY DEF pickTargetNetwork, pickRequestedNetwork, HasAddress, attachedTo

(* A step of a forward keeps TargetsBorn. *)
LEMMA StepTargetsBorn ==
  ASSUME SafetyInv, NEW s \in Sessions, Acts(s) PROVE TargetsBorn'
<1> USE DEF SafetyInv
<1> SUFFICES ASSUME NEW u \in Sessions
             PROVE  /\ pc'[u] \in BeforeCreate \ {"idle", "inspect"} => Born(req'[u].target)
                    /\ status'[u] # "none" => Born(cfg'[u].target)
  BY OwnData DEF TargetsBorn, Born
<1>1. ASSUME pc'[u] \in BeforeCreate \ {"idle", "inspect"} PROVE Born(req'[u].target)
  <2>1. CASE u = s /\ InspectTarget(s)
    <3>1. pc'[s] = "find"
      BY <1>1, <2>1, Transitions DEF BeforeCreate
    <3>2. pickTargetNetwork(targets[req[s].target], req[s].network) # {}
      BY <2>1, <3>1, FailType DEF InspectTarget, TypeInv
    <3>3. ~Begin(s)
      BY <2>1, Transitions
    <3> QED
      BY <2>1, <3>2, <3>3, RouteNeedsNetwork, OwnData DEF Born
  <2>2. CASE u = s /\ ~InspectTarget(s)
    <3>1. pc[s] \in BeforeCreate \ {"idle", "inspect"} /\ ~Begin(s)
      BY <1>1, <2>2, Arrivals, Transitions
    <3> QED
      BY <2>2, <3>1, OwnData DEF TargetsBorn
  <2>3. CASE u # s
    BY <1>1, <2>3, Locality DEF TargetsBorn
  <2> QED
    BY <2>1, <2>2, <2>3
<1>2. ASSUME status'[u] # "none" PROVE Born(cfg'[u].target)
  <2>1. CASE u = s /\ CreateHelper(s)
    <3>1. Born(req[s].target)
      BY <2>1 DEF TargetsBorn, CreateHelper, BeforeCreate
    <3>2. \/ cfg' = cfg /\ status' = status
          \/ cfg' = [cfg EXCEPT ![s] = buildHelperContainerConfig(s)]
      BY <2>1 DEF CreateHelper, Created
    <3>3. CASE cfg' = cfg /\ status' = status
      BY <1>2, <2>1, <3>3 DEF TargetsBorn
    <3>4. CASE cfg' = [cfg EXCEPT ![s] = buildHelperContainerConfig(s)]
      <4>1. cfg'[s].target = req[s].target
        BY <3>4 DEF TypeInv, TypeOK, DaemonTypeOK, buildHelperContainerConfig
      <4> QED
        BY <2>1, <3>1, <4>1
    <3> QED
      BY <3>2, <3>3, <3>4
  <2>2. CASE ~(u = s /\ CreateHelper(s))
    BY <1>2, <2>2, SessionPersists DEF TargetsBorn, Persists
  <2> QED
    BY <2>1, <2>2
<1> QED
  BY <1>1, <1>2

(* A step of a forward keeps OrphanStays. *)
LEMMA StepOrphanStays ==
  ASSUME SafetyInv, NEW s \in Sessions, Acts(s) PROVE OrphanStays'
<1> USE DEF SafetyInv
<1> DEFINE Gone(h) == ~Exists(targets[cfg[h].target]) /\ Born(cfg[h].target)
<1> SUFFICES ASSUME NEW u \in Sessions, pc'[u] = "removeOrphan" PROVE Gone(helper[u])'
  BY DEF OrphanStays, Born
<1>1. CASE pc[u] = "removeOrphan" /\ helper'[u] = helper[u]
  <2>1. helper[u] \in Sessions /\ status[helper[u]] # "none" /\ Gone(helper[u])
    BY <1>1 DEF OrphanStays, OthersExist, TypeInv, HelperAtHand
  <2>2. cfg'[helper[u]] = cfg[helper[u]]
    BY <2>1, KnownStays DEF Persists
  <2> QED
    BY <1>1, <2>1, <2>2, OwnData DEF Born
<1>2. CASE u # s
  BY <1>1, <1>2, Locality
<1>3. CASE u = s /\ InspectOrphan(s)
  <2>1. helper'[s] \in todo[s] /\ Orphaned(helper'[s]) /\ UNCHANGED <<cfg, targets>>
    BY <1>3, Picked
  <2>2. helper'[s] \in Sessions /\ Born(cfg[helper'[s]].target)
    BY <2>1 DEF OthersExist, TargetsBorn, TypeInv, TypeOK
  <2> QED
    BY <1>3, <2>1, <2>2 DEF Born, Orphaned
<1>4. CASE u = s /\ ~InspectOrphan(s)
  <2>1. pc[s] = "removeOrphan"
    BY <1>4, Arrivals
  <2>2. ~(findOverlappingHelper(s) \/ InspectOrphan(s) \/ CreateHelper(s))
    BY <2>1, Transitions
  <2> QED
    BY <1>1, <1>4, <2>1, <2>2, OwnData
<1> QED
  BY <1>2, <1>3, <1>4

(* A step of a forward keeps NothingLeftBehind: one case per way to end. *)
LEMMA StepNothingLeftBehind ==
  ASSUME SafetyInv, NEW s \in Sessions, Acts(s) PROVE NothingLeftBehind'
<1> USE DEF SafetyInv
<1>1. ASSUME NEW u \in Sessions \ {s},
             \/ pc'[u] = "failed"
             \/ pc'[u] = "done" /\ helper'[u] = u /\ ~req'[u].detach,
             leaked'[u] = "none"
      PROVE  Removed(u)'
  BY <1>1, Locality, SessionPersists DEF NothingLeftBehind, Persists, Removed
<1>2. ASSUME ContainerRemove(s) PROVE Removed(s)'
  <2>1. status'[s] \in Status \ Alive
    BY <1>2, ContainerRemoveType, StatusIsStatus DEF TypeInv, Alive, Status
  <2> QED
    BY <2>1 DEF Removed, Status, Alive
<1>3. ASSUME pc'[s] = "failed", leaked'[s] = "none" PROVE Removed(s)'
  <2>1. CASE CreateHelper(s)
    <3>1. status[s] = "none"
      BY <2>1 DEF NoHelperYet, CreateHelper, BeforeCreate
    <3>2. ~Goto(s, "start")
      BY <1>3, GotoType, PCValues DEF TypeInv
    <3>3. ~Forgets(s, "create")
      BY <1>3 DEF Forgets, TypeInv, TypeOK
    <3>4. status' = status
      BY <2>1, <3>2, <3>3 DEF CreateHelper
    <3> QED
      BY <3>1, <3>4 DEF Removed
  <2>2. CASE StartFailed(s) \/ AbortHelper(s)
    <3>1. ~Forgets(s, "remove")
      BY <1>3 DEF Forgets, TypeInv, TypeOK
    <3> QED
      BY <1>2, <2>2, <3>1 DEF StartFailed, AbortHelper
  <2>3. CASE pc[s] \in BeforeCreate /\ ~CreateHelper(s)
    BY <2>3, SessionPersists DEF NoHelperYet, Persists, Removed
  <2>4. pc'[s] # pc[s]
    BY <1>3, Transitions DEF Acts, Step, Cancel, Busy, Ended, Crash, TypeInv, TypeOK
  <2> QED
    BY <1>3, <2>1, <2>2, <2>3, <2>4, Arrivals
<1>4. ASSUME pc'[s] = "done", helper'[s] = s, ~req'[s].detach, leaked'[s] = "none"
      PROVE  Removed(s)'
  <2>1. ~CheckOverlapping(s)
    <3>1. CheckOverlapping(s) => pc[s] = "check" /\ helper' = helper
      BY Picked, Transitions
    <3> QED
      BY <1>4, <3>1 DEF NoHelperYet, OthersExist, BeforeCreate
  <2>2. ~waitForRunning(s)
    <3> SUFFICES ASSUME waitForRunning(s) PROVE FALSE
      OBVIOUS
    <3>1. Goto(s, IF req[s].detach THEN "done" ELSE "attached") \/ Goto(s, "abort")
      BY DEF waitForRunning
    <3>2. req'[s] = req[s]
      BY DEF waitForRunning
    <3> QED
      BY <1>4, <3>1, <3>2, GotoType, PCValues DEF TypeInv
  <2>3. CASE RemoveAttached(s)
    <3>1. ~Forgets(s, "remove")
      BY <1>4 DEF Forgets, TypeInv, TypeOK
    <3> QED
      BY <1>2, <2>3, <3>1 DEF RemoveAttached
  <2>4. pc'[s] # pc[s]
    BY <1>4, Transitions DEF Acts, Step, Cancel, Busy, Ended, Crash, TypeInv, TypeOK
  <2> QED
    BY <1>4, <2>1, <2>2, <2>3, <2>4, Arrivals
<1> QED
  BY <1>1, <1>3, <1>4 DEF NothingLeftBehind
-----------------------------------------------------------------------------
(* The invariant, and the theorems that follow from it. *)

(* SafetyInv holds initially. *)
LEMMA InitInv == Init => SafetyInv
<1> SUFFICES ASSUME Init PROVE SafetyInv
  OBVIOUS
<1>1. TypeInv
  BY InitType
<1>2. \A s \in Sessions : pc[s] = "idle" /\ status[s] = "none" /\ todo[s] = {}
  BY DEF Init
<1>3. NetsUsable
  BY NetworksAssumption DEF Init, NetsUsable, NoConfig
<1> QED
  BY <1>1, <1>2, <1>3 DEF SafetyInv, NoHelperYet, OwnHelper, OthersExist, FoundMatches,
     ReturnedMatches, TargetsBorn, OrphanStays, NothingLeftBehind, AfterCreate

(* SafetyInv is inductive. *)
LEMMA NextInv == ASSUME SafetyInv, [Next]_vars PROVE SafetyInv'
<1>1. TypeInv'
  BY NextType DEF SafetyInv
<1>2. CASE \E s \in Sessions : Acts(s)
  BY <1>1, <1>2, StepNoHelperYet, StepOwnHelper, StepOthersExist, StepFoundMatches,
     StepReturnedMatches, StepTargetsBorn, StepOrphanStays, StepNothingLeftBehind,
     StepNetsUsable
  DEF SafetyInv
<1>3. CASE UNCHANGED sessionVars /\ (Interference \/ \E g \in Sessions : DaemonStep(g))
  BY <1>3, EnvironmentInv
<1>4. CASE UNCHANGED vars
  <2>1. UNCHANGED sessionVars /\ UNCHANGED <<targets, status, cfg>>
    BY <1>4 DEF vars, daemonVars, sessionVars
  <2>2. \A h \in Sessions : Persists(h)
    BY <2>1 DEF Persists, Removed
  <2>3. \A t \in Targets : Lasts(t)
    BY <2>1 DEF Lasts, Born
  <2> QED
    BY <1>1, <2>1, <2>2, <2>3, OthersKeepInv
<1> QED
  BY <1>2, <1>3, <1>4 DEF Next, Acts

(* The inductive invariant of forwards holds in every reachable state. *)
THEOREM SafetyInvariant == Spec => []SafetyInv
  BY InitInv, NextInv, PTL DEF Spec

(* Whatever path a forward leaves on, however it is cancelled and whatever  *)
(* the other forwards and the daemon do, it leaves no helper of its own     *)
(* behind unless the creating or removing call itself failed.               *)
THEOREM NothingIsLeftBehind == Spec => []NothingLeftBehind
<1>1. SafetyInv => NothingLeftBehind
  BY DEF SafetyInv
<1> QED
  BY <1>1, SafetyInvariant, PTL

(* What the "ports" label says of a helper is what it was created with. *)
LEMMA DecodedPair ==
  ASSUME NEW ps, NEW p \in DecodePortPairs(EncodePortPairs(ps))
  PROVE  \E i \in DOMAIN ps :
           /\ p.local = ps[i].local /\ p.remote = ps[i].remote
           /\ p.proto = NormalizeProtocol(ps[i].proto)
<1> DEFINE proto(i) == NormalizeProtocol(ps[i].proto)
           suffix(i) == IF proto(i) = "tcp" THEN "" ELSE proto(i)
<1>1. EncodePortPairs(ps) =
        [i \in DOMAIN ps |-> [local |-> ps[i].local, remote |-> ps[i].remote, suffix |-> suffix(i)]]
  BY DEF EncodePortPairs
<1>2. PICK i \in DOMAIN ps :
        p = [address |-> "", local |-> ps[i].local, remote |-> ps[i].remote,
             proto |-> IF suffix(i) = "" THEN "tcp" ELSE suffix(i)]
  <2> DEFINE label == EncodePortPairs(ps)
  <2>1. PICK i \in DOMAIN label :
          p = [address |-> "", local |-> label[i].local, remote |-> label[i].remote,
               proto |-> IF label[i].suffix = "" THEN "tcp" ELSE label[i].suffix]
    BY DEF DecodePortPairs
  <2> HIDE DEF suffix
  <2>2. /\ i \in DOMAIN ps
        /\ label[i] = [local |-> ps[i].local, remote |-> ps[i].remote, suffix |-> suffix(i)]
    BY <1>1, <2>1
  <2> HIDE DEF label
  <2>3. label[i].local = ps[i].local /\ label[i].remote = ps[i].remote /\ label[i].suffix = suffix(i)
    BY <2>2
  <2> QED
    BY <2>1, <2>2, <2>3
<1>3. (IF suffix(i) = "" THEN "tcp" ELSE suffix(i)) = proto(i)
  BY DEF NormalizeProtocol
<1>4. p.local = ps[i].local /\ p.remote = ps[i].remote /\ p.proto = proto(i)
  <2> HIDE DEF suffix
  <2> QED
    BY <1>2, <1>3
<1> QED
  BY <1>4

(* A helper that is returned as existing fits the request it is returned    *)
(* for, in every state after the forward that reused it has ended.          *)
THEOREM ReuseIsHonoured == Spec => []ReuseHonoursRequest
<1>1. ASSUME SafetyInv PROVE ReuseHonoursRequest
  <2> SUFFICES ASSUME NEW s \in Sessions, pc[s] = "done", helper[s] # s
               PROVE  LET h == helper[s]
                      IN  /\ cfg[h].target = req[s].target
                          /\ cfg[h].range = req[s].range
                          /\ req[s].network \in {"", cfg[h].network}
                          /\ \E i \in DOMAIN cfg[h].pairs, j \in DOMAIN pairs[s] :
                               /\ cfg[h].pairs[i].local = pairs[s][j].local
                               /\ cfg[h].pairs[i].remote = pairs[s][j].remote
                               /\ NormalizeProtocol(cfg[h].pairs[i].proto)
                                    = NormalizeProtocol(pairs[s][j].proto)
    BY DEF ReuseHonoursRequest
  <2>1. Overlaps(s, helper[s]) /\ ~RangeChanged(s, helper[s]) /\ ~NetworkChanged(s, helper[s])
    BY <1>1 DEF SafetyInv, ReturnedMatches
  <2>2. PICK p \in WantedPairs(pairs[s]) : p \in Recorded(helper[s])
    BY <2>1 DEF Overlaps
  <2>3. PICK j \in DOMAIN pairs[s] :
          /\ p.local = pairs[s][j].local /\ p.remote = pairs[s][j].remote
          /\ p.proto = NormalizeProtocol(pairs[s][j].proto)
    <3>1. PICK j \in DOMAIN pairs[s] :
            p = [address |-> "", local |-> pairs[s][j].local, remote |-> pairs[s][j].remote,
                 proto |-> NormalizeProtocol(pairs[s][j].proto)]
      BY <2>2 DEF WantedPairs
    <3> QED
      BY <3>1
  <2>4. PICK i \in DOMAIN cfg[helper[s]].pairs :
          /\ p.local = cfg[helper[s]].pairs[i].local
          /\ p.remote = cfg[helper[s]].pairs[i].remote
          /\ p.proto = NormalizeProtocol(cfg[helper[s]].pairs[i].proto)
    BY <2>2, DecodedPair DEF Recorded
  <2> QED
    BY <2>1, <2>3, <2>4 DEF Overlaps, RangeChanged, NetworkChanged
<1> QED
  BY <1>1, SafetyInvariant, PTL

(* A forward removes its own helper, helpers of its own target, and helpers *)
(* whose target is gone at the moment of the removal; never another one.    *)
THEOREM RemovalsAreAllowed == Spec => ForwardRemovesOnly
<1> DEFINE Allowable(s, h) == \/ h = s
                              \/ cfg[h].target = req[s].target
                              \/ ~Exists(targets[cfg[h].target])
<1>1. ASSUME SafetyInv, NEW s \in Sessions, NEW h \in Sessions,
             Step(s), status[h] \in Alive, status'[h] \notin Alive
      PROVE  Allowable(s, h)
  <2>1. CASE CreateHelper(s)
    <3>1. status' = status \/ status' = [status EXCEPT ![s] = "created"]
      BY <2>1 DEF CreateHelper, Created
    <3> QED
      BY <1>1, <3>1, StatusType, StatusValues DEF SafetyInv, TypeInv
  <2>2. CASE ReplaceHelper(s) \/ RemoveOrphan(s)
    <3>1. status' = status \/ ContainerRemove(helper[s])
      BY <2>2 DEF ReplaceHelper, RemoveOrphan, RemoveHelper
    <3>2. h = helper[s]
      BY <1>1, <3>1, ContainerRemoveType DEF SafetyInv, TypeInv
    <3>3. ReplaceHelper(s) => cfg[h].target = req[s].target
      BY <1>1, <3>2, Transitions DEF SafetyInv, FoundMatches, Overlaps
    <3>4. RemoveOrphan(s) => ~Exists(targets[cfg[h].target])
      BY <1>1, <3>2, Transitions DEF SafetyInv, OrphanStays
    <3> QED
      BY <2>2, <3>3, <3>4
  <2>3. CASE ~CreateHelper(s) /\ ~ReplaceHelper(s) /\ ~RemoveOrphan(s)
    <3>1. \/ status' = status \/ \E st : status' = [status EXCEPT ![s] = st]
      BY <1>1, <2>3 DEF Step, ContainerRemove, InspectTarget, findOverlappingHelper, CheckOverlapping,
         ListOrphans, InspectOrphan, Preflight, waitForHostPorts, ensureHelperImage, ImageEnsured,
         StartHelper, Started, StartRefused, StartFailed, waitForRunning, AbortHelper,
         StopAttached, RemoveAttached, daemonVars
    <3>2. h # s => status'[h] = status[h]
      BY <1>1, <3>1, ContainerRemoveType DEF SafetyInv, TypeInv, TypeOK, DaemonTypeOK
    <3> QED
      BY <1>1, <3>2
  <2> QED
    BY <2>1, <2>2, <2>3
<1> DEFINE Removes == \A s, h \in Sessions :
             Step(s) /\ status[h] \in Alive /\ status'[h] \notin Alive => Allowable(s, h)
<1>2. SafetyInv => Removes
  BY <1>1
<1>3. ForwardRemovesOnly <=> [][Removes]_vars
  BY DEF ForwardRemovesOnly
<1> HIDE DEF Removes
<1> QED
  BY <1>2, <1>3, SafetyInvariant, PTL

-----------------------------------------------------------------------------
(* Routes: CheckHelper calls no helper stale that reaches its target. *)

(* A helper that is stale does not end at the container it was made for. *)
LEMMA StaleCannotReach ==
  ASSUME NEW infos \in [Targets -> TargetInfo], NEW label, label.network \notin Internal,
         NEW t \in Targets, label.target = t, CheckHelper(label, infos)
  PROVE  t \notin Dials(label, infos)
<1> SUFFICES ASSUME HasAddress(infos[t], label.network),
                    targetAddress(infos[t], label.network) = label.address
             PROVE  FALSE
  BY DEF Dials
<1>1. Exists(infos[t]) /\ Running(infos[t]) /\ attachedTo(infos[t], label.network)
  BY DEF HasAddress, Exists, Running
<1>2. infos[t].name \in TargetNames /\ infos[t].ip \in IPs \cup {""}
  BY DEF TargetInfo
<1>3. label.address # ""
  BY DEF CheckHelper
<1>4. CASE label.network = "bridge"
  <2>1. label.address = infos[t].ip /\ label.address \in IPs
    BY <1>2, <1>3, <1>4 DEF targetAddress
  <2> QED
    BY <1>1, <2>1 DEF CheckHelper, StaleByIP
<1>5. CASE label.network # "bridge"
  <2>1. label.address = infos[t].name /\ label.address \notin IPs
    BY <1>2, <1>5, TargetsAssumption DEF targetAddress
  <2>2. DOMAIN infos = Targets
    OBVIOUS
  <2> QED
    BY <1>1, <2>1, <2>2 DEF CheckHelper, StaleByName
<1> QED
  BY <1>4, <1>5

(* The same of a helper as it is recorded. *)
LEMMA StaleHelperCannotReach ==
  ASSUME SafetyInv, NEW h \in Sessions, CheckHelper(Labels(h), targets)
  PROVE  cfg[h].target \notin Dials(Labels(h), targets)
<1>1. targets \in [Targets -> TargetInfo] /\ cfg[h].target \in Targets
  BY DEF SafetyInv, TypeInv, TypeOK, DaemonTypeOK, HelperConfig
<1>2. Labels(h).network \notin Internal /\ Labels(h).target = cfg[h].target
  BY DEF SafetyInv, NetsUsable, Labels
<1> QED
  BY <1>1, <1>2, StaleCannotReach

(* A forward replaces a helper as stale only when its connections cannot end *)
(* at the target it was made for.                                            *)
THEOREM ReplacedAreStale == Spec => StaleIsSound
<1> DEFINE Sound == \A s \in Sessions :
             /\ pc[s] = "check" /\ pc'[s] = "replace"
             /\ ~RangeChanged(s, helper[s]) /\ ~NetworkChanged(s, helper[s])
             => cfg[helper[s]].target \notin Dials(Labels(helper[s]), targets)
<1>1. ASSUME SafetyInv, [Next]_vars PROVE Sound
  <2> SUFFICES ASSUME NEW s \in Sessions, pc[s] = "check", pc'[s] = "replace",
                      ~RangeChanged(s, helper[s]), ~NetworkChanged(s, helper[s])
               PROVE  cfg[helper[s]].target \notin Dials(Labels(helper[s]), targets)
    OBVIOUS
  <2>1. helper[s] \in Sessions
    BY <1>1 DEF SafetyInv, TypeInv, HelperAtHand
  <2>2. pc'[s] # pc[s]
    OBVIOUS
  <2>3. \E u \in Sessions : Acts(u)
    BY <1>1, <2>2 DEF Next, Acts, vars, sessionVars
  <2>7. TypeInv
    BY <1>1 DEF SafetyInv
  <2>4. Acts(s)
    BY <2>2, <2>3, <2>7, Locality
  <2>5. CheckOverlapping(s)
    <3>1. ~Begin(s) /\ ~Cancel(s) /\ ~Crash(s)
      BY <2>7, Transitions DEF Cancel, Crash, TypeInv, TypeOK
    <3> QED
      BY <2>4, <2>7, <3>1, Transitions DEF Acts, Step
  <2>6. CheckHelper(Labels(helper[s]), targets)
    <3>1. \/ CheckHelper(Labels(helper[s]), targets)
          \/ Goto(s, "done")
          \/ Fail(s, "other")
      BY <2>5 DEF CheckOverlapping
    <3>2. ~Goto(s, "done") /\ ~Fail(s, "other")
      BY <2>7 DEF Goto, Fail, TypeInv, TypeOK
    <3> QED
      BY <3>1, <3>2
  <2> QED
    BY <1>1, <2>1, <2>6, StaleHelperCannotReach
<1>2. StaleIsSound <=> [][Sound]_vars
  BY DEF StaleIsSound
<1> HIDE DEF Sound
<1> QED
  BY <1>1, <1>2, SafetyInvariant, PTL DEF Spec
=============================================================================
