--------------------------- MODULE ForwardCustody ---------------------------
(***************************************************************************)
(* Forwards implement Custody: under the refinement mapping of             *)
(* ForwardProperties every step of the program and of everything beside it *)
(* is a step of the abstract call that keeps its helper, or a stutter.     *)
(***************************************************************************)
EXTENDS ForwardSafety

(* From its creation on, the helper of a forward under way was made. *)
HelperMade == \A s \in Sessions : pc[s] \in AfterCreate => status[s] # "none"

CustodyInv == SafetyInv /\ HelperMade

(* What Custody asks of one owner, in terms of the forward. *)
Keeps(s) ==
  /\ Helpers!CallStep(s) /\ Helpers!BoxStep(s) /\ Helpers!ExcuseStep(s) /\ Helpers!Settles(s)

(* The environment and the daemon keep every helper what it was. *)
LEMMA EnvironmentPersists ==
  ASSUME TypeInv, NEW h \in Sessions,
         \/ UNCHANGED sessionVars /\ (Interference \/ \E g \in Sessions : DaemonStep(g))
         \/ UNCHANGED vars
  PROVE  Persists(h) /\ UNCHANGED <<pc, req, helper, leaked>>
<1>1. UNCHANGED <<pc, req, helper, leaked>>
  BY DEF vars, sessionVars
<1>2. CASE HelperStep \/ \E g \in Sessions : DaemonStep(g)
  BY <1>1, <1>2, HelperStepPersists DEF HelperStep
<1>3. CASE TargetStep \/ HostStep \/ UNCHANGED vars
  <2>1. UNCHANGED <<status, cfg>>
    BY <1>3 DEF TargetStep, CreateTarget, StopTarget, StartTarget, RemoveTarget, RenameTarget,
       ChangeNetworks, SetTarget, HostStep, ForeignBind, ForeignClose, ImageRemoved,
       ImagePulled, vars, daemonVars
  <2> QED
    BY <1>1, <2>1 DEF Persists, Removed
<1> QED
  BY <1>2, <1>3 DEF Interference

(* HelperMade is inductive beside SafetyInv. *)
LEMMA NextHelperMade == ASSUME CustodyInv, [Next]_vars PROVE HelperMade'
<1> USE DEF CustodyInv
<1> SUFFICES ASSUME NEW u \in Sessions, pc'[u] \in AfterCreate PROVE status'[u] # "none"
  BY DEF HelperMade
<1>1. ASSUME NEW s \in Sessions, Acts(s) PROVE status'[u] # "none"
  <2>1. CASE u = s /\ CreateHelper(s)
    <3>1. pc'[s] # "failed"
      BY <2>1 DEF AfterCreate
    <3>2. status' = [status EXCEPT ![s] = "created"]
      BY <2>1, <3>1, FailType DEF CreateHelper, Created, SafetyInv, TypeInv
    <3> QED
      BY <2>1, <3>2 DEF SafetyInv, TypeInv, TypeOK, DaemonTypeOK
  <2>2. CASE ~(u = s /\ CreateHelper(s))
    <3>1. pc[u] \in AfterCreate
      BY <1>1, <2>2, Arrivals, Locality DEF SafetyInv
    <3> QED
      BY <1>1, <3>1, KnownStays DEF HelperMade
  <2> QED
    BY <2>1, <2>2
<1>2. CASE \/ UNCHANGED sessionVars /\ (Interference \/ \E g \in Sessions : DaemonStep(g))
           \/ UNCHANGED vars
  BY <1>2, EnvironmentPersists DEF HelperMade, Persists, SafetyInv
<1> QED
  BY <1>1, <1>2 DEF Next, Acts

(* What a step does not touch is kept: the owner's call and excuse are the *)
(* same, and its helper can only go.                                       *)
LEMMA OthersKeep ==
  ASSUME NEW u \in Sessions, Persists(u), CustodyInv, CustodyInv',
         pc'[u] = pc[u], req'[u] = req[u], helper'[u] = helper[u], leaked'[u] = leaked[u]
  PROVE  Keeps(u)
<1>1. CallOf(u)' = CallOf(u)
  BY DEF CallOf
<1>2. \/ BoxOf(u)' = BoxOf(u)
      \/ BoxOf(u) = "held" /\ BoxOf(u)' = "gone"
  BY DEF BoxOf, Persists, Removed
<1> QED
  BY <1>1, <1>2 DEF Keeps, Helpers!CallStep, Helpers!BoxStep, Helpers!ExcuseStep, Helpers!Settles

(* The call of a forward that acts: it works, and then ends. *)
LEMMA ActingCall ==
  ASSUME CustodyInv, NEW s \in Sessions, Acts(s)
  PROVE  /\ pc[s] \notin Ended
         /\ \/ CallOf(s)' = CallOf(s)
            \/ CallOf(s) = "waiting" /\ CallOf(s)' \in {"working", "returned", "dead"}
            \/ CallOf(s) = "working" /\ CallOf(s)' \in {"returned", "handedOver", "dead"}
<1>1. TypeInv
  BY DEF CustodyInv, SafetyInv
<1>2. pc[s] \notin Ended
  BY <1>1, Transitions DEF Acts, Step, Cancel, Crash, Ended
<1>3. /\ Cancel(s) => pc'[s] = pc[s]
      /\ Crash(s) => pc'[s] = "crashed"
  BY <1>1 DEF Cancel, Crash, TypeInv, TypeOK
<1>4. \/ pc'[s] = pc[s]
      \/ pc[s] = "idle" /\ pc'[s] \in {"inspect", "failed", "crashed"}
      \/ pc[s] # "idle" /\ pc'[s] # "idle"
  BY <1>1, <1>3, Transitions DEF Acts, Step
<1> QED
  BY <1>2, <1>4 DEF CallOf, Ended

(* Its helper is made while it works, and is only taken away after that. *)
LEMMA ActingBox ==
  ASSUME CustodyInv, NEW s \in Sessions, Acts(s)
  PROVE  \/ BoxOf(s)' = BoxOf(s)
         \/ BoxOf(s) = "none" /\ BoxOf(s)' = "held" /\ CallOf(s) = "working"
         \/ BoxOf(s) = "held" /\ BoxOf(s)' = "gone"
<1>1. CASE CreateHelper(s)
  <2>1. pc[s] = "create" /\ status[s] = "none"
    BY <1>1 DEF CreateHelper, CustodyInv, SafetyInv, NoHelperYet, BeforeCreate
  <2>2. status' = status \/ status' = [status EXCEPT ![s] = "created"]
    BY <1>1 DEF CreateHelper, Created
  <2>3. status'[s] \in {"none", "created"}
    BY <2>1, <2>2 DEF CustodyInv, SafetyInv, TypeInv, TypeOK, DaemonTypeOK
  <2> QED
    BY <2>1, <2>3 DEF BoxOf, CallOf, Removed
<1>2. CASE ~CreateHelper(s)
  <2>1. Persists(s)
    BY <1>2, SessionPersists DEF CustodyInv, SafetyInv
  <2> QED
    BY <2>1 DEF BoxOf, Persists, Removed
<1> QED
  BY <1>1, <1>2

(* A call about its own helper that fails is one it makes while it works. *)
LEMMA ActingExcuse ==
  ASSUME CustodyInv, NEW s \in Sessions, Acts(s)
  PROVE  leaked'[s] = leaked[s] \/ (leaked'[s] # "none" /\ CallOf(s) = "working")
<1>1. TypeOK
  BY DEF CustodyInv, SafetyInv, TypeInv
<1>2. CASE CreateHelper(s) \/ StartFailed(s) \/ AbortHelper(s) \/ RemoveAttached(s)
  <2>1. CallOf(s) = "working"
    BY <1>2 DEF CallOf, CreateHelper, StartFailed, AbortHelper, RemoveAttached
  <2>2. \/ leaked' = leaked
        \/ \E what \in {"create", "remove"} : leaked' = [leaked EXCEPT ![s] = what]
    BY <1>2 DEF CreateHelper, StartFailed, AbortHelper, RemoveAttached, Forgets
  <2> QED
    BY <1>1, <2>1, <2>2 DEF TypeOK
<1>3. CASE ~(CreateHelper(s) \/ StartFailed(s) \/ AbortHelper(s) \/ RemoveAttached(s))
  <2>1. leaked' = leaked
    BY <1>3 DEF Acts, Begin, BeginWith, Cancel, Crash, Step, InspectTarget,
       findOverlappingHelper, CheckOverlapping, ReplaceHelper, RemoveOrphan, RemoveHelper,
       ListOrphans, InspectOrphan, Preflight, waitForHostPorts, ensureHelperImage,
       StartHelper, waitForRunning, StopAttached
  <2> QED
    BY <2>1
<1> QED
  BY <1>2, <1>3

(* A call that returns has no helper left, or an excuse; one that hands its *)
(* helper over had it made.                                                 *)
LEMMA ActingSettles ==
  ASSUME CustodyInv, CustodyInv', NEW s \in Sessions, Acts(s), CallOf(s)' # CallOf(s)
  PROVE  /\ CallOf(s)' = "returned" => BoxOf(s)' # "held" \/ leaked'[s] # "none"
         /\ CallOf(s)' = "handedOver" => BoxOf(s)' # "none"
<1> USE DEF CustodyInv
<1>1. pc[s] \notin Ended
  BY ActingCall
<1>2. ASSUME pc'[s] = "done"
      PROVE  \/ CheckOverlapping(s) /\ helper'[s] # s /\ status'[s] = "none"
             \/ helper'[s] = s /\ status'[s] # "none"
  <2>1. pc'[s] # pc[s]
    BY <1>1, <1>2 DEF Ended
  <2>2. CASE CheckOverlapping(s)
    <3>1. UNCHANGED <<helper, status>> /\ pc[s] = "check"
      BY <2>2, Picked DEF CheckOverlapping
    <3>2. status[s] = "none" /\ status[helper[s]] # "none"
      BY <3>1 DEF SafetyInv, NoHelperYet, OthersExist, BeforeCreate
    <3> QED
      BY <2>2, <3>1, <3>2
  <2>3. CASE waitForRunning(s) \/ RemoveAttached(s)
    <3>1. pc[s] \in AfterCreate
      BY <2>3 DEF waitForRunning, RemoveAttached, AfterCreate
    <3>2. helper' = helper
      BY <2>3 DEF waitForRunning, RemoveAttached
    <3> QED
      BY <3>1, <3>2, KnownStays DEF SafetyInv, OwnHelper, HelperMade
  <2> QED
    BY <1>2, <2>1, <2>2, <2>3, Arrivals DEF SafetyInv
<1>3. ASSUME CallOf(s)' = "returned" PROVE BoxOf(s)' # "held" \/ leaked'[s] # "none"
  <2>1. \/ pc'[s] = "failed"
        \/ pc'[s] = "done" /\ ~(helper'[s] = s /\ req'[s].detach)
    BY <1>3 DEF CallOf
  <2>2. CASE pc'[s] = "done" /\ helper'[s] # s
    BY <1>2, <2>2 DEF BoxOf
  <2>3. CASE \/ pc'[s] = "failed"
             \/ pc'[s] = "done" /\ helper'[s] = s /\ ~req'[s].detach
    <3>1. leaked'[s] = "none" => Removed(s)'
      BY <2>3 DEF SafetyInv, NothingLeftBehind
    <3> QED
      BY <3>1 DEF BoxOf
  <2> QED
    BY <2>1, <2>2, <2>3
<1>4. ASSUME CallOf(s)' = "handedOver" PROVE BoxOf(s)' # "none"
  <2>1. pc'[s] = "done" /\ helper'[s] = s
    BY <1>4 DEF CallOf
  <2> QED
    BY <1>2, <2>1 DEF BoxOf
<1> QED
  BY <1>3, <1>4

(* A forward that acts keeps its own helper in custody. *)
LEMMA ActingKeeps ==
  ASSUME CustodyInv, CustodyInv', NEW s \in Sessions, Acts(s) PROVE Keeps(s)
<1>1. Helpers!CallStep(s)
  BY ActingCall DEF Helpers!CallStep
<1>2. Helpers!BoxStep(s)
  BY ActingBox DEF Helpers!BoxStep
<1>3. Helpers!ExcuseStep(s)
  BY ActingExcuse DEF Helpers!ExcuseStep
<1>4. Helpers!Settles(s)
  BY ActingSettles DEF Helpers!Settles
<1> QED
  BY <1>1, <1>2, <1>3, <1>4 DEF Keeps

(* Every step of the program is one of Custody. *)
LEMMA StepsAreCustody ==
  ASSUME CustodyInv, CustodyInv', [Next]_vars PROVE Helpers!Next
<1>1. ASSUME NEW u \in Sessions PROVE Keeps(u)
  <2>1. ASSUME NEW s \in Sessions, Acts(s) PROVE Keeps(u)
    <3>1. CASE u = s
      BY <2>1, <3>1, ActingKeeps
    <3>2. CASE u # s
      <4>1. /\ pc'[u] = pc[u] /\ req'[u] = req[u] /\ helper'[u] = helper[u]
            /\ leaked'[u] = leaked[u]
        BY <2>1, <3>2, Locality DEF CustodyInv, SafetyInv
      <4>2. Persists(u)
        BY <2>1, <3>2, SessionPersists DEF CustodyInv, SafetyInv
      <4> QED
        BY <4>1, <4>2, OthersKeep
    <3> QED
      BY <3>1, <3>2
  <2>2. CASE \/ UNCHANGED sessionVars /\ (Interference \/ \E g \in Sessions : DaemonStep(g))
             \/ UNCHANGED vars
    <3>1. Persists(u) /\ UNCHANGED <<pc, req, helper, leaked>>
      BY <2>2, EnvironmentPersists DEF CustodyInv, SafetyInv
    <3> QED
      BY <3>1, OthersKeep
  <2> QED
    BY <2>1, <2>2 DEF Next, Acts
<1>2. \A s \in Sessions :
        /\ CallOf(s)' \in Helpers!Calls /\ BoxOf(s)' \in Helpers!Boxes
  BY DEF CallOf, BoxOf, Helpers!Calls, Helpers!Boxes
<1> QED
  BY <1>1, <1>2 DEF Keeps, Helpers!Next

(* Whatever errors, cancellations, crashes and interference come between,   *)
(* a forward implements the call that keeps its helper: by the time it has  *)
(* returned the helper is gone, handed over, or the daemon failed the call. *)
THEOREM HelpersAreKept == Spec => HelpersInCustody
<1>1. Init => CustodyInv
  BY InitInv DEF CustodyInv, HelperMade, Init, AfterCreate
<1>2. CustodyInv /\ [Next]_vars => CustodyInv'
  BY NextInv, NextHelperMade DEF CustodyInv
<1>3. Init => Helpers!Init
  <2> SUFFICES ASSUME Init PROVE Helpers!Init
    OBVIOUS
  <2>1. \A s \in Sessions : CallOf(s) = "waiting" /\ BoxOf(s) = "none" /\ leaked[s] = "none"
    BY DEF Init, CallOf, BoxOf
  <2> QED
    BY <2>1 DEF Helpers!Init
<1>4. CustodyInv /\ CustodyInv' /\ [Next]_vars => [Helpers!Next]_(Helpers!custodyVars)
  BY StepsAreCustody
<1> QED
  BY <1>1, <1>2, <1>3, <1>4, PTL DEF Spec, HelpersInCustody, Helpers!Spec
=============================================================================
