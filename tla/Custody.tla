------------------------------- MODULE Custody -------------------------------
(***************************************************************************)
(* What a call that makes a container promises, whoever makes it and       *)
(* however it ends.  Each owner makes one call, which makes at most one    *)
(* container.  By the time the call has returned the container is gone,    *)
(* unless it was handed over to the caller or the owner is excused; and    *)
(* what is gone, or was never made, stays so.                              *)
(*                                                                         *)
(* Helpers of forwards and probes of targets are kept this way.            *)
(***************************************************************************)

CONSTANT Owners

VARIABLES
  call,     \* [Owners -> where the owner's call is]
  box,      \* [Owners -> its container: not made, held by the daemon, or gone]
  excused   \* [Owners -> the daemon failed the very call that would tell]

custodyVars == <<call, box, excused>>

Calls == {"waiting", "working", "returned", "handedOver", "dead"}
Boxes == {"none", "held", "gone"}

(* A call works, and then returns or dies; one that is never begun may too. *)
CallStep(o) ==
  \/ call'[o] = call[o]
  \/ call[o] = "waiting" /\ call'[o] \in {"working", "returned", "dead"}
  \/ call[o] = "working" /\ call'[o] \in {"returned", "handedOver", "dead"}

(* Only a working call makes a container; anybody may take it away. *)
BoxStep(o) ==
  \/ box'[o] = box[o]
  \/ box[o] = "none" /\ box'[o] = "held" /\ call[o] = "working"
  \/ box[o] = "held" /\ box'[o] = "gone"

ExcuseStep(o) ==
  \/ excused'[o] = excused[o]
  \/ ~excused[o] /\ excused'[o] /\ call[o] = "working"

(* The promise. *)
Settles(o) ==
  call[o] # call'[o] =>
    /\ call'[o] = "returned" => box'[o] # "held" \/ excused'[o]
    /\ call'[o] = "handedOver" => box'[o] # "none"

Init ==
  /\ call = [o \in Owners |-> "waiting"]
  /\ box = [o \in Owners |-> "none"]
  /\ excused = [o \in Owners |-> FALSE]

Next ==
  /\ call' \in [Owners -> Calls]
  /\ box' \in [Owners -> Boxes]
  /\ excused' \in [Owners -> BOOLEAN]
  /\ \A o \in Owners : CallStep(o) /\ BoxStep(o) /\ ExcuseStep(o) /\ Settles(o)

Spec == Init /\ [][Next]_custodyVars
=============================================================================
