---------------------------- MODULE StartForward ----------------------------
(***************************************************************************)
(* StartForward (internal/forward.go) as every concurrent forward runs it: *)
(* each call to the daemon is one step, and other forwards, the daemon and *)
(* the rest of the host act between any two of them.                       *)
(*                                                                         *)
(* pc[s] is where forward s is: the call it makes next, or how it ended.   *)
(***************************************************************************)
EXTENDS Docker

CONSTANTS
  Requests,   \* the inputs forwards may be given
  AutoPorts,  \* ports the OS assigns automatically
  None        \* no helper

VARIABLES
  pc,
  req,        \* the forward's input
  pairs,      \* its pairs, automatic ports resolved
  via,        \* the network picked for the helper and what it will dial
  helper,     \* the helper found, being removed, or returned
  todo,       \* listed helpers removeOrphanedHelpers has yet to look at
  removed,    \* helpers this forward counts as removed
  cancelled,  \* its context is cancelled
  err,        \* the error returned: "none", "port" for a port conflict, "other"
  leaked      \* ghost: a call about its own helper failed and may have left it

sessionVars == <<pc, req, pairs, via, helper, todo, removed, cancelled, err, leaked>>
vars == <<daemonVars, sessionVars>>

Ended   == {"done", "failed", "crashed"}
PCs     == {"idle", "inspect", "find", "check", "replace", "listOrphans",
            "orphans", "removeOrphan", "waitPorts", "image", "create", "start",
            "startFailed", "waitRunning", "abort", "attached", "removing"} \cup Ended

RequestType ==
  [target : Targets, pairs : Seq(Pairs), addresses : Seq(Addresses),
   name : HelperNames, detach : BOOLEAN, restart : RestartPolicies,
   range : Ranges, network : STRING, skip : BOOLEAN,
   pull : {"missing", "always", "never"}]

(* A pair with its automatic port, if it asks for one, and its protocol. *)
Resolved(p, port) ==
  [address |-> p.address, local |-> IF p.local = 0 THEN port ELSE p.local,
   remote |-> p.remote, proto |-> NormalizeProtocol(p.proto)]

ASSUME RequestsAssumption ==
  /\ Requests \subseteq RequestType /\ Requests # {}
  /\ None \notin Sessions
  /\ \A p \in Pairs, port \in AutoPorts : Resolved(p, port) \in Pairs

AnyRequest == CHOOSE r \in Requests : TRUE

NoConfig ==
  [target |-> AnyRequest.target, network |-> "", address |-> "", pairs |-> <<>>,
   addresses |-> <<>>, name |-> AnyRequest.name, detach |-> FALSE,
   restart |-> "no", range |-> AnyRequest.range]

(***************************************************************************)
(* Calls.  Under a cancelled context a call fails without reaching the     *)
(* daemon.  One that is under way when the context is cancelled may take   *)
(* effect and fail all the same: Interrupted.                              *)
(***************************************************************************)
Answers(s) == ~cancelled[s]
Fails(s)   == cancelled[s] \/ "fault" \in Allowed
Interrupted(s) ==
  /\ "cancel" \in Allowed /\ ~cancelled[s]
  /\ cancelled' = [cancelled EXCEPT ![s] = TRUE]

(* ContainerRemove with Force. *)
ContainerRemove(h) == status' = [status EXCEPT ![h] = IF @ \in Alive THEN "gone" ELSE @]

Goto(s, to) == pc' = [pc EXCEPT ![s] = to]

Fail(s, why) == Goto(s, "failed") /\ err' = [err EXCEPT ![s] = why]

Forgets(s, what) == leaked' = [leaked EXCEPT ![s] = what]

-----------------------------------------------------------------------------
(* Sockets as this process sees them when it binds them for a moment. *)

Listening(b) == [b EXCEPT !.address = listenHost(@)]

Taken(bs) == LET ls == {Listening(b) : b \in bs} IN
  \/ HelpersBlocking(ls, None) # {}
  \/ ForeignBlocking(ls) # {}
  \/ \E b \in bs : b.port \in Privileged

(* Where the host has no IPv6, preflight skips its addresses. *)
preflightHostPorts(s) ==
  ~Taken({b \in Bindings(pairs[s], req[s].addresses) : b.address \in IPv6 => HostIPv6})

(* A pair's automatic port is free on the pair's first address. *)
AutoPortFree(p, addrs, port) ==
  LET a == Head(PairAddresses(p, addrs))
  IN  /\ a \in IPv6 => HostIPv6
      /\ ~Taken({[address |-> a, port |-> port, proto |-> NormalizeProtocol(p.proto)]})

resolveAutoPorts(ps, assigned) ==
  [i \in DOMAIN ps |-> Resolved(ps[i], assigned[i])]

(* Two ports bound and released one after the other may be the same one. *)
Assignments(r) ==
  { f \in [DOMAIN r.pairs -> AutoPorts] :
      \A i \in DOMAIN r.pairs :
        r.pairs[i].local = 0 => AutoPortFree(r.pairs[i], r.addresses, f[i]) }

-----------------------------------------------------------------------------
Busy(s) == pc[s] \notin {"idle", "attached"} \cup Ended

(* "serial" runs make one forward at a time, while nothing else happens. *)
Quiet == "serial" \in Allowed => \A s \in Sessions : ~Busy(s)

(* StartForward is called with r: the input checks and resolveAutoPorts. *)
BeginWith(s, r) ==
  /\ pc[s] = "idle" /\ Quiet
  /\ expandAddresses(r.addresses) # <<>>
  /\ req' = [req EXCEPT ![s] = r]
  /\ \/ \E f \in Assignments(r) :
          /\ pairs' = [pairs EXCEPT ![s] = resolveAutoPorts(r.pairs, f)]
          /\ Goto(s, "inspect")
          /\ UNCHANGED err
     \/ /\ Assignments(r) = {}
        /\ Fail(s, "port")
        /\ UNCHANGED pairs
  /\ UNCHANGED <<daemonVars, via, helper, todo, removed, cancelled, leaked>>

Begin(s) == \E r \in Requests : BeginWith(s, r)

InspectTarget(s) ==
  /\ pc[s] = "inspect"
  /\ LET info   == targets[req[s].target]
         routes == pickTargetNetwork(info, req[s].network)
     IN  \/ \E route \in routes :
              /\ Answers(s) /\ Exists(info)
              /\ Goto(s, "find")
              /\ via' = [via EXCEPT ![s] = route]
              /\ UNCHANGED err
         \/ /\ Fails(s) \/ ~Exists(info) \/ routes = {}
            /\ Fail(s, "other")
            /\ UNCHANGED via
  /\ UNCHANGED <<daemonVars, req, pairs, helper, todo, removed, cancelled, leaked>>

(* Helpers ListHelpers returns that are running. *)
Listed == {h \in Sessions : status[h] = "running"}

Recorded(h) == DecodePortPairs(EncodePortPairs(cfg[h].pairs))

Overlaps(s, h) ==
  /\ cfg[h].target = req[s].target
  /\ Recorded(h) \cap WantedPairs(pairs[s]) # {}

findOverlappingHelper(s) ==
  /\ pc[s] = "find"
  /\ LET found == {h \in Listed : Overlaps(s, h)}
     IN  \/ \E h \in found :
              /\ Answers(s)
              /\ Goto(s, "check")
              /\ helper' = [helper EXCEPT ![s] = h]
              /\ UNCHANGED err
         \/ /\ Answers(s) /\ found = {}
            /\ Goto(s, "listOrphans")
            /\ UNCHANGED <<helper, err>>
         \/ /\ Fails(s)
            /\ Fail(s, "other")
            /\ UNCHANGED helper
  /\ UNCHANGED <<daemonVars, req, pairs, via, todo, removed, cancelled, leaked>>

(* Mutant of RangeChanged: the source range is not compared. *)
IgnoresRange(s, h) == FALSE

RangeChanged(s, h)   == cfg[h].range # req[s].range
NetworkChanged(s, h) == req[s].network # "" /\ cfg[h].network # req[s].network

(* The helper found is returned unless it is stale or differs in what *)
(* reuse may not ignore.                                              *)
CheckOverlapping(s) ==
  /\ pc[s] = "check"
  /\ LET h == helper[s]
         replace == \/ CheckHelper(Labels(h), targets)
                    \/ RangeChanged(s, h)
                    \/ NetworkChanged(s, h)
     IN  \/ /\ Answers(s)
            /\ Goto(s, IF replace THEN "replace" ELSE "done")
            /\ UNCHANGED err
         \/ Fails(s) /\ Fail(s, "other")
  /\ UNCHANGED <<daemonVars, req, pairs, via, helper, todo, removed, cancelled, leaked>>

(* RemoveHelpers of the helper at hand: one already gone, or being removed, *)
(* counts as removed too.                                                  *)
RemoveHelper(s, from, next) ==
  /\ pc[s] = from
  /\ \/ /\ Answers(s)
        /\ ContainerRemove(helper[s])
        /\ removed' = [removed EXCEPT ![s] = @ \cup {helper[s]}]
        /\ Goto(s, next)
        /\ UNCHANGED <<err, cancelled>>
     \/ /\ Fails(s)
        /\ Fail(s, "other")
        /\ UNCHANGED <<status, removed, cancelled>>
     \/ /\ Interrupted(s)
        /\ ContainerRemove(helper[s])
        /\ Fail(s, "other")
        /\ UNCHANGED removed
  /\ UNCHANGED <<targets, cfg, holding, foreign, image, req, pairs, via, helper, todo, leaked>>

(* Mutant of ReplaceHelper: the helper is stopped, and keeps its name. *)
ReplaceStops(s) ==
  /\ pc[s] = "replace" /\ Answers(s)
  /\ status' = [status EXCEPT ![helper[s]] = IF @ \in Alive THEN "exited" ELSE @]
  /\ removed' = [removed EXCEPT ![s] = @ \cup {helper[s]}]
  /\ Goto(s, "find")
  /\ UNCHANGED <<targets, cfg, holding, foreign, image, req, pairs, via, helper,
                 todo, cancelled, err, leaked>>

ReplaceHelper(s) == RemoveHelper(s, "replace", "find")

-----------------------------------------------------------------------------
(* removeOrphanedHelpers. *)

ListOrphans(s) ==
  /\ pc[s] = "listOrphans"
  /\ \/ /\ Answers(s)
        /\ Goto(s, "orphans")
        /\ todo' = [todo EXCEPT ![s] =
             {h \in Listed : /\ cfg[h].target # req[s].target
                             /\ HostPorts(Recorded(h)) \cap HostPorts(WantedPairs(pairs[s])) # {}}]
        /\ UNCHANGED err
     \/ /\ Fails(s)
        /\ Fail(s, "other")
        /\ UNCHANGED todo
  /\ UNCHANGED <<daemonVars, req, pairs, via, helper, removed, cancelled, leaked>>

(* Mutant of Orphaned: a stopped target counts as gone. *)
OrphanedIfStopped(h) == ~Running(targets[cfg[h].target])

(* Only a target reported as not found makes its helper an orphan. *)
Orphaned(h) == ~Exists(targets[cfg[h].target])

InspectOrphan(s) ==
  /\ pc[s] = "orphans"
  /\ \E h \in todo[s] :
       /\ todo' = [todo EXCEPT ![s] = @ \ {h}]
       /\ \/ /\ Answers(s) /\ Orphaned(h)
             /\ Goto(s, "removeOrphan")
             /\ helper' = [helper EXCEPT ![s] = h]
          \/ /\ Fails(s) \/ ~Orphaned(h)
             /\ Goto(s, "orphans")
             /\ UNCHANGED helper
  /\ UNCHANGED <<daemonVars, req, pairs, via, removed, cancelled, err, leaked>>

RemoveOrphan(s) == RemoveHelper(s, "removeOrphan", "orphans")

-----------------------------------------------------------------------------
(* Host ports and image. *)

(* A wait for ports ends at its deadline.  The daemon releases the ports of *)
(* a helper this forward removed before that, unless the run says "slow".   *)
DeadlinePassed(s, bs) ==
  \/ "slow" \in Allowed
  \/ HelpersBlocking(bs, s) \cap removed[s] = {}

Wanted(s) == {Listening(b) : b \in Bindings(pairs[s], req[s].addresses)}

Preflight(s) ==
  /\ pc[s] = "orphans" /\ todo[s] = {}
  /\ \/ /\ req[s].skip \/ preflightHostPorts(s)
        /\ Goto(s, "image")
        /\ UNCHANGED err
     \/ /\ ~req[s].skip /\ ~preflightHostPorts(s)
        /\ \/ removed[s] = {} /\ Fail(s, "port")
           \/ removed[s] # {} /\ Goto(s, "waitPorts") /\ UNCHANGED err
  /\ UNCHANGED <<daemonVars, req, pairs, via, helper, todo, removed, cancelled, leaked>>

waitForHostPorts(s) ==
  /\ pc[s] = "waitPorts"
  /\ \/ preflightHostPorts(s) /\ Goto(s, "image") /\ UNCHANGED err
     \/ /\ ~preflightHostPorts(s)
        /\ \/ cancelled[s] /\ Fail(s, "other")
           \/ DeadlinePassed(s, Wanted(s)) /\ Fail(s, "port")
  /\ UNCHANGED <<daemonVars, req, pairs, via, helper, todo, removed, cancelled, leaked>>

(* The image is there, or is pulled, as the policy wants it. *)
ImageEnsured(pull) ==
  \/ image /\ pull # "always" /\ UNCHANGED image
  \/ pull # "never" /\ image' = TRUE

ensureHelperImage(s) ==
  /\ pc[s] = "image"
  /\ \/ /\ Answers(s) /\ ImageEnsured(req[s].pull)
        /\ Goto(s, "create")
        /\ UNCHANGED err
     \/ /\ Fails(s) \/ (req[s].pull = "never" /\ ~image)
        /\ Fail(s, "other")
        /\ UNCHANGED image
  /\ UNCHANGED <<targets, status, cfg, holding, foreign, req, pairs, via, helper,
                 todo, removed, cancelled, leaked>>

-----------------------------------------------------------------------------
(* The helper container. *)

buildHelperContainerConfig(s) ==
  [target |-> req[s].target, network |-> via[s].net, address |-> via[s].addr,
   pairs |-> pairs[s], addresses |-> req[s].addresses, name |-> req[s].name,
   detach |-> req[s].detach,
   restart |-> IF req[s].detach THEN req[s].restart ELSE "no",
   range |-> req[s].range]

NameTaken(s) ==
  /\ req[s].name # ""
  /\ \E h \in Sessions : status[h] \in Alive \cup {"removing"} /\ cfg[h].name = req[s].name

Created(s) ==
  /\ image /\ ~NameTaken(s)
  /\ status' = [status EXCEPT ![s] = "created"]
  /\ cfg' = [cfg EXCEPT ![s] = buildHelperContainerConfig(s)]

CreateHelper(s) ==
  /\ pc[s] = "create"
  /\ \/ /\ Answers(s) /\ Created(s)
        /\ Goto(s, "start")
        /\ helper' = [helper EXCEPT ![s] = s]
        /\ UNCHANGED <<cancelled, err, leaked>>
     \/ /\ Fails(s) \/ ~image \/ NameTaken(s)
        /\ Fail(s, "other")
        /\ UNCHANGED <<status, cfg, helper, cancelled, leaked>>
     \/ /\ Interrupted(s) /\ Created(s)
        /\ Fail(s, "other") /\ Forgets(s, "create")
        /\ UNCHANGED helper
  /\ UNCHANGED <<targets, holding, foreign, image, req, pairs, via, todo, removed>>

(* Mutant of retryStart. *)
NeverRetry(s) == FALSE

retryStart(s) == req[s].skip /\ removed[s] # {}

Blocked(s) ==
  \/ HelpersBlocking(Published(s), s) # {}
  \/ ForeignBlocking(Published(s)) # {}
  \/ SelfConflict(cfg[s].pairs, cfg[s].addresses)

Started(s) ==
  /\ status[s] = "created" /\ CanPublish(s)
  /\ status' = [status EXCEPT ![s] = "running"]
  /\ holding' = holding \cup {s}

(* The daemon may remove an auto-removed container whose start failed. *)
StartRefused(s) ==
  /\ \/ UNCHANGED status
     \/ ~cfg[s].detach /\ ContainerRemove(s)
  /\ UNCHANGED holding

(* startWithPortRetry: a conflict is tried again until the deadline. *)
StartHelper(s) ==
  /\ pc[s] = "start"
  /\ \/ /\ Answers(s) /\ Started(s)
        /\ Goto(s, "waitRunning")
        /\ UNCHANGED <<cancelled, err>>
     \/ /\ Answers(s) /\ status[s] = "created" /\ Blocked(s) /\ StartRefused(s)
        /\ \/ /\ retryStart(s)
              /\ Goto(s, "start")
              /\ UNCHANGED err
           \/ /\ ~retryStart(s) \/ DeadlinePassed(s, Published(s))
              /\ Goto(s, "startFailed")
              /\ err' = [err EXCEPT ![s] = "port"]
        /\ UNCHANGED cancelled
     \/ /\ \/ Fails(s)
           \/ status[s] # "created"
           \/ NeedsIPv6(Published(s)) /\ ~HostIPv6
        /\ Goto(s, "startFailed")
        /\ err' = [err EXCEPT ![s] = "other"]
        /\ UNCHANGED <<status, holding, cancelled>>
     \/ /\ Interrupted(s) /\ Started(s)
        /\ Goto(s, "startFailed")
        /\ err' = [err EXCEPT ![s] = "other"]
  /\ UNCHANGED <<targets, cfg, foreign, image, req, pairs, via, helper, todo, removed, leaked>>

(* Mutant of StartFailed: the helper that did not start is not removed. *)
KeepsUnstarted(s) ==
  /\ pc[s] = "startFailed"
  /\ Goto(s, "failed")
  /\ UNCHANGED <<daemonVars, req, pairs, via, helper, todo, removed, cancelled, err, leaked>>

(* The removal after a failed start uses the forward's own context, and *)
(* its error is dropped.                                                *)
StartFailed(s) ==
  /\ pc[s] = "startFailed"
  /\ Goto(s, "failed")
  /\ \/ /\ Answers(s) /\ ContainerRemove(s)
        /\ UNCHANGED <<cancelled, leaked>>
     \/ /\ Fails(s) /\ Forgets(s, "remove")
        /\ UNCHANGED <<status, cancelled>>
     \/ /\ Interrupted(s) /\ ContainerRemove(s)
        /\ UNCHANGED leaked
  /\ UNCHANGED <<targets, cfg, holding, foreign, image, req, pairs, via, helper,
                 todo, removed, err>>

(* Mutant of waitForRunning: neither an exit nor the deadline ends the wait. *)
WaitsForever(s) ==
  /\ pc[s] = "waitRunning"
  /\ status[s] \in {"running", "restarting"}
  /\ Goto(s, IF req[s].detach THEN "done" ELSE "attached")
  /\ UNCHANGED <<daemonVars, req, pairs, via, helper, todo, removed, cancelled, err, leaked>>

(* A restarting container counts as running. *)
waitForRunning(s) ==
  /\ pc[s] = "waitRunning"
  /\ \/ /\ Answers(s) /\ status[s] \in {"running", "restarting"}
        /\ Goto(s, IF req[s].detach THEN "done" ELSE "attached")
        /\ UNCHANGED err
     \/ /\ Fails(s) \/ status[s] \notin {"running", "restarting"}
        /\ Goto(s, "abort")
        /\ err' = [err EXCEPT ![s] = "other"]
  /\ UNCHANGED <<daemonVars, req, pairs, via, helper, todo, removed, cancelled, leaked>>

(* Mutant of AbortHelper: the helper that did not come up is not removed. *)
AbortKeepsHelper(s) ==
  /\ pc[s] = "abort"
  /\ Goto(s, "failed")
  /\ UNCHANGED <<daemonVars, req, pairs, via, helper, todo, removed, cancelled, err, leaked>>

(* This removal has a context of its own. *)
AbortHelper(s) ==
  /\ pc[s] = "abort"
  /\ Goto(s, "failed")
  /\ \/ ContainerRemove(s) /\ UNCHANGED leaked
     \/ "fault" \in Allowed /\ Forgets(s, "remove") /\ UNCHANGED status
  /\ UNCHANGED <<targets, cfg, holding, foreign, image, req, pairs, via, helper,
                 todo, removed, cancelled, err>>

(* Mutant of StopAttached: the forward returns without stopAndRemove. *)
ReturnsAtOnce(s) ==
  /\ pc[s] = "attached" /\ cancelled[s]
  /\ Goto(s, "done")
  /\ UNCHANGED <<daemonVars, req, pairs, via, helper, todo, removed, cancelled, err, leaked>>

(* stopAndRemove: a stopped helper is removed by the daemon. *)
StopAttached(s) ==
  /\ pc[s] = "attached" /\ cancelled[s]
  /\ Goto(s, "removing")
  /\ \/ status' = [status EXCEPT ![s] = IF @ = "running" THEN "removing" ELSE @]
     \/ "fault" \in Allowed /\ UNCHANGED status
  /\ UNCHANGED <<targets, cfg, holding, foreign, image, req, pairs, via, helper,
                 todo, removed, cancelled, err, leaked>>

RemoveAttached(s) ==
  /\ pc[s] = "removing"
  /\ Goto(s, "done")
  /\ \/ ContainerRemove(s) /\ UNCHANGED leaked
     \/ "fault" \in Allowed /\ Forgets(s, "remove") /\ UNCHANGED status
  /\ UNCHANGED <<targets, cfg, holding, foreign, image, req, pairs, via, helper,
                 todo, removed, cancelled, err>>

-----------------------------------------------------------------------------
(* Ctrl-C, SIGTERM or the caller's cancel, which may come before StartForward *)
(* is called.                                                                 *)
Cancel(s) ==
  /\ "cancel" \in Allowed
  /\ pc[s] \notin Ended
  /\ ~cancelled[s]
  /\ cancelled' = [cancelled EXCEPT ![s] = TRUE]
  /\ UNCHANGED <<daemonVars, pc, req, pairs, via, helper, todo, removed, err, leaked>>

(* The process is killed. *)
Crash(s) ==
  /\ "crash" \in Allowed
  /\ pc[s] \notin Ended
  /\ pc' = [pc EXCEPT ![s] = "crashed"]
  /\ UNCHANGED <<daemonVars, req, pairs, via, helper, todo, removed, cancelled, err, leaked>>

(* What a forward under way does next. *)
Step(s) ==
  \/ InspectTarget(s) \/ findOverlappingHelper(s) \/ CheckOverlapping(s)
  \/ ReplaceHelper(s) \/ ListOrphans(s) \/ InspectOrphan(s) \/ RemoveOrphan(s)
  \/ Preflight(s) \/ waitForHostPorts(s) \/ ensureHelperImage(s)
  \/ CreateHelper(s) \/ StartHelper(s) \/ StartFailed(s) \/ waitForRunning(s)
  \/ AbortHelper(s) \/ StopAttached(s) \/ RemoveAttached(s)

Init ==
  /\ targets \in TargetInits
  /\ status = [s \in Sessions |-> "none"]
  /\ cfg = [s \in Sessions |-> NoConfig]
  /\ holding = {}
  /\ foreign = {}
  /\ image \in BOOLEAN
  /\ pc = [s \in Sessions |-> "idle"]
  /\ req = [s \in Sessions |-> AnyRequest]
  /\ pairs = [s \in Sessions |-> <<>>]
  /\ via = [s \in Sessions |-> [net |-> "", addr |-> ""]]
  /\ helper = [s \in Sessions |-> None]
  /\ todo = [s \in Sessions |-> {}]
  /\ removed = [s \in Sessions |-> {}]
  /\ cancelled = [s \in Sessions |-> FALSE]
  /\ err = [s \in Sessions |-> "none"]
  /\ leaked = [s \in Sessions |-> "none"]

Next ==
  \/ \E s \in Sessions :
       \/ Begin(s) \/ Step(s) \/ Cancel(s) \/ Crash(s)
       \/ DaemonStep(s) /\ UNCHANGED sessionVars
  \/ Quiet /\ Interference /\ UNCHANGED sessionVars

Spec == Init /\ [][Next]_vars

(* A forward that can act does: its polls and deadlines are timers, and the *)
(* daemon finishes removals, restarts and port releases.  Nothing is asked  *)
(* of callers, other users or crashes.                                      *)
Fairness ==
  \A s \in Sessions :
    /\ WF_vars(Step(s))
    /\ WF_vars(DaemonStep(s) /\ UNCHANGED sessionVars)

FairSpec == Spec /\ Fairness
=============================================================================
