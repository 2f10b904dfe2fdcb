-------------------------- MODULE ForwardProperties --------------------------
(***************************************************************************)
(* What a team relies on when forwards run beside each other, beside       *)
(* target drift, cancellation and other users of the daemon.               *)
(***************************************************************************)
EXTENDS StartForward

(* Every variable holds a value of its kind, in StartForward and the daemon. *)
TypeOK ==
  /\ DaemonTypeOK
  /\ pc \in [Sessions -> PCs]
  /\ req \in [Sessions -> Requests]
  /\ pairs \in [Sessions -> Seq(Pairs)]
  /\ via \in [Sessions -> [net : Networks \cup {""},
                           addr : TargetNames \cup IPs \cup {""}]]
  /\ helper \in [Sessions -> Sessions \cup {None}]
  /\ todo \in [Sessions -> SUBSET Sessions]
  /\ removed \in [Sessions -> SUBSET Sessions]
  /\ cancelled \in [Sessions -> BOOLEAN]
  /\ err \in [Sessions -> {"none", "port", "other"}]
  /\ leaked \in [Sessions -> {"none", "create", "remove"}]

(***************************************************************************)
(* Nothing is left behind.  Whatever error path StartForward takes after   *)
(* ContainerCreate, and after an attached forward has been torn down, no   *)
(* helper of its own is left, unless the very call that created or removed *)
(* it reported an error.                                                   *)
(***************************************************************************)
NothingLeftBehind ==
  \A s \in Sessions :
    /\ \/ pc[s] = "failed"
       \/ pc[s] = "done" /\ helper[s] = s /\ ~req[s].detach
    /\ leaked[s] = "none"
    => Removed(s)

(***************************************************************************)
(* The same as a promise: to its caller a forward is a call that keeps its *)
(* helper in custody, hands a detached one over, and never makes one when  *)
(* it has ended.                                                           *)
(***************************************************************************)
CallOf(s) ==
  CASE pc[s] = "idle"    -> "waiting"
    [] pc[s] = "crashed" -> "dead"
    [] pc[s] = "failed"  -> "returned"
    [] pc[s] = "done"    -> IF helper[s] = s /\ req[s].detach THEN "handedOver" ELSE "returned"
    [] OTHER             -> "working"

BoxOf(s) ==
  IF status[s] = "none" THEN "none" ELSE IF Removed(s) THEN "gone" ELSE "held"

Helpers == INSTANCE Custody WITH
  Owners  <- Sessions,
  call    <- [s \in Sessions |-> CallOf(s)],
  box     <- [s \in Sessions |-> BoxOf(s)],
  excused <- [s \in Sessions |-> leaked[s] # "none"]

(* Forwards, with everything that happens beside them, implement Custody. *)
HelpersInCustody == Helpers!Spec

(***************************************************************************)
(* A forward removes only helpers it may remove: its own, helpers of its   *)
(* own target, and helpers whose target container no longer exists at the  *)
(* moment of the removal, although the target was inspected a call         *)
(* earlier (removeOrphanedHelpers, the replacement loop of StartForward).  *)
(***************************************************************************)
ForwardRemovesOnly ==
  [][\A s, h \in Sessions :
       Step(s) /\ status[h] \in Alive /\ status'[h] \notin Alive
         => \/ h = s
            \/ cfg[h].target = req[s].target
            \/ ~Exists(targets[cfg[h].target])]_vars

(* A helper returned as existing forwards to the requested target, shares a *)
(* pair with the request, accepts exactly the requested clients and is on   *)
(* the requested network, however long ago it was listed and checked.       *)
ReuseHonoursRequest ==
  \A s \in Sessions :
    pc[s] = "done" /\ helper[s] # s
      => LET h == helper[s]
         IN  /\ cfg[h].target = req[s].target
             /\ cfg[h].range = req[s].range
             /\ req[s].network \in {"", cfg[h].network}
             /\ \E i \in DOMAIN cfg[h].pairs, j \in DOMAIN pairs[s] :
                  /\ cfg[h].pairs[i].local = pairs[s][j].local
                  /\ cfg[h].pairs[i].remote = pairs[s][j].remote
                  /\ NormalizeProtocol(cfg[h].pairs[i].proto) = NormalizeProtocol(pairs[s][j].proto)

(* A helper that still reaches its target is never replaced as stale:       *)
(* CheckHelper reports staleness only where the helper's connections cannot *)
(* end at the target it was made for.                                       *)
StaleIsSound ==
  [][\A s \in Sessions :
       /\ pc[s] = "check" /\ pc'[s] = "replace"
       /\ ~RangeChanged(s, helper[s]) /\ ~NetworkChanged(s, helper[s])
       => cfg[helper[s]].target \notin Dials(Labels(helper[s]), targets)]_vars

(* A helper is reused only when its connections end at the requested target, *)
(* if that is running when CheckHelper looks.                                *)
ReusedReachesTarget ==
  [][\A s \in Sessions :
       pc[s] = "check" /\ pc'[s] = "done" /\ Running(targets[req[s].target])
         => req[s].target \in Dials(Labels(helper[s]), targets)]_vars

(* A forward that gives up because a host port is taken never does so on    *)
(* account of a helper it removed itself and whose ports the daemon has yet *)
(* to release: someone else has the port, or only the daemon may bind it, or *)
(* the request itself wants it twice.                                       *)
PortErrorIsReal ==
  [][\A s \in Sessions :
       pc[s] # "idle" /\ err[s] # "port" /\ err'[s] = "port"
         => \/ \E b \in Wanted(s) : b.port \in Privileged
            \/ SelfConflict(pairs[s], req[s].addresses)
            \/ ForeignBlocking(Wanted(s)) # {}
            \/ HelpersBlocking(Wanted(s), s) \ removed[s] # {}]_vars

(* The daemon may restart the helper after it exited. *)
MayComeBack(h) == "exit" \in Allowed /\ cfg[h].restart # "no"

(* One forward at a time: no two running helpers serve the same pair of the  *)
(* same target, whatever happened to the target in between and whichever     *)
(* helpers exited or were removed, as long as neither may have been brought  *)
(* back by its restart policy: findOverlappingHelper does not find a helper  *)
(* while it is restarting, and a second one on other addresses can be made.  *)
NoDuplicateHelper ==
  \A g, h \in Sessions :
    /\ g # h /\ status[g] = "running" /\ status[h] = "running"
    /\ cfg[g].target = cfg[h].target
    => Recorded(g) \cap Recorded(h) = {} \/ MayComeBack(g) \/ MayComeBack(h)

(* One forward at a time: the helper a forward comes to rest on, new or      *)
(* existing, runs and reaches the target.                                    *)
ReturnedReachesTarget ==
  [][\A s \in Sessions :
       pc[s] \in {"check", "waitRunning"} /\ pc'[s] \in {"done", "attached"}
         => /\ status[helper[s]] = "running"
            /\ req[s].target \in Dials(Labels(helper[s]), targets)]_vars

(* The name a forward wants is that of a helper it did not remove; or the   *)
(* daemon removed its attached helper, whose start it refused at first.     *)
NamedAlike(s) ==
  /\ req[s].name # ""
  /\ \E h \in Sessions \ (removed[s] \cup {s}) :
       status[h] \in Alive \cup {"removing"} /\ cfg[h].name = req[s].name

RefusedAndGone(s) == retryStart(s) /\ ~req[s].detach /\ status[s] = "gone"

(* The image is to be there already, and is not: the code looks for it only  *)
(* after it has removed the old helper.                                      *)
ImageMissing(s) == req[s].pull = "never" /\ ~image

(* One forward at a time, where nobody cancels it, no call to the daemon     *)
(* fails and the host has IPv6: a forward that removed a helper, stale,      *)
(* differing or orphaned, puts its own in its place, unless it cannot have a *)
(* host port (and then PortErrorIsReal says why) or one of the above         *)
(* happened to it.  These are all the ways to be left with no helper, not    *)
(* ways the code means there to be: RefusedStartIsRetried below is about one *)
(* of them, and docs/helper-image.md lists the image first.                  *)
LossIsExplained ==
  [][\A s \in Sessions :
       removed[s] # {} /\ pc[s] # "failed" /\ pc'[s] = "failed"
         => \/ err'[s] = "port"
            \/ pc[s] = "image" /\ ImageMissing(s)
            \/ pc[s] = "create" /\ NamedAlike(s)
            \/ pc[s] = "startFailed" /\ RefusedAndGone(s)]_vars

(* StartForward returns, or blocks attached, whatever the others do: the     *)
(* replacement loop, the waits for ports and the wait for the helper end.    *)
ForwardReturns ==
  \A s \in Sessions : Busy(s) ~> pc[s] \in Ended \cup {"attached"}

(* Once an attached forward is cancelled its helper goes, and so do its ports, *)
(* unless the process is killed before it has removed the helper.            *)
CancelledHelperGoes ==
  \A s \in Sessions :
    pc[s] = "attached" /\ cancelled[s]
      ~> (status[s] = "gone" /\ s \notin holding) \/ pc[s] = "crashed"

-----------------------------------------------------------------------------
(* Why these hold: the inductive invariant of the proofs, in named parts. *)

BeforeCreate == {"idle", "inspect", "find", "check", "replace", "listOrphans", "orphans",
                 "removeOrphan", "waitPorts", "image", "create"}

AfterCreate == {"start", "startFailed", "waitRunning", "abort", "attached", "removing"}

(* The helper at hand is one, where the code removes or returns it. *)
HelperAtHand ==
  \A s \in Sessions :
    pc[s] \in {"check", "replace", "removeOrphan"} => helper[s] \in Sessions

TypeInv == TypeOK /\ HelperAtHand

(* A forward has no container before it asks for one ... *)
NoHelperYet == \A s \in Sessions : pc[s] \in BeforeCreate => status[s] = "none"

(* ... and from then on the helper at hand is its own. *)
OwnHelper == \A s \in Sessions : pc[s] \in AfterCreate => helper[s] = s

(* Every helper it looks at before is somebody else's, for that one exists. *)
OthersExist ==
  \A s \in Sessions :
    /\ \A h \in todo[s] : status[h] # "none"
    /\ pc[s] \in {"check", "replace", "removeOrphan"} => status[helper[s]] # "none"

(* A helper found by target and pair keeps both, for it is never reconfigured. *)
FoundMatches ==
  \A s \in Sessions :
    pc[s] \in {"check", "replace"} => Overlaps(s, helper[s])

(* The same goes for a helper that was returned as existing. *)
ReturnedMatches ==
  \A s \in Sessions :
    pc[s] = "done" /\ helper[s] # s =>
      LET h == helper[s]
      IN  /\ h \in Sessions /\ status[h] # "none"
          /\ Overlaps(s, h) /\ ~RangeChanged(s, h) /\ ~NetworkChanged(s, h)

(* The target of a forward under way, and of every helper, has existed, ... *)
Born(t) == targets[t].nets # {}
TargetsBorn ==
  \A s \in Sessions :
    /\ pc[s] \in BeforeCreate \ {"idle", "inspect"} => Born(req[s].target)
    /\ status[s] # "none" => Born(cfg[s].target)

(* ... and an id that was used is not used again: an orphan stays one. *)
OrphanStays ==
  \A s \in Sessions :
    pc[s] = "removeOrphan" =>
      LET t == cfg[helper[s]].target IN ~Exists(targets[t]) /\ Born(t)

(* No helper is on an internal network, from which it could not publish. *)
NetsUsable == \A s \in Sessions : {via[s].net, cfg[s].network} \cap Internal = {}

SafetyInv ==
  /\ NetsUsable /\ TypeInv /\ NoHelperYet /\ OwnHelper /\ OthersExist /\ FoundMatches
  /\ ReturnedMatches /\ TargetsBorn /\ OrphanStays /\ NothingLeftBehind

-----------------------------------------------------------------------------
(* More of the kind, for what helpers dial, for host ports, and for runs *)
(* with one forward at a time.                                           *)

(* A route, picked or recorded, names the target: by name, or on the bridge *)
(* by an address.  (For runs without renames.)                              *)
RouteFits(net, addr, t) ==
  net # "" /\ IF net = "bridge" THEN addr \in IPs ELSE addr = targets[t].name

RoutesFit ==
  \A s \in Sessions :
    /\ pc[s] \in BeforeCreate \ {"idle", "inspect"}
         => RouteFits(via[s].net, via[s].addr, req[s].target)
    /\ status[s] # "none" => RouteFits(cfg[s].network, cfg[s].address, cfg[s].target)

RouteInv == Consistent(targets) /\ RoutesFit

(* A forward's helper is configured as the forward has it. *)
OwnConfig ==
  \A s \in Sessions : pc[s] \in AfterCreate => cfg[s] = buildHelperContainerConfig(s)

(* What counts as removed never runs again, ... *)
RemovedStay ==
  \A s \in Sessions : \A h \in removed[s] : status[h] \in {"removing", "gone"}

(* ... only what was created holds ports, ... *)
HoldersExist == \A h \in holding : status[h] # "none"

(* ... and a preflight that was passed is a proof that the ports of what this *)
(* forward removed are free, and stay so.  (For hosts with IPv6.)             *)
PortsReleased ==
  \A s \in Sessions :
    pc[s] \in {"image", "create", "start"} /\ ~req[s].skip
      => HelpersBlocking(Wanted(s), s) \cap removed[s] = {}

PortInv == OwnConfig /\ RemovedStay /\ HoldersExist /\ PortsReleased

(* One forward at a time, but for attached ones that are being torn down. *)
Working(s) == Busy(s) /\ pc[s] # "removing"
OneAtWork  == \A s, u \in Sessions : Working(s) /\ Working(u) => s = u

(* A forward that found no helper for its pairs is still without one when it *)
(* starts its own, but for one the daemon has brought back meanwhile.        *)
NoRival ==
  \A s, h \in Sessions :
    /\ pc[s] \in {"listOrphans", "orphans", "removeOrphan", "waitPorts", "image", "create", "start"}
    /\ status[h] = "running" /\ cfg[h].target = req[s].target
    => Recorded(h) \cap WantedPairs(pairs[s]) = {} \/ MayComeBack(h)

SerialInv ==
  /\ OneAtWork /\ NoRival /\ NoDuplicateHelper
  /\ \A h \in Sessions : status[h] = "restarting" => MayComeBack(h)

(* The target stays where it was found while its forward is at work. *)
(* (For runs without cancellation.)                                  *)
TargetWaits ==
  \A s \in Sessions :
    /\ ~cancelled[s] /\ pc[s] # "removing"
    /\ Working(s) /\ pc[s] # "inspect"
         => via[s] \in pickTargetNetwork(targets[req[s].target], req[s].network)

(* So do the helpers it found running, and its own once that runs. *)
HelpersWait ==
  \A s \in Sessions :
    /\ pc[s] \in {"check", "replace", "removeOrphan"} => status[helper[s]] = "running"
    /\ pc[s] \in {"orphans", "removeOrphan"} => \A h \in todo[s] : status[h] = "running"
    /\ pc[s] = "removeOrphan" => helper[s] \notin todo[s]
    /\ pc[s] = "waitRunning" => status[s] = "running"

(* A forward that has removed helpers goes on to start its own: what it      *)
(* removed is gone, the image stays, and its own runs unless the daemon      *)
(* refused to start it.  (For runs in which no call fails.)                  *)
RemovedAreGone ==
  \A s \in Sessions :
    /\ \A h \in removed[s] : status[h] = "gone"
    /\ pc[s] \in {"idle", "inspect"} => removed[s] = {}

OwnStarts ==
  \A s \in Sessions :
    /\ pc[s] = "create" => image
    /\ pc[s] = "start" => status[s] = "created" \/ RefusedAndGone(s)
    /\ pc[s] = "startFailed" => err[s] = "port" \/ RefusedAndGone(s)
    /\ pc[s] # "abort"

LossInv == HelpersWait /\ RemovedAreGone /\ OwnStarts

-----------------------------------------------------------------------------
(* What the documentation says and the code does not do. *)

(* portforward/forward.go: without Detach, Forward blocks until the context *)
(* is cancelled "and then removes the helper".                              *)
AttachedHelperIsRemoved ==
  \A s \in Sessions :
    pc[s] \in {"done", "failed"} /\ helper[s] = s /\ ~req[s].detach => Removed(s)

(* portforward/forward.go: with Detach "the helper keeps running until      *)
(* removed with Cleanup".  For runs where nobody cleans up.                 *)
DetachedKeepsRunning ==
  [][\A s \in Sessions :
       /\ pc[s] = "done" /\ req[s].detach
       /\ status[helper[s]] = "running"
       => status'[helper[s]] = "running"]_vars

(* portforward/forward.go: a reported port's addresses "are the host        *)
(* addresses Local is bound on".                                            *)
ReportedAddressesAreBound ==
  \A s \in Sessions :
    pc[s] = "done" /\ helper[s] # s
      => Bindings(SelectSeq(pairs[s], LAMBDA p : WantedPairs(<<p>>) \subseteq Recorded(helper[s])),
                  req[s].addresses) \subseteq Published(helper[s])

(* internal/forward.go: a start that is to be retried "retries until the     *)
(* start succeeds, ctx is canceled, or timeout elapses".  For runs where     *)
(* nobody cancels.                                                           *)
RefusedStartIsRetried ==
  [][\A s \in Sessions :
       pc[s] = "start" /\ pc'[s] # "start" /\ retryStart(s)
         => status'[s] = "running" \/ err'[s] = "port"]_vars

(* internal/forward.go: preflight tolerates missing IPv6 so that the default *)
(* addresses still work on hosts without it.  For runs where nothing else    *)
(* can go wrong.                                                             *)
DefaultAddressesWork ==
  \A s \in Sessions : req[s].addresses = <<"localhost">> => pc[s] # "failed"
=============================================================================
