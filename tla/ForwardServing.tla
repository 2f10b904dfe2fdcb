---------------------------- MODULE ForwardServing ----------------------------
(***************************************************************************)
(* Theorems about what a forward's user gets: a port error means that      *)
(* somebody else has the port, a reused helper reaches its target, and     *)
(* forwards made one at a time neither double a helper nor hand out one    *)
(* that does not work.  Each names the parts of the environment that it    *)
(* needs to be absent.                                                     *)
(***************************************************************************)
EXTENDS ForwardSafety

-----------------------------------------------------------------------------
(* What a step may change. *)

(* A step is one of a forward, or of the environment, or none. *)
LEMMA NextCases ==
  ASSUME [Next]_vars
  PROVE  \/ \E s \in Sessions : Acts(s)
         \/ /\ UNCHANGED sessionVars
            /\ \/ Quiet /\ Interference
               \/ \E g \in Sessions : DaemonStep(g)
               \/ UNCHANGED daemonVars
BY DEF Next, Acts, vars

(* What the environment and the daemon leave alone. *)
LEMMA EnvironmentChange ==
  ASSUME SafetyInv, [Next]_vars, ~\E s \in Sessions : Acts(s)
  PROVE  /\ UNCHANGED sessionVars /\ UNCHANGED cfg
         /\ UNCHANGED targets \/ (Quiet /\ TargetStep /\ UNCHANGED status)
         /\ \A h \in Sessions : Persists(h)
         /\ \A h \in holding' \ holding : status[h] = "restarting"
<1>1. UNCHANGED sessionVars
  BY NextCases
<1>2. TypeInv
  BY DEF SafetyInv
<1>3. CASE TargetStep /\ Quiet
  <2>1. UNCHANGED <<status, cfg, holding>>
    BY <1>3 DEF TargetStep, CreateTarget, StopTarget, StartTarget, RemoveTarget, RenameTarget,
       ChangeNetworks, SetTarget
  <2> QED
    BY <1>1, <1>3, <2>1 DEF Persists, Removed
<1>4. CASE HelperStep \/ \E g \in Sessions : DaemonStep(g)
  <2>1. UNCHANGED <<targets, cfg>>
    BY <1>4 DEF HelperStep, DaemonStep, AutoRemoveDone, ReleasePorts, HelperRestart, HelperExit,
       ExternalRemove, SetStatus
  <2>2. \A h \in Sessions : Persists(h)
    BY <1>2, <1>4, HelperStepPersists DEF HelperStep
  <2>3. \A h \in holding' \ holding : status[h] = "restarting"
    BY <1>4 DEF HelperStep, DaemonStep, AutoRemoveDone, ReleasePorts, HelperRestart, HelperExit,
       ExternalRemove, SetStatus
  <2> QED
    BY <1>1, <2>1, <2>2, <2>3
<1>5. CASE HostStep \/ UNCHANGED daemonVars
  <2>1. UNCHANGED <<targets, status, cfg, holding>>
    BY <1>5 DEF HostStep, ForeignBind, ForeignClose, ImageRemoved, ImagePulled, daemonVars
  <2> QED
    BY <1>1, <2>1 DEF Persists, Removed
<1> QED
  BY <1>3, <1>4, <1>5, NextCases DEF Interference

(* More of what a step of a forward leaves to the others, and to itself. *)
LEMMA OwnMore ==
  ASSUME TypeInv, NEW s \in Sessions, Acts(s)
  PROVE  /\ \A u \in Sessions \ {s} : via'[u] = via[u] /\ removed'[u] = removed[u] /\ err'[u] = err[u]
         /\ ~InspectTarget(s) => UNCHANGED via
         /\ ~(ReplaceHelper(s) \/ RemoveOrphan(s)) => UNCHANGED removed
<1> USE DEF TypeInv, TypeOK, Goto, Fail
<1>1. CASE Begin(s) \/ Cancel(s) \/ Crash(s)
  BY <1>1 DEF Begin, BeginWith, Cancel, Crash
<1>2. CASE InspectTarget(s) \/ findOverlappingHelper(s) \/ CheckOverlapping(s)
  BY <1>2 DEF InspectTarget, findOverlappingHelper, CheckOverlapping
<1>3. CASE ReplaceHelper(s) \/ RemoveOrphan(s)
  BY <1>3 DEF ReplaceHelper, RemoveOrphan, RemoveHelper
<1>4. CASE ListOrphans(s) \/ InspectOrphan(s) \/ Preflight(s) \/ waitForHostPorts(s)
  BY <1>4 DEF ListOrphans, InspectOrphan, Preflight, waitForHostPorts
<1>5. CASE ensureHelperImage(s) \/ CreateHelper(s) \/ StartHelper(s) \/ StartFailed(s)
  BY <1>5 DEF ensureHelperImage, ImageEnsured, CreateHelper, StartHelper, StartFailed
<1>6. CASE waitForRunning(s) \/ AbortHelper(s) \/ StopAttached(s) \/ RemoveAttached(s)
  BY <1>6 DEF waitForRunning, AbortHelper, StopAttached, RemoveAttached
<1> QED
  BY <1>1, <1>2, <1>3, <1>4, <1>5, <1>6 DEF Acts, Step

(* What exists stays what it is, whoever acts. *)
LEMMA ExistingStays ==
  ASSUME SafetyInv, [Next]_vars, NEW h \in Sessions, status[h] # "none"
  PROVE  Persists(h) /\ status'[h] # "none"
<1>1. CASE \E s \in Sessions : Acts(s)
  BY <1>1, KnownStays
<1>2. CASE ~\E s \in Sessions : Acts(s)
  BY <1>2, EnvironmentChange DEF Persists
<1> QED
  BY <1>1, <1>2

(* Only a helper that is started or restarted takes ports. *)
LEMMA PortsTaken ==
  ASSUME SafetyInv, [Next]_vars, NEW h \in holding' \ holding
  PROVE  h \in Sessions /\ status[h] \in {"created", "restarting"}
<1>1. h \in Sessions
  BY NextInv DEF SafetyInv, TypeInv, TypeOK, DaemonTypeOK
<1>2. CASE \E s \in Sessions : Acts(s)
  <2>1. PICK s \in Sessions : Acts(s)
    BY <1>2
  <2>2. ~StartHelper(s) => UNCHANGED holding
    BY <2>1 DEF Acts, Begin, BeginWith, Cancel, Crash, Step, InspectTarget, findOverlappingHelper,
       CheckOverlapping, ReplaceHelper, RemoveOrphan, RemoveHelper, ListOrphans, InspectOrphan,
       Preflight, waitForHostPorts, ensureHelperImage, CreateHelper, StartFailed,
       waitForRunning, AbortHelper, StopAttached, RemoveAttached, daemonVars
  <2>3. StartHelper(s) => UNCHANGED holding \/ (status[s] = "created" /\ holding' = holding \cup {s})
    BY DEF StartHelper, Started, StartRefused
  <2> QED
    BY <1>1, <2>2, <2>3
<1>3. CASE ~\E s \in Sessions : Acts(s)
  BY <1>1, <1>3, EnvironmentChange
<1> QED
  BY <1>2, <1>3

-----------------------------------------------------------------------------
(* Host ports. *)

(* A forward's configuration is built from what it has decided by then. *)
LEMMA OwnConfigStays ==
  ASSUME SafetyInv, OwnConfig, [Next]_vars PROVE OwnConfig'
<1> USE DEF SafetyInv
<1> SUFFICES ASSUME NEW u \in Sessions, pc'[u] \in AfterCreate
             PROVE  cfg'[u] = buildHelperContainerConfig(u)'
  BY DEF OwnConfig
<1>1. ASSUME pc[u] \in AfterCreate, cfg'[u] = cfg[u], req'[u] = req[u], via'[u] = via[u],
             pairs'[u] = pairs[u]
      PROVE  cfg'[u] = buildHelperContainerConfig(u)'
  BY <1>1 DEF OwnConfig, buildHelperContainerConfig
<1>2. CASE \E s \in Sessions : Acts(s)
  <2>1. PICK s \in Sessions : Acts(s)
    BY <1>2
  <2>2. CASE CreateHelper(s)
    <3>1. /\ cfg' = cfg \/ cfg' = [cfg EXCEPT ![s] = buildHelperContainerConfig(s)]
          /\ req' = req /\ via' = via /\ pairs' = pairs
      BY <2>2 DEF CreateHelper, Created
    <3>2. CASE u = s
      <4>1. ~Fail(s, "other")
        BY <3>2, FailType DEF TypeInv, AfterCreate
      <4>2. cfg' = [cfg EXCEPT ![s] = buildHelperContainerConfig(s)]
        BY <2>2, <4>1 DEF CreateHelper, Created
      <4>3. cfg'[s] = buildHelperContainerConfig(s)
        BY <4>2 DEF TypeInv, TypeOK, DaemonTypeOK
      <4> QED
        BY <3>1, <3>2, <4>3 DEF buildHelperContainerConfig
    <3>3. CASE u # s
      <4>1. cfg'[u] = cfg[u]
        BY <3>1, <3>3 DEF TypeInv, TypeOK, DaemonTypeOK
      <4> QED
        BY <1>1, <2>1, <3>1, <3>3, <4>1, Locality
    <3> QED
      BY <3>2, <3>3
  <2>3. CASE ~CreateHelper(s)
    <3>1. cfg' = cfg
      BY <2>1, <2>3, ContainerChange
    <3>2. CASE u = s
      <4>1. pc[s] \in AfterCreate
        BY <2>1, <2>3, <3>2, Arrivals
      <4>2. ~Begin(s) /\ ~InspectTarget(s)
        BY <4>1, Transitions DEF AfterCreate
      <4> QED
        BY <1>1, <2>1, <3>1, <3>2, <4>1, <4>2, OwnData, OwnMore
    <3>3. CASE u # s
      BY <1>1, <2>1, <3>1, <3>3, Locality, OwnMore
    <3> QED
      BY <3>2, <3>3
  <2> QED
    BY <2>2, <2>3
<1>3. CASE ~\E s \in Sessions : Acts(s)
  BY <1>1, <1>3, EnvironmentChange DEF sessionVars
<1> QED
  BY <1>2, <1>3

(* A helper that counts as removed stays so, and only helpers hold ports. *)
LEMMA RemovedAndHolders ==
  ASSUME SafetyInv, RemovedStay, HoldersExist, [Next]_vars
  PROVE  RemovedStay' /\ HoldersExist'
<1> USE DEF SafetyInv
<1>1. \A h \in holding' : h \in Sessions /\ status[h] # "none"
  BY PortsTaken DEF HoldersExist, TypeInv, TypeOK, DaemonTypeOK
<1>2. HoldersExist'
  BY <1>1, ExistingStays DEF HoldersExist
<1>3. ASSUME NEW u \in Sessions, NEW h \in removed'[u] PROVE status'[h] \in {"removing", "gone"}
  <2>1. CASE h \in removed[u]
    <3>1. h \in Sessions /\ status[h] \in {"removing", "gone"}
      BY <2>1 DEF RemovedStay, TypeInv, TypeOK
    <3> QED
      BY <3>1, ExistingStays DEF Persists, Removed
  <2>2. CASE h \notin removed[u]
    <3>1. PICK s \in Sessions : Acts(s)
      BY <2>2, EnvironmentChange DEF sessionVars
    <3>2. u = s /\ (ReplaceHelper(s) \/ RemoveOrphan(s))
      BY <2>2, <3>1, OwnMore
    <3>3. pc[s] \in {"replace", "removeOrphan"}
      BY <3>2, Transitions
    <3>4. \/ removed' = removed
          \/ removed' = [removed EXCEPT ![s] = removed[s] \cup {helper[s]}] /\ ContainerRemove(helper[s])
      BY <3>2 DEF ReplaceHelper, RemoveOrphan, RemoveHelper
    <3>5. removed' # removed
      BY <2>2
    <3>6. removed \in [Sessions -> SUBSET Sessions]
      BY DEF TypeInv, TypeOK
    <3>7. removed'[s] = removed[s] \cup {helper[s]}
      BY <3>4, <3>5, <3>6
    <3>8. h = helper[s] /\ ContainerRemove(helper[s])
      BY <2>2, <3>2, <3>4, <3>5, <3>7
    <3>9. helper[s] \in Sessions /\ status[helper[s]] # "none"
      BY <3>3 DEF OthersExist, TypeInv, HelperAtHand
    <3> QED
      BY <3>8, <3>9, ContainerRemoveType, StatusIsStatus DEF TypeInv, Status, Alive
  <2> QED
    BY <2>1, <2>2
<1> QED
  BY <1>2, <1>3 DEF RemovedStay

(* What this process binds for an address blocks all that the address does. *)
LEMMA ListeningBlocks ==
  ASSUME NEW ps, NEW addrs, NEW b \in Bindings(ps, addrs), NEW c
  PROVE  /\ Listening(b).port = b.port
         /\ Conflicts(b, c) => Conflicts(Listening(b), c)
<1>1. PICK i \in DOMAIN ps : \E a \in ToSet(PairAddresses(ps[i], addrs)) :
        b = [address |-> a, port |-> ps[i].local, proto |-> NormalizeProtocol(ps[i].proto)]
  BY DEF Bindings
<1> DEFINE port == ps[i].local
           proto == NormalizeProtocol(ps[i].proto)
<1>2. PICK a : b = [address |-> a, port |-> port, proto |-> proto]
  BY <1>1
<1> HIDE DEF port, proto
<1>3. b.address = a /\ b.port = port /\ b.proto = proto
  BY <1>2
<1>4. Listening(b) = [address |-> listenHost(a), port |-> port, proto |-> proto]
  BY <1>2 DEF Listening
<1>5. /\ Listening(b).address = listenHost(a) /\ Listening(b).port = port
      /\ Listening(b).proto = proto
  BY <1>4
<1>6. Clash(a, c.address) => Clash(listenHost(a), c.address)
  BY DEF Clash, listenHost
<1> QED
  BY <1>3, <1>5, <1>6 DEF Conflicts

(* Ports that are taken from a forward's pairs are taken from what it wants, *)
(* and a preflight that passes says that none of them is.                    *)
LEMMA WantedBlocked ==
  ASSUME NEW s
  PROVE  LET bs == Bindings(pairs[s], req[s].addresses)
         IN  /\ HelpersBlocking(bs, s) \subseteq HelpersBlocking(Wanted(s), s)
             /\ ForeignBlocking(bs) \subseteq ForeignBlocking(Wanted(s))
             /\ (\E b \in bs : b.port \in Privileged) => \E b \in Wanted(s) : b.port \in Privileged
<1> DEFINE bs == Bindings(pairs[s], req[s].addresses)
<1>1. \A b \in bs : /\ Listening(b) \in Wanted(s) /\ Listening(b).port = b.port
                   /\ \A c : Conflicts(b, c) => Conflicts(Listening(b), c)
  BY ListeningBlocks DEF Wanted
<1> HIDE DEF bs
<1>2. HelpersBlocking(bs, s) \subseteq HelpersBlocking(Wanted(s), s)
  BY <1>1 DEF HelpersBlocking
<1>3. ForeignBlocking(bs) \subseteq ForeignBlocking(Wanted(s))
  BY <1>1 DEF ForeignBlocking
<1>4. (\E b \in bs : b.port \in Privileged) => \E b \in Wanted(s) : b.port \in Privileged
  BY <1>1
<1> QED
  BY <1>2, <1>3, <1>4 DEF bs

(* On a host with IPv6 a preflight binds all that is wanted, so that none of *)
(* it is held by a helper if it passes; if it fails, something is.           *)
LEMMA PreflightTells ==
  ASSUME TypeInv, NEW s \in Sessions
  PROVE  /\ HostIPv6 /\ preflightHostPorts(s) => HelpersBlocking(Wanted(s), s) = {}
         /\ ~preflightHostPorts(s) =>
              \/ \E b \in Wanted(s) : b.port \in Privileged
              \/ ForeignBlocking(Wanted(s)) # {}
              \/ HelpersBlocking(Wanted(s), None) # {}
<1> DEFINE all == Bindings(pairs[s], req[s].addresses)
           bs == {b \in all : b.address \in IPv6 => HostIPv6}
           ls == {Listening(b) : b \in bs}
<1>1. preflightHostPorts(s) <=> /\ HelpersBlocking(ls, None) = {}
                                /\ ForeignBlocking(ls) = {}
                                /\ ~\E b \in bs : b.port \in Privileged
  BY DEF preflightHostPorts, Taken
<1>2. ls \subseteq Wanted(s) /\ (HostIPv6 => ls = Wanted(s))
  BY DEF Wanted
<1>3. \A b \in bs : Listening(b) \in ls /\ Listening(b).port = b.port
  BY ListeningBlocks
<1> HIDE DEF bs, ls
<1>4. /\ HelpersBlocking(ls, None) \subseteq HelpersBlocking(Wanted(s), None)
      /\ ForeignBlocking(ls) \subseteq ForeignBlocking(Wanted(s))
  BY <1>2 DEF HelpersBlocking, ForeignBlocking
<1>5. (\E b \in bs : b.port \in Privileged) => \E b \in Wanted(s) : b.port \in Privileged
  BY <1>2, <1>3
<1>6. HelpersBlocking(Wanted(s), s) \subseteq HelpersBlocking(Wanted(s), None)
  <2>1. holding \ {s} \subseteq holding \ {None}
    BY RequestsAssumption DEF TypeInv, TypeOK, DaemonTypeOK
  <2> QED
    BY <2>1 DEF HelpersBlocking
<1> QED
  BY <1>1, <1>2, <1>4, <1>5, <1>6

(* Once a forward has seen its ports free, what it removed blocks it no more. *)
LEMMA PortsReleasedStays ==
  ASSUME SafetyInv, PortInv, HostIPv6, [Next]_vars PROVE PortsReleased'
<1> USE DEF SafetyInv, PortInv
<1> DEFINE Through == {"image", "create", "start"}
<1> SUFFICES ASSUME NEW u \in Sessions, pc'[u] \in Through, ~req'[u].skip,
                    NEW g \in removed'[u], g \in HelpersBlocking(Wanted(u), u)'
             PROVE  FALSE
  BY DEF PortsReleased
<1>1. ASSUME pairs'[u] = pairs[u], req'[u] = req[u], removed'[u] = removed[u]
      PROVE  g \in HelpersBlocking(Wanted(u), u) \cap removed[u]
  <2>1. g \in removed[u] /\ g \in Sessions /\ status[g] \in {"removing", "gone"}
    BY <1>1 DEF RemovedStay, TypeInv, TypeOK
  <2>2. g \in holding
    BY <2>1, PortsTaken DEF HelpersBlocking
  <2>3. cfg'[g] = cfg[g]
    BY <2>1, ExistingStays DEF Persists
  <2> QED
    BY <1>1, <2>1, <2>2, <2>3 DEF HelpersBlocking, Wanted, Published
<1>2. CASE \E s \in Sessions : Acts(s)
  <2>1. PICK s \in Sessions : Acts(s)
    BY <1>2
  <2>2. CASE u # s \/ (pc[s] \in Through /\ ~Begin(s))
    <3>1. pairs'[u] = pairs[u] /\ req'[u] = req[u] /\ removed'[u] = removed[u]
      BY <2>1, <2>2, Locality, OwnMore, OwnData, Transitions
    <3>2. pc[u] \in Through
      BY <2>1, <2>2, Locality
    <3> QED
      BY <1>1, <3>1, <3>2 DEF PortsReleased
  <2>3. CASE u = s /\ ~(pc[s] \in Through /\ ~Begin(s))
    <3>1. Preflight(s) \/ waitForHostPorts(s)
      BY <2>1, <2>3, Transitions DEF Acts, Step, Cancel, Crash, TypeInv, TypeOK
    <3>2. preflightHostPorts(s) \/ req[s].skip
      BY <2>3, <3>1, GotoType, FailType, PCValues DEF Preflight, waitForHostPorts, TypeInv
    <3>3. pairs'[u] = pairs[u] /\ req'[u] = req[u] /\ removed'[u] = removed[u]
      BY <2>3, <3>1 DEF Preflight, waitForHostPorts
    <3> QED
      BY <1>1, <2>3, <3>2, <3>3, PreflightTells
  <2> QED
    BY <2>2, <2>3
<1>3. CASE ~\E s \in Sessions : Acts(s)
  BY <1>1, <1>3, EnvironmentChange DEF PortsReleased, sessionVars
<1> QED
  BY <1>2, <1>3

(* PortInv is inductive beside SafetyInv, on a host with IPv6. *)
LEMMA PortInvariant == ASSUME HostIPv6 PROVE Spec => [](SafetyInv /\ PortInv)
<1>1. Init => PortInv
  BY DEF Init, PortInv, OwnConfig, RemovedStay, HoldersExist, PortsReleased, AfterCreate
<1>2. SafetyInv /\ PortInv /\ [Next]_vars => PortInv'
  BY OwnConfigStays, RemovedAndHolders, PortsReleasedStays DEF PortInv
<1>3. SafetyInv /\ [Next]_vars => SafetyInv'
  BY NextInv
<1> QED
  BY <1>1, <1>2, <1>3, InitInv, PTL DEF Spec

(* Once a forward's preflight has passed, no port it wants is held by a     *)
(* helper it removed, until it has started its own; what it removed never   *)
(* runs again, and only what was created holds ports (ensurePortsFree).     *)
THEOREM PortsStayReleased == ASSUME HostIPv6 PROVE Spec => []PortInv
<1>1. Spec => [](SafetyInv /\ PortInv)
  BY PortInvariant
<1> QED
  BY <1>1, PTL

(* Who holds a port that a forward gives up on. *)
ExplainedPort(s) ==
  \/ \E b \in Wanted(s) : b.port \in Privileged
  \/ SelfConflict(pairs[s], req[s].addresses)
  \/ ForeignBlocking(Wanted(s)) # {}
  \/ HelpersBlocking(Wanted(s), s) \ removed[s] # {}

(* A forward whose preflight fails is blocked by somebody else, unless it is *)
(* by a helper it removed itself.                                            *)
LEMMA PreflightExplained ==
  ASSUME SafetyInv, PortInv, NEW s \in Sessions, pc[s] \in BeforeCreate, ~preflightHostPorts(s),
         HelpersBlocking(Wanted(s), s) \cap removed[s] = {}
  PROVE  ExplainedPort(s)
<1>1. HelpersBlocking(Wanted(s), None) \subseteq HelpersBlocking(Wanted(s), s)
  <2>1. s \notin holding
    BY DEF SafetyInv, PortInv, NoHelperYet, HoldersExist
  <2> QED
    BY <2>1 DEF HelpersBlocking
<1> QED
  BY <1>1, PreflightTells DEF ExplainedPort, SafetyInv

(* So is one whose helper the daemon will not start. *)
LEMMA StartExplained ==
  ASSUME SafetyInv, PortInv, NEW s \in Sessions, pc[s] = "start", Blocked(s),
         ~retryStart(s) \/ HelpersBlocking(Published(s), s) \cap removed[s] = {}
  PROVE  ExplainedPort(s)
<1>1. cfg[s] = buildHelperContainerConfig(s)
  BY DEF PortInv, OwnConfig, AfterCreate
<1>2. cfg[s].pairs = pairs[s] /\ cfg[s].addresses = req[s].addresses
  BY <1>1 DEF buildHelperContainerConfig
<1>3. Published(s) = Bindings(pairs[s], req[s].addresses)
  BY <1>2 DEF Published
<1>4. /\ HelpersBlocking(Published(s), s) \subseteq HelpersBlocking(Wanted(s), s)
      /\ ForeignBlocking(Published(s)) \subseteq ForeignBlocking(Wanted(s))
  BY <1>3, WantedBlocked
<1>5. HelpersBlocking(Published(s), s) \cap removed[s] = {}
  BY <1>4 DEF PortInv, PortsReleased, retryStart
<1> QED
  BY <1>2, <1>4, <1>5 DEF Blocked, ExplainedPort

(* A forward never gives up a host port on account of a helper it removed    *)
(* itself: the waits and retries outlast the daemon's release of its ports.  *)
THEOREM PortErrorsAreReal ==
  ASSUME HostIPv6, "slow" \notin Allowed PROVE Spec => PortErrorIsReal
<1> DEFINE Explained == \A s \in Sessions :
             pc[s] # "idle" /\ err[s] # "port" /\ err'[s] = "port" => ExplainedPort(s)
<1>1. ASSUME SafetyInv, PortInv, [Next]_vars PROVE Explained
  <2> SUFFICES ASSUME NEW s \in Sessions, pc[s] # "idle", err[s] # "port", err'[s] = "port"
               PROVE  ExplainedPort(s)
    OBVIOUS
  <2> USE <1>1 DEF SafetyInv
  <2>1. Acts(s)
    <3>1. PICK u \in Sessions : Acts(u)
      BY EnvironmentChange DEF sessionVars
    <3>2. u = s
      BY <3>1, OwnMore
    <3> QED
      BY <3>1, <3>2
  <2>2. Preflight(s) \/ waitForHostPorts(s) \/ StartHelper(s)
    <3>1. ~Fail(s, "other") /\ err'[s] # err[s]
      BY DEF Fail, TypeInv, TypeOK
    <3>2. ~(InspectTarget(s) \/ findOverlappingHelper(s) \/ CheckOverlapping(s) \/ ListOrphans(s)
            \/ ensureHelperImage(s) \/ CreateHelper(s) \/ ReplaceHelper(s) \/ RemoveOrphan(s))
      BY <3>1 DEF InspectTarget, findOverlappingHelper, CheckOverlapping, ListOrphans,
         ensureHelperImage, CreateHelper, ReplaceHelper, RemoveOrphan, RemoveHelper
    <3>3. ~(Begin(s) \/ Cancel(s) \/ Crash(s) \/ InspectOrphan(s) \/ StartFailed(s)
            \/ AbortHelper(s) \/ StopAttached(s) \/ RemoveAttached(s))
      BY <3>1 DEF Begin, BeginWith, Cancel, Crash, InspectOrphan, StartFailed, AbortHelper,
         StopAttached, RemoveAttached
    <3>4. ~waitForRunning(s)
      BY <3>1 DEF waitForRunning, TypeInv, TypeOK
    <3> QED
      BY <2>1, <3>2, <3>3, <3>4 DEF Acts, Step
  <2>3. CASE Preflight(s)
    <3>1. ~preflightHostPorts(s) /\ removed[s] = {} /\ pc[s] = "orphans"
      BY <2>3 DEF Preflight
    <3> QED
      BY <3>1, PreflightExplained DEF BeforeCreate
  <2>4. CASE waitForHostPorts(s)
    <3>1. /\ ~preflightHostPorts(s) /\ pc[s] = "waitPorts"
          /\ Fail(s, "other") \/ DeadlinePassed(s, Wanted(s))
      BY <2>4 DEF waitForHostPorts
    <3>2. ~Fail(s, "other")
      BY DEF Fail, TypeInv, TypeOK
    <3>3. HelpersBlocking(Wanted(s), s) \cap removed[s] = {}
      BY <1>1, <3>1, <3>2 DEF DeadlinePassed
    <3> QED
      BY <3>1, <3>3, PreflightExplained DEF BeforeCreate
  <2>5. CASE StartHelper(s)
    <3>1. /\ pc[s] = "start"
          /\ \/ Blocked(s) /\ (~retryStart(s) \/ DeadlinePassed(s, Published(s)))
             \/ err' = [err EXCEPT ![s] = "other"]
      BY <2>5 DEF StartHelper
    <3>2. err' # [err EXCEPT ![s] = "other"]
      BY DEF TypeInv, TypeOK
    <3> QED
      BY <1>1, <3>1, <3>2, StartExplained DEF DeadlinePassed
  <2> QED
    BY <2>2, <2>3, <2>4, <2>5
<1>2. PortErrorIsReal <=> [][Explained]_vars
  BY DEF PortErrorIsReal, ExplainedPort
<1> HIDE DEF Explained
<1>3. Spec => [](SafetyInv /\ PortInv)
  BY PortInvariant
<1> QED
  BY <1>1, <1>2, <1>3, PTL DEF Spec

-----------------------------------------------------------------------------
(* Routes. *)

(* A change of one target that stays on a network, gets an address on the *)
(* bridge and takes nobody's name keeps the targets consistent.           *)
LEMMA ConsistentStays ==
  ASSUME TypeInv, Consistent(targets), NEW u \in Targets, NEW info, SetTarget(u, info),
         Exists(info) => info.nets # {} /\ FreeName(u, info.name),
         HasAddress(info, "bridge") => info.ip \in IPs
  PROVE  Consistent(targets')
<1>1. \A t \in Targets : IF t = u THEN targets'[t] = info ELSE targets'[t] = targets[t]
  BY DEF TypeInv, TypeOK, DaemonTypeOK, SetTarget
<1> QED
  BY <1>1 DEF Consistent, FreeName

(* The environment keeps targets consistent, and without renames a target *)
(* that was created keeps its name.                                       *)
LEMMA TargetsStayConsistent ==
  ASSUME SafetyInv, Consistent(targets), "rename" \notin Allowed, TargetStep
  PROVE  /\ Consistent(targets')
         /\ \A t \in Targets : Born(t) => targets'[t].name = targets[t].name
<1>1. PICK u \in Targets :
        CreateTarget(u) \/ StopTarget(u) \/ StartTarget(u) \/ RemoveTarget(u) \/ ChangeNetworks(u)
  BY DEF TargetStep
<1>2. TypeInv /\ targets[u] \in TargetInfo /\ targets \in [Targets -> TargetInfo]
  BY DEF SafetyInv, TypeInv, TypeOK, DaemonTypeOK
<1>3. ASSUME NEW info, SetTarget(u, info), Born(u) => info.name = targets[u].name
      PROVE  \A t \in Targets : Born(t) => targets'[t].name = targets[t].name
  <2>1. \A t \in Targets : IF t = u THEN targets'[t] = info ELSE targets'[t] = targets[t]
    BY <1>2, <1>3 DEF SetTarget
  <2> QED
    BY <1>3, <2>1
<1>4. \A nets, ip : ip \in IPChoices(u, nets) /\ "bridge" \in nets => ip \in IPs
  BY DEF IPChoices
<1>5. CASE CreateTarget(u)
  <2>1. PICK n, nets, ip :
          /\ nets # {} /\ ip \in IPChoices(u, nets) /\ FreeName(u, n) /\ ~Born(u)
          /\ SetTarget(u, [state |-> "running", name |-> n, ip |-> ip, nets |-> nets])
    BY <1>5, TargetsAssumption DEF CreateTarget, Born
  <2> DEFINE info == [state |-> "running", name |-> n, ip |-> ip, nets |-> nets]
  <2>2. info.nets = nets /\ info.name = n /\ info.ip = ip
    OBVIOUS
  <2> HIDE DEF info
  <2>3. HasAddress(info, "bridge") => info.ip \in IPs
    BY <1>4, <2>1, <2>2 DEF HasAddress, attachedTo
  <2>4. SetTarget(u, info)
    BY <2>1 DEF info
  <2> QED
    BY <1>2, <1>3, <2>1, <2>2, <2>3, <2>4, ConsistentStays
<1>6. ASSUME NEW info, SetTarget(u, info), Exists(targets[u]), info.name = targets[u].name,
             info.nets # {}, info.state = "running" => info.ip \in IPChoices(u, info.nets)
      PROVE  /\ Consistent(targets')
             /\ \A t \in Targets : Born(t) => targets'[t].name = targets[t].name
  <2>1. HasAddress(info, "bridge") => info.ip \in IPs
    BY <1>4, <1>6 DEF HasAddress, attachedTo, Running
  <2>2. FreeName(u, info.name)
    BY <1>6 DEF FreeName, Consistent
  <2> QED
    BY <1>2, <1>3, <1>6, <2>1, <2>2, ConsistentStays
<1>7. CASE StopTarget(u) \/ RemoveTarget(u) \/ StartTarget(u)
  <2>1. PICK st \in {"absent", "stopped", "running"}, ip \in IPs \cup {""} :
          /\ SetTarget(u, [targets[u] EXCEPT !.state = st, !.ip = ip])
          /\ Exists(targets[u])
          /\ st = "running" => ip \in IPChoices(u, targets[u].nets)
    BY <1>7 DEF StopTarget, RemoveTarget, StartTarget, IPChoices, Running, Exists
  <2> DEFINE info == [targets[u] EXCEPT !.state = st, !.ip = ip]
  <2>2. /\ info.state = st /\ info.ip = ip
        /\ info.name = targets[u].name /\ info.nets = targets[u].nets
    BY <1>2 DEF TargetInfo
  <2>3. SetTarget(u, info)
    BY <2>1
  <2> HIDE DEF info
  <2> QED
    BY <1>6, <2>1, <2>2, <2>3 DEF Consistent
<1>8. CASE ChangeNetworks(u)
  <2>1. PICK nets \in NetSets : \E ip :
          /\ ip \in IPChoices(u, nets) /\ Exists(targets[u])
          /\ SetTarget(u, [targets[u] EXCEPT !.nets = nets, !.ip = ip])
    BY <1>8 DEF ChangeNetworks, Running, Exists
  <2>2. PICK ip :
          /\ ip \in IPChoices(u, nets) /\ Exists(targets[u])
          /\ SetTarget(u, [targets[u] EXCEPT !.nets = nets, !.ip = ip])
    BY <2>1
  <2> DEFINE info == [targets[u] EXCEPT !.nets = nets, !.ip = ip]
  <2>3. info.nets = nets /\ info.ip = ip /\ info.name = targets[u].name
    BY <1>2 DEF TargetInfo
  <2>4. SetTarget(u, info)
    BY <2>2
  <2> HIDE DEF info
  <2> QED
    BY <1>6, <2>2, <2>3, <2>4, TargetsAssumption
<1> QED
  BY <1>1, <1>5, <1>7, <1>8

(* A route that is picked is a way to the target, by name or by address. *)
LEMMA PickedRoute ==
  ASSUME NEW info, NEW requested, NEW route \in pickTargetNetwork(info, requested)
  PROVE  /\ route.net # "" /\ HasAddress(info, route.net)
         /\ route.addr = targetAddress(info, route.net)
<1>1. \A net : Route(info, net).net = net /\ Route(info, net).addr = targetAddress(info, net)
  BY DEF Route
<1>2. CASE requested # ""
  <2>1. PICK net : route = Route(info, net) /\ HasAddress(info, net) /\ net = requested
    BY <1>2 DEF pickTargetNetwork, pickRequestedNetwork
  <2>2. route.net = net /\ route.addr = targetAddress(info, net)
    BY <1>1, <2>1
  <2> QED
    BY <1>2, <2>1, <2>2
<1>3. CASE requested = ""
  <2>1. PICK net : route = Route(info, net) /\ HasAddress(info, net) /\ net # ""
    BY <1>3, NetworksAssumption DEF pickTargetNetwork
  <2>2. route.net = net /\ route.addr = targetAddress(info, net)
    BY <1>1, <2>1
  <2> QED
    BY <2>1, <2>2
<1> QED
  BY <1>2, <1>3

(* So it fits the target it was picked for. *)
LEMMA PickedRouteFits ==
  ASSUME Consistent(targets), NEW t \in Targets, NEW requested,
         NEW route \in pickTargetNetwork(targets[t], requested)
  PROVE  RouteFits(route.net, route.addr, t)
<1>1. /\ route.net # "" /\ HasAddress(targets[t], route.net)
      /\ route.addr = targetAddress(targets[t], route.net)
  BY PickedRoute
<1>2. HasAddress(targets[t], "bridge") => targets[t].ip \in IPs
  BY DEF Consistent
<1>3. IF route.net = "bridge" THEN route.addr \in IPs ELSE route.addr = targets[t].name
  BY <1>1, <1>2 DEF targetAddress
<1> QED
  BY <1>1, <1>3 DEF RouteFits

(* Whoever acts, targets stay consistent, and those that were created keep *)
(* their names and are never created again.                                *)
LEMMA NamesStay ==
  ASSUME SafetyInv, Consistent(targets), "rename" \notin Allowed, [Next]_vars
  PROVE  /\ Consistent(targets')
         /\ \A t \in Targets : Born(t) => Born(t)' /\ targets'[t].name = targets[t].name
<1>1. CASE UNCHANGED targets
  BY <1>1 DEF Born
<1>2. CASE ~UNCHANGED targets
  <2>1. TargetStep
    BY <1>2, EnvironmentChange, OwnData DEF SafetyInv
  <2> QED
    BY <2>1, TargetsStayConsistent, TargetsLast DEF SafetyInv, Lasts
<1> QED
  BY <1>1, <1>2

(* The routes of forwards and helpers go on fitting. *)
LEMMA RoutesStayFit ==
  ASSUME SafetyInv, RouteInv, "rename" \notin Allowed, [Next]_vars
  PROVE  RouteInv'
<1> USE DEF SafetyInv, RouteInv
<1>1. /\ Consistent(targets')
      /\ \A t \in Targets : Born(t) => targets'[t].name = targets[t].name
  BY NamesStay
<1>2. ASSUME NEW net, NEW addr, NEW t \in Targets, Born(t), RouteFits(net, addr, t)
      PROVE  RouteFits(net, addr, t)'
  BY <1>1, <1>2 DEF RouteFits
<1>3. \A u \in Sessions : req[u].target \in Targets /\ cfg[u].target \in Targets
  BY RequestFields DEF TypeInv, TypeOK, DaemonTypeOK, HelperConfig
<1> DEFINE Under == BeforeCreate \ {"idle", "inspect"}
           Sent(u) == RouteFits(via[u].net, via[u].addr, req[u].target)
<1>4. ASSUME NEW u \in Sessions, pc'[u] \in Under PROVE Sent(u)'
  <2>1. CASE pc[u] \in Under /\ via'[u] = via[u] /\ req'[u] = req[u]
    BY <1>2, <1>3, <2>1 DEF RoutesFit, TargetsBorn
  <2>2. CASE \E s \in Sessions : Acts(s)
    <3>1. PICK s \in Sessions : Acts(s)
      BY <2>2
    <3>2. CASE u # s
      BY <1>4, <2>1, <3>1, <3>2, Locality, OwnMore
    <3>3. CASE u = s /\ ~InspectTarget(s)
      <4>1. pc[s] \in Under /\ ~Begin(s)
        BY <1>4, <3>1, <3>3, Arrivals, Transitions
      <4> QED
        BY <2>1, <3>1, <3>3, <4>1, OwnMore, OwnData
    <3>4. CASE u = s /\ InspectTarget(s)
      <4>1. pc'[s] # "failed"
        BY <1>4, <3>4 DEF BeforeCreate
      <4>2. PICK route \in pickTargetNetwork(targets[req[s].target], req[s].network) :
              via' = [via EXCEPT ![s] = route]
        BY <3>4, <4>1, FailType DEF InspectTarget, TypeInv
      <4>3. via'[s] = route /\ req' = req /\ targets' = targets
        BY <3>4, <4>2 DEF InspectTarget, daemonVars, TypeInv, TypeOK
      <4>4. RouteFits(route.net, route.addr, req[s].target)
        BY <1>3, <4>2, PickedRouteFits
      <4> QED
        BY <3>4, <4>3, <4>4 DEF RouteFits
    <3> QED
      BY <3>2, <3>3, <3>4
  <2>3. CASE ~\E s \in Sessions : Acts(s)
    BY <1>4, <2>1, <2>3, EnvironmentChange DEF sessionVars
  <2> QED
    BY <2>2, <2>3
<1>5. ASSUME NEW u \in Sessions, status'[u] # "none"
      PROVE  RouteFits(cfg[u].network, cfg[u].address, cfg[u].target)'
  <2>1. CASE status[u] # "none"
    BY <1>2, <1>3, <2>1, ExistingStays DEF RoutesFit, TargetsBorn, Persists
  <2>2. CASE status[u] = "none"
    <3>1. CreateHelper(u)
      BY <1>5, <2>2, SessionPersists, EnvironmentChange DEF Persists
    <3>2. cfg'[u] = buildHelperContainerConfig(u) /\ targets' = targets
      BY <1>5, <2>2, <3>1 DEF CreateHelper, Created, TypeInv, TypeOK, DaemonTypeOK
    <3>3. Sent(u)
      BY <3>1 DEF RoutesFit, CreateHelper, BeforeCreate
    <3>4. /\ cfg'[u].network = via[u].net /\ cfg'[u].address = via[u].addr
          /\ cfg'[u].target = req[u].target
      BY <3>2 DEF buildHelperContainerConfig
    <3> QED
      BY <3>2, <3>3, <3>4 DEF RouteFits
  <2> QED
    BY <2>1, <2>2
<1> QED
  BY <1>1, <1>4, <1>5 DEF RoutesFit

(* RouteInv is inductive beside SafetyInv, where nothing is renamed. *)
LEMMA RouteInvariant == ASSUME "rename" \notin Allowed PROVE Spec => [](SafetyInv /\ RouteInv)
<1>1. Init => RouteInv
  BY ConsistencyAssumption DEF Init, RouteInv, RoutesFit, BeforeCreate
<1>2. SafetyInv /\ RouteInv /\ [Next]_vars => RouteInv'
  BY RoutesStayFit
<1>3. SafetyInv /\ [Next]_vars => SafetyInv'
  BY NextInv
<1> QED
  BY <1>1, <1>2, <1>3, InitInv, PTL DEF Spec

(* Where nothing is renamed, the route of a forward under way, and the one  *)
(* recorded for every helper there is or was, names its target, or is an    *)
(* address on the bridge (pickTargetNetwork, buildHelperContainerConfig).   *)
THEOREM RoutesNameTargets == ASSUME "rename" \notin Allowed PROVE Spec => []RouteInv
<1>1. Spec => [](SafetyInv /\ RouteInv)
  BY RouteInvariant
<1> QED
  BY <1>1, PTL

(* A helper that CheckHelper lets pass reaches its running target. *)
LEMMA FreshReaches ==
  ASSUME SafetyInv, RouteInv, NEW h \in Sessions, status[h] # "none",
         ~CheckHelper(Labels(h), targets), Running(targets[cfg[h].target])
  PROVE  cfg[h].target \in Dials(Labels(h), targets)
<1> USE DEF SafetyInv, RouteInv
<1> DEFINE t     == cfg[h].target
           label == Labels(h)
<1>1. t \in Targets /\ DOMAIN targets = Targets /\ targets[t].name \in TargetNames
  BY DEF TypeInv, TypeOK, DaemonTypeOK, HelperConfig, TargetInfo
<1>2. label.target = t /\ label.network \notin Internal
      /\ RouteFits(label.network, label.address, t)
  BY DEF Labels, NetsUsable, RoutesFit
<1>3. ~CheckHelper(label, targets) /\ Running(targets[t]) /\ Exists(targets[t])
  BY DEF Running, Exists
<1> SUFFICES /\ HasAddress(targets[t], label.network)
             /\ targetAddress(targets[t], label.network) = label.address
  BY <1>1 DEF Dials
<1> HIDE DEF t, label
<1>4. CASE label.network = "bridge"
  <2>1. label.address \in IPs /\ label.address # ""
    BY <1>2, <1>4, NetworksAssumption DEF RouteFits
  <2>2. ~StaleByIP(label, targets)
    BY <1>2, <1>3, <1>4, <2>1 DEF CheckHelper
  <2> QED
    BY <1>2, <1>3, <1>4, <2>2 DEF StaleByIP, HasAddress, targetAddress
<1>5. CASE label.network # "bridge"
  <2>1. label.address = targets[t].name /\ label.address \notin IPs /\ label.address # ""
    BY <1>1, <1>2, <1>5, TargetsAssumption DEF RouteFits
  <2>2. ~StaleByName(label, targets)
    BY <1>2, <1>3, <2>1 DEF CheckHelper, RouteFits
  <2>3. PICK u \in Targets : /\ Exists(targets[u]) /\ targets[u].name = targets[t].name
                             /\ attachedTo(targets[u], label.network)
    BY <1>1, <2>1, <2>2 DEF StaleByName
  <2>4. u = t
    BY <1>1, <1>3, <2>3 DEF Consistent
  <2> QED
    BY <1>3, <1>5, <2>1, <2>3, <2>4 DEF HasAddress, targetAddress
<1> QED
  BY <1>4, <1>5

(* A forward that comes to an end at a helper it found has checked it. *)
LEMMA ReuseIsChecked ==
  ASSUME SafetyInv, [Next]_vars, NEW s \in Sessions, pc[s] = "check", pc'[s] = "done"
  PROVE  /\ helper[s] \in Sessions /\ status[helper[s]] # "none"
         /\ cfg[helper[s]].target = req[s].target
         /\ ~CheckHelper(Labels(helper[s]), targets)
         /\ UNCHANGED <<helper, status>>
<1> USE DEF SafetyInv
<1>1. PICK u \in Sessions : Acts(u)
  BY EnvironmentChange DEF sessionVars
<1>2. u = s
  BY <1>1, Locality
<1>3. CheckOverlapping(s)
  BY <1>1, <1>2, Arrivals, Transitions
<1>4. Goto(s, IF CheckHelper(Labels(helper[s]), targets) \/ RangeChanged(s, helper[s])
                 \/ NetworkChanged(s, helper[s]) THEN "replace" ELSE "done")
      \/ Fail(s, "other")
  BY <1>3 DEF CheckOverlapping
<1>5. ~CheckHelper(Labels(helper[s]), targets)
  <2>1. ~Fail(s, "other") /\ ~Goto(s, "replace")
    BY GotoType, FailType, PCValues DEF TypeInv
  <2> QED
    BY <1>4, <2>1
<1> QED
  BY <1>3, <1>5 DEF TypeInv, HelperAtHand, OthersExist, FoundMatches, Overlaps, CheckOverlapping,
     daemonVars

(* A forward reuses only a helper whose connections end at its target, if    *)
(* that is running when the helper is checked and nothing is ever renamed.   *)
THEOREM ReusedOnesReach ==
  ASSUME "rename" \notin Allowed PROVE Spec => ReusedReachesTarget
<1> DEFINE Reaches == \A s \in Sessions :
             pc[s] = "check" /\ pc'[s] = "done" /\ Running(targets[req[s].target])
               => req[s].target \in Dials(Labels(helper[s]), targets)
<1>1. SafetyInv /\ RouteInv /\ [Next]_vars => Reaches
  BY ReuseIsChecked, FreshReaches
<1>2. ReusedReachesTarget <=> [][Reaches]_vars
  BY DEF ReusedReachesTarget
<1> HIDE DEF Reaches
<1>3. Spec => [](SafetyInv /\ RouteInv)
  BY RouteInvariant
<1> QED
  BY <1>1, <1>2, <1>3, PTL DEF Spec

-----------------------------------------------------------------------------
(* One forward at a time. *)

(* The pairs a helper's label records are those its forward wanted. *)
LEMMA DecodedIsWanted ==
  ASSUME NEW ps PROVE DecodePortPairs(EncodePortPairs(ps)) \subseteq WantedPairs(ps)
<1> SUFFICES ASSUME NEW p \in DecodePortPairs(EncodePortPairs(ps)) PROVE p \in WantedPairs(ps)
  OBVIOUS
<1>1. PICK i \in DOMAIN ps :
        /\ p.local = ps[i].local /\ p.remote = ps[i].remote
        /\ p.proto = NormalizeProtocol(ps[i].proto)
  BY DecodedPair
<1>2. PICK l, r, q : p = [address |-> "", local |-> l, remote |-> r, proto |-> q]
  BY DEF DecodePortPairs
<1>3. p.local = l /\ p.remote = r /\ p.proto = q
  BY <1>2
<1>4. p = [address |-> "", local |-> ps[i].local, remote |-> ps[i].remote,
           proto |-> NormalizeProtocol(ps[i].proto)]
  BY <1>1, <1>2, <1>3
<1> QED
  BY <1>4 DEF WantedPairs

(* What the environment does to helpers: only the daemon starts one, which   *)
(* was restarting, none restarts but by its policy, and others stop one only *)
(* between forwards.                                                         *)
LEMMA EnvironmentStatus ==
  ASSUME SafetyInv, [Next]_vars, ~\E s \in Sessions : Acts(s), NEW h \in Sessions
  PROVE  /\ status'[h] = "running" => status[h] \in {"running", "restarting"}
         /\ status'[h] = "restarting" => status[h] = "restarting" \/ MayComeBack(h)
         /\ status'[h] # status[h] => status[h] \in {"restarting", "removing"} \/ Quiet
<1>1. TypeInv
  BY DEF SafetyInv
<1>2. CASE UNCHANGED status
  BY <1>2
<1>3. ASSUME NEW g \in Sessions, NEW st \in {"running", "restarting", "exited", "removing", "gone"},
             status' = [status EXCEPT ![g] = st],
             st = "running" => status[g] = "restarting",
             st = "restarting" => MayComeBack(g),
             Quiet \/ status[g] \in {"restarting", "removing"}
      PROVE  /\ status'[h] = "running" => status[h] \in {"running", "restarting"}
             /\ status'[h] = "restarting" => status[h] = "restarting" \/ MayComeBack(h)
             /\ status'[h] # status[h] => status[h] \in {"restarting", "removing"} \/ Quiet
  <2>1. IF h = g THEN status'[h] = st ELSE status'[h] = status[h]
    BY <1>1, <1>3, StatusType, StatusValues DEF TypeInv
  <2> QED
    BY <1>3, <2>1
<1>4. CASE Quiet /\ HelperStep
  <2>1. PICK g \in Sessions : ("exit" \in Allowed /\ HelperExit(g)) \/ ExternalRemove(g)
    BY <1>4 DEF HelperStep
  <2>2. PICK st \in {"restarting", "exited", "removing", "gone"} :
          status' = [status EXCEPT ![g] = st] /\ (st = "restarting" => MayComeBack(g))
    BY <2>1 DEF HelperExit, ExternalRemove, SetStatus, MayComeBack
  <2> QED
    BY <1>3, <1>4, <2>2
<1>5. CASE \E g \in Sessions : DaemonStep(g)
  <2>1. PICK g \in Sessions : DaemonStep(g)
    BY <1>5
  <2>2. \/ UNCHANGED status
        \/ /\ status[g] \in {"restarting", "removing"}
           /\ \E st \in {"running", "exited", "gone"} :
                /\ status' = [status EXCEPT ![g] = st]
                /\ st = "running" => status[g] = "restarting"
    BY <2>1 DEF DaemonStep, AutoRemoveDone, ReleasePorts, HelperRestart, SetStatus
  <2> QED
    BY <1>2, <1>3, <2>2
<1>6. TargetStep \/ HostStep \/ UNCHANGED daemonVars => UNCHANGED status
  BY DEF TargetStep, CreateTarget, StopTarget, StartTarget, RemoveTarget, RenameTarget,
     ChangeNetworks, SetTarget, HostStep, ForeignBind, ForeignClose, ImageRemoved, ImagePulled,
     daemonVars
<1> QED
  BY <1>2, <1>4, <1>5, <1>6, NextCases DEF Interference

(* A forward starts no helper but its own, and none restarts by its hand. *)
LEMMA StartsOwn ==
  ASSUME SafetyInv, NEW s \in Sessions, Acts(s), NEW h \in Sessions
  PROVE  /\ status'[h] = "restarting" => status[h] = "restarting"
         /\ status'[h] = "running" =>
              \/ status[h] = "running"
              \/ h = s /\ pc[s] = "start" /\ pc'[s] \in {"waitRunning", "startFailed"}
<1> USE DEF SafetyInv
<1>1. CASE CreateHelper(s)
  <2>1. status' = status \/ status' = [status EXCEPT ![s] = "created"]
    BY <1>1 DEF CreateHelper, Created
  <2> QED
    BY <2>1, StatusType, StatusValues DEF TypeInv
<1>2. CASE StartHelper(s)
  <2>1. \/ status' = status
        \/ ContainerRemove(s)
        \/ /\ status' = [status EXCEPT ![s] = "running"]
           /\ Goto(s, "waitRunning") \/ Goto(s, "startFailed")
    BY <1>2 DEF StartHelper, Started, StartRefused
  <2>2. pc[s] = "start"
    BY <1>2, Transitions
  <2>3. CASE ContainerRemove(s)
    BY <2>3, ContainerRemoveType DEF TypeInv
  <2>4. CASE status' = [status EXCEPT ![s] = "running"] /\ (Goto(s, "waitRunning") \/ Goto(s, "startFailed"))
    BY <2>2, <2>4, StatusType, StatusValues, GotoType, PCValues DEF TypeInv
  <2> QED
    BY <2>1, <2>3, <2>4
<1>3. CASE ~CreateHelper(s) /\ ~StartHelper(s)
  <2>1. CASE \E g : ContainerRemove(g)
    <3>1. PICK g : ContainerRemove(g)
      BY <2>1
    <3> QED
      BY <3>1, ContainerRemoveType DEF TypeInv
  <2>2. CASE status' = [status EXCEPT ![s] = "removing"]
    BY <2>2, StatusType, StatusValues DEF TypeInv
  <2>3. ~(status[s] = "created" /\ status' = [status EXCEPT ![s] = "running"])
    <3> SUFFICES ASSUME status[s] = "created", status' = [status EXCEPT ![s] = "running"]
                 PROVE  FALSE
      OBVIOUS
    <3>1. status'[s] = "running"
      BY StatusType, StatusValues DEF TypeInv
    <3>2. UNCHANGED status \/ ContainerRemove(s) \/ ContainerRemove(helper[s])
          \/ \E st : status' = [status EXCEPT ![s] = IF @ = "running" THEN st ELSE @]
      BY <1>3 DEF Acts, Begin, BeginWith, Cancel, Crash, Step, InspectTarget,
         findOverlappingHelper, CheckOverlapping, ReplaceHelper, RemoveOrphan, RemoveHelper,
         ListOrphans, InspectOrphan, Preflight, waitForHostPorts, ensureHelperImage, ImageEnsured,
         StartFailed, waitForRunning, AbortHelper, StopAttached, RemoveAttached, daemonVars
    <3>3. \A g : ~ContainerRemove(g)
      <4>1. \A g : ContainerRemove(g) => status'[s] \in {status[s], "gone"}
        BY DEF ContainerRemove, TypeInv, TypeOK, DaemonTypeOK
      <4> QED
        BY <3>1, <4>1
    <3>4. ~\E st : status' = [status EXCEPT ![s] = IF @ = "running" THEN st ELSE @]
      BY <3>1 DEF TypeInv, TypeOK, DaemonTypeOK
    <3> QED
      BY <3>1, <3>2, <3>3, <3>4
  <2> QED
    BY <1>3, <2>1, <2>2, <2>3, ContainerChange
<1> QED
  BY <1>1, <1>2, <1>3

(* A forward at work began its work while no other was busy. *)
LEMMA OneStaysAtWork ==
  ASSUME SafetyInv, OneAtWork, "serial" \in Allowed, [Next]_vars
  PROVE  OneAtWork'
<1> USE DEF SafetyInv
<1>1. CASE \E s \in Sessions : Acts(s)
  <2>1. PICK s \in Sessions : Acts(s)
    BY <1>1
  <2>2. \A u \in Sessions \ {s} : Working(u)' <=> Working(u)
    BY <2>1, Locality DEF Working, Busy
  <2>3. Begin(s) => \A u \in Sessions : ~Working(u)
    BY DEF Begin, BeginWith, Quiet, Working
  <2>4. Working(s)' => Working(s) \/ Begin(s)
    <3>1. CASE pc'[s] = pc[s]
      BY <3>1 DEF Working, Busy
    <3>2. CASE pc'[s] # pc[s]
      BY <2>1, <3>2, Transitions
      DEF Acts, Step, Cancel, Crash, Working, Busy, Ended, TypeInv, TypeOK
    <3> QED
      BY <3>1, <3>2
  <2> QED
    BY <2>2, <2>3, <2>4 DEF OneAtWork
<1>2. CASE ~\E s \in Sessions : Acts(s)
  BY <1>2, EnvironmentChange DEF OneAtWork, Working, Busy, sessionVars
<1> QED
  BY <1>1, <1>2

Searching == {"listOrphans", "orphans", "removeOrphan", "waitPorts", "image", "create", "start"}

(* What a forward found when it looked for a helper of its own pairs is so   *)
(* until it starts one.                                                      *)
LEMMA NoRivalStays ==
  ASSUME SafetyInv, SerialInv, "serial" \in Allowed, [Next]_vars
  PROVE  NoRival'
<1> USE DEF SafetyInv, SerialInv
<1> SUFFICES ASSUME NEW u \in Sessions, NEW h \in Sessions, pc'[u] \in Searching,
                    status'[h] = "running", cfg'[h].target = req'[u].target
             PROVE  (Recorded(h) \cap WantedPairs(pairs[u]))' = {} \/ MayComeBack(h)'
  BY DEF NoRival, Searching, Recorded, MayComeBack
<1>1. status[h] \in {"running", "restarting"}
  <2>1. CASE \E s \in Sessions : Acts(s)
    <3>1. PICK s \in Sessions : Acts(s)
      BY <2>1
    <3>2. ASSUME h = s, pc[s] = "start", pc'[s] \in {"waitRunning", "startFailed"} PROVE FALSE
      <4>1. u # s
        BY <3>2 DEF Searching
      <4>2. pc[u] \in Searching
        BY <3>1, <4>1, Locality
      <4>3. Working(u) /\ Working(s)
        BY <3>2, <4>2 DEF Working, Busy, Ended, Searching
      <4> QED
        BY <4>1, <4>3 DEF OneAtWork
    <3> QED
      BY <3>1, <3>2, StartsOwn
  <2>2. CASE ~\E s \in Sessions : Acts(s)
    BY <2>2, EnvironmentStatus
  <2> QED
    BY <2>1, <2>2
<1>2. cfg'[h] = cfg[h]
  BY <1>1, ExistingStays DEF Persists
<1>3. ASSUME MayComeBack(h) PROVE MayComeBack(h)'
  BY <1>2, <1>3 DEF MayComeBack
<1>4. ASSUME status[h] = "running", pc[u] \in Searching, req'[u] = req[u], pairs'[u] = pairs[u]
      PROVE  (Recorded(h) \cap WantedPairs(pairs[u]))' = {} \/ MayComeBack(h)'
  BY <1>2, <1>3, <1>4 DEF NoRival, Searching, Recorded
<1>5. CASE status[h] = "running" /\ \E s \in Sessions : Acts(s)
  <2>1. PICK s \in Sessions : Acts(s)
    BY <1>5
  <2>2. CASE u # s
    BY <1>4, <1>5, <2>1, <2>2, Locality
  <2>3. CASE u = s /\ pc[s] \in Searching
    <3>1. ~Begin(s)
      BY <2>3, Transitions DEF Searching
    <3> QED
      BY <1>4, <1>5, <2>1, <2>3, <3>1, OwnData
  <2>4. CASE u = s /\ pc[s] \notin Searching
    <3>1. findOverlappingHelper(s) /\ pc'[s] = "listOrphans"
      <4>1. pc'[s] \in Searching
        BY <2>4
      <4>2. TypeInv /\ pc \in [Sessions -> PCs]
        BY DEF TypeInv, TypeOK
      <4> HIDE DEF SafetyInv, SerialInv
      <4>3. ~Cancel(s) /\ ~Crash(s)
        BY <2>4, <4>1, <4>2 DEF Cancel, Crash, Searching
      <4>4. Begin(s) \/ Step(s)
        BY <2>1, <4>3 DEF Acts
      <4> QED
        BY <2>4, <4>1, <4>2, <4>4, Transitions DEF Step, Searching
    <3>2. {g \in Listed : Overlaps(s, g)} = {} /\ req' = req /\ pairs' = pairs
      BY <3>1, GotoType, FailType, PCValues DEF findOverlappingHelper, TypeInv
    <3>3. ~Overlaps(s, h)
      BY <1>5, <3>2 DEF Listed
    <3> QED
      BY <1>2, <2>4, <3>2, <3>3 DEF Overlaps, Recorded
  <2> QED
    BY <2>2, <2>3, <2>4
<1>6. CASE status[h] = "running" /\ ~\E s \in Sessions : Acts(s)
  BY <1>4, <1>6, EnvironmentChange DEF sessionVars
<1>7. CASE status[h] = "restarting"
  BY <1>3, <1>7
<1> QED
  BY <1>1, <1>5, <1>6, <1>7

(* A helper starts only where no other serves its pairs, unless the daemon *)
(* restarts one of the two.                                                *)
LEMMA NoDuplicateStays ==
  ASSUME SafetyInv, OwnConfig, SerialInv, "serial" \in Allowed, [Next]_vars
  PROVE  NoDuplicateHelper'
<1> USE DEF SafetyInv, SerialInv
<1> DEFINE Apart(g, h) ==
             g # h /\ cfg[g].target = cfg[h].target
               => Recorded(g) \cap Recorded(h) = {} \/ MayComeBack(g) \/ MayComeBack(h)
<1> SUFFICES ASSUME NEW g \in Sessions, NEW h \in Sessions,
                    status'[g] = "running", status'[h] = "running"
             PROVE  Apart(g, h)'
  BY DEF NoDuplicateHelper, Recorded, MayComeBack
<1>1. CASE status[g] = "running" /\ status[h] = "running"
  <2>1. cfg'[g] = cfg[g] /\ cfg'[h] = cfg[h]
    BY <1>1, ExistingStays DEF Persists
  <2> QED
    BY <1>1, <2>1 DEF NoDuplicateHelper, Recorded, MayComeBack
<1>2. ASSUME NEW a \in Sessions, NEW b \in Sessions, a # b,
             status[a] # "running", status'[a] = "running", status'[b] = "running"
      PROVE  Apart(a, b)'
  <2>1. CASE \E s \in Sessions : Acts(s)
    <3>1. PICK s \in Sessions : Acts(s)
      BY <2>1
    <3>2. a = s /\ pc[s] = "start" /\ pc'[s] # pc[s]
      BY <1>2, <3>1, StartsOwn
    <3>3. status[b] = "running"
      BY <1>2, <3>1, <3>2, StartsOwn
    <3>4. ~CreateHelper(s)
      BY <3>2, Transitions
    <3>5. cfg' = cfg
      BY <3>1, <3>4, ContainerChange
    <3>6. cfg[a] = buildHelperContainerConfig(a)
      BY <3>2 DEF OwnConfig, AfterCreate
    <3>7. cfg[a].target = req[a].target /\ cfg[a].pairs = pairs[a]
      BY <3>6 DEF buildHelperContainerConfig
    <3>8. Recorded(a) \subseteq WantedPairs(pairs[a])
      BY <3>7, DecodedIsWanted DEF Recorded
    <3>9. cfg[b].target = req[a].target
            => Recorded(b) \cap WantedPairs(pairs[a]) = {} \/ MayComeBack(b)
      BY <3>2, <3>3 DEF NoRival
    <3> QED
      BY <3>5, <3>7, <3>8, <3>9 DEF Recorded, MayComeBack
  <2>2. CASE ~\E s \in Sessions : Acts(s)
    <3>1. status[a] = "restarting"
      BY <1>2, <2>2, EnvironmentStatus
    <3>2. MayComeBack(a) /\ cfg' = cfg
      BY <2>2, <3>1, EnvironmentChange
    <3> QED
      BY <3>2 DEF MayComeBack
  <2> QED
    BY <2>1, <2>2
<1>3. CASE status[g] # "running" \/ status[h] # "running"
  <2>1. CASE g = h
    BY <2>1
  <2>2. CASE g # h
    BY <1>2, <1>3, <2>2
  <2> QED
    BY <2>1, <2>2
<1> QED
  BY <1>1, <1>3

(* SerialInv is inductive beside SafetyInv. *)
LEMMA SerialInvariant ==
  ASSUME "serial" \in Allowed
  PROVE  Spec => [](SafetyInv /\ OwnConfig /\ SerialInv)
<1>1. Init => OwnConfig /\ SerialInv
  BY DEF Init, OwnConfig, AfterCreate, SerialInv, OneAtWork, Working, Busy, NoRival,
     NoDuplicateHelper
<1>2. ASSUME SafetyInv, OwnConfig, SerialInv, [Next]_vars PROVE SerialInv'
  <2>1. ASSUME NEW h \in Sessions, status'[h] = "restarting" PROVE MayComeBack(h)'
    <3>1. CASE status[h] = "restarting"
      BY <1>2, <3>1, ExistingStays DEF SerialInv, MayComeBack, Persists
    <3>2. CASE status[h] # "restarting"
      <4>1. ~\E s \in Sessions : Acts(s)
        BY <1>2, <2>1, <3>2, StartsOwn
      <4>2. MayComeBack(h) /\ cfg' = cfg
        BY <1>2, <2>1, <3>2, <4>1, EnvironmentStatus, EnvironmentChange
      <4> QED
        BY <4>2 DEF MayComeBack
    <3> QED
      BY <3>1, <3>2
  <2> QED
    BY <1>2, <2>1, OneStaysAtWork, NoRivalStays, NoDuplicateStays DEF SerialInv
<1>3. SafetyInv /\ OwnConfig /\ [Next]_vars => SafetyInv' /\ OwnConfig'
  BY NextInv, OwnConfigStays
<1> QED
  BY <1>1, <1>2, <1>3, InitInv, PTL DEF Spec

(* Made one at a time, forwards have no rival: from findOverlappingHelper's  *)
(* answer that there is none until its own helper starts, no running helper *)
(* of the target serves a pair a forward wants, unless it may be one that   *)
(* exited and was restarted meanwhile.                                      *)
THEOREM ForwardsHaveNoRival ==
  ASSUME "serial" \in Allowed PROVE Spec => []SerialInv
<1>1. Spec => [](SafetyInv /\ OwnConfig /\ SerialInv)
  BY SerialInvariant
<1> QED
  BY <1>1, PTL

(* Made one at a time, forwards never have two running helpers serve the     *)
(* same pair of the same target, whatever happens to targets and helpers in  *)
(* between, unless helpers exit and one of the two has a restart policy that *)
(* may have brought it back.                                                 *)
THEOREM NoDuplicates ==
  ASSUME "serial" \in Allowed PROVE Spec => []NoDuplicateHelper
<1>1. Spec => [](SafetyInv /\ OwnConfig /\ SerialInv)
  BY SerialInvariant
<1>2. SerialInv => NoDuplicateHelper
  BY DEF SerialInv
<1> QED
  BY <1>1, <1>2, PTL

(* Where nothing is cancelled and one forward is at work, what another does *)
(* changes nothing but itself.                                              *)
LEMMA OthersAreStill ==
  ASSUME SafetyInv, SerialInv, TargetWaits, "serial" \in Allowed, NEW s \in Sessions, Acts(s),
         NEW u \in Sessions \ {s}, Working(u)
  PROVE  UNCHANGED daemonVars
<1> USE DEF SafetyInv
<1>1. ~Working(s)
  BY DEF SerialInv, OneAtWork
<1>2. pc[s] \in {"idle", "attached"} \cup Ended
  BY <1>1 DEF Working, Busy, TargetWaits
<1>3. ~Begin(s) /\ ~StopAttached(s)
  <2>1. Busy(u) /\ ~cancelled[s]
    BY DEF Working, TargetWaits
  <2> QED
    BY <2>1 DEF Begin, BeginWith, Quiet, StopAttached
<1>4. Cancel(s) \/ Crash(s)
  BY <1>2, <1>3, Transitions DEF Acts, Step, Ended
<1> QED
  BY <1>4 DEF Cancel, Crash

(* While a forward is at work its target waits. *)
LEMMA TargetStillWaits ==
  ASSUME SafetyInv, SerialInv, TargetWaits, "serial" \in Allowed, "cancel" \notin Allowed,
         [Next]_vars
  PROVE  TargetWaits'
<1> USE DEF SafetyInv
<1> DEFINE There(u) == via[u] \in pickTargetNetwork(targets[req[u].target], req[u].network)
           Ahead(u) == Working(u) /\ pc[u] # "inspect"
<1> SUFFICES ASSUME NEW u \in Sessions
             PROVE  /\ ~cancelled'[u] /\ pc'[u] # "removing"
                    /\ Ahead(u)' => There(u)'
  BY DEF TargetWaits
<1>1. CASE \E s \in Sessions : Acts(s)
  <2>1. PICK s \in Sessions : Acts(s)
    BY <1>1
  <2>2. cancelled' = cancelled
    <3>1. CASE RemoveHelper(s, "replace", "find") \/ RemoveHelper(s, "removeOrphan", "orphans")
               \/ CreateHelper(s) \/ StartHelper(s) \/ StartFailed(s) \/ Cancel(s)
      BY <3>1 DEF RemoveHelper, CreateHelper, StartHelper, StartFailed, Cancel, Interrupted
    <3>2. CASE Begin(s) \/ InspectTarget(s) \/ findOverlappingHelper(s) \/ CheckOverlapping(s)
               \/ ListOrphans(s) \/ InspectOrphan(s) \/ Preflight(s) \/ waitForHostPorts(s)
      BY <3>2 DEF Begin, BeginWith, InspectTarget, findOverlappingHelper, CheckOverlapping,
         ListOrphans, InspectOrphan, Preflight, waitForHostPorts
    <3>3. CASE ensureHelperImage(s) \/ waitForRunning(s) \/ AbortHelper(s) \/ StopAttached(s)
               \/ RemoveAttached(s) \/ Crash(s)
      BY <3>3 DEF ensureHelperImage, waitForRunning, AbortHelper, StopAttached, RemoveAttached,
         Crash
    <3> QED
      BY <2>1, <3>1, <3>2, <3>3 DEF Acts, Step, ReplaceHelper, RemoveOrphan
  <2>3. ASSUME Ahead(u)' PROVE There(u)'
    <3>1. targets' = targets
      BY <2>1, OwnData
    <3>2. CASE Ahead(u) /\ via'[u] = via[u] /\ req'[u] = req[u]
      BY <3>1, <3>2 DEF TargetWaits
    <3>3. CASE u # s
      BY <2>1, <2>3, <3>2, <3>3, Locality, OwnMore DEF Working, Busy
    <3>4. CASE u = s /\ InspectTarget(s)
      <4>1. pc'[s] # "failed"
        BY <2>3, <3>4 DEF Working, Busy, Ended
      <4>2. PICK route \in pickTargetNetwork(targets[req[s].target], req[s].network) :
              via' = [via EXCEPT ![s] = route]
        BY <3>4, <4>1, FailType DEF InspectTarget, TypeInv
      <4>3. via'[s] = route /\ req' = req
        BY <3>4, <4>2 DEF InspectTarget, TypeInv, TypeOK
      <4> QED
        BY <3>1, <3>4, <4>2, <4>3
    <3>5. CASE u = s /\ ~InspectTarget(s)
      <4>1. ~Begin(s) /\ Ahead(s)
        <5>1. CASE pc'[s] = pc[s]
          BY <2>3, <3>5, <5>1, Transitions DEF Working, Busy
        <5>2. CASE pc'[s] # pc[s]
          <6>1. pc'[s] \notin {"inspect", "removing"} \cup Ended
            BY <2>3, <3>5 DEF Working, Busy
          <6>2. ~Begin(s) /\ ~Cancel(s)
            BY <5>2, <6>1, Transitions DEF Cancel, Ended
          <6>3. ~Crash(s)
            BY <6>1 DEF Crash, Ended, TypeInv, TypeOK
          <6>4. Step(s) /\ ~StopAttached(s)
            BY <2>1, <6>1, <6>2, <6>3, Transitions DEF Acts
          <6>5. pc[s] \notin {"idle", "inspect", "attached", "removing"} \cup Ended
            BY <3>5, <6>4, Transitions DEF Step, Ended, TargetWaits
          <6> QED
            BY <6>2, <6>5 DEF Working, Busy
        <5> QED
          BY <5>1, <5>2
      <4> QED
        BY <2>1, <3>2, <3>5, <4>1, OwnMore, OwnData
    <3> QED
      BY <3>3, <3>4, <3>5
  <2>4. pc'[u] # "removing"
    <3>1. ~StopAttached(s)
      BY DEF StopAttached, TargetWaits
    <3>2. pc[u] # "removing"
      BY DEF TargetWaits
    <3>3. CASE u # s
      BY <2>1, <3>2, <3>3, Locality
    <3>4. CASE u = s /\ (Cancel(s) \/ Crash(s))
      BY <3>2, <3>4 DEF Cancel, Crash, TypeInv, TypeOK
    <3>5. CASE u = s /\ (Begin(s) \/ Step(s))
      BY <3>1, <3>2, <3>5, Transitions DEF Step
    <3> QED
      BY <2>1, <3>3, <3>4, <3>5 DEF Acts
  <2> QED
    BY <2>2, <2>3, <2>4 DEF TargetWaits
<1>2. CASE ~\E s \in Sessions : Acts(s)
  <2>1. UNCHANGED sessionVars
    BY <1>2, EnvironmentChange
  <2>2. ASSUME Working(u) PROVE UNCHANGED targets
    BY <1>2, <2>2, EnvironmentChange DEF Quiet, Working
  <2>3. /\ pc' = pc /\ cancelled' = cancelled /\ helper' = helper /\ req' = req /\ via' = via
    BY <2>1 DEF sessionVars
  <2>4. Ahead(u)' <=> Ahead(u)
    BY <2>3 DEF Working, Busy
  <2>5. Ahead(u) => There(u)'
    BY <2>2, <2>3 DEF TargetWaits
  <2> QED
    BY <2>3, <2>4, <2>5 DEF TargetWaits
<1> QED
  BY <1>1, <1>2

(* A forward at work finds the helpers it goes by as it saw them, running, and *)
(* its own too, once that was started.                                         *)
LEMMA HelpersStillWait ==
  ASSUME SafetyInv, SerialInv, TargetWaits, HelpersWait, "serial" \in Allowed, [Next]_vars
  PROVE  HelpersWait'
<1> USE DEF SafetyInv
<1> DEFINE Waiting == {"check", "replace", "orphans", "removeOrphan", "waitRunning"}
<1> SUFFICES ASSUME NEW u \in Sessions, pc'[u] \in Waiting
             PROVE  /\ pc'[u] \in {"check", "replace", "removeOrphan"} => status'[helper'[u]] = "running"
                    /\ pc'[u] \in {"orphans", "removeOrphan"} => \A h \in todo'[u] : status'[h] = "running"
                    /\ pc'[u] = "removeOrphan" => helper'[u] \notin todo'[u]
                    /\ pc'[u] = "waitRunning" => status'[u] = "running"
  BY DEF HelpersWait
<1>1. todo[u] \subseteq Sessions
  BY DEF TypeInv, TypeOK
<1>2. CASE /\ pc'[u] = pc[u] /\ helper'[u] = helper[u] /\ todo'[u] = todo[u]
           /\ \A h \in Sessions : status[h] = "running" => status'[h] = "running"
  BY <1>1, <1>2 DEF HelpersWait, TypeInv, HelperAtHand
<1>3. CASE \E s \in Sessions : Acts(s)
  <2>1. PICK s \in Sessions : Acts(s)
    BY <1>3
  <2>2. CASE u # s
    <3>1. pc'[u] = pc[u] /\ helper'[u] = helper[u] /\ todo'[u] = todo[u]
      BY <2>1, <2>2, Locality
    <3>2. Working(u)
      BY <3>1 DEF Working, Busy, Ended
    <3>3. status' = status
      BY <2>1, <2>2, <3>2, OthersAreStill DEF daemonVars
    <3> QED
      BY <1>2, <3>1, <3>3
  <2>3. CASE u = s /\ findOverlappingHelper(s)
    <3>1. pc'[s] = "check"
      BY <2>3, Transitions
    <3>2. PICK h \in Listed : helper' = [helper EXCEPT ![s] = h]
      BY <3>1, <2>3, GotoType, FailType, PCValues DEF findOverlappingHelper, TypeInv
    <3>3. helper'[s] = h /\ status' = status
      BY <2>3, <3>2, HelperType DEF Listed, findOverlappingHelper, daemonVars, TypeInv
    <3> QED
      BY <2>3, <3>1, <3>2, <3>3 DEF Listed
  <2>4. CASE u = s /\ CheckOverlapping(s)
    <3>1. pc[s] = "check" /\ pc'[s] = "replace"
      BY <2>4, Transitions
    <3>2. helper' = helper /\ status' = status
      BY <2>4 DEF CheckOverlapping, daemonVars
    <3> QED
      BY <2>4, <3>1, <3>2 DEF HelpersWait
  <2>5. CASE u = s /\ ListOrphans(s)
    <3>1. pc'[s] = "orphans" /\ ~Fail(s, "other") /\ status' = status
      BY <2>5, Transitions, FailType DEF ListOrphans, daemonVars, TypeInv
    <3>2. \E hs \in SUBSET Listed : todo' = [todo EXCEPT ![s] = hs]
      BY <2>5, <3>1 DEF ListOrphans
    <3>3. todo'[s] \subseteq Listed
      BY <3>2 DEF TypeInv, TypeOK
    <3> QED
      BY <2>5, <3>1, <3>3 DEF Listed
  <2>6. CASE u = s /\ InspectOrphan(s)
    <3>1. PICK h \in todo[s] :
            /\ todo' = [todo EXCEPT ![s] = todo[s] \ {h}]
            /\ Goto(s, "orphans") \/ helper' = [helper EXCEPT ![s] = h]
      BY <2>6 DEF InspectOrphan
    <3>2. todo'[s] = todo[s] \ {h} /\ pc[s] = "orphans" /\ status' = status /\ h \in Sessions
      BY <1>1, <2>6, <3>1, Transitions DEF InspectOrphan, daemonVars, TypeInv, TypeOK
    <3>3. pc'[s] = "removeOrphan" => helper'[s] = h
      BY <3>1, <3>2, GotoType, HelperType, PCValues DEF TypeInv
    <3> QED
      BY <2>6, <3>1, <3>2, <3>3, Transitions DEF HelpersWait
  <2>7. CASE u = s /\ RemoveOrphan(s)
    <3>1. pc'[s] = "orphans" /\ pc[s] = "removeOrphan" /\ ~Fail(s, "other")
      BY <2>7, Transitions, FailType DEF TypeInv
    <3>2. ContainerRemove(helper[s]) /\ todo' = todo
      BY <2>7, <3>1 DEF RemoveOrphan, RemoveHelper
    <3>3. \A h \in todo[s] : h \in Sessions /\ h # helper[s] /\ status[h] = "running"
      BY <1>1, <2>7, <3>1 DEF HelpersWait
    <3> QED
      BY <2>7, <3>1, <3>2, <3>3, ContainerRemoveType DEF TypeInv
  <2>8. CASE u = s /\ StartHelper(s)
    <3>1. pc'[s] = "waitRunning"
      BY <2>8, Transitions
    <3>2. Started(s)
      BY <2>8, <3>1, GotoType, PCValues DEF StartHelper, TypeInv
    <3>3. status'[s] = "running"
      BY <3>2 DEF Started, TypeInv, TypeOK, DaemonTypeOK
    <3> QED
      BY <2>8, <3>1, <3>3
  <2>9. CASE /\ u = s
             /\ ~(findOverlappingHelper(s) \/ CheckOverlapping(s) \/ ListOrphans(s)
                  \/ InspectOrphan(s) \/ RemoveOrphan(s) \/ StartHelper(s))
    <3>1. CASE Cancel(s)
      BY <1>2, <2>9, <3>1 DEF Cancel, daemonVars
    <3>2. CASE ~Cancel(s)
      BY <2>1, <2>9, <3>2, Transitions DEF Acts, Step, Crash, TypeInv, TypeOK
    <3> QED
      BY <3>1, <3>2
  <2> QED
    BY <2>2, <2>3, <2>4, <2>5, <2>6, <2>7, <2>8, <2>9
<1>4. CASE ~\E s \in Sessions : Acts(s)
  <2>1. pc' = pc /\ helper' = helper /\ todo' = todo
    BY <1>4, EnvironmentChange DEF sessionVars
  <2>2. ~Quiet
    BY <2>1 DEF Quiet, Busy, Ended
  <2> QED
    BY <1>2, <1>4, <2>1, <2>2, EnvironmentStatus
<1> QED
  BY <1>3, <1>4

(* A new helper that runs reaches the target its forward found. *)
LEMMA NewReaches ==
  ASSUME SafetyInv, OwnConfig, TargetWaits, HelpersWait, [Next]_vars,
         NEW s \in Sessions, pc[s] = "waitRunning", pc'[s] \in {"done", "attached"}
  PROVE  /\ status[helper[s]] = "running"
         /\ req[s].target \in Dials(Labels(helper[s]), targets)
<1> USE DEF SafetyInv
<1> DEFINE t == req[s].target
<1>1. PICK u \in Sessions : Acts(u)
  BY EnvironmentChange DEF sessionVars
<1>2. u = s
  BY <1>1, Locality
<1>3. waitForRunning(s)
  BY <1>1, <1>2, Transitions DEF Acts, Step, Cancel, Crash, TypeInv, TypeOK
<1>4. helper[s] = s /\ cfg[s] = buildHelperContainerConfig(s)
  BY DEF OwnHelper, OwnConfig, AfterCreate
<1>5. status[s] = "running"
  BY DEF HelpersWait
<1>6. via[s] \in pickTargetNetwork(targets[t], req[s].network)
  BY DEF TargetWaits, Working, Busy, Ended
<1>7. HasAddress(targets[t], via[s].net) /\ via[s].addr = targetAddress(targets[t], via[s].net)
  BY <1>6, PickedRoute
<1>8. Labels(s).network = via[s].net /\ Labels(s).address = via[s].addr
  BY <1>4 DEF Labels, buildHelperContainerConfig
<1>9. t \in DOMAIN targets
  BY RequestFields DEF TypeInv, TypeOK, DaemonTypeOK
<1> QED
  BY <1>4, <1>5, <1>7, <1>8, <1>9 DEF Dials

(* So does an existing one that is returned: the target runs, and the helper *)
(* was found running and is fresh.                                           *)
LEMMA ExistingReaches ==
  ASSUME SafetyInv, RouteInv, TargetWaits, HelpersWait, [Next]_vars,
         NEW s \in Sessions, pc[s] = "check", pc'[s] \in {"done", "attached"}
  PROVE  /\ status[helper[s]] = "running"
         /\ req[s].target \in Dials(Labels(helper[s]), targets)
<1>1. PICK u \in Sessions : Acts(u)
  BY EnvironmentChange DEF sessionVars
<1>2. u = s
  BY <1>1, Locality DEF SafetyInv
<1>3. pc'[s] = "done"
  BY <1>1, <1>2, Transitions DEF Acts, Step, Cancel, Crash, SafetyInv, TypeInv, TypeOK
<1>4. status[helper[s]] = "running"
  BY DEF HelpersWait
<1>5. via[s] \in pickTargetNetwork(targets[req[s].target], req[s].network)
  BY DEF TargetWaits, Working, Busy, Ended
<1>6. Running(targets[req[s].target])
  BY <1>5, PickedRoute DEF HasAddress
<1> QED
  BY <1>3, <1>4, <1>6, ReuseIsChecked, FreshReaches

(* Made one at a time and not cancelled, forwards keep what they go by. *)
LEMMA WaitInvariant ==
  ASSUME "serial" \in Allowed, "cancel" \notin Allowed
  PROVE  Spec => [](SafetyInv /\ OwnConfig /\ SerialInv /\ TargetWaits /\ HelpersWait)
<1>1. Spec => [](SafetyInv /\ OwnConfig /\ SerialInv)
  BY SerialInvariant
<1>2. Init => TargetWaits /\ HelpersWait
  BY DEF Init, TargetWaits, HelpersWait, Working, Busy
<1>3. SafetyInv /\ SerialInv /\ TargetWaits /\ [Next]_vars => TargetWaits'
  BY TargetStillWaits
<1>4. SafetyInv /\ SerialInv /\ TargetWaits /\ HelpersWait /\ [Next]_vars => HelpersWait'
  BY HelpersStillWait
<1> QED
  BY <1>1, <1>2, <1>3, <1>4, PTL DEF Spec

(* Made one at a time and not cancelled, a forward comes to rest on a helper, *)
(* new or existing, that runs and reaches the target, however helpers exit    *)
(* and come back between forwards.                                            *)
THEOREM ReturnedOnesReach ==
  ASSUME "serial" \in Allowed, Allowed \cap {"cancel", "rename"} = {}
  PROVE  Spec => ReturnedReachesTarget
<1> DEFINE Reaches == \A s \in Sessions :
             pc[s] \in {"check", "waitRunning"} /\ pc'[s] \in {"done", "attached"}
               => /\ status[helper[s]] = "running"
                  /\ req[s].target \in Dials(Labels(helper[s]), targets)
<1>1. /\ Spec => [](SafetyInv /\ OwnConfig /\ SerialInv /\ TargetWaits /\ HelpersWait)
      /\ Spec => [](SafetyInv /\ RouteInv)
  BY WaitInvariant, RouteInvariant
<1>2. SafetyInv /\ OwnConfig /\ RouteInv /\ TargetWaits /\ HelpersWait /\ [Next]_vars => Reaches
  BY NewReaches, ExistingReaches
<1>3. ReturnedReachesTarget <=> [][Reaches]_vars
  BY DEF ReturnedReachesTarget
<1> HIDE DEF Reaches
<1> QED
  BY <1>1, <1>2, <1>3, PTL DEF Spec

-----------------------------------------------------------------------------
(* What a forward loses. *)

(* Nobody cancels, no call fails, and every address can be published. *)
Untroubled == Allowed \cap {"cancel", "fault"} = {} /\ HostIPv6

(* A container that is gone is gone for good. *)
LEMMA GoneStays ==
  ASSUME SafetyInv, [Next]_vars, NEW h \in Sessions, status[h] = "gone"
  PROVE  status'[h] = "gone"
<1> USE DEF SafetyInv
<1>1. CASE \E s \in Sessions : Acts(s)
  <2>1. PICK s \in Sessions : Acts(s)
    BY <1>1
  <2>2. CASE CreateHelper(s)
    <3>1. status' = status \/ status' = [status EXCEPT ![s] = "created"]
      BY <2>2 DEF CreateHelper, Created
    <3>2. status[s] = "none"
      BY <2>2, Transitions DEF NoHelperYet, BeforeCreate
    <3> QED
      BY <3>1, <3>2, StatusType, StatusValues DEF TypeInv
  <2>3. CASE \E g : ContainerRemove(g)
    BY <2>3, ContainerRemoveType DEF TypeInv, Alive
  <2>4. CASE /\ status[s] \in {"created", "running"}
             /\ \E st \in {"running", "removing"} : status' = [status EXCEPT ![s] = st]
    BY <2>4, StatusType, StatusValues DEF TypeInv
  <2> QED
    BY <2>1, <2>2, <2>3, <2>4, ContainerChange
<1>2. CASE ~\E s \in Sessions : Acts(s)
  <2>1. Removed(h)' /\ status'[h] # "none"
    BY ExistingStays DEF Persists, Removed
  <2>2. ASSUME NEW g \in Sessions, NEW st \in Status, status' = [status EXCEPT ![g] = st],
               status[g] # "gone"
        PROVE  status'[h] = "gone"
    BY <2>2, StatusType DEF TypeInv
  <2>3. HelperStep \/ (\E g \in Sessions : DaemonStep(g)) =>
          \/ UNCHANGED status
          \/ \E g \in Sessions : status[g] # "gone" /\
               \E st \in {"running", "restarting", "exited", "removing", "gone"} :
                 status' = [status EXCEPT ![g] = st]
    BY DEF HelperStep, HelperExit, ExternalRemove, DaemonStep, AutoRemoveDone, ReleasePorts,
       HelperRestart, SetStatus, Alive
  <2>4. TargetStep \/ HostStep \/ UNCHANGED daemonVars => UNCHANGED status
    BY DEF TargetStep, CreateTarget, StopTarget, StartTarget, RemoveTarget, RenameTarget,
       ChangeNetworks, SetTarget, HostStep, ForeignBind, ForeignClose, ImageRemoved, ImagePulled,
       daemonVars
  <2> QED
    BY <1>2, <2>2, <2>3, <2>4, NextCases, StatusValues DEF Interference
<1> QED
  BY <1>1, <1>2

(* While a forward is busy nobody else touches the image, and only the *)
(* daemon finishes what it has begun.                                  *)
LEMMA BusyEnvironment ==
  ASSUME SafetyInv, ~Quiet, [Next]_vars, ~\E s \in Sessions : Acts(s), NEW h \in Sessions,
         status[h] \notin {"restarting", "removing"}
  PROVE  status'[h] = status[h] /\ image' = image
<1>1. status'[h] = status[h]
  BY EnvironmentStatus
<1>2. image' = image
  BY NextCases DEF DaemonStep, AutoRemoveDone, ReleasePorts, HelperRestart, SetStatus, daemonVars
<1> QED
  BY <1>1, <1>2

(* What the start of its own helper makes of a forward. *)
LEMMA StartComesOut ==
  ASSUME SafetyInv, OwnConfig, TargetWaits, LossInv, Untroubled, NEW s \in Sessions, StartHelper(s)
  PROVE  /\ pc'[s] = "start" => status'[s] = "created" \/ RefusedAndGone(s)'
         /\ pc'[s] = "startFailed" => err'[s] = "port" \/ RefusedAndGone(s)'
<1> USE DEF SafetyInv
<1>1. /\ pc[s] = "start" /\ ~Fails(s) /\ ~Interrupted(s)
      /\ req' = req /\ removed' = removed
      /\ status[s] = "created" \/ RefusedAndGone(s)
  BY DEF StartHelper, Fails, Interrupted, TargetWaits, Untroubled, LossInv, OwnStarts
<1>2. cfg[s].detach = req[s].detach
  <2>1. cfg[s] = buildHelperContainerConfig(s)
    BY <1>1 DEF OwnConfig, AfterCreate
  <2> QED
    BY <2>1 DEF buildHelperContainerConfig
<1>3. CASE Started(s) /\ Goto(s, "waitRunning")
  BY <1>3, GotoType, PCValues DEF TypeInv
<1>4. CASE StartRefused(s) /\ status[s] = "created" /\ retryStart(s) /\ Goto(s, "start")
  <2>1. pc'[s] = "start"
    BY <1>4, GotoType, PCValues DEF TypeInv
  <2>2. status' = status \/ (~cfg[s].detach /\ status'[s] = "gone")
    BY <1>4, ContainerRemoveType DEF StartRefused, TypeInv, Alive
  <2> QED
    BY <1>1, <1>2, <1>4, <2>1, <2>2 DEF RefusedAndGone, retryStart
<1>5. CASE Goto(s, "startFailed") /\ err' = [err EXCEPT ![s] = "port"]
  BY <1>5, GotoType, PCValues DEF TypeInv, TypeOK
<1>6. CASE Goto(s, "startFailed") /\ status' = status /\ status[s] # "created"
  <2>1. pc'[s] = "startFailed"
    BY <1>6, GotoType, PCValues DEF TypeInv
  <2> QED
    BY <1>1, <1>6, <2>1 DEF RefusedAndGone, retryStart
<1> QED
  BY <1>1, <1>3, <1>4, <1>5, <1>6 DEF StartHelper, Untroubled

(* The removal of the helper at hand. *)
LEMMA HelperIsGone ==
  ASSUME SafetyInv, HelpersWait, NEW s \in Sessions, ReplaceHelper(s) \/ RemoveOrphan(s),
         NEW h \in removed'[s] \ removed[s]
  PROVE  status'[h] = "gone"
<1> USE DEF SafetyInv
<1>1. \/ removed' = removed
      \/ removed' = [removed EXCEPT ![s] = @ \cup {helper[s]}] /\ ContainerRemove(helper[s])
  BY DEF ReplaceHelper, RemoveOrphan, RemoveHelper
<1>2. h = helper[s] /\ ContainerRemove(helper[s])
  <2>1. removed' # removed
    OBVIOUS
  <2>2. removed'[s] = removed[s] \cup {helper[s]} /\ ContainerRemove(helper[s])
    BY <1>1, <2>1 DEF TypeInv, TypeOK
  <2> QED
    BY <2>2
<1>3. pc[s] \in {"replace", "removeOrphan"}
  BY Transitions
<1>4. h \in Sessions /\ status[h] = "running"
  BY <1>2, <1>3 DEF TypeInv, HelperAtHand, HelpersWait
<1> QED
  BY <1>2, <1>4, ContainerRemoveType DEF TypeInv, Alive

(* What a forward has removed is gone for good. *)
LEMMA RemovedStayGone ==
  ASSUME SafetyInv, HelpersWait, RemovedAreGone, [Next]_vars
  PROVE  RemovedAreGone'
<1> USE DEF SafetyInv
<1> SUFFICES ASSUME NEW u \in Sessions
             PROVE  /\ \A h \in removed'[u] : status'[h] = "gone"
                    /\ pc'[u] \in {"idle", "inspect"} => removed'[u] = {}
  BY DEF RemovedAreGone
<1>1. \A h \in Sessions : status[h] = "gone" => status'[h] = "gone"
  BY GoneStays
<1>2. removed[u] \subseteq Sessions
  BY DEF TypeInv, TypeOK
<1>3. CASE pc'[u] = pc[u] /\ removed'[u] = removed[u]
  BY <1>1, <1>2, <1>3 DEF RemovedAreGone
<1>4. CASE \E s \in Sessions : Acts(s)
  <2>1. PICK s \in Sessions : Acts(s)
    BY <1>4
  <2>2. CASE u # s
    BY <1>3, <2>1, <2>2, Locality, OwnMore
  <2>3. CASE u = s /\ (ReplaceHelper(s) \/ RemoveOrphan(s))
    <3>1. pc'[s] \notin {"idle", "inspect"}
      BY <2>3, Transitions
    <3> QED
      BY <1>1, <1>2, <2>3, <3>1, HelperIsGone DEF RemovedAreGone
  <2>4. CASE u = s /\ ~(ReplaceHelper(s) \/ RemoveOrphan(s))
    <3>1. removed' = removed
      BY <2>1, <2>4, OwnMore
    <3>2. pc'[s] \in {"idle", "inspect"} => pc[s] \in {"idle", "inspect"}
      BY <2>1, Transitions DEF Acts, Step, Cancel, Crash, TypeInv, TypeOK
    <3> QED
      BY <1>1, <1>2, <2>4, <3>1, <3>2 DEF RemovedAreGone
  <2> QED
    BY <2>2, <2>3, <2>4
<1>5. CASE ~\E s \in Sessions : Acts(s)
  BY <1>3, <1>5, EnvironmentChange DEF sessionVars
<1> QED
  BY <1>4, <1>5

(* A forward that gets as far as to start its helper has it started, unless *)
(* the daemon refuses, and then never finds it not running.                 *)
LEMMA OwnStartsStay ==
  ASSUME SafetyInv, OwnConfig, SerialInv, TargetWaits, LossInv, "serial" \in Allowed, Untroubled,
         [Next]_vars
  PROVE  OwnStarts'
<1> USE DEF SafetyInv
<1> DEFINE Late == {"create", "start", "startFailed", "abort"}
<1> SUFFICES ASSUME NEW u \in Sessions, pc'[u] \in Late
             PROVE  /\ pc'[u] = "create" => image'
                    /\ pc'[u] = "start" => status'[u] = "created" \/ RefusedAndGone(u)'
                    /\ pc'[u] = "startFailed" => err'[u] = "port" \/ RefusedAndGone(u)'
                    /\ pc'[u] # "abort"
  BY DEF OwnStarts, RefusedAndGone, retryStart
<1>1. CASE /\ pc'[u] = pc[u] /\ image' = image /\ status'[u] = status[u] /\ err'[u] = err[u]
           /\ req'[u] = req[u] /\ removed'[u] = removed[u]
  BY <1>1 DEF LossInv, OwnStarts, RefusedAndGone, retryStart
<1>2. CASE \E s \in Sessions : Acts(s)
  <2>1. PICK s \in Sessions : Acts(s)
    BY <1>2
  <2>2. CASE u # s
    <3>1. pc'[u] = pc[u] /\ err'[u] = err[u] /\ req'[u] = req[u] /\ removed'[u] = removed[u]
      BY <2>1, <2>2, Locality, OwnMore
    <3>2. Working(u)
      BY <3>1 DEF Working, Busy, Ended
    <3>3. UNCHANGED daemonVars
      BY <2>1, <2>2, <3>2, OthersAreStill
    <3> QED
      BY <1>1, <3>1, <3>3 DEF daemonVars
  <2>3. CASE u = s /\ StartHelper(s)
    BY <2>3, StartComesOut, Transitions
  <2>4. CASE u = s /\ CreateHelper(s)
    <3>1. pc'[s] = "start" /\ ~Fail(s, "other")
      BY <2>4, Transitions, FailType DEF TypeInv
    <3>2. status' = [status EXCEPT ![s] = "created"]
      BY <2>4, <3>1 DEF CreateHelper, Created
    <3> QED
      BY <2>4, <3>1, <3>2, StatusType, StatusValues DEF TypeInv
  <2>5. CASE u = s /\ ensureHelperImage(s)
    <3>1. pc'[s] = "create" /\ ~Fail(s, "other")
      BY <2>5, Transitions, FailType DEF TypeInv
    <3>2. image'
      BY <2>5, <3>1 DEF ensureHelperImage, ImageEnsured
    <3> QED
      BY <2>5, <3>1, <3>2
  <2>6. CASE u = s /\ waitForRunning(s)
    <3>1. status[s] = "running" /\ ~Fails(s)
      BY <2>6, Transitions DEF LossInv, HelpersWait, Fails, TargetWaits, Untroubled
    <3>2. Goto(s, "done") \/ Goto(s, "attached")
      BY <2>6, <3>1 DEF waitForRunning
    <3> QED
      BY <2>6, <3>2, GotoType, PCValues DEF TypeInv
  <2>7. CASE /\ u = s
             /\ ~(StartHelper(s) \/ CreateHelper(s) \/ ensureHelperImage(s) \/ waitForRunning(s))
    <3>1. ~Cancel(s)
      BY DEF Cancel, Untroubled
    <3>2. FALSE
      BY <2>1, <2>7, <3>1, Transitions DEF Acts, Step, Crash, TypeInv, TypeOK
    <3> QED
      BY <3>2
  <2> QED
    BY <2>2, <2>3, <2>4, <2>5, <2>6, <2>7
<1>3. CASE ~\E s \in Sessions : Acts(s)
  <2>1. UNCHANGED sessionVars
    BY <1>3, EnvironmentChange
  <2>2. pc'[u] = pc[u] /\ err'[u] = err[u] /\ req'[u] = req[u] /\ removed'[u] = removed[u]
    BY <2>1 DEF sessionVars
  <2>3. ~Quiet
    BY <2>2 DEF Quiet, Busy, Ended
  <2>4. status[u] \notin {"restarting", "removing"} => UNCHANGED image /\ status'[u] = status[u]
    BY <1>3, <2>3, BusyEnvironment
  <2>5. CASE pc[u] \in {"create", "start"}
    <3>1. status[u] \in {"none", "created", "gone"}
      BY <2>5 DEF NoHelperYet, BeforeCreate, LossInv, OwnStarts, RefusedAndGone
    <3> QED
      BY <1>1, <2>2, <2>4, <3>1
  <2>6. CASE pc[u] = "startFailed"
    <3>1. RefusedAndGone(u) => status'[u] = status[u]
      BY <2>4 DEF RefusedAndGone
    <3> QED
      BY <2>2, <2>6, <3>1 DEF LossInv, OwnStarts, RefusedAndGone, retryStart
  <2>7. pc[u] # "abort"
    BY DEF LossInv, OwnStarts
  <2> QED
    BY <2>2, <2>5, <2>6, <2>7
<1> QED
  BY <1>2, <1>3

(* A step that fails after a removal fails for one of the reasons named. *)
LEMMA FailureExplained ==
  ASSUME SafetyInv, SerialInv, TargetWaits, LossInv, Untroubled, [Next]_vars,
         NEW s \in Sessions, removed[s] # {}, pc[s] # "failed", pc'[s] = "failed"
  PROVE  \/ err'[s] = "port"
         \/ pc[s] = "image" /\ ImageMissing(s)
         \/ pc[s] = "create" /\ NamedAlike(s)
         \/ pc[s] = "startFailed" /\ RefusedAndGone(s)
<1> USE DEF SafetyInv
<1>1. PICK u \in Sessions : Acts(u)
  BY EnvironmentChange DEF sessionVars
<1>2. u = s
  BY <1>1, Locality
<1>3. ~Fails(s) /\ ~Interrupted(s) /\ ~cancelled[s]
  BY DEF Fails, Interrupted, TargetWaits, Untroubled
<1>4. ASSUME Fail(s, "port") PROVE err'[s] = "port"
  BY <1>4 DEF Fail, TypeInv, TypeOK
<1>5. CASE Begin(s) \/ InspectTarget(s) \/ AbortHelper(s)
  BY <1>5, Transitions DEF LossInv, RemovedAreGone, OwnStarts
<1>6. CASE findOverlappingHelper(s) \/ CheckOverlapping(s) \/ ReplaceHelper(s) \/ ListOrphans(s)
           \/ RemoveOrphan(s)
  <2>1. \E to \in {"check", "listOrphans", "replace", "done", "find", "orphans"} : Goto(s, to)
    BY <1>3, <1>6 DEF findOverlappingHelper, CheckOverlapping, ReplaceHelper, ListOrphans,
       RemoveOrphan, RemoveHelper
  <2> QED
    BY <2>1, GotoType, PCValues DEF TypeInv
<1>7. CASE Preflight(s) \/ waitForHostPorts(s)
  <2>1. Goto(s, "image") \/ Goto(s, "waitPorts") \/ Fail(s, "port")
    BY <1>3, <1>7 DEF Preflight, waitForHostPorts
  <2> QED
    BY <1>4, <2>1, GotoType, PCValues DEF TypeInv
<1>8. CASE ensureHelperImage(s)
  <2>1. ~Goto(s, "create")
    BY GotoType, PCValues DEF TypeInv
  <2> QED
    BY <1>3, <1>8, <2>1 DEF ensureHelperImage, ImageMissing
<1>9. CASE CreateHelper(s)
  <2>1. pc[s] = "create" /\ image
    BY <1>9 DEF CreateHelper, LossInv, OwnStarts
  <2>2. Goto(s, "start") \/ NameTaken(s)
    BY <1>3, <1>9, <2>1 DEF CreateHelper
  <2>3. NameTaken(s)
    BY <2>2, GotoType, PCValues DEF TypeInv
  <2>4. \A h \in removed[s] \cup {s} : status[h] \in {"none", "gone"}
    BY <2>1 DEF LossInv, RemovedAreGone, NoHelperYet, BeforeCreate
  <2> QED
    BY <2>1, <2>3, <2>4 DEF NameTaken, NamedAlike, Alive
<1>10. CASE StartFailed(s)
  <2>1. pc[s] = "startFailed" /\ err' = err
    BY <1>10 DEF StartFailed
  <2> QED
    BY <2>1 DEF LossInv, OwnStarts
<1> QED
  BY <1>1, <1>2, <1>5, <1>6, <1>7, <1>8, <1>9, <1>10, Transitions
  DEF Acts, Step, Cancel, Crash, TypeInv, TypeOK

(* LossInv is inductive beside the others, where no call fails. *)
LEMMA LossInvariant ==
  ASSUME "serial" \in Allowed, Untroubled
  PROVE  Spec => [](SafetyInv /\ SerialInv /\ TargetWaits /\ LossInv)
<1>1. Spec => [](SafetyInv /\ OwnConfig /\ SerialInv /\ TargetWaits /\ HelpersWait)
  BY WaitInvariant DEF Untroubled
<1>2. Init => LossInv
  BY DEF Init, LossInv, HelpersWait, RemovedAreGone, OwnStarts
<1>3. ASSUME SafetyInv, OwnConfig, SerialInv, TargetWaits, LossInv, [Next]_vars
      PROVE  LossInv'
  <2>1. HelpersWait /\ RemovedAreGone
    BY <1>3 DEF LossInv
  <2> QED
    BY <1>3, <2>1, HelpersStillWait, RemovedStayGone, OwnStartsStay DEF LossInv
<1> QED
  BY <1>1, <1>2, <1>3, PTL DEF Spec

(* Made one at a time, where no call fails and nobody cancels, a forward    *)
(* finds the helpers it saw still running, what it removes is gone at once, *)
(* the image it ensured is there when it creates its helper, and that       *)
(* helper runs unless its start was refused.                                *)
THEOREM RemovedOnesAreReplaced ==
  ASSUME "serial" \in Allowed, Untroubled PROVE Spec => []LossInv
<1>1. Spec => [](SafetyInv /\ SerialInv /\ TargetWaits /\ LossInv)
  BY LossInvariant
<1> QED
  BY <1>1, PTL

(* Made one at a time, where no call fails and nobody cancels, a forward that *)
(* removed a helper and then fails was refused a host port, had asked for an  *)
(* image that must be there and is not, wants a name that is another          *)
(* helper's, or lost its attached helper to a refused start.                  *)
THEOREM LossesAreExplained ==
  ASSUME "serial" \in Allowed, Untroubled PROVE Spec => LossIsExplained
<1> DEFINE Explained == \A s \in Sessions :
             removed[s] # {} /\ pc[s] # "failed" /\ pc'[s] = "failed"
               => \/ err'[s] = "port"
                  \/ pc[s] = "image" /\ ImageMissing(s)
                  \/ pc[s] = "create" /\ NamedAlike(s)
                  \/ pc[s] = "startFailed" /\ RefusedAndGone(s)
<1>1. Spec => [](SafetyInv /\ SerialInv /\ TargetWaits /\ LossInv)
  BY LossInvariant
<1>2. SafetyInv /\ SerialInv /\ TargetWaits /\ LossInv /\ [Next]_vars => Explained
  BY FailureExplained
<1>3. LossIsExplained <=> [][Explained]_vars
  BY DEF LossIsExplained
<1> HIDE DEF Explained
<1> QED
  BY <1>1, <1>2, <1>3, PTL DEF Spec
=============================================================================
