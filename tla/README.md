# A TLA+ model of docker-port-forward

`docker port-forward` publishes ports of a running container on the host by
starting a *helper* container (socat) on one of the target's networks. All
durable state is in the Docker daemon: a helper carries labels that say which
target it serves, which pairs, on which network and what it dials. Every run
of the program reads those labels, decides, and acts, with no lock between any
two of its calls. This directory models that, checks it with TLC on small
instances, and proves most of it with TLAPS for every instance.

Paths below are relative to the repository; `forward.go`, `drift.go`,
`ports.go`, `target.go`, `probe.go`, `restart.go` and `source_range.go` are the
files of `internal/`, `portforward/forward.go` is the library's entry.

## The system

| Component | State | Operations | What makes it correct |
|---|---|---|---|
| StartForward (`forward.go` 145-333) | locals of one call | inspect target, find / check / replace helpers, remove orphans, preflight, image, create, start, wait, block, tear down | nothing left behind on any error path; removes only what it may; what it reuses fits the request; it returns |
| Drift detection (`drift.go`, `forward.go` 744-835) | none, reads labels and the daemon | pick a network, `CheckHelper`, `removeOrphanedHelpers` | stale only if the helper cannot reach its target; not stale means it does |
| Pairs, addresses, labels (`ports.go`, `forward.go` 377-413, 950-1033) | none | parse, validate, normalise, expand, encode, decode | what is accepted survives the text of the labels and can be bound |
| Host ports (`forward.go` 335-375, 415-508) | sockets bound for a moment | automatic ports, preflight, wait for release, retry the start | a port error is never the forward's own doing |
| List and cleanup (`portforward/list.go`, `cleanup.go`, `forward.go` 906-948) | locals of one call | find by name or target, check, remove, exit code | complete, removes nothing it did not list, and 0 means gone |
| Forward, library entry (`portforward/forward.go`) | locals of one call | validate and parse options, resolve, probe, call StartForward | argument errors come before any call; serves what was asked for |
| Target resolution (`target.go`, `compose.go`) | none | container by name or id, then compose service | the container or a replica of the service asked for, though names move |
| Port probe (`probe.go`) | one short-lived container | image, create, start, wait, read, remove | the container goes on every path; exactly the reachable ports are found |
| Restart policy, source range (`restart.go`, `source_range.go`) | none | parse, compare by label | the policy asked for; ranges equal exactly if they admit the same clients |
| Docker client wrapper (`docker.go`) | the client | one call each | passes answers and errors on |
| Command line (`main.go`, `commands/`) | flags | parse, print, exit code; signals cancel the context of `port-forward` | the exit code tells the truth |
| `CleanupStaleHelpers`, helper image, build, release | - | - | not modelled, see below |

Components interact only through the daemon: forwards, cleanups, other docker
users and the daemon itself change the same set of containers, and each call is
atomic while a sequence of calls is not. What is hard to test follows from
that: interleavings of two forwards, targets that stop, return with another
address, are recreated or renamed between two calls, a context that is
cancelled while a call is under way, ports the daemon releases later than it
says, helpers that restart or remove themselves, and labels, texts that are the
only memory from one run to the next. `PROJECT.json` lists these hazards with
their lines.

## The modules

Pure operators:

* **`PortPairs`** - `NormalizeProtocol`, `expandAddresses`, `PairAddresses`,
  `EncodePortPairs` / `DecodePortPairs`, and when two sockets exclude each
  other. A label is a sequence of tokens; that it drops the address of a pair
  is kept, because lookups depend on it.
* **`Drift`** - over what `ContainerInspect` says of targets:
  `pickTargetNetwork` (a set of at most one route, empty where the code returns
  an error), `CheckHelper`, and `Dials`, the containers a helper's connections
  really end at.
* **`Listeners`** - `ExtractListeners` and `parseHexAddr` over the tables of
  `/proc/net`, and the kernel's side: how a socket is printed there and which
  sockets another container can reach.

State machines:

* **`Docker`** - the daemon and the host, all external: target containers
  (absent / stopped / running, name, bridge address, networks), the life-cycle
  of helpers (`none`, `created`, `running`, `restarting`, `exited`, `removing`,
  `gone`), published ports that are released later, other processes' sockets,
  the helper image. The constant `Allowed` says what the environment does.
* **`StartForward`** - any number of concurrent forwards. `pc[s]` is the call
  forward `s` makes next; each action is one call to the daemon with the code
  around it up to the next call. A helper has the name of the forward that
  creates it, since a forward creates at most one. A call may succeed, fail, or
  (`Interrupted`) take effect and fail.
* **`Custody`** - the abstract specification of a call that makes a container:
  when the call has returned the container is gone, unless it was handed over
  or the daemon failed the very call that would tell (`excused`); what is gone
  stays gone. `StartForward` implements it for helpers, `ForwardCall` for
  probes.
* **`ForwardProperties`** - type invariant, properties, and the inductive
  invariants (`SafetyInv`, `PortInv`, `RouteInv`, `SerialInv`, `TargetWaits`,
  `HelpersWait`, `LossInv`) in named parts.
* **`ForwardCall`** - the library's `Forward` around `StartForward`:
  `stage[s]` runs from the options through `resolveContainer` and
  `resolveService`, the six calls of `ProbeListeners`, to `CallStartForward`.
  Targets drift in between. It implements `StartForward!Spec`, so that what
  holds of forwards holds of the library's.
* **`Cleanup`** - list and cleanup commands, one at a time, beside the
  forwards of `StartForward`. It too implements `StartForward!Spec`, with
  `"cleanup"` in `Allowed`: a command is one of the others a forward reckons
  with.
* **`Inputs`** - what `Forward` does before its first call: options are
  validated and parsed into a request, call after call. A text is kept as its
  parts (what is in brackets, between colons, after the slash), so that
  `String` and `ParsePortSpec` meet the same ambiguities as the code: the
  colons of an IPv6 literal, a local port that is left out, "080". The
  addresses of source ranges are sequences of bits, of any width.

`MCForward`, `MCForwardCall`, `MCCleanup` and `MCInputs` are the instances, and
`ForwardProofs`, `ForwardSafety`, `ForwardServing`, `ForwardCustody`,
`ListenerProofs`, `CallProofs`, `CleanupProofs`, `InputProofs` hold the
theorems.

From code to model: `Begin` is the input checks and `resolveAutoPorts`;
`InspectTarget` lines 191-198; `findOverlappingHelper`, `CheckOverlapping` and
`ReplaceHelper` the loop 207-243; `ListOrphans`, `InspectOrphan`,
`RemoveOrphan` the body of `removeOrphanedHelpers`; `Preflight`,
`waitForHostPorts` 258-267; `ensureHelperImage` 269; `CreateHelper` 278-300;
`StartHelper`, `StartFailed` 303-307; `waitForRunning`, `AbortHelper` 309-312;
`StopAttached`, `RemoveAttached` 330-332. `Cancel` is the signal context of
`commands/port_forward.go:188` or the library caller's; `Crash` is a kill.
`PROJECT.json` maps every definition.

What is abstracted: the socat command line, log texts, generated names, blanks
and the spelling of addresses, the pull protocol. A preflight binds all its
sockets in one step. `CheckHelper` with its two inspections is one step, since
it decides on their answers at once. Two user-defined networks exist throughout
and only attachments change.

## The runs

The runs bound the number of forwards (one to three, each runs once), targets
(one or two, two so that a recreated container can take name and address of the
first), networks (one usable, one internal, the bridge), bridge addresses (two)
and requests (a handful, chosen so that each differs in what a decision looks
at). Two forwards suffice for every race of `StartForward`, since a race has one
helper that is looked at and one who changes it; the third in the serial run
lets a drift, a replacement and a reuse follow each other. Only helpers and
targets persist, so longer histories repeat these states.

| Run | Instance | States | Shows |
|---|---|---|---|
| `MCForwardSerial` | three forwards, one at a time; between them targets drift, helpers exit and come back, the image is removed; two requests of one `--name` for different pairs, one that must not pull | 1 330 248 | `NoDuplicateHelper`, `ReturnedReachesTarget`: one helper per pair, and the one a forward rests on reaches the target; `PortErrorIsReal`; `LossIsExplained`: what can go wrong for a forward that has removed a helper; `TypeOK`, and `SerialInv`, `LossInv` of the proofs |
| `MCForwardDrift` | two forwards at once; targets drift and change networks, helpers exit | 778 599 | `ReuseHonoursRequest`, `ForwardRemovesOnly`, `StaleIsSound`, `ReusedReachesTarget`; `SafetyInv`, `RouteInv` of the proofs |
| `MCForwardLive` | two forwards at once; cancel, crash, exit, `docker rm`, another process on the port, a privileged port | 117 008 | `ForwardReturns`, `CancelledHelperGoes` under fairness; `NothingLeftBehind`, `HelpersInCustody`, `PortErrorIsReal` among concurrent forwards; `PortInv` of the proofs |
| `MCForwardCall` | one library call; two targets with two names, of one service name in two projects; drift, cancel, fault, crash, image, exit, removal, slow ports | 242 790 | `ServesAsked`, `DetectedIsServed`, `CallReturns`; `NothingLeftBehind` on every error path; `HelpersInCustody`, `ProbesInCustody`, `ImplementsStartForward`, the refinements; `CallInv` |
| `MCInputs` | 613 options: every form of spec, address, policy and range, good and bad; any two in a row | 613 | `PairsSurviveText`, `BindingsSurviveLabel`, `PairsAreBindable`, `PolicyIsAsAsked`, `RangesCompareByClients` |
| `MCCleanup` | two forwards, one command at a time; kills, exit, failing calls, changing networks | 716 320 | `CleanupIsComplete`, `CountedAreGone`, `ExitZeroMeansGone`, `CleanupRemovesListed`, `ReportedStaleIsSound`; `CleanupInv` |

`CHECK_DEADLOCK FALSE` in all but `MCInputs`: forwards end, and an attached one
waits for its user for ever. Symmetry (permutations of forwards) is used in
safety runs only. `NothingLeftBehind` and `Custody` excuse a container when the
very call that created or removed it reported an error (the ghosts `leaked` and
`strayed`). Where the answer to a creation is lost, nothing the program knows
names the container. Where a removal fails it could ask again, or, for the
removal at `forward.go` 305, use a context of its own as lines 311 and 331 do:
that one is `MCAttachedRemoved`, below. `PortErrorIsReal` assumes that the
daemon releases the ports of a removed helper within the 10 s of
`portReleaseTimeout` (`DeadlinePassed`); `"slow"` in `Allowed` drops this
assumption, as in `MCForwardCall`, where the deadline's error path must clean up
too. `MCForwardLive` has no `"fault"`, so that an end is never owed to a
failing call. In `MCInputs` an IPv4 address has 2 bits and an IPv6 address 3,
which gives prefixes of every kind: empty, inner, full, too long.

Fairness: weak fairness of each forward's own steps (its polls and deadlines
are timers, its calls return) and of what the daemon does of its own accord
(auto-removal, restart, port release). Nothing is asked of users, targets or
cancellation, and nothing of probe containers: `CallReturns` holds although a
probe may never end, because the wait for it has a limit (`probe.go` 83). So
`ForwardReturns` says that the replacement loop and the three waits end by
themselves.

`NoDuplicateHelper` is about forwards made one at a time, since nothing keeps
two concurrent ones from making a helper each on different addresses. It exempts
helpers that a restart policy may bring back (`MayComeBack`), as the default
`unless-stopped` does: `forward.go` 853 finds running helpers only, so a forward
made while one restarts makes a second, and where the addresses differ both run
in the end. No document promises otherwise.

Six documented statements do not hold and have runs that show it (see
`findings`): none is needed by the properties above.

* `MCAttachedRemoved`: a forward cancelled during `ContainerStart` removes its
  helper under the cancelled context, so the helper stays.
* `MCDetachedKept`: a detached request is answered with the helper of an
  attached forward, and the helper goes with that forward.
* `MCReportedAddresses`: a reused helper is reported with the addresses of the
  request, not its own.
* `MCRenamed`: after a change of names a helper that reaches another container
  counts as reaching its target.
* `MCNoIPv6`: without IPv6 the default addresses pass the preflight and fail
  at the start.
* `MCStartRetried`: the start of an attached helper that replaces another
  without a preflight is not retried until the port is free, as `forward.go`
  491-494 says: the daemon may remove an auto-removed container whose start it
  refused (`StartRefused`, external and nondeterministic), and the retry then
  ends with "no such container", which is no conflict.

A seventh has no run, since the two orders differ only in what a failed pull
costs: `docs/helper-image.md:9` lists the image before the existing helper is
looked at, while `forward.go:269` ensures it after a stale one was removed.
`LossIsExplained` counts it among the ways to be left with no helper after one
was removed: a host port that cannot be had, an image that is missing and must
not be pulled, a helper of the same `--name` that serves other pairs (the lookup
at `forward.go` 207 goes by pairs, the daemon by names), and the refused start
of `MCStartRetried`. It is a complete list, not an approval, for forwards made
one at a time that nobody cancels, where no call fails and the host has IPv6.
Helpers exit, restart and vanish between the forwards and the image comes and
goes. All four happen in `MCForwardSerial`.

## The proofs

All theorems hold for every value of the constants under the assumptions of the
modules, each of which TLC evaluates: `IPv6Assumption` (`::` and `::1`
are IPv6 addresses, and no other address the code names is one), `NetworksAssumption`,
`TargetsAssumption`, `RequestsAssumption` (the constants have the right kinds; user-defined networks
are not called bridge, host or none; no container name reads as an address;
automatic ports of a pair are pairs), `ConsistencyAssumption` (the targets there
are at first have names and addresses of their own), for calls `AsksAssumption` (what is asked
for, with the pairs a probe finds, is a request; a namespace holds finitely
many sockets, each on an address of 4 or 16 bytes), for commands
`CommandsAssumption` (`"cleanup"` is allowed), for options `InputsAssumption`
(a spec has at least one field, a source range an address of its family;
`strconv` prints a port as a text it reads as that port; no IPv6 literal is
also an IPv4 one, and each has its colons).

The theorems about forwards are of two kinds. Those of `ForwardSafety` and
`ForwardCustody` ask nothing of the environment: they hold whatever users, the
daemon and other forwards do. Those of `ForwardServing` say what a forward
brings about, and each names the part of the environment it needs, as a
condition on `Allowed` or `HostIPv6`; the runs that check the same property
have a configuration of that kind.

* **`ForwardProofs`** - `TypeCorrect: Spec => []TypeOK`. The invariant adds
  `HelperAtHand`: where the code removes or returns a helper, there is one.
  Lemmas bound what `pickTargetNetwork` and `resolveAutoPorts` return.
* **`ForwardSafety`** - `SafetyInv` is inductive (`SafetyInvariant`).
  `NothingLeftBehind` needs that a forward has no container before it asks for
  one (`NoHelperYet`) and that afterwards the helper at hand is its own
  (`OwnHelper`). `ReuseHonoursRequest` needs that a helper found keeps matching
  while it is checked (`FoundMatches`, `ReturnedMatches`), which holds since
  containers are never reconfigured, and that it exists (`OthersExist`), so
  that no other forward is yet to create it. `ForwardRemovesOnly` needs that an
  orphan is one still when it is removed (`OrphanStays`), which holds since an
  id that was used is not used again (`TargetsBorn`). Theorems
  `NothingIsLeftBehind`, `ReuseIsHonoured`, `RemovalsAreAllowed`, and
  `ReplacedAreStale`: what `CheckHelper` calls stale cannot reach its target,
  since helpers are never on internal networks (`NetsUsable`).
* **`ForwardServing`** - what a forward brings about, in five theorems, and the
  invariants these rest on in four (`PortsStayReleased`, `RoutesNameTargets`,
  `ForwardsHaveNoRival`, `RemovedOnesAreReplaced`), each with the environment it
  needs.
  `PortErrorsAreReal` (the host has IPv6, the daemon is not slow): by
  `PortInv` a forward waits for ports only after it removed something, and
  publishes what it asked for.
  `ReusedOnesReach` (no container is renamed): by `RouteInv` the targets keep
  names and addresses apart and a helper's labels are what it was given, so
  that whoever has the label's address on the label's network is the target.
  `NoDuplicates` (one forward at a time): by `SerialInv` a forward that found no
  helper still has no rival (`NoRival`) when it starts its own, whichever helpers
  exit, restart or are removed by others, save one that its restart policy may
  have brought back.
  `ReturnedOnesReach` (one at a time, no cancellation, no renaming): by
  `TargetWaits` the route found at the inspection still leads to the target at
  the end, and by `HelpersWait` what was found running runs, since what exits
  and restarts does so between forwards.
  `LossesAreExplained` (one at a time and `Untroubled`: nobody cancels, no call
  fails, the host has IPv6): by `LossInv` and `HelpersWait` what a forward goes
  by runs on, what it removed is gone and stays so (`GoneStays`), the image is
  there once it was ensured, and the own helper runs unless its start was
  refused.
* **`ForwardCustody`** - `HelpersAreKept: Spec => HelpersInCustody`. Every step
  is a step of `Custody` or a stutter; at most one forward's call and container
  change at a time, and the promise at a return is `NothingLeftBehind`.
* **`CallProofs`** - `CallInvariant` (what a call knows at each stage),
  `CallImplementsSpec` (every step of a call is a step of `StartForward` or a
  stutter, so the theorems above hold of the library), `ProbesAreKept`,
  `AskedOnesAreServed` (no container is renamed): the helper a forward rests on
  serves the target it asked for (`OwnTarget`), and that target is one the
  string given by the user means (`ChosenInv`). `DetectedOnesAreServed`, by
  `ServedInv`: from the moment a call without ports begins `StartForward`, its
  pairs are the listeners of the very container it names, since probe, request
  and helper all go by the id that was resolved; resolving automatic ports
  leaves remote ports alone, and a helper is configured from the pairs once.
* **`ListenerProofs`** - `ProbeFindsReachable`, for every list of sockets: the
  bytes printed word by word are read back as the address (`AddressReadBack`),
  Go's `IsLoopback` with its detour through `To4` says what a loopback address
  is, and the sort, which is by a strict total order, enumerates the set once
  (each listener at its rank, the number of those before it).
* **`CleanupProofs`** - `CleanupImplementsSpec`, and from `CleanupInv`
  (`FromTheList`, `NoneForgotten`, `Stages`) `CleanupInvariant`,
  `CountedStayGone`, `CleanupLeavesNone`, `ExitCodeIsTrue`,
  `CleanupRemovesOnlyListed`, and `ReportedAreStale`, the counterpart of
  `ReplacedAreStale` for what list and cleanup report.
* **`InputProofs`** - `PairsRoundTrip`, for every accepted pair and every
  literal: the proof goes through the forms of `String` and shows for each that
  the parser counts the same fields. `LabelTellsBindings`: the bindings label
  reads back as the bindings, through the same forms. `RequestsAreBindable`: by
  `Expanded`, what `expandAddresses` builds step by step has no address twice
  and has each that was given, so no two bindings of a pair are one. They may exclude
  each other all the same: `ValidateAddresses` accepts `0.0.0.0` and `::` beside
  an address they include, and `PairsAreBindable` says that a pair is in its own
  way exactly then (`WildcardBeside`).
  `RangesAreCompared`, for addresses of any width: a range is its masked
  address and length, and two that admit the same clients agree on both, since
  otherwise the shorter one admits an address that differs in a bit the longer
  one keeps. `PolicyIsKept`.

Loops over lists (`expandAddresses`, the fields of a spec) are recursive
functions; what is proved of them is proved by the least step at which it fails
(`Counting`, `StepByStep`), since the induction theorems of the library take an
operator, which the provers cannot instantiate.

Only model-checked: `ForwardReturns`, `CancelledHelperGoes` and `CallReturns`,
since liveness under fairness is out of the prover's reach. Every other property
of the passing runs is a theorem.

## Not modelled

* `CleanupStaleHelpers`: exported by the internal package, called by its test
  only. The helper image, build and release: no state of the program.
* The docker client behind `docker.go` (connecting, API versions) and, of
  `commands/`, flag tables, completion and output: pure input and output.
* Helpers of older versions without an address label (`CheckHelper` never
  reports them); networks that are removed; user labels that overwrite the
  program's own (no document says which wins).
* Addresses the host does not have. `0.0.0.0` excludes every IPv4 address and
  `::` every IPv6 one on a port (`Clash`), as the daemon publishes them; the
  sockets of the preflight take both families (`listenHost`). What else the two
  mean on a particular kernel is left out.
* Two cleanups at once: their steps are those of others to each other as well.
* Exchanges of names while `ServesAsked` is checked: the documentation makes
  the name the address, and `MCRenamed` shows what follows.

## Plan

Done: the core, the library call with resolution and probe, inputs, commands,
the refinements and the proofs above. What would add most next: an abstract
specification of forwards as a set of served pairs per target, which the serial
instance would implement; a model of networks that come and go; proofs of
`ReturnedReachesTarget` and `LossIsExplained` for forwards that overlap in time
but not in ports.
