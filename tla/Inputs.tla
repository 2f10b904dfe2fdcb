------------------------------- MODULE Inputs -------------------------------
(***************************************************************************)
(* What Forward (portforward/forward.go) makes of its options before it    *)
(* touches Docker: port specs, bind addresses, the restart policy and the  *)
(* source range, and the text in which a helper's labels record them       *)
(* (internal/ports.go, restart.go, source_range.go).  One call follows     *)
(* another: the requests are what StartForward compares.                   *)
(*                                                                         *)
(* A text is kept as its parts.  A port spec is [bracket, fields, suffix]: *)
(* the address in leading brackets or "", what stands between the colons   *)
(* after it, and the lower-case protocol after "/" or "".  Blanks are left *)
(* out, and so are brackets that are empty or not closed, which are        *)
(* errors.                                                                 *)
(***************************************************************************)
EXTENDS PortPairs, Integers

CONSTANTS
  Options,  \* what Forward is called with
  Number,   \* [texts -> Int]: strconv.Atoi, for the texts it accepts
  Text,     \* [port numbers -> texts]: strconv.Itoa, but for 0
  Colons,   \* [IPv6 literals -> what stands between their colons]
  IPv4s,    \* IPv4 literals
  Width     \* [{4, 6} -> bits of an address of that family]

VARIABLES
  options,  \* of the latest call
  accepted  \* the request it led to, if any: a set of at most one

inputVars == <<options, accepted>>

PortNumbers == 0..65535

(* An address is its bits, the first one first. *)
Bits(family) == [1..Width[family] -> {0, 1}]

(* A source range is "none" of it, one address, a "cidr", or junk. *)
RangeText ==
  [form : {"none", "addr", "cidr", "junk"}, family : {4, 6}, ip : Bits(4) \cup Bits(6),
   bits : Nat, zone : BOOLEAN]

ASSUME InputsAssumption ==
  /\ \A o \in Options :
       /\ \A i \in DOMAIN o.ports : o.ports[i].fields \in Seq(STRING) \ {<<>>}
       /\ o.addresses \in Seq(STRING)
       /\ o.range \in RangeText /\ o.range.ip \in Bits(o.range.family)
  /\ Width \in [{4, 6} -> Nat \ {0}]
  /\ \A text \in DOMAIN Number : text # "" /\ Number[text] \in Int
  /\ \A text \in DOMAIN Number : Number[text] \in PortNumbers \ {0} => Number[text] \in DOMAIN Text
  /\ \A n \in DOMAIN Text :
       n \in PortNumbers \ {0} /\ Text[n] \in DOMAIN Number /\ Number[Text[n]] = n
  /\ "127.0.0.1" \in IPv4s /\ DOMAIN Colons = IPv6
  /\ "" \notin DOMAIN Colons \cup IPv4s
  /\ ({"localhost", AllInterfaces} \cup IPv4s) \cap DOMAIN Colons = {}

-----------------------------------------------------------------------------
(* Addresses and ports. *)

isValidAddress(addr) ==
  addr \in {"localhost", AllInterfaces} \cup IPv4s \cup DOMAIN Colons

(* Mutant of ValidateAddresses: "*" goes with others. *)
EachIsValid(addrs) == \A i \in DOMAIN addrs : isValidAddress(addrs[i])

ValidateAddresses(addrs) ==
  \A i \in DOMAIN addrs :
    isValidAddress(addrs[i]) /\ (addrs[i] = AllInterfaces => Len(addrs) = 1)

parsesAsPort(text) == text \in DOMAIN Number /\ Number[text] \in PortNumbers

AddressPart(spec) ==
  IF spec.bracket # "" THEN spec.bracket
  ELSE IF Len(spec.fields) < 3 THEN ""
  ELSE IF spec.fields[1] = "" THEN AllInterfaces ELSE spec.fields[1]

RemotePart(spec) == spec.fields[Len(spec.fields)]

LocalPart(spec) ==
  IF Len(spec.fields) = 1 THEN RemotePart(spec) ELSE spec.fields[Len(spec.fields) - 1]

(* ParsePortSpec accepts the spec ... *)
IsPortSpec(spec) ==
  /\ spec.suffix \in {"", "tcp", "udp"}
  /\ IF spec.bracket # "" THEN Len(spec.fields) = 2 ELSE Len(spec.fields) \in 1..3
  /\ spec.bracket # "" => spec.bracket \in DOMAIN Colons
  /\ AddressPart(spec) # "" => isValidAddress(AddressPart(spec))
  /\ parsesAsPort(RemotePart(spec)) /\ Number[RemotePart(spec)] # 0
  /\ LocalPart(spec) # "" => parsesAsPort(LocalPart(spec))

(* ... and then returns this pair. *)
ParsePortSpec(spec) ==
  [address |-> AddressPart(spec),
   local   |-> IF LocalPart(spec) = "" THEN 0 ELSE Number[LocalPart(spec)],
   remote  |-> Number[RemotePart(spec)],
   proto   |-> NormalizeProtocol(spec.suffix)]

(* Mutant of FormatAddress: no brackets around an IPv6 literal. *)
Unbracketed(addr) ==
  [bracket |-> "", fields |-> IF addr \in DOMAIN Colons THEN Colons[addr] ELSE <<addr>>]

FormatAddress(addr) ==
  IF addr \in DOMAIN Colons THEN [bracket |-> addr, fields |-> <<>>]
                            ELSE [bracket |-> "", fields |-> <<addr>>]

(* Mutant of String: an automatic port leaves no colon. *)
NoLeadingColon(p) ==
  [bracket |-> "",
   fields  |-> IF p.local = 0 THEN <<Text[p.remote]>> ELSE <<Text[p.local], Text[p.remote]>>,
   suffix  |-> IF p.proto = "udp" THEN "udp" ELSE ""]

(* PortPair.String *)
String(p) ==
  LET ports  == << IF p.local = 0 THEN "" ELSE Text[p.local], Text[p.remote] >>
      suffix == IF NormalizeProtocol(p.proto) = "tcp" THEN "" ELSE p.proto
      addr   == FormatAddress(p.address)
  IN  IF p.address = "" THEN [bracket |-> "", fields |-> ports, suffix |-> suffix]
      ELSE [bracket |-> addr.bracket, fields |-> addr.fields \o ports, suffix |-> suffix]

(* Mutant of EncodeBindings: every pair on the default addresses. *)
BindingsOnDefaults(pairs, defaults) ==
  UNION { { String([pairs[i] EXCEPT !.address = a]) : a \in ToSet(expandAddresses(defaults)) } :
          i \in DOMAIN pairs }

(* The "bindings" label: what it lists, as a set, for nothing reads its order. *)
EncodeBindings(pairs, defaults) ==
  UNION { { String([pairs[i] EXCEPT !.address = a]) :
            a \in ToSet(PairAddresses(pairs[i], defaults)) } : i \in DOMAIN pairs }

DecodeBindings(label) == { ParsePortSpec(spec) : spec \in {t \in label : IsPortSpec(t)} }

-----------------------------------------------------------------------------
(* Restart policy and source range. *)

(* A policy is [name, colon, count]; "" without a colon asks for none. *)
Policies == {"no", "always", "unless-stopped", "on-failure"}

retryCount(policy) == IF policy.count = "" THEN 0 ELSE Number[policy.count]

(* container.ValidateRestartPolicy of the Docker API (external). *)
ValidateRestartPolicy(name, count) ==
  name \in Policies /\ count >= 0 /\ (count > 0 => name = "on-failure")

(* Mutant of IsRestartPolicy: attached helpers may have any policy. *)
AnyPolicy(policy, detach) ==
  \/ policy.name = "" /\ ~policy.colon
  \/ /\ policy.name # "" /\ policy.count \in DOMAIN Number \cup {""}
     /\ ValidateRestartPolicy(policy.name, retryCount(policy))

(* ParseRestartPolicy accepts the policy ... *)
IsRestartPolicy(policy, detach) ==
  \/ policy.name = "" /\ ~policy.colon
  \/ /\ policy.name # "" /\ policy.count \in DOMAIN Number \cup {""}
     /\ ValidateRestartPolicy(policy.name, retryCount(policy))
     /\ detach \/ policy.name = "no"

(* ... and then returns this one. *)
ParseRestartPolicy(policy, detach) ==
  IF policy.name = "" THEN [name |-> IF detach THEN "unless-stopped" ELSE "no", count |-> 0]
  ELSE [name |-> policy.name, count |-> retryCount(policy)]

(* What buildHelperContainerConfig asks of the daemon. *)
HelperPolicy(request) ==
  IF request.detach THEN request.restart ELSE [name |-> "no", count |-> 0]

(* A CIDR may have no zone, and no more bits than an address. *)
IsSourceRange(range) ==
  \/ range.form \in {"none", "addr"}
  \/ range.form = "cidr" /\ ~range.zone /\ range.bits <= Width[range.family]

masked(ip, bits) == [i \in DOMAIN ip |-> IF i <= bits THEN ip[i] ELSE 0]

(* Mutant of ParseSourceRange: the prefix as it is written. *)
NotMasked(range) ==
  CASE range.form = "none" -> {}
    [] range.form = "addr" ->
         {[family |-> range.family, ip |-> range.ip, bits |-> Width[range.family]]}
    [] OTHER -> {[family |-> range.family, bits |-> range.bits, ip |-> range.ip]}

(* The prefix, if any; sourceRangeLabel is its text. *)
ParseSourceRange(range) ==
  CASE range.form = "none" -> {}
    [] range.form = "addr" ->
         {[family |-> range.family, ip |-> range.ip, bits |-> Width[range.family]]}
    [] OTHER ->
         {[family |-> range.family, bits |-> range.bits,
           ip |-> masked(range.ip, range.bits)]}

-----------------------------------------------------------------------------
(* Forward, up to the first call to Docker. *)

(* A target is [prefix, name], the prefix being what a leading "container/" *)
(* or "service/" says and "" for a bare name.                               *)
IsTarget(target) == target.name # ""

ParseTarget(target) ==
  [type |-> IF target.prefix = "" THEN "auto" ELSE target.prefix, name |-> target.name]

(* The "none" driver takes no options. *)
ValidateLogConfig(driver, opts) == driver = "none" => opts = {}

WithDefaults(addresses) == IF addresses = <<>> THEN <<"localhost">> ELSE addresses

RequestOfOptions(o) ==
  [target    |-> ParseTarget(o.target),
   pull      |-> IF o.pull = "" THEN "missing" ELSE o.pull,
   pairs     |-> [i \in DOMAIN o.ports |-> ParsePortSpec(o.ports[i])],
   addresses |-> WithDefaults(o.addresses),
   detach    |-> o.detach,
   restart   |-> ParseRestartPolicy(o.restart, o.detach),
   range     |-> ParseSourceRange(o.range)]

Valid(o) ==
  /\ o.pull \in {"", "always", "missing", "never"}
  /\ IsRestartPolicy(o.restart, o.detach)
  /\ ValidateLogConfig(o.logDriver, o.logOpts)
  /\ ValidateAddresses(WithDefaults(o.addresses))
  /\ o.halfCloseTimeout >= 0
  /\ IsSourceRange(o.range)
  /\ IsTarget(o.target)
  /\ \A i \in DOMAIN o.ports : IsPortSpec(o.ports[i])

Called(o) == IF Valid(o) THEN {RequestOfOptions(o)} ELSE {}

InputInit == options \in Options /\ accepted = Called(options)

Forward == options' \in Options /\ accepted' = Called(options')

InputSpec == InputInit /\ [][Forward]_inputVars

-----------------------------------------------------------------------------
(* Properties. *)

(* What a pair prints as, in labels, lists and messages, is a port spec that *)
(* is read back as the same pair: with and without addresses, with automatic *)
(* ports, and with IPv6 literals among the colons.                           *)
PairsSurviveText ==
  \A request \in accepted : \A i \in DOMAIN request.pairs :
    LET p == request.pairs[i]
    IN  IsPortSpec(String(p)) /\ ParsePortSpec(String(p)) = p

(* List and cleanup show, from the label, exactly the host ports Docker was *)
(* asked to publish, whichever pairs name an address of their own, whatever *)
(* port stands for an automatic one.                                        *)
BindingsSurviveLabel ==
  \A request \in accepted, port \in DOMAIN Text :
    LET resolved == [i \in DOMAIN request.pairs |->
                       [request.pairs[i] EXCEPT !.local = IF @ = 0 THEN port ELSE @]]
        label    == EncodeBindings(resolved, request.addresses)
    IN  { [address |-> b.address, port |-> b.local, proto |-> b.proto] : b \in DecodeBindings(label) }
          = Bindings(resolved, request.addresses)

(* The wildcard of a family is listed beside an address that it includes. *)
WildcardBeside(addresses) ==
  \E w \in {"0.0.0.0", "::"} \cap ToSet(addresses),
     a \in ToSet(expandAddresses(addresses)) :
    w # a /\ (a \in IPv6 <=> w = "::")

(* A request asks the daemon for nothing it refuses outright: it binds every *)
(* pair somewhere, on ports that exist.  And no pair of it is in its own way *)
(* but where ValidateAddresses, which keeps only "*" apart, lets 0.0.0.0 or  *)
(* :: stand beside an address that it includes.                              *)
PairsAreBindable ==
  \A request \in accepted : \A i \in DOMAIN request.pairs :
    LET p == request.pairs[i]
    IN  /\ p.remote \in PortNumbers \ {0} /\ p.local \in PortNumbers
        /\ PairAddresses(p, request.addresses) # <<>>
        /\ SelfConflict(<<p>>, request.addresses)
             <=> p.address = "" /\ WildcardBeside(request.addresses)

(* The helper gets the restart policy that was asked for, never silently     *)
(* another one; and one that is removed when it ends is never restarted.     *)
PolicyIsAsAsked ==
  \A request \in accepted :
    LET asked == options.restart
        made  == HelperPolicy(request)
    IN  /\ asked.name # "" => made = [name |-> asked.name, count |-> retryCount(asked)]
        /\ asked.name = "" => made.name = IF options.detach THEN "unless-stopped" ELSE "no"
        /\ ~request.detach => made.name = "no"

(* The clients a text names: those of its family that share its first bits. *)
ClientsOf(range) ==
  IF range.form = "none"
  THEN UNION { {family} \X Bits(family) : family \in {4, 6} }
  ELSE LET shared == IF range.form = "addr" THEN Width[range.family] ELSE range.bits
       IN  { <<range.family, ip>> :
             ip \in {c \in Bits(range.family) : \A i \in 1..shared : c[i] = range.ip[i]} }

(* Two forwards have the same source range in their labels, and so one may   *)
(* reuse the other's helper, exactly if they are to accept the same clients, *)
(* however the range was written.                                            *)
RangesCompareByClients ==
  [][\A was \in accepted, is \in accepted' :
       was.range = is.range <=> ClientsOf(options.range) = ClientsOf(options'.range)]_inputVars
=============================================================================
