------------------------------ MODULE PortPairs ------------------------------
(***************************************************************************)
(* Port pairs, the addresses they are bound on, and the label that records *)
(* them on a helper (internal/ports.go and the label half of               *)
(* internal/forward.go).                                                   *)
(*                                                                         *)
(* A pair is [address, local, remote, proto].  An address is a string:     *)
(* "" (use the defaults), "localhost", an IP literal or AllInterfaces.     *)
(* Local port 0 asks for an automatic port.  Surrounding blanks and the    *)
(* spelling of an IP literal are abstracted away.                          *)
(***************************************************************************)
EXTENDS Naturals, Sequences, SequencesExt

CONSTANT IPv6   \* the IPv6 literals among the bind addresses

AllInterfaces == "*"

ASSUME IPv6Assumption ==
  /\ {"::", "::1"} \subseteq IPv6
  /\ IPv6 \cap {"", "localhost", AllInterfaces, "0.0.0.0", "127.0.0.1"} = {}

NormalizeProtocol(proto) == IF proto = "" THEN "tcp" ELSE proto

(* s with the addresses a stands for that it does not have yet: "localhost" *)
(* stands for both loopback addresses.                                      *)
AddAddress(s, a) ==
  LET add(q, b) == IF b \in ToSet(q) THEN q ELSE Append(q, b)
  IN  CASE a = ""          -> s
        [] a = "localhost" -> add(add(s, "127.0.0.1"), "::1")
        [] OTHER           -> add(s, a)

(* Concrete addresses in order, without repetition; none at all means *)
(* "localhost".                                                       *)
expandAddresses(addrs) ==
  LET given == IF addrs = <<>> THEN <<"localhost">> ELSE addrs
      first[n \in 0..Len(given)] ==
        IF n = 0 THEN <<>> ELSE AddAddress(first[n - 1], given[n])
  IN  first[Len(given)]

PairAddresses(pair, defaults) ==
  expandAddresses(IF pair.address # "" THEN <<pair.address>> ELSE defaults)

(***************************************************************************)
(* The "ports" label.  A token is [local, remote, suffix]; TCP has no      *)
(* suffix, and the address of a pair is not recorded.                      *)
(***************************************************************************)
EncodePortPairs(pairs) ==
  [i \in DOMAIN pairs |->
     LET proto == NormalizeProtocol(pairs[i].proto)
     IN  [local  |-> pairs[i].local, remote |-> pairs[i].remote,
          suffix |-> IF proto = "tcp" THEN "" ELSE proto]]

(* The pairs a label lists, as a set: their order means nothing.  Tokens *)
(* whose suffix is no protocol are skipped.                              *)
DecodePortPairs(label) ==
  { [address |-> "", local |-> label[i].local, remote |-> label[i].remote,
     proto |-> IF label[i].suffix = "" THEN "tcp" ELSE label[i].suffix] :
    i \in {j \in DOMAIN label : label[j].suffix \in {"", "tcp", "udp"}} }

(* The host bindings a helper publishes for its pairs: *)
(* one [address, port, proto] per pair and address.    *)
Bindings(pairs, defaults) ==
  UNION { { [address |-> a, port |-> pairs[i].local,
             proto |-> NormalizeProtocol(pairs[i].proto)] :
            a \in ToSet(PairAddresses(pairs[i], defaults)) } :
          i \in DOMAIN pairs }

(* Mutant of WantedPairs: the address is kept. *)
PairsWithAddress(pairs) ==
  { [pairs[i] EXCEPT !.proto = NormalizeProtocol(@)] : i \in DOMAIN pairs }

(* The pairs of a request as findOverlappingHelper compares them: *)
(* address dropped, protocol normalised.                          *)
WantedPairs(pairs) ==
  { [address |-> "", local |-> pairs[i].local, remote |-> pairs[i].remote,
     proto |-> NormalizeProtocol(pairs[i].proto)] : i \in DOMAIN pairs }

(* The host ports of a set of such pairs, as removeOrphanedHelpers compares them. *)
HostPorts(pairs) == { <<p.local, p.proto>> : p \in pairs }

(***************************************************************************)
(* Sockets of the host (external: the kernel and Go's net package).        *)
(***************************************************************************)
(* Two published addresses exclude each other on one port and protocol: the *)
(* daemon publishes on the wildcard of a family for that family only.       *)
Clash(a, b) ==
  \/ a = b
  \/ AllInterfaces \in {a, b}
  \/ "0.0.0.0" \in {a, b} /\ {a, b} \cap IPv6 = {}
  \/ "::" \in {a, b} /\ {a, b} \subseteq IPv6

(* Two bindings of one request exclude each other: pairs that ask for, or *)
(* were given, the same host port, or addresses that include each other.  *)
SelfConflict(pairs, defaults) ==
  \E i, j \in DOMAIN pairs :
    /\ pairs[i].local = pairs[j].local
    /\ NormalizeProtocol(pairs[i].proto) = NormalizeProtocol(pairs[j].proto)
    /\ \E a \in ToSet(PairAddresses(pairs[i], defaults)),
         b \in ToSet(PairAddresses(pairs[j], defaults)) :
         <<i, a>> # <<j, b>> /\ Clash(a, b)

(* What this process binds for an address.  Go listens dual-stack for the *)
(* wildcards of either family too.                                        *)
listenHost(addr) ==
  IF addr \in {AllInterfaces, "0.0.0.0", "::"} THEN AllInterfaces ELSE addr
=============================================================================
