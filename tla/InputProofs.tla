----------------------------- MODULE InputProofs -----------------------------
(***************************************************************************)
(* Proofs about Inputs, for every set of options: what a pair prints as is *)
(* read back as the same pair, and the restart policy is the one asked     *)
(* for.  Both follow from what the parsers accept; the state machine only  *)
(* adds that what was accepted is what the latest options led to.          *)
(***************************************************************************)
EXTENDS Inputs, SequenceTheorems, WellFoundedInduction, TLAPS

(* What is accepted is what the options of the latest call led to. *)
CalledInv == options \in Options /\ accepted = Called(options)

(* Every call leaves what its options led to. *)
LEMMA CalledAlways == InputSpec => []CalledInv
<1>1. InputInit => CalledInv
  BY DEF InputInit, CalledInv
<1>2. CalledInv /\ [Forward]_inputVars => CalledInv'
  <2>1. CASE Forward
    BY <2>1 DEF Forward, CalledInv, Called, Valid, RequestOfOptions
  <2>2. CASE UNCHANGED inputVars
    BY <2>2 DEF inputVars, CalledInv, Called, Valid, RequestOfOptions
  <2> QED  BY <2>1, <2>2
<1> QED  BY <1>1, <1>2, PTL DEF InputSpec

(* Induction on a set of numbers, and what is built step by step. *)

(* Numbers are reached from 0 by counting. *)
LEMMA Counting ==
  ASSUME NEW S, 0 \in S, \A n \in Nat : n \in S => n + 1 \in S
  PROVE  Nat \subseteq S
<1> DEFINE missing == Nat \ S
<1> SUFFICES ASSUME missing # {} PROVE FALSE
  OBVIOUS
<1>1. missing \subseteq Nat
  OBVIOUS
<1>2. PICK x \in missing : \A y \in missing : <<y, x>> \notin OpToRel(<, Nat)
  <2> HIDE DEF missing
  <2> QED  BY <1>1, NatLessThanWellFounded, WFMin
<1>3. x \in Nat /\ x # 0 /\ x \notin S
  OBVIOUS
<1>4. x - 1 \in Nat /\ x - 1 < x /\ (x - 1) + 1 = x
  BY <1>3
<1>5. x - 1 \notin missing
  BY <1>2, <1>3, <1>4 DEF OpToRel
<1> QED  BY <1>3, <1>4, <1>5

(* The functions that start at base and take the next value from the last *)
(* one by F.                                                              *)
Steps(L, S, base, F) ==
  {f \in [0..L -> S] : f[0] = base /\ \A n \in 1..L : f[n] = F[<<f[n - 1], n>>]}

(* There is one. *)
LEMMA StepByStep ==
  ASSUME NEW L \in Nat, NEW S, NEW base \in S, NEW F \in [S \X (1..L) -> S]
  PROVE  Steps(L, S, base, F) # {}
<1> DEFINE upTo(m, f) == f[0] = base /\ \A n \in 1..m : f[n] = F[<<f[n - 1], n>>]
           good == {m \in Nat : m <= L => \E f \in [0..m -> S] : upTo(m, f)}
<1>1. 0 \in good
  <2>1. [n \in 0..0 |-> base] \in [0..0 -> S] /\ upTo(0, [n \in 0..0 |-> base])
    OBVIOUS
  <2> QED  BY <2>1
<1>2. ASSUME NEW m \in Nat, m \in good PROVE m + 1 \in good
  <2> SUFFICES ASSUME m + 1 <= L PROVE \E f \in [0..(m + 1) -> S] : upTo(m + 1, f)
    OBVIOUS
  <2>1. m <= L /\ m + 1 \in 1..L
    OBVIOUS
  <2>2. PICK f \in [0..m -> S] : upTo(m, f)
    BY <1>2, <2>1
  <2> DEFINE g == [n \in 0..(m + 1) |-> IF n <= m THEN f[n] ELSE F[<<f[m], m + 1>>]]
  <2>3. F[<<f[m], m + 1>>] \in S
    BY <2>1
  <2>4. g \in [0..(m + 1) -> S]
    BY <2>3
  <2>5. g[0] = base
    BY <2>2
  <2>6. ASSUME NEW n \in 1..(m + 1) PROVE g[n] = F[<<g[n - 1], n>>]
    <3>1. g[n - 1] = f[n - 1]
      OBVIOUS
    <3>2. CASE n <= m
      <4>1. f[n] = F[<<f[n - 1], n>>]
        BY <2>2, <3>2
      <4>2. g[n] = f[n]
        BY <3>2
      <4> QED  BY <3>1, <4>1, <4>2
    <3>3. CASE n = m + 1
      <4>1. g[n] = F[<<f[m], m + 1>>]
        BY <3>3
      <4>2. n - 1 = m
        BY <3>3
      <4> QED  BY <3>1, <3>3, <4>1, <4>2
    <3> QED  BY <3>2, <3>3
  <2>7. upTo(m + 1, g)
    BY <2>5, <2>6
  <2> QED  BY <2>4, <2>7
<1>3. L \in good
  <2> HIDE DEF good
  <2> QED  BY <1>1, <1>2, Counting
<1> QED  BY <1>3 DEF Steps

-----------------------------------------------------------------------------
(* Addresses. *)

(* The concrete addresses an address stands for. *)
StandsFor(a) ==
  IF a = "" THEN {} ELSE IF a = "localhost" THEN {"127.0.0.1", "::1"} ELSE {a}

(* Appended to a sequence, a value is in it. *)
LEMMA AppendSet ==
  ASSUME NEW V, NEW q \in Seq(V), NEW b \in V
  PROVE  LET r == IF b \in ToSet(q) THEN q ELSE Append(q, b)
         IN  r \in Seq(V) /\ ToSet(r) = ToSet(q) \cup {b}
<1>1. CASE b \in ToSet(q)
  BY <1>1
<1>2. CASE b \notin ToSet(q)
  <2> DEFINE r == Append(q, b)
  <2>1. r \in Seq(V) /\ DOMAIN r = 1..(Len(q) + 1) /\ DOMAIN q = 1..Len(q) /\ Len(q) \in Nat
    OBVIOUS
  <2>2. r[Len(q) + 1] = b /\ \A i \in 1..Len(q) : r[i] = q[i]
    OBVIOUS
  <2> HIDE DEF r
  <2>3. {r[i] : i \in DOMAIN r} = {q[i] : i \in DOMAIN q} \cup {b}
    BY <2>1, <2>2
  <2>4. ToSet(r) = ToSet(q) \cup {b}
    BY <2>3 DEF ToSet
  <2> QED  BY <1>2, <2>1, <2>4 DEF r
<1> QED  BY <1>1, <1>2

(* What AddAddress adds. *)
LEMMA AddedAddress ==
  ASSUME NEW V, "127.0.0.1" \in V, "::1" \in V, NEW q \in Seq(V), NEW a \in V
  PROVE  AddAddress(q, a) \in Seq(V) /\ ToSet(AddAddress(q, a)) = ToSet(q) \cup StandsFor(a)
<1> DEFINE add(r, b) == IF b \in ToSet(r) THEN r ELSE Append(r, b)
<1>1. CASE a = ""
  BY <1>1 DEF AddAddress, StandsFor
<1>2. CASE a = "localhost"
  <2> DEFINE r == add(q, "127.0.0.1")
             t == add(r, "::1")
  <2>1. r \in Seq(V) /\ ToSet(r) = ToSet(q) \cup {"127.0.0.1"}
    BY AppendSet
  <2>2. t \in Seq(V) /\ ToSet(t) = ToSet(r) \cup {"::1"}
    <3> HIDE DEF r
    <3> QED  BY <2>1, AppendSet
  <2>3. AddAddress(q, a) = t
    BY <1>2 DEF AddAddress
  <2>4. StandsFor(a) = {"127.0.0.1", "::1"}
    BY <1>2 DEF StandsFor
  <2> HIDE DEF r, t
  <2> QED  BY <2>1, <2>2, <2>3, <2>4
<1>3. CASE a # "" /\ a # "localhost"
  <2>1. AddAddress(q, a) = add(q, a)
    BY <1>3 DEF AddAddress
  <2>2. StandsFor(a) = {a}
    BY <1>3 DEF StandsFor
  <2>3. add(q, a) \in Seq(V) /\ ToSet(add(q, a)) = ToSet(q) \cup {a}
    BY AppendSet
  <2> QED  BY <2>1, <2>2, <2>3
<1> QED  BY <1>1, <1>2, <1>3

(* expandAddresses returns what the addresses it is given stand for. *)
LEMMA Expanded ==
  ASSUME NEW V, "127.0.0.1" \in V, "::1" \in V, NEW addrs \in Seq(V), addrs # <<>>
  PROVE  /\ expandAddresses(addrs) \in Seq(V)
         /\ ToSet(expandAddresses(addrs)) = UNION {StandsFor(addrs[i]) : i \in DOMAIN addrs}
<1> DEFINE L == Len(addrs)
           body(g) == [n \in 0..L |-> IF n = 0 THEN <<>> ELSE AddAddress(g[n - 1], addrs[n])]
           first == CHOOSE g : g = body(g)
           F == [x \in Seq(V) \X (1..L) |-> AddAddress(x[1], addrs[x[2]])]
<1>1. L \in Nat /\ L # 0 /\ DOMAIN addrs = 1..L /\ \A n \in 1..L : addrs[n] \in V
  OBVIOUS
<1>2. F \in [Seq(V) \X (1..L) -> Seq(V)]
  <2> SUFFICES ASSUME NEW q \in Seq(V), NEW n \in 1..L PROVE AddAddress(q, addrs[n]) \in Seq(V)
    OBVIOUS
  <2>1. addrs[n] \in V
    BY <1>1
  <2> HIDE DEF L
  <2> QED  BY <2>1, AddedAddress
<1>3. <<>> \in Seq(V)
  OBVIOUS
<1>4. PICK f \in [0..L -> Seq(V)] : f[0] = <<>> /\ \A n \in 1..L : f[n] = F[<<f[n - 1], n>>]
  <2> DEFINE Q == Seq(V)
             empty == <<>>
  <2>1. F \in [Q \X (1..L) -> Q] /\ empty \in Q /\ L \in Nat
    BY <1>1, <1>2, <1>3
  <2> HIDE DEF L, F, Q, empty
  <2>2. Steps(L, Q, empty, F) # {}
    BY <2>1, StepByStep
  <2> QED  BY <2>2 DEF Q, empty, Steps
<1>5. f = body(f)
  <2>1. \A n \in 1..L : n - 1 \in 0..L /\ f[n - 1] \in Seq(V)
    BY <1>1
  <2>2. \A n \in 1..L : f[n] = AddAddress(f[n - 1], addrs[n])
    BY <1>4, <2>1
  <2>3. \A n \in 0..L : f[n] = IF n = 0 THEN <<>> ELSE AddAddress(f[n - 1], addrs[n])
    BY <1>1, <1>4, <2>2
  <2> HIDE DEF L, F
  <2> QED  BY <2>3
<1>6. first = body(first)
  <2> HIDE DEF body
  <2> QED  BY <1>5
<1>7. expandAddresses(addrs) = first[L]
  BY DEF expandAddresses
<1>8. first[0] = <<>> /\ \A n \in 1..L : first[n] = AddAddress(first[n - 1], addrs[n])
  <2> DEFINE g == first
  <2>1. g = [n \in 0..L |-> IF n = 0 THEN <<>> ELSE AddAddress(g[n - 1], addrs[n])]
    BY <1>6
  <2> HIDE DEF g, L
  <2>2. g[0] = <<>> /\ \A n \in 1..L : g[n] = AddAddress(g[n - 1], addrs[n])
    BY <1>1, <2>1
  <2> QED  BY <2>2 DEF g
<1> DEFINE good == {m \in Nat : m <= L =>
                      /\ first[m] \in Seq(V)
                      /\ ToSet(first[m]) = UNION {StandsFor(addrs[i]) : i \in 1..m}}
<1> HIDE DEF first
<1>9. 0 \in good
  <2>1. ToSet(<<>>) = {}
    BY DEF ToSet
  <2>2. first[0] \in Seq(V) /\ ToSet(first[0]) = {}
    BY <1>8, <2>1
  <2>3. 1..0 = {}
    OBVIOUS
  <2>4. UNION {StandsFor(addrs[i]) : i \in 1..0} = {}
    BY <2>3
  <2> HIDE DEF L
  <2> QED  BY <2>2, <2>4
<1>10. ASSUME NEW m \in Nat, m \in good PROVE m + 1 \in good
  <2> SUFFICES ASSUME m + 1 <= L
               PROVE  /\ first[m + 1] \in Seq(V)
                      /\ ToSet(first[m + 1]) = UNION {StandsFor(addrs[i]) : i \in 1..(m + 1)}
    OBVIOUS
  <2>1. m <= L /\ m + 1 \in 1..L /\ (m + 1) - 1 = m
    BY <1>1
  <2>2. first[m] \in Seq(V) /\ ToSet(first[m]) = UNION {StandsFor(addrs[i]) : i \in 1..m}
    BY <1>10, <2>1
  <2>3. first[m + 1] = AddAddress(first[m], addrs[m + 1])
    BY <1>8, <2>1
  <2>4. addrs[m + 1] \in V
    BY <1>1, <2>1
  <2>5. /\ first[m + 1] \in Seq(V)
        /\ ToSet(first[m + 1]) = ToSet(first[m]) \cup StandsFor(addrs[m + 1])
    <3> DEFINE q == first[m]
               a == addrs[m + 1]
    <3>1. q \in Seq(V) /\ a \in V /\ first[m + 1] = AddAddress(q, a)
      BY <2>2, <2>3, <2>4
    <3> HIDE DEF q, a
    <3>2. AddAddress(q, a) \in Seq(V) /\ ToSet(AddAddress(q, a)) = ToSet(q) \cup StandsFor(a)
      BY <3>1, AddedAddress
    <3> QED  BY <3>1, <3>2 DEF q, a
  <2>6. 1..(m + 1) = 1..m \cup {m + 1}
    OBVIOUS
  <2>7. UNION {StandsFor(addrs[i]) : i \in 1..(m + 1)}
          = UNION {StandsFor(addrs[i]) : i \in 1..m} \cup StandsFor(addrs[m + 1])
    BY <2>6
  <2> QED  BY <2>2, <2>5, <2>7
<1>11. L \in good
  <2> HIDE DEF good
  <2> QED  BY <1>1, <1>9, <1>10, Counting
<1> QED  BY <1>1, <1>7, <1>11

-----------------------------------------------------------------------------
(* The addresses of a request. *)

ValidAddresses == {"localhost", AllInterfaces} \cup IPv4s \cup DOMAIN Colons

(* Addresses that ValidateAddresses accepts. *)
AcceptedAddresses(addrs) ==
  /\ addrs \in Seq(ValidAddresses) /\ addrs # <<>>
  /\ \A i \in DOMAIN addrs : addrs[i] = AllInterfaces => Len(addrs) = 1

(* One address alone. *)
LEMMA Single ==
  ASSUME NEW V, NEW x \in V
  PROVE  /\ <<x>> \in Seq(V) /\ <<x>> # <<>>
         /\ DOMAIN <<x>> = {1} /\ <<x>>[1] = x /\ Len(<<x>>) = 1
<1>1. <<x>> \in Seq(V) /\ <<x>> # <<>> /\ <<x>>[1] = x /\ Len(<<x>>) = 1
  OBVIOUS
<1>2. DOMAIN <<x>> = 1..1
  BY <1>1
<1>3. 1..1 = {1}
  OBVIOUS
<1> QED  BY <1>1, <1>2, <1>3

(* Addresses one after the other. *)
LEMMA SeqParts ==
  ASSUME NEW V, NEW q \in Seq(V), q # <<>>
  PROVE  1 \in DOMAIN q /\ \A i \in DOMAIN q : q[i] \in V
  OBVIOUS

(* The addresses of a request are such. *)
LEMMA RequestAddresses ==
  ASSUME NEW o \in Options, Valid(o)
  PROVE  AcceptedAddresses(WithDefaults(o.addresses))
<1> DEFINE addrs == WithDefaults(o.addresses)
<1>1. \A i \in DOMAIN addrs :
        isValidAddress(addrs[i]) /\ (addrs[i] = AllInterfaces => Len(addrs) = 1)
  BY DEF Valid, ValidateAddresses
<1>2. addrs \in Seq(ValidAddresses) /\ addrs # <<>>
  <2>1. CASE o.addresses = <<>>
    <3>1. "localhost" \in ValidAddresses
      BY DEF ValidAddresses
    <3>2. addrs = <<"localhost">>
      BY <2>1 DEF WithDefaults
    <3> QED  BY <3>1, <3>2, Single
  <2>2. CASE o.addresses # <<>>
    <3>1. addrs = o.addresses
      BY <2>2 DEF WithDefaults
    <3> HIDE DEF addrs
    <3>2. addrs \in Seq(STRING) /\ addrs # <<>>
      BY <2>2, <3>1, InputsAssumption
    <3>3. \A i \in 1..Len(addrs) : addrs[i] \in ValidAddresses
      BY <1>1, <3>2 DEF isValidAddress, ValidAddresses
    <3> QED  BY <3>2, <3>3
  <2> QED  BY <2>1, <2>2
<1> QED  BY <1>1, <1>2 DEF AcceptedAddresses

(* What a valid address stands for: at least one valid address, and none *)
(* that is "".                                                           *)
LEMMA ValidStandsFor ==
  ASSUME NEW a \in ValidAddresses
  PROVE  /\ StandsFor(a) # {}
         /\ \A b \in StandsFor(a) : isValidAddress(b) /\ b # "" /\ b \in ValidAddresses
<1>1. "127.0.0.1" \in IPv4s /\ "::1" \in DOMAIN Colons /\ "" \notin DOMAIN Colons \cup IPv4s
  BY InputsAssumption, IPv6Assumption
<1>2. a # ""
  BY <1>1 DEF ValidAddresses, AllInterfaces
<1>3. CASE a = "localhost"
  <2>1. StandsFor(a) = {"127.0.0.1", "::1"}
    BY <1>3 DEF StandsFor
  <2>2. "127.0.0.1" # "" /\ "::1" # ""
    OBVIOUS
  <2> QED  BY <1>1, <2>1, <2>2 DEF ValidAddresses, isValidAddress
<1>4. CASE a # "localhost"
  <2>1. StandsFor(a) = {a}
    BY <1>2, <1>4 DEF StandsFor
  <2> QED  BY <1>2, <2>1 DEF ValidAddresses, isValidAddress
<1> QED  BY <1>3, <1>4

(* The addresses a pair is bound on: what its own address stands for, or *)
(* what those of the request do.                                         *)
LEMMA PairIsBoundOn ==
  ASSUME NEW addrs, AcceptedAddresses(addrs),
         NEW p, p.address # "" => isValidAddress(p.address)
  PROVE  LET bound == ToSet(PairAddresses(p, addrs))
         IN  /\ p.address # "" => bound = StandsFor(p.address)
             /\ p.address = "" => bound = UNION {StandsFor(addrs[i]) : i \in DOMAIN addrs}
             /\ bound # {}
             /\ \A a \in bound : isValidAddress(a) /\ a # ""
<1> DEFINE V == ValidAddresses
           bound == ToSet(PairAddresses(p, addrs))
<1>1. "127.0.0.1" \in V /\ "::1" \in V
  BY InputsAssumption, IPv6Assumption DEF ValidAddresses
<1>2. CASE p.address # ""
  <2> DEFINE one == <<p.address>>
  <2>1. p.address \in V
    BY <1>2 DEF isValidAddress, ValidAddresses
  <2>2. one \in Seq(V) /\ one # <<>> /\ DOMAIN one = {1} /\ one[1] = p.address
    <3> HIDE DEF V
    <3> QED  BY <2>1, Single
  <2>3. ToSet(expandAddresses(one)) = UNION {StandsFor(one[i]) : i \in DOMAIN one}
    <3> HIDE DEF one, V
    <3> QED  BY <1>1, <2>2, Expanded
  <2>4. ToSet(expandAddresses(one)) = StandsFor(p.address)
    <3> HIDE DEF one
    <3> QED  BY <2>2, <2>3
  <2>5. bound = StandsFor(p.address)
    BY <1>2, <2>4 DEF PairAddresses
  <2> QED  BY <1>2, <2>1, <2>5, ValidStandsFor
<1>3. CASE p.address = ""
  <2>1. addrs \in Seq(V) /\ addrs # <<>>
    BY DEF AcceptedAddresses
  <2>2. ToSet(expandAddresses(addrs)) = UNION {StandsFor(addrs[i]) : i \in DOMAIN addrs}
    <3> HIDE DEF V
    <3> QED  BY <1>1, <2>1, Expanded
  <2>3. bound = UNION {StandsFor(addrs[i]) : i \in DOMAIN addrs}
    BY <1>3, <2>2 DEF PairAddresses
  <2>4. 1 \in DOMAIN addrs /\ \A i \in DOMAIN addrs : addrs[i] \in V
    BY <2>1, SeqParts
  <2>5. \A i \in DOMAIN addrs :
          /\ StandsFor(addrs[i]) # {}
          /\ \A b \in StandsFor(addrs[i]) : isValidAddress(b) /\ b # ""
    BY <2>4, ValidStandsFor
  <2> HIDE DEF bound
  <2>6. \A a : a \in bound <=> \E i \in DOMAIN addrs : a \in StandsFor(addrs[i])
    BY <2>3
  <2>7. bound # {}
    <3>1. PICK a : a \in StandsFor(addrs[1])
      BY <2>4, <2>5
    <3>2. a \in bound
      BY <2>4, <2>6, <3>1
    <3> QED  BY <3>2
  <2>8. \A a \in bound : isValidAddress(a) /\ a # ""
    BY <2>5, <2>6
  <2> QED  BY <1>3, <2>3, <2>7, <2>8 DEF bound
<1> QED  BY <1>2, <1>3

-----------------------------------------------------------------------------
(* Port pairs and their text. *)

(* A port that was parsed is printed as a text that is parsed as that port. *)
LEMMA PortText ==
  ASSUME NEW text, parsesAsPort(text), Number[text] # 0
  PROVE  LET printed == Text[Number[text]]
         IN  printed # "" /\ parsesAsPort(printed) /\ Number[printed] = Number[text]
<1>1. text \in DOMAIN Number /\ Number[text] \in PortNumbers \ {0}
  BY DEF parsesAsPort
<1>2. Text[Number[text]] \in DOMAIN Number /\ Number[Text[Number[text]]] = Number[text]
  BY <1>1, InputsAssumption
<1>3. Text[Number[text]] # ""
  BY <1>2, InputsAssumption
<1> QED  BY <1>1, <1>2, <1>3 DEF parsesAsPort

(* A port other than 0 that is printed as a text that is parsed as that port. *)
HasText(port) ==
  port # 0 /\ Text[port] # "" /\ parsesAsPort(Text[port]) /\ Number[Text[port]] = port

(* A pair that has a text. *)
Printable(p) ==
  /\ p.address # "" => isValidAddress(p.address)
  /\ HasText(p.remote)
  /\ p.local # 0 => HasText(p.local)
  /\ p.proto \in {"tcp", "udp"}
  /\ p = [address |-> p.address, local |-> p.local, remote |-> p.remote, proto |-> p.proto]

(* What ParsePortSpec returns. *)
LEMMA ParsedPair ==
  ASSUME NEW spec, IsPortSpec(spec), NEW p, p = ParsePortSpec(spec)
  PROVE  Printable(p) /\ p.remote \in PortNumbers \ {0} /\ p.local \in PortNumbers
<1>1. p = [address |-> AddressPart(spec),
           local   |-> IF LocalPart(spec) = "" THEN 0 ELSE Number[LocalPart(spec)],
           remote  |-> Number[RemotePart(spec)],
           proto   |-> NormalizeProtocol(spec.suffix)]
  BY DEF ParsePortSpec
<1>2. /\ p.address = AddressPart(spec)
      /\ p.local = IF LocalPart(spec) = "" THEN 0 ELSE Number[LocalPart(spec)]
      /\ p.remote = Number[RemotePart(spec)]
      /\ p.proto = NormalizeProtocol(spec.suffix)
  <2> DEFINE l == IF LocalPart(spec) = "" THEN 0 ELSE Number[LocalPart(spec)]
  <2> HIDE DEF l
  <2>1. p = [address |-> AddressPart(spec), local |-> l, remote |-> Number[RemotePart(spec)],
             proto |-> NormalizeProtocol(spec.suffix)]
    BY <1>1 DEF l
  <2>2. p.address = AddressPart(spec) /\ p.local = l /\ p.remote = Number[RemotePart(spec)]
    BY <2>1
  <2>3. p.proto = NormalizeProtocol(spec.suffix)
    BY <2>1
  <2> QED  BY <2>2, <2>3 DEF l
<1>3. p.address # "" => isValidAddress(p.address)
  BY <1>2 DEF IsPortSpec
<1>4. parsesAsPort(RemotePart(spec)) /\ Number[RemotePart(spec)] # 0
  BY DEF IsPortSpec
<1>5. /\ p.remote # 0 /\ Text[p.remote] # "" /\ parsesAsPort(Text[p.remote])
      /\ Number[Text[p.remote]] = p.remote
  BY <1>2, <1>4, PortText
<1>6. ASSUME p.local # 0
      PROVE  /\ Text[p.local] # "" /\ parsesAsPort(Text[p.local])
             /\ Number[Text[p.local]] = p.local
  <2>1. LocalPart(spec) # "" /\ p.local = Number[LocalPart(spec)]
    BY <1>2, <1>6
  <2>2. parsesAsPort(LocalPart(spec))
    BY <2>1 DEF IsPortSpec
  <2> QED  BY <1>6, <2>1, <2>2, PortText
<1>7. p.proto \in {"tcp", "udp"}
  BY <1>2 DEF IsPortSpec, NormalizeProtocol
<1>8. p = [address |-> p.address, local |-> p.local, remote |-> p.remote, proto |-> p.proto]
  BY <1>1, <1>2
<1>9. Printable(p)
  BY <1>3, <1>5, <1>6, <1>7, <1>8 DEF Printable, HasText
<1>10. p.remote \in PortNumbers \ {0}
  <2>1. Number[RemotePart(spec)] \in PortNumbers
    BY <1>4 DEF parsesAsPort
  <2>2. p.remote = Number[RemotePart(spec)] /\ p.remote # 0
    BY <1>2, <1>5
  <2> QED  BY ONLY <2>1, <2>2
<1>11. p.local \in PortNumbers
  <2>1. 0 \in PortNumbers
    BY DEF PortNumbers
  <2>2. CASE LocalPart(spec) = ""
    <3>1. p.local = 0
      BY <1>2, <2>2
    <3> QED  BY ONLY <2>1, <3>1
  <2>3. CASE LocalPart(spec) # ""
    <3>1. p.local = Number[LocalPart(spec)]
      BY <1>2, <2>3
    <3>2. parsesAsPort(LocalPart(spec))
      BY <2>3 DEF IsPortSpec
    <3>3. Number[LocalPart(spec)] \in PortNumbers
      BY <3>2 DEF parsesAsPort
    <3> QED  BY ONLY <3>1, <3>3
  <2> QED  BY <2>2, <2>3
<1> QED  BY <1>9, <1>10, <1>11

(* The parts of a spec with two fields. *)
LEMMA PairParts ==
  ASSUME NEW a, NEW l, NEW r, NEW s, NEW t,
         t = [bracket |-> a, fields |-> <<l, r>>, suffix |-> s]
  PROVE  /\ t.bracket = a /\ t.suffix = s /\ Len(t.fields) = 2
         /\ AddressPart(t) = a /\ RemotePart(t) = r /\ LocalPart(t) = l
<1>1. t.bracket = a /\ t.suffix = s
  OBVIOUS
<1>2. t.fields = <<l, r>>
  OBVIOUS
<1>3. Len(t.fields) = 2
  BY <1>2
<1>4. Len(t.fields) < 3 /\ Len(t.fields) # 1 /\ Len(t.fields) - 1 = 1
  BY <1>3
<1>5. t.fields[1] = l /\ t.fields[2] = r
  BY <1>2
<1>6. AddressPart(t) = a
  BY <1>1, <1>4 DEF AddressPart
<1>7. RemotePart(t) = r /\ LocalPart(t) = l
  BY <1>3, <1>4, <1>5 DEF RemotePart, LocalPart
<1> QED  BY <1>1, <1>3, <1>6, <1>7

(* Three fields in a row. *)
LEMMA Triple ==
  ASSUME NEW f, NEW a, NEW l, NEW r, f = <<a, l, r>>
  PROVE  Len(f) = 3 /\ f[1] = a /\ f[Len(f) - 1] = l /\ f[Len(f)] = r
<1>1. Len(f) = 3 /\ f[1] = a /\ f[2] = l /\ f[3] = r
  OBVIOUS
<1>2. Len(f) - 1 = 2
  BY <1>1
<1> QED  BY <1>1, <1>2

(* An address before the two ports. *)
LEMMA Prefixed ==
  ASSUME NEW x, NEW y, NEW z
  PROVE  <<x>> \o <<y, z>> = <<x, y, z>>
<1> DEFINE S == {x, y, z}
           s == <<x>> \o <<y, z>>
           t == <<x, y, z>>
<1>1. <<x>> \in Seq(S) /\ <<y, z>> \in Seq(S) /\ t \in Seq(S)
  OBVIOUS
<1>2. s \in Seq(S) /\ Len(s) = 3 /\ Len(t) = 3
  BY <1>1
<1>3. s[1] = t[1]
  BY <1>1
<1>4. s[2] = t[2]
  BY <1>1
<1>5. s[3] = t[3]
  BY <1>1
<1> HIDE DEF s, t, S
<1>6. \A i \in 1..Len(s) : s[i] = t[i]
  BY <1>2, <1>3, <1>4, <1>5
<1>7. s = t
  BY <1>1, <1>2, <1>6, SeqEqual
<1> QED  BY <1>7 DEF s, t

(* PortPair.String and ParsePortSpec are inverse on what has a text. *)
LEMMA RoundTrip ==
  ASSUME NEW p, Printable(p)
  PROVE  IsPortSpec(String(p)) /\ ParsePortSpec(String(p)) = p
<1> DEFINE local == IF p.local = 0 THEN "" ELSE Text[p.local]
           ports == << local, Text[p.remote] >>
           suf   == IF p.proto = "tcp" THEN "" ELSE p.proto
           text  == String(p)
<1>1. /\ p.address # "" => isValidAddress(p.address)
      /\ p.remote # 0 /\ Text[p.remote] # "" /\ parsesAsPort(Text[p.remote])
      /\ Number[Text[p.remote]] = p.remote
      /\ p.local # 0 => /\ Text[p.local] # "" /\ parsesAsPort(Text[p.local])
                        /\ Number[Text[p.local]] = p.local
      /\ p.proto \in {"tcp", "udp"}
      /\ p = [address |-> p.address, local |-> p.local, remote |-> p.remote, proto |-> p.proto]
  BY DEF Printable, HasText
<1>2. suf \in {"", "tcp", "udp"} /\ NormalizeProtocol(suf) = p.proto
  BY <1>1 DEF NormalizeProtocol
<1>3. NormalizeProtocol(p.proto) = p.proto
  BY <1>1 DEF NormalizeProtocol
<1>4. /\ local # "" => parsesAsPort(local)
      /\ p.local = IF local = "" THEN 0 ELSE Number[local]
  BY <1>1
<1>5. Len(ports) = 2 /\ ports[1] = local /\ ports[2] = Text[p.remote]
  OBVIOUS
<1>6. /\ text.suffix = suf
      /\ AddressPart(text) = p.address /\ RemotePart(text) = Text[p.remote]
      /\ LocalPart(text) = local
      /\ text.bracket # "" => Len(text.fields) = 2
      /\ text.bracket = "" => Len(text.fields) \in 1..3
      /\ text.bracket # "" => text.bracket \in DOMAIN Colons
  <2> HIDE DEF local, ports, suf, text
  <2>0. /\ p.address = "" => text = [bracket |-> "", fields |-> ports, suffix |-> suf]
        /\ p.address # "" =>
             text = [bracket |-> FormatAddress(p.address).bracket,
                     fields |-> FormatAddress(p.address).fields \o ports, suffix |-> suf]
    BY <1>3 DEF text, String, local, ports, suf
  <2>1. CASE p.address = ""
    <3>1. text = [bracket |-> p.address, fields |-> <<local, Text[p.remote]>>, suffix |-> suf]
      BY <2>1, <2>0 DEF ports
    <3>2. /\ text.bracket = p.address /\ text.suffix = suf /\ Len(text.fields) = 2
          /\ AddressPart(text) = p.address /\ RemotePart(text) = Text[p.remote]
          /\ LocalPart(text) = local
      BY <3>1, PairParts
    <3>3. 2 \in 1..3
      OBVIOUS
    <3> QED  BY <2>1, <3>2, <3>3
  <2>2. CASE p.address # "" /\ p.address \in DOMAIN Colons
    <3>1. /\ FormatAddress(p.address).bracket = p.address
          /\ FormatAddress(p.address).fields = <<>>
      BY <2>2 DEF FormatAddress
    <3>2. <<>> \o ports = <<local, Text[p.remote]>>
      BY DEF ports
    <3>3. text = [bracket |-> p.address, fields |-> <<local, Text[p.remote]>>, suffix |-> suf]
      BY <2>2, <2>0, <3>1, <3>2
    <3>4. /\ text.bracket = p.address /\ text.suffix = suf /\ Len(text.fields) = 2
          /\ AddressPart(text) = p.address /\ RemotePart(text) = Text[p.remote]
          /\ LocalPart(text) = local
      BY <3>3, PairParts
    <3> QED  BY <2>2, <3>4
  <2>3. CASE p.address # "" /\ p.address \notin DOMAIN Colons
    <3>1. /\ FormatAddress(p.address).bracket = ""
          /\ FormatAddress(p.address).fields = <<p.address>>
      BY <2>3 DEF FormatAddress
    <3>2. <<p.address>> \o ports = <<p.address, local, Text[p.remote]>>
      BY Prefixed DEF ports
    <3>3. text = [bracket |-> "", fields |-> <<p.address, local, Text[p.remote]>>, suffix |-> suf]
      BY <2>3, <2>0, <3>1, <3>2
    <3>4. text.bracket = "" /\ text.suffix = suf
      BY <3>3
    <3>5. text.fields = <<p.address, local, Text[p.remote]>>
      BY <3>3
    <3> DEFINE f == text.fields
    <3>6. Len(f) = 3 /\ f[1] = p.address /\ f[Len(f) - 1] = local /\ f[Len(f)] = Text[p.remote]
      <4> HIDE DEF f
      <4>1. f = <<p.address, local, Text[p.remote]>>
        BY <3>5 DEF f
      <4> QED  BY ONLY <4>1, Triple
    <3> HIDE DEF f
    <3>7. ~(Len(f) < 3) /\ Len(f) # 1
      BY ONLY <3>6
    <3>8. AddressPart(text) = p.address
      BY <2>3, <3>4, <3>6, <3>7 DEF AddressPart, f
    <3>9. RemotePart(text) = Text[p.remote] /\ LocalPart(text) = local
      BY <3>6, <3>7 DEF RemotePart, LocalPart, f
    <3>10. 3 \in 1..3
      OBVIOUS
    <3> QED  BY <2>3, <3>4, <3>6, <3>8, <3>9, <3>10 DEF f
  <2> QED  BY <2>1, <2>2, <2>3
<1> HIDE DEF local, ports, suf, text
<1>7. IsPortSpec(text)
  BY <1>1, <1>2, <1>4, <1>6 DEF IsPortSpec
<1>8. ParsePortSpec(text) = [address |-> p.address, local |-> p.local,
                             remote |-> p.remote, proto |-> p.proto]
  BY <1>1, <1>2, <1>4, <1>6 DEF ParsePortSpec
<1> QED  BY <1>1, <1>7, <1>8 DEF text

(* A pair of a request is what its port spec was read as. *)
LEMMA RequestPair ==
  ASSUME CalledInv, NEW request \in accepted, NEW i \in DOMAIN request.pairs
  PROVE  /\ Printable(request.pairs[i])
         /\ request.pairs[i].remote \in PortNumbers \ {0}
         /\ request.pairs[i].local \in PortNumbers
<1>1. Valid(options) /\ request = RequestOfOptions(options)
  BY DEF CalledInv, Called
<1>2. request.pairs = [j \in DOMAIN options.ports |-> ParsePortSpec(options.ports[j])]
  BY <1>1 DEF RequestOfOptions
<1>3. i \in DOMAIN options.ports /\ request.pairs[i] = ParsePortSpec(options.ports[i])
  BY <1>2
<1>4. IsPortSpec(options.ports[i])
  BY <1>1, <1>3 DEF Valid
<1> QED  BY <1>3, <1>4, ParsedPair

(* In labels, lists and messages a pair is printed as a port spec that is *)
(* read back as the same pair (PortPair.String, ParsePortSpec).           *)
THEOREM PairsRoundTrip == InputSpec => []PairsSurviveText
<1>1. CalledInv => PairsSurviveText
  <2> SUFFICES ASSUME CalledInv, NEW request \in accepted, NEW i \in DOMAIN request.pairs
               PROVE  /\ IsPortSpec(String(request.pairs[i]))
                      /\ ParsePortSpec(String(request.pairs[i])) = request.pairs[i]
    BY DEF PairsSurviveText
  <2>1. Printable(request.pairs[i])
    BY RequestPair
  <2> QED  BY <2>1, RoundTrip
<1> QED  BY <1>1, CalledAlways, PTL

(* And its addresses are those that were accepted. *)
LEMMA RequestIsAccepted ==
  ASSUME CalledInv, NEW request \in accepted
  PROVE  AcceptedAddresses(request.addresses)
<1>1. options \in Options /\ Valid(options) /\ request = RequestOfOptions(options)
  BY DEF CalledInv, Called
<1>2. request.addresses = WithDefaults(options.addresses)
  BY <1>1 DEF RequestOfOptions
<1> QED  BY <1>1, <1>2, RequestAddresses

(* One pair is in its own way exactly where two addresses it is bound on clash. *)
LEMMA ConflictOfOne ==
  ASSUME NEW p, NEW addrs
  PROVE  SelfConflict(<<p>>, addrs)
           <=> \E a, b \in ToSet(PairAddresses(p, addrs)) : a # b /\ Clash(a, b)
<1>1. DOMAIN <<p>> = {1} /\ <<p>>[1] = p
  <2>1. p \in {p}
    OBVIOUS
  <2> QED  BY <2>1, Single
<1>2. ASSUME SelfConflict(<<p>>, addrs)
      PROVE  \E a, b \in ToSet(PairAddresses(p, addrs)) : a # b /\ Clash(a, b)
  BY <1>1, <1>2 DEF SelfConflict
<1>3. ASSUME NEW a \in ToSet(PairAddresses(p, addrs)), NEW b \in ToSet(PairAddresses(p, addrs)),
             a # b, Clash(a, b)
      PROVE  SelfConflict(<<p>>, addrs)
  <2>1. 1 \in DOMAIN <<p>>
    BY <1>1
  <2>2. <<1, a>> # <<1, b>>
    BY <1>3
  <2> QED  BY <1>1, <1>3, <2>1, <2>2 DEF SelfConflict
<1> QED  BY <1>2, <1>3

(* Valid addresses that clash: one of them is the wildcard of the other's     *)
(* family, for all interfaces stand alone.                                    *)
LEMMA ClashOfTwo ==
  ASSUME NEW a, NEW b, a # b, AllInterfaces \notin {a, b}
  PROVE  Clash(a, b) <=> \/ a = "0.0.0.0" /\ b \notin IPv6
                         \/ b = "0.0.0.0" /\ a \notin IPv6
                         \/ a = "::" /\ b \in IPv6
                         \/ b = "::" /\ a \in IPv6
  BY IPv6Assumption DEF Clash

(* No pair of a request is in its own way but where the wildcard of a family  *)
(* is listed beside an address of that family, and Docker is asked for at     *)
(* least one binding of it, on ports that exist (ValidateAddresses,           *)
(* ParsePortSpec).                                                            *)
THEOREM RequestsAreBindable == InputSpec => []PairsAreBindable
<1>1. CalledInv => PairsAreBindable
  <2> SUFFICES ASSUME CalledInv, NEW request \in accepted, NEW i \in DOMAIN request.pairs
               PROVE  LET p == request.pairs[i]
                      IN  /\ p.remote \in PortNumbers \ {0} /\ p.local \in PortNumbers
                          /\ PairAddresses(p, request.addresses) # <<>>
                          /\ SelfConflict(<<p>>, request.addresses)
                               <=> p.address = "" /\ WildcardBeside(request.addresses)
    BY DEF PairsAreBindable
  <2> DEFINE p == request.pairs[i]
             addrs == request.addresses
             bound == ToSet(PairAddresses(p, addrs))
  <2>1. Printable(p) /\ p.remote \in PortNumbers \ {0} /\ p.local \in PortNumbers
    BY RequestPair
  <2>2. AcceptedAddresses(addrs)
    BY RequestIsAccepted
  <2> HIDE DEF p, addrs
  <2>3. p.address # "" => isValidAddress(p.address)
    BY <2>1 DEF Printable
  <2>4. /\ p.address # "" => bound = StandsFor(p.address)
        /\ p.address = "" => bound = UNION {StandsFor(addrs[j]) : j \in DOMAIN addrs}
        /\ bound # {}
    BY <2>2, <2>3, PairIsBoundOn
  <2>5. PairAddresses(p, addrs) # <<>>
    <3>1. ToSet(<<>>) = {}
      BY DEF ToSet
    <3> QED  BY <2>4, <3>1
  <2>6. SelfConflict(<<p>>, addrs) <=> \E a, b \in bound : a # b /\ Clash(a, b)
    BY ConflictOfOne
  <2>7. p.address = "" => bound = ToSet(expandAddresses(addrs))
    BY DEF PairAddresses
  <2> HIDE DEF bound
  <2>8. ASSUME p.address # "" PROVE ~SelfConflict(<<p>>, addrs)
    <3> SUFFICES ASSUME NEW a \in bound, NEW b \in bound, a # b, Clash(a, b) PROVE FALSE
      BY <2>6
    <3>1. a \in StandsFor(p.address) /\ b \in StandsFor(p.address)
      BY <2>4, <2>8
    <3>2. p.address = "localhost"
      BY <3>1 DEF StandsFor
    <3>3. a \in {"127.0.0.1", "::1"} /\ b \in {"127.0.0.1", "::1"}
      BY <3>1, <3>2 DEF StandsFor
    <3> QED  BY <3>3 DEF Clash, AllInterfaces
  <2>9. ASSUME p.address = "" PROVE SelfConflict(<<p>>, addrs) <=> WildcardBeside(addrs)
    <3>1. bound = UNION {StandsFor(addrs[j]) : j \in DOMAIN addrs}
      BY <2>4, <2>9
    <3>2. \A w \in {"0.0.0.0", "::"} : w \in bound <=> w \in ToSet(addrs)
      BY <3>1 DEF StandsFor, ToSet
    <3>3. AllInterfaces \in bound => bound = {AllInterfaces}
      <4> SUFFICES ASSUME AllInterfaces \in bound PROVE bound = {AllInterfaces}
        OBVIOUS
      <4>1. PICK j \in DOMAIN addrs : AllInterfaces \in StandsFor(addrs[j])
        BY <3>1
      <4>2. addrs[j] = AllInterfaces
        BY <4>1 DEF StandsFor, AllInterfaces
      <4>3. Len(addrs) = 1 /\ addrs \in Seq(ValidAddresses)
        BY <2>2, <4>2 DEF AcceptedAddresses
      <4>4. DOMAIN addrs = {1}
        BY <4>3
      <4>5. bound = StandsFor(AllInterfaces)
        <5>1. j = 1
          BY <4>4
        <5> QED  BY <3>1, <4>2, <4>4, <5>1
      <4>6. StandsFor(AllInterfaces) = {AllInterfaces}
        BY DEF StandsFor, AllInterfaces
      <4> QED  BY <4>5, <4>6
    <3>4. ASSUME NEW a \in bound, NEW b \in bound, a # b
          PROVE  AllInterfaces \notin {a, b}
      BY <3>3, <3>4
    <3>5. bound = ToSet(expandAddresses(addrs))
      BY <2>7, <2>9
    <3>6. ASSUME SelfConflict(<<p>>, addrs) PROVE WildcardBeside(addrs)
      <4>1. PICK a \in bound : \E b \in bound : a # b /\ Clash(a, b)
        BY <2>6, <3>6
      <4>2. PICK b \in bound : a # b /\ Clash(a, b)
        BY <4>1
      <4>3. \/ a = "0.0.0.0" /\ b \notin IPv6
            \/ b = "0.0.0.0" /\ a \notin IPv6
            \/ a = "::" /\ b \in IPv6
            \/ b = "::" /\ a \in IPv6
        BY <3>4, <4>2, ClashOfTwo
      <4>4. \E w \in {"0.0.0.0", "::"} \cap bound, c \in bound :
              w # c /\ (c \in IPv6 <=> w = "::")
        BY <4>2, <4>3
      <4> QED  BY <3>2, <3>5, <4>4 DEF WildcardBeside
    <3>7. ASSUME WildcardBeside(addrs) PROVE SelfConflict(<<p>>, addrs)
      <4>1. PICK w \in {"0.0.0.0", "::"} \cap bound :
              \E c \in bound : w # c /\ (c \in IPv6 <=> w = "::")
        BY <3>2, <3>5, <3>7 DEF WildcardBeside
      <4>2. PICK c \in bound : w # c /\ (c \in IPv6 <=> w = "::")
        BY <4>1
      <4>3. Clash(w, c)
        BY <3>4, <4>1, <4>2, ClashOfTwo
      <4> QED  BY <2>6, <4>2, <4>3
    <3> QED  BY <3>6, <3>7
  <2> QED  BY <2>1, <2>5, <2>8, <2>9 DEF p, addrs
<1> QED  BY <1>1, CalledAlways, PTL

(* List and cleanup show, from the label, the host ports Docker was asked to *)
(* publish (EncodeBindings, DecodeBindings).                                 *)
THEOREM LabelTellsBindings == InputSpec => []BindingsSurviveLabel
<1>1. CalledInv => BindingsSurviveLabel
  <2> SUFFICES ASSUME CalledInv, NEW request \in accepted, NEW port \in DOMAIN Text
               PROVE  LET resolved == [i \in DOMAIN request.pairs |->
                                        [request.pairs[i] EXCEPT !.local = IF @ = 0 THEN port ELSE @]]
                          label    == EncodeBindings(resolved, request.addresses)
                      IN  { [address |-> b.address, port |-> b.local, proto |-> b.proto] :
                            b \in DecodeBindings(label) }
                            = Bindings(resolved, request.addresses)
    BY DEF BindingsSurviveLabel
  <2> DEFINE Dom      == DOMAIN request.pairs
             addrs    == request.addresses
             resolved == [i \in Dom |-> [request.pairs[i] EXCEPT !.local = IF @ = 0 THEN port ELSE @]]
             On(i)    == ToSet(PairAddresses(resolved[i], addrs))
             At(i, a) == [resolved[i] EXCEPT !.address = a]
             label    == EncodeBindings(resolved, addrs)
             pairs    == UNION { { At(i, a) : a \in On(i) } : i \in Dom }
             Shown(b) == [address |-> b.address, port |-> b.local, proto |-> b.proto]
             Asked(i, a) == [address |-> a, port |-> resolved[i].local,
                             proto |-> NormalizeProtocol(resolved[i].proto)]
  <2>1. \A i \in Dom : Printable(resolved[i])
    <3> SUFFICES ASSUME NEW i \in Dom PROVE Printable(resolved[i])
      OBVIOUS
    <3> DEFINE p == request.pairs[i]
               r == resolved[i]
    <3>1. Printable(p)
      BY RequestPair
    <3>2. p = [address |-> p.address, local |-> p.local, remote |-> p.remote, proto |-> p.proto]
      BY <3>1 DEF Printable
    <3>3. r = [p EXCEPT !.local = IF p.local = 0 THEN port ELSE p.local]
      OBVIOUS
    <3> HIDE DEF p, r
    <3>4. /\ r.address = p.address /\ r.remote = p.remote /\ r.proto = p.proto
          /\ r.local = (IF p.local = 0 THEN port ELSE p.local)
          /\ r = [address |-> r.address, local |-> r.local, remote |-> r.remote, proto |-> r.proto]
      BY <3>2, <3>3
    <3>5. HasText(port)
      <4>1. /\ port \in PortNumbers \ {0} /\ Text[port] \in DOMAIN Number
            /\ Number[Text[port]] = port
        BY InputsAssumption
      <4>2. Text[port] # ""
        BY <4>1, InputsAssumption
      <4> QED  BY <4>1, <4>2 DEF HasText, parsesAsPort
    <3>6. r.local # 0 => HasText(r.local)
      BY <3>1, <3>4, <3>5 DEF Printable
    <3>7. Printable(r)
      BY <3>1, <3>4, <3>6 DEF Printable
    <3> QED  BY <3>7 DEF r
  <2>2. \A i \in Dom : \A a \in On(i) :
          /\ Printable(At(i, a)) /\ IsPortSpec(String(At(i, a)))
          /\ ParsePortSpec(String(At(i, a))) = At(i, a)
          /\ Shown(At(i, a)) = Asked(i, a)
    <3> SUFFICES ASSUME NEW i \in Dom, NEW a \in On(i)
                 PROVE  /\ Printable(At(i, a)) /\ IsPortSpec(String(At(i, a)))
                        /\ ParsePortSpec(String(At(i, a))) = At(i, a)
                        /\ Shown(At(i, a)) = Asked(i, a)
      OBVIOUS
    <3> DEFINE p == resolved[i]
               q == At(i, a)
    <3>1. Printable(p)
      BY <2>1
    <3>2. AcceptedAddresses(addrs)
      BY RequestIsAccepted
    <3>3. isValidAddress(a)
      <4>1. p.address # "" => isValidAddress(p.address)
        BY <3>1 DEF Printable
      <4> HIDE DEF p, addrs
      <4>2. \A b \in ToSet(PairAddresses(p, addrs)) : isValidAddress(b)
        BY <3>2, <4>1, PairIsBoundOn
      <4> QED  BY <4>2 DEF p, addrs
    <3>4. q = [p EXCEPT !.address = a]
      OBVIOUS
    <3>5. Asked(i, a) = [address |-> a, port |-> p.local, proto |-> NormalizeProtocol(p.proto)]
      OBVIOUS
    <3> HIDE DEF p, q, Asked
    <3>6. p = [address |-> p.address, local |-> p.local, remote |-> p.remote, proto |-> p.proto]
      BY <3>1 DEF Printable
    <3>7. /\ q.address = a /\ q.local = p.local /\ q.remote = p.remote /\ q.proto = p.proto
          /\ q = [address |-> q.address, local |-> q.local, remote |-> q.remote, proto |-> q.proto]
      BY <3>4, <3>6
    <3>8. Printable(q)
      BY <3>1, <3>3, <3>7 DEF Printable
    <3>9. IsPortSpec(String(q)) /\ ParsePortSpec(String(q)) = q
      BY <3>8, RoundTrip
    <3>10. NormalizeProtocol(p.proto) = p.proto
      BY <3>1 DEF Printable, NormalizeProtocol
    <3>11. Shown(q) = Asked(i, a)
      BY <3>5, <3>7, <3>10
    <3> QED  BY <3>8, <3>9, <3>11 DEF q
  <2>3. label = UNION { { String(At(i, a)) : a \in On(i) } : i \in Dom }
    BY DEF EncodeBindings
  <2>4. Bindings(resolved, addrs) = UNION { { Asked(i, a) : a \in On(i) } : i \in Dom }
    BY DEF Bindings
  <2> HIDE DEF Dom, On, At, Asked, label, addrs, resolved
  <2>5. DecodeBindings(label) = UNION { { At(i, a) : a \in On(i) } : i \in Dom }
    <3>1. \A spec \in label : IsPortSpec(spec)
      BY <2>2, <2>3
    <3>2. DecodeBindings(label) = { ParsePortSpec(spec) : spec \in label }
      BY <3>1 DEF DecodeBindings
    <3>3. \A spec \in label : \E i \in Dom : \E a \in On(i) : ParsePortSpec(spec) = At(i, a)
      BY <2>2, <2>3
    <3>4. \A i \in Dom : \A a \in On(i) :
            String(At(i, a)) \in label /\ ParsePortSpec(String(At(i, a))) = At(i, a)
      BY <2>2, <2>3
    <3> QED  BY <3>2, <3>3, <3>4
  <2>6. { Shown(b) : b \in DecodeBindings(label) }
          = UNION { { Asked(i, a) : a \in On(i) } : i \in Dom }
    <3> HIDE DEF Shown
    <3> QED  BY <2>2, <2>5
  <2> QED  BY <2>4, <2>6 DEF label, resolved, addrs, Dom
<1> QED  BY <1>1, CalledAlways, PTL

(* The helper gets the restart policy that was asked for, and one that is *)
(* removed when it ends is never restarted (ParseRestartPolicy).          *)
THEOREM PolicyIsKept == InputSpec => []PolicyIsAsAsked
<1>1. CalledInv => PolicyIsAsAsked
  <2> SUFFICES ASSUME CalledInv, NEW request \in accepted
               PROVE  LET asked == options.restart
                          made  == HelperPolicy(request)
                      IN  /\ asked.name # "" => made = [name |-> asked.name, count |-> retryCount(asked)]
                          /\ asked.name = "" => made.name = IF options.detach THEN "unless-stopped" ELSE "no"
                          /\ ~request.detach => made.name = "no"
    BY DEF PolicyIsAsAsked
  <2> DEFINE asked == options.restart
  <2>1. Valid(options) /\ request = RequestOfOptions(options)
    BY DEF CalledInv, Called
  <2>2. IsRestartPolicy(asked, options.detach)
    BY <2>1 DEF Valid
  <2>3. request.detach = options.detach /\ request.restart = ParseRestartPolicy(asked, options.detach)
    BY <2>1 DEF RequestOfOptions
  <2>4. HelperPolicy(request) = IF options.detach THEN ParseRestartPolicy(asked, options.detach)
                                ELSE [name |-> "no", count |-> 0]
    BY <2>3 DEF HelperPolicy
  <2> HIDE DEF asked
  <2>5. ASSUME ~options.detach, asked.name # ""
        PROVE  asked.name = "no" /\ retryCount(asked) = 0
    <3>1. asked.name = "no"
      BY <2>2, <2>5 DEF IsRestartPolicy
    <3>2. ValidateRestartPolicy(asked.name, retryCount(asked)) /\ asked.count \in DOMAIN Number \cup {""}
      BY <2>2, <2>5 DEF IsRestartPolicy
    <3>3. \A text \in DOMAIN Number : Number[text] \in Int
      BY InputsAssumption
    <3>4. retryCount(asked) \in Int
      <4>1. CASE asked.count = ""
        <5>1. retryCount(asked) = 0
          BY <4>1 DEF retryCount
        <5> QED  BY <5>1
      <4>2. CASE asked.count # ""
        BY <4>2, <3>2, <3>3 DEF retryCount
      <4> QED  BY <4>1, <4>2
    <3> DEFINE c == retryCount(asked)
    <3> HIDE DEF c
    <3>5. c >= 0 /\ (c > 0 => asked.name = "on-failure")
      BY <3>2 DEF ValidateRestartPolicy, c
    <3>6. ~(c > 0)
      BY <3>1, <3>5
    <3>7. c \in Int
      BY <3>4 DEF c
    <3>8. c = 0
      BY <3>5, <3>6, <3>7
    <3> QED  BY <3>1, <3>8 DEF c
  <2>6. ASSUME asked.name # ""
        PROVE  HelperPolicy(request) = [name |-> asked.name, count |-> retryCount(asked)]
    <3>1. ParseRestartPolicy(asked, options.detach) = [name |-> asked.name, count |-> retryCount(asked)]
      BY <2>6 DEF ParseRestartPolicy
    <3>2. CASE options.detach
      BY <3>1, <3>2, <2>4
    <3>3. CASE ~options.detach
      BY <2>6, <3>3, <2>4, <2>5
    <3> QED  BY <3>2, <3>3
  <2>7. ASSUME asked.name = ""
        PROVE  HelperPolicy(request).name = IF options.detach THEN "unless-stopped" ELSE "no"
    <3>1. ParseRestartPolicy(asked, options.detach).name = IF options.detach THEN "unless-stopped" ELSE "no"
      BY <2>7 DEF ParseRestartPolicy
    <3> QED  BY <3>1, <2>4
  <2>8. ~request.detach => HelperPolicy(request).name = "no"
    BY <2>3, <2>4
  <2> QED  BY <2>6, <2>7, <2>8 DEF asked
<1> QED  BY <1>1, CalledAlways, PTL

-----------------------------------------------------------------------------
(* Source ranges. *)

(* How many bits of a range that is given say who is in it. *)
SharedBits(range) == IF range.form = "addr" THEN Width[range.family] ELSE range.bits

(* The addresses of a family that share the first n bits of ip. *)
Under(family, ip, n) == {c \in Bits(family) : \A i \in 1..n : c[i] = ip[i]}

(* A range that ParseSourceRange accepts. *)
AcceptedRange(range) ==
  range \in RangeText /\ range.ip \in Bits(range.family) /\ IsSourceRange(range)

(* What is known of such a range, and the prefix and the clients it stands for. *)
LEMMA RangeGiven ==
  ASSUME NEW r, AcceptedRange(r), r.form # "none"
  PROVE  /\ r.family \in {4, 6} /\ Width[r.family] \in Nat \ {0}
         /\ SharedBits(r) \in Nat /\ SharedBits(r) <= Width[r.family]
         /\ ParseSourceRange(r) = {[family |-> r.family, bits |-> SharedBits(r),
                                    ip |-> masked(r.ip, SharedBits(r))]}
         /\ ClientsOf(r) = {<<r.family, ip>> : ip \in Under(r.family, r.ip, SharedBits(r))}
         /\ r.ip \in Under(r.family, r.ip, SharedBits(r))
<1>1. r.family \in {4, 6} /\ r.bits \in Nat /\ r.form \in {"none", "addr", "cidr", "junk"}
  BY DEF AcceptedRange, RangeText
<1>2. Width[r.family] \in Nat \ {0}
  BY <1>1, InputsAssumption
<1>3. r.form \in {"addr", "cidr"} /\ (r.form = "cidr" => r.bits <= Width[r.family])
  BY <1>1 DEF AcceptedRange, IsSourceRange
<1>4. SharedBits(r) \in Nat /\ SharedBits(r) <= Width[r.family]
  <2>1. CASE r.form = "addr"
    BY <2>1, <1>2 DEF SharedBits
  <2>2. CASE r.form # "addr"
    BY <2>2, <1>1, <1>3 DEF SharedBits
  <2> QED  BY <2>1, <2>2
<1>5. r.ip \in [1..Width[r.family] -> {0, 1}]
  BY DEF AcceptedRange, Bits
<1>6. ParseSourceRange(r) = {[family |-> r.family, bits |-> SharedBits(r),
                              ip |-> masked(r.ip, SharedBits(r))]}
  <2>1. CASE r.form = "addr"
    <3>1. SharedBits(r) = Width[r.family]
      BY <2>1 DEF SharedBits
    <3>2. masked(r.ip, Width[r.family]) = r.ip
      BY <1>2, <1>5 DEF masked
    <3>3. ParseSourceRange(r) = {[family |-> r.family, ip |-> r.ip, bits |-> Width[r.family]]}
      BY <2>1 DEF ParseSourceRange
    <3> QED  BY <3>1, <3>2, <3>3
  <2>2. CASE r.form = "cidr"
    <3>1. SharedBits(r) = r.bits
      BY <2>2 DEF SharedBits
    <3>2. ParseSourceRange(r) = {[family |-> r.family, bits |-> r.bits,
                                  ip |-> masked(r.ip, r.bits)]}
      BY <2>2 DEF ParseSourceRange
    <3> QED  BY <3>1, <3>2
  <2> QED  BY <1>3, <2>1, <2>2
<1>7. ClientsOf(r) = {<<r.family, ip>> : ip \in Under(r.family, r.ip, SharedBits(r))}
  BY DEF ClientsOf, SharedBits, Under
<1>8. r.ip \in Under(r.family, r.ip, SharedBits(r))
  BY DEF AcceptedRange, Under
<1> QED  BY <1>1, <1>2, <1>4, <1>6, <1>7, <1>8

(* The addresses that share n bits with one ip and m bits with another are *)
(* the same only if n = m and the two agree on these bits.                 *)
LEMMA NoWider ==
  ASSUME NEW f \in {4, 6}, NEW w \in Nat, w = Width[f],
         NEW ip \in Bits(f), NEW jp \in Bits(f), NEW n \in Nat, NEW m \in Nat, n <= w, m <= w,
         Under(f, ip, n) = Under(f, jp, m)
  PROVE  m <= n /\ \A i \in 1..m : ip[i] = jp[i]
<1>1. ip \in Under(f, jp, m)
  BY DEF Under
<1>2. \A i \in 1..m : ip[i] = jp[i]
  BY <1>1 DEF Under
<1>3. ASSUME n < m PROVE FALSE
  <2> DEFINE c == [i \in 1..w |-> IF i = m THEN 1 - ip[m] ELSE ip[i]]
  <2>1. m \in 1..w /\ ip \in [1..w -> {0, 1}]
    BY <1>3 DEF Bits
  <2>2. ip[m] \in {0, 1}
    BY <2>1
  <2>3. 1 - ip[m] \in {0, 1} /\ 1 - ip[m] # ip[m]
    BY <2>2
  <2>4. c \in [1..w -> {0, 1}]
    BY <2>1, <2>3
  <2>5. \A i \in 1..n : c[i] = ip[i]
    BY <1>3, <2>1
  <2>6. c[m] # ip[m]
    BY <2>1, <2>3
  <2> HIDE DEF c
  <2>7. c \in Under(f, ip, n)
    BY <2>4, <2>5 DEF Under, Bits
  <2>8. c \in Under(f, jp, m)
    BY <2>7
  <2>9. c[m] = jp[m]
    BY <2>1, <2>8 DEF Under
  <2>10. m \in 1..m
    BY <2>1
  <2> QED  BY <1>2, <2>6, <2>9, <2>10
<1>4. m <= n
  BY <1>3
<1> QED  BY <1>2, <1>4

(* Two ranges have the same prefix exactly if they name the same clients. *)
LEMMA RangeIsItsClients ==
  ASSUME NEW r, AcceptedRange(r), NEW t, AcceptedRange(t)
  PROVE  ParseSourceRange(r) = ParseSourceRange(t) <=> ClientsOf(r) = ClientsOf(t)
<1>1. \A x : x.form = "none" =>
        /\ ParseSourceRange(x) = {}
        /\ ClientsOf(x) = UNION { {family} \X Bits(family) : family \in {4, 6} }
  BY DEF ParseSourceRange, ClientsOf
<1>2. CASE r.form = "none" /\ t.form = "none"
  BY <1>1, <1>2
<1>3. ASSUME NEW x, AcceptedRange(x), x.form = "none", NEW y, AcceptedRange(y), y.form # "none"
      PROVE  ParseSourceRange(x) # ParseSourceRange(y) /\ ClientsOf(x) # ClientsOf(y)
  <2>1. ParseSourceRange(x) = {} /\ ParseSourceRange(y) # {}
    BY <1>1, <1>3, RangeGiven
  <2>2. PICK other \in {4, 6} : other # y.family
    OBVIOUS
  <2> DEFINE zero == [i \in 1..Width[other] |-> 0]
  <2>3. zero \in Bits(other)
    BY DEF Bits
  <2> HIDE DEF zero
  <2>4. <<other, zero>> \in {other} \X Bits(other)
    BY <2>3
  <2>5. <<other, zero>> \in ClientsOf(x)
    BY <1>1, <1>3, <2>4
  <2>6. ClientsOf(y) = {<<y.family, ip>> : ip \in Under(y.family, y.ip, SharedBits(y))}
    BY <1>3, RangeGiven
  <2>7. <<other, zero>> \notin ClientsOf(y)
    BY <2>2, <2>6
  <2> QED  BY <2>1, <2>5, <2>7
<1>4. CASE r.form # "none" /\ t.form # "none"
  <2> DEFINE n  == SharedBits(r)
             m  == SharedBits(t)
             in == Under(r.family, r.ip, n)
             on == Under(t.family, t.ip, m)
  <2>1. /\ r.family \in {4, 6} /\ Width[r.family] \in Nat \ {0} /\ n \in Nat /\ n <= Width[r.family]
        /\ ParseSourceRange(r) = {[family |-> r.family, bits |-> n, ip |-> masked(r.ip, n)]}
        /\ ClientsOf(r) = {<<r.family, ip>> : ip \in in}
        /\ r.ip \in in
    BY <1>4, RangeGiven
  <2>2. /\ t.family \in {4, 6} /\ Width[t.family] \in Nat \ {0} /\ m \in Nat /\ m <= Width[t.family]
        /\ ParseSourceRange(t) = {[family |-> t.family, bits |-> m, ip |-> masked(t.ip, m)]}
        /\ ClientsOf(t) = {<<t.family, ip>> : ip \in on}
        /\ t.ip \in on
    BY <1>4, RangeGiven
  <2>3. r.ip \in Bits(r.family) /\ t.ip \in Bits(t.family)
    BY DEF AcceptedRange
  <2>4. ASSUME ParseSourceRange(r) = ParseSourceRange(t) PROVE ClientsOf(r) = ClientsOf(t)
    <3> HIDE DEF n, m
    <3> DEFINE p == [family |-> r.family, bits |-> n, ip |-> masked(r.ip, n)]
               q == [family |-> t.family, bits |-> m, ip |-> masked(t.ip, m)]
    <3>1. p = q
      <4>1. {p} = {q}
        BY <2>1, <2>2, <2>4
      <4> HIDE DEF p, q
      <4> QED  BY <4>1
    <3>2. p.family = q.family /\ p.bits = q.bits /\ p.ip = q.ip
      BY <3>1
    <3>3. r.family = t.family /\ n = m /\ masked(r.ip, n) = masked(t.ip, n)
      BY <3>2
    <3>4. \A i \in 1..n : r.ip[i] = t.ip[i]
      <4> SUFFICES ASSUME NEW i \in 1..n PROVE r.ip[i] = t.ip[i]
        OBVIOUS
      <4>1. DOMAIN r.ip = 1..Width[r.family] /\ DOMAIN t.ip = 1..Width[r.family]
        BY <2>3, <3>3 DEF Bits
      <4>2. i \in 1..Width[r.family] /\ i <= n
        BY <2>1
      <4>3. masked(r.ip, n)[i] = r.ip[i] /\ masked(t.ip, n)[i] = t.ip[i]
        BY <4>1, <4>2 DEF masked
      <4> QED  BY <3>3, <4>3
    <3>5. in = on
      BY <3>3, <3>4 DEF Under
    <3> QED  BY <2>1, <2>2, <3>3, <3>5
  <2>5. ASSUME ClientsOf(r) = ClientsOf(t) PROVE ParseSourceRange(r) = ParseSourceRange(t)
    <3> HIDE DEF n, m, in, on
    <3>1. r.family = t.family
      <4>1. <<r.family, r.ip>> \in ClientsOf(t)
        BY <2>1, <2>5
      <4> QED  BY <2>2, <4>1
    <3>2. in = on
      <4>1. \A ip : ip \in in <=> <<r.family, ip>> \in ClientsOf(r)
        BY <2>1
      <4>2. \A ip : ip \in on <=> <<t.family, ip>> \in ClientsOf(t)
        BY <2>2
      <4>3. \A ip : ip \in in <=> ip \in on
        BY <2>5, <3>1, <4>1, <4>2
      <4> QED  BY <4>3
    <3>3. Under(r.family, r.ip, n) = Under(r.family, t.ip, m)
      BY <3>1, <3>2 DEF in, on
    <3>4. m <= n /\ \A i \in 1..m : r.ip[i] = t.ip[i]
      BY <2>1, <2>2, <2>3, <3>1, <3>3, NoWider
    <3>5. n <= m
      BY <2>1, <2>2, <2>3, <3>1, <3>3, NoWider
    <3>6. n = m
      BY <2>1, <2>2, <3>4, <3>5
    <3>7. masked(r.ip, n) = masked(t.ip, n)
      <4>1. DOMAIN r.ip = 1..Width[r.family] /\ DOMAIN t.ip = 1..Width[r.family]
        BY <2>3, <3>1 DEF Bits
      <4>2. \A i \in 1..Width[r.family] : i <= n => r.ip[i] = t.ip[i]
        BY <2>1, <3>4, <3>6
      <4> QED  BY <4>1, <4>2 DEF masked
    <3> QED  BY <2>1, <2>2, <3>1, <3>6, <3>7
  <2> QED  BY <2>4, <2>5
<1> QED  BY <1>2, <1>3, <1>4

(* Two forwards have the same source range in their labels exactly if they are *)
(* to accept the same clients, however it was written (ParseSourceRange).      *)
THEOREM RangesAreCompared == InputSpec => RangesCompareByClients
<1>1. CalledInv /\ CalledInv' =>
        [\A was \in accepted, is \in accepted' :
           was.range = is.range <=> ClientsOf(options.range) = ClientsOf(options'.range)]_inputVars
  <2> SUFFICES ASSUME CalledInv, CalledInv', NEW was \in accepted, NEW is \in accepted'
               PROVE  was.range = is.range <=> ClientsOf(options.range) = ClientsOf(options'.range)
    OBVIOUS
  <2>1. options \in Options /\ Valid(options) /\ was = RequestOfOptions(options)
    BY DEF CalledInv, Called
  <2>2. options' \in Options /\ Valid(options') /\ is = RequestOfOptions(options')
    BY DEF CalledInv, Called, Valid, RequestOfOptions
  <2>3. /\ was.range = ParseSourceRange(options.range)
        /\ is.range = ParseSourceRange(options'.range)
    BY <2>1, <2>2 DEF RequestOfOptions
  <2>4. \A o \in Options : Valid(o) => AcceptedRange(o.range)
    BY InputsAssumption DEF Valid, AcceptedRange
  <2>5. AcceptedRange(options.range) /\ AcceptedRange(options'.range)
    BY <2>1, <2>2, <2>4
  <2> QED  BY <2>3, <2>5, RangeIsItsClients
<1> QED  BY <1>1, CalledAlways, PTL DEF RangesCompareByClients
=============================================================================
