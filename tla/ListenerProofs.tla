---------------------------- MODULE ListenerProofs ----------------------------
(***************************************************************************)
(* Proofs about Listeners, for every list of sockets: the probe finds      *)
(* exactly the ports another container can reach, each once and in order   *)
(* (ExtractListeners and parseHexAddr in internal/probe.go).               *)
(***************************************************************************)
EXTENDS Listeners, FiniteSetTheorems, SequenceTheorems, TLAPS

-----------------------------------------------------------------------------
(* Addresses. *)

(* A table of n values is a sequence of length n. *)
LEMMA TableIsSeq ==
  ASSUME NEW n \in Nat, NEW S, NEW f \in [1..n -> S]
  PROVE  f \in Seq(S) /\ Len(f) = n /\ DOMAIN f = 1..n
<1>1. f \in Seq(S)
  OBVIOUS
<1>2. DOMAIN f = 1..n
  OBVIOUS
<1>3. Len(f) = n
  BY <1>1, <1>2, LenProperties
<1> QED  BY <1>1, <1>2, <1>3

(* Where a byte of a word is printed, and where the byte printed there is from. *)
LEMMA WordIndex ==
  ASSUME NEW i \in 1..16
  PROVE  LET w == (i - 1) \div 4
             b == (i - 1) % 4
             j == w * 4 + 4 - b
         IN  /\ j \in 1..16
             /\ 4 * ((j - 1) \div 4) + 4 - ((j - 1) % 4) = i
  OBVIOUS

(* What the kernel prints is read back as the address of the socket. *)
LEMMA AddressReadBack ==
  ASSUME NEW ip \in [1..4 -> Byte] \cup [1..16 -> Byte]
  PROVE  parseHexAddr(PrintedAddress(ip)) = ip
<1> DEFINE printed == PrintedAddress(ip)
<1>1. CASE ip \in [1..4 -> Byte]
  <2>1. \A i \in 1..4 : 4 * ((i - 1) \div 4) + 4 - ((i - 1) % 4) = 5 - i
    OBVIOUS
  <2>2. printed = [i \in 1..4 |-> ip[5 - i]]
    BY <1>1, <2>1 DEF PrintedAddress
  <2>3. printed \in [1..4 -> Byte]
    BY <1>1, <2>2
  <2> HIDE DEF printed
  <2>4. Len(printed) = 4
    BY <2>3, TableIsSeq
  <2>5. parseHexAddr(printed) = [i \in 1..4 |-> printed[5 - i]]
    BY <2>4 DEF parseHexAddr
  <2>6. \A i \in 1..4 : 5 - i \in 1..4 /\ 5 - (5 - i) = i
    OBVIOUS
  <2>7. \A i \in 1..4 : printed[5 - i] = ip[i]
    BY <2>2, <2>6
  <2>8. parseHexAddr(printed) = [i \in 1..4 |-> ip[i]]
    BY <2>5, <2>7
  <2> QED  BY <1>1, <2>8 DEF printed
<1>2. CASE ip \in [1..16 -> Byte]
  <2> DEFINE from(i) == 4 * ((i - 1) \div 4) + 4 - ((i - 1) % 4)
             at(i)   == ((i - 1) \div 4) * 4 + 4 - ((i - 1) % 4)
  <2>1. \A i \in 1..16 : at(i) \in 1..16 /\ from(at(i)) = i /\ from(i) = at(i)
    BY WordIndex
  <2>2. printed = [i \in 1..16 |-> ip[from(i)]]
    BY <1>2 DEF PrintedAddress
  <2>3. printed \in [1..16 -> Byte]
    <3> HIDE DEF from, at, printed
    <3> QED  BY <1>2, <2>1, <2>2
  <2>4. Len(printed) = 16
    <3> HIDE DEF printed
    <3> QED  BY <2>3, TableIsSeq
  <2>5. parseHexAddr(printed) = [i \in 1..16 |-> printed[at(i)]]
    <3> HIDE DEF printed
    <3> QED  BY <2>4 DEF parseHexAddr
  <2> HIDE DEF from, at, printed
  <2>6. \A i \in 1..16 : printed[at(i)] = ip[i]
    BY <2>1, <2>2
  <2>7. parseHexAddr(printed) = [i \in 1..16 |-> ip[i]]
    BY <2>5, <2>6
  <2> QED  BY <1>2, <2>7 DEF printed
<1> QED  BY <1>1, <1>2

(* The length of an address. *)
LEMMA AddressLength ==
  ASSUME NEW ip \in [1..4 -> Byte] \cup [1..16 -> Byte]
  PROVE  /\ ip \in Seq(Byte) /\ ip # <<>>
         /\ \/ ip \in [1..4 -> Byte] /\ Len(ip) = 4
            \/ ip \in [1..16 -> Byte] /\ Len(ip) = 16
<1>1. 4 \in Nat /\ 16 \in Nat
  OBVIOUS
<1>2. ip \in [1..4 -> Byte] => ip \in Seq(Byte) /\ Len(ip) = 4
  BY <1>1, TableIsSeq
<1>3. ip \in [1..16 -> Byte] => ip \in Seq(Byte) /\ Len(ip) = 16
  BY <1>1, TableIsSeq
<1>4. Len(<<>>) = 0
  BY EmptySeq
<1>5. ip # <<>>
  <2>1. Len(ip) = 4 \/ Len(ip) = 16
    BY <1>2, <1>3
  <2>2. Len(ip) # 0
    BY <2>1
  <2> QED  BY <1>4, <2>2
<1> QED  BY <1>2, <1>3, <1>5

(* An address of 4 bytes is not one of 16. *)
LEMMA ShortOrLong ==
  ASSUME NEW ip \in [1..4 -> Byte] \cup [1..16 -> Byte]
  PROVE  /\ Len(ip) \in {4, 16}
         /\ Len(ip) = 16 => ip \in [1..16 -> Byte]
         /\ Len(ip) = 16 => Len(ip) # 4
<1>1. \/ ip \in [1..4 -> Byte] /\ Len(ip) = 4
      \/ ip \in [1..16 -> Byte] /\ Len(ip) = 16
  BY AddressLength
<1>2. Len(ip) \in {4, 16}
  BY <1>1
<1>3. ASSUME Len(ip) = 16 PROVE ip \in [1..16 -> Byte] /\ Len(ip) # 4
  <2>1. Len(ip) # 4
    BY <1>3
  <2> QED  BY <1>1, <2>1
<1> QED  BY <1>2, <1>3

(* The first n bytes are zero. *)
LEMMA ZeroBytes ==
  ASSUME NEW n \in Nat
  PROVE  Zeros(n) \in Seq(Byte) /\ Len(Zeros(n)) = n /\ \A i \in 1..n : Zeros(n)[i] = 0
<1>1. Zeros(n) \in [1..n -> Byte] /\ \A i \in 1..n : Zeros(n)[i] = 0
  BY DEF Zeros, Byte
<1> QED  BY <1>1, TableIsSeq

(* The parts of a sequence of two. *)
LEMMA TwoParts ==
  ASSUME NEW V, NEW s \in Seq(V), NEW t \in Seq(V), NEW u, u = s \o t
  PROVE  /\ u \in Seq(V) /\ Len(u) = Len(s) + Len(t)
         /\ \A i \in 1..Len(s) : u[i] = s[i]
         /\ \A i \in 1..Len(t) : u[Len(s) + i] = t[i]
  OBVIOUS

(* An address is mapped if its first twelve bytes say so. *)
LEMMA MappedBytes ==
  ASSUME NEW ip \in [1..16 -> Byte]
  PROVE  SubSeq(ip, 1, 12) = Zeros(10) \o <<255, 255>>
           <=> \A i \in 1..12 : ip[i] = IF i > 10 THEN 255 ELSE 0
<1> DEFINE head == SubSeq(ip, 1, 12)
           mark == Zeros(10) \o <<255, 255>>
<1>1. ip \in Seq(Byte) /\ Len(ip) = 16
  BY AddressLength
<1>2. head \in Seq(Byte) /\ Len(head) = 12 /\ \A i \in 1..12 : head[i] = ip[i]
  BY <1>1
<1>3. Zeros(10) \in Seq(Byte) /\ Len(Zeros(10)) = 10 /\ \A i \in 1..10 : Zeros(10)[i] = 0
  BY ZeroBytes
<1> DEFINE z == Zeros(10)
           two == <<255, 255>>
<1>4. two \in Seq(Byte) /\ Len(two) = 2 /\ two[1] = 255 /\ two[2] = 255
  BY DEF Byte
<1>5. mark \in Seq(Byte) /\ Len(mark) = 12
      /\ \A i \in 1..12 : mark[i] = IF i > 10 THEN 255 ELSE 0
  <2>1. z \in Seq(Byte) /\ Len(z) = 10 /\ \A i \in 1..10 : z[i] = 0
    BY <1>3
  <2> HIDE DEF z, two
  <2>2. mark = z \o two
    BY DEF z, two
  <2> HIDE DEF mark
  <2>a. two \in Seq(Byte) /\ Len(two) = 2 /\ two[1] = 255 /\ two[2] = 255
    BY <1>4 DEF two
  <2>b. /\ mark \in Seq(Byte) /\ Len(mark) = Len(z) + Len(two)
        /\ \A i \in 1..Len(z) : mark[i] = z[i]
        /\ \A i \in 1..Len(two) : mark[Len(z) + i] = two[i]
    <3>1. z \in Seq(Byte) /\ two \in Seq(Byte)
      BY <2>1, <2>a
    <3> QED  BY ONLY <3>1, <2>2, TwoParts
  <2>3. mark \in Seq(Byte) /\ Len(mark) = 12
    BY <2>1, <2>a, <2>b
  <2>4. \A i \in 1..10 : mark[i] = z[i]
    BY <2>1, <2>b
  <2>5. \A i \in 1..2 : mark[10 + i] = two[i]
    BY <2>1, <2>a, <2>b
  <2>6. mark[10 + 1] = 255 /\ mark[10 + 2] = 255
    BY <2>a, <2>5
  <2>7. \A i \in 1..12 : i \in 1..10 \/ i = 11 \/ i = 12
    OBVIOUS
  <2> QED  BY <2>1, <2>3, <2>4, <2>6, <2>7
<1> HIDE DEF head, mark
<1>6. head = mark <=> \A i \in 1..12 : head[i] = mark[i]
  <2>1. ASSUME \A i \in 1..12 : head[i] = mark[i] PROVE head = mark
    BY <1>2, <1>5, <2>1, SeqEqual
  <2> QED  BY <2>1
<1>7. (\A i \in 1..12 : head[i] = mark[i]) <=> \A i \in 1..12 : ip[i] = IF i > 10 THEN 255 ELSE 0
  BY <1>2, <1>5
<1> QED  BY <1>6, <1>7 DEF head, mark

(* Go's IsLoopback says what a loopback address is. *)
LEMMA LoopbackIsLoopback ==
  ASSUME NEW ip \in [1..4 -> Byte] \cup [1..16 -> Byte]
  PROVE  IsLoopback(ip) <=> LoopbackIP(ip)
<1>1. /\ ip \in Seq(Byte) /\ ip # <<>>
      /\ Len(ip) \in {4, 16}
  BY AddressLength, ShortOrLong
<1>2. CASE Len(ip) = 4
  <2>1. To4(ip) = ip
    BY <1>2 DEF To4
  <2>2. IsLoopback(ip) <=> ip[1] = 127
    BY <1>1, <2>1 DEF IsLoopback
  <2>3. LoopbackIP(ip) <=> ip[1] = 127
    <3>1. Len(ip) # 16
      BY <1>2
    <3> QED  BY <1>2, <3>1 DEF LoopbackIP
  <2> QED  BY <2>2, <2>3
<1>3. CASE Len(ip) = 16
  <2> DEFINE mapped == \A i \in 1..12 : ip[i] = IF i > 10 THEN 255 ELSE 0
  <2>1. ip \in [1..16 -> Byte] /\ Len(ip) # 4
    BY <1>3, ShortOrLong
  <2>2. To4(ip) = IF mapped THEN SubSeq(ip, 13, 16) ELSE <<>>
    BY <2>1, MappedBytes DEF To4
  <2>3. Len(SubSeq(ip, 13, 16)) = 4 /\ SubSeq(ip, 13, 16)[1] = ip[13]
    BY <1>1, <1>3
  <2>4. SubSeq(ip, 13, 16) # <<>>
    <3>1. Len(<<>>) = 0
      OBVIOUS
    <3> QED  BY <2>3, <3>1
  <2>5. LoopbackIP(ip) <=> \/ mapped /\ ip[13] = 127
                           \/ ip[16] = 1 /\ \A i \in 1..15 : ip[i] = 0
    <3> DEFINE loop == ip[16] = 1 /\ \A i \in 1..15 : ip[i] = 0
    <3>1. LoopbackIP(ip) <=> \/ Len(ip) = 4 /\ ip[1] = 127
                             \/ Len(ip) = 16 /\ ip[13] = 127 /\ mapped
                             \/ Len(ip) = 16 /\ loop
      BY DEF LoopbackIP
    <3> HIDE DEF mapped, loop
    <3>2. LoopbackIP(ip) <=> (mapped /\ ip[13] = 127) \/ loop
      BY <1>3, <2>1, <3>1
    <3> QED  BY <3>2 DEF loop
  <2>6. CASE mapped
    <3>1. IsLoopback(ip) <=> ip[13] = 127
      BY <2>2, <2>3, <2>4, <2>6 DEF IsLoopback
    <3>2. ip[11] = 255
      BY <2>6
    <3>3. ~\A i \in 1..15 : ip[i] = 0
      <4>1. 11 \in 1..15 /\ 255 # 0
        OBVIOUS
      <4> QED  BY <3>2, <4>1
    <3> HIDE DEF mapped
    <3>4. ~(ip[16] = 1 /\ \A i \in 1..15 : ip[i] = 0)
      BY <3>3
    <3> QED  BY <2>5, <2>6, <3>1, <3>4
  <2>7. CASE ~mapped
    <3> DEFINE one == Zeros(15) \o <<1>>
               z == Zeros(15)
    <3>1. IsLoopback(ip) <=> ip = one
      BY <2>2, <2>7 DEF IsLoopback
    <3>2. z \in Seq(Byte) /\ Len(z) = 15 /\ \A i \in 1..15 : z[i] = 0
      BY ZeroBytes
    <3>3. one = z \o <<1>> /\ <<1>> \in Seq(Byte) /\ Len(<<1>>) = 1
      BY DEF Byte
    <3> HIDE DEF z, one, mapped
    <3> DEFINE last == <<1>>
    <3>a. last \in Seq(Byte) /\ Len(last) = 1 /\ last[1] = 1 /\ one = z \o last
      BY <3>3
    <3> HIDE DEF last
    <3>d. /\ one \in Seq(Byte) /\ Len(one) = Len(z) + Len(last)
          /\ \A i \in 1..Len(z) : one[i] = z[i]
          /\ \A i \in 1..Len(last) : one[Len(z) + i] = last[i]
      <4>1. z \in Seq(Byte) /\ last \in Seq(Byte) /\ one = z \o last
        BY <3>2, <3>a
      <4> QED  BY ONLY <4>1, TwoParts
    <3>4. one \in Seq(Byte) /\ Len(one) = 16
      BY <3>2, <3>a, <3>d
    <3>b. \A i \in 1..15 : one[i] = z[i]
      BY <3>2, <3>d
    <3>c. \A i \in 1..1 : one[15 + i] = last[i]
      BY <3>2, <3>a, <3>d
    <3>5. one[16] = 1 /\ \A i \in 1..15 : one[i] = 0
      <4>0. 1 \in 1..1
        OBVIOUS
      <4>1. one[15 + 1] = 1
        BY <3>a, <3>c, <4>0
      <4> QED  BY <3>2, <3>b, <4>1
    <3>6. ip = one <=> \A i \in 1..16 : ip[i] = one[i]
      <4>1. ASSUME \A i \in 1..16 : ip[i] = one[i] PROVE ip = one
        BY <1>1, <1>3, <3>4, <4>1, SeqEqual
      <4> QED  BY <4>1
    <3>7. (\A i \in 1..16 : ip[i] = one[i]) <=> ip[16] = 1 /\ \A i \in 1..15 : ip[i] = 0
      <4>1. \A i : i \in 1..16 <=> i \in 1..15 \/ i = 16
        OBVIOUS
      <4> QED  BY <3>5, <4>1
    <3> QED  BY <2>5, <2>7, <3>1, <3>6, <3>7
  <2> QED  BY <2>6, <2>7
<1> QED  BY <1>1, <1>2, <1>3

-----------------------------------------------------------------------------
(* Lines and sockets. *)

(* What a line says of its socket. *)
LEMMA LineOfSocket ==
  ASSUME NEW socket \in SocketType
  PROVE  LET line == ProcLine(socket)
         IN  /\ probeSections[line.section] = socket.proto /\ line.port = socket.port
             /\ Counts(line)
                  <=> Accepts(socket) /\ ~LoopbackIP(socket.ip) /\ socket.port > 0
<1> DEFINE line == ProcLine(socket)
<1>1. /\ socket.ip \in [1..4 -> Byte] \cup [1..16 -> Byte]
      /\ socket.port \in Nat /\ socket.proto \in {"tcp", "udp"}
  BY DEF SocketType
<1>2. /\ line.section = IF Len(socket.ip) = 4 THEN socket.proto
                        ELSE IF socket.proto = "tcp" THEN "tcp6" ELSE "udp6"
      /\ line.addr = PrintedAddress(socket.ip)
      /\ line.port = socket.port /\ line.state = socket.state
  BY DEF ProcLine
<1> HIDE DEF line
<1>3. probeSections[line.section] = socket.proto
  <2>1. /\ probeSections["tcp"] = "tcp" /\ probeSections["tcp6"] = "tcp"
        /\ probeSections["udp"] = "udp" /\ probeSections["udp6"] = "udp"
    BY DEF probeSections
  <2>2. CASE socket.proto = "tcp"
    <3>1. line.section \in {"tcp", "tcp6"}
      BY <1>2, <2>2
    <3> QED  BY <2>1, <2>2, <3>1
  <2>3. CASE socket.proto = "udp"
    <3>1. line.section \in {"udp", "udp6"}
      BY <1>2, <2>3
    <3> QED  BY <2>1, <2>3, <3>1
  <2> QED  BY <1>1, <2>2, <2>3
<1>4. parseHexAddr(line.addr) = socket.ip /\ socket.ip # <<>>
  BY <1>1, <1>2, AddressReadBack, AddressLength
<1>5. IsLoopback(socket.ip) <=> LoopbackIP(socket.ip)
  BY <1>1, LoopbackIsLoopback
<1>6. line.state = wantState(socket.proto) <=> Accepts(socket)
  BY <1>1, <1>2 DEF wantState, Accepts
<1>7. Counts(line) <=> /\ line.state = wantState(socket.proto)
                       /\ ~IsLoopback(socket.ip) /\ line.port > 0
  BY <1>3, <1>4 DEF Counts
<1> QED  BY <1>2, <1>3, <1>5, <1>6, <1>7 DEF line

(* The lines that count are those of the sockets others can reach. *)
LEMMA FoundAreReachable ==
  ASSUME NEW sockets \in Seq(SocketType)
  PROVE  Found(ProcTable(sockets)) = ReachableListeners(sockets)
<1> DEFINE lines == ProcTable(sockets)
           Of(l) == [port |-> l.port, proto |-> probeSections[l.section]]
           At(i) == [port |-> sockets[i].port, proto |-> sockets[i].proto]
           Reached(i) == Accepts(sockets[i]) /\ ~LoopbackIP(sockets[i].ip) /\ sockets[i].port > 0
<1>1. lines = [i \in DOMAIN sockets |-> ProcLine(sockets[i])]
  BY DEF ProcTable
<1>2. \A i \in DOMAIN sockets : Of(lines[i]) = At(i) /\ (Counts(lines[i]) <=> Reached(i))
  BY <1>1, LineOfSocket
<1>3. ToSet(lines) = {lines[i] : i \in DOMAIN sockets}
  BY <1>1 DEF ToSet
<1>4. Found(lines) = {Of(l) : l \in {m \in ToSet(lines) : Counts(m)}}
  BY DEF Found
<1>5. ReachableListeners(sockets) = {At(i) : i \in {j \in DOMAIN sockets : Reached(j)}}
  BY DEF ReachableListeners
<1> HIDE DEF lines, Of, At, Reached
<1>6. Found(lines) = {At(i) : i \in {j \in DOMAIN sockets : Reached(j)}}
  <2>1. ASSUME NEW x \in Found(lines)
        PROVE  \E i \in {j \in DOMAIN sockets : Reached(j)} : x = At(i)
    <3>1. PICK l \in ToSet(lines) : Counts(l) /\ x = Of(l)
      BY <1>4
    <3>2. PICK i \in DOMAIN sockets : l = lines[i]
      BY <1>3
    <3> QED  BY <1>2, <3>1, <3>2
  <2>2. ASSUME NEW i \in DOMAIN sockets, Reached(i) PROVE At(i) \in Found(lines)
    <3>1. lines[i] \in ToSet(lines) /\ Counts(lines[i]) /\ Of(lines[i]) = At(i)
      BY <1>2, <1>3, <2>2
    <3> QED  BY <1>4, <3>1
  <2> QED  BY <2>1, <2>2
<1> QED  BY <1>5, <1>6 DEF lines

-----------------------------------------------------------------------------
(* The order of the listeners. *)

Listener == [port : Nat, proto : {"tcp", "udp"}]

(* The probe sorts by a strict total order. *)
LEMMA BeforeIsOrder ==
  ASSUME NEW a \in Listener, NEW b \in Listener
  PROVE  /\ ~ListenerBefore(a, a)
         /\ ListenerBefore(a, b) => ~ListenerBefore(b, a)
         /\ \A c \in Listener : ListenerBefore(a, b) /\ ListenerBefore(b, c) => ListenerBefore(a, c)
         /\ a # b => ListenerBefore(a, b) \/ ListenerBefore(b, a)
<1>1. \A x \in Listener : /\ x.port \in Nat /\ x.proto \in {"tcp", "udp"}
                          /\ x = [port |-> x.port, proto |-> x.proto]
  BY DEF Listener
<1>2. \A x, y \in Listener :
        ListenerBefore(x, y) <=> \/ x.proto # y.proto /\ x.proto = "tcp"
                                 \/ x.proto = y.proto /\ x.port < y.port
  BY DEF ListenerBefore
<1>3. a.port = b.port /\ a.proto = b.proto => a = b
  BY <1>1
<1> HIDE DEF Listener
<1>4. ~ListenerBefore(a, a) /\ (ListenerBefore(a, b) => ~ListenerBefore(b, a))
  BY <1>1, <1>2
<1>5. \A c \in Listener : ListenerBefore(a, b) /\ ListenerBefore(b, c) => ListenerBefore(a, c)
  BY <1>1, <1>2
<1>6. a # b => ListenerBefore(a, b) \/ ListenerBefore(b, a)
  BY <1>1, <1>2, <1>3
<1> QED  BY <1>4, <1>5, <1>6

(* A finite set of listeners has an ordered enumeration: each at its rank. *)
LEMMA Enumerated ==
  ASSUME NEW S \in SUBSET Listener, IsFiniteSet(S)
  PROVE  \E q \in [1..Cardinality(S) -> S] :
           \A i, j \in DOMAIN q : i < j => ListenerBefore(q[i], q[j])
<1> DEFINE N        == Cardinality(S)
           Below(x) == {y \in S : ListenerBefore(y, x)}
           rank     == [x \in S |-> Cardinality(Below(x)) + 1]
           q        == [n \in 1..N |-> CHOOSE x \in S : rank[x] = n]
<1>1. N \in Nat
  BY FS_CardinalityType
<1>2. ASSUME NEW x \in S PROVE Cardinality(Below(x)) \in Nat /\ IsFiniteSet(Below(x))
  <2>1. Below(x) \in SUBSET S
    OBVIOUS
  <2> HIDE DEF Below
  <2> QED  BY <2>1, FS_Subset, FS_CardinalityType
<1>3. ASSUME NEW x \in S PROVE Cardinality(Below(x)) + 1 \in 1..N
  <2>1. Below(x) \in SUBSET S
    OBVIOUS
  <2>2. x \notin Below(x)
    BY BeforeIsOrder
  <2> HIDE DEF Below
  <2>3. Cardinality(Below(x)) <= N /\ (N = Cardinality(Below(x)) => S = Below(x))
    BY <2>1, FS_Subset
  <2>4. Cardinality(Below(x)) # N
    BY <2>2, <2>3
  <2> HIDE DEF N
  <2> QED  BY <1>1, <1>2, <2>3, <2>4
<1>4. ASSUME NEW x \in S, NEW y \in S, ListenerBefore(x, y)
      PROVE  Cardinality(Below(x)) < Cardinality(Below(y))
  <2>1. \A z \in S : ListenerBefore(z, x) => ListenerBefore(z, y)
    BY <1>4, BeforeIsOrder
  <2>2. Below(x) \in SUBSET Below(y)
    BY <2>1
  <2>3. x \in Below(y) /\ x \notin Below(x)
    BY <1>4, BeforeIsOrder
  <2>4. Below(x) # Below(y)
    BY <2>3
  <2> HIDE DEF Below
  <2>5. /\ Cardinality(Below(x)) <= Cardinality(Below(y))
        /\ Cardinality(Below(y)) = Cardinality(Below(x)) => Below(y) = Below(x)
    BY <1>2, <2>2, FS_Subset
  <2> QED  BY <1>2, <2>4, <2>5
<1>5. rank \in [S -> 1..N] /\ \A x, y \in S : ListenerBefore(x, y) => rank[x] < rank[y]
  <2> HIDE DEF N, Below
  <2>1. rank \in [S -> 1..N]
    BY <1>3
  <2>2. \A x \in S : rank[x] = Cardinality(Below(x)) + 1 /\ Cardinality(Below(x)) \in Nat
    BY <1>2
  <2> HIDE DEF rank
  <2>3. \A x, y \in S : ListenerBefore(x, y) => rank[x] < rank[y]
    BY <1>4, <2>2
  <2> QED  BY <2>1, <2>3
<1> HIDE DEF rank
<1>6. \A x, y \in S : x # y => rank[x] # rank[y]
  <2>1. \A x \in S : rank[x] \in 1..N
    BY <1>5
  <2> HIDE DEF N
  <2>2. \A x, y \in S : x # y => rank[x] < rank[y] \/ rank[y] < rank[x]
    BY <1>5, BeforeIsOrder
  <2> QED  BY <1>1, <2>1, <2>2
<1>7. \A n \in 1..N : \E x \in S : rank[x] = n
  <2>1. rank \in Injection(S, 1..N)
    BY <1>5, <1>6 DEF Injection, IsInjective
  <2>2. IsFiniteSet(1..N) /\ Cardinality(1..N) = N
    BY <1>1, FS_Interval
  <2>3. rank \in Surjection(S, 1..N)
    BY <2>1, <2>2, FS_Injection
  <2> QED  BY <2>3 DEF Surjection
<1>8. q \in [1..N -> S] /\ \A n \in 1..N : rank[q[n]] = n
  <2> HIDE DEF N
  <2> QED  BY <1>7
<1>9. \A i, j \in 1..N : i < j => ListenerBefore(q[i], q[j])
  <2> HIDE DEF N, q
  <2> SUFFICES ASSUME NEW i \in 1..N, NEW j \in 1..N, i < j PROVE ListenerBefore(q[i], q[j])
    OBVIOUS
  <2>1. q[i] \in S /\ q[j] \in S /\ rank[q[i]] = i /\ rank[q[j]] = j
    BY <1>8
  <2>2. q[i] # q[j]
    BY <1>1, <2>1
  <2>3. ~ListenerBefore(q[j], q[i])
    BY <1>1, <1>5, <2>1
  <2> QED  BY <2>1, <2>2, <2>3, BeforeIsOrder
<1>10. DOMAIN q = 1..N
  OBVIOUS
<1> HIDE DEF q
<1> QED  BY <1>8, <1>9, <1>10

(* An ordered list as long as the set lists all of it. *)
LEMMA OrderedListsAll ==
  ASSUME NEW S \in SUBSET Listener, IsFiniteSet(S), NEW q \in [1..Cardinality(S) -> S],
         \A i, j \in DOMAIN q : i < j => ListenerBefore(q[i], q[j])
  PROVE  q \in Seq(Listener) /\ S = {q[i] : i \in DOMAIN q}
<1> DEFINE N == Cardinality(S)
<1>1. N \in Nat
  BY FS_CardinalityType
<1>2. DOMAIN q = 1..N
  OBVIOUS
<1>3. \A i, j \in 1..N : i # j => q[i] # q[j]
  <2>1. \A i, j \in 1..N : i < j => q[i] # q[j]
    BY <1>2, BeforeIsOrder
  <2> HIDE DEF N
  <2>2. \A i, j \in 1..N : i # j => i < j \/ j < i
    BY <1>1
  <2> QED  BY <2>1, <2>2
<1>4. q \in Surjection(1..N, S)
  <2>1. q \in Injection(1..N, S)
    BY <1>3 DEF Injection, IsInjective
  <2>2. IsFiniteSet(1..N) /\ Cardinality(1..N) = N
    BY <1>1, FS_Interval
  <2> QED  BY <2>1, <2>2, FS_Injection
<1>5. \A x \in S : \E i \in 1..N : q[i] = x
  BY <1>4 DEF Surjection
<1>6. q \in Seq(Listener)
  <2>1. q \in [1..N -> Listener]
    OBVIOUS
  <2> HIDE DEF N
  <2> QED  BY <1>1, <2>1, TableIsSeq
<1> HIDE DEF N
<1> QED  BY <1>2, <1>5, <1>6

-----------------------------------------------------------------------------
(* What the probe reports. *)

(* There are finitely many listeners, with their ports and protocols. *)
LEMMA ReachableAreListeners ==
  ASSUME NEW sockets \in Seq(SocketType)
  PROVE  ReachableListeners(sockets) \in SUBSET Listener /\ IsFiniteSet(ReachableListeners(sockets))
<1> DEFINE Reached(i) == Accepts(sockets[i]) /\ ~LoopbackIP(sockets[i].ip) /\ sockets[i].port > 0
           J == {j \in DOMAIN sockets : Reached(j)}
           R == ReachableListeners(sockets)
           f == [i \in J |-> [port |-> sockets[i].port, proto |-> sockets[i].proto]]
<1>1. R = {[port |-> sockets[i].port, proto |-> sockets[i].proto] : i \in J}
  BY DEF ReachableListeners
<1>2. \A i \in J : sockets[i] \in SocketType
  OBVIOUS
<1>3. \A i \in J : sockets[i].port \in Nat /\ sockets[i].proto \in {"tcp", "udp"}
  BY <1>2 DEF SocketType
<1>4. J \in SUBSET (1..Len(sockets)) /\ Len(sockets) \in Nat
  OBVIOUS
<1> HIDE DEF Reached, J, R
<1>5. R \in SUBSET Listener
  BY <1>1, <1>3 DEF Listener
<1>6. IsFiniteSet(J)
  <2>1. IsFiniteSet(1..Len(sockets))
    BY <1>4, FS_Interval
  <2> QED  BY <1>4, <2>1, FS_Subset
<1>7. f \in Surjection(J, R)
  <2>1. \A i \in J : f[i] = [port |-> sockets[i].port, proto |-> sockets[i].proto]
    OBVIOUS
  <2>2. f \in [J -> R]
    BY <1>1
  <2>3. \A x \in R : \E i \in J : f[i] = x
    BY <1>1
  <2> HIDE DEF f
  <2> QED  BY <2>2, <2>3 DEF Surjection
<1> HIDE DEF f
<1>8. IsFiniteSet(R)
  BY <1>6, <1>7, FS_Surjection
<1> QED  BY <1>5, <1>8 DEF R

(* The probe finds exactly the ports others can reach. *)
THEOREM ProbeFindsReachable ==
  ASSUME NEW sockets \in Seq(SocketType)
  PROVE  LET q == ExtractListeners(ProcTable(sockets))
         IN  q \in Seq(Listener) /\ {q[i] : i \in DOMAIN q} = ReachableListeners(sockets)
<1> DEFINE S == Found(ProcTable(sockets))
           Ordered(q) == \A i, j \in DOMAIN q : i < j => ListenerBefore(q[i], q[j])
           found == ExtractListeners(ProcTable(sockets))
<1>1. S = ReachableListeners(sockets)
  BY FoundAreReachable
<1>2. S \in SUBSET Listener /\ IsFiniteSet(S)
  BY <1>1, ReachableAreListeners
<1>3. found = CHOOSE q \in [1..Cardinality(S) -> S] : Ordered(q)
  BY DEF ExtractListeners
<1>4. \E q \in [1..Cardinality(S) -> S] : Ordered(q)
  <2> HIDE DEF S
  <2> QED  BY <1>2, Enumerated
<1> HIDE DEF S, Ordered, found
<1>5. found \in [1..Cardinality(S) -> S] /\ Ordered(found)
  BY <1>3, <1>4
<1>6. found \in Seq(Listener) /\ S = {found[i] : i \in DOMAIN found}
  BY <1>2, <1>5, OrderedListsAll DEF Ordered
<1> QED  BY <1>1, <1>6 DEF found
=============================================================================
