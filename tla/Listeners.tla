------------------------------ MODULE Listeners ------------------------------
(***************************************************************************)
(* What the port probe makes of the tables it reads in a target's network  *)
(* namespace (ExtractListeners and parseHexAddr in internal/probe.go).     *)
(*                                                                         *)
(* A line of a table is [section, addr, port, state]: the file it is from, *)
(* the bytes of the local address as they are printed, the port and the    *)
(* state.  An IP is a sequence of 4 or 16 bytes.                           *)
(***************************************************************************)
EXTENDS Naturals, Sequences, FiniteSets, SequencesExt

(* The kernel's tables (external): every four bytes of a socket's address  *)
(* are printed as one little-endian number.                                *)
Byte == 0..255

SocketType ==
  [ip : [1..4 -> Byte] \cup [1..16 -> Byte], port : Nat, proto : {"tcp", "udp"}, state : STRING]

Socket(ip, port, proto, state) == [ip |-> ip, port |-> port, proto |-> proto, state |-> state]

PrintedAddress(ip) ==
  [i \in DOMAIN ip |-> LET word == (i - 1) \div 4 IN ip[4 * word + 4 - ((i - 1) % 4)]]

ProcLine(socket) ==
  [section |-> IF Len(socket.ip) = 4 THEN socket.proto
               ELSE IF socket.proto = "tcp" THEN "tcp6" ELSE "udp6",
   addr |-> PrintedAddress(socket.ip), port |-> socket.port, state |-> socket.state]

ProcTable(sockets) == [i \in DOMAIN sockets |-> ProcLine(sockets[i])]

(***************************************************************************)
(* The parser.                                                             *)
(***************************************************************************)
probeSections == [tcp |-> "tcp", tcp6 |-> "tcp", udp |-> "udp", udp6 |-> "udp"]

(* Mutant of parseHexAddr: the bytes of a word are taken as they stand. *)
parseBigEndian(addr) == IF Len(addr) \in {4, 16} THEN addr ELSE <<>>

(* The address of a line; none if it has another length. *)
parseHexAddr(addr) ==
  IF Len(addr) = 4
  THEN [i \in 1..4 |-> addr[5 - i]]
  ELSE IF Len(addr) = 16
  THEN [i \in 1..16 |-> LET w == (i - 1) \div 4
                            b == (i - 1) % 4
                        IN  addr[w * 4 + 4 - b]]
  ELSE <<>>

Zeros(n) == [i \in 1..n |-> 0]

(* The IPv4 address an IPv6 address maps (Go's net.IP.To4), or none. *)
To4(ip) ==
  IF Len(ip) = 4 THEN ip
  ELSE IF SubSeq(ip, 1, 12) = Zeros(10) \o <<255, 255>> THEN SubSeq(ip, 13, 16)
  ELSE <<>>

IsLoopback(ip) == IF To4(ip) # <<>> THEN To4(ip)[1] = 127 ELSE ip = Zeros(15) \o <<1>>

wantState(proto) == IF proto = "udp" THEN "07" ELSE "0A"

(* The line is of a socket that others can reach: listening, or bound and *)
(* unconnected, on a port of an address other than loopback.              *)
Counts(line) ==
  LET ip == parseHexAddr(line.addr)
  IN  /\ line.state = wantState(probeSections[line.section])
      /\ ip # <<>> /\ ~IsLoopback(ip)
      /\ line.port > 0

(* TCP first, then UDP; by port within a protocol. *)
ListenerBefore(a, b) ==
  IF a.proto # b.proto THEN a.proto = "tcp" ELSE a.port < b.port

Found(lines) ==
  { [port |-> l.port, proto |-> probeSections[l.section]] : l \in {m \in ToSet(lines) : Counts(m)} }

(* Every listener once, in order. *)
ExtractListeners(lines) ==
  CHOOSE q \in [1..Cardinality(Found(lines)) -> Found(lines)] :
    \A i, j \in DOMAIN q : i < j => ListenerBefore(q[i], q[j])

(***************************************************************************)
(* What it should find: the sockets another container can reach.           *)
(***************************************************************************)
LoopbackIP(ip) ==
  \/ Len(ip) = 4 /\ ip[1] = 127
  \/ Len(ip) = 16 /\ ip[13] = 127 /\ \A i \in 1..12 : ip[i] = IF i > 10 THEN 255 ELSE 0
  \/ Len(ip) = 16 /\ ip[16] = 1 /\ \A i \in 1..15 : ip[i] = 0

Accepts(socket) == socket.state = IF socket.proto = "tcp" THEN "0A" ELSE "07"

ReachableListeners(sockets) ==
  { [port |-> sockets[i].port, proto |-> sockets[i].proto] :
    i \in {j \in DOMAIN sockets : /\ Accepts(sockets[j]) /\ ~LoopbackIP(sockets[j].ip)
                                  /\ sockets[j].port > 0} }
=============================================================================
