---------------------------- MODULE MCForwardCall ----------------------------
(* Small instances of ForwardCall for TLC. *)
EXTENDS MCForward, ForwardCall

(* Two containers of services of one name, in two projects. *)
MCCompose ==
  t1 :> [project |-> "proj", service |-> "web", number |-> 2] @@
  t2 :> [project |-> "other", service |-> "web", number |-> 0]

MCListOrder == <<t2, t1>>

AnyIPv6   == [i \in 1..16 |-> 0]
Mapped127 == [i \in 1..16 |-> CASE i \in {11, 12} -> 255 [] i = 13 -> 127 [] i = 16 -> 1 [] OTHER -> 0]

(* Reachable: TCP 1 of t1; TCP 2 and UDP 1 of t2. *)
MCSockets ==
  t1 :> << Socket(<<127, 0, 0, 1>>, 2, "tcp", "0A"), Socket(<<0, 0, 0, 0>>, 1, "tcp", "0A"),
           Socket(<<10, 0, 0, 2>>, 3, "tcp", "01") >> @@
  t2 :> << Socket(<<10, 0, 0, 127>>, 1, "udp", "07"), Socket(AnyIPv6, 2, "tcp", "0A"),
           Socket(Mapped127, 1, "tcp", "0A") >>

Wants(type, projectName, fileDir, cwdDir, options) ==
  [type |-> type, name |-> "web", projectName |-> projectName, fileDir |-> fileDir,
   cwdDir |-> cwdDir, options |-> options]

Unspecified == [Plain(t1) EXCEPT !.pairs = <<>>]

(* A bare name and its ports, a service, and a container that is probed. *)
MCAsks ==
  { Wants("auto", "", "", "proj", Unspecified),
    Wants("service", "", "other", "proj", [Plain(t1) EXCEPT !.detach = FALSE, !.pull = "never"]),
    Wants("container", "", "", "proj", [Unspecified EXCEPT !.detach = FALSE, !.pull = "always"]),
    Wants("service", "", "", "", Plain(t1)) }

CallRequests == { RequestOf(a, t, DetectedPairs[t]) : a \in MCAsks, t \in Targets }
=============================================================================
