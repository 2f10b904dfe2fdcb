------------------------------ MODULE MCInputs ------------------------------
(* Options that differ from plain ones in one respect at a time. *)
EXTENDS Inputs, TLC

MCNumber == "-1" :> -1 @@ "0" :> 0 @@ "1" :> 1 @@ "80" :> 80 @@ "080" :> 80 @@
            "65535" :> 65535 @@ "65536" :> 65536

MCText == 1 :> "1" @@ 80 :> "80" @@ 65535 :> "65535"

MCColons == "::1" :> <<"", "", "1">> @@ "::" :> <<"", "", "">>

MCIPv4s == {"127.0.0.1", "0.0.0.0"}

MCWidth == 4 :> 2 @@ 6 :> 3

Spec(bracket, fields, suffix) == [bracket |-> bracket, fields |-> fields, suffix |-> suffix]

Ports     == {"", "0", "80", "65535", "65536", "x"}
HostParts == {"", "127.0.0.1", "0.0.0.0", "localhost", "*", "x"}

(* Every form, complete or not, with good and bad parts. *)
MCSpecs ==
  { Spec("", <<r>>, suffix) : r \in Ports \cup {"-1", "080"}, suffix \in {"", "tcp", "udp", "sctp"} }
  \cup { Spec("", <<l, r>>, "udp") : l \in Ports, r \in Ports }
  \cup { Spec("", <<a, l, r>>, "") : a \in HostParts, l \in Ports, r \in Ports }
  \cup { Spec(a, <<l, r>>, "tcp") : a \in {"::1", "::", "127.0.0.1", "x"}, l \in Ports, r \in Ports }
  \cup { Spec("::1", <<r>>, "") : r \in Ports }
  \cup { Spec("", Colons["::1"] \o <<r>>, "") : r \in Ports }

MCAddresses ==
  { <<>>, <<"">>, <<"x">>, <<"*">>, <<"*", "127.0.0.1">>, <<"::1", "*">>, <<"localhost", "::1">>,
    <<"127.0.0.1", "0.0.0.0">>, <<"::">>, <<"localhost", "localhost", "127.0.0.1">>,
    <<"::", "::1">>, <<"localhost", "::">>, <<"0.0.0.0", "::1">>, <<"::", "0.0.0.0">> }

MCPolicies ==
  [name : {"", "no", "always", "unless-stopped", "on-failure", "x"}, colon : {TRUE},
   count : {"", "-1", "0", "1", "x"}]
  \cup [name : {"", "no", "always", "unless-stopped", "on-failure", "x"}, colon : {FALSE},
        count : {""}]

SourceRange(form, family, ip, bits, zone) ==
  [form |-> form, family |-> family, ip |-> ip, bits |-> bits, zone |-> zone]

NoRange == SourceRange("none", 4, <<0, 0>>, 0, FALSE)

MCRanges ==
  { NoRange, SourceRange("junk", 4, <<0, 0>>, 0, FALSE),
    SourceRange("cidr", 6, <<0, 0, 1>>, 1, TRUE) }
  \cup { SourceRange("addr", 4, ip, 0, FALSE) : ip \in Bits(4) }
  \cup { SourceRange("addr", 6, ip, 0, zone) : ip \in Bits(6), zone \in BOOLEAN }
  \cup { SourceRange("cidr", 4, ip, bits, FALSE) : ip \in Bits(4), bits \in 0..3 }
  \cup { SourceRange("cidr", 6, ip, bits, FALSE) : ip \in Bits(6), bits \in 0..4 }

Plain == [target |-> [prefix |-> "", name |-> "web"], pull |-> "",
          ports |-> <<Spec("", <<"80">>, "")>>, addresses |-> <<>>, detach |-> TRUE,
          restart |-> [name |-> "", colon |-> FALSE, count |-> ""], range |-> NoRange,
          logDriver |-> "", logOpts |-> {}, halfCloseTimeout |-> 0]

(* Two pairs: one without an address, and one on all interfaces. *)
TwoPorts == << Spec("", <<"", "80">>, ""), Spec("", <<"", "1", "80">>, "udp") >>

MCOptions ==
  { [Plain EXCEPT !.ports = <<spec>>] : spec \in MCSpecs }
  \cup { [Plain EXCEPT !.ports = TwoPorts, !.addresses = addresses] : addresses \in MCAddresses }
  \cup { [Plain EXCEPT !.restart = policy, !.detach = d] : policy \in MCPolicies, d \in BOOLEAN }
  \cup { [Plain EXCEPT !.range = range] : range \in MCRanges }
  \cup { [Plain EXCEPT !.ports = <<>>, !.target = [prefix |-> prefix, name |-> name]] :
          prefix \in {"", "container", "service"}, name \in {"", "web"} }
  \cup { [Plain EXCEPT !.pull = pull] : pull \in {"always", "missing", "never", "x"} }
  \cup { [Plain EXCEPT !.logDriver = "none", !.logOpts = opts, !.halfCloseTimeout = t] :
          opts \in {{}, {"o"}}, t \in {-1, 1} }
=============================================================================
