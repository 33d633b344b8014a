------------------------------ MODULE MCDnsServer ------------------------------
(* Instances of DnsServer for TLC. *)
EXTENDS DnsServer

CONSTANTS N1, N2, N3, C1, C2, T1, A1, q1, q2

Opt(options, sound) == [opt |-> TRUE, sound |-> sound, options |-> options]
NotOpt  == [opt |-> FALSE, sound |-> TRUE, options |-> <<>>]
Ecs(a)  == [code |-> "ecs", addr |-> a]
Cookie  == [code |-> "other", addr |-> NoAddress]

Msg(name, type, records) ==
  [short |-> FALSE, qd |-> 1, rr |-> 0, ar |-> Len(records),
   questions |-> <<[name |-> name, type |-> type]>>, records |-> records, rest |-> FALSE]

\* What clients put behind a question; with client subnets, and malformed.
Plain  == {<<>>, <<Opt(<<>>, TRUE)>>, <<NotOpt, Opt(<<Cookie>>, TRUE)>>}
Subnet == {<<Opt(<<Ecs(C2), Cookie, Ecs(C1)>>, TRUE)>>, <<Opt(<<Ecs(NoAddress)>>, TRUE), NotOpt>>}
Odd    ==
  {[Msg(N1, "A", <<>>) EXCEPT !.short = TRUE], [Msg(N1, "A", <<>>) EXCEPT !.qd = 2],
   [Msg(N1, "A", <<>>) EXCEPT !.qd = 0, !.questions = <<>>],
   [Msg(N1, "A", <<Opt(<<Ecs(C2)>>, TRUE)>>) EXCEPT !.ar = 2],
   [Msg(N1, "A", <<Opt(<<Ecs(C2)>>, TRUE)>>) EXCEPT !.rest = TRUE],
   [Msg(N1, "A", <<NotOpt, Opt(<<Ecs(C2)>>, TRUE)>>) EXCEPT !.rr = 1, !.ar = 1],
   Msg(N2, "A", <<Opt(<<Cookie>>, FALSE)>>)}

R(host, via, transport, msg) ==
  [host |-> host, via |-> via, transport |-> transport, msg |-> msg]

\* N1 is a FakeIP name, N2 a blocked one, N3 in no rule; C2 is a direct client.
Rule1 == [enabled |-> TRUE, action |-> "proxy", mode |-> "fakeip", outbound |-> T1,
          includes |-> {N1}, excludes |-> {}, addrs |-> {}, protos |-> {}]
Rule2 == [Rule1 EXCEPT !.action = "block", !.mode = "auto", !.includes = {N2}]

Custom == [routing |-> "custom", rules |-> <<Rule1, Rule2>>, simple |-> Rule1,
           outbounds |-> <<[tag |-> T1, enabled |-> TRUE]>>,
           clients |-> <<[ip |-> C2, policy |-> "direct", outbound |-> NoTag]>>,
           fakeip |-> TRUE, range |-> "default", manage |-> TRUE]

P(cfg, filter, real, loops) ==
  [cfg |-> cfg, filter |-> filter, real |-> real, loops |-> loops]

Usual == P(Custom, TRUE, "direct", FALSE)
Others == {P(Custom, FALSE, "proxy", FALSE),
           P([Custom EXCEPT !.routing = "global"], TRUE, "direct", FALSE),
           P(Custom, TRUE, "direct", TRUE)}

\* Every kind of message once, and every host, transport and name.
Named   == {R(h, "dnsmasq", "udp", Msg(n, y, <<>>)) :
               h \in {C1, C2}, n \in Names, y \in {"A", "AAAA"}}
Bodies   == {R(C1, "dnsmasq", "udp", Msg(N1, "A", r)) : r \in Plain}
              \union {R(C1, "netod", t, Msg(N1, "A", r)) : t \in Transports, r \in Subnet}
              \union {R(C1, "netod", "udp", m) : m \in Odd}
Strays   == {R(h, v, "udp", Msg(N1, y, <<>>)) :
               h \in {"router"} \union OverIPv6, v \in {"dnsmasq", "netod"}, y \in {"A", "other"}}
Streams  == {R(c, "dnsmasq", "tcp", Msg(n, "A", <<>>)) : c \in {C1, C2}, n \in {N1, N3}}

AllRequests == Named \union Bodies \union Strays \union Streams

Two(r, s) == [q \in {q1, q2} |-> IF q = q1 THEN r ELSE s]

AllScenarios ==
  {[proxy |-> Usual, ask |-> Two(r, Silent)] : r \in AllRequests}
  \union {[proxy |-> p, ask |-> Two(r, Silent)] : p \in Others, r \in {n \in Named : n.host = C1}}
  \union {[proxy |-> Usual, ask |-> Two(R(C1, "dnsmasq", t, Msg(N1, "A", <<>>)),
                                        R(C2, "dnsmasq", "tcp", Msg(N1, "A", <<>>)))] :
            t \in Transports}
===============================================================================
