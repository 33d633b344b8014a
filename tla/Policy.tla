-------------------------------- MODULE Policy ---------------------------------
(***************************************************************************)
(* What a configuration decides, three times over: netod's answer to a DNS *)
(* query (internal/dnsproxy with internal/ruleengine), the verdict of the  *)
(* generated nftables ruleset on a packet (internal/nft), and the outbound *)
(* that the generated sing-box configuration gives a captured connection   *)
(* (internal/singbox).  Nothing but the configuration relates the three.   *)
(*                                                                         *)
(* A rule's four kinds of domain matchers are one set of names, `includes`,*)
(* and its four kinds of exclusions another; its CIDRs, files and IP       *)
(* providers are one set of addresses, `addrs`; files and providers are    *)
(* never empty.  Ports narrow a rule like protocols do and are left out.   *)
(* Only proxy rules and clients have an outbound; a built-in one counts as *)
(* none on a rule, and a client has none such, which Validate rejects.     *)
(* `rules` is sorted by priority, as Parse leaves it; lan_subnets is never *)
(* empty in a valid configuration.                                         *)
(***************************************************************************)

EXTENDS Integers, Sequences, FiniteSets

CONSTANTS
  Names,          \* domain names
  Addrs,          \* real IPv4 addresses
  Reserved,       \* those of them in reserved4 under every configuration
  Clients,        \* addresses of LAN clients
  Tags,           \* tags of custom outbounds
  NoTag,          \* no outbound is configured
  NoName          \* sing-box does not know the domain of a connection

ASSUME PolicyAssumption ==
  /\ Reserved \subseteq Addrs
  /\ NoName \notin Names
  /\ NoTag \notin Tags
  /\ Tags \intersect {"direct", "dropped", "lost", "dns"} = {}

Protocols == {"tcp", "udp", "icmp"}

Rule == [enabled : BOOLEAN, action : {"proxy", "direct", "block"},
         mode : {"auto", "fakeip", "real_ip"}, outbound : Tags \union {NoTag},
         includes : SUBSET Names, excludes : SUBSET Names,
         addrs : SUBSET Addrs, protos : SUBSET {"tcp", "udp"}]

\* `range` is fakeip_range: the default 198.18.0.0/15, a range inside reserved4
\* (a part of the default one is), or another one.
Config == [routing : {"custom", "simple", "global"},
           rules : Seq(Rule), simple : Rule,
           outbounds : Seq([tag : Tags, enabled : BOOLEAN]),
           clients : Seq([ip : Clients, policy : {"default", "proxy", "direct"},
                          outbound : Tags \union {NoTag}]),
           fakeip : BOOLEAN, range : {"default", "reserved", "other"},
           manage : BOOLEAN]

\* A packet from `src` to the real address `dst`, or to the FakeIP address
\* number `fake` if that is not 0.
Packet == [src : Clients \union {"router", "wan"}, dst : Addrs, fake : Nat,
           proto : Protocols, kind : {"plain", "dns", "dnat"}]

First(I) == CHOOSE i \in I : \A j \in I : i <= j
Last(I)  == CHOOSE i \in I : \A j \in I : i >= j

-------------------------------------------------------------------------------
(* The configuration as LoadFile returns it *)

\* Those that are enabled, in the order of the file.
EnabledCustomOutbounds(cfg) ==
  LET enabled == {i \in DOMAIN cfg.outbounds : cfg.outbounds[i].enabled}
      Nth(n)  == CHOOSE i \in enabled : Cardinality({j \in enabled : j <= i}) = n
  IN [n \in 1 .. Cardinality(enabled) |-> cfg.outbounds[Nth(n)]]

\* The outbound of the TProxy inbound at tproxy_port + i - 1.
Targets(cfg) ==
  LET outbounds == EnabledCustomOutbounds(cfg)
  IN [i \in DOMAIN outbounds |-> outbounds[i].tag]

TargetsOf(cfg, tag) == {i \in DOMAIN Targets(cfg) : Targets(cfg)[i] = tag}

\* assignFirstCustomOutbound
Parse(cfg) ==
  LET Assigned(r) == IF r.outbound = NoTag THEN [r EXCEPT !.outbound = Targets(cfg)[1]]
                                           ELSE r
      Rules(r)    == IF r.action = "proxy" THEN Assigned(r) ELSE r
      Client(c)   == IF c.policy = "proxy" THEN Assigned(c) ELSE c
  IN IF Targets(cfg) = <<>> THEN cfg
     ELSE [cfg EXCEPT !.rules   = [i \in DOMAIN cfg.rules |-> Rules(cfg.rules[i])],
                      !.simple  = IF cfg.routing = "simple" THEN Rules(@) ELSE @,
                      !.clients = [i \in DOMAIN cfg.clients |-> Client(cfg.clients[i])]]

SimpleRule(cfg) == [cfg.simple EXCEPT !.enabled = TRUE, !.mode = "auto"]

EffectiveRules(cfg) ==
  IF cfg.routing = "simple" THEN <<SimpleRule(cfg)>> ELSE cfg.rules

ValidRule(cfg, r) ==
  /\ r.addrs # {} /\ r.includes = {} => r.mode # "fakeip"
  /\ r.protos # {} => r.addrs # {}
  /\ r.action = "direct" => r.mode # "fakeip"
  /\ r.action = "proxy" => TargetsOf(cfg, r.outbound) # {}

\* Every rule is validated, disabled ones and those that simple mode replaces too.
Validate(cfg) ==
  /\ \A i, j \in DOMAIN Targets(cfg) : Targets(cfg)[i] = Targets(cfg)[j] => i = j
  /\ cfg.routing = "global" => Targets(cfg) # <<>>
  /\ \A i \in DOMAIN cfg.clients :
       cfg.clients[i].policy = "proxy" => TargetsOf(cfg, cfg.clients[i].outbound) # {}
  /\ \A i \in DOMAIN cfg.rules : ValidRule(cfg, cfg.rules[i])
  /\ cfg.routing = "simple" => ValidRule(cfg, SimpleRule(cfg))

-------------------------------------------------------------------------------
(* netod: the DNS phase *)

MatchDomain(r, name) == r.enabled /\ name \in r.includes \ r.excludes

EffectiveDNSMode(r) ==
  CASE r.action = "direct" -> "real_ip"
    [] r.action = "block"  -> "block"
    [] r.action = "proxy"  -> IF r.mode # "auto" THEN r.mode
                              ELSE IF r.includes # {} THEN "fakeip" ELSE "real_ip"

DomainDecision(rules, name) ==
  LET matching == {i \in DOMAIN rules : MatchDomain(rules[i], name)} IN
  IF matching = {} THEN [action |-> "direct", mode |-> "real_ip", outbound |-> NoTag]
  ELSE LET r == rules[First(matching)]
       IN [action |-> r.action, mode |-> EffectiveDNSMode(r), outbound |-> r.outbound]

Sections(cfg, client, policy) ==
  {i \in DOMAIN cfg.clients : cfg.clients[i].ip = client /\ cfg.clients[i].policy = policy}

\* The map of New: the last section of an address counts.
ClientPolicy(cfg, client) ==
  LET sections == {i \in DOMAIN cfg.clients : cfg.clients[i].ip = client}
  IN IF sections = {} THEN "default" ELSE cfg.clients[Last(sections)].policy

\* What is not on the LAN, direct clients and global mode get the default decision.
ClientDecision(cfg, client, name) ==
  IF \/ client \notin Clients
     \/ ClientPolicy(cfg, client) = "direct"
     \/ cfg.routing = "global"
  THEN [action |-> "direct", mode |-> "real_ip", outbound |-> NoTag]
  ELSE DomainDecision(EffectiveRules(cfg), name)

\* Mutated form of NetodAnswer: the rule decides, whoever asks.
RuleAnswer(cfg, client, name) ==
  LET decision == DomainDecision(EffectiveRules(cfg), name) IN
  CASE decision.action = "block"                                -> "nxdomain"
    [] decision.action = "proxy" /\ decision.mode = "fakeip"    -> "fake"
    [] OTHER                                                    -> "real"

\* The answer to an A query: made by netod, by the FakeIP server, or by a real
\* resolver.  Whether FakeIP is enabled is not asked.
NetodAnswer(cfg, client, name) ==
  LET decision == ClientDecision(cfg, client, name) IN
  CASE decision.action = "block"                                -> "nxdomain"
    [] decision.action = "proxy" /\ decision.mode = "fakeip"    -> "fake"
    [] OTHER                                                    -> "real"

-------------------------------------------------------------------------------
(* nftables: the packet phase *)

HasProxyDomainRule(cfg) ==
  \E i \in DOMAIN EffectiveRules(cfg) :
    LET r == EffectiveRules(cfg)[i] IN r.enabled /\ r.action = "proxy" /\ r.includes # {}

\* reservedCIDRs: the default FakeIP range is reserved unless it is the one in use.
IsReserved(cfg, p) ==
  IF p.fake = 0 THEN p.dst \in Reserved
  ELSE \/ cfg.range = "reserved"
       \/ cfg.range = "default" /\ ~cfg.fakeip

RulePacketMatches(r, p) ==
  /\ r.enabled
  /\ p.fake = 0 /\ p.dst \in r.addrs
  /\ p.proto \in IF r.protos = {} THEN {"tcp", "udp"} ELSE r.protos

Jump(i) == [verdict |-> "tproxy", inbound |-> i]
Return  == [verdict |-> "return", inbound |-> 0]
Drop    == [verdict |-> "drop", inbound |-> 0]

\* Mutated form of OrderedIPRules: every proxy rule jumps to the first inbound.
OrderedIPRulesOneTarget(cfg, p) ==
  LET rules    == EffectiveRules(cfg)
      matching == {i \in DOMAIN rules : RulePacketMatches(rules[i], p)}
  IN IF matching = {} THEN Return
     ELSE CASE rules[First(matching)].action = "proxy"  -> Jump(1)
            [] rules[First(matching)].action = "direct" -> Return
            [] rules[First(matching)].action = "block"  -> Drop

\* writeOrderedIPRules: the first matching IP rule decides.
OrderedIPRules(cfg, p) ==
  LET rules    == EffectiveRules(cfg)
      matching == {i \in DOMAIN rules : RulePacketMatches(rules[i], p)}
  IN IF matching = {} THEN Return
     ELSE LET r == rules[First(matching)]
          IN CASE r.action = "proxy"  -> Jump(First(TargetsOf(cfg, r.outbound)))
               [] r.action = "direct" -> Return
               [] r.action = "block"  -> Drop

\* Packets that leave chain from_lan, or never enter it, whatever the mode.
Bypasses(cfg, p) ==
  \/ p.src \notin Clients
  \/ p.kind = "dns" /\ cfg.manage
  \/ p.kind = "dnat"
  \/ Sections(cfg, p.src, "direct") # {}
  \/ IsReserved(cfg, p)

Captured(cfg, p) == Targets(cfg) # <<>> /\ p.proto # "icmp"

ToProxiedClient(cfg, p) == Captured(cfg, p) /\ Sections(cfg, p.src, "proxy") # {}

ToFakeRange(cfg, p) ==
  p.fake # 0 /\ Captured(cfg, p) /\ cfg.fakeip /\ HasProxyDomainRule(cfg)

\* Mutated form of NftVerdict: global mode has no catch-all.
NftVerdictGlobalRules(cfg, p) ==
  IF Bypasses(cfg, p)               THEN Return
  ELSE IF ToProxiedClient(cfg, p)   THEN Jump(1)
  ELSE IF ToFakeRange(cfg, p)       THEN Jump(1)
  ELSE OrderedIPRules(cfg, p)

\* Chain from_lan, in its order.
NftVerdict(cfg, p) ==
  IF Bypasses(cfg, p)               THEN Return
  ELSE IF ToProxiedClient(cfg, p)   THEN Jump(1)
  ELSE IF cfg.routing = "global"    THEN IF Captured(cfg, p) THEN Jump(1) ELSE Return
  ELSE IF ToFakeRange(cfg, p)       THEN Jump(1)
  ELSE OrderedIPRules(cfg, p)

-------------------------------------------------------------------------------
(* sing-box: the route of a captured connection *)

\* clientOutboundRouteRules
ClientRoutes(cfg, src) ==
  {i \in Sections(cfg, src, "proxy") : TargetsOf(cfg, cfg.clients[i].outbound) # {}}

\* domainOutboundRouteRules: proxy rules only, and in global mode too.
DomainRoutes(cfg, name) ==
  LET rules == EffectiveRules(cfg)
  IN {i \in DOMAIN rules : /\ rules[i].action = "proxy"
                           /\ MatchDomain(rules[i], name)
                           /\ TargetsOf(cfg, rules[i].outbound) # {}}

ClientOutbound(cfg, src)  == cfg.clients[First(ClientRoutes(cfg, src))].outbound
DomainOutbound(cfg, name) == EffectiveRules(cfg)[First(DomainRoutes(cfg, name))].outbound

\* Mutated form of SingBoxOutbound: domain rules before client rules.
SingBoxOutboundDomainFirst(cfg, inbound, src, name) ==
  IF DomainRoutes(cfg, name) # {}     THEN DomainOutbound(cfg, name)
  ELSE IF ClientRoutes(cfg, src) # {} THEN ClientOutbound(cfg, src)
  ELSE Targets(cfg)[inbound]

\* The route rules of Generate, in their order, behind sniffing and DNS.
SingBoxOutbound(cfg, inbound, src, name) ==
  IF ClientRoutes(cfg, src) # {}       THEN ClientOutbound(cfg, src)
  ELSE IF DomainRoutes(cfg, name) # {} THEN DomainOutbound(cfg, name)
  ELSE Targets(cfg)[inbound]
===============================================================================
