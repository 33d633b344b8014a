---------------------------- MODULE DataPath_proofs ----------------------------
(***************************************************************************)
(* Proofs about DataPath, for every set of names, addresses, clients, tags *)
(* and configurations.                                                     *)
(***************************************************************************)
EXTENDS DataPath, Ranks

-------------------------------------------------------------------------------
(* Type correctness *)

\* While a name has no FakeIP address the next number is still within bounds.
LEMMA NextNumberType ==
  ASSUME TypeOK, NEW n \in Names, pool[n] = 0
  PROVE  NextNumber \in Numbers \ {0}
  <1> DEFINE Given == {m \in Names : pool[m] # 0}
  <1>1. IsFiniteSet(Names) /\ Given \subseteq Names \ {n}
    BY DataPathAssumption
  <1>2. IsFiniteSet(Names \ {n}) /\ Cardinality(Names \ {n}) = Cardinality(Names) - 1
    BY <1>1, FS_RemoveElement
  <1>3. Cardinality(Given) <= Cardinality(Names \ {n}) /\ IsFiniteSet(Given)
    BY <1>1, <1>2, FS_Subset
  <1>4. Cardinality(Given) \in Nat /\ Cardinality(Names) \in Nat
    BY <1>1, <1>3, FS_CardinalityType
  <1> QED
    BY <1>2, <1>3, <1>4 DEF NextNumber, Numbers

LEMMA AnswerType ==
  ASSUME NEW cfg, NEW c, NEW n
  PROVE  NetodAnswer(cfg, c, n) \in {"nxdomain", "fake", "real"}
  BY DEF NetodAnswer

LEMMA LookupType ==
  ASSUME TypeOK, NEW c \in Clients, NEW n \in Names, Lookup(c, n)
  PROVE  TypeOK'
  <1> DEFINE answer == NetodAnswer(netod, c, n)
             number == IF answer # "fake" THEN 0
                       ELSE IF pool[n] # 0 THEN pool[n] ELSE NextNumber
             given  == [kind |-> answer, fake |-> number]
  <1>1. answer \in {"nxdomain", "fake", "real"}
    BY AnswerType
  <1> HIDE DEF answer
  <1>2. pool[n] \in Numbers /\ (pool[n] = 0 => NextNumber \in Numbers \ {0})
    BY NextNumberType DEF TypeOK
  <1>3. /\ answer = "fake" => number \in Numbers \ {0}
        /\ answer # "fake" => number = 0
    BY <1>2
  <1> HIDE DEF number
  <1>4. given \in Answers
    BY <1>1, <1>3 DEF Answers
  <1>5. /\ cached' = [cached EXCEPT ![c][n] = given]
        /\ pool' = IF answer = "fake" THEN [pool EXCEPT ![n] = number] ELSE pool
        /\ lapsed' = lapsed \ {<<c, n>>}
        /\ UNCHANGED <<conf, compiled, daemons, exposed, service>>
    BY DEF Lookup, Remember, answer, number
  <1> HIDE DEF given
  <1>6. cached' \in [Clients -> [Names -> Answers]]
    BY <1>4, <1>5 DEF TypeOK
  <1>7. pool' \in [Names -> Numbers]
    BY <1>3, <1>5 DEF TypeOK
  <1> QED
    BY <1>5, <1>6, <1>7 DEF TypeOK, daemons, exposed, service

LEMMA TypeInit == Init => TypeOK
  <1> SUFFICES ASSUME Init PROVE TypeOK
    OBVIOUS
  <1>1. 0 \in Numbers
    BY DataPathAssumption, FS_CardinalityType DEF Numbers
  <1>2. Nothing \in Answers
    BY DEF Nothing, Answers
  <1> QED
    BY <1>1, <1>2 DEF Init, TypeOK, Loaded, EmptyPool

LEMMA TypeNext == TypeOK /\ [Next]_vars => TypeOK'
  <1> SUFFICES ASSUME TypeOK, [Next]_vars PROVE TypeOK'
    OBVIOUS
  <1> USE DEF TypeOK, daemons, exposed, service, clients
  <1>1. 0 \in Numbers
    BY DataPathAssumption, FS_CardinalityType DEF Numbers
  <1>2. Parse(conf) \in Loaded /\ Off \in Loaded
    BY DEF Loaded
  <1> HIDE DEF Loaded
  <1>3. EmptyPool \in [Names -> Numbers]
    BY <1>1 DEF EmptyPool
  <1>4. ASSUME NEW o \in {"start", "reload", "restart"}, Begin(o) PROVE TypeOK'
    BY <1>2, <1>4 DEF Begin
  <1>5. CASE Compile \/ CompileFails
    BY <1>2, <1>5 DEF Compile, CompileFails
  <1>6. CASE NetodStart
    BY <1>2, <1>6 DEF NetodStart
  <1>7. CASE SingStart
    BY <1>3, <1>7 DEF SingStart
  <1>8. CASE Apply \/ GiveUp
    BY <1>2, <1>8 DEF Apply, GiveUp
  <1>9. CASE DaemonCrash
    BY <1>2, <1>9 DEF DaemonCrash
  <1>10. CASE Edit
    BY <1>10, DataPathAssumption DEF Edit
  <1>11. CASE Reboot
    BY <1>2, <1>3, <1>11 DEF Reboot
  <1>12. ASSUME NEW c \in Clients, NEW n \in Names, Lookup(c, n) PROVE TypeOK'
    BY <1>12, LookupType
  <1>13. ASSUME NEW c \in Clients, NEW n \in Names, LookupElsewhere(c, n) PROVE TypeOK'
    <2>1. [kind |-> "real", fake |-> 0] \in Answers
      BY DEF Answers
    <2> QED
      BY <2>1, <1>13 DEF LookupElsewhere, Remember
  <1>14. CASE UNCHANGED vars
    BY <1>14 DEF vars
  <1> QED
    BY <1>4, <1>5, <1>6, <1>7, <1>8, <1>9, <1>10, <1>11, <1>12, <1>13, <1>14
       DEF Next, Service, ClientSteps

\* Configurations in use are ones that LoadFile returned, daemons run only while
\* procd has their instances, and FakeIP numbers stay within the range.
THEOREM TypeCorrect == Spec => []TypeOK
  BY TypeInit, TypeNext, PTL DEF Spec

-------------------------------------------------------------------------------
(* Configurations agree *)

\* Unless a restart is due, everything that is in use comes from conf, the next
\* sing-box included; the table's configuration was valid.
AgreeInv ==
  /\ "restart" \notin queued =>
       /\ table \in {Off, Parse(conf)}
       /\ netod \in {Off, Parse(conf)}
       /\ sing \in {Off, Parse(conf)}
       /\ running => compiled = Parse(conf)
  /\ table # Off => Validate(table)

LEMMA AgreeNext ==
  ASSUME LuCI, AgreeInv, [Next]_vars
  PROVE  AgreeInv'
  <1> USE DEF AgreeInv, daemons, exposed, service, clients
  <1>1. ASSUME NEW o \in {"start", "reload", "restart"}, Begin(o) PROVE AgreeInv'
    BY <1>1 DEF Begin
  <1>2. CASE Compile \/ CompileFails
    BY <1>2 DEF Compile, CompileFails
  <1>3. CASE NetodStart \/ SingStart
    BY <1>3 DEF NetodStart, SingStart
  <1>4. CASE Apply \/ GiveUp
    BY <1>4 DEF Apply, GiveUp
  <1>5. CASE DaemonCrash
    BY <1>5 DEF DaemonCrash
  <1>6. CASE Edit
    BY <1>6 DEF Edit
  <1>7. CASE Reboot
    BY <1>7 DEF Reboot
  <1>8. CASE ClientSteps
    BY <1>8 DEF ClientSteps, Lookup, LookupElsewhere
  <1>9. CASE UNCHANGED vars
    BY <1>9 DEF vars
  <1> QED
    BY <1>1, <1>2, <1>3, <1>4, <1>5, <1>6, <1>7, <1>8, <1>9 DEF Next, Service

LEMMA AgreeInvariant ==
  ASSUME LuCI
  PROVE  Spec => []AgreeInv
  <1>1. Init => AgreeInv
    BY DEF Init, AgreeInv
  <1> QED
    BY <1>1, AgreeNext, PTL DEF Spec

\* When every change of the configuration is followed by a restart, then with no
\* run in progress or due whatever runs runs with the configuration on disk.
THEOREM Agreement ==
  ASSUME LuCI
  PROVE  Spec => []ConfigurationsAgree
  <1>1. AgreeInv => ConfigurationsAgree
    BY DEF AgreeInv, ConfigurationsAgree
  <1> QED
    BY <1>1, AgreeInvariant, PTL

-------------------------------------------------------------------------------
(* What a valid configuration decides *)

\* No client has two sections.
UniqueSections(cfg) ==
  \A i, j \in DOMAIN cfg.clients : cfg.clients[i].ip = cfg.clients[j].ip => i = j

Actions == {"proxy", "direct", "block"}

\* What the proofs need of a configuration that LoadFile returned.
WellFormed(cfg) ==
  /\ DOMAIN cfg.rules \subseteq Nat /\ DOMAIN cfg.clients \subseteq Nat
  /\ \A i \in DOMAIN cfg.rules :
       cfg.rules[i].includes \subseteq Names /\ cfg.rules[i].action \in Actions
  /\ {"includes", "action"} \subseteq DOMAIN cfg.simple
  /\ cfg.simple.includes \subseteq Names /\ cfg.simple.action \in Actions
  /\ cfg.outbounds \in Seq([tag : Tags, enabled : BOOLEAN])

LEMMA Least ==
  ASSUME NEW I \in SUBSET Nat, I # {}
  PROVE  First(I) \in I /\ \A i \in I : First(I) <= i
  BY LeastElement DEF First

\* Filling in the first outbound leaves everything else alone.
LEMMA ParseKeeps ==
  ASSUME NEW cfg \in Config
  PROVE  /\ Parse(cfg).fakeip = cfg.fakeip /\ Parse(cfg).range = cfg.range
         /\ DOMAIN Parse(cfg).clients = DOMAIN cfg.clients
         /\ \A i \in DOMAIN cfg.clients : Parse(cfg).clients[i].ip = cfg.clients[i].ip
         /\ DOMAIN Parse(cfg).rules = DOMAIN cfg.rules
         /\ \A i \in DOMAIN cfg.rules :
              /\ Parse(cfg).rules[i].includes = cfg.rules[i].includes
              /\ Parse(cfg).rules[i].action = cfg.rules[i].action
         /\ DOMAIN Parse(cfg).simple = DOMAIN cfg.simple
         /\ Parse(cfg).simple.includes = cfg.simple.includes
         /\ Parse(cfg).simple.action = cfg.simple.action
         /\ Parse(cfg).outbounds = cfg.outbounds
  <1> DEFINE Section == [ip : Clients, policy : {"default", "proxy", "direct"},
                         outbound : Tags \union {NoTag}]
  <1>1. /\ \A i \in DOMAIN cfg.rules : cfg.rules[i] \in Rule
        /\ \A i \in DOMAIN cfg.clients : cfg.clients[i] \in Section
        /\ cfg.simple \in Rule
    <2>1. cfg.rules \in Seq(Rule) /\ cfg.clients \in Seq(Section) /\ cfg.simple \in Rule
      BY DEF Config
    <2> HIDE DEF Section
    <2> QED
      BY <2>1
  <1>2. CASE Targets(cfg) = <<>>
    BY <1>2 DEF Parse
  <1>3. CASE Targets(cfg) # <<>>
    BY <1>1, <1>3 DEF Parse, Config, Rule
  <1> QED
    BY <1>2, <1>3

LEMMA ParseWellFormed ==
  ASSUME NEW cfg \in Config
  PROVE  /\ WellFormed(Parse(cfg))
         /\ UniqueSections(cfg) => UniqueSections(Parse(cfg))
  <1>1. /\ DOMAIN cfg.rules \subseteq Nat /\ DOMAIN cfg.clients \subseteq Nat
        /\ \A i \in DOMAIN cfg.rules : cfg.rules[i] \in Rule
        /\ cfg.simple \in Rule
        /\ cfg.outbounds \in Seq([tag : Tags, enabled : BOOLEAN])
    BY DEF Config
  <1> QED
    BY <1>1, ParseKeeps DEF WellFormed, UniqueSections, Rule, Actions

\* The n-th enabled outbound is one of the list.
LEMMA EnabledType ==
  ASSUME NEW cfg, WellFormed(cfg)
  PROVE  EnabledCustomOutbounds(cfg) \in Seq([tag : Tags, enabled : BOOLEAN])
  <1> DEFINE Outbound == [tag : Tags, enabled : BOOLEAN]
             list     == cfg.outbounds
             enabled  == {i \in DOMAIN list : list[i].enabled}
             Nth(n)   == CHOOSE i \in enabled : Cardinality({j \in enabled : j <= i}) = n
  <1>1. list \in Seq(Outbound)
    BY DEF WellFormed
  <1> HIDE DEF Outbound
  <1>2. Len(list) \in Nat /\ DOMAIN list = 1 .. Len(list)
        /\ \A i \in DOMAIN list : list[i] \in Outbound
    BY <1>1
  <1>3. enabled \in SUBSET (1 .. Len(list)) /\ Cardinality(enabled) \in Nat
    BY <1>2, IndicesFinite
  <1>4. EnabledCustomOutbounds(cfg) = [n \in 1 .. Cardinality(enabled) |-> list[Nth(n)]]
    BY DEF EnabledCustomOutbounds
  <1>5. ASSUME NEW n \in 1 .. Cardinality(enabled) PROVE list[Nth(n)] \in Outbound
    <2> HIDE DEF enabled
    <2>1. \E i \in enabled : Cardinality({j \in enabled : j <= i}) = n
      BY <1>2, <1>3, RankTaken DEF UpTo
    <2>2. Nth(n) \in enabled
      BY <2>1
    <2> QED
      BY <1>2, <2>2 DEF enabled
  <1> HIDE DEF list, enabled, Nth
  <1>6. [n \in 1 .. Cardinality(enabled) |-> list[Nth(n)]] \in Seq(Outbound)
    BY <1>3, <1>5
  <1> QED
    BY <1>4, <1>6 DEF Outbound

LEMMA InboundNumbers ==
  ASSUME NEW cfg, WellFormed(cfg)
  PROVE  /\ Len(EnabledCustomOutbounds(cfg)) \in Nat
         /\ DOMAIN Targets(cfg) = 1 .. Len(EnabledCustomOutbounds(cfg))
  <1>1. EnabledCustomOutbounds(cfg) \in Seq([tag : Tags, enabled : BOOLEAN])
    BY EnabledType
  <1> QED
    BY <1>1 DEF Targets

\* A valid configuration has an inbound for every outbound that a rule or a client
\* names, and one only.
LEMMA ValidTargets ==
  ASSUME NEW cfg, WellFormed(cfg), Validate(cfg)
  PROVE  /\ \A i \in DOMAIN EffectiveRules(cfg) :
              EffectiveRules(cfg)[i].action = "proxy" =>
                TargetsOf(cfg, EffectiveRules(cfg)[i].outbound) # {}
         /\ \A i \in DOMAIN cfg.clients :
              cfg.clients[i].policy = "proxy" => TargetsOf(cfg, cfg.clients[i].outbound) # {}
  BY DEF Validate, ValidRule, EffectiveRules

LEMMA OneTarget ==
  ASSUME NEW cfg, WellFormed(cfg), Validate(cfg), NEW tag, TargetsOf(cfg, tag) # {}
  PROVE  /\ First(TargetsOf(cfg, tag)) \in DOMAIN Targets(cfg)
         /\ Targets(cfg)[First(TargetsOf(cfg, tag))] = tag
         /\ 1 \in DOMAIN Targets(cfg) /\ Targets(cfg) # <<>>
  <1>1. TargetsOf(cfg, tag) \in SUBSET Nat
    BY InboundNumbers DEF TargetsOf
  <1>2. First(TargetsOf(cfg, tag)) \in TargetsOf(cfg, tag)
    BY <1>1, Least
  <1>3. 1 \in DOMAIN Targets(cfg)
    BY <1>2, InboundNumbers DEF TargetsOf
  <1> QED
    BY <1>2, <1>3 DEF TargetsOf

LEMMA EffectiveRulesWellFormed ==
  ASSUME NEW cfg, WellFormed(cfg)
  PROVE  /\ DOMAIN EffectiveRules(cfg) \subseteq Nat
         /\ \A i \in DOMAIN EffectiveRules(cfg) :
              /\ EffectiveRules(cfg)[i].includes \subseteq Names
              /\ EffectiveRules(cfg)[i].action \in Actions
  <1>1. CASE cfg.routing = "simple"
    <2>1. SimpleRule(cfg).includes \subseteq Names /\ SimpleRule(cfg).action \in Actions
      BY DEF WellFormed, SimpleRule
    <2> QED
      BY <1>1, <2>1 DEF EffectiveRules
  <1>2. CASE cfg.routing # "simple"
    BY <1>2 DEF WellFormed, EffectiveRules
  <1> QED
    BY <1>1, <1>2

\* With one section per client nft's sets and netod's map tell the same policy.
LEMMA OnePolicy ==
  ASSUME NEW cfg, WellFormed(cfg), UniqueSections(cfg), NEW c,
         NEW policy \in {"direct", "proxy"}
  PROVE  Sections(cfg, c, policy) # {} <=> ClientPolicy(cfg, c) = policy
  <1> DEFINE sections == {i \in DOMAIN cfg.clients : cfg.clients[i].ip = c}
  <1>1. CASE sections = {}
    BY <1>1 DEF Sections, ClientPolicy
  <1>2. CASE sections # {}
    <2>1. PICK i \in DOMAIN cfg.clients : sections = {i} /\ i \in Nat
      BY <1>2 DEF UniqueSections, WellFormed
    <2>2. Last(sections) = i
      BY <2>1 DEF Last
    <2> QED
      BY <1>2, <2>1, <2>2 DEF Sections, ClientPolicy
  <1> QED
    BY <1>1, <1>2

\* The rule behind a FakeIP answer.
LEMMA FakeDecision ==
  ASSUME NEW cfg, WellFormed(cfg), Validate(cfg), UniqueSections(cfg), NEW c, NEW n,
         NetodAnswer(cfg, c, n) = "fake"
  PROVE  /\ Sections(cfg, c, "direct") = {} /\ cfg.routing # "global" /\ c \in Clients
         /\ \E i \in DOMAIN EffectiveRules(cfg) :
              /\ EffectiveRules(cfg)[i].action = "proxy"
              /\ MatchDomain(EffectiveRules(cfg)[i], n)
              /\ DomainRoutes(cfg, n) # {} /\ First(DomainRoutes(cfg, n)) = i
              /\ ClientDecision(cfg, c, n).outbound = EffectiveRules(cfg)[i].outbound
  <1> DEFINE rules    == EffectiveRules(cfg)
             matching == {i \in DOMAIN rules : MatchDomain(rules[i], n)}
             i        == First(matching)
  <1>1. /\ ClientDecision(cfg, c, n).action = "proxy"
        /\ ClientDecision(cfg, c, n).mode = "fakeip"
    BY DEF NetodAnswer
  <1>2. /\ c \in Clients /\ ClientPolicy(cfg, c) # "direct" /\ cfg.routing # "global"
        /\ ClientDecision(cfg, c, n) = DomainDecision(rules, n)
    BY <1>1 DEF ClientDecision
  <1>3. matching # {}
    BY <1>1, <1>2 DEF DomainDecision
  <1>4. i \in matching /\ \A j \in matching : i <= j
    BY <1>3, Least, EffectiveRulesWellFormed
  <1>5. rules[i].action = "proxy" /\ ClientDecision(cfg, c, n).outbound = rules[i].outbound
    BY <1>1, <1>2, <1>3 DEF DomainDecision
  <1>6. i \in DomainRoutes(cfg, n) /\ DomainRoutes(cfg, n) \in SUBSET matching
    BY <1>4, <1>5, ValidTargets DEF DomainRoutes
  <1>7. First(DomainRoutes(cfg, n)) = i
    <2>1. DomainRoutes(cfg, n) \in SUBSET Nat
      BY <1>6, EffectiveRulesWellFormed
    <2>2. /\ First(DomainRoutes(cfg, n)) \in DomainRoutes(cfg, n)
          /\ First(DomainRoutes(cfg, n)) <= i
      BY <1>6, <2>1, Least
    <2>3. i <= First(DomainRoutes(cfg, n)) /\ i \in Nat
      BY <1>4, <1>6, <2>1, <2>2
    <2> HIDE DEF i
    <2> QED
      BY <2>1, <2>2, <2>3
  <1> QED
    BY <1>2, <1>4, <1>5, <1>6, <1>7, OnePolicy

\* A packet to a FakeIP address reaches sing-box, which gives it the outbound of
\* that rule or of the client.
LEMMA FakeIPOutbound ==
  ASSUME NEW cfg, WellFormed(cfg), Validate(cfg), UniqueSections(cfg),
         cfg.fakeip, cfg.range # "reserved",
         NEW c, NEW n, NetodAnswer(cfg, c, n) = "fake",
         NEW number, number # 0, NEW proto \in {"tcp", "udp"}
  PROVE  /\ NftVerdict(cfg, ToFake(c, n, number, proto)) = Jump(1)
         /\ 1 \in DOMAIN Targets(cfg)
         /\ SingBoxOutbound(cfg, 1, c, n) =
              IF Sections(cfg, c, "proxy") = {} THEN ClientDecision(cfg, c, n).outbound
              ELSE cfg.clients[First(Sections(cfg, c, "proxy"))].outbound
  <1> DEFINE rules == EffectiveRules(cfg)
             p     == ToFake(c, n, number, proto)
  <1>1. PICK i \in DOMAIN rules :
          /\ rules[i].action = "proxy" /\ MatchDomain(rules[i], n)
          /\ DomainRoutes(cfg, n) # {} /\ First(DomainRoutes(cfg, n)) = i
          /\ ClientDecision(cfg, c, n).outbound = rules[i].outbound
    BY FakeDecision
  <1>2. 1 \in DOMAIN Targets(cfg) /\ Targets(cfg) # <<>>
    BY <1>1, ValidTargets, OneTarget
  <1>3. Sections(cfg, c, "direct") = {} /\ cfg.routing # "global" /\ c \in Clients
    BY FakeDecision
  <1>4. /\ p.src = c /\ p.fake = number /\ p.kind = "plain" /\ p.proto = proto
    BY DEF ToFake
  <1>5. HasProxyDomainRule(cfg)
    BY <1>1 DEF HasProxyDomainRule, MatchDomain
  <1> HIDE DEF p
  <1>6. ~Bypasses(cfg, p)
    BY <1>3, <1>4 DEF Bypasses, IsReserved
  <1>7. NftVerdict(cfg, p) = Jump(1)
    BY <1>2, <1>3, <1>4, <1>5, <1>6 DEF NftVerdict, ToProxiedClient, ToFakeRange, Captured
  <1>8. ClientRoutes(cfg, c) = Sections(cfg, c, "proxy")
    BY ValidTargets DEF ClientRoutes, Sections
  <1>9. SingBoxOutbound(cfg, 1, c, n) =
          IF Sections(cfg, c, "proxy") = {} THEN rules[i].outbound
          ELSE cfg.clients[First(Sections(cfg, c, "proxy"))].outbound
    <2> DEFINE routes == DomainRoutes(cfg, n)
    <2>1. routes # {} /\ First(routes) = i
      BY <1>1
    <2> HIDE DEF routes
    <2> QED
      BY <2>1, <1>8 DEF SingBoxOutbound, ClientOutbound, DomainOutbound, routes
  <1> QED
    BY <1>1, <1>2, <1>7, <1>9 DEF p

-------------------------------------------------------------------------------
(* FakeIP addresses *)

Given == {n \in Names : pool[n] # 0}

\* No two names share an address, the numbers given so far are the first ones, and
\* what a client was told since the last boot is still the name's address.
PoolInv ==
  /\ \A m, n \in Names : pool[m] = pool[n] /\ pool[m] # 0 => m = n
  /\ \A n \in Names : pool[n] <= Cardinality(Given)
  /\ \A c \in Clients, n \in Names :
       cached[c][n].kind = "fake" /\ <<c, n>> \notin lapsed =>
         pool[n] # 0 /\ cached[c][n].fake = pool[n]
  /\ running => compiled # Off

LEMMA GivenCounts ==
  ASSUME TypeOK
  PROVE  /\ Cardinality(Given) \in Nat
         /\ \A n \in Names : pool[n] \in Nat
  <1>1. IsFiniteSet(Names) /\ Given \subseteq Names
    BY DataPathAssumption DEF Given
  <1>2. Cardinality(Given) \in Nat
    BY <1>1, FS_Subset, FS_CardinalityType
  <1>3. Cardinality(Names) \in Nat
    BY <1>1, FS_CardinalityType
  <1> QED
    BY <1>2, <1>3 DEF TypeOK, Numbers

LEMMA PoolLookup ==
  ASSUME TypeOK, PoolInv, NEW c \in Clients, NEW n \in Names, Lookup(c, n)
  PROVE  PoolInv'
  <1> DEFINE answer == NetodAnswer(netod, c, n)
             number == IF answer # "fake" THEN 0
                       ELSE IF pool[n] # 0 THEN pool[n] ELSE NextNumber
  <1>1. answer \in {"nxdomain", "fake", "real"}
    BY AnswerType
  <1> HIDE DEF answer
  <1>2. /\ cached' = [cached EXCEPT ![c][n] = [kind |-> answer, fake |-> number]]
        /\ pool' = IF answer = "fake" THEN [pool EXCEPT ![n] = number] ELSE pool
        /\ lapsed' = lapsed \ {<<c, n>>}
        /\ UNCHANGED <<compiled, running>>
    BY DEF Lookup, Remember, daemons, service, answer, number
  <1>3. CASE answer = "fake" /\ pool[n] = 0
    <2>1. number = 1 + Cardinality(Given) /\ pool' = [pool EXCEPT ![n] = number]
      BY <1>2, <1>3 DEF NextNumber, Given
    <2> HIDE DEF number
    <2>2. number \in Nat /\ \A m \in Names : pool[m] < number
      BY <2>1, GivenCounts DEF PoolInv
    <2>3. Cardinality(Given') = number
      <3>1. Given' = Given \union {n} /\ n \notin Given
        BY <1>3, <2>1, <2>2 DEF Given, TypeOK
      <3>2. IsFiniteSet(Given)
        BY DataPathAssumption, FS_Subset DEF Given
      <3>3. Cardinality(Given \union {n}) = Cardinality(Given) + 1
        BY <3>1, <3>2, FS_AddElement
      <3> QED
        BY <2>1, <3>1, <3>3, GivenCounts
    <2>4. /\ pool'[n] = number /\ number # 0
          /\ \A m \in Names \ {n} : pool'[m] = pool[m]
      BY <1>3, <2>1, <2>2 DEF TypeOK
    <2>5. \A m, o \in Names : pool'[m] = pool'[o] /\ pool'[m] # 0 => m = o
      BY <2>2, <2>4, GivenCounts DEF PoolInv
    <2>6. \A m \in Names : pool'[m] <= Cardinality(Given')
      BY <2>2, <2>3, <2>4, GivenCounts
    <2>7. \A d \in Clients, m \in Names :
            cached'[d][m].kind = "fake" /\ <<d, m>> \notin lapsed' =>
              pool'[m] # 0 /\ cached'[d][m].fake = pool'[m]
      BY <1>2, <1>3, <2>4 DEF PoolInv, TypeOK
    <2> QED
      BY <1>2, <2>5, <2>6, <2>7 DEF PoolInv
  <1>4. CASE answer # "fake" \/ pool[n] # 0
    <2>1. pool' = pool
      BY <1>2, <1>4 DEF TypeOK
    <2>2. \A d \in Clients, m \in Names :
            cached'[d][m].kind = "fake" /\ <<d, m>> \notin lapsed' =>
              pool[m] # 0 /\ cached'[d][m].fake = pool[m]
      BY <1>2, <1>4 DEF PoolInv, TypeOK
    <2> QED
      BY <1>2, <2>1, <2>2 DEF PoolInv, Given
  <1> QED
    BY <1>3, <1>4

LEMMA PoolNext ==
  ASSUME \A cfg \in Configs : cfg.fakeip, TypeOK, PoolInv, [Next]_vars
  PROVE  PoolInv'
  <1> USE DEF PoolInv, Given, daemons, exposed, service, clients
  <1>1. ASSUME NEW o \in {"start", "reload", "restart"}, Begin(o) PROVE PoolInv'
    BY <1>1 DEF Begin
  <1>2. Parse(conf) # Off
    BY DataPathAssumption DEF TypeOK
  <1>3. CASE Compile \/ CompileFails
    BY <1>2, <1>3 DEF Compile, CompileFails
  <1>4. CASE NetodStart
    BY <1>4 DEF NetodStart
  <1>5. CASE SingStart
    <2>1. compiled.fakeip
      BY <1>5, DataPathAssumption, ParseKeeps DEF SingStart, TypeOK, Loaded
    <2> QED
      BY <1>5, <2>1 DEF SingStart
  <1>6. CASE Apply \/ GiveUp
    BY <1>2, <1>6 DEF Apply, GiveUp
  <1>7. CASE DaemonCrash
    BY <1>7 DEF DaemonCrash
  <1>8. CASE Edit
    BY <1>8 DEF Edit
  <1>9. CASE Reboot
    <2>1. Given' = {} /\ Cardinality(Given') = 0
      BY <1>9, FS_EmptySet DEF Reboot, EmptyPool
    <2>2. pool' = EmptyPool /\ running' = FALSE /\ lapsed' = Clients \X Names
      BY <1>9 DEF Reboot
    <2> QED
      BY <2>1, <2>2 DEF EmptyPool
  <1>10. ASSUME NEW c \in Clients, NEW n \in Names, Lookup(c, n) PROVE PoolInv'
    BY <1>10, PoolLookup
  <1>11. ASSUME NEW c \in Clients, NEW n \in Names, LookupElsewhere(c, n) PROVE PoolInv'
    BY <1>11 DEF LookupElsewhere, Remember, TypeOK
  <1>12. CASE UNCHANGED vars
    BY <1>12 DEF vars
  <1> QED
    BY <1>1, <1>3, <1>4, <1>5, <1>6, <1>7, <1>8, <1>9, <1>10, <1>11, <1>12
       DEF Next, Service, ClientSteps

LEMMA PoolInvariant ==
  ASSUME \A cfg \in Configs : cfg.fakeip
  PROVE  Spec => []PoolInv
  <1>1. Init => PoolInv
    <2> SUFFICES ASSUME Init PROVE PoolInv
      OBVIOUS
    <2>1. Given = {} /\ Cardinality(Given) = 0
      BY FS_EmptySet DEF Init, EmptyPool, Given
    <2> QED
      BY <2>1 DEF Init, EmptyPool, Nothing, PoolInv
  <1>2. TypeOK /\ PoolInv /\ [Next]_vars => PoolInv'
    BY PoolNext
  <1> QED
    BY <1>1, <1>2, TypeCorrect, PTL DEF Spec

\* The configuration in use when nothing moves.
LEMMA InUse ==
  ASSUME TypeOK, AgreeInv, Quiet
  PROVE  /\ netod = table /\ sing = table
         /\ table = Parse(conf) /\ conf \in Configs /\ conf \in Config
         /\ Validate(table) /\ WellFormed(table)
         /\ UniqueSections(conf) => UniqueSections(table)
  <1>1. /\ netod = table /\ sing = table
        /\ table = Parse(conf) /\ Validate(table)
    BY DEF AgreeInv, Quiet
  <1>2. conf \in Configs /\ conf \in Config
    BY DataPathAssumption DEF TypeOK
  <1> QED
    BY <1>1, <1>2, ParseWellFormed

LEMMA FakeIPStep ==
  ASSUME TypeOK, AgreeInv, PoolInv,
         \A cfg \in Configs : cfg.fakeip /\ cfg.range # "reserved" /\ UniqueSections(cfg)
  PROVE  FakeIPReachesOutbound
  <1> SUFFICES ASSUME Quiet, NEW c \in Clients, NEW n \in Names,
                      NEW proto \in {"tcp", "udp"},
                      cached[c][n].kind = "fake", <<c, n>> \notin lapsed,
                      NetodAnswer(table, c, n) = "fake"
               PROVE  LET p == ToFake(c, n, cached[c][n].fake, proto)
                          proxied == Sections(table, c, "proxy")
                      IN /\ NameOf(p, NoName) = n
                         /\ Outcome(p, NoName) =
                              IF proxied = {} THEN ClientDecision(table, c, n).outbound
                              ELSE table.clients[First(proxied)].outbound
    BY DEF FakeIPReachesOutbound
  <1> DEFINE number == cached[c][n].fake
             p      == ToFake(c, n, number, proto)
  <1>1. number = pool[n] /\ number # 0
    BY DEF PoolInv
  <1>2. p.fake = number /\ p.src = c /\ p.kind = "plain"
    BY DEF ToFake
  <1>3. NameOf(p, NoName) = n
    BY <1>1, <1>2 DEF NameOf, PoolInv
  <1>4. /\ WellFormed(table) /\ Validate(table) /\ UniqueSections(table)
        /\ table.fakeip /\ table.range # "reserved" /\ sing = table /\ table # Off
    BY InUse, ParseKeeps DEF Quiet
  <1>5. /\ NftVerdict(table, p) = Jump(1) /\ 1 \in DOMAIN Targets(table)
        /\ SingBoxOutbound(table, 1, c, n) =
             IF Sections(table, c, "proxy") = {} THEN ClientDecision(table, c, n).outbound
             ELSE table.clients[First(Sections(table, c, "proxy"))].outbound
    BY <1>1, <1>4, FakeIPOutbound
  <1> HIDE DEF p
  <1>6. Outcome(p, NoName) = SingBoxOutbound(table, 1, c, n)
    BY <1>2, <1>3, <1>4, <1>5 DEF Outcome, Jump
  <1> QED
    BY <1>3, <1>5, <1>6 DEF p

\* With FakeIP on, its range outside reserved4 and one section per client, every
\* FakeIP address a client was told since the last boot leads to the outbound of
\* the rule that decides its name.
THEOREM FakeIPRouted ==
  ASSUME LuCI,
         \A cfg \in Configs : cfg.fakeip /\ cfg.range # "reserved" /\ UniqueSections(cfg)
  PROVE  Spec => []FakeIPReachesOutbound
  <1>1. TypeOK /\ AgreeInv /\ PoolInv => FakeIPReachesOutbound
    BY FakeIPStep
  <1>2. Spec => []AgreeInv
    BY AgreeInvariant
  <1>3. Spec => []PoolInv
    BY PoolInvariant
  <1> QED
    BY <1>1, <1>2, <1>3, TypeCorrect, PTL

-------------------------------------------------------------------------------
(* Traffic that neto leaves alone, and IP rules *)

LEMMA DirectStep ==
  ASSUME TypeOK, AgreeInv, \A cfg \in Configs : UniqueSections(cfg)
  PROVE  DirectBypass
  <1> SUFFICES ASSUME Quiet PROVE DirectBypass
    BY DEF DirectBypass
  <1>1. WellFormed(table) /\ UniqueSections(table) /\ netod = table /\ table # Off
    BY InUse DEF Quiet
  <1>2. ASSUME NEW c, NEW a, NEW proto, NEW kind, NEW name,
               Bypasses(table, ToReal(c, a, proto, kind))
        PROVE  Outcome(ToReal(c, a, proto, kind), name) = "direct"
    <2>1. ToReal(c, a, proto, kind).fake = 0
      BY DEF ToReal
    <2> QED
      BY <1>1, <1>2, <2>1 DEF Outcome, NftVerdict, Return
  <1>3. ASSUME NEW c \in Clients, Sections(table, c, "direct") # {},
               NEW n \in Names, NEW proto \in Protocols
        PROVE  /\ NetodAnswer(netod, c, n) = "real"
               /\ Outcome(ToReal(c, RealAddr[n], proto, "plain"), n) = "direct"
    <2>1. ClientPolicy(table, c) = "direct"
      BY <1>1, <1>3, OnePolicy
    <2>2. NetodAnswer(netod, c, n) = "real"
      BY <1>1, <2>1 DEF NetodAnswer, ClientDecision
    <2>3. Bypasses(table, ToReal(c, RealAddr[n], proto, "plain"))
      BY <1>3 DEF Bypasses, ToReal
    <2> QED
      BY <1>2, <2>2, <2>3
  <1>4. ASSUME NEW c \in Clients \union {"router", "wan"}, NEW a \in Addrs,
               NEW proto \in Protocols
        PROVE  /\ Outcome(ToReal(c, a, proto, "dnat"), NoName) = "direct"
               /\ a \in Reserved \/ c \notin Clients =>
                    Outcome(ToReal(c, a, proto, "plain"), NoName) = "direct"
    <2>1. Bypasses(table, ToReal(c, a, proto, "dnat"))
      BY DEF Bypasses, ToReal
    <2>2. a \in Reserved \/ c \notin Clients =>
            Bypasses(table, ToReal(c, a, proto, "plain"))
      BY DEF Bypasses, IsReserved, ToReal
    <2> QED
      BY <1>2, <2>1, <2>2
  <1> QED
    BY <1>3, <1>4 DEF DirectBypass

\* With one section per client a direct client is left alone by all three programs,
\* and so are port forwards, reserved destinations and the router itself.
THEOREM DirectBypassed ==
  ASSUME LuCI, \A cfg \in Configs : UniqueSections(cfg)
  PROVE  Spec => []DirectBypass
  <1>1. TypeOK /\ AgreeInv => DirectBypass
    BY DirectStep
  <1>2. Spec => []AgreeInv
    BY AgreeInvariant
  <1> QED
    BY <1>1, <1>2, TypeCorrect, PTL

LEMMA IPRuleStep ==
  ASSUME TypeOK, AgreeInv, \A cfg \in Configs : UniqueSections(cfg)
  PROVE  IPRuleOutbound
  <1> SUFFICES ASSUME Quiet, NEW c \in Clients, NEW a \in Addrs \ Reserved,
                      NEW proto \in {"tcp", "udp"},
                      table.routing # "global", ClientPolicy(table, c) = "default",
                      \E i \in DOMAIN EffectiveRules(table) :
                        RulePacketMatches(EffectiveRules(table)[i],
                                          ToReal(c, a, proto, "plain"))
               PROVE  LET p == ToReal(c, a, proto, "plain")
                          rules == EffectiveRules(table)
                          matching == {i \in DOMAIN rules : RulePacketMatches(rules[i], p)}
                      IN Outcome(p, NoName) =
                           CASE rules[First(matching)].action = "proxy"  -> rules[First(matching)].outbound
                             [] rules[First(matching)].action = "direct" -> "direct"
                             [] rules[First(matching)].action = "block"  -> "dropped"
    BY DEF IPRuleOutbound
  <1> DEFINE p        == ToReal(c, a, proto, "plain")
             rules    == EffectiveRules(table)
             matching == {i \in DOMAIN rules : RulePacketMatches(rules[i], p)}
             r        == rules[First(matching)]
  <1>1. /\ WellFormed(table) /\ Validate(table) /\ UniqueSections(table)
        /\ sing = table /\ table # Off
    BY InUse DEF Quiet
  <1>2. p.src = c /\ p.fake = 0 /\ p.kind = "plain" /\ p.dst = a /\ p.proto = proto
    BY DEF ToReal
  <1>3. First(matching) \in DOMAIN rules
    <2>1. matching \in SUBSET Nat /\ matching # {}
      BY <1>1, EffectiveRulesWellFormed
    <2> QED
      BY <2>1, Least
  <1>4. Sections(table, c, "direct") = {} /\ Sections(table, c, "proxy") = {}
    BY <1>1, OnePolicy
  <1>5. NftVerdict(table, p) = OrderedIPRules(table, p)
    <2>1. ~Bypasses(table, p)
      BY <1>2, <1>4 DEF Bypasses, IsReserved
    <2> QED
      BY <1>2, <1>4, <2>1 DEF NftVerdict, ToProxiedClient, ToFakeRange
  <1>6. NftVerdict(table, p) =
          CASE r.action = "proxy"  -> Jump(First(TargetsOf(table, r.outbound)))
            [] r.action = "direct" -> Return
            [] r.action = "block"  -> Drop
    BY <1>5 DEF OrderedIPRules
  <1>7. NameOf(p, NoName) = NoName
    BY <1>2 DEF NameOf
  <1>8. ASSUME NEW inbound
        PROVE  SingBoxOutbound(table, inbound, c, NoName) = Targets(table)[inbound]
    <2>1. ClientRoutes(table, c) = {}
      BY <1>4 DEF ClientRoutes
    <2>2. DomainRoutes(table, NoName) = {}
      BY <1>1, EffectiveRulesWellFormed, PolicyAssumption DEF DomainRoutes, MatchDomain
    <2> QED
      BY <2>1, <2>2 DEF SingBoxOutbound
  <1>9. CASE r.action = "proxy"
    <2>1. TargetsOf(table, r.outbound) # {}
      BY <1>1, <1>3, <1>9, ValidTargets
    <2>2. /\ First(TargetsOf(table, r.outbound)) \in DOMAIN Targets(table)
          /\ Targets(table)[First(TargetsOf(table, r.outbound))] = r.outbound
      BY <1>1, <2>1, OneTarget
    <2> HIDE DEF r, p
    <2>3. NftVerdict(table, p) = Jump(First(TargetsOf(table, r.outbound)))
      BY <1>6, <1>9
    <2>4. Outcome(p, NoName) = r.outbound
      BY <1>1, <1>2, <1>7, <1>8, <2>2, <2>3 DEF Outcome, Jump
    <2> QED
      BY <1>9, <2>4 DEF r, p
  <1>10. CASE r.action = "direct"
    <2>1. NftVerdict(table, p) = Return
      BY <1>6, <1>10
    <2> HIDE DEF p
    <2>2. Outcome(p, NoName) = "direct"
      BY <1>1, <1>2, <2>1 DEF Outcome, Return
    <2> QED
      BY <1>10, <2>2 DEF p
  <1>11. CASE r.action = "block"
    <2>1. NftVerdict(table, p) = Drop
      BY <1>6, <1>11
    <2> HIDE DEF p
    <2>2. Outcome(p, NoName) = "dropped"
      BY <1>1, <1>2, <2>1 DEF Outcome, Drop
    <2> QED
      BY <1>11, <2>2 DEF p
  <1>12. r.action \in Actions
    BY <1>1, <1>3, EffectiveRulesWellFormed
  <1> QED
    BY <1>9, <1>10, <1>11, <1>12 DEF Actions

\* With one section per client the first IP rule that has a destination decides, and
\* sing-box sends it where that rule says, unless it has sniffed a domain.
THEOREM IPRulesRouted ==
  ASSUME LuCI, \A cfg \in Configs : UniqueSections(cfg)
  PROVE  Spec => []IPRuleOutbound
  <1>1. TypeOK /\ AgreeInv => IPRuleOutbound
    BY IPRuleStep
  <1>2. Spec => []AgreeInv
    BY AgreeInvariant
  <1> QED
    BY <1>1, <1>2, TypeCorrect, PTL

-------------------------------------------------------------------------------
(* Clients and modes of which everything is proxied *)

\* Every TProxy inbound has the tag of an outbound.
LEMMA TargetsAreTags ==
  ASSUME NEW cfg, WellFormed(cfg), NEW i \in DOMAIN Targets(cfg)
  PROVE  Targets(cfg)[i] \in Tags
  <1> DEFINE Outbound == [tag : Tags, enabled : BOOLEAN]
  <1>1. EnabledCustomOutbounds(cfg) \in Seq(Outbound)
    BY EnabledType
  <1>2. /\ i \in DOMAIN EnabledCustomOutbounds(cfg)
        /\ Targets(cfg)[i] = EnabledCustomOutbounds(cfg)[i].tag
    BY DEF Targets
  <1> HIDE DEF Outbound
  <1>3. EnabledCustomOutbounds(cfg)[i] \in Outbound
    BY <1>1, <1>2
  <1> QED
    BY <1>2, <1>3 DEF Outbound

\* Whatever route rule sing-box takes, it leads to an outbound.
LEMMA SingBoxProxies ==
  ASSUME NEW cfg, WellFormed(cfg), NEW inbound \in DOMAIN Targets(cfg), NEW c, NEW name
  PROVE  SingBoxOutbound(cfg, inbound, c, name) \in Tags
  <1>1. ASSUME NEW tag, TargetsOf(cfg, tag) # {} PROVE tag \in Tags
    BY <1>1, TargetsAreTags DEF TargetsOf
  <1>2. CASE ClientRoutes(cfg, c) # {}
    <2>1. ClientRoutes(cfg, c) \in SUBSET Nat
      BY DEF ClientRoutes, Sections, WellFormed
    <2>2. First(ClientRoutes(cfg, c)) \in ClientRoutes(cfg, c)
      BY <1>2, <2>1, Least
    <2> QED
      BY <1>1, <1>2, <2>2 DEF SingBoxOutbound, ClientOutbound, ClientRoutes
  <1>3. CASE ClientRoutes(cfg, c) = {} /\ DomainRoutes(cfg, name) # {}
    <2>1. DomainRoutes(cfg, name) \in SUBSET Nat
      BY EffectiveRulesWellFormed DEF DomainRoutes
    <2>2. First(DomainRoutes(cfg, name)) \in DomainRoutes(cfg, name)
      BY <1>3, <2>1, Least
    <2> QED
      BY <1>1, <1>3, <2>2 DEF SingBoxOutbound, DomainOutbound, DomainRoutes
  <1>4. CASE ClientRoutes(cfg, c) = {} /\ DomainRoutes(cfg, name) = {}
    BY <1>4, TargetsAreTags DEF SingBoxOutbound
  <1> QED
    BY <1>2, <1>3, <1>4

LEMMA ProxiedStep ==
  ASSUME TypeOK, AgreeInv
  PROVE  ProxiedEntirely
  <1> SUFFICES ASSUME Quiet, NEW c \in Clients, NEW a \in Addrs \ Reserved,
                      NEW proto \in {"tcp", "udp"}, NEW n \in Names \union {NoName},
                      Sections(table, c, "direct") = {},
                      table.routing = "global" \/ Sections(table, c, "proxy") # {}
               PROVE  Outcome(ToReal(c, a, proto, "plain"), n) \in Tags
    BY DEF ProxiedEntirely
  <1> DEFINE p == ToReal(c, a, proto, "plain")
  <1>1. WellFormed(table) /\ Validate(table) /\ sing = table /\ table # Off
    BY InUse DEF Quiet
  <1>2. p.src = c /\ p.fake = 0 /\ p.kind = "plain" /\ p.dst = a /\ p.proto = proto
    BY DEF ToReal
  <1>3. Targets(table) # <<>> /\ 1 \in DOMAIN Targets(table)
    <2>1. CASE table.routing = "global"
      <3>1. Targets(table) # <<>>
        BY <1>1, <2>1 DEF Validate
      <3>2. Len(EnabledCustomOutbounds(table)) # 0
        BY <1>1, <3>1, EnabledType DEF Targets
      <3> QED
        BY <1>1, <3>1, <3>2, InboundNumbers
    <2>2. CASE Sections(table, c, "proxy") # {}
      <3>1. PICK i \in DOMAIN table.clients : table.clients[i].policy = "proxy"
        BY <2>2 DEF Sections
      <3>2. TargetsOf(table, table.clients[i].outbound) # {}
        BY <1>1, <3>1, ValidTargets
      <3> QED
        BY <1>1, <3>2, OneTarget
    <2> QED
      BY <2>1, <2>2
  <1> HIDE DEF p
  <1>4. ~Bypasses(table, p) /\ Captured(table, p)
    BY <1>2, <1>3 DEF Bypasses, IsReserved, Captured
  <1>5. NftVerdict(table, p) = Jump(1)
    BY <1>2, <1>4 DEF NftVerdict, ToProxiedClient
  <1>6. Outcome(p, n) = SingBoxOutbound(table, 1, c, n)
    BY <1>1, <1>2, <1>3, <1>5 DEF Outcome, NameOf, Jump
  <1> QED
    BY <1>1, <1>3, <1>6, SingBoxProxies DEF p

\* In global mode, and for a client with a proxy section, no TCP or UDP packet to an
\* address that is not reserved leaves the router outside a proxy or is lost, whatever
\* name sing-box sniffs; a client may even have several sections.
THEOREM AllProxied ==
  ASSUME LuCI
  PROVE  Spec => []ProxiedEntirely
  <1>1. TypeOK /\ AgreeInv => ProxiedEntirely
    BY ProxiedStep
  <1>2. Spec => []AgreeInv
    BY AgreeInvariant
  <1> QED
    BY <1>1, <1>2, TypeCorrect, PTL
===============================================================================
