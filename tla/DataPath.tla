------------------------------- MODULE DataPath --------------------------------
(***************************************************************************)
(* The configuration in use, and what LAN clients get from it.  netod      *)
(* reads /etc/config/neto when it starts; sing-box reads the file that     *)
(* `netod compile` or `netod apply` wrote before; the nft table is what    *)
(* `netod apply` compiled last.  A restart of the service brings them      *)
(* together again, a reload replaces the table only: procd keeps a daemon  *)
(* whose command has not changed.  Clients keep the addresses they were    *)
(* given, and connect to them under whatever configuration is in use then. *)
(*                                                                         *)
(* Module Lifecycle has the single commands of the scripts and their       *)
(* failures.  Here a run is begin, compile, apply; dnsmasq asks netod from *)
(* the first apply that manages it to the next stop, over reboots as well. *)
(***************************************************************************)

EXTENDS Policy

CONSTANTS
  RealAddr,       \* the real address of each name
  Configs,        \* contents of /etc/config/neto
  Off,            \* no configuration: not running, or not installed
  Edits,          \* those of them that change, into one another
  LuCI            \* is every edit applied with LuCI, which restarts the service?

VARIABLES
  conf,           \* /etc/config/neto
  compiled,       \* the configuration of /tmp/neto/sing-box.json
  netod, sing,    \* the configuration each daemon runs with
  table,          \* the configuration of table inet neto
  attached,       \* does dnsmasq ask netod?
  running,        \* does procd have instances to run?
  phase,          \* of the run of the init script in progress
  queued,         \* runs that wait for the lock
  pool,           \* sing-box's FakeIP addresses: their number per name, or 0
  cached,         \* the last answer each client got for each name
  lapsed          \* those of the answers that were given before the last boot

daemons == <<netod, sing>>
exposed == <<table, attached>>
service == <<running, phase, queued>>
clients == <<cached, lapsed>>
vars    == <<conf, compiled, netod, sing, table, attached, running, phase, queued,
             pool, cached, lapsed>>

Numbers == 0 .. Cardinality(Names)

\* What a client was told: nothing yet, a real address, a FakeIP address.
Answers == [kind : {"none", "nxdomain", "real"}, fake : {0}]
             \union [kind : {"fake"}, fake : Numbers \ {0}]

ASSUME DataPathAssumption ==
  /\ RealAddr \in [Names -> Addrs]
  /\ Configs \subseteq Config
  /\ Off \notin {Parse(c) : c \in Configs}
  /\ IsFiniteSet(Names)
  /\ \A c, d \in Configs : c.fakeip = d.fakeip /\ c.range = d.range
  /\ Edits \subseteq Configs /\ LuCI \in BOOLEAN

Loaded == {Parse(c) : c \in Configs} \union {Off}

TypeOK ==
  /\ conf \in Configs
  /\ compiled \in Loaded /\ netod \in Loaded /\ sing \in Loaded /\ table \in Loaded
  /\ attached \in BOOLEAN /\ running \in BOOLEAN
  /\ phase \in {"idle", "begun", "compiled"}
  /\ queued \subseteq {"start", "reload", "restart"}
  /\ ~running => netod = Off /\ sing = Off
  /\ pool \in [Names -> Numbers]
  /\ cached \in [Clients -> [Names -> Answers]]
  /\ lapsed \subseteq Clients \X Names

EmptyPool == [n \in Names |-> 0]
Nothing   == [kind |-> "none", fake |-> 0]

Init ==
  /\ conf \in Configs
  /\ compiled = Off /\ netod = Off /\ sing = Off /\ table = Off
  /\ attached = FALSE
  /\ running = FALSE /\ phase = "idle" /\ queued = {"start"}
  /\ pool = EmptyPool
  /\ cached = [c \in Clients |-> [n \in Names |-> Nothing]] /\ lapsed = {}

-------------------------------------------------------------------------------
(* The service *)

\* A restart begins with a stop: the table goes, dnsmasq is released, procd kills the
\* daemons.
Begin(o) ==
  /\ phase = "idle" /\ o \in queued
  /\ queued' = queued \ {o}
  /\ phase' = "begun"
  /\ IF o = "restart"
     THEN /\ table' = Off /\ attached' = FALSE
          /\ netod' = Off /\ sing' = Off /\ running' = FALSE
     ELSE UNCHANGED <<exposed, daemons, running>>
  /\ UNCHANGED <<conf, compiled, pool, clients>>

\* Mutated form of Compile: instances are submitted without a new sing-box.json.
CompileKeep ==
  /\ phase = "begun" /\ Validate(Parse(conf))
  /\ compiled' = IF compiled = Off THEN Parse(conf) ELSE compiled
  /\ running' = TRUE /\ phase' = "compiled"
  /\ UNCHANGED <<conf, daemons, exposed, queued, pool, clients>>

\* netod check and compile; then the instances are submitted.
Compile ==
  /\ phase = "begun" /\ Validate(Parse(conf))
  /\ compiled' = Parse(conf)
  /\ running' = TRUE /\ phase' = "compiled"
  /\ UNCHANGED <<conf, daemons, exposed, queued, pool, clients>>

\* Mutated form of CompileFails: the daemons outlive their instances.
CompileFailsKeep ==
  /\ phase = "begun" /\ ~Validate(Parse(conf))
  /\ running' = FALSE /\ phase' = "idle"
  /\ UNCHANGED <<conf, compiled, daemons, exposed, queued, pool, clients>>

\* The configuration is rejected, or sing-box rejects what was made of it: no
\* instances, and nothing else changes.
CompileFails ==
  /\ phase = "begun"
  /\ \/ ~Validate(Parse(conf)) /\ UNCHANGED compiled
     \/ Validate(Parse(conf)) /\ compiled' = Parse(conf)
  /\ running' = FALSE /\ netod' = Off /\ sing' = Off
  /\ phase' = "idle"
  /\ UNCHANGED <<conf, exposed, queued, pool, clients>>

\* procd starts, or starts again, netod ...
NetodStart ==
  /\ running /\ netod = Off /\ Validate(Parse(conf))
  /\ netod' = Parse(conf)
  /\ UNCHANGED <<conf, compiled, sing, exposed, service, pool, clients>>

\* Mutated form of SingStart: FakeIP addresses are not stored in a file.
SingStartFresh ==
  /\ running /\ sing = Off
  /\ sing' = compiled
  /\ pool' = EmptyPool
  /\ UNCHANGED <<conf, compiled, netod, exposed, service, clients>>

\* ... and sing-box, which goes on with the FakeIP addresses it has stored.
SingStart ==
  /\ running /\ sing = Off
  /\ sing' = compiled
  /\ pool' = IF compiled.fakeip THEN pool ELSE EmptyPool
  /\ UNCHANGED <<conf, compiled, netod, exposed, service, clients>>

\* netod ready got an answer through both daemons; netod apply compiles again, and
\* dnsmasq is attached if it is managed.
Apply ==
  /\ phase = "compiled" /\ netod # Off /\ sing # Off /\ Validate(Parse(conf))
  /\ compiled' = Parse(conf) /\ table' = Parse(conf)
  /\ attached' = (attached \/ conf.manage)
  /\ phase' = "idle"
  /\ UNCHANGED <<conf, daemons, running, queued, pool, clients>>

\* netod ready or netod apply fails.
GiveUp ==
  /\ phase = "compiled"
  /\ phase' = "idle"
  /\ UNCHANGED <<conf, compiled, daemons, exposed, running, queued, pool, clients>>

DaemonCrash ==
  /\ \/ netod # Off /\ netod' = Off /\ UNCHANGED sing
     \/ sing # Off /\ sing' = Off /\ UNCHANGED netod
  /\ UNCHANGED <<conf, compiled, exposed, service, pool, clients>>

Service ==
  \/ \E o \in {"start", "reload", "restart"} : Begin(o)
  \/ Compile
  \/ CompileFails
  \/ NetodStart
  \/ SingStart
  \/ Apply
  \/ GiveUp
  \/ DaemonCrash

-------------------------------------------------------------------------------
(* Environment *)

\* The configuration changes, by hand or by an update job: procd's trigger
\* reloads the service, LuCI and the jobs restart it.
Edit ==
  /\ conf \in Edits
  /\ conf' \in Edits \ {conf}
  /\ queued' = queued \union IF LuCI THEN {"reload", "restart"} ELSE {"reload"}
  /\ UNCHANGED <<compiled, daemons, exposed, running, phase, pool, clients>>

\* /tmp goes, and with it sing-box's cache file; dnsmasq's configuration stays.  The
\* clients do not notice.
Reboot ==
  /\ compiled' = Off /\ netod' = Off /\ sing' = Off /\ table' = Off
  /\ running' = FALSE /\ phase' = "idle" /\ queued' = {"start"}
  /\ pool' = EmptyPool
  /\ lapsed' = Clients \X Names
  /\ UNCHANGED <<conf, attached, cached>>

-------------------------------------------------------------------------------
(* Clients *)

Remember(c, n, kind, number) ==
  /\ cached' = [cached EXCEPT ![c][n] = [kind |-> kind, fake |-> number]]
  /\ lapsed' = lapsed \ {<<c, n>>}

\* sing-box hands out the addresses of the range in turn.
NextNumber == 1 + Cardinality({n \in Names : pool[n] # 0})

\* A query through dnsmasq, which asks netod while neto is in front.
Lookup(c, n) ==
  /\ attached /\ netod # Off /\ sing # Off
  /\ LET answer == NetodAnswer(netod, c, n)
         number == IF answer # "fake" THEN 0
                   ELSE IF pool[n] # 0 THEN pool[n] ELSE NextNumber
     IN /\ Remember(c, n, answer, number)
        /\ pool' = IF answer = "fake" THEN [pool EXCEPT ![n] = number] ELSE pool
  /\ UNCHANGED <<conf, compiled, daemons, exposed, service>>

\* Without neto in front of dnsmasq, or over DoH or DoT, which pass by it.
LookupElsewhere(c, n) ==
  /\ Remember(c, n, "real", 0)
  /\ UNCHANGED <<conf, compiled, daemons, exposed, service, pool>>

ClientSteps ==
  \E c \in Clients, n \in Names : Lookup(c, n) \/ LookupElsewhere(c, n)

Next == Service \/ Edit \/ Reboot \/ ClientSteps

Spec == Init /\ [][Next]_vars

-------------------------------------------------------------------------------
(* What becomes of a connection *)

\* The name sing-box routes by: that of the FakeIP address, or the sniffed one.
NameOf(p, sniffed) ==
  IF p.fake = 0 THEN sniffed
  ELSE IF \E n \in Names : pool[n] = p.fake THEN CHOOSE n \in Names : pool[n] = p.fake
  ELSE NoName

\* Where a packet ends up: an outbound, its destination directly, sing-box's DNS,
\* or nowhere ("dropped" by a rule, "lost" by accident).
Outcome(p, sniffed) ==
  LET seen == IF table = Off THEN Return ELSE NftVerdict(table, p)
  IN CASE seen.verdict = "return" -> IF p.fake = 0 THEN "direct" ELSE "lost"
       [] seen.verdict = "drop"   -> "dropped"
       [] seen.verdict = "tproxy" ->
            IF sing = Off \/ seen.inbound \notin DOMAIN Targets(sing) THEN "lost"
            ELSE IF p.kind = "dns" THEN "dns"
            ELSE SingBoxOutbound(sing, seen.inbound, p.src, NameOf(p, sniffed))

ToReal(c, a, proto, kind) == [src |-> c, dst |-> a, fake |-> 0, proto |-> proto, kind |-> kind]
ToFake(c, n, number, proto) ==
  [src |-> c, dst |-> RealAddr[n], fake |-> number, proto |-> proto, kind |-> "plain"]

\* No run in progress or due, and both daemons are up.
Quiet == phase = "idle" /\ queued = {} /\ table # Off /\ netod # Off /\ sing # Off

-------------------------------------------------------------------------------
(* Properties *)

\* However edits, restarts, crashes and respawns interleave: when no run is in
\* progress or due, whatever runs runs with the configuration on disk.  Each
\* program read the file at a time of its own (main.go 393, 494-508, init.d/neto
\* 346-362).
ConfigurationsAgree ==
  phase = "idle" /\ queued = {} /\ table # Off =>
    /\ table = Parse(conf)
    /\ netod \in {Off, Parse(conf)}
    /\ sing \in {Off, Parse(conf)}

\* A FakeIP address a client got since the router booted, however long ago and
\* through whichever restarts, still leads to the name it was given for, through
\* the outbound of the rule that decides that name now, or the client's own
\* outbound (nft/generator.go 70-73, singbox/generator.go 357-444,
\* dnsproxy.go 232-268).
FakeIPReachesOutbound ==
  Quiet =>
    \A c \in Clients, n \in Names, proto \in {"tcp", "udp"} :
      LET p        == ToFake(c, n, cached[c][n].fake, proto)
          held     == cached[c][n].kind = "fake" /\ <<c, n>> \notin lapsed
          decision == ClientDecision(table, c, n)
          proxied  == Sections(table, c, "proxy")
      IN held /\ NetodAnswer(table, c, n) = "fake" =>
           /\ NameOf(p, NoName) = n
           /\ Outcome(p, NoName) = IF proxied = {} THEN decision.outbound
                                   ELSE table.clients[First(proxied)].outbound

\* A direct client gets real addresses only and reaches them directly; replies to
\* port forwards, reserved destinations and what does not come from the LAN are
\* never touched (nft/generator.go 53-64, dnsproxy.go 256-268).
DirectBypass ==
  Quiet =>
    /\ \A c \in Clients : Sections(table, c, "direct") # {} =>
         \A n \in Names, proto \in Protocols :
           /\ NetodAnswer(netod, c, n) = "real"
           /\ Outcome(ToReal(c, RealAddr[n], proto, "plain"), n) = "direct"
    /\ \A c \in Clients \union {"router", "wan"}, a \in Addrs, proto \in Protocols :
         /\ Outcome(ToReal(c, a, proto, "dnat"), NoName) = "direct"
         /\ a \in Reserved \/ c \notin Clients =>
              Outcome(ToReal(c, a, proto, "plain"), NoName) = "direct"

\* The first rule, by priority, that has the destination of a packet decides its
\* fate, and a proxied packet leaves through that rule's outbound, unless sing-box
\* sniffs a name in the connection that a domain rule has
\* (nft/generator.go 99-131, proxyroute.go 19-41).
IPRuleOutbound ==
  Quiet =>
    \A c \in Clients, a \in Addrs \ Reserved, proto \in {"tcp", "udp"} :
      LET p        == ToReal(c, a, proto, "plain")
          rules    == EffectiveRules(table)
          matching == {i \in DOMAIN rules : RulePacketMatches(rules[i], p)}
      IN table.routing # "global" /\ ClientPolicy(table, c) = "default" /\ matching # {} =>
           Outcome(p, NoName) =
             CASE rules[First(matching)].action = "proxy"  -> rules[First(matching)].outbound
               [] rules[First(matching)].action = "direct" -> "direct"
               [] rules[First(matching)].action = "block"  -> "dropped"

\* In global mode, and for a proxied client in any mode, all TCP and UDP traffic
\* to addresses that are not reserved goes to a proxy
\* (nft/generator.go 62-69).
ProxiedEntirely ==
  Quiet =>
    \A c \in Clients, a \in Addrs \ Reserved, proto \in {"tcp", "udp"},
       n \in Names \union {NoName} :
      \/ Sections(table, c, "direct") # {}
      \/ table.routing # "global" /\ Sections(table, c, "proxy") = {}
      \/ Outcome(ToReal(c, a, proto, "plain"), n) \in Tags
===============================================================================
