--------------------------- MODULE DnsServer_proofs ----------------------------
(***************************************************************************)
(* Proofs about DnsServer, for every set of questions, clients and         *)
(* configurations, and for messages of any length.                         *)
(***************************************************************************)
EXTENDS DnsServer, WellFoundedInduction, TLAPS

-------------------------------------------------------------------------------
(* Messages *)

LEMMA LeastExists ==
  ASSUME NEW I \in SUBSET Nat, I # {}
  PROVE  Least(I) \in I /\ \A i \in I : Least(I) <= i
  <1>1. PICK least \in I : \A i \in I : <<i, least>> \notin OpToRel(<, Nat)
    BY WFMin, NatLessThanWellFounded
  <1>2. ASSUME NEW i \in I PROVE least <= i
    <2>1. <<i, least>> \in Nat \X Nat /\ <<i, least>>[1] = i /\ <<i, least>>[2] = least
      OBVIOUS
    <2>2. ~(i < least)
      BY <1>1, <2>1 DEF OpToRel
    <2> QED
      BY <2>2
  <1> QED
    BY <1>2 DEF Least

LEMMA LeastOfOne ==
  ASSUME NEW i \in Nat
  PROVE  Least({i}) = i
  BY DEF Least

RequestMessage == Message(Names, Hosts)

SubnetFree(msg) == \A i \in DOMAIN msg.records : Subnets(msg.records[i]) = {}

\* What dnsmasq adds: the records of the wire are those of the message, except
\* for record k, whose only client subnet is the asker's.
Extended(msg, addr, wire, k) ==
  /\ wire.short = msg.short /\ wire.qd = msg.qd /\ wire.questions = msg.questions
  /\ wire.rest = msg.rest /\ wire.rr = msg.rr
  /\ wire.ar \in Nat /\ wire.ar >= msg.ar
  /\ wire.records \in Seq(Record(Hosts)) /\ Len(wire.records) = wire.ar
  /\ k \in DOMAIN wire.records /\ wire.records[k].opt /\ wire.records[k].sound
  /\ \A i \in DOMAIN wire.records \ {k} :
       i \in DOMAIN msg.records /\ wire.records[i] = msg.records[i]
  /\ \E n \in DOMAIN wire.records[k].options :
       /\ Subnets(wire.records[k]) = {n}
       /\ wire.records[k].options[n].addr = addr

LEMMA AddSubnetExtends ==
  ASSUME NEW msg \in RequestMessage, NEW addr \in Hosts \union {NoAddress},
         WellFormed(msg), msg.rr = 0, SubnetFree(msg)
  PROVE  \E k \in Nat : Extended(msg, addr, AddSubnet(msg, addr), k)
  <1> DEFINE subnet == [code |-> "ecs", addr |-> addr]
             opts   == {i \in Additional(msg) : msg.records[i].opt}
             wire   == AddSubnet(msg, addr)
  <1>1. /\ msg = [short |-> msg.short, qd |-> msg.qd, rr |-> msg.rr, ar |-> msg.ar,
                  questions |-> msg.questions, records |-> msg.records, rest |-> msg.rest]
        /\ msg.records \in Seq(Record(Hosts)) /\ msg.ar \in Nat
        /\ Len(msg.records) = msg.ar
        /\ \A i \in opts : msg.records[i].sound
    BY DEF WellFormed, Complete, RequestMessage, Message, Additional
  <1>2. subnet \in Option(Hosts)
    BY DEF Option
  <1> HIDE DEF subnet
  <1>3. subnet.code = "ecs" /\ subnet.addr = addr
    BY DEF subnet
  <1>4. CASE opts = {}
    <2> DEFINE record == [opt |-> TRUE, sound |-> TRUE, options |-> <<subnet>>]
               k      == msg.ar + 1
    <2>1. record \in Record(Hosts)
      BY <1>2 DEF Record
    <2>2. /\ wire.short = msg.short /\ wire.qd = msg.qd /\ wire.questions = msg.questions
          /\ wire.rest = msg.rest /\ wire.rr = msg.rr /\ wire.ar = k
          /\ wire.records = Append(msg.records, record)
      BY <1>1, <1>4 DEF AddSubnet, subnet
    <2>3. record.opt /\ record.sound /\ record.options = <<subnet>>
      OBVIOUS
    <2> HIDE DEF record
    <2>4. /\ wire.records \in Seq(Record(Hosts)) /\ Len(wire.records) = k
          /\ wire.records[k] = record
          /\ \A i \in DOMAIN wire.records \ {k} :
               i \in DOMAIN msg.records /\ wire.records[i] = msg.records[i]
      BY <1>1, <2>1, <2>2
    <2>5. Subnets(record) = {1} /\ record.options[1].addr = addr /\ 1 \in DOMAIN record.options
      BY <1>3, <2>3 DEF Subnets
    <2>6. k \in Nat /\ k >= msg.ar /\ k \in DOMAIN wire.records
      BY <1>1, <2>4
    <2> HIDE DEF wire, k
    <2>7. Extended(msg, addr, wire, k)
      BY <2>2, <2>3, <2>4, <2>5, <2>6 DEF Extended
    <2> QED
      BY <2>6, <2>7 DEF wire
  <1>5. CASE opts # {}
    <2> DEFINE k       == Least(opts)
               options == Append(msg.records[k].options, subnet)
               record  == [msg.records[k] EXCEPT !.options = options]
               n       == Len(msg.records[k].options) + 1
    <2>1. k \in opts
      <3>1. DOMAIN msg.records = 1 .. msg.ar
        BY <1>1
      <3>2. opts \in SUBSET Nat
        BY <1>1, <3>1 DEF Additional
      <3> QED
        BY <1>5, <3>2, LeastExists
    <2>2. k \in DOMAIN msg.records /\ k \in 1 .. msg.ar /\ msg.records[k] \in Record(Hosts)
      BY <1>1, <2>1 DEF Additional
    <2>3. /\ wire.short = msg.short /\ wire.qd = msg.qd /\ wire.questions = msg.questions
          /\ wire.rest = msg.rest /\ wire.rr = msg.rr /\ wire.ar = msg.ar
          /\ wire.records = [msg.records EXCEPT ![k].options = options]
      BY <1>1, <1>5 DEF AddSubnet, subnet
    <2>4. msg.records[k].opt /\ msg.records[k].sound /\ Subnets(msg.records[k]) = {}
      BY <1>1, <2>1, <2>2 DEF SubnetFree
    <2> HIDE DEF k, opts, wire
    <2>5. /\ msg.records[k].options \in Seq(Option(Hosts))
          /\ msg.records[k] = [opt |-> msg.records[k].opt, sound |-> msg.records[k].sound,
                               options |-> msg.records[k].options]
      BY <2>2 DEF Record
    <2>6. /\ options \in Seq(Option(Hosts)) /\ n \in DOMAIN options /\ options[n] = subnet
          /\ \A j \in DOMAIN options \ {n} :
               j \in DOMAIN msg.records[k].options /\ options[j] = msg.records[k].options[j]
      BY <1>2, <2>5
    <2> HIDE DEF options, n
    <2>7. /\ record.opt /\ record.sound /\ record.options = options
          /\ record \in Record(Hosts)
      BY <2>4, <2>5, <2>6 DEF Record
    <2>8. wire.records = [msg.records EXCEPT ![k] = record]
      BY <2>2, <2>3
    <2> HIDE DEF record
    <2>9. /\ wire.records \in Seq(Record(Hosts)) /\ Len(wire.records) = msg.ar
          /\ wire.records[k] = record
          /\ \A i \in DOMAIN wire.records \ {k} :
               i \in DOMAIN msg.records /\ wire.records[i] = msg.records[i]
      BY <1>1, <2>2, <2>7, <2>8
    <2>10. Subnets(record) = {n} /\ record.options[n].addr = addr
      BY <1>3, <2>4, <2>6, <2>7 DEF Subnets
    <2>11. k \in DOMAIN wire.records /\ wire.ar \in Nat /\ wire.ar >= msg.ar
      BY <1>1, <2>2, <2>3, <2>9
    <2>12. Extended(msg, addr, wire, k)
      BY <2>3, <2>6, <2>7, <2>9, <2>10, <2>11 DEF Extended
    <2> QED
      BY <2>2, <2>12 DEF wire
  <1> QED
    BY <1>4, <1>5

\* netod reads the address that dnsmasq added.
LEMMA ClientSubnetReads ==
  ASSUME NEW msg \in RequestMessage, NEW addr \in Hosts \union {NoAddress},
         WellFormed(msg), msg.rr = 0, SubnetFree(msg)
  PROVE  ClientSubnet(AddSubnet(msg, addr)) = addr
  <1> DEFINE wire == AddSubnet(msg, addr)
  <1>1. PICK k \in Nat : Extended(msg, addr, wire, k)
    BY AddSubnetExtends
  <1> DEFINE Usable(record) == {j \in Subnets(record) : record.options[j].addr # NoAddress}
             found == {i \in DOMAIN wire.records :
                         i <= wire.ar /\ wire.records[i].opt /\ Usable(wire.records[i]) # {}}
  <1> HIDE DEF wire
  <1>2. PICK n \in Nat : /\ Subnets(wire.records[k]) = {n}
                         /\ wire.records[k].options[n].addr = addr
    <2>1. wire.records[k] \in Record(Hosts)
      BY <1>1 DEF Extended
    <2>2. wire.records[k].options \in Seq(Option(Hosts))
      BY <2>1 DEF Record
    <2> QED
      BY <1>1, <2>2 DEF Extended
  <1>3. /\ \A i \in DOMAIN wire.records \ {k} : Subnets(wire.records[i]) = {}
        /\ k \in DOMAIN wire.records /\ k <= wire.ar /\ wire.records[k].opt
        /\ ~wire.short /\ Len(wire.questions) = wire.qd
    <2>1. \A i \in DOMAIN wire.records \ {k} : Subnets(wire.records[i]) = {}
      BY <1>1 DEF Extended, SubnetFree
    <2>2. k \in DOMAIN wire.records /\ k <= wire.ar /\ wire.records[k].opt
      BY <1>1 DEF Extended
    <2>3. ~wire.short /\ Len(wire.questions) = wire.qd
      BY <1>1 DEF Extended, WellFormed, Complete
    <2> QED
      BY <2>1, <2>2, <2>3
  <1>4. CASE addr = NoAddress
    <2>1. found = {}
      BY <1>2, <1>3, <1>4
    <2> QED
      BY <1>4, <2>1 DEF ClientSubnet, wire
  <1>5. CASE addr # NoAddress
    <2>1. found = {k} /\ Usable(wire.records[k]) = {n}
      BY <1>2, <1>3, <1>5
    <2>2. Least(found) = k /\ Least(Usable(wire.records[k])) = n
      BY <2>1, LeastOfOne
    <2>3. ClientSubnet(wire) = wire.records[Least(found)].options[Least(Usable(wire.records[Least(found)]))].addr
      BY <1>3, <2>1 DEF ClientSubnet
    <2> QED
      BY <1>2, <2>2, <2>3 DEF wire
  <1> QED
    BY <1>4, <1>5

LEMMA AddSubnetKeeps ==
  ASSUME NEW msg \in RequestMessage, NEW addr \in Hosts \union {NoAddress},
         WellFormed(msg), msg.rr = 0, SubnetFree(msg)
  PROVE  /\ WellFormed(AddSubnet(msg, addr))
         /\ AddSubnet(msg, addr).questions = msg.questions
         /\ AddSubnet(msg, addr).qd = msg.qd
         /\ AddSubnet(msg, addr).short = msg.short
  <1> DEFINE wire == AddSubnet(msg, addr)
  <1>1. PICK k \in Nat : Extended(msg, addr, wire, k)
    BY AddSubnetExtends
  <1> HIDE DEF wire
  <1>2. \A i \in DOMAIN wire.records : wire.records[i].opt => wire.records[i].sound
    <2>1. DOMAIN msg.records = 1 .. Len(msg.records)
      BY DEF RequestMessage, Message
    <2>2. \A i \in DOMAIN msg.records : msg.records[i].opt => msg.records[i].sound
      BY <2>1 DEF WellFormed, Additional
    <2> QED
      BY <1>1, <2>2 DEF Extended
  <1>3. Complete(wire)
    BY <1>1 DEF Extended, WellFormed, Complete
  <1> QED
    BY <1>1, <1>2, <1>3 DEF wire, Extended, WellFormed, Additional

-------------------------------------------------------------------------------
(* What netod makes of a question is what the policy promises *)

LEMMA RequestTypes ==
  ASSUME NEW r \in Requests
  PROVE  /\ r.host \in Hosts /\ r.msg \in RequestMessage
         /\ r.via = "dnsmasq" => WellFormed(r.msg) /\ r.msg.rr = 0 /\ SubnetFree(r.msg)
         /\ r.host \in {"router", "linklocal"} => SubnetFree(r.msg)
  BY ServerAssumption DEF Request, RequestMessage, SubnetFree

\* The address that dnsmasq gives away for a host.
AddressOf(r) == IF r.host \in OverIPv6 THEN NoAddress ELSE r.host

LEMMA AddressTypes ==
  ASSUME NEW r \in Requests
  PROVE  AddressOf(r) \in Hosts \union {NoAddress}
  BY RequestTypes DEF AddressOf

\* netod takes a question for the host's own, or for nobody's if the host is no
\* client.
LEMMA Identified ==
  ASSUME NEW r \in Requests
  PROVE  LET ip == ClientIP(Wire(r), Source(r))
         IN /\ ip \in Hosts \union {"loopback"}
            /\ ip = r.host \/ {ip, r.host} \intersect Clients = {}
  <1>1. /\ r.host \in Hosts
        /\ Clients \intersect {"router", "v6", "linklocal", "loopback", NoAddress} = {}
    BY RequestTypes, ServerAssumption DEF OverIPv6
  <1>2. CASE r.via = "dnsmasq"
    <2>1. /\ Wire(r) = AddSubnet(r.msg, AddressOf(r)) /\ Source(r) = "loopback"
      BY <1>2 DEF Wire, Source, AddressOf
    <2>2. ClientSubnet(Wire(r)) = AddressOf(r)
      BY <1>2, <2>1, RequestTypes, AddressTypes, ClientSubnetReads
    <2>3. ClientIP(Wire(r), Source(r)) = IF AddressOf(r) = NoAddress THEN "loopback" ELSE AddressOf(r)
      BY <2>1, <2>2 DEF ClientIP
    <2> QED
      BY <1>1, <2>3 DEF AddressOf, Hosts, OverIPv6, NoAddress
  <1>3. CASE r.via # "dnsmasq" /\ r.host \notin {"router", "linklocal"}
    <2>1. ClientIP(Wire(r), Source(r)) = r.host
      BY <1>1, <1>3 DEF ClientIP, Source, Hosts, OverIPv6
    <2> QED
      BY <1>1, <2>1
  <1>4. CASE r.via # "dnsmasq" /\ r.host \in {"router", "linklocal"}
    <2>1. Wire(r) = r.msg /\ Source(r) \in {"loopback", "linklocal"}
      BY <1>4 DEF Wire, Source
    <2>2. ClientSubnet(r.msg) = NoAddress
      BY <1>4, RequestTypes DEF ClientSubnet, SubnetFree
    <2>3. ClientIP(Wire(r), Source(r)) = Source(r)
      BY <2>1, <2>2 DEF ClientIP
    <2>4. Source(r) \in Hosts \union {"loopback"}
      BY <2>1 DEF Hosts, OverIPv6
    <2> QED
      BY <1>1, <1>4, <2>1, <2>3, <2>4
  <1> QED
    BY <1>2, <1>3, <1>4

LEMMA WireQuestion ==
  ASSUME NEW r \in Requests
  PROVE  /\ IsQuery(Wire(r)) <=> IsQuery(r.msg)
         /\ Question(Wire(r)) = Question(r.msg)
         /\ WellFormed(r.msg) => WellFormed(Wire(r))
  <1>1. CASE r.via = "dnsmasq"
    <2>1. Wire(r) = AddSubnet(r.msg, AddressOf(r))
      BY <1>1 DEF Wire, AddressOf
    <2>2. /\ WellFormed(Wire(r)) /\ Wire(r).questions = r.msg.questions
          /\ Wire(r).qd = r.msg.qd /\ Wire(r).short = r.msg.short
      BY <1>1, <2>1, RequestTypes, AddressTypes, AddSubnetKeeps
    <2> QED
      BY <2>2 DEF IsQuery, Question
  <1>2. CASE r.via # "dnsmasq"
    BY <1>2 DEF Wire
  <1> QED
    BY <1>1, <1>2

\* The handler's two questions to the policy together are the policy's answer.
LEMMA HandlerKeepsPromise ==
  ASSUME NEW r \in Requests, NEW ip, ip = ClientIP(Wire(r), Source(r))
  PROVE  /\ LocalResponse(Wire(r), ip) # "none" =>
              Promised(proxy, r) = LocalResponse(Wire(r), ip)
         /\ LocalResponse(Wire(r), ip) = "none" =>
              Promised(proxy, r) = UpstreamFor(Wire(r), ip)
         /\ LocalResponse(Wire(r), ip) \in Local \union {"none"}
         /\ UpstreamFor(Wire(r), ip) \in Upstreams
  <1>1. Decision(Wire(r), ip) = ClientDecision(proxy.cfg, r.host, Question(r.msg).name)
    BY Identified, WireQuestion DEF Decision, ClientDecision
  <1> DEFINE decision == ClientDecision(proxy.cfg, r.host, Question(r.msg).name)
  <1> HIDE DEF decision
  <1>2. Decision(Wire(r), ip) = decision
    BY <1>1 DEF decision
  <1>3. Promised(proxy, r) =
          IF ~IsQuery(r.msg)                THEN Real(proxy)
          ELSE IF decision.action = "block" THEN "nxdomain"
          ELSE IF ~IsFakeIP(decision)       THEN Real(proxy)
          ELSE IF proxy.filter /\ Question(r.msg).type = "AAAA" THEN "nodata"
          ELSE "fakeip"
    BY DEF Promised, decision
  <1> QED
    BY <1>2, <1>3, WireQuestion
    DEF LocalResponse, UpstreamFor, Real, IsFakeIP, Local, Upstreams

-------------------------------------------------------------------------------
(* The invariant of the questions' goroutines *)

IsSent(q) ==
  sent[q] # NoMessage =>
    /\ stage[q] # "unasked"
    /\ sent[q] = [to |-> Promised(proxy, ask[q]), msg |-> StripClientSubnet(Wire(ask[q]))]
    /\ sent[q].to \in Upstreams

JobInv(q) ==
  /\ stage[q] # "unasked" => ask[q] # Silent
  /\ stage[q] = "handling" => client[q] = ClientIP(Wire(ask[q]), Source(ask[q]))
  /\ stage[q] \in {"dialing", "waiting"} => result[q] \in Upstreams
  /\ stage[q] \in {"dialing", "waiting", "replying", "answered"} =>
       result[q] = Promised(proxy, ask[q])
  /\ IsSent(q)

JobsInv == \A q \in Queries : JobInv(q)

LEMMA TypeInit == Init => TypeOK
  <1> SUFFICES ASSUME Init PROVE TypeOK
    OBVIOUS
  <1>1. PICK s \in Scenarios : proxy = s.proxy /\ ask = s.ask
    BY DEF Init
  <1>2. proxy \in Proxy /\ ask \in [Queries -> Requests \union {Silent}]
    BY <1>1, ServerAssumption
  <1>3. /\ run \in {"starting", "serving", "returned", "exited"}
        /\ status \in {"none", "ok", "error"}
        /\ ctx \in BOOLEAN /\ broken \in BOOLEAN
        /\ socket \in [Transports -> {"open", "closed"}]
        /\ loop \in [Transports -> {"off", "reading", "ended"}]
    BY DEF Init
  <1>4. errCh \in Seq({"nil", "error"})
    BY DEF Init
  <1>5. stage \in [Queries -> Unsettled \union {"unasked", "answered", "unanswered"}]
    BY DEF Init
  <1>6. /\ overdue \subseteq Queries /\ DOMAIN sent = Queries
        /\ client \in [Queries -> Hosts \union {"loopback"}]
        /\ result \in [Queries -> Replies \union {"none"}]
    BY DEF Init
  <1> QED
    BY <1>2, <1>3, <1>4, <1>5, <1>6 DEF TypeOK

LEMMA JobType ==
  ASSUME TypeOK, JobsInv, NEW q \in Queries, Job(q)
  PROVE  TypeOK'
  <1> USE DEF TypeOK, server, Moved, Unsettled, Transport
  <1>1. CASE Ask(q)
    BY <1>1 DEF Ask
  <1>2. CASE ServeUDP(q) \/ ReadQuestion(q)
    <2>1. ask[q] \in Requests
      BY <1>2 DEF JobsInv, JobInv, ServeUDP, ReadQuestion
    <2>2. ClientIP(Wire(ask[q]), Source(ask[q])) \in Hosts \union {"loopback"}
      BY <2>1, Identified
    <2> DEFINE ip == ClientIP(Wire(ask[q]), Source(ask[q]))
    <2>3. client' = [client EXCEPT ![q] = ip] /\ stage' = [stage EXCEPT ![q] = "handling"]
          /\ UNCHANGED <<proxy, ask, server, overdue, sent, result>>
      BY <1>2 DEF ServeUDP, ReadQuestion, Begin
    <2> HIDE DEF ip
    <2>4. client' \in [Queries -> Hosts \union {"loopback"}]
      BY <2>2, <2>3 DEF ip
    <2> QED
      BY <2>3, <2>4
  <1>3. CASE ServeTCP(q)
    BY <1>3 DEF ServeTCP
  <1>4. CASE ReadFails(q)
    BY <1>4 DEF ReadFails
  <1>5. CASE ClientDeadline(q)
    BY <1>5 DEF ClientDeadline
  <1>6. CASE HandleLocally(q)
    <2>1. PICK local \in {LocalResponse(Wire(ask[q]), client[q])} \ {"none"} :
            result' = [result EXCEPT ![q] = local]
      BY <1>6 DEF HandleLocally
    <2>2. local \in Local
      BY <2>1 DEF LocalResponse, Local
    <2>3. result' \in [Queries -> Replies \union {"none"}]
      BY <2>1, <2>2 DEF Replies
    <2> QED
      BY <1>6, <2>3 DEF HandleLocally
  <1>7. CASE Forward(q)
    <2>1. PICK upstream \in {UpstreamFor(Wire(ask[q]), client[q])} :
            result' = [result EXCEPT ![q] = upstream]
      BY <1>7 DEF Forward
    <2>2. upstream \in Upstreams
      BY <2>1 DEF UpstreamFor, Real, Upstreams
    <2>3. result' \in [Queries -> Replies \union {"none"}]
      BY <2>1, <2>2 DEF Replies
    <2> QED
      BY <1>7, <2>3 DEF Forward
  <1>8. CASE Dial(q)
    BY <1>8 DEF Dial
  <1>9. CASE DialFails(q) \/ UpstreamAnswers(q) \/ UpstreamFails(q) \/ UpstreamDeadline(q)
    BY <1>9 DEF DialFails, UpstreamAnswers, UpstreamFails, UpstreamDeadline
  <1>10. CASE Reply(q) \/ ReplyFails(q)
    BY <1>10 DEF Reply, ReplyFails
  <1> QED
    BY <1>1, <1>2, <1>3, <1>4, <1>5, <1>6, <1>7, <1>8, <1>9, <1>10 DEF Job

\* The steps of the server itself.
ServerStep ==
  \/ Start \/ Signal \/ RunReturns \/ Exit
  \/ \E t \in Transports : CloseSocket(t) \/ LoopEnds(t) \/ SocketFails(t)

LEMMA ServerType ==
  ASSUME TypeOK, ServerStep
  PROVE  TypeOK'
  <1> USE DEF TypeOK, jobs, Unsettled, Transports
  <1>1. CASE Refuse \/ Listen \/ ListenFails \/ Signal
    <2>1. CASE Refuse
      BY <2>1 DEF Refuse
    <2>2. CASE Listen
      BY <2>2 DEF Listen
    <2>3. CASE ListenFails
      BY <2>3 DEF ListenFails
    <2>4. CASE Signal
      BY <2>4 DEF Signal
    <2> QED
      BY <1>1, <2>1, <2>2, <2>3, <2>4
  <1>2. CASE RunReturns
    <2>1. errCh' \in Seq({"nil", "error"}) /\ status' \in {"ok", "error"}
      <3>1. CASE ctx /\ status' = "ok" /\ UNCHANGED errCh
        BY <3>1
      <3>2. CASE /\ errCh # <<>> /\ errCh' = Tail(errCh)
                 /\ status' = IF errCh[1] = "nil" THEN "ok" ELSE "error"
        <4>1. errCh' \in Seq({"nil", "error"})
          BY <3>2
        <4> QED
          BY <3>2, <4>1
      <3> QED
        BY <1>2, <3>1, <3>2 DEF RunReturns
    <2>2. socket' \in [Transports -> {"open", "closed"}]
      BY <1>2 DEF RunReturns
    <2> QED
      BY <1>2, <2>1, <2>2 DEF RunReturns
  <1>3. CASE Exit
    BY <1>3 DEF Exit
  <1>4. ASSUME NEW t \in Transports, CloseSocket(t) PROVE TypeOK'
    BY <1>4 DEF CloseSocket
  <1>5. ASSUME NEW t \in Transports, LoopEnds(t) PROVE TypeOK'
    BY <1>5 DEF LoopEnds, Stop
  <1>6. ASSUME NEW t \in Transports, SocketFails(t) PROVE TypeOK'
    BY <1>6 DEF SocketFails, Stop
  <1> QED
    BY <1>1, <1>2, <1>3, <1>4, <1>5, <1>6 DEF ServerStep, Start

LEMMA NextSplit == Next <=> ServerStep \/ \E q \in Queries : Job(q)
  BY DEF Next, ServerStep

LEMMA JobsInit == Init => JobsInv
  BY DEF Init, JobsInv, JobInv, IsSent

\* A question's goroutine touches no other question.
LEMMA JobsApart ==
  ASSUME TypeOK, NEW q \in Queries, Job(q), NEW p \in Queries \ {q}
  PROVE  /\ stage'[p] = stage[p] /\ client'[p] = client[p]
         /\ result'[p] = result[p] /\ sent'[p] = sent[p]
         /\ UNCHANGED <<proxy, ask>>
  BY DEF TypeOK, Job, Ask, ServeUDP, ServeTCP, ReadQuestion, ReadFails, ClientDeadline,
         HandleLocally, Forward, Dial, DialFails, UpstreamAnswers, UpstreamFails,
         UpstreamDeadline, Reply, ReplyFails, Begin, Moved, server

LEMMA JobKeeps ==
  ASSUME TypeOK, JobsInv, NEW q \in Queries, Job(q)
  PROVE  JobInv(q)'
  <1>1. /\ UNCHANGED <<proxy, ask>> /\ JobInv(q)
        /\ stage \in [Queries -> Unsettled \union {"unasked", "answered", "unanswered"}]
        /\ client \in [Queries -> Hosts \union {"loopback"}]
        /\ result \in [Queries -> Replies \union {"none"}] /\ DOMAIN sent = Queries
    BY DEF JobsInv, Job, Ask, ServeUDP, ServeTCP, ReadQuestion, ReadFails, ClientDeadline,
           HandleLocally, Forward, Dial, DialFails, UpstreamAnswers, UpstreamFails,
           UpstreamDeadline, Reply, ReplyFails, TypeOK
  <1>2. stage[q] # "unasked" => ask[q] \in Requests
    BY <1>1 DEF JobInv, TypeOK
  <1> USE DEF Moved, Transport
  <1>3. CASE Ask(q)
    BY <1>1, <1>3 DEF Ask, JobInv, IsSent
  <1>4. CASE ServeUDP(q) \/ ReadQuestion(q)
    BY <1>1, <1>4 DEF ServeUDP, ReadQuestion, Begin, JobInv, IsSent
  <1>5. CASE ServeTCP(q) \/ ReadFails(q) \/ ClientDeadline(q)
    BY <1>1, <1>5 DEF ServeTCP, ReadFails, ClientDeadline, JobInv, IsSent
  <1>6. CASE HandleLocally(q)
    <2>1. PICK local \in {LocalResponse(Wire(ask[q]), client[q])} \ {"none"} :
            result' = [result EXCEPT ![q] = local]
      BY <1>6 DEF HandleLocally
    <2>2. stage[q] = "handling" /\ stage' = [stage EXCEPT ![q] = "replying"]
          /\ UNCHANGED <<client, sent>>
      BY <1>6 DEF HandleLocally
    <2>3. Promised(proxy, ask[q]) = local
      BY <1>1, <1>2, <2>1, <2>2, HandlerKeepsPromise DEF JobInv
    <2> QED
      BY <1>1, <2>1, <2>2, <2>3 DEF JobInv, IsSent
  <1>7. CASE Forward(q)
    <2>1. PICK upstream \in {UpstreamFor(Wire(ask[q]), client[q])} :
            result' = [result EXCEPT ![q] = upstream]
      BY <1>7 DEF Forward
    <2>2. /\ stage[q] = "handling" /\ stage' = [stage EXCEPT ![q] = "dialing"]
          /\ LocalResponse(Wire(ask[q]), client[q]) = "none"
          /\ UNCHANGED <<client, sent>>
      BY <1>7 DEF Forward
    <2>3. Promised(proxy, ask[q]) = upstream /\ upstream \in Upstreams
      BY <1>1, <1>2, <2>1, <2>2, HandlerKeepsPromise DEF JobInv
    <2> QED
      BY <1>1, <2>1, <2>2, <2>3 DEF JobInv, IsSent
  <1>8. CASE Dial(q)
    <2>1. /\ stage[q] = "dialing" /\ stage' = [stage EXCEPT ![q] = "waiting"]
          /\ sent' = [sent EXCEPT ![q] = [to |-> result[q],
                                          msg |-> StripClientSubnet(Wire(ask[q]))]]
          /\ UNCHANGED <<client, result>>
      BY <1>8 DEF Dial
    <2>2. result[q] = Promised(proxy, ask[q]) /\ result[q] \in Upstreams
      BY <1>1, <2>1 DEF JobInv
    <2>3. sent'[q] = [to |-> result[q], msg |-> StripClientSubnet(Wire(ask[q]))]
      BY <1>1, <2>1
    <2> QED
      BY <1>1, <2>1, <2>2, <2>3 DEF JobInv, IsSent
  <1>9. CASE DialFails(q) \/ UpstreamAnswers(q) \/ UpstreamFails(q) \/ UpstreamDeadline(q)
    BY <1>1, <1>9 DEF DialFails, UpstreamAnswers, UpstreamFails, UpstreamDeadline,
                      JobInv, IsSent
  <1>10. CASE Reply(q) \/ ReplyFails(q)
    BY <1>1, <1>10 DEF Reply, ReplyFails, JobInv, IsSent
  <1> QED
    BY <1>3, <1>4, <1>5, <1>6, <1>7, <1>8, <1>9, <1>10 DEF Job

LEMMA JobsNext == TypeOK /\ JobsInv /\ [Next]_vars => JobsInv'
  <1> SUFFICES ASSUME TypeOK, JobsInv, [Next]_vars, NEW p \in Queries PROVE JobInv(p)'
    BY DEF JobsInv
  <1>1. ASSUME NEW q \in Queries, Job(q) PROVE JobInv(p)'
    <2>1. CASE p = q
      BY <1>1, <2>1, JobKeeps
    <2>2. CASE p # q
      BY <1>1, <2>2, JobsApart DEF JobsInv, JobInv, IsSent
    <2> QED
      BY <2>1, <2>2
  <1>2. CASE ServerStep
    <2>1. /\ UNCHANGED <<proxy, ask, client, result, sent>>
          /\ \/ stage'[p] = stage[p]
             \/ stage'[p] = "unanswered" /\ stage[p] # "unasked"
      <3>1. CASE Exit
        BY <3>1 DEF Exit, Unsettled
      <3>2. CASE ~Exit
        BY <1>2, <3>2 DEF ServerStep, Start, Refuse, Listen, ListenFails, Signal, RunReturns,
                          CloseSocket, LoopEnds, SocketFails, jobs
      <3> QED
        BY <3>1, <3>2
    <2> QED
      BY <2>1 DEF JobsInv, JobInv, IsSent
  <1>3. CASE UNCHANGED vars
    BY <1>3 DEF vars, JobsInv, JobInv, IsSent
  <1> QED
    BY <1>1, <1>2, <1>3, NextSplit

LEMMA TypeNext == TypeOK /\ JobsInv /\ [Next]_vars => TypeOK'
  <1>1. ASSUME TypeOK, UNCHANGED vars PROVE TypeOK'
    BY <1>1 DEF TypeOK, vars
  <1> QED
    BY <1>1, JobType, ServerType, NextSplit

LEMMA JobsInvariant == Spec => [](TypeOK /\ JobsInv)
  BY TypeInit, TypeNext, JobsInit, JobsNext, PTL DEF Spec, Safe

\* Every variable keeps its type, whatever the messages and configurations.
THEOREM TypeCorrect == Spec => []TypeOK
  BY JobsInvariant, PTL

-------------------------------------------------------------------------------
(* What leaves the router *)

\* No real resolver is ever told a name that a rule blocks or gives a FakeIP.
THEOREM NamesPrivate == Spec => []NamesStayPrivate
  <1>1. JobsInv => NamesStayPrivate
    <2> SUFFICES ASSUME JobsInv, NEW q \in Queries, sent[q] # NoMessage, sent[q].to # "fakeip"
                 PROVE  Promised(proxy, ask[q]) \in {"real-direct", "real-proxy"}
      BY DEF NamesStayPrivate
    <2>1. IsSent(q)
      BY DEF JobsInv, JobInv
    <2>2. sent[q].to = Promised(proxy, ask[q]) /\ sent[q].to \in Upstreams
      BY <2>1 DEF IsSent
    <2> QED
      BY <2>2 DEF Upstreams
  <1> QED
    BY <1>1, JobsInvariant, PTL

\* A record of a request's wire form, and the other records around it.
LEMMA WireRecords ==
  ASSUME NEW r \in Requests
  PROVE  Wire(r).records \in Seq(Record(Hosts))
  <1>1. CASE r.via = "dnsmasq"
    <2>1. PICK k \in Nat : Extended(r.msg, AddressOf(r), AddSubnet(r.msg, AddressOf(r)), k)
      BY <1>1, RequestTypes, AddressTypes, AddSubnetExtends
    <2> QED
      BY <1>1, <2>1 DEF Wire, AddressOf, Extended
  <1>2. CASE r.via # "dnsmasq"
    BY <1>2, RequestTypes DEF Wire, RequestMessage, Message
  <1> QED
    BY <1>1, <1>2

\* A message keeps its form on the wire.
LEMMA WireForm ==
  ASSUME NEW r \in Requests
  PROVE  LET wire == Wire(r) IN
         wire = [short |-> wire.short, qd |-> wire.qd, rr |-> wire.rr, ar |-> wire.ar,
                 questions |-> wire.questions, records |-> wire.records, rest |-> wire.rest]
  <1>1. r.msg = [short |-> r.msg.short, qd |-> r.msg.qd, rr |-> r.msg.rr, ar |-> r.msg.ar,
                 questions |-> r.msg.questions, records |-> r.msg.records,
                 rest |-> r.msg.rest]
    BY RequestTypes DEF RequestMessage, Message
  <1> DEFINE msg == r.msg
             rest(ar, records) ==
               [short |-> msg.short, qd |-> msg.qd, rr |-> msg.rr, ar |-> ar,
                questions |-> msg.questions, records |-> records, rest |-> msg.rest]
  <1> HIDE DEF msg
  <1>2. \E ar, records : Wire(r) = rest(ar, records)
    <2>1. CASE r.via # "dnsmasq"
      BY <1>1, <2>1 DEF Wire, msg
    <2>2. CASE r.via = "dnsmasq"
      <3>1. PICK addr : Wire(r) = AddSubnet(msg, addr)
        BY <2>2 DEF Wire, msg
      <3>2. msg = rest(msg.ar, msg.records)
        BY <1>1 DEF msg
      <3>3. (\E records : AddSubnet(msg, addr) = [msg EXCEPT !.records = records])
            \/ \E ar, records : AddSubnet(msg, addr) = [msg EXCEPT !.ar = ar, !.records = records]
        BY DEF AddSubnet
      <3> QED
        BY <3>1, <3>2, <3>3
    <2> QED
      BY <2>1, <2>2
  <1>3. PICK ar, records : Wire(r) = rest(ar, records)
    BY <1>2
  <1> QED
    BY <1>3

\* What Without leaves of a record.
LEMMA WithoutKeeps ==
  ASSUME NEW record \in Record(Hosts)
  PROVE  LET kept == Without(record, Subnets(record)) IN
         /\ Subnets(kept) = {} /\ kept.opt = record.opt
         /\ \A j \in DOMAIN record.options \ Subnets(record) :
              j \in DOMAIN kept.options /\ kept.options[j] = record.options[j]
  <1> DEFINE options == [j \in DOMAIN record.options \ Subnets(record) |-> record.options[j]]
  <1>1. record = [opt |-> record.opt, sound |-> record.sound, options |-> record.options]
    BY DEF Record
  <1>2. /\ Without(record, Subnets(record)).options = options
        /\ Without(record, Subnets(record)).opt = record.opt
    BY <1>1 DEF Without
  <1>3. \A j \in DOMAIN options : options[j].code # "ecs"
    BY DEF Subnets
  <1> QED
    BY <1>2, <1>3 DEF Subnets

\* No client subnet leaves the router in a message that can be decoded, and nothing
\* else of the message is lost.
THEOREM SubnetsLocal == Spec => []SubnetsStayLocal
  <1>1. TypeOK /\ JobsInv => SubnetsStayLocal
    <2> SUFFICES ASSUME TypeOK, JobsInv, NEW q \in Queries, sent[q] # NoMessage,
                        WellFormed(ask[q].msg)
                 PROVE  LET before == Wire(ask[q])
                            after  == sent[q].msg
                        IN /\ after.questions = before.questions
                           /\ \A i \in Additional(after) :
                                after.records[i].opt => Subnets(after.records[i]) = {}
                           /\ \A i \in DOMAIN before.records :
                                \A j \in DOMAIN before.records[i].options :
                                  \/ j \in Subnets(before.records[i])
                                  \/ /\ i \in DOMAIN after.records
                                     /\ j \in DOMAIN after.records[i].options
                                     /\ after.records[i].options[j] = before.records[i].options[j]
      BY DEF SubnetsStayLocal
    <2> DEFINE before == Wire(ask[q])
               after  == sent[q].msg
               kept(record) == Without(record, Subnets(record))
               stripped == [i \in DOMAIN before.records |->
                              IF i > before.rr /\ before.records[i].opt
                              THEN kept(before.records[i]) ELSE before.records[i]]
    <2>1. ask[q] \in Requests /\ after = StripClientSubnet(before)
      BY DEF JobsInv, JobInv, IsSent, TypeOK
    <2>2. /\ WellFormed(before) /\ before.records \in Seq(Record(Hosts))
          /\ before = [short |-> before.short, qd |-> before.qd, rr |-> before.rr,
                       ar |-> before.ar, questions |-> before.questions,
                       records |-> before.records, rest |-> before.rest]
      BY <2>1, WireQuestion, WireRecords, WireForm
    <2> HIDE DEF before, after
    <2>3. after = [before EXCEPT !.records = stripped]
      BY <2>1, <2>2 DEF StripClientSubnet
    <2>4. \A i \in DOMAIN before.records : before.records[i] \in Record(Hosts)
      BY <2>2
    <2> HIDE DEF stripped
    <2>5. after.questions = before.questions /\ after.rr = before.rr /\ after.records = stripped
      BY <2>2, <2>3
    <2>6. /\ DOMAIN stripped = DOMAIN before.records
          /\ \A i \in DOMAIN before.records :
               stripped[i] = IF i > before.rr /\ before.records[i].opt
                             THEN kept(before.records[i]) ELSE before.records[i]
      BY DEF stripped
    <2>7. ASSUME NEW i \in Additional(after), after.records[i].opt
          PROVE  Subnets(after.records[i]) = {}
      BY <2>4, <2>5, <2>6, <2>7, WithoutKeeps DEF Additional
    <2>8. ASSUME NEW i \in DOMAIN before.records, NEW j \in DOMAIN before.records[i].options,
                 j \notin Subnets(before.records[i])
          PROVE  /\ i \in DOMAIN after.records /\ j \in DOMAIN after.records[i].options
                 /\ after.records[i].options[j] = before.records[i].options[j]
      BY <2>4, <2>5, <2>6, <2>8, WithoutKeeps
    <2> QED
      BY <2>5, <2>7, <2>8 DEF before, after
  <1> QED
    BY <1>1, JobsInvariant, PTL

-------------------------------------------------------------------------------
(* How the server ends *)

\* errCh holds an error only if a socket failed or one was closed before the
\* context was done, which only RunReturns does.
StopInv ==
  /\ run = "starting" => status = "none" /\ errCh = <<>> /\ loop = [t \in Transports |-> "off"]
  /\ run = "serving" =>
       /\ status = "none"
       /\ \A t \in Transports : socket[t] = "closed" => ctx
       /\ \A i \in DOMAIN errCh : errCh[i] = "error" => broken
  /\ StopIsNoError

LEMMA StopNext == TypeOK /\ StopInv /\ [Next]_vars => StopInv'
  <1> SUFFICES ASSUME TypeOK, StopInv, [Next]_vars PROVE StopInv'
    OBVIOUS
  <1>1. ASSUME NEW q \in Queries, Job(q) PROVE UNCHANGED <<proxy, server>>
    BY <1>1 DEF Job, Ask, ServeUDP, ServeTCP, ReadQuestion, ReadFails, ClientDeadline,
         HandleLocally, Forward, Dial, DialFails, UpstreamAnswers, UpstreamFails,
         UpstreamDeadline, Reply, ReplyFails
  <1>2. CASE UNCHANGED vars \/ \E q \in Queries : Job(q)
    <2>1. UNCHANGED <<proxy, server>>
      BY <1>1, <1>2 DEF vars, server
    <2> QED
      BY <2>1 DEF StopInv, StopIsNoError, server
  <1>3. CASE Refuse \/ Listen \/ ListenFails \/ Signal \/ Exit
    BY <1>3 DEF Refuse, Listen, ListenFails, Signal, Exit, StopInv, StopIsNoError, Transports
  <1>4. CASE RunReturns
    <2>1. errCh # <<>> /\ errCh[1] = "error" => broken
      BY <1>4 DEF RunReturns, StopInv, TypeOK
    <2>2. errCh # <<>> => errCh[1] \in {"nil", "error"}
      BY DEF TypeOK
    <2> QED
      BY <1>4, <2>1, <2>2 DEF RunReturns, StopInv, StopIsNoError
  <1>5. ASSUME NEW t \in Transports, CloseSocket(t) PROVE StopInv'
    BY <1>5 DEF CloseSocket, StopInv, StopIsNoError, TypeOK
  <1>6. ASSUME NEW t \in Transports, LoopEnds(t) \/ SocketFails(t)
        PROVE  StopInv'
    <2>1. /\ UNCHANGED <<proxy, run, status, ctx, socket>> /\ loop[t] = "reading"
          /\ broken => broken'
          /\ \E e \in {"nil", "error"} :
               /\ errCh' = Append(errCh, e)
               /\ e = "error" => broken' \/ (socket[t] = "closed" /\ ~ctx)
      BY <1>6 DEF LoopEnds, SocketFails, Stop, TypeOK
    <2>2. run # "starting"
      BY <2>1 DEF StopInv
    <2>3. PICK e \in {"nil", "error"} :
            /\ errCh' = Append(errCh, e)
            /\ e = "error" => broken' \/ (socket[t] = "closed" /\ ~ctx)
      BY <2>1
    <2>4. run = "serving" => \A i \in DOMAIN errCh' : errCh'[i] = "error" => broken'
      <3> SUFFICES ASSUME run = "serving", NEW i \in DOMAIN errCh', errCh'[i] = "error"
                   PROVE  broken'
        OBVIOUS
      <3>1. CASE i = Len(errCh) + 1
        BY <2>1, <2>3, <3>1 DEF StopInv, TypeOK
      <3>2. CASE i # Len(errCh) + 1
        BY <2>1, <2>3, <3>2 DEF StopInv, TypeOK
      <3> QED
        BY <3>1, <3>2
    <2>5. StopIsNoError'
      BY <2>1 DEF StopInv, StopIsNoError
    <2> QED
      BY <2>1, <2>2, <2>4, <2>5 DEF StopInv
  <1> QED
    BY <1>2, <1>3, <1>4, <1>5, <1>6, NextSplit DEF ServerStep, Start

\* Being told to stop is never an error, in whatever order the goroutines notice.
THEOREM StopNoError == Spec => []StopIsNoError
  <1>1. Init => StopInv
    BY DEF Init, StopInv, StopIsNoError
  <1>2. StopInv => StopIsNoError
    BY DEF StopInv
  <1> QED
    BY <1>1, <1>2, StopNext, TypeInit, TypeNext, JobsInit, JobsNext, PTL DEF Spec, Safe

-------------------------------------------------------------------------------
(* Nobody waits for nothing *)

\* While the daemon serves, a loop that is gone has left its error in errCh, a closed
\* socket means that the context has ended; without the daemon no socket is open, and
\* before and after it there is no question.
StrandedInv ==
  /\ run = "serving" =>
       \A t \in Transports : /\ loop[t] = "reading" \/ errCh # <<>>
                             /\ socket[t] = "open" \/ ctx
  /\ run # "serving" => \A t \in Transports : socket[t] = "closed"
  /\ run \in {"starting", "exited"} => \A q \in Queries : stage[q] \notin Unsettled

LEMMA StrandedNext == TypeOK /\ StrandedInv /\ [Next]_vars => StrandedInv'
  <1> SUFFICES ASSUME TypeOK, StrandedInv, [Next]_vars PROVE StrandedInv'
    OBVIOUS
  <1>1. CASE UNCHANGED vars
    BY <1>1 DEF vars, StrandedInv
  <1>2. ASSUME NEW q \in Queries, Job(q) PROVE StrandedInv'
    <2>1. UNCHANGED <<run, ctx, socket, loop, errCh>>
      BY <1>2 DEF Job, Ask, ServeUDP, ServeTCP, ReadQuestion, ReadFails, ClientDeadline,
           HandleLocally, Forward, Dial, DialFails, UpstreamAnswers, UpstreamFails,
           UpstreamDeadline, Reply, ReplyFails, server
    <2>2. \A p \in Queries \ {q} : stage'[p] = stage[p]
      BY <1>2, JobsApart
    <2>3. CASE Ask(q)
      <3>1. ask[q] \in Requests
        BY <2>3 DEF Ask, TypeOK
      <3>2. Transport(q) \in Transports
        BY <3>1, ServerAssumption DEF Request, Transport, Transports
      <3>3. stage'[q] = IF socket[Transport(q)] = "open" THEN "queued" ELSE "unanswered"
        BY <2>3 DEF Ask, Moved, TypeOK
      <3>4. stage'[q] \in Unsettled => run = "serving"
        BY <3>2, <3>3 DEF StrandedInv, Unsettled
      <3> QED
        BY <2>1, <2>2, <3>4 DEF StrandedInv
    <2>4. CASE ~Ask(q)
      <3>1. stage[q] \in Unsettled
        BY <1>2, <2>4 DEF Job, ServeUDP, ServeTCP, ReadQuestion, ReadFails, ClientDeadline,
             HandleLocally, Forward, Dial, DialFails, UpstreamAnswers, UpstreamFails,
             UpstreamDeadline, Reply, ReplyFails, Unsettled
      <3> QED
        BY <2>1, <2>2, <3>1 DEF StrandedInv
    <2> QED
      BY <2>3, <2>4
  <1>3. CASE Refuse \/ Listen \/ ListenFails
    BY <1>3 DEF Refuse, Listen, ListenFails, StrandedInv, jobs
  <1>4. CASE Signal
    BY <1>4 DEF Signal, StrandedInv, jobs
  <1>5. CASE RunReturns
    BY <1>5 DEF RunReturns, StrandedInv, jobs
  <1>6. CASE Exit
    BY <1>6 DEF Exit, StrandedInv, TypeOK, Unsettled
  <1>7. ASSUME NEW t \in Transports, CloseSocket(t) PROVE StrandedInv'
    BY <1>7 DEF CloseSocket, StrandedInv, TypeOK, jobs
  <1>8. ASSUME NEW t \in Transports, LoopEnds(t) \/ SocketFails(t) PROVE StrandedInv'
    <2>1. /\ UNCHANGED <<run, ctx, socket, stage>>
          /\ \E e \in {"nil", "error"} : errCh' = Append(errCh, e)
      BY <1>8 DEF LoopEnds, SocketFails, Stop, jobs
    <2>2. errCh' # <<>>
      BY <2>1 DEF TypeOK
    <2> QED
      BY <2>1, <2>2 DEF StrandedInv
  <1> QED
    BY <1>1, <1>2, <1>3, <1>4, <1>5, <1>6, <1>7, <1>8, NextSplit DEF ServerStep, Start

\* Whichever loop fails and whoever notices first, netod does not go on half dead: a
\* question that has come in has its loop, or the daemon is about to end.
THEOREM NobodyStranded == Spec => []NoneStranded
  <1>1. Init => StrandedInv
    BY DEF Init, StrandedInv, Unsettled
  <1>2. TypeOK /\ JobsInv /\ StrandedInv => NoneStranded
    <2> SUFFICES ASSUME TypeOK, JobsInv, StrandedInv, NEW q \in Queries, stage[q] \in Unsettled
                 PROVE  /\ run \in {"serving", "returned"}
                        /\ \/ run = "returned" \/ ctx \/ errCh # <<>>
                           \/ socket[Transport(q)] = "open" /\ loop[Transport(q)] = "reading"
      BY DEF NoneStranded
    <2>1. run \in {"serving", "returned"}
      BY DEF TypeOK, StrandedInv
    <2>2. ask[q] \in Requests
      BY DEF TypeOK, JobsInv, JobInv, Unsettled
    <2>3. Transport(q) \in Transports
      BY <2>2, ServerAssumption DEF Request, Transport, Transports
    <2> QED
      BY <2>1, <2>3 DEF StrandedInv
  <1> QED
    BY <1>1, <1>2, StrandedNext, TypeInit, TypeNext, JobsInit, JobsNext, PTL DEF Spec, Safe

\* How many more steps a question can take: one for each stage ahead of it, and the
\* client's deadline.
StagesLeft == [unasked |-> 7, queued |-> 6, reading |-> 5, handling |-> 4, dialing |-> 3,
               waiting |-> 2, replying |-> 1, answered |-> 0, unanswered |-> 0]

QuestionLeft(q) == StagesLeft[stage[q]] + IF q \in overdue THEN 0 ELSE 1

\* What is done for a question takes it forward; nothing else that happens, in netod or
\* to another question, sends it back.
QuestionsAdvance ==
  \A q \in Queries : /\ QuestionLeft(q) \in 0 .. 8
                     /\ Job(q) => QuestionLeft(q)' < QuestionLeft(q)
                     /\ QuestionLeft(q)' < QuestionLeft(q) \/ QuestionLeft(q)' = QuestionLeft(q)

LEMMA JobAdvances ==
  ASSUME TypeOK, NEW q \in Queries, Job(q)
  PROVE  QuestionLeft(q)' < QuestionLeft(q)
  <1> USE DEF QuestionLeft, StagesLeft, TypeOK, Moved, Begin
  <1>1. CASE Ask(q)
    BY <1>1 DEF Ask
  <1>2. CASE ServeUDP(q) \/ ServeTCP(q) \/ ReadQuestion(q) \/ ReadFails(q)
    BY <1>2 DEF ServeUDP, ServeTCP, ReadQuestion, ReadFails
  <1>3. CASE ClientDeadline(q)
    BY <1>3 DEF ClientDeadline, Unsettled
  <1>4. CASE HandleLocally(q) \/ Forward(q) \/ Dial(q) \/ DialFails(q)
    BY <1>4 DEF HandleLocally, Forward, Dial, DialFails
  <1>5. CASE UpstreamAnswers(q) \/ UpstreamFails(q) \/ UpstreamDeadline(q)
    BY <1>5 DEF UpstreamAnswers, UpstreamFails, UpstreamDeadline
  <1>6. CASE Reply(q) \/ ReplyFails(q)
    BY <1>6 DEF Reply, ReplyFails
  <1> QED
    BY <1>1, <1>2, <1>3, <1>4, <1>5, <1>6 DEF Job

\* A question takes at most eight steps, whoever is silent: none of its goroutine's
\* steps is repeated, and a deadline passes once (dnsproxy.go 158-220).  Together with
\* NobodyStranded this is what QuestionsEnd needs besides fairness.
THEOREM QuestionsGoOn == Spec => [][QuestionsAdvance]_vars
  <1>1. TypeOK /\ [Next]_vars => [QuestionsAdvance]_vars
    <2> SUFFICES ASSUME TypeOK, Next, NEW q \in Queries
                 PROVE  /\ QuestionLeft(q) \in 0 .. 8
                        /\ Job(q) => QuestionLeft(q)' < QuestionLeft(q)
                        /\ QuestionLeft(q)' < QuestionLeft(q) \/ QuestionLeft(q)' = QuestionLeft(q)
      BY DEF QuestionsAdvance
    <2>1. QuestionLeft(q) \in 0 .. 8
      BY DEF QuestionLeft, StagesLeft, TypeOK, Unsettled
    <2>2. Job(q) => QuestionLeft(q)' < QuestionLeft(q)
      BY JobAdvances
    <2>3. ASSUME NEW p \in Queries \ {q}, Job(p) PROVE QuestionLeft(q)' = QuestionLeft(q)
      <3>1. stage'[q] = stage[q]
        BY <2>3, JobsApart
      <3>2. q \in overdue' <=> q \in overdue
        BY <2>3 DEF Job, Ask, ServeUDP, ServeTCP, ReadQuestion, ReadFails, ClientDeadline,
             HandleLocally, Forward, Dial, DialFails, UpstreamAnswers, UpstreamFails,
             UpstreamDeadline, Reply, ReplyFails
      <3> QED
        BY <3>1, <3>2 DEF QuestionLeft
    <2>4. ASSUME ServerStep
          PROVE  QuestionLeft(q)' < QuestionLeft(q) \/ QuestionLeft(q)' = QuestionLeft(q)
      <3>1. overdue' = overdue /\ (stage'[q] = stage[q] \/ stage'[q] = "unanswered")
        BY <2>4 DEF ServerStep, Start, Refuse, Listen, ListenFails, Signal, RunReturns, Exit,
             CloseSocket, LoopEnds, SocketFails, jobs, TypeOK
      <3>2. stage[q] \in DOMAIN StagesLeft /\ StagesLeft["unanswered"] = 0
            /\ StagesLeft[stage[q]] \in 0 .. 7
        BY DEF StagesLeft, TypeOK, Unsettled
      <3> QED
        BY <3>1, <3>2 DEF QuestionLeft
    <2>5. \A p \in Queries : p = q \/ p \in Queries \ {q}
      OBVIOUS
    <2> QED
      BY <2>1, <2>2, <2>3, <2>4, <2>5, NextSplit
  <1> QED
    BY <1>1, TypeInit, TypeNext, JobsInit, JobsNext, PTL DEF Spec, Safe

-------------------------------------------------------------------------------
(* The server implements DnsService *)

\* What a question's goroutine does to its outcome.
Outcome(q) == IF stage[q] \in Unsettled THEN "pending"
              ELSE IF stage[q] = "answered" THEN result[q] ELSE stage[q]

Promise == [q \in Queries |-> IF ask[q] = Silent THEN "nodata" ELSE Promised(proxy, ask[q])]

Outcomes == [q \in Queries |-> Outcome(q)]

LEMMA PromiseTyped ==
  ASSUME TypeOK
  PROVE  Promise \in [Queries -> Replies]
  <1> SUFFICES ASSUME NEW q \in Queries PROVE Promise[q] \in Replies
    BY DEF Promise
  <1> QED
    BY DEF Promise, Promised, Replies, Local, Upstreams, Real

LEMMA ServiceInit == Init => Service!Init
  <1> SUFFICES ASSUME Init PROVE Service!Init
    OBVIOUS
  <1>1. Promise \in [Queries -> Replies]
    BY TypeInit, PromiseTyped
  <1>2. Outcomes = [q \in Queries |-> "unasked"]
    BY DEF Init, Outcomes, Outcome, Unsettled
  <1> QED
    BY <1>1, <1>2 DEF Service!Init, Promise, Outcomes, Outcome

\* What one step may do to the outcome of a question.
Moves(q) ==
  \/ Outcome(q)' = Outcome(q)
  \/ Outcome(q) = "unasked" /\ Outcome(q)' \in {"pending", "unanswered"}
  \/ Outcome(q) = "pending" /\ Outcome(q)' \in {Promise[q], "unanswered"}

LEMMA JobMoves ==
  ASSUME TypeOK, JobsInv, JobsInv', NEW q \in Queries, Job(q)
  PROVE  Moves(q) /\ \A p \in Queries \ {q} : Outcome(p)' = Outcome(p)
  <1>1. /\ UNCHANGED <<proxy, ask>> /\ JobInv(q)
        /\ stage \in [Queries -> Unsettled \union {"unasked", "answered", "unanswered"}]
    BY DEF JobsInv, Job, Ask, ServeUDP, ServeTCP, ReadQuestion, ReadFails, ClientDeadline,
           HandleLocally, Forward, Dial, DialFails, UpstreamAnswers, UpstreamFails,
           UpstreamDeadline, Reply, ReplyFails, TypeOK
  <1>2. \A p \in Queries \ {q} : Outcome(p)' = Outcome(p)
    BY JobsApart DEF Outcome
  <1>8. /\ stage[q] \in Unsettled => Outcome(q) = "pending"
        /\ stage[q] \in {"unasked", "unanswered"} => Outcome(q) = stage[q]
    BY DEF Outcome, Unsettled
  <1>9. /\ stage'[q] \in Unsettled => Outcome(q)' = "pending"
        /\ stage'[q] = "unanswered" => Outcome(q)' = "unanswered"
        /\ stage'[q] = "answered" => Outcome(q)' = result'[q]
    BY DEF Outcome, Unsettled
  <1>3. CASE Ask(q)
    <2>1. stage[q] = "unasked" /\ stage'[q] \in {"queued", "unanswered"}
      BY <1>1, <1>3 DEF Ask, Moved
    <2> QED
      BY <1>2, <1>8, <1>9, <2>1 DEF Moves, Unsettled
  <1>4. CASE ServeUDP(q) \/ ServeTCP(q) \/ ReadQuestion(q) \/ HandleLocally(q) \/ Forward(q)
             \/ Dial(q) \/ UpstreamAnswers(q)
    <2>1. stage[q] \in Unsettled
      BY <1>4 DEF ServeUDP, ServeTCP, ReadQuestion, HandleLocally, Forward, Dial,
                  UpstreamAnswers, Unsettled
    <2>2. stage'[q] \in Unsettled
      BY <1>1, <1>4 DEF ServeUDP, ServeTCP, ReadQuestion, Begin, HandleLocally, Forward, Dial,
                        UpstreamAnswers, Moved, Unsettled
    <2> QED
      BY <1>2, <1>8, <1>9, <2>1, <2>2 DEF Moves
  <1>5. CASE ReadFails(q) \/ DialFails(q) \/ UpstreamFails(q) \/ UpstreamDeadline(q)
             \/ ReplyFails(q)
    <2>1. stage[q] \in Unsettled /\ stage'[q] = "unanswered"
      BY <1>1, <1>5 DEF ReadFails, DialFails, UpstreamFails, UpstreamDeadline, ReplyFails,
                        Moved, Unsettled
    <2> QED
      BY <1>2, <1>8, <1>9, <2>1 DEF Moves
  <1>6. CASE ClientDeadline(q)
    <2>1. stage[q] \in Unsettled /\ (stage'[q] = stage[q] \/ stage'[q] = "unanswered")
      BY <1>1, <1>6 DEF ClientDeadline, Moved, Unsettled
    <2> QED
      BY <1>2, <1>8, <1>9, <2>1 DEF Moves
  <1>7. CASE Reply(q)
    <2>1. stage[q] = "replying" /\ ask[q] # Silent /\ result[q] = Promised(proxy, ask[q])
      BY <1>1, <1>7 DEF Reply, JobInv
    <2>2. Promise[q] = result[q]
      BY <2>1 DEF Promise
    <2>3. result' = result /\ stage'[q] \in {"answered", "unanswered"}
      BY <1>1, <1>7 DEF Reply, Moved
    <2>4. stage[q] \in Unsettled
      BY <2>1 DEF Unsettled
    <2> QED
      BY <1>2, <1>8, <1>9, <2>2, <2>3, <2>4 DEF Moves
  <1> QED
    BY <1>2, <1>3, <1>4, <1>5, <1>6, <1>7 DEF Job

LEMMA ServiceJob ==
  ASSUME TypeOK, JobsInv, JobsInv', NEW q \in Queries, Job(q)
  PROVE  [Service!Next]_(Service!serviceVars)
  <1>1. UNCHANGED <<proxy, ask>>
    BY DEF Job, Ask, ServeUDP, ServeTCP, ReadQuestion, ReadFails, ClientDeadline,
           HandleLocally, Forward, Dial, DialFails, UpstreamAnswers, UpstreamFails,
           UpstreamDeadline, Reply, ReplyFails
  <1>2. Promise' = Promise
    BY <1>1 DEF Promise, Promised, Real
  <1>3. \A p \in Queries \ {q} : Outcome(p)' = Outcome(p)
    BY JobMoves
  <1>4. Outcomes' = [Outcomes EXCEPT ![q] = Outcome(q)']
    BY <1>3 DEF Outcomes
  <1>5. CASE Outcome(q)' = Outcome(q)
    <2>1. Outcomes' = Outcomes
      BY <1>3, <1>5 DEF Outcomes
    <2> QED
      BY <1>2, <2>1 DEF Service!serviceVars, Promise, Outcomes, Outcome
  <1>6. CASE Outcome(q) = "unasked" /\ Outcome(q)' \in {"pending", "unanswered"}
    <2>1. Outcomes[q] = "unasked"
          /\ \E o \in {"pending", "unanswered"} : Outcomes' = [Outcomes EXCEPT ![q] = o]
      BY <1>4, <1>6 DEF Outcomes
    <2>2. Service!Ask(q)
      BY <1>2, <2>1 DEF Service!Ask, Promise, Outcomes, Outcome
    <2> QED
      BY <2>2 DEF Service!Next
  <1>7. CASE Outcome(q) = "pending" /\ Outcome(q)' = Promise[q]
    <2>1. Outcomes[q] = "pending" /\ Outcomes' = [Outcomes EXCEPT ![q] = Promise[q]]
      BY <1>4, <1>7 DEF Outcomes
    <2>2. Service!Answer(q)
      BY <1>2, <2>1 DEF Service!Answer, Promise, Outcomes, Outcome
    <2> QED
      BY <2>2 DEF Service!Next
  <1>8. CASE Outcome(q) = "pending" /\ Outcome(q)' = "unanswered"
    <2>1. {q} \in SUBSET {p \in Queries : Outcomes[p] = "pending"}
      BY <1>8 DEF Outcomes
    <2>2. Outcomes' = [p \in Queries |-> IF p \in {q} THEN "unanswered" ELSE Outcomes[p]]
      BY <1>4, <1>8 DEF Outcomes
    <2>3. Service!GiveUp
      BY <1>2, <2>1, <2>2 DEF Service!GiveUp, Promise, Outcomes, Outcome
    <2> QED
      BY <2>3 DEF Service!Next
  <1> QED
    BY <1>5, <1>6, <1>7, <1>8, JobMoves DEF Moves

LEMMA ServiceStep ==
  TypeOK /\ JobsInv /\ JobsInv' /\ [Next]_vars => [Service!Next]_(Service!serviceVars)
  <1> SUFFICES ASSUME TypeOK, JobsInv, JobsInv', [Next]_vars
               PROVE  [Service!Next]_(Service!serviceVars)
    OBVIOUS
  <1>1. CASE UNCHANGED <<proxy, ask, stage, result>>
    <2>1. Promise' = Promise /\ Outcomes' = Outcomes
      BY <1>1 DEF Promise, Promised, Real, Outcomes, Outcome
    <2> QED
      BY <2>1 DEF Service!serviceVars, Promise, Outcomes, Outcome
  <1>2. CASE Exit
    <2>1. UNCHANGED <<proxy, ask, result>>
          /\ stage' = [q \in Queries |-> IF stage[q] \in Unsettled THEN "unanswered" ELSE stage[q]]
      BY <1>2 DEF Exit
    <2>2. Promise' = Promise
      BY <2>1 DEF Promise, Promised, Real
    <2> DEFINE Q == {q \in Queries : stage[q] \in Unsettled}
    <2>3. Q \in SUBSET {q \in Queries : Outcomes[q] = "pending"}
      BY DEF Outcomes, Outcome
    <2>4. Outcomes' = [q \in Queries |-> IF q \in Q THEN "unanswered" ELSE Outcomes[q]]
      <3> SUFFICES ASSUME NEW q \in Queries
                   PROVE  Outcome(q)' = IF q \in Q THEN "unanswered" ELSE Outcomes[q]
        BY DEF Outcomes
      <3> QED
        BY <2>1 DEF Outcomes, Outcome, Unsettled
    <2> HIDE DEF Q
    <2>5. Service!GiveUp
      BY <2>2, <2>3, <2>4 DEF Service!GiveUp, Promise, Outcomes, Outcome
    <2> QED
      BY <2>5 DEF Service!Next
  <1>3. CASE \E q \in Queries : Job(q)
    BY <1>3, ServiceJob
  <1>4. CASE UNCHANGED vars \/ (ServerStep /\ ~Exit)
    <2>1. UNCHANGED <<proxy, ask, stage, result>>
      BY <1>4 DEF vars, ServerStep, Start, Refuse, Listen, ListenFails, Signal, RunReturns,
                  CloseSocket, LoopEnds, SocketFails, jobs
    <2> QED
      BY <1>1, <2>1
  <1> QED
    BY <1>2, <1>3, <1>4, NextSplit

\* Every question is settled once, with the answer that the policy has for the
\* host that asked, or with none.
THEOREM ServesThePolicy == Spec => ServesPolicy
  BY ServiceInit, ServiceStep, TypeInit, TypeNext, JobsInit, JobsNext, PTL
  DEF Spec, Safe, ServesPolicy, Service!Spec

===============================================================================
