------------------------------- MODULE DnsServer -------------------------------
(***************************************************************************)
(* The DNS server of `netod run` (internal/dnsproxy): one goroutine per    *)
(* listening socket, one per socket that waits for the context's end, one  *)
(* per question.  A question comes from a LAN client through dnsmasq, which *)
(* names the client in an EDNS client subnet, or straight to the listener. *)
(* The policy decides whether netod answers itself or which of sing-box's  *)
(* three DNS inbounds it asks, without the client subnet.                  *)
(*                                                                         *)
(* Deadlines are not clocked: one may pass at any time, but those set      *)
(* earlier (all of them 5 s) pass first.                                   *)
(***************************************************************************)

EXTENDS Policy, DnsMessage

CONSTANTS
  Queries,        \* identities of questions
  Requests,       \* the questions that may be asked
  Silent,         \* a question that is never asked
  Scenarios       \* what New makes of a configuration, and what is asked then

VARIABLES
  proxy,          \* netod's configuration
  ask,            \* the question behind each identity
  run,            \* of Run and commandRun
  status,         \* what the process exits with
  ctx,            \* is the context done?
  socket,         \* UDP and TCP listeners
  loop,           \* serveUDP and serveTCP
  errCh,          \* errors of the loops
  broken,         \* did a socket fail?  (history)
  stage,          \* the goroutine of each question
  overdue,        \* TCP connections whose deadline has passed
  client,         \* who asks, as far as netod knows
  sent,           \* what was sent to which upstream for each question
  result          \* what is, or is about to be, the reply to each question

server == <<run, status, ctx, socket, loop, errCh, broken>>
jobs   == <<stage, overdue, client, sent, result>>
vars   == <<proxy, ask, run, status, ctx, socket, loop, errCh, broken,
            stage, overdue, client, sent, result>>

Transports == {"udp", "tcp"}
Upstreams  == {"fakeip", "real-direct", "real-proxy"}
Local      == {"nxdomain", "nodata"}
Replies    == Local \union Upstreams

\* Hosts that ask over IPv6, from a global or from a link-local address: clients are
\* known by IPv4 addresses.
OverIPv6 == {"v6", "linklocal"}

\* "router" stands for every address of the router.
Hosts == Clients \union OverIPv6 \union {"router"}

Request == [host : Hosts, via : {"dnsmasq", "netod"}, transport : Transports,
            msg : Message(Names, Hosts)]

\* `filter` is filter_aaaa_for_fakeip, `real` real_dns_mode; `loops`: one of
\* sing-box's DNS inbounds has netod's own address.
Proxy == [cfg : Config, filter : BOOLEAN, real : {"direct", "proxy"},
          loops : BOOLEAN]

NoMessage == [to |-> "nobody"]

ASSUME ServerAssumption ==
  /\ Clients \intersect (OverIPv6 \union {"router", "loopback", NoAddress}) = {}
  /\ Requests \subseteq Request
  /\ \A r \in Requests :
       /\ r.via = "dnsmasq" => WellFormed(r.msg) /\ r.msg.rr = 0
       /\ r.via = "dnsmasq" \/ r.host \in {"router", "linklocal"} =>
            \A i \in DOMAIN r.msg.records : Subnets(r.msg.records[i]) = {}
  /\ Silent \notin Requests
  /\ Scenarios \subseteq [proxy : Proxy, ask : [Queries -> Requests \union {Silent}]]

-------------------------------------------------------------------------------
(* What arrives, from whom, and what the policy says of it *)

\* dnsmasq knows the asker's address.
Wire(r) ==
  IF r.via # "dnsmasq" THEN r.msg
  ELSE AddSubnet(r.msg, IF r.host \in OverIPv6 THEN NoAddress ELSE r.host)

\* sourceIP: dnsmasq and the router's own programs ask over the loopback.
Source(r) == IF r.via = "dnsmasq" \/ r.host = "router" THEN "loopback" ELSE r.host

\* Mutated form of ClientIP: dnsmasq is the client.
ClientIPSource(msg, source) == source

\* Mutated form of ClientIP: a client subnet is taken for granted.
ClientIPTrusting(msg, source) == IF source = "loopback" THEN ClientSubnet(msg) ELSE source

\* The asker is looked for in the message if the source is the loopback, or no address
\* that net.ParseIP reads: a link-local one comes with its zone.
ClientIP(msg, source) ==
  IF source \in {"loopback", "linklocal"} /\ ClientSubnet(msg) # NoAddress
  THEN ClientSubnet(msg) ELSE source

Decision(msg, ip) == ClientDecision(proxy.cfg, ip, Question(msg).name)

IsFakeIP(decision) == decision.action = "proxy" /\ decision.mode = "fakeip"

\* localResponse: what netod answers itself, "none" if nothing.
LocalResponse(msg, ip) ==
  IF ~IsQuery(msg)                           THEN "none"
  ELSE IF Decision(msg, ip).action = "block" THEN "nxdomain"
  ELSE IF /\ proxy.filter /\ Question(msg).type = "AAAA"
          /\ IsFakeIP(Decision(msg, ip))     THEN "nodata"
  ELSE "none"

Real(p) == IF p.real = "proxy" THEN "real-proxy" ELSE "real-direct"

\* Mutated form of UpstreamFor: only A questions go to the FakeIP inbound.
UpstreamForA(msg, ip) ==
  IF IsQuery(msg) /\ Question(msg).type = "A" /\ IsFakeIP(Decision(msg, ip))
  THEN "fakeip" ELSE Real(proxy)

UpstreamFor(msg, ip) ==
  IF IsQuery(msg) /\ IsFakeIP(Decision(msg, ip)) THEN "fakeip" ELSE Real(proxy)

\* The policy's answer for the host that asks.
Promised(p, r) ==
  LET decision == ClientDecision(p.cfg, r.host, Question(r.msg).name) IN
  IF ~IsQuery(r.msg)                     THEN Real(p)
  ELSE IF decision.action = "block"      THEN "nxdomain"
  ELSE IF ~IsFakeIP(decision)            THEN Real(p)
  ELSE IF p.filter /\ Question(r.msg).type = "AAAA" THEN "nodata"
  ELSE "fakeip"

-------------------------------------------------------------------------------

Unsettled == {"queued", "reading", "handling", "dialing", "waiting", "replying"}

TypeOK ==
  /\ proxy \in Proxy
  /\ ask \in [Queries -> Requests \union {Silent}]
  /\ run \in {"starting", "serving", "returned", "exited"}
  /\ status \in {"none", "ok", "error"}
  /\ ctx \in BOOLEAN /\ broken \in BOOLEAN
  /\ socket \in [Transports -> {"open", "closed"}]
  /\ loop \in [Transports -> {"off", "reading", "ended"}]
  /\ errCh \in Seq({"nil", "error"})
  /\ stage \in [Queries -> Unsettled \union {"unasked", "answered", "unanswered"}]
  /\ overdue \subseteq Queries
  /\ client \in [Queries -> Hosts \union {"loopback"}]
  /\ DOMAIN sent = Queries
  /\ result \in [Queries -> Replies \union {"none"}]

Init ==
  /\ \E s \in Scenarios : proxy = s.proxy /\ ask = s.ask
  /\ run = "starting" /\ status = "none" /\ ctx = FALSE /\ broken = FALSE
  /\ socket = [t \in Transports |-> "closed"]
  /\ loop = [t \in Transports |-> "off"]
  /\ errCh = <<>>
  /\ stage = [q \in Queries |-> "unasked"] /\ overdue = {}
  /\ client = [q \in Queries |-> "loopback"]
  /\ sent = [q \in Queries |-> NoMessage]
  /\ result = [q \in Queries |-> "none"]

Moved(q, to) == stage' = [stage EXCEPT ![q] = to]

-------------------------------------------------------------------------------
(* The questions *)

Transport(q) == ask[q].transport

\* A host asks, through dnsmasq or not.
Ask(q) ==
  /\ stage[q] = "unasked" /\ ask[q] # Silent
  /\ Moved(q, IF socket[Transport(q)] = "open" THEN "queued" ELSE "unanswered")
  /\ UNCHANGED <<proxy, ask, server, overdue, client, sent, result>>

\* A message has been read: its goroutine finds out who asks.
Begin(q) ==
  /\ Moved(q, "handling")
  /\ client' = [client EXCEPT ![q] = ClientIP(Wire(ask[q]), Source(ask[q]))]

ServeUDP(q) ==
  /\ stage[q] = "queued" /\ Transport(q) = "udp"
  /\ socket["udp"] = "open" /\ loop["udp"] = "reading"
  /\ Begin(q)
  /\ UNCHANGED <<proxy, ask, server, overdue, sent, result>>

ServeTCP(q) ==
  /\ stage[q] = "queued" /\ Transport(q) = "tcp"
  /\ socket["tcp"] = "open" /\ loop["tcp"] = "reading"
  /\ Moved(q, "reading")
  /\ UNCHANGED <<proxy, ask, server, overdue, client, sent, result>>

ReadQuestion(q) ==
  /\ stage[q] = "reading"
  /\ Begin(q)
  /\ UNCHANGED <<proxy, ask, server, overdue, sent, result>>

\* The client hangs up, or announces an empty message.
ReadFails(q) ==
  /\ stage[q] = "reading"
  /\ Moved(q, "unanswered")
  /\ UNCHANGED <<proxy, ask, server, overdue, client, sent, result>>

\* 5 s after the connection was accepted it can be neither read nor written.
ClientDeadline(q) ==
  /\ stage[q] \in Unsettled \ {"queued"} /\ Transport(q) = "tcp" /\ q \notin overdue
  /\ overdue' = overdue \union {q}
  /\ IF stage[q] = "reading" THEN Moved(q, "unanswered") ELSE UNCHANGED stage
  /\ UNCHANGED <<proxy, ask, server, client, sent, result>>

\* netod answers from what it knows ...
HandleLocally(q) ==
  /\ stage[q] = "handling"
  /\ \E local \in {LocalResponse(Wire(ask[q]), client[q])} \ {"none"} :
       result' = [result EXCEPT ![q] = local]
  /\ Moved(q, "replying")
  /\ UNCHANGED <<proxy, ask, server, overdue, client, sent>>

\* ... or chooses the upstream.
Forward(q) ==
  /\ stage[q] = "handling"
  /\ LocalResponse(Wire(ask[q]), client[q]) = "none"
  /\ \E upstream \in {UpstreamFor(Wire(ask[q]), client[q])} :
       result' = [result EXCEPT ![q] = upstream]
  /\ Moved(q, "dialing")
  /\ UNCHANGED <<proxy, ask, server, overdue, client, sent>>

\* A socket of the question's own, so that no reply reaches another one.
Dial(q) ==
  /\ stage[q] = "dialing" /\ ~ctx
  /\ Moved(q, "waiting")
  /\ sent' = [sent EXCEPT ![q] = [to |-> result[q], msg |-> StripClientSubnet(Wire(ask[q]))]]
  /\ UNCHANGED <<proxy, ask, server, overdue, client, result>>

DialFails(q) ==
  /\ stage[q] = "dialing"
  /\ Moved(q, "unanswered")
  /\ UNCHANGED <<proxy, ask, server, overdue, client, sent, result>>

UpstreamAnswers(q) ==
  /\ stage[q] = "waiting"
  /\ Moved(q, "replying")
  /\ UNCHANGED <<proxy, ask, server, overdue, client, sent, result>>

UpstreamFails(q) ==
  /\ stage[q] = "waiting"
  /\ Moved(q, "unanswered")
  /\ UNCHANGED <<proxy, ask, server, overdue, client, sent, result>>

\* Mutated form of UpstreamDeadline: the client's deadline is all there is.
UpstreamDeadlineTCP(q) ==
  /\ stage[q] = "waiting" /\ Transport(q) = "tcp" /\ q \in overdue
  /\ Moved(q, "unanswered")
  /\ UNCHANGED <<proxy, ask, server, overdue, client, sent, result>>

\* 5 s after the upstream was dialled.
UpstreamDeadline(q) ==
  /\ stage[q] = "waiting" /\ (Transport(q) = "tcp" => q \in overdue)
  /\ Moved(q, "unanswered")
  /\ UNCHANGED <<proxy, ask, server, overdue, client, sent, result>>

Reply(q) ==
  /\ stage[q] = "replying"
  /\ Moved(q, IF \/ Transport(q) = "udp" /\ socket["udp"] = "open"
                 \/ Transport(q) = "tcp" /\ q \notin overdue
              THEN "answered" ELSE "unanswered")
  /\ UNCHANGED <<proxy, ask, server, overdue, client, sent, result>>

\* A client that has hung up.
ReplyFails(q) ==
  /\ stage[q] = "replying" /\ Transport(q) = "tcp"
  /\ Moved(q, "unanswered")
  /\ UNCHANGED <<proxy, ask, server, overdue, client, sent, result>>

-------------------------------------------------------------------------------
(* The server *)

\* An upstream that is the listener itself is refused before listening.
Refuse ==
  /\ run = "starting" /\ proxy.loops
  /\ run' = "returned" /\ status' = "error"
  /\ UNCHANGED <<proxy, ask, ctx, socket, loop, errCh, broken, jobs>>

Listen ==
  /\ run = "starting" /\ ~proxy.loops
  /\ run' = "serving"
  /\ socket' = [t \in Transports |-> "open"]
  /\ loop' = [t \in Transports |-> "reading"]
  /\ UNCHANGED <<proxy, ask, status, ctx, errCh, broken, jobs>>

\* One of the two addresses is taken; the other socket is closed again.
ListenFails ==
  /\ run = "starting" /\ ~proxy.loops
  /\ run' = "returned" /\ status' = "error" /\ broken' = TRUE
  /\ UNCHANGED <<proxy, ask, ctx, socket, loop, errCh, jobs>>

\* SIGTERM or SIGINT.
Signal ==
  /\ run # "exited" /\ ~ctx
  /\ ctx' = TRUE
  /\ UNCHANGED <<proxy, ask, run, status, socket, loop, errCh, broken, jobs>>

CloseSocket(t) ==
  /\ loop[t] # "off" /\ ctx /\ socket[t] = "open" /\ run # "exited"
  /\ socket' = [socket EXCEPT ![t] = "closed"]
  /\ UNCHANGED <<proxy, ask, run, status, ctx, loop, errCh, broken, jobs>>

Stop(t, error) ==
  /\ loop' = [loop EXCEPT ![t] = "ended"]
  /\ errCh' = Append(errCh, error)

\* Mutated form of LoopEnds: a socket closed on purpose counts as an error.
LoopEndsError(t) ==
  /\ loop[t] = "reading" /\ socket[t] = "closed" /\ run # "exited"
  /\ Stop(t, "error")
  /\ UNCHANGED <<proxy, ask, run, status, ctx, socket, broken, jobs>>

LoopEnds(t) ==
  /\ loop[t] = "reading" /\ socket[t] = "closed" /\ run # "exited"
  /\ Stop(t, IF ctx THEN "nil" ELSE "error")
  /\ UNCHANGED <<proxy, ask, run, status, ctx, socket, broken, jobs>>

\* Mutated form of SocketFails: the loop ends and tells nobody.
SocketFailsSilently(t) ==
  /\ loop[t] = "reading" /\ socket[t] = "open" /\ run # "exited"
  /\ loop' = [loop EXCEPT ![t] = "ended"] /\ broken' = TRUE
  /\ UNCHANGED <<proxy, ask, run, status, ctx, socket, errCh, jobs>>

\* Reading or accepting fails, for want of a descriptor for one.
SocketFails(t) ==
  /\ loop[t] = "reading" /\ socket[t] = "open" /\ run # "exited"
  /\ Stop(t, IF ctx THEN "nil" ELSE "error")
  /\ broken' = TRUE
  /\ UNCHANGED <<proxy, ask, run, status, ctx, socket, jobs>>

\* Mutated form of RunReturns: only an error ends Run.
RunReturnsOnError ==
  /\ run = "serving" /\ errCh # <<>> /\ errCh[1] = "error"
  /\ run' = "returned" /\ status' = "error"
  /\ errCh' = Tail(errCh)
  /\ socket' = [t \in Transports |-> "closed"]
  /\ UNCHANGED <<proxy, ask, ctx, loop, broken, jobs>>

\* The context ends or a loop does, whichever is seen first; the sockets go.
RunReturns ==
  /\ run = "serving"
  /\ \/ ctx /\ status' = "ok" /\ UNCHANGED errCh
     \/ /\ errCh # <<>>
        /\ status' = IF errCh[1] = "nil" THEN "ok" ELSE "error"
        /\ errCh' = Tail(errCh)
  /\ run' = "returned"
  /\ socket' = [t \in Transports |-> "closed"]
  /\ UNCHANGED <<proxy, ask, ctx, loop, broken, jobs>>

\* The process ends with main, and every goroutine with it.
Exit ==
  /\ run = "returned"
  /\ run' = "exited"
  /\ stage' = [q \in Queries |-> IF stage[q] \in Unsettled THEN "unanswered" ELSE stage[q]]
  /\ UNCHANGED <<proxy, ask, status, ctx, socket, loop, errCh, broken, overdue, client,
                 sent, result>>

-------------------------------------------------------------------------------

Start == Refuse \/ Listen \/ ListenFails

Job(q) ==
  \/ Ask(q) \/ ServeUDP(q) \/ ServeTCP(q) \/ ReadQuestion(q) \/ ReadFails(q)
  \/ ClientDeadline(q) \/ HandleLocally(q) \/ Forward(q) \/ Dial(q) \/ DialFails(q)
  \/ UpstreamAnswers(q) \/ UpstreamFails(q) \/ UpstreamDeadline(q)
  \/ Reply(q) \/ ReplyFails(q)

Next ==
  \/ Start \/ Signal \/ RunReturns \/ Exit
  \/ \E t \in Transports : CloseSocket(t) \/ LoopEnds(t) \/ SocketFails(t)
  \/ \E q \in Queries : Job(q)

\* What a goroutine of netod does next, with nobody's help.
Goes(q) ==
  \/ ServeUDP(q) \/ ServeTCP(q) \/ HandleLocally(q) \/ Forward(q)
  \/ Dial(q) \/ DialFails(q) \/ Reply(q)

\* Goroutines run and timers fire; neither hosts nor upstreams need answer.
Fairness ==
  /\ WF_vars(Start) /\ WF_vars(RunReturns) /\ WF_vars(Exit)
  /\ \A t \in Transports : WF_vars(CloseSocket(t)) /\ WF_vars(LoopEnds(t))
  /\ \A q \in Queries :
       WF_vars(Goes(q)) /\ WF_vars(ClientDeadline(q)) /\ WF_vars(UpstreamDeadline(q))

Safe == Init /\ [][Next]_vars
Spec == Safe /\ Fairness

-------------------------------------------------------------------------------
(* Properties *)

Service == INSTANCE DnsService WITH
  Answers <- Replies,
  promise <- [q \in Queries |-> IF ask[q] = Silent THEN "nodata"
                                ELSE Promised(proxy, ask[q])],
  outcome <- [q \in Queries |-> IF stage[q] \in Unsettled THEN "pending"
                                ELSE IF stage[q] = "answered" THEN result[q]
                                ELSE stage[q]]

\* Whoever asks, over dnsmasq or not, gets the answer that the policy has for him
\* or none, once (dnsproxy.go 111-185, 222-337).
ServesPolicy == Service!Spec

\* Every question ends, even if its upstream never answers and its client never
\* sends the rest of a message (the deadlines of dnsproxy.go 160, 194 and 214).
QuestionsEnd == Service!Settled

\* What a client asked under a rule for FakeIP or for blocking is never told to
\* a real resolver, answer or no answer (dnsproxy.go 173-185, 222-254).
NamesStayPrivate ==
  \A q \in Queries : sent[q] # NoMessage /\ sent[q].to # "fakeip" =>
    Promised(proxy, ask[q]) \in {"real-direct", "real-proxy"}

\* dnsmasq's client subnet never leaves the router, nor does one that a client
\* put in itself; nothing else of the question is lost (docs/ARCHITECTURE.md
\* 248-250, dnsproxy.go 375-492).
SubnetsStayLocal ==
  \A q \in Queries : sent[q] # NoMessage /\ WellFormed(ask[q].msg) =>
    LET before == Wire(ask[q])
        after  == sent[q].msg
    IN /\ after.questions = before.questions
       /\ \A i \in Additional(after) : after.records[i].opt => Subnets(after.records[i]) = {}
       /\ \A i \in DOMAIN before.records : \A j \in DOMAIN before.records[i].options :
            \/ j \in Subnets(before.records[i])
            \/ /\ i \in DOMAIN after.records
               /\ j \in DOMAIN after.records[i].options
               /\ after.records[i].options[j] = before.records[i].options[j]

\* A daemon that was only told to stop does not exit with an error, whichever
\* goroutine is seen first (dnsproxy.go 102-108, 119-127, 146-153): an error makes
\* procd count a failure.
StopIsNoError == status = "error" => broken \/ proxy.loops

\* No question is left with nobody to read it or to wait for it: netod never goes on
\* with one of its two loops gone, and none of its goroutines outlives it
\* (dnsproxy.go 96-108, 119-127, 145-153).
NoneStranded ==
  \A q \in Queries : stage[q] \in Unsettled =>
    /\ run \in {"serving", "returned"}
    /\ \/ run = "returned" \/ ctx \/ errCh # <<>>
       \/ socket[Transport(q)] = "open" /\ loop[Transport(q)] = "reading"

\* SIGTERM ends the process, whatever it is waiting for (main.go 504-507,
\* dnsproxy.go 102-104).
StopsWhenTold == ctx ~> run = "exited"
===============================================================================
