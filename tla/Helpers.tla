-------------------------------- MODULE Helpers --------------------------------
(***************************************************************************)
(* Commands of netod that start a sing-box of their own: a download through *)
(* an outbound (for a subscription, a provider, its script or an upgrade)   *)
(* and the latency test of the outbounds, cmd/netod/main.go.  Commands run  *)
(* side by side; they share nothing but the ports of the router.            *)
(***************************************************************************)

EXTENDS Integers, Sequences, FiniteSets

CONSTANTS
  Commands,       \* processes, each runs one job
  Ports,          \* what the kernel gives out for port 0
  Tags,           \* of the enabled custom outbounds
  NoTag, Direct, NoPort,
  Slots,          \* queries at a time: 4
  Batch,          \* outbounds per helper: 32
  Scenarios       \* what is asked of the commands

VARIABLES
  job, pc,
  port, helper,   \* its helper: where, and whether it runs
  got, route,     \* what a transfer has brought so far, and through what
  status,         \* how the script ended
  result,         \* what the command has delivered
  first,          \* latency: the first outbound of the batch
  pass,           \* the warm-up or the measured pass
  worker, held,   \* its goroutines, and the places taken in the semaphore
  passed,         \* the outbounds that answered in each pass
  report,
  shared          \* history: two commands drew one port

request == <<job, shared>>
transfer == <<got, route, status, result>>
latency == <<first, pass, worker, held, passed, report>>
vars == <<request, pc, port, helper, transfer, latency>>

Kinds  == {"url", "file", "script", "latency"}
Passes == {"warmup", "measured"}

Jobs == [kind : Kinds, proxy : BOOLEAN, outbound : Tags \union {NoTag}, enabled : Seq(Tags)]

\* Tags are distinct.  These commands do not validate the configuration, the service
\* does; GenerateLatencyClient rejects a tag that a batch has twice, and one that is in
\* two batches is left out.
ASSUME HelpersAssumption ==
  /\ IsFiniteSet(Tags)
  /\ {NoTag, Direct} \intersect Tags = {} /\ NoTag # Direct /\ NoPort \notin Ports
  /\ Slots \in Nat \ {0} /\ Batch \in Nat \ {0}
  /\ \A s \in Scenarios :
       /\ s \in [Commands -> Jobs]
       /\ \A c \in Commands : \A m, n \in 1 .. Len(s[c].enabled) :
            s[c].enabled[m] = s[c].enabled[n] => m = n

Enabled(j) == {j.enabled[i] : i \in 1 .. Len(j.enabled)}

\* Mutated form of ClientOutbound: one that is gone is replaced by the first.
ClientOutboundFallback(j) ==
  IF j.outbound \in Enabled(j) THEN j.outbound
  ELSE IF j.enabled = <<>> THEN NoTag ELSE j.enabled[1]

\* findClientOutbound: the outbound that was asked for, or the first.
ClientOutbound(j) ==
  IF j.outbound # NoTag THEN IF j.outbound \in Enabled(j) THEN j.outbound ELSE NoTag
  ELSE IF j.enabled = <<>> THEN NoTag ELSE j.enabled[1]

\* The outbounds a latency test is about.
Items(j) == IF j.outbound = NoTag THEN j.enabled
            ELSE IF j.outbound \in Enabled(j) THEN <<j.outbound>> ELSE <<>>

NeedsHelper(j) == j.kind = "latency" \/ j.proxy

\* Where a batch that begins at item n ends.
BatchEnd(j, n) == IF n + Batch - 1 < Len(Items(j)) THEN n + Batch - 1 ELSE Len(Items(j))

\* The outbounds in the helper's configuration.
BatchTags(c) == {Items(job[c])[i] : i \in first[c] .. BatchEnd(job[c], first[c])}

ListensOn(d, p) == helper[d] = "listening" /\ port[d] = p

Running == {"start", "drawn", "waiting", "fetching", "script", "draining", "asking"}

-------------------------------------------------------------------------------

TypeOK ==
  /\ job \in [Commands -> Jobs]
  /\ pc \in [Commands -> Running \union {"done", "failed", "killed"}]
  /\ port \in [Commands -> Ports \union {NoPort}]
  /\ helper \in [Commands -> {"none", "starting", "listening"}]
  /\ got \in [Commands -> {"nothing", "part", "whole", "cut"}]
  /\ route \in [Commands -> Tags \union {NoTag, Direct}]
  /\ status \in [Commands -> {"running", "ok", "bad", "late"}]
  /\ result \in [Commands -> {"nothing", "part", "whole", "cut"}]
  /\ first \in [Commands -> Nat \ {0}]
  /\ pass \in [Commands -> Passes]
  /\ worker \in [Commands -> [Tags -> {"off", "queued", "asking"}]]
  /\ held \in [Commands -> Nat]
  /\ passed \in [Commands -> [Passes -> SUBSET Tags]]
  /\ report \in [Commands -> Seq([tag : Tags, ok : BOOLEAN])]
  /\ shared \in [Commands -> BOOLEAN]

Init ==
  /\ job \in Scenarios
  /\ pc = [c \in Commands |-> "start"]
  /\ port = [c \in Commands |-> NoPort]
  /\ helper = [c \in Commands |-> "none"]
  /\ got = [c \in Commands |-> "nothing"] /\ result = got
  /\ route = [c \in Commands |-> NoTag]
  /\ status = [c \in Commands |-> "running"]
  /\ first = [c \in Commands |-> 1]
  /\ pass = [c \in Commands |-> "warmup"]
  /\ worker = [c \in Commands |-> [t \in Tags |-> "off"]]
  /\ held = [c \in Commands |-> 0]
  /\ passed = [c \in Commands |-> [p \in Passes |-> {}]]
  /\ report = [c \in Commands |-> <<>>]
  /\ shared = [c \in Commands |-> FALSE]

Goto(c, where) == pc' = [pc EXCEPT ![c] = where]

\* The deferred calls kill the helper and wait for it.
Cleanup(c) ==
  /\ helper' = [helper EXCEPT ![c] = "none"]
  /\ port' = [port EXCEPT ![c] = NoPort]

Return(c, outcome) == Goto(c, outcome) /\ Cleanup(c)

-------------------------------------------------------------------------------
(* Starting the helper *)

\* The configuration, curl, sing-box or the outbound is missing or refused.
SetupFails(c) ==
  /\ pc[c] \in {"start", "drawn"}
  /\ Return(c, "failed")
  /\ UNCHANGED <<request, transfer, latency>>

BeginDirect(c) ==
  /\ pc[c] = "start" /\ ~NeedsHelper(job[c])
  /\ Goto(c, IF job[c].kind = "script" THEN "script" ELSE "fetching")
  /\ UNCHANGED <<request, port, helper, transfer, latency>>

\* freeLocalPort closes its listener: until the helper listens the port may be
\* given to someone else.
Draw(c) ==
  /\ pc[c] = "start" /\ NeedsHelper(job[c])
  /\ job[c].kind = "latency" => Items(job[c]) # <<>>
  /\ \E p \in Ports :
       /\ \A d \in Commands : ~ListensOn(d, p)
       /\ port' = [port EXCEPT ![c] = p]
       /\ shared' = [d \in Commands |->
            \/ shared[d]
            \/ d # c /\ port[d] = p
            \/ d = c /\ \E e \in Commands \ {c} : port[e] = p]
  /\ Goto(c, "drawn")
  /\ UNCHANGED <<job, helper, transfer, latency>>

Start(c) ==
  /\ pc[c] = "drawn"
  /\ job[c].kind # "latency" => ClientOutbound(job[c]) # NoTag
  /\ helper' = [helper EXCEPT ![c] = "starting"]
  /\ Goto(c, "waiting")
  /\ UNCHANGED <<request, port, transfer, latency>>

\* sing-box exits when it cannot have its port.
HelperListens(c) ==
  /\ helper[c] = "starting"
  /\ helper' = [helper EXCEPT ![c] =
       IF \E d \in Commands : ListensOn(d, port[c]) THEN "none" ELSE "listening"]
  /\ UNCHANGED <<request, pc, port, transfer, latency>>

HelperDies(c) ==
  /\ helper[c] # "none"
  /\ helper' = [helper EXCEPT ![c] = "none"]
  /\ UNCHANGED <<request, pc, port, transfer, latency>>

\* Mutated form of WaitTimesOut: the helper is only killed after it was used.
WaitTimesOutLeaves(c) ==
  /\ pc[c] = "waiting"
  /\ Goto(c, "failed")
  /\ UNCHANGED <<request, port, helper, transfer, latency>>

WaitTimesOut(c) ==
  /\ pc[c] = "waiting"
  /\ Return(c, "failed")
  /\ UNCHANGED <<request, transfer, latency>>

\* One goroutine per outbound of the batch, or per one that passed the warm-up.
BeginPass(c, which, tags) ==
  /\ pass' = [pass EXCEPT ![c] = which]
  /\ worker' = [worker EXCEPT ![c] = [t \in Tags |-> IF t \in tags THEN "queued" ELSE "off"]]
  /\ held' = [held EXCEPT ![c] = 0]

\* waitForPort: whoever listens there.
Connected(c) ==
  /\ pc[c] = "waiting" /\ \E d \in Commands : ListensOn(d, port[c])
  /\ CASE job[c].kind = "latency" -> Goto(c, "asking") /\ BeginPass(c, "warmup", BatchTags(c))
       [] job[c].kind = "script"  -> Goto(c, "script") /\ UNCHANGED <<pass, worker, held>>
       [] OTHER                   -> Goto(c, "fetching") /\ UNCHANGED <<pass, worker, held>>
  /\ UNCHANGED <<request, port, helper, transfer, first, passed, report>>

-------------------------------------------------------------------------------
(* Transfers *)

\* curl, or a script that follows HTTP_PROXY, reaches the server.  A controller
\* of a latency test is no proxy.
Transfer(c) ==
  /\ pc[c] \in {"fetching", "script"} /\ got[c] = "nothing"
  /\ IF job[c].proxy
     THEN \E d \in Commands :
            /\ ListensOn(d, port[c]) /\ job[d].kind # "latency"
            /\ route' = [route EXCEPT ![c] = ClientOutbound(job[d])]
     ELSE route' = [route EXCEPT ![c] = Direct]
  /\ got' = [got EXCEPT ![c] = "part"]
  /\ UNCHANGED <<request, pc, port, helper, status, result, latency>>

TransferEnds(c) ==
  /\ pc[c] = "fetching" /\ got[c] = "part"
  /\ got' = [got EXCEPT ![c] = "whole"]
  /\ result' = [result EXCEPT ![c] = "whole"]
  /\ Return(c, "done")
  /\ UNCHANGED <<request, route, status, latency>>

\* curl fails, gives up after --max-time, or the body is too large.
TransferFails(c) ==
  /\ pc[c] = "fetching"
  /\ Return(c, "failed")
  /\ UNCHANGED <<request, transfer, latency>>

\* A script that ends well has written everything; stdout is cut at its limit.
ScriptWrites(c) ==
  /\ pc[c] = "script" /\ got[c] = "part"
  /\ \E much \in {"whole", "cut"} : got' = [got EXCEPT ![c] = much]
  /\ UNCHANGED <<request, pc, port, helper, route, status, result, latency>>

\* Mutated form of Finish: the deadline is not looked at.
FinishLate(c, how) ==
  LET well == how # "bad" /\ got[c] # "cut"
  IN /\ result' = [result EXCEPT ![c] = IF well THEN got[c] ELSE "nothing"]
     /\ Return(c, IF well THEN "done" ELSE "failed")

\* cmd.Run returns: nothing holds the script's output any more.
Finish(c, how) ==
  LET well == how = "ok" /\ got[c] # "cut"
  IN /\ result' = [result EXCEPT ![c] = IF well THEN got[c] ELSE "nothing"]
     /\ Return(c, IF well THEN "done" ELSE "failed")

\* The script ends, or is killed at its deadline.  A process it has started may
\* still hold its output: Run then waits for that one, without a deadline.
ScriptEnds(c) ==
  /\ pc[c] = "script"
  /\ \E how \in {"ok", "bad", "late"} :
       /\ how = "ok" => got[c] # "part"
       /\ status' = [status EXCEPT ![c] = how]
       /\ \/ Finish(c, how)
          \/ Goto(c, "draining") /\ UNCHANGED <<port, helper, result>>
  /\ UNCHANGED <<request, got, route, latency>>

\* ctx.Err() is looked at after the wait.
DeadlinePasses(c) ==
  /\ pc[c] = "draining"
  /\ status' = [status EXCEPT ![c] = "late"]
  /\ UNCHANGED <<request, pc, port, helper, got, route, result, latency>>

ChildrenEnd(c) ==
  /\ pc[c] = "draining"
  /\ Finish(c, status[c])
  /\ UNCHANGED <<request, got, route, status, latency>>

-------------------------------------------------------------------------------
(* The latency test *)

\* Mutated form of Acquire: one too many.
AcquireOneMore(c, t) ==
  /\ pc[c] = "asking" /\ worker[c][t] = "queued" /\ held[c] <= Slots
  /\ worker' = [worker EXCEPT ![c][t] = "asking"]
  /\ held' = [held EXCEPT ![c] = @ + 1]
  /\ UNCHANGED <<request, pc, port, helper, transfer, first, pass, passed, report>>

Acquire(c, t) ==
  /\ pc[c] = "asking" /\ worker[c][t] = "queued" /\ held[c] < Slots
  /\ worker' = [worker EXCEPT ![c][t] = "asking"]
  /\ held' = [held EXCEPT ![c] = @ + 1]
  /\ UNCHANGED <<request, pc, port, helper, transfer, first, pass, passed, report>>

Release(c, t) ==
  /\ worker' = [worker EXCEPT ![c][t] = "off"]
  /\ held' = [held EXCEPT ![c] = @ - 1]

\* A controller that knows the outbound answers with a delay.
Answer(c, t) ==
  /\ pc[c] = "asking" /\ worker[c][t] = "asking"
  /\ \E d \in Commands : /\ ListensOn(d, port[c])
                         /\ job[d].kind = "latency" /\ t \in BatchTags(d)
  /\ passed' = [passed EXCEPT ![c][pass[c]] = @ \union {t}]
  /\ Release(c, t)
  /\ UNCHANGED <<request, pc, port, helper, transfer, first, pass, report>>

\* Mutated form of NoAnswer: it keeps its place.
NoAnswerKeeps(c, t) ==
  /\ pc[c] = "asking" /\ worker[c][t] = "asking"
  /\ worker' = [worker EXCEPT ![c][t] = "off"]
  /\ UNCHANGED <<request, pc, port, helper, transfer, first, pass, held, passed, report>>

\* Mutated form of NoAnswer: an error gives the place back twice.
NoAnswerTwice(c, t) ==
  /\ pc[c] = "asking" /\ worker[c][t] = "asking"
  /\ worker' = [worker EXCEPT ![c][t] = "off"]
  /\ held' = [held EXCEPT ![c] = @ - 2]
  /\ UNCHANGED <<request, pc, port, helper, transfer, first, pass, passed, report>>

\* An error, a timeout, or a delay of zero.
NoAnswer(c, t) ==
  /\ pc[c] = "asking" /\ worker[c][t] = "asking"
  /\ Release(c, t)
  /\ UNCHANGED <<request, pc, port, helper, transfer, first, pass, passed, report>>

PassOver(c) == pc[c] = "asking" /\ \A t \in Tags : worker[c][t] = "off"

EndWarmup(c) ==
  /\ PassOver(c) /\ pass[c] = "warmup"
  /\ BeginPass(c, "measured", passed[c]["warmup"] \intersect BatchTags(c))
  /\ UNCHANGED <<request, pc, port, helper, transfer, first, passed, report>>

\* Mutated form of NextBatch: it skips an outbound.
NextBatchSkips(j, n) == n + Batch + 1

NextBatch(j, n) == n + Batch

\* As printed: those that work first, by delay; the others by name.
Sorted(results) ==
  LET places == 1 .. Len(results) IN
  {[i \in places |-> results[p[i]]] :
     p \in {q \in [places -> places] :
              /\ \A i \in places : \E j \in places : q[j] = i
              /\ \A i, j \in places : i < j /\ results[q[j]].ok => results[q[i]].ok}}

EndBatch(c) ==
  /\ PassOver(c) /\ pass[c] = "measured"
  /\ LET n    == first[c]
         last == BatchEnd(job[c], n)
         tag(i) == Items(job[c])[n + i - 1]
         results == report[c] \o
           [i \in 1 .. last - n + 1 |->
              [tag |-> tag(i), ok |-> tag(i) \in passed[c]["measured"]]]
         next == NextBatch(job[c], n)
     IN /\ first' = [first EXCEPT ![c] = next]
        /\ \/ /\ next <= Len(Items(job[c]))
              /\ report' = [report EXCEPT ![c] = results]
              /\ Return(c, "start")
           \/ /\ next > Len(Items(job[c]))
              /\ \E sorted \in Sorted(results) : report' = [report EXCEPT ![c] = sorted]
              /\ Return(c, "done")
  /\ UNCHANGED <<request, transfer, pass, worker, held, passed>>

-------------------------------------------------------------------------------

\* rpcd or the administrator kills the process: nothing deferred is run.
Killed(c) ==
  /\ pc[c] \in Running
  /\ Goto(c, "killed")
  /\ UNCHANGED <<request, port, helper, transfer, latency>>

\* What the process itself does, with the programs it waits for.  Transfers, queries
\* and scripts have a time limit; `sing-box check` has none and is taken to end.
Work(c) ==
  \/ SetupFails(c) \/ BeginDirect(c) \/ Draw(c) \/ Start(c)
  \/ WaitTimesOut(c) \/ Connected(c)
  \/ Transfer(c) \/ TransferEnds(c) \/ TransferFails(c)
  \/ ScriptWrites(c) \/ ScriptEnds(c)
  \/ \E t \in Tags : Acquire(c, t) \/ Answer(c, t) \/ NoAnswer(c, t)
  \/ EndWarmup(c) \/ EndBatch(c)

Next == \E c \in Commands :
  Work(c) \/ HelperListens(c) \/ HelperDies(c) \/ DeadlinePasses(c) \/ ChildrenEnd(c) \/ Killed(c)

\* A process that can go on does.  No helper, child or administrator has to act.
Spec == Init /\ [][Next]_vars /\ \A c \in Commands : WF_vars(Work(c))

-------------------------------------------------------------------------------
(* Properties *)

Ended(c) == pc[c] \in {"done", "failed"}

\* However a command returns, its sing-box does not stay behind (main.go 871-874,
\* 1046-1049).
HelpersEnd == \A c \in Commands : Ended(c) => helper[c] = "none"

\* A download goes through the outbound that was asked for, or directly when no proxy
\* was asked for (generator.go 295-313, main.go 741-770, 1015-1055), unless two
\* commands were given one port: then it may go through the helper of the other.
OwnOutbound ==
  \A c \in Commands : route[c] # NoTag /\ ~shared[c] =>
    IF job[c].proxy
    THEN route[c] = job[c].outbound \/ (job[c].outbound = NoTag /\ route[c] = job[c].enabled[1])
    ELSE route[c] = Direct

\* What is delivered is whole: no body that was cut by a failure, a deadline, the
\* size limit or the end of the process (main.go 1083-1102, 1206-1217, 1227-1264).
WholeResults ==
  \A c \in Commands : /\ result[c] \in {"nothing", "whole"}
                      /\ result[c] = "whole" => pc[c] = "done" /\ status[c] # "late"

\* The report has every outbound of the test exactly once, whatever failed, and calls
\* working only those that answered twice (main.go 807-829, 879-913).
ReportWhole ==
  \A c \in Commands : pc[c] = "done" /\ job[c].kind = "latency" =>
    /\ Len(report[c]) = Len(Items(job[c]))
    /\ \A n \in 1 .. Len(Items(job[c])) :
         \E i \in 1 .. Len(report[c]) : report[c][i].tag = Items(job[c])[n]
    /\ \A i \in 1 .. Len(report[c]) :
         report[c][i].ok => \A p \in Passes : report[c][i].tag \in passed[c][p]

\* Only so many queries run at a time (main.go 918-928).
QueriesBounded ==
  \A c \in Commands : Cardinality({t \in Tags : worker[c][t] = "asking"}) <= Slots

\* Every command comes to its end, whatever its helper and the network do, unless a
\* process its script has left behind keeps the output open (main.go 916-936,
\* 1083, 1276-1288).
CommandsEnd ==
  \A c \in Commands : pc[c] = "start" ~> Ended(c) \/ pc[c] \in {"killed", "draining"}
===============================================================================
