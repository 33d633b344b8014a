----------------------------- MODULE Helpers_proofs ----------------------------
(***************************************************************************)
(* Proofs about Helpers, for any number of commands, ports and outbounds.  *)
(***************************************************************************)
EXTENDS Helpers, FiniteSetTheorems, SequenceTheorems, TLAPS

-------------------------------------------------------------------------------
(* Types *)

LEMMA JobTypes ==
  ASSUME TypeOK, NEW c \in Commands
  PROVE  /\ job[c].kind \in Kinds /\ job[c].proxy \in BOOLEAN
         /\ job[c].outbound \in Tags \union {NoTag} /\ job[c].enabled \in Seq(Tags)
         /\ Enabled(job[c]) \subseteq Tags
         /\ ClientOutbound(job[c]) \in Tags \union {NoTag}
         /\ Items(job[c]) \in Seq(Tags)
  <1>1. job[c] \in Jobs
    BY HelpersAssumption DEF TypeOK
  <1> DEFINE j == job[c]
  <1>2. j.kind \in Kinds /\ j.proxy \in BOOLEAN /\ j.outbound \in Tags \union {NoTag}
        /\ j.enabled \in Seq(Tags)
    BY <1>1 DEF Jobs
  <1> HIDE DEF j
  <1>3. Enabled(j) \subseteq Tags
    BY <1>2 DEF Enabled
  <1>4. j.enabled # <<>> => j.enabled[1] \in Tags
    BY <1>2
  <1>5. ClientOutbound(j) \in Tags \union {NoTag}
    BY <1>2, <1>3, <1>4 DEF ClientOutbound
  <1>6. Items(j) \in Seq(Tags)
    BY <1>2, <1>3 DEF Items
  <1> QED
    BY <1>2, <1>3, <1>5, <1>6 DEF j

-------------------------------------------------------------------------------
(* The semaphore *)

\* The goroutines that have a place in it.
AskingIn(w) == {t \in Tags : w[t] = "asking"}

Counted == \A c \in Commands : held[c] = Cardinality(AskingIn(worker[c])) /\ held[c] <= Slots

LEMMA AskingFinite ==
  ASSUME NEW w
  PROVE  IsFiniteSet(AskingIn(w)) /\ Cardinality(AskingIn(w)) \in Nat
  <1>1. AskingIn(w) \subseteq Tags
    BY DEF AskingIn
  <1> QED
    BY <1>1, FS_Subset, FS_CardinalityType, HelpersAssumption

LEMMA BeginPassCounted ==
  ASSUME TypeOK, Counted, NEW c \in Commands, NEW which \in Passes, NEW tags,
         BeginPass(c, which, tags)
  PROVE  /\ pass' \in [Commands -> Passes]
         /\ worker' \in [Commands -> [Tags -> {"off", "queued", "asking"}]]
         /\ held' \in [Commands -> Nat]
         /\ Counted'
  <1> DEFINE w == [t \in Tags |-> IF t \in tags THEN "queued" ELSE "off"]
  <1>1. w \in [Tags -> {"off", "queued", "asking"}] /\ \A t \in Tags : w[t] # "asking"
    OBVIOUS
  <1>2. pass' = [pass EXCEPT ![c] = which] /\ worker' = [worker EXCEPT ![c] = w]
        /\ held' = [held EXCEPT ![c] = 0]
    BY DEF BeginPass
  <1> HIDE DEF w
  <1>3. AskingIn(w) = {}
    BY <1>1 DEF AskingIn
  <1>4. Cardinality(AskingIn(w)) = 0
    BY <1>3, FS_EmptySet
  <1>5. ASSUME NEW d \in Commands
        PROVE  held'[d] = Cardinality(AskingIn(worker'[d])) /\ held'[d] <= Slots
    <2>1. CASE d = c
      BY <1>2, <1>4, <2>1, HelpersAssumption DEF TypeOK
    <2>2. CASE d # c
      BY <1>2, <2>2 DEF TypeOK, Counted
    <2> QED
      BY <2>1, <2>2
  <1> QED
    BY <1>1, <1>2, <1>5 DEF TypeOK, Counted

LEMMA AcquireCounted ==
  ASSUME TypeOK, Counted, NEW c \in Commands, NEW t \in Tags, Acquire(c, t)
  PROVE  /\ worker' \in [Commands -> [Tags -> {"off", "queued", "asking"}]]
         /\ held' \in [Commands -> Nat]
         /\ Counted'
  <1> DEFINE w == worker[c]
             v == [w EXCEPT ![t] = "asking"]
  <1>1. w \in [Tags -> {"off", "queued", "asking"}] /\ w[t] = "queued" /\ held[c] \in Nat /\ held[c] < Slots
    BY DEF TypeOK, Acquire
  <1>2. v \in [Tags -> {"off", "queued", "asking"}]
    BY <1>1
  <1>3. AskingIn(v) = AskingIn(w) \union {t} /\ t \notin AskingIn(w)
    BY <1>1 DEF AskingIn
  <1>4. worker' = [worker EXCEPT ![c] = v] /\ held' = [held EXCEPT ![c] = held[c] + 1]
    BY DEF Acquire, TypeOK
  <1> HIDE DEF w, v
  <1>5. Cardinality(AskingIn(v)) = Cardinality(AskingIn(w)) + 1
    BY <1>3, AskingFinite, FS_AddElement
  <1>6. held[c] = Cardinality(AskingIn(w))
    BY DEF Counted, w
  <1>7. ASSUME NEW d \in Commands
        PROVE  held'[d] = Cardinality(AskingIn(worker'[d])) /\ held'[d] <= Slots
    <2>1. CASE d = c
      BY <1>1, <1>4, <1>5, <1>6, <2>1, HelpersAssumption DEF TypeOK
    <2>2. CASE d # c
      BY <1>4, <2>2 DEF TypeOK, Counted
    <2> QED
      BY <2>1, <2>2
  <1> QED
    BY <1>1, <1>2, <1>4, <1>7 DEF TypeOK, Counted

LEMMA ReleaseCounted ==
  ASSUME TypeOK, Counted, NEW c \in Commands, NEW t \in Tags, worker[c][t] = "asking",
         Release(c, t)
  PROVE  /\ worker' \in [Commands -> [Tags -> {"off", "queued", "asking"}]]
         /\ held' \in [Commands -> Nat]
         /\ Counted'
  <1> DEFINE w == worker[c]
             v == [w EXCEPT ![t] = "off"]
  <1>1. w \in [Tags -> {"off", "queued", "asking"}] /\ w[t] = "asking" /\ held[c] \in Nat /\ held[c] <= Slots
    BY DEF TypeOK, Counted
  <1>2. v \in [Tags -> {"off", "queued", "asking"}]
    BY <1>1
  <1>3. AskingIn(v) = AskingIn(w) \ {t} /\ t \in AskingIn(w)
    BY <1>1 DEF AskingIn
  <1>4. worker' = [worker EXCEPT ![c] = v] /\ held' = [held EXCEPT ![c] = held[c] - 1]
    BY DEF Release, TypeOK
  <1> HIDE DEF w, v
  <1>5. Cardinality(AskingIn(v)) = Cardinality(AskingIn(w)) - 1 /\ Cardinality(AskingIn(v)) \in Nat
    BY <1>3, AskingFinite, FS_RemoveElement
  <1>6. held[c] = Cardinality(AskingIn(w)) /\ held[c] - 1 \in Nat
    BY <1>1, <1>5 DEF Counted, w
  <1>7. ASSUME NEW d \in Commands
        PROVE  held'[d] = Cardinality(AskingIn(worker'[d])) /\ held'[d] <= Slots
    <2>1. CASE d = c
      BY <1>1, <1>4, <1>5, <1>6, <2>1, HelpersAssumption DEF TypeOK
    <2>2. CASE d # c
      BY <1>4, <2>2 DEF TypeOK, Counted
    <2> QED
      BY <2>1, <2>2
  <1> QED
    BY <1>1, <1>2, <1>4, <1>6, <1>7 DEF TypeOK, Counted

\* What is printed has the types of what was measured.
LEMMA SortedTypes ==
  ASSUME NEW S, NEW results \in Seq(S)
  PROVE  Sorted(results) \subseteq Seq(S)
  <1> DEFINE places == 1 .. Len(results)
  <1>1. SUFFICES ASSUME NEW p \in [places -> places]
                 PROVE  [i \in places |-> results[p[i]]] \in Seq(S)
    BY <1>1 DEF Sorted
  <1>2. \A i \in places : results[p[i]] \in S
    OBVIOUS
  <1>3. [i \in places |-> results[p[i]]] \in [places -> S]
    BY <1>2
  <1>4. Len(results) \in Nat
    OBVIOUS
  <1> HIDE DEF places
  <1>5. \E m \in Nat : places = 1 .. m
    BY <1>4 DEF places
  <1> QED
    BY <1>3, <1>5, SeqDef

LEMMA TypeStep == TypeOK /\ Counted /\ [Next]_vars => TypeOK' /\ Counted'
  <1> SUFFICES ASSUME TypeOK, Counted, [Next]_vars PROVE TypeOK' /\ Counted'
    OBVIOUS
  <1>1. CASE UNCHANGED vars
    BY <1>1 DEF vars, request, transfer, latency, TypeOK, Counted
  <1>2. ASSUME NEW c \in Commands, SetupFails(c) PROVE TypeOK' /\ Counted'
    BY <1>2 DEF SetupFails, Return, Goto, Cleanup, request, transfer, latency, TypeOK, Running, Counted
  <1>3. ASSUME NEW c \in Commands, BeginDirect(c) PROVE TypeOK' /\ Counted'
    BY <1>3 DEF BeginDirect, Goto, request, transfer, latency, TypeOK, Running, Counted
  <1>4. ASSUME NEW c \in Commands, Draw(c) PROVE TypeOK' /\ Counted'
    <2>1. UNCHANGED <<job, helper, got, route, status, result, first, pass, worker, held,
                      passed, report>>
      BY <1>4 DEF Draw, transfer, latency
    <2>2. pc' = [pc EXCEPT ![c] = "drawn"] /\ shared' \in [Commands -> BOOLEAN]
      BY <1>4 DEF Draw, Goto, TypeOK
    <2>3. port' \in [Commands -> Ports \union {NoPort}]
      BY <1>4 DEF Draw, TypeOK
    <2>4. pc' \in [Commands -> Running \union {"done", "failed", "killed"}]
      BY <2>2 DEF TypeOK, Running
    <2>5. TypeOK'
      BY <2>1, <2>2, <2>3, <2>4 DEF TypeOK
    <2> QED
      BY <2>1, <2>5 DEF Counted
  <1>5. ASSUME NEW c \in Commands, Start(c) PROVE TypeOK' /\ Counted'
    BY <1>5 DEF Start, Goto, request, transfer, latency, TypeOK, Running, Counted
  <1>6. ASSUME NEW c \in Commands, HelperListens(c) PROVE TypeOK' /\ Counted'
    BY <1>6 DEF HelperListens, request, transfer, latency, TypeOK, Counted
  <1>7. ASSUME NEW c \in Commands, HelperDies(c) PROVE TypeOK' /\ Counted'
    BY <1>7 DEF HelperDies, request, transfer, latency, TypeOK, Counted
  <1>8. ASSUME NEW c \in Commands, WaitTimesOut(c) PROVE TypeOK' /\ Counted'
    BY <1>8 DEF WaitTimesOut, Return, Goto, Cleanup, request, transfer, latency, TypeOK, Running, Counted
  <1>10. ASSUME NEW c \in Commands, Connected(c) PROVE TypeOK' /\ Counted'
    <2>1. CASE job[c].kind = "latency"
      <3>1. BeginPass(c, "warmup", BatchTags(c)) /\ Goto(c, "asking")
        BY <1>10, <2>1 DEF Connected
      <3> QED
        BY <1>10, <3>1, BeginPassCounted DEF Connected, Goto, request, transfer, TypeOK, Running, Passes
    <2>2. CASE job[c].kind # "latency"
      <3>1. UNCHANGED <<pass, worker, held>> /\ (Goto(c, "script") \/ Goto(c, "fetching"))
        BY <1>10, <2>2 DEF Connected
      <3> QED
        BY <1>10, <3>1 DEF Connected, Goto, request, transfer, TypeOK, Running, Counted
    <2> QED
      BY <2>1, <2>2
  <1>11. ASSUME NEW c \in Commands, Transfer(c) PROVE TypeOK' /\ Counted'
    <2>1. route' \in [Commands -> Tags \union {NoTag, Direct}]
      <3>1. CASE job[c].proxy
        <4>1. PICK d \in Commands : route' = [route EXCEPT ![c] = ClientOutbound(job[d])]
          BY <1>11, <3>1 DEF Transfer
        <4>2. ClientOutbound(job[d]) \in Tags \union {NoTag}
          BY JobTypes
        <4> QED
          BY <4>1, <4>2 DEF TypeOK
      <3>2. CASE ~job[c].proxy
        BY <1>11, <3>2 DEF Transfer, TypeOK
      <3> QED
        BY <3>1, <3>2
    <2> QED
      BY <1>11, <2>1 DEF Transfer, request, latency, TypeOK, Counted
  <1>12. ASSUME NEW c \in Commands, TransferEnds(c) PROVE TypeOK' /\ Counted'
    BY <1>12 DEF TransferEnds, Return, Goto, Cleanup, request, latency, TypeOK, Running, Counted
  <1>13. ASSUME NEW c \in Commands, TransferFails(c) PROVE TypeOK' /\ Counted'
    BY <1>13 DEF TransferFails, Return, Goto, Cleanup, request, transfer, latency, TypeOK, Running, Counted
  <1>14. ASSUME NEW c \in Commands, ScriptWrites(c) PROVE TypeOK' /\ Counted'
    <2>1. PICK much \in {"whole", "cut"} : got' = [got EXCEPT ![c] = much]
      BY <1>14 DEF ScriptWrites
    <2>2. got' \in [Commands -> {"nothing", "part", "whole", "cut"}]
      BY <2>1 DEF TypeOK
    <2> QED
      BY <1>14, <2>2 DEF ScriptWrites, request, latency, TypeOK, Counted
  <1>15. ASSUME NEW c \in Commands, NEW how, Finish(c, how)
         PROVE  /\ result' \in [Commands -> {"nothing", "part", "whole", "cut"}]
                /\ pc' \in [Commands -> Running \union {"done", "failed", "killed"}]
                /\ port' \in [Commands -> Ports \union {NoPort}]
                /\ helper' \in [Commands -> {"none", "starting", "listening"}]
    BY <1>15 DEF Finish, Return, Goto, Cleanup, TypeOK
  <1>16. ASSUME NEW c \in Commands, ScriptEnds(c) PROVE TypeOK' /\ Counted'
    <2>1. PICK how \in {"ok", "bad", "late"} :
            /\ status' = [status EXCEPT ![c] = how]
            /\ \/ Finish(c, how)
               \/ Goto(c, "draining") /\ UNCHANGED <<port, helper, result>>
      BY <1>16 DEF ScriptEnds
    <2>2. CASE Finish(c, how)
      BY <1>15, <1>16, <2>1, <2>2 DEF ScriptEnds, request, latency, TypeOK, Counted
    <2>3. CASE Goto(c, "draining") /\ UNCHANGED <<port, helper, result>>
      BY <1>16, <2>1, <2>3 DEF ScriptEnds, Goto, request, latency, TypeOK, Running, Counted
    <2> QED
      BY <2>1, <2>2, <2>3
  <1>17. ASSUME NEW c \in Commands, DeadlinePasses(c) PROVE TypeOK' /\ Counted'
    BY <1>17 DEF DeadlinePasses, request, latency, TypeOK, Counted
  <1>18. ASSUME NEW c \in Commands, ChildrenEnd(c) PROVE TypeOK' /\ Counted'
    BY <1>15, <1>18 DEF ChildrenEnd, request, latency, TypeOK, Counted
  <1>19. ASSUME NEW c \in Commands, NEW t \in Tags, Acquire(c, t) PROVE TypeOK' /\ Counted'
    BY <1>19, AcquireCounted DEF Acquire, request, transfer, TypeOK
  <1>20. ASSUME NEW c \in Commands, NEW t \in Tags, Answer(c, t) PROVE TypeOK' /\ Counted'
    <2>1. /\ worker' \in [Commands -> [Tags -> {"off", "queued", "asking"}]]
          /\ held' \in [Commands -> Nat] /\ Counted'
      BY <1>20, ReleaseCounted DEF Answer
    <2>2. passed' \in [Commands -> [Passes -> SUBSET Tags]]
      <3>1. passed' = [passed EXCEPT ![c] = [passed[c] EXCEPT ![pass[c]] = passed[c][pass[c]] \union {t}]]
        BY <1>20 DEF Answer, TypeOK
      <3>2. passed[c] \in [Passes -> SUBSET Tags] /\ pass[c] \in Passes
        BY DEF TypeOK
      <3>3. [passed[c] EXCEPT ![pass[c]] = passed[c][pass[c]] \union {t}] \in [Passes -> SUBSET Tags]
        BY <3>2
      <3> QED
        BY <3>1, <3>3 DEF TypeOK
    <2> QED
      BY <1>20, <2>1, <2>2 DEF Answer, request, transfer, TypeOK
  <1>21. ASSUME NEW c \in Commands, NEW t \in Tags, NoAnswer(c, t) PROVE TypeOK' /\ Counted'
    <2>1. /\ worker' \in [Commands -> [Tags -> {"off", "queued", "asking"}]]
          /\ held' \in [Commands -> Nat] /\ Counted'
      BY <1>21, ReleaseCounted DEF NoAnswer
    <2> QED
      BY <1>21, <2>1 DEF NoAnswer, request, transfer, TypeOK
  <1>22. ASSUME NEW c \in Commands, EndWarmup(c) PROVE TypeOK' /\ Counted'
    <2>1. BeginPass(c, "measured", passed[c]["warmup"] \intersect BatchTags(c)) /\ "measured" \in Passes
      BY <1>22 DEF EndWarmup, Passes
    <2>2. /\ pass' \in [Commands -> Passes]
          /\ worker' \in [Commands -> [Tags -> {"off", "queued", "asking"}]]
          /\ held' \in [Commands -> Nat] /\ Counted'
      BY <2>1, BeginPassCounted
    <2> QED
      BY <1>22, <2>2 DEF EndWarmup, request, transfer, TypeOK
  <1>23. ASSUME NEW c \in Commands, EndBatch(c) PROVE TypeOK' /\ Counted'
    <2> DEFINE j == job[c]
               n == first[c]
               last == BatchEnd(j, n)
               tag(i) == Items(j)[n + i - 1]
               more == [i \in 1 .. last - n + 1 |-> [tag |-> tag(i), ok |-> tag(i) \in passed[c]["measured"]]]
    <2>1. n \in Nat \ {0} /\ Items(j) \in Seq(Tags)
      BY JobTypes DEF TypeOK
    <2>2. last \in Int /\ last <= Len(Items(j))
      BY <2>1, HelpersAssumption DEF BatchEnd
    <2>3. \A i \in 1 .. last - n + 1 : tag(i) \in Tags
      BY <2>1, <2>2
    <2>4. /\ \/ report' = [report EXCEPT ![c] = report[c] \o more]
             \/ \E sorted \in Sorted(report[c] \o more) : report' = [report EXCEPT ![c] = sorted]
          /\ report[c] \in Seq([tag : Tags, ok : BOOLEAN])
      BY <1>23 DEF EndBatch, TypeOK
    <2> HIDE DEF last, tag
    <2>5. more \in Seq([tag : Tags, ok : BOOLEAN])
      <3>1. last - n + 1 \in Int
        BY <2>1, <2>2
      <3>2. \A i \in 1 .. last - n + 1 :
              [tag |-> tag(i), ok |-> tag(i) \in passed[c]["measured"]] \in [tag : Tags, ok : BOOLEAN]
        BY <2>3
      <3>3. more \in [1 .. last - n + 1 -> [tag : Tags, ok : BOOLEAN]]
        BY <3>2
      <3>4. \E m \in Nat : 1 .. last - n + 1 = 1 .. m
        <4>1. CASE last - n + 1 >= 0
          BY <3>1, <4>1
        <4>2. CASE last - n + 1 < 0
          <5>1. 1 .. last - n + 1 = 1 .. 0
            BY <3>1, <4>2
          <5> QED
            BY <5>1
        <4> QED
          BY <3>1, <4>1, <4>2
      <3> HIDE DEF more
      <3>5. PICK m \in Nat : 1 .. last - n + 1 = 1 .. m
        BY <3>4
      <3>6. more \in [1 .. m -> [tag : Tags, ok : BOOLEAN]]
        BY <3>3, <3>5, Zenon
      <3> QED
        BY <3>6, SeqDef
    <2> HIDE DEF more
    <2>6. report' \in [Commands -> Seq([tag : Tags, ok : BOOLEAN])]
      <3>1. report[c] \o more \in Seq([tag : Tags, ok : BOOLEAN])
        BY <2>4, <2>5
      <3>2. Sorted(report[c] \o more) \subseteq Seq([tag : Tags, ok : BOOLEAN])
        BY <3>1, SortedTypes
      <3> QED
        BY <2>4, <3>1, <3>2 DEF TypeOK
    <2>7. first' \in [Commands -> Nat \ {0}]
      <3>1. NextBatch(j, n) \in Nat \ {0}
        BY <2>1, HelpersAssumption DEF NextBatch
      <3> QED
        BY <1>23, <3>1 DEF EndBatch, TypeOK
    <2>8. /\ pc' \in [Commands -> Running \union {"done", "failed", "killed"}]
          /\ port' \in [Commands -> Ports \union {NoPort}]
          /\ helper' \in [Commands -> {"none", "starting", "listening"}]
      BY <1>23 DEF EndBatch, Return, Goto, Cleanup, TypeOK, Running
    <2>9. UNCHANGED <<request, transfer, pass, worker, held, passed>>
      BY <1>23 DEF EndBatch
    <2> QED
      BY <2>6, <2>7, <2>8, <2>9 DEF request, transfer, TypeOK, Counted
  <1>24. ASSUME NEW c \in Commands, Killed(c) PROVE TypeOK' /\ Counted'
    BY <1>24 DEF Killed, Goto, request, transfer, latency, TypeOK, Running, Counted
  <1> QED
    BY <1>1, <1>2, <1>3, <1>4, <1>5, <1>6, <1>7, <1>8, <1>10, <1>11, <1>12, <1>13, <1>14,
       <1>16, <1>17, <1>18, <1>19, <1>20, <1>21, <1>22, <1>23, <1>24 DEF Next, Work

-------------------------------------------------------------------------------
(* Helpers, ports and results *)

\* A helper runs for a command that has not returned, at its port, with an outbound.
HelperInv ==
  \A c \in Commands :
    /\ helper[c] # "none" =>
         /\ pc[c] \in {"waiting", "fetching", "script", "draining", "asking", "killed"}
         /\ port[c] # NoPort
         /\ job[c].kind # "latency" => ClientOutbound(job[c]) # NoTag
    /\ pc[c] \in {"drawn", "waiting"} => port[c] # NoPort

PortInv ==
  \A c, d \in Commands : c # d /\ port[c] = port[d] /\ port[c] # NoPort => shared[c] /\ shared[d]

ResultInv ==
  \A c \in Commands :
    /\ pc[c] \notin {"draining", "done", "failed", "killed"} => status[c] = "running"
    /\ pc[c] = "draining" /\ status[c] = "ok" => got[c] # "part"
    /\ pc[c] # "done" => result[c] = "nothing"

SafeInv == HelperInv /\ PortInv /\ OwnOutbound /\ ResultInv /\ WholeResults

\* The program goes on, returns or is killed.
Moves(c, where) ==
  /\ pc[c] \in Running /\ pc' = [pc EXCEPT ![c] = where]
  /\ UNCHANGED <<port, helper>> \/ Cleanup(c)
  /\ \/ where = "killed"
     \/ /\ pc[c] \in {"start", "drawn", "waiting", "fetching", "asking"}
        /\ \/ where \in {"done", "failed", "start"} /\ Cleanup(c)
           \/ pc[c] = "waiting" /\ where \in {"fetching", "script", "asking"}
           \/ pc[c] = "start" /\ helper[c] = "none" /\ where \in {"fetching", "script"}

\* Such a step leaves transfers and requests alone.
LEMMA QuietStep ==
  ASSUME TypeOK, SafeInv, NEW c \in Commands, UNCHANGED <<request, transfer>>,
         NEW where, Moves(c, where)
  PROVE  SafeInv'
  <1>1. /\ job' = job /\ shared' = shared /\ route' = route /\ got' = got
        /\ status' = status /\ result' = result
    BY DEF request, transfer
  <1>2. ASSUME NEW d \in Commands
        PROVE  /\ helper'[d] # "none" =>
                    /\ helper'[d] = helper[d] /\ port'[d] = port[d]
                    /\ pc'[d] \in {"waiting", "fetching", "script", "draining", "asking", "killed"}
               /\ pc'[d] \in {"drawn", "waiting"} => pc'[d] = pc[d] /\ port'[d] = port[d]
               /\ port'[d] \in {port[d], NoPort}
    BY <1>2 DEF TypeOK, SafeInv, HelperInv, Cleanup, Moves
  <1>3. HelperInv'
    BY <1>1, <1>2 DEF SafeInv, HelperInv
  <1>4. PortInv'
    BY <1>1, <1>2 DEF SafeInv, PortInv
  <1>5. OwnOutbound'
    BY <1>1 DEF SafeInv, OwnOutbound
  <1>6. ResultInv' /\ WholeResults'
    BY <1>1 DEF TypeOK, SafeInv, ResultInv, WholeResults, Running, Moves
  <1> QED
    BY <1>3, <1>4, <1>5, <1>6 DEF SafeInv

LEMMA ReturnStep ==
  ASSUME TypeOK, SafeInv, NEW c \in Commands, UNCHANGED <<request, transfer>>,
         NEW where \in {"done", "failed", "start"}, Return(c, where),
         pc[c] \in {"start", "drawn", "waiting", "fetching", "asking"}
  PROVE  SafeInv'
  <1>1. Moves(c, where)
    BY DEF Return, Goto, Running, Moves
  <1> QED
    BY <1>1, QuietStep

\* The script is over, or a transfer is.
LEMMA FinishStep ==
  ASSUME TypeOK, SafeInv, NEW c \in Commands, job' = job, shared' = shared, route' = route,
         got' = got, NEW how \in {"running", "ok", "bad", "late"}, Finish(c, how), how = "ok" => got[c] # "part",
         status' = [status EXCEPT ![c] = how], pc[c] \in {"script", "draining"}
  PROVE  SafeInv'
  <1>1. /\ pc' = [pc EXCEPT ![c] = IF how = "ok" /\ got[c] # "cut" THEN "done" ELSE "failed"]
        /\ helper' = [helper EXCEPT ![c] = "none"]
        /\ port' = [port EXCEPT ![c] = NoPort]
        /\ result' = [result EXCEPT ![c] = IF how = "ok" /\ got[c] # "cut" THEN got[c] ELSE "nothing"]
    BY DEF Finish, Return, Goto, Cleanup
  <1>2. got[c] \in {"nothing", "part", "whole", "cut"}
    BY DEF TypeOK
  <1>3. HelperInv'
    BY <1>1 DEF SafeInv, HelperInv, TypeOK
  <1>4. PortInv'
    BY <1>1 DEF SafeInv, PortInv, TypeOK
  <1>5. OwnOutbound'
    BY DEF SafeInv, OwnOutbound
  <1>6. ResultInv'
    BY <1>1 DEF SafeInv, ResultInv, TypeOK
  <1>7. WholeResults'
    BY <1>1, <1>2 DEF SafeInv, WholeResults, TypeOK
  <1> QED
    BY <1>3, <1>4, <1>5, <1>6, <1>7 DEF SafeInv

\* A port that another command has drawn as well is shared from then on.
LEMMA DrawStep ==
  ASSUME TypeOK, SafeInv, NEW c \in Commands, Draw(c)
  PROVE  SafeInv'
  <1>1. PICK p \in Ports :
          /\ port' = [port EXCEPT ![c] = p]
          /\ shared' = [d \in Commands |->
               \/ shared[d]
               \/ d # c /\ port[d] = p
               \/ d = c /\ \E e \in Commands \ {c} : port[e] = p]
    BY DEF Draw
  <1>2. /\ pc[c] = "start" /\ pc' = [pc EXCEPT ![c] = "drawn"]
        /\ job' = job /\ helper' = helper /\ UNCHANGED <<got, route, status, result>>
    BY DEF Draw, Goto, transfer
  <1>3. HelperInv'
    BY <1>1, <1>2, HelpersAssumption DEF SafeInv, HelperInv, TypeOK
  <1>4. PortInv'
    <2> SUFFICES ASSUME NEW d \in Commands, NEW e \in Commands, d # e,
                        port'[d] = port'[e], port'[d] # NoPort
                 PROVE  shared'[d] /\ shared'[e]
      BY DEF PortInv
    <2>1. CASE d = c
      BY <1>1, <2>1 DEF TypeOK
    <2>2. CASE e = c
      BY <1>1, <2>2 DEF TypeOK
    <2>3. CASE d # c /\ e # c
      BY <1>1, <2>3 DEF TypeOK, SafeInv, PortInv
    <2> QED
      BY <2>1, <2>2, <2>3
  <1>5. OwnOutbound'
    BY <1>1, <1>2 DEF SafeInv, OwnOutbound
  <1>6. ResultInv' /\ WholeResults'
    BY <1>2 DEF TypeOK, SafeInv, ResultInv, WholeResults
  <1> QED
    BY <1>3, <1>4, <1>5, <1>6 DEF SafeInv

\* Who listens at the port is the command's own helper, or the port is shared.
LEMMA TransferStep ==
  ASSUME TypeOK, SafeInv, NEW c \in Commands, Transfer(c)
  PROVE  SafeInv'
  <1>1. /\ UNCHANGED <<job, shared, pc, port, helper, status, result>>
        /\ pc[c] \in {"fetching", "script"} /\ got' = [got EXCEPT ![c] = "part"]
    BY DEF Transfer, request
  <1>2. ASSUME ~shared[c], route'[c] # NoTag
        PROVE  IF job[c].proxy
               THEN route'[c] = job[c].outbound
                    \/ (job[c].outbound = NoTag /\ route'[c] = job[c].enabled[1])
               ELSE route'[c] = Direct
    <2>1. CASE job[c].proxy
      <3>1. PICK d \in Commands : /\ ListensOn(d, port[c]) /\ job[d].kind # "latency"
                                  /\ route' = [route EXCEPT ![c] = ClientOutbound(job[d])]
        BY <2>1 DEF Transfer
      <3>2. helper[d] # "none" /\ port[d] = port[c]
        BY <3>1 DEF ListensOn
      <3>3. port[d] # NoPort /\ ClientOutbound(job[d]) # NoTag
        BY <3>1, <3>2 DEF SafeInv, HelperInv
      <3>4. d = c
        BY <1>2, <3>2, <3>3 DEF SafeInv, PortInv
      <3>5. route'[c] = ClientOutbound(job[c]) /\ ClientOutbound(job[c]) # NoTag
        BY <3>1, <3>3, <3>4 DEF TypeOK
      <3> QED
        BY <2>1, <3>5 DEF ClientOutbound
    <2>2. CASE ~job[c].proxy
      BY <2>2 DEF Transfer, TypeOK
    <2> QED
      BY <2>1, <2>2
  <1>3. \A d \in Commands \ {c} : route'[d] = route[d]
    <2>1. PICK r : route' = [route EXCEPT ![c] = r]
      BY DEF Transfer
    <2> QED
      BY <2>1 DEF TypeOK
  <1>4. OwnOutbound'
    BY <1>1, <1>2, <1>3 DEF SafeInv, OwnOutbound
  <1>5. HelperInv' /\ PortInv'
    BY <1>1 DEF SafeInv, HelperInv, PortInv
  <1>6. ResultInv' /\ WholeResults'
    BY <1>1 DEF TypeOK, SafeInv, ResultInv, WholeResults
  <1> QED
    BY <1>4, <1>5, <1>6 DEF SafeInv

LEMMA SafeStep == TypeOK /\ SafeInv /\ [Next]_vars => SafeInv'
  <1> SUFFICES ASSUME TypeOK, SafeInv, [Next]_vars PROVE SafeInv'
    OBVIOUS
  <1>1. CASE UNCHANGED vars
    BY <1>1 DEF vars, request, transfer, SafeInv, HelperInv, PortInv, OwnOutbound, ResultInv,
       WholeResults
  <1>2. ASSUME NEW c \in Commands, SetupFails(c) PROVE SafeInv'
    <2>1. /\ UNCHANGED <<request, transfer>> /\ Return(c, "failed")
          /\ pc[c] \in {"start", "drawn", "waiting", "fetching", "asking"}
      BY <1>2 DEF SetupFails
    <2> QED
      BY <2>1, ReturnStep
  <1>3. ASSUME NEW c \in Commands, BeginDirect(c) PROVE SafeInv'
    <2>1. helper[c] = "none"
      BY <1>3 DEF BeginDirect, SafeInv, HelperInv
    <2>2. PICK where \in {"fetching", "script"} : pc' = [pc EXCEPT ![c] = where]
      BY <1>3 DEF BeginDirect, Goto
    <2>3. Moves(c, where) /\ UNCHANGED <<request, transfer>>
      BY <1>3, <2>1, <2>2 DEF BeginDirect, Running, Moves
    <2> QED
      BY <2>3, QuietStep
  <1>4. ASSUME NEW c \in Commands, Draw(c) PROVE SafeInv'
    BY <1>4, DrawStep
  <1>5. ASSUME NEW c \in Commands, Start(c) PROVE SafeInv'
    BY <1>5 DEF Start, Goto, request, transfer, TypeOK, SafeInv, HelperInv, PortInv, OwnOutbound,
       ResultInv, WholeResults
  <1>6. ASSUME NEW c \in Commands, HelperListens(c) \/ HelperDies(c) PROVE SafeInv'
    <2>1. /\ UNCHANGED <<request, pc, port, transfer>>
          /\ helper[c] # "none" /\ \A d \in Commands : helper'[d] # "none" => helper[d] # "none"
      BY <1>6 DEF HelperListens, HelperDies, TypeOK
    <2> QED
      BY <2>1 DEF request, transfer, SafeInv, HelperInv, PortInv, OwnOutbound, ResultInv, WholeResults
  <1>7. ASSUME NEW c \in Commands, WaitTimesOut(c) PROVE SafeInv'
    <2>1. /\ UNCHANGED <<request, transfer>> /\ Return(c, "failed")
          /\ pc[c] \in {"start", "drawn", "waiting", "fetching", "asking"}
      BY <1>7 DEF WaitTimesOut
    <2> QED
      BY <2>1, ReturnStep
  <1>8. ASSUME NEW c \in Commands, Connected(c) PROVE SafeInv'
    <2>1. /\ UNCHANGED <<request, transfer, port, helper>> /\ pc[c] = "waiting" /\ pc[c] \in Running
      BY <1>8 DEF Connected, Running
    <2>2. PICK where \in {"fetching", "script", "asking"} : pc' = [pc EXCEPT ![c] = where]
      BY <1>8 DEF Connected, Goto
    <2>3. Moves(c, where)
      BY <2>1, <2>2 DEF Moves
    <2> QED
      BY <2>1, <2>3, QuietStep
  <1>9. ASSUME NEW c \in Commands, Transfer(c) PROVE SafeInv'
    BY <1>9, TransferStep
  <1>10. ASSUME NEW c \in Commands, TransferEnds(c) PROVE SafeInv'
    <2>1. /\ UNCHANGED <<job, shared, route, status>> /\ pc[c] = "fetching"
          /\ pc' = [pc EXCEPT ![c] = "done"]
          /\ helper' = [helper EXCEPT ![c] = "none"] /\ port' = [port EXCEPT ![c] = NoPort]
          /\ got' = [got EXCEPT ![c] = "whole"] /\ result' = [result EXCEPT ![c] = "whole"]
      BY <1>10 DEF TransferEnds, Return, Goto, Cleanup, request
    <2>2. HelperInv' /\ PortInv' /\ OwnOutbound'
      BY <2>1 DEF TypeOK, SafeInv, HelperInv, PortInv, OwnOutbound
    <2>3. status[c] = "running"
      BY <2>1 DEF SafeInv, ResultInv
    <2>4. ResultInv'
      BY <2>1 DEF TypeOK, SafeInv, ResultInv
    <2>5. WholeResults'
      BY <2>1, <2>3 DEF TypeOK, SafeInv, WholeResults
    <2> QED
      BY <2>2, <2>4, <2>5 DEF SafeInv
  <1>11. ASSUME NEW c \in Commands, TransferFails(c) PROVE SafeInv'
    <2>1. /\ UNCHANGED <<request, transfer>> /\ Return(c, "failed")
          /\ pc[c] \in {"start", "drawn", "waiting", "fetching", "asking"}
      BY <1>11 DEF TransferFails
    <2> QED
      BY <2>1, ReturnStep
  <1>12. ASSUME NEW c \in Commands, ScriptWrites(c) PROVE SafeInv'
    <2>1. PICK much \in {"whole", "cut"} : got' = [got EXCEPT ![c] = much]
      BY <1>12 DEF ScriptWrites
    <2>2. UNCHANGED <<job, shared, pc, port, helper, route, status, result>> /\ pc[c] = "script"
      BY <1>12 DEF ScriptWrites, request
    <2> QED
      BY <2>1, <2>2 DEF TypeOK, SafeInv, HelperInv, PortInv, OwnOutbound, ResultInv, WholeResults
  <1>13. ASSUME NEW c \in Commands, ScriptEnds(c) PROVE SafeInv'
    <2>1. PICK how \in {"ok", "bad", "late"} :
            /\ how = "ok" => got[c] # "part"
            /\ status' = [status EXCEPT ![c] = how]
            /\ \/ Finish(c, how)
               \/ Goto(c, "draining") /\ UNCHANGED <<port, helper, result>>
      BY <1>13 DEF ScriptEnds
    <2>2. UNCHANGED <<job, shared, got, route>> /\ pc[c] = "script"
      BY <1>13 DEF ScriptEnds, request
    <2>3. CASE Finish(c, how)
      BY <2>1, <2>2, <2>3, FinishStep
    <2>4. CASE Goto(c, "draining") /\ UNCHANGED <<port, helper, result>>
      BY <2>1, <2>2, <2>4 DEF Goto, TypeOK, SafeInv, HelperInv, PortInv, OwnOutbound, ResultInv, WholeResults
    <2> QED
      BY <2>1, <2>3, <2>4
  <1>14. ASSUME NEW c \in Commands, DeadlinePasses(c) PROVE SafeInv'
    BY <1>14 DEF DeadlinePasses, request, TypeOK, SafeInv, HelperInv, PortInv, OwnOutbound,
       ResultInv, WholeResults
  <1>15. ASSUME NEW c \in Commands, ChildrenEnd(c) PROVE SafeInv'
    <2>1. /\ UNCHANGED <<job, shared, got, route>> /\ pc[c] = "draining" /\ Finish(c, status[c])
          /\ status' = [status EXCEPT ![c] = status[c]]
          /\ status[c] \in {"running", "ok", "bad", "late"}
      BY <1>15 DEF ChildrenEnd, request, TypeOK
    <2>2. status[c] = "ok" => got[c] # "part"
      BY <2>1 DEF SafeInv, ResultInv
    <2> QED
      BY <2>1, <2>2, FinishStep
  <1>16. ASSUME NEW c \in Commands, NEW t \in Tags,
                Acquire(c, t) \/ Answer(c, t) \/ NoAnswer(c, t)
         PROVE  SafeInv'
    <2>1. UNCHANGED <<request, pc, port, helper, transfer>>
      BY <1>16 DEF Acquire, Answer, NoAnswer
    <2> QED
      BY <2>1 DEF request, transfer, SafeInv, HelperInv, PortInv, OwnOutbound, ResultInv, WholeResults
  <1>17. ASSUME NEW c \in Commands, EndWarmup(c) PROVE SafeInv'
    <2>1. UNCHANGED <<request, pc, port, helper, transfer>>
      BY <1>17 DEF EndWarmup
    <2> QED
      BY <2>1 DEF request, transfer, SafeInv, HelperInv, PortInv, OwnOutbound, ResultInv, WholeResults
  <1>18. ASSUME NEW c \in Commands, EndBatch(c) PROVE SafeInv'
    <2>1. /\ UNCHANGED <<request, transfer>> /\ pc[c] = "asking"
      BY <1>18 DEF EndBatch, PassOver
    <2>2. PICK where \in {"start", "done"} : Return(c, where)
      BY <1>18 DEF EndBatch
    <2> QED
      BY <2>1, <2>2, ReturnStep
  <1>19. ASSUME NEW c \in Commands, Killed(c) PROVE SafeInv'
    <2>1. UNCHANGED <<request, transfer>> /\ Moves(c, "killed")
      BY <1>19 DEF Killed, Goto, Moves
    <2> QED
      BY <2>1, QuietStep
  <1> QED
    BY <1>1, <1>2, <1>3, <1>4, <1>5, <1>6, <1>7, <1>8, <1>9, <1>10, <1>11, <1>12, <1>13,
       <1>14, <1>15, <1>16, <1>17, <1>18, <1>19 DEF Next, Work

LEMMA InitInv == Init => TypeOK /\ Counted /\ SafeInv
  <1> SUFFICES ASSUME Init PROVE TypeOK /\ Counted /\ SafeInv
    OBVIOUS
  <1>1. TypeOK
    <2>1. job \in [Commands -> Jobs]
      BY HelpersAssumption DEF Init
    <2>2. [t \in Tags |-> "off"] \in [Tags -> {"off", "queued", "asking"}]
      OBVIOUS
    <2>3. [p \in Passes |-> {}] \in [Passes -> SUBSET Tags]
      OBVIOUS
    <2> QED
      BY <2>1, <2>2, <2>3 DEF Init, TypeOK, Running, Passes
  <1>2. Counted
    <2> DEFINE w == [t \in Tags |-> "off"]
    <2>1. AskingIn(w) = {}
      BY DEF AskingIn
    <2>2. \A c \in Commands : worker[c] = w /\ held[c] = 0
      BY DEF Init
    <2> HIDE DEF w
    <2>3. Cardinality(AskingIn(w)) = 0
      BY <2>1, FS_EmptySet
    <2> QED
      BY <2>2, <2>3, HelpersAssumption DEF Counted
  <1>3. SafeInv
    BY DEF Init, SafeInv, HelperInv, PortInv, OwnOutbound, ResultInv, WholeResults
  <1> QED
    BY <1>1, <1>2, <1>3

LEMMA Invariance == Spec => [](TypeOK /\ Counted /\ SafeInv)
  BY InitInv, TypeStep, SafeStep, PTL DEF Spec

-------------------------------------------------------------------------------
(* What follows from it *)

\* The variables of every command keep their types; the semaphore never gives back
\* a place that nobody has taken (main.go 918-928).
THEOREM TypeCorrect == Spec => []TypeOK
  BY Invariance, PTL

\* No helper outlives a command that returned (main.go 871-874, 1046-1049).
THEOREM HelpersDoEnd == Spec => []HelpersEnd
  <1>1. SafeInv => HelpersEnd
    BY DEF SafeInv, HelperInv, HelpersEnd, Ended
  <1> QED
    BY <1>1, Invariance, PTL

\* A transfer takes the outbound it was told to, unless its port was given out twice
\* (generator.go 295-313, main.go 1015-1055).
THEOREM OutboundIsOwn == Spec => []OwnOutbound
  <1>1. SafeInv => OwnOutbound
    BY DEF SafeInv
  <1> QED
    BY <1>1, Invariance, PTL

\* Nothing that was cut is delivered (main.go 1083-1102, 1206-1217, 1227-1264).
THEOREM ResultsAreWhole == Spec => []WholeResults
  <1>1. SafeInv => WholeResults
    BY DEF SafeInv
  <1> QED
    BY <1>1, Invariance, PTL

\* A latency test asks no more than Slots outbounds at a time (main.go 918-928).
THEOREM QueriesAreBounded == Spec => []QueriesBounded
  <1>1. Counted => QueriesBounded
    <2> SUFFICES ASSUME Counted, NEW c \in Commands
                 PROVE  Cardinality({t \in Tags : worker[c][t] = "asking"}) <= Slots
      BY DEF QueriesBounded
    <2>1. AskingIn(worker[c]) = {t \in Tags : worker[c][t] = "asking"}
      BY DEF AskingIn
    <2> QED
      BY <2>1 DEF Counted
  <1> QED
    BY <1>1, Invariance, PTL
-------------------------------------------------------------------------------
(* The report of a latency test *)

\* A query of the measured pass is for an outbound that answered the warm-up.
AnsweredTwice ==
  \A c \in Commands :
    /\ passed[c]["measured"] \subseteq passed[c]["warmup"]
    /\ pass[c] = "measured" => \A t \in Tags : worker[c][t] # "off" => t \in passed[c]["warmup"]

Testing == {"start", "drawn", "waiting", "asking"}

\* Every outbound before the batch is in the report, at its place until it is sorted.
Reported(c) ==
  /\ pc[c] \in Testing \union {"done", "failed", "killed"}
  /\ pc[c] \in Testing =>
       /\ first[c] <= Len(Items(job[c])) \/ (pc[c] = "start" /\ Items(job[c]) = <<>>)
       /\ Len(report[c]) = first[c] - 1
       /\ \A i \in 1 .. Len(report[c]) : report[c][i].tag = Items(job[c])[i]
  /\ \A i \in 1 .. Len(report[c]) : report[c][i].ok => report[c][i].tag \in passed[c]["measured"]
  /\ pc[c] = "done" =>
       /\ Len(report[c]) = Len(Items(job[c]))
       /\ \A n \in 1 .. Len(Items(job[c])) :
            \E i \in 1 .. Len(report[c]) : report[c][i].tag = Items(job[c])[n]

ReportInv == AnsweredTwice /\ \A c \in Commands : job[c].kind = "latency" => Reported(c)

LEMMA BatchEnds ==
  ASSUME TypeOK, NEW c \in Commands, first[c] <= Len(Items(job[c]))
  PROVE  LET n == first[c]
             last == BatchEnd(job[c], n)
             next == NextBatch(job[c], n)
         IN  /\ last \in Nat /\ n <= last /\ last <= Len(Items(job[c])) /\ next \in Nat
             /\ last = IF next <= Len(Items(job[c])) THEN next - 1 ELSE Len(Items(job[c]))
  <1> DEFINE n == first[c]
             k == Len(Items(job[c]))
  <1>1. n \in Nat \ {0} /\ k \in Nat /\ n <= k
    BY JobTypes DEF TypeOK
  <1>2. /\ BatchEnd(job[c], n) = IF n + Batch - 1 < k THEN n + Batch - 1 ELSE k
        /\ NextBatch(job[c], n) = n + Batch
    BY DEF BatchEnd, NextBatch
  <1> HIDE DEF n, k
  <1>3. LET last == BatchEnd(job[c], n)
            next == NextBatch(job[c], n)
        IN  /\ last \in Nat /\ n <= last /\ last <= k /\ next \in Nat
            /\ last = IF next <= k THEN next - 1 ELSE k
    BY <1>1, <1>2, HelpersAssumption
  <1> QED
    BY <1>3 DEF n, k

\* A step that only moves one command on, or stops it.
LEMMA OnwardStep ==
  ASSUME TypeOK, ReportInv, NEW c \in Commands, NEW where,
         UNCHANGED <<job, first, report, passed>>, pc' = [pc EXCEPT ![c] = where], AnsweredTwice',
         job[c].kind = "latency" =>
           \/ where \in {"failed", "killed"}
           \/ /\ where \in Testing /\ pc[c] \in Testing
              /\ first[c] <= Len(Items(job[c]))
  PROVE  ReportInv'
  <1> SUFFICES ASSUME NEW d \in Commands, job[d].kind = "latency" PROVE Reported(d)'
    BY DEF ReportInv
  <1>1. Reported(d)
    BY DEF ReportInv
  <1>2. CASE d # c
    BY <1>1, <1>2 DEF TypeOK, Reported, Testing
  <1>3. CASE d = c
    BY <1>1, <1>3 DEF TypeOK, Reported, Testing
  <1> QED
    BY <1>2, <1>3

\* Sorting loses no result and adds none.
LEMMA SortedKeeps ==
  ASSUME NEW S, NEW results \in Seq(S), NEW sorted \in Sorted(results)
  PROVE  /\ Len(sorted) = Len(results)
         /\ \A i \in 1 .. Len(results) : \E k \in 1 .. Len(results) : sorted[i] = results[k]
         /\ \A k \in 1 .. Len(results) : \E i \in 1 .. Len(results) : sorted[i] = results[k]
  <1> DEFINE places == 1 .. Len(results)
  <1>1. PICK q \in [places -> places] :
          /\ \A i \in places : \E j \in places : q[j] = i
          /\ sorted = [i \in places |-> results[q[i]]]
    BY DEF Sorted
  <1>2. \A i \in places : sorted[i] = results[q[i]] /\ q[i] \in places
    BY <1>1
  <1>3. Len(sorted) = Len(results)
    <2>1. sorted \in Seq(S) /\ DOMAIN sorted = places
      BY <1>1, SortedTypes
    <2> QED
      BY <2>1
  <1> HIDE DEF places
  <1>4. \A k \in places : \E i \in places : sorted[i] = results[k]
    BY <1>1, <1>2
  <1>5. \A i \in places : \E k \in places : sorted[i] = results[k]
    BY <1>2
  <1> QED
    BY <1>3, <1>4, <1>5 DEF places

\* The answers of one batch follow those of the batches before it.
LEMMA EndBatchStep ==
  ASSUME TypeOK, ReportInv, NEW c \in Commands, EndBatch(c)
  PROVE  ReportInv'
  <1> DEFINE j == job[c]
             n == first[c]
             last == BatchEnd(j, n)
             next == NextBatch(j, n)
             tag(i) == Items(j)[n + i - 1]
             more == [i \in 1 .. last - n + 1 |->
                        [tag |-> tag(i), ok |-> tag(i) \in passed[c]["measured"]]]
             results == report[c] \o more
             Result == [tag : Tags, ok : BOOLEAN]
  <1>1. /\ UNCHANGED <<job, passed, pass, worker>> /\ pc[c] = "asking"
        /\ first' = [first EXCEPT ![c] = next]
        /\ \/ /\ next <= Len(Items(j)) /\ pc' = [pc EXCEPT ![c] = "start"]
              /\ report' = [report EXCEPT ![c] = results]
           \/ /\ next > Len(Items(j)) /\ pc' = [pc EXCEPT ![c] = "done"]
              /\ \E sorted \in Sorted(results) : report' = [report EXCEPT ![c] = sorted]
    BY DEF EndBatch, PassOver, Return, Goto, request
  <1> HIDE DEF next, results
  <1>2. AnsweredTwice'
    BY <1>1 DEF ReportInv, AnsweredTwice
  <1>3. SUFFICES ASSUME NEW d \in Commands, job[d].kind = "latency" PROVE Reported(d)'
    BY <1>1, <1>2 DEF ReportInv
  <1>4. Reported(d)
    BY <1>3 DEF ReportInv
  <1>5. CASE d # c
    <2>1. PICK where, some : /\ pc' = [pc EXCEPT ![c] = where]
                             /\ report' = [report EXCEPT ![c] = some]
      BY <1>1
    <2>2. pc'[d] = pc[d] /\ first'[d] = first[d] /\ report'[d] = report[d]
      BY <1>1, <1>5, <2>1 DEF TypeOK
    <2> QED
      BY <1>1, <1>4, <2>2 DEF Reported
  <1>6. CASE d = c
    <2> HIDE DEF more
    <2>1. /\ n \in Nat \ {0} /\ Items(j) \in Seq(Tags) /\ Len(Items(j)) \in Nat
          /\ report[c] \in Seq(Result)
      <3>1. Items(j) \in Seq(Tags)
        BY JobTypes
      <3>2. n \in Nat \ {0} /\ report[c] \in Seq(Result)
        BY DEF TypeOK
      <3> HIDE DEF j, n, Result
      <3> QED
        BY <3>1, <3>2
    <2>2. /\ n <= Len(Items(j)) /\ Len(report[c]) = n - 1
          /\ \A i \in 1 .. Len(report[c]) : report[c][i].tag = Items(j)[i]
          /\ \A i \in 1 .. Len(report[c]) : report[c][i].ok => report[c][i].tag \in passed[c]["measured"]
      BY <1>1, <1>4, <1>6 DEF Reported, Testing
    <2> USE DEF next
    <2>3. /\ last \in Nat /\ n <= last /\ last <= Len(Items(j)) /\ next \in Nat
          /\ last = IF next <= Len(Items(j)) THEN next - 1 ELSE Len(Items(j))
      BY <2>2, BatchEnds
    <2> HIDE DEF j, n, last, next, tag
    <2>4. /\ more \in Seq(Result) /\ Len(more) = last - n + 1
          /\ \A i \in 1 .. Len(more) :
               more[i].tag = tag(i) /\ (more[i].ok <=> tag(i) \in passed[c]["measured"])
      <3>1. \A i \in 1 .. last - n + 1 :
              tag(i) \in Tags
              /\ [tag |-> tag(i), ok |-> tag(i) \in passed[c]["measured"]] \in Result
        BY <2>1, <2>3 DEF tag
      <3>2. more \in [1 .. last - n + 1 -> Result]
        BY <3>1 DEF more
      <3>3. last - n + 1 \in Nat
        BY <2>1, <2>3
      <3>4. \A i \in 1 .. last - n + 1 :
              more[i].tag = tag(i) /\ (more[i].ok <=> tag(i) \in passed[c]["measured"])
        BY DEF more
      <3> HIDE DEF Result
      <3>5. more \in Seq(Result) /\ Len(more) = last - n + 1
        BY <3>2, <3>3
      <3> QED
        BY <3>4, <3>5
    <2> HIDE DEF Result
    <2>5. /\ results \in Seq(Result) /\ Len(results) = last
          /\ \A i \in 1 .. last :
               results[i] = IF i <= n - 1 THEN report[c][i] ELSE more[i - (n - 1)]
      <3>1. /\ results \in Seq(Result) /\ Len(results) = Len(report[c]) + Len(more)
            /\ \A i \in 1 .. Len(report[c]) + Len(more) :
                 results[i] = IF i <= Len(report[c]) THEN report[c][i] ELSE more[i - Len(report[c])]
        <4>1. report[c] \in Seq(Result) /\ more \in Seq(Result)
          BY <2>1, <2>4
        <4> QED
          BY ONLY <4>1, ConcatProperties DEF results
      <3>2. Len(report[c]) = n - 1 /\ Len(report[c]) + Len(more) = last
        <4>1. Len(report[c]) = n - 1 /\ Len(more) = last - n + 1
          BY ONLY <2>2, <2>4
        <4>2. n \in Nat \ {0} /\ last \in Nat
          BY ONLY <2>1, <2>3
        <4> QED
          BY ONLY <4>1, <4>2
      <3> QED
        BY <3>1, <3>2
    <2>6. \A i \in 1 .. last :
            /\ results[i].tag = Items(j)[i]
            /\ results[i].ok => results[i].tag \in passed[c]["measured"]
      <3> SUFFICES ASSUME NEW i \in 1 .. last
                   PROVE  /\ results[i].tag = Items(j)[i]
                          /\ results[i].ok => results[i].tag \in passed[c]["measured"]
        OBVIOUS
      <3>1. CASE i < n
        <4>1. results[i] = report[c][i] /\ i \in 1 .. Len(report[c])
          BY <2>1, <2>2, <2>3, <2>5, <3>1
        <4> QED
          BY <2>2, <4>1
      <3>2. CASE i >= n
        <4>1. results[i] = more[i - n + 1] /\ i - n + 1 \in 1 .. Len(more)
          <5>1. ~(i <= n - 1) /\ i - (n - 1) = i - n + 1
            BY <2>1, <2>3, <3>2
          <5> QED
            BY <2>1, <2>3, <2>4, <2>5, <5>1
        <4>2. tag(i - n + 1) = Items(j)[i]
          <5>1. n + (i - n + 1) - 1 = i
            BY <2>1, <2>3
          <5> QED
            BY <5>1 DEF tag
        <4> QED
          BY <2>4, <4>1, <4>2
      <3> QED
        BY <2>1, <2>3, <3>1, <3>2
    <2>7. CASE next <= Len(Items(j))
      <3>1. report'[c] = results /\ pc'[c] = "start" /\ first'[c] = next
        BY <1>1, <2>1, <2>3, <2>7 DEF TypeOK
      <3>2. Len(results) = next - 1
        BY <2>3, <2>5, <2>7
      <3> QED
        BY <1>1, <1>6, <2>5, <2>6, <2>7, <3>1, <3>2 DEF Reported, Testing, j
    <2>8. CASE next > Len(Items(j))
      <3>1. PICK sorted \in Sorted(results) : report'[c] = sorted
        BY <1>1, <2>1, <2>3, <2>8 DEF TypeOK
      <3>2. pc'[c] = "done"
        BY <1>1, <2>1, <2>3, <2>8 DEF TypeOK
      <3>3. last = Len(Items(j))
        BY <2>1, <2>3, <2>8
      <3>4. /\ Len(sorted) = last
            /\ \A i \in 1 .. last : \E k \in 1 .. last : sorted[i] = results[k]
            /\ \A k \in 1 .. last : \E i \in 1 .. last : sorted[i] = results[k]
        BY <2>5, SortedKeeps
      <3>5. \A i \in 1 .. last : sorted[i].ok => sorted[i].tag \in passed[c]["measured"]
        BY <2>6, <3>4
      <3>6. \A k \in 1 .. last : \E i \in 1 .. last : sorted[i].tag = Items(j)[k]
        <4> SUFFICES ASSUME NEW k \in 1 .. last
                     PROVE  \E i \in 1 .. last : sorted[i].tag = Items(j)[k]
          OBVIOUS
        <4>1. PICK i \in 1 .. last : sorted[i] = results[k]
          BY <3>4
        <4>2. results[k].tag = Items(j)[k]
          BY <2>6
        <4> QED
          BY <4>1, <4>2
      <3> QED
        BY <1>1, <1>6, <3>1, <3>2, <3>3, <3>4, <3>5, <3>6 DEF Reported, Testing, j
    <2> QED
      BY <2>1, <2>3, <2>7, <2>8
  <1> QED
    BY <1>5, <1>6

LEMMA ReportStep == TypeOK /\ ReportInv /\ [Next]_vars => ReportInv'
  <1> SUFFICES ASSUME TypeOK, ReportInv, [Next]_vars PROVE ReportInv'
    OBVIOUS
  <1> USE DEF request, transfer, latency
  <1>1. CASE UNCHANGED vars
    BY <1>1 DEF vars, ReportInv, AnsweredTwice, Reported
  <1>2. ASSUME NEW c \in Commands, SetupFails(c) \/ WaitTimesOut(c) \/ TransferFails(c) \/ Killed(c)
        PROVE  ReportInv'
    <2>1. PICK where \in {"failed", "killed"} : pc' = [pc EXCEPT ![c] = where]
      BY <1>2 DEF SetupFails, WaitTimesOut, TransferFails, Killed, Return, Goto
    <2>2. UNCHANGED <<job, latency>>
      BY <1>2 DEF SetupFails, WaitTimesOut, TransferFails, Killed
    <2>3. AnsweredTwice'
      BY <2>2 DEF ReportInv, AnsweredTwice
    <2> QED
      BY <2>1, <2>2, <2>3, OnwardStep
  <1>3. ASSUME NEW c \in Commands, job[c].kind # "latency", NEW where,
               pc' = [pc EXCEPT ![c] = where], UNCHANGED <<job, latency>>
        PROVE  ReportInv'
    <2>1. AnsweredTwice'
      BY <1>3 DEF ReportInv, AnsweredTwice
    <2> QED
      BY <1>3, <2>1, OnwardStep
  <1>4. ASSUME NEW c \in Commands, UNCHANGED <<job, pc, latency>> PROVE ReportInv'
    BY <1>4 DEF ReportInv, AnsweredTwice, Reported
  <1>5. ASSUME NEW c \in Commands, pc[c] \in {"fetching", "script", "draining"}
        PROVE  job[c].kind # "latency"
    BY <1>5 DEF ReportInv, Reported, Testing
  <1>6. ASSUME NEW c \in Commands, BeginDirect(c) PROVE ReportInv'
    BY <1>3, <1>6 DEF BeginDirect, NeedsHelper, Goto
  <1>7. ASSUME NEW c \in Commands, Draw(c) \/ Start(c) PROVE ReportInv'
    <2>1. PICK where \in {"drawn", "waiting"} : pc' = [pc EXCEPT ![c] = where]
      BY <1>7 DEF Draw, Start, Goto
    <2>2. UNCHANGED <<job, latency>>
      BY <1>7 DEF Draw, Start
    <2>3. AnsweredTwice'
      BY <2>2 DEF ReportInv, AnsweredTwice
    <2>4. pc[c] \in {"start", "drawn"}
          /\ (pc[c] = "start" /\ job[c].kind = "latency" => Items(job[c]) # <<>>)
      BY <1>7 DEF Draw, Start
    <2>5. job[c].kind = "latency" => first[c] <= Len(Items(job[c]))
      BY <2>4 DEF ReportInv, Reported, Testing
    <2> QED
      BY <2>1, <2>2, <2>3, <2>4, <2>5, OnwardStep DEF Testing
  <1>8. ASSUME NEW c \in Commands, HelperListens(c) \/ HelperDies(c) \/ Transfer(c)
                                   \/ ScriptWrites(c) \/ DeadlinePasses(c)
        PROVE  ReportInv'
    BY <1>4, <1>8 DEF HelperListens, HelperDies, Transfer, ScriptWrites, DeadlinePasses
  <1>9. ASSUME NEW c \in Commands, Connected(c) PROVE ReportInv'
    <2>1. /\ UNCHANGED <<job, first, report, passed>> /\ pc[c] = "waiting"
      BY <1>9 DEF Connected
    <2>2. CASE job[c].kind = "latency"
      <3>1. pc' = [pc EXCEPT ![c] = "asking"] /\ pass' = [pass EXCEPT ![c] = "warmup"]
            /\ \E w : worker' = [worker EXCEPT ![c] = w]
        BY <1>9, <2>2 DEF Connected, Goto, BeginPass
      <3>2. AnsweredTwice'
        BY <2>1, <3>1 DEF ReportInv, AnsweredTwice, TypeOK
      <3>3. first[c] <= Len(Items(job[c]))
        BY <2>1, <2>2 DEF ReportInv, Reported, Testing
      <3> QED
        BY <2>1, <3>1, <3>2, <3>3, OnwardStep DEF Testing
    <2>3. CASE job[c].kind # "latency"
      <3>1. \E where : pc' = [pc EXCEPT ![c] = where]
        BY <1>9, <2>3 DEF Connected, Goto
      <3>2. UNCHANGED <<pass, worker, held>>
        BY <1>9, <2>3 DEF Connected
      <3> QED
        BY <1>3, <2>1, <2>3, <3>1, <3>2
    <2> QED
      BY <2>2, <2>3
  <1>10. ASSUME NEW c \in Commands, TransferEnds(c) \/ ScriptEnds(c) \/ ChildrenEnd(c)
         PROVE  ReportInv'
    <2>1. pc[c] \in {"fetching", "script", "draining"} /\ UNCHANGED <<job, latency>>
      BY <1>10 DEF TransferEnds, ScriptEnds, ChildrenEnd
    <2>2. \E where : pc' = [pc EXCEPT ![c] = where]
      BY <1>10 DEF TransferEnds, ScriptEnds, ChildrenEnd, Finish, Return, Goto
    <2> QED
      BY <1>3, <1>5, <2>1, <2>2
  <1>11. ASSUME NEW c \in Commands, NEW t \in Tags, Acquire(c, t) \/ NoAnswer(c, t)
         PROVE  ReportInv'
    <2>1. /\ UNCHANGED <<job, pc, first, pass, passed, report>> /\ worker[c][t] # "off"
          /\ \E w \in {"asking", "off"} : worker' = [worker EXCEPT ![c] = [worker[c] EXCEPT ![t] = w]]
      BY <1>11 DEF Acquire, NoAnswer, Release, TypeOK
    <2>2. \A d \in Commands : \A u \in Tags : worker'[d][u] # "off" => worker[d][u] # "off"
      BY <2>1 DEF TypeOK
    <2> QED
      BY <2>1, <2>2 DEF ReportInv, AnsweredTwice, Reported
  <1>12. ASSUME NEW c \in Commands, NEW t \in Tags, Answer(c, t) PROVE ReportInv'
    <2>1. /\ UNCHANGED <<job, pc, first, pass, report>> /\ worker[c][t] # "off"
          /\ worker' = [worker EXCEPT ![c] = [worker[c] EXCEPT ![t] = "off"]]
          /\ passed' = [passed EXCEPT ![c] = [passed[c] EXCEPT ![pass[c]] = passed[c][pass[c]] \union {t}]]
      BY <1>12 DEF Answer, Release, TypeOK
    <2>2. \A d \in Commands : \A u \in Tags : worker'[d][u] # "off" => worker[d][u] # "off"
      BY <2>1 DEF TypeOK
    <2>3. \A d \in Commands \ {c} : passed'[d] = passed[d]
      BY <2>1 DEF TypeOK
    <2>4. /\ pass[c] \in Passes
          /\ passed'[c][pass[c]] = passed[c][pass[c]] \union {t}
          /\ \A p \in Passes \ {pass[c]} : passed'[c][p] = passed[c][p]
      BY <2>1 DEF TypeOK
    <2>5. /\ passed'[c]["measured"] \subseteq passed'[c]["warmup"]
          /\ \A p \in Passes : passed[c][p] \subseteq passed'[c][p]
      BY <2>1, <2>4 DEF ReportInv, AnsweredTwice, Passes
    <2>6. AnsweredTwice'
      BY <2>1, <2>2, <2>3, <2>5 DEF ReportInv, AnsweredTwice, Passes
    <2>7. \A d \in Commands : passed[d]["measured"] \subseteq passed'[d]["measured"]
      BY <2>3, <2>5 DEF Passes
    <2> QED
      BY <2>1, <2>6, <2>7 DEF ReportInv, Reported
  <1>13. ASSUME NEW c \in Commands, EndWarmup(c) PROVE ReportInv'
    <2> DEFINE S == passed[c]["warmup"] \intersect BatchTags(c)
    <2>1. /\ UNCHANGED <<job, pc, first, passed, report>>
          /\ pass' = [pass EXCEPT ![c] = "measured"]
          /\ worker' = [worker EXCEPT ![c] = [t \in Tags |-> IF t \in S THEN "queued" ELSE "off"]]
      BY <1>13 DEF EndWarmup, BeginPass
    <2>2. \A d \in Commands \ {c} : pass'[d] = pass[d] /\ worker'[d] = worker[d]
      BY <2>1 DEF TypeOK
    <2>3. \A t \in Tags : worker'[c][t] # "off" => t \in passed[c]["warmup"]
      BY <2>1 DEF TypeOK
    <2>4. AnsweredTwice'
      BY <2>1, <2>2, <2>3 DEF ReportInv, AnsweredTwice
    <2>5. ASSUME NEW d \in Commands, job'[d].kind = "latency" PROVE Reported(d)'
      BY <2>1, <2>5 DEF ReportInv, Reported
    <2> QED
      BY <2>4, <2>5 DEF ReportInv
  <1>14. ASSUME NEW c \in Commands, EndBatch(c) PROVE ReportInv'
    BY <1>14, EndBatchStep
  <1> QED
    BY <1>1, <1>2, <1>6, <1>7, <1>8, <1>9, <1>10, <1>11, <1>12, <1>13, <1>14 DEF Next, Work

LEMMA ReportInit == Init => ReportInv
  <1> SUFFICES ASSUME Init PROVE ReportInv
    OBVIOUS
  <1>1. AnsweredTwice
    BY DEF Init, AnsweredTwice, Passes
  <1>2. ASSUME NEW c \in Commands PROVE Reported(c)
    <2>1. TypeOK
      BY InitInv
    <2>2. Items(job[c]) \in Seq(Tags)
      BY <2>1, JobTypes
    <2> QED
      BY <2>2 DEF Init, Reported, Testing
  <1> QED
    BY <1>1, <1>2 DEF ReportInv

\* A latency test that ends reports every outbound it was asked about, once, and calls
\* working only those that answered in both passes (main.go 807-829, 879-913).
THEOREM ReportIsWhole == Spec => []ReportWhole
  <1>1. ReportInv => ReportWhole
    <2> SUFFICES ASSUME ReportInv, NEW c \in Commands, pc[c] = "done", job[c].kind = "latency"
                 PROVE  /\ Len(report[c]) = Len(Items(job[c]))
                        /\ \A n \in 1 .. Len(Items(job[c])) :
                             \E i \in 1 .. Len(report[c]) : report[c][i].tag = Items(job[c])[n]
                        /\ \A i \in 1 .. Len(report[c]) :
                             report[c][i].ok => \A p \in Passes : report[c][i].tag \in passed[c][p]
      BY DEF ReportWhole
    <2> QED
      BY DEF ReportInv, AnsweredTwice, Reported, Passes
  <1>2. TypeOK /\ ReportInv /\ [Next]_vars => ReportInv'
    BY ReportStep
  <1> QED
    BY <1>1, <1>2, ReportInit, Invariance, PTL DEF Spec

-------------------------------------------------------------------------------
(* A command comes to its end *)

Open(w)   == {t \in Tags : w[t] # "off"}
Queued(w) == {t \in Tags : w[t] = "queued"}

\* What the goroutines of a pass have left to do: each gets a place, then answers.
QueriesLeft(w) == Cardinality(Open(w)) + Cardinality(Queued(w))

MostQueries == 2 * Cardinality(Tags)

BatchesLeft(c) ==
  IF first[c] <= Len(Items(job[c])) THEN Len(Items(job[c])) + 1 - first[c] ELSE 0

\* What the main goroutine has left to do within a batch, or in all.
StageLeft(c) ==
  CASE pc[c] = "start"    -> 2 * MostQueries + 7
    [] pc[c] = "drawn"    -> 2 * MostQueries + 6
    [] pc[c] = "waiting"  -> 2 * MostQueries + 5
    [] pc[c] = "asking"   -> QueriesLeft(worker[c])
                               + (IF pass[c] = "warmup" THEN MostQueries + 2 ELSE 1)
    [] pc[c] \in {"fetching", "script"} ->
         CASE got[c] = "nothing" -> 4 [] got[c] = "part" -> 3 [] OTHER -> 2
    [] pc[c] = "draining" -> 1
    [] OTHER -> 0

LeftLess(c) ==
  \/ BatchesLeft(c)' < BatchesLeft(c)
  \/ BatchesLeft(c)' = BatchesLeft(c) /\ StageLeft(c)' < StageLeft(c)

\* What a command does leaves it less to do, batches first; no other command, helper
\* or child gives it more.
CommandsDescend ==
  \A c \in Commands :
    /\ {BatchesLeft(c), StageLeft(c)} \subseteq Nat
    /\ Work(c) => LeftLess(c)
    /\ \/ LeftLess(c)
       \/ BatchesLeft(c)' = BatchesLeft(c) /\ StageLeft(c)' = StageLeft(c)

LEMMA QueriesBounds ==
  ASSUME NEW w
  PROVE  /\ QueriesLeft(w) \in 0 .. MostQueries /\ MostQueries \in Nat
         /\ IsFiniteSet(Open(w)) /\ IsFiniteSet(Queued(w))
         /\ Cardinality(Open(w)) \in Nat /\ Cardinality(Queued(w)) \in Nat
         /\ (\A t \in Tags : w[t] = "off") => QueriesLeft(w) = 0
  <1>1. Open(w) \subseteq Tags /\ Queued(w) \subseteq Tags
    BY DEF Open, Queued
  <1>2. /\ IsFiniteSet(Open(w)) /\ IsFiniteSet(Queued(w)) /\ Cardinality(Tags) \in Nat
        /\ Cardinality(Open(w)) \in Nat /\ Cardinality(Queued(w)) \in Nat
        /\ Cardinality(Open(w)) <= Cardinality(Tags)
        /\ Cardinality(Queued(w)) <= Cardinality(Tags)
    BY <1>1, FS_Subset, FS_CardinalityType, HelpersAssumption
  <1>3. ASSUME \A t \in Tags : w[t] = "off" PROVE QueriesLeft(w) = 0
    <2>1. Open(w) = {} /\ Queued(w) = {}
      BY <1>3 DEF Open, Queued
    <2> QED
      BY <2>1, FS_EmptySet DEF QueriesLeft
  <1> QED
    BY <1>2, <1>3 DEF QueriesLeft, MostQueries

\* A goroutine that gets its place, or is done, leaves less.
LEMMA QueryLess ==
  ASSUME NEW w \in [Tags -> {"off", "queued", "asking"}], NEW t \in Tags,
         NEW v, \/ w[t] = "queued" /\ v = [w EXCEPT ![t] = "asking"]
                \/ w[t] = "asking" /\ v = [w EXCEPT ![t] = "off"]
  PROVE  QueriesLeft(v) < QueriesLeft(w)
  <1>1. CASE w[t] = "queued" /\ v = [w EXCEPT ![t] = "asking"]
    <2>1. Open(v) = Open(w) /\ Queued(v) = Queued(w) \ {t} /\ t \in Queued(w)
      BY <1>1 DEF Open, Queued
    <2>2. Cardinality(Queued(v)) = Cardinality(Queued(w)) - 1
      BY <2>1, QueriesBounds, FS_RemoveElement
    <2> QED
      BY <2>1, <2>2, QueriesBounds DEF QueriesLeft
  <1>2. CASE w[t] = "asking" /\ v = [w EXCEPT ![t] = "off"]
    <2>1. Open(v) = Open(w) \ {t} /\ Queued(v) = Queued(w) /\ t \in Open(w)
      BY <1>2 DEF Open, Queued
    <2>2. Cardinality(Open(v)) = Cardinality(Open(w)) - 1
      BY <2>1, QueriesBounds, FS_RemoveElement
    <2> QED
      BY <2>1, <2>2, QueriesBounds DEF QueriesLeft
  <1> QED
    BY <1>1, <1>2

LEMMA LeftNatural ==
  ASSUME TypeOK, NEW c \in Commands
  PROVE  /\ BatchesLeft(c) \in Nat /\ StageLeft(c) \in Nat
         /\ pc[c] \in Running => StageLeft(c) > 0
         /\ pc[c] = "asking" => StageLeft(c) <= 2 * MostQueries + 2
  <1>1. first[c] \in Nat /\ Len(Items(job[c])) \in Nat
    BY JobTypes DEF TypeOK
  <1>2. BatchesLeft(c) \in Nat
    BY <1>1 DEF BatchesLeft
  <1>3. QueriesLeft(worker[c]) \in 0 .. MostQueries /\ MostQueries \in Nat
    BY QueriesBounds
  <1> QED
    BY <1>2, <1>3 DEF StageLeft, Running

\* Only a latency test asks.
AskingInv == \A c \in Commands : pc[c] = "asking" => job[c].kind = "latency"

LEMMA AskingStep == TypeOK /\ AskingInv /\ [Next]_vars => AskingInv'
  <1> SUFFICES ASSUME TypeOK, AskingInv, [Next]_vars PROVE AskingInv'
    OBVIOUS
  <1> USE DEF request, transfer, latency, Return, Goto
  <1>1. CASE UNCHANGED vars
    BY <1>1 DEF vars, AskingInv
  <1>2. ASSUME NEW c \in Commands, job' = job, NEW where,
               pc' = [pc EXCEPT ![c] = where], where = "asking" => job[c].kind = "latency"
        PROVE  AskingInv'
    BY <1>2 DEF AskingInv, TypeOK
  <1>3. ASSUME NEW c \in Commands, UNCHANGED <<job, pc>> PROVE AskingInv'
    BY <1>3 DEF AskingInv
  <1>4. ASSUME NEW c \in Commands,
               \/ SetupFails(c) \/ BeginDirect(c) \/ Draw(c) \/ Start(c) \/ WaitTimesOut(c)
               \/ TransferEnds(c) \/ TransferFails(c) \/ EndBatch(c) \/ Killed(c)
        PROVE  AskingInv'
    <2>1. job' = job
      BY <1>4 DEF SetupFails, BeginDirect, Draw, Start, WaitTimesOut, TransferEnds, TransferFails,
         EndBatch, Killed
    <2>2. PICK where \in {"failed", "fetching", "script", "drawn", "waiting", "done", "start", "killed"} :
            pc' = [pc EXCEPT ![c] = where]
      BY <1>4 DEF SetupFails, BeginDirect, Draw, Start, WaitTimesOut, TransferEnds, TransferFails,
         EndBatch, Killed
    <2> QED
      BY <1>2, <2>1, <2>2
  <1>5. ASSUME NEW c \in Commands, ScriptEnds(c) \/ ChildrenEnd(c) PROVE AskingInv'
    <2>1. job' = job /\ \E where : pc' = [pc EXCEPT ![c] = where] /\ where # "asking"
      BY <1>5 DEF ScriptEnds, ChildrenEnd, Finish
    <2> QED
      BY <1>2, <2>1
  <1>6. ASSUME NEW c \in Commands, Connected(c) PROVE AskingInv'
    <2>1. job' = job /\ \E where : /\ pc' = [pc EXCEPT ![c] = where]
                                   /\ where = "asking" => job[c].kind = "latency"
      <3>1. CASE job[c].kind = "latency"
        BY <1>6, <3>1 DEF Connected
      <3>2. CASE job[c].kind # "latency"
        BY <1>6, <3>2 DEF Connected
      <3> QED
        BY <3>1, <3>2
    <2> QED
      BY <1>2, <2>1
  <1>7. ASSUME NEW c \in Commands,
               \/ HelperListens(c) \/ HelperDies(c) \/ Transfer(c) \/ ScriptWrites(c)
               \/ DeadlinePasses(c) \/ EndWarmup(c)
               \/ \E t \in Tags : Acquire(c, t) \/ Answer(c, t) \/ NoAnswer(c, t)
        PROVE  AskingInv'
    BY <1>3, <1>7 DEF HelperListens, HelperDies, Transfer, ScriptWrites, DeadlinePasses, EndWarmup,
       Acquire, Answer, NoAnswer
  <1> QED
    BY <1>1, <1>4, <1>5, <1>6, <1>7 DEF Next, Work

\* A step that stays in its batch and comes further there.
LEMMA OnwardLess ==
  ASSUME TypeOK, NEW c \in Commands, UNCHANGED <<job, first>>, StageLeft(c)' < StageLeft(c)
  PROVE  LeftLess(c)
  BY DEF LeftLess, BatchesLeft

LEMMA WorkLess ==
  ASSUME TypeOK, ReportInv, AskingInv, NEW c \in Commands, Work(c)
  PROVE  LeftLess(c)
  <1> USE DEF request, transfer, latency, Return, Goto
  <1>0. /\ MostQueries \in Nat
        /\ \A w : QueriesLeft(w) \in 0 .. MostQueries
        /\ pc[c] \in Running => StageLeft(c) \in Nat \ {0}
    BY QueriesBounds, LeftNatural
  <1>1. ASSUME SetupFails(c) \/ WaitTimesOut(c) \/ TransferEnds(c) \/ TransferFails(c)
        PROVE  LeftLess(c)
    <2>1. /\ pc[c] \in Running /\ pc'[c] \in {"failed", "done"} /\ UNCHANGED <<job, first>>
      BY <1>1 DEF SetupFails, WaitTimesOut, TransferEnds, TransferFails, Running, TypeOK
    <2>2. StageLeft(c)' = 0
      BY <2>1 DEF StageLeft
    <2> QED
      BY <1>0, <2>1, <2>2, OnwardLess
  <1>2. ASSUME BeginDirect(c) PROVE LeftLess(c)
    <2>1. pc[c] = "start" /\ pc'[c] \in {"fetching", "script"} /\ UNCHANGED <<job, first>>
      BY <1>2 DEF BeginDirect, TypeOK
    <2>2. StageLeft(c)' <= 4 /\ StageLeft(c)' \in Nat /\ StageLeft(c) = 2 * MostQueries + 7
      BY <2>1 DEF StageLeft
    <2> QED
      BY <1>0, <2>1, <2>2, OnwardLess
  <1>3. ASSUME Draw(c) PROVE LeftLess(c)
    <2>1. pc[c] = "start" /\ pc'[c] = "drawn" /\ UNCHANGED <<job, first>>
      BY <1>3 DEF Draw, TypeOK
    <2>2. StageLeft(c)' = 2 * MostQueries + 6 /\ StageLeft(c) = 2 * MostQueries + 7
      BY <2>1 DEF StageLeft
    <2> QED
      BY <1>0, <2>1, <2>2, OnwardLess
  <1>4. ASSUME Start(c) PROVE LeftLess(c)
    <2>1. pc[c] = "drawn" /\ pc'[c] = "waiting" /\ UNCHANGED <<job, first>>
      BY <1>4 DEF Start, TypeOK
    <2>2. StageLeft(c)' = 2 * MostQueries + 5 /\ StageLeft(c) = 2 * MostQueries + 6
      BY <2>1 DEF StageLeft
    <2> QED
      BY <1>0, <2>1, <2>2, OnwardLess
  <1>5. ASSUME Connected(c) PROVE LeftLess(c)
    <2>1. /\ pc[c] = "waiting" /\ pc'[c] \in {"asking", "fetching", "script"}
          /\ UNCHANGED <<job, first>>
      <3>1. CASE job[c].kind = "latency"
        BY <1>5, <3>1 DEF Connected, TypeOK
      <3>2. CASE job[c].kind # "latency"
        BY <1>5, <3>2 DEF Connected, TypeOK
      <3> QED
        BY <3>1, <3>2
    <2>2. StageLeft(c) = 2 * MostQueries + 5
      BY <2>1 DEF StageLeft
    <2>3. CASE pc'[c] = "asking"
      <3>1. QueriesLeft(worker'[c]) \in 0 .. MostQueries
        BY <1>0
      <3>2. \/ StageLeft(c)' = QueriesLeft(worker'[c]) + (MostQueries + 2)
            \/ StageLeft(c)' = QueriesLeft(worker'[c]) + 1
        BY <2>3 DEF StageLeft, QueriesLeft, Open, Queued, MostQueries
      <3>3. StageLeft(c)' < StageLeft(c)
        BY <1>0, <2>2, <3>1, <3>2
      <3> QED
        BY <2>1, <3>3, OnwardLess
    <2>4. CASE pc'[c] \in {"fetching", "script"}
      <3>1. StageLeft(c)' \in {2, 3, 4}
        BY <2>4 DEF StageLeft
      <3> QED
        BY <1>0, <2>1, <2>2, <3>1, OnwardLess
    <2> QED
      BY <2>1, <2>3, <2>4
  <1>6. ASSUME Transfer(c) PROVE LeftLess(c)
    <2>1. /\ pc[c] \in {"fetching", "script"} /\ got[c] = "nothing"
          /\ UNCHANGED <<job, first, pc>> /\ got'[c] = "part"
      BY <1>6 DEF Transfer, TypeOK
    <2>2. StageLeft(c)' = 3 /\ StageLeft(c) = 4
      BY <2>1 DEF StageLeft
    <2> QED
      BY <2>1, <2>2, OnwardLess
  <1>7. ASSUME ScriptWrites(c) PROVE LeftLess(c)
    <2>1. /\ pc[c] = "script" /\ got[c] = "part"
          /\ UNCHANGED <<job, first, pc>> /\ got'[c] \in {"whole", "cut"}
      BY <1>7 DEF ScriptWrites, TypeOK
    <2>2. StageLeft(c)' = 2 /\ StageLeft(c) = 3
      BY <2>1 DEF StageLeft
    <2> QED
      BY <2>1, <2>2, OnwardLess
  <1>8. ASSUME ScriptEnds(c) PROVE LeftLess(c)
    <2>1. pc[c] = "script" /\ pc'[c] \in {"done", "failed", "draining"} /\ UNCHANGED <<job, first>>
      BY <1>8 DEF ScriptEnds, Finish, TypeOK
    <2>2. StageLeft(c)' \in {0, 1} /\ StageLeft(c) \in {2, 3, 4}
      BY <2>1 DEF StageLeft
    <2> QED
      BY <2>1, <2>2, OnwardLess
  <1>9. ASSUME NEW t \in Tags, Acquire(c, t) \/ Answer(c, t) \/ NoAnswer(c, t)
        PROVE  LeftLess(c)
    <2>1. /\ UNCHANGED <<job, first, pc, pass>> /\ pc[c] = "asking"
          /\ \/ worker[c][t] = "queued" /\ worker'[c] = [worker[c] EXCEPT ![t] = "asking"]
             \/ worker[c][t] = "asking" /\ worker'[c] = [worker[c] EXCEPT ![t] = "off"]
      BY <1>9 DEF Acquire, Answer, NoAnswer, Release, TypeOK
    <2>2. QueriesLeft(worker'[c]) < QueriesLeft(worker[c])
      <3>1. worker[c] \in [Tags -> {"off", "queued", "asking"}]
        BY DEF TypeOK
      <3> QED
        BY <2>1, <3>1, QueryLess
    <2> DEFINE more == IF pass[c] = "warmup" THEN MostQueries + 2 ELSE 1
    <2>3. StageLeft(c) = QueriesLeft(worker[c]) + more
      BY <2>1 DEF StageLeft
    <2>4. StageLeft(c)' = QueriesLeft(worker'[c]) + more
      BY <2>1 DEF StageLeft, QueriesLeft, Open, Queued, MostQueries
    <2>5. more \in Nat
      BY <1>0
    <2> HIDE DEF more
    <2>6. QueriesLeft(worker'[c]) \in Nat /\ QueriesLeft(worker[c]) \in Nat
      BY <1>0
    <2> QED
      BY <2>1, <2>2, <2>3, <2>4, <2>5, <2>6, OnwardLess
  <1>10. ASSUME EndWarmup(c) PROVE LeftLess(c)
    <2>1. /\ UNCHANGED <<job, first, pc>> /\ pc[c] = "asking"
          /\ pass[c] = "warmup" /\ pass'[c] = "measured"
      BY <1>10 DEF EndWarmup, BeginPass, PassOver, TypeOK
    <2>2. StageLeft(c) = QueriesLeft(worker[c]) + (MostQueries + 2)
      BY <2>1 DEF StageLeft
    <2>3. StageLeft(c)' = QueriesLeft(worker'[c]) + 1
      BY <2>1 DEF StageLeft, QueriesLeft, Open, Queued
    <2>4. QueriesLeft(worker'[c]) \in 0 .. MostQueries /\ QueriesLeft(worker[c]) \in 0 .. MostQueries
      BY <1>0
    <2> QED
      BY <1>0, <2>1, <2>2, <2>3, <2>4, OnwardLess
  <1>11. ASSUME EndBatch(c) PROVE LeftLess(c)
    <2> DEFINE k == Len(Items(job[c]))
               next == NextBatch(job[c], first[c])
    <2>1. pc[c] = "asking" /\ job' = job /\ first'[c] = next
      BY <1>11 DEF EndBatch, PassOver, TypeOK
    <2>2. first[c] <= k
      BY <2>1 DEF AskingInv, ReportInv, Reported, Testing
    <2>3. first[c] \in Nat \ {0} /\ k \in Nat
      BY JobTypes DEF TypeOK
    <2>4. next = first[c] + Batch
      BY DEF NextBatch
    <2>5. BatchesLeft(c) = k + 1 - first[c]
          /\ BatchesLeft(c)' = IF next <= k THEN k + 1 - next ELSE 0
      BY <2>1, <2>2 DEF BatchesLeft, Items, Enabled
    <2> HIDE DEF k, next
    <2> QED
      BY <2>2, <2>3, <2>4, <2>5, HelpersAssumption DEF LeftLess
  <1> QED
    BY <1>1, <1>2, <1>3, <1>4, <1>5, <1>6, <1>7, <1>8, <1>9, <1>10, <1>11 DEF Work

\* What is not a step of the command's own program takes nothing away that it has done.
LEMMA OthersKeep ==
  ASSUME TypeOK, NEW c \in Commands,
         \/ HelperListens(c) \/ HelperDies(c) \/ DeadlinePasses(c) \/ ChildrenEnd(c) \/ Killed(c)
  PROVE  LeftLess(c) \/ (BatchesLeft(c)' = BatchesLeft(c) /\ StageLeft(c)' = StageLeft(c))
  <1> USE DEF request, transfer, latency
  <1>1. CASE HelperListens(c) \/ HelperDies(c) \/ DeadlinePasses(c)
    <2>1. UNCHANGED <<job, first, pc, pass, worker, got>>
      BY <1>1 DEF HelperListens, HelperDies, DeadlinePasses
    <2> QED
      BY <2>1 DEF BatchesLeft, StageLeft
  <1>2. CASE ChildrenEnd(c) \/ Killed(c)
    <2>1. pc[c] \in Running /\ pc'[c] \in {"done", "failed", "killed"} /\ UNCHANGED <<job, first>>
      BY <1>2 DEF ChildrenEnd, Killed, Finish, Return, Goto, Running, TypeOK
    <2>2. StageLeft(c)' = 0 /\ StageLeft(c) \in Nat \ {0}
      BY <2>1, LeftNatural DEF StageLeft
    <2> QED
      BY <2>1, <2>2, OnwardLess
  <1> QED
    BY <1>1, <1>2

\* A command leaves the program of every other where it is.
LEMMA Confined ==
  ASSUME TypeOK, NEW c \in Commands, NEW d \in Commands \ {c},
         \/ Work(d) \/ HelperListens(d) \/ HelperDies(d) \/ DeadlinePasses(d)
         \/ ChildrenEnd(d) \/ Killed(d)
  PROVE  BatchesLeft(c)' = BatchesLeft(c) /\ StageLeft(c)' = StageLeft(c)
  <1> DEFINE Same == /\ job' = job /\ first'[c] = first[c] /\ pc'[c] = pc[c]
                     /\ pass'[c] = pass[c] /\ worker'[c] = worker[c] /\ got'[c] = got[c]
  <1> USE DEF request, transfer, latency, Return, Goto, Cleanup, TypeOK
  <1>1. ASSUME \/ SetupFails(d) \/ WaitTimesOut(d) \/ TransferEnds(d) \/ TransferFails(d)
               \/ Draw(d) \/ Start(d) \/ Killed(d) \/ HelperListens(d) \/ HelperDies(d)
               \/ Transfer(d) \/ ScriptWrites(d) \/ DeadlinePasses(d)
        PROVE  Same
    BY <1>1 DEF SetupFails, WaitTimesOut, TransferEnds, TransferFails, Draw, Start, Killed,
       HelperListens, HelperDies, Transfer, ScriptWrites, DeadlinePasses
  <1>2. ASSUME BeginDirect(d) PROVE Same
    BY <1>2 DEF BeginDirect
  <1>3. ASSUME ScriptEnds(d) \/ ChildrenEnd(d) PROVE Same
    BY <1>3 DEF ScriptEnds, ChildrenEnd, Finish
  <1>4. ASSUME Connected(d) PROVE Same
    <2>1. CASE job[d].kind = "latency"
      BY <1>4, <2>1 DEF Connected, BeginPass
    <2>2. CASE job[d].kind # "latency"
      BY <1>4, <2>2 DEF Connected
    <2> QED
      BY <2>1, <2>2
  <1>5. ASSUME NEW t \in Tags, Acquire(d, t) \/ Answer(d, t) \/ NoAnswer(d, t) PROVE Same
    BY <1>5 DEF Acquire, Answer, NoAnswer, Release
  <1>6. ASSUME EndWarmup(d) PROVE Same
    BY <1>6 DEF EndWarmup, BeginPass
  <1>7. ASSUME EndBatch(d) PROVE Same
    <2>1. /\ UNCHANGED <<job, got, pass, worker>>
          /\ \E n : first' = [first EXCEPT ![d] = n]
          /\ \E where : pc' = [pc EXCEPT ![d] = where]
      BY <1>7 DEF EndBatch
    <2> QED
      BY <2>1
  <1>8. Same
    BY <1>1, <1>2, <1>3, <1>4, <1>5, <1>6, <1>7 DEF Work
  <1> QED
    BY <1>8 DEF BatchesLeft, StageLeft, QueriesLeft, Open, Queued, MostQueries, Items, Enabled

LEMMA DescendStep ==
  ASSUME TypeOK, ReportInv, AskingInv, [Next]_vars
  PROVE  [CommandsDescend]_vars
  <1> SUFFICES ASSUME Next, NEW c \in Commands
               PROVE  /\ {BatchesLeft(c), StageLeft(c)} \subseteq Nat
                      /\ Work(c) => LeftLess(c)
                      /\ \/ LeftLess(c)
                         \/ BatchesLeft(c)' = BatchesLeft(c) /\ StageLeft(c)' = StageLeft(c)
    BY DEF CommandsDescend
  <1>1. {BatchesLeft(c), StageLeft(c)} \subseteq Nat
    BY LeftNatural
  <1>2. Work(c) => LeftLess(c)
    BY WorkLess
  <1>3. PICK d \in Commands : \/ Work(d) \/ HelperListens(d) \/ HelperDies(d) \/ DeadlinePasses(d)
                              \/ ChildrenEnd(d) \/ Killed(d)
    BY DEF Next
  <1> DEFINE OnlyLess == \/ LeftLess(c)
                         \/ BatchesLeft(c)' = BatchesLeft(c) /\ StageLeft(c)' = StageLeft(c)
  <1>4. ASSUME d = c PROVE OnlyLess
    <2>1. \/ Work(c)
          \/ HelperListens(c) \/ HelperDies(c) \/ DeadlinePasses(c) \/ ChildrenEnd(c) \/ Killed(c)
      BY ONLY <1>3, <1>4
    <2> QED
      BY <2>1, <1>2, OthersKeep
  <1>5. ASSUME d # c PROVE OnlyLess
    <2>1. d \in Commands \ {c}
      BY ONLY <1>5, d \in Commands
    <2> QED
      BY <1>3, <2>1, Confined
  <1> QED
    BY <1>1, <1>2, <1>4, <1>5

\* No command goes on for ever: whatever its helper, the other commands and the network
\* do, each of its steps leaves fewer batches, or as many and fewer steps in this one
\* (main.go 807-829, 879-936, 1083).  That it can take a step is fairness, and TLC's.
THEOREM CommandsAdvance == Spec => [][CommandsDescend]_vars
  <1>1. TypeOK /\ ReportInv /\ [Next]_vars => ReportInv'
    BY ReportStep
  <1>2. TypeOK /\ AskingInv /\ [Next]_vars => AskingInv'
    BY AskingStep
  <1>3. Init => AskingInv
    BY DEF Init, AskingInv
  <1>4. TypeOK /\ ReportInv /\ AskingInv /\ [Next]_vars => [CommandsDescend]_vars
    BY DescendStep
  <1> QED
    BY <1>1, <1>2, <1>3, <1>4, ReportInit, Invariance, PTL DEF Spec
===============================================================================
