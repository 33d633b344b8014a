------------------------------ MODULE DnsService -------------------------------
(***************************************************************************)
(* What netod's DNS server promises (docs/ARCHITECTURE.md "DNS Rules",     *)
(* docs/ROUTER_TESTING.md): every question it accepts is settled once,     *)
(* with the answer that the policy has for the one who asked, or with      *)
(* none; and no question waits for ever.  DnsServer implements this.       *)
(***************************************************************************)

CONSTANTS
  Queries,        \* questions that may be asked
  Answers         \* where an answer may come from

VARIABLES
  promise,        \* the answer that the policy has for each question
  outcome         \* what became of each question

serviceVars == <<promise, outcome>>

Init ==
  /\ promise \in [Queries -> Answers]
  /\ outcome = [q \in Queries |-> "unasked"]

\* A question that finds nobody there stays without an answer.
Ask(q) ==
  /\ outcome[q] = "unasked"
  /\ \E o \in {"pending", "unanswered"} : outcome' = [outcome EXCEPT ![q] = o]
  /\ UNCHANGED promise

Answer(q) ==
  /\ outcome[q] = "pending"
  /\ outcome' = [outcome EXCEPT ![q] = promise[q]]
  /\ UNCHANGED promise

\* Any number of questions is given up at once: the process may exit.
GiveUp ==
  /\ \E Q \in SUBSET {q \in Queries : outcome[q] = "pending"} :
       outcome' = [q \in Queries |-> IF q \in Q THEN "unanswered" ELSE outcome[q]]
  /\ UNCHANGED promise

Next == GiveUp \/ \E q \in Queries : Ask(q) \/ Answer(q)

Spec == Init /\ [][Next]_serviceVars

\* No question waits for ever.
Settled == \A q \in Queries : outcome[q] = "pending" ~> outcome[q] # "pending"
===============================================================================
