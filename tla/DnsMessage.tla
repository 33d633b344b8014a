------------------------------ MODULE DnsMessage -------------------------------
(***************************************************************************)
(* A DNS message as the parsers of internal/dnsproxy see it: the counts    *)
(* of its header, the questions and then the resource records that can be  *)
(* decoded one after the other from its start, and whether bytes are left  *)
(* over.  Counts that exceed what can be decoded, or fall short of it, are *)
(* how a message is malformed.                                             *)
(*                                                                         *)
(* `records` are those of the answer, authority and additional sections,   *)
(* which look alike on the wire: the first `rr` belong to the former two.  *)
(* An option keeps its place in its record when others are removed.        *)
(***************************************************************************)

EXTENDS Integers, Sequences

NoAddress == "none"

\* An EDNS option; only client subnets have an address, and only those for an
\* IPv4 address with a prefix longer than 0 have one that netod reads.
Option(addrs) == [code : {"ecs", "other"}, addr : addrs \union {NoAddress}]

\* `sound` is false when bytes of the record are left that are no option.
Record(addrs) == [opt : BOOLEAN, sound : BOOLEAN, options : Seq(Option(addrs))]

Questions(names) == [name : names, type : {"A", "AAAA", "other"}]

Message(names, addrs) ==
  [short : BOOLEAN, qd : Nat, rr : Nat, ar : Nat, questions : Seq(Questions(names)),
   records : Seq(Record(addrs)), rest : BOOLEAN]

Least(I) == CHOOSE i \in I : \A j \in I : i <= j

\* The whole message can be decoded.
Complete(msg) ==
  /\ ~msg.short
  /\ Len(msg.questions) = msg.qd
  /\ Len(msg.records) = msg.rr + msg.ar
  /\ ~msg.rest

Additional(msg) == {i \in DOMAIN msg.records : i > msg.rr}

WellFormed(msg) ==
  /\ Complete(msg)
  /\ \A i \in Additional(msg) : msg.records[i].opt => msg.records[i].sound

-------------------------------------------------------------------------------
(* What netod reads of a message, and what it removes *)

\* ParseQuery asks for exactly one question and looks no further.
IsQuery(msg) == ~msg.short /\ msg.qd = 1 /\ msg.questions # <<>>

Question(msg) == msg.questions[1]

Subnets(record) == {j \in DOMAIN record.options : record.options[j].code = "ecs"}

\* The walk takes the first `ar` records for the additional section, whichever
\* section they are of, and ends where one cannot be decoded.
ClientSubnet(msg) ==
  LET Usable(record) == {j \in Subnets(record) : record.options[j].addr # NoAddress}
      found == {i \in DOMAIN msg.records :
                  i <= msg.ar /\ msg.records[i].opt /\ Usable(msg.records[i]) # {}}
      first == msg.records[Least(found)]
  IN IF msg.short \/ Len(msg.questions) # msg.qd \/ found = {}
     THEN NoAddress
     ELSE first.options[Least(Usable(first))].addr

Without(record, places) ==
  [record EXCEPT !.options = [j \in DOMAIN @ \ places |-> @[j]]]

\* Mutated form of StripClientSubnet: one client subnet per record is removed.
StripFirstSubnet(msg) ==
  LET first(record) == IF Subnets(record) = {} THEN {} ELSE {Least(Subnets(record))}
  IN IF ~WellFormed(msg) THEN msg
     ELSE [msg EXCEPT !.records =
             [i \in DOMAIN @ |-> IF i > msg.rr /\ @[i].opt
                                 THEN Without(@[i], first(@[i])) ELSE @[i]]]

\* stripClientSubnetOption returns what it cannot decode as it is.
StripClientSubnet(msg) ==
  IF ~WellFormed(msg) THEN msg
  ELSE [msg EXCEPT !.records =
          [i \in DOMAIN @ |-> IF i > msg.rr /\ @[i].opt
                              THEN Without(@[i], Subnets(@[i])) ELSE @[i]]]

-------------------------------------------------------------------------------
(* dnsmasq with addsubnet=32, as neto configures it *)

\* The asker's address goes behind the options of the message's OPT record, or
\* into a record of its own.
AddSubnet(msg, addr) ==
  LET subnet == [code |-> "ecs", addr |-> addr]
      opts   == {i \in Additional(msg) : msg.records[i].opt}
  IN IF opts # {}
     THEN [msg EXCEPT !.records[Least(opts)].options = Append(@, subnet)]
     ELSE [msg EXCEPT !.ar = @ + 1,
                      !.records = Append(@, [opt |-> TRUE, sound |-> TRUE,
                                             options |-> <<subnet>>])]
===============================================================================
