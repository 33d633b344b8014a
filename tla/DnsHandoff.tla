------------------------------ MODULE DnsHandoff ------------------------------
(***************************************************************************)
(* What neto promises about the router's dnsmasq (README "Uninstall",      *)
(* docs/ARCHITECTURE.md "Lifecycle"): the configuration dnsmasq runs with  *)
(* is the administrator's own, or the administrator's own with ONE neto    *)
(* listener added and the two options neto needs forced.  Nothing in       *)
(* between is ever visible.  DnsmasqTakeover implements this module; the   *)
(* service lifecycle (module Lifecycle) uses it as its view of dnsmasq.    *)
(***************************************************************************)

CONSTANTS
  Listens,        \* addresses netod may be configured to listen on
  UserServers,    \* upstream servers an administrator may configure
  UserConfigs     \* the dnsmasq configurations an administrator may choose

VARIABLES
  resolver,       \* the configuration the dnsmasq process runs with
  user            \* the administrator's own dnsmasq configuration

handoffVars == <<resolver, user>>

Options == {"noresolv", "addsubnet"}

\* An option is not set, set to the value neto needs ('1', '32'), or set to
\* any other value.
OptionValues == {"absent", "neto", "other"}

Dhcp == [servers : SUBSET (Listens \union UserServers),
         opts    : [Options -> OptionValues]]

HandoffAssumption ==
  /\ Listens \intersect UserServers = {}
  /\ UserConfigs \subseteq [servers : SUBSET UserServers,
                            opts    : [Options -> OptionValues]]

\* The administrator's configuration with neto's listener l in front.
WithNeto(own, l) ==
  [servers |-> own.servers \union {l},
   opts    |-> [o \in Options |-> "neto"]]

Init ==
  /\ user \in UserConfigs
  /\ resolver = user

\* neto puts its listener in front, replacing the one it used before.
Attach(l) ==
  /\ resolver' = WithNeto(user, l)
  /\ UNCHANGED user

Detach ==
  /\ resolver' = user
  /\ UNCHANGED user

\* The administrator changes the configuration; under neto only the servers.
Administer(own) ==
  /\ user' = own
  /\ \/ resolver = user /\ resolver' = own
     \/ \E l \in Listens : /\ own.opts = user.opts
                           /\ resolver = WithNeto(user, l)
                           /\ resolver' = WithNeto(own, l)

Next ==
  \/ \E l \in Listens : Attach(l)
  \/ Detach
  \/ \E own \in UserConfigs : Administer(own)

Spec == Init /\ [][Next]_handoffVars
===============================================================================
