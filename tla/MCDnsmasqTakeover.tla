-------------------------- MODULE MCDnsmasqTakeover ---------------------------
(* Instances of DnsmasqTakeover for TLC: every combination of the two options *)
(* of the administrator, with and without servers of the administrator.       *)
EXTENDS DnsmasqTakeover

AllConfigs ==
  [servers : SUBSET UserServers,
   opts    : [{"noresolv", "addsubnet"} -> {"absent", "neto", "other"}]]

\* PlainUsers holds of these.
PlainConfigs ==
  {own \in AllConfigs :
     \A o \in DOMAIN own.opts : own.opts[o] = "neto" => own.servers # {}}
===============================================================================
