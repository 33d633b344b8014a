--------------------------- MODULE DnsmasqTakeover ----------------------------
(***************************************************************************)
(* How /etc/init.d/neto takes over dnsmasq (neto_write_dnsmasq) and gives  *)
(* it back (neto_remove_dnsmasq), one action per command that leaves a     *)
(* trace another actor or a power loss can observe:                        *)
(*   - `uci del_list/add_list/set` change the staged configuration, which  *)
(*     lives in RAM until `uci commit` writes it to flash;                 *)
(*   - the three files under /etc/neto/dnsmasq-state are on flash;         *)
(*   - dnsmasq sees the committed configuration when it is reloaded.       *)
(* The functions run under procd's per-service lock, one at a time.  The   *)
(* administrator edits neto's own options at any moment and the dnsmasq    *)
(* section between two runs of the script.                                 *)
(* A state file in the legacy directory is read and removed together with  *)
(* the one in the current directory: a pair is one variable here.          *)
(***************************************************************************)

CONSTANTS
  Listens,        \* values of neto.main.dns_listen, as dnsmasq servers
  DefaultListen,  \* 127.0.0.1#5353
  UserServers,    \* servers of the administrator
  UserConfigs,    \* dnsmasq configurations of the administrator
  NoServer,       \* no state file, or an unset shell variable
  PowerLoss       \* may the router lose power?

VARIABLES
  listen,         \* neto.main.dns_listen
  manage,         \* neto.main.manage_dnsmasq
  user,           \* the administrator's own dnsmasq configuration
  staged,         \* dhcp.@dnsmasq[0] as `uci get` reports it
  flash,          \* /etc/config/dhcp, what has been committed
  resolver,       \* what the dnsmasq process runs with
  savedServer,    \* dnsmasq-server.prev
  savedOpts,      \* dnsmasq-noresolv.prev, dnsmasq-addsubnet.prev
  pc,             \* the next command of the running script, or "idle"
  server,         \* the script's local `server`
  oldServer,      \* the script's local `old_server` / `saved_server`
  released        \* history: nothing happened to dnsmasq since neto_remove_dnsmasq

config == <<listen, manage>>
files  == <<savedServer, savedOpts>>
locals == <<server, oldServer>>
vars   == <<listen, manage, user, staged, flash, resolver, savedServer,
            savedOpts, pc, server, oldServer, released>>

Handoff == INSTANCE DnsHandoff WITH resolver <- resolver, user <- user

Options == Handoff!Options
Dhcp    == Handoff!Dhcp

ASSUME TakeoverAssumption ==
  /\ Handoff!HandoffAssumption
  /\ DefaultListen \in Listens
  /\ NoServer \notin Listens \union UserServers
  /\ PowerLoss \in BOOLEAN

\* "none" is no file, "missing" the marker __missing__ in the file.
SavedValues == {"none", "missing", "neto", "other"}

Steps == {"idle",
          "w_forget", "w_server", "w_noresolv", "w_addsubnet", "w_stage",
          "w_commit", "w_reload",
          "r_stage", "r_server", "r_noresolv", "r_addsubnet",
          "r_commit", "r_reload"}

TypeOK ==
  /\ listen \in Listens
  /\ manage \in BOOLEAN
  /\ user \in UserConfigs
  /\ staged \in Dhcp
  /\ flash \in Dhcp
  /\ resolver \in Dhcp
  /\ savedServer \in Listens \union {NoServer}
  /\ savedOpts \in [Options -> SavedValues]
  /\ pc \in Steps
  /\ server \in IF pc = "idle" THEN {NoServer} ELSE Listens
  /\ oldServer \in Listens \union {NoServer}
  /\ released \in BOOLEAN

Init ==
  /\ listen \in Listens
  /\ manage \in BOOLEAN
  /\ user \in UserConfigs
  /\ staged = user
  /\ flash = user
  /\ resolver = user
  /\ savedServer = NoServer
  /\ savedOpts = [o \in Options |-> "none"]
  /\ pc = "idle"
  /\ server = NoServer
  /\ oldServer = NoServer
  /\ released = FALSE

-------------------------------------------------------------------------------
\* A server the script recognises as neto's: neto_is_neto_dnsmasq_server.
IsNetoServer(s) == s \in {server, oldServer, DefaultListen}

HasNonNetoServer(servers) == \E s \in servers : ~IsNetoServer(s)

\* Mutated form of SavedForm: the raw option, without the marker.
RawForm(o) == staged.opts[o]

\* What is written to an option's state file when there is none yet.
SavedForm(o) ==
  LET now == staged.opts[o] IN
  IF now = "absent" \/ (now = "neto" /\ ~HasNonNetoServer(staged.servers))
  THEN "missing"
  ELSE now

\* Mutated form of RestoredForm: no check that dnsmasq would be stranded.
UncheckedForm(o, servers) ==
  CASE savedOpts[o] = "none"    -> staged.opts[o]
    [] savedOpts[o] = "missing" -> "absent"
    [] OTHER                    -> savedOpts[o]

\* What neto_remove_dnsmasq sets an option to, given the servers that stay.
RestoredForm(o, servers) ==
  LET restored == CASE savedOpts[o] = "none"    -> staged.opts[o]
                    [] savedOpts[o] = "missing" -> "absent"
                    [] OTHER                    -> savedOpts[o]
  IN IF restored = "neto" /\ ~HasNonNetoServer(servers)
     THEN "absent"
     ELSE restored

Goto(step) == pc' = step
At(step)   == pc = step

-------------------------------------------------------------------------------
(* neto_write_dnsmasq *)

\* config_get, early return when dnsmasq is not managed, read of the old server.
WriteBegin ==
  /\ At("idle") /\ manage
  /\ server' = listen
  /\ oldServer' = savedServer
  /\ released' = FALSE
  /\ Goto("w_forget")
  /\ UNCHANGED <<config, user, staged, flash, resolver, files>>

\* Mutated form of WriteForget: the earlier listener stays in the list.
WriteForgetNothing ==
  /\ At("w_forget")
  /\ Goto("w_server")
  /\ UNCHANGED <<config, user, staged, flash, resolver, files, locals, released>>

\* A listener used before and no longer configured leaves the list.
WriteForget ==
  /\ At("w_forget")
  /\ staged' = IF oldServer # server
               THEN [staged EXCEPT !.servers = @ \ {oldServer}]
               ELSE staged
  /\ Goto("w_server")
  /\ UNCHANGED <<config, user, flash, resolver, files, locals, released>>

WriteServerState ==
  /\ At("w_server")
  /\ savedServer' = server
  /\ Goto("w_noresolv")
  /\ UNCHANGED <<config, user, staged, flash, resolver, savedOpts, locals,
                 released>>

\* Mutated form of WriteOptionState: saved on every start.
WriteOptionStateAlways(o, step, next) ==
  /\ At(step)
  /\ savedOpts' = [savedOpts EXCEPT ![o] = SavedForm(o)]
  /\ Goto(next)
  /\ UNCHANGED <<config, user, staged, flash, resolver, savedServer, locals,
                 released>>

\* The administrator's option is saved once, while there is no state file.
WriteOptionState(o, step, next) ==
  /\ At(step)
  /\ savedOpts' = IF savedOpts[o] = "none"
                  THEN [savedOpts EXCEPT ![o] = SavedForm(o)]
                  ELSE savedOpts
  /\ Goto(next)
  /\ UNCHANGED <<config, user, staged, flash, resolver, savedServer, locals,
                 released>>

\* Mutated form of WriteStage: `uci set server=` instead of `add_list`.
WriteStageReplacing ==
  /\ At("w_stage")
  /\ staged' = [servers |-> {server}, opts |-> [o \in Options |-> "neto"]]
  /\ Goto("w_commit")
  /\ UNCHANGED <<config, user, flash, resolver, files, locals, released>>

WriteStage ==
  /\ At("w_stage")
  /\ staged' = [servers |-> (staged.servers \ {server}) \union {server},
                opts    |-> [o \in Options |-> "neto"]]
  /\ Goto("w_commit")
  /\ UNCHANGED <<config, user, flash, resolver, files, locals, released>>

\* `uci commit dhcp`
Commit(step, next) ==
  /\ At(step)
  /\ flash' = staged
  /\ Goto(next)
  /\ UNCHANGED <<config, user, staged, resolver, files, locals, released>>

\* neto_reload_dnsmasq, the last command of both functions.
Reload(step, isRelease) ==
  /\ At(step)
  /\ resolver' = flash
  /\ released' = isRelease
  /\ server' = NoServer
  /\ oldServer' = NoServer
  /\ Goto("idle")
  /\ UNCHANGED <<config, user, staged, flash, files>>

Write ==
  \/ WriteBegin
  \/ WriteForget
  \/ WriteServerState
  \/ WriteOptionState("noresolv", "w_noresolv", "w_addsubnet")
  \/ WriteOptionState("addsubnet", "w_addsubnet", "w_stage")
  \/ WriteStage
  \/ Commit("w_commit", "w_reload")
  \/ Reload("w_reload", FALSE)

-------------------------------------------------------------------------------
(* neto_remove_dnsmasq: runs whatever manage_dnsmasq says. *)

RemoveBegin ==
  /\ At("idle")
  /\ server' = listen
  /\ oldServer' = savedServer
  /\ Goto("r_stage")
  /\ UNCHANGED <<config, user, staged, flash, resolver, files, released>>

\* Mutated form of RemoveStage: the remembered listener stays in the list.
RemoveStageConfigured ==
  /\ At("r_stage")
  /\ LET kept == staged.servers \ {server, DefaultListen} IN
     staged' = [servers |-> kept,
                opts    |-> [o \in Options |-> RestoredForm(o, kept)]]
  /\ Goto("r_server")
  /\ UNCHANGED <<config, user, flash, resolver, files, locals, released>>

\* The configured, the remembered and the default listener leave the list; the
\* options get their saved values, or are dropped if they would strand dnsmasq.
RemoveStage ==
  /\ At("r_stage")
  /\ LET kept == staged.servers \ {server, oldServer, DefaultListen} IN
     staged' = [servers |-> kept,
                opts    |-> [o \in Options |-> RestoredForm(o, kept)]]
  /\ Goto("r_server")
  /\ UNCHANGED <<config, user, flash, resolver, files, locals, released>>

RemoveServerState ==
  /\ At("r_server")
  /\ savedServer' = NoServer
  /\ Goto("r_noresolv")
  /\ UNCHANGED <<config, user, staged, flash, resolver, savedOpts, locals,
                 released>>

RemoveOptionState(o, step, next) ==
  /\ At(step)
  /\ savedOpts' = [savedOpts EXCEPT ![o] = "none"]
  /\ Goto(next)
  /\ UNCHANGED <<config, user, staged, flash, resolver, savedServer, locals,
                 released>>

Remove ==
  \/ RemoveBegin
  \/ RemoveStage
  \/ RemoveServerState
  \/ RemoveOptionState("noresolv", "r_noresolv", "r_addsubnet")
  \/ RemoveOptionState("addsubnet", "r_addsubnet", "r_commit")
  \/ Commit("r_commit", "r_reload")
  \/ Reload("r_reload", TRUE)

-------------------------------------------------------------------------------
(* Environment *)

\* LuCI or `uci set neto.main...`, at any moment, also while the script runs.
EditNeto ==
  /\ \E l \in Listens, m \in BOOLEAN : listen' = l /\ manage' = m
  /\ UNCHANGED <<user, staged, flash, resolver, files, pc, locals, released>>

\* The administrator saves and applies the dnsmasq page between two runs.  The
\* options belong to neto while it remembers them.
Administer(own) ==
  /\ At("idle")
  /\ own.opts # user.opts => /\ savedOpts = [o \in Options |-> "none"]
                             /\ staged.opts = user.opts
  /\ user' = own
  /\ LET Edited(d) == [servers |-> (d.servers \ user.servers) \union own.servers,
                       opts    |-> IF own.opts = user.opts THEN d.opts ELSE own.opts]
     IN /\ staged' = Edited(staged)
        /\ flash' = Edited(flash)
        /\ resolver' = Edited(flash)
  /\ released' = FALSE
  /\ UNCHANGED <<config, files, pc, locals>>

\* Power loss: the staged changes are in RAM, everything committed is on flash.
Reboot ==
  /\ PowerLoss
  /\ staged' = flash
  /\ resolver' = flash
  /\ server' = NoServer
  /\ oldServer' = NoServer
  /\ released' = (released /\ At("idle"))
  /\ Goto("idle")
  /\ UNCHANGED <<config, user, flash, files>>

Environment ==
  \/ EditNeto
  \/ \E own \in UserConfigs : Administer(own)
  \/ Reboot

Next == Write \/ Remove \/ Environment

Spec == Init /\ [][Next]_vars

-------------------------------------------------------------------------------
(* Properties *)

\* The configurations of an administrator who sets an option to the value neto
\* uses only next to servers of his own.  The scripts cannot tell the others
\* from what an earlier neto left behind, and drop the option.
PlainUsers ==
  \A own \in UserConfigs : \A o \in Options :
    own.opts[o] = "neto" => own.servers # {}

\* When no run is in progress and neto remembers no server, dnsmasq runs with
\* exactly the administrator's configuration: neto_remove_dnsmasq restored
\* server, noresolv and addsubnet, whichever listener was configured when it
\* attached and whichever is configured now (init.d/neto lines 295-326).
RestoresUser ==
  pc = "idle" /\ savedServer = NoServer => resolver = user

\* A second start, reload or boot while neto is attached never takes neto's own
\* '1' and '32' for the administrator's options (the guards of lines 259, 269).
OriginalsRemembered ==
  \A o \in Options :
    savedOpts[o] # "none" =>
      savedOpts[o] = IF user.opts[o] = "absent" THEN "missing" ELSE user.opts[o]

\* No step, and no power loss between two steps, loses or invents a server of
\* the administrator, in the staged, committed or running configuration.
KeepsUserServers ==
  \A d \in {staged, flash, resolver} :
    d.servers \intersect UserServers = user.servers

\* Once neto_remove_dnsmasq has completed, dnsmasq forwards to no listener of
\* neto and is not left with noresolv and no server to ask, whatever power
\* losses came before (lines 297-303, 319-326).
ReleasedClean ==
  released /\ pc = "idle" =>
    /\ resolver.servers \intersect Listens = {}
    /\ resolver.opts["noresolv"] = "neto" => resolver.servers # {}

\* The running configuration only moves between the administrator's own and the
\* administrator's own with exactly one listener in front.
ImplementsHandoff == Handoff!Spec
===============================================================================
