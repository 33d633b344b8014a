------------------------ MODULE DnsmasqTakeover_proofs ------------------------
(***************************************************************************)
(* Proofs about DnsmasqTakeover, for every set of listeners, servers and   *)
(* administrator's configurations.                                         *)
(***************************************************************************)
EXTENDS DnsmasqTakeover, TLAPS

-------------------------------------------------------------------------------
(* The inductive invariant: what each variable holds at each command.  It     *)
(* describes a router that does not lose power.                               *)

\* The dnsmasq configuration while neto's listener s, or none, is in front.
Shown(s) == IF s = NoServer THEN user ELSE Handoff!WithNeto(user, s)

\* The content of an option's state file for the administrator's value.
Remembered(o) == IF user.opts[o] = "absent" THEN "missing" ELSE user.opts[o]

\* State file of option o when neto was attached through s, or was not.
SavedFor(o, s) == IF s = NoServer THEN "none" ELSE Remembered(o)

Writing  == {"w_forget", "w_server", "w_noresolv", "w_addsubnet", "w_stage",
             "w_commit", "w_reload"}
Removing == {"r_stage", "r_server", "r_noresolv", "r_addsubnet",
             "r_commit", "r_reload"}

LocalsInv == pc = "idle" => oldServer = NoServer

SavedServerInv ==
  /\ pc \in {"w_forget", "w_server", "r_stage", "r_server"} => savedServer = oldServer
  /\ pc \in {"w_noresolv", "w_addsubnet", "w_stage", "w_commit", "w_reload"} =>
       savedServer = server
  /\ pc \in {"r_noresolv", "r_addsubnet", "r_commit", "r_reload"} =>
       savedServer = NoServer

SavedOptInv(o, isSaved, isRemoved) ==
  savedOpts[o] =
    CASE pc = "idle"     -> SavedFor(o, savedServer)
      [] pc \in isSaved   -> Remembered(o)
      [] pc \in isRemoved -> "none"
      [] OTHER            -> SavedFor(o, oldServer)

SavedOptsInv ==
  /\ SavedOptInv("noresolv", {"w_addsubnet", "w_stage", "w_commit", "w_reload"},
                 {"r_addsubnet", "r_commit", "r_reload"})
  /\ SavedOptInv("addsubnet", {"w_stage", "w_commit", "w_reload"},
                 {"r_commit", "r_reload"})

StagedInv ==
  /\ pc = "idle" => staged = Shown(savedServer)
  /\ pc \in {"w_forget", "r_stage"} => staged = Shown(oldServer)
  /\ pc \in {"w_server", "w_noresolv", "w_addsubnet", "w_stage"} =>
       staged = [servers |-> user.servers \union ({oldServer} \intersect {server}),
                 opts    |-> Shown(oldServer).opts]
  /\ pc \in {"w_commit", "w_reload"} => staged = Shown(server)
  /\ pc \in Removing \ {"r_stage"} => staged = user

FlashInv ==
  /\ pc = "idle" => flash = Shown(savedServer)
  /\ pc = "w_reload" => flash = Shown(server)
  /\ pc = "r_reload" => flash = user
  /\ pc \notin {"idle", "w_reload", "r_reload"} => flash = Shown(oldServer)

ResolverInv ==
  /\ pc = "idle" => resolver = Shown(savedServer)
  /\ pc # "idle" => resolver = Shown(oldServer)

TakeoverInv ==
  /\ LocalsInv
  /\ SavedServerInv
  /\ SavedOptsInv
  /\ StagedInv
  /\ FlashInv
  /\ ResolverInv

-------------------------------------------------------------------------------
(* Type correctness, for every value of the constants. *)

LEMMA ConfigsAreDhcp ==
  ASSUME NEW own \in UserConfigs
  PROVE  /\ own \in Dhcp
         /\ own.servers \subseteq UserServers
         /\ own.servers \in SUBSET (Listens \union UserServers)
         /\ own.opts \in [Options -> Handoff!OptionValues]
<1>1. own \in [servers : SUBSET UserServers,
               opts    : [Options -> Handoff!OptionValues]]
  BY TakeoverAssumption DEF Handoff!HandoffAssumption, Options
<1>2. QED  BY <1>1 DEF Dhcp, Handoff!Dhcp, Options

LEMMA RestoredFormType ==
  ASSUME TypeOK, NEW o \in Options, NEW servers
  PROVE  RestoredForm(o, servers) \in Handoff!OptionValues
BY DEF TypeOK, RestoredForm, SavedValues, Dhcp, Handoff!Dhcp, Handoff!OptionValues,
       Options

LEMMA SavedFormType ==
  ASSUME TypeOK, NEW o \in Options
  PROVE  SavedForm(o) \in SavedValues
BY DEF TypeOK, SavedForm, SavedValues, Dhcp, Handoff!Dhcp, Handoff!OptionValues,
       Options

\* neto_write_dnsmasq and neto_remove_dnsmasq keep every variable in its type:
\* in particular a state file never holds a value that cannot be restored.
THEOREM TypeCorrect == Spec => []TypeOK
<1>1. Init => TypeOK
  <2> SUFFICES ASSUME Init PROVE TypeOK
    OBVIOUS
  <2>1. user \in Dhcp
    BY ConfigsAreDhcp DEF Init
  <2>2. QED  BY <2>1 DEF Init, TypeOK, SavedValues, Steps
<1>2. TypeOK /\ [Next]_vars => TypeOK'
  <2> SUFFICES ASSUME TypeOK, [Next]_vars PROVE TypeOK'
    OBVIOUS
  <2> USE DEF TypeOK, Steps, At, Goto, config, files, locals
  <2>1. CASE WriteBegin        BY <2>1 DEF WriteBegin
  <2>2. CASE WriteForget
    BY <2>2 DEF WriteForget, Dhcp, Handoff!Dhcp
  <2>3. CASE WriteServerState
    <3>1. server \in Listens \union {NoServer}
      OBVIOUS
    <3>2. QED  BY <2>3, <3>1 DEF WriteServerState
  <2>4. ASSUME NEW o \in Options, NEW step \in Steps \ {"idle"}, NEW next \in Steps \ {"idle"},
               WriteOptionState(o, step, next)
        PROVE  TypeOK'
    BY <2>4, SavedFormType DEF WriteOptionState
  <2>5. CASE WriteStage
    BY <2>5 DEF WriteStage, Dhcp, Handoff!Dhcp, Handoff!OptionValues, Options
  <2>6. ASSUME NEW step \in Steps \ {"idle"}, NEW next \in Steps \ {"idle"}, Commit(step, next)
        PROVE  TypeOK'
    BY <2>6 DEF Commit
  <2>7. ASSUME NEW step, NEW isRelease \in BOOLEAN, Reload(step, isRelease)
        PROVE  TypeOK'
    BY <2>7 DEF Reload
  <2>8. CASE RemoveBegin       BY <2>8 DEF RemoveBegin
  <2>9. CASE RemoveStage
    BY <2>9, RestoredFormType DEF RemoveStage, Dhcp, Handoff!Dhcp, Options
  <2>10. CASE RemoveServerState BY <2>10 DEF RemoveServerState
  <2>11. ASSUME NEW o \in Options, NEW step \in Steps \ {"idle"}, NEW next \in Steps \ {"idle"},
                RemoveOptionState(o, step, next)
         PROVE  TypeOK'
    BY <2>11 DEF RemoveOptionState, SavedValues
  <2>12. CASE EditNeto         BY <2>12 DEF EditNeto
  <2>13. ASSUME NEW own \in UserConfigs, Administer(own)
         PROVE  TypeOK'
    BY <2>13, ConfigsAreDhcp DEF Administer, Dhcp, Handoff!Dhcp, Options
  <2>14. CASE Reboot           BY <2>14 DEF Reboot
  <2>15. CASE UNCHANGED vars   BY <2>15 DEF vars
  <2>16. QED
    BY <2>1, <2>2, <2>3, <2>4, <2>5, <2>6, <2>7, <2>8, <2>9, <2>10, <2>11, <2>12,
       <2>13, <2>14, <2>15
    DEF Next, Write, Remove, Environment, Options, Handoff!Options
<1>3. QED  BY <1>1, <1>2, PTL DEF Spec

-------------------------------------------------------------------------------
(* The administrator's servers survive every step and every power loss. *)

\* No command of the two functions and no power loss between two of them adds
\* or removes a server of the administrator, in the staged, the committed or
\* the running configuration, whatever the listeners were.
THEOREM ServersKept == Spec => []KeepsUserServers
<1>1. Init => KeepsUserServers
  BY ConfigsAreDhcp DEF Init, KeepsUserServers
<1>2. TypeOK /\ KeepsUserServers /\ [Next]_vars => KeepsUserServers'
  <2> SUFFICES ASSUME TypeOK, KeepsUserServers, [Next]_vars
               PROVE  KeepsUserServers'
    OBVIOUS
  <2>0. /\ server \notin UserServers
        /\ oldServer \notin UserServers
        /\ DefaultListen \notin UserServers
    BY TakeoverAssumption DEF TypeOK, Handoff!HandoffAssumption
  <2>1. CASE UNCHANGED <<user, staged, flash, resolver>>
    BY <2>1 DEF KeepsUserServers
  <2>2. CASE WriteForget
    BY <2>0, <2>2 DEF WriteForget, KeepsUserServers, TypeOK, Dhcp, Handoff!Dhcp
  <2>3. CASE WriteStage
    BY <2>0, <2>3 DEF WriteStage, KeepsUserServers
  <2>4. CASE RemoveStage
    BY <2>0, <2>4 DEF RemoveStage, KeepsUserServers
  <2>5. ASSUME NEW step, NEW next, Commit(step, next)
        PROVE  KeepsUserServers'
    BY <2>5 DEF Commit, KeepsUserServers
  <2>6. ASSUME NEW step, NEW isRelease, Reload(step, isRelease)
        PROVE  KeepsUserServers'
    BY <2>6 DEF Reload, KeepsUserServers
  <2>7. ASSUME NEW own \in UserConfigs, Administer(own)
        PROVE  KeepsUserServers'
    <3>1. own.servers \subseteq UserServers
      BY ConfigsAreDhcp
    <3>2. QED  BY <2>7, <3>1 DEF Administer, KeepsUserServers
  <2>8. CASE Reboot
    BY <2>8 DEF Reboot, KeepsUserServers
  <2>9. QED
    BY <2>1, <2>2, <2>3, <2>4, <2>5, <2>6, <2>7, <2>8
    DEF Next, Write, Remove, Environment, WriteBegin, WriteServerState,
        WriteOptionState, RemoveBegin, RemoveServerState, RemoveOptionState,
        EditNeto, vars
<1>3. QED  BY <1>1, <1>2, TypeCorrect, PTL DEF Spec

-------------------------------------------------------------------------------
(* Without power losses: the inductive invariant and what it implies. *)

\* With options set to neto's values only next to own servers, the script can
\* tell the administrator's value from one an earlier neto left.
LEMMA SavedFormIsRemembered ==
  ASSUME PlainUsers, TypeOK, pc # "idle", NEW o \in Options,
         oldServer = NoServer,
         staged.servers = user.servers,
         staged.opts = user.opts
  PROVE  SavedForm(o) = Remembered(o)
<1>1. \A s \in user.servers : ~IsNetoServer(s)
  BY ConfigsAreDhcp, TakeoverAssumption
  DEF TypeOK, IsNetoServer, Handoff!HandoffAssumption
<1>2. user.opts[o] = "neto" => HasNonNetoServer(user.servers)
  BY <1>1 DEF PlainUsers, HasNonNetoServer, TypeOK
<1>3. QED  BY <1>2 DEF SavedForm, Remembered

\* Restoring gives back the administrator's value, attached or not.
LEMMA RestoredFormIsUsers ==
  ASSUME PlainUsers, TypeOK, pc # "idle", NEW o \in Options,
         savedOpts[o] = SavedFor(o, oldServer),
         oldServer = NoServer => staged.opts = user.opts
  PROVE  RestoredForm(o, user.servers) = user.opts[o]
<1>1. \A s \in user.servers : ~IsNetoServer(s)
  BY ConfigsAreDhcp, TakeoverAssumption
  DEF TypeOK, IsNetoServer, Handoff!HandoffAssumption
<1>2. user.opts[o] = "neto" => HasNonNetoServer(user.servers)
  BY <1>1 DEF PlainUsers, HasNonNetoServer, TypeOK
<1>3. user.opts[o] \in {"absent", "neto", "other"}
  BY ConfigsAreDhcp DEF TypeOK, Handoff!OptionValues
<1>4. CASE oldServer = NoServer
  BY <1>2, <1>4 DEF RestoredForm, SavedFor
<1>5. CASE oldServer # NoServer
  BY <1>2, <1>3, <1>5 DEF RestoredForm, SavedFor, Remembered
<1>6. QED  BY <1>4, <1>5

LEMMA TakeoverInvInit == Init => TakeoverInv
BY DEF Init, TakeoverInv, LocalsInv, SavedServerInv, SavedOptsInv, SavedOptInv,
       SavedFor, StagedInv, FlashInv, ResolverInv, Shown, Removing, Options,
       Handoff!Options

LEMMA TakeoverInvNext ==
  ASSUME PlainUsers, ~PowerLoss, TypeOK, TakeoverInv, [Next]_vars
  PROVE  TakeoverInv'
<1> USE DEF TakeoverInv, LocalsInv, SavedServerInv, SavedOptsInv, SavedOptInv,
            StagedInv, FlashInv, ResolverInv, At, Goto, config, files, locals,
            Removing
<1>0. /\ NoServer \notin Listens
      /\ \A own \in UserConfigs : own.servers \intersect (Listens \union {NoServer}) = {}
      /\ Options = {"noresolv", "addsubnet"}
      /\ user = [servers |-> user.servers, opts |-> user.opts]
      /\ user.servers \intersect (Listens \union {NoServer}) = {}
      /\ user.opts = [o \in Options |-> user.opts[o]]
  BY TakeoverAssumption, ConfigsAreDhcp
  DEF Handoff!HandoffAssumption, Options, Handoff!Options, TypeOK, Dhcp, Handoff!Dhcp
<1>1. CASE WriteBegin
  BY <1>1 DEF WriteBegin, Shown, SavedFor, Remembered
<1>2. CASE WriteForget
  <2>1. /\ staged = Shown(oldServer)
        /\ server \in Listens
        /\ staged' = IF oldServer # server
                     THEN [staged EXCEPT !.servers = @ \ {oldServer}]
                     ELSE staged
        /\ UNCHANGED <<user, oldServer, server>>
    BY <1>2 DEF WriteForget, TypeOK
  <2>2. staged' = [servers |-> user.servers \union ({oldServer} \intersect {server}),
                   opts    |-> Shown(oldServer).opts]
    <3>1. CASE oldServer = NoServer
      BY <1>0, <2>1, <3>1 DEF Shown
    <3>2. CASE oldServer # NoServer
      <4>1. oldServer \in Listens
        BY <3>2 DEF TypeOK
      <4>2. QED  BY <1>0, <2>1, <3>2, <4>1 DEF Shown, Handoff!WithNeto
    <3>3. QED  BY <3>1, <3>2
  <2>3. Shown(oldServer)' = Shown(oldServer)
    BY <2>1 DEF Shown
  <2>4. QED  BY <1>2, <2>1, <2>2, <2>3 DEF WriteForget, Shown, SavedFor, Remembered
<1>3. CASE WriteServerState
  BY <1>3 DEF WriteServerState, Shown, SavedFor, Remembered
<1>4. CASE WriteOptionState("noresolv", "w_noresolv", "w_addsubnet")
  <2>1. /\ pc = "w_noresolv" /\ pc' = "w_addsubnet"
        /\ server \in Listens
        /\ savedOpts \in [Options -> SavedValues]
        /\ UNCHANGED <<user, staged, flash, resolver, savedServer, oldServer, server>>
    BY <1>4 DEF WriteOptionState, TypeOK
  <2>2. oldServer = NoServer => SavedForm("noresolv") = Remembered("noresolv")
    <3>1. oldServer = NoServer => staged.servers = user.servers /\ staged.opts = user.opts
      BY <1>0, <2>1 DEF Shown
    <3>2. QED  BY <1>0, <2>1, <3>1, SavedFormIsRemembered
  <2>3. oldServer # NoServer => savedOpts["noresolv"] = Remembered("noresolv")
    BY <2>1 DEF SavedFor
  <2>4. Remembered("noresolv") # "none"
    BY <1>0, ConfigsAreDhcp DEF Remembered, TypeOK, Handoff!OptionValues
  <2>5. /\ savedOpts'["noresolv"] = Remembered("noresolv")
        /\ savedOpts'["addsubnet"] = savedOpts["addsubnet"]
    BY <1>0, <1>4, <2>1, <2>2, <2>3, <2>4 DEF WriteOptionState, SavedFor
  <2>6. QED  BY <2>1, <2>5 DEF Shown, SavedFor, Remembered
<1>5. CASE WriteOptionState("addsubnet", "w_addsubnet", "w_stage")
  <2>1. /\ pc = "w_addsubnet" /\ pc' = "w_stage"
        /\ server \in Listens
        /\ savedOpts \in [Options -> SavedValues]
        /\ UNCHANGED <<user, staged, flash, resolver, savedServer, oldServer, server>>
    BY <1>5 DEF WriteOptionState, TypeOK
  <2>2. oldServer = NoServer => SavedForm("addsubnet") = Remembered("addsubnet")
    <3>1. oldServer = NoServer => staged.servers = user.servers /\ staged.opts = user.opts
      BY <1>0, <2>1 DEF Shown
    <3>2. QED  BY <1>0, <2>1, <3>1, SavedFormIsRemembered
  <2>3. oldServer # NoServer => savedOpts["addsubnet"] = Remembered("addsubnet")
    BY <2>1 DEF SavedFor
  <2>4. Remembered("addsubnet") # "none"
    BY <1>0, ConfigsAreDhcp DEF Remembered, TypeOK, Handoff!OptionValues
  <2>5. /\ savedOpts'["addsubnet"] = Remembered("addsubnet")
        /\ savedOpts'["noresolv"] = savedOpts["noresolv"]
    BY <1>0, <1>5, <2>1, <2>2, <2>3, <2>4 DEF WriteOptionState, SavedFor
  <2>6. QED  BY <2>1, <2>5 DEF Shown, SavedFor, Remembered
<1>6. CASE WriteStage
  <2>1. staged.servers = user.servers \union ({oldServer} \intersect {server})
    BY <1>6 DEF WriteStage
  <2>2. server \in Listens /\ server # NoServer
    BY <1>0, <1>6 DEF WriteStage, TypeOK
  <2>3. staged' = Handoff!WithNeto(user, server)
    BY <1>6, <2>1, <2>2 DEF WriteStage, Handoff!WithNeto, Options
  <2>4. QED  BY <1>6, <2>2, <2>3 DEF WriteStage, Shown, SavedFor, Remembered
<1>7. CASE Commit("w_commit", "w_reload")
  BY <1>7 DEF Commit, Shown, SavedFor, Remembered
<1>8. CASE Reload("w_reload", FALSE)
  BY <1>0, <1>8 DEF Reload, Shown, SavedFor, Remembered, TypeOK
<1>9. CASE RemoveBegin
  BY <1>9 DEF RemoveBegin, Shown, SavedFor, Remembered
<1>10. CASE RemoveStage
  <2>1. /\ staged = Shown(oldServer)
        /\ UNCHANGED <<user, flash, resolver, savedServer, savedOpts, oldServer, server>>
        /\ \A o \in Options : savedOpts[o] = SavedFor(o, oldServer)
        /\ server \in Listens /\ DefaultListen \in Listens
        /\ oldServer \in Listens \union {NoServer}
    BY <1>0, <1>10, TakeoverAssumption DEF RemoveStage, TypeOK
  <2>2. staged.servers \ {server, oldServer, DefaultListen} = user.servers
    BY <1>0, <2>1 DEF Shown, Handoff!WithNeto
  <2>3. oldServer = NoServer => staged.opts = user.opts
    BY <2>1 DEF Shown
  <2>4. \A o \in Options : RestoredForm(o, user.servers) = user.opts[o]
    BY <1>10, <2>1, <2>3, RestoredFormIsUsers DEF RemoveStage
  <2>5. staged' = user
    BY <1>0, <1>10, <2>2, <2>4 DEF RemoveStage
  <2>6. QED  BY <1>10, <2>1, <2>5 DEF RemoveStage, Shown, SavedFor, Remembered
<1>11. CASE RemoveServerState
  BY <1>11 DEF RemoveServerState, Shown, SavedFor, Remembered
<1>12. CASE RemoveOptionState("noresolv", "r_noresolv", "r_addsubnet")
  BY <1>0, <1>12 DEF RemoveOptionState, Shown, SavedFor, Remembered, TypeOK
<1>13. CASE RemoveOptionState("addsubnet", "r_addsubnet", "r_commit")
  BY <1>0, <1>13 DEF RemoveOptionState, Shown, SavedFor, Remembered, TypeOK
<1>14. CASE Commit("r_commit", "r_reload")
  BY <1>14 DEF Commit, Shown, SavedFor, Remembered
<1>15. CASE Reload("r_reload", TRUE)
  BY <1>0, <1>15 DEF Reload, Shown, SavedFor, Remembered, TypeOK
<1>16. CASE EditNeto
  BY <1>16 DEF EditNeto, Shown, SavedFor, Remembered
<1>17. ASSUME NEW own \in UserConfigs, Administer(own)
       PROVE  TakeoverInv'
  <2>1. /\ pc = "idle" /\ pc' = "idle"
        /\ user' = own
        /\ oldServer = NoServer /\ oldServer' = NoServer
        /\ UNCHANGED <<savedServer, savedOpts>>
        /\ staged = Shown(savedServer) /\ flash = Shown(savedServer)
        /\ savedServer \in Listens \union {NoServer}
    BY <1>17 DEF Administer, TypeOK
  <2>2. own = [servers |-> own.servers, opts |-> own.opts]
    BY ConfigsAreDhcp DEF Dhcp, Handoff!Dhcp
  <2>3. DEFINE Edited(d) ==
          [servers |-> (d.servers \ user.servers) \union own.servers,
           opts    |-> IF own.opts = user.opts THEN d.opts ELSE own.opts]
  <2>4. /\ staged' = Edited(staged)
        /\ flash' = Edited(flash)
        /\ resolver' = Edited(flash)
    BY <1>17 DEF Administer
  <2>5. CASE savedServer = NoServer
    <3>1. Edited(user) = own
      BY <2>2
    <3>2. Shown(savedServer)' = own
      BY <2>1, <2>5 DEF Shown
    <3>3. staged = user /\ flash = user
      BY <2>1, <2>5 DEF Shown
    <3>4. QED  BY <2>1, <2>4, <2>5, <3>1, <3>2, <3>3 DEF SavedFor
  <2>6. CASE savedServer # NoServer
    <3>1. savedServer \in Listens
      BY <2>1, <2>6
    <3>2. own.opts = user.opts
      <4>1. user.opts["noresolv"] \in Handoff!OptionValues
        BY <1>0, ConfigsAreDhcp DEF TypeOK
      <4>2. savedOpts["noresolv"] # "none"
        BY <1>0, <2>1, <2>6, <4>1 DEF SavedFor, Remembered, Handoff!OptionValues
      <4>3. QED  BY <1>0, <1>17, <4>2 DEF Administer
    <3>3. Edited(Handoff!WithNeto(user, savedServer)) = Handoff!WithNeto(own, savedServer)
      BY <1>0, <3>1, <3>2 DEF Handoff!WithNeto
    <3>4. Shown(savedServer)' = Handoff!WithNeto(own, savedServer)
      BY <2>1, <2>6 DEF Shown, Handoff!WithNeto
    <3>5. /\ staged = Handoff!WithNeto(user, savedServer)
          /\ flash = Handoff!WithNeto(user, savedServer)
      BY <2>1, <2>6 DEF Shown
    <3>6. /\ staged' = Shown(savedServer)'
          /\ flash' = Shown(savedServer)'
          /\ resolver' = Shown(savedServer)'
      BY <2>4, <3>3, <3>4, <3>5
    <3>7. \A o \in Options : SavedFor(o, savedServer)' = SavedFor(o, savedServer)
      BY <2>1, <3>2 DEF SavedFor, Remembered
    <3>8. QED  BY <1>0, <2>1, <2>6, <3>6, <3>7
  <2>7. QED  BY <2>5, <2>6
<1>18. CASE UNCHANGED vars
  BY <1>18 DEF vars, Shown, SavedFor, Remembered
<1>19. QED
  BY <1>1, <1>2, <1>3, <1>4, <1>5, <1>6, <1>7, <1>8, <1>9, <1>10, <1>11, <1>12,
     <1>13, <1>14, <1>15, <1>16, <1>17, <1>18
  DEF Next, Write, Remove, Environment, Reboot

\* The invariant of the take-over holds throughout every behaviour without power loss.
THEOREM TakeoverInvariant ==
  ASSUME PlainUsers, ~PowerLoss
  PROVE  Spec => []TakeoverInv
<1>1. TypeOK /\ TakeoverInv /\ [Next]_vars => TakeoverInv'
  BY TakeoverInvNext
<1>2. QED  BY <1>1, TakeoverInvInit, TypeCorrect, PTL DEF Spec

\* Whatever listeners were configured, attached and reconfigured, in whatever
\* order starts and stops came: after neto_remove_dnsmasq the configuration of
\* dnsmasq is the administrator's.
THEOREM Restores ==
  ASSUME PlainUsers, ~PowerLoss
  PROVE  Spec => []RestoresUser
<1>1. TakeoverInv => RestoresUser
  BY DEF TakeoverInv, ResolverInv, RestoresUser, Shown
<1>2. QED  BY <1>1, TakeoverInvariant, PTL

\* The state files hold the administrator's options and never neto's own.
THEOREM Remembers ==
  ASSUME PlainUsers, ~PowerLoss
  PROVE  Spec => []OriginalsRemembered
<1>1. TakeoverInv => OriginalsRemembered
  BY DEF TakeoverInv, SavedOptsInv, SavedOptInv, SavedFor, Remembered,
         OriginalsRemembered, Options, Handoff!Options
<1>2. QED  BY <1>1, TakeoverInvariant, PTL

-------------------------------------------------------------------------------
(* Refinement: the two functions implement the abstract handoff. *)

LEMMA ReloadRefines ==
  ASSUME TypeOK, TakeoverInv, pc \in {"w_reload", "r_reload"},
         resolver' = flash, UNCHANGED user
  PROVE  \/ \E l \in Listens : Handoff!Attach(l)
         \/ Handoff!Detach
<1>1. server \in Listens
  BY DEF TypeOK
<1>2. CASE pc = "w_reload"
  <2>1. flash = Handoff!WithNeto(user, server)
    BY <1>1, <1>2, TakeoverAssumption DEF TakeoverInv, FlashInv, Shown
  <2>2. QED  BY <1>1, <2>1 DEF Handoff!Attach
<1>3. CASE pc = "r_reload"
  BY <1>1, <1>3 DEF TakeoverInv, FlashInv, Handoff!Detach
<1>4. QED  BY <1>2, <1>3

LEMMA AdministerRefines ==
  ASSUME TypeOK, TakeoverInv, NEW own \in UserConfigs, Administer(own)
  PROVE  Handoff!Administer(own)
<1>1. /\ user' = own
      /\ savedServer \in Listens \union {NoServer}
      /\ flash = Shown(savedServer)
      /\ resolver = Shown(savedServer)
      /\ \A u \in {user, own} :
           /\ u.servers \intersect Listens = {}
           /\ u = [servers |-> u.servers, opts |-> u.opts]
  BY ConfigsAreDhcp, TakeoverAssumption
  DEF Administer, At, TypeOK, TakeoverInv, FlashInv, ResolverInv, Dhcp, Handoff!Dhcp,
      Handoff!HandoffAssumption
<1>2. resolver' = [servers |-> (flash.servers \ user.servers) \union own.servers,
                   opts    |-> IF own.opts = user.opts THEN flash.opts ELSE own.opts]
  BY DEF Administer
<1>3. CASE savedServer = NoServer
  <2>1. resolver = user /\ flash = user
    BY <1>1, <1>3 DEF Shown
  <2>2. resolver' = own
    BY <1>1, <1>2, <2>1
  <2>3. QED  BY <1>1, <2>1, <2>2 DEF Handoff!Administer
<1>4. CASE savedServer # NoServer
  <2>1. savedServer \in Listens
    BY <1>1, <1>4
  <2>2. /\ resolver = Handoff!WithNeto(user, savedServer)
        /\ flash = Handoff!WithNeto(user, savedServer)
    BY <1>1, <1>4 DEF Shown
  <2>3. own.opts = user.opts
    <3>1. user.opts["noresolv"] \in Handoff!OptionValues
      BY ConfigsAreDhcp DEF TypeOK, Options, Handoff!Options
    <3>2. savedOpts["noresolv"] # "none"
      BY <1>4, <3>1
      DEF Administer, At, TakeoverInv, SavedOptsInv, SavedOptInv, SavedFor, Remembered,
          Handoff!OptionValues
    <3>3. QED  BY <3>2 DEF Administer, Options, Handoff!Options
  <2>4. resolver' = Handoff!WithNeto(own, savedServer)
    BY <1>1, <1>2, <2>1, <2>2, <2>3 DEF Handoff!WithNeto
  <2>5. QED  BY <1>1, <2>1, <2>2, <2>3, <2>4 DEF Handoff!Administer
<1>5. QED  BY <1>3, <1>4

\* Every behaviour of the scripts is a behaviour of DnsHandoff: the dnsmasq
\* process only ever runs with the administrator's configuration, or with it and
\* exactly one listener of neto in front.
THEOREM TakeoverImplementsHandoff ==
  ASSUME PlainUsers, ~PowerLoss
  PROVE  Spec => ImplementsHandoff
<1>1. Init => Handoff!Init
  BY DEF Init, Handoff!Init
<1>2. TypeOK /\ TakeoverInv /\ [Next]_vars => [Handoff!Next]_(Handoff!handoffVars)
  <2> SUFFICES ASSUME TypeOK, TakeoverInv, [Next]_vars
               PROVE  [Handoff!Next]_(Handoff!handoffVars)
    OBVIOUS
  <2>1. CASE UNCHANGED <<resolver, user>>
    BY <2>1 DEF Handoff!handoffVars
  <2>2. CASE Reload("w_reload", FALSE)
    <3>1. pc = "w_reload" /\ resolver' = flash /\ UNCHANGED user
      BY <2>2 DEF Reload, At
    <3>2. QED  BY <3>1, ReloadRefines DEF Handoff!Next
  <2>3. CASE Reload("r_reload", TRUE)
    <3>1. pc = "r_reload" /\ resolver' = flash /\ UNCHANGED user
      BY <2>3 DEF Reload, At
    <3>2. QED  BY <3>1, ReloadRefines DEF Handoff!Next
  <2>4. ASSUME NEW own \in UserConfigs, Administer(own)
        PROVE  Handoff!Next
    BY <2>4, AdministerRefines DEF Handoff!Next
  <2>5. QED
    BY <2>1, <2>2, <2>3, <2>4
    DEF Next, Write, Remove, Environment, WriteBegin, WriteForget, WriteServerState,
        WriteOptionState, WriteStage, Commit, RemoveBegin, RemoveStage,
        RemoveServerState, RemoveOptionState, EditNeto, Reboot, vars
<1>3. QED
  BY <1>1, <1>2, TypeCorrect, TakeoverInvariant, PTL
  DEF Spec, ImplementsHandoff, Handoff!Spec
-------------------------------------------------------------------------------
(* What is left when neto_remove_dnsmasq has completed. *)

\* dnsmasq does not forward to neto's default listener, and is not told to ignore
\* resolv.conf without a server to ask.
Clean(d) ==
  /\ DefaultListen \notin d.servers
  /\ d.opts["noresolv"] = "neto" => d.servers # {}

\* Along neto_remove_dnsmasq the staged, then the committed, then the running
\* configuration is clean.  A power loss in between ends the run, and what was
\* committed before it stays; `released` then says that the run did not complete.
ReleasingInv ==
  /\ pc \in {"r_server", "r_noresolv", "r_addsubnet", "r_commit", "r_reload"} => Clean(staged)
  /\ pc = "r_reload" => Clean(flash)
  /\ released /\ pc = "idle" => Clean(flash) /\ Clean(resolver)

\* What neto_remove_dnsmasq stages: an option that would strand dnsmasq is dropped.
LEMMA RemoveStageCleans ==
  ASSUME RemoveStage
  PROVE  Clean(staged')
<1> DEFINE kept == staged.servers \ {server, oldServer, DefaultListen}
<1>1. /\ staged'.servers = kept
      /\ staged'.opts["noresolv"] = RestoredForm("noresolv", kept)
  BY DEF RemoveStage, Options, Handoff!Options
<1>2. ASSUME RestoredForm("noresolv", kept) = "neto"
      PROVE  HasNonNetoServer(kept)
  <2> HIDE DEF kept
  <2> QED  BY <1>2 DEF RestoredForm
<1>3. QED  BY <1>1, <1>2 DEF Clean, HasNonNetoServer

LEMMA ReleasingNext == ReleasingInv /\ [Next]_vars => ReleasingInv'
<1> SUFFICES ASSUME ReleasingInv, [Next]_vars PROVE ReleasingInv'
  OBVIOUS
<1> USE DEF ReleasingInv, At, Goto, config, files, locals
<1>1. CASE Write
  BY <1>1 DEF Write, WriteBegin, WriteForget, WriteServerState, WriteOptionState,
              WriteStage, Commit, Reload
<1>2. CASE RemoveBegin
  BY <1>2 DEF RemoveBegin
<1>3. CASE RemoveStage
  BY <1>3, RemoveStageCleans DEF RemoveStage
<1>4. CASE \/ RemoveServerState
           \/ RemoveOptionState("noresolv", "r_noresolv", "r_addsubnet")
           \/ RemoveOptionState("addsubnet", "r_addsubnet", "r_commit")
  BY <1>4 DEF RemoveServerState, RemoveOptionState, Clean
<1>5. CASE Commit("r_commit", "r_reload")
  BY <1>5 DEF Commit, Clean
<1>6. CASE Reload("r_reload", TRUE)
  BY <1>6 DEF Reload, Clean
<1>7. CASE EditNeto
  BY <1>7 DEF EditNeto, Clean
<1>8. ASSUME NEW own \in UserConfigs, Administer(own)
      PROVE  ReleasingInv'
  BY <1>8 DEF Administer
<1>9. CASE Reboot
  BY <1>9 DEF Reboot, Clean
<1>10. CASE UNCHANGED vars
  BY <1>10 DEF vars, Clean
<1>11. QED
  BY <1>1, <1>2, <1>3, <1>4, <1>5, <1>6, <1>7, <1>8, <1>9, <1>10 DEF Next, Remove, Environment

\* After every completed neto_remove_dnsmasq, whatever power losses came before and
\* whichever listeners neto has had, the default listener is not asked any more and
\* dnsmasq has somewhere to ask.
LEMMA ReleasingInvariant == Spec => []ReleasingInv
<1>1. Init => ReleasingInv
  BY DEF Init, ReleasingInv
<1>2. QED  BY <1>1, ReleasingNext, PTL DEF Spec

\* Without power loss a completed release has also removed every state file, until
\* the next start.
ForgottenInv ==
  released => /\ savedServer = NoServer
              /\ pc \in {"idle"} \union Removing

LEMMA ForgottenNext ==
  ASSUME ~PowerLoss, TypeOK, TakeoverInv, ForgottenInv, [Next]_vars
  PROVE  ForgottenInv'
<1> USE DEF ForgottenInv, Removing, At, Goto, config, files, locals
<1>1. CASE Write
  BY <1>1 DEF Write, WriteBegin, WriteForget, WriteServerState, WriteOptionState,
              WriteStage, Commit, Reload
<1>2. CASE Remove
  BY <1>2 DEF Remove, RemoveBegin, RemoveStage, RemoveServerState, RemoveOptionState,
              Commit, Reload, TakeoverInv, SavedServerInv
<1>3. CASE EditNeto
  BY <1>3 DEF EditNeto
<1>4. ASSUME NEW own \in UserConfigs, Administer(own)
      PROVE  ForgottenInv'
  BY <1>4 DEF Administer
<1>5. CASE UNCHANGED vars
  BY <1>5 DEF vars
<1>6. QED
  BY <1>1, <1>2, <1>3, <1>4, <1>5 DEF Next, Environment, Reboot

LEMMA ForgottenInvariant ==
  ASSUME PlainUsers, ~PowerLoss
  PROVE  Spec => []ForgottenInv
<1>1. Init => ForgottenInv
  BY DEF Init, ForgottenInv
<1>2. TypeOK /\ TakeoverInv /\ ForgottenInv /\ [Next]_vars => ForgottenInv'
  BY ForgottenNext
<1>3. QED  BY <1>1, <1>2, TypeCorrect, TakeoverInvariant, PTL DEF Spec

\* A completed neto_remove_dnsmasq leaves dnsmasq with no listener of neto and with
\* a server to ask: through power losses at any command if neto only ever listened on
\* the default address, and on any listeners if the power stays on.
THEOREM Released ==
  ASSUME \/ Listens = {DefaultListen}
         \/ PlainUsers /\ ~PowerLoss
  PROVE  Spec => []ReleasedClean
<1>1. CASE Listens = {DefaultListen}
  <2>1. ReleasingInv => ReleasedClean
    BY <1>1 DEF ReleasingInv, Clean, ReleasedClean
  <2>2. QED  BY <2>1, ReleasingInvariant, PTL
<1>2. CASE PlainUsers /\ ~PowerLoss
  <2>1. TypeOK /\ TakeoverInv /\ ForgottenInv /\ ReleasingInv => ReleasedClean
    <3> SUFFICES ASSUME TypeOK, TakeoverInv, ForgottenInv, ReleasingInv, released, pc = "idle"
                 PROVE  /\ resolver.servers \intersect Listens = {}
                        /\ resolver.opts["noresolv"] = "neto" => resolver.servers # {}
      BY DEF ReleasedClean
    <3>1. resolver = user
      BY DEF ForgottenInv, TakeoverInv, ResolverInv, Shown
    <3>2. user.servers \intersect Listens = {}
      BY ConfigsAreDhcp, TakeoverAssumption DEF TypeOK, Handoff!HandoffAssumption
    <3>3. QED  BY <3>1, <3>2 DEF ReleasingInv, Clean
  <2>2. Spec => []TakeoverInv
    BY <1>2, TakeoverInvariant
  <2>3. Spec => []ForgottenInv
    BY <1>2, ForgottenInvariant
  <2>4. QED  BY <2>1, <2>2, <2>3, TypeCorrect, ReleasingInvariant, PTL
<1>3. QED  BY <1>1, <1>2
===============================================================================
