------------------------------- MODULE Lifecycle -------------------------------
(***************************************************************************)
(* The neto service over its life: /etc/init.d/neto (start, stop, restart, *)
(* reload), the netod commands it calls (check, compile, ready, apply),    *)
(* procd, which runs netod and sing-box, and the kernel and dnsmasq state  *)
(* the service exposes the LAN to.                                         *)
(*                                                                         *)
(* A script invocation waits in `queued` for procd's per-service lock and  *)
(* then runs command by command.  Between two commands the administrator   *)
(* may change /etc/config/neto, procd may start a daemon, a daemon may     *)
(* die, and the router may reboot.  The shell reads the configuration once *)
(* per function (`conf`), every netod command reads it again (`app`).      *)
(*                                                                         *)
(* A configuration is a record with the options the control flow depends   *)
(* on: `enabled`; `valid`, LoadFile and the generators accept it; `listen`,*)
(* dns_listen; `mark`, the pair of mark and table; `manage`,               *)
(* manage_dnsmasq; `jobs`, some subscription or provider is updated by     *)
(* cron.  dnsmasq is seen as DnsHandoff promises it: with one listener of  *)
(* neto in front, or none.                                                 *)
(***************************************************************************)

EXTENDS Naturals

CONSTANTS
  Listens, Marks,
  None,           \* no listener, no mark
  Dead,           \* netod after procd has given up respawning it
  Configs,        \* the configurations the administrator may save
  CommandsFail,   \* may nft, ip or `sing-box check` fail for a valid configuration?
  Linger,         \* may a daemon still answer after procd told it to terminate?
  MaxEdits,       \* bound on changes of the configuration
  MaxFaults       \* bound on daemon crashes, reboots and failed deletions

VARIABLES
  cfg,            \* /etc/config/neto
  conf,           \* the copy of the shell function that is running (config_load)
  app,            \* the copy of the netod command that is running (LoadFile)
  pc,             \* next command of the running script, or "idle"
  op,             \* what the running script was called with
  queued,         \* invocations that wait for the lock
  svc,            \* procd: "none", or an instance set, "empty" or "full"
  netod,          \* where netod serves DNS; None until procd starts it
  sing,           \* does sing-box run?
  dying,          \* where netods that were told to terminate still serve
  dyingSing,      \* is there a sing-box that was told to terminate?
  nft,            \* the marks that table inet neto sets, {} without the table
  rules, routes,  \* marks with an `ip rule`, with a local route in their table
  stuck,          \* history: what a failed deletion left, until one succeeds
  dns,            \* neto's listener in dnsmasq, None without
  cron,           \* is neto's block in the crontab?
  probed,         \* history: the listener that answered this run's probe
  edited,         \* history: configuration changed since conf was read
  edits, faults   \* used of MaxEdits, MaxFaults

admin   == <<cfg, edits>>
script  == <<conf, app, pc, op, probed>>
procd   == <<svc, netod, sing, dying, dyingSing>>
routing == <<rules, routes, stuck>>
vars    == <<cfg, conf, app, pc, op, queued, svc, netod, sing, dying, dyingSing,
             nft, rules, routes, stuck, dns, cron, probed, edited, edits, faults>>

ASSUME LifecycleAssumption ==
  /\ None \notin Listens \union Marks
  /\ Dead \notin Listens \union {None}
  /\ Configs \subseteq [enabled : BOOLEAN, valid : BOOLEAN, listen : Listens,
                        mark : Marks, manage : BOOLEAN, jobs : BOOLEAN]
  /\ CommandsFail \in BOOLEAN /\ Linger \in BOOLEAN

Ops == {"start", "stop", "restart", "reload"}

StartSteps == {"b_load", "b_check", "b_compile", "b_sbcheck", "b_full", "b_empty",
               "g_load", "g_ready", "g_probe"}
ApplySteps == {"a_load", "a_off", "a_offroute", "a_compile", "a_delete", "a_nft",
               "a_rule", "a_route", "a_undo", "a_undoroute"}
StopSteps  == {"s_load", "s_nft", "s_rule", "s_route", "s_dns", "s_cron", "s_kill"}
Steps      == StartSteps \union ApplySteps \union StopSteps
                \union {"h_dns", "h_cron", "idle"}

TypeOK ==
  /\ cfg \in Configs /\ conf \in Configs /\ app \in Configs
  /\ pc \in Steps /\ op \in Ops
  /\ queued \subseteq Ops
  /\ svc \in {"none", "empty", "full"}
  /\ netod \in Listens \union {None, Dead} /\ sing \in BOOLEAN
  /\ svc # "full" => netod = None /\ sing = FALSE
  /\ dying \subseteq Listens /\ dyingSing \in BOOLEAN
  /\ nft \subseteq Marks /\ rules \subseteq Marks /\ routes \subseteq Marks
  /\ stuck \subseteq {"table", "rule", "route"}
  /\ dns \in Listens \union {None}
  /\ cron \in BOOLEAN
  /\ probed \in Listens \union {None} /\ edited \in BOOLEAN

\* Installed, not yet started.
Init ==
  /\ cfg \in Configs /\ conf = cfg /\ app = cfg
  /\ pc = "idle" /\ op = "stop" /\ queued = {}
  /\ svc = "none" /\ netod = None /\ sing = FALSE
  /\ dying = {} /\ dyingSing = FALSE
  /\ nft = {} /\ rules = {} /\ routes = {} /\ stuck = {}
  /\ dns = None /\ cron = FALSE
  /\ probed = None /\ edited = FALSE
  /\ edits = 0 /\ faults = 0

At(step)   == pc = step
Goto(step) == pc' = step

-------------------------------------------------------------------------------
(* rc.common: who runs next *)

\* The copies of a finished run are forgotten.
Done == /\ Goto("idle") /\ op' = "stop"
        /\ conf' = cfg /\ app' = cfg
        /\ probed' = None /\ edited' = FALSE

Begin(o) ==
  /\ At("idle") /\ o \in queued
  /\ queued' = queued \ {o}
  /\ op' = o
  /\ Goto(IF o \in {"stop", "restart"} THEN "s_load" ELSE "b_load")
  /\ UNCHANGED <<admin, conf, app, probed, procd, nft, routing, dns, cron, edited, faults>>

-------------------------------------------------------------------------------
(* start_service: what is submitted to procd *)

\* procd terminates the daemons of an instance set that is replaced or deleted.
Terminate ==
  /\ netod' = None /\ sing' = FALSE
  /\ dying' = IF Linger THEN dying \union ({netod} \intersect Listens) ELSE dying
  /\ dyingSing' = (dyingSing \/ (Linger /\ sing))

\* Mutated form of StartLoad: a service that is disabled is only not started.
StartLoadKeep ==
  /\ At("b_load")
  /\ conf' = cfg
  /\ Goto(IF cfg.enabled THEN "b_check" ELSE "b_empty")
  /\ UNCHANGED <<admin, app, op, probed, queued, procd, nft, routing, dns, cron, edited, faults>>

\* A service that is disabled is cleaned up like one that is stopped.
StartLoad ==
  /\ At("b_load")
  /\ conf' = cfg
  /\ Goto(IF cfg.enabled THEN "b_check" ELSE "s_load")
  /\ UNCHANGED <<admin, app, op, probed, queued, procd, nft, routing, dns, cron, edited, faults>>

\* netod check, netod compile: each reads the configuration afresh.
StartValidate(step, next) ==
  /\ At(step)
  /\ \/ cfg.valid /\ Goto(next)
     \/ (~cfg.valid \/ CommandsFail) /\ Goto("b_empty")
  /\ UNCHANGED <<admin, conf, app, op, probed, queued, procd, nft, routing, dns, cron, edited, faults>>

\* sing-box check, of the file that `netod compile` wrote.
StartSingBoxCheck ==
  /\ At("b_sbcheck")
  /\ \/ Goto("b_full")
     \/ CommandsFail /\ Goto("b_empty")
  /\ UNCHANGED <<admin, conf, app, op, probed, queued, procd, nft, routing, dns, cron, edited, faults>>

\* Two instances.  procd keeps a daemon that runs, its command is unchanged,
\* and restarts one it had given up.
SubmitInstances ==
  /\ At("b_full")
  /\ svc' = "full"
  /\ netod' = IF netod = Dead THEN None ELSE netod
  /\ Goto("g_load")
  /\ UNCHANGED <<admin, conf, app, op, probed, queued, sing, dying, dyingSing,
                 nft, routing, dns, cron, edited, faults>>

\* Mutated form of SubmitEmpty: the instance set goes, its daemons stay.
SubmitNothing ==
  /\ At("b_empty")
  /\ svc' = "empty"
  /\ Goto("g_load")
  /\ UNCHANGED <<admin, conf, app, op, probed, queued, netod, sing, dying,
                 dyingSing, nft, routing, dns, cron, edited, faults>>

\* start_service returned early: rc.common submits an empty instance set.
SubmitEmpty ==
  /\ At("b_empty")
  /\ svc' = "empty" /\ Terminate
  /\ Goto("g_load")
  /\ UNCHANGED <<admin, conf, app, op, probed, queued, nft, routing, dns, cron, edited, faults>>

-------------------------------------------------------------------------------
(* service_started: readiness, then exposure *)

\* Mutated form of StartedLoad: apply comes before the readiness probe.
StartedLoadApply ==
  /\ At("g_load")
  /\ \/ /\ cfg.enabled
        /\ conf' = cfg /\ edited' = FALSE
        /\ Goto("a_load") /\ UNCHANGED <<app, op, probed>>
     \/ ~cfg.enabled /\ Done
  /\ UNCHANGED <<admin, queued, procd, nft, routing, dns, cron, faults>>

StartedLoad ==
  /\ At("g_load")
  /\ \/ /\ cfg.enabled
        /\ conf' = cfg /\ edited' = FALSE
        /\ Goto("g_ready") /\ UNCHANGED <<app, op, probed>>
     \/ ~cfg.enabled /\ Done
  /\ UNCHANGED <<admin, queued, procd, nft, routing, dns, cron, faults>>

\* netod ready reads the configuration ...
ReadyLoad ==
  /\ At("g_ready")
  /\ \/ /\ cfg.valid /\ cfg.enabled
        /\ app' = cfg
        /\ Goto("g_probe") /\ UNCHANGED <<conf, op, probed, edited>>
     \/ ~(cfg.valid /\ cfg.enabled) /\ Done
  /\ UNCHANGED <<admin, queued, procd, nft, routing, dns, cron, faults>>

\* A query sent to l is answered through netod and sing-box.
Answers(l) == /\ netod = l \/ l \in dying
              /\ sing \/ dyingSing

\* ... and probes the listener until it answers or 30 s have passed; it may
\* fail to answer although the daemons run, when the resolver is unreachable.
ReadyProbe ==
  /\ At("g_probe")
  /\ \/ /\ Answers(app.listen)
        /\ probed' = app.listen
        /\ Goto("a_load") /\ UNCHANGED <<conf, app, op, edited>>
     \/ Done
  /\ UNCHANGED <<admin, queued, procd, nft, routing, dns, cron, faults>>

\* neto_write_dnsmasq: DnsHandoff's Attach(conf.listen).
WriteDnsmasq ==
  /\ At("h_dns")
  /\ dns' = IF conf.manage THEN conf.listen ELSE dns
  /\ Goto("h_cron")
  /\ UNCHANGED <<admin, conf, app, op, probed, queued, procd, nft, routing, cron, edited, faults>>

\* neto_write_cron, the last command of service_started.
WriteCron ==
  /\ At("h_cron")
  /\ cron' = conf.jobs
  /\ Done
  /\ UNCHANGED <<admin, queued, procd, nft, routing, dns, faults>>

-------------------------------------------------------------------------------
(* netod apply *)

\* A disabled service is removed from the kernel, and apply succeeds.
ApplyLoad ==
  /\ At("a_load")
  /\ \/ /\ cfg.valid
        /\ app' = cfg
        /\ Goto(IF cfg.enabled THEN "a_compile" ELSE "a_off")
        /\ UNCHANGED <<conf, op, probed, edited>>
     \/ ~cfg.valid /\ Done
  /\ UNCHANGED <<admin, queued, procd, nft, routing, dns, cron, faults>>

\* A deletion fails although there is something to delete; no caller looks.
DeleteFails == CommandsFail /\ faults < MaxFaults /\ faults' = faults + 1

\* deleteNftTable, before the new table, when disabled and after a failure.
DeleteTable(step, next) ==
  /\ At(step)
  /\ \/ nft' = {} /\ stuck' = stuck \ {"table"} /\ UNCHANGED faults
     \/ /\ nft # {} /\ DeleteFails
        /\ stuck' = stuck \union {"table"} /\ UNCHANGED nft
  /\ Goto(next)
  /\ UNCHANGED <<admin, conf, app, op, probed, queued, procd, rules, routes, dns, cron, edited>>

\* cleanupRouting: the rules, then the route, up to the first command that fails.
CleanupRouting ==
  \/ /\ rules' = rules \ {app.mark} /\ routes' = routes \ {app.mark}
     /\ stuck' = stuck \ {"rule", "route"} /\ UNCHANGED faults
  \/ /\ app.mark \in rules \union routes /\ DeleteFails
     /\ rules' \in {rules, rules \ {app.mark}} /\ UNCHANGED routes
     /\ stuck' = stuck \union {"rule", "route"}

\* ... when disabled: the configuration that was loaded first decides.
ApplyOffRouting ==
  /\ At("a_offroute")
  /\ CleanupRouting
  /\ Goto("h_dns")
  /\ UNCHANGED <<admin, conf, app, op, probed, queued, procd, nft, dns, cron, edited>>

\* compile reads the configuration again, whether or not it is still enabled;
\* then `nft -c`.
ApplyCompile ==
  /\ At("a_compile")
  /\ \/ /\ cfg.valid
        /\ app' = cfg
        /\ Goto("a_delete") /\ UNCHANGED <<conf, op, probed, edited>>
     \/ (~cfg.valid \/ CommandsFail) /\ Done
  /\ UNCHANGED <<admin, queued, procd, nft, routing, dns, cron, faults>>

\* nft -f adds to a table that could not be deleted.
ApplyNft ==
  /\ At("a_nft")
  /\ \/ /\ nft' = nft \union {app.mark}
        /\ Goto("a_rule") /\ UNCHANGED <<conf, app, op, probed, edited>>
     \/ CommandsFail /\ Done /\ UNCHANGED nft
  /\ UNCHANGED <<admin, queued, procd, routing, dns, cron, faults>>

\* ensureRouting: `ip rule show` and `ip route show`, which may fail, then the
\* commands of PlanEnsure, for what is missing.
ApplyRule ==
  /\ At("a_rule")
  /\ \/ rules' = rules \union {app.mark} /\ Goto("a_route")
     \/ CommandsFail /\ Goto("a_undo") /\ UNCHANGED rules
  /\ UNCHANGED <<admin, conf, app, op, probed, queued, procd, nft, routes, stuck, dns, cron, edited, faults>>

\* Mutated form of ApplyRoute: the table stays when the route cannot be added.
ApplyRouteKeepTable ==
  /\ At("a_route")
  /\ \/ /\ routes' = routes \union {app.mark}
        /\ Goto("h_dns")
     \/ CommandsFail /\ app.mark \notin routes /\ Goto("a_undoroute") /\ UNCHANGED routes
  /\ UNCHANGED <<admin, conf, app, op, probed, queued, procd, nft, rules, stuck, dns, cron, edited, faults>>

ApplyRoute ==
  /\ At("a_route")
  /\ \/ /\ routes' = routes \union {app.mark}
        /\ Goto("h_dns")
     \/ CommandsFail /\ app.mark \notin routes /\ Goto("a_undo") /\ UNCHANGED routes
  /\ UNCHANGED <<admin, conf, app, op, probed, queued, procd, nft, rules, stuck, dns, cron, edited, faults>>

\* cleanupRouting after a failure; apply and with it service_started fail.
ApplyUndoRouting ==
  /\ At("a_undoroute")
  /\ CleanupRouting
  /\ Done
  /\ UNCHANGED <<admin, queued, procd, nft, dns, cron>>

-------------------------------------------------------------------------------
(* stop_service, then rc.common's procd_kill *)

StopLoad ==
  /\ At("s_load")
  /\ conf' = cfg
  /\ Goto("s_nft")
  /\ UNCHANGED <<admin, app, op, probed, queued, procd, nft, routing, dns, cron, edited, faults>>

StopRule ==
  /\ At("s_rule")
  /\ \/ rules' = rules \ {conf.mark} /\ stuck' = stuck \ {"rule"} /\ UNCHANGED faults
     \/ /\ conf.mark \in rules /\ DeleteFails
        /\ stuck' = stuck \union {"rule"} /\ UNCHANGED rules
  /\ Goto("s_route")
  /\ UNCHANGED <<admin, conf, app, op, probed, queued, procd, nft, routes, dns, cron, edited>>

StopRoute ==
  /\ At("s_route")
  /\ \/ routes' = routes \ {conf.mark} /\ stuck' = stuck \ {"route"} /\ UNCHANGED faults
     \/ /\ conf.mark \in routes /\ DeleteFails
        /\ stuck' = stuck \union {"route"} /\ UNCHANGED routes
  /\ Goto("s_dns")
  /\ UNCHANGED <<admin, conf, app, op, probed, queued, procd, nft, rules, dns, cron, edited>>

\* Mutated form of StopDnsmasq: only if dnsmasq is (still) managed.
StopDnsmasqIfManaged ==
  /\ At("s_dns")
  /\ dns' = IF conf.manage THEN None ELSE dns
  /\ Goto("s_cron")
  /\ UNCHANGED <<admin, conf, app, op, probed, queued, procd, nft, routing, cron, edited, faults>>

\* neto_remove_dnsmasq: DnsHandoff's Detach, whatever manage_dnsmasq says.
StopDnsmasq ==
  /\ At("s_dns")
  /\ dns' = None
  /\ Goto("s_cron")
  /\ UNCHANGED <<admin, conf, app, op, probed, queued, procd, nft, routing, cron, edited, faults>>

\* neto_remove_cron; a start that found the service disabled goes on.
StopCron ==
  /\ At("s_cron")
  /\ cron' = FALSE
  /\ Goto(IF op \in {"stop", "restart"} THEN "s_kill" ELSE "b_empty")
  /\ UNCHANGED <<admin, conf, app, op, probed, queued, procd, nft, routing, dns, edited, faults>>

\* procd_kill deletes the service; a restart goes on as a start.
StopKill ==
  /\ At("s_kill")
  /\ svc' = "none" /\ Terminate
  /\ \/ op = "stop" /\ Done
     \/ /\ op = "restart" /\ op' = "start"
        /\ Goto("b_load") /\ UNCHANGED <<conf, app, probed, edited>>
  /\ UNCHANGED <<admin, queued, nft, routing, dns, cron, faults>>

Script ==
  \/ StartLoad
  \/ StartValidate("b_check", "b_compile")
  \/ StartValidate("b_compile", "b_sbcheck")
  \/ StartSingBoxCheck
  \/ SubmitInstances
  \/ SubmitEmpty
  \/ StartedLoad
  \/ ReadyLoad
  \/ ReadyProbe
  \/ ApplyLoad
  \/ DeleteTable("a_off", "a_offroute")
  \/ ApplyOffRouting
  \/ ApplyCompile
  \/ DeleteTable("a_delete", "a_nft")
  \/ ApplyNft
  \/ ApplyRule
  \/ ApplyRoute
  \/ DeleteTable("a_undo", "a_undoroute")
  \/ ApplyUndoRouting
  \/ WriteDnsmasq
  \/ WriteCron
  \/ StopLoad
  \/ DeleteTable("s_nft", "s_rule")
  \/ StopRule
  \/ StopRoute
  \/ StopDnsmasq
  \/ StopCron
  \/ StopKill

-------------------------------------------------------------------------------
(* procd and its daemons *)

\* netod reads the configuration, which may be newer than what was checked; if
\* that is disabled or invalid, or the address is taken, procd tries again.
NetodStart ==
  /\ svc = "full" /\ netod = None
  /\ cfg.valid /\ cfg.enabled /\ cfg.listen \notin dying
  /\ netod' = cfg.listen
  /\ UNCHANGED <<admin, script, queued, svc, sing, dying, dyingSing, nft, routing,
                 dns, cron, edited, faults>>

\* ... and gives up in the end.
NetodGiveUp ==
  /\ svc = "full" /\ netod = None
  /\ ~(cfg.valid /\ cfg.enabled)
  /\ netod' = Dead
  /\ UNCHANGED <<admin, script, queued, svc, sing, dying, dyingSing, nft, routing,
                 dns, cron, edited, faults>>

SingStart ==
  /\ svc = "full" /\ ~sing /\ ~dyingSing
  /\ sing' = TRUE
  /\ UNCHANGED <<admin, script, queued, svc, netod, dying, dyingSing, nft, routing,
                 dns, cron, edited, faults>>

\* A daemon crashes; netod perhaps once too often.
DaemonCrash ==
  /\ faults < MaxFaults /\ faults' = faults + 1
  /\ \/ netod \in Listens /\ netod' \in {None, Dead} /\ UNCHANGED sing
     \/ sing /\ sing' = FALSE /\ UNCHANGED netod
  /\ UNCHANGED <<admin, script, queued, svc, dying, dyingSing, nft, routing, dns,
                 cron, edited>>

\* A daemon that was told to terminate is gone, after term_timeout at the latest.
DaemonExit ==
  /\ \/ \E l \in dying : dying' = dying \ {l} /\ UNCHANGED dyingSing
     \/ dyingSing /\ dyingSing' = FALSE /\ UNCHANGED dying
  /\ UNCHANGED <<admin, script, queued, svc, netod, sing, nft, routing, dns, cron,
                 edited, faults>>

Daemons == NetodStart \/ NetodGiveUp \/ SingStart \/ DaemonCrash \/ DaemonExit

-------------------------------------------------------------------------------
(* Environment *)

\* The administrator, at the shell or in LuCI.
Request(o) ==
  /\ queued' = queued \union {o}
  /\ UNCHANGED <<admin, script, procd, nft, routing, dns, cron, edited, faults>>

\* Mutated form of Triggered: no reload trigger is registered.
NotTriggered == queued

\* procd's triggers: a registered service is reloaded when its configuration or
\* the network changes.
Triggered == IF svc = "none" THEN queued ELSE queued \union {"reload"}

NetworkChange ==
  /\ queued' = Triggered
  /\ UNCHANGED <<admin, script, procd, nft, routing, dns, cron, edited, faults>>

\* Save & Apply.
Edit ==
  /\ edits < MaxEdits /\ edits' = edits + 1
  /\ cfg' \in Configs \ {cfg}
  /\ queued' = Triggered
  /\ edited' = (pc # "idle")
  /\ IF pc = "idle" THEN conf' = cfg' /\ app' = cfg' ELSE UNCHANGED <<conf, app>>
  /\ UNCHANGED <<pc, op, probed, procd, nft, routing, dns, cron, faults>>

\* An update job of neto's crontab block succeeds and restarts the service.
CronJob ==
  /\ cron
  /\ queued' = queued \union {"restart"}
  /\ UNCHANGED <<admin, script, procd, nft, routing, dns, cron, edited, faults>>

\* The kernel's tables and all processes go; /etc stays: the configuration,
\* dnsmasq's own and the crontab.
Reboot ==
  /\ faults < MaxFaults /\ faults' = faults + 1
  /\ Done /\ queued' = {"start"}
  /\ svc' = "none" /\ netod' = None /\ sing' = FALSE
  /\ dying' = {} /\ dyingSing' = FALSE
  /\ nft' = {} /\ rules' = {} /\ routes' = {} /\ stuck' = {}
  /\ UNCHANGED <<admin, dns, cron>>

Environment ==
  \/ \E o \in Ops : Request(o)
  \/ NetworkChange
  \/ Edit
  \/ CronJob
  \/ Reboot

-------------------------------------------------------------------------------
Next == (\E o \in Ops : Begin(o)) \/ Script \/ Daemons \/ Environment

\* A script goes on, and the lock is granted to some script that waits for it.
Fairness == WF_vars(Script) /\ WF_vars(\E o \in Ops : Begin(o))

Spec == Init /\ [][Next]_vars /\ Fairness

-------------------------------------------------------------------------------
(* Properties *)

\* While traffic is marked for the proxy (table inet neto sets a mark) the
\* marked packets have a rule and a local route, or they would be dropped.
\* Excepted is the apply that has just installed the table and adds them; if it
\* cannot it takes the table away again (commandApply 404-412).  That deletion
\* may fail too, unnoticed: nothing is said of a table that outlives one.
CaptureNeedsRoute ==
  pc \notin {"a_rule", "a_route", "a_undo"} /\ "table" \notin stuck =>
    nft \subseteq rules \intersect routes

\* After `stop` nothing of neto is left in the kernel, in dnsmasq or in the
\* crontab, whatever was started, failed half-way or was edited before, except
\* what nft or ip failed to delete (stop_service 382-396).
StopLeavesNothing ==
  pc = "idle" /\ svc = "none" /\ "start" \notin queued =>
    /\ nft = {} \/ "table" \in stuck
    /\ rules = {} \/ "rule" \in stuck
    /\ routes = {} \/ "route" \in stuck
    /\ dns = None /\ ~cron

\* Between two runs, and with no start waiting, the LAN is exposed to neto only
\* while procd has neto's daemons to run (init.d/neto 346-364, 374-375), or by a
\* table that could not be deleted.
BackedExposure ==
  pc = "idle" /\ queued \intersect {"start", "restart", "reload"} = {}
    /\ ((nft # {} /\ "table" \notin stuck) \/ dns # None)
      => svc = "full"

\* The table and dnsmasq's listener are only ever put in place by a run whose
\* probe was answered, and unless the configuration was changed under that
\* run dnsmasq gets the very listener that answered (lines 374-378).
ProbedExposure ==
  [][/\ nft' \subseteq nft \/ probed # None
     /\ dns' \notin {dns, None} => /\ probed # None
                                   /\ edited \/ dns' = probed]_vars

\* A registered service that is disabled is taken away from the LAN, without
\* anyone calling `stop`, by the reload that the change triggers or by the start
\* it interrupts (lines 342-348, 398-412), if no deletion fails.
DisableTakesEffect ==
  svc # "none" /\ ~cfg.enabled
    ~> cfg.enabled \/ (nft = {} /\ dns = None /\ ~cron)
===============================================================================
