--------------------------- MODULE Lifecycle_proofs ---------------------------
(***************************************************************************)
(* Proofs about Lifecycle, for every set of listeners, marks and           *)
(* configurations and every bound on edits and faults.                     *)
(***************************************************************************)
EXTENDS Lifecycle, TLAPS

-------------------------------------------------------------------------------
(* Type correctness *)

\* The commands that delete the table, wherever they are.
Deletes == \/ DeleteTable("a_off", "a_offroute")
           \/ DeleteTable("a_delete", "a_nft")
           \/ DeleteTable("a_undo", "a_undoroute")
           \/ DeleteTable("s_nft", "s_rule")

LEMMA ConfigTypes ==
  ASSUME NEW c \in Configs
  PROVE  c.listen \in Listens /\ c.mark \in Marks /\ c.jobs \in BOOLEAN
  BY LifecycleAssumption

\* A run that ends keeps the state well typed, whatever its last command did to
\* the kernel, dnsmasq and the crontab.
LEMMA DoneTypes ==
  ASSUME TypeOK, Done, UNCHANGED <<cfg, queued, svc, netod, sing, dying, dyingSing>>,
         nft' \subseteq Marks, rules' \subseteq Marks, routes' \subseteq Marks,
         stuck' \subseteq {"table", "rule", "route"},
         dns' \in Listens \union {None}, cron' \in BOOLEAN
  PROVE  TypeOK'
  BY DEF TypeOK, Done, Goto, Steps, Ops

LEMMA TypeInit == Init => TypeOK
  BY LifecycleAssumption DEF Init, TypeOK, Ops, Steps

LEMMA TypeNext == TypeOK /\ [Next]_vars => TypeOK'
  <1> SUFFICES ASSUME TypeOK, [Next]_vars PROVE TypeOK'
    OBVIOUS
  <1> USE DEF TypeOK, Ops, Steps, StartSteps, ApplySteps, StopSteps,
              admin, script, procd, routing, At, Goto
  <1>1. ASSUME NEW o \in Ops, Begin(o) PROVE TypeOK'
    <2>1. /\ UNCHANGED <<cfg, conf, app, probed, svc, netod, sing, dying, dyingSing, nft,
                         rules, routes, stuck, dns, cron, edited>>
          /\ queued' = queued \ {o} /\ op' = o /\ pc' \in {"s_load", "b_load"}
      BY <1>1 DEF Begin
    <2> QED
      BY ONLY <2>1, o \in Ops, TypeOK DEF TypeOK, Ops, Steps, StartSteps, StopSteps
  <1>2. CASE StartLoad
    BY <1>2, ConfigTypes DEF StartLoad
  <1>3. CASE StartValidate("b_check", "b_compile") \/ StartValidate("b_compile", "b_sbcheck")
    <2>1. CASE StartValidate("b_check", "b_compile")
      BY <2>1, ConfigTypes DEF StartValidate
    <2>2. CASE StartValidate("b_compile", "b_sbcheck")
      BY <2>2, ConfigTypes DEF StartValidate
    <2> QED
      BY <1>3, <2>1, <2>2
  <1>4. CASE StartSingBoxCheck
    BY <1>4, ConfigTypes DEF StartSingBoxCheck
  <1>5. CASE SubmitInstances
    BY <1>5, ConfigTypes DEF SubmitInstances
  <1>6. CASE SubmitEmpty
    BY <1>6, ConfigTypes DEF SubmitEmpty, Terminate
  <1>7. CASE StartedLoad
    <2>1. CASE Done
      BY <1>7, <2>1, DoneTypes DEF StartedLoad
    <2>2. CASE ~Done
      BY <1>7, <2>2, ConfigTypes DEF StartedLoad
    <2> QED
      BY <2>1, <2>2
  <1>8. CASE ReadyLoad
    <2>1. CASE Done
      BY <1>8, <2>1, DoneTypes DEF ReadyLoad
    <2>2. CASE ~Done
      BY <1>8, <2>2, ConfigTypes DEF ReadyLoad
    <2> QED
      BY <2>1, <2>2
  <1>9. CASE ReadyProbe
    <2>1. CASE Done
      BY <1>9, <2>1, DoneTypes DEF ReadyProbe
    <2>2. CASE ~Done
      BY <1>9, <2>2, ConfigTypes DEF ReadyProbe
    <2> QED
      BY <2>1, <2>2
  <1>10. CASE ApplyLoad
    <2>1. CASE Done
      BY <1>10, <2>1, DoneTypes DEF ApplyLoad
    <2>2. CASE ~Done
      BY <1>10, <2>2, ConfigTypes DEF ApplyLoad
    <2> QED
      BY <2>1, <2>2
  <1>11. CASE Deletes
    <2>1. /\ nft' \in {nft, {}} /\ stuck' \subseteq stuck \union {"table"} /\ pc' \in Steps
          /\ UNCHANGED <<cfg, conf, app, op, probed, queued, svc, netod, sing, dying,
                         dyingSing, rules, routes, dns, cron, edited>>
      BY <1>11 DEF Deletes, DeleteTable
    <2> QED
      BY <2>1
  <1>12. CASE ApplyOffRouting
    <2>1. /\ rules' \subseteq rules /\ routes' \subseteq routes
          /\ stuck' \subseteq {"table", "rule", "route"}
      BY <1>12 DEF ApplyOffRouting, CleanupRouting
    <2>2. /\ UNCHANGED <<cfg, conf, app, op, queued, svc, netod, sing, dying, dyingSing,
                         nft, dns, cron, probed, edited>>
          /\ pc' \in Steps
      BY <1>12 DEF ApplyOffRouting
    <2> QED
      BY ONLY <2>1, <2>2, TypeOK DEF TypeOK
  <1>13. CASE ApplyCompile
    <2>1. CASE Done
      BY <1>13, <2>1, DoneTypes DEF ApplyCompile
    <2>2. CASE ~Done
      BY <1>13, <2>2, ConfigTypes DEF ApplyCompile
    <2> QED
      BY <2>1, <2>2
  <1>14. CASE ApplyNft
    <2>1. CASE Done
      BY <1>14, <2>1, DoneTypes, ConfigTypes DEF ApplyNft
    <2>2. CASE ~Done
      BY <1>14, <2>2, ConfigTypes DEF ApplyNft
    <2> QED
      BY <2>1, <2>2
  <1>15. CASE ApplyRule
    BY <1>15, ConfigTypes DEF ApplyRule
  <1>16. CASE ApplyRoute
    BY <1>16, ConfigTypes DEF ApplyRoute
  <1>17. CASE ApplyUndoRouting
    BY <1>17, ConfigTypes DEF ApplyUndoRouting, CleanupRouting, Done
  <1>18. CASE WriteDnsmasq
    BY <1>18, ConfigTypes DEF WriteDnsmasq
  <1>19. CASE WriteCron
    BY <1>19, ConfigTypes DEF WriteCron, Done
  <1>20. CASE StopLoad
    BY <1>20, ConfigTypes DEF StopLoad
  <1>21. CASE StopRule
    <2>1. /\ rules' \subseteq rules /\ stuck' \subseteq stuck \union {"table", "rule", "route"}
          /\ pc' \in Steps
      BY <1>21 DEF StopRule
    <2>2. UNCHANGED <<cfg, conf, app, op, probed, queued, svc, netod, sing, dying,
                      dyingSing, nft, routes, dns, cron, edited>>
      BY <1>21 DEF StopRule
    <2> QED
      BY ONLY <2>1, <2>2, TypeOK DEF TypeOK
  <1>22. CASE StopRoute
    <2>1. /\ routes' \subseteq routes /\ stuck' \subseteq stuck \union {"table", "rule", "route"}
          /\ pc' \in Steps
      BY <1>22 DEF StopRoute
    <2>2. UNCHANGED <<cfg, conf, app, op, probed, queued, svc, netod, sing, dying,
                      dyingSing, nft, rules, dns, cron, edited>>
      BY <1>22 DEF StopRoute
    <2> QED
      BY ONLY <2>1, <2>2, TypeOK DEF TypeOK
  <1>23. CASE StopDnsmasq
    BY <1>23, ConfigTypes DEF StopDnsmasq
  <1>24. CASE StopCron
    BY <1>24, ConfigTypes DEF StopCron
  <1>25. CASE StopKill
    BY <1>25, ConfigTypes DEF StopKill, Terminate, Done
  <1>26. CASE NetodStart
    BY <1>26, ConfigTypes DEF NetodStart
  <1>27. CASE NetodGiveUp
    BY <1>27, ConfigTypes DEF NetodGiveUp
  <1>28. CASE SingStart
    BY <1>28, ConfigTypes DEF SingStart
  <1>29. CASE DaemonCrash
    <2>1. CASE netod \in Listens /\ netod' \in {None, Dead} /\ UNCHANGED sing
      <3>1. svc = "full"
        BY <2>1, LifecycleAssumption
      <3> QED
        BY <1>29, <2>1, <3>1 DEF DaemonCrash
    <2>2. CASE sing /\ sing' = FALSE /\ UNCHANGED netod
      <3>1. sing' = FALSE /\ netod' = netod
        BY <2>2
      <3>2. UNCHANGED <<cfg, conf, app, pc, op, queued, svc, dying, dyingSing, nft,
                        rules, routes, stuck, dns, cron, probed, edited>>
        BY <1>29 DEF DaemonCrash
      <3>3. svc' # "full" => netod' = None /\ sing' = FALSE
        BY <3>1, <3>2
      <3>4. netod' \in Listens \union {None, Dead} /\ sing' \in BOOLEAN
        BY <3>1
      <3> QED
        BY <3>2, <3>3, <3>4
    <2> QED
      BY <1>29, <2>1, <2>2 DEF DaemonCrash
  <1>30. CASE DaemonExit
    <2>1. dying' \subseteq dying /\ dyingSing' \in BOOLEAN
      BY <1>30 DEF DaemonExit
    <2> QED
      BY <1>30, <2>1 DEF DaemonExit
  <1>31. ASSUME NEW o \in Ops, Request(o) PROVE TypeOK'
    BY <1>31, ConfigTypes DEF Request
  <1>32. CASE NetworkChange
    BY <1>32, ConfigTypes DEF NetworkChange, Triggered
  <1>33. CASE Edit
    BY <1>33, ConfigTypes DEF Edit, Triggered
  <1>34. CASE CronJob
    BY <1>34, ConfigTypes DEF CronJob
  <1>35. CASE Reboot
    BY <1>35, ConfigTypes DEF Reboot, Done
  <1>36. CASE UNCHANGED vars
    BY <1>36, ConfigTypes DEF vars
  <1> QED
    BY <1>1, <1>2, <1>3, <1>4, <1>5, <1>6, <1>7, <1>8, <1>9, <1>10, <1>11, <1>12, <1>13, <1>14, <1>15, <1>16, <1>17, <1>18, <1>19, <1>20, <1>21, <1>22, <1>23, <1>24, <1>25, <1>26, <1>27, <1>28, <1>29, <1>30, <1>31, <1>32, <1>33, <1>34, <1>35, <1>36
       DEF Next, Script, Daemons, Environment, Deletes

\* The variables of the service and of everything it drives keep their types.
THEOREM TypeCorrect == Spec => []TypeOK
  BY TypeInit, TypeNext, PTL DEF Spec

-------------------------------------------------------------------------------
(* Marked traffic has a route *)

\* The commands at which the table is absent, just installed or about to go.
Window == {"a_nft", "a_rule", "a_route", "a_undo", "a_undoroute", "a_offroute",
           "s_rule", "s_route"}

\* What holds of the table at each command, unless it outlived a deletion: rule and
\* route are removed only when it is gone, and it outlives a run only with both.
RouteInv ==
  "table" \notin stuck =>
    /\ pc \in Window \ {"a_rule", "a_route", "a_undo"} => nft = {}
    /\ pc \in {"a_rule", "a_route"} => nft \subseteq {app.mark}
    /\ pc = "a_route" => nft \subseteq rules
    /\ pc \notin {"a_rule", "a_route", "a_undo"} => nft \subseteq rules \intersect routes

LEMMA RouteNext == TypeOK /\ RouteInv /\ [Next]_vars => RouteInv'
  <1> SUFFICES ASSUME TypeOK, RouteInv, [Next]_vars PROVE RouteInv'
    OBVIOUS
  <1> USE DEF At, Goto, Window
  <1>1. ASSUME UNCHANGED <<nft, rules, routes, stuck>>, pc \notin Window, pc' \notin Window
        PROVE  RouteInv'
    BY <1>1 DEF RouteInv
  <1>2. ASSUME UNCHANGED <<nft, rules, routes, stuck, pc>>, app' = app \/ pc = "idle"
        PROVE  RouteInv'
    BY <1>2 DEF RouteInv
  <1>3. ASSUME NEW o \in Ops, Begin(o) PROVE RouteInv'
    BY <1>1, <1>3 DEF Begin, routing
  <1>4. CASE \/ StartLoad
             \/ StartValidate("b_check", "b_compile")
             \/ StartValidate("b_compile", "b_sbcheck")
             \/ StartSingBoxCheck \/ SubmitInstances \/ SubmitEmpty
    BY <1>1, <1>4 DEF StartLoad, StartValidate, StartSingBoxCheck, SubmitInstances,
                      SubmitEmpty, routing
  <1>5. CASE StartedLoad \/ ReadyLoad \/ ReadyProbe
    BY <1>1, <1>5 DEF StartedLoad, ReadyLoad, ReadyProbe, Done, routing
  <1>6. CASE ApplyLoad \/ ApplyCompile
    BY <1>1, <1>6 DEF ApplyLoad, ApplyCompile, Done, routing
  <1>7. CASE WriteDnsmasq \/ WriteCron
    BY <1>1, <1>7 DEF WriteDnsmasq, WriteCron, Done, routing
  <1>8. CASE StopLoad \/ StopDnsmasq \/ StopCron \/ StopKill
    BY <1>1, <1>8 DEF StopLoad, StopDnsmasq, StopCron, StopKill, Done, routing
  <1>9. CASE Deletes
    BY <1>9 DEF Deletes, DeleteTable, RouteInv
  <1>10. CASE ApplyOffRouting \/ ApplyUndoRouting \/ StopRule \/ StopRoute
    BY <1>10 DEF ApplyOffRouting, ApplyUndoRouting, CleanupRouting, Done, StopRule, StopRoute, RouteInv
  <1>11. CASE ApplyNft
    <2>1. "table" \notin stuck => nft = {}
      BY <1>11 DEF ApplyNft, RouteInv
    <2>2. CASE nft' = nft \union {app.mark} /\ pc' = "a_rule" /\ app' = app
      BY <1>11, <2>1, <2>2 DEF ApplyNft, RouteInv, routing
    <2>3. CASE Done /\ UNCHANGED nft
      BY <1>11, <2>1, <2>3 DEF ApplyNft, Done, RouteInv, routing
    <2> QED
      BY <1>11, <2>2, <2>3 DEF ApplyNft
  <1>12. CASE ApplyRule
    BY <1>12 DEF ApplyRule, RouteInv
  <1>13. CASE ApplyRoute
    BY <1>13 DEF ApplyRoute, RouteInv
  <1>14. CASE Daemons
    BY <1>2, <1>14 DEF Daemons, NetodStart, NetodGiveUp, SingStart, DaemonCrash,
                       DaemonExit, routing, script
  <1>15. ASSUME NEW o \in Ops, Request(o) PROVE RouteInv'
    BY <1>2, <1>15 DEF Request, routing, script
  <1>16. CASE NetworkChange \/ Edit \/ CronJob
    BY <1>2, <1>16 DEF NetworkChange, Edit, CronJob, routing, script
  <1>17. CASE Reboot
    BY <1>17 DEF Reboot, RouteInv
  <1>18. CASE UNCHANGED vars
    BY <1>2, <1>18 DEF vars
  <1> QED
    BY <1>3, <1>4, <1>5, <1>6, <1>7, <1>8, <1>9, <1>10, <1>11, <1>12, <1>13,
       <1>14, <1>15, <1>16, <1>17, <1>18
       DEF Next, Script, Environment, Deletes

\* Marked packets always have a rule and a local route, outside the apply that
\* is adding them: whatever fails, crashes, reboots or is edited, up to the deletion
\* of the table itself.
THEOREM CaptureRouted == Spec => []CaptureNeedsRoute
  <1>1. Init => RouteInv
    BY DEF Init, RouteInv
  <1>2. RouteInv => CaptureNeedsRoute
    BY DEF RouteInv, CaptureNeedsRoute
  <1> QED
    BY <1>1, <1>2, TypeCorrect, RouteNext, PTL DEF Spec

-------------------------------------------------------------------------------
(* What a stop leaves *)

\* The mark and the table are not changed over the life of the service.
OneMark == \A c, d \in Configs : c.mark = d.mark

\* The commands that follow the submission of an instance set.
Started == {"g_load", "g_ready", "g_probe", "h_dns", "h_cron"} \union ApplySteps

StopProgress ==
  /\ pc \in {"s_rule", "s_route", "s_dns", "s_cron", "s_kill"} => nft = {} \/ "table" \in stuck
  /\ pc \in {"s_route", "s_dns", "s_cron", "s_kill"} => rules = {} \/ "rule" \in stuck
  /\ pc \in {"s_dns", "s_cron", "s_kill"} => routes = {} \/ "route" \in stuck
  /\ pc \in {"s_cron", "s_kill"} => dns = None
  /\ pc = "s_kill" => cron = FALSE

\* What procd has no instance set of is either untouched since a stop or waits
\* for the start that a reboot has requested.
StopInv ==
  /\ rules \subseteq {cfg.mark} /\ routes \subseteq {cfg.mark}
  /\ conf.mark = cfg.mark /\ app.mark = cfg.mark
  /\ pc \in Started => svc # "none"
  /\ StopProgress
  /\ StopLeavesNothing

LEMMA StopNext ==
  ASSUME OneMark
  PROVE  TypeOK /\ StopInv /\ [Next]_vars => StopInv'
  <1> SUFFICES ASSUME TypeOK, StopInv, [Next]_vars PROVE StopInv'
    OBVIOUS
  <1> USE DEF At, Goto, Started, ApplySteps
  <1>1. /\ conf'.mark = cfg'.mark /\ app'.mark = cfg'.mark /\ cfg'.mark = cfg.mark
    BY TypeNext, OneMark DEF TypeOK, OneMark
  <1>2. ASSUME UNCHANGED <<pc, svc, nft, rules, routes, stuck, dns, cron>>,
               queued \subseteq queued'
        PROVE  StopInv'
    BY <1>1, <1>2 DEF StopInv, StopProgress, StopLeavesNothing
  <1>3. ASSUME NEW o \in Ops, Begin(o) PROVE StopInv'
    BY <1>1, <1>3 DEF Begin, StopInv, StopProgress, StopLeavesNothing, procd, routing
  <1>4. CASE \/ StartLoad
             \/ StartValidate("b_check", "b_compile")
             \/ StartValidate("b_compile", "b_sbcheck")
             \/ StartSingBoxCheck
    BY <1>1, <1>4 DEF StartLoad, StartValidate, StartSingBoxCheck, StopInv,
                      StopProgress, StopLeavesNothing, procd, routing
  <1>5. CASE SubmitInstances \/ SubmitEmpty
    BY <1>1, <1>5 DEF SubmitInstances, SubmitEmpty, StopInv, StopProgress,
                      StopLeavesNothing, routing
  <1>6. CASE StartedLoad \/ ReadyLoad \/ ReadyProbe \/ ApplyLoad \/ ApplyCompile
    BY <1>1, <1>6 DEF StartedLoad, ReadyLoad, ReadyProbe, ApplyLoad, ApplyCompile,
                      Done, StopInv, StopProgress, StopLeavesNothing, procd, routing
  <1>7. CASE Deletes
    BY <1>1, <1>7 DEF Deletes, DeleteTable, StopInv, StopProgress,
                      StopLeavesNothing, procd, routing
  <1>8. CASE ApplyOffRouting \/ ApplyUndoRouting
    BY <1>1, <1>8 DEF ApplyOffRouting, ApplyUndoRouting, CleanupRouting, Done, StopInv, StopProgress,
                      StopLeavesNothing, procd
  <1>9. CASE ApplyNft
    BY <1>1, <1>9 DEF ApplyNft, Done, StopInv, StopProgress, StopLeavesNothing,
                      procd, routing
  <1>10. CASE ApplyRule \/ ApplyRoute
    BY <1>1, <1>10 DEF ApplyRule, ApplyRoute, StopInv, StopProgress,
                       StopLeavesNothing, procd
  <1>11. CASE WriteDnsmasq \/ WriteCron
    BY <1>1, <1>11 DEF WriteDnsmasq, WriteCron, Done, StopInv, StopProgress,
                       StopLeavesNothing, procd, routing
  <1>12. CASE StopLoad \/ StopDnsmasq \/ StopCron
    BY <1>1, <1>12 DEF StopLoad, StopDnsmasq, StopCron, StopInv, StopProgress,
                       StopLeavesNothing, procd, routing
  <1>13. CASE StopRule \/ StopRoute
    BY <1>1, <1>13 DEF StopRule, StopRoute, StopInv, StopProgress,
                       StopLeavesNothing, procd
  <1>14. CASE StopKill
    BY <1>1, <1>14 DEF StopKill, Done, StopInv, StopProgress, StopLeavesNothing,
                       routing
  <1>15. CASE Daemons
    BY <1>2, <1>15 DEF Daemons, NetodStart, NetodGiveUp, SingStart, DaemonCrash,
                       DaemonExit, routing, script
  <1>16. ASSUME NEW o \in Ops, Request(o) PROVE StopInv'
    BY <1>2, <1>16 DEF Request, routing, script, procd
  <1>17. CASE NetworkChange \/ Edit \/ CronJob
    BY <1>2, <1>17 DEF NetworkChange, Edit, CronJob, Triggered, routing, script, procd
  <1>18. CASE Reboot
    BY <1>1, <1>18 DEF Reboot, Done, StopInv, StopProgress, StopLeavesNothing
  <1>19. CASE UNCHANGED vars
    BY <1>2, <1>19 DEF vars
  <1> QED
    BY <1>3, <1>4, <1>5, <1>6, <1>7, <1>8, <1>9, <1>10, <1>11, <1>12, <1>13,
       <1>14, <1>15, <1>16, <1>17, <1>18, <1>19
       DEF Next, Script, Environment, Deletes

\* A stop leaves nothing of neto behind that could be deleted, whatever start it ends,
\* provided that mark and table stay what they were: stop_service removes those
\* configured now.
THEOREM StopClean ==
  ASSUME OneMark
  PROVE  Spec => []StopLeavesNothing
  <1>1. Init => StopInv
    BY DEF Init, StopInv, StopProgress, StopLeavesNothing, Started, ApplySteps
  <1>2. TypeOK /\ StopInv /\ [Next]_vars => StopInv'
    BY StopNext
  <1>3. StopInv => StopLeavesNothing
    BY DEF StopInv
  <1> QED
    BY <1>1, <1>2, <1>3, TypeCorrect, PTL DEF Spec

-------------------------------------------------------------------------------
(* Nothing is exposed without daemons *)

\* No check of a start fails: a start submits no daemons only if it found the service
\* disabled.
ChecksPass == pc' = "b_empty" => pc \in {"s_cron", "b_empty"}

\* The commands of a start that found the service disabled.
CleanStart == op \in {"start", "reload"} /\ pc \in StopSteps \union {"b_empty"}

\* The service is enabled again under such a start before it is registered with procd,
\* which makes no reload of that change.
EnabledUnseen == svc = "none" /\ CleanStart /\ ~cfg.enabled /\ cfg'.enabled

NotExposed == (nft = {} \/ "table" \in stuck) /\ dns = None

\* A start that submits no daemons has removed an earlier exposure.  It gets past
\* service_started's own look at the configuration only if that has been enabled again,
\* and then a reload waits; the probe may even be answered, by a daemon on its way out.
BackedInv ==
  /\ pc \in {"b_load", "b_empty"} => op \in {"start", "reload"}
  /\ pc \in {"s_rule", "s_route", "s_dns", "s_cron", "s_kill", "b_empty"} =>
       nft = {} \/ "table" \in stuck
  /\ pc \in {"s_cron", "s_kill", "b_empty"} => dns = None
  /\ CleanStart => ~cfg.enabled \/ "reload" \in queued
  /\ pc \in Started => svc # "none"
  /\ pc \in Started /\ svc # "full" =>
       "reload" \in queued \/ (pc = "g_load" /\ ~cfg.enabled /\ NotExposed)
  /\ BackedExposure

LEMMA BackedNext ==
  TypeOK /\ BackedInv /\ [Next]_vars /\ [ChecksPass /\ ~EnabledUnseen]_vars => BackedInv'
  <1> SUFFICES ASSUME TypeOK, BackedInv, [Next]_vars, [ChecksPass /\ ~EnabledUnseen]_vars
               PROVE  BackedInv'
    OBVIOUS
  <1> USE DEF At, Goto, Started, ApplySteps, StopSteps, CleanStart, NotExposed, BackedInv,
              BackedExposure, admin, procd, routing
  <1>1. ASSUME UNCHANGED <<cfg, pc, op, svc, nft, stuck, dns>>, queued \subseteq queued'
        PROVE  BackedInv'
    BY <1>1
  <1>2. CASE Daemons
    BY <1>1, <1>2 DEF Daemons, NetodStart, NetodGiveUp, SingStart, DaemonCrash, DaemonExit,
                      script
  <1>3. ASSUME NEW o \in Ops, Request(o) PROVE BackedInv'
    BY <1>1, <1>3 DEF Request, script
  <1>4. CASE NetworkChange \/ CronJob
    BY <1>1, <1>4 DEF NetworkChange, CronJob, Triggered, script
  <1>5. CASE Edit
    <2>1. UNCHANGED <<pc, op, svc, nft, stuck, dns>> /\ queued \subseteq queued'
      BY <1>5 DEF Edit, Triggered
    <2>2. svc # "none" => "reload" \in queued'
      BY <1>5 DEF Edit, Triggered
    <2>3. CASE svc # "none"
      BY <2>1, <2>2, <2>3
    <2>4. CASE svc = "none"
      <3>1. CleanStart => ~cfg'.enabled \/ "reload" \in queued'
        BY <1>5, <2>1, <2>4 DEF Edit, EnabledUnseen, vars
      <3> QED
        BY <2>1, <2>4, <3>1
    <2> QED
      BY <2>3, <2>4
  <1>6. CASE UNCHANGED vars
    BY <1>1, <1>6 DEF vars
  <1>7. ASSUME NEW o \in Ops, Begin(o) PROVE BackedInv'
    BY <1>7 DEF Begin, Ops
  <1>8. CASE StartLoad
    BY <1>8 DEF StartLoad
  <1>9. CASE StartValidate("b_check", "b_compile")
             \/ StartValidate("b_compile", "b_sbcheck") \/ StartSingBoxCheck
    <2>1. pc' # "b_empty"
      BY <1>9 DEF StartValidate, StartSingBoxCheck, ChecksPass, vars
    <2> QED
      BY <1>9, <2>1 DEF StartValidate, StartSingBoxCheck
  <1>10. CASE SubmitInstances
    BY <1>10 DEF SubmitInstances
  <1>11. CASE SubmitEmpty
    <2>1. op \in {"start", "reload"} => ~cfg.enabled \/ "reload" \in queued
      BY <1>11 DEF SubmitEmpty
    <2> QED
      BY <1>11, <2>1 DEF SubmitEmpty
  <1>12. CASE StartedLoad \/ ReadyLoad \/ ReadyProbe
    BY <1>12 DEF StartedLoad, ReadyLoad, ReadyProbe, Done
  <1>13. CASE ApplyLoad \/ ApplyCompile
    BY <1>13 DEF ApplyLoad, ApplyCompile, Done
  <1>14. CASE Deletes
    BY <1>14 DEF Deletes, DeleteTable
  <1>15. CASE ApplyOffRouting \/ ApplyUndoRouting
    BY <1>15 DEF ApplyOffRouting, ApplyUndoRouting, CleanupRouting, Done
  <1>16. CASE ApplyNft \/ ApplyRule \/ ApplyRoute
    BY <1>16 DEF ApplyNft, ApplyRule, ApplyRoute, Done
  <1>17. CASE WriteDnsmasq \/ WriteCron
    BY <1>17 DEF WriteDnsmasq, WriteCron, Done
  <1>18. CASE StopLoad \/ StopRule \/ StopRoute
    BY <1>18 DEF StopLoad, StopRule, StopRoute
  <1>19. CASE StopDnsmasq \/ StopCron
    BY <1>19 DEF StopDnsmasq, StopCron, TypeOK, Ops
  <1>20. CASE StopKill
    BY <1>20 DEF StopKill, Done
  <1>21. CASE Reboot
    BY <1>21 DEF Reboot, Done
  <1> QED
    BY <1>2, <1>3, <1>4, <1>5, <1>6, <1>7, <1>8, <1>9, <1>10, <1>11, <1>12, <1>13, <1>14,
       <1>15, <1>16, <1>17, <1>18, <1>19, <1>20, <1>21
       DEF Next, Script, Environment, Deletes

\* The LAN is exposed to neto between runs only while procd has its daemons to run, as
\* long as no check of a start fails (MCLifecycleFailedReload shows what a failed check
\* does) and no start that found the service disabled has it enabled again before it is
\* registered.  Everything else may fail, die, linger or be edited (init.d/neto 335-412).
THEOREM ExposureBacked ==
  Spec /\ [][ChecksPass /\ ~EnabledUnseen]_vars => []BackedExposure
  <1>1. Init => BackedInv
    BY DEF Init, BackedInv, BackedExposure, CleanStart, Started, ApplySteps, StopSteps
  <1>2. BackedInv => BackedExposure
    BY DEF BackedInv
  <1> QED
    BY <1>1, <1>2, TypeCorrect, BackedNext, PTL DEF Spec

-------------------------------------------------------------------------------
(* Nothing is exposed before the probe *)

\* What a run knows of its probe at each command, as long as nobody edits.
ProbedInv ==
  /\ pc \in {"g_ready", "g_probe"} \union ApplySteps \union {"h_dns"} =>
       edited \/ conf = cfg
  /\ pc = "g_probe" => edited \/ app = cfg
  /\ pc \in ApplySteps \union {"h_dns"} =>
       probed # None /\ (edited \/ probed = cfg.listen)

LEMMA ProbedNext == TypeOK /\ ProbedInv /\ [Next]_vars => ProbedInv'
  <1> SUFFICES ASSUME TypeOK, ProbedInv, [Next]_vars PROVE ProbedInv'
    OBVIOUS
  <1> USE DEF At, Goto, ApplySteps, ProbedInv
  <1>1. ASSUME pc' \notin {"g_ready", "g_probe", "h_dns"} \union ApplySteps
        PROVE  ProbedInv'
    BY <1>1
  <1>2. ASSUME UNCHANGED <<cfg, conf, app, pc, probed, edited>> PROVE ProbedInv'
    BY <1>2
  <1>3. ASSUME NEW o \in Ops, Begin(o) PROVE ProbedInv'
    BY <1>1, <1>3 DEF Begin
  <1>4. CASE \/ StartLoad
             \/ StartValidate("b_check", "b_compile")
             \/ StartValidate("b_compile", "b_sbcheck")
             \/ StartSingBoxCheck \/ SubmitInstances \/ SubmitEmpty
    BY <1>1, <1>4 DEF StartLoad, StartValidate, StartSingBoxCheck, SubmitInstances,
                      SubmitEmpty
  <1>5. CASE StartedLoad
    BY <1>5 DEF StartedLoad, Done, admin
  <1>6. CASE ReadyLoad
    BY <1>6 DEF ReadyLoad, Done, admin
  <1>7. CASE ReadyProbe
    BY <1>7, ConfigTypes, LifecycleAssumption DEF ReadyProbe, Done, TypeOK, admin
  <1>8. CASE ApplyLoad \/ ApplyCompile
    BY <1>8 DEF ApplyLoad, ApplyCompile, Done, admin
  <1>9. CASE Deletes
    BY <1>9 DEF Deletes, DeleteTable, admin
  <1>10. CASE ApplyOffRouting \/ ApplyUndoRouting \/ ApplyNft
    BY <1>10 DEF ApplyOffRouting, ApplyUndoRouting, ApplyNft, Done, admin
  <1>11. CASE ApplyRule \/ ApplyRoute
    BY <1>11 DEF ApplyRule, ApplyRoute, admin
  <1>12. CASE WriteDnsmasq \/ WriteCron
    BY <1>1, <1>12 DEF WriteDnsmasq, WriteCron, Done
  <1>13. CASE StopLoad \/ StopRule \/ StopRoute \/ StopDnsmasq \/ StopCron \/ StopKill
    BY <1>1, <1>13 DEF StopLoad, StopRule, StopRoute, StopDnsmasq, StopCron,
                       StopKill, Done
  <1>14. CASE Daemons
    BY <1>2, <1>14 DEF Daemons, NetodStart, NetodGiveUp, SingStart, DaemonCrash,
                       DaemonExit, admin, script
  <1>15. ASSUME NEW o \in Ops, Request(o) PROVE ProbedInv'
    BY <1>2, <1>15 DEF Request, admin, script
  <1>16. CASE NetworkChange \/ CronJob
    BY <1>2, <1>16 DEF NetworkChange, CronJob, admin, script
  <1>17. CASE Edit
    BY <1>17 DEF Edit
  <1>18. CASE Reboot
    BY <1>1, <1>18 DEF Reboot, Done
  <1>19. CASE UNCHANGED vars
    BY <1>2, <1>19 DEF vars
  <1> QED
    BY <1>3, <1>4, <1>5, <1>6, <1>7, <1>8, <1>9, <1>10, <1>11, <1>12, <1>13, <1>14,
       <1>15, <1>16, <1>17, <1>18, <1>19
       DEF Next, Script, Environment, Deletes

\* The two commands that expose the LAN, and no other step, do so.
LEMMA ExposingSteps ==
  ASSUME [Next]_vars
  PROVE  /\ nft' \subseteq nft \/ ApplyNft
         /\ dns' \in {dns, None} \/ WriteDnsmasq
  <1> USE DEF procd, routing, script, admin
  <1>1. ASSUME NEW o \in Ops, Begin(o) \/ Request(o)
        PROVE  UNCHANGED <<nft, dns>>
    BY <1>1 DEF Begin, Request
  <1>2. CASE Daemons
    BY <1>2 DEF Daemons, NetodStart, NetodGiveUp, SingStart, DaemonCrash, DaemonExit
  <1>3. CASE NetworkChange \/ Edit \/ CronJob \/ Reboot \/ UNCHANGED vars
    BY <1>3 DEF NetworkChange, Edit, CronJob, Reboot, vars
  <1>4. CASE Script
    <2>1. CASE ApplyNft
      BY <2>1 DEF ApplyNft
    <2>2. CASE WriteDnsmasq
      BY <2>2 DEF WriteDnsmasq
    <2>3. CASE ~ApplyNft /\ ~WriteDnsmasq
      <3>1. nft' \subseteq nft /\ dns' \in {dns, None}
        BY <1>4, <2>3 DEF Script, StartLoad, StartValidate, StartSingBoxCheck,
           SubmitInstances, SubmitEmpty, StartedLoad, ReadyLoad, ReadyProbe, ApplyLoad,
           ApplyOffRouting, ApplyCompile, ApplyRule, ApplyRoute, ApplyUndoRouting,
           WriteCron, StopLoad, StopRule, StopRoute, StopDnsmasq, StopCron, StopKill,
           DeleteTable
      <3> QED
        BY <3>1
    <2> QED
      BY <2>1, <2>2, <2>3
  <1> QED
    BY <1>1, <1>2, <1>3, <1>4 DEF Next, Environment

\* Table and listener are put in place only by a run whose probe was answered,
\* and without an edit under that run dnsmasq gets the listener that answered.
THEOREM ExposureProbed == Spec => ProbedExposure
  <1>1. Init => ProbedInv
    BY DEF Init, ProbedInv, ApplySteps
  <1>2. TypeOK /\ ProbedInv /\ [Next]_vars =>
          [/\ nft' \subseteq nft \/ probed # None
           /\ dns' \notin {dns, None} => /\ probed # None
                                         /\ edited \/ dns' = probed]_vars
    BY ExposingSteps DEF ApplyNft, WriteDnsmasq, ProbedInv, ApplySteps, At
  <1> QED
    BY <1>1, <1>2, TypeCorrect, ProbedNext, PTL DEF Spec, ProbedExposure

-------------------------------------------------------------------------------
(* A run of the script comes to its end *)

\* How many commands a run has left at most; in stop_service also by what the run was
\* called with: a restart goes on as a start, and so does a start or reload that found
\* the service disabled.
Left == [idle |-> 0, h_cron |-> 1, h_dns |-> 2,
         a_undoroute |-> 1, a_undo |-> 2, a_route |-> 3, a_rule |-> 4, a_nft |-> 5,
         a_delete |-> 6, a_compile |-> 7, a_offroute |-> 3, a_off |-> 4, a_load |-> 8,
         g_probe |-> 9, g_ready |-> 10, g_load |-> 11, b_full |-> 12, b_empty |-> 12,
         b_sbcheck |-> 13, b_compile |-> 14, b_check |-> 15, b_load |-> 19,
         s_kill |-> 1, s_cron |-> 2, s_dns |-> 3, s_route |-> 4, s_rule |-> 5,
         s_nft |-> 6, s_load |-> 7]

LeftAfterStop == [stop |-> 0, start |-> 11, reload |-> 11, restart |-> 19]

CommandsLeft == IF pc \in StopSteps THEN Left[pc] + LeftAfterStop[op] ELSE Left[pc]

\* Every command of the script leaves fewer, and nobody else sets it back.
RunDescends ==
  /\ Script => CommandsLeft' < CommandsLeft
  /\ pc # "idle" => UNCHANGED <<pc, op>> \/ CommandsLeft' < CommandsLeft

\* A restart has become a start when it starts.
StartInv == pc = "b_load" => op # "restart"

LEMMA StartNext == StartInv /\ [Next]_vars => StartInv'
  <1> SUFFICES ASSUME StartInv, [Next]_vars PROVE StartInv'
    OBVIOUS
  <1> USE DEF StartInv, At, Goto, Done
  <1>1. CASE UNCHANGED vars \/ Daemons
    BY <1>1 DEF vars, Daemons, NetodStart, NetodGiveUp, SingStart, DaemonCrash, DaemonExit, script
  <1>2. ASSUME NEW o \in Ops, Begin(o) PROVE StartInv'
    BY <1>2 DEF Begin
  <1>3. CASE StopKill
    BY <1>3 DEF StopKill
  <1>4. CASE Script /\ ~StopKill
    <2>1. pc' # "b_load"
      BY <1>4 DEF Script, StartLoad, StartValidate, StartSingBoxCheck, SubmitInstances, SubmitEmpty,
         StartedLoad, ReadyLoad, ReadyProbe, ApplyLoad, DeleteTable, ApplyOffRouting, ApplyCompile,
         ApplyNft, ApplyRule, ApplyRoute, ApplyUndoRouting, WriteDnsmasq, WriteCron, StopLoad,
         StopRule, StopRoute, StopDnsmasq, StopCron
    <2> QED
      BY <2>1
  <1>5. CASE Environment
    BY <1>5 DEF Environment, Request, NetworkChange, Edit, CronJob, Reboot, script
  <1> QED
    BY <1>1, <1>2, <1>3, <1>4, <1>5 DEF Next

\* Where a command of the script may go.
LEMMA CommandGoes ==
  ASSUME TypeOK, StartInv, Script
  PROVE  CommandsLeft' < CommandsLeft
  <1> USE DEF At, Goto, Done, CommandsLeft, Left, LeftAfterStop, StopSteps
  <1>0. op \in Ops
    BY DEF TypeOK
  <1>1. CASE StartLoad
    BY <1>0, <1>1 DEF StartLoad, StartInv, Ops
  <1>2. CASE StartValidate("b_check", "b_compile") \/ StartValidate("b_compile", "b_sbcheck")
             \/ StartSingBoxCheck \/ SubmitInstances \/ SubmitEmpty
    BY <1>2 DEF StartValidate, StartSingBoxCheck, SubmitInstances, SubmitEmpty
  <1>3. CASE StartedLoad \/ ReadyLoad \/ ReadyProbe \/ WriteDnsmasq \/ WriteCron
    BY <1>3 DEF StartedLoad, ReadyLoad, ReadyProbe, WriteDnsmasq, WriteCron
  <1>4. CASE ApplyLoad \/ DeleteTable("a_off", "a_offroute") \/ ApplyOffRouting \/ ApplyCompile
             \/ DeleteTable("a_delete", "a_nft") \/ ApplyNft
    BY <1>4 DEF ApplyLoad, DeleteTable, ApplyOffRouting, ApplyCompile, ApplyNft
  <1>5. CASE ApplyRule \/ ApplyRoute \/ DeleteTable("a_undo", "a_undoroute") \/ ApplyUndoRouting
    BY <1>5 DEF ApplyRule, ApplyRoute, DeleteTable, ApplyUndoRouting
  <1>6. CASE StopLoad \/ DeleteTable("s_nft", "s_rule") \/ StopRule \/ StopRoute \/ StopDnsmasq
    BY <1>0, <1>6 DEF StopLoad, DeleteTable, StopRule, StopRoute, StopDnsmasq, Ops
  <1>7. CASE StopCron
    BY <1>0, <1>7 DEF StopCron, Ops
  <1>8. CASE StopKill
    BY <1>8 DEF StopKill
  <1> QED
    BY <1>1, <1>2, <1>3, <1>4, <1>5, <1>6, <1>7, <1>8 DEF Script

LEMMA LeftBounds ==
  ASSUME TypeOK
  PROVE  CommandsLeft \in 0 .. 26 /\ (pc # "idle" => CommandsLeft > 0)
  BY DEF TypeOK, CommandsLeft, Left, LeftAfterStop, Ops, Steps, StartSteps, ApplySteps, StopSteps

\* A run of the init script takes at most 26 commands, whatever fails, is edited or dies
\* meanwhile: no command goes back, and a restart or a start of a disabled service is
\* stopped once (init.d/neto 335-412).  That each command returns is fairness.
THEOREM RunsEnd == Spec => /\ [](CommandsLeft \in 0 .. 26)
                           /\ [][RunDescends]_vars
  <1>1. TypeOK => CommandsLeft \in 0 .. 26
    BY LeftBounds
  <1>2. TypeOK /\ StartInv /\ [Next]_vars => [RunDescends]_vars
    <2> SUFFICES ASSUME TypeOK, StartInv, Next PROVE RunDescends
      BY DEF vars
    <2>1. Script => CommandsLeft' < CommandsLeft
      BY CommandGoes
    <2>2. CASE \E o \in Ops : Begin(o)
      BY <2>1, <2>2 DEF Begin, At, RunDescends
    <2>3. CASE Script
      BY <2>1, <2>3 DEF RunDescends
    <2>4. CASE Daemons
      BY <2>1, <2>4 DEF Daemons, NetodStart, NetodGiveUp, SingStart, DaemonCrash, DaemonExit, script,
         RunDescends
    <2>5. CASE Environment
      <3>1. CASE Reboot
        <4>1. pc' = "idle"
          BY <3>1 DEF Reboot, Done, Goto
        <4>2. CommandsLeft' = 0
          BY <4>1 DEF CommandsLeft, Left, StopSteps
        <4> QED
          BY <2>1, <4>2, LeftBounds DEF RunDescends
      <3>2. CASE ~Reboot
        BY <2>1, <2>5, <3>2 DEF Environment, Request, NetworkChange, Edit, CronJob, script, RunDescends
      <3> QED
        BY <3>1, <3>2
    <2> QED
      BY <2>2, <2>3, <2>4, <2>5 DEF Next
  <1>3. Init => StartInv
    BY DEF Init, StartInv
  <1> QED
    BY <1>1, <1>2, <1>3, StartNext, TypeCorrect, PTL DEF Spec
-------------------------------------------------------------------------------
(* A service that is disabled *)

OffLAN == (nft = {} \/ "table" \in stuck) /\ dns = None /\ ~cron

\* Between two runs, and with none waiting, neto is not on the LAN when it is disabled,
\* but for a table that outlived a failed deletion.
DisabledQuiet == pc = "idle" /\ queued = {} /\ ~cfg.enabled => OffLAN

\* A change that procd does not notice, for want of a registered service, finds nothing
\* to take away; one that interrupts a start has a reload waiting; and the run that
\* finds the service disabled takes away first the table, then the listener and the jobs.
DisableInv ==
  /\ pc \in Started => svc # "none"
  /\ pc \in {"s_rule", "s_route", "s_dns", "s_cron", "s_kill"} => nft = {} \/ "table" \in stuck
  /\ pc \in {"s_cron", "s_kill"} => dns = None
  /\ pc = "s_kill" => ~cron
  /\ svc = "none" => OffLAN
  /\ ~cfg.enabled /\ queued = {} =>
       /\ pc \notin Started \ {"g_load"}
       /\ OffLAN \/ pc \in StopSteps \union {"b_load"}

LEMMA DisableNext == TypeOK /\ DisableInv /\ [Next]_vars /\ [~Reboot]_vars => DisableInv'
  <1> SUFFICES ASSUME TypeOK, DisableInv, [Next]_vars, [~Reboot]_vars PROVE DisableInv'
    OBVIOUS
  <1> USE DEF At, Goto, Started, ApplySteps, StopSteps, DisableInv, OffLAN
  <1>1. ASSUME UNCHANGED <<cfg, pc, svc, nft, stuck, dns, cron>>, queued \subseteq queued'
        PROVE  DisableInv'
    BY <1>1
  <1>2. CASE Daemons
    BY <1>1, <1>2 DEF Daemons, NetodStart, NetodGiveUp, SingStart, DaemonCrash, DaemonExit,
                      admin, script, routing
  <1>3. ASSUME NEW o \in Ops, Request(o) PROVE DisableInv'
    BY <1>1, <1>3 DEF Request, admin, script, procd, routing
  <1>4. CASE NetworkChange \/ CronJob
    BY <1>1, <1>4 DEF NetworkChange, CronJob, Triggered, admin, script, procd, routing
  <1>5. CASE Edit
    <2>1. UNCHANGED <<pc, svc, nft, stuck, dns, cron>> /\ (svc # "none" => queued' # {})
      BY <1>5 DEF Edit, Triggered, procd, routing
    <2> QED
      BY <2>1
  <1>6. CASE UNCHANGED vars
    BY <1>1, <1>6 DEF vars
  <1>7. ASSUME NEW o \in Ops, Begin(o) PROVE DisableInv'
    BY <1>7 DEF Begin, admin, procd, routing
  <1>8. CASE StartLoad \/ StartValidate("b_check", "b_compile")
             \/ StartValidate("b_compile", "b_sbcheck") \/ StartSingBoxCheck
    BY <1>8 DEF StartLoad, StartValidate, StartSingBoxCheck, admin, procd, routing
  <1>9. CASE SubmitInstances \/ SubmitEmpty
    BY <1>9 DEF SubmitInstances, SubmitEmpty, admin, routing
  <1>10. CASE StartedLoad \/ ReadyLoad \/ ReadyProbe \/ ApplyLoad \/ ApplyCompile
    BY <1>10 DEF StartedLoad, ReadyLoad, ReadyProbe, ApplyLoad, ApplyCompile, Done, admin, procd, routing
  <1>11. CASE Deletes
    BY <1>11 DEF Deletes, DeleteTable, admin, procd, routing
  <1>12. CASE ApplyOffRouting \/ ApplyUndoRouting \/ ApplyNft
    BY <1>12 DEF ApplyOffRouting, ApplyUndoRouting, CleanupRouting, ApplyNft, Done, admin, procd, routing
  <1>13. CASE ApplyRule \/ ApplyRoute
    BY <1>13 DEF ApplyRule, ApplyRoute, admin, procd, routing
  <1>14. CASE WriteDnsmasq \/ WriteCron
    BY <1>14 DEF WriteDnsmasq, WriteCron, Done, admin, procd, routing
  <1>15. CASE StopLoad \/ StopRule \/ StopRoute
    BY <1>15 DEF StopLoad, StopRule, StopRoute, admin, procd, routing
  <1>16. CASE StopDnsmasq \/ StopCron
    BY <1>16 DEF StopDnsmasq, StopCron, admin, procd, routing
  <1>17. CASE StopKill
    BY <1>17 DEF StopKill, Done, admin, routing
  <1>18. CASE Reboot
    BY <1>6, <1>18
  <1> QED
    BY <1>2, <1>3, <1>4, <1>5, <1>6, <1>7, <1>8, <1>9, <1>10, <1>11, <1>12, <1>13, <1>14,
       <1>15, <1>16, <1>17, <1>18 DEF Next, Script, Environment, Deletes

\* A disabled service is off the LAN whenever the init script has nothing more to do,
\* whichever commands failed, daemons died or edits came between two commands: the
\* safety half of DisableTakesEffect (init.d/neto 342-348, 398-412).  It takes a router
\* that does not reboot, since the first start after one is not registered with procd yet
\* and may find dnsmasq attached.
THEOREM DisabledIsQuiet == Spec /\ [][~Reboot]_vars => []DisabledQuiet
  <1>1. Init => DisableInv
    BY DEF Init, DisableInv, OffLAN, Started, ApplySteps
  <1>2. DisableInv => DisabledQuiet
    BY DEF DisableInv, DisabledQuiet, StopSteps
  <1> QED
    BY <1>1, <1>2, TypeCorrect, DisableNext, PTL DEF Spec
===============================================================================
