-------------------------- MODULE AiSystemProofs ---------------------------
(***************************************************************************)
(* What AiSystem guarantees for every value of the constants: exits are    *)
(* served within a turn of the loop, ghosting is bounded, and the panel's  *)
(* first refresh is a full one.                                            *)
(***************************************************************************)
EXTENDS AiSystem, TLAPS

-----------------------------------------------------------------------------
(* Where the main task is.                                                 *)

\* Scripts run where the boot launches and the handler dispatches and nowhere else,
\* and the pump's stages belong to the pump.
Places ==
    /\ task \in {"setup", "scan", "drain", "handle", "pump", "wait"}
    /\ job \in {"idle", "create", "run", "dispatch"}
    /\ task # "setup" => boot = "loop"
    /\ job \in {"create", "run"} => boot = "launching"
    /\ job = "dispatch" => task = "handle"
    /\ task # "pump" => stage = "appmgr"

\* An exit request is always one of an app with a VM, and past the App Manager's
\* pump there is none until the next event.
Exits ==
    /\ app = Mgr!NoApp \/ Mgr!HasVM
    /\ task = "wait" \/ stage # "appmgr" => ~app.exit
    /\ job = "create" => app = Mgr!NoApp /\ req.runtime # None

IInv == Places /\ Exits

LEMMA PlacesInit == Init => IInv
  BY DEF Init, IInv, Places, Exits, Core!Init, Mgr!Init, Mgr!NoApp

\* destroy_current leaves no app, and so none to exit.
LEMMA DestroyEmpties ==
    ASSUME Exits, Mgr!DestroyCurrent
    PROVE  app' = Mgr!NoApp
  BY DEF Exits, Mgr!DestroyCurrent

LEMMA BootPlaces ==
    ASSUME IInv, BootStep
    PROVE  IInv'
  <1> USE DEF IInv, Places, Exits
  <1>1. ASSUME UNCHANGED <<app, req, job, task, stage>>, boot # "loop", boot # "launching" \/ job = "idle"
        PROVE  IInv'
    BY <1>1 DEF Mgr!HasVM
  <1>2. CASE MountStorage \/ Abort \/ LaunchFindsNothing
    BY <1>1, <1>2 DEF MountStorage, Abort, LaunchFindsNothing, BootTo, mgrVars, coreVars
  <1>3. CASE InitEvents
    BY <1>1, <1>3 DEF InitEvents, Core!EventInit, Core!loopVars, BootTo, mgrVars
  <1>4. CASE RegisterJs
    BY <1>1, <1>4 DEF RegisterJs, Mgr!ai_runtime_register, BootTo, coreVars
  <1>5. CASE InstallSmoke
    BY <1>1, <1>5 DEF InstallSmoke, Mgr!ChangeFiles, BootTo, coreVars
  <1>6. CASE ScanApps
    BY <1>1, <1>6 DEF ScanApps, Mgr!ai_app_scan, BootTo, coreVars
  <1>7. CASE LaunchSmoke
    <2>1. PICK k \in DOMAIN catalog : Mgr!LaunchFile(catalog[k].id, catalog[k].lang, catalog[k].root)
      BY <1>7 DEF LaunchSmoke, Mgr!Launch
    <2>2. app' = Mgr!NoApp /\ job' = "create" /\ req'.runtime # None
      BY <2>1, DestroyEmpties DEF Mgr!LaunchFile
    <2> QED
      BY <1>7, <2>2 DEF LaunchSmoke, BootTo, coreVars, Mgr!NoApp, Mgr!HasVM
  <1>8. CASE LaunchStep
    <2>1. boot = "launching" /\ UNCHANGED <<task, stage, boot>> /\ task = "setup"
      BY <1>8 DEF LaunchStep, coreVars
    <2>2. ASSUME NEW vm \in VMs, Mgr!CreateVM(vm) PROVE IInv'
      <3>1. app = Mgr!NoApp /\ req.runtime # None /\ vm # None
        BY <2>2, SystemAssumption DEF Mgr!CreateVM, Mgr!AppMgrAssumption
      <3>2. app' = [vm |-> vm, runtime |-> req.runtime, id |-> req.id, exit |-> app.exit] /\ job' = "run"
        BY <2>2 DEF Mgr!CreateVM
      <3> QED
        BY <2>1, <3>1, <3>2 DEF Mgr!NoApp, Mgr!HasVM
    <2>3. CASE Mgr!CreateFails \/ Mgr!RunSucceeds
      BY <2>1, <2>3 DEF Mgr!CreateFails, Mgr!RunSucceeds, Mgr!HasVM
    <2>4. CASE Mgr!RunFails
      <3>1. app' = Mgr!NoApp /\ job' = "idle"
        BY <2>4, DestroyEmpties DEF Mgr!RunFails
      <3> QED
        BY <2>1, <3>1 DEF Mgr!NoApp, Mgr!HasVM
    <2> QED
      BY <1>8, <2>2, <2>3, <2>4 DEF LaunchStep
  <1>9. CASE LaunchReturns
    BY <1>1, <1>9 DEF LaunchReturns, BootTo, mgrVars, coreVars
  <1>10. CASE CreateHeartbeat
    BY <1>1, <1>10 DEF CreateHeartbeat, Core!Create, Core!loopVars, BootTo, mgrVars
  <1>11. CASE BootPattern
    BY <1>1, <1>11 DEF BootPattern, BootTo, mgrVars, coreVars
  <1> QED
    BY <1>2, <1>3, <1>4, <1>5, <1>6, <1>7, <1>8, <1>9, <1>10, <1>11 DEF BootStep

LEMMA LoopPlaces ==
    ASSUME IInv, LoopStep
    PROVE  IInv'
  <1> USE DEF IInv, Places, Exits
  <1>1. CASE Tick
    <2>1. boot = "loop" /\ UNCHANGED <<mgrVars, boot, stage>> /\ task' \in {"scan", "drain"}
              /\ task \in {"setup", "wait", "scan"}
      BY <1>1 DEF Tick, Core!BeginTick, Core!Skip, Core!Expire, Core!TickDone
    <2> QED
      BY <2>1 DEF mgrVars, Mgr!HasVM
  <1>2. CASE HandleEvent
    <2>1. task = "drain" /\ task' = "handle" /\ UNCHANGED <<boot, stage>>
      BY <1>2 DEF HandleEvent, Core!Deliver
    <2>2. UNCHANGED <<app, req>> /\ (job' = "dispatch" \/ job' = job)
      BY <1>2 DEF HandleEvent, Mgr!Dispatch, mgrVars
    <2> QED
      BY <2>1, <2>2 DEF Mgr!HasVM
  <1>3. CASE ScriptReturns
    BY <1>3 DEF ScriptReturns, Mgr!DispatchReturns, coreVars, Mgr!HasVM
  <1>4. CASE HandlerReturns
    BY <1>4 DEF HandlerReturns, Core!HandlerReturns, Core!AfterHandler, mgrVars, Mgr!HasVM
  <1>5. CASE Drained
    BY <1>5 DEF Drained, Core!Drained, mgrVars, Mgr!HasVM
  <1>6. CASE PumpApps
    <2>1. task = "pump" /\ UNCHANGED <<task, boot>>
      BY <1>6 DEF PumpApps, PumpAt, coreVars
    <2>2. CASE Mgr!HasVM /\ app.exit
      <3>1. app' = Mgr!NoApp /\ UNCHANGED <<job, req>>
        BY <1>6, <2>2, DestroyEmpties DEF PumpApps, Mgr!PumpExit
      <3> QED
        BY <2>1, <3>1 DEF Mgr!NoApp, Mgr!HasVM
    <2>3. CASE ~(Mgr!HasVM /\ app.exit)
      BY <1>6, <2>1, <2>3 DEF PumpApps, mgrVars, Mgr!NoApp, Mgr!HasVM
    <2> QED
      BY <2>2, <2>3
  <1>7. CASE NotDue \/ PartialRefresh \/ FullRefresh \/ Rearm
    <2>1. task = "pump" /\ stage # "appmgr" /\ UNCHANGED <<coreVars, mgrVars, boot>>
      BY <1>7 DEF NotDue, PartialRefresh, FullRefresh, Rearm, PumpAt
    <2> QED
      BY <2>1 DEF coreVars, mgrVars, Mgr!HasVM
  <1>8. CASE PumpReturns
    <2>1. task = "pump" /\ stage = "done" /\ task' = "wait" /\ stage' = "appmgr"
              /\ UNCHANGED <<mgrVars, boot>>
      BY <1>8 DEF PumpReturns, PumpAt, Core!PumpReturns
    <2> QED
      BY <2>1 DEF mgrVars, Mgr!HasVM
  <1> QED
    BY <1>1, <1>2, <1>3, <1>4, <1>5, <1>6, <1>7, <1>8 DEF LoopStep

LEMMA NextPlaces == IInv /\ [Next]_vars => IInv'
  <1> SUFFICES ASSUME IInv, [Next]_vars PROVE IInv'
    OBVIOUS
  <1> USE DEF IInv, Places, Exits
  <1>1. CASE ScriptExits
    <2>1. /\ job \in {"run", "dispatch"} /\ app.vm # None
          /\ app' = [vm |-> app.vm, runtime |-> app.runtime, id |-> app.id, exit |-> TRUE]
          /\ UNCHANGED <<job, req, task, stage, boot>>
      BY <1>1 DEF ScriptExits, Mgr!ai_app_exit, coreVars
    <2>2. Mgr!HasVM /\ task # "wait" /\ stage = "appmgr"
      BY <2>1 DEF Mgr!NoApp
    <2> QED
      BY <2>1, <2>2 DEF Mgr!HasVM
  <1>2. ASSUME NEW e \in Signals, Post(e) PROVE IInv'
    BY <1>2 DEF Post, Core!Post, Core!loopVars, mgrVars, Mgr!HasVM
  <1>3. CASE Clock
    BY <1>3 DEF Clock, Core!Clock, Core!loopVars, mgrVars, Mgr!HasVM
  <1>4. CASE UNCHANGED vars
    BY <1>4 DEF vars, coreVars, mgrVars, Mgr!HasVM
  <1> QED
    BY <1>1, <1>2, <1>3, <1>4, BootPlaces, LoopPlaces DEF Next

\* Whatever the script and the events do, no exit request is left when the loop
\* sleeps, so no app outlives by a turn its own wish to end.
THEOREM ExitsWithinTurn == Spec => []ExitWithinTurn
  <1>1. IInv => ExitWithinTurn
    BY DEF IInv, Exits, ExitWithinTurn
  <1> QED
    BY <1>1, PlacesInit, NextPlaces, PTL DEF Spec

-----------------------------------------------------------------------------
(* The panel.                                                              *)

\* Counting modulo n goes up by one or starts again.
LEMMA ModSucc ==
    ASSUME NEW n \in Nat \ {0}, NEW f \in Nat
    PROVE  /\ f % n \in 0 .. n - 1
           /\ (f + 1) % n = IF f % n = n - 1 THEN 0 ELSE (f % n) + 1
  <1> DEFINE q == f \div n
             r == f % n
  <1>1. q \in Nat /\ r \in 0 .. n - 1 /\ f = n * q + r
    BY SMT
  <1>2. CASE r = n - 1
    <2>1. f + 1 = n * (q + 1)
      BY <1>1, <1>2, SMT
    <2>2. (n * (q + 1)) % n = 0
      BY <1>1, SMT
    <2> QED
      BY <1>1, <1>2, <2>1, <2>2
  <1>3. CASE r # n - 1
    <2>1. f + 1 = n * q + (r + 1) /\ r + 1 \in 0 .. n - 1 /\ f + 1 \in Nat
      BY <1>1, <1>3, SMT
    <2> HIDE DEF q, r
    <2>2. ASSUME NEW d \in Int, NEW e \in 0 .. n - 1, NEW d2 \in Int, NEW e2 \in 0 .. n - 1,
                 n * d + e = n * d2 + e2
          PROVE  e = e2
      <3>1. n * (d - d2) = e2 - e
        BY <2>2, SMT
      <3>2. d - d2 = 0
        BY <2>2, <3>1, SMT
      <3> QED
        BY <3>1, <3>2, SMT
    <2>3. (f + 1) \div n \in Int /\ (f + 1) % n \in 0 .. n - 1
              /\ f + 1 = n * ((f + 1) \div n) + ((f + 1) % n)
      BY <2>1, SMT
    <2>4. (f + 1) % n = r + 1
      BY <1>1, <2>1, <2>2, <2>3
    <2> QED
      BY <1>1, <1>3, <2>4 DEF r
  <1> QED
    BY <1>2, <1>3

\* The partial refreshes on the last full one are what frame counts modulo FullEvery.
Ghosting ==
    /\ TypeOK /\ now \in Nat
    /\ ghosts = IF stage = "full" THEN FullEvery ELSE frame % FullEvery
    /\ stage = "full" => frame % FullEvery = 0
    /\ boot # "loop" => frame = 0
    /\ boot = "loop" => seeded
    /\ stage # "appmgr" => boot = "loop"

LEMMA GhostingInit == Init => Ghosting
  <1>1. 0 % FullEvery = 0
    BY SystemAssumption, SMT
  <1> SUFFICES ASSUME Init PROVE Ghosting
    OBVIOUS
  <1>2. /\ boot = "storage" /\ stage = "appmgr" /\ task = "setup" /\ now = 0
        /\ frame = 0 /\ next = 0 /\ ghosts = 0 /\ seeded = FALSE
    BY DEF Init, Core!Init
  <1>3. TypeOK
    BY <1>2 DEF TypeOK
  <1> QED
    BY <1>1, <1>2, <1>3 DEF Ghosting

LEMMA GhostingStep == IInv /\ Ghosting /\ [Next]_vars => Ghosting'
  <1> SUFFICES ASSUME IInv, Ghosting, [Next]_vars PROVE Ghosting'
    OBVIOUS
  <1>0. FullEvery \in Nat \ {0} /\ Period \in Nat /\ FirstDelay \in Nat
    BY SystemAssumption
  <1>1. ASSUME UNCHANGED <<boot, stage, demoVars>>, now' \in Nat, task' # "setup" => boot = "loop"
        PROVE  Ghosting'
    BY <1>1 DEF Ghosting, TypeOK, demoVars
  <1>2. ASSUME UNCHANGED <<now, task, stage, demoVars>>,
               boot # "loop", boot' # "loop",
               boot' \in {"storage", "event_init", "register", "install", "scan", "launch",
                          "launching", "heartbeat", "pattern", "aborted"}
        PROVE  Ghosting'
    <2>1. /\ stage' = "appmgr" /\ task' = "setup" /\ frame' = 0
          /\ UNCHANGED <<now, stage, frame, next, ghosts, seeded>>
      BY <1>2 DEF Ghosting, TypeOK, demoVars
    <2>2. TypeOK'
      BY <1>2, <2>1 DEF Ghosting, TypeOK
    <2> QED
      BY <1>2, <2>1, <2>2 DEF Ghosting
  <1>3. CASE BootStep
    <2>1. CASE MountStorage \/ Abort \/ LaunchFindsNothing
      BY <1>2, <2>1 DEF MountStorage, Abort, LaunchFindsNothing, BootTo, coreVars
    <2>2. CASE InitEvents
      BY <1>2, <2>2 DEF InitEvents, BootTo, Core!EventInit, Core!loopVars
    <2>3. CASE RegisterJs \/ InstallSmoke \/ ScanApps \/ LaunchSmoke \/ LaunchReturns
      BY <1>2, <2>3 DEF RegisterJs, InstallSmoke, ScanApps, LaunchSmoke, LaunchReturns, BootTo,
            coreVars
    <2>4. CASE LaunchStep
      BY <1>2, <2>4 DEF LaunchStep, coreVars
    <2>5. CASE CreateHeartbeat
      BY <1>2, <2>5 DEF CreateHeartbeat, BootTo, Core!Create, Core!loopVars
    <2>6. CASE BootPattern
      <3>1. boot = "pattern" /\ boot' = "loop" /\ ghosts' = 0 /\ seeded' /\ next' = now + FirstDelay
                /\ UNCHANGED <<now, task, stage, frame>>
        BY <2>6 DEF BootPattern, BootTo, coreVars
      <3>2. stage = "appmgr" /\ frame = 0 /\ 0 % FullEvery = 0
        BY <1>0, <3>1, SMT DEF Ghosting
      <3>3. TypeOK'
        BY <1>0, <2>6, <3>1 DEF BootPattern, Ghosting, TypeOK
      <3> QED
        BY <3>1, <3>2, <3>3 DEF Ghosting
    <2> QED
      BY <1>3, <2>1, <2>2, <2>3, <2>4, <2>5, <2>6 DEF BootStep
  <1>4. CASE LoopStep
    <2>1. CASE Tick \/ HandleEvent \/ ScriptReturns \/ HandlerReturns \/ Drained
      <3>1. UNCHANGED <<boot, stage, demoVars, now>> /\ (task' # "setup" => boot = "loop")
        <4>1. IInv'
          BY NextPlaces
        <4>2. UNCHANGED <<boot, stage, demoVars>>
          BY <2>1 DEF Tick, HandleEvent, ScriptReturns, HandlerReturns, Drained
        <4>3. UNCHANGED now
          BY <2>1 DEF Tick, HandleEvent, ScriptReturns, HandlerReturns, Drained, coreVars,
                Core!BeginTick, Core!Skip, Core!Expire, Core!TickDone, Core!Deliver,
                Core!HandlerReturns, Core!Drained
        <4> QED
          BY <4>1, <4>2, <4>3 DEF IInv, Places
      <3> QED
        BY <1>1, <3>1 DEF Ghosting
    <2>2. CASE PumpApps \/ NotDue
      <3>1. UNCHANGED <<boot, now, task, demoVars>> /\ stage # "full" /\ stage' \in {"refresh", "done"}
                /\ task = "pump"
        BY <2>2 DEF PumpApps, NotDue, PumpAt, coreVars
      <3> QED
        BY <3>1 DEF Ghosting, TypeOK, demoVars
    <2>3. CASE PartialRefresh
      <3>1. /\ frame' = frame + 1 /\ ghosts' = ghosts + 1 /\ stage = "refresh" /\ task = "pump"
            /\ stage' = IF (frame + 1) % FullEvery = 0 THEN "full" ELSE "rearm"
            /\ UNCHANGED <<boot, now, task, next, seeded>>
        BY <2>3 DEF PartialRefresh, PumpAt, FullDue, coreVars
      <3>2. frame \in Nat /\ ghosts = frame % FullEvery
        BY <3>1 DEF Ghosting, TypeOK
      <3>3. /\ frame % FullEvery \in 0 .. FullEvery - 1
            /\ (frame + 1) % FullEvery
                   = IF frame % FullEvery = FullEvery - 1 THEN 0 ELSE (frame % FullEvery) + 1
        BY <1>0, <3>2, ModSucc
      <3>4. TypeOK'
        BY <3>1, <3>2, <3>3 DEF Ghosting, TypeOK
      <3>5. ghosts' = IF stage' = "full" THEN FullEvery ELSE frame' % FullEvery
        BY <1>0, <3>1, <3>2, <3>3
      <3> QED
        BY <3>1, <3>4, <3>5 DEF Ghosting, TypeOK
    <2>4. CASE FullRefresh
      <3>1. /\ ghosts' = 0 /\ seeded' /\ stage = "full" /\ stage' = "rearm" /\ task = "pump"
            /\ UNCHANGED <<boot, now, task, frame, next>>
        BY <2>4 DEF FullRefresh, PumpAt, coreVars
      <3> QED
        BY <2>4, <3>1 DEF FullRefresh, Ghosting, TypeOK
    <2>5. CASE Rearm
      BY <1>0, <2>5 DEF Rearm, PumpAt, coreVars, Ghosting, TypeOK
    <2>6. CASE PumpReturns
      BY <2>6 DEF PumpReturns, PumpAt, Core!PumpReturns, demoVars, Ghosting, TypeOK, IInv, Places
    <2> QED
      BY <1>4, <2>1, <2>2, <2>3, <2>4, <2>5, <2>6 DEF LoopStep
  <1>5. CASE ScriptExits
    BY <1>1, <1>5 DEF ScriptExits, coreVars, Ghosting, TypeOK
  <1>6. ASSUME NEW e \in Signals, Post(e) PROVE Ghosting'
    BY <1>1, <1>6 DEF Post, Core!Post, Core!loopVars, Ghosting, TypeOK
  <1>7. CASE Clock
    BY <1>1, <1>7 DEF Clock, Core!Clock, Core!loopVars, Ghosting, TypeOK
  <1>8. CASE UNCHANGED vars
    BY <1>1, <1>8 DEF vars, coreVars, Ghosting, TypeOK
  <1> QED
    BY <1>3, <1>4, <1>5, <1>6, <1>7, <1>8 DEF Next

LEMMA AlwaysGhosting == Spec => [](IInv /\ Ghosting)
  BY PlacesInit, NextPlaces, GhostingInit, GhostingStep, PTL DEF Spec

\* Every variable of main.c keeps its type, and the loop never runs before the boot
\* is through.
THEOREM TypeCorrect == Spec => []TypeOK
  <1>1. Ghosting => TypeOK
    BY DEF Ghosting
  <1> QED
    BY <1>1, AlwaysGhosting, PTL

\* The panel never carries more than FullEvery partial refreshes on one full one,
\* for any FullEvery, periods and latencies of the loop.
THEOREM GhostsAreBounded == Spec => []GhostBounded
  <1>1. Ghosting => GhostBounded
    <2> SUFFICES ASSUME Ghosting PROVE GhostBounded
      OBVIOUS
    <2>1. FullEvery \in Nat \ {0} /\ frame \in Nat
      BY SystemAssumption DEF Ghosting, TypeOK
    <2>2. frame % FullEvery \in 0 .. FullEvery - 1
      BY <2>1, ModSucc
    <2> QED
      BY <2>1, <2>2 DEF Ghosting, GhostBounded
  <1> QED
    BY <1>1, AlwaysGhosting, PTL

\* The first refresh of the panel is a full one: what Ssd1680 takes its callers to do.
THEOREM FullComesFirst == Spec => FullBeforePartial
  <1>1. Ghosting /\ [Next]_vars => [PartialRefresh => seeded]_vars
    <2> SUFFICES ASSUME Ghosting, PartialRefresh PROVE seeded
      OBVIOUS
    <2> QED
      BY DEF PartialRefresh, PumpAt, Ghosting
  <1> QED
    BY <1>1, AlwaysGhosting, PTL DEF Spec, FullBeforePartial
=============================================================================
