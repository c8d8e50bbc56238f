------------------------------ MODULE AiSystem ------------------------------
(***************************************************************************)
(* The firmware's main task from app_main to the loop it never leaves      *)
(* (main/main.c): the boot, then turns of ai_loop_run whose event handler  *)
(* is the App Manager and whose pump hook ends apps and drives the         *)
(* display.  It composes AiCore and AiAppMgr: each step of the system is   *)
(* a step of one or of both, or of main.c's own state.                     *)
(*                                                                         *)
(* One life of the chip: a failed ESP_ERROR_CHECK ends it ("aborted").     *)
(***************************************************************************)
EXTENDS Integers, Sequences, FiniteSets

CONSTANTS
    TimerMax, QueueDepth, GenMod, Intervals, Signals, MaxNow,   \* see AiCore
    Runtimes, LangOf, RegistryMax, VMs, Manifests, Listings, AppMax, None,  \* see AiAppMgr
    Js,          \* what ai_runtime_js returns
    Smoke,       \* the manifest app_main installs and launches
    Heartbeat,   \* the interval of app_main's timer
    FirstDelay,  \* from the boot's full refresh to the first partial one
    Period,      \* from the end of one partial refresh to the next
    FullEvery    \* partial refreshes to a ghost-clearing full one

VARIABLES
    ready, queue, timers, now, task, slot, tnow, ev, cancelled, fired, wrapped,
    registry, listing, catalog, app, live, job, req, asked, started,
    boot,     \* where app_main is; "loop" from ai_loop_run on
    stage,    \* where the pump hook is
    frame,    \* s_demo.frame
    next,     \* s_demo.next_ms
    ghosts,   \* history: partial refreshes since the last full one
    seeded    \* history: a full refresh has been made

Core == INSTANCE AiCore WITH pc <- task

Mgr == INSTANCE AiAppMgr WITH pc <- job

ASSUME SystemAssumption ==
    /\ Core!CoreAssumption /\ Mgr!AppMgrAssumption
    /\ Js \in Runtimes /\ Smoke \in Manifests /\ LangOf[Js] = Smoke.lang
    /\ Heartbeat \in Intervals /\ Heartbeat > 0
    /\ FirstDelay \in Nat /\ Period \in Nat
    /\ FullEvery \in Nat \ {0}

coreVars == <<ready, queue, timers, now, task, slot, tnow, ev, cancelled, fired, wrapped>>
mgrVars == <<registry, listing, catalog, app, live, job, req, asked, started>>
demoVars == <<frame, next, ghosts, seeded>>
vars == <<coreVars, mgrVars, boot, stage, demoVars>>

-----------------------------------------------------------------------------
(* The boot.                                                               *)

BootTo(from, to) == boot = from /\ boot' = to

\* An ESP_ERROR_CHECK that fails: the services, the display, the installation of
\* the app, or its launch.
Abort ==
    /\ boot \in {"event_init", "install"}
    /\ boot' = "aborted"
    /\ UNCHANGED <<coreVars, mgrVars, stage, demoVars>>

\* ai_vfs_init: without /system the boot goes on, and installing the app fails.
MountStorage ==
    /\ BootTo("storage", "event_init")
    /\ UNCHANGED <<coreVars, mgrVars, stage, demoVars>>

InitEvents ==
    /\ BootTo("event_init", "register")
    /\ Core!EventInit
    /\ UNCHANGED <<mgrVars, stage, demoVars>>

RegisterJs ==
    /\ BootTo("register", "install")
    /\ Mgr!ai_runtime_register(Js)
    /\ UNCHANGED <<coreVars, stage, demoVars>>

Apps(l) == {l[k] : k \in DOMAIN l}

\* write_app_smoke_files: the directory made new, anywhere in the listing, or one
\* that was there made an app; the rest of the listing is as it was.
Installed(old, new) ==
    /\ Smoke \in Apps(new)
    /\ \A k \in DOMAIN old : old[k] # Mgr!NotAnApp => old[k] \in Apps(new)
    /\ Apps(new) \subseteq Apps(old) \cup {Smoke}
    /\ Len(new) \in Len(old) .. Len(old) + 1

InstallSmoke ==
    /\ BootTo("install", "scan")
    /\ Mgr!ChangeFiles
    /\ Installed(listing["system"], listing'["system"])
    /\ listing'["sd"] = listing["sd"]
    /\ UNCHANGED <<coreVars, stage, demoVars>>

ScanApps ==
    /\ BootTo("scan", "launch")
    /\ Mgr!ai_app_scan
    /\ UNCHANGED <<coreVars, stage, demoVars>>

LaunchSmoke ==
    /\ BootTo("launch", "launching")
    /\ \E k \in DOMAIN catalog : catalog[k].id = Smoke.id /\ Mgr!Launch(k)
    /\ UNCHANGED <<coreVars, stage, demoVars>>

\* The scan has not found the app.
LaunchFindsNothing ==
    /\ BootTo("launch", "aborted")
    /\ \A k \in DOMAIN catalog : catalog[k].id # Smoke.id
    /\ UNCHANGED <<coreVars, mgrVars, stage, demoVars>>

\* ai_app_launch_file: the VM is made and the entry file run, or either fails.
LaunchStep ==
    /\ boot = "launching"
    /\ (\E vm \in VMs : Mgr!CreateVM(vm)) \/ Mgr!CreateFails \/ Mgr!RunSucceeds \/ Mgr!RunFails
    /\ UNCHANGED <<coreVars, boot, stage, demoVars>>

LaunchReturns ==
    /\ job = "idle"
    /\ BootTo("launching", IF Mgr!HasVM THEN "heartbeat" ELSE "aborted")
    /\ UNCHANGED <<coreVars, mgrVars, stage, demoVars>>

CreateHeartbeat ==
    /\ BootTo("heartbeat", "pattern")
    /\ Core!Create(Heartbeat, TRUE)
    /\ UNCHANGED <<mgrVars, stage, demoVars>>

\* draw_full_test_pattern, and the start of partial_refresh_demo.
BootPattern ==
    /\ BootTo("pattern", "loop")
    /\ next' = now + FirstDelay
    /\ ghosts' = 0 /\ seeded' = TRUE
    /\ UNCHANGED <<coreVars, mgrVars, stage, frame>>

BootStep ==
    \/ MountStorage \/ Abort \/ InitEvents \/ RegisterJs \/ InstallSmoke \/ ScanApps
    \/ LaunchSmoke \/ LaunchFindsNothing \/ LaunchStep \/ LaunchReturns
    \/ CreateHeartbeat \/ BootPattern

-----------------------------------------------------------------------------
(* The loop.                                                               *)

Tick ==
    /\ boot = "loop"
    /\ Core!BeginTick \/ Core!Skip \/ Core!Expire \/ Core!TickDone
    /\ UNCHANGED <<mgrVars, boot, stage, demoVars>>

\* loop_event_handler: the event goes to the app there is, if any.
HandleEvent ==
    /\ Core!Deliver
    /\ IF Mgr!HasVM THEN Mgr!Dispatch ELSE UNCHANGED mgrVars
    /\ UNCHANGED <<boot, stage, demoVars>>

\* The script on the VM calls ai.appExit.  The files it writes are of no account
\* here: main.c scans once, before any script has run.
ScriptExits ==
    /\ job \in {"run", "dispatch"}
    /\ Mgr!ai_app_exit
    /\ UNCHANGED <<coreVars, boot, stage, demoVars>>

ScriptReturns ==
    /\ Mgr!DispatchReturns
    /\ UNCHANGED <<coreVars, boot, stage, demoVars>>

HandlerReturns ==
    /\ job = "idle"
    /\ Core!HandlerReturns
    /\ UNCHANGED <<mgrVars, boot, stage, demoVars>>

Drained ==
    /\ Core!Drained
    /\ UNCHANGED <<mgrVars, boot, stage, demoVars>>

-----------------------------------------------------------------------------
(* loop_pump: first the App Manager's pump, then partial_refresh_pump.     *)

PumpAt(here, there) == task = "pump" /\ stage = here /\ stage' = there

\* Faulty variant of PumpApps: an app is ended only in a turn that refreshes.
PumpAppsIfDue ==
    /\ PumpAt("appmgr", "refresh")
    /\ IF Mgr!HasVM /\ app.exit /\ now >= next THEN Mgr!PumpExit ELSE UNCHANGED mgrVars
    /\ UNCHANGED <<coreVars, boot, demoVars>>

PumpApps ==
    /\ PumpAt("appmgr", "refresh")
    /\ IF Mgr!HasVM /\ app.exit THEN Mgr!PumpExit ELSE UNCHANGED mgrVars
    /\ UNCHANGED <<coreVars, boot, demoVars>>

\* Faulty variant of NotDue: the pump waits for the refresh to be due.
NotDueWaits == FALSE

NotDue ==
    /\ PumpAt("refresh", "done")
    /\ now < next
    /\ UNCHANGED <<coreVars, mgrVars, boot, demoVars>>

\* Faulty variant of FullDue: one partial refresh too many.
FullDueLate(f) == f % (FullEvery + 1) = 0

FullDue(f) == f % FullEvery = 0

PartialRefresh ==
    /\ PumpAt("refresh", IF FullDue(frame + 1) THEN "full" ELSE "rearm")
    /\ now >= next
    /\ frame' = frame + 1
    /\ ghosts' = ghosts + 1
    /\ UNCHANGED <<coreVars, mgrVars, boot, next, seeded>>

FullRefresh ==
    /\ PumpAt("full", "rearm")
    /\ ghosts' = 0 /\ seeded' = TRUE
    /\ UNCHANGED <<coreVars, mgrVars, boot, frame, next>>

\* The next refresh is counted from the end of this one, however long it took.
Rearm ==
    /\ PumpAt("rearm", "done")
    /\ next' = now + Period
    /\ UNCHANGED <<coreVars, mgrVars, boot, frame, ghosts, seeded>>

PumpReturns ==
    /\ PumpAt("done", "appmgr")
    /\ Core!PumpReturns
    /\ UNCHANGED <<mgrVars, boot, demoVars>>

LoopStep ==
    \/ Tick \/ HandleEvent \/ ScriptReturns \/ HandlerReturns \/ Drained
    \/ PumpApps \/ NotDue \/ PartialRefresh \/ FullRefresh \/ Rearm \/ PumpReturns

-----------------------------------------------------------------------------
(* The other tasks, and time.                                              *)

Post(e) == Core!Post(e) /\ UNCHANGED <<mgrVars, boot, stage, demoVars>>

Clock == Core!Clock /\ UNCHANGED <<mgrVars, boot, stage, demoVars>>

Init ==
    /\ Core!Init /\ Mgr!Init
    /\ boot = "storage" /\ stage = "appmgr"
    /\ frame = 0 /\ next = 0 /\ ghosts = 0 /\ seeded = FALSE

Next ==
    \/ BootStep
    \/ LoopStep
    \/ ScriptExits
    \/ \E e \in Signals : Post(e)
    \/ Clock

Spec == Init /\ [][Next]_vars

\* The main task is scheduled, and scripts return.
FairSpec == Spec /\ WF_vars(BootStep) /\ WF_vars(LoopStep)

-----------------------------------------------------------------------------
(* Properties.                                                             *)

TypeOK ==
    /\ boot \in {"storage", "event_init", "register", "install", "scan", "launch", "launching",
                "heartbeat", "pattern", "loop", "aborted"}
    /\ stage \in {"appmgr", "refresh", "full", "rearm", "done"}
    /\ frame \in Nat /\ ghosts \in Nat /\ next \in Nat /\ seeded \in BOOLEAN
    /\ task # "setup" => boot = "loop"

\* An app that asks to exit is gone before the loop sleeps: whatever events came
\* in between, no request outlives the turn of the loop it was made in, nor one
\* made by the entry file the first turn.
ExitWithinTurn == task = "wait" => ~app.exit

\* The panel never carries more than FullEvery partial refreshes on one full one,
\* as the comment in partial_refresh_pump says, however turns and time fall.
GhostBounded == ghosts <= FullEvery

\* The first refresh of the panel is a full one, which is what the SSD1680 driver
\* needs of its callers.
FullBeforePartial == [][PartialRefresh => seeded]_vars

Quiet == <>[][~ \E e \in Signals : Post(e) /\ queue' # queue]_vars

Expirations ==
    {[type |-> "TIMER", a |-> Core!MakeId(i, g), b |-> 1] : i \in Core!Slot, g \in 1 .. GenMod - 1}

\* An event the queue accepted is handled by the loop to come, also one posted
\* during the boot, unless the boot fails; so is every expiration that was queued.
AcceptedEventHandled ==
    \A e \in Signals \cup Expirations :
        (\E k \in DOMAIN queue : queue[k] = e) ~> (ev = e \/ boot = "aborted")

\* Once the other tasks stop posting, the loop keeps turning, with the script of
\* the app and the refreshes of the panel in its way, and gets to the pump.
LoopTurns ==
    Quiet => <>(boot = "aborted") \/ ([]<>(task = "pump") /\ []<>(task = "wait"))
=============================================================================
