------------------------------ MODULE AiAppMgr ------------------------------
(***************************************************************************)
(* The App Manager (components/ai_appmgr) over the runtime registry        *)
(* (components/ai_core/ai_runtime.c) and the runtime interface that        *)
(* ai_runtime_js implements: the catalog of installed apps, the one        *)
(* foreground app, its launch, its exit and its virtual machine.           *)
(*                                                                         *)
(* Everything here runs on the main task.  What can come between two steps *)
(* of a launch or a dispatch is what the script on the VM does, and the    *)
(* file system changing under the catalog.                                 *)
(***************************************************************************)
EXTENDS Naturals, Sequences, FiniteSets

CONSTANTS
    Runtimes,     \* the ai_runtime_t objects that may be registered
    LangOf,       \* the lang of each
    RegistryMax,  \* AI_RUNTIME_MAX
    VMs,          \* the addresses a runtime's create may return
    Manifests,    \* the [id, lang] a valid manifest.json may hold
    Listings,     \* the directory listings an apps directory may have
    AppMax,       \* AI_APP_MAX
    None          \* NULL

\* A directory entry without a valid manifest.json, or a plain file.
NotAnApp == [id |-> None, lang |-> None]

Roots == {"system", "sd"}

ASSUME AppMgrAssumption ==
    /\ LangOf \in [Runtimes -> {m.lang : m \in Manifests}]
    /\ RegistryMax \in Nat \ {0} /\ AppMax \in Nat \ {0}
    /\ None \notin Runtimes \cup VMs \cup Roots
    /\ \A m \in Manifests : DOMAIN m = {"id", "lang"} /\ m.id # None /\ m.lang # None
    /\ Listings \subseteq Seq(Manifests \cup {NotAnApp})

VARIABLES
    registry,  \* s_runtimes
    listing,   \* what each root's apps directory holds, in readdir order
    catalog,   \* s_catalog up to s_catalog_count, each with the root it came from
    app,       \* s_app
    live,      \* the VMs allocated and not freed, each with the runtime that made it
    pc,        \* where the main task is in a launch or a dispatch
    req,       \* the arguments of the launch in progress
    asked,     \* history: ai_app_exit was called since the last VM was created
    started    \* history: the last VM created has run its entry file to the end

vars == <<registry, listing, catalog, app, live, pc, req, asked, started>>

NoApp == [vm |-> None, runtime |-> None, id |-> None, exit |-> FALSE]

-----------------------------------------------------------------------------
(* The runtime registry.                                                   *)

Idx == 1 .. RegistryMax

Registered(lang) == {i \in Idx : registry[i] # None /\ LangOf[registry[i]] = lang}

First(S) == CHOOSE i \in S : \A j \in S : i <= j

ai_runtime_find(lang) ==
    IF Registered(lang) = {} THEN None ELSE registry[First(Registered(lang))]

\* The slot of the runtime with the same lang, or else the free ones.
RegisterAt(rt) ==
    IF Registered(LangOf[rt]) # {} THEN Registered(LangOf[rt])
    ELSE {i \in Idx : registry[i] = None}

\* A full registry refuses a new lang with ESP_ERR_NO_MEM.
ai_runtime_register(rt) ==
    /\ pc = "idle"
    /\ RegisterAt(rt) # {}
    /\ registry' = [registry EXCEPT ![First(RegisterAt(rt))] = rt]
    /\ UNCHANGED <<listing, catalog, app, live, pc, req, asked, started>>

-----------------------------------------------------------------------------
(* The catalog.                                                            *)

IsApp(m) == m # NotAnApp

Smaller(a, b) == IF a < b THEN a ELSE b

Prefix(s, n) == SubSeq(s, 1, Smaller(Len(s), n))

\* The directory entries that scan_root takes: AppMax are read, the apps among them.
Apps(l) == {i \in 1 .. Smaller(Len(l), AppMax) : IsApp(l[i])}

\* The k-th number of a set.
UpTo(S, i) == {j \in S : j <= i}
Nth(S, k) == CHOOSE i \in S : Cardinality(UpTo(S, i)) = k

ScanRoot(root) ==
    LET App(k) == listing[root][Nth(Apps(listing[root]), k)]
    IN  [k \in 1 .. Cardinality(Apps(listing[root])) |->
            [id |-> App(k).id, lang |-> App(k).lang, root |-> root]]

\* Faulty variant of Scan: the SD card first.
ScanSdFirst == Prefix(ScanRoot("sd") \o ScanRoot("system"), AppMax)

Scan == Prefix(ScanRoot("system") \o ScanRoot("sd"), AppMax)

ai_app_scan ==
    /\ pc = "idle"
    /\ catalog' = Scan
    /\ UNCHANGED <<registry, listing, app, live, pc, req, asked, started>>

\* Files come and go through ai_fs, a script's writeFile, or a changed SD card.
ChangeFiles ==
    /\ pc # "create"
    /\ \E root \in Roots, l \in Listings : listing' = [listing EXCEPT ![root] = l]
    /\ UNCHANGED <<registry, catalog, app, live, pc, req, asked, started>>

-----------------------------------------------------------------------------
(* Launch, exit, pump and dispatch.                                        *)

HasVM == app.vm # None /\ app.runtime # None

\* Faulty variant of Freed: through the runtime now registered for the lang.
FreedByRegistered == {<<app.vm, ai_runtime_find(LangOf[app.runtime])>>}

\* runtime->destroy frees a VM of its own runtime.
Freed == {<<app.vm, app.runtime>>}

\* Faulty variant of DestroyCurrent: the state is not cleared, only the VM.
DestroyKeepsFlag ==
    IF HasVM
    THEN live' = live \ Freed /\ app' = [NoApp EXCEPT !.exit = app.exit]
    ELSE UNCHANGED <<app, live>>

DestroyCurrent ==
    IF HasVM THEN live' = live \ Freed /\ app' = NoApp ELSE UNCHANGED <<app, live>>

\* Faulty variant of LaunchFile: the current app goes before the lang is looked up.
LaunchDestroysFirst(id, lang, root) ==
    /\ pc = "idle"
    /\ DestroyCurrent
    /\ req' = [id |-> id, runtime |-> ai_runtime_find(lang), root |-> root]
    /\ pc' = IF ai_runtime_find(lang) = None THEN "idle" ELSE "create"
    /\ UNCHANGED <<registry, listing, catalog, asked, started>>

\* The head of ai_app_launch_file: an unknown lang is refused before the
\* current app is touched, a known one takes its place.
LaunchFile(id, lang, root) ==
    /\ pc = "idle"
    /\ ai_runtime_find(lang) # None
    /\ DestroyCurrent
    /\ req' = [id |-> id, runtime |-> ai_runtime_find(lang), root |-> root]
    /\ pc' = "create"
    /\ UNCHANGED <<registry, listing, catalog, asked, started>>

\* ai_app_launch: the first entry of the catalog with the id.
Launch(k) ==
    /\ \A j \in 1 .. k - 1 : catalog[j].id # catalog[k].id
    /\ LaunchFile(catalog[k].id, catalog[k].lang, catalog[k].root)

CreateVM(vm) ==
    /\ pc = "create"
    /\ vm \notin {p[1] : p \in live}
    /\ live' = live \cup {<<vm, req.runtime>>}
    /\ app' = [vm |-> vm, runtime |-> req.runtime, id |-> req.id, exit |-> app.exit]
    /\ asked' = FALSE /\ started' = FALSE
    /\ pc' = "run"
    /\ UNCHANGED <<registry, listing, catalog, req>>

\* No memory for the VM or its context: ESP_ERR_NO_MEM, with no app left.
CreateFails ==
    /\ pc = "create"
    /\ pc' = "idle"
    /\ UNCHANGED <<registry, listing, catalog, app, live, req, asked, started>>

RunSucceeds ==
    /\ pc = "run"
    /\ pc' = "idle"
    /\ started' = TRUE
    /\ UNCHANGED <<registry, listing, catalog, app, live, req, asked>>

\* The entry file is missing, too large, or throws: ESP_FAIL.
RunFails ==
    /\ pc = "run"
    /\ DestroyCurrent
    /\ pc' = "idle"
    /\ UNCHANGED <<registry, listing, catalog, req, asked, started>>

\* Faulty variant of ai_app_exit: the VM is destroyed at once.
ExitDestroysNow ==
    /\ pc \in {"idle", "run", "dispatch"}
    /\ app.vm # None
    /\ DestroyCurrent
    /\ asked' = TRUE
    /\ UNCHANGED <<registry, listing, catalog, pc, req, started>>

\* ai_app_exit, from the script on the VM or from the firmware: the VM may be
\* on the C stack, so only a flag is set.
ai_app_exit ==
    /\ pc \in {"idle", "run", "dispatch"}
    /\ app.vm # None
    /\ app' = [vm |-> app.vm, runtime |-> app.runtime, id |-> app.id, exit |-> TRUE]
    /\ asked' = TRUE
    /\ UNCHANGED <<registry, listing, catalog, live, pc, req, started>>

\* An event enters the VM; a script that throws keeps its app.
Dispatch ==
    /\ pc = "idle"
    /\ HasVM
    /\ pc' = "dispatch"
    /\ UNCHANGED <<registry, listing, catalog, app, live, req, asked, started>>

DispatchReturns ==
    /\ pc = "dispatch"
    /\ pc' = "idle"
    /\ UNCHANGED <<registry, listing, catalog, app, live, req, asked, started>>

\* ai_appmgr_pump when an exit is due; otherwise the runtime's own pump, which
\* does nothing in ai_runtime_js.
PumpExit ==
    /\ pc = "idle"
    /\ HasVM
    /\ app.exit
    /\ DestroyCurrent
    /\ UNCHANGED <<registry, listing, catalog, pc, req, asked, started>>

-----------------------------------------------------------------------------

Init ==
    /\ registry = [i \in Idx |-> None]
    /\ listing \in [Roots -> Listings]
    /\ catalog = <<>>
    /\ app = NoApp
    /\ live = {}
    /\ pc = "idle"
    /\ req = [id |-> None, runtime |-> None, root |-> None]
    /\ asked = FALSE /\ started = FALSE

Next ==
    \/ \E rt \in Runtimes : ai_runtime_register(rt)
    \/ ai_app_scan
    \/ ChangeFiles
    \/ \E m \in Manifests : LaunchFile(m.id, m.lang, None)
    \/ \E k \in DOMAIN catalog : Launch(k)
    \/ \E vm \in VMs : CreateVM(vm)
    \/ CreateFails
    \/ RunSucceeds
    \/ RunFails
    \/ ai_app_exit
    \/ Dispatch
    \/ DispatchReturns
    \/ PumpExit

Spec == Init /\ [][Next]_vars

-----------------------------------------------------------------------------
(* Properties.                                                             *)

Ids == {m.id : m \in Manifests}

CatalogEntry == [id : Ids, lang : {m.lang : m \in Manifests}, root : Roots]

TypeOK ==
    /\ registry \in [Idx -> Runtimes \cup {None}]
    /\ listing \in [Roots -> Listings]
    /\ catalog \in Seq(CatalogEntry) /\ Len(catalog) <= AppMax
    /\ app \in [vm : VMs \cup {None}, runtime : Runtimes \cup {None},
                id : Ids \cup {None}, exit : BOOLEAN]
    /\ live \subseteq VMs \X Runtimes
    /\ pc \in {"idle", "create", "run", "dispatch"}
    /\ req \in [id : Ids \cup {None}, runtime : Runtimes \cup {None}, root : Roots \cup {None}]
    /\ asked \in BOOLEAN /\ started \in BOOLEAN

\* The only VM ever allocated is the current app's, held by the runtime that
\* made it: launches, failures at every stage, exits and a runtime replaced
\* under a running app neither leak a VM nor free it through another runtime,
\* and two apps never have VMs at the same time.
OnlyCurrentVMLive == live = IF app.vm = None THEN {} ELSE {<<app.vm, app.runtime>>}

\* A script runs on a VM that has not been freed: an app that exits or is
\* replaced is destroyed only when its VM is off the C stack.
ScriptOnLiveVM == pc \in {"run", "dispatch"} => HasVM /\ <<app.vm, app.runtime>> \in live

\* An app ends only on its own exit request: none left by an earlier app, or
\* made while no app ran, survives into the next one.
ExitFlagIsOwn == HasVM /\ app.exit => asked

\* Outside a launch, the current app is one whose entry file ran to the end: a
\* launch that fails at any stage leaves no half-started app to take events.
NoHalfLaunchedApp == pc \in {"idle", "dispatch"} /\ HasVM => started

\* No lang has two runtimes, so re-registering one replaces it for every launch.
OneRuntimePerLang ==
    \A i, j \in Idx : registry[i] # None /\ registry[j] # None
                          /\ LangOf[registry[i]] = LangOf[registry[j]] => i = j

\* An app of the SD card never takes the place of a system app it shares its id
\* with, whatever the order of scans and launches.
SystemAppsNotShadowed ==
    pc = "create" /\ req.root = "sd" =>
        ~ \E k \in DOMAIN catalog : catalog[k].root = "system" /\ catalog[k].id = req.id

\* A running app loses its VM to its own exit, its own failed start, or a launch
\* that has found its runtime: a launch that is refused costs nothing.
AppLostOnlyToSuccessor ==
    [][HasVM /\ app'.vm # app.vm => app.exit \/ pc = "run" \/ pc' = "create"]_vars

\* What docs/ARCHITECTURE.md says of the scan: every app directory with a
\* manifest is found, as far as the catalog has room.
ScanFindsEveryApp ==
    [][ai_app_scan =>
          \A root \in Roots : \A k \in DOMAIN listing[root] :
              IsApp(listing[root][k]) =>
                  \/ Len(catalog') = AppMax
                  \/ \E j \in DOMAIN catalog' :
                        catalog'[j].root = root /\ catalog'[j].id = listing[root][k].id]_vars
=============================================================================
