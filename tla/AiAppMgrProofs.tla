-------------------------- MODULE AiAppMgrProofs ---------------------------
(***************************************************************************)
(* What AiAppMgr guarantees for every set of runtimes, VM addresses, apps  *)
(* and directory listings: proofs of its safety properties.                *)
(***************************************************************************)
EXTENDS AiAppMgr, SequenceTheorems, FiniteSetTheorems, WellFoundedInduction, TLAPS

-----------------------------------------------------------------------------
(* The inductive invariant.                                                *)

\* s_app is all zero or holds a VM with the runtime that made it, and no other
\* VM is allocated.
Ownership ==
    /\ app = NoApp \/ HasVM
    /\ OnlyCurrentVMLive

\* Where a launch stands, and what it has checked so far.
Progress ==
    /\ pc \in {"idle", "create", "run", "dispatch"}
    /\ pc = "create" => app = NoApp /\ req.runtime # None
    /\ pc \in {"run", "dispatch"} => HasVM
    /\ pc \in {"idle", "dispatch"} /\ HasVM => started

IInv == Ownership /\ Progress /\ ExitFlagIsOwn

LEMMA InitInv == Init => IInv
  BY DEF Init, IInv, Ownership, Progress, ExitFlagIsOwn, OnlyCurrentVMLive, HasVM, NoApp

\* destroy_current leaves no app and no VM.
LEMMA DestroyEmpties ==
    ASSUME Ownership, DestroyCurrent
    PROVE  app' = NoApp /\ live' = {}
  <1>1. CASE HasVM
    BY <1>1 DEF Ownership, DestroyCurrent, OnlyCurrentVMLive, Freed, HasVM
  <1>2. CASE ~HasVM
    BY <1>2 DEF Ownership, DestroyCurrent, OnlyCurrentVMLive, NoApp
  <1> QED
    BY <1>1, <1>2

LEMMA NextInv == IInv /\ [Next]_vars => IInv'
  <1> SUFFICES ASSUME IInv, [Next]_vars PROVE IInv'
    OBVIOUS
  <1> USE DEF IInv
  <1>1. ASSUME app' = NoApp, live' = {}, pc' = "idle" \/ (pc' = "create" /\ req'.runtime # None)
        PROVE  IInv'
    BY <1>1 DEF Ownership, Progress, ExitFlagIsOwn, OnlyCurrentVMLive, HasVM, NoApp
  <1>2. ASSUME UNCHANGED <<app, live, pc, req, asked, started>> PROVE IInv'
    BY <1>2 DEF Ownership, Progress, ExitFlagIsOwn, OnlyCurrentVMLive, HasVM
  <1>3. ASSUME NEW rt \in Runtimes, ai_runtime_register(rt) PROVE IInv'
    BY <1>2, <1>3 DEF ai_runtime_register
  <1>4. CASE ai_app_scan \/ ChangeFiles
    BY <1>2, <1>4 DEF ai_app_scan, ChangeFiles
  <1>5. ASSUME NEW id, NEW lang, NEW root, LaunchFile(id, lang, root) PROVE IInv'
    BY <1>1, <1>5, DestroyEmpties DEF LaunchFile
  <1>6. ASSUME NEW vm \in VMs, CreateVM(vm) PROVE IInv'
    <2>1. app = NoApp /\ live = {} /\ req.runtime # None /\ vm # None
      BY <1>6, AppMgrAssumption DEF CreateVM, Progress, Ownership, OnlyCurrentVMLive, NoApp
    <2>2. /\ app' = [vm |-> vm, runtime |-> req.runtime, id |-> req.id, exit |-> app.exit]
          /\ live' = {<<vm, req.runtime>>} /\ pc' = "run"
      BY <1>6, <2>1 DEF CreateVM
    <2> QED
      BY <2>1, <2>2 DEF Ownership, Progress, ExitFlagIsOwn, OnlyCurrentVMLive, HasVM, NoApp
  <1>7. CASE CreateFails
    BY <1>7 DEF CreateFails, Ownership, Progress, ExitFlagIsOwn, OnlyCurrentVMLive, HasVM, NoApp
  <1>8. CASE RunSucceeds \/ Dispatch \/ DispatchReturns
    BY <1>8 DEF RunSucceeds, Dispatch, DispatchReturns, Ownership, Progress, ExitFlagIsOwn,
          OnlyCurrentVMLive, HasVM
  <1>9. CASE RunFails
    BY <1>1, <1>9, DestroyEmpties DEF RunFails
  <1>10. CASE ai_app_exit
    <2>1. app' = [vm |-> app.vm, runtime |-> app.runtime, id |-> app.id, exit |-> TRUE]
      BY <1>10 DEF ai_app_exit
    <2>2. HasVM
      BY <1>10 DEF ai_app_exit, Ownership, NoApp
    <2> QED
      BY <1>10, <2>1, <2>2 DEF ai_app_exit, Ownership, Progress, ExitFlagIsOwn,
            OnlyCurrentVMLive, HasVM
  <1>11. CASE PumpExit
    BY <1>1, <1>11, DestroyEmpties DEF PumpExit
  <1>12. CASE UNCHANGED vars
    BY <1>2, <1>12 DEF vars
  <1> QED
    BY <1>3, <1>4, <1>5, <1>6, <1>7, <1>8, <1>9, <1>10, <1>11, <1>12 DEF Next, Launch

LEMMA AlwaysIInv == Spec => []IInv
  BY InitInv, NextInv, PTL DEF Spec

-----------------------------------------------------------------------------
(* What the invariant gives.                                               *)

\* One VM at most, always freed by the runtime that made it, never leaked.
THEOREM VMOwnership == Spec => []OnlyCurrentVMLive
  <1>1. IInv => OnlyCurrentVMLive
    BY DEF IInv, Ownership
  <1> QED
    BY <1>1, AlwaysIInv, PTL

\* No script runs on a freed VM.
THEOREM ScriptsRunOnLiveVMs == Spec => []ScriptOnLiveVM
  <1>1. IInv => ScriptOnLiveVM
    BY DEF IInv, Ownership, Progress, OnlyCurrentVMLive, ScriptOnLiveVM, HasVM
  <1> QED
    BY <1>1, AlwaysIInv, PTL

\* An exit request never reaches an app that did not make it.
THEOREM ExitFlagsAreOwn == Spec => []ExitFlagIsOwn
  <1>1. IInv => ExitFlagIsOwn
    BY DEF IInv
  <1> QED
    BY <1>1, AlwaysIInv, PTL

\* No launch leaves an app that did not run its entry file to the end.
THEOREM LaunchesAreWhole == Spec => []NoHalfLaunchedApp
  <1>1. IInv => NoHalfLaunchedApp
    BY DEF IInv, Progress, NoHalfLaunchedApp
  <1> QED
    BY <1>1, AlwaysIInv, PTL

LEMMA FirstIsLeast ==
    ASSUME NEW S \in SUBSET Nat, S # {}
    PROVE  First(S) \in S /\ \A j \in S : First(S) <= j
  <1>1. IsWellFoundedOn(OpToRel(<, Nat), Nat)
    BY NatLessThanWellFounded
  <1>2. PICK i \in S : \A j \in S : ~(<<j, i>> \in OpToRel(<, Nat))
    BY <1>1, WFMin
  <1>3. ASSUME NEW j \in S PROVE i <= j
    <2>1. ~(j < i)
      BY <1>2, Zenon DEF OpToRel
    <2> QED
      BY <2>1
  <1> QED
    BY <1>2, <1>3 DEF First

\* Wherever a runtime is registered, its lang is nowhere else in the registry:
\* the slot taken is the one with the lang, or free when there is none.
THEOREM LangsRegisteredOnce == Spec => []OneRuntimePerLang
  <1> DEFINE Unique == registry \in [Idx -> Runtimes \cup {None}] /\ OneRuntimePerLang
  <1>1. Init => Unique
    BY DEF Init, OneRuntimePerLang
  <1>2. Unique /\ [Next]_vars => Unique'
    <2>1. ASSUME Unique, NEW rt \in Runtimes, ai_runtime_register(rt) PROVE Unique'
      <3> DEFINE k == First(RegisterAt(rt))
      <3>1. RegisterAt(rt) \in SUBSET Nat /\ RegisterAt(rt) \subseteq Idx /\ RegisterAt(rt) # {}
        BY <2>1, AppMgrAssumption DEF ai_runtime_register, RegisterAt, Registered, Idx
      <3>2. k \in RegisterAt(rt) /\ k \in Idx
        BY <3>1, FirstIsLeast
      <3>3. \A i \in Idx : registry[i] # None /\ LangOf[registry[i]] = LangOf[rt] => i = k
        BY <2>1, <3>2 DEF RegisterAt, Registered, OneRuntimePerLang
      <3>4. registry' = [registry EXCEPT ![k] = rt]
        BY <2>1 DEF ai_runtime_register
      <3> HIDE DEF k
      <3> QED
        BY <2>1, <3>2, <3>3, <3>4 DEF OneRuntimePerLang
    <2>2. ASSUME Unique, UNCHANGED registry PROVE Unique'
      BY <2>2 DEF OneRuntimePerLang
    <2> QED
      BY <2>1, <2>2 DEF Next, vars, ai_app_scan, ChangeFiles, LaunchFile, Launch, CreateVM,
            CreateFails, RunSucceeds, RunFails, ai_app_exit, Dispatch, DispatchReturns, PumpExit
  <1> QED
    BY <1>1, <1>2, PTL DEF Spec

\* A refused launch costs the running app nothing: only a launch with a runtime
\* in hand, a failed start or the pump calls destroy_current.
THEOREM AppsLostOnlyToSuccessors == Spec => AppLostOnlyToSuccessor
  <1> DEFINE Lost == HasVM /\ app'.vm # app.vm
             Cause == app.exit \/ pc = "run" \/ pc' = "create"
  <1>1. ASSUME IInv, Next, Lost PROVE Cause
    <2>1. CASE UNCHANGED app
      BY <1>1, <2>1
    <2>2. ASSUME NEW id, NEW lang, NEW root, LaunchFile(id, lang, root) PROVE Cause
      BY <2>2 DEF LaunchFile
    <2>3. ASSUME NEW vm \in VMs, CreateVM(vm) PROVE Cause
      BY <1>1, <2>3 DEF CreateVM, IInv, Progress, HasVM, NoApp
    <2>4. CASE RunFails \/ PumpExit
      BY <2>4 DEF RunFails, PumpExit
    <2>5. CASE ai_app_exit
      <3>1. app'.vm = app.vm
        BY <2>5 DEF ai_app_exit
      <3> QED
        BY <1>1, <3>1
    <2> QED
      BY <1>1, <2>1, <2>2, <2>3, <2>4, <2>5
         DEF Next, Launch, ai_runtime_register, ai_app_scan, ChangeFiles, CreateFails,
             RunSucceeds, Dispatch, DispatchReturns
  <1>2. IInv /\ [Next]_vars => [Lost => Cause]_vars
    BY <1>1
  <1> QED
    BY <1>2, AlwaysIInv, PTL DEF Spec, AppLostOnlyToSuccessor

-----------------------------------------------------------------------------
(* The catalog.                                                            *)

\* A set of numbers that has one has a least one.
LEMMA LeastOf ==
    ASSUME NEW S \in SUBSET Nat, S # {}
    PROVE  \E n \in S : \A m \in S : n <= m
BY FirstIsLeast

LEMMA UpToSteps ==
    ASSUME NEW n \in Nat, NEW S, \A j \in S : j \in 1 .. n
    PROVE  /\ UpTo(S, 0) = {} /\ UpTo(S, n) = S
           /\ \A i \in Nat \ {0} :
                UpTo(S, i) = IF i \in S THEN UpTo(S, i - 1) \cup {i} ELSE UpTo(S, i - 1)
<1>1. UpTo(S, 0) = {} /\ UpTo(S, n) = S
  BY DEF UpTo
<1>2. ASSUME NEW i \in Nat \ {0}, i \in S PROVE UpTo(S, i) = UpTo(S, i - 1) \cup {i}
  <2>1. \A j \in S : j \in Nat /\ (j <= i <=> j <= i - 1 \/ j = i)
    OBVIOUS
  <2> QED
    BY <1>2, <2>1, Zenon DEF UpTo
<1>3. ASSUME NEW i \in Nat \ {0}, i \notin S PROVE UpTo(S, i) = UpTo(S, i - 1)
  BY <1>3 DEF UpTo
<1> QED
  BY <1>1, <1>2, <1>3

\* Every k up to its size has a k-th number in a finite set.
LEMMA NthIsMember ==
    ASSUME NEW n \in Nat, NEW S, \A j \in S : j \in 1 .. n, NEW k \in 1 .. Cardinality(S)
    PROVE  Nth(S, k) \in S
<1> DEFINE count == [i \in 0 .. n |-> Cardinality(UpTo(S, i))]
           enough == {i \in 0 .. n : count[i] >= k}
<1>1. \A i \in 0 .. n : IsFiniteSet(UpTo(S, i)) /\ Cardinality(UpTo(S, i)) \in Nat
  <2> TAKE i \in 0 .. n
  <2>1. IsFiniteSet(1 .. n)
    BY FS_Interval
  <2>2. UpTo(S, i) \in SUBSET (1 .. n)
    BY DEF UpTo
  <2> QED
    BY <2>1, <2>2, FS_Subset, FS_CardinalityType
<1>2. \A i \in 0 .. n : count[i] = Cardinality(UpTo(S, i)) /\ count[i] \in Nat
  BY <1>1
<1>3. count[0] = 0 /\ count[n] = Cardinality(S)
  <2>1. UpTo(S, 0) = {} /\ UpTo(S, n) = S
    BY UpToSteps
  <2> HIDE DEF count
  <2> QED
    BY <1>2, <2>1, FS_EmptySet
<1>4. \A i \in 1 .. n : count[i] = IF i \in S THEN count[i - 1] + 1 ELSE count[i - 1]
  <2> TAKE i \in 1 .. n
  <2>1. i \in Nat \ {0} /\ i \in 0 .. n /\ i - 1 \in 0 .. n
    OBVIOUS
  <2>2. CASE i \in S
    <3>1. UpTo(S, i) = UpTo(S, i - 1) \cup {i}
      BY <2>1, <2>2, UpToSteps
    <3>2. i \notin UpTo(S, i - 1)
      BY <2>1 DEF UpTo
    <3>3. Cardinality(UpTo(S, i)) = Cardinality(UpTo(S, i - 1)) + 1
      BY <1>1, <2>1, <3>1, <3>2, FS_AddElement
    <3> QED
      BY <1>2, <2>1, <2>2, <3>3
  <2>3. CASE i \notin S
    BY <1>2, <2>1, <2>3, UpToSteps
  <2> QED
    BY <2>2, <2>3
<1> HIDE DEF count
<1>5. n \in enough
  BY <1>2, <1>3
<1>6. enough \in SUBSET Nat
  OBVIOUS
<1>7. PICK i \in enough : \A m \in enough : i <= m
  BY <1>5, <1>6, LeastOf
<1>8. i \in 1 .. n /\ i - 1 \notin enough
  BY <1>3, <1>7
<1>9. i \in S /\ count[i] = k
  BY <1>2, <1>4, <1>7, <1>8
<1> QED
  BY <1>2, <1>9, <1>8 DEF Nth

\* What a scan of a root adds: at most AppMax entries, each with that root and with
\* what some valid manifest there says.
LEMMA ScanRootTyped ==
    ASSUME NEW root \in Roots, listing \in [Roots -> Listings]
    PROVE  /\ ScanRoot(root) \in Seq(CatalogEntry)
           /\ \A k \in 1 .. Len(ScanRoot(root)) : ScanRoot(root)[k].root = root
<1> DEFINE l == listing[root]
           apps == Apps(l)
           upto == Smaller(Len(l), AppMax)
<1>1. l \in Seq(Manifests \cup {NotAnApp}) /\ upto \in Nat /\ upto <= Len(l)
  <2>1. l \in Listings /\ Listings \subseteq Seq(Manifests \cup {NotAnApp}) /\ AppMax \in Nat
    BY AppMgrAssumption
  <2>2. Len(l) \in Nat
    BY <2>1, LenProperties
  <2> QED
    BY <2>1, <2>2 DEF Smaller
<1> HIDE DEF l
<1>2. (\A i \in apps : i \in 1 .. upto) /\ Cardinality(apps) \in Nat
  <2>1. apps \in SUBSET (1 .. upto)
    BY DEF Apps
  <2>2. IsFiniteSet(1 .. upto)
    BY <1>1, FS_Interval
  <2> QED
    BY <2>1, <2>2, FS_Subset, FS_CardinalityType
<1>3. ASSUME NEW i \in apps PROVE l[i] \in Manifests
  <2>1. i \in 1 .. Len(l) /\ IsApp(l[i])
    BY <1>1, <1>2, <1>3 DEF Apps
  <2> QED
    BY <1>1, <2>1, ElementOfSeq DEF IsApp
<1>4. ASSUME NEW k \in 1 .. Cardinality(apps) PROVE l[Nth(apps, k)] \in Manifests
  BY <1>1, <1>2, <1>3, NthIsMember
<1> HIDE DEF apps
<1>5. ScanRoot(root) = [k \in 1 .. Cardinality(apps) |->
        [id |-> l[Nth(apps, k)].id, lang |-> l[Nth(apps, k)].lang, root |-> root]]
  BY DEF ScanRoot, apps, l
<1>6. \A k \in 1 .. Cardinality(apps) : ScanRoot(root)[k] \in CatalogEntry /\ ScanRoot(root)[k].root = root
  BY <1>4, <1>5 DEF CatalogEntry, Ids
<1>7. ScanRoot(root) \in [1 .. Cardinality(apps) -> CatalogEntry]
  BY <1>5, <1>6
<1> QED
  BY <1>2, <1>6, <1>7, SeqDef, LenProperties

\* A sorted catalog: the system apps before those of the SD card.
SystemFirst ==
    \A j, k \in DOMAIN catalog : j < k /\ catalog[k].root = "system" => catalog[j].root = "system"

\* A scan gives such a catalog, within its bound.
LEMMA ScanSorted ==
    ASSUME listing \in [Roots -> Listings], catalog' = Scan
    PROVE  catalog' \in Seq(CatalogEntry) /\ Len(catalog') <= AppMax /\ SystemFirst'
<1> DEFINE sys == ScanRoot("system")
           sd == ScanRoot("sd")
           both == sys \o sd
<1>1. /\ sys \in Seq(CatalogEntry) /\ \A k \in 1 .. Len(sys) : sys[k].root = "system"
      /\ sd \in Seq(CatalogEntry) /\ \A k \in 1 .. Len(sd) : sd[k].root = "sd"
  BY ScanRootTyped DEF Roots
<1> HIDE DEF sys, sd
<1>2. Len(sys) \in Nat /\ Len(sd) \in Nat
  BY <1>1, LenProperties
<1>3. /\ both \in Seq(CatalogEntry) /\ Len(both) = Len(sys) + Len(sd)
      /\ \A k \in 1 .. Len(both) : both[k] = IF k <= Len(sys) THEN sys[k] ELSE sd[k - Len(sys)]
  BY <1>1, ConcatProperties
<1>4. \A k \in 1 .. Len(both) : both[k].root = IF k <= Len(sys) THEN "system" ELSE "sd"
  <2> TAKE k \in 1 .. Len(both)
  <2>1. CASE k <= Len(sys)
    BY <1>1, <1>2, <1>3, <2>1
  <2>2. CASE ~(k <= Len(sys))
    <3>1. k - Len(sys) \in 1 .. Len(sd)
      BY <1>2, <1>3, <2>2
    <3> QED
      BY <1>1, <1>3, <2>2, <3>1
  <2> QED
    BY <2>1, <2>2
<1> HIDE DEF both
<1> DEFINE m == Smaller(Len(both), AppMax)
<1>5. m \in Nat /\ m <= Len(both) /\ m <= AppMax
  BY <1>2, <1>3, AppMgrAssumption DEF Smaller
<1>6. catalog' = SubSeq(both, 1, m)
  BY DEF Scan, Prefix, both, sys, sd
<1> HIDE DEF m
<1>7. \A k \in 1 .. m : both[k] \in CatalogEntry
  BY <1>2, <1>3, <1>5, ElementOfSeq
<1>8. /\ catalog' \in Seq(CatalogEntry) /\ Len(catalog') = m
      /\ \A k \in 1 .. m : catalog'[k] = both[k]
  <2>1. SubSeq(both, 1, m) \in Seq(CatalogEntry) /\ Len(SubSeq(both, 1, m)) = m
    BY <1>5, <1>7, SubSeqProperties
  <2>2. \A k \in 1 .. m : SubSeq(both, 1, m)[k] = both[k]
    BY <1>5, <1>7, SubSeqProperties
  <2> QED
    BY <1>6, <2>1, <2>2
<1>9. DOMAIN catalog' = 1 .. m
  BY <1>8, LenProperties
<1>10. ASSUME NEW j \in 1 .. m, NEW k \in 1 .. m, j < k, catalog'[k].root = "system"
       PROVE  catalog'[j].root = "system"
  <2>1. j \in 1 .. Len(both) /\ k \in 1 .. Len(both) /\ j \in Nat /\ k \in Nat
    BY <1>2, <1>3, <1>5
  <2>2. k <= Len(sys)
    BY <1>4, <1>8, <1>10, <2>1
  <2>3. j <= Len(sys)
    BY <1>2, <1>10, <2>1, <2>2
  <2> QED
    BY <1>4, <1>8, <2>1, <2>3
<1> QED
  BY <1>5, <1>8, <1>9, <1>10 DEF SystemFirst

LEMMA FoundIsRegistered ==
    ASSUME TypeOK, NEW lang
    PROVE  ai_runtime_find(lang) \in Runtimes \cup {None}
<1>1. CASE Registered(lang) = {}
  BY <1>1 DEF ai_runtime_find
<1>2. CASE Registered(lang) # {}
  <2>1. Registered(lang) \in SUBSET Nat /\ \A i \in Registered(lang) : i \in Idx
    BY AppMgrAssumption DEF Registered, Idx
  <2>2. First(Registered(lang)) \in Idx
    BY <1>2, <2>1, FirstIsLeast
  <2> QED
    BY <1>2, <2>2 DEF ai_runtime_find, TypeOK
<1> QED
  BY <1>1, <1>2

LEMMA DestroyTyped ==
    ASSUME TypeOK, DestroyCurrent
    PROVE  /\ app' \in [vm : VMs \cup {None}, runtime : Runtimes \cup {None},
                        id : Ids \cup {None}, exit : BOOLEAN]
           /\ live' \subseteq VMs \X Runtimes
<1>1. live' \subseteq live /\ app' \in {app, NoApp}
  BY DEF DestroyCurrent
<1>2. app' \in [vm : VMs \cup {None}, runtime : Runtimes \cup {None}, id : Ids \cup {None}, exit : BOOLEAN]
  <2>1. NoApp \in [vm : VMs \cup {None}, runtime : Runtimes \cup {None}, id : Ids \cup {None}, exit : BOOLEAN]
    BY DEF NoApp
  <2> QED
    BY <1>1, <2>1, Zenon DEF TypeOK
<1>3. live' \subseteq VMs \X Runtimes
  BY <1>1, Zenon DEF TypeOK
<1> QED
  BY <1>2, <1>3

\* Every variable keeps its type, which of a catalog says that its entries are apps
\* and no more than fit.
LEMMA TypesKept == IInv /\ TypeOK /\ [Next]_vars => TypeOK'
<1> SUFFICES ASSUME IInv, TypeOK, [Next]_vars PROVE TypeOK'
  OBVIOUS
<1>1. ASSUME NEW rt \in Runtimes, ai_runtime_register(rt) PROVE TypeOK'
  <2> DEFINE k == First(RegisterAt(rt))
  <2>1. registry' = [registry EXCEPT ![k] = rt]
    BY <1>1 DEF ai_runtime_register
  <2> HIDE DEF k
  <2>2. registry' \in [Idx -> Runtimes \cup {None}]
    BY <2>1 DEF TypeOK
  <2> QED
    BY <1>1, <2>2 DEF ai_runtime_register, TypeOK
<1>2. CASE ai_app_scan
  <2>1. catalog' \in Seq(CatalogEntry) /\ Len(catalog') <= AppMax
    BY <1>2, ScanSorted DEF ai_app_scan, TypeOK
  <2> QED
    BY <1>2, <2>1 DEF ai_app_scan, TypeOK
<1>3. CASE ChangeFiles
  BY <1>3 DEF ChangeFiles, TypeOK
<1>4. ASSUME NEW id \in Ids, NEW lang, NEW root \in Roots \cup {None}, LaunchFile(id, lang, root)
      PROVE  TypeOK'
  BY <1>4, FoundIsRegistered, DestroyTyped DEF LaunchFile, TypeOK
<1>5. ASSUME NEW vm \in VMs, CreateVM(vm) PROVE TypeOK'
  <2>1. req.runtime \in Runtimes
    BY <1>5 DEF CreateVM, IInv, Progress, TypeOK
  <2>2. <<vm, req.runtime>> \in VMs \X Runtimes
    BY <2>1
  <2>3. live' \subseteq VMs \X Runtimes
    BY <1>5, <2>2, Zenon DEF CreateVM, TypeOK
  <2>4. app' \in [vm : VMs \cup {None}, runtime : Runtimes \cup {None}, id : Ids \cup {None}, exit : BOOLEAN]
    BY <1>5, <2>1 DEF CreateVM, TypeOK
  <2> QED
    BY <1>5, <2>3, <2>4 DEF CreateVM, TypeOK
<1>6. CASE CreateFails \/ RunSucceeds \/ Dispatch \/ DispatchReturns
  BY <1>6 DEF CreateFails, RunSucceeds, Dispatch, DispatchReturns, TypeOK
<1>7. CASE RunFails \/ PumpExit
  BY <1>7, DestroyTyped DEF RunFails, PumpExit, TypeOK
<1>8. CASE ai_app_exit
  BY <1>8 DEF ai_app_exit, TypeOK
<1>9. CASE UNCHANGED vars
  BY <1>9 DEF vars, TypeOK
<1>10. ASSUME NEW k \in DOMAIN catalog, Launch(k) PROVE TypeOK'
  <2>1. catalog \in Seq(CatalogEntry)
    BY DEF TypeOK
  <2>2. k \in 1 .. Len(catalog)
    BY <2>1, LenProperties
  <2>3. catalog[k] \in CatalogEntry
    BY <2>1, <2>2, ElementOfSeq
  <2> QED
    BY <1>4, <1>10, <2>3 DEF Launch, CatalogEntry
<1>11. ASSUME NEW m \in Manifests, LaunchFile(m.id, m.lang, None) PROVE TypeOK'
  BY <1>4, <1>11 DEF Ids
<1> QED
  BY <1>1, <1>2, <1>3, <1>5, <1>6, <1>7, <1>8, <1>9, <1>10, <1>11 DEF Next

LEMMA InitTyped == Init => TypeOK
<1>1. <<>> \in Seq(CatalogEntry) /\ Len(<<>>) = 0
  BY EmptySeq
<1>2. AppMax \in Nat
  BY AppMgrAssumption
<1>3. NoApp \in [vm : VMs \cup {None}, runtime : Runtimes \cup {None}, id : Ids \cup {None}, exit : BOOLEAN]
  BY DEF NoApp
<1>4. {} \subseteq VMs \X Runtimes
  OBVIOUS
<1> SUFFICES ASSUME Init PROVE TypeOK
  OBVIOUS
<1>5. catalog \in Seq(CatalogEntry) /\ Len(catalog) <= AppMax
  BY <1>1, <1>2 DEF Init
<1>6. registry \in [Idx -> Runtimes \cup {None}] /\ listing \in [Roots -> Listings]
  BY DEF Init
<1>7. req \in [id : Ids \cup {None}, runtime : Runtimes \cup {None}, root : Roots \cup {None}]
  BY DEF Init
<1> QED
  BY <1>3, <1>4, <1>5, <1>6, <1>7, Zenon DEF Init, TypeOK

THEOREM TypeCorrect == Spec => []TypeOK
BY InitTyped, TypesKept, AlwaysIInv, PTL DEF Spec

\* The invariant behind SystemAppsNotShadowed: what launches find by id is the first
\* of the entries with it, and the system's come first.
LEMMA SortedKept ==
    TypeOK /\ SystemFirst /\ SystemAppsNotShadowed /\ [Next]_vars => (SystemFirst /\ SystemAppsNotShadowed)'
<1> SUFFICES ASSUME TypeOK, SystemFirst, SystemAppsNotShadowed, [Next]_vars
             PROVE  SystemFirst' /\ SystemAppsNotShadowed'
  OBVIOUS
<1> USE DEF SystemFirst, SystemAppsNotShadowed
<1>1. CASE ai_app_scan
  <2>1. SystemFirst'
    BY <1>1, ScanSorted DEF ai_app_scan, TypeOK
  <2> QED
    BY <1>1, <2>1 DEF ai_app_scan
<1>2. ASSUME NEW m \in Manifests, LaunchFile(m.id, m.lang, None) PROVE SystemFirst' /\ SystemAppsNotShadowed'
  BY <1>2, AppMgrAssumption DEF LaunchFile, Roots
<1>3. ASSUME NEW k \in DOMAIN catalog, Launch(k) PROVE SystemFirst' /\ SystemAppsNotShadowed'
  <2>1. UNCHANGED catalog /\ req'.id = catalog[k].id /\ req'.root = catalog[k].root
    BY <1>3 DEF Launch, LaunchFile
  <2>2. DOMAIN catalog = 1 .. Len(catalog) /\ Len(catalog) \in Nat
    BY LenProperties DEF TypeOK
  <2>3. ASSUME catalog[k].root = "sd", NEW j \in DOMAIN catalog, catalog[j].root = "system",
               catalog[j].id = catalog[k].id
        PROVE  FALSE
    <3>1. j # k /\ ~(k < j)
      BY <2>3
    <3>2. j \in 1 .. k - 1
      BY <2>2, <3>1
    <3> QED
      BY <1>3, <2>3, <3>2 DEF Launch
  <2> QED
    BY <2>1, <2>3
<1>4. CASE UNCHANGED <<catalog, req, pc>>
  BY <1>4
<1>5. ASSUME UNCHANGED <<catalog, req>>, pc' # "create" PROVE SystemFirst' /\ SystemAppsNotShadowed'
  BY <1>5
<1> QED
  BY <1>1, <1>2, <1>3, <1>4, <1>5
     DEF Next, vars, ai_runtime_register, ChangeFiles, CreateVM, CreateFails, RunSucceeds, RunFails, ai_app_exit,
         Dispatch, DispatchReturns, PumpExit

\* An id that both /system and the SD card have names the system's app: scan_root is
\* called for /system first and ai_app_launch takes the first entry it finds.
THEOREM SystemAppsComeFirst == Spec => []SystemAppsNotShadowed
<1>1. Init => SystemFirst /\ SystemAppsNotShadowed
  BY DEF Init, SystemFirst, SystemAppsNotShadowed
<1> QED
  BY <1>1, SortedKept, TypeCorrect, PTL DEF Spec
=============================================================================
