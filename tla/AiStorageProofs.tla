-------------------------- MODULE AiStorageProofs --------------------------
(***************************************************************************)
(* What the storage calls promise, for every set of strings, every limit   *)
(* and every bound: nothing leaks, an exception leaves the file alone, and *)
(* what a write or a commit reported is still there after a restart, and   *)
(* a file is never a mixture of two.                                       *)
(***************************************************************************)
EXTENDS AiStorage, SequenceTheorems, WellFoundedInduction, TLAPS

Scripts == {"readFile", "writeFile", "exists", "kvGet", "kvSet"}   \* the calls a script makes

VM == {"struct", "arena"}

TypeOK ==
    /\ key \in Keys
    /\ num \in Nat
    /\ got \in Int
    /\ data \in {<<>>, Text} \cup Datas
    /\ kv \in [Keys -> Nat]
    /\ kvKept \in [Keys -> SUBSET Nat]
    /\ floor \in [Keys -> Nat]

\* Which steps a call has, and who makes it: app_main at one place of the boot, or
\* a script, which only runs while the entry file is run or an event dispatched.
Control ==
    /\ op \in {"none", "install", "selftest", "create"} \cup Readers \cup Scripts
    /\ Idle <=> op = "none"
    /\ op \in Readers => at \in {"stat", "open", "malloc", "read"}
    /\ op = "writeFile" => at \in {"data", "open", "write", "close"}
    /\ op = "install" => at \in {"open", "write", "close"} /\ boot = "installing"
    /\ op = "exists" => at = "look"
    /\ op = "kvGet" => at \in {"length", "length_str", "buffer", "get", "get_str", "string"}
    /\ op = "kvSet" => at \in {"value", "set", "nvs_set", "commit", "nvs_close", "free"}
    /\ op = "selftest" =>
         at \in {"get", "get_str", "set", "nvs_set", "commit", "nvs_close"} /\ boot = "install"
    /\ op = "create" => at \in {"struct", "arena", "context"} /\ boot = "creating"
    /\ op = "run_file" => boot = "running"
    /\ op \notin Scripts \cup {"none"} => script = "none"
    /\ op \in Scripts => script # "none"
    /\ script \in {"none", "entry", "event"}
    /\ script = "entry" => boot = "running"
    /\ script = "event" => boot = "loop"

\* What the VM and its entry file keep across calls.
AcrossCalls ==
    (IF \/ boot \in {"vm", "running", "loop"}
        \/ boot = "creating" /\ Idle /\ res.kind = "none" THEN VM ELSE {})
    \cup (IF script = "entry" THEN {"source"} ELSE {})

\* What the call in progress holds on top, between its library calls.
InCall ==
    LET While(cond, what) == IF cond THEN what ELSE {}
    IN  UNION {
        While(at \in {"stat", "open"} /\ op = "readFile", {"path"}),
        While(op = "writeFile" /\ at \in {"data", "open"}, {"path"}),
        While(op = "writeFile" /\ at \in {"open", "write"}, {"data"}),
        While(at \in {"malloc", "read", "write", "close"}, {"fd"}),
        While(at = "read", {"buf"}),
        While(at = "look", {"path"}),
        While(at \in {"length", "length_str", "buffer", "get", "get_str"} /\ op = "kvGet", {"key"}),
        While(at \in {"get", "get_str", "string"} /\ op = "kvGet", {"val"}),
        While(at \in {"length_str", "get_str", "nvs_set", "commit", "nvs_close"}, {"nvs"}),
        While(op = "kvSet", held \cap (IF at = "value" THEN {"key"} ELSE {"key", "val"})),
        While(at \in {"arena", "context"}, {"struct"}),
        While(at = "context", {"arena"})}

Held == held = AcrossCalls \cup InCall

\* A file being written is the part that was, and promises nothing yet; only of such
\* a file is there more than one content for a restart to find.
Writing ==
    /\ at \in {"write", "close"} => written = Missing
    /\ at = "write" => file = <<>>
    /\ at = "close" /\ got >= 0 => file = SubSeq(data, 1, got)
    /\ at \notin {"write", "close"} => kept = {file}
    /\ ~Idle /\ at \notin {"write", "close"} => before = file
    /\ op \in Writers => kept \cup {file} \subseteq {before} \cup Prefixes(data, StrLen(data))

\* A counter that was read and raised is not below what was committed, until it is set.
Raising ==
    /\ num > 0 => num >= floor[key]
    /\ at \in {"value", "set", "nvs_set", "commit"} => num > 0
    /\ at = "commit" => kv[key] = num
    /\ op = "kvGet" /\ at # "string" => num = 0

IInv == TypeOK /\ Control /\ Held /\ Writing /\ Raising /\ WrittenSurvives /\ CommittedKept

-----------------------------------------------------------------------------
(* Strings and their beginnings.                                           *)

\* strlen is the length of some beginning of the string.
LEMMA StrLenIsLength ==
    ASSUME NEW d \in {<<>>, Text} \cup Datas
    PROVE  d \in Seq({"x", "y", "nul"}) /\ StrLen(d) \in 0 .. Len(d)
<1>1. d \in Seq({"x", "y", "nul"})
  <2>1. CASE d = <<>>
    BY <2>1, EmptySeq
  <2>2. CASE d \in Datas \cup {Text}
    BY <2>2, StorageAssumption DEF StorageAssumption
  <2> QED BY <2>1, <2>2
<1>2. CASE \A k \in DOMAIN d : d[k] # "nul"
  BY <1>1, <1>2 DEF StrLen
<1>3. CASE \E k \in DOMAIN d : d[k] = "nul"
  <2> DEFINE Nuls == {k \in DOMAIN d : d[k] = "nul"}
             IsFirst(k) == d[k] = "nul" /\ \A j \in 1 .. k - 1 : d[j] # "nul"
  <2>1. IsWellFoundedOn(OpToRel(<, Nat), Nat)
    BY NatLessThanWellFounded
  <2>2. Nuls \in SUBSET Nat /\ Nuls # {}
    BY <1>1, <1>3
  <2>3. PICK k \in Nuls : \A j \in Nuls : ~(<<j, k>> \in OpToRel(<, Nat))
    BY <2>1, <2>2, WFMin
  <2>4. ASSUME NEW j \in Nuls PROVE ~(j < k)
    BY <2>2, <2>3, Zenon DEF OpToRel
  <2>5. IsFirst(k)
    BY <1>1, <2>4
  <2> DEFINE first == CHOOSE i \in DOMAIN d : IsFirst(i)
  <2>6. first \in DOMAIN d
    BY <2>5
  <2>7. StrLen(d) = first - 1
    BY <1>3 DEF StrLen
  <2> HIDE DEF first
  <2> QED BY <1>1, <2>6, <2>7
<1> QED BY <1>1, <1>2, <1>3

\* The empty string is a beginning of every string.
LEMMA EmptyIsPrefix == ASSUME NEW d \in {<<>>, Text} \cup Datas PROVE <<>> \in Prefixes(d, StrLen(d))
<1>1. SubSeq(d, 1, 0) = <<>>
  BY SubSeqEmpty
<1> QED BY <1>1, StrLenIsLength DEF Prefixes

\* What is written over an empty file is all that is in it.
LEMMA OverwrittenIs ==
    ASSUME data \in {<<>>, Text} \cup Datas, file = <<>>, NEW n \in 0 .. StrLen(data)
    PROVE  Overwritten(n) = SubSeq(data, 1, n)
<1>1. data \in Seq({"x", "y", "nul"}) /\ n \in 0 .. Len(data)
  BY StrLenIsLength
<1>2. SubSeq(data, 1, n) \in Seq({"x", "y", "nul"})
  <2>1. \A i \in 1 .. n : data[i] \in {"x", "y", "nul"}
    BY <1>1
  <2> QED BY <1>1, <2>1, SubSeqProperties
<1>3. SubSeq(file, n + 1, Len(file)) = <<>>
  BY <1>1, SubSeqEmpty
<1> QED BY <1>2, <1>3, ConcatEmptySeq DEF Overwritten

\* So all that such a write may leave behind are beginnings of the data.
LEMMA BeginningsWritten ==
    ASSUME data \in {<<>>, Text} \cup Datas, file = <<>>, NEW n \in 0 .. StrLen(data)
    PROVE  /\ Overwritten(n) = SubSeq(data, 1, n)
           /\ Overwritten(n) \in Prefixes(data, StrLen(data))
           /\ {Overwritten(k) : k \in 0 .. n} \subseteq Prefixes(data, StrLen(data))
<1>1. StrLen(data) \in Nat
  BY StrLenIsLength
<1>2. ASSUME NEW k \in 0 .. n
      PROVE  Overwritten(k) = SubSeq(data, 1, k) /\ Overwritten(k) \in Prefixes(data, StrLen(data))
  <2>1. k \in 0 .. StrLen(data)
    BY <1>1
  <2>2. Overwritten(k) = SubSeq(data, 1, k)
    BY <2>1, OverwrittenIs
  <2>3. SubSeq(data, 1, k) \in Prefixes(data, StrLen(data))
    BY <2>1 DEF Prefixes
  <2> QED BY <2>2, <2>3
<1>3. n \in 0 .. n
  BY <1>1
<1> QED BY <1>2, <1>3

-----------------------------------------------------------------------------
(* The inductive invariant holds: at first, and after every step.          *)

\* The chip starts with nothing held, written or committed.
LEMMA InitIInv == Init => IInv
BY DEF Init, IInv, TypeOK, Control, Held, AcrossCalls, InCall, Writing, Raising, WrittenSurvives,
       CommittedKept, Idle, Keys, Readers, Writers, Scripts, Result, NoResult

\* Every call goes from step to step in its order and returns to its caller.
LEMMA ControlKept == ASSUME IInv, Next PROVE Control'
<1> USE DEF IInv, Control, Idle, Begin, Step, Return, Goto, Running, Ready, Scripts, Readers
<1>1. CASE Read
  BY <1>1 DEF Read, ReadFile, Stat, OpenToRead, MallocBuffer, ReadSome, ReadEnds, Exists,
     ExistsAnswers, chip
<1>2. CASE Write
  BY <1>2 DEF Write, WriteFile, TakeData, OpenToWrite, WriteData, CloseWritten, chip, Writers
<1>3. CASE KvRead
  BY <1>3 DEF KvRead, KvGetBegins, KvLengthOpen, KvLength, KvBuffer, KvGetOpen, KvGet, KvString, GivesNull,
     GetFails, Getters, chip
<1>4. CASE KvWrite
  BY <1>4 DEF KvWrite, KvSetBegins, KvCopyValue, KvOpen, KvSetStr, KvCommit, KvClose, KvFree, SetReturns, Setters,
     chip
<1>5. CASE Main
  BY <1>5 DEF Main, Mount, KvInit, CountBoots, Install, Installed, CreateVM, AllocStruct, AllocArena,
     NewContext, Created, RunFile, RunFailed, EntryReturns, Dispatch, DispatchReturns, EndApp, chip, Unmoved
<1>6. CASE Restart
  BY <1>6 DEF Restart
<1> QED BY <1>1, <1>2, <1>3, <1>4, <1>5, <1>6 DEF Next

\* Every step of a call takes and gives back what the next step expects to be held.
LEMMA HeldKept == ASSUME IInv, Next PROVE Held'
<1> USE DEF IInv, Control, Held, AcrossCalls, InCall, VM, Idle, Begin, Step, Return, Goto, Running, Ready,
            Scripts, Readers, Take, Give, Result, NoResult, Count
<1>1. CASE Read
  BY <1>1 DEF Read, ReadFile, Stat, OpenToRead, MallocBuffer, ReadSome, ReadEnds, Exists,
     ExistsAnswers, chip
<1>2. CASE Write
  BY <1>2 DEF Write, WriteFile, TakeData, OpenToWrite, WriteData, CloseWritten, chip, Writers
<1>3. CASE KvRead
  BY <1>3 DEF KvRead, KvGetBegins, KvLengthOpen, KvLength, KvBuffer, KvGetOpen, KvGet, KvString, GivesNull,
     GetFails, Getters, chip
<1>4. CASE KvWrite
  BY <1>4 DEF KvWrite, KvSetBegins, KvCopyValue, KvOpen, KvSetStr, KvCommit, KvClose, KvFree, SetReturns, Setters,
     chip
<1>5. CASE Main
  BY <1>5 DEF Main, Mount, KvInit, CountBoots, Install, Installed, CreateVM, AllocStruct, AllocArena,
     NewContext, Created, RunFile, RunFailed, EntryReturns, Dispatch, DispatchReturns, EndApp, chip, Unmoved
<1>6. CASE Restart
  BY <1>6 DEF Restart
<1> QED BY <1>1, <1>2, <1>3, <1>4, <1>5, <1>6 DEF Next

\* A descriptor is written from the open that empties the file to the close, and a
\* close that reports its bytes leaves nothing else for a restart to find.
LEMMA WritingKept == ASSUME IInv, Next PROVE Writing' /\ WrittenSurvives'
<1> USE DEF IInv, Control, Writing, WrittenSurvives, Idle, Begin, Step, Return, Goto, Running, Ready,
            Scripts, Readers
<1>1. CASE Read
  BY <1>1 DEF Read, ReadFile, Stat, OpenToRead, MallocBuffer, ReadSome, ReadEnds, Exists,
     ExistsAnswers, disk, locals
<1>2. CASE Write
  <2>1. ASSUME NEW d \in Datas, WriteFile(d) PROVE Writing' /\ WrittenSurvives'
    BY <2>1 DEF WriteFile, Writers, disk
  <2>2. CASE TakeData
    BY <2>2 DEF TakeData, Writers, disk, locals
  <2>3. CASE OpenToWrite
    BY <2>3, EmptyIsPrefix DEF OpenToWrite, Writers, disk, locals, TypeOK
  <2>4. CASE WriteData
    <3>1. file = <<>> /\ at' = "close" /\ UNCHANGED <<op, before, data, written>>
      BY <2>4 DEF WriteData, Writers
    <3>2. CASE got' = -1 /\ UNCHANGED <<file, kept>>
      BY <2>4, <3>1, <3>2 DEF WriteData, Writers
    <3>3. ASSUME NEW n \in 0 .. StrLen(data), got' = n, file' = Overwritten(n),
                 kept' = kept \cup {Overwritten(k) : k \in 0 .. n}
          PROVE  Writing' /\ WrittenSurvives'
      <4>1. /\ file' = SubSeq(data, 1, n)
            /\ file' \in Prefixes(data, StrLen(data))
            /\ {Overwritten(k) : k \in 0 .. n} \subseteq Prefixes(data, StrLen(data))
        BY <3>1, <3>3, BeginningsWritten DEF TypeOK
      <4> QED BY <2>4, <3>1, <3>3, <4>1 DEF WriteData, Writers
    <3> QED BY <2>4, <3>2, <3>3 DEF WriteData
  <2>5. CASE CloseWritten
    BY <2>5 DEF CloseWritten, Writers, locals, TypeOK
  <2> QED BY <1>2, <2>1, <2>2, <2>3, <2>4, <2>5 DEF Write
<1>3. CASE KvRead
  BY <1>3 DEF KvRead, KvGetBegins, KvLengthOpen, KvLength, KvBuffer, KvGetOpen, KvGet, KvString, GivesNull,
     GetFails, Getters, disk, locals
<1>4. CASE KvWrite
  BY <1>4 DEF KvWrite, KvSetBegins, KvCopyValue, KvOpen, KvSetStr, KvCommit, KvClose, KvFree, SetReturns, Setters,
     disk, locals
<1>5. CASE Main
  <2>1. CASE Mount
    BY <2>1 DEF Mount, Unmoved, Writers, disk, locals
  <2>2. CASE Install
    BY <2>2 DEF Install, disk
  <2>3. CASE CountBoots \/ CreateVM \/ RunFile
    BY <2>3 DEF CountBoots, CreateVM, RunFile, Writers, disk, locals
  <2>4. CASE KvInit \/ Installed \/ Created \/ RunFailed \/ EntryReturns \/ Dispatch
             \/ DispatchReturns \/ EndApp
    BY <2>4 DEF KvInit, Installed, Created, RunFailed, EntryReturns, Dispatch, DispatchReturns, EndApp,
       Unmoved, disk, locals
  <2>5. CASE AllocStruct \/ AllocArena \/ NewContext
    BY <2>5 DEF AllocStruct, AllocArena, NewContext, Writers, disk, locals
  <2> QED BY <1>5, <2>1, <2>2, <2>3, <2>4, <2>5 DEF Main
<1>6. CASE Restart
  BY <1>6 DEF Restart
<1> QED BY <1>1, <1>2, <1>3, <1>4, <1>5, <1>6 DEF Next

\* A counter is read before it is raised, and what is set or committed is the raised
\* value, or a first one when the read failed.
LEMMA RaisingKept == ASSUME IInv, Next PROVE TypeOK' /\ Raising' /\ CommittedKept'
<1> USE DEF IInv, TypeOK, Control, Raising, CommittedKept, Idle, Begin, Step, Return, Goto, Running, Ready,
            Scripts, Readers, Keys
<1>1. CASE Read
  BY <1>1 DEF Read, ReadFile, Stat, OpenToRead, MallocBuffer, ReadSome, ReadEnds, Exists,
     ExistsAnswers, nvs, locals
<1>2. CASE Write
  BY <1>2 DEF Write, WriteFile, TakeData, OpenToWrite, WriteData, CloseWritten, Writers, nvs, locals
<1>3. CASE KvRead
  BY <1>3 DEF KvRead, KvGetBegins, KvLengthOpen, KvLength, KvBuffer, KvGetOpen, KvGet, KvString, GivesNull,
     GetFails, Getters, nvs, locals
<1>4. CASE KvWrite
  <2>1. CASE KvSetBegins \/ KvCopyValue \/ KvFree
    BY <2>1 DEF KvSetBegins, KvCopyValue, KvFree, nvs, locals
  <2>2. CASE KvOpen \/ KvClose
    BY <2>2 DEF KvOpen, KvClose, SetReturns, Setters, nvs, locals
  <2>3. CASE KvSetStr
    BY <2>3 DEF KvSetStr, Setters, locals
  <2>4. CASE KvCommit
    BY <2>4 DEF KvCommit, Setters, locals
  <2> QED BY <1>4, <2>1, <2>2, <2>3, <2>4 DEF KvWrite
<1>5. CASE Main
  BY <1>5 DEF Main, Mount, KvInit, CountBoots, Install, Installed, CreateVM, AllocStruct, AllocArena,
     NewContext, Created, RunFile, RunFailed, EntryReturns, Dispatch, DispatchReturns, EndApp, Unmoved, nvs,
     locals
<1>6. CASE Restart
  BY <1>6 DEF Restart, locals
<1> QED BY <1>1, <1>2, <1>3, <1>4, <1>5, <1>6 DEF Next

\* A step of the system, or one that changes nothing, keeps the inductive invariant.
LEMMA IInvKept == IInv /\ [Next]_vars => IInv'
<1> SUFFICES ASSUME IInv, [Next]_vars PROVE IInv'
  OBVIOUS
<1>1. CASE Next
  BY <1>1, ControlKept, HeldKept, WritingKept, RaisingKept DEF IInv
<1>2. CASE UNCHANGED vars
  BY <1>2 DEF vars, IInv, TypeOK, Control, Held, AcrossCalls, InCall, Writing, Raising,
     WrittenSurvives, CommittedKept, Idle
<1> QED BY <1>1, <1>2

THEOREM IInvHolds == Spec => []IInv
BY InitIInv, IInvKept, PTL DEF Spec

-----------------------------------------------------------------------------
(* What follows from it.                                                   *)

\* After every call of a script, of the boot or of the App Manager, however it ended,
\* no descriptor, buffer, copied string or NVS handle is left over (the error paths of
\* js_ai_read_file, js_ai_write_file, js_ai_exists, js_ai_kv_get, js_ai_kv_set,
\* ai_kv_get, ai_kv_get_len, ai_kv_set, ai_js_run_file and ai_js_create).
THEOREM NothingLeaks == Spec => []NothingHeld
<1>1. IInv => NothingHeld
  BY DEF IInv, Control, Held, AcrossCalls, InCall, VM, NothingHeld, Idle, Readers, Scripts
<1> QED BY <1>1, IInvHolds, PTL

\* What writeFile or write_text_file reported to have written is what the file holds
\* and all a restart can find, until the next write opens it, a close that failed
\* silently or a format of the partition.
THEOREM WritesSurvive == Spec => []WrittenSurvives
<1>1. IInv => WrittenSurvives
  BY DEF IInv
<1> QED BY <1>1, IInvHolds, PTL

\* A restart never brings back less than the last committed value of a counter
\* (nvs_commit in ai_kv_set), unless a failed read let it start again.
THEOREM CommitsSurvive == Spec => []CommittedKept
<1>1. IInv => CommittedKept
  BY DEF IInv
<1> QED BY <1>1, IInvHolds, PTL

\* A restart, a failed write or a short one leaves the old file or a beginning of the new
\* one (js_ai_write_file, write_text_file): the open empties the file, and one write
\* fills it from the start.
THEOREM WritesNeverMix == Spec => OldOrBeginning
<1> DEFINE Kept == (op \in Writers) =>
        kept' \cup {file'} \subseteq {before} \cup Prefixes(data, StrLen(data))
<1>1. IInv /\ IInv' /\ [Next]_vars => [Kept]_vars
  <2> SUFFICES ASSUME IInv, IInv', Next, op \in Writers PROVE Kept
    BY DEF vars
  <2> USE DEF IInv, Control, Writing, Idle, Step, Ready, Running, Writers, Readers, Scripts
  <2>1. CASE UNCHANGED <<op, before, data>>
    BY <2>1
  <2>2. CASE UNCHANGED disk
    BY <2>2 DEF disk
  <2>3. CASE CloseWritten
    BY <2>3 DEF CloseWritten
  <2>4. CASE Restart
    BY <2>4 DEF Restart
  <2>5. CASE Write
    BY <2>1, <2>2, <2>3, <2>5 DEF Write, WriteFile, TakeData, OpenToWrite, WriteData, Goto, Return, disk, locals
  <2>6. CASE Read \/ KvRead \/ KvWrite
    BY <2>2, <2>6 DEF Read, ReadFile, Stat, OpenToRead, MallocBuffer, ReadSome, ReadEnds, Exists,
       ExistsAnswers, KvRead, KvGetBegins, KvLengthOpen, KvLength, KvBuffer, KvGetOpen, KvGet, KvString,
       KvWrite, KvSetBegins, KvCopyValue, KvOpen, KvSetStr, KvCommit, KvClose, KvFree
  <2>7. CASE Main
    BY <2>7 DEF Main, Mount, KvInit, CountBoots, Install, Installed, CreateVM, AllocStruct, AllocArena,
       NewContext, Created, RunFile, RunFailed, EntryReturns, Dispatch, DispatchReturns, EndApp
  <2> QED BY <2>4, <2>5, <2>6, <2>7 DEF Next
<1> QED BY <1>1, IInvHolds, PTL DEF Spec, OldOrBeginning

\* Every binding that throws does so before it has opened the file for writing: the
\* conversions of its arguments and the allocations come first.
THEOREM ExceptionsLeaveFile == Spec => ThrowsLeaveFile
<1> DEFINE Leaves == (~Idle /\ at' = "idle" /\ res'.kind = "throw") => file' = before
<1>1. IInv /\ [Next]_vars => [Leaves]_vars
  <2> SUFFICES ASSUME IInv, Next, ~Idle, at' = "idle", res'.kind = "throw" PROVE file' = before
    BY DEF vars
  <2> USE DEF IInv, Control, Writing, Idle, Begin, Step, Return, Goto, Running, Ready, Scripts, Readers,
              Result, NoResult, Count
  <2>1. CASE Read
    BY <2>1 DEF Read, ReadFile, Stat, OpenToRead, MallocBuffer, ReadSome, ReadEnds, Exists,
     ExistsAnswers, disk
  <2>2. CASE Write
    BY <2>2 DEF Write, WriteFile, TakeData, OpenToWrite, WriteData, CloseWritten, Writers, disk
  <2>3. CASE KvRead
    BY <2>3 DEF KvRead, KvGetBegins, KvLengthOpen, KvLength, KvBuffer, KvGetOpen, KvGet, KvString, GivesNull,
     GetFails, Getters, disk
  <2>4. CASE KvWrite
    BY <2>4 DEF KvWrite, KvSetBegins, KvCopyValue, KvOpen, KvSetStr, KvCommit, KvClose, KvFree, SetReturns, Setters,
       disk
  <2>5. CASE Main
    BY <2>5 DEF Main, Mount, KvInit, CountBoots, Install, Installed, CreateVM, AllocStruct, AllocArena,
       NewContext, Created, RunFile, RunFailed, EntryReturns, Dispatch, DispatchReturns, EndApp, Unmoved, disk
  <2>6. CASE Restart
    BY <2>6 DEF Restart
  <2> QED BY <2>1, <2>2, <2>3, <2>4, <2>5, <2>6 DEF Next
<1> QED BY <1>1, IInvHolds, PTL DEF Spec, ThrowsLeaveFile
=============================================================================
