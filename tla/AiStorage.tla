------------------------------ MODULE AiStorage ------------------------------
(***************************************************************************)
(* What outlives a restart: a file of /system, written and read by scripts *)
(* (ai_runtime_js/mqjs_bind.c) and by the firmware (main/main.c) through   *)
(* the file API (ai_system_api/ai_fs.c), and the counters kept in the      *)
(* key-value store (ai_kv.c).  Every call is the sequence of library calls *)
(* it makes, each of which may fail, and the chip may restart between any  *)
(* two of them.                                                            *)
(*                                                                         *)
(* The file systems and NVS are external: what they may leave behind when  *)
(* power goes is a set of contents ("kept"), from which a restart picks.   *)
(***************************************************************************)
EXTENDS Integers, Sequences

CONSTANTS
    Datas,      \* strings scripts write, as sequences of bytes; "nul" is a zero byte
    Text,       \* the file that app_main installs
    ReadMax,    \* AI_READ_FILE_MAX
    RunMax,     \* AI_JS_READ_FILE_MAX
    MaxCount,   \* bound on the counters
    Missing     \* no such file

Keys == {"boots", "app_runs"}

Bytes == UNION {{SubSeq(d, 1, n) : n \in 0 .. Len(d)} : d \in Datas \cup {Text}}

ASSUME StorageAssumption ==
    /\ \A d \in Datas \cup {Text} : d \in Seq({"x", "y", "nul"})
    /\ \A k \in DOMAIN Text : Text[k] # "nul"
    /\ ReadMax \in Nat /\ RunMax \in Nat /\ MaxCount \in Nat \ {0}
    /\ Missing \notin Bytes

VARIABLES
    boot,     \* where app_main is
    script,   \* why a script is on the VM: its entry file, an event, or not at all
    op,       \* the call in progress
    at,       \* the step of the call that is next
    mounted,  \* s_system_mounted
    ready,    \* s_ready of the key-value store
    file,     \* the file, as open calls see it
    kept,     \* the contents a restart may leave in its place
    kv,       \* the counters, as nvs_get_str sees them
    kvKept,   \* the values a restart may leave in their place
    held,     \* what has been allocated or opened and not given back
    data,     \* the string being written
    size, got,  \* of a read: the bytes wanted, the bytes read
    key, num,   \* of a counter: its key, its value as read and raised, 0 before
    res,      \* history: what the last call returned
    before,   \* history: the file as the call in progress found it
    written,  \* history: what the last completed write reports to have written
    floor     \* history: the last committed value of each counter

vars == <<boot, script, op, at, mounted, ready, file, kept, kv, kvKept, held,
          data, size, got, key, num, res, before, written, floor>>

disk == <<file, kept, written>>
nvs == <<kv, kvKept, floor>>
chip == <<boot, mounted, ready>>
locals == <<data, size, got, key, num>>

-----------------------------------------------------------------------------
Result(kind) == [kind |-> kind, count |-> 0]
NoResult == Result("none")
Count(n) == [kind |-> "count", count |-> n]

Idle == at = "idle"
Running == Idle /\ script # "none"        \* a script may call the bindings
Ready(where) == Idle /\ script = "none" /\ boot = where

Begin(call, step) ==
    /\ op' = call /\ at' = step
    /\ before' = file /\ res' = NoResult

Step(call, from) == op \in call /\ at = from

Return(r) ==
    /\ op' = "none" /\ at' = "idle" /\ res' = r
    /\ UNCHANGED before

Goto(step) == at' = step /\ UNCHANGED <<op, res, before>>

Take(what) == held' = held \cup what
Give(what) == held' = held \ what

\* strlen: the bytes before the first zero byte.
StrLen(d) ==
    IF \E k \in DOMAIN d : d[k] = "nul"
    THEN (CHOOSE k \in DOMAIN d : d[k] = "nul" /\ \A j \in 1 .. k - 1 : d[j] # "nul") - 1
    ELSE Len(d)

Prefixes(d, n) == {SubSeq(d, 1, k) : k \in 0 .. n}

Least(a, b) == IF a < b THEN a ELSE b

-----------------------------------------------------------------------------
(* Reading: readFile of a script, run_file of the runtime.                 *)

Readers == {"readFile", "run_file"}

\* dup_arg_cstr of the path: refused if not a string, or without memory.
ReadFile ==
    /\ Running
    /\ \/ Begin("readFile", "stat") /\ Take({"path"})
       \/ Begin("none", "idle") /\ UNCHANGED held
    /\ UNCHANGED <<chip, script, disk, nvs, locals>>

\* ai_fs_size and the limit of each reader, who differ in what is too large.
Stat ==
    /\ Step(Readers, "stat")
    /\ \/ /\ mounted /\ file # Missing
          /\ op = "run_file" => Len(file) <= RunMax
          /\ size' = IF op = "readFile" THEN Least(Len(file), ReadMax) ELSE Len(file)
          /\ got' = 0
          /\ Goto("open") /\ UNCHANGED held
       \/ /\ Return(Result("null")) /\ Give({"path"})
          /\ UNCHANGED <<size, got>>
    /\ UNCHANGED <<chip, script, disk, nvs, data, key, num>>

OpenToRead ==
    /\ Step(Readers, "open")
    /\ \/ Goto("malloc") /\ held' = (held \ {"path"}) \cup {"fd"}
       \/ Return(Result("null")) /\ Give({"path"})
    /\ UNCHANGED <<chip, script, disk, nvs, locals>>

MallocBuffer ==
    /\ Step(Readers, "malloc")
    /\ \/ Goto("read") /\ Take({"buf"})
       \/ Return(Result("throw")) /\ Give({"fd"})
    /\ UNCHANGED <<chip, script, disk, nvs, locals>>

ReadSome ==
    /\ Step(Readers, "read")
    /\ \E n \in 1 .. size - got : got' = got + n
    /\ UNCHANGED <<chip, script, op, at, disk, nvs, held, data, size, key, num, res, before>>

\* All of it, or a read of nothing or an error: the file is closed.  An entry
\* file then stays in its buffer while the script runs.
ReadEnds ==
    /\ Step(Readers, "read")
    /\ IF op = "readFile"
       THEN /\ \/ Return(Result("string"))
               \/ Return(Result("throw"))        \* JS_NewStringLen without memory
            /\ Give({"fd", "buf"}) /\ UNCHANGED script
       ELSE /\ Return(Result("string"))
            /\ held' = (held \ {"fd", "buf"}) \cup {"source"}
            /\ script' = "entry"
    /\ UNCHANGED <<chip, disk, nvs, locals>>

\* exists: ai_fs_exists is a stat, which may fail.
Exists ==
    /\ Running
    /\ \/ Begin("exists", "look") /\ Take({"path"})
       \/ Begin("none", "idle") /\ UNCHANGED held
    /\ UNCHANGED <<chip, script, disk, nvs, locals>>

ExistsAnswers ==
    /\ Step({"exists"}, "look")
    /\ \/ mounted /\ file # Missing /\ Return(Result("true"))
       \/ Return(Result("false"))
    /\ Give({"path"})
    /\ UNCHANGED <<chip, script, disk, nvs, locals>>

-----------------------------------------------------------------------------
(* Writing: writeFile of a script, write_text_file of app_main.            *)

Writers == {"writeFile", "install"}

\* Faulty variant of WriteFile: the file is opened before the data is looked at.
WriteFileOpensFirst(d) ==
    /\ Running
    /\ Begin("writeFile", "data") /\ Take({"path"})
    /\ file' = <<>> /\ kept' = kept \cup {<<>>} /\ written' = Missing
    /\ data' = d
    /\ UNCHANGED <<chip, script, nvs, size, got, key, num>>

WriteFile(d) ==
    /\ Running
    /\ \/ Begin("writeFile", "data") /\ Take({"path"})
       \/ Begin("none", "idle") /\ UNCHANGED held
    /\ data' = d
    /\ UNCHANGED <<chip, script, disk, nvs, size, got, key, num>>

\* The second argument may be no string, or memory short.
TakeData ==
    /\ Step({"writeFile"}, "data")
    /\ \/ Goto("open") /\ Take({"data"})
       \/ Return(Result("throw")) /\ Give({"path"})
    /\ UNCHANGED <<chip, script, disk, nvs, locals>>

\* Faulty variant of OpenToWrite: no O_TRUNC.
OpenToOverwrite ==
    /\ Step(Writers, "open")
    /\ \/ /\ mounted
          /\ Goto("write") /\ held' = (held \ {"path"}) \cup {"fd"}
          /\ file' = (IF file = Missing THEN <<>> ELSE file)
          /\ kept' = kept \cup {file'} /\ written' = Missing
       \/ /\ Return(Count(-1)) /\ Give({"path", "data"})
          /\ UNCHANGED disk
    /\ UNCHANGED <<chip, script, nvs, locals>>

\* O_TRUNC: nothing of the old content is left for readers, though a restart may
\* bring it back until the file is closed.
OpenToWrite ==
    /\ Step(Writers, "open")
    /\ \/ /\ mounted
          /\ Goto("write") /\ held' = (held \ {"path"}) \cup {"fd"}
          /\ file' = <<>> /\ kept' = kept \cup {<<>>} /\ written' = Missing
       \/ /\ Return(Count(-1)) /\ Give({"path", "data"})
          /\ UNCHANGED disk
    /\ UNCHANGED <<chip, script, nvs, locals>>

\* The file with the first n bytes of the data written over it from its start.
Overwritten(n) == SubSeq(data, 1, n) \o SubSeq(file, n + 1, Len(file))

\* All that strlen counts, less, or an error (-1).  Less may reach the flash.
WriteData ==
    /\ Step(Writers, "write")
    /\ \/ got' = -1 /\ UNCHANGED <<file, kept>>
       \/ \E n \in 0 .. StrLen(data) :
            /\ got' = n
            /\ file' = Overwritten(n)
            /\ kept' = kept \cup {Overwritten(k) : k \in 0 .. n}
    /\ Goto("close") /\ Give({"data"})
    /\ UNCHANGED <<chip, script, nvs, written, data, size, key, num>>

\* Faulty variant of CloseWritten: the descriptor is never closed.
NeverClosed ==
    /\ Step(Writers, "close")
    /\ written' = IF got >= 0 THEN SubSeq(data, 1, got) ELSE Missing
    /\ Return(Count(got)) /\ UNCHANGED <<file, kept, held>>
    /\ UNCHANGED <<chip, script, nvs, locals>>

\* ai_fs_close has no result: a close that fails may leave anything that was kept.
CloseWritten ==
    /\ Step(Writers, "close")
    /\ \/ /\ kept' = {file} /\ UNCHANGED file
          /\ written' = IF got >= 0 THEN SubSeq(data, 1, got) ELSE Missing
       \/ /\ file' \in kept /\ kept' = {file'}
          /\ written' = Missing
    /\ Return(Count(got)) /\ Give({"fd"})
    /\ UNCHANGED <<chip, script, nvs, locals>>

-----------------------------------------------------------------------------
(* Counters: read, raised by one, set, as storage_selftest does with       *)
(* "boots" and the script of the smoke app with "app_runs".                *)

Getters == {"selftest", "kvGet"}
Setters == {"selftest", "kvSet"}

\* dup_arg_cstr of the key.
KvGetBegins ==
    /\ Running /\ kv["app_runs"] < MaxCount
    /\ \/ Begin("kvGet", "length") /\ Take({"key"}) /\ key' = "app_runs" /\ num' = 0
       \/ Begin("none", "idle") /\ UNCHANGED <<held, key, num>>
    /\ UNCHANGED <<chip, script, disk, nvs, data, size, got>>

\* The script takes the null it is given for a zero: floor forgives it.
GivesNull ==
    /\ Return(Result("null")) /\ Give({"key", "val", "nvs"})
    /\ num' = 1 /\ floor' = [floor EXCEPT ![key] = 0]

\* ai_kv_get_len opens, asks for the length and closes.
KvLengthOpen ==
    /\ Step({"kvGet"}, "length")
    /\ \/ ready /\ Goto("length_str") /\ Take({"nvs"}) /\ UNCHANGED <<num, floor>>
       \/ GivesNull
    /\ UNCHANGED <<chip, script, disk, kv, kvKept, data, size, got, key>>

KvLength ==
    /\ Step({"kvGet"}, "length_str")
    /\ \/ kv[key] > 0 /\ Goto("buffer") /\ Give({"nvs"}) /\ UNCHANGED <<num, floor>>
       \/ GivesNull
    /\ UNCHANGED <<chip, script, disk, kv, kvKept, data, size, got, key>>

KvBuffer ==
    /\ Step({"kvGet"}, "buffer")
    /\ \/ Goto("get") /\ Take({"val"})
       \/ Return(Result("throw")) /\ Give({"key"})
    /\ UNCHANGED <<chip, script, disk, nvs, locals>>

\* What -1 of ai_kv_get means: a null for the script, a first boot for app_main.
GetFails ==
    IF op = "kvGet" THEN GivesNull
    ELSE /\ Goto("set") /\ Give({"nvs"})
         /\ num' = 1 /\ floor' = [floor EXCEPT ![key] = 0]

\* ai_kv_get opens, reads into the buffer and closes.
KvGetOpen ==
    /\ Step(Getters, "get")
    /\ \/ ready /\ Goto("get_str") /\ Take({"nvs"}) /\ UNCHANGED <<num, floor>>
       \/ GetFails
    /\ UNCHANGED <<chip, script, disk, kv, kvKept, data, size, got, key>>

KvGet ==
    /\ Step(Getters, "get_str")
    /\ \/ /\ kv[key] > 0 /\ num' = kv[key] + 1 /\ UNCHANGED floor
          /\ Goto(IF op = "kvGet" THEN "string" ELSE "set") /\ Give({"nvs", "key"})
       \/ GetFails
    /\ UNCHANGED <<chip, script, disk, kv, kvKept, data, size, got, key>>

\* JS_NewStringLen: without memory the script hears nothing of the value.
KvString ==
    /\ Step({"kvGet"}, "string")
    /\ \/ Return(Result("string")) /\ UNCHANGED num
       \/ Return(Result("throw")) /\ num' = 0
    /\ Give({"val"})
    /\ UNCHANGED <<chip, script, disk, nvs, data, size, got, key>>

\* kvSet copies key and value, the value also when there was no memory for the key,
\* and sets nothing unless it has both.
KvSetBegins ==
    /\ Running /\ key = "app_runs" /\ num > 0
    /\ Begin("kvSet", "value")
    /\ Take({"key"}) \/ UNCHANGED held
    /\ UNCHANGED <<chip, script, disk, nvs, locals>>

KvCopyValue ==
    /\ Step({"kvSet"}, "value")
    /\ \/ Take({"val"}) /\ Goto(IF "key" \in held THEN "set" ELSE "free")
       \/ UNCHANGED held /\ Goto("free")
    /\ UNCHANGED <<chip, script, disk, nvs, locals>>

\* Faulty variant of KvFree: copies are freed where they were used.
KvFreeBoth ==
    /\ Step({"kvSet"}, "free")
    /\ Return(NoResult) /\ held' = (IF {"key", "val"} \subseteq held THEN held \ {"key", "val"} ELSE held)
    /\ UNCHANGED <<chip, script, disk, nvs, locals>>

KvFree ==
    /\ Step({"kvSet"}, "free")
    /\ Return(NoResult) /\ Give({"key", "val"})
    /\ UNCHANGED <<chip, script, disk, nvs, locals>>

\* ai_kv_set has no result, whatever becomes of it.
SetReturns == IF op = "kvSet" THEN Goto("free") ELSE Return(NoResult)

KvOpen ==
    /\ Step(Setters, "set")
    /\ \/ ready /\ Goto("nvs_set") /\ Take({"nvs"})
       \/ SetReturns /\ UNCHANGED held
    /\ UNCHANGED <<chip, script, disk, nvs, locals>>

\* Faulty variant of KvSetStr: the old value is erased first.
KvEraseAndSet ==
    /\ Step(Setters, "nvs_set")
    /\ \/ /\ kv' = [kv EXCEPT ![key] = num]
          /\ kvKept' = [kvKept EXCEPT ![key] = @ \cup {0, num}]
          /\ Goto("commit")
       \/ Goto("nvs_close") /\ UNCHANGED <<kv, kvKept>>
    /\ UNCHANGED <<chip, script, disk, floor, held, locals>>

KvSetStr ==
    /\ Step(Setters, "nvs_set")
    /\ \/ /\ kv' = [kv EXCEPT ![key] = num]
          /\ kvKept' = [kvKept EXCEPT ![key] = @ \cup {num}]
          /\ Goto("commit")
       \/ Goto("nvs_close") /\ UNCHANGED <<kv, kvKept>>
    /\ UNCHANGED <<chip, script, disk, floor, held, locals>>

KvCommit ==
    /\ Step(Setters, "commit")
    /\ \/ /\ kvKept' = [kvKept EXCEPT ![key] = {num}]
          /\ floor' = [floor EXCEPT ![key] = num]
       \/ UNCHANGED <<kvKept, floor>>
    /\ Goto("nvs_close")
    /\ UNCHANGED <<chip, script, disk, kv, held, locals>>

KvClose ==
    /\ Step(Setters, "nvs_close")
    /\ SetReturns /\ Give({"nvs"})
    /\ UNCHANGED <<chip, script, disk, nvs, locals>>

-----------------------------------------------------------------------------
(* app_main, the VM and its scripts.                                       *)

Unmoved == UNCHANGED <<op, at, res, before, locals>>

\* ai_vfs_mount_system: a partition that does not mount is formatted.
Mount ==
    /\ Ready("mount") /\ boot' = "kv"
    /\ \/ mounted' = TRUE /\ UNCHANGED disk
       \/ mounted' = TRUE /\ file' = Missing /\ kept' = {Missing} /\ written' = Missing
       \/ mounted' = FALSE /\ UNCHANGED disk
    /\ UNCHANGED <<script, ready, nvs, held>> /\ Unmoved

\* ai_kv_init: a store without free pages is erased.
KvInit ==
    /\ Ready("kv")
    /\ \/ /\ boot' = "selftest" /\ ready' = TRUE
          /\ \/ UNCHANGED nvs
             \/ /\ kv' = [k \in Keys |-> 0] /\ floor' = kv'
                /\ kvKept' = [k \in Keys |-> {0}]
       \/ boot' = "aborted" /\ UNCHANGED <<ready, nvs>>
    /\ UNCHANGED <<script, mounted, disk, held>> /\ Unmoved

CountBoots ==
    /\ Ready("selftest") /\ boot' = "install"
    /\ Begin("selftest", "get") /\ key' = "boots" /\ num' = 0
    /\ UNCHANGED <<script, mounted, ready, disk, nvs, held, data, size, got>>

Install ==
    /\ Ready("install") /\ boot' = "installing"
    /\ Begin("install", "open") /\ data' = Text
    /\ UNCHANGED <<script, mounted, ready, disk, nvs, held, size, got, key, num>>

Installed ==
    /\ Ready("installing")
    /\ boot' = IF res.count = Len(Text) THEN "installed" ELSE "aborted"
    /\ UNCHANGED <<script, mounted, ready, disk, nvs, held>> /\ Unmoved

\* ai_js_create: the struct, the arena in PSRAM or else internal RAM, the context.
CreateVM ==
    /\ Ready("installed") /\ boot' = "creating"
    /\ Begin("create", "struct")
    /\ UNCHANGED <<script, mounted, ready, disk, nvs, held, locals>>

AllocStruct ==
    /\ Step({"create"}, "struct")
    /\ \/ Goto("arena") /\ Take({"struct"})
       \/ Return(Result("null")) /\ UNCHANGED held
    /\ UNCHANGED <<chip, script, disk, nvs, locals>>

AllocArena ==
    /\ Step({"create"}, "arena")
    /\ \/ Goto("context") /\ Take({"arena"})
       \/ Return(Result("null")) /\ Give({"struct"})
    /\ UNCHANGED <<chip, script, disk, nvs, locals>>

NewContext ==
    /\ Step({"create"}, "context")
    /\ \/ Return(NoResult) /\ UNCHANGED held
       \/ Return(Result("null")) /\ Give({"struct", "arena"})
    /\ UNCHANGED <<chip, script, disk, nvs, locals>>

Created ==
    /\ Ready("creating")
    /\ boot' = IF res.kind = "none" THEN "vm" ELSE "aborted"
    /\ UNCHANGED <<script, mounted, ready, disk, nvs, held>> /\ Unmoved

RunFile ==
    /\ Ready("vm") /\ boot' = "running"
    /\ Begin("run_file", "stat")
    /\ UNCHANGED <<script, mounted, ready, disk, nvs, held, locals>>

\* The entry file could not be run: ai_js_destroy, and the boot fails.
RunFailed ==
    /\ Ready("running") /\ res.kind # "none"
    /\ boot' = "aborted" /\ Give({"struct", "arena"})
    /\ UNCHANGED <<script, mounted, ready, disk, nvs>> /\ Unmoved

\* An entry file that ran lives on for events; one that threw is destroyed.
EntryReturns ==
    /\ Running /\ script = "entry" /\ script' = "none"
    /\ \/ boot' = "loop" /\ Give({"source"})
       \/ boot' = "aborted" /\ Give({"source", "struct", "arena"})
    /\ UNCHANGED <<mounted, ready, disk, nvs>> /\ Unmoved

Dispatch ==
    /\ Ready("loop") /\ script' = "event"
    /\ UNCHANGED <<chip, disk, nvs, held>> /\ Unmoved

DispatchReturns ==
    /\ Running /\ script = "event" /\ script' = "none"
    /\ UNCHANGED <<chip, disk, nvs, held>> /\ Unmoved

\* The app ends: ai_js_destroy.
EndApp ==
    /\ Ready("loop") /\ boot' = "ended" /\ Give({"struct", "arena"})
    /\ UNCHANGED <<mounted, ready, script, disk, nvs>> /\ Unmoved

\* Power fails, or the chip restarts: an aborted boot does so at once.
Restart ==
    /\ kv["boots"] < MaxCount
    /\ boot' = "mount" /\ script' = "none" /\ op' = "none" /\ at' = "idle"
    /\ mounted' = FALSE /\ ready' = FALSE /\ held' = {}
    /\ file' \in kept /\ kept' = {file'}
    /\ kv' \in {v \in [Keys -> 0 .. MaxCount] : \A k \in Keys : v[k] \in kvKept[k]}
    /\ kvKept' = [k \in Keys |-> {kv'[k]}]
    /\ res' = NoResult /\ before' = file'
    /\ UNCHANGED <<locals, written, floor>>

Init ==
    /\ boot = "mount" /\ script = "none" /\ op = "none" /\ at = "idle"
    /\ mounted = FALSE /\ ready = FALSE
    /\ file = Missing /\ kept = {Missing}
    /\ kv = [k \in Keys |-> 0] /\ kvKept = [k \in Keys |-> {0}]
    /\ held = {} /\ data = <<>> /\ size = 0 /\ got = 0 /\ key = "boots" /\ num = 0
    /\ res = NoResult /\ before = Missing /\ written = Missing
    /\ floor = [k \in Keys |-> 0]

Read ==
    \/ ReadFile \/ Stat \/ OpenToRead \/ MallocBuffer \/ ReadSome \/ ReadEnds
    \/ Exists \/ ExistsAnswers

Write == (\E d \in Datas : WriteFile(d)) \/ TakeData \/ OpenToWrite \/ WriteData \/ CloseWritten

KvRead ==
    \/ KvGetBegins \/ KvLengthOpen \/ KvLength \/ KvBuffer \/ KvGetOpen \/ KvGet \/ KvString

KvWrite ==
    \/ KvSetBegins \/ KvCopyValue \/ KvOpen \/ KvSetStr \/ KvCommit \/ KvClose \/ KvFree

Main ==
    \/ Mount \/ KvInit \/ CountBoots \/ Install \/ Installed
    \/ CreateVM \/ AllocStruct \/ AllocArena \/ NewContext \/ Created \/ RunFile
    \/ RunFailed \/ EntryReturns \/ Dispatch \/ DispatchReturns \/ EndApp

Next == Read \/ Write \/ KvRead \/ KvWrite \/ Main \/ Restart

Spec == Init /\ [][Next]_vars

-----------------------------------------------------------------------------
(* Properties.                                                             *)

\* Whatever step of a call failed, once it has returned nothing is held but what
\* the VM and its running entry file need: no descriptor, buffer or handle leaks.
NothingHeld ==
    Idle => held = (IF \/ boot \in {"vm", "running", "loop"}
                       \/ boot = "creating" /\ res.kind = "none" THEN {"struct", "arena"} ELSE {})
                   \cup (IF script = "entry" THEN {"source"} ELSE {})

\* Whatever step of a write fails, falls short or is cut off by a restart, the file is
\* then the one of before or a beginning of the new one: with O_TRUNC and one write
\* from the start, a reader never finds old and new mixed.
OldOrBeginning ==
    [][(op \in Writers) =>
        kept' \cup {file'} \subseteq {before} \cup Prefixes(data, StrLen(data))]_vars

\* A call that throws leaves the file as it was: the comment in js_ai_write_file
\* says so of bad data, and it is so of every exception, of any binding.
ThrowsLeaveFile == [][(~Idle /\ at' = "idle" /\ res'.kind = "throw") => file' = before]_vars

\* The bytes a completed write reports are there until the next one opens the
\* file, also after a restart, unless the file system failed at close or was
\* formatted, which nobody is told.
WrittenSurvives == written # Missing => file = written /\ kept = {written}

\* A counter whose value was committed never falls below it: only a failed read,
\* taken for a missing key, or an erased store makes it start again.
CommittedKept == \A k \in Keys : kv[k] >= floor[k] /\ \A v \in kvKept[k] : v >= floor[k]
=============================================================================
