# AstroInk in TLA+

A verification development for AstroInk, the firmware of an ESP32 e-paper device that runs
JavaScript apps. It follows the C code under `src/`; the docs are only used for what they
promise, which the runs marked *finding* compare with the code.

Contents: [the system](#the-system), [the modules](#the-modules), [the runs](#the-runs) with
their bounds and fairness, [what is proved](#what-is-proved), [findings and
observations](#findings), [what is not modelled](#not-modelled), [the plan](#plan).

## The system

One FreeRTOS task does nearly everything. `app_main` mounts the file systems, sets up the
services, launches an app and never leaves `ai_loop_run`:

```
 other tasks, interrupts ── ai_event_post ──▶ queue
                                               │
 ai_loop_once:  ai_timer_tick ── posts ───────▶│
                drain ◀── ai_event_poll ───────┘
                  └─ handler ─▶ ai_appmgr_dispatch ─▶ runtime->dispatch ─▶ script ─▶ the engine
                                                                             └─▶ ai_fs, ai_kv
                pump hook ─▶ ai_appmgr_pump (ends apps), partial_refresh_pump ─▶ ai_display ─▶ ssd1680
                vTaskDelay
```

Only the event queue is shared with other tasks. The hard behaviours of the firmware come
from what can happen between two steps of the main task: posts, time passing during a
two-second refresh, a script calling back into the firmware, a library call that fails, a
panel that is still busy, a restart. Those of the engine come from the collector, which moves
memory in any allocation, from scripts that change what a builtin is working on, from jumps,
exceptions and calls that leave the middle of something, and from arithmetic at the edges of its
words.

| component | state | operations | must be true | module |
|---|---|---|---|---|
| event queue (`ai_event.c`) | `s_queue` | init, post, post_isr, poll | an accepted event is handled; a drop has a cause | `AiCore` |
| timers (`ai_timer.c`) | `s_timers` | create, cancel, cancel_all, tick | no burst, no drift, no stale id cancels another timer | `AiCore` |
| main loop (`ai_loop.c`) | where the task is | once, run | every turn reaches the pump | `AiCore` |
| runtime registry (`ai_runtime.c`) | `s_runtimes` | register, find | one runtime per lang | `AiAppMgr` |
| App Manager (`ai_appmgr.c`) | `s_app`, `s_catalog` | scan, launch, exit, pump, dispatch | one VM, never freed under a script, no half-launched app, exits end the right app | `AiAppMgr` |
| JavaScript runtime (`ai_runtime_js.c`) | the VM | create, run_file, dispatch, destroy | frees what it allocates; pushes stay clear of the heap | `AiAppMgr`, `AiStorage`, `JsHeap` |
| SSD1680 driver (`ssd1680.c`) and adapter (`ssd1680_hal.c`) | `s_fb`, `s_mode`, the panel's registers and banks | init, refresh_full, refresh_partial, sleep, wake | the panel shows what was flushed, on the right waveform | `Ssd1680` |
| Display HAL (`ai_display.c`) | active driver | init, flush, sleep, wakeup | a flush changes the image to what was asked for, and nothing else does | `AiDisplay` |
| file API (`ai_fs.c`), bindings (`mqjs_bind.c`) | descriptors, buffers | open, read, write; readFile, writeFile, exists, kvGet, kvSet | no leak whatever fails; what a call reports is in the file | `AiStorage` |
| key-value store (`ai_kv.c`) | NVS | set, get, get_len | what was committed survives restarts | `AiStorage` |
| mounts (`ai_vfs.c`), `main.c` | mounted flags, demo state | the boot and its aborts, the handler, the pumps | boot survives a missing SD card; a full refresh every 20 partial ones | `AiSystem`, `AiStorage` |
| engine memory (`mquickjs.c`) | arena, value stack, unique strings | alloc, realloc, shrink, collect, intern | nothing dangles, nothing reachable changes, strings are unique | `JsHeap` |
| engine objects | property tables in RAM and ROM | define, get, set, delete | an ordered list of properties, whatever the table looks like | `JsProps`, `JsPropList` |
| engine arrays | a table and a length | the methods of Array, with callbacks | what ECMAScript says, but for named divergences, however callbacks edit the array | `JsArray`, `EcmaArray`, `RqSort` |
| engine strings | WTF-8 and a cache of positions | the methods of String | what the UTF-16 units of the same string would give | `JsString` |
| engine regular expressions | byte code, captures, an undo log | compile, exec, replace, split | what ECMAScript says | `JsRegExp`, `EcmaRegExp` |
| engine compiler | the function being parsed | statement, expression, function | programs do what ECMAScript says; the stack height of every place is known | `JsCode` |
| engine interpreter | frames, variables shared by closures, catch offsets | one opcode, call, return, unwind | the same | `JsMachine`, `JsValues`, `EcmaCode` |
| engine numbers (`dtoa.c`, `softfp_template*.h`, `libm.c`) | none | arithmetic, conversions, to text and back | the nearest number, always | `SoftFloat`, `IeeeFloat`, `LibM`, `Dtoa` |

## The modules

In each, an action is a whole operation or, where something else may happen in between, one of
its steps; its comment names the C function. History variables are declared as such.

### AiCore

Queue, timers and loop in one module, since the timers live on the loop's task and post to the
queue. A step of the main task is one slot of a tick, one queue operation or one API call, so a
post or a tick of the clock can fall between any two of them.

- `queue`, `ready`: the FreeRTOS queue and whether `ai_event_init` has made it. `Send` is a
  post with no timeout: it drops at `QueueDepth`.
- `timers`: `s_timers`, with the generation modulo `GenMod` (256 in the code, 0 never handed
  out). `MakeId`, `IdSlot`, `IdGen` are the shifts and masks of `make_id` and `decode_id`.
- `pc`, `slot`, `tnow`, `ev`: where `ai_loop_once` is, the `i` and the `now` of
  `ai_timer_tick`, and the event the handler is on. `pc = "setup"` is `app_main` before the loop.
- `Create`, `Cancel`, `CancelAll` are calls made from setup, from the handler or from the
  pump; they never run during a tick, which calls nobody.
- `CatchUp` is the do-while of the tick in closed form.
- `cancelled`, `fired`, `wrapped` are history variables for the id properties.

Left out: the logging default handler, `xQueueCreate` failing (the boot stops), and two posts
racing inside FreeRTOS, which the queue serialises. The signed shift of a generation cannot
overflow an `int`, and the `int64_t` clock does not wrap.

### AiAppMgr

The App Manager with the registry it looks runtimes up in. `pc` says where the main task is: a
launch is *create* (the old app is gone, the VM not made), *run* (the entry file is on the VM),
then *idle*; an event is *dispatch*. In `run` and `dispatch` the script may call
`ai_app_exit`; in between, directories change. `live` is the set of VMs allocated, each with
the runtime that made it; the allocator may return any address not in use.

`ScanRoot` is the code's order: cut the listing at `AppMax` entries, then look for apps among
them. A manifest is the `[id, lang]` it yields, and `NotAnApp` is any entry that yields none (a
plain file, no manifest, not JSON, a field missing, a path too long). `ChangeFiles` is a
script's `writeFile`, the SD card or the firmware's own writes. `RunFails` is every way
`ai_js_run_file` returns non-zero. Left out: `exit_code`, `heap_bytes` and the entry path, which
nothing decides on.

### Ssd1680 and AiDisplay

A driver call is a sequence of commands put in `todo`; the driver sends them one by one and the
panel hears them or, busy or asleep, does not. The panel's differential update is the reason
for the driver's protocol: `updPartial` drives only cells where bank 0x24 differs from bank 0x26.
A cell is one byte of the framebuffer, eight pixels across. A partial refresh takes any
rectangle of integers, and `Window` is the driver's arithmetic on it: rounding out to bytes,
clipping, giving up on what is empty. `Restart` may fall between any two commands: the chip
starts over with the panel as it was. The panel itself is external: its behaviour is what the
driver's comments, waits and opcodes assume of it.

The border command of `epd_init_partial` (0x3C, `ssd1680.c:181`) is left out: it sets how the margin is
driven, which no property speaks of. `SlowPanel` lets a wait time out while BUSY is up: from
then on the panel may miss commands, which nobody tells the driver, so `NoCommandLost` speaks of the
time before, and what is certain afterwards is that the next full refresh that is through shows what was
asked for (`PanelShowsFlushed`) and that no call hangs (`CallReturns`). `FullFirst` restricts callers to
those that begin with a full refresh, as `app_main` does (`main.c:277`); without it the comments of the
driver on the base bank do not hold (see the observations).

`AiDisplay` is what the HAL's callers may rely on, whatever panel is behind `s_active`: `picture`
is the driver's framebuffer, `shown` the panel, `goal` what the flushes so far ask for, `phase`
what a call has still to do to the image, and `trusted` says when the panel owes the goal. It is
the abstract specification of `Ssd1680`, under this mapping:

- `phase` is read off `todo`: *full* while an `updFull` is to come, then *partial* while an
  `updPartial` is, then *busy*; *off* before `ssd1680_init` and after a restart.
- `trusted` is `seeded` with no overrun and no full update still to come. Sleep, wake, a restart
  and a wait that timed out end it; the next full refresh that is through restores it.
- commands, waits and the panel's BUSY are stutters, but for the two updates (`DriveAll`,
  `DriveRegion`), a wait that times out (`Overrun`) and the last command (`Return`).

The fallback for panels without partial refresh is in `ai_display_flush_partial`; the SSD1680
has partial refresh and takes it only when asleep. Left out: registering a driver, which happens
once at boot, and calls before it, which do nothing.

### AiSystem

`app_main` from its first call to the loop it never leaves, composing `AiCore` and `AiAppMgr` by
INSTANCE: each of its steps is a step of one, of both, or of main.c's own state (`boot`, `stage`
of the pump hook, the demo's `frame` and `next`). `AiCore`'s handler is `ai_appmgr_dispatch` and
its pump is `ai_appmgr_pump` followed by `partial_refresh_pump`, whose refreshes take time during
which events arrive and timers fall due. A failed `ESP_ERROR_CHECK` is `boot = "aborted"`.
What an action does to the queue, the timers or the apps is an action of the component by its
definition, so what is proved of the components holds here; what the composition decides, and the
properties here are about, is the order in which they run.

### AiStorage

Every call that touches flash as the sequence of library calls it makes, each of which may
fail: `readFile`, `writeFile`, `exists`, `ai_js_run_file`, `kvGet` and `kvSet` of the app, their
counterparts in `main.c`, the creation of the VM. `held` is what has been allocated or opened and
not given back: the path, the descriptor, the buffer, the string written, the struct and the arena,
the copies of key and value, and the handle that `ai_kv_get_len`, `ai_kv_get` and `ai_kv_set` each
open and close. `js_ai_kv_set` makes its two copies in two steps, and frees what it has of them in a third; a
string that cannot be made at the end of `readFile` or `kvGet` is an exception. `kept` and `kvKept`
are the contents that a restart, possible between any two library calls, may find: a truncation, a
write or a set that was not yet synced or committed may or may not survive. File systems and NVS
are external. Left out: `boot.txt`, which `storage_selftest` writes only to log what it reads back.

### JsHeap

The arena word by word: blocks growing up from one end, the value stack down from the other,
the space between them doubling as the mark stack. `GC` is `JS_GC2`: mark with overflow and
rescan, sweep, cut the weak table of unique strings, and slide by threading pointers (Jonkers),
in the order of the code. `Alloc` collects when `MinFree` would not be left, and the error object
of out-of-memory may dip to `Critical`. `FindUnique`, `TestNumeric`, `InsertUnique` are the three
parts of `JS_MakeUniqueString` between which a collection may come.

Abstractions: a string is one header word with its text; neighbouring free blocks are not merged;
`class_proto`, the atoms and the like are folded into four roots and the value stack; the ROM table
of atoms is left out; an index past the end in `InsertUnique` (the same stale index, out of bounds)
is excluded, since what it overwrites has no meaning in the model.

### JsProps and JsPropList

The property table of an object: the hash heads, the chains by word offsets, the first free
place and the holes that deletions leave, growth, compaction, the copy of a ROM table on its first change,
and rehashing after a collection, which may fall in any allocation and changes the address a key
hashes by. `JsPropList` is what it promises: properties in the order they were made, no key
twice. The mapping forgets everything but keys, kinds and values in order: the entries of the
places in use (`Entries`, the n-th being that of the n-th such place, `Nth`). Abstractions: the
hash mask reaches 1, not 3; the link of a deleted entry is normalised; calling setters and
looking up prototypes happen outside the table.

### JsArray, EcmaArray, RqSort

`JsArray` is the table with `len` and `size` of an array and these operations on it: `push`, `unshift`,
`pop`, `shift`, `reverse`, `concat`, `indexOf`, `lastIndexOf`, `slice`, `splice`, `every`, `some`, `map`,
`filter`, `reduce` and `reduceRight` (with a first value and without), `sort`, and the setting of
elements and of `length`. One that calls a script (a callback, a comparison, a conversion of its
arguments) is `call`, holding what the C function holds in locals while the script performs any
operation on the same array. `forEach` is a `map` whose result nobody sees; `join`, `toString` and the
constructor are left out.

`EcmaArray` is the same calls on a mathematical sequence, written from ECMAScript. Its parameter `Own`
names what an engine does its own way, and with an empty `Own` it is ECMAScript. `JsArray` refines it with
seven names, its `Divergences`, which observation 9 explains. Each is needed: TLC finds `ImplementsArray`
violated when any one is left out, except `splice`, where the engine only throws in place of an answer, as any
call may for want of memory.

`RqSort` is the heap sort of `Array.prototype.sort` as the two nested loops of `rqsort_idx`: a step for
each pass of an inner loop, which compares an element with its larger child and swaps them or stops. It
knows its elements only by what a comparison says of two of them, and a comparison is a function of its
arguments. `JsArray` takes what the sort returns as a parameter, `SortedBy`, of which it relies on a
contract (`SortAssumption`: the same pairs come back, in order if the comparison is an order). That a
heap sort keeps that contract is proved (`HeapSortKeepsContract`); `js_data` gives `JsArray` any sort
that does, and runs `RqSort` beside it.

### JsString

A string is its code points with the byte lengths of WTF-8; a position is a byte offset doubled,
plus one inside a pair, as in the code. It has the cache of positions with its victim, which the
collector maintains when strings move or die, and the methods, the string buffer that contracts
surrogates, comparison, and searches. The reference is the sequence of UTF-16 units, in `MCJsData`.

### JsRegExp and EcmaRegExp

`JsRegExp` compiles a syntax tree as `re_parse_*` does, with back-patched jumps by their true sizes,
register allocation for loop counters and `save_reset`, and runs `lre_exec` with its stack of saved
states and its undo of captures. `EcmaRegExp` is the backtracking semantics of ECMAScript: a pattern
takes a state to the sequence of states it may go on from. Left out: reading a pattern's characters,
interrupts and stack checks. `MatchesAsSpecified` compares where the match lies, where each capture lies
or that it is not set, and `lastIndex` afterwards, for every `lastIndex` from -1 to past the end of the
text. It makes two allowances, which observation 6 explains and without either of which it is violated:
a capture inside a group that was repeated may be empty at the start where it should not be set, and a
`lastIndex` past the end is taken for the end.

### JsCode, JsMachine, JsValues, EcmaCode, JsScripts

`JsCode` compiles a syntax tree as the parser does while it reads: it emits an opcode as soon as it is
known, goes back only to the last one (`get_lvalue`, calls of methods, `typeof`, `delete`), patches
jumps, keeps the chain of what a `break`, `continue` or `return` has to leave (`top_break`), turns names
that were used before they were declared into local variables, computes the stack's height at every
place, and compiles the functions inside a function after it. Byte code is a cell per byte, so jumps and
sizes are the code's. `JsMachine` executes it: frames with operand stacks, references to variables that
closures share and that outlive the frame, `gosub` and `ret`, catch offsets on the stack, getters,
setters and constructors entered from the middle of an opcode with the flags of `JS_Call`. A call of a
host function suspends the machine, and the host decides what it returns or throws.

`EcmaCode` evaluates the same tree by recursion on it, in the order of ECMAScript's definitions, with
completions (`break`, `continue`, `return`, `throw`) as results, and says which trees are legal. It knows
no code, no stack and no references. It follows the subset that the engine documents: the variable
of `catch` is the function's and must be new, elements past the end of an array are a TypeError.
Operators on numbers are shared (`JsValues`): numbers are other modules' business.

`JsScripts` grows scripts from the inside out: jumps in statements in statements ("flow"), a name
declared in each of three scopes in each way and used in each way ("scope"), and values in expressions
in expressions ("value"). They ask the host for each condition and show it what they do, so that what is
compared is order as much as result.

Abstractions: positions in the source, the sizes of constant pools, `.length`, regular expression
literals, the value of `eval`, interrupts and stack checks that fail are left out; prototypes are never
looked at; strings are no operands of arithmetic; whether a function uses `arguments` or its own name is
given with the tree, where the code scans for it; that nobody wants the value of an expression is
known for the whole of it, where the code looks at the next token.

### SoftFloat, IeeeFloat, LibM, Dtoa

`SoftFloat` is `softfp_template.h`, an instance an inclusion of the template: pack, round, normalise,
add, multiply, divide, root, fused operations, comparisons, conversions, remainder. `LibM` adds the
parts of `libm.c` that are more than a polynomial (rint, scalbn, the bitwise root, the conversions of
short integers). `IeeeFloat` never computes a result: it says when a number is the nearest to
an exact quotient or root. `Dtoa` is `dtoa.c` with its limbs: digit generation in free, fixed and
fractional formats, reading, the length bound.

Integers keep their widths: 8-bit floats wrap at 8 bits, limbs at theirs.

### The MC modules and the proof modules

`MC<module>` instantiates a module for TLC. `MCJsLibrary` and `MCJsData` enumerate the inputs of
pure algorithms as states, a part at a time, and hold the properties that compare the
algorithms with their references. `<module>Proofs` hold theorems; `Ssd1680PictureProofs` (what
the panel shows, and the refinement) continues `Ssd1680Proofs`.

## The runs

Every cfg turns deadlock checking off: the clock of `AiCore` has a bound, the App Manager may
have nothing left to do, a driver whose panel is never called again really stops, and the
enumerations of inputs end.

| run | instance | shows |
|---|---|---|
| `core_timing` | 2 timers, queue of 2, 2 generations beside 0, intervals 0 and 2, one key, clock to 4 | `OnePendingPerSlot`, `StaleIdSafe`, `NoDrift`, `DropOnlyInStorm` |
| `core_stale_id` | 1 timer, 256 generations; *finding* | `StaleIdNeverNamesLiveTimer` fails |
| `appmgr_life` | 3 runtimes of 2 langs, a registry of 2, 2 VM addresses, 2 apps, catalog of 2, 4 listings | `OnlyCurrentVMLive`, `ExitFlagIsOwn`, `ScriptOnLiveVM`, `SystemAppsNotShadowed`, `AppLostOnlyToSuccessor` |
| `appmgr_scan` | a listing with three entries and a catalog of 2; *finding* | `ScanFindsEveryApp` fails |
| `panel_flush` | 10 by 1 pixels, 7 rectangles, 2 inks, slow panel, full refresh first | `NoCommandLost`, `PanelShowsFlushed`, `RightWaveform`, `BaselineInSync`, `ImplementsDisplay`, `CallReturns` |
| `system` | 1 timer, queue of 2, 1 generation, clock to 6, 2 apps, a full refresh every 2 | `ExitWithinTurn`, `GhostBounded`, `AcceptedEventHandled`, `LoopTurns` |
| `storage` | two strings of 3 bytes, reads of 2, counters to 2 | `NothingHeld`, `OldOrBeginning`, `WrittenSurvives`, `CommittedKept`, `ThrowsLeaveFile` |
| `js_heap` | 12 words, one string | `NoDangling`, `StackClearOfHeap`, `CollectionUnnoticed` |
| `js_intern` | 15 words, three strings of which one is like a number; *finding* | `UniqueSorted` fails |
| `js_props` | 4 keys, one that moves, 8 places | `FoundByHash`, `ImplementsPropList` |
| `js_library` | every small pattern, number and script | `MatchesAsSpecified`, `RewriteKeepsText`, `ArithmeticRounds`, `ConversionsRound`, `ProgramsRunAsSpecified`, `StackAsComputed` |
| `js_data` | arrays to 4, strings to 3, sorts to 6, small numbers as texts | `PositionsExact`, `StringsAsUnits`, `SortsStably`, `TextReadsBack`, `ImplementsArray` |

Why the bounds are enough.

- `core_timing`: with the clock to 4 and an interval of 2, a tick can come two periods late and at
  every phase of the interval; an interval of 0 is one that `ai_timer_create` refuses; a queue
  as long as the timers is full both with and without a key in it; two generations are the fewest in
  which a slot has two ids before its first comes round. `core_stale_id` explores only
  alternating creations and cancellations, which are behaviours of `Spec`, so that all 255
  generations can be followed.
- `appmgr_life`: two runtimes of one lang give the replacement under a running app, a third the
  full registry, two addresses the reuse of a freed one; a listing that starts with an entry that
  is no app and one with both apps give duplicates between roots and a full catalog.
- `panel_flush`: two cells, the second cut short by the panel's width as the last byte column of
  the board's 122 pixels is. A cell inside a region and one outside it is all a region can
  distinguish, and the rectangles lie inside a cell, across both, over each edge, in the padding
  of the last cell and off the panel.
- `system`: two turns of the demo with a key and a heartbeat in each; the components' own
  interleavings are the business of their own runs, whose actions the system's are made of.
- `storage`: a string longer than a read returns and one with a zero byte tell `strlen` from the size;
  the chip restarts while the boot counter is below its bound, so two lives follow the first.
- `js_heap`: 12 words hold a table, a string, an object with two fields and an error object, with
  `MinFree` reached by the second and `Critical` by the last; the mark stack overflows as soon as two
  words are to be kept. `js_intern`: the order of three strings is the least that can break.
- `js_props`: four properties need the hash table to grow once, a hole in front of and behind
  others, and a compaction; the two addresses change which bucket the moving key is in. The
  objects are a new global one and one whose table of three is in ROM.
- `js_library`: patterns of four construction steps (a term, a quantifier, a bracket, an
  alternative) and seeds that are longer, on texts of three characters; all numbers of 8 bits (2 of
  mantissa, 5 of exponent: the fewest that `add_sf`'s spare bits allow) by all others (by the positive
  ones, to nearest and downwards, where the sign of the second changes only the sign of the result or
  swaps sum and difference), and of 16 bits for conversions. Scripts are a jump (or a value) in two
  of the fifteen (or twenty-six) forms around it, so that each form is once inside and once outside
  of each; the host's answers take each branch, and four of them take a loop round twice or throw
  out of any call; where a jump lands depends on the chain of what encloses it, and a third entry of
  that chain is treated as the second is. 2^8 steps are more than any script takes between two calls.
  The 32 elements of a literal that are kept on the stack are 2.
- `js_data`: four elements make the table grow and shrink; one edit per callback is enough to
  cut, grow or reorder under any index held; strings of every byte length and both kinds of
  surrogate, two cache entries for two strings so that a victim is taken; sorts of up to six have a heap
  of three levels; all texts of numbers with 5 bits of mantissa and 5 of exponent, limbs of 7 bits,
  so that numbers need several, in radixes that are powers of two, odd, and ten.

### Fairness

- `AiSystem`: weak fairness of `BootStep` and `LoopStep`: the main task is scheduled, and handlers,
  pumps and scripts return. The last is an assumption about scripts: nothing stops one that does not
  (`stop_requested` is set and never read). Posts and the clock have no fairness. `LoopTurns`
  holds under the condition `Quiet`: the drain loop polls until the queue is empty, so producers that
  outpace it do keep the pump waiting, and the property says so.
- `Ssd1680`: the driver is fair, the panel is not. `CallReturns` holds although BUSY may stay up
  for ever, because `epd_wait_busy` gives up.

Every other run checks safety only.

## What is proved

The theorems hold for every value of the constants that meets the module's assumption, with
nothing taken on trust. Every invariant and every safety action property that the passing runs
check of the firmware's modules is a theorem, and so is the refinement of `AiDisplay`. Of the
engine's modules, `JsProps` and `JsArray` are proved to refine their specifications, what else is
checked of `JsProps` is a theorem, and `RqSort` is proved to sort.

**AiCoreProofs** (`CoreAssumption`: the slots fit an id's byte, the queue has a place, there is a
generation beside 0). `TypeCorrect`, `TimersStayAhead`, `OnePending`, `StaleIdsAreSafe`,
`LiveIdsDecode`, `TimersNeverDrift`, `ExpirationsLostOnlyInStorm`. The inductive invariant is
`TypeOK` with three parts:

- `RunningTimers`: a timer in use has a generation other than 0, a positive interval and a due time
  within one interval of the present, past `tnow` once scanned. `ScannedTimersAhead` alone is not
  inductive, since `CatchUp` needs the interval to be positive, and `NoDrift` needs the same.
- `PendingTimers`: what the queue may hold of each slot at each `pc`. While a tick scans, only slots
  below `slot` have an expiration queued, and none has two: `OnePendingPerSlot` says nothing of the
  slots ahead, so it is not inductive.
- `DeadIdsOlder`: in a slot that has not wrapped, dead ids have a generation at most the current
  one, and a smaller one if the timer is in use.

`ExpirationsLostOnlyInStorm` counts: a full queue has `QueueDepth` events, those of timers map
one-to-one to scanned slots, so more than `QueueDepth - TimerMax` are left for other tasks.

**AiAppMgrProofs** (`AppMgrAssumption`: a runtime's lang is some manifest's; `None` is no VM, no
runtime and no root). `TypeCorrect`, `VMOwnership`, `ScriptsRunOnLiveVMs`, `ExitFlagsAreOwn`,
`LaunchesAreWhole`, `AppsLostOnlyToSuccessors`, `LangsRegisteredOnce`, `SystemAppsComeFirst`. The
inductive invariant adds to `OnlyCurrentVMLive` that `s_app` is all zero or holds a VM *and* a
runtime (`destroy_current` does nothing otherwise, and would leave an exit flag), that a launch in
`create` has no app and a runtime in hand, and that a script on the stack has a VM.
`LangsRegisteredOnce` rests on a lemma, from the well-foundedness of `<`, that the first index of a
non-empty set is in it. `SystemAppsComeFirst` needs what a scan appends: `ScanRoot` is defined by the
positions of the apps in the listing (`Apps`, `Nth`, `UpTo`) instead of a filter, so that a
catalog after a scan is an old prefix with entries of one root behind it.

**Ssd1680Proofs** (`PanelAssumption`: a panel of at least one pixel, rectangles of integers, white
is an ink). `TypeCorrect`, `CommandsAreHeard`, `RegionIsTouched`. `NoCommandLost` depends on what is
still to be sent, so the invariant says what `todo` may be: a *program*, in which every command that
makes the panel busy is followed by a wait and none puts it to sleep, or the call `Sleep`. Programs
are closed under concatenation and under taking the tail. `BusyAwaited` adds that a busy panel is
being waited for or reset, unless a wait timed out; `AsleepLeftAlone` that a sleeping one is left
alone until a call that resets it. `RegionIsTouched` is the window arithmetic: the bytes sent are
exactly those of the panel that the rectangle reaches.

**Ssd1680PictureProofs.** `FlushesAreShown`, `UpdatesOnTheirWaveform` and, for `FullFirst`,
`BaseIsInSync`. All calls are segments of one sequence of 22 commands, `Steps`; `Place` says that the
driver is at rest, asleep, or at place `i` of a segment that ends at `j`, and what is then known:
the waveform, VCOM and mode registers (`Modes`, `Waveform`), and which bank holds what (`Banks`): the
new picture everywhere, in the region only, or what the panel shows. None of the three theorems is
inductive: a stale base bank does harm only a call later. TLC checked `Place` with `FullFirst`
both true and false before it was proved.

The module ends with `DriverIsDisplay`: `Spec => ImplementsDisplay`, for all callers. Initial
states map to initial states, and each step of the driver and the panel is a step of `AiDisplay` or a
stutter: `PhaseAt` computes the abstract phase from the place in `Steps`, and there is a lemma
per kind of step on what it does to the mapped state.

**AiSystemProofs** (`SystemAssumption`). `ExitsWithinTurn`, `GhostsAreBounded`, `FullComesFirst`,
`TypeCorrect`: the invariant relates the stage of the pump to the exit flag, and `ghosts` to `frame`
modulo `FullEvery`. `FullComesFirst` discharges the assumption `FullFirst` of the panel.

**AiStorageProofs** (`StorageAssumption`). `NothingLeaks`, `WritesNeverMix`, `WritesSurvive`,
`CommitsSurvive`, `ExceptionsLeaveFile`. The invariant has `TypeOK`, `Control` (which call may be at
which step, in which stage of boot), `Held` (what each step of each call holds, exactly: a step after two
allocations that may each have failed has four cases), `Writing` (what the file and `kept` are at each
step of a write) and `Raising` (what a counter's value read says of its floor). `WritesNeverMix` rests on
`OverwrittenIs`: from an empty file on, a write over the start leaves the beginning of the data and nothing
else.

**JsPropsProofs** (`PropsAssumption`: a key has one hash, movable by its address or fixed, and the marks
of free places are no keys; `StartsAssumption`: the tables of the standard library are in order at any
addresses, since their keys are in ROM, and hold values). `PropertiesAreFound`: however often the table
grows, is copied out of ROM, loses properties, is compacted and is rehashed by a collection in the
middle of that, `find_own_property` gets to each property, to nothing else, and within as many links as
there are places. `FoundByHash` is not inductive: a chain can lead to every property and lead nowhere
after the next removal. `IInv` says what every link is:

- `Linked`: a bucket points to the last of its properties and each property to the one before it in
  the same bucket. `js_rehash_props` makes such chains, an insertion keeps them only if it is behind
  all others, and a removal only if the property that pointed to the one that goes is the next in its
  bucket. That a walk ends follows: places fall along it (`WalkStays`, `WalkReaches`).
- `FreeKnown`: so the first free place, which the last free one names, is behind all in use, and what
  a resize did not clear is behind that. An insertion is where both meet (`CreatedKeeps`), and the
  loop in `JS_DeleteProperty` that moves the first free place back (`RemovedKeeps`).
- `Distinct` and `Counted`: `js_rehash_props` and `js_compact_props` take a place that was not cleared
  for one in use, and stop after `count` of them. That these are the properties (`SoundIsPacked`)
  needs the count to be exact and the places not cleared to come last (`FirstTaken`).
- `RomIsFixed`: a table in ROM is not rehashed after a collection, so no key of it may move.

Each operation is a composition of steps on the table, and each step has a lemma that it keeps `Sound`
and `Linked`. An allocation in between is `AfterAllocKeeps`: the chains are those of the new addresses.
`NewString` moves a string that is no key, which changes no bucket.

`TableIsPropList` is the refinement: the table implements `JsPropList`. The same invariant is what
makes a step the right one (an insertion is of a key the list has not, since it would have been
found). The steps on the table also say what they do to places in use, and that is what the
list sees: nothing if the n-th place in use has the same entry as before (`SameEntries`: a rehash, a
compaction, a copy from ROM, a wider table), one more entry at the end if a place behind all others comes
into use (`EntriesAppended`), one less if a place goes (`EntriesDropped`, with `NthWithout`: the places
before it keep their number, those behind move up one), a new value (`EntriesStored`). That the
places of a compacted table are numbered like those it came from needs only that `UpTo` counts
them, so no induction.

**JsArrayProofs** (`ArrayAssumption`: values differ from undefined, indexes are integers, arguments
sequences of elements; `SortAssumption`: the contract of the sort; `TablesAssumption`: no two elements
to be sorted are the same, since each has its place). `ArrayIsEcma`: for every array, every operation
modelled and every sequence of edits that callbacks make in the middle of one, the elements seen are the
sequence of `EcmaArray` and every result is its result: ECMAScript's, but for the seven `Divergences`.
`TableHoldsArray` is the invariant it rests on:

- `IsArray`: the table is never shorter than `len`, and `len` never above `ShortIntMax`. What lies in
  the table behind `len` is not seen and may be anything, so everything that makes an array longer has
  to write over it, and that is where a step could go wrong: `LengthenedIs`, `StoredIs`, `PushedIs`.
- `CallHolds`: what a call keeps in C locals while a callback runs. The index stays below the length
  that was read when the call began, never below the array's own: that is why a loop tests again before
  each element (`VisitsIs`, `AnswersIs`). What a sort holds is what `PairsOf` makes of some sequence of
  the length read, whatever has become of the array since.

There is one lemma per operation on tables for what is seen of it (`UnshiftedIs`, `ShiftedIs`,
`SplicedIs`, which closes or makes room by `RoomByShrinking` and `RoomByGrowing`, ...), then one per
action, by three lemmas on how a call begins, asks its script and ends (`CallsIs`, `DoneIs`,
`ReturnsIs`). Searches are the first and the last of a set of places (`FirstIs`, `LastIs`), which exist
by the well-foundedness of `<`. Of a sort the proof knows the contract only: what it writes back is an
arrangement of what was read that `EcmaArray` allows (`SortedIs`), put in place only as far as the array
still reaches.

`SortIsStable` is the heap sort, for tables of any length. Its invariant, `SortInv`, says of the first
loop that the elements from `turn` on are a heap, and of the second that those below `turn` are one and
that those from there on are in order and above all others. While an element sinks, the heap has one
exception, at `node`, and what is above that is at least what is below it (`Bridged`, without which a
swap could put an element under a smaller one). `RootIsLargest` takes the first element that is larger
than the root, and finds its parent larger too. `HeapSortKeepsContract` leads from there to
`SortAssumption`: the comparison of `js_array_sort` orders pairs by value or parity and then by place
(`SortCmpOrders`), so the heap sort, which by itself is not stable, is.

Theorems that no run checks as a property, because an inductive invariant or a step depends on
them or they cover a hazard alone: `TimersStayAhead`, `LiveIdsDecode`,
`LaunchesAreWhole`, `LangsRegisteredOnce`, `RegionIsTouched`, `FullComesFirst`, `TableHoldsArray`,
`HeapSortKeepsContract` and the `TypeCorrect` of each module. TLC checked `TableHoldsArray`'s invariant
and `SortInv` on the instance of `js_data` before they were proved.

### Model-checked only

- Liveness: `AcceptedEventHandled`, `LoopTurns`, `CallReturns`. TLAPS has no support for ENABLED.
- `JsHeap`, `JsRegExp`, `EcmaRegExp`, `Dtoa`, `JsString`, `JsCode`, `JsMachine`, `EcmaCode` and what
  uses them: they walk memory, byte code, trees or limbs by RECURSIVE operators, for which the provers
  have no induction. That the compiler is right for trees of every depth is such an induction.
- `SoftFloat`, `LibM`: powers of two with symbolic exponents are beyond the SMT solver's arithmetic.
- That the pairs `JsArray` sorts have places of their own, which `HeapSortKeepsContract` asks of them:
  `PairsOf` is a `SelectSeq`, and what that returns is an induction. TLC's tables have them.

## Findings

1. **Timer ids come round** (`core_stale_id`). `docs/IMPLEMENTATION_PLAN.md:253` says the generation
   in an id keeps a stale one from cancelling another app's timer; with eight bits it does so for 255
   creations in a slot. `StaleIdsAreSafe` is what is true.
2. **The scan stops early** (`appmgr_scan`). Files and directories that are no apps count
   against the eight entries a root is listed to.
3. **The table of unique strings loses its order** (`js_intern`). `JS_MakeUniqueString` computes the
   place of a new string, then asks `js_is_numeric_string`, which may allocate and collect; strings
   leave the table and the place is stale (`mquickjs.c:2022`).

Observations met while modelling, with no run of their own:

1. A first partial refresh after `ssd1680_init` or `ssd1680_wake` has no base bank: both leave
   `MODE_FULL` behind, which `ssd1680_refresh_partial` takes for a seeded one (`ssd1680.c:350`).
   `app_main` never does this; a user of sleep and wakeup would.
2. A failed launch of the smoke app ends the boot by `ESP_ERROR_CHECK`, where `docs/ARCHITECTURE.md:169`
   has the system go on; and the app must be found by the scan that follows its installation
   (`main.c:272`), so eight other entries in `/system/apps` stop the boot.
3. `ai_kv.h:18` says a value is truncated to `max`; `nvs_get_str` fails with a short buffer, and
   `ai_kv_get` returns -1. `ai_fs_close` drops what `close` returns (`ai_fs.c:45`). A read error in
   the middle of an entry file ends the loop as its end would (`ai_runtime_js.c:106`).
4. `ai_js_dispatch` pushes five values without `JS_StackCheck` (`ai_runtime_js.c:131`); the free space
   that allocations leave keeps them out of the heap (`StackClearOfHeap`).
5. A partial refresh with `w = 0` at an unaligned `x`, or one that lies within the padding right of
   the panel, drives one column of bytes.
6. `save_reset` stores 0 instead of -1 (`mquickjs.c:17348-17360`), so a capture of an earlier iteration
   comes back as "" instead of undefined: `/(z)((a+)?(b+)?(c))*/.exec("zaacbbbcac")`. The tests at
   `mquickjs/tests/test_builtin.js:704` and `:718` write undefined there, but their `assert` compares
   two arrays by `toString`, to which both are the same. A `lastIndex` past the end of the text is
   taken for the end, since `js_string_utf16_to_utf8_pos` clamps (`:1465`): the branch at `:17811` is never
   taken, and `r = /$/g; r.lastIndex = 9; r.exec("ab")` matches. `search` with `g` or `y` that finds nothing
   leaves `lastIndex` at 0, where ECMAScript puts it back. `replace` with `g` does not reset captures
   between matches, `match` with `g` never advances after an empty match, and `split` tests its limit only
   before captures; `"ab".split(/$/)` gives `["ab", ""]`.
7. `js_dtoa` is not always shortest at powers of two (`2^-24`), against the comment at `dtoa.c:1192`;
   `js_atod`'s exponent overflows an int (`dtoa.c:1543`), which `IntBits` of `Dtoa` keeps in view.
8. `__nedf2` returns 0 for a NaN.
9. Arrays, by the names of `Divergences`. *sortThrows*: a comparison that throws is lost by `sort`.
   *lastIndexOf*: `[1,2,3,4].lastIndexOf(4, -1)` is -1. *reduceRight*: it stops where it should skip when
   its callback shrinks the array. The other four are about an array that the conversion of an argument
   or a comparison changes. *indexOf* reads the length again (`:14442`) and so finds an element that was
   added; *slice* gives what is left (`:14486`) where ECMAScript gives undefined for the rest; *splice*
   refuses (`:14537`); *sort* writes back only as many as the array still has (`:14930`).
10. Strings: `s.slice(1)` and `s.charAt(1)` of an astral character are equal but name different
    properties (`js_sub_string_utf8`); a lone lead surrogate sorts below every pair with the same
    lead, whatever follows it (`Unordered` in `MCJsData`).
11. `get_length` tests the value of the last property read instead of the object
    (`mquickjs.c:5938`): after `o.c` gave a string of one character, `u.length` of undefined is 1.
12. `a: b: for (;;) continue a` is a syntax error: a labelled statement that is not itself a loop is
    no target of `continue`. `delete` of a property of undefined is true (`JS_DeleteProperty`).
13. A named function expression that declares a variable of its own name finds the function in it; a
    function declaration named like a parameter is in place before `arguments` is made.
14. `compute_stack_size` does not follow `catch`, so the code of a handler adds nothing to the stack a
    call reserves; the slack of every check (`JS_STACK_SLACK`) covers it.
15. `for (k in o)` lists the keys when it starts: one deleted meanwhile is still visited.

## Not modelled

- The engine's lexer, its other builtins (Date, JSON, typed arrays, Function, Math) and prototypes.
- That a sort ends, and comparison functions that answer differently when asked twice.
- The elementary functions of `libm.c`: they approximate real functions, which TLA+ cannot state.
- Generated tables (`ai_stdlib.h`) and the host programs that print them or serve a developer's
  terminal (`mquickjs_build.c`, `mqjs.c`, `readline.c`): constant data, and code that is not in
  the firmware.
- `ai_sys`, board constants: a clock read, a delay, pin numbers.
- Functions without a caller: `ai_kv_erase`, `ai_vfs_unmount_sd`, the append modes of `ai_fs`.

## Plan

1. `StackClearOfHeap` as a theorem: an abstract arena of three pointers and sizes, without the
   words, which `JsHeap` refines and whose invariant bounds what a push may reach.
2. Prototypes and constructors: property lookup along the chain, as the interpreter's getters and
   setters see it, and `instanceof`.
3. JSON against its grammar; typed arrays.
