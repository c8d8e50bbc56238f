------------------------------- MODULE AiCore -------------------------------
(***************************************************************************)
(* The event queue, the software timers and the main loop of AstroInk      *)
(* (components/ai_core).  One FreeRTOS task runs ai_loop_run: each turn    *)
(* ticks the timers, drains the queue through the event handler, calls the *)
(* pump hook and sleeps.  The handler, the pump and the code that runs     *)
(* before the loop are the callers of the timer API; other tasks and       *)
(* interrupt handlers only post events.                                    *)
(*                                                                         *)
(* A step of the main task is one slot of a tick, one queue operation, or  *)
(* one call of the timer API: a post and the clock can fall between any    *)
(* two of them.                                                            *)
(***************************************************************************)
EXTENDS Integers, Sequences, FiniteSets

CONSTANTS
    TimerMax,    \* AI_TIMER_MAX
    QueueDepth,  \* AI_EVENT_QUEUE_DEPTH
    GenMod,      \* number of values of the uint8_t gen: 256 in the code
    Intervals,   \* the intervals callers ask for, refused ones included
    Signals,     \* the events other tasks and interrupt handlers post
    MaxNow       \* bound on the clock, for model checking only

Slot == 0 .. TimerMax - 1

\* AI_EV_NONE: no event is being handled.
NoEvent == [type |-> "NONE", a |-> 0, b |-> 0]

Event == [type : {"TIMER", "KEY", "SYS"}, a : Int, b : Int]

ASSUME CoreAssumption ==
    /\ TimerMax \in 1 .. 256
    /\ QueueDepth \in Nat \ {0}
    /\ GenMod \in 2 .. 256
    /\ Intervals \subseteq Int
    /\ Signals \subseteq {e \in Event : e.type # "TIMER"}
    /\ MaxNow \in Nat

VARIABLES
    ready,      \* s_queue is not NULL
    queue,      \* the FreeRTOS queue
    timers,     \* s_timers
    now,        \* esp_timer_get_time, in ms
    pc,         \* where the main task is
    slot,       \* the i of ai_timer_tick's loop
    tnow,       \* the now ai_timer_tick read on entry
    ev,         \* the event the handler is running on
    cancelled,  \* history: ids whose timer was cancelled
    fired,      \* history: ids whose one-shot timer expired
    wrapped     \* history: slots whose generation went round

vars == <<ready, queue, timers, now, pc, slot, tnow, ev, cancelled, fired, wrapped>>
loopVars == <<pc, slot, tnow, ev>>
history == <<cancelled, fired, wrapped>>

-----------------------------------------------------------------------------
(* Timer ids: the generation in the second byte, the slot in the first.    *)

MakeId(i, g) == g * 256 + i

IdSlot(id) == id % 256

IdGen(id) == (id \div 256) % 256

\* decode_id accepts the id.
Decodes(id) == id > 0 /\ IdSlot(id) < TimerMax

LiveId(i) == MakeId(i, timers[i].gen)

Live == {LiveId(i) : i \in {j \in Slot : timers[j].used}}

Dead == cancelled \cup fired

\* Faulty variants of NextGen: never renewed, not wrapping.
NextGenStuck(g) == IF g = 0 THEN 1 ELSE g
NextGenWide(g) == g + 1

\* if (++gen == 0) gen = 1
NextGen(g) == IF g + 1 = GenMod THEN 1 ELSE g + 1

Wraps(g) == g + 1 = GenMod

TimerEvent(i) == [type |-> "TIMER", a |-> LiveId(i), b |-> IF timers[i].repeat THEN 1 ELSE 0]

\* Faulty variant of CatchUp: from the tick's time.
CatchUpFromNow(due, iv, t) == t + iv

\* do due += iv while (t >= due): the first due + k * iv past t, with k > 0.
CatchUp(due, iv, t) == due + iv * ((t - due) \div iv + 1)

-----------------------------------------------------------------------------
(* The queue.                                                              *)

\* Faulty variant of QueueAfterInit: a new queue at every call.
QueueAfterReinit == <<>>

\* ai_event_init creates the queue once, and every ai_timer_create calls it.
QueueAfterInit == IF ready THEN queue ELSE <<>>

\* xQueueSend with no timeout: a full queue, or none yet, drops the event.
Send(e) == IF ready /\ Len(queue) < QueueDepth THEN Append(queue, e) ELSE queue

EventInit ==
    /\ pc = "setup"
    /\ ~ready
    /\ ready' = TRUE
    /\ queue' = QueueAfterInit
    /\ UNCHANGED <<timers, now, loopVars, history>>

\* ai_event_post or ai_event_post_isr, from another task or an interrupt.
Post(e) ==
    /\ queue' = Send(e)
    /\ UNCHANGED <<ready, timers, now, loopVars, history>>

-----------------------------------------------------------------------------
(* The timer API, called from setup code, the event handler or the pump.   *)

Calling == pc \in {"setup", "handle", "pump"}

\* A slot after an assignment to its used, gen or due.
Updated(t, used, gen, due) ==
    [used |-> used, repeat |-> t.repeat, gen |-> gen, interval |-> t.interval, due |-> due]

FirstFree(i) == ~timers[i].used /\ \A j \in 0 .. i - 1 : timers[j].used

ValidInterval(iv) == iv > 0

Create(iv, repeat) ==
    /\ Calling
    /\ ValidInterval(iv)
    /\ ready' = TRUE
    /\ queue' = QueueAfterInit
    /\ \E i \in Slot :
        /\ FirstFree(i)
        /\ timers' = [timers EXCEPT ![i] =
               [used |-> TRUE, repeat |-> repeat, gen |-> NextGen(@.gen),
                interval |-> iv, due |-> now + iv]]
        /\ wrapped' = IF Wraps(timers[i].gen) THEN wrapped \cup {i} ELSE wrapped
    /\ UNCHANGED <<now, loopVars, cancelled, fired>>

\* ai_timer_create initialises the queue before it finds no slot free.
CreateNoSlot(iv) ==
    /\ Calling
    /\ ValidInterval(iv)
    /\ \A i \in Slot : timers[i].used
    /\ ready' = TRUE
    /\ queue' = QueueAfterInit
    /\ UNCHANGED <<timers, now, loopVars, history>>

Cancel(id) ==
    /\ Calling
    /\ Decodes(id)
    /\ timers[IdSlot(id)].used
    /\ timers[IdSlot(id)].gen = IdGen(id)
    /\ timers' = [timers EXCEPT ![IdSlot(id)] = Updated(@, FALSE, @.gen, @.due)]
    /\ cancelled' = cancelled \cup {id}
    /\ UNCHANGED <<ready, queue, now, loopVars, fired, wrapped>>

CancelAll ==
    /\ Calling
    /\ Live # {}
    /\ timers' = [i \in Slot |->
           IF timers[i].used
           THEN Updated(timers[i], FALSE, NextGen(timers[i].gen), timers[i].due)
           ELSE timers[i]]
    /\ cancelled' = cancelled \cup Live
    /\ wrapped' = wrapped \cup {i \in Slot : timers[i].used /\ Wraps(timers[i].gen)}
    /\ UNCHANGED <<ready, queue, now, loopVars, fired>>

-----------------------------------------------------------------------------
(* ai_loop_once.                                                           *)

BeginTick ==
    /\ pc = "wait" \/ (pc = "setup" /\ ready)
    /\ pc' = "scan"
    /\ slot' = 0
    /\ tnow' = now
    /\ UNCHANGED <<ready, queue, timers, now, ev, history>>

IsDue(i) == timers[i].used /\ tnow >= timers[i].due

Skip ==
    /\ pc = "scan"
    /\ slot < TimerMax
    /\ ~IsDue(slot)
    /\ slot' = slot + 1
    /\ UNCHANGED <<ready, queue, timers, now, pc, tnow, ev, history>>

Expire ==
    /\ pc = "scan"
    /\ slot < TimerMax
    /\ IsDue(slot)
    /\ queue' = Send(TimerEvent(slot))
    /\ IF timers[slot].repeat
       THEN /\ timers' = [timers EXCEPT ![slot] =
                  Updated(@, TRUE, @.gen, CatchUp(@.due, @.interval, tnow))]
            /\ UNCHANGED fired
       ELSE /\ timers' = [timers EXCEPT ![slot] = Updated(@, FALSE, @.gen, @.due)]
            /\ fired' = fired \cup {LiveId(slot)}
    /\ slot' = slot + 1
    /\ UNCHANGED <<ready, now, pc, tnow, ev, cancelled, wrapped>>

TickDone ==
    /\ pc = "scan"
    /\ slot = TimerMax
    /\ pc' = "drain"
    /\ UNCHANGED <<ready, queue, timers, now, slot, tnow, ev, history>>

Deliver ==
    /\ pc = "drain"
    /\ queue # <<>>
    /\ ev' = Head(queue)
    /\ queue' = Tail(queue)
    /\ pc' = "handle"
    /\ UNCHANGED <<ready, timers, now, slot, tnow, history>>

\* Faulty variant of AfterHandler: one event per turn of the loop.
AfterOneEvent == "pump"

\* The drain loop polls again after each event, until the queue is empty.
AfterHandler == "drain"

HandlerReturns ==
    /\ pc = "handle"
    /\ pc' = AfterHandler
    /\ ev' = NoEvent
    /\ UNCHANGED <<ready, queue, timers, now, slot, tnow, history>>

Drained ==
    /\ pc = "drain"
    /\ queue = <<>>
    /\ pc' = "pump"
    /\ UNCHANGED <<ready, queue, timers, now, slot, tnow, ev, history>>

PumpReturns ==
    /\ pc = "pump"
    /\ pc' = "wait"
    /\ UNCHANGED <<ready, queue, timers, now, slot, tnow, ev, history>>

LoopStep ==
    \/ BeginTick \/ Skip \/ Expire \/ TickDone
    \/ Deliver \/ HandlerReturns \/ Drained \/ PumpReturns

Clock ==
    /\ now < MaxNow
    /\ now' = now + 1
    /\ UNCHANGED <<ready, queue, timers, loopVars, history>>

-----------------------------------------------------------------------------

Init ==
    /\ ready = FALSE
    /\ queue = <<>>
    /\ timers = [i \in Slot |->
           [used |-> FALSE, repeat |-> FALSE, gen |-> 0, interval |-> 0, due |-> 0]]
    /\ now = 0
    /\ pc = "setup" /\ slot = 0 /\ tnow = 0 /\ ev = NoEvent
    /\ cancelled = {} /\ fired = {} /\ wrapped = {}

Next ==
    \/ EventInit
    \/ \E e \in Signals : Post(e)
    \/ \E iv \in Intervals, repeat \in BOOLEAN : Create(iv, repeat)
    \/ \E iv \in Intervals : CreateNoSlot(iv)
    \/ \E id \in Live \cup Dead : Cancel(id)
    \/ CancelAll
    \/ LoopStep
    \/ Clock

Spec == Init /\ [][Next]_vars

-----------------------------------------------------------------------------
(* Properties.                                                             *)

Timer ==
    [used : BOOLEAN, repeat : BOOLEAN, gen : 0 .. GenMod - 1, interval : Nat, due : Nat]

TypeOK ==
    /\ ready \in BOOLEAN
    /\ queue \in Seq(Event) /\ Len(queue) <= QueueDepth
    /\ timers \in [Slot -> Timer]
    /\ now \in Nat
    /\ pc \in {"setup", "scan", "drain", "handle", "pump", "wait"}
    /\ slot \in 0 .. TimerMax
    /\ tnow \in Nat /\ tnow <= now
    /\ ev \in Event \cup {NoEvent}
    /\ cancelled \subseteq Nat /\ fired \subseteq Nat
    /\ wrapped \subseteq Slot

\* However late the tick runs, a timer it has scanned is due after the time it
\* read and within one interval of the present: a repeating timer that missed
\* many periods (during a 2 s refresh) neither fires in a burst nor skips ahead.
ScannedTimersAhead ==
    \A i \in Slot :
        timers[i].used /\ (pc = "scan" => i < slot) =>
            /\ tnow < timers[i].due
            /\ timers[i].due <= now + timers[i].interval

TimerEventsOf(i) == {k \in DOMAIN queue : queue[k].type = "TIMER" /\ IdSlot(queue[k].a) = i}

\* The queue never holds two expirations of one slot: the drain loop empties it
\* between any two ticks, so at most TimerMax of its places go to timers.
OnePendingPerSlot == \A i \in Slot : \A k, l \in TimerEventsOf(i) : k = l

\* Before a slot's 8-bit generation goes round, no live timer answers to an id
\* that was cancelled or used up, so ai_timer_cancel on a stale id hits nobody.
StaleIdSafe == \A id \in Live \cap Dead : IdSlot(id) \in wrapped

\* docs/IMPLEMENTATION_PLAN.md claims this of the generation in an id, with no
\* limit on how long an id may be kept.
StaleIdNeverNamesLiveTimer == Live \cap Dead = {}

\* An id handed to a caller is never one that ai_timer_cancel refuses, nor the
\* -1 of a failed create: every live timer can be cancelled through its id.
LiveTimersCancellable ==
    \A i \in Slot : timers[i].used =>
        /\ Decodes(LiveId(i))
        /\ IdSlot(LiveId(i)) = i
        /\ IdGen(LiveId(i)) = timers[i].gen

\* A repeating timer keeps its phase: each new due time is a whole number of
\* its intervals after the old one, whatever the latency of the tick.
NoDrift ==
    [][\A i \in Slot :
          timers[i].used /\ timers'[i].used =>
              /\ timers'[i].interval = timers[i].interval
              /\ (timers'[i].due - timers[i].due) % timers[i].interval = 0]_vars

SignalsQueued == {k \in DOMAIN queue : queue[k].type # "TIMER"}

\* Timers alone cannot overflow the queue: an expiration is dropped only while
\* other tasks have more than QueueDepth - TimerMax of their events pending.
DropOnlyInStorm ==
    [][Expire /\ queue' = queue => Cardinality(SignalsQueued) > QueueDepth - TimerMax]_vars
=============================================================================
