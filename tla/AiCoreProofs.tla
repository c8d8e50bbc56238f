---------------------------- MODULE AiCoreProofs ----------------------------
(***************************************************************************)
(* What AiCore guarantees for every number of timers, queue depth, range   *)
(* of generations and set of events: proofs of its safety properties.      *)
(***************************************************************************)
EXTENDS AiCore, FiniteSetTheorems, TLAPS

-----------------------------------------------------------------------------
(* The inductive invariant.                                                *)

\* Every running timer has a positive interval and is due within one of them.
RunningTimers ==
    \A i \in Slot : timers[i].used =>
        /\ timers[i].interval > 0
        /\ timers[i].gen > 0
        /\ timers[i].due <= now + timers[i].interval
        /\ (pc = "scan" => i < slot) => tnow < timers[i].due

IsTimerEvent(k) == k \in DOMAIN queue /\ queue[k].type = "TIMER"

\* Timer events enter the queue in slot order during a tick, and all of them
\* have left it when the pump runs.  Nothing is queued before ai_event_init.
PendingTimers ==
    /\ ~ready => queue = <<>> /\ pc = "setup"
    /\ \A k, l \in DOMAIN queue :
          IsTimerEvent(k) /\ IsTimerEvent(l) /\ k < l
              => IdSlot(queue[k].a) < IdSlot(queue[l].a)
    /\ pc = "scan" => \A k \in DOMAIN queue : IsTimerEvent(k) => IdSlot(queue[k].a) < slot
    /\ pc \in {"setup", "pump", "wait"} => \A k \in DOMAIN queue : ~IsTimerEvent(k)

\* A slot that has not gone round holds a newer generation than any dead id, or
\* the same one and no timer.
DeadIdsOlder ==
    \A id \in Dead :
        /\ IdSlot(id) \in Slot
        /\ IdSlot(id) \notin wrapped =>
              \/ IdGen(id) < timers[IdSlot(id)].gen
              \/ IdGen(id) = timers[IdSlot(id)].gen /\ ~timers[IdSlot(id)].used

IInv == TypeOK /\ RunningTimers /\ PendingTimers /\ DeadIdsOlder

-----------------------------------------------------------------------------
(* Lemmas on ids, generations and the catch-up of a late timer.            *)

\* Decoding an id gives back the slot and the generation it was made from.
LEMMA IdRoundTrip ==
    ASSUME NEW i \in Slot, NEW g \in 0 .. GenMod - 1
    PROVE  /\ MakeId(i, g) \in Nat
           /\ IdSlot(MakeId(i, g)) = i
           /\ IdGen(MakeId(i, g)) = g
           /\ g > 0 => Decodes(MakeId(i, g))
  BY CoreAssumption, SMT DEF MakeId, IdSlot, IdGen, Decodes, Slot

\* The next generation is never 0, and is larger unless the counter wraps.
LEMMA NextGenRange ==
    ASSUME NEW g \in 0 .. GenMod - 1
    PROVE  /\ NextGen(g) \in 1 .. GenMod - 1
           /\ ~Wraps(g) => NextGen(g) = g + 1
  BY CoreAssumption DEF NextGen, Wraps

\* Catching up adds a positive whole number of intervals, the fewest that pass t.
LEMMA CatchUpBounds ==
    ASSUME NEW due \in Nat, NEW iv \in Nat, iv > 0, NEW t \in Nat, t >= due
    PROVE  /\ CatchUp(due, iv, t) \in Nat
           /\ t < CatchUp(due, iv, t)
           /\ CatchUp(due, iv, t) <= t + iv
           /\ (CatchUp(due, iv, t) - due) % iv = 0
  <1> DEFINE n == (t - due) \div iv
             r == (t - due) % iv
  <1>1. n \in Nat /\ r \in 0 .. iv - 1 /\ t - due = iv * n + r
    BY SMT
  <1>2. CatchUp(due, iv, t) = due + iv * (n + 1)
    BY DEF CatchUp
  <1>3. iv * (n + 1) = iv * n + iv
    BY <1>1, SMT
  <1>4. (iv * (n + 1)) % iv = 0
    BY <1>1, SMT
  <1>5. iv * n \in Nat
    BY <1>1, SMT
  <1> HIDE DEF n, r
  <1>6. iv * (n + 1) \in Nat /\ CatchUp(due, iv, t) - due = iv * (n + 1)
    BY <1>2, <1>3, <1>5, SMT
  <1> QED
    BY <1>1, <1>2, <1>3, <1>4, <1>5, <1>6, SMT

\* Sending appends the event at the end, or leaves the queue alone.
LEMMA SendAppends ==
    ASSUME TypeOK, NEW e \in Event
    PROVE  /\ Send(e) \in Seq(Event) /\ Len(Send(e)) <= QueueDepth
           /\ ~ready => Send(e) = queue
           /\ \A k \in DOMAIN Send(e) :
                 \/ k \in DOMAIN queue /\ Send(e)[k] = queue[k]
                 \/ Send(e)[k] = e /\ k = Len(queue) + 1
  <1>1. queue \in Seq(Event) /\ Len(queue) \in Nat /\ Len(queue) <= QueueDepth
    BY DEF TypeOK
  <1>2. CASE ready /\ Len(queue) < QueueDepth
    <2>1. /\ Send(e) = Append(queue, e)
          /\ Send(e) \in Seq(Event) /\ Len(Send(e)) = Len(queue) + 1
          /\ DOMAIN Send(e) = 1 .. Len(queue) + 1 /\ DOMAIN queue = 1 .. Len(queue)
      BY <1>1, <1>2 DEF Send
    <2>2. \A k \in 1 .. Len(queue) + 1 :
             Send(e)[k] = IF k = Len(queue) + 1 THEN e ELSE queue[k]
      BY <1>1, <2>1
    <2> QED
      BY <1>1, <1>2, <2>1, <2>2, CoreAssumption
  <1>3. CASE ~(ready /\ Len(queue) < QueueDepth)
    BY <1>1, <1>3 DEF Send
  <1> QED
    BY <1>2, <1>3

\* The queue holds events, and every event's id decodes to some slot number.
LEMMA QueuedEvents ==
    ASSUME TypeOK, NEW k \in DOMAIN queue
    PROVE  queue[k] \in Event /\ IdSlot(queue[k].a) \in 0 .. 255
  <1>1. queue \in Seq(Event)
    BY DEF TypeOK
  <1>2. queue[k] \in Event
    BY <1>1
  <1>3. queue[k].a \in Int
    BY <1>2 DEF Event
  <1> QED
    BY <1>2, <1>3 DEF IdSlot

\* What a tick posts for a slot: an event carrying the id of the slot's timer.
LEMMA TimerEventType ==
    ASSUME TypeOK, NEW i \in Slot
    PROVE  /\ TimerEvent(i) \in Event
           /\ TimerEvent(i).type = "TIMER"
           /\ IdSlot(TimerEvent(i).a) = i
  <1>1. timers[i].gen \in 0 .. GenMod - 1
    BY DEF TypeOK, Timer
  <1>2. MakeId(i, timers[i].gen) \in Nat /\ IdSlot(MakeId(i, timers[i].gen)) = i
    BY <1>1, IdRoundTrip
  <1> QED
    BY <1>2 DEF TimerEvent, LiveId, Event

\* The queue survives the ai_event_init inside every ai_timer_create.
LEMMA ReinitKeepsQueue ==
    ASSUME TypeOK, PendingTimers
    PROVE  QueueAfterInit = queue
  BY DEF QueueAfterInit, PendingTimers

-----------------------------------------------------------------------------
(* Initially, and at every step.                                           *)

LEMMA InitInv == Init => IInv
  <1> SUFFICES ASSUME Init PROVE IInv
    OBVIOUS
  <1>1. TypeOK
    BY CoreAssumption DEF Init, TypeOK, Timer, NoEvent, Slot
  <1>2. RunningTimers /\ PendingTimers /\ DeadIdsOlder
    BY DEF Init, RunningTimers, PendingTimers, DeadIdsOlder, Dead, IsTimerEvent
  <1> QED
    BY <1>1, <1>2 DEF IInv

LEMMA CreateInv == ASSUME IInv, NEW iv \in Intervals, NEW repeat \in BOOLEAN, Create(iv, repeat)
                   PROVE  IInv'
  <1> USE DEF IInv
  <1>1. PICK i \in Slot :
          /\ FirstFree(i)
          /\ timers' = [timers EXCEPT ![i] =
                 [used |-> TRUE, repeat |-> repeat, gen |-> NextGen(@.gen),
                  interval |-> iv, due |-> now + iv]]
          /\ wrapped' = IF Wraps(timers[i].gen) THEN wrapped \cup {i} ELSE wrapped
    BY DEF Create
  <1>2. iv \in Nat /\ iv > 0 /\ pc # "scan"
    BY CoreAssumption DEF Create, ValidInterval, Calling
  <1>3. queue' = queue /\ ready' = TRUE
    BY ReinitKeepsQueue DEF Create
  <1>4. /\ ~timers[i].used
        /\ timers[i].gen \in 0 .. GenMod - 1
        /\ NextGen(timers[i].gen) \in 1 .. GenMod - 1
        /\ ~Wraps(timers[i].gen) => NextGen(timers[i].gen) = timers[i].gen + 1
    BY <1>1, NextGenRange DEF FirstFree, TypeOK, Timer
  <1>5. TypeOK'
    <2>1. timers' \in [Slot -> Timer]
      <3>1. now + iv \in Nat
        BY <1>2 DEF TypeOK
      <3> QED
        BY <1>1, <1>2, <1>4, <3>1 DEF TypeOK, Timer
    <2>2. UNCHANGED <<queue, now, pc, slot, tnow, ev, cancelled, fired>> /\ ready' = TRUE
      BY <1>3 DEF Create, loopVars
    <2>3. wrapped' \subseteq Slot
      BY <1>1 DEF TypeOK
    <2> QED
      BY <2>1, <2>2, <2>3 DEF TypeOK
  <1>6. RunningTimers'
    BY <1>1, <1>2, <1>4 DEF RunningTimers, TypeOK, Timer, Create, loopVars
  <1>7. PendingTimers'
    BY <1>3 DEF PendingTimers, IsTimerEvent, Create, loopVars
  <1>8. DeadIdsOlder'
    <2> SUFFICES ASSUME NEW id \in Dead, IdSlot(id) \notin wrapped'
                 PROVE  /\ IdSlot(id) \in Slot
                        /\ \/ IdGen(id) < timers'[IdSlot(id)].gen
                           \/ /\ IdGen(id) = timers'[IdSlot(id)].gen
                              /\ ~timers'[IdSlot(id)].used
      BY DEF DeadIdsOlder, Dead, Create
    <2>1. IdGen(id) \in Int
      BY DEF Dead, TypeOK, IdGen
    <2> QED
      BY <1>1, <1>4, <2>1 DEF DeadIdsOlder, TypeOK, Timer
  <1> QED
    BY <1>5, <1>6, <1>7, <1>8

LEMMA CancelInv == ASSUME IInv, NEW id \in Live \cup Dead, Cancel(id)
                   PROVE  IInv'
  <1> USE DEF IInv
  <1>1. id \in Nat
    <2>1. \A i \in Slot : LiveId(i) \in Nat
      BY IdRoundTrip DEF LiveId, TypeOK, Timer
    <2> QED
      BY <2>1 DEF Live, Dead, TypeOK
  <1>2. IdSlot(id) \in Slot
    BY <1>1, CoreAssumption, SMT DEF Cancel, Decodes, IdSlot, Slot
  <1>3. TypeOK'
    BY <1>1, <1>2 DEF TypeOK, Timer, Cancel, Updated, loopVars
  <1>4. RunningTimers'
    BY <1>2 DEF RunningTimers, TypeOK, Timer, Cancel, Updated, loopVars
  <1>5. PendingTimers'
    BY DEF PendingTimers, IsTimerEvent, Cancel, loopVars
  <1>6. DeadIdsOlder'
    BY <1>2 DEF DeadIdsOlder, Dead, TypeOK, Timer, Cancel, Updated
  <1> QED
    BY <1>3, <1>4, <1>5, <1>6

LEMMA CancelAllInv == ASSUME IInv, CancelAll PROVE IInv'
  <1> USE DEF IInv
  <1>1. \A i \in Slot :
          /\ timers[i].gen \in 0 .. GenMod - 1
          /\ NextGen(timers[i].gen) \in 1 .. GenMod - 1
          /\ ~Wraps(timers[i].gen) => NextGen(timers[i].gen) = timers[i].gen + 1
          /\ LiveId(i) \in Nat
          /\ IdSlot(LiveId(i)) = i
          /\ IdGen(LiveId(i)) = timers[i].gen
    BY NextGenRange, IdRoundTrip DEF LiveId, TypeOK, Timer
  <1>2. /\ timers' \in [Slot -> Timer]
        /\ \A i \in Slot :
              /\ ~timers'[i].used
              /\ timers'[i].gen = IF timers[i].used THEN NextGen(timers[i].gen) ELSE timers[i].gen
    <2>1. timers' = [i \in Slot |->
             IF timers[i].used
             THEN [used |-> FALSE, repeat |-> timers[i].repeat, gen |-> NextGen(timers[i].gen),
                   interval |-> timers[i].interval, due |-> timers[i].due]
             ELSE timers[i]]
      BY DEF CancelAll, Updated
    <2> QED
      BY <1>1, <2>1 DEF TypeOK, Timer
  <1>3. Live \subseteq Nat
    BY <1>1 DEF Live
  <1>4. TypeOK'
    BY <1>2, <1>3 DEF TypeOK, CancelAll, loopVars
  <1>5. RunningTimers'
    BY <1>2 DEF RunningTimers
  <1>6. PendingTimers'
    BY DEF PendingTimers, IsTimerEvent, CancelAll, loopVars
  <1>7. DeadIdsOlder'
    <2> SUFFICES ASSUME NEW id \in Dead'
                 PROVE  /\ IdSlot(id) \in Slot
                        /\ IdSlot(id) \notin wrapped' =>
                              \/ IdGen(id) < timers'[IdSlot(id)].gen
                              \/ /\ IdGen(id) = timers'[IdSlot(id)].gen
                                 /\ ~timers'[IdSlot(id)].used
      BY DEF DeadIdsOlder, Dead
    <2>1. IdGen(id) \in Int
      BY <1>4 DEF Dead, TypeOK, IdGen
    <2>2. CASE id \in Dead
      <3>1. IdSlot(id) \notin wrapped' => IdSlot(id) \notin wrapped
        BY DEF CancelAll
      <3>2. IdSlot(id) \in Slot /\ IdSlot(id) \notin wrapped' =>
               ~(timers[IdSlot(id)].used /\ Wraps(timers[IdSlot(id)].gen))
        BY DEF CancelAll
      <3> QED
        BY <1>1, <1>2, <2>1, <2>2, <3>1, <3>2 DEF DeadIdsOlder
    <2>3. CASE id \in Live
      <3>1. PICK i \in Slot : timers[i].used /\ id = LiveId(i)
        BY <2>3 DEF Live
      <3>2. i \notin wrapped' => ~Wraps(timers[i].gen)
        BY <3>1 DEF CancelAll
      <3> QED
        BY <1>1, <1>2, <3>1, <3>2
    <2> QED
      BY <2>2, <2>3 DEF Dead, CancelAll
  <1> QED
    BY <1>4, <1>5, <1>6, <1>7

LEMMA PostInv == ASSUME IInv, NEW e \in Signals, Post(e) PROVE IInv'
  <1> USE DEF IInv
  <1>1. e \in Event /\ e.type # "TIMER"
    BY CoreAssumption
  <1>s. /\ Send(e) \in Seq(Event) /\ Len(Send(e)) <= QueueDepth
        /\ ~ready => Send(e) = queue
        /\ \A k \in DOMAIN Send(e) :
              \/ k \in DOMAIN queue /\ Send(e)[k] = queue[k]
              \/ Send(e)[k] = e /\ k = Len(queue) + 1
    BY <1>1, SendAppends
  <1>2. TypeOK'
    BY <1>s DEF TypeOK, Post, loopVars, history
  <1>3. RunningTimers'
    BY DEF RunningTimers, Post, loopVars
  <1>4. PendingTimers'
    <2>1. \A k \in DOMAIN queue' : IsTimerEvent(k)' => IsTimerEvent(k) /\ queue'[k] = queue[k]
      BY <1>1, <1>s DEF IsTimerEvent, Post
    <2> QED
      BY <1>s, <2>1 DEF PendingTimers, IsTimerEvent, Post, loopVars
  <1>5. DeadIdsOlder'
    BY DEF DeadIdsOlder, Dead, Post, history
  <1> QED
    BY <1>2, <1>3, <1>4, <1>5

LEMMA ExpireInv == ASSUME IInv, Expire PROVE IInv'
  <1> USE DEF IInv
  <1> DEFINE e == TimerEvent(slot)
  <1>1. slot \in Slot /\ slot \in Nat /\ pc = "scan" /\ pc' = "scan" /\ slot' = slot + 1
    BY CoreAssumption DEF TypeOK, Expire, Slot
  <1>2. /\ timers[slot].used /\ timers[slot].repeat \in BOOLEAN
        /\ timers[slot].gen \in 0 .. GenMod - 1
        /\ timers[slot].interval \in Nat /\ timers[slot].interval > 0
        /\ timers[slot].due \in Nat /\ tnow >= timers[slot].due
        /\ tnow \in Nat /\ now \in Nat /\ tnow <= now
    BY <1>1 DEF TypeOK, Timer, RunningTimers, Expire, IsDue
  <1> DEFINE due == CatchUp(timers[slot].due, timers[slot].interval, tnow)
  <1>3. due \in Nat /\ tnow < due /\ due <= tnow + timers[slot].interval
    BY <1>2, CatchUpBounds
  <1>4. /\ LiveId(slot) \in Nat
        /\ IdSlot(LiveId(slot)) = slot
        /\ IdGen(LiveId(slot)) = timers[slot].gen
    BY <1>1, <1>2, IdRoundTrip DEF LiveId
  <1>5. e \in Event /\ e.type = "TIMER" /\ IdSlot(e.a) = slot
    BY <1>1, TimerEventType
  <1>s. /\ Send(e) \in Seq(Event) /\ Len(Send(e)) <= QueueDepth
        /\ ~ready => Send(e) = queue
        /\ \A k \in DOMAIN Send(e) :
              \/ k \in DOMAIN queue /\ Send(e)[k] = queue[k]
              \/ Send(e)[k] = e /\ k = Len(queue) + 1
    BY <1>5, SendAppends
  <1>f. timers' = [timers EXCEPT ![slot] =
            IF timers[slot].repeat
            THEN [used |-> TRUE, repeat |-> TRUE, gen |-> timers[slot].gen,
                  interval |-> timers[slot].interval, due |-> due]
            ELSE [used |-> FALSE, repeat |-> FALSE, gen |-> timers[slot].gen,
                  interval |-> timers[slot].interval, due |-> timers[slot].due]]
    BY <1>1, <1>2 DEF TypeOK, Timer, Expire, Updated
  <1>6. /\ timers' \in [Slot -> Timer]
        /\ \A i \in Slot : i # slot => timers'[i] = timers[i]
        /\ timers'[slot].used = timers[slot].repeat
        /\ timers'[slot].gen = timers[slot].gen
        /\ timers'[slot].interval = timers[slot].interval
        /\ timers[slot].repeat => timers'[slot].due = due
    BY <1>1, <1>2, <1>3, <1>f DEF TypeOK, Timer
  <1>q. queue' = Send(e) /\ UNCHANGED <<ready, now, tnow, ev, cancelled, wrapped>>
    BY DEF Expire
  <1> HIDE DEF e
  <1>7. TypeOK'
    <2>1. fired' \subseteq Nat
      BY <1>4 DEF Expire, TypeOK
    <2>2. slot' \in 0 .. TimerMax
      BY <1>1, CoreAssumption DEF Slot
    <2> QED
      BY <1>1, <1>s, <1>q, <1>6, <2>1, <2>2 DEF TypeOK
  <1>8. RunningTimers'
    BY <1>1, <1>2, <1>3, <1>6 DEF RunningTimers, Expire, Slot
  <1>9. PendingTimers'
    <2>1. /\ Len(queue) \in Nat
          /\ \A k \in DOMAIN queue : /\ IdSlot(queue[k].a) \in Int
                                     /\ k \in Nat /\ k <= Len(queue)
      BY QueuedEvents DEF TypeOK
    <2>2. \A k \in DOMAIN queue : IsTimerEvent(k) => IdSlot(queue[k].a) < slot
      BY <1>1 DEF PendingTimers
    <2>3. \A k \in DOMAIN queue' :
             \/ k \in DOMAIN queue /\ queue'[k] = queue[k]
             \/ queue'[k] = e /\ k = Len(queue) + 1
      BY <1>s, <1>q
    <2>4. /\ ready'
          /\ \A k \in DOMAIN queue' : IsTimerEvent(k)' => IdSlot(queue'[k].a) < slot'
      BY <1>1, <1>5, <1>s, <1>q, <2>1, <2>2, <2>3 DEF PendingTimers, IsTimerEvent
    <2>5. ASSUME NEW k \in DOMAIN queue', NEW l \in DOMAIN queue',
                 IsTimerEvent(k)', IsTimerEvent(l)', k < l
          PROVE  IdSlot(queue'[k].a) < IdSlot(queue'[l].a)
      <3>1. k \in DOMAIN queue /\ queue'[k] = queue[k] /\ IsTimerEvent(k)
        BY <2>1, <2>3, <2>5 DEF IsTimerEvent
      <3>2. CASE l \in DOMAIN queue /\ queue'[l] = queue[l]
        BY <2>5, <3>1, <3>2 DEF PendingTimers, IsTimerEvent
      <3>3. CASE queue'[l] = e
        BY <1>5, <2>2, <3>1, <3>3
      <3> QED
        BY <2>3, <3>2, <3>3
    <2> QED
      BY <1>1, <2>4, <2>5 DEF PendingTimers
  <1>10. DeadIdsOlder'
    <2>1. \A id \in Dead' : id \in Dead \/ (id = LiveId(slot) /\ ~timers[slot].repeat)
      <3>1. CASE timers[slot].repeat
        <4>1. fired' = fired /\ cancelled' = cancelled
          BY <3>1 DEF Expire
        <4> QED
          BY <4>1 DEF Dead
      <3>2. CASE ~timers[slot].repeat
        <4>1. fired' = fired \cup {LiveId(slot)} /\ cancelled' = cancelled
          BY <3>2 DEF Expire
        <4> QED
          BY <3>2, <4>1 DEF Dead
      <3> QED
        BY <3>1, <3>2
    <2>2. \A id \in Dead' : IdGen(id) \in Int
      BY <1>7 DEF Dead, TypeOK, IdGen
    <2>3. wrapped' = wrapped
      BY DEF Expire
    <2> QED
      <3> SUFFICES ASSUME NEW id \in Dead'
                   PROVE  /\ IdSlot(id) \in Slot
                          /\ IdSlot(id) \notin wrapped =>
                                \/ IdGen(id) < timers'[IdSlot(id)].gen
                                \/ /\ IdGen(id) = timers'[IdSlot(id)].gen
                                   /\ ~timers'[IdSlot(id)].used
        BY <2>3 DEF DeadIdsOlder, Dead
      <3>1. CASE id = LiveId(slot) /\ ~timers[slot].repeat
        BY <1>1, <1>4, <1>6, <3>1
      <3>2. CASE id \in Dead /\ IdSlot(id) # slot
        BY <1>6, <3>2 DEF DeadIdsOlder
      <3>3. CASE id \in Dead /\ IdSlot(id) = slot
        BY <1>1, <1>2, <1>6, <3>3 DEF DeadIdsOlder
      <3> QED
        BY <2>1, <3>1, <3>2, <3>3
  <1> QED
    BY <1>7, <1>8, <1>9, <1>10

LEMMA DeliverInv == ASSUME IInv, Deliver PROVE IInv'
  <1> USE DEF IInv
  <1>1. /\ queue' = Tail(queue) /\ queue # <<>> /\ Len(queue) \in Nat /\ ready' = ready
        /\ pc = "drain" /\ pc' = "handle" /\ queue \in Seq(Event)
    BY DEF Deliver, TypeOK
  <1>t. Head(queue) \in Event /\ Tail(queue) \in Seq(Event) /\ Len(Tail(queue)) = Len(queue) - 1
    BY <1>1
  <1>2. TypeOK'
    <2>1. ev' \in Event \cup {NoEvent} /\ queue' \in Seq(Event) /\ Len(queue') <= QueueDepth
      BY <1>1, <1>t, CoreAssumption DEF TypeOK, Deliver
    <2> QED
      BY <2>1 DEF TypeOK, Deliver, history
  <1>3. RunningTimers'
    BY DEF RunningTimers, Deliver
  <1>4. PendingTimers'
    <2>1. \A k \in DOMAIN queue' : k \in Nat /\ k + 1 \in DOMAIN queue /\ queue'[k] = queue[k + 1]
      BY <1>1
    <2>2. ready
      BY <1>1 DEF PendingTimers
    <2> QED
      BY <1>1, <2>1, <2>2 DEF PendingTimers, IsTimerEvent
  <1>5. DeadIdsOlder'
    BY DEF DeadIdsOlder, Dead, Deliver, history
  <1> QED
    BY <1>2, <1>3, <1>4, <1>5

LEMMA SkipInv == ASSUME IInv, Skip PROVE IInv'
  <1> USE DEF IInv
  <1>1. slot \in Slot /\ slot' = slot + 1
    BY CoreAssumption DEF TypeOK, Skip, Slot
  <1>s. slot' \in 0 .. TimerMax
    BY <1>1, CoreAssumption DEF Slot
  <1>2. TypeOK'
    BY <1>s DEF TypeOK, Skip, history
  <1>3. RunningTimers'
    BY <1>1 DEF RunningTimers, Skip, IsDue, TypeOK, Timer, Slot
  <1>4. PendingTimers'
    <2>1. \A k \in DOMAIN queue : IdSlot(queue[k].a) \in Int
      BY QueuedEvents
    <2> QED
      BY <1>1, <2>1 DEF PendingTimers, IsTimerEvent, Skip, Slot
  <1>5. DeadIdsOlder'
    BY DEF DeadIdsOlder, Dead, Skip, history
  <1> QED
    BY <1>2, <1>3, <1>4, <1>5

\* The steps that leave timers and history alone.
LEMMA ControlInv ==
    ASSUME IInv,
           \/ EventInit \/ (\E iv \in Intervals : CreateNoSlot(iv)) \/ BeginTick \/ TickDone
           \/ HandlerReturns \/ Drained \/ PumpReturns \/ Clock \/ UNCHANGED vars
    PROVE  IInv'
  <1> USE DEF IInv
  <1>1. CASE EventInit
    BY <1>1, ReinitKeepsQueue DEF EventInit, TypeOK, RunningTimers, PendingTimers, IsTimerEvent,
          DeadIdsOlder, Dead, loopVars, history
  <1>2. ASSUME NEW iv \in Intervals, CreateNoSlot(iv) PROVE IInv'
    BY <1>2, ReinitKeepsQueue DEF CreateNoSlot, TypeOK, RunningTimers, PendingTimers,
          IsTimerEvent, DeadIdsOlder, Dead, loopVars, history
  <1>3. CASE BeginTick
    <2>1. TypeOK'
      BY <1>3, CoreAssumption DEF BeginTick, TypeOK, history
    <2>2. PendingTimers'
      BY <1>3 DEF BeginTick, PendingTimers, IsTimerEvent
    <2>3. RunningTimers'
      BY <1>3 DEF BeginTick, RunningTimers, TypeOK, Timer, Slot
    <2> QED
      BY <1>3, <2>1, <2>2, <2>3 DEF BeginTick, DeadIdsOlder, Dead, history
  <1>4. CASE TickDone
    BY <1>4 DEF TickDone, TypeOK, RunningTimers, PendingTimers, IsTimerEvent,
          DeadIdsOlder, Dead, history, Slot
  <1>5. CASE HandlerReturns
    BY <1>5 DEF HandlerReturns, AfterHandler, TypeOK, RunningTimers, PendingTimers,
          IsTimerEvent, DeadIdsOlder, Dead, history
  <1>6. CASE Drained
    BY <1>6 DEF Drained, TypeOK, RunningTimers, PendingTimers, IsTimerEvent,
          DeadIdsOlder, Dead, history
  <1>7. CASE PumpReturns
    BY <1>7 DEF PumpReturns, TypeOK, RunningTimers, PendingTimers, IsTimerEvent,
          DeadIdsOlder, Dead, history
  <1>8. CASE Clock
    <2>1. TypeOK' /\ PendingTimers' /\ DeadIdsOlder'
      BY <1>8 DEF Clock, TypeOK, PendingTimers, IsTimerEvent, DeadIdsOlder, Dead,
            loopVars, history
    <2>2. RunningTimers'
      BY <1>8 DEF Clock, RunningTimers, TypeOK, Timer, loopVars
    <2> QED
      BY <2>1, <2>2
  <1>9. CASE UNCHANGED vars
    BY <1>9 DEF vars, TypeOK, RunningTimers, PendingTimers, IsTimerEvent, DeadIdsOlder,
          Dead, loopVars, history
  <1> QED
    BY <1>1, <1>2, <1>3, <1>4, <1>5, <1>6, <1>7, <1>8, <1>9

LEMMA NextInv == IInv /\ [Next]_vars => IInv'
  <1> SUFFICES ASSUME IInv, [Next]_vars PROVE IInv'
    OBVIOUS
  <1>1. ASSUME NEW e \in Signals, Post(e) PROVE IInv'
    BY <1>1, PostInv
  <1>2. ASSUME NEW iv \in Intervals, NEW repeat \in BOOLEAN, Create(iv, repeat) PROVE IInv'
    BY <1>2, CreateInv
  <1>3. ASSUME NEW id \in Live \cup Dead, Cancel(id) PROVE IInv'
    BY <1>3, CancelInv
  <1>4. CASE CancelAll
    BY <1>4, CancelAllInv
  <1>5. CASE Skip
    BY <1>5, SkipInv
  <1>6. CASE Expire
    BY <1>6, ExpireInv
  <1>7. CASE Deliver
    BY <1>7, DeliverInv
  <1>8. CASE \/ EventInit \/ (\E iv \in Intervals : CreateNoSlot(iv)) \/ BeginTick \/ TickDone
            \/ HandlerReturns \/ Drained \/ PumpReturns \/ Clock \/ UNCHANGED vars
    BY <1>8, ControlInv
  <1> QED
    BY <1>1, <1>2, <1>3, <1>4, <1>5, <1>6, <1>7, <1>8 DEF Next, LoopStep

LEMMA AlwaysIInv == Spec => []IInv
  BY InitInv, NextInv, PTL DEF Spec

-----------------------------------------------------------------------------
(* What the invariant gives.                                               *)

\* Type correctness of the queue, the timers and the loop.
THEOREM TypeCorrect == Spec => []TypeOK
  <1>1. IInv => TypeOK
    BY DEF IInv
  <1> QED
    BY <1>1, AlwaysIInv, PTL

\* No burst and no skipped period after a late tick, whatever the lateness.
THEOREM TimersStayAhead == Spec => []ScannedTimersAhead
  <1>1. IInv => ScannedTimersAhead
    BY DEF IInv, RunningTimers, ScannedTimersAhead
  <1> QED
    BY <1>1, AlwaysIInv, PTL

\* At most one pending expiration per slot, for every queue depth.
THEOREM OnePending == Spec => []OnePendingPerSlot
  <1>1. IInv => OnePendingPerSlot
    <2> SUFFICES ASSUME IInv, NEW i \in Slot, NEW k \in TimerEventsOf(i), NEW l \in TimerEventsOf(i)
                 PROVE  k = l
      BY DEF OnePendingPerSlot
    <2>1. k \in DOMAIN queue /\ l \in DOMAIN queue /\ k \in Nat /\ l \in Nat
      BY DEF TimerEventsOf, IInv, TypeOK
    <2>2. IdSlot(queue[k].a) = i /\ IdSlot(queue[l].a) = i /\ i \in Int
      BY DEF TimerEventsOf, Slot
    <2>3. IsTimerEvent(k) /\ IsTimerEvent(l)
      BY <2>1 DEF TimerEventsOf, IsTimerEvent
    <2>4. ~(k < l) /\ ~(l < k)
      BY <2>1, <2>2, <2>3 DEF IInv, PendingTimers
    <2> QED
      BY <2>1, <2>4
  <1> QED
    BY <1>1, AlwaysIInv, PTL

\* No live timer answers to a dead id until its slot's generation goes round,
\* for every number of generations.
THEOREM StaleIdsAreSafe == Spec => []StaleIdSafe
  <1>1. IInv => StaleIdSafe
    <2> SUFFICES ASSUME IInv, NEW id \in Live, id \in Dead, IdSlot(id) \notin wrapped
                 PROVE  FALSE
      BY DEF StaleIdSafe
    <2>1. PICK i \in Slot : timers[i].used /\ id = LiveId(i)
      BY DEF Live
    <2>2. timers[i].gen \in 0 .. GenMod - 1
      BY DEF IInv, TypeOK, Timer
    <2>3. IdSlot(id) = i /\ IdGen(id) = timers[i].gen
      BY <2>1, <2>2, IdRoundTrip DEF LiveId
    <2> QED
      BY <2>1, <2>2, <2>3 DEF IInv, DeadIdsOlder
  <1> QED
    BY <1>1, AlwaysIInv, PTL

\* Every live timer can be cancelled through the id its creator was given.
THEOREM LiveIdsDecode == Spec => []LiveTimersCancellable
  <1>1. IInv => LiveTimersCancellable
    <2> SUFFICES ASSUME IInv, NEW i \in Slot, timers[i].used
                 PROVE  /\ Decodes(LiveId(i)) /\ IdSlot(LiveId(i)) = i
                        /\ IdGen(LiveId(i)) = timers[i].gen
      BY DEF LiveTimersCancellable
    <2>1. timers[i].gen \in 0 .. GenMod - 1 /\ timers[i].gen > 0
      BY DEF IInv, TypeOK, Timer, RunningTimers
    <2> QED
      BY <2>1, IdRoundTrip DEF LiveId
  <1> QED
    BY <1>1, AlwaysIInv, PTL

\* A repeating timer never drifts: its due time moves by whole intervals.
THEOREM TimersNeverDrift == Spec => NoDrift
  <1> DEFINE Kept(i) == timers[i].used /\ timers'[i].used =>
                 /\ timers'[i].interval = timers[i].interval
                 /\ (timers'[i].due - timers[i].due) % timers[i].interval = 0
  <1>1. ASSUME IInv, Next PROVE \A i \in Slot : Kept(i)
    <2> SUFFICES ASSUME NEW i \in Slot, timers[i].used, timers'[i].used
                 PROVE  /\ timers'[i].interval = timers[i].interval
                        /\ (timers'[i].due - timers[i].due) % timers[i].interval = 0
      OBVIOUS
    <2>1. /\ timers[i].interval \in Nat /\ timers[i].interval > 0
          /\ timers[i].due \in Nat
          /\ timers \in [Slot -> Timer] /\ tnow \in Nat
      BY <1>1 DEF IInv, TypeOK, Timer, RunningTimers
    <2>2. CASE timers'[i] = timers[i]
      BY <2>1, <2>2, SMT
    <2>3. ASSUME NEW iv \in Intervals, NEW repeat \in BOOLEAN, Create(iv, repeat)
          PROVE  timers'[i] = timers[i]
      BY <2>1, <2>3 DEF Create, FirstFree
    <2>4. ASSUME NEW id \in Live \cup Dead, Cancel(id)
          PROVE  timers'[i] = timers[i]
      BY <2>1, <2>4 DEF Cancel, Updated
    <2>5. ~CancelAll
      BY DEF CancelAll, Updated
    <2>6. CASE Expire
      <3>1. CASE i # slot
        BY <2>1, <2>2, <2>6, <3>1 DEF Expire
      <3>2. CASE i = slot
        <4>1. timers'[i] = Updated(timers[i], TRUE, timers[i].gen,
                              CatchUp(timers[i].due, timers[i].interval, tnow))
          <5>1. timers[i].repeat
            <6>1. CASE ~timers[i].repeat
              BY <2>1, <2>6, <3>2, <6>1 DEF Expire, Updated
            <6> QED
              BY <6>1
          <5> QED
            BY <2>1, <2>6, <3>2, <5>1 DEF Expire
        <4>2. tnow >= timers[i].due
          BY <2>6, <3>2 DEF Expire, IsDue
        <4> QED
          BY <2>1, <4>1, <4>2, CatchUpBounds DEF Updated
      <3> QED
        BY <3>1, <3>2
    <2>7. CASE UNCHANGED timers
      BY <2>2, <2>7
    <2> QED
      BY <1>1, <2>2, <2>3, <2>4, <2>5, <2>6, <2>7
         DEF Next, LoopStep, EventInit, Post, CreateNoSlot, BeginTick, Skip, TickDone,
             Deliver, HandlerReturns, Drained, PumpReturns, Clock
  <1>2. IInv /\ [Next]_vars => [\A i \in Slot : Kept(i)]_vars
    BY <1>1
  <1> QED
    BY <1>2, AlwaysIInv, PTL DEF Spec, NoDrift

\* An expiration is lost only while more than QueueDepth - TimerMax events of
\* other tasks are pending: the slots scanned so far have at most one each.
THEOREM ExpirationsLostOnlyInStorm == Spec => DropOnlyInStorm
  <1>1. ASSUME IInv, Expire, queue' = queue
        PROVE  Cardinality(SignalsQueued) > QueueDepth - TimerMax
    <2> DEFINE D == 1 .. Len(queue)
               T == {k \in D : queue[k].type = "TIMER"}
               f == [k \in T |-> IdSlot(queue[k].a)]
    <2>0. /\ Len(queue) \in Nat /\ Len(queue) <= QueueDepth
          /\ slot \in Nat /\ slot < TimerMax
      BY <1>1 DEF IInv, TypeOK, Expire
    <2>1. queue \in Seq(Event) /\ DOMAIN queue = D
      BY <1>1 DEF IInv, TypeOK
    <2>2. Len(queue) = QueueDepth
      <3>1. ready
        BY <1>1 DEF IInv, PendingTimers, Expire, TypeOK
      <3>2. ASSUME Len(queue) < QueueDepth PROVE FALSE
        <4>1. queue = Append(queue, TimerEvent(slot))
          BY <1>1, <3>1, <3>2 DEF Expire, Send
        <4>2. Len(Append(queue, TimerEvent(slot))) = Len(queue) + 1
          BY <2>1
        <4> QED
          BY <2>0, <4>1, <4>2
      <3> QED
        BY <2>0, <3>2, CoreAssumption
    <2>3. \A k \in T : IdSlot(queue[k].a) \in 0 .. slot - 1
      <3> SUFFICES ASSUME NEW k \in T PROVE IdSlot(queue[k].a) \in 0 .. slot - 1
        OBVIOUS
      <3>1. k \in DOMAIN queue /\ IsTimerEvent(k)
        BY <2>1 DEF IsTimerEvent
      <3>2. TypeOK
        BY <1>1 DEF IInv
      <3>3. IdSlot(queue[k].a) \in 0 .. 255
        BY <3>1, <3>2, QueuedEvents
      <3>4. IdSlot(queue[k].a) < slot
        BY <1>1, <3>1 DEF IInv, PendingTimers, Expire
      <3>5. \A n \in 0 .. 255 : n < slot => n \in 0 .. slot - 1
        BY <2>0
      <3> QED
        BY <3>3, <3>4, <3>5, Zenon
    <2>4. \A k, l \in T : IdSlot(queue[k].a) = IdSlot(queue[l].a) => k = l
      <3> SUFFICES ASSUME NEW k \in T, NEW l \in T, IdSlot(queue[k].a) = IdSlot(queue[l].a)
                   PROVE  k = l
        OBVIOUS
      <3>1. IsTimerEvent(k) /\ IsTimerEvent(l) /\ k \in DOMAIN queue /\ l \in DOMAIN queue
        BY <2>1 DEF IsTimerEvent
      <3>2. IdSlot(queue[k].a) \in Int /\ IdSlot(queue[l].a) \in Int
        BY <2>1, <2>3
      <3>3. ~(k < l) /\ ~(l < k)
        BY <1>1, <3>1, <3>2 DEF IInv, PendingTimers
      <3> QED
        BY <2>0, <2>1, <3>3
    <2>5. f \in Injection(T, 0 .. slot - 1)
      BY <2>3, <2>4 DEF Injection, IsInjective
    <2>6. /\ IsFiniteSet(0 .. slot - 1) /\ Cardinality(0 .. slot - 1) = slot
          /\ IsFiniteSet(D) /\ Cardinality(D) = Len(queue)
      <3>1. slot - 1 \in Int /\ Len(queue) \in Int
        BY <2>0
      <3>2. Cardinality(0 .. slot - 1) = IF 0 > slot - 1 THEN 0 ELSE slot - 1 - 0 + 1
        BY <3>1, FS_Interval
      <3>3. Cardinality(D) = IF 1 > Len(queue) THEN 0 ELSE Len(queue) - 1 + 1
        BY <3>1, FS_Interval
      <3>4. IsFiniteSet(0 .. slot - 1) /\ IsFiniteSet(D)
        BY <3>1, FS_Interval
      <3> QED
        BY <2>0, <3>2, <3>3, <3>4
    <2>7. Cardinality(T) <= slot
      BY <2>5, <2>6, FS_Injection
    <2>8. SignalsQueued = D \ T /\ D \cap T = T
      BY <2>1 DEF SignalsQueued
    <2>9. Cardinality(D \ T) = Cardinality(D) - Cardinality(T)
      <3>1. Cardinality(D \ T) = Cardinality(D) - Cardinality(D \cap T)
        BY <2>6, FS_Difference
      <3> QED
        BY <2>8, <3>1
    <2>10. Cardinality(T) \in Nat
      BY <2>6, FS_Subset, FS_CardinalityType
    <2> QED
      BY <2>0, <2>2, <2>6, <2>7, <2>8, <2>9, <2>10, CoreAssumption
  <1>2. IInv /\ [Next]_vars
          => [Expire /\ queue' = queue => Cardinality(SignalsQueued) > QueueDepth - TimerMax]_vars
    BY <1>1
  <1> QED
    BY <1>2, AlwaysIInv, PTL DEF Spec, DropOnlyInStorm
=============================================================================
