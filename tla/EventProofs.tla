---------------------------- MODULE EventProofs ----------------------------
(***************************************************************************)
(* Proofs about Event, for any number of threads, interrupt handlers,      *)
(* CPUs and events: no thread sleeps on a pending event, no wakeup is lost *)
(* and no listener outlives its wait.                                      *)
(*                                                                         *)
(* None of the three is inductive.  They rest on what the locks protect: a *)
(* thread in lock_events owns the locks of the prefix it has taken, hence  *)
(* a thread that gets past it names no event twice; a trigger owns its     *)
(* event's lock, hence the listeners it has still to visit do not change,  *)
(* and the ones it has visited are back on the run queue.                  *)
(***************************************************************************)
EXTENDS Event, TLAPS

Distinct(seq) == \A i, j \in DOMAIN seq : seq[i] = seq[j] => i = j

LockInv ==
  \A t \in Threads :
    /\ held[t] <= Len(args[t])
    /\ pc[t] \notin {"lock", "relock"} => held[t] = 0
    /\ \A i \in 1 .. held[t] : lock[args[t][i]] = t
    /\ \A i, j \in 1 .. held[t] : args[t][i] = args[t][j] => i = j
    /\ pc[t] \in {"sleep", "resumed", "relock"} => Distinct(args[t])

\* An event_trigger under way has the lock of its event, and every listener is
\* still to be visited, awake or about to be enqueued.
TriggerInv ==
  \A a \in Actors : pc[a] \in {"wake", "enqueue"} =>
    /\ trg[a] \in Events
    /\ lock[trg[a]] = a
    /\ pc[a] = "enqueue" => hand[a] \in Threads
    /\ \A l \in listeners[trg[a]] :
         \/ l \in todo[a]
         \/ enqueued[l.thread]
         \/ pc[l.thread] # "sleep"
         \/ pc[a] = "enqueue" /\ hand[a] = l.thread

IInv ==
  /\ TypeOK
  /\ LockInv
  /\ TriggerInv
  /\ NoSleepOnPending
  /\ ListenersLive
  /\ SleeperListed

-----------------------------------------------------------------------------

\* Nothing is locked, pending or listed at first.
LEMMA InitIInv == Init => IInv
<1> SUFFICES ASSUME Init PROVE IInv
  OBVIOUS
<1> USE EventAssumption DEF Init, Actors
<1>1. TypeOK
  <2>1. \A a \in Irqs : pc[a] = "run"
    OBVIOUS
  <2>2. args \in [Threads -> Seq(Events)]
    OBVIOUS
  <2>3. listeners \in [Events -> SUBSET Listeners] /\ todo \in [Actors -> SUBSET Listeners]
    OBVIOUS
  <2> QED
    BY <2>1, <2>2, <2>3 DEF TypeOK, NoIndex
<1>2. LockInv
  BY DEF LockInv
<1>3. TriggerInv
  BY DEF TriggerInv
<1>4. NoSleepOnPending /\ ListenersLive /\ SleeperListed
  BY DEF NoSleepOnPending, ListenersLive, SleeperListed
<1> QED
  BY <1>1, <1>2, <1>3, <1>4 DEF IInv

\* Every step keeps the types.
LEMMA TypeStep == TypeOK /\ [Next]_vars => TypeOK'
<1> SUFFICES ASSUME TypeOK, [Next]_vars PROVE TypeOK'
  OBVIOUS
<1> USE EventAssumption DEF TypeOK, Actors, evars, tvars, awaitvars, trgvars
<1>1. ASSUME NEW t \in Threads, NEW events \in Awaits, AwaitBegin(t, events)
      PROVE  TypeOK'
  BY SMTT(60), <1>1 DEF AwaitBegin, Goto
<1>2. ASSUME NEW t \in Threads, LockEvent(t) PROVE TypeOK'
  BY SMTT(40), <1>2 DEF LockEvent
<1>3. ASSUME NEW t \in Threads, AwaitReady(t) PROVE TypeOK'
  BY SMTT(40), <1>3 DEF AwaitReady, Return, Goto, LockedAll, UnlockEvents, IsPending, NoIndex
<1>4. ASSUME NEW t \in Threads, AwaitWouldBlock(t) PROVE TypeOK'
  BY <1>4 DEF AwaitWouldBlock, Return, Goto, LockedAll, UnlockEvents, NoIndex
<1>5. ASSUME NEW t \in Threads, AwaitSleep(t) PROVE TypeOK'
  <2>1. listeners' \in [Events -> SUBSET Listeners]
    BY <1>5 DEF AwaitSleep, AttachListeners, Listeners
  <2>2. enqueued' \in [Threads -> BOOLEAN]
    <3>1. \/ enqueued' = [enqueued EXCEPT ![t] = FALSE]
          \/ UNCHANGED enqueued
      BY <1>5 DEF AwaitSleep, DequeueThread
    <3> QED
      BY <3>1, Zenon
  <2>3. slots' \in [Threads -> Nat]
    <3>1. \/ slots[t] > 0 /\ slots' = [slots EXCEPT ![t] = @ - 1]
          \/ UNCHANGED slots
      BY <1>5 DEF AwaitSleep, DequeueThread
    <3>2. slots \in [Threads -> Nat]
      OBVIOUS
    <3> HIDE DEF TypeOK
    <3> QED
      BY <3>1, <3>2
  <2> QED
    BY ZenonT(60), <1>5, <2>1, <2>2, <2>3 DEF AwaitSleep, Goto, UnlockEvents
<1>6. ASSUME NEW t \in Threads, AttachPanic(t) PROVE TypeOK'
  BY <1>6 DEF AttachPanic
<1>7. ASSUME NEW t \in Threads, ReadWhich(t) PROVE TypeOK'
  BY <1>7 DEF ReadWhich, Goto
<1>8. ASSUME NEW t \in Threads, AwaitReturn(t) PROVE TypeOK'
  BY <1>8 DEF AwaitReturn, DetachListeners, UnlockEvents, Return, Goto, NoIndex
<1>9. ASSUME NEW a \in Actors, NEW e \in Events, TriggerPending(a, e) PROVE TypeOK'
  BY SMTT(40), <1>9 DEF TriggerPending
<1>10. ASSUME NEW a \in Actors, NEW e \in Events, TriggerListeners(a, e) PROVE TypeOK'
  BY <1>10 DEF TriggerListeners, Goto
<1>11. ASSUME NEW a \in Actors, WakeListener(a) PROVE TypeOK'
  <2>1. PICK l \in todo[a] :
          /\ todo' = [todo EXCEPT ![a] = @ \ {l}]
          /\ which_event' = [which_event EXCEPT ![l.thread] = l.which]
          /\ fired' = [fired EXCEPT ![l.thread] = @ \cup {l.which}]
          /\ IF enqueued[l.thread]
               THEN UNCHANGED <<hand, pc>>
               ELSE /\ hand' = [hand EXCEPT ![a] = l.thread]
                    /\ Goto(a, "enqueue")
    BY <1>11 DEF WakeListener
  <2>2. l.thread \in Threads /\ l.which \in Nat
    BY <2>1 DEF Listeners
  <2>3. pc' \in [Actors -> {"run", "lock", "sleep", "resumed", "relock", "wake", "enqueue"}]
        /\ hand' \in [Actors -> Threads \cup {None}]
        /\ \A b \in Irqs : pc'[b] \notin {"lock", "sleep", "resumed", "relock"}
    BY ZenonT(60), <2>1, <2>2 DEF Goto
  <2>4. /\ todo' \in [Actors -> SUBSET Listeners]
        /\ which_event' \in [Threads -> Nat]
        /\ fired' \in [Threads -> SUBSET Nat]
    BY <2>1, <2>2
  <2>5. UNCHANGED <<evars, enqueued, slots, awaitvars, trg, scan, panicked>>
    BY <1>11 DEF WakeListener
  <2> QED
    BY <2>3, <2>4, <2>5
<1>12. ASSUME NEW a \in Actors, EnqueueThread(a) PROVE TypeOK'
  <2>1. enqueued' \in [Threads -> BOOLEAN]
    BY <1>12, Zenon DEF EnqueueThread
  <2>2. slots' \in [Threads -> Nat]
    <3>1. slots' = [slots EXCEPT ![hand[a]] = @ + 1]
      BY <1>12 DEF EnqueueThread
    <3>2. slots \in [Threads -> Nat]
      OBVIOUS
    <3> HIDE DEF TypeOK
    <3> DEFINE h == hand[a]
    <3>3. slots' = [x \in Threads |-> IF x = h THEN slots[x] + 1 ELSE slots[x]]
      BY <3>1, <3>2, Zenon
    <3> HIDE DEF h
    <3> QED
      BY <3>2, <3>3
  <2> QED
    BY <1>12, <2>1, <2>2 DEF EnqueueThread, Goto
<1>13. ASSUME NEW a \in Actors, TriggerEnd(a) PROVE TypeOK'
  BY <1>13 DEF TriggerEnd, Goto
<1>14. ASSUME NEW c \in Cpus, NEW t \in Threads, ScanRead(c, t) PROVE TypeOK'
  BY <1>14 DEF ScanRead
<1>15. ASSUME NEW c \in Cpus, ScanRun(c) PROVE TypeOK'
  BY <1>15 DEF ScanRun, Goto
<1>16. ASSUME NEW c \in Cpus, ScanBusy(c) PROVE TypeOK'
  BY <1>16 DEF ScanBusy
<1>17. CASE UNCHANGED vars
  BY <1>17 DEF vars
<1> QED
  BY <1>1, <1>2, <1>3, <1>4, <1>5, <1>6, <1>7, <1>8, <1>9, <1>10, <1>11, <1>12,
     <1>13, <1>14, <1>15, <1>16, <1>17 DEF Next, Await, Trigger, Visit, Scan


\* Every step keeps what the locks of events say about their holders.
LEMMA LockStep == IInv /\ Next => LockInv'
<1> SUFFICES ASSUME IInv, Next PROVE LockInv'
  OBVIOUS
<1> USE EventAssumption DEF IInv, TypeOK, LockInv, Actors, Distinct
<1>1. ASSUME NEW u \in Threads, NEW events \in Awaits, AwaitBegin(u, events)
      PROVE  LockInv'
  <2>1. /\ pc[u] = "run" /\ pc' = [pc EXCEPT ![u] = "lock"]
        /\ args' = [args EXCEPT ![u] = events]
        /\ UNCHANGED <<lock, held>>
    BY <1>1 DEF AwaitBegin, Goto, evars
  <2>2. LockInv /\ events \in Seq(Events) /\ Len(events) \in Nat
    OBVIOUS
  <2>3. u \in DOMAIN args /\ u \in DOMAIN pc
    OBVIOUS
  <2> HIDE DEF IInv, TypeOK, Actors
  <2>4. held[u] = 0
    BY <2>1, <2>2
  <2>5. args'[u] = events /\ pc'[u] = "lock"
    BY <2>1, <2>3
  <2>6. \A v \in Threads : v # u => args'[v] = args[v] /\ pc'[v] = pc[v]
    BY <2>1, <2>3
  <2> QED
    BY SMTT(40), <2>1, <2>2, <2>4, <2>5, <2>6
<1>2. ASSUME NEW u \in Threads, LockEvent(u) PROVE LockInv'
  <2> DEFINE e == args[u][held[u] + 1]
  <2>1. /\ held[u] + 1 \in DOMAIN args[u] /\ e \in Events /\ lock[e] = None
        /\ lock' = [lock EXCEPT ![e] = u] /\ held' = [held EXCEPT ![u] = @ + 1]
        /\ UNCHANGED <<args, pc>> /\ pc[u] \in {"lock", "relock"}
    BY <1>2 DEF LockEvent
  <2>2. \A v \in Threads : \A i \in 1 .. held[v] : args[v][i] # e /\ lock'[args[v][i]] = v
    BY SMTT(40), <2>1
  <2>3. \A i \in 1 .. held'[u] : i \in 1 .. held[u] \/ i = held[u] + 1
    BY <2>1
  <2> HIDE DEF IInv, TypeOK
  <2>4. \A v \in Threads : v # u => held'[v] = held[v]
    BY <2>1
  <2>5. held'[u] = held[u] + 1 /\ lock'[e] = u
    BY <2>1 DEF IInv, TypeOK
  <2>6. LockInv /\ \A v \in Threads : held[v] \in Nat /\ args[v] \in Seq(Events)
    BY DEF IInv, TypeOK
  <2> QED
    BY <2>1, <2>2, <2>3, <2>4, <2>5, <2>6
<1>3. ASSUME NEW u \in Threads, UnlockEvents(u), held[u] = Len(args[u]),
             held' = [held EXCEPT ![u] = 0],
             \/ UNCHANGED args
             \/ args' = [args EXCEPT ![u] = <<>>]
      PROVE  \A v \in Threads :
               /\ held'[v] <= Len(args'[v])
               /\ v # u => held'[v] = held[v] /\ args'[v] = args[v]
               /\ v = u => held'[v] = 0
               /\ \A i \in 1 .. held'[v] : lock'[args'[v][i]] = v
  <2>1. \A i \in DOMAIN args[u] : lock[args[u][i]] = u
    <3>1. args[u] \in Seq(Events) /\ \A i \in 1 .. held[u] : lock[args[u][i]] = u
      OBVIOUS
    <3> HIDE DEF IInv, TypeOK, LockInv
    <3>2. DOMAIN args[u] = 1 .. held[u]
      BY <1>3, <3>1
    <3> QED
      BY <3>1, <3>2
  <2>2. ASSUME NEW v \in Threads, v # u, NEW i \in 1 .. held[v]
        PROVE  args[v][i] \notin EventsOf(u) /\ lock'[args[v][i]] = v
    BY SMTT(40), <1>3, <2>1, <2>2 DEF UnlockEvents, EventsOf
  <2>3. held'[u] = 0 /\ Len(args'[u]) \in Nat
    <3>1. args \in [Threads -> Seq(Events)] /\ held \in [Threads -> Nat]
      OBVIOUS
    <3> HIDE DEF IInv, TypeOK, LockInv
    <3>2. args' = args \/ args'[u] = <<>>
      BY <1>3, <3>1
    <3>3. Len(<<>>) = 0 /\ \A q \in Seq(Events) : Len(q) \in Nat
      OBVIOUS
    <3>4. Len(args'[u]) \in Nat
      BY <3>1, <3>2, <3>3
    <3> QED
      BY <1>3, <3>1, <3>4
  <2>4. \A v \in Threads : v # u => held'[v] = held[v] /\ args'[v] = args[v]
    BY <1>3
  <2>5. \A v \in Threads : held[v] <= Len(args[v])
    OBVIOUS
  <2> HIDE DEF IInv, TypeOK, LockInv
  <2> QED
    BY <2>2, <2>3, <2>4, <2>5
<1>31. ASSUME NEW u \in Threads, AwaitReady(u) \/ AwaitWouldBlock(u) \/ AwaitReturn(u)
      PROVE  LockInv'
  <2>1. /\ UnlockEvents(u) /\ held[u] = Len(args[u]) /\ held' = [held EXCEPT ![u] = 0]
        /\ args' = [args EXCEPT ![u] = <<>>] /\ pc' = [pc EXCEPT ![u] = "run"]
    BY <1>31 DEF AwaitReady, AwaitWouldBlock, AwaitReturn, Return, Goto, LockedAll
  <2>2. \A v \in Threads :
          /\ held'[v] <= Len(args'[v])
          /\ v # u => held'[v] = held[v] /\ args'[v] = args[v]
          /\ v = u => held'[v] = 0
          /\ \A i \in 1 .. held'[v] : lock'[args'[v][i]] = v
    BY <2>1, <1>3
  <2>3. \A v \in Threads : pc'[v] = IF v = u THEN "run" ELSE pc[v]
    BY <2>1
  <2> HIDE DEF IInv, TypeOK
  <2>4. LockInv
    BY DEF IInv
  <2> QED
    BY <2>2, <2>3, <2>4
<1>4. ASSUME NEW u \in Threads, AwaitSleep(u) PROVE LockInv'
  <2>1. /\ UnlockEvents(u) /\ held[u] = Len(args[u]) /\ held' = [held EXCEPT ![u] = 0]
        /\ UNCHANGED args /\ pc' = [pc EXCEPT ![u] = "sleep"]
    BY <1>4 DEF AwaitSleep, Goto, LockedAll
  <2>2. Distinct(args[u])
    <3>1. DOMAIN args[u] = 1 .. held[u]
      BY <2>1
    <3>2. \A i, j \in 1 .. held[u] : args[u][i] = args[u][j] => i = j
      OBVIOUS
    <3> HIDE DEF IInv, TypeOK, LockInv
    <3> QED
      BY <3>1, <3>2
  <2>3. \A v \in Threads :
          /\ held'[v] <= Len(args'[v])
          /\ v # u => held'[v] = held[v] /\ args'[v] = args[v]
          /\ v = u => held'[v] = 0
          /\ \A i \in 1 .. held'[v] : lock'[args'[v][i]] = v
    BY <2>1, <1>3
  <2>4. \A v \in Threads : pc'[v] = IF v = u THEN "sleep" ELSE pc[v]
    BY <2>1
  <2> HIDE DEF IInv, TypeOK
  <2>5. LockInv
    BY DEF IInv
  <2> QED
    BY <2>1, <2>2, <2>3, <2>4, <2>5
<1>5. ASSUME NEW u \in Threads, AttachPanic(u) PROVE LockInv'
  BY <1>5 DEF AttachPanic, evars, awaitvars
<1>6. ASSUME NEW u \in Threads, ReadWhich(u) PROVE LockInv'
  BY <1>6 DEF ReadWhich, Goto, evars
<1>7. ASSUME NEW a \in Actors, NEW e \in Events, TriggerPending(a, e) PROVE LockInv'
  BY <1>7 DEF TriggerPending, awaitvars
<1>8. ASSUME NEW a \in Actors, NEW e \in Events, TriggerListeners(a, e) PROVE LockInv'
  BY SMTT(40), <1>8 DEF TriggerListeners, CanTrigger, Goto, awaitvars
<1>9. ASSUME NEW a \in Actors, WakeListener(a) PROVE LockInv'
  BY <1>9 DEF WakeListener, Goto, evars, awaitvars
<1>10. ASSUME NEW a \in Actors, EnqueueThread(a) PROVE LockInv'
  BY <1>10 DEF EnqueueThread, Goto, evars, awaitvars
<1>11. ASSUME NEW a \in Actors, TriggerEnd(a) PROVE LockInv'
  BY <1>11 DEF TriggerEnd, Goto, TriggerInv, awaitvars
<1>12. ASSUME NEW c \in Cpus, ScanRun(c) PROVE LockInv'
  BY <1>12 DEF ScanRun, Goto, evars, awaitvars
<1>13. ASSUME NEW c \in Cpus, ScanBusy(c) \/ \E u \in Threads : ScanRead(c, u)
       PROVE LockInv'
  BY <1>13 DEF ScanBusy, ScanRead, evars, awaitvars
<1> QED
  BY <1>1, <1>2, <1>31, <1>4, <1>5, <1>6, <1>7, <1>8, <1>9, <1>10, <1>11, <1>12,
     <1>13 DEF Next, Await, Trigger, Visit, Scan

\* A thread that has run through lock_events owns every lock of its array.
LEMMA OwnsAll ==
  ASSUME IInv, NEW t \in Threads, held[t] = Len(args[t])
  PROVE  /\ EventsOf(t) \subseteq Events
         /\ \A e \in EventsOf(t) : lock[e] = t
<1>1. args[t] \in Seq(Events) /\ \A i \in 1 .. held[t] : lock[args[t][i]] = t
  BY DEF IInv, TypeOK, LockInv
<1>2. DOMAIN args[t] = 1 .. held[t]
  BY <1>1
<1> QED
  BY <1>1, <1>2 DEF EventsOf

\* What a step with interrupts off leaves alone at the event that another
\* actor triggers.
LEMMA TriggerFrame ==
  ASSUME IInv, Next, NEW a \in Actors, pc[a] \in {"wake", "enqueue"},
         NEW b \in Actors, b # a,
         \/ b \in Threads /\ (AwaitSleep(b) \/ AwaitReturn(b))
         \/ TriggerEnd(b)
  PROVE  /\ listeners'[trg[a]] = listeners[trg[a]]
         /\ lock'[trg[a]] = lock[trg[a]]
<1>1. trg[a] \in Events /\ lock[trg[a]] = a
  BY DEF IInv, TriggerInv
<1>2. CASE b \in Threads /\ (AwaitSleep(b) \/ AwaitReturn(b))
  <2>1. held[b] = Len(args[b]) /\ UnlockEvents(b)
    BY <1>2 DEF AwaitSleep, AwaitReturn, LockedAll
  <2>2. trg[a] \notin EventsOf(b)
    BY <1>1, <1>2, <2>1, OwnsAll
  <2>3. listeners'[trg[a]] = listeners[trg[a]]
    <3>1. CASE AwaitSleep(b)
      BY <1>1, <2>2, <3>1 DEF AwaitSleep, AttachListeners, EventsOf, IInv, TypeOK
    <3>2. CASE AwaitReturn(b)
      BY <1>1, <2>2, <3>2 DEF AwaitReturn, DetachListeners
    <3> QED
      BY <1>2, <3>1, <3>2
  <2> QED
    BY <1>1, <2>1, <2>2, <2>3 DEF UnlockEvents
<1>3. CASE TriggerEnd(b)
  BY <1>1, <1>3 DEF TriggerEnd, IInv, TriggerInv, TypeOK
<1> QED
  BY <1>2, <1>3

\* Every step keeps what a trigger under way has already done.
LEMMA TriggerStep == IInv /\ Next => TriggerInv'
<1> SUFFICES ASSUME IInv, Next PROVE TriggerInv'
  OBVIOUS
<1>0. /\ \A e \in Events : \A l \in listeners[e] : l.thread \in Threads
      /\ \A b \in Actors : pc[b] \in {"wake", "enqueue"} => trg[b] \in Events /\ lock[trg[b]] = b
  BY DEF IInv, TypeOK, Listeners, TriggerInv
<1> USE EventAssumption DEF IInv, TypeOK, Actors, TriggerInv
<1>1. ASSUME NEW u \in Threads, NEW events \in Awaits, AwaitBegin(u, events)
      PROVE  TriggerInv'
  BY <1>1 DEF AwaitBegin, Goto, evars, tvars, trgvars
<1>2. ASSUME NEW u \in Threads, LockEvent(u) PROVE TriggerInv'
  <2>1. /\ UNCHANGED <<pc, listeners, tvars, trgvars>>
        /\ \E e \in Events : lock[e] = None /\ lock' = [lock EXCEPT ![e] = u]
    <3>1. args[u] \in Seq(Events) /\ held[u] \in Nat /\ held[u] < Len(args[u])
      BY <1>2 DEF LockEvent
    <3>2. args[u][held[u] + 1] \in Events
      BY <3>1
    <3> QED
      BY <1>2, <3>2 DEF LockEvent
  <2>2. \A b \in Actors : pc[b] \in {"wake", "enqueue"} => lock'[trg[b]] = b
    BY <1>0, <2>1
  <2> QED
    BY SMTT(40), <2>1, <2>2 DEF tvars, trgvars
<1>3. ASSUME NEW u \in Threads, AwaitReady(u) \/ AwaitWouldBlock(u) PROVE TriggerInv'
  <2>1. /\ UnlockEvents(u) /\ held[u] = Len(args[u]) /\ pc' = [pc EXCEPT ![u] = "run"]
        /\ UNCHANGED <<listeners, tvars, trgvars>>
    BY <1>3 DEF AwaitReady, AwaitWouldBlock, Return, Goto, LockedAll
  <2>2. \A b \in Actors \ {u} :
          pc[b] \in {"wake", "enqueue"} => lock'[trg[b]] = b
    BY <1>0, <2>1, OwnsAll DEF UnlockEvents
  <2> QED
    BY SMTT(60), <2>1, <2>2 DEF tvars, trgvars
<1>4. ASSUME NEW u \in Threads, AwaitSleep(u) PROVE TriggerInv'
  <2>1. /\ pc[u] = "lock" /\ pc' = [pc EXCEPT ![u] = "sleep"] /\ UNCHANGED trgvars
        /\ \A v \in Threads : v # u => enqueued'[v] = enqueued[v]
    BY <1>4 DEF AwaitSleep, Goto, LockedAll, DequeueThread
  <2>2. \A e \in Events : \A l \in listeners[e] : l.thread # u
    <3>1. ListenersLive
      OBVIOUS
    <3> HIDE DEF IInv, TypeOK, TriggerInv
    <3> QED
      BY <2>1, <3>1 DEF ListenersLive
  <2>3. ASSUME NEW b \in Actors, pc[b] \in {"wake", "enqueue"}
        PROVE  listeners'[trg[b]] = listeners[trg[b]] /\ lock'[trg[b]] = lock[trg[b]]
    BY <1>4, <2>1, <2>3, TriggerFrame
  <2>4. \A b \in Actors : pc'[b] = IF b = u THEN "sleep" ELSE pc[b]
    BY <2>1
  <2>5. TriggerInv
    OBVIOUS
  <2> HIDE DEF IInv, TypeOK
  <2> QED
    BY <1>0, <2>1, <2>2, <2>3, <2>4, <2>5 DEF trgvars
<1>5. ASSUME NEW u \in Threads, AttachPanic(u) PROVE TriggerInv'
  BY <1>5 DEF AttachPanic, evars, tvars, trgvars
<1>6. ASSUME NEW u \in Threads, ReadWhich(u) PROVE TriggerInv'
  BY <1>6 DEF ReadWhich, Goto, evars, tvars, trgvars
<1>7. ASSUME NEW u \in Threads, AwaitReturn(u) PROVE TriggerInv'
  <2>1. pc[u] = "relock" /\ pc' = [pc EXCEPT ![u] = "run"] /\ UNCHANGED <<tvars, trgvars>>
    BY <1>7 DEF AwaitReturn, Return, Goto, LockedAll
  <2>2. ASSUME NEW b \in Actors, pc[b] \in {"wake", "enqueue"}
        PROVE  listeners'[trg[b]] = listeners[trg[b]] /\ lock'[trg[b]] = lock[trg[b]]
    BY <1>7, <2>1, <2>2, TriggerFrame
  <2> QED
    BY SMTT(60), <1>0, <2>1, <2>2 DEF tvars, trgvars
<1>8. ASSUME NEW b \in Actors, NEW e \in Events, TriggerPending(b, e) PROVE TriggerInv'
  BY <1>8 DEF TriggerPending, tvars, trgvars
<1>9. ASSUME NEW b \in Actors, NEW e \in Events, TriggerListeners(b, e) PROVE TriggerInv'
  BY SMTT(60), <1>0, <1>9 DEF TriggerListeners, CanTrigger, Goto, tvars
<1>10. ASSUME NEW b \in Actors, WakeListener(b) PROVE TriggerInv'
  <2>1. PICK l \in todo[b] :
          /\ todo' = [todo EXCEPT ![b] = @ \ {l}]
          /\ IF enqueued[l.thread]
               THEN UNCHANGED <<hand, pc>>
               ELSE /\ hand' = [hand EXCEPT ![b] = l.thread]
                    /\ pc' = [pc EXCEPT ![b] = "enqueue"]
    BY <1>10 DEF WakeListener, Goto
  <2>2. l.thread \in Threads
    BY <2>1 DEF Listeners
  <2>3. pc[b] = "wake" /\ UNCHANGED <<lock, listeners, enqueued, trg>>
    BY <1>10 DEF WakeListener, evars
  <2>4. /\ todo'[b] = todo[b] \ {l}
        /\ \A d \in Actors \ {b} :
             todo'[d] = todo[d] /\ pc'[d] = pc[d] /\ hand'[d] = hand[d]
    BY <2>1
  <2>5. \/ enqueued[l.thread] /\ pc'[b] = "wake"
        \/ pc'[b] = "enqueue" /\ hand'[b] = l.thread
    BY <2>1, <2>3
  <2>6. \A v \in Threads : pc[v] = "sleep" \/ pc'[v] # "sleep"
    BY <2>1
  <2>7. TriggerInv
    OBVIOUS
  <2> HIDE DEF IInv, TypeOK
  <2> QED
    BY <1>0, <2>2, <2>3, <2>4, <2>5, <2>6, <2>7
<1>11. ASSUME NEW b \in Actors, EnqueueThread(b) PROVE TriggerInv'
  BY <1>0, <1>11 DEF EnqueueThread, Goto, evars
<1>12. ASSUME NEW b \in Actors, TriggerEnd(b) PROVE TriggerInv'
  <2>1. /\ pc[b] = "wake" /\ pc' = [pc EXCEPT ![b] = "run"]
        /\ UNCHANGED <<tvars, todo, hand>> /\ trg' = [trg EXCEPT ![b] = None]
    BY <1>12 DEF TriggerEnd, Goto
  <2>2. ASSUME NEW d \in Actors, d # b, pc[d] \in {"wake", "enqueue"}
        PROVE  listeners'[trg[d]] = listeners[trg[d]] /\ lock'[trg[d]] = lock[trg[d]]
    BY <1>12, <2>2, TriggerFrame
  <2> QED
    BY SMTT(40), <1>0, <2>1, <2>2 DEF tvars
<1>13. ASSUME NEW c \in Cpus, ScanRun(c) PROVE TriggerInv'
  BY <1>0, <1>13 DEF ScanRun, Goto, evars, tvars, trgvars
<1>14. ASSUME NEW c \in Cpus, ScanBusy(c) \/ \E u \in Threads : ScanRead(c, u)
       PROVE TriggerInv'
  BY <1>14 DEF ScanBusy, ScanRead, evars, tvars, trgvars
<1> QED
  BY <1>1, <1>2, <1>3, <1>4, <1>5, <1>6, <1>7, <1>8, <1>9, <1>10, <1>11, <1>12,
     <1>13, <1>14 DEF Next, Await, Trigger, Visit, Scan

\* Every step keeps pending triggers and listeners apart.
LEMMA PendingStep == IInv /\ Next => NoSleepOnPending'
<1> SUFFICES ASSUME IInv, Next PROVE NoSleepOnPending'
  OBVIOUS
<1> USE DEF IInv, TypeOK, NoSleepOnPending
<1>1. ASSUME NEW t \in Threads, AwaitReady(t) PROVE NoSleepOnPending'
  <2>1. PICK i \in DOMAIN args[t] :
          pending[args[t][i]] > 0 /\ pending' = [pending EXCEPT ![args[t][i]] = @ - 1]
    BY <1>1 DEF AwaitReady, IsPending
  <2>2. \A e \in Events : pending'[e] > 0 => pending[e] > 0
    <3> DEFINE p == args[t][i]
    <3>1. pending \in [Events -> Nat]
      OBVIOUS
    <3> HIDE DEF p, IInv, TypeOK
    <3> QED
      BY <2>1, <3>1 DEF p
  <2> QED
    BY <1>1, <2>2 DEF AwaitReady
<1>2. ASSUME NEW t \in Threads, AwaitSleep(t) PROVE NoSleepOnPending'
  <2>1. \A e \in EventsOf(t) : pending[e] = 0
    BY <1>2 DEF AwaitSleep, NonePending, IsPending, EventsOf
  <2>2. \A e \in Events \ EventsOf(t) : listeners'[e] = listeners[e]
    BY <1>2 DEF AwaitSleep, AttachListeners, EventsOf
  <2>3. UNCHANGED pending /\ NoSleepOnPending
    BY <1>2 DEF AwaitSleep
  <2> HIDE DEF IInv, TypeOK
  <2> QED
    BY <2>1, <2>2, <2>3
<1>3. ASSUME NEW t \in Threads, AwaitReturn(t) PROVE NoSleepOnPending'
  BY <1>3 DEF AwaitReturn, DetachListeners
<1>4. ASSUME NEW a \in Actors, NEW e \in Events, TriggerPending(a, e)
      PROVE  NoSleepOnPending'
  BY <1>4 DEF TriggerPending
<1>5. ASSUME NEW a \in Actors, TriggerEnd(a) PROVE NoSleepOnPending'
  BY <1>5 DEF TriggerEnd
<1>6. CASE UNCHANGED <<pending, listeners>>
  BY <1>6
<1> QED
  BY <1>1, <1>2, <1>3, <1>4, <1>5, <1>6 DEF Next, Await, Trigger, Visit, Scan, evars,
     AwaitBegin, LockEvent, AwaitWouldBlock, AttachPanic, ReadWhich, TriggerListeners,
     WakeListener, EnqueueThread, ScanRead, ScanRun, ScanBusy

\* Every step keeps the listeners of an event among the waits under way.
LEMMA ListenersStep == IInv /\ Next => ListenersLive'
<1> SUFFICES ASSUME IInv, Next PROVE ListenersLive'
  OBVIOUS
<1>1. /\ TypeOK /\ ListenersLive
      /\ \A e \in Events : \A l \in listeners[e] :
           /\ l.thread \in Threads /\ l.which \in Nat
           /\ l = [thread |-> l.thread, which |-> l.which]
  BY DEF IInv, TypeOK, Listeners
\* A thread outside event_await, or still in its first half, is not listed.
<1>2. ASSUME NEW u \in Threads, pc[u] \notin {"sleep", "resumed", "relock"},
             \A v \in Threads \ {u} : args'[v] = args[v] /\ pc'[v] = pc[v],
             UNCHANGED listeners
      PROVE  ListenersLive'
  BY <1>1, <1>2 DEF ListenersLive
<1>3. ASSUME NEW u \in Threads, NEW events \in Awaits, AwaitBegin(u, events)
      PROVE  ListenersLive'
  BY <1>1, <1>2, <1>3, Zenon DEF AwaitBegin, Goto, evars, TypeOK, Actors
<1>4. ASSUME NEW u \in Threads, AwaitReady(u) \/ AwaitWouldBlock(u)
      PROVE  ListenersLive'
  BY <1>1, <1>2, <1>4, Zenon DEF AwaitReady, AwaitWouldBlock, LockedAll, Return, Goto, TypeOK, Actors
<1>5. ASSUME NEW u \in Threads, AwaitSleep(u) PROVE ListenersLive'
  <2>1. /\ pc[u] = "lock" /\ UNCHANGED args /\ pc' = [pc EXCEPT ![u] = "sleep"]
        /\ AttachListeners(u)
    BY <1>5 DEF AwaitSleep, LockedAll, Goto
  <2>2. \A v \in Threads : pc'[v] = IF v = u THEN "sleep" ELSE pc[v]
    BY <1>1, <2>1 DEF TypeOK, Actors
  <2>3. ASSUME NEW e \in Events, NEW l \in listeners'[e]
        PROVE  \/ l \in listeners[e] /\ l.thread # u
               \/ l.thread = u /\ l.which \in DOMAIN args[u] /\ args[u][l.which] = e
    BY <1>1, <2>1 DEF AttachListeners, ListenersLive
  <2> QED
    BY <1>1, <2>1, <2>2, <2>3 DEF ListenersLive
<1>6. ASSUME NEW u \in Threads, AwaitReturn(u) PROVE ListenersLive'
  <2>1. /\ pc[u] = "relock" /\ DetachListeners(u)
        /\ \A v \in Threads \ {u} : args'[v] = args[v] /\ pc'[v] = pc[v]
    BY <1>1, <1>6 DEF AwaitReturn, LockedAll, Return, Goto, TypeOK, Actors
  <2>2. Distinct(args[u])
    BY <2>1 DEF IInv, LockInv
  <2>3. ASSUME NEW e \in Events, NEW l \in listeners'[e]
        PROVE  l \in listeners[e] /\ l.thread # u
    <3>1. l \in listeners[e]
      BY <2>1 DEF DetachListeners
    <3>2. SUFFICES ASSUME l.thread = u PROVE FALSE
      BY <3>1
    <3>3. l.which \in DOMAIN args[u] /\ args[u][l.which] = e
      BY <1>1, <3>1, <3>2 DEF ListenersLive
    <3>4. l \notin OwnListener(u, e)
      BY <2>1, <3>3 DEF DetachListeners, EventsOf
    <3>5. PICK k \in listeners[e] : k.thread = u /\ OwnListener(u, e) = {k}
      BY <3>1, <3>2 DEF OwnListener
    <3>6. k.which \in DOMAIN args[u] /\ args[u][k.which] = e
      BY <1>1, <3>5 DEF ListenersLive
    <3>7. k.which = l.which
      BY <2>2, <3>3, <3>6 DEF Distinct
    <3> QED
      BY <1>1, <3>1, <3>2, <3>4, <3>5, <3>7
  <2> QED
    BY <1>1, <2>1, <2>3 DEF ListenersLive
<1>7. ASSUME NEW b \in Actors, pc[b] \in {"run", "wake", "enqueue"}, UNCHANGED args,
             \A v \in Actors \ {b} : pc'[v] = pc[v],
             \A e \in Events : listeners'[e] \subseteq listeners[e]
      PROVE  ListenersLive'
  BY <1>1, <1>7 DEF ListenersLive, Actors
<1>8. ASSUME NEW b \in Actors, NEW e \in Events, TriggerListeners(b, e)
      PROVE  ListenersLive'
  BY <1>1, <1>7, <1>8 DEF TriggerListeners, CanTrigger, Goto, awaitvars, TypeOK
<1>9. ASSUME NEW b \in Actors, WakeListener(b) \/ EnqueueThread(b)
      PROVE  ListenersLive'
  BY <1>1, <1>7, <1>9 DEF WakeListener, EnqueueThread, Goto, evars, awaitvars, TypeOK
<1>10. ASSUME NEW b \in Actors, TriggerEnd(b) PROVE ListenersLive'
  BY <1>1, <1>7, <1>10 DEF TriggerEnd, Goto, awaitvars, TypeOK
<1>11. ASSUME NEW u \in Threads, ReadWhich(u) PROVE ListenersLive'
  BY <1>1, <1>11 DEF ReadWhich, Goto, evars, TypeOK, Actors, ListenersLive
<1>12. ASSUME NEW c \in Cpus, ScanRun(c) PROVE ListenersLive'
  BY <1>1, <1>12 DEF ScanRun, Goto, evars, awaitvars, TypeOK, Actors, ListenersLive
<1>13. CASE UNCHANGED <<pc, args, listeners>>
  BY <1>1, <1>13 DEF ListenersLive
<1> QED
  BY <1>3, <1>4, <1>5, <1>6, <1>8, <1>9, <1>10, <1>11, <1>12, <1>13
     DEF Next, Await, Trigger, Visit, Scan, evars, awaitvars,
         LockEvent, AttachPanic, TriggerPending, ScanRead, ScanBusy

\* Every step keeps a sleeper that is not queued on its lists.
LEMMA SleeperStep == IInv /\ Next => SleeperListed'
<1> SUFFICES ASSUME IInv, Next PROVE SleeperListed'
  OBVIOUS
<1>1. TypeOK /\ SleeperListed
  BY DEF IInv
\* Nobody falls asleep or leaves the run queue, and what sleepers listen on
\* stays.
<1>2. ASSUME NEW u \in Threads,
             pc'[u] # "sleep",
             \A v \in Threads \ {u} : args'[v] = args[v] /\ pc'[v] = pc[v],
             UNCHANGED <<listeners, enqueued>>
      PROVE  SleeperListed'
  BY <1>1, <1>2 DEF SleeperListed
<1>3. ASSUME NEW u \in Threads, NEW events \in Awaits, AwaitBegin(u, events)
      PROVE  SleeperListed'
  BY <1>1, <1>2, <1>3, Zenon DEF AwaitBegin, Goto, evars, tvars, TypeOK, Actors
<1>4. ASSUME NEW u \in Threads, AwaitReady(u) \/ AwaitWouldBlock(u)
      PROVE  SleeperListed'
  BY <1>1, <1>2, <1>4 DEF AwaitReady, AwaitWouldBlock, LockedAll, Return, Goto, tvars, TypeOK, Actors
<1>5. ASSUME NEW u \in Threads, AwaitSleep(u) PROVE SleeperListed'
  <2>1. /\ UNCHANGED args /\ AttachListeners(u)
        /\ \A v \in Threads \ {u} : pc'[v] = pc[v] /\ enqueued'[v] = enqueued[v]
    BY <1>1, <1>5 DEF AwaitSleep, Goto, DequeueThread, TypeOK, Actors
  <2>2. \A e \in Events : listeners[e] \subseteq listeners'[e]
    BY <2>1 DEF AttachListeners
  <2>3. \A v \in Threads : \A i \in DOMAIN args[v] : args[v][i] \in Events
    BY <1>1 DEF TypeOK
  <2>4. \A i \in DOMAIN args[u] : [thread |-> u, which |-> i] \in listeners'[args[u][i]]
    BY <2>1, <2>3 DEF AttachListeners
  <2> QED
    BY <1>1, <2>1, <2>2, <2>3, <2>4 DEF SleeperListed
<1>6. ASSUME NEW u \in Threads, AwaitReturn(u) PROVE SleeperListed'
  <2>1. /\ pc'[u] = "run" /\ DetachListeners(u) /\ UNCHANGED enqueued
        /\ \A v \in Threads \ {u} : args'[v] = args[v] /\ pc'[v] = pc[v]
    BY <1>1, <1>6 DEF AwaitReturn, Return, Goto, tvars, TypeOK, Actors
  <2>2. ASSUME NEW v \in Threads \ {u}, NEW e \in Events, NEW i,
               [thread |-> v, which |-> i] \in listeners[e]
        PROVE  [thread |-> v, which |-> i] \in listeners'[e]
    <3>1. [thread |-> v, which |-> i] \notin OwnListener(u, e)
      <4>1. \A k \in OwnListener(u, e) : k.thread = u
        BY DEF OwnListener
      <4> QED
        BY <4>1
    <3> QED
      BY <2>1, <2>2, <3>1 DEF DetachListeners
  <2>3. \A v \in Threads : \A i \in DOMAIN args[v] : args[v][i] \in Events
    BY <1>1 DEF TypeOK
  <2> QED
    BY <1>1, <2>1, <2>2, <2>3 DEF SleeperListed
<1>7. ASSUME NEW b \in Actors, pc'[b] # "sleep", UNCHANGED <<args, listeners>>,
             \A v \in Actors \ {b} : pc'[v] = pc[v],
             \A v \in Threads : enqueued[v] => enqueued'[v]
      PROVE  SleeperListed'
  BY <1>1, <1>7 DEF SleeperListed, Actors
<1>8. ASSUME NEW b \in Actors, NEW e \in Events, TriggerListeners(b, e)
      PROVE  SleeperListed'
  BY <1>1, <1>7, <1>8 DEF TriggerListeners, Goto, awaitvars, tvars, TypeOK
<1>9. ASSUME NEW b \in Actors, WakeListener(b) \/ EnqueueThread(b)
      PROVE  SleeperListed'
  BY <1>1, <1>7, <1>9 DEF WakeListener, EnqueueThread, Goto, evars, awaitvars, TypeOK
<1>10. ASSUME NEW b \in Actors, TriggerEnd(b) PROVE SleeperListed'
  <2>1. /\ pc[b] = "wake" /\ todo[b] = {} /\ UNCHANGED <<args, enqueued>>
        /\ listeners' = [listeners EXCEPT ![trg[b]] = {}]
        /\ pc'[b] # "sleep" /\ \A v \in Actors \ {b} : pc'[v] = pc[v]
    BY <1>1, <1>10 DEF TriggerEnd, Goto, awaitvars, tvars, TypeOK
  <2>2. \A l \in listeners[trg[b]] : enqueued[l.thread] \/ pc[l.thread] # "sleep"
    BY <2>1 DEF IInv, TriggerInv
  <2>3. ASSUME NEW v \in Threads, NEW i \in DOMAIN args[v], pc[v] = "sleep", ~enqueued[v]
        PROVE  args[v][i] # trg[b]
    <3> DEFINE l == [thread |-> v, which |-> i]
    <3>1. l \in listeners[args[v][i]] /\ l.thread = v
      BY <1>1, <2>3 DEF SleeperListed
    <3> HIDE DEF l
    <3> QED
      BY <2>2, <2>3, <3>1
  <2>4. ASSUME NEW v \in Threads, NEW i \in DOMAIN args[v], pc[v] = "sleep", ~enqueued[v]
        PROVE  listeners'[args[v][i]] = listeners[args[v][i]]
    BY <1>1, <2>1, <2>3, <2>4 DEF TypeOK
  <2>5. \A v \in Threads : pc'[v] = "sleep" => pc[v] = "sleep"
    BY <2>1 DEF Actors
  <2> QED
    BY <1>1, <2>1, <2>4, <2>5 DEF SleeperListed
<1>11. ASSUME NEW u \in Threads, ReadWhich(u) PROVE SleeperListed'
  BY <1>1, <1>7, <1>11 DEF ReadWhich, Goto, evars, tvars, TypeOK, Actors
<1>12. ASSUME NEW c \in Cpus, ScanRun(c) PROVE SleeperListed'
  BY <1>1, <1>12 DEF ScanRun, Goto, evars, tvars, awaitvars, TypeOK, Actors, SleeperListed
<1>13. CASE UNCHANGED <<pc, args, listeners, enqueued>>
  BY <1>1, <1>13 DEF SleeperListed
<1> QED
  BY <1>3, <1>4, <1>5, <1>6, <1>8, <1>9, <1>10, <1>11, <1>12, <1>13
     DEF Next, Await, Trigger, Visit, Scan, evars, awaitvars, tvars,
         LockEvent, AttachPanic, TriggerPending, ScanRead, ScanBusy

-----------------------------------------------------------------------------

\* The parts of the invariant together are inductive.
LEMMA IInvStep == IInv /\ [Next]_vars => IInv'
<1>1. IInv /\ Next => IInv'
  BY TypeStep, LockStep, TriggerStep, PendingStep, ListenersStep, SleeperStep DEF IInv
<1>2. IInv /\ UNCHANGED vars => IInv'
  BY DEF IInv, vars, evars, tvars, awaitvars, trgvars, TypeOK, LockInv, TriggerInv,
         NoSleepOnPending, ListenersLive, SleeperListed, Distinct
<1> QED
  BY <1>1, <1>2

\* The inductive invariant holds in every reachable state.
THEOREM Inductive == Spec => []IInv
<1> QED
  BY InitIInv, IInvStep, PTL DEF Spec

\* The model of event.c keeps to its types.
THEOREM TypeCorrect == Spec => []TypeOK
  BY Inductive, PTL DEF IInv

\* event_await never attaches a listener to an event with a trigger pending.
THEOREM NeverSleepsOnPending == Spec => []NoSleepOnPending
  BY Inductive, PTL DEF IInv

\* A thread asleep and off the run queue is listed by every event it waits
\* for: event_trigger cannot miss it.
THEOREM NoLostWakeup == Spec => []SleeperListed
  BY Inductive, PTL DEF IInv

\* The listener array of an event never holds an entry of a wait that has
\* returned from event_await.
THEOREM NoDanglingListener == Spec => []ListenersLive
  BY Inductive, PTL DEF IInv

-----------------------------------------------------------------------------
(* One CPU: what event_await returns *)

\* With one CPU a thread has one slot of the run queue at most, and a sleeper that
\* has one, gets one or has been read from one was triggered in this wait.
UniInv ==
  /\ \A t \in Threads :
       /\ slots[t] = IF enqueued[t] THEN 1 ELSE 0
       /\ pc[t] = "sleep" /\ (enqueued[t] \/ \E c \in Cpus : scan[c] = t) =>
            which_event[t] \in fired[t]
  /\ \A a \in Actors : pc[a] = "enqueue" =>
       ~ enqueued[hand[a]] /\ which_event[hand[a]] \in fired[hand[a]]
  /\ ReturnsFired

\* A step of event_await leaves no other actor inside sched_enqueue_thread.
LEMMA Alone ==
  ASSUME SMP = FALSE, NEW a \in Actors, CanStep(a)
  PROVE  /\ \A b \in Actors : pc[b] = "enqueue" => b = a
         /\ \A c \in Cpus : c # a => scan[c] = None
BY DEF CanStep, IntsOff

\* A step that only moves a thread that does not sleep, or ends its wait.
LEMMA UniQuiet ==
  ASSUME IInv, UniInv, NEW t \in Threads,
         \A a \in Actors \ {t} : pc'[a] = pc[a],
         pc[t] \in {"run", "lock", "relock"}, pc'[t] \in {"run", "lock", "relock"},
         pc'[t] = "relock" => pc[t] = "relock" /\ fired'[t] = fired[t] /\ ret'[t] = ret[t],
         \A u \in Threads \ {t} : fired'[u] = fired[u] /\ ret'[u] = ret[u],
         pc'[t] # pc[t] => \A b \in Actors : pc[b] # "enqueue",
         pc'[t] = pc[t] => fired'[t] = fired[t],
         UNCHANGED <<tvars, hand, scan>>
  PROVE  UniInv'
<1>1. which_event' = which_event /\ enqueued' = enqueued /\ slots' = slots /\ hand' = hand /\ scan' = scan
  BY DEF tvars
<1>2. \A u \in Threads : /\ slots'[u] = IF enqueued'[u] THEN 1 ELSE 0
                         /\ pc'[u] = "sleep" /\ (enqueued'[u] \/ \E c \in Cpus : scan'[c] = u) =>
                              which_event'[u] \in fired'[u]
  BY <1>1 DEF UniInv, Actors
<1>3. ASSUME NEW a \in Actors, pc'[a] = "enqueue"
      PROVE  ~ enqueued'[hand'[a]] /\ which_event'[hand'[a]] \in fired'[hand'[a]]
  <2>1. pc[a] = "enqueue" /\ a # t
    BY <1>3
  <2>2. pc'[t] = pc[t]
    BY <2>1
  <2>3. hand[a] \in Threads
    BY <2>1 DEF IInv, TriggerInv
  <2>4. fired'[hand[a]] = fired[hand[a]]
    BY <2>2, <2>3
  <2> QED
    BY <1>1, <2>1, <2>4 DEF UniInv
<1>4. ReturnsFired'
  <2> SUFFICES ASSUME NEW u \in Threads
               PROVE  /\ pc'[u] = "resumed" => which_event'[u] \in fired'[u]
                      /\ pc'[u] = "relock" => ret'[u] \in fired'[u]
    BY DEF ReturnsFired
  <2>1. CASE u = t
    BY <2>1 DEF UniInv, ReturnsFired
  <2>2. CASE u # t
    BY <2>2, <1>1 DEF UniInv, ReturnsFired, Actors
  <2> QED
    BY <2>1, <2>2
<1> QED
  BY <1>2, <1>3, <1>4 DEF UniInv

LEMMA UniStep ==
  ASSUME SMP = FALSE, IInv, UniInv, Next
  PROVE  UniInv'
<1>0. TypeOK
  BY DEF IInv
<1>1. ASSUME NEW t \in Threads, NEW events \in Awaits, AwaitBegin(t, events)
      PROVE  UniInv'
  <2>1. /\ pc[t] = "run" /\ pc'[t] = "lock" /\ (\A a \in Actors \ {t} : pc'[a] = pc[a])
        /\ UNCHANGED <<tvars, hand, scan, ret, fired>>
    BY <1>0, <1>1 DEF AwaitBegin, Goto, TypeOK, Actors, trgvars
  <2>2. \A b \in Actors : pc[b] # "enqueue"
    BY <1>1, <2>1, Alone DEF AwaitBegin, Actors
  <2> QED
    BY <2>1, <2>2, UniQuiet
<1>2. ASSUME NEW t \in Threads, LockEvent(t) PROVE UniInv'
  BY <1>2, UniQuiet DEF LockEvent, trgvars
<1>3. ASSUME NEW t \in Threads, AwaitReady(t) \/ AwaitWouldBlock(t) \/ AwaitReturn(t)
      PROVE  UniInv'
  <2>1. /\ pc[t] \in {"lock", "relock"} /\ CanStep(t)
        /\ UNCHANGED <<tvars, hand, scan>> /\ Return(t)
    BY <1>3 DEF AwaitReady, AwaitWouldBlock, AwaitReturn, LockedAll, trgvars
  <2>2. /\ pc'[t] = "run" /\ (\A a \in Actors \ {t} : pc'[a] = pc[a])
        /\ \A u \in Threads \ {t} : fired'[u] = fired[u] /\ ret'[u] = ret[u]
    BY <1>0, <2>1 DEF Return, Goto, TypeOK, Actors
  <2>3. t \in Actors /\ pc[t] # "enqueue"
    BY <2>1 DEF Actors
  <2>4. \A b \in Actors : pc[b] # "enqueue"
    BY <2>1, <2>3, Alone
  <2> QED
    BY <2>1, <2>2, <2>4, UniQuiet
<1>4. ASSUME NEW t \in Threads, AwaitSleep(t) PROVE UniInv'
  <2>1. /\ pc[t] = "lock" /\ CanStep(t) /\ DequeueThread(t)
        /\ UNCHANGED <<which_event, ret, hand, scan, fired>>
    BY <1>4 DEF AwaitSleep, LockedAll, trgvars
  <2>2. pc'[t] = "sleep" /\ (\A a \in Actors \ {t} : pc'[a] = pc[a])
    BY <1>0, <1>4 DEF AwaitSleep, Goto, TypeOK, Actors
  <2>3. /\ enqueued'[t] = FALSE /\ slots'[t] = 0
        /\ \A u \in Threads \ {t} : enqueued'[u] = enqueued[u] /\ slots'[u] = slots[u]
    BY <1>0, <2>1 DEF DequeueThread, UniInv, TypeOK
  <2>4. t \in Actors /\ pc[t] # "enqueue"
    BY <2>1 DEF Actors
  <2>5. \A b \in Actors : pc[b] # "enqueue"
    BY <2>1, <2>4, Alone
  <2>6. \A c \in Cpus : scan[c] # t
    <3>1. \A c \in Cpus : c # t /\ t # None
      BY <2>4, EventAssumption
    <3> QED
      BY <2>1, <2>4, <3>1, Alone
  <2>7. \A u \in Threads : /\ slots'[u] = IF enqueued'[u] THEN 1 ELSE 0
                           /\ pc'[u] = "sleep" /\ (enqueued'[u] \/ \E c \in Cpus : scan'[c] = u) =>
                                which_event'[u] \in fired'[u]
    BY <2>1, <2>2, <2>3, <2>6 DEF UniInv, Actors
  <2>8. \A b \in Actors : pc'[b] # "enqueue"
    BY <2>2, <2>5
  <2>9. ReturnsFired'
    BY <2>1, <2>2 DEF UniInv, ReturnsFired, Actors
  <2> QED
    BY <2>7, <2>8, <2>9 DEF UniInv
<1>5. ASSUME NEW t \in Threads, AttachPanic(t) PROVE UniInv'
  BY <1>5 DEF AttachPanic, tvars, awaitvars, trgvars, UniInv, ReturnsFired
<1>6. ASSUME NEW t \in Threads, ReadWhich(t) PROVE UniInv'
  <2>1. /\ pc[t] = "resumed" /\ UNCHANGED <<which_event, enqueued, slots, hand, scan, fired>>
        /\ ret' = [ret EXCEPT ![t] = which_event[t]]
    BY <1>6 DEF ReadWhich, tvars, trgvars
  <2>2. /\ pc'[t] = "relock" /\ (\A a \in Actors \ {t} : pc'[a] = pc[a])
        /\ ret'[t] = which_event[t] /\ \A u \in Threads \ {t} : ret'[u] = ret[u]
    BY <1>0, <1>6 DEF ReadWhich, Goto, TypeOK, Actors
  <2> QED
    BY <2>1, <2>2 DEF UniInv, ReturnsFired, Actors
<1>7. ASSUME NEW a \in Actors, NEW e \in Events, TriggerPending(a, e) PROVE UniInv'
  BY <1>7 DEF TriggerPending, tvars, awaitvars, trgvars, UniInv, ReturnsFired
<1>8. ASSUME NEW a \in Actors, NEW e \in Events, TriggerListeners(a, e) PROVE UniInv'
  <2>1. /\ pc[a] = "run" /\ UNCHANGED <<which_event, enqueued, slots, hand, scan, fired, ret>>
    BY <1>8 DEF TriggerListeners, CanTrigger, tvars, awaitvars
  <2>2. pc'[a] = "wake" /\ (\A b \in Actors \ {a} : pc'[b] = pc[b])
    BY <1>0, <1>8 DEF TriggerListeners, Goto, TypeOK, Actors
  <2> QED
    BY <2>1, <2>2 DEF UniInv, ReturnsFired, Actors
<1>9. ASSUME NEW a \in Actors, WakeListener(a) PROVE UniInv'
  <2>1. PICK l \in todo[a] :
          /\ which_event' = [which_event EXCEPT ![l.thread] = l.which]
          /\ fired' = [fired EXCEPT ![l.thread] = @ \cup {l.which}]
          /\ IF enqueued[l.thread]
               THEN UNCHANGED <<hand, pc>>
               ELSE hand' = [hand EXCEPT ![a] = l.thread] /\ Goto(a, "enqueue")
    BY <1>9 DEF WakeListener
  <2>2. CanStep(a) /\ pc[a] = "wake" /\ UNCHANGED <<enqueued, slots, scan, ret>>
    BY <1>9 DEF WakeListener, awaitvars
  <2>3. PICK u \in Threads : u = l.thread
    BY <1>0, <2>1 DEF TypeOK, Listeners
  <2>4. /\ which_event'[u] \in fired'[u] /\ fired[u] \subseteq fired'[u]
        /\ \A v \in Threads \ {u} : which_event'[v] = which_event[v] /\ fired'[v] = fired[v]
    BY <1>0, <2>1, <2>3 DEF TypeOK
  <2>5. \A v \in Threads : which_event[v] \in fired[v] => which_event'[v] \in fired'[v]
    BY <2>4
  <2>6. /\ (\A b \in Actors \ {a} : pc'[b] = pc[b] /\ pc[b] # "enqueue")
        /\ \/ pc'[a] = "wake"
           \/ pc'[a] = "enqueue" /\ ~ enqueued[u] /\ hand'[a] = u
    <3>1. \A b \in Actors \ {a} : pc[b] # "enqueue"
      BY <2>2, Alone
    <3>2. CASE enqueued[u]
      BY <2>1, <2>2, <2>3, <3>1, <3>2
    <3>3. CASE ~ enqueued[u]
      BY <1>0, <2>1, <2>3, <3>1, <3>3 DEF Goto, TypeOK
    <3> QED
      BY <3>2, <3>3
  <2>7. \A v \in Threads : /\ slots'[v] = IF enqueued'[v] THEN 1 ELSE 0
                           /\ pc'[v] = "sleep" /\ (enqueued'[v] \/ \E c \in Cpus : scan'[c] = v) =>
                                which_event'[v] \in fired'[v]
    BY <2>2, <2>5, <2>6 DEF UniInv, Actors
  <2>8. \A b \in Actors : pc'[b] = "enqueue" =>
          ~ enqueued'[hand'[b]] /\ which_event'[hand'[b]] \in fired'[hand'[b]]
    BY <2>2, <2>4, <2>6
  <2>9. ReturnsFired'
    <3>1. \A v \in Threads : fired[v] \subseteq fired'[v]
      BY <2>4
    <3>2. \A v \in Threads : pc'[v] \in {"resumed", "relock"} => pc[v] = pc'[v]
      BY <2>2, <2>6 DEF Actors
    <3> QED
      BY <2>2, <2>5, <3>1, <3>2 DEF UniInv, ReturnsFired
  <2> QED
    BY <2>7, <2>8, <2>9 DEF UniInv
<1>10. ASSUME NEW a \in Actors, EnqueueThread(a) PROVE UniInv'
  <2>1. PICK u \in Threads : u = hand[a]
    BY <1>10 DEF IInv, TriggerInv, EnqueueThread
  <2>2. /\ CanStep(a) /\ pc[a] = "enqueue" /\ UNCHANGED <<which_event, scan, ret, fired>>
        /\ slots' = [slots EXCEPT ![u] = @ + 1] /\ enqueued' = [enqueued EXCEPT ![u] = TRUE]
        /\ pc' = [pc EXCEPT ![a] = "wake"]
    BY <1>10, <2>1 DEF EnqueueThread, awaitvars, Goto
  <2>3. ~ enqueued[u] /\ which_event[u] \in fired[u] /\ slots[u] = 0
    BY <2>1, <2>2 DEF UniInv
  <2>4. /\ slots'[u] = 1 /\ enqueued'[u] = TRUE
        /\ \A v \in Threads \ {u} : slots'[v] = slots[v] /\ enqueued'[v] = enqueued[v]
        /\ pc'[a] = "wake" /\ \A b \in Actors \ {a} : pc'[b] = pc[b]
    BY <1>0, <2>2, <2>3 DEF TypeOK
  <2>5. \A b \in Actors \ {a} : pc[b] # "enqueue"
    BY <2>2, Alone
  <2>6. \A b \in Actors : pc'[b] # "enqueue"
    BY <2>4, <2>5
  <2> QED
    BY <2>2, <2>3, <2>4, <2>6 DEF UniInv, ReturnsFired, Actors
<1>11. ASSUME NEW a \in Actors, TriggerEnd(a) PROVE UniInv'
  <2>1. pc[a] = "wake" /\ UNCHANGED <<which_event, enqueued, slots, hand, scan, fired, ret>>
    BY <1>11 DEF TriggerEnd, tvars, awaitvars
  <2>2. pc'[a] = "run" /\ (\A b \in Actors \ {a} : pc'[b] = pc[b])
    BY <1>0, <1>11 DEF TriggerEnd, Goto, TypeOK
  <2> QED
    BY <2>1, <2>2 DEF UniInv, ReturnsFired, Actors
<1>12. ASSUME NEW c \in Cpus, NEW t \in Threads, ScanRead(c, t) PROVE UniInv'
  <2>1. /\ slots[t] > 0 /\ scan' = [scan EXCEPT ![c] = t]
        /\ UNCHANGED <<which_event, enqueued, slots, pc, hand, fired, ret>>
    BY <1>12 DEF ScanRead, tvars, awaitvars, trgvars
  <2>2. enqueued[t]
    BY <2>1 DEF UniInv
  <2>3. \A d \in Cpus : scan'[d] = scan[d] \/ scan'[d] = t
    BY <1>0, <2>1 DEF TypeOK
  <2> QED
    BY <2>1, <2>2, <2>3 DEF UniInv, ReturnsFired
<1>13. ASSUME NEW c \in Cpus, ScanRun(c) \/ ScanBusy(c) PROVE UniInv'
  <2>1. PICK t \in Threads : t = scan[c]
    BY <1>0, <1>13 DEF ScanRun, ScanBusy, TypeOK
  <2>2. /\ UNCHANGED <<which_event, enqueued, slots, hand, fired, ret>>
        /\ scan' = [scan EXCEPT ![c] = None]
        /\ pc' = pc \/ (pc[t] = "sleep" /\ pc' = [pc EXCEPT ![t] = "resumed"])
    BY <1>13, <2>1 DEF ScanRun, ScanBusy, Goto, tvars, awaitvars, trgvars
  <2>3. None \notin Threads
    BY EventAssumption DEF Actors
  <2>4. \A d \in Cpus : \A u \in Threads : scan'[d] = u => scan[d] = u
    BY <1>0, <2>2, <2>3 DEF TypeOK
  <2>5. \A b \in Actors : pc'[b] = pc[b] \/ (b = t /\ pc[b] = "sleep" /\ pc'[b] = "resumed")
    BY <1>0, <2>2 DEF TypeOK
  <2>6. pc[t] = "sleep" => which_event[t] \in fired[t]
    BY <2>1 DEF UniInv
  <2> QED
    BY <2>2, <2>4, <2>5, <2>6 DEF UniInv, ReturnsFired, Actors
<1> QED
  BY <1>1, <1>2, <1>3, <1>4, <1>5, <1>6, <1>7, <1>8, <1>9, <1>10, <1>11, <1>12, <1>13
     DEF Next, Await, Trigger, Visit, Scan

\* On a machine with one CPU a blocking event_await returns the index of an event
\* that was triggered during this wait: no stale which_event, no wakeup without a
\* trigger.
THEOREM AwaitReturnsFired ==
  ASSUME SMP = FALSE
  PROVE  Spec => []ReturnsFired
<1>1. Init => UniInv
  BY EventAssumption DEF Init, UniInv, ReturnsFired, Actors
<1>2. IInv /\ UniInv /\ [Next]_vars => UniInv'
  <2>1. IInv /\ UniInv /\ Next => UniInv'
    BY UniStep
  <2>2. UniInv /\ UNCHANGED vars => UniInv'
    BY DEF vars, tvars, awaitvars, trgvars, UniInv, ReturnsFired
  <2> QED
    BY <2>1, <2>2
<1>3. UniInv => ReturnsFired
  BY DEF UniInv
<1> QED
  BY <1>1, <1>2, <1>3, Inductive, PTL DEF Spec

=============================================================================
