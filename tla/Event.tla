------------------------------- MODULE Event -------------------------------
(***************************************************************************)
(* Kernel events: kernel/lib/event.c over the spinlocks of                 *)
(* kernel/lib/lock.c and the run queue of kernel/sched/sched.c.            *)
(*                                                                         *)
(* A thread that finds nothing pending attaches a listener to each event   *)
(* it waits for, takes itself off the run queue and yields; a trigger of   *)
(* one of them puts it back.  Every critical section runs with interrupts  *)
(* off and holds the locks of the events it touches, taken one at a time.  *)
(*                                                                         *)
(* Abstractions.  An event's listener array is a set of records: its order *)
(* only decides the order of the wakeups.  Array indices start at 1, and   *)
(* NoIndex stands for the return value -1.  The run queue is the number of *)
(* slots that hold a thread.  Locks are released together, in the step     *)
(* that ends the critical section: a release only enables other steps.     *)
(* No caller in the kernel passes drop = true to event_trigger or          *)
(* by_signal = true to sched_enqueue_thread, so neither is modelled and a  *)
(* blocking wait never returns -1.  The run queue has room here: the       *)
(* failure return of sched_enqueue_thread when no slot is free, which      *)
(* event_trigger ignores, is modelled in Sched only.                       *)
(***************************************************************************)
EXTENDS Naturals, Sequences, FiniteSets

CONSTANTS
  Threads,       \* threads: they wait for events and trigger them
  Irqs,          \* interrupt handlers: they only trigger events
  Cpus,          \* CPUs in get_next_thread, looking for a thread to run
  Events,
  Awaits,        \* the event arrays that callers pass to event_await
  MaxListeners,  \* EVENT_MAX_LISTENERS
  MaxEvents,     \* MAX_EVENTS
  MaxPending,    \* bound: no trigger of an event with that many pending
  MaxSlots,      \* bound: no trigger while a thread has that many slots
  SMP,           \* FALSE on a machine with one CPU
  None           \* no thread, no event

Actors == Threads \cup Irqs
NoIndex == 0

ASSUME EventAssumption ==
  /\ Threads \cap Irqs = {} /\ Cpus \cap Actors = {}
  /\ Awaits \subseteq Seq(Events) \ {<<>>}
  /\ None \notin Actors \cup Events
  /\ MaxListeners \in Nat /\ MaxEvents \in Nat
  /\ MaxPending \in Nat /\ MaxSlots \in Nat
  /\ SMP \in BOOLEAN

VARIABLES
  lock,         \* struct event: lock, the actor that holds it
  pending,      \* struct event: pending
  listeners,    \* struct event: listeners[0 .. listeners_i)
  which_event,  \* struct thread: which_event
  enqueued,     \* struct thread: enqueued
  slots,        \* how many entries of running_queue hold the thread
  pc,           \* where each actor is
  args,         \* the array a thread has passed to event_await, <<>> outside
  held,         \* how many locks of that array lock_events has taken
  ret,          \* what event_await returns
  trg,          \* the event an actor triggers
  todo,         \* listeners that event_trigger has not visited yet
  hand,         \* the thread inside sched_enqueue_thread
  scan,         \* the thread a CPU has read from a slot and not locked yet
  panicked,     \* a panic() has stopped the machine
  fired         \* history: indices triggered since the thread attached

evars == <<lock, pending, listeners>>
tvars == <<which_event, enqueued, slots>>
awaitvars == <<args, held, ret>>
trgvars == <<trg, todo, hand>>
vars == <<evars, tvars, pc, awaitvars, trgvars, scan, panicked, fired>>

Listeners == [thread : Threads, which : Nat]

TypeOK ==
  /\ lock \in [Events -> Actors \cup {None}]
  /\ pending \in [Events -> Nat]
  /\ listeners \in [Events -> SUBSET Listeners]
  /\ which_event \in [Threads -> Nat]
  /\ enqueued \in [Threads -> BOOLEAN]
  /\ slots \in [Threads -> Nat]
  /\ pc \in [Actors -> {"run", "lock", "sleep", "resumed", "relock",
                        "wake", "enqueue"}]
  /\ \A a \in Irqs : pc[a] \notin {"lock", "sleep", "resumed", "relock"}
  /\ args \in [Threads -> Seq(Events)]
  /\ held \in [Threads -> Nat]
  /\ ret \in [Threads -> Nat]
  /\ trg \in [Actors -> Events \cup {None}]
  /\ todo \in [Actors -> SUBSET Listeners]
  /\ hand \in [Actors -> Threads \cup {None}]
  /\ scan \in [Cpus -> Threads \cup {None}]
  /\ panicked \in BOOLEAN
  /\ fired \in [Threads -> SUBSET Nat]

Init ==
  /\ lock = [e \in Events |-> None]
  /\ pending = [e \in Events |-> 0]
  /\ listeners = [e \in Events |-> {}]
  /\ which_event = [t \in Threads |-> NoIndex]
  /\ enqueued = [t \in Threads |-> TRUE]
  /\ slots = [t \in Threads |-> 1]
  /\ pc = [a \in Actors |-> "run"]
  /\ args = [t \in Threads |-> <<>>]
  /\ held = [t \in Threads |-> 0]
  /\ ret = [t \in Threads |-> NoIndex]
  /\ trg = [a \in Actors |-> None]
  /\ todo = [a \in Actors |-> {}]
  /\ hand = [a \in Actors |-> None]
  /\ scan = [c \in Cpus |-> None]
  /\ panicked = FALSE
  /\ fired = [t \in Threads |-> {}]

-----------------------------------------------------------------------------
(* Interrupts.  interrupt_toggle(false) keeps the CPU to itself: with one  *)
(* CPU nobody else steps inside such a section.                            *)

IntsOff(a) == pc[a] \in {"lock", "relock", "wake", "enqueue"}

CanStep(self) ==
  \/ SMP
  \/ /\ \A a \in Actors : a # self => ~IntsOff(a)
     /\ \A c \in Cpus : c # self => scan[c] = None

Goto(a, label) == pc' = [pc EXCEPT ![a] = label]

-----------------------------------------------------------------------------
(* event_await *)

EventsOf(t) == {args[t][i] : i \in DOMAIN args[t]}

AwaitBegin(t, events) ==
  /\ CanStep(t)
  /\ pc[t] = "run"
  /\ args' = [args EXCEPT ![t] = events]
  /\ Goto(t, "lock")
  /\ UNCHANGED <<evars, tvars, held, ret, trgvars, scan, panicked, fired>>

\* One turn of the loop of lock_events: spinlock_acquire spins until the
\* compare-and-swap succeeds.
LockEvent(t) ==
  /\ CanStep(t)
  /\ pc[t] \in {"lock", "relock"}
  /\ held[t] < Len(args[t])
  /\ lock[args[t][held[t] + 1]] = None
  /\ lock' = [lock EXCEPT ![args[t][held[t] + 1]] = t]
  /\ held' = [held EXCEPT ![t] = @ + 1]
  /\ UNCHANGED <<pending, listeners, tvars, pc, args, ret, trgvars,
                 scan, panicked, fired>>

LockedAll(t, label) ==
  /\ CanStep(t)
  /\ pc[t] = label
  /\ held[t] = Len(args[t])

UnlockEvents(t) ==
  lock' = [e \in Events |-> IF e \in EventsOf(t) THEN None ELSE lock[e]]

\* Mutant of IsPending: only the first event of the array is looked at.
FirstIsPending(t, i) == i = 1 /\ pending[args[t][1]] > 0

\* The loop condition of check_for_pending.
IsPending(t, i) == pending[args[t][i]] > 0

NonePending(t) == \A i \in DOMAIN args[t] : ~IsPending(t, i)

\* The end of event_await: its local variables are gone.
Return(t) ==
  /\ Goto(t, "run")
  /\ args' = [args EXCEPT ![t] = <<>>]
  /\ held' = [held EXCEPT ![t] = 0]
  /\ ret' = [ret EXCEPT ![t] = NoIndex]
  /\ fired' = [fired EXCEPT ![t] = {}]

\* check_for_pending finds an event: consume one trigger, return its index.
AwaitReady(t) ==
  /\ LockedAll(t, "lock")
  /\ \E i \in DOMAIN args[t] :
       /\ IsPending(t, i)
       /\ \A j \in 1 .. i - 1 : ~IsPending(t, j)
       /\ pending' = [pending EXCEPT ![args[t][i]] = @ - 1]
  /\ UnlockEvents(t)
  /\ Return(t)
  /\ UNCHANGED <<listeners, tvars, trgvars, scan, panicked>>

\* Nothing pending and the caller does not want to block.  (Its flag is read
\* only here: a step for either value is possible, this one or the next two.)
AwaitWouldBlock(t) ==
  /\ LockedAll(t, "lock")
  /\ NonePending(t)
  /\ UnlockEvents(t)
  /\ Return(t)
  /\ UNCHANGED <<pending, listeners, tvars, trgvars, scan, panicked>>

\* attach_listeners: the check before "Event listeners exhausted".
ListenersFull(e) == Cardinality(listeners[e]) = MaxListeners

\* attach_listeners: the check before "Listening on too many events".
TooManyEvents(t) == Len(args[t]) > MaxEvents

\* attach_listeners(events, num_events, thread)
AttachListeners(t) ==
  listeners' = [e \in Events |->
    listeners[e] \cup
      {[thread |-> t, which |-> i] : i \in {j \in DOMAIN args[t] : args[t][j] = e}}]

\* sched_dequeue_thread(thread)
DequeueThread(t) ==
  IF enqueued[t] /\ slots[t] > 0
    THEN /\ slots' = [slots EXCEPT ![t] = @ - 1]
         /\ enqueued' = [enqueued EXCEPT ![t] = FALSE]
    ELSE UNCHANGED <<slots, enqueued>>

\* Nothing pending: attach, leave the run queue, unlock and yield.
AwaitSleep(t) ==
  /\ LockedAll(t, "lock")
  /\ NonePending(t)
  /\ \A e \in EventsOf(t) : ~ListenersFull(e)
  /\ ~TooManyEvents(t)
  /\ AttachListeners(t)
  /\ DequeueThread(t)
  /\ UnlockEvents(t)
  /\ held' = [held EXCEPT ![t] = 0]
  /\ Goto(t, "sleep")
  /\ UNCHANGED <<pending, which_event, args, ret, trgvars, scan, panicked,
                 fired>>

\* attach_listeners panics; panic() stops every CPU.
AttachPanic(t) ==
  /\ LockedAll(t, "lock")
  /\ NonePending(t)
  /\ \/ \E e \in EventsOf(t) : ListenersFull(e)
     \/ TooManyEvents(t)
  /\ panicked' = TRUE
  /\ UNCHANGED <<evars, tvars, pc, awaitvars, trgvars, scan, fired>>

\* Back from sched_yield: interrupts go off and which_event is read, before
\* any lock is taken.
ReadWhich(t) ==
  /\ CanStep(t)
  /\ pc[t] = "resumed"
  /\ ret' = [ret EXCEPT ![t] = which_event[t]]
  /\ Goto(t, "relock")
  /\ UNCHANGED <<evars, tvars, args, held, trgvars, scan, panicked, fired>>

\* Mutant of OwnListener: the entry is not compared with the thread.
AnyListener(t, e) ==
  IF listeners[e] # {} THEN {CHOOSE l \in listeners[e] : TRUE} ELSE {}

\* The entry of the listener array that detach_listeners overwrites.
OwnListener(t, e) ==
  IF \E l \in listeners[e] : l.thread = t
    THEN {CHOOSE l \in listeners[e] : l.thread = t}
    ELSE {}

\* Mutant of DetachListeners: only the event that woke the thread is left.
DetachFired(t) ==
  listeners' = [e \in Events |->
    IF ret[t] \in DOMAIN args[t] /\ e = args[t][ret[t]]
      THEN listeners[e] \ OwnListener(t, e) ELSE listeners[e]]

\* detach_listeners(thread)
DetachListeners(t) ==
  listeners' = [e \in Events |->
    IF e \in EventsOf(t) THEN listeners[e] \ OwnListener(t, e) ELSE listeners[e]]

\* cleanup2: every lock held again, detach and return.
AwaitReturn(t) ==
  /\ LockedAll(t, "relock")
  /\ DetachListeners(t)
  /\ UnlockEvents(t)
  /\ Return(t)
  /\ UNCHANGED <<pending, tvars, trgvars, scan, panicked>>

-----------------------------------------------------------------------------
(* event_trigger.  Its caller holds no event lock, so the spin on the lock *)
(* shows nothing: the call is the step that gets the lock.                 *)

CanTrigger(a, e) ==
  /\ CanStep(a)
  /\ pc[a] = "run"
  /\ lock[e] = None
  /\ \A t \in Threads : slots[t] < MaxSlots

\* Nobody listens: the trigger stays pending.
TriggerPending(a, e) ==
  /\ CanTrigger(a, e)
  /\ pending[e] < MaxPending
  /\ listeners[e] = {}
  /\ pending' = [pending EXCEPT ![e] = @ + 1]
  /\ UNCHANGED <<lock, listeners, tvars, pc, awaitvars, trgvars, scan,
                 panicked, fired>>

\* Somebody listens: keep the lock and visit the listeners.
TriggerListeners(a, e) ==
  /\ CanTrigger(a, e)
  /\ listeners[e] # {}
  /\ trg' = [trg EXCEPT ![a] = e]
  /\ lock' = [lock EXCEPT ![e] = a]
  /\ todo' = [todo EXCEPT ![a] = listeners[e]]
  /\ Goto(a, "wake")
  /\ UNCHANGED <<pending, listeners, tvars, awaitvars, hand, scan, panicked,
                 fired>>

\* Mutant of WakeListener: which_event is set after the check of enqueued.
WakeListenerLate(a) ==
  /\ CanStep(a)
  /\ pc[a] = "wake"
  /\ \E l \in todo[a] :
       /\ todo' = [todo EXCEPT ![a] = @ \ {l}]
       /\ fired' = [fired EXCEPT ![l.thread] = @ \cup {l.which}]
       /\ IF enqueued[l.thread]
            THEN /\ which_event' = [which_event EXCEPT ![l.thread] = l.which]
                 /\ UNCHANGED <<hand, pc>>
            ELSE /\ hand' = [hand EXCEPT ![a] = l.thread]
                 /\ Goto(a, "enqueue")
                 /\ UNCHANGED which_event
  /\ UNCHANGED <<evars, enqueued, slots, awaitvars, trg, scan, panicked>>

\* One turn of the loop of event_trigger, up to the test of thread->enqueued
\* with which sched_enqueue_thread begins.
WakeListener(a) ==
  /\ CanStep(a)
  /\ pc[a] = "wake"
  /\ \E l \in todo[a] :
       /\ todo' = [todo EXCEPT ![a] = @ \ {l}]
       /\ which_event' = [which_event EXCEPT ![l.thread] = l.which]
       /\ fired' = [fired EXCEPT ![l.thread] = @ \cup {l.which}]
       /\ IF enqueued[l.thread]
            THEN UNCHANGED <<hand, pc>>
            ELSE /\ hand' = [hand EXCEPT ![a] = l.thread]
                 /\ Goto(a, "enqueue")
  /\ UNCHANGED <<evars, enqueued, slots, awaitvars, trg, scan, panicked>>

\* Mutant of EnqueueThread: the flag is set and the slot is not.
EnqueueNoSlot(a) ==
  /\ CanStep(a)
  /\ pc[a] = "enqueue"
  /\ enqueued' = [enqueued EXCEPT ![hand[a]] = TRUE]
  /\ hand' = [hand EXCEPT ![a] = None]
  /\ Goto(a, "wake")
  /\ UNCHANGED <<evars, which_event, slots, awaitvars, trg, todo, scan,
                 panicked, fired>>

\* The rest of sched_enqueue_thread: a slot of the run queue, the flag.
EnqueueThread(a) ==
  /\ CanStep(a)
  /\ pc[a] = "enqueue"
  /\ slots' = [slots EXCEPT ![hand[a]] = @ + 1]
  /\ enqueued' = [enqueued EXCEPT ![hand[a]] = TRUE]
  /\ hand' = [hand EXCEPT ![a] = None]
  /\ Goto(a, "wake")
  /\ UNCHANGED <<evars, which_event, awaitvars, trg, todo, scan, panicked,
                 fired>>

\* Every listener visited: empty the array and release the lock.
TriggerEnd(a) ==
  /\ CanStep(a)
  /\ pc[a] = "wake"
  /\ todo[a] = {}
  /\ listeners' = [listeners EXCEPT ![trg[a]] = {}]
  /\ lock' = [lock EXCEPT ![trg[a]] = None]
  /\ trg' = [trg EXCEPT ![a] = None]
  /\ Goto(a, "run")
  /\ UNCHANGED <<pending, tvars, awaitvars, todo, hand, scan, panicked, fired>>

-----------------------------------------------------------------------------
(* get_next_thread: a CPU reads a slot of the run queue and then tries to  *)
(* take the lock of the thread it found there.  A thread's lock is free    *)
(* while the thread is off its CPU, in the yield of event_await.           *)

ScanRead(c, t) ==
  /\ CanStep(c)
  /\ scan[c] = None
  /\ slots[t] > 0
  /\ scan' = [scan EXCEPT ![c] = t]
  /\ UNCHANGED <<evars, tvars, pc, awaitvars, trgvars, panicked, fired>>

ScanRun(c) ==
  /\ CanStep(c)
  /\ scan[c] # None
  /\ pc[scan[c]] = "sleep"
  /\ Goto(scan[c], "resumed")
  /\ scan' = [scan EXCEPT ![c] = None]
  /\ UNCHANGED <<evars, tvars, awaitvars, trgvars, panicked, fired>>

\* The thread runs elsewhere, its lock is taken: the scan goes on.
ScanBusy(c) ==
  /\ CanStep(c)
  /\ scan[c] # None
  /\ pc[scan[c]] # "sleep"
  /\ scan' = [scan EXCEPT ![c] = None]
  /\ UNCHANGED <<evars, tvars, pc, awaitvars, trgvars, panicked, fired>>

-----------------------------------------------------------------------------

Await(t) ==
  \/ \E events \in Awaits : AwaitBegin(t, events)
  \/ LockEvent(t)
  \/ AwaitReady(t)
  \/ AwaitWouldBlock(t)
  \/ AwaitSleep(t)
  \/ AttachPanic(t)
  \/ ReadWhich(t)
  \/ AwaitReturn(t)

Visit(a) == WakeListener(a) \/ EnqueueThread(a) \/ TriggerEnd(a)

Trigger(a) ==
  \/ \E e \in Events : TriggerPending(a, e) \/ TriggerListeners(a, e)
  \/ Visit(a)

Scan(c) == (\E t \in Threads : ScanRead(c, t)) \/ ScanRun(c) \/ ScanBusy(c)

Next ==
  /\ ~panicked
  /\ \/ \E t \in Threads : Await(t)
     \/ \E a \in Actors : Trigger(a)
     \/ \E c \in Cpus : Scan(c)

Spec == Init /\ [][Next]_vars

(* A section with interrupts off runs to its end.  The round robin of      *)
(* get_next_thread reads the slot of a queued thread again and again, and  *)
(* a scan that found a thread does not stop there.  A thread that has      *)
(* called event_await goes on with it when it can.                         *)
Fairness ==
  /\ \A t \in Threads : WF_vars(Next /\ Await(t) /\ pc[t] # "run")
  /\ \A a \in Actors : WF_vars(Next /\ Visit(a))
  /\ \A c \in Cpus :
       /\ WF_vars(Next /\ (ScanRun(c) \/ ScanBusy(c)))
       /\ \A t \in Threads : SF_vars(Next /\ ScanRead(c, t))

FairSpec == Spec /\ Fairness

-----------------------------------------------------------------------------
(* Properties *)

\* event_await never leaves a thread listening on an event that has a
\* trigger pending: between the check and the attachment no trigger fits in.
NoSleepOnPending ==
  \A e \in Events : pending[e] > 0 => listeners[e] = {}

\* No lost wakeup: a thread that is asleep and off the run queue is still
\* listed by every event of its array, so any trigger of them finds it.
SleeperListed ==
  \A t \in Threads : pc[t] = "sleep" /\ ~enqueued[t] =>
    \A i \in DOMAIN args[t] :
      [thread |-> t, which |-> i] \in listeners[args[t][i]]

\* No dangling listener: an entry belongs to a wait that is still under way
\* and its index is the event's place in that wait's array.  Callers free
\* events (timers) and reuse indices as soon as event_await returns.
ListenersLive ==
  \A e \in Events : \A l \in listeners[e] :
    /\ pc[l.thread] \in {"sleep", "resumed", "relock"}
    /\ l.which \in DOMAIN args[l.thread]
    /\ args[l.thread][l.which] = e

\* The index that a blocking event_await returns is that of an event which
\* was triggered during this wait.  (On one CPU; see README for SMP.)
ReturnsFired ==
  \A t \in Threads :
    /\ pc[t] = "resumed" => which_event[t] \in fired[t]
    /\ pc[t] = "relock" => ret[t] \in fired[t]

\* A listener that a trigger has seen runs again, unless the kernel panics.
TriggerWakes ==
  \A a \in Actors, t \in Threads :
    (pc[a] = "wake" /\ \E l \in todo[a] : l.thread = t)
      ~> (pc[t] # "sleep" \/ panicked)

=============================================================================
