------------------------------- MODULE Sched -------------------------------
(***************************************************************************)
(* The scheduler, kernel/sched/sched.c: a global run queue that every CPU  *)
(* scans from its own position, a lock per thread that says whether some   *)
(* CPU runs it, and sched_entry, the handler of the scheduling interrupt,  *)
(* which both the one-shot LAPIC timer and the inter-processor interrupts  *)
(* of kernel/dev/lapic.c raise.                                            *)
(*                                                                         *)
(* A thread's life is reduced to the operations the scheduler sees: create *)
(* a thread, block in event_await, wake a thread that listens, turn        *)
(* scheduling off for a TLB shootdown, die.  Ops says which of them each   *)
(* thread performs, in any order.  The lock of the event that a thread     *)
(* waits for (kernel/lib/event.c) is elock: it is what keeps a thread      *)
(* inside event_await until the trigger that woke it is done.              *)
(*                                                                         *)
(* Abstractions.  A saved context is reduced to whether it is the one with *)
(* which the thread last left a CPU.  Interrupts are edge-latched per      *)
(* vector: an interrupt raised while one is latched is not a second one.   *)
(* The compare-and-swap loops over the run queue take some slot that fits. *)
(***************************************************************************)
EXTENDS Naturals, FiniteSets

CONSTANTS
  Threads,
  Cpus,
  MaxRunning,   \* MAX_RUNNING_THREADS
  Ops,          \* the operations that each thread performs
  Boot,         \* the thread that is queued at boot
  None          \* NULL; as the current thread of a CPU, its idle thread

ASSUME SchedAssumption ==
  /\ MaxRunning \in Nat \ {0}
  /\ Boot \in Threads
  /\ None \notin Threads

ASSUME OpsAssumption ==
  Ops \in [Threads -> SUBSET {"create", "block", "trigger", "off", "die"}]

Slots == 0 .. MaxRunning - 1

VARIABLES
  running_queue,    \* [Slots -> Threads \cup {None}]
  enqueued,         \* struct thread: enqueued
  tlock,            \* struct thread: lock
  yield_await,      \* struct thread: yield_await
  ctx,              \* struct thread: ctx holds what the thread left with
  tpc,              \* where each thread is
  hand,             \* the thread that a thread enqueues
  listening,        \* the thread is on the listener array of its event
  elock,            \* the lock of that event, held by the thread that triggers it
  last,             \* struct cpu_local: last_run_queue_index
  active,           \* struct cpu_local: active
  gs,               \* sched_current_thread() of each CPU
  on,               \* the thread whose code a CPU executes
  timer,            \* the one-shot timer of a CPU is armed
  irr,              \* the scheduling interrupt is latched
  cpc,              \* where each CPU is
  index,            \* get_next_thread: index
  seen,             \* get_next_thread: thread
  next              \* sched_entry: next_thread

qvars == <<running_queue, enqueued>>
lvars == <<tlock, yield_await, ctx>>
tvars == <<tpc, hand, listening, elock>>
ivars == <<timer, irr>>
hvars == <<last, active, gs, on, cpc, index, seen, next>>
vars == <<qvars, lvars, tvars, ivars, hvars>>

TypeOK ==
  /\ running_queue \in [Slots -> Threads \cup {None}]
  /\ enqueued \in [Threads -> BOOLEAN]
  /\ tlock \in [Threads -> BOOLEAN]
  /\ yield_await \in [Threads -> BOOLEAN]
  /\ ctx \in [Threads -> BOOLEAN]
  /\ tpc \in [Threads -> {"new", "user", "tlb", "yield", "spin", "slot",
                          "flag", "die", "dead"}]
  /\ hand \in [Threads -> Threads \cup {None}]
  /\ listening \in [Threads -> BOOLEAN]
  /\ elock \in [Threads -> Threads \cup {None}]
  /\ last \in [Cpus -> Slots]
  /\ active \in [Cpus -> BOOLEAN]
  /\ gs \in [Cpus -> Threads \cup {None}]
  /\ on \in [Cpus -> Threads \cup {None}]
  /\ timer \in [Cpus -> BOOLEAN]
  /\ irr \in [Cpus -> BOOLEAN]
  /\ cpc \in [Cpus -> {"thread", "halt", "scan", "try", "picked", "saved",
                       "switch"}]
  /\ index \in [Cpus -> Slots]
  /\ seen \in [Cpus -> Threads \cup {None}]
  /\ next \in [Cpus -> Threads \cup {None}]

\* Every CPU waits in sched_await; the first thread has been queued.
Init ==
  /\ running_queue = [i \in Slots |-> IF i = 0 THEN Boot ELSE None]
  /\ enqueued = [t \in Threads |-> t = Boot]
  /\ tlock = [t \in Threads |-> FALSE]
  /\ yield_await = [t \in Threads |-> FALSE]
  /\ ctx = [t \in Threads |-> t = Boot]
  /\ tpc = [t \in Threads |-> IF t = Boot THEN "user" ELSE "new"]
  /\ hand = [t \in Threads |-> None]
  /\ listening = [t \in Threads |-> FALSE]
  /\ elock = [t \in Threads |-> None]
  /\ last = [c \in Cpus |-> 0]
  /\ active = [c \in Cpus |-> FALSE]
  /\ gs = [c \in Cpus |-> None]
  /\ on = [c \in Cpus |-> None]
  /\ timer = [c \in Cpus |-> TRUE]
  /\ irr = [c \in Cpus |-> FALSE]
  /\ cpc = [c \in Cpus |-> "halt"]
  /\ index = [c \in Cpus |-> 0]
  /\ seen = [c \in Cpus |-> None]
  /\ next = [c \in Cpus |-> None]

-----------------------------------------------------------------------------
(* Steps of the thread that a CPU runs *)

\* CPU c executes thread t, which is at the given place.
Runs(c, t, label) == cpc[c] = "thread" /\ on[c] = t /\ tpc[t] = label

\* event_trigger runs with interrupts off, the creation of a thread does not.
Triggers(t) == hand[t] # None /\ elock[hand[t]] = t

IntsOn(c) ==
  \/ cpc[c] = "halt"
  \/ /\ cpc[c] = "thread"
     /\ \/ tpc[on[c]] \in {"user", "tlb", "spin", "dead"}
        \/ tpc[on[c]] \in {"slot", "flag"} /\ ~Triggers(on[c])

Goto(t, label) == tpc' = [tpc EXCEPT ![t] = label]

\* sched_dequeue_thread(thread)
DequeueThread(t) ==
  \/ /\ enqueued[t]
     /\ \E i \in Slots :
          /\ running_queue[i] = t
          /\ running_queue' = [running_queue EXCEPT ![i] = None]
     /\ enqueued' = [enqueued EXCEPT ![t] = FALSE]
  \/ /\ enqueued[t] => \A i \in Slots : running_queue[i] # t
     /\ UNCHANGED qvars

\* event_await finds nothing pending: listen, leave the run queue.
Block(c, t) ==
  /\ "block" \in Ops[t]
  /\ Runs(c, t, "user")
  /\ elock[t] = None
  /\ listening' = [listening EXCEPT ![t] = TRUE]
  /\ DequeueThread(t)
  /\ Goto(t, "yield")
  /\ UNCHANGED <<lvars, hand, elock, ivars, hvars>>

\* sched_yield(true), up to its second acquisition of yield_await.
Yield(c, t) ==
  /\ Runs(c, t, "yield")
  /\ timer' = [timer EXCEPT ![c] = FALSE]
  /\ yield_await' = [yield_await EXCEPT ![t] = TRUE]
  /\ irr' = [irr EXCEPT ![c] = TRUE]
  /\ Goto(t, "spin")
  /\ UNCHANGED <<qvars, tlock, ctx, hand, listening, elock, hvars>>

\* The rest of sched_yield(true) and of event_await.
Resume(c, t) ==
  /\ Runs(c, t, "spin")
  /\ ~yield_await[t]
  /\ elock[t] = None
  /\ listening' = [listening EXCEPT ![t] = FALSE]
  /\ Goto(t, "user")
  /\ UNCHANGED <<qvars, lvars, hand, elock, ivars, hvars>>

\* sched_dequeue_and_die, up to sched_yield(false).
Die(c, t) ==
  /\ "die" \in Ops[t]
  /\ Runs(c, t, "user")
  /\ DequeueThread(t)
  /\ Goto(t, "die")
  /\ UNCHANGED <<lvars, hand, listening, elock, ivars, hvars>>

\* sched_yield(false): the idle thread becomes the current one.
YieldForever(c, t) ==
  /\ Runs(c, t, "die")
  /\ timer' = [timer EXCEPT ![c] = FALSE]
  /\ gs' = [gs EXCEPT ![c] = None]
  /\ irr' = [irr EXCEPT ![c] = TRUE]
  /\ Goto(t, "dead")
  /\ UNCHANGED <<qvars, lvars, hand, listening, elock, last, active, on, cpc,
                 index, seen, next>>

\* tlb_shootdown turns scheduling off while it uses this_cpu() ...
SchedulingOff(c, t) ==
  /\ "off" \in Ops[t]
  /\ Runs(c, t, "user")
  /\ Goto(t, "tlb")
  /\ UNCHANGED <<qvars, lvars, hand, listening, elock, ivars, hvars>>

\* ... and on again.
SchedulingOn(c, t) ==
  /\ Runs(c, t, "tlb")
  /\ Goto(t, "user")
  /\ UNCHANGED <<qvars, lvars, hand, listening, elock, ivars, hvars>>

-----------------------------------------------------------------------------
(* sched_enqueue_thread *)

\* From sched_new_kernel_thread, sched_new_user_thread or syscall_fork.
Create(c, t, u) ==
  /\ "create" \in Ops[t]
  /\ Runs(c, t, "user")
  /\ tpc[u] = "new"
  /\ tpc' = [tpc EXCEPT ![t] = "slot", ![u] = "user"]
  /\ ctx' = [ctx EXCEPT ![u] = TRUE]
  /\ hand' = [hand EXCEPT ![t] = u]
  /\ UNCHANGED <<qvars, tlock, yield_await, listening, elock, ivars, hvars>>

\* From event_trigger: the thread is still enqueued.
TriggerEnqueued(c, t, u) ==
  /\ "trigger" \in Ops[t]
  /\ Runs(c, t, "user")
  /\ listening[u]
  /\ elock[u] = None
  /\ enqueued[u]
  /\ listening' = [listening EXCEPT ![u] = FALSE]
  /\ UNCHANGED <<qvars, lvars, tpc, hand, elock, ivars, hvars>>

\* From event_trigger: the thread is not enqueued.
Trigger(c, t, u) ==
  /\ "trigger" \in Ops[t]
  /\ Runs(c, t, "user")
  /\ listening[u]
  /\ elock[u] = None
  /\ ~enqueued[u]
  /\ elock' = [elock EXCEPT ![u] = t]
  /\ hand' = [hand EXCEPT ![t] = u]
  /\ Goto(t, "slot")
  /\ UNCHANGED <<qvars, lvars, listening, ivars, hvars>>

\* The compare-and-swap on a free slot succeeds.
TakeSlot(c, t) ==
  /\ Runs(c, t, "slot")
  /\ \E i \in Slots :
       /\ running_queue[i] = None
       /\ running_queue' = [running_queue EXCEPT ![i] = hand[t]]
  /\ Goto(t, "flag")
  /\ UNCHANGED <<enqueued, lvars, hand, listening, elock, ivars, hvars>>

\* Back in the caller: event_trigger empties the array and unlocks.
EnqueueReturn(t) ==
  /\ Goto(t, "user")
  /\ hand' = [hand EXCEPT ![t] = None]
  /\ IF Triggers(t)
       THEN /\ elock' = [elock EXCEPT ![hand[t]] = None]
            /\ listening' = [listening EXCEPT ![hand[t]] = FALSE]
       ELSE UNCHANGED <<elock, listening>>

\* No slot is free: the call returns false, which no caller looks at.
QueueFull(c, t) ==
  /\ Runs(c, t, "slot")
  /\ \A i \in Slots : running_queue[i] # None
  /\ EnqueueReturn(t)
  /\ UNCHANGED <<qvars, lvars, ivars, hvars>>

\* thread->enqueued, then an interrupt for one inactive CPU.
SetEnqueued(c, t) ==
  /\ Runs(c, t, "flag")
  /\ enqueued' = [enqueued EXCEPT ![hand[t]] = TRUE]
  /\ \/ \E d \in Cpus : ~active[d] /\ irr' = [irr EXCEPT ![d] = TRUE]
     \/ (\A d \in Cpus : active[d]) /\ UNCHANGED irr
  /\ EnqueueReturn(t)
  /\ UNCHANGED <<running_queue, lvars, timer, hvars>>

-----------------------------------------------------------------------------
(* sched_entry *)

Label(c, label) == cpc' = [cpc EXCEPT ![c] = label]

\* The one-shot timer runs out.
TimerExpires(c) ==
  /\ timer[c]
  /\ timer' = [timer EXCEPT ![c] = FALSE]
  /\ irr' = [irr EXCEPT ![c] = TRUE]
  /\ UNCHANGED <<qvars, lvars, tvars, hvars>>

\* Mutant of Off: scheduling_off is not looked at.
OffIgnored(c) == FALSE

\* The interrupted code has turned scheduling off.
Off(c) == gs[c] # None /\ tpc[gs[c]] = "tlb"

\* The interrupt comes at a bad time: try again in a timeslice.
EntryOff(c) ==
  /\ irr[c] /\ IntsOn(c)
  /\ Off(c)
  /\ irr' = [irr EXCEPT ![c] = FALSE]
  /\ timer' = [timer EXCEPT ![c] = TRUE]
  /\ UNCHANGED <<qvars, lvars, tvars, hvars>>

\* The wrap-around at the head of the loop of get_next_thread.
Wrap(i) == IF i >= MaxRunning THEN 0 ELSE i

\* sched_entry stops the timer; get_next_thread begins.
Entry(c) ==
  /\ irr[c] /\ IntsOn(c)
  /\ ~Off(c)
  /\ irr' = [irr EXCEPT ![c] = FALSE]
  /\ timer' = [timer EXCEPT ![c] = FALSE]
  /\ active' = [active EXCEPT ![c] = TRUE]
  /\ index' = [index EXCEPT ![c] = Wrap(last[c] + 1)]
  /\ Label(c, "scan")
  /\ UNCHANGED <<qvars, lvars, tvars, last, gs, on, seen, next>>

\* The slot is no good: the next one, or give up after a full turn.
Advance(c) ==
  /\ seen' = [seen EXCEPT ![c] = None]
  /\ IF index[c] = last[c]
       THEN Label(c, "picked") /\ UNCHANGED index
       ELSE Label(c, "scan") /\ index' = [index EXCEPT ![c] = Wrap(@ + 1)]
  /\ UNCHANGED <<last, next>>

ScanRead(c) ==
  /\ cpc[c] = "scan"
  /\ IF running_queue[index[c]] = None
       THEN Advance(c)
       ELSE /\ seen' = [seen EXCEPT ![c] = running_queue[index[c]]]
            /\ Label(c, "try")
            /\ UNCHANGED <<last, index, next>>
  /\ UNCHANGED <<qvars, lvars, tvars, ivars, active, gs, on>>

\* Mutant of ScanTry: the lock is looked at and not taken.
ScanTryUnlocked(c) ==
  /\ cpc[c] = "try"
  /\ IF tlock[seen[c]]
       THEN Advance(c)
       ELSE /\ last' = [last EXCEPT ![c] = index[c]]
            /\ next' = [next EXCEPT ![c] = seen[c]]
            /\ seen' = [seen EXCEPT ![c] = None]
            /\ Label(c, "picked")
            /\ UNCHANGED index
  /\ UNCHANGED <<qvars, tlock, yield_await, ctx, tvars, ivars, active, gs, on>>

ScanTry(c) ==
  /\ cpc[c] = "try"
  /\ IF tlock[seen[c]]
       THEN Advance(c) /\ UNCHANGED tlock
       ELSE /\ tlock' = [tlock EXCEPT ![seen[c]] = TRUE]
            /\ last' = [last EXCEPT ![c] = index[c]]
            /\ next' = [next EXCEPT ![c] = seen[c]]
            /\ seen' = [seen EXCEPT ![c] = None]
            /\ Label(c, "picked")
            /\ UNCHANGED index
  /\ UNCHANGED <<qvars, yield_await, ctx, tvars, ivars, active, gs, on>>

\* Nothing else to run: back to the interrupted thread for a timeslice.
Continue(c) ==
  /\ cpc[c] = "picked"
  /\ gs[c] # None
  /\ next[c] = None /\ enqueued[gs[c]]
  /\ yield_await' = [yield_await EXCEPT ![gs[c]] = FALSE]
  /\ timer' = [timer EXCEPT ![c] = TRUE]
  /\ Label(c, "thread")
  /\ UNCHANGED <<qvars, tlock, ctx, tvars, irr, last, active, gs, on, index,
                 seen, next>>

\* Mutant of Save: yield_await stays taken.
SaveNoRelease(c) ==
  /\ cpc[c] = "picked"
  /\ gs[c] # None
  /\ ~(next[c] = None /\ enqueued[gs[c]])
  /\ ctx' = [ctx EXCEPT ![gs[c]] = TRUE]
  /\ Label(c, "saved")
  /\ UNCHANGED <<qvars, tlock, yield_await, tvars, ivars, last, active, gs, on,
                 index, seen, next>>

\* Mutant of Save: the lock is released before the context is saved.
SaveLate(c) ==
  /\ cpc[c] = "picked"
  /\ gs[c] # None
  /\ ~(next[c] = None /\ enqueued[gs[c]])
  /\ yield_await' = [yield_await EXCEPT ![gs[c]] = FALSE]
  /\ tlock' = [tlock EXCEPT ![gs[c]] = FALSE]
  /\ Label(c, "saved")
  /\ UNCHANGED <<qvars, ctx, tvars, ivars, last, active, gs, on, index, seen,
                 next>>

\* The interrupted thread leaves: its context is saved ...
Save(c) ==
  /\ cpc[c] = "picked"
  /\ gs[c] # None
  /\ ~(next[c] = None /\ enqueued[gs[c]])
  /\ yield_await' = [yield_await EXCEPT ![gs[c]] = FALSE]
  /\ ctx' = [ctx EXCEPT ![gs[c]] = TRUE]
  /\ Label(c, "saved")
  /\ UNCHANGED <<qvars, tlock, tvars, ivars, last, active, gs, on, index, seen,
                 next>>

\* ... before its lock is released.
Release(c) ==
  /\ cpc[c] = "saved"
  /\ tlock' = [tlock EXCEPT ![gs[c]] = FALSE]
  /\ on' = [on EXCEPT ![c] = None]
  /\ Label(c, "switch")
  /\ UNCHANGED <<qvars, yield_await, ctx, tvars, ivars, last, active, gs,
                 index, seen, next>>

\* The idle thread was interrupted, or what a dead thread has left behind.
LeaveIdle(c) ==
  /\ cpc[c] = "picked"
  /\ gs[c] = None
  /\ on' = [on EXCEPT ![c] = None]
  /\ Label(c, "switch")
  /\ UNCHANGED <<qvars, lvars, tvars, ivars, last, active, gs, index, seen,
                 next>>

\* Nothing to run: sched_await.
GoIdle(c) ==
  /\ cpc[c] = "switch"
  /\ next[c] = None
  /\ gs' = [gs EXCEPT ![c] = None]
  /\ active' = [active EXCEPT ![c] = FALSE]
  /\ timer' = [timer EXCEPT ![c] = TRUE]
  /\ Label(c, "halt")
  /\ UNCHANGED <<qvars, lvars, tvars, irr, last, on, index, seen, next>>

\* thread_spinup of the next thread.
Load(c) ==
  /\ cpc[c] = "switch"
  /\ next[c] # None
  /\ gs' = [gs EXCEPT ![c] = next[c]]
  /\ on' = [on EXCEPT ![c] = next[c]]
  /\ ctx' = [ctx EXCEPT ![next[c]] = FALSE]
  /\ timer' = [timer EXCEPT ![c] = TRUE]
  /\ next' = [next EXCEPT ![c] = None]
  /\ Label(c, "thread")
  /\ UNCHANGED <<qvars, tlock, yield_await, tvars, irr, last, active, index,
                 seen>>

-----------------------------------------------------------------------------

\* What a thread goes on with once it has begun.
Finish(c, t) ==
  \/ Yield(c, t) \/ Resume(c, t) \/ YieldForever(c, t) \/ SchedulingOn(c, t)
  \/ TakeSlot(c, t) \/ QueueFull(c, t) \/ SetEnqueued(c, t)

ThreadStep(c, t) ==
  \/ Block(c, t) \/ Die(c, t) \/ SchedulingOff(c, t) \/ Finish(c, t)
  \/ \E u \in Threads :
       Create(c, t, u) \/ TriggerEnqueued(c, t, u) \/ Trigger(c, t, u)

Handler(c) ==
  \/ EntryOff(c) \/ Entry(c) \/ ScanRead(c) \/ ScanTry(c) \/ Continue(c)
  \/ Save(c) \/ Release(c) \/ LeaveIdle(c) \/ GoIdle(c) \/ Load(c)

Next ==
  \E c \in Cpus :
    \/ \E t \in Threads : ThreadStep(c, t)
    \/ TimerExpires(c)
    \/ Handler(c)

Spec == Init /\ [][Next]_vars

\* Time passes, CPUs run the handler, and a thread that runs goes on with
\* what it has begun; what it begins is its own business.
Fairness ==
  \A c \in Cpus :
    /\ WF_vars(TimerExpires(c))
    /\ WF_vars(Handler(c))
    /\ \A t \in Threads : SF_vars(Finish(c, t))

FairSpec == Spec /\ Fairness

-----------------------------------------------------------------------------
(* Properties *)

Queued(t) == \E i \in Slots : running_queue[i] = t

\* CPU c has thread t, to run it or to load it next.
Has(c, t) == on[c] = t \/ next[c] = t

\* The lock of a thread gives it to one CPU: no two CPUs run it, and none is
\* about to load what another one runs.
OneCpu ==
  \A t \in Threads, c, d \in Cpus :
    Has(c, t) /\ Has(d, t) => c = d

\* thread_spinup loads the context with which the thread last left a CPU,
\* never one that sched_entry is still to save.
LoadsSaved ==
  \A c \in Cpus : cpc[c] = "switch" /\ next[c] # None => ctx[next[c]]

\* A thread that has died and left its CPU is not run again, although it may
\* still have a slot of the run queue: nobody gives its lock back.
DeadStaysDead ==
  \A t \in Threads : tpc[t] = "dead" =>
    /\ tlock[t]
    /\ \A c \in Cpus : next[c] # t /\ (gs[c] = t => cpc[c] = "switch")

\* Every CPU comes back to the scheduler: whenever it can be interrupted its
\* timer is armed or the interrupt is there.
CpuAlive ==
  \A c \in Cpus : IntsOn(c) => timer[c] \/ irr[c]

\* While a thread has turned scheduling off it keeps its CPU, so what it got
\* from this_cpu() stays true.
KeepsCpu ==
  [][\A c \in Cpus, t \in Threads :
       on[c] = t /\ tpc[t] = "tlb" => on'[c] = t /\ gs'[c] = t]_vars

\* A thread that is inside sched_yield and on the run queue returns from it:
\* some CPU's scan comes to its slot, and sched_entry has released
\* yield_await.
WokenReturns ==
  \A t \in Threads : (tpc[t] = "spin" /\ Queued(t)) ~> tpc[t] = "user"

=============================================================================
