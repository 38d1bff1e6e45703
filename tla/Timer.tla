------------------------------- MODULE Timer -------------------------------
(***************************************************************************)
(* Timers, kernel/time/time.c: a vector of armed timers that the handler   *)
(* of the timer interrupt counts down, and threads that arm a timer, wait  *)
(* for its event (or, in ppoll, for another one), disarm it and free it.   *)
(*                                                                         *)
(* The handler does not wait for the vector's lock: the interrupt may have *)
(* come in the middle of timer_arm or timer_disarm.  It works through the  *)
(* vector one timer at a time, while threads run on other CPUs.  Each      *)
(* thread has one timer at most, so a timer is named after its thread.     *)
(* What event_await and event_trigger do is the subject of Event; here a   *)
(* thread waits for the event of its timer and, in ppoll, for others of    *)
(* which only the triggers count.                                          *)
(***************************************************************************)
EXTENDS Integers, Sequences

CONSTANTS
  Threads,
  Durations,  \* what syscall_sleep is called with: [sec, nsec]
  Timeouts,   \* what ppoll is called with
  Nanos,      \* what time_nsleep is called with
  TIMER_FREQ,
  None

Second == 1000000000
Interval == [sec |-> 0, nsec |-> Second \div TIMER_FREQ]
Timespecs == [sec : Nat, nsec : Nat]

ASSUME TimerAssumption ==
  /\ Durations \cup Timeouts \subseteq Timespecs
  /\ Nanos \subseteq Nat
  /\ TIMER_FREQ \in 1 .. Second
  /\ None \notin Threads

VARIABLES
  armed_timers,
  timers_lock,  \* who holds timers_lock: a thread, "irq" or None
  index,        \* struct timer: index
  fired,        \* struct timer: fired
  when,         \* struct timer: when
  alive,        \* the timers that are allocated
  pending,      \* struct event: pending
  listeners,    \* the threads that listen to their timer's event
  which_event,  \* what wakes each thread: "timer" or "other"
  call,         \* what each thread called: "sleep" or "ppoll"
  pc,           \* where each thread is
  i,            \* timer_handler: i
  asked,        \* how long the caller of each timer wants to wait
  ticks,        \* how often the handler has counted each timer down
  overtaken     \* the threads whose timer's trigger another event overtook

timers == <<armed_timers, index, fired, when, alive>>
waits == <<pending, listeners, which_event, call, pc>>
history == <<asked, ticks, overtaken>>
vars == <<timers, timers_lock, waits, i, history>>

Zero == [sec |-> 0, nsec |-> 0]

Init ==
  /\ armed_timers = <<>>
  /\ timers_lock = None
  /\ index = [t \in Threads |-> -1]
  /\ fired = [t \in Threads |-> FALSE]
  /\ when = [t \in Threads |-> Zero]
  /\ alive = {}
  /\ pending = [t \in Threads |-> FALSE]
  /\ listeners = {}
  /\ which_event = [t \in Threads |-> "timer"]
  /\ call = [t \in Threads |-> "sleep"]
  /\ pc = [t \in Threads |-> "run"]
  /\ i = 1
  /\ asked = [t \in Threads |-> Zero]
  /\ ticks = [t \in Threads |-> 0]
  /\ overtaken = {}

Goto(t, where) == pc' = [pc EXCEPT ![t] = where]

-----------------------------------------------------------------------------
(* time.k.h *)

\* Mutant of timespec_sub: no borrow from the seconds.
timespec_sub_clamped(a, b) ==
  IF b.nsec > a.nsec \/ b.sec > a.sec
    THEN Zero
    ELSE [sec |-> a.sec - b.sec, nsec |-> a.nsec - b.nsec]

timespec_sub(a, b) ==
  LET borrow == b.nsec > a.nsec
      sec == IF borrow THEN a.sec - 1 ELSE a.sec
      nsec == IF borrow THEN Second - 1 - (b.nsec - a.nsec) ELSE a.nsec - b.nsec
  IN IF (borrow /\ a.sec = 0) \/ b.sec > sec
       THEN Zero
       ELSE [sec |-> sec - b.sec, nsec |-> nsec]

-----------------------------------------------------------------------------
(* timer_new and timer_arm, timer_disarm, and the threads that call them:  *)
(* syscall_sleep, time_nsleep, syscall_ppoll.                              *)

\* duration, as time_nsleep computes it.
NsDuration(ns) == [sec |-> ns \div Second, nsec |-> ns]

\* timer_new up to the lock of timer_arm, and what timer_arm does under it.
Arm(t, c, d, meant) ==
  /\ pc[t] = "run" /\ timers_lock = None
  /\ timers_lock' = t
  /\ alive' = alive \cup {t}
  /\ when' = [when EXCEPT ![t] = d]
  /\ fired' = [fired EXCEPT ![t] = FALSE]
  /\ index' = [index EXCEPT ![t] = Len(armed_timers)]
  /\ armed_timers' = Append(armed_timers, t)
  /\ call' = [call EXCEPT ![t] = c]
  /\ asked' = [asked EXCEPT ![t] = meant]
  /\ Goto(t, "arm")
  /\ UNCHANGED <<pending, i, listeners, which_event, ticks, overtaken>>

\* syscall_sleep: no time at all is over at once, and more than a second of
\* nanoseconds is refused.
Sleep(t) ==
  \E d \in Durations : d # Zero /\ d.nsec <= Second /\ Arm(t, "sleep", d, d)

Nsleep(t) ==
  \E ns \in Nanos :
    Arm(t, "sleep", NsDuration(ns), [sec |-> ns \div Second, nsec |-> ns % Second])

\* syscall_ppoll with a timeout, when no descriptor is ready.
Poll(t) == \E d \in Timeouts : Arm(t, "ppoll", d, d)

\* The lock is released.
Armed(t) ==
  /\ pc[t] = "arm"
  /\ timers_lock' = None
  /\ Goto(t, "await")
  /\ UNCHANGED <<timers, pending, listeners, which_event, call, i, history>>

\* event_await: a trigger of the timer's event is pending, or the thread
\* listens and sleeps.
Await(t) ==
  /\ pc[t] = "await"
  /\ pending' = [pending EXCEPT ![t] = FALSE]
  /\ listeners' = IF pending[t] THEN listeners ELSE listeners \cup {t}
  /\ Goto(t, IF pending[t] THEN "woken" ELSE "sleep")
  /\ UNCHANGED <<timers, timers_lock, which_event, call, i, history>>

\* event_await in ppoll: another event is pending.  The timer's event is the
\* last that check_for_pending looks at, so its trigger stays pending.
OtherPending(t) ==
  /\ pc[t] = "await" /\ call[t] = "ppoll"
  /\ Goto(t, "look")
  /\ UNCHANGED <<timers, timers_lock, pending, listeners, which_event, call, i, history>>

\* ppoll: another event is triggered and its number takes the place of the
\* timer's, if that was triggered before.
OtherEvent(t) ==
  /\ pc[t] \in {"sleep", "ready"} /\ call[t] = "ppoll"
  /\ which_event' = [which_event EXCEPT ![t] = "other"]
  /\ overtaken' = IF t \in listeners THEN overtaken ELSE overtaken \cup {t}
  /\ Goto(t, "ready")
  /\ UNCHANGED <<timers, timers_lock, pending, listeners, call, i, asked, ticks>>

\* The thread runs again and reads which_event, which is its own from here.
Returned(t) ==
  /\ pc[t] = "ready"
  /\ Goto(t, "read")
  /\ UNCHANGED <<timers, timers_lock, pending, listeners, which_event, call, i, history>>

\* detach_listeners, and what the callers do with the number of the event.
Detach(t) ==
  /\ pc[t] = "read"
  /\ listeners' = listeners \ {t}
  /\ Goto(t, IF which_event[t] = "timer" THEN "woken" ELSE "look")
  /\ UNCHANGED <<timers, timers_lock, pending, which_event, call, i, history>>

\* ppoll: the status of the resource is what the caller waits for, or the
\* thread waits again.
Look(t) ==
  /\ pc[t] = "look"
  /\ \/ Goto(t, "woken")
     \/ Goto(t, "await")
  /\ UNCHANGED <<timers, timers_lock, pending, listeners, which_event, call, i, history>>

\* The vector without timer t: the last one takes its place.
Without(t) ==
  LET n == Len(armed_timers)
      moved == armed_timers[n]
  IN /\ armed_timers' = SubSeq([armed_timers EXCEPT ![index[t] + 1] = moved], 1, n - 1)
     /\ index' = [index EXCEPT ![moved] = index[t], ![t] = -1]

\* What timer_disarm does under the lock.
Disarm(t) ==
  /\ pc[t] = "woken" /\ timers_lock = None
  /\ timers_lock' = t
  /\ IF Len(armed_timers) = 0 \/ index[t] = -1 \/ index[t] >= Len(armed_timers)
       THEN UNCHANGED <<armed_timers, index>>
       ELSE Without(t)
  /\ Goto(t, "disarm")
  /\ UNCHANGED <<fired, when, alive, pending, listeners, which_event, call, i, history>>

\* What a freed timer and the locals of the call held is gone.
Forget(t) ==
  /\ alive' = alive \ {t}
  /\ when' = [when EXCEPT ![t] = Zero]
  /\ fired' = [fired EXCEPT ![t] = FALSE]
  /\ pending' = [pending EXCEPT ![t] = FALSE]
  /\ which_event' = [which_event EXCEPT ![t] = "timer"]
  /\ call' = [call EXCEPT ![t] = "sleep"]
  /\ asked' = [asked EXCEPT ![t] = Zero]
  /\ ticks' = [ticks EXCEPT ![t] = 0]
  /\ overtaken' = overtaken \ {t}

\* Mutant of Free: before the timer is disarmed.
FreeEarly(t) ==
  /\ pc[t] \in {"woken", "disarm"}
  /\ timers_lock' = IF timers_lock = t THEN None ELSE timers_lock
  /\ Forget(t)
  /\ Goto(t, "run")
  /\ UNCHANGED <<armed_timers, index, listeners, i>>

\* The lock is released and the timer freed.
Free(t) ==
  /\ pc[t] = "disarm"
  /\ timers_lock' = None
  /\ Forget(t)
  /\ Goto(t, "run")
  /\ UNCHANGED <<armed_timers, index, listeners, i>>

-----------------------------------------------------------------------------
(* timer_handler *)

\* A tick that finds the lock taken is skipped: nothing changes.
TickBegin ==
  /\ timers_lock = None
  /\ timers_lock' = "irq"
  /\ i' = 1
  /\ UNCHANGED <<timers, waits, history>>

\* Whoever listens is woken by the timer and listens no more, unless it has
\* read by now that another event woke it.
Wake(t) ==
  /\ listeners' = listeners \ {t}
  /\ IF pc[t] = "read"
       THEN overtaken' = overtaken \cup {t} /\ UNCHANGED <<which_event, pc>>
       ELSE /\ which_event' = [which_event EXCEPT ![t] = "timer"]
            /\ Goto(t, "ready")
            /\ UNCHANGED overtaken

\* Mutant of Trigger: nothing stays pending.
TriggerLost(t) ==
  /\ IF t \in listeners
       THEN Wake(t)
       ELSE UNCHANGED <<listeners, which_event, pc, overtaken>>
  /\ UNCHANGED pending

\* event_trigger of the timer's event.
Trigger(t) ==
  \/ t \in listeners /\ Wake(t) /\ UNCHANGED pending
  \/ /\ t \notin listeners
     /\ pending' = [pending EXCEPT ![t] = TRUE]
     /\ UNCHANGED <<listeners, which_event, pc, overtaken>>

\* A timer that has not fired is counted down, and fires at zero.
CountDown ==
  LET t == armed_timers[i]
      left == timespec_sub(when[t], Interval)
  IN IF fired[t]
       THEN UNCHANGED <<when, ticks, fired, pending, listeners, which_event, pc, overtaken>>
       ELSE /\ when' = [when EXCEPT ![t] = left]
            /\ ticks' = [ticks EXCEPT ![t] = @ + 1]
            /\ IF left = Zero
                 THEN Trigger(t) /\ fired' = [fired EXCEPT ![t] = TRUE]
                 ELSE UNCHANGED <<fired, pending, listeners, which_event, pc, overtaken>>

Tick ==
  /\ timers_lock = "irq" /\ i <= Len(armed_timers)
  /\ CountDown
  /\ i' = i + 1
  /\ UNCHANGED <<armed_timers, index, alive, timers_lock, call, asked>>

TickEnd ==
  /\ timers_lock = "irq" /\ i > Len(armed_timers)
  /\ timers_lock' = None
  /\ i' = 1
  /\ UNCHANGED <<timers, waits, history>>

-----------------------------------------------------------------------------

Thread(t) ==
  \/ Sleep(t) \/ Nsleep(t) \/ Poll(t)
  \/ Armed(t) \/ Await(t) \/ OtherPending(t) \/ OtherEvent(t)
  \/ Returned(t) \/ Detach(t) \/ Look(t) \/ Disarm(t) \/ Free(t)

Handler == TickBegin \/ Tick \/ TickEnd

Next == Handler \/ \E t \in Threads : Thread(t)

Spec == Init /\ [][Next]_vars

\* The handler and the sections under the lock run to their end; interrupts
\* keep coming, and not all of them while the lock is taken; a spinning thread
\* gets the lock now and then.  Nothing is assumed of the other events.
FairSpec ==
  /\ Spec
  /\ WF_vars(Tick) /\ WF_vars(TickEnd) /\ SF_vars(TickBegin)
  /\ \A t \in Threads :
       /\ WF_vars(Armed(t)) /\ WF_vars(Await(t))
       /\ WF_vars(Returned(t)) /\ WF_vars(Detach(t)) /\ WF_vars(Look(t))
       /\ SF_vars(Disarm(t)) /\ WF_vars(Free(t))

-----------------------------------------------------------------------------
(* Properties *)

TypeOK ==
  /\ armed_timers \in Seq(Threads)
  /\ timers_lock \in Threads \cup {"irq", None}
  /\ index \in [Threads -> Nat \cup {-1}]
  /\ fired \in [Threads -> BOOLEAN]
  /\ when \in [Threads -> Timespecs]
  /\ alive \subseteq Threads
  /\ pending \in [Threads -> BOOLEAN]
  /\ listeners \subseteq Threads
  /\ which_event \in [Threads -> {"timer", "other"}]
  /\ call \in [Threads -> {"sleep", "ppoll"}]
  /\ pc \in [Threads -> {"run", "arm", "await", "sleep", "ready", "read", "look",
                         "woken", "disarm"}]
  /\ overtaken \subseteq Threads
  /\ i \in Nat

\* The handler never meets a timer that its thread has freed.
ArmedAlive == \A n \in 1 .. Len(armed_timers) : armed_timers[n] \in alive

\* The number of ticks of a duration, rounded up: at least one, and a
\* nanosecond less for each second.
Due(d) ==
  LET n == d.sec * TIMER_FREQ
             + (d.nsec - d.sec + Interval.nsec - 1) \div Interval.nsec
  IN IF n = 0 THEN 1 ELSE n

\* A timer fires with the tick at which the time its caller asked for is over
\* and with no other, however the nanoseconds borrow from the seconds.  Every
\* borrow costs a nanosecond, so a time that ends no further than that past a
\* tick is over with that tick.  A duration of zero takes one tick.
FiresOnTime ==
  \A t \in alive :
    /\ fired[t] <=> ticks[t] = Due(asked[t])
    /\ ticks[t] <= Due(asked[t])

\* A sleep ends: no trigger falls between timer_arm and the wait, and a timer
\* that changes its place in the vector is still counted down.  A ppoll does
\* not stay asleep past its timeout either, but for one case.  If another of
\* its events is triggered before it has read that the timer woke it, or the
\* timer fires before it has detached itself, the timer's one trigger is
\* spent: ppoll sees the other event, and when that is not what it waits for
\* it sleeps without a timeout.
SleepEnds ==
  \A t \in Threads :
    /\ (pc[t] = "sleep" /\ call[t] = "sleep") ~> (pc[t] = "run")
    /\ (pc[t] = "sleep") ~> (pc[t] # "sleep" \/ t \in overtaken)
=============================================================================
