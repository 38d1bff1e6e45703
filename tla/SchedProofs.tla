---------------------------- MODULE SchedProofs ----------------------------
(***************************************************************************)
(* Proofs about Sched, for any number of CPUs, threads and slots: a thread *)
(* runs on one CPU, with the context it left with, never after its death,  *)
(* and every CPU comes back to the scheduler.                              *)
(*                                                                         *)
(* The inductive invariant says who owns a thread's lock: the CPU that     *)
(* runs it and the CPU that has picked it, which are never two, and for    *)
(* ever the thread itself once it is dead; a lock that is free guards a    *)
(* saved context.                                                          *)
(***************************************************************************)
EXTENDS Sched, TLAPS

\* Where the handler's registers and the current thread agree.
CpuInv ==
  \A c \in Cpus :
    /\ cpc[c] = "halt" => gs[c] = None /\ on[c] = None
    /\ cpc[c] = "thread" => on[c] # None
    /\ cpc[c] \in {"thread", "scan", "try", "picked"} =>
         \/ gs[c] = on[c]
         \/ gs[c] = None /\ tpc[on[c]] = "dead"
    /\ cpc[c] = "thread" /\ tpc[on[c]] # "dead" => gs[c] = on[c]
    /\ on[c] # None /\ tpc[on[c]] = "tlb" => cpc[c] = "thread"
    /\ cpc[c] = "saved" => gs[c] = on[c] /\ gs[c] # None
    /\ cpc[c] = "switch" => on[c] = None
    /\ cpc[c] = "try" => seen[c] # None
    /\ next[c] # None => cpc[c] \in {"picked", "saved", "switch"}

\* Who owns a thread's lock.
OwnInv ==
  /\ OneCpu
  /\ \A c \in Cpus, t \in Threads :
       /\ Has(c, t) => tlock[t]
       /\ ~(on[c] = t /\ next[c] = t)

\* What a lock guards.
CtxInv ==
  /\ \A t \in Threads : ~tlock[t] /\ tpc[t] # "new" => ctx[t]
  /\ \A c \in Cpus : next[c] # None => ctx[next[c]]
  /\ \A c \in Cpus : cpc[c] = "saved" => ctx[gs[c]]

\* A thread that has not been created is nowhere.
NewInv ==
  \A t \in Threads : tpc[t] = "new" =>
    /\ ~listening[t]
    /\ \A i \in Slots : running_queue[i] # t
    /\ \A c \in Cpus : seen[c] # t /\ next[c] # t
    /\ \A u \in Threads : hand[u] # t

\* No CPU waits for an interrupt that cannot come.
TimerInv ==
  \A c \in Cpus : cpc[c] \in {"thread", "halt"} => timer[c] \/ irr[c]

\* A thread inside sched_enqueue_thread has somebody to enqueue.
HandInv ==
  \A t \in Threads : tpc[t] \in {"slot", "flag"} => hand[t] # None

IInv ==
  /\ TypeOK
  /\ CpuInv
  /\ OwnInv
  /\ CtxInv
  /\ NewInv
  /\ TimerInv
  /\ HandInv
  /\ DeadStaysDead

-----------------------------------------------------------------------------

\* The invariant holds at first.
LEMMA InitIInv == Init => IInv
<1> SUFFICES ASSUME Init PROVE IInv
  OBVIOUS
<1> USE SchedAssumption DEF Init
<1>1. TypeOK
  BY DEF TypeOK, Slots
<1>2. CpuInv /\ TimerInv /\ HandInv
  BY DEF CpuInv, TimerInv, HandInv
<1>3. OwnInv /\ CtxInv /\ DeadStaysDead
  BY DEF OwnInv, OneCpu, Has, CtxInv, DeadStaysDead
<1>4. NewInv
  BY DEF NewInv
<1> QED
  BY <1>1, <1>2, <1>3, <1>4 DEF IInv

\* The scan position that Wrap returns is a slot.
LEMMA WrapType == \A i \in Slots : Wrap(i + 1) \in Slots
  BY SchedAssumption DEF Wrap, Slots

\* Moving the scan on keeps the types.
LEMMA AdvanceType ==
  ASSUME TypeOK, NEW c \in Cpus, Advance(c)
  PROVE  /\ seen' \in [Cpus -> Threads \cup {None}]
         /\ cpc' \in [Cpus -> {"thread", "halt", "scan", "try", "picked", "saved", "switch"}]
         /\ index' \in [Cpus -> Slots]
         /\ UNCHANGED <<last, next>>
  BY WrapType DEF TypeOK, Advance, Label

\* The two outcomes of spinlock_test_and_acq in get_next_thread.
LEMMA ScanTryCases ==
  ASSUME NEW c \in Cpus, ScanTry(c)
  PROVE  \/ /\ tlock[seen[c]] /\ Advance(c) /\ UNCHANGED tlock
            /\ UNCHANGED <<qvars, yield_await, ctx, tvars, ivars, active, gs, on>>
         \/ /\ ~tlock[seen[c]]
            /\ tlock' = [tlock EXCEPT ![seen[c]] = TRUE]
            /\ last' = [last EXCEPT ![c] = index[c]]
            /\ next' = [next EXCEPT ![c] = seen[c]]
            /\ seen' = [seen EXCEPT ![c] = None]
            /\ cpc' = [cpc EXCEPT ![c] = "picked"]
            /\ UNCHANGED <<qvars, yield_await, ctx, tvars, ivars, active, gs, on, index>>
<1>1. CASE tlock[seen[c]]
  BY <1>1, Zenon DEF ScanTry
<1>2. CASE ~tlock[seen[c]]
  BY <1>2, Zenon DEF ScanTry, Label
<1> QED
  BY <1>1, <1>2

\* What the attempt to lock the thread of a slot changes.
LEMMA TryFacts ==
  ASSUME IInv, NEW c \in Cpus, ScanTry(c)
  PROVE  cpc[c] = "try" /\ seen[c] \in Threads /\ tpc[seen[c]] # "new" /\ next[c] = None
<1>1. cpc[c] = "try"
  BY DEF ScanTry
<1>2. seen[c] \in Threads /\ next[c] = None
  BY <1>1 DEF IInv, TypeOK, CpuInv
<1> QED
  BY <1>1, <1>2 DEF IInv, NewInv

\* What a CPU that gets the lock changes.
LEMMA PickFacts ==
  ASSUME IInv, NEW c \in Cpus, ScanTry(c), ~tlock[seen[c]]
  PROVE  /\ tlock'[seen[c]]
         /\ \A v \in Threads : v # seen[c] => tlock'[v] = tlock[v]
         /\ next'[c] = seen[c] /\ cpc'[c] = "picked"
         /\ \A d \in Cpus : d # c => next'[d] = next[d] /\ cpc'[d] = cpc[d]
         /\ UNCHANGED <<ctx, tpc, gs, on>>
<1>1. /\ tlock' = [tlock EXCEPT ![seen[c]] = TRUE]
      /\ next' = [next EXCEPT ![c] = seen[c]]
      /\ cpc' = [cpc EXCEPT ![c] = "picked"]
      /\ UNCHANGED <<yield_await, ctx, tvars, gs, on>>
  BY ScanTryCases
<1>2. tlock \in [Threads -> BOOLEAN] /\ next \in [Cpus -> Threads \cup {None}]
      /\ DOMAIN cpc = Cpus
  BY DEF IInv, TypeOK
<1> QED
  BY <1>1, <1>2, TryFacts DEF tvars

\* Every step keeps the types.
LEMMA TypeStep == IInv /\ Next => TypeOK'
<1> SUFFICES ASSUME IInv, Next PROVE TypeOK'
  OBVIOUS
<1> USE SchedAssumption DEF IInv, TypeOK, Slots, qvars, lvars, tvars, ivars, hvars
<1>1. ASSUME NEW c \in Cpus, NEW t \in Threads, Block(c, t) PROVE TypeOK'
  BY ZenonT(60), <1>1 DEF Block, DequeueThread, Goto, Runs
<1>2. ASSUME NEW c \in Cpus, NEW t \in Threads, Yield(c, t) PROVE TypeOK'
  BY <1>2 DEF Yield, Goto, Runs
<1>3. ASSUME NEW c \in Cpus, NEW t \in Threads, Resume(c, t) PROVE TypeOK'
  BY <1>3 DEF Resume, Goto, Runs
<1>4. ASSUME NEW c \in Cpus, NEW t \in Threads, Die(c, t) PROVE TypeOK'
  BY <1>4 DEF Die, DequeueThread, Goto, Runs
<1>5. ASSUME NEW c \in Cpus, NEW t \in Threads, YieldForever(c, t) PROVE TypeOK'
  BY <1>5 DEF YieldForever, Goto, Runs
<1>6. ASSUME NEW c \in Cpus, NEW t \in Threads, SchedulingOff(c, t) PROVE TypeOK'
  BY <1>6 DEF SchedulingOff, Goto, Runs
<1>7. ASSUME NEW c \in Cpus, NEW t \in Threads, SchedulingOn(c, t) PROVE TypeOK'
  BY <1>7 DEF SchedulingOn, Goto, Runs
<1>8. ASSUME NEW c \in Cpus, NEW t \in Threads, TakeSlot(c, t) PROVE TypeOK'
  BY <1>8 DEF TakeSlot, Goto, Runs
<1>9. ASSUME NEW c \in Cpus, NEW t \in Threads, QueueFull(c, t) PROVE TypeOK'
  BY ZenonT(60), <1>9 DEF QueueFull, EnqueueReturn, Triggers, Goto, Runs
<1>10. ASSUME NEW c \in Cpus, NEW t \in Threads, SetEnqueued(c, t) PROVE TypeOK'
  BY ZenonT(60), <1>10 DEF SetEnqueued, EnqueueReturn, Triggers, Goto, Runs
<1>11. ASSUME NEW c \in Cpus, NEW t \in Threads, NEW u \in Threads, Create(c, t, u) PROVE TypeOK'
  BY <1>11 DEF Create, Runs
<1>12. ASSUME NEW c \in Cpus, NEW t \in Threads, NEW u \in Threads, TriggerEnqueued(c, t, u) PROVE TypeOK'
  BY <1>12 DEF TriggerEnqueued, Runs
<1>13. ASSUME NEW c \in Cpus, NEW t \in Threads, NEW u \in Threads, Trigger(c, t, u) PROVE TypeOK'
  BY <1>13 DEF Trigger, Goto, Runs
<1>14. ASSUME NEW c \in Cpus, TimerExpires(c) PROVE TypeOK'
  BY <1>14 DEF TimerExpires
<1>15. ASSUME NEW c \in Cpus, EntryOff(c) PROVE TypeOK'
  BY <1>15 DEF EntryOff
<1>16. ASSUME NEW c \in Cpus, Entry(c) PROVE TypeOK'
  BY <1>16 DEF Entry, Label, Wrap
<1>17. ASSUME NEW c \in Cpus, ScanRead(c) PROVE TypeOK'
  <2>1. CASE Advance(c)
    BY <1>17, <2>1, AdvanceType DEF ScanRead
  <2>2. CASE ~Advance(c)
    BY ZenonT(60), <1>17, <2>2 DEF ScanRead, Label
  <2> QED
    BY <2>1, <2>2
<1>18. ASSUME NEW c \in Cpus, ScanTry(c) PROVE TypeOK'
  <2>1. CASE tlock[seen[c]]
    BY <1>18, <2>1, AdvanceType DEF ScanTry
  <2>2. CASE ~tlock[seen[c]]
    <3>0. /\ tlock' = [tlock EXCEPT ![seen[c]] = TRUE]
          /\ last' = [last EXCEPT ![c] = index[c]]
          /\ next' = [next EXCEPT ![c] = seen[c]]
          /\ seen' = [seen EXCEPT ![c] = None]
          /\ cpc' = [cpc EXCEPT ![c] = "picked"]
          /\ UNCHANGED <<qvars, yield_await, ctx, tvars, ivars, active, gs, on, index>>
      BY <1>18, <2>2, ScanTryCases
    <3>1. tlock' \in [Threads -> BOOLEAN]
      BY <3>0, Zenon
    <3>2. last' \in [Cpus -> Slots] /\ next' \in [Cpus -> Threads \cup {None}]
          /\ seen' \in [Cpus -> Threads \cup {None}]
      BY <3>0
    <3>3. cpc' \in [Cpus -> {"thread", "halt", "scan", "try", "picked", "saved", "switch"}]
      BY <3>0
    <3>4. UNCHANGED <<qvars, yield_await, ctx, tvars, ivars, active, gs, on, index>>
      BY <3>0
    <3> QED
      BY <3>1, <3>2, <3>3, <3>4
  <2> QED
    BY <2>1, <2>2
<1>19. ASSUME NEW c \in Cpus, Continue(c) PROVE TypeOK'
  BY <1>19 DEF Continue, Label
<1>20. ASSUME NEW c \in Cpus, Save(c) PROVE TypeOK'
  BY <1>20 DEF Save, Label
<1>21. ASSUME NEW c \in Cpus, Release(c) PROVE TypeOK'
  BY <1>21 DEF Release, Label
<1>22. ASSUME NEW c \in Cpus, LeaveIdle(c) PROVE TypeOK'
  BY <1>22 DEF LeaveIdle, Label
<1>23. ASSUME NEW c \in Cpus, GoIdle(c) PROVE TypeOK'
  BY <1>23 DEF GoIdle, Label
<1>24. ASSUME NEW c \in Cpus, Load(c) PROVE TypeOK'
  BY <1>24 DEF Load, Label
<1> QED
  BY <1>1, <1>2, <1>3, <1>4, <1>5, <1>6, <1>7, <1>8, <1>9, <1>10, <1>11, <1>12, <1>13,
     <1>14, <1>15, <1>16, <1>17, <1>18, <1>19, <1>20, <1>21, <1>22, <1>23, <1>24
     DEF Next, ThreadStep, Finish, Handler

\* Every step keeps what a CPU knows about the thread it runs.
LEMMA CpuStep == IInv /\ Next => CpuInv'
<1> SUFFICES ASSUME IInv, Next PROVE CpuInv'
  OBVIOUS
<1> USE SchedAssumption DEF IInv, TypeOK, CpuInv, OwnInv, OneCpu, Has, qvars, lvars, tvars, ivars, hvars
<1>1. ASSUME NEW c \in Cpus, NEW t \in Threads, Block(c, t) PROVE CpuInv'
  BY <1>1 DEF Block, DequeueThread, Goto, Runs
<1>2. ASSUME NEW c \in Cpus, NEW t \in Threads, Yield(c, t) PROVE CpuInv'
  BY <1>2 DEF Yield, Goto, Runs
<1>3. ASSUME NEW c \in Cpus, NEW t \in Threads, Resume(c, t) PROVE CpuInv'
  BY <1>3 DEF Resume, Goto, Runs
<1>4. ASSUME NEW c \in Cpus, NEW t \in Threads, Die(c, t) PROVE CpuInv'
  BY <1>4 DEF Die, DequeueThread, Goto, Runs
<1>5. ASSUME NEW c \in Cpus, NEW t \in Threads, YieldForever(c, t) PROVE CpuInv'
  BY <1>5 DEF YieldForever, Goto, Runs
<1>6. ASSUME NEW c \in Cpus, NEW t \in Threads, SchedulingOff(c, t) PROVE CpuInv'
  BY <1>6 DEF SchedulingOff, Goto, Runs
<1>7. ASSUME NEW c \in Cpus, NEW t \in Threads, SchedulingOn(c, t) PROVE CpuInv'
  BY <1>7 DEF SchedulingOn, Goto, Runs
<1>8. ASSUME NEW c \in Cpus, NEW t \in Threads, TakeSlot(c, t) PROVE CpuInv'
  BY <1>8 DEF TakeSlot, Goto, Runs
<1>9. ASSUME NEW c \in Cpus, NEW t \in Threads, QueueFull(c, t) PROVE CpuInv'
  BY <1>9 DEF QueueFull, EnqueueReturn, Triggers, Goto, Runs
<1>10. ASSUME NEW c \in Cpus, NEW t \in Threads, SetEnqueued(c, t) PROVE CpuInv'
  BY <1>10 DEF SetEnqueued, EnqueueReturn, Triggers, Goto, Runs
<1>11. ASSUME NEW c \in Cpus, NEW t \in Threads, NEW u \in Threads, Create(c, t, u) PROVE CpuInv'
  BY <1>11 DEF Create, Runs
<1>12. ASSUME NEW c \in Cpus, NEW t \in Threads, NEW u \in Threads, TriggerEnqueued(c, t, u) PROVE CpuInv'
  BY <1>12 DEF TriggerEnqueued, Runs
<1>13. ASSUME NEW c \in Cpus, NEW t \in Threads, NEW u \in Threads, Trigger(c, t, u) PROVE CpuInv'
  BY <1>13 DEF Trigger, Goto, Runs
<1>14. ASSUME NEW c \in Cpus, TimerExpires(c) PROVE CpuInv'
  BY <1>14 DEF TimerExpires
<1>15. ASSUME NEW c \in Cpus, EntryOff(c) PROVE CpuInv'
  BY <1>15 DEF EntryOff
<1>16. ASSUME NEW c \in Cpus, Entry(c) PROVE CpuInv'
  BY <1>16 DEF Entry, IntsOn, Off, Label
<1>17. ASSUME NEW c \in Cpus, ScanRead(c) PROVE CpuInv'
  BY <1>17 DEF ScanRead, Advance, Label, Wrap
<1>18. ASSUME NEW c \in Cpus, ScanTry(c) PROVE CpuInv'
  BY <1>18 DEF ScanTry, Advance, Label, Wrap
<1>19. ASSUME NEW c \in Cpus, Continue(c) PROVE CpuInv'
  BY <1>19 DEF Continue, Label
<1>20. ASSUME NEW c \in Cpus, Save(c) PROVE CpuInv'
  BY <1>20 DEF Save, Label
<1>21. ASSUME NEW c \in Cpus, Release(c) PROVE CpuInv'
  BY <1>21 DEF Release, Label
<1>22. ASSUME NEW c \in Cpus, LeaveIdle(c) PROVE CpuInv'
  BY <1>22 DEF LeaveIdle, Label
<1>23. ASSUME NEW c \in Cpus, GoIdle(c) PROVE CpuInv'
  BY <1>23 DEF GoIdle, Label
<1>24. ASSUME NEW c \in Cpus, Load(c) PROVE CpuInv'
  BY <1>24 DEF Load, Label
<1> QED
  BY <1>1, <1>2, <1>3, <1>4, <1>5, <1>6, <1>7, <1>8, <1>9, <1>10, <1>11, <1>12, <1>13,
     <1>14, <1>15, <1>16, <1>17, <1>18, <1>19, <1>20, <1>21, <1>22, <1>23, <1>24
     DEF Next, ThreadStep, Finish, Handler

\* Every step keeps a timer armed, or an interrupt latched, for every CPU
\* that waits for one.
LEMMA TimerStep == IInv /\ Next => TimerInv'
<1> SUFFICES ASSUME IInv, Next PROVE TimerInv'
  OBVIOUS
<1> USE SchedAssumption DEF IInv, TypeOK, TimerInv, qvars, lvars, tvars, ivars, hvars
<1>1. ASSUME NEW c \in Cpus, NEW t \in Threads, Block(c, t) PROVE TimerInv'
  BY <1>1 DEF Block, DequeueThread, Goto, Runs
<1>2. ASSUME NEW c \in Cpus, NEW t \in Threads, Yield(c, t) PROVE TimerInv'
  BY <1>2 DEF Yield, Goto, Runs
<1>3. ASSUME NEW c \in Cpus, NEW t \in Threads, Resume(c, t) PROVE TimerInv'
  BY <1>3 DEF Resume, Goto, Runs
<1>4. ASSUME NEW c \in Cpus, NEW t \in Threads, Die(c, t) PROVE TimerInv'
  BY <1>4 DEF Die, DequeueThread, Goto, Runs
<1>5. ASSUME NEW c \in Cpus, NEW t \in Threads, YieldForever(c, t) PROVE TimerInv'
  BY <1>5 DEF YieldForever, Goto, Runs
<1>6. ASSUME NEW c \in Cpus, NEW t \in Threads, SchedulingOff(c, t) PROVE TimerInv'
  BY <1>6 DEF SchedulingOff, Goto, Runs
<1>7. ASSUME NEW c \in Cpus, NEW t \in Threads, SchedulingOn(c, t) PROVE TimerInv'
  BY <1>7 DEF SchedulingOn, Goto, Runs
<1>8. ASSUME NEW c \in Cpus, NEW t \in Threads, TakeSlot(c, t) PROVE TimerInv'
  BY <1>8 DEF TakeSlot, Goto, Runs
<1>9. ASSUME NEW c \in Cpus, NEW t \in Threads, QueueFull(c, t) PROVE TimerInv'
  BY <1>9 DEF QueueFull, EnqueueReturn, Triggers, Goto, Runs
<1>10. ASSUME NEW c \in Cpus, NEW t \in Threads, SetEnqueued(c, t) PROVE TimerInv'
  BY <1>10 DEF SetEnqueued, EnqueueReturn, Triggers, Goto, Runs
<1>11. ASSUME NEW c \in Cpus, NEW t \in Threads, NEW u \in Threads, Create(c, t, u) PROVE TimerInv'
  BY <1>11 DEF Create, Runs
<1>12. ASSUME NEW c \in Cpus, NEW t \in Threads, NEW u \in Threads, TriggerEnqueued(c, t, u) PROVE TimerInv'
  BY <1>12 DEF TriggerEnqueued, Runs
<1>13. ASSUME NEW c \in Cpus, NEW t \in Threads, NEW u \in Threads, Trigger(c, t, u) PROVE TimerInv'
  BY <1>13 DEF Trigger, Goto, Runs
<1>14. ASSUME NEW c \in Cpus, TimerExpires(c) PROVE TimerInv'
  BY <1>14 DEF TimerExpires
<1>15. ASSUME NEW c \in Cpus, EntryOff(c) PROVE TimerInv'
  BY <1>15 DEF EntryOff
<1>16. ASSUME NEW c \in Cpus, Entry(c) PROVE TimerInv'
  BY <1>16 DEF Entry, Label, Wrap
<1>17. ASSUME NEW c \in Cpus, ScanRead(c) PROVE TimerInv'
  BY <1>17 DEF ScanRead, Advance, Label, Wrap
<1>18. ASSUME NEW c \in Cpus, ScanTry(c) PROVE TimerInv'
  BY <1>18 DEF ScanTry, Advance, Label, Wrap
<1>19. ASSUME NEW c \in Cpus, Continue(c) PROVE TimerInv'
  BY <1>19 DEF Continue, Label
<1>20. ASSUME NEW c \in Cpus, Save(c) PROVE TimerInv'
  BY <1>20 DEF Save, Label
<1>21. ASSUME NEW c \in Cpus, Release(c) PROVE TimerInv'
  BY <1>21 DEF Release, Label
<1>22. ASSUME NEW c \in Cpus, LeaveIdle(c) PROVE TimerInv'
  BY <1>22 DEF LeaveIdle, Label
<1>23. ASSUME NEW c \in Cpus, GoIdle(c) PROVE TimerInv'
  BY <1>23 DEF GoIdle, Label
<1>24. ASSUME NEW c \in Cpus, Load(c) PROVE TimerInv'
  BY <1>24 DEF Load, Label
<1> QED
  BY <1>1, <1>2, <1>3, <1>4, <1>5, <1>6, <1>7, <1>8, <1>9, <1>10, <1>11, <1>12, <1>13,
     <1>14, <1>15, <1>16, <1>17, <1>18, <1>19, <1>20, <1>21, <1>22, <1>23, <1>24
     DEF Next, ThreadStep, Finish, Handler

\* Every step keeps the thread that an sched_enqueue_thread under way is for.
LEMMA HandStep == IInv /\ Next => HandInv'
<1> SUFFICES ASSUME IInv, Next PROVE HandInv'
  OBVIOUS
<1> USE SchedAssumption DEF IInv, TypeOK, HandInv, qvars, lvars, tvars, ivars, hvars
<1>1. ASSUME NEW c \in Cpus, NEW t \in Threads, Block(c, t) PROVE HandInv'
  BY <1>1 DEF Block, DequeueThread, Goto, Runs
<1>2. ASSUME NEW c \in Cpus, NEW t \in Threads, Yield(c, t) PROVE HandInv'
  BY <1>2 DEF Yield, Goto, Runs
<1>3. ASSUME NEW c \in Cpus, NEW t \in Threads, Resume(c, t) PROVE HandInv'
  BY <1>3 DEF Resume, Goto, Runs
<1>4. ASSUME NEW c \in Cpus, NEW t \in Threads, Die(c, t) PROVE HandInv'
  BY <1>4 DEF Die, DequeueThread, Goto, Runs
<1>5. ASSUME NEW c \in Cpus, NEW t \in Threads, YieldForever(c, t) PROVE HandInv'
  BY <1>5 DEF YieldForever, Goto, Runs
<1>6. ASSUME NEW c \in Cpus, NEW t \in Threads, SchedulingOff(c, t) PROVE HandInv'
  BY <1>6 DEF SchedulingOff, Goto, Runs
<1>7. ASSUME NEW c \in Cpus, NEW t \in Threads, SchedulingOn(c, t) PROVE HandInv'
  BY <1>7 DEF SchedulingOn, Goto, Runs
<1>8. ASSUME NEW c \in Cpus, NEW t \in Threads, TakeSlot(c, t) PROVE HandInv'
  BY <1>8 DEF TakeSlot, Goto, Runs
<1>9. ASSUME NEW c \in Cpus, NEW t \in Threads, QueueFull(c, t) PROVE HandInv'
  BY <1>9 DEF QueueFull, EnqueueReturn, Triggers, Goto, Runs
<1>10. ASSUME NEW c \in Cpus, NEW t \in Threads, SetEnqueued(c, t) PROVE HandInv'
  BY <1>10 DEF SetEnqueued, EnqueueReturn, Triggers, Goto, Runs
<1>11. ASSUME NEW c \in Cpus, NEW t \in Threads, NEW u \in Threads, Create(c, t, u) PROVE HandInv'
  BY <1>11 DEF Create, Runs
<1>12. ASSUME NEW c \in Cpus, NEW t \in Threads, NEW u \in Threads, TriggerEnqueued(c, t, u) PROVE HandInv'
  BY <1>12 DEF TriggerEnqueued, Runs
<1>13. ASSUME NEW c \in Cpus, NEW t \in Threads, NEW u \in Threads, Trigger(c, t, u) PROVE HandInv'
  BY <1>13 DEF Trigger, Goto, Runs
<1>14. ASSUME NEW c \in Cpus, TimerExpires(c) PROVE HandInv'
  BY <1>14 DEF TimerExpires
<1>15. ASSUME NEW c \in Cpus, EntryOff(c) PROVE HandInv'
  BY <1>15 DEF EntryOff
<1>16. ASSUME NEW c \in Cpus, Entry(c) PROVE HandInv'
  BY <1>16 DEF Entry, Label, Wrap
<1>17. ASSUME NEW c \in Cpus, ScanRead(c) PROVE HandInv'
  BY <1>17 DEF ScanRead, Advance, Label, Wrap
<1>18. ASSUME NEW c \in Cpus, ScanTry(c) PROVE HandInv'
  BY <1>18 DEF ScanTry, Advance, Label, Wrap
<1>19. ASSUME NEW c \in Cpus, Continue(c) PROVE HandInv'
  BY <1>19 DEF Continue, Label
<1>20. ASSUME NEW c \in Cpus, Save(c) PROVE HandInv'
  BY <1>20 DEF Save, Label
<1>21. ASSUME NEW c \in Cpus, Release(c) PROVE HandInv'
  BY <1>21 DEF Release, Label
<1>22. ASSUME NEW c \in Cpus, LeaveIdle(c) PROVE HandInv'
  BY <1>22 DEF LeaveIdle, Label
<1>23. ASSUME NEW c \in Cpus, GoIdle(c) PROVE HandInv'
  BY <1>23 DEF GoIdle, Label
<1>24. ASSUME NEW c \in Cpus, Load(c) PROVE HandInv'
  BY <1>24 DEF Load, Label
<1> QED
  BY <1>1, <1>2, <1>3, <1>4, <1>5, <1>6, <1>7, <1>8, <1>9, <1>10, <1>11, <1>12, <1>13,
     <1>14, <1>15, <1>16, <1>17, <1>18, <1>19, <1>20, <1>21, <1>22, <1>23, <1>24
     DEF Next, ThreadStep, Finish, Handler

\* Every step keeps a thread that has not been created out of the way.
LEMMA NewStep == IInv /\ Next => NewInv'
<1> SUFFICES ASSUME IInv, Next PROVE NewInv'
  OBVIOUS
<1> USE SchedAssumption DEF IInv, TypeOK, NewInv, qvars, lvars, tvars, ivars, hvars
<1>1. ASSUME NEW c \in Cpus, NEW t \in Threads, Block(c, t) PROVE NewInv'
  BY <1>1 DEF Block, DequeueThread, Goto, Runs
<1>2. ASSUME NEW c \in Cpus, NEW t \in Threads, Yield(c, t) PROVE NewInv'
  BY <1>2 DEF Yield, Goto, Runs
<1>3. ASSUME NEW c \in Cpus, NEW t \in Threads, Resume(c, t) PROVE NewInv'
  BY <1>3 DEF Resume, Goto, Runs
<1>4. ASSUME NEW c \in Cpus, NEW t \in Threads, Die(c, t) PROVE NewInv'
  BY <1>4 DEF Die, DequeueThread, Goto, Runs
<1>5. ASSUME NEW c \in Cpus, NEW t \in Threads, YieldForever(c, t) PROVE NewInv'
  BY <1>5 DEF YieldForever, Goto, Runs
<1>6. ASSUME NEW c \in Cpus, NEW t \in Threads, SchedulingOff(c, t) PROVE NewInv'
  BY <1>6 DEF SchedulingOff, Goto, Runs
<1>7. ASSUME NEW c \in Cpus, NEW t \in Threads, SchedulingOn(c, t) PROVE NewInv'
  BY <1>7 DEF SchedulingOn, Goto, Runs
<1>8. ASSUME NEW c \in Cpus, NEW t \in Threads, TakeSlot(c, t) PROVE NewInv'
  BY <1>8 DEF TakeSlot, Goto, Runs
<1>9. ASSUME NEW c \in Cpus, NEW t \in Threads, QueueFull(c, t) PROVE NewInv'
  BY <1>9 DEF QueueFull, EnqueueReturn, Triggers, Goto, Runs
<1>10. ASSUME NEW c \in Cpus, NEW t \in Threads, SetEnqueued(c, t) PROVE NewInv'
  BY <1>10 DEF SetEnqueued, EnqueueReturn, Triggers, Goto, Runs
<1>11. ASSUME NEW c \in Cpus, NEW t \in Threads, NEW u \in Threads, Create(c, t, u) PROVE NewInv'
  BY <1>11 DEF Create, Runs
<1>12. ASSUME NEW c \in Cpus, NEW t \in Threads, NEW u \in Threads, TriggerEnqueued(c, t, u) PROVE NewInv'
  BY <1>12 DEF TriggerEnqueued, Runs
<1>13. ASSUME NEW c \in Cpus, NEW t \in Threads, NEW u \in Threads, Trigger(c, t, u) PROVE NewInv'
  BY <1>13 DEF Trigger, Goto, Runs
<1>14. ASSUME NEW c \in Cpus, TimerExpires(c) PROVE NewInv'
  BY <1>14 DEF TimerExpires
<1>15. ASSUME NEW c \in Cpus, EntryOff(c) PROVE NewInv'
  BY <1>15 DEF EntryOff
<1>16. ASSUME NEW c \in Cpus, Entry(c) PROVE NewInv'
  BY <1>16 DEF Entry, Label, Wrap
<1>17. ASSUME NEW c \in Cpus, ScanRead(c) PROVE NewInv'
  BY <1>17 DEF ScanRead, Advance, Label, Wrap
<1>18. ASSUME NEW c \in Cpus, ScanTry(c) PROVE NewInv'
  BY <1>18 DEF ScanTry, Advance, Label, Wrap
<1>19. ASSUME NEW c \in Cpus, Continue(c) PROVE NewInv'
  BY <1>19 DEF Continue, Label
<1>20. ASSUME NEW c \in Cpus, Save(c) PROVE NewInv'
  BY <1>20 DEF Save, Label
<1>21. ASSUME NEW c \in Cpus, Release(c) PROVE NewInv'
  BY <1>21 DEF Release, Label
<1>22. ASSUME NEW c \in Cpus, LeaveIdle(c) PROVE NewInv'
  BY <1>22 DEF LeaveIdle, Label
<1>23. ASSUME NEW c \in Cpus, GoIdle(c) PROVE NewInv'
  BY <1>23 DEF GoIdle, Label
<1>24. ASSUME NEW c \in Cpus, Load(c) PROVE NewInv'
  BY <1>24 DEF Load, Label
<1> QED
  BY <1>1, <1>2, <1>3, <1>4, <1>5, <1>6, <1>7, <1>8, <1>9, <1>10, <1>11, <1>12, <1>13,
     <1>14, <1>15, <1>16, <1>17, <1>18, <1>19, <1>20, <1>21, <1>22, <1>23, <1>24
     DEF Next, ThreadStep, Finish, Handler

\* Every step keeps the lock of a thread with the CPU that runs it.
LEMMA OwnStep == IInv /\ Next => OwnInv'
<1> SUFFICES ASSUME IInv, Next PROVE OwnInv'
  OBVIOUS
<1> USE SchedAssumption DEF IInv, TypeOK, OwnInv, OneCpu, Has, CpuInv, qvars, lvars, tvars, ivars, hvars
<1>1. ASSUME NEW c \in Cpus, NEW t \in Threads, Block(c, t) PROVE OwnInv'
  BY <1>1 DEF Block, DequeueThread, Goto, Runs
<1>2. ASSUME NEW c \in Cpus, NEW t \in Threads, Yield(c, t) PROVE OwnInv'
  BY <1>2 DEF Yield, Goto, Runs
<1>3. ASSUME NEW c \in Cpus, NEW t \in Threads, Resume(c, t) PROVE OwnInv'
  BY <1>3 DEF Resume, Goto, Runs
<1>4. ASSUME NEW c \in Cpus, NEW t \in Threads, Die(c, t) PROVE OwnInv'
  BY <1>4 DEF Die, DequeueThread, Goto, Runs
<1>5. ASSUME NEW c \in Cpus, NEW t \in Threads, YieldForever(c, t) PROVE OwnInv'
  BY <1>5 DEF YieldForever, Goto, Runs
<1>6. ASSUME NEW c \in Cpus, NEW t \in Threads, SchedulingOff(c, t) PROVE OwnInv'
  BY <1>6 DEF SchedulingOff, Goto, Runs
<1>7. ASSUME NEW c \in Cpus, NEW t \in Threads, SchedulingOn(c, t) PROVE OwnInv'
  BY <1>7 DEF SchedulingOn, Goto, Runs
<1>8. ASSUME NEW c \in Cpus, NEW t \in Threads, TakeSlot(c, t) PROVE OwnInv'
  BY <1>8 DEF TakeSlot, Goto, Runs
<1>9. ASSUME NEW c \in Cpus, NEW t \in Threads, QueueFull(c, t) PROVE OwnInv'
  BY <1>9 DEF QueueFull, EnqueueReturn, Triggers, Goto, Runs
<1>10. ASSUME NEW c \in Cpus, NEW t \in Threads, SetEnqueued(c, t) PROVE OwnInv'
  BY <1>10 DEF SetEnqueued, EnqueueReturn, Triggers, Goto, Runs
<1>11. ASSUME NEW c \in Cpus, NEW t \in Threads, NEW u \in Threads, Create(c, t, u) PROVE OwnInv'
  BY <1>11 DEF Create, Runs
<1>12. ASSUME NEW c \in Cpus, NEW t \in Threads, NEW u \in Threads, TriggerEnqueued(c, t, u) PROVE OwnInv'
  BY <1>12 DEF TriggerEnqueued, Runs
<1>13. ASSUME NEW c \in Cpus, NEW t \in Threads, NEW u \in Threads, Trigger(c, t, u) PROVE OwnInv'
  BY <1>13 DEF Trigger, Goto, Runs
<1>14. ASSUME NEW c \in Cpus, TimerExpires(c) PROVE OwnInv'
  BY <1>14 DEF TimerExpires
<1>15. ASSUME NEW c \in Cpus, EntryOff(c) PROVE OwnInv'
  BY <1>15 DEF EntryOff
<1>16. ASSUME NEW c \in Cpus, Entry(c) PROVE OwnInv'
  BY <1>16 DEF Entry, Label, Wrap
<1>17. ASSUME NEW c \in Cpus, ScanRead(c) PROVE OwnInv'
  BY <1>17 DEF ScanRead, Advance, Label, Wrap
<1>18. ASSUME NEW c \in Cpus, ScanTry(c) PROVE OwnInv'
  <2>1. cpc[c] = "try" /\ seen[c] \in Threads /\ tpc[seen[c]] # "new" /\ next[c] = None
    BY <1>18, TryFacts
  <2>2. CASE /\ tlock[seen[c]] /\ Advance(c) /\ UNCHANGED tlock
             /\ UNCHANGED <<qvars, yield_await, ctx, tvars, ivars, active, gs, on>>
    BY <2>1, <2>2 DEF Advance, Label
  <2>3. CASE ~tlock[seen[c]]
    BY <1>18, <2>1, <2>3, PickFacts
  <2> QED
    BY <1>18, <2>2, <2>3, ScanTryCases
<1>19. ASSUME NEW c \in Cpus, Continue(c) PROVE OwnInv'
  BY <1>19 DEF Continue, Label
<1>20. ASSUME NEW c \in Cpus, Save(c) PROVE OwnInv'
  BY <1>20 DEF Save, Label
<1>21. ASSUME NEW c \in Cpus, Release(c) PROVE OwnInv'
  BY <1>21 DEF Release, Label
<1>22. ASSUME NEW c \in Cpus, LeaveIdle(c) PROVE OwnInv'
  BY <1>22 DEF LeaveIdle, Label
<1>23. ASSUME NEW c \in Cpus, GoIdle(c) PROVE OwnInv'
  BY <1>23 DEF GoIdle, Label
<1>24. ASSUME NEW c \in Cpus, Load(c) PROVE OwnInv'
  BY <1>24 DEF Load, Label
<1> QED
  BY <1>1, <1>2, <1>3, <1>4, <1>5, <1>6, <1>7, <1>8, <1>9, <1>10, <1>11, <1>12, <1>13,
     <1>14, <1>15, <1>16, <1>17, <1>18, <1>19, <1>20, <1>21, <1>22, <1>23, <1>24
     DEF Next, ThreadStep, Finish, Handler

\* Every step keeps a saved context behind every free lock.
LEMMA CtxStep == IInv /\ Next => CtxInv'
<1> SUFFICES ASSUME IInv, Next PROVE CtxInv'
  OBVIOUS
<1> USE SchedAssumption DEF IInv, TypeOK, CtxInv, OwnInv, OneCpu, Has, CpuInv, qvars, lvars, tvars, ivars, hvars
<1>1. ASSUME NEW c \in Cpus, NEW t \in Threads, Block(c, t) PROVE CtxInv'
  BY <1>1 DEF Block, DequeueThread, Goto, Runs
<1>2. ASSUME NEW c \in Cpus, NEW t \in Threads, Yield(c, t) PROVE CtxInv'
  BY <1>2 DEF Yield, Goto, Runs
<1>3. ASSUME NEW c \in Cpus, NEW t \in Threads, Resume(c, t) PROVE CtxInv'
  BY <1>3 DEF Resume, Goto, Runs
<1>4. ASSUME NEW c \in Cpus, NEW t \in Threads, Die(c, t) PROVE CtxInv'
  BY <1>4 DEF Die, DequeueThread, Goto, Runs
<1>5. ASSUME NEW c \in Cpus, NEW t \in Threads, YieldForever(c, t) PROVE CtxInv'
  BY <1>5 DEF YieldForever, Goto, Runs
<1>6. ASSUME NEW c \in Cpus, NEW t \in Threads, SchedulingOff(c, t) PROVE CtxInv'
  BY <1>6 DEF SchedulingOff, Goto, Runs
<1>7. ASSUME NEW c \in Cpus, NEW t \in Threads, SchedulingOn(c, t) PROVE CtxInv'
  BY <1>7 DEF SchedulingOn, Goto, Runs
<1>8. ASSUME NEW c \in Cpus, NEW t \in Threads, TakeSlot(c, t) PROVE CtxInv'
  BY <1>8 DEF TakeSlot, Goto, Runs
<1>9. ASSUME NEW c \in Cpus, NEW t \in Threads, QueueFull(c, t) PROVE CtxInv'
  BY <1>9 DEF QueueFull, EnqueueReturn, Triggers, Goto, Runs
<1>10. ASSUME NEW c \in Cpus, NEW t \in Threads, SetEnqueued(c, t) PROVE CtxInv'
  BY <1>10 DEF SetEnqueued, EnqueueReturn, Triggers, Goto, Runs
<1>11. ASSUME NEW c \in Cpus, NEW t \in Threads, NEW u \in Threads, Create(c, t, u) PROVE CtxInv'
  BY <1>11 DEF Create, Runs
<1>12. ASSUME NEW c \in Cpus, NEW t \in Threads, NEW u \in Threads, TriggerEnqueued(c, t, u) PROVE CtxInv'
  BY <1>12 DEF TriggerEnqueued, Runs
<1>13. ASSUME NEW c \in Cpus, NEW t \in Threads, NEW u \in Threads, Trigger(c, t, u) PROVE CtxInv'
  BY <1>13 DEF Trigger, Goto, Runs
<1>14. ASSUME NEW c \in Cpus, TimerExpires(c) PROVE CtxInv'
  BY <1>14 DEF TimerExpires
<1>15. ASSUME NEW c \in Cpus, EntryOff(c) PROVE CtxInv'
  BY <1>15 DEF EntryOff
<1>16. ASSUME NEW c \in Cpus, Entry(c) PROVE CtxInv'
  BY <1>16 DEF Entry, Label, Wrap
<1>17. ASSUME NEW c \in Cpus, ScanRead(c) PROVE CtxInv'
  BY <1>17 DEF ScanRead, Advance, Label, Wrap
<1>18. ASSUME NEW c \in Cpus, ScanTry(c) PROVE CtxInv'
  <2>1. cpc[c] = "try" /\ seen[c] \in Threads /\ tpc[seen[c]] # "new" /\ next[c] = None
    BY <1>18, TryFacts
  <2>2. CASE /\ tlock[seen[c]] /\ Advance(c) /\ UNCHANGED tlock
             /\ UNCHANGED <<qvars, yield_await, ctx, tvars, ivars, active, gs, on>>
    BY <2>1, <2>2 DEF Advance, Label
  <2>3. CASE ~tlock[seen[c]]
    <3>1. /\ tlock'[seen[c]]
          /\ \A v \in Threads : v # seen[c] => tlock'[v] = tlock[v]
          /\ next'[c] = seen[c] /\ cpc'[c] = "picked"
          /\ \A d \in Cpus : d # c => next'[d] = next[d] /\ cpc'[d] = cpc[d]
          /\ UNCHANGED <<ctx, tpc, gs, on>>
      BY <1>18, <2>3, PickFacts
    <3>2. CtxInv
      OBVIOUS
    <3>3. \A d \in Cpus : next[d] \in Threads \cup {None} /\ gs[d] \in Threads \cup {None}
      OBVIOUS
    <3>4. ctx[seen[c]]
      BY <2>1, <2>3
    <3> HIDE DEF IInv, TypeOK, OwnInv, OneCpu, Has, CpuInv
    <3> QED
      BY <2>1, <3>1, <3>2, <3>3, <3>4
  <2> QED
    BY <1>18, <2>2, <2>3, ScanTryCases
<1>19. ASSUME NEW c \in Cpus, Continue(c) PROVE CtxInv'
  BY <1>19 DEF Continue, Label
<1>20. ASSUME NEW c \in Cpus, Save(c) PROVE CtxInv'
  BY <1>20 DEF Save, Label
<1>21. ASSUME NEW c \in Cpus, Release(c) PROVE CtxInv'
  BY <1>21 DEF Release, Label
<1>22. ASSUME NEW c \in Cpus, LeaveIdle(c) PROVE CtxInv'
  BY <1>22 DEF LeaveIdle, Label
<1>23. ASSUME NEW c \in Cpus, GoIdle(c) PROVE CtxInv'
  BY <1>23 DEF GoIdle, Label
<1>24. ASSUME NEW c \in Cpus, Load(c) PROVE CtxInv'
  BY <1>24 DEF Load, Label
<1> QED
  BY <1>1, <1>2, <1>3, <1>4, <1>5, <1>6, <1>7, <1>8, <1>9, <1>10, <1>11, <1>12, <1>13,
     <1>14, <1>15, <1>16, <1>17, <1>18, <1>19, <1>20, <1>21, <1>22, <1>23, <1>24
     DEF Next, ThreadStep, Finish, Handler

\* No step brings a dead thread back.
LEMMA DeadStep == IInv /\ Next => DeadStaysDead'
<1> SUFFICES ASSUME IInv, Next PROVE DeadStaysDead'
  OBVIOUS
<1> USE SchedAssumption DEF IInv, TypeOK, DeadStaysDead, OwnInv, OneCpu, Has, CpuInv, qvars, lvars, tvars, ivars, hvars
<1>1. ASSUME NEW c \in Cpus, NEW t \in Threads, Block(c, t) PROVE DeadStaysDead'
  BY <1>1 DEF Block, DequeueThread, Goto, Runs
<1>2. ASSUME NEW c \in Cpus, NEW t \in Threads, Yield(c, t) PROVE DeadStaysDead'
  BY <1>2 DEF Yield, Goto, Runs
<1>3. ASSUME NEW c \in Cpus, NEW t \in Threads, Resume(c, t) PROVE DeadStaysDead'
  BY <1>3 DEF Resume, Goto, Runs
<1>4. ASSUME NEW c \in Cpus, NEW t \in Threads, Die(c, t) PROVE DeadStaysDead'
  BY <1>4 DEF Die, DequeueThread, Goto, Runs
<1>5. ASSUME NEW c \in Cpus, NEW t \in Threads, YieldForever(c, t) PROVE DeadStaysDead'
  BY <1>5 DEF YieldForever, Goto, Runs
<1>6. ASSUME NEW c \in Cpus, NEW t \in Threads, SchedulingOff(c, t) PROVE DeadStaysDead'
  BY <1>6 DEF SchedulingOff, Goto, Runs
<1>7. ASSUME NEW c \in Cpus, NEW t \in Threads, SchedulingOn(c, t) PROVE DeadStaysDead'
  BY <1>7 DEF SchedulingOn, Goto, Runs
<1>8. ASSUME NEW c \in Cpus, NEW t \in Threads, TakeSlot(c, t) PROVE DeadStaysDead'
  BY <1>8 DEF TakeSlot, Goto, Runs
<1>9. ASSUME NEW c \in Cpus, NEW t \in Threads, QueueFull(c, t) PROVE DeadStaysDead'
  BY <1>9 DEF QueueFull, EnqueueReturn, Triggers, Goto, Runs
<1>10. ASSUME NEW c \in Cpus, NEW t \in Threads, SetEnqueued(c, t) PROVE DeadStaysDead'
  BY <1>10 DEF SetEnqueued, EnqueueReturn, Triggers, Goto, Runs
<1>11. ASSUME NEW c \in Cpus, NEW t \in Threads, NEW u \in Threads, Create(c, t, u) PROVE DeadStaysDead'
  BY <1>11 DEF Create, Runs
<1>12. ASSUME NEW c \in Cpus, NEW t \in Threads, NEW u \in Threads, TriggerEnqueued(c, t, u) PROVE DeadStaysDead'
  BY <1>12 DEF TriggerEnqueued, Runs
<1>13. ASSUME NEW c \in Cpus, NEW t \in Threads, NEW u \in Threads, Trigger(c, t, u) PROVE DeadStaysDead'
  BY <1>13 DEF Trigger, Goto, Runs
<1>14. ASSUME NEW c \in Cpus, TimerExpires(c) PROVE DeadStaysDead'
  BY <1>14 DEF TimerExpires
<1>15. ASSUME NEW c \in Cpus, EntryOff(c) PROVE DeadStaysDead'
  BY <1>15 DEF EntryOff
<1>16. ASSUME NEW c \in Cpus, Entry(c) PROVE DeadStaysDead'
  BY <1>16 DEF Entry, IntsOn, Label
<1>17. ASSUME NEW c \in Cpus, ScanRead(c) PROVE DeadStaysDead'
  BY <1>17 DEF ScanRead, Advance, Label, Wrap
<1>18. ASSUME NEW c \in Cpus, ScanTry(c) PROVE DeadStaysDead'
  <2>1. cpc[c] = "try" /\ seen[c] \in Threads /\ tpc[seen[c]] # "new" /\ next[c] = None
    BY <1>18, TryFacts
  <2>2. CASE /\ tlock[seen[c]] /\ Advance(c) /\ UNCHANGED tlock
             /\ UNCHANGED <<qvars, yield_await, ctx, tvars, ivars, active, gs, on>>
    BY <2>1, <2>2 DEF Advance, Label
  <2>3. CASE ~tlock[seen[c]]
    <3>1. /\ tlock'[seen[c]]
          /\ \A v \in Threads : v # seen[c] => tlock'[v] = tlock[v]
          /\ next'[c] = seen[c] /\ cpc'[c] = "picked"
          /\ \A d \in Cpus : d # c => next'[d] = next[d] /\ cpc'[d] = cpc[d]
          /\ UNCHANGED <<ctx, tpc, gs, on>>
      BY <1>18, <2>3, PickFacts
    <3>2. DeadStaysDead
      OBVIOUS
    <3>3. \A d \in Cpus : next[d] \in Threads \cup {None} /\ gs[d] \in Threads \cup {None}
      OBVIOUS
    <3>4. tpc[seen[c]] # "dead"
      BY <2>1, <2>3
    <3> HIDE DEF IInv, TypeOK, OwnInv, OneCpu, Has, CpuInv
    <3> QED
      BY <2>1, <3>1, <3>2, <3>3, <3>4
  <2> QED
    BY <1>18, <2>2, <2>3, ScanTryCases
<1>19. ASSUME NEW c \in Cpus, Continue(c) PROVE DeadStaysDead'
  BY <1>19 DEF Continue, Label
<1>20. ASSUME NEW c \in Cpus, Save(c) PROVE DeadStaysDead'
  BY <1>20 DEF Save, Label
<1>21. ASSUME NEW c \in Cpus, Release(c) PROVE DeadStaysDead'
  BY <1>21 DEF Release, Label
<1>22. ASSUME NEW c \in Cpus, LeaveIdle(c) PROVE DeadStaysDead'
  BY <1>22 DEF LeaveIdle, Label
<1>23. ASSUME NEW c \in Cpus, GoIdle(c) PROVE DeadStaysDead'
  BY <1>23 DEF GoIdle, Label
<1>24. ASSUME NEW c \in Cpus, Load(c) PROVE DeadStaysDead'
  BY <1>24 DEF Load, Label
<1> QED
  BY <1>1, <1>2, <1>3, <1>4, <1>5, <1>6, <1>7, <1>8, <1>9, <1>10, <1>11, <1>12, <1>13,
     <1>14, <1>15, <1>16, <1>17, <1>18, <1>19, <1>20, <1>21, <1>22, <1>23, <1>24
     DEF Next, ThreadStep, Finish, Handler

-----------------------------------------------------------------------------

\* The parts of the invariant together are inductive.
LEMMA IInvStep == IInv /\ [Next]_vars => IInv'
<1>1. IInv /\ Next => IInv'
  BY TypeStep, CpuStep, OwnStep, CtxStep, NewStep, TimerStep, HandStep, DeadStep
     DEF IInv
<1>2. IInv /\ UNCHANGED vars => IInv'
  BY DEF IInv, vars, qvars, lvars, tvars, ivars, hvars, TypeOK, CpuInv, OwnInv,
         OneCpu, Has, CtxInv, NewInv, TimerInv, HandInv, DeadStaysDead
<1> QED
  BY <1>1, <1>2

\* The inductive invariant holds in every reachable state.
THEOREM Inductive == Spec => []IInv
  BY InitIInv, IInvStep, PTL DEF Spec

\* The model of sched.c keeps to its types; in particular the scan of
\* get_next_thread never leaves the run queue.
THEOREM TypeCorrect == Spec => []TypeOK
  BY Inductive, PTL DEF IInv

\* No thread is on two CPUs, however many CPUs scan the run queue.
THEOREM MutualExclusion == Spec => []OneCpu
<1>1. IInv => OneCpu
  BY DEF IInv, OwnInv
<1> QED
  BY <1>1, Inductive, PTL

\* thread_spinup never loads a context that sched_entry has yet to save.
THEOREM ContextIntegrity == Spec => []LoadsSaved
<1>1. IInv => LoadsSaved
  BY DEF IInv, CtxInv, LoadsSaved
<1> QED
  BY <1>1, Inductive, PTL

\* sched_dequeue_and_die is final.
THEOREM DeathIsFinal == Spec => []DeadStaysDead
  BY Inductive, PTL DEF IInv

\* No CPU that can be interrupted is left without a timer or an interrupt.
THEOREM NoSilentCpu == Spec => []CpuAlive
<1>1. IInv => CpuAlive
  BY DEF IInv, TimerInv, CpuAlive, IntsOn
<1> QED
  BY <1>1, Inductive, PTL

\* A thread that turned scheduling off stays on its CPU.
THEOREM SchedulingOffHolds == Spec => KeepsCpu
<1> DEFINE Keeps == \A c \in Cpus, t \in Threads :
                      on[c] = t /\ tpc[t] = "tlb" => on'[c] = t /\ gs'[c] = t
<1>1. IInv /\ Next => Keeps
  <2> SUFFICES ASSUME IInv, Next, NEW d \in Cpus, NEW v \in Threads,
                      on[d] = v, tpc[v] = "tlb"
               PROVE  on'[d] = v /\ gs'[d] = v
    OBVIOUS
  <2>1. cpc[d] = "thread" /\ gs[d] = v
    BY SchedAssumption DEF IInv, CpuInv, TypeOK
  <2>2. ASSUME NEW c \in Cpus, NEW t \in Threads, ThreadStep(c, t)
        PROVE  on'[d] = v /\ gs'[d] = v
    <3>1. CASE YieldForever(c, t)
      BY <2>1, <3>1 DEF YieldForever, Runs, IInv, TypeOK
    <3>2. CASE UNCHANGED <<on, gs>>
      BY <2>1, <3>2
    <3> QED
      BY <2>2, <3>1, <3>2 DEF ThreadStep, Finish, Block, Yield, Resume, Die,
         SchedulingOff, SchedulingOn, TakeSlot, QueueFull, SetEnqueued, Create,
         TriggerEnqueued, Trigger, hvars
  <2>3. ASSUME NEW c \in Cpus, TimerExpires(c) \/ Handler(c)
        PROVE  on'[d] = v /\ gs'[d] = v
    <3>1. CASE Release(c) \/ LeaveIdle(c) \/ GoIdle(c) \/ Load(c)
      BY <2>1, <3>1 DEF Release, LeaveIdle, GoIdle, Load, IInv, TypeOK
    <3>2. CASE UNCHANGED <<on, gs>>
      BY <2>1, <3>2
    <3> QED
      BY <2>3, <3>1, <3>2 DEF Handler, TimerExpires, EntryOff, Entry, ScanRead,
         ScanTry, Continue, Save, hvars
  <2> QED
    BY <2>2, <2>3 DEF Next
<1>2. IInv /\ [Next]_vars => [Keeps]_vars
  BY <1>1
<1> QED
  BY <1>2, Inductive, PTL DEF Spec, KeepsCpu

=============================================================================
