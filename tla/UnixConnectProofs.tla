------------------------- MODULE UnixConnectProofs -------------------------
(***************************************************************************)
(* Proofs about UnixConnect, for any number of connecting and accepting    *)
(* threads and any backlog: the two ends of a connection name each other,  *)
(* and no wakeup between connect and accept is lost.                       *)
(*                                                                         *)
(* PeersAgree is not inductive: accept overwrites two peers, and neither   *)
(* must have been set.  That a socket waits in the backlog or in accept at *)
(* most once follows from the state that connect tests (PeerInv), and from *)
(* the lock that accept keeps (LockInv).  NoSleepOnBacklog needs a count:  *)
(* pending triggers and servers about to look cover the backlog (WakeInv). *)
(***************************************************************************)
EXTENDS UnixConnect, FiniteSetTheorems, TLAPS

\* Where threads can be, and that the threads on a listener array are asleep
\* for that event.
Waits(q, e) ==
  \/ q \in Clients /\ e = ConnectEvent(q) /\ pc[q] = "sleep"
  \/ q \in Servers /\ e = SocketEvent(Listener) /\ pc[q] = "sleep"
  \/ q \in Servers /\ e = ConnectEvent(Listener) /\ pc[q] = "held"

WaitInv ==
  /\ \A p \in Clients :
       pc[p] \in {"run", "enter", "await", "sleep", "woken", "stray", "finish"}
  /\ \A p \in Servers :
       pc[p] \in {"run", "enter", "await", "sleep", "link", "hold", "held", "release"}
  /\ \A e \in Events : \A q \in listening[e] : Waits(q, e)
  /\ \A p \in Servers : pc[p] = "sleep" => p \in listening[SocketEvent(Listener)]

\* accept has the listener's lock from the pop to its return, and what it has
\* popped belongs to it alone.
LockInv ==
  \A p \in Servers :
    /\ lock = p <=> pc[p] \in {"link", "hold", "held", "release"}
    /\ taken[p] # None => lock = p
    /\ pc[p] = "link" => taken[p] # None

\* Nobody connects before there is a backlog.
ListenInv ==
  state[Listener] # "LISTENING" =>
    backlog = <<>> /\ \A p \in Clients : pc[p] = "run"

\* connect has not put the socket into the backlog.
Fresh(p) == pc[p] = "enter" \/ (pc[p] = "run" /\ state[p] = "CREATED")

Queued(p) == \E n \in DOMAIN backlog : backlog[n] = p

\* A socket is put into the backlog once, and is linked once.
PeerInv ==
  /\ \A m, n \in DOMAIN backlog : backlog[m] = backlog[n] => m = n
  /\ \A p \in Clients : Fresh(p) => ~Queued(p) /\ peer[p] = None
  /\ \A p \in Clients : Queued(p) => peer[p] = None
  /\ \A s \in Servers : taken[s] # None =>
       /\ ~Fresh(taken[s]) /\ ~Queued(taken[s])
       /\ pc[s] = "link" => peer[taken[s]] = None
  /\ \A k \in Conns : state[k] = "FREE" => peer[k] = None

\* Every socket in the backlog is matched by a trigger that is pending or by a
\* server that is about to look, and nobody sleeps while a trigger is pending.
Entering == {p \in Servers : pc[p] = "enter"}

WakeInv ==
  /\ Len(backlog) <= pending[SocketEvent(Listener)] + Cardinality(Entering)
  /\ (\E p \in Servers : pc[p] = "sleep") => pending[SocketEvent(Listener)] = 0

IInv ==
  TypeOK /\ WaitInv /\ LockInv /\ ListenInv /\ PeerInv /\ PeersAgree /\ WakeInv

-----------------------------------------------------------------------------

Labels == {"run", "enter", "await", "sleep", "woken", "stray", "finish", "link",
           "hold", "held", "release"}

\* The events of sockets are different for different sockets and kinds.
LEMMA EventFacts ==
  /\ \A s \in Sockets : SocketEvent(s) \in Events /\ ConnectEvent(s) \in Events
  /\ \A s, r \in Sockets : SocketEvent(s) # ConnectEvent(r)
  /\ \A s, r \in Sockets : ConnectEvent(s) = ConnectEvent(r) => s = r
  /\ \A s, r \in Sockets : SocketEvent(s) = SocketEvent(r) => s = r
  BY DEF SocketEvent, ConnectEvent, Events

\* The sets of sockets and threads.
LEMMA SetFacts ==
  /\ Listener \in Sockets /\ Clients \subseteq Sockets /\ Conns \subseteq Sockets
  /\ Clients \subseteq Procs /\ Servers \subseteq Procs /\ Binder \in Servers
  /\ Procs = Clients \cup Servers
  /\ Clients \cap Servers = {} /\ Clients \cap Conns = {}
  /\ Listener \notin Clients /\ Listener \notin Conns
  /\ None \notin Sockets /\ None \notin Procs
  BY UnixConnectAssumption DEF Sockets, Procs

\* What event_trigger does, whether somebody listens or not.
Triggers(e, p, label) ==
  /\ listening' = [listening EXCEPT ![e] = {}]
  /\ pc' \in [Procs -> Labels]
  /\ pc'[p] = label
  /\ \A q \in Procs : q # p /\ q \notin listening[e] => pc'[q] = pc[q]
  /\ \A q \in Clients : q # p /\ q \in listening[e] =>
       e = ConnectEvent(q) /\ pc[q] = "sleep" /\ pc'[q] = "woken"
  /\ \A q \in Servers : q # p /\ q \in listening[e] =>
       \/ e = SocketEvent(Listener) /\ pc[q] = "sleep" /\ pc'[q] = "enter"
       \/ e = ConnectEvent(Listener) /\ pc[q] = "held" /\ pc'[q] = "release"
  /\ pending' \in [Events -> Nat]
  /\ \A f \in Events : f # e => pending'[f] = pending[f]
  /\ listening[e] = {} => pending'[e] = pending[e] + 1
  /\ listening[e] # {} => pending' = pending

\* It is what TriggerGoto says, for a thread that runs.
LEMMA TriggerFacts ==
  ASSUME TypeOK, WaitInv,
         NEW e \in Events, NEW p \in Procs, NEW label \in Labels,
         ~ \E f \in Events : Waits(p, f),
         TriggerGoto(e, p, label)
  PROVE  Triggers(e, p, label)
<1> USE DEF TypeOK, Labels, Triggers
<1>1. CASE listening[e] = {}
  <2>1. /\ pending' = [pending EXCEPT ![e] = @ + 1]
        /\ pc' = [pc EXCEPT ![p] = label]
        /\ listening' = listening
    BY <1>1 DEF TriggerGoto, Goto
  <2>2. listening' = [listening EXCEPT ![e] = {}]
    BY <1>1, <2>1
  <2>3. pc \in [Procs -> Labels] /\ pending \in [Events -> Nat]
    OBVIOUS
  <2> HIDE DEF TypeOK, Labels
  <2>4. /\ pc' \in [Procs -> Labels] /\ pc'[p] = label
        /\ \A q \in Procs : q # p => pc'[q] = pc[q]
    BY <2>1, <2>3
  <2>5. /\ pending' \in [Events -> Nat] /\ pending'[e] = pending[e] + 1
        /\ \A f \in Events : f # e => pending'[f] = pending[f]
    BY <2>1, <2>3
  <2> QED
    BY <1>1, <2>2, <2>4, <2>5
<1>2. CASE listening[e] # {}
  <2>1. /\ listening' = [listening EXCEPT ![e] = {}]
        /\ pc' = [q \in Procs |-> IF q = p THEN label
                                  ELSE IF q \in listening[e] THEN Awake(q)
                                  ELSE pc[q]]
        /\ pending' = pending
    BY <1>2 DEF TriggerGoto
  <2>2. \A q \in listening[e] : Waits(q, e)
    BY DEF WaitInv
  <2>3. \A q \in Clients : q \in listening[e] =>
          e = ConnectEvent(q) /\ pc[q] = "sleep" /\ Awake(q) = "woken"
    BY <2>2, SetFacts DEF Waits, Awake
  <2>4. \A q \in Servers : q \in listening[e] =>
          \/ e = SocketEvent(Listener) /\ pc[q] = "sleep" /\ Awake(q) = "enter"
          \/ e = ConnectEvent(Listener) /\ pc[q] = "held" /\ Awake(q) = "release"
    BY <2>2, SetFacts DEF Waits, Awake
  <2>5. listening[e] \subseteq Clients \cup Servers
    BY SetFacts
  <2>6. \A q \in Procs : pc'[q] \in Labels
    BY <2>1, <2>3, <2>4, <2>5
  <2>7. pending \in [Events -> Nat]
    OBVIOUS
  <2> HIDE DEF TypeOK, Labels
  <2> QED
    BY <1>2, <2>1, <2>3, <2>4, <2>6, <2>7, SetFacts
<1> QED
  BY <1>1, <1>2

\* Nothing is connected, queued or waited for at first.
LEMMA InitIInv == Init => IInv
<1> SUFFICES ASSUME Init PROVE IInv
  OBVIOUS
<1> USE UnixConnectAssumption, SetFacts DEF Init
<1>1. TypeOK
  BY DEF TypeOK
<1>2. WaitInv /\ LockInv /\ ListenInv /\ PeersAgree
  BY DEF WaitInv, LockInv, ListenInv, PeersAgree, Waits
<1>3. PeerInv
  BY DEF PeerInv, Fresh, Queued
<1>4. WakeInv
  <2>1. Entering = {}
    BY DEF Entering
  <2> QED
    BY <2>1, FS_EmptySet, EventFacts DEF WakeInv
<1> QED
  BY <1>1, <1>2, <1>3, <1>4 DEF IInv

\* The four triggers of connect and accept, by threads that do not wait.
LEMMA TriggerOfConnectEnqueue ==
  ASSUME IInv, NEW p \in Clients, ConnectEnqueue(p)
  PROVE  Triggers(SocketEvent(Listener), p, "await")
  BY TriggerFacts, EventFacts, SetFacts DEF IInv, ConnectEnqueue, Waits, Labels

LEMMA TriggerOfConnectSignal ==
  ASSUME IInv, NEW p \in Clients, ConnectSignal(p)
  PROVE  Triggers(ConnectEvent(Listener), p, "finish")
  BY TriggerFacts, EventFacts, SetFacts DEF IInv, ConnectSignal, Waits, Labels

LEMMA TriggerOfConnectFinish ==
  ASSUME IInv, NEW p \in Clients, ConnectFinish(p)
  PROVE  Triggers(SocketEvent(p), p, "run")
  BY TriggerFacts, EventFacts, SetFacts DEF IInv, ConnectFinish, Waits, Labels

LEMMA TriggerOfAcceptLink ==
  ASSUME IInv, NEW p \in Servers, AcceptLink(p)
  PROVE  taken[p] \in Clients /\ Triggers(ConnectEvent(taken[p]), p, "hold")
<1>1. taken[p] \in Clients
  BY SetFacts DEF IInv, TypeOK, LockInv, AcceptLink
<1>2. ConnectEvent(taken[p]) \in Events /\ p \in Procs /\ "hold" \in Labels
  BY <1>1, EventFacts, SetFacts DEF Labels
<1>3. ~ \E f \in Events : Waits(p, f)
  BY SetFacts DEF AcceptLink, Waits
<1>4. TypeOK /\ WaitInv /\ TriggerGoto(ConnectEvent(taken[p]), p, "hold")
  BY DEF IInv, AcceptLink
<1> QED
  BY <1>1, <1>2, <1>3, <1>4, TriggerFacts

EventType ==
  /\ pending' \in [Events -> Nat]
  /\ listening' \in [Events -> SUBSET Procs]
  /\ pc' \in [Procs -> Labels]

\* A trigger and a wait keep the types of events and labels.
LEMMA TriggerType ==
  ASSUME TypeOK, NEW e \in Events, NEW p, NEW label, Triggers(e, p, label)
  PROVE  EventType
  BY DEF TypeOK, Triggers, EventType

LEMMA AwaitType ==
  ASSUME TypeOK, NEW e \in Events, NEW p \in Procs,
         NEW first \in Labels, NEW second \in Labels,
         AwaitPending(e, p, first) \/ AwaitSleep(e, p, second)
  PROVE  EventType
<1>1. pending \in [Events -> Nat] /\ listening \in [Events -> SUBSET Procs] /\ pc \in [Procs -> Labels]
  BY DEF TypeOK, Labels
<1>2. CASE AwaitPending(e, p, first)
  BY <1>1, <1>2 DEF AwaitPending, Goto, EventType
<1>3. CASE AwaitSleep(e, p, second)
  BY <1>1, <1>3 DEF AwaitSleep, Goto, EventType
<1> QED
  BY <1>2, <1>3

\* Every step keeps to the types.
LEMMA TypeStep == IInv /\ [Next]_vars => TypeOK'
<1> SUFFICES ASSUME IInv, [Next]_vars PROVE TypeOK'
  OBVIOUS
<1> USE SetFacts, EventFacts, UnixConnectAssumption DEF IInv, TypeOK, socket, queue, event, Goto
<1>1. ASSUME NEW p \in Clients, ConnectBegin(p) PROVE TypeOK'
  BY <1>1 DEF ConnectBegin
<1>2. ASSUME NEW p \in Clients, ConnectFull(p) PROVE TypeOK'
  BY <1>2 DEF ConnectFull
<1>3. ASSUME NEW p \in Clients, ConnectEnqueue(p) PROVE TypeOK'
  <2>1. EventType
    BY <1>3, TriggerOfConnectEnqueue, TriggerType, EventFacts
  <2> QED
    BY <1>3, <2>1, TriggerOfConnectEnqueue DEF EventType, ConnectEnqueue, BacklogFull, Labels
<1>4. ASSUME NEW p \in Clients, ConnectAwait(p) PROVE TypeOK'
  <2>1. EventType
    BY <1>4, AwaitType, EventFacts DEF ConnectAwait, Labels
  <2> QED
    BY <1>4, <2>1 DEF EventType, ConnectAwait, Labels
<1>5. ASSUME NEW p \in Clients, ConnectSpurious(p) PROVE TypeOK'
  BY <1>5 DEF ConnectSpurious, AwaitSpurious
<1>6. ASSUME NEW p \in Clients, ConnectSignal(p) PROVE TypeOK'
  <2>1. EventType
    BY <1>6, TriggerOfConnectSignal, TriggerType, EventFacts
  <2> QED
    BY <1>6, <2>1, TriggerOfConnectSignal DEF EventType, ConnectSignal, Labels
<1>7. ASSUME NEW p \in Clients, ConnectFinish(p) PROVE TypeOK'
  <2>1. EventType
    BY <1>7, TriggerOfConnectFinish, TriggerType, EventFacts
  <2> QED
    BY <1>7, <2>1, TriggerOfConnectFinish DEF EventType, ConnectFinish, Labels
<1>8. ASSUME NEW p \in Servers, Bind(p) PROVE TypeOK'
  BY <1>8 DEF Bind
<1>9. ASSUME NEW p \in Servers, NEW n \in Backlogs, Listen(p, n) PROVE TypeOK'
  BY <1>9 DEF Listen, ListenInv
<1>10. ASSUME NEW p \in Servers, AcceptBegin(p) PROVE TypeOK'
  BY <1>10 DEF AcceptBegin
<1>11. ASSUME NEW p \in Servers, AcceptEmpty(p) PROVE TypeOK'
  BY <1>11 DEF AcceptEmpty
<1>12. ASSUME NEW p \in Servers, AcceptAwait(p) PROVE TypeOK'
  <2>1. EventType
    BY <1>12, AwaitType, EventFacts DEF AcceptAwait, Labels
  <2> QED
    BY <1>12, <2>1 DEF EventType, AcceptAwait, Labels
<1>13. ASSUME NEW p \in Servers, AcceptSpurious(p) PROVE TypeOK'
  BY <1>13 DEF AcceptSpurious, AwaitSpurious
<1>14. ASSUME NEW p \in Servers, AcceptPop(p) PROVE TypeOK'
  BY <1>14 DEF AcceptPop
<1>15. ASSUME NEW p \in Servers, AcceptFails(p) PROVE TypeOK'
  BY <1>15 DEF AcceptFails
<1>16. ASSUME NEW p \in Servers, AcceptLink(p) PROVE TypeOK'
  <2>1. EventType
    BY <1>16, TriggerOfAcceptLink, TriggerType, EventFacts
  <2> QED
    BY <1>16, <2>1, TriggerOfAcceptLink DEF EventType, AcceptLink, Linked, Labels
<1>17. ASSUME NEW p \in Servers, AcceptHold(p) PROVE TypeOK'
  <2>1. EventType
    BY <1>17, AwaitType, EventFacts DEF AcceptHold, Labels
  <2> QED
    BY <1>17, <2>1 DEF EventType, AcceptHold, Labels
<1>18. ASSUME NEW p \in Servers, HoldSpurious(p) PROVE TypeOK'
  BY <1>18 DEF HoldSpurious, AwaitSpurious
<1>19. ASSUME NEW p \in Servers, AcceptReturn(p) PROVE TypeOK'
  BY <1>19 DEF AcceptReturn
<1>20. CASE UNCHANGED vars
  BY <1>20 DEF vars, socket, queue, event
<1> QED
  BY <1>1, <1>2, <1>3, <1>4, <1>5, <1>6, <1>7, <1>8, <1>9, <1>10,
     <1>11, <1>12, <1>13, <1>14, <1>15, <1>16, <1>17, <1>18, <1>19, <1>20 DEF Next, ConnectStep, AcceptStep

ClientLabels == {"run", "enter", "await", "sleep", "woken", "stray", "finish"}
ServerLabels == {"run", "enter", "await", "sleep", "link", "hold", "held", "release"}

\* A trigger wakes whoever is listed for its event, and nobody else.
LEMMA TriggerWait ==
  ASSUME TypeOK, WaitInv, NEW e \in Events, NEW p \in Procs, NEW label,
         ~ \E f \in Events : Waits(p, f), Triggers(e, p, label),
         p \in Clients => label \in ClientLabels,
         p \in Servers => label \in ServerLabels \ {"sleep"}
  PROVE  WaitInv'
<1> USE SetFacts, EventFacts
<1>1. \A q \in Clients : pc[q] \in ClientLabels
  BY DEF WaitInv, ClientLabels
<1>2. \A q \in Servers : pc[q] \in ServerLabels
  BY DEF WaitInv, ServerLabels
<1>3. \A q \in Clients : pc'[q] \in ClientLabels
  BY <1>1 DEF Triggers, ClientLabels
<1>4. \A q \in Servers : pc'[q] \in ServerLabels
  BY <1>2 DEF Triggers, ServerLabels
<1>5. ASSUME NEW f \in Events, NEW q \in listening'[f] PROVE Waits(q, f)'
  <2>1. f # e /\ q \in listening[f] /\ q \in Procs
    BY DEF Triggers, TypeOK
  <2>2. Waits(q, f) /\ q # p
    BY <2>1 DEF WaitInv
  <2>3. q \notin listening[e]
    BY <2>1, <2>2 DEF WaitInv, Waits
  <2>4. pc'[q] = pc[q]
    BY <2>1, <2>2, <2>3 DEF Triggers
  <2> QED
    BY <2>2, <2>4 DEF Waits
<1>6. ASSUME NEW q \in Servers, pc'[q] = "sleep"
      PROVE  q \in listening'[SocketEvent(Listener)]
  <2>1. q # p /\ q \notin listening[e] /\ pc[q] = "sleep"
    BY <1>6 DEF Triggers
  <2>2. q \in listening[SocketEvent(Listener)] /\ SocketEvent(Listener) # e
    BY <2>1 DEF WaitInv
  <2> QED
    BY <2>2 DEF Triggers, TypeOK
<1> QED
  BY <1>3, <1>4, <1>5, <1>6 DEF WaitInv, ClientLabels, ServerLabels

\* A wait consumes a trigger, or lists the thread for the event.
LEMMA AwaitWait ==
  ASSUME TypeOK, WaitInv, NEW e \in Events, NEW p \in Procs,
         NEW first, NEW second,
         pc[p] \notin {"sleep", "held"},
         AwaitPending(e, p, first) \/ AwaitSleep(e, p, second),
         p \in Clients => first \in ClientLabels /\ second \in ClientLabels,
         p \in Servers => first \in ServerLabels \ {"sleep"} /\ second \in ServerLabels,
         \/ p \in Clients /\ e = ConnectEvent(p) /\ second = "sleep"
         \/ p \in Servers /\ e = SocketEvent(Listener) /\ second = "sleep"
         \/ p \in Servers /\ e = ConnectEvent(Listener) /\ second = "held"
  PROVE  WaitInv'
<1> USE SetFacts, EventFacts
<1>1. \A f \in Events : \A q \in listening[f] : q \in Procs /\ q # p /\ Waits(q, f)
  BY DEF WaitInv, Waits, TypeOK
<1>2. pc \in [Procs -> Labels] /\ listening \in [Events -> SUBSET Procs]
  BY DEF TypeOK, Labels
<1>3. \A q \in Procs : q # p => pc'[q] = pc[q]
  BY <1>2 DEF AwaitPending, AwaitSleep, Goto
<1>4. CASE AwaitPending(e, p, first)
  <2>1. pc'[p] = first /\ listening' = listening
    BY <1>2, <1>4 DEF AwaitPending, Goto
  <2>2. \A f \in Events : \A q \in listening'[f] : Waits(q, f)'
    BY <1>1, <1>3, <2>1 DEF Waits
  <2> QED
    BY <1>3, <2>1, <2>2 DEF WaitInv, ClientLabels, ServerLabels
<1>5. CASE AwaitSleep(e, p, second)
  <2>1. pc'[p] = second /\ listening' = [listening EXCEPT ![e] = @ \cup {p}]
    BY <1>2, <1>5 DEF AwaitSleep, Goto
  <2>2. \A f \in Events : listening[f] \subseteq listening'[f]
    BY <1>2, <2>1
  <2>3. ASSUME NEW f \in Events, NEW q \in listening'[f] PROVE Waits(q, f)'
    <3>1. q \in listening[f] \/ (q = p /\ f = e)
      BY <1>2, <2>1, <2>3
    <3> QED
      BY <1>1, <1>3, <2>1, <3>1 DEF Waits
  <2>4. ASSUME NEW q \in Servers, pc'[q] = "sleep"
        PROVE  q \in listening'[SocketEvent(Listener)]
    <3>1. CASE q = p
      BY <1>2, <2>1, <2>4, <3>1
    <3>2. CASE q # p
      BY <1>3, <2>2, <2>4, <3>2 DEF WaitInv
    <3> QED
      BY <3>1, <3>2
  <2>5. /\ \A q \in Clients : pc'[q] \in ClientLabels
        /\ \A q \in Servers : pc'[q] \in ServerLabels
    BY <1>3, <2>1 DEF WaitInv, ClientLabels, ServerLabels
  <2> QED
    BY <2>3, <2>4, <2>5 DEF WaitInv, ClientLabels, ServerLabels
<1> QED
  BY <1>4, <1>5

\* Every step keeps what the listener arrays say about the threads on them.
LEMMA WaitStep == IInv /\ [Next]_vars => WaitInv'
<1> SUFFICES ASSUME IInv, [Next]_vars PROVE WaitInv'
  OBVIOUS
<1> USE SetFacts, EventFacts DEF IInv, TypeOK, WaitInv, Waits, socket, queue, event, Goto
<1>1. ASSUME NEW p \in Clients, ConnectBegin(p) PROVE WaitInv'
  BY <1>1 DEF ConnectBegin
<1>2. ASSUME NEW p \in Clients, ConnectFull(p) PROVE WaitInv'
  BY <1>2 DEF ConnectFull
<1>3. ASSUME NEW p \in Clients, ConnectEnqueue(p) PROVE WaitInv'
  <2>1. ~ \E f \in Events : Waits(p, f)
    BY <1>3 DEF ConnectEnqueue
  <2> QED
    BY <1>3, <2>1, TriggerOfConnectEnqueue, TriggerWait DEF ClientLabels, ServerLabels
<1>4. ASSUME NEW p \in Clients, ConnectAwait(p) PROVE WaitInv'
  BY <1>4, AwaitWait DEF ConnectAwait, ClientLabels, ServerLabels
<1>5. ASSUME NEW p \in Clients, ConnectSpurious(p) PROVE WaitInv'
  BY <1>5 DEF ConnectSpurious, AwaitSpurious
<1>6. ASSUME NEW p \in Clients, ConnectSignal(p) PROVE WaitInv'
  <2>1. ~ \E f \in Events : Waits(p, f)
    BY <1>6 DEF ConnectSignal
  <2> QED
    BY <1>6, <2>1, TriggerOfConnectSignal, TriggerWait DEF ClientLabels, ServerLabels
<1>7. ASSUME NEW p \in Clients, ConnectFinish(p) PROVE WaitInv'
  <2>1. ~ \E f \in Events : Waits(p, f)
    BY <1>7 DEF ConnectFinish
  <2> QED
    BY <1>7, <2>1, TriggerOfConnectFinish, TriggerWait DEF ClientLabels, ServerLabels
<1>8. ASSUME NEW p \in Servers, Bind(p) PROVE WaitInv'
  BY <1>8 DEF Bind
<1>9. ASSUME NEW p \in Servers, NEW n \in Backlogs, Listen(p, n) PROVE WaitInv'
  BY <1>9 DEF Listen
<1>10. ASSUME NEW p \in Servers, AcceptBegin(p) PROVE WaitInv'
  BY <1>10 DEF AcceptBegin
<1>11. ASSUME NEW p \in Servers, AcceptEmpty(p) PROVE WaitInv'
  BY <1>11 DEF AcceptEmpty
<1>12. ASSUME NEW p \in Servers, AcceptAwait(p) PROVE WaitInv'
  BY <1>12, AwaitWait DEF AcceptAwait, ClientLabels, ServerLabels
<1>13. ASSUME NEW p \in Servers, AcceptSpurious(p) PROVE WaitInv'
  BY <1>13 DEF AcceptSpurious, AwaitSpurious
<1>14. ASSUME NEW p \in Servers, AcceptPop(p) PROVE WaitInv'
  BY <1>14 DEF AcceptPop
<1>15. ASSUME NEW p \in Servers, AcceptFails(p) PROVE WaitInv'
  BY <1>15 DEF AcceptFails
<1>16. ASSUME NEW p \in Servers, AcceptLink(p) PROVE WaitInv'
  <2>1. ~ \E f \in Events : Waits(p, f)
    BY <1>16 DEF AcceptLink
  <2>2. taken[p] \in Clients /\ Triggers(ConnectEvent(taken[p]), p, "hold")
    BY <1>16, TriggerOfAcceptLink
  <2>3. ConnectEvent(taken[p]) \in Events /\ p \in Procs /\ p \notin Clients
    BY <2>2
  <2>4. TypeOK /\ WaitInv
    BY DEF IInv
  <2> HIDE DEF IInv, TypeOK, WaitInv, Waits
  <2> QED
    BY <2>1, <2>2, <2>3, <2>4, TriggerWait DEF ServerLabels
<1>17. ASSUME NEW p \in Servers, AcceptHold(p) PROVE WaitInv'
  BY <1>17, AwaitWait DEF AcceptHold, ClientLabels, ServerLabels
<1>18. ASSUME NEW p \in Servers, HoldSpurious(p) PROVE WaitInv'
  BY <1>18 DEF HoldSpurious, AwaitSpurious
<1>19. ASSUME NEW p \in Servers, AcceptReturn(p) PROVE WaitInv'
  BY <1>19 DEF AcceptReturn
<1>20. CASE UNCHANGED vars
  BY <1>20 DEF vars, socket, queue, event
<1> QED
  BY <1>1, <1>2, <1>3, <1>4, <1>5, <1>6, <1>7, <1>8, <1>9, <1>10,
     <1>11, <1>12, <1>13, <1>14, <1>15, <1>16, <1>17, <1>18, <1>19, <1>20 DEF Next, ConnectStep, AcceptStep

Inside == {"link", "hold", "held", "release"}

\* A trigger takes no other thread into connect, or into or out of the section
\* of accept under the lock.
LEMMA TriggerOthers ==
  ASSUME TypeOK, NEW e \in Events, NEW p, NEW label, Triggers(e, p, label)
  PROVE  /\ \A q \in Servers : q # p =>
              /\ pc'[q] \in Inside <=> pc[q] \in Inside
              /\ pc'[q] = "link" <=> pc[q] = "link"
              /\ pc[q] = "enter" => pc'[q] = "enter"
         /\ \A q \in Clients : q # p =>
              pc'[q] = pc[q] \/ (pc[q] = "sleep" /\ pc'[q] = "woken")
         /\ pc'[p] = label
<1>1. \A q \in Servers : q # p =>
        \/ pc'[q] = pc[q]
        \/ pc[q] = "sleep" /\ pc'[q] = "enter"
        \/ pc[q] = "held" /\ pc'[q] = "release"
  BY SetFacts DEF Triggers
<1>2. \A q \in Clients : q # p =>
        pc'[q] = pc[q] \/ (pc[q] = "sleep" /\ pc'[q] = "woken")
  BY SetFacts DEF Triggers
<1> QED
  BY <1>1, <1>2 DEF Inside, Triggers

\* Every step keeps the listener's lock with the accept that has popped.
LEMMA LockStep == IInv /\ [Next]_vars => LockInv'
<1> SUFFICES ASSUME IInv, [Next]_vars PROVE LockInv'
  OBVIOUS
<1> USE SetFacts, EventFacts DEF IInv, TypeOK, WaitInv, LockInv, socket, queue, event, Goto
<1>1. ASSUME NEW p \in Clients, ConnectBegin(p) PROVE LockInv'
  BY <1>1 DEF ConnectBegin
<1>2. ASSUME NEW p \in Clients, ConnectFull(p) PROVE LockInv'
  BY <1>2 DEF ConnectFull
<1>3. ASSUME NEW p \in Clients, ConnectEnqueue(p) PROVE LockInv'
  <2>1. Triggers(SocketEvent(Listener), p, "await") /\ SocketEvent(Listener) \in Events
    BY <1>3, TriggerOfConnectEnqueue
  <2>2. UNCHANGED <<lock, taken>> /\ p \notin Servers
    BY <1>3 DEF ConnectEnqueue
  <2>3. LockInv /\ TypeOK
    BY DEF IInv
  <2> HIDE DEF IInv, TypeOK, WaitInv
  <2> QED
    BY <2>1, <2>2, <2>3, TriggerOthers DEF Inside
<1>4. ASSUME NEW p \in Clients, ConnectAwait(p) PROVE LockInv'
  BY <1>4 DEF ConnectAwait, AwaitPending, AwaitSleep
<1>5. ASSUME NEW p \in Clients, ConnectSpurious(p) PROVE LockInv'
  BY <1>5 DEF ConnectSpurious, AwaitSpurious
<1>6. ASSUME NEW p \in Clients, ConnectSignal(p) PROVE LockInv'
  <2>1. Triggers(ConnectEvent(Listener), p, "finish") /\ ConnectEvent(Listener) \in Events
    BY <1>6, TriggerOfConnectSignal
  <2>2. UNCHANGED <<lock, taken>> /\ p \notin Servers
    BY <1>6 DEF ConnectSignal
  <2>3. LockInv /\ TypeOK
    BY DEF IInv
  <2> HIDE DEF IInv, TypeOK, WaitInv
  <2> QED
    BY <2>1, <2>2, <2>3, TriggerOthers DEF Inside
<1>7. ASSUME NEW p \in Clients, ConnectFinish(p) PROVE LockInv'
  <2>1. Triggers(SocketEvent(p), p, "run") /\ SocketEvent(p) \in Events
    BY <1>7, TriggerOfConnectFinish
  <2>2. UNCHANGED <<lock, taken>> /\ p \notin Servers
    BY <1>7 DEF ConnectFinish
  <2>3. LockInv /\ TypeOK
    BY DEF IInv
  <2> HIDE DEF IInv, TypeOK, WaitInv
  <2> QED
    BY <2>1, <2>2, <2>3, TriggerOthers DEF Inside
<1>8. ASSUME NEW p \in Servers, Bind(p) PROVE LockInv'
  BY <1>8 DEF Bind
<1>9. ASSUME NEW p \in Servers, NEW n \in Backlogs, Listen(p, n) PROVE LockInv'
  BY <1>9 DEF Listen
<1>10. ASSUME NEW p \in Servers, AcceptBegin(p) PROVE LockInv'
  BY <1>10 DEF AcceptBegin
<1>11. ASSUME NEW p \in Servers, AcceptEmpty(p) PROVE LockInv'
  BY <1>11 DEF AcceptEmpty
<1>12. ASSUME NEW p \in Servers, AcceptAwait(p) PROVE LockInv'
  <2>1. pc[p] = "await" /\ pc' \in {[pc EXCEPT ![p] = "enter"], [pc EXCEPT ![p] = "sleep"]}
    BY <1>12 DEF AcceptAwait, AwaitPending, AwaitSleep
  <2>2. UNCHANGED <<lock, taken>>
    BY <1>12 DEF AcceptAwait
  <2>3. pc'[p] \in {"enter", "sleep"} /\ \A q \in Procs : q # p => pc'[q] = pc[q]
    BY <2>1
  <2>4. LockInv
    OBVIOUS
  <2> HIDE DEF IInv, TypeOK, WaitInv
  <2> QED
    BY <2>1, <2>2, <2>3, <2>4
<1>13. ASSUME NEW p \in Servers, AcceptSpurious(p) PROVE LockInv'
  BY <1>13 DEF AcceptSpurious, AwaitSpurious
<1>14. ASSUME NEW p \in Servers, AcceptPop(p) PROVE LockInv'
  BY <1>14 DEF AcceptPop
<1>15. ASSUME NEW p \in Servers, AcceptFails(p) PROVE LockInv'
  BY <1>15 DEF AcceptFails
<1>16. ASSUME NEW p \in Servers, AcceptLink(p) PROVE LockInv'
  <2>1. Triggers(ConnectEvent(taken[p]), p, "hold") /\ ConnectEvent(taken[p]) \in Events
    BY <1>16, TriggerOfAcceptLink
  <2>2. UNCHANGED <<lock, taken>> /\ pc[p] = "link"
    BY <1>16 DEF AcceptLink
  <2>3. LockInv /\ TypeOK
    BY DEF IInv
  <2> HIDE DEF IInv, TypeOK, WaitInv
  <2> QED
    BY <2>1, <2>2, <2>3, TriggerOthers DEF Inside
<1>17. ASSUME NEW p \in Servers, AcceptHold(p) PROVE LockInv'
  BY <1>17 DEF AcceptHold, AwaitPending, AwaitSleep
<1>18. ASSUME NEW p \in Servers, HoldSpurious(p) PROVE LockInv'
  BY <1>18 DEF HoldSpurious, AwaitSpurious
<1>19. ASSUME NEW p \in Servers, AcceptReturn(p) PROVE LockInv'
  BY <1>19 DEF AcceptReturn
<1>20. CASE UNCHANGED vars
  BY <1>20 DEF vars, socket, queue, event
<1> QED
  BY <1>1, <1>2, <1>3, <1>4, <1>5, <1>6, <1>7, <1>8, <1>9, <1>10,
     <1>11, <1>12, <1>13, <1>14, <1>15, <1>16, <1>17, <1>18, <1>19, <1>20 DEF Next, ConnectStep, AcceptStep

\* Every step keeps connect out before listen.
LEMMA ListenStep == IInv /\ [Next]_vars => ListenInv'
<1> SUFFICES ASSUME IInv, [Next]_vars PROVE ListenInv'
  OBVIOUS
<1> USE SetFacts, EventFacts DEF IInv, TypeOK, WaitInv, LockInv, ListenInv, socket, queue, event, Goto
<1>1. ASSUME NEW p \in Clients, ConnectBegin(p) PROVE ListenInv'
  BY <1>1 DEF ConnectBegin, Listens
<1>2. ASSUME NEW p \in Clients, ConnectFull(p) PROVE ListenInv'
  BY <1>2 DEF ConnectFull
<1>3. ASSUME NEW p \in Clients, ConnectEnqueue(p) PROVE ListenInv'
  BY <1>3, TriggerOfConnectEnqueue DEF ConnectEnqueue, Triggers
<1>4. ASSUME NEW p \in Clients, ConnectAwait(p) PROVE ListenInv'
  BY <1>4 DEF ConnectAwait, AwaitPending, AwaitSleep
<1>5. ASSUME NEW p \in Clients, ConnectSpurious(p) PROVE ListenInv'
  BY <1>5 DEF ConnectSpurious, AwaitSpurious
<1>6. ASSUME NEW p \in Clients, ConnectSignal(p) PROVE ListenInv'
  BY <1>6, TriggerOfConnectSignal DEF ConnectSignal, Triggers
<1>7. ASSUME NEW p \in Clients, ConnectFinish(p) PROVE ListenInv'
  BY <1>7, TriggerOfConnectFinish DEF ConnectFinish, Triggers
<1>8. ASSUME NEW p \in Servers, Bind(p) PROVE ListenInv'
  BY <1>8 DEF Bind, Unbound
<1>9. ASSUME NEW p \in Servers, NEW n \in Backlogs, Listen(p, n) PROVE ListenInv'
  BY <1>9 DEF Listen
<1>10. ASSUME NEW p \in Servers, AcceptBegin(p) PROVE ListenInv'
  BY <1>10 DEF AcceptBegin
<1>11. ASSUME NEW p \in Servers, AcceptEmpty(p) PROVE ListenInv'
  BY <1>11 DEF AcceptEmpty
<1>12. ASSUME NEW p \in Servers, AcceptAwait(p) PROVE ListenInv'
  BY <1>12 DEF AcceptAwait, AwaitPending, AwaitSleep
<1>13. ASSUME NEW p \in Servers, AcceptSpurious(p) PROVE ListenInv'
  BY <1>13 DEF AcceptSpurious, AwaitSpurious
<1>14. ASSUME NEW p \in Servers, AcceptPop(p) PROVE ListenInv'
  BY <1>14 DEF AcceptPop
<1>15. ASSUME NEW p \in Servers, AcceptFails(p) PROVE ListenInv'
  BY <1>15 DEF AcceptFails
<1>16. ASSUME NEW p \in Servers, AcceptLink(p) PROVE ListenInv'
  <2>1. taken[p] \in Clients /\ Triggers(ConnectEvent(taken[p]), p, "hold")
    BY <1>16, TriggerOfAcceptLink
  <2>2. \A q \in Clients : pc[q] = "run" => pc'[q] = "run"
    <3>1. ConnectEvent(taken[p]) \in Events /\ TypeOK /\ p \notin Clients
      BY <2>1
    <3> HIDE DEF IInv, TypeOK, WaitInv, LockInv, ListenInv
    <3> QED
      BY <2>1, <3>1, TriggerOthers
  <2>3. UNCHANGED backlog
    BY <1>16 DEF AcceptLink
  <2>4. state'[Listener] = state[Listener]
    BY <1>16, <2>1 DEF AcceptLink, Linked
  <2> QED
    BY <2>2, <2>3, <2>4
<1>17. ASSUME NEW p \in Servers, AcceptHold(p) PROVE ListenInv'
  BY <1>17 DEF AcceptHold, AwaitPending, AwaitSleep
<1>18. ASSUME NEW p \in Servers, HoldSpurious(p) PROVE ListenInv'
  BY <1>18 DEF HoldSpurious, AwaitSpurious
<1>19. ASSUME NEW p \in Servers, AcceptReturn(p) PROVE ListenInv'
  BY <1>19 DEF AcceptReturn
<1>20. CASE UNCHANGED vars
  BY <1>20 DEF vars, socket, queue, event
<1> QED
  BY <1>1, <1>2, <1>3, <1>4, <1>5, <1>6, <1>7, <1>8, <1>9, <1>10,
     <1>11, <1>12, <1>13, <1>14, <1>15, <1>16, <1>17, <1>18, <1>19, <1>20 DEF Next, ConnectStep, AcceptStep


-----------------------------------------------------------------------------
(* A socket is queued once and linked once *)

\* Steps that neither queue, pop nor link, and make no socket fresh.
PeerFrame ==
  /\ UNCHANGED <<backlog, peer>>
  /\ \A k \in Conns : state'[k] = state[k]
  /\ \A q \in Clients : Fresh(q)' => Fresh(q)
  /\ \A s \in Servers :
       /\ taken'[s] \in {taken[s], None}
       /\ pc'[s] = "link" => pc[s] = "link"

LEMMA PeerFrameKeeps ==
  ASSUME IInv, PeerFrame PROVE PeerInv'
<1>1. \A q : Queued(q)' <=> Queued(q)
  BY DEF Queued, PeerFrame
<1>2. \A s \in Servers : taken[s] \in Clients \cup {None}
  BY DEF IInv, TypeOK
<1>3. PeerInv
  BY DEF IInv
<1> QED
  BY <1>1, <1>2, <1>3, Zenon DEF PeerInv, PeerFrame

\* Every step keeps each socket in the backlog or in accept at most once.
LEMMA PeerStep == IInv /\ [Next]_vars => PeerInv'
<1> SUFFICES ASSUME IInv, [Next]_vars PROVE PeerInv'
  OBVIOUS
<1> USE SetFacts, EventFacts DEF IInv, TypeOK, socket, queue, event, Goto
<1>1. ASSUME NEW p \in Clients, ConnectBegin(p) PROVE PeerInv'
  <2>1. PeerFrame
    BY <1>1 DEF ConnectBegin, PeerFrame, Fresh
  <2> QED
    BY <2>1, PeerFrameKeeps
<1>2. ASSUME NEW p \in Clients, ConnectFull(p) PROVE PeerInv'
  <2>1. PeerFrame
    BY <1>2 DEF ConnectFull, PeerFrame, Fresh
  <2> QED
    BY <2>1, PeerFrameKeeps
<1>3. ASSUME NEW p \in Clients, ConnectEnqueue(p) PROVE PeerInv'
  <2>1. /\ TypeOK /\ SocketEvent(Listener) \in Events /\ PeerInv /\ backlog \in Seq(Clients)
        /\ Triggers(SocketEvent(Listener), p, "await")
    BY <1>3, TriggerOfConnectEnqueue
  <2>2. /\ UNCHANGED <<state, peer, taken>> /\ backlog' = Append(backlog, p)
        /\ pc[p] = "enter"
    BY <1>3 DEF ConnectEnqueue
  <2>3. \A s \in Servers : taken[s] \in Clients \cup {None}
    OBVIOUS
  <2> HIDE DEF IInv, TypeOK
  <2>4. Fresh(p) /\ ~Fresh(p)'
    BY <2>1, <2>2 DEF Fresh, Triggers
  <2>5. \A q \in Clients : Fresh(q)' => Fresh(q) /\ q # p
    BY <2>1, <2>2, <2>4, TriggerOthers DEF Fresh
  <2>6. \A s \in Servers : pc'[s] = "link" => pc[s] = "link"
    BY <2>1, TriggerOthers
  <2>7. ~Queued(p) /\ peer[p] = None
    BY <2>1, <2>4 DEF PeerInv
  <2>8. \A q \in Clients : Queued(q)' <=> Queued(q) \/ q = p
    BY <2>1, <2>2 DEF Queued
  <2>9. \A m, n \in DOMAIN backlog' : backlog'[m] = backlog'[n] => m = n
    <3>1. \A n \in DOMAIN backlog : backlog[n] # p
      BY <2>7 DEF Queued
    <3>2. \A m, n \in DOMAIN backlog : backlog[m] = backlog[n] => m = n
      BY <2>1 DEF PeerInv
    <3> QED
      BY <2>1, <2>2, <3>1, <3>2
  <2> QED
    BY <2>1, <2>2, <2>3, <2>4, <2>5, <2>6, <2>7, <2>8, <2>9 DEF PeerInv
<1>4. ASSUME NEW p \in Clients, ConnectAwait(p) PROVE PeerInv'
  <2>1. PeerFrame
    BY <1>4 DEF ConnectAwait, AwaitPending, AwaitSleep, PeerFrame, Fresh
  <2> QED
    BY <2>1, PeerFrameKeeps
<1>5. ASSUME NEW p \in Clients, ConnectSpurious(p) PROVE PeerInv'
  <2>1. PeerFrame
    BY <1>5 DEF ConnectSpurious, AwaitSpurious, PeerFrame, Fresh
  <2> QED
    BY <2>1, PeerFrameKeeps
<1>6. ASSUME NEW p \in Clients, ConnectSignal(p) PROVE PeerInv'
  <2>1. /\ TypeOK /\ ConnectEvent(Listener) \in Events
        /\ Triggers(ConnectEvent(Listener), p, "finish")
    BY <1>6, TriggerOfConnectSignal
  <2>2. UNCHANGED <<backlog, peer, taken>> /\ UNCHANGED state
    BY <1>6 DEF ConnectSignal
  <2> HIDE DEF IInv, TypeOK
  <2>3. PeerFrame
    BY <2>1, <2>2, TriggerOthers DEF PeerFrame, Fresh
  <2> QED
    BY <2>3, PeerFrameKeeps
<1>7. ASSUME NEW p \in Clients, ConnectFinish(p) PROVE PeerInv'
  <2>1. /\ TypeOK /\ SocketEvent(p) \in Events
        /\ Triggers(SocketEvent(p), p, "run")
    BY <1>7, TriggerOfConnectFinish
  <2>2. UNCHANGED <<backlog, peer, taken>> /\ state'[p] = "CONNECTED"
        /\ \A s \in Sockets : s # p => state'[s] = state[s]
    BY <1>7 DEF ConnectFinish
  <2> HIDE DEF IInv, TypeOK
  <2>3. PeerFrame
    BY <2>1, <2>2, TriggerOthers DEF PeerFrame, Fresh
  <2> QED
    BY <2>3, PeerFrameKeeps
<1>8. ASSUME NEW p \in Servers, Bind(p) PROVE PeerInv'
  <2>1. PeerFrame
    BY <1>8 DEF Bind, PeerFrame, Fresh
  <2> QED
    BY <2>1, PeerFrameKeeps
<1>9. ASSUME NEW p \in Servers, NEW n \in Backlogs, Listen(p, n) PROVE PeerInv'
  <2>1. PeerFrame
    BY <1>9 DEF Listen, PeerFrame, Fresh
  <2> QED
    BY <2>1, PeerFrameKeeps
<1>10. ASSUME NEW p \in Servers, AcceptBegin(p) PROVE PeerInv'
  <2>1. PeerFrame
    BY <1>10 DEF AcceptBegin, PeerFrame, Fresh
  <2> QED
    BY <2>1, PeerFrameKeeps
<1>11. ASSUME NEW p \in Servers, AcceptEmpty(p) PROVE PeerInv'
  <2>1. PeerFrame
    BY <1>11 DEF AcceptEmpty, PeerFrame, Fresh
  <2> QED
    BY <2>1, PeerFrameKeeps
<1>12. ASSUME NEW p \in Servers, AcceptAwait(p) PROVE PeerInv'
  <2>1. PeerFrame
    BY <1>12 DEF AcceptAwait, AwaitPending, AwaitSleep, PeerFrame, Fresh
  <2> QED
    BY <2>1, PeerFrameKeeps
<1>13. ASSUME NEW p \in Servers, AcceptSpurious(p) PROVE PeerInv'
  <2>1. PeerFrame
    BY <1>13 DEF AcceptSpurious, AwaitSpurious, PeerFrame, Fresh
  <2> QED
    BY <2>1, PeerFrameKeeps
<1>14. ASSUME NEW p \in Servers, AcceptPop(p) PROVE PeerInv'
  <2>1. /\ PeerInv /\ backlog \in Seq(Clients) /\ backlog # <<>>
        /\ UNCHANGED <<state, peer>> /\ backlog' = Tail(backlog)
        /\ pc' = [pc EXCEPT ![p] = "link"] /\ taken' = [taken EXCEPT ![p] = Head(backlog)]
    BY <1>14 DEF AcceptPop
  <2>2. /\ \A s \in Servers : taken[s] \in Clients \cup {None}
        /\ \A s \in Servers : s # p => taken'[s] = taken[s] /\ pc'[s] = pc[s]
        /\ taken'[p] = Head(backlog) /\ Head(backlog) \in Clients
    BY <2>1
  <2>3. \A q \in Clients : pc'[q] = pc[q]
    BY <2>1
  <2> HIDE DEF IInv, TypeOK
  <2> PICK h \in Clients : h = Head(backlog)
    BY <2>2
  <2>4. \A q \in Clients : Fresh(q)' <=> Fresh(q)
    BY <2>1, <2>3 DEF Fresh
  <2>5. 1 \in DOMAIN backlog /\ h = backlog[1]
    BY <2>1
  <2>6. \A n \in DOMAIN backlog' : n + 1 \in DOMAIN backlog /\ backlog'[n] = backlog[n + 1] /\ n \in Nat \ {0}
    BY <2>1
  <2>7. \A m, n \in DOMAIN backlog : backlog[m] = backlog[n] => m = n
    BY <2>1 DEF PeerInv
  <2>8. \A m, n \in DOMAIN backlog' : backlog'[m] = backlog'[n] => m = n
    BY <2>6, <2>7
  <2>9. \A q : Queued(q)' => Queued(q)
    BY <2>6 DEF Queued
  <2>10. Queued(h) /\ ~Queued(h)'
    <3>1. ASSUME Queued(h)' PROVE FALSE
      <4>1. PICK n \in DOMAIN backlog' : backlog'[n] = h
        BY <3>1 DEF Queued
      <4> QED
        BY <4>1, <2>5, <2>6, <2>7
    <3> QED
      BY <2>5, <3>1 DEF Queued
  <2>11. ~Fresh(h) /\ peer[h] = None
    BY <2>1, <2>2, <2>10 DEF PeerInv
  <2> QED
    BY <2>1, <2>2, <2>4, <2>8, <2>9, <2>10, <2>11 DEF PeerInv
<1>15. ASSUME NEW p \in Servers, AcceptFails(p) PROVE PeerInv'
  <2>1. PeerFrame
    BY <1>15 DEF AcceptFails, PeerFrame, Fresh
  <2> QED
    BY <2>1, PeerFrameKeeps
<1>16. ASSUME NEW p \in Servers, AcceptLink(p) PROVE PeerInv'
  <2>1. /\ TypeOK /\ PeerInv /\ LockInv /\ taken[p] \in Clients
        /\ Triggers(ConnectEvent(taken[p]), p, "hold") /\ ConnectEvent(taken[p]) \in Events
    BY <1>16, TriggerOfAcceptLink
  <2>2. PICK k \in Conns : state[k] = "FREE" /\ Linked(p, k)
    BY <1>16 DEF AcceptLink
  <2>3. UNCHANGED <<backlog, taken>> /\ pc[p] = "link"
    BY <1>16 DEF AcceptLink
  <2>4. /\ state'[k] = "CONNECTED" /\ state'[taken[p]] = "CONNECTED"
        /\ \A s \in Sockets : s \notin {k, taken[p]} => state'[s] = state[s] /\ peer'[s] = peer[s]
    BY <2>1, <2>2 DEF Linked
  <2>5. \A s \in Servers : taken[s] \in Clients \cup {None}
    OBVIOUS
  <2> HIDE DEF IInv, TypeOK
  <2>6. \A q \in Clients : pc'[q] = pc[q] \/ (pc[q] = "sleep" /\ pc'[q] = "woken")
    BY <2>1, TriggerOthers
  <2>7. \A q \in Clients : Fresh(q)' => Fresh(q)
    BY <2>1, <2>4, <2>6 DEF Fresh
  <2>8. \A s \in Servers : pc'[s] # "link"
    <3>1. \A s \in Servers : s # p => pc[s] # "link"
      BY <2>1, <2>3 DEF LockInv
    <3> QED
      BY <2>1, <3>1, TriggerOthers
  <2>9. \A q : Queued(q)' <=> Queued(q)
    BY <2>3 DEF Queued
  <2>10. ~Queued(taken[p]) /\ ~Fresh(taken[p])
    BY <2>1 DEF PeerInv
  <2> QED
    BY <2>1, <2>3, <2>4, <2>5, <2>7, <2>8, <2>9, <2>10 DEF PeerInv
<1>17. ASSUME NEW p \in Servers, AcceptHold(p) PROVE PeerInv'
  <2>1. PeerFrame
    BY <1>17 DEF AcceptHold, AwaitPending, AwaitSleep, PeerFrame, Fresh
  <2> QED
    BY <2>1, PeerFrameKeeps
<1>18. ASSUME NEW p \in Servers, HoldSpurious(p) PROVE PeerInv'
  <2>1. PeerFrame
    BY <1>18 DEF HoldSpurious, AwaitSpurious, PeerFrame, Fresh
  <2> QED
    BY <2>1, PeerFrameKeeps
<1>19. ASSUME NEW p \in Servers, AcceptReturn(p) PROVE PeerInv'
  <2>1. PeerFrame
    BY <1>19 DEF AcceptReturn, PeerFrame, Fresh
  <2> QED
    BY <2>1, PeerFrameKeeps
<1>20. CASE UNCHANGED vars
  <2>1. PeerFrame
    BY <1>20 DEF vars, PeerFrame, Fresh
  <2> QED
    BY <2>1, PeerFrameKeeps
<1> QED
  BY <1>1, <1>2, <1>3, <1>4, <1>5, <1>6, <1>7, <1>8, <1>9, <1>10,
     <1>11, <1>12, <1>13, <1>14, <1>15, <1>16, <1>17, <1>18, <1>19, <1>20 DEF Next, ConnectStep, AcceptStep


-----------------------------------------------------------------------------
(* Peers name each other *)

\* Every step keeps the ends of a connection naming each other.
LEMMA AgreeStep == IInv /\ [Next]_vars => PeersAgree'
<1> SUFFICES ASSUME IInv, [Next]_vars PROVE PeersAgree'
  OBVIOUS
<1> USE SetFacts, EventFacts DEF IInv, TypeOK, socket, queue, event
<1>1. ASSUME NEW p \in Clients, ConnectBegin(p) PROVE PeersAgree'
  BY <1>1 DEF ConnectBegin, PeersAgree
<1>2. ASSUME NEW p \in Clients, ConnectFull(p) PROVE PeersAgree'
  BY <1>2 DEF ConnectFull, PeersAgree
<1>3. ASSUME NEW p \in Clients, ConnectEnqueue(p) PROVE PeersAgree'
  BY <1>3 DEF ConnectEnqueue, PeersAgree
<1>4. ASSUME NEW p \in Clients, ConnectAwait(p) PROVE PeersAgree'
  BY <1>4 DEF ConnectAwait, PeersAgree
<1>5. ASSUME NEW p \in Clients, ConnectSpurious(p) PROVE PeersAgree'
  BY <1>5 DEF ConnectSpurious, PeersAgree
<1>6. ASSUME NEW p \in Clients, ConnectSignal(p) PROVE PeersAgree'
  BY <1>6 DEF ConnectSignal, PeersAgree
<1>7. ASSUME NEW p \in Clients, ConnectFinish(p) PROVE PeersAgree'
  BY <1>7 DEF ConnectFinish, PeersAgree
<1>8. ASSUME NEW p \in Servers, Bind(p) PROVE PeersAgree'
  BY <1>8 DEF Bind, PeersAgree
<1>9. ASSUME NEW p \in Servers, NEW n \in Backlogs, Listen(p, n) PROVE PeersAgree'
  BY <1>9 DEF Listen, PeersAgree
<1>10. ASSUME NEW p \in Servers, AcceptBegin(p) PROVE PeersAgree'
  BY <1>10 DEF AcceptBegin, PeersAgree
<1>11. ASSUME NEW p \in Servers, AcceptEmpty(p) PROVE PeersAgree'
  BY <1>11 DEF AcceptEmpty, PeersAgree
<1>12. ASSUME NEW p \in Servers, AcceptAwait(p) PROVE PeersAgree'
  BY <1>12 DEF AcceptAwait, PeersAgree
<1>13. ASSUME NEW p \in Servers, AcceptSpurious(p) PROVE PeersAgree'
  BY <1>13 DEF AcceptSpurious, PeersAgree
<1>14. ASSUME NEW p \in Servers, AcceptPop(p) PROVE PeersAgree'
  BY <1>14 DEF AcceptPop, PeersAgree
<1>15. ASSUME NEW p \in Servers, AcceptFails(p) PROVE PeersAgree'
  BY <1>15 DEF AcceptFails, PeersAgree
<1>16. ASSUME NEW p \in Servers, AcceptLink(p) PROVE PeersAgree'
  <2>1. /\ peer \in [Sockets -> Sockets \cup {None}] /\ PeerInv /\ PeersAgree
        /\ taken[p] \in Clients /\ pc[p] = "link"
    BY <1>16, TriggerOfAcceptLink DEF AcceptLink
  <2>2. PICK k \in Conns : state[k] = "FREE" /\ Linked(p, k)
    BY <1>16 DEF AcceptLink
  <2>3. peer[k] = None /\ peer[taken[p]] = None
    BY <2>1, <2>2 DEF PeerInv
  <2> HIDE DEF IInv, TypeOK
  <2>4. /\ peer'[k] = taken[p] /\ peer'[taken[p]] = k /\ k # taken[p]
        /\ \A s \in Sockets : s \notin {k, taken[p]} => peer'[s] = peer[s]
    BY <2>1, <2>2 DEF Linked
  <2>5. ASSUME NEW s \in Sockets, peer'[s] # None PROVE peer'[peer'[s]] = s
    <3>1. CASE s \in {k, taken[p]}
      BY <2>4, <3>1
    <3>2. CASE s \notin {k, taken[p]}
      <4>1. peer'[s] = peer[s] /\ peer[s] \in Sockets /\ peer[peer[s]] = s
        BY <2>1, <2>4, <2>5, <3>2 DEF PeersAgree
      <4>2. peer[s] \notin {k, taken[p]}
        BY <2>3, <4>1
      <4> QED
        BY <2>4, <4>1, <4>2
    <3> QED
      BY <3>1, <3>2
  <2> QED
    BY <2>5 DEF PeersAgree
<1>17. ASSUME NEW p \in Servers, AcceptHold(p) PROVE PeersAgree'
  BY <1>17 DEF AcceptHold, PeersAgree
<1>18. ASSUME NEW p \in Servers, HoldSpurious(p) PROVE PeersAgree'
  BY <1>18 DEF HoldSpurious, PeersAgree
<1>19. ASSUME NEW p \in Servers, AcceptReturn(p) PROVE PeersAgree'
  BY <1>19 DEF AcceptReturn, PeersAgree
<1>20. CASE UNCHANGED vars
  BY <1>20 DEF vars, PeersAgree
<1> QED
  BY <1>1, <1>2, <1>3, <1>4, <1>5, <1>6, <1>7, <1>8, <1>9, <1>10,
     <1>11, <1>12, <1>13, <1>14, <1>15, <1>16, <1>17, <1>18, <1>19, <1>20 DEF Next, ConnectStep, AcceptStep


-----------------------------------------------------------------------------
(* No wakeup is lost *)

Sleepers == {p \in Servers : pc[p] = "sleep"}

\* Steps that leave the backlog and the listener's event alone, keep whoever is
\* about to look, and put nobody to sleep.
WakeFrame ==
  /\ UNCHANGED backlog
  /\ pending'[SocketEvent(Listener)] = pending[SocketEvent(Listener)]
  /\ Entering \subseteq Entering'
  /\ Sleepers' \subseteq Sleepers

\* The servers about to look are finitely many, as all servers are.
LEMMA EnteringFinite ==
  /\ IsFiniteSet(Entering) /\ Cardinality(Entering) \in Nat
  /\ IsFiniteSet(Entering') /\ Cardinality(Entering') \in Nat
  BY UnixConnectAssumption, FS_Subset, FS_CardinalityType DEF Entering

LEMMA WakeFrameKeeps ==
  ASSUME IInv, WakeFrame PROVE WakeInv'
<1>1. Cardinality(Entering) <= Cardinality(Entering')
  BY EnteringFinite, FS_Subset DEF WakeFrame
<1>2. Len(backlog) \in Nat /\ pending[SocketEvent(Listener)] \in Nat
  BY EventFacts, SetFacts DEF IInv, TypeOK
<1>3. WakeInv
  BY DEF IInv
<1>4. (\E p \in Servers : pc'[p] = "sleep") => \E p \in Servers : pc[p] = "sleep"
  BY DEF WakeFrame, Sleepers
<1> QED
  BY <1>1, <1>2, <1>3, <1>4, EnteringFinite DEF WakeInv, WakeFrame

\* A trigger of another event keeps the sleepers and whoever is about to look.
LEMMA TriggerFrame ==
  ASSUME IInv, NEW e \in Events, NEW p \in Procs, NEW label,
         Triggers(e, p, label), e # SocketEvent(Listener), UNCHANGED backlog,
         p \in Servers => pc[p] # "enter" /\ label # "sleep"
  PROVE  WakeFrame
<1>1. \A q \in Servers : pc[q] = "enter" => pc'[q] = "enter"
  BY TriggerOthers DEF IInv
<1>2. \A q \in Servers : pc'[q] = "sleep" => pc[q] = "sleep"
  BY SetFacts DEF Triggers
<1>3. pending'[SocketEvent(Listener)] = pending[SocketEvent(Listener)]
  BY EventFacts, SetFacts DEF Triggers
<1> QED
  BY <1>1, <1>2, <1>3 DEF WakeFrame, Entering, Sleepers

\* Every step keeps the backlog covered by triggers and by servers about to look.
LEMMA WakeStep == IInv /\ [Next]_vars => WakeInv'
<1> SUFFICES ASSUME IInv, [Next]_vars PROVE WakeInv'
  OBVIOUS
<1> USE SetFacts, EventFacts DEF IInv, TypeOK, socket, queue, event, Goto
<1>1. ASSUME NEW p \in Clients, ConnectBegin(p) PROVE WakeInv'
  <2>1. WakeFrame
    BY <1>1 DEF ConnectBegin, WakeFrame, Entering, Sleepers
  <2> QED
    BY <2>1, WakeFrameKeeps
<1>2. ASSUME NEW p \in Clients, ConnectFull(p) PROVE WakeInv'
  <2>1. WakeFrame
    BY <1>2 DEF ConnectFull, WakeFrame, Entering, Sleepers
  <2> QED
    BY <2>1, WakeFrameKeeps
<1>3. ASSUME NEW p \in Clients, ConnectEnqueue(p) PROVE WakeInv'
  <2>1. /\ Len(backlog) \in Nat /\ pending[SocketEvent(Listener)] \in Nat /\ WakeInv
        /\ pc \in [Procs -> Labels] /\ backlog \in Seq(Clients) /\ pending \in [Events -> Nat]
        /\ SocketEvent(Listener) \in Events
    BY DEF Labels
  <2>2. /\ Triggers(SocketEvent(Listener), p, "await")
        /\ backlog' = Append(backlog, p) /\ TypeOK /\ WaitInv /\ p \notin Servers
    BY <1>3, TriggerOfConnectEnqueue DEF ConnectEnqueue
  <2> HIDE DEF IInv, TypeOK
  <2>3. Len(backlog') = Len(backlog) + 1
    BY <2>1, <2>2
  <2>4. Entering \subseteq Entering'
    BY <2>1, <2>2, TriggerOthers DEF Entering
  <2>5. Cardinality(Entering) <= Cardinality(Entering')
    BY <2>4, EnteringFinite, FS_Subset
  <2>6. Sleepers' \subseteq Sleepers
    BY <2>2 DEF Sleepers, Triggers
  <2>7. CASE listening[SocketEvent(Listener)] = {}
    <3>1. pending'[SocketEvent(Listener)] = pending[SocketEvent(Listener)] + 1
      BY <2>2, <2>7 DEF Triggers
    <3>2. Sleepers = {}
      BY <2>2, <2>7 DEF Sleepers, WaitInv
    <3> QED
      BY <2>1, <2>3, <2>5, <2>6, <3>1, <3>2, EnteringFinite DEF WakeInv, Sleepers
  <2>8. CASE listening[SocketEvent(Listener)] # {}
    <3>1. PICK q \in listening[SocketEvent(Listener)] : Waits(q, SocketEvent(Listener))
      BY <2>1, <2>2, <2>8 DEF WaitInv
    <3>2. q \in Servers /\ pc[q] = "sleep" /\ q # p
      BY <2>2, <3>1 DEF Waits
    <3>3. pc'[q] = "enter"
      BY <2>2, <3>1, <3>2 DEF Triggers
    <3>4. q \notin Entering /\ q \in Entering'
      BY <3>2, <3>3 DEF Entering
    <3>5. /\ IsFiniteSet(Entering \cup {q})
          /\ Cardinality(Entering \cup {q}) = Cardinality(Entering) + 1
      BY <3>4, EnteringFinite, FS_AddElement
    <3>6. Cardinality(Entering) + 1 <= Cardinality(Entering')
      <4>1. Entering \cup {q} \subseteq Entering'
        BY <2>4, <3>4
      <4> QED
        BY <3>5, <4>1, EnteringFinite, FS_Subset
    <3>7. pending' = pending
      BY <2>2, <2>8 DEF Triggers
    <3>8. pending[SocketEvent(Listener)] = 0
      BY <2>1, <3>2 DEF WakeInv
    <3> QED
      BY <2>1, <2>3, <3>6, <3>7, <3>8, EnteringFinite DEF WakeInv
  <2> QED
    BY <2>7, <2>8
<1>4. ASSUME NEW p \in Clients, ConnectAwait(p) PROVE WakeInv'
  <2>1. WakeFrame
    BY <1>4 DEF ConnectAwait, AwaitPending, AwaitSleep, WakeFrame, Entering, Sleepers
  <2> QED
    BY <2>1, WakeFrameKeeps
<1>5. ASSUME NEW p \in Clients, ConnectSpurious(p) PROVE WakeInv'
  <2>1. WakeFrame
    BY <1>5 DEF ConnectSpurious, AwaitSpurious, WakeFrame, Entering, Sleepers
  <2> QED
    BY <2>1, WakeFrameKeeps
<1>6. ASSUME NEW p \in Clients, ConnectSignal(p) PROVE WakeInv'
  <2>1. /\ Triggers(ConnectEvent(Listener), p, "finish") /\ ConnectEvent(Listener) \in Events
        /\ ConnectEvent(Listener) # SocketEvent(Listener)
    BY <1>6, TriggerOfConnectSignal
  <2>2. UNCHANGED backlog /\ (p \in Servers => pc[p] # "enter")
    BY <1>6 DEF ConnectSignal
  <2> HIDE DEF IInv, TypeOK
  <2>3. WakeFrame
    BY <2>1, <2>2, TriggerFrame
  <2> QED
    BY <2>3, WakeFrameKeeps
<1>7. ASSUME NEW p \in Clients, ConnectFinish(p) PROVE WakeInv'
  <2>1. /\ Triggers(SocketEvent(p), p, "run") /\ SocketEvent(p) \in Events
        /\ SocketEvent(p) # SocketEvent(Listener)
    BY <1>7, TriggerOfConnectFinish
  <2>2. UNCHANGED backlog /\ (p \in Servers => pc[p] # "enter")
    BY <1>7 DEF ConnectFinish
  <2> HIDE DEF IInv, TypeOK
  <2>3. WakeFrame
    BY <2>1, <2>2, TriggerFrame
  <2> QED
    BY <2>3, WakeFrameKeeps
<1>8. ASSUME NEW p \in Servers, Bind(p) PROVE WakeInv'
  <2>1. WakeFrame
    BY <1>8 DEF Bind, WakeFrame, Entering, Sleepers
  <2> QED
    BY <2>1, WakeFrameKeeps
<1>9. ASSUME NEW p \in Servers, NEW n \in Backlogs, Listen(p, n) PROVE WakeInv'
  <2>1. WakeFrame
    BY <1>9 DEF Listen, WakeFrame, Entering, Sleepers
  <2> QED
    BY <2>1, WakeFrameKeeps
<1>10. ASSUME NEW p \in Servers, AcceptBegin(p) PROVE WakeInv'
  <2>1. WakeFrame
    BY <1>10 DEF AcceptBegin, WakeFrame, Entering, Sleepers
  <2> QED
    BY <2>1, WakeFrameKeeps
<1>11. ASSUME NEW p \in Servers, AcceptEmpty(p) PROVE WakeInv'
  <2>1. /\ Len(backlog) \in Nat /\ pending[SocketEvent(Listener)] \in Nat /\ WakeInv
        /\ pc \in [Procs -> Labels] /\ backlog \in Seq(Clients) /\ pending \in [Events -> Nat]
        /\ SocketEvent(Listener) \in Events
    BY DEF Labels
  <2>2. UNCHANGED <<backlog, pending>> /\ Len(backlog) = 0
    BY <1>11 DEF AcceptEmpty
  <2>3. \A q \in Servers : pc'[q] = "sleep" => pc[q] = "sleep"
    BY <1>11, <2>1 DEF AcceptEmpty
  <2> HIDE DEF IInv, TypeOK
  <2> QED
    BY <2>1, <2>2, <2>3, EnteringFinite DEF WakeInv
<1>12. ASSUME NEW p \in Servers, AcceptAwait(p) PROVE WakeInv'
  <2>1. /\ Len(backlog) \in Nat /\ pending[SocketEvent(Listener)] \in Nat /\ WakeInv
        /\ pc \in [Procs -> Labels] /\ backlog \in Seq(Clients) /\ pending \in [Events -> Nat]
        /\ SocketEvent(Listener) \in Events
    BY DEF Labels
  <2>2. UNCHANGED backlog /\ pc[p] = "await"
    BY <1>12 DEF AcceptAwait
  <2>3. CASE AwaitPending(SocketEvent(Listener), p, "enter")
    <3>1. /\ pending[SocketEvent(Listener)] > 0
          /\ pending'[SocketEvent(Listener)] = pending[SocketEvent(Listener)] - 1
          /\ pc' = [pc EXCEPT ![p] = "enter"]
      BY <2>1, <2>3 DEF AwaitPending
    <3> HIDE DEF IInv, TypeOK
    <3>2. Entering' = Entering \cup {p} /\ p \notin Entering
      BY <2>1, <2>2, <3>1 DEF Entering
    <3>3. Cardinality(Entering') = Cardinality(Entering) + 1
      BY <3>2, EnteringFinite, FS_AddElement
    <3>4. \A q \in Servers : pc'[q] # "sleep"
      BY <2>1, <3>1 DEF WakeInv
    <3> QED
      BY <2>1, <2>2, <3>1, <3>3, <3>4, EnteringFinite DEF WakeInv
  <2>4. CASE AwaitSleep(SocketEvent(Listener), p, "sleep")
    <3>1. /\ pending[SocketEvent(Listener)] = 0 /\ pending' = pending
          /\ pc' = [pc EXCEPT ![p] = "sleep"]
      BY <2>4 DEF AwaitSleep
    <3> HIDE DEF IInv, TypeOK
    <3>2. Entering' = Entering
      BY <2>1, <2>2, <3>1 DEF Entering
    <3> QED
      BY <2>1, <2>2, <3>1, <3>2 DEF WakeInv
  <2> QED
    BY <1>12, <2>3, <2>4 DEF AcceptAwait
<1>13. ASSUME NEW p \in Servers, AcceptSpurious(p) PROVE WakeInv'
  <2>1. WakeFrame
    BY <1>13 DEF AcceptSpurious, AwaitSpurious, WakeFrame, Entering, Sleepers
  <2> QED
    BY <2>1, WakeFrameKeeps
<1>14. ASSUME NEW p \in Servers, AcceptPop(p) PROVE WakeInv'
  <2>1. /\ Len(backlog) \in Nat /\ pending[SocketEvent(Listener)] \in Nat /\ WakeInv
        /\ pc \in [Procs -> Labels] /\ backlog \in Seq(Clients) /\ pending \in [Events -> Nat]
        /\ SocketEvent(Listener) \in Events
    BY DEF Labels
  <2>2. /\ backlog # <<>> /\ backlog' = Tail(backlog) /\ pending' = pending
        /\ pc[p] = "enter" /\ pc' = [pc EXCEPT ![p] = "link"]
    BY <1>14 DEF AcceptPop
  <2> HIDE DEF IInv, TypeOK
  <2>3. Len(backlog') = Len(backlog) - 1
    BY <2>1, <2>2
  <2>4. Entering' = Entering \ {p} /\ p \in Entering
    BY <2>1, <2>2 DEF Entering
  <2>5. Cardinality(Entering') = Cardinality(Entering) - 1
    BY <2>4, EnteringFinite, FS_RemoveElement
  <2>6. \A q \in Servers : pc'[q] = "sleep" => pc[q] = "sleep"
    BY <2>1, <2>2
  <2> QED
    BY <2>1, <2>2, <2>3, <2>5, <2>6, EnteringFinite DEF WakeInv
<1>15. ASSUME NEW p \in Servers, AcceptFails(p) PROVE WakeInv'
  <2>1. WakeFrame
    BY <1>15 DEF AcceptFails, WakeFrame, Entering, Sleepers
  <2> QED
    BY <2>1, WakeFrameKeeps
<1>16. ASSUME NEW p \in Servers, AcceptLink(p) PROVE WakeInv'
  <2>1. /\ Triggers(ConnectEvent(taken[p]), p, "hold") /\ ConnectEvent(taken[p]) \in Events
        /\ ConnectEvent(taken[p]) # SocketEvent(Listener)
    BY <1>16, TriggerOfAcceptLink
  <2>2. UNCHANGED backlog /\ (p \in Servers => pc[p] # "enter")
    BY <1>16 DEF AcceptLink
  <2> HIDE DEF IInv, TypeOK
  <2>3. WakeFrame
    BY <2>1, <2>2, TriggerFrame
  <2> QED
    BY <2>3, WakeFrameKeeps
<1>17. ASSUME NEW p \in Servers, AcceptHold(p) PROVE WakeInv'
  <2>1. WakeFrame
    BY <1>17 DEF AcceptHold, AwaitPending, AwaitSleep, WakeFrame, Entering, Sleepers
  <2> QED
    BY <2>1, WakeFrameKeeps
<1>18. ASSUME NEW p \in Servers, HoldSpurious(p) PROVE WakeInv'
  <2>1. WakeFrame
    BY <1>18 DEF HoldSpurious, AwaitSpurious, WakeFrame, Entering, Sleepers
  <2> QED
    BY <2>1, WakeFrameKeeps
<1>19. ASSUME NEW p \in Servers, AcceptReturn(p) PROVE WakeInv'
  <2>1. WakeFrame
    BY <1>19 DEF AcceptReturn, WakeFrame, Entering, Sleepers
  <2> QED
    BY <2>1, WakeFrameKeeps
<1>20. CASE UNCHANGED vars
  <2>1. WakeFrame
    BY <1>20 DEF vars, WakeFrame, Entering, Sleepers
  <2> QED
    BY <2>1, WakeFrameKeeps

<1> QED
  BY <1>1, <1>2, <1>3, <1>4, <1>5, <1>6, <1>7, <1>8, <1>9, <1>10,
     <1>11, <1>12, <1>13, <1>14, <1>15, <1>16, <1>17, <1>18, <1>19, <1>20 DEF Next, ConnectStep, AcceptStep


-----------------------------------------------------------------------------
(* Theorems *)

\* The parts of IInv hold together in every state of connect and accept: the
\* inductive invariant that the properties below follow from.
THEOREM Inductive == Spec => []IInv
<1>1. IInv /\ [Next]_vars => IInv'
  <2> SUFFICES ASSUME IInv, [Next]_vars PROVE IInv'
    OBVIOUS
  <2>1. TypeOK' /\ WaitInv' /\ LockInv' /\ ListenInv'
    BY TypeStep, WaitStep, LockStep, ListenStep
  <2>2. PeerInv' /\ PeersAgree' /\ WakeInv'
    BY PeerStep, AgreeStep, WakeStep
  <2> QED
    BY <2>1, <2>2 DEF IInv
<1> QED
  BY InitIInv, <1>1, PTL DEF Spec

\* The variables of connect and accept keep their types, and the backlog never
\* grows past what listen was called with: connect tests it under the lock.
THEOREM TypeCorrect == Spec => []TypeOK
<1>1. IInv => TypeOK
  BY DEF IInv
<1> QED
  BY Inductive, <1>1, PTL

\* Whatever connects, retries and accepts run at once, the two sockets of a
\* connection name each other and no third socket names either: unix_write,
\* which goes to this->peer, never reaches a socket of another connection.
THEOREM EndsAgree == Spec => []PeersAgree
<1>1. IInv => PeersAgree
  BY DEF IInv
<1> QED
  BY Inductive, <1>1, PTL

\* accept holds the listener's lock from the pop of the backlog to its return,
\* and no two of them are there at once: what one has popped no other links.
THEOREM PopExclusive ==
  Spec => [](\A p, q \in Servers : taken[p] # None /\ taken[q] # None => p = q)
<1>1. IInv => \A p, q \in Servers : taken[p] # None /\ taken[q] # None => p = q
  BY DEF IInv, LockInv
<1> QED
  BY Inductive, <1>1, PTL

\* A server sleeps for the listener's event only while nobody waits in the
\* backlog, unless another server is on its way to take it: no order of
\* event_trigger and event_await loses the wakeup.
THEOREM NoLostConnect == Spec => []NoSleepOnBacklog
<1>1. IInv => NoSleepOnBacklog
  <2> SUFFICES ASSUME IInv, backlog # <<>>, \E p \in Servers : pc[p] = "sleep"
               PROVE  \E p \in Servers : pc[p] = "enter"
    BY DEF NoSleepOnBacklog
  <2>1. Len(backlog) > 0 /\ Len(backlog) \in Nat
    BY DEF IInv, TypeOK
  <2>2. Len(backlog) <= 0 + Cardinality(Entering)
    BY DEF IInv, WakeInv
  <2>3. Cardinality(Entering) # 0
    BY <2>1, <2>2, EnteringFinite
  <2>4. Entering # {}
    BY <2>3, FS_EmptySet
  <2> QED
    BY <2>4 DEF Entering
<1> QED
  BY Inductive, <1>1, PTL

=============================================================================
