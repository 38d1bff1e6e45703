---------------------------- MODULE UnixConnect ----------------------------
(***************************************************************************)
(* Connections of UNIX domain sockets: bind, listen, connect and accept of *)
(* kernel/ipc/socket.c with the handlers of kernel/ipc/socket/unix.c, on   *)
(* one listening socket.                                                   *)
(*                                                                         *)
(* connect puts its socket into the backlog and waits for its own          *)
(* connect_event; accept takes the first of the backlog, links it with a   *)
(* new socket, triggers that event and then waits, with the listener's     *)
(* lock still taken, for the connect_event of the listener, which the      *)
(* connecting thread triggers when it goes on.                             *)
(*                                                                         *)
(* A section under the listener's lock is one step unless it waits.        *)
(* "await" is the gap before event_await.  Sockets are never freed.        *)
(***************************************************************************)
EXTENDS Naturals, Sequences, FiniteSets

CONSTANTS
  Clients,     \* threads that connect, each with a socket of its own
  Servers,     \* threads that share the descriptor of the listening socket
  Binder,      \* the server that sets the listening socket up
  Listener,    \* the listening socket
  Conns,       \* sockets that accept may create before memory runs out
  Backlogs,    \* what listen may be called with
  None         \* NULL

Procs == Clients \cup Servers
Sockets == {Listener} \cup Clients \cup Conns

ASSUME UnixConnectAssumption ==
  /\ Clients \cap Servers = {} /\ Clients \cap Conns = {}
  /\ Listener \notin Clients \cup Conns
  /\ None \notin Sockets \cup Procs
  /\ Binder \in Servers
  /\ Backlogs \subseteq Nat
  /\ IsFiniteSet(Servers)

VARIABLES
  state,        \* struct socket: state, FREE before socket_create_unix
  peer,         \* struct socket: peer
  status,       \* struct resource: status
  backlog,      \* backlog[0 .. backlog_i - 1] of the listening socket
  backlog_max,  \* backlog_max of the listening socket
  lock,         \* who waits with the listener's lock taken
  pending,      \* struct event: pending
  listening,    \* struct event: the threads on its listener array
  nonblock,     \* O_NONBLOCK of the listener's description
  pc,           \* where each thread is
  taken         \* syscall_accept: peer

socket == <<state, peer, status>>
queue == <<backlog, backlog_max, lock>>
event == <<pending, listening>>
vars == <<socket, queue, event, nonblock, pc, taken>>

\* Each socket has an event, which accept waits for, and a connect_event.
Events == {"event", "connect_event"} \X Sockets
SocketEvent(s) == <<"event", s>>
ConnectEvent(s) == <<"connect_event", s>>

TypeOK ==
  /\ state \in [Sockets -> {"FREE", "CREATED", "BOUND", "LISTENING",
                            "CONNECTED"}]
  /\ peer \in [Sockets -> Sockets \cup {None}]
  /\ status \in [Sockets -> SUBSET {"POLLIN", "POLLOUT"}]
  /\ backlog \in Seq(Clients) /\ Len(backlog) <= backlog_max
  /\ backlog_max \in Nat
  /\ lock \in Servers \cup {None}
  /\ pending \in [Events -> Nat]
  /\ listening \in [Events -> SUBSET Procs]
  /\ nonblock \in BOOLEAN
  /\ pc \in [Procs -> {"run", "enter", "await", "sleep", "woken", "stray",
                       "finish", "link", "hold", "held", "release"}]
  /\ taken \in [Servers -> Clients \cup {None}]

\* syscall_socket has created every socket but those of accept.
Init ==
  /\ state = [s \in Sockets |-> IF s \in Conns THEN "FREE" ELSE "CREATED"]
  /\ peer = [s \in Sockets |-> None]
  /\ status = [s \in Sockets |-> {}]
  /\ backlog = <<>> /\ backlog_max = 0 /\ lock = None
  /\ pending = [e \in Events |-> 0]
  /\ listening = [e \in Events |-> {}]
  /\ nonblock \in BOOLEAN
  /\ pc = [p \in Procs |-> "run"]
  /\ taken = [p \in Servers |-> None]

Goto(p, label) == pc' = [pc EXCEPT ![p] = label]

\* Where a sleeping thread goes on after a trigger.
Awake(p) ==
  IF p \in Clients THEN "woken" ELSE IF pc[p] = "held" THEN "release" ELSE "enter"

\* event_trigger(e, false); then thread p is at the given place.
TriggerGoto(e, p, label) ==
  IF listening[e] = {}
    THEN /\ pending' = [pending EXCEPT ![e] = @ + 1]
         /\ Goto(p, label)
         /\ UNCHANGED listening
    ELSE /\ listening' = [listening EXCEPT ![e] = {}]
         /\ pc' = [q \in Procs |-> IF q = p THEN label
                                   ELSE IF q \in listening[e] THEN Awake(q)
                                   ELSE pc[q]]
         /\ UNCHANGED pending

\* event_await(e): an event that is pending is consumed ...
AwaitPending(e, p, label) ==
  /\ pending[e] > 0
  /\ pending' = [pending EXCEPT ![e] = @ - 1]
  /\ Goto(p, label)
  /\ UNCHANGED listening

\* ... otherwise the thread sleeps ...
AwaitSleep(e, p, label) ==
  /\ pending[e] = 0
  /\ listening' = [listening EXCEPT ![e] = @ \cup {p}]
  /\ Goto(p, label)
  /\ UNCHANGED pending

\* ... and one that has two slots of the run queue comes back untriggered.
AwaitSpurious(e, p, label) ==
  /\ listening' = [listening EXCEPT ![e] = @ \ {p}]
  /\ Goto(p, label)
  /\ UNCHANGED pending

-----------------------------------------------------------------------------
(* bind and listen *)

\* syscall_bind: a socket is bound once.
Unbound == state[Listener] = "CREATED"

\* unix_bind creates the node for the path, which nobody else has.
Bind(p) ==
  /\ p = Binder /\ pc[p] = "run"
  /\ Unbound
  /\ state' = [state EXCEPT ![Listener] = "BOUND"]
  /\ UNCHANGED <<peer, status, queue, event, nonblock, pc, taken>>

Listen(p, n) ==
  /\ p = Binder /\ pc[p] = "run"
  /\ state[Listener] = "BOUND"
  /\ backlog_max' = n
  /\ state' = [state EXCEPT ![Listener] = "LISTENING"]
  /\ UNCHANGED <<peer, status, backlog, lock, event, nonblock, pc, taken>>

-----------------------------------------------------------------------------
(* connect *)

\* unix_connect: the path leads to a socket that listens, or ECONNREFUSED.
Listens == state[Listener] = "LISTENING"

\* Mutant of ConnectBegin: the state of the connecting socket is not tested.
ConnectBeginAgain(p) ==
  /\ pc[p] = "run"
  /\ Listens
  /\ Goto(p, "enter")
  /\ UNCHANGED <<socket, queue, event, nonblock, taken>>

\* Neither EISCONN nor EINVAL.
ConnectBegin(p) ==
  /\ pc[p] = "run"
  /\ state[p] = "CREATED"
  /\ Listens
  /\ Goto(p, "enter")
  /\ UNCHANGED <<socket, queue, event, nonblock, taken>>

BacklogFull == Len(backlog) = backlog_max

\* EAGAIN: the caller may try again.
ConnectFull(p) ==
  /\ pc[p] = "enter" /\ lock = None
  /\ BacklogFull
  /\ Goto(p, "run")
  /\ UNCHANGED <<socket, queue, event, nonblock, taken>>

\* Mutant of ConnectEnqueue: only the first of the backlog triggers.
ConnectEnqueueFirst(p) ==
  /\ pc[p] = "enter" /\ lock = None
  /\ ~BacklogFull
  /\ status' = [status EXCEPT ![Listener] = @ \cup {"POLLIN"}]
  /\ backlog' = Append(backlog, p)
  /\ IF backlog = <<>> THEN TriggerGoto(SocketEvent(Listener), p, "await")
                       ELSE Goto(p, "await") /\ UNCHANGED event
  /\ UNCHANGED <<state, peer, backlog_max, lock, nonblock, taken>>

ConnectEnqueue(p) ==
  /\ pc[p] = "enter" /\ lock = None
  /\ ~BacklogFull
  /\ status' = [status EXCEPT ![Listener] = @ \cup {"POLLIN"}]
  /\ backlog' = Append(backlog, p)
  /\ TriggerGoto(SocketEvent(Listener), p, "await")
  /\ UNCHANGED <<state, peer, backlog_max, lock, nonblock, taken>>

ConnectAwait(p) ==
  /\ pc[p] = "await"
  /\ \/ AwaitPending(ConnectEvent(p), p, "woken")
     \/ AwaitSleep(ConnectEvent(p), p, "sleep")
  /\ UNCHANGED <<socket, queue, nonblock, taken>>

\* event_await returns an index here too, and connect goes on.
ConnectSpurious(p) ==
  /\ pc[p] = "sleep"
  /\ AwaitSpurious(ConnectEvent(p), p, "stray")
  /\ UNCHANGED <<socket, queue, nonblock, taken>>

\* Mutant of ConnectSignal: accept is not told.
ConnectSignalMissing(p) ==
  /\ pc[p] \in {"woken", "stray"}
  /\ Goto(p, "finish")
  /\ UNCHANGED <<socket, queue, event, nonblock, taken>>

ConnectSignal(p) ==
  /\ pc[p] \in {"woken", "stray"}
  /\ TriggerGoto(ConnectEvent(Listener), p, "finish")
  /\ UNCHANGED <<socket, queue, nonblock, taken>>

\* The end of unix_connect and of syscall_connect.
ConnectFinish(p) ==
  /\ pc[p] = "finish"
  /\ status' = [status EXCEPT ![p] = @ \cup {"POLLOUT"}]
  /\ state' = [state EXCEPT ![p] = "CONNECTED"]
  /\ TriggerGoto(SocketEvent(p), p, "run")
  /\ UNCHANGED <<peer, queue, nonblock, taken>>

-----------------------------------------------------------------------------
(* accept *)

AcceptBegin(p) ==
  /\ pc[p] = "run"
  /\ state[Listener] = "LISTENING"
  /\ Goto(p, "enter")
  /\ UNCHANGED <<socket, queue, event, nonblock, taken>>

\* The backlog is empty: EWOULDBLOCK, or wait without the lock.
AcceptEmpty(p) ==
  /\ pc[p] = "enter" /\ lock = None
  /\ backlog = <<>>
  /\ status' = [status EXCEPT ![Listener] = @ \ {"POLLIN"}]
  /\ Goto(p, IF nonblock THEN "run" ELSE "await")
  /\ UNCHANGED <<state, peer, queue, event, nonblock, taken>>

AcceptAwait(p) ==
  /\ pc[p] = "await"
  /\ \/ AwaitPending(SocketEvent(Listener), p, "enter")
     \/ AwaitSleep(SocketEvent(Listener), p, "sleep")
  /\ UNCHANGED <<socket, queue, nonblock, taken>>

AcceptSpurious(p) ==
  /\ pc[p] = "sleep"
  /\ AwaitSpurious(SocketEvent(Listener), p, "enter")
  /\ UNCHANGED <<socket, queue, nonblock, taken>>

\* The first of the backlog is taken out and the lock kept.
AcceptPop(p) ==
  /\ pc[p] = "enter" /\ lock = None
  /\ backlog # <<>>
  /\ taken' = [taken EXCEPT ![p] = Head(backlog)]
  /\ backlog' = Tail(backlog)
  /\ lock' = p
  /\ Goto(p, "link")
  /\ UNCHANGED <<socket, backlog_max, event, nonblock>>

\* unix_accept fails: what was taken out is forgotten.
AcceptFails(p) ==
  /\ pc[p] = "link"
  /\ \A k \in Conns : state[k] # "FREE"
  /\ taken' = [taken EXCEPT ![p] = None]
  /\ lock' = None
  /\ Goto(p, "run")
  /\ UNCHANGED <<socket, backlog, backlog_max, event, nonblock>>

\* unix_accept and the assignments after it: the sockets name each other.
Linked(p, k) ==
  /\ peer' = [peer EXCEPT ![k] = taken[p], ![taken[p]] = k]
  /\ state' = [state EXCEPT ![k] = "CONNECTED", ![taken[p]] = "CONNECTED"]

AcceptLink(p) ==
  /\ pc[p] = "link"
  /\ \E k \in Conns : state[k] = "FREE"
  /\ Linked(p, CHOOSE k \in Conns : state[k] = "FREE")
  /\ status' = [status EXCEPT ![Listener] =
                  IF backlog = <<>> THEN @ \ {"POLLIN"} ELSE @]
  /\ TriggerGoto(ConnectEvent(taken[p]), p, "hold")
  /\ UNCHANGED <<queue, nonblock, taken>>

\* Wait for the connecting thread, with the lock taken.
AcceptHold(p) ==
  /\ pc[p] = "hold"
  /\ \/ AwaitPending(ConnectEvent(Listener), p, "release")
     \/ AwaitSleep(ConnectEvent(Listener), p, "held")
  /\ UNCHANGED <<socket, queue, nonblock, taken>>

HoldSpurious(p) ==
  /\ pc[p] = "held"
  /\ AwaitSpurious(ConnectEvent(Listener), p, "release")
  /\ UNCHANGED <<socket, queue, nonblock, taken>>

\* The descriptor is created and the lock given up.
AcceptReturn(p) ==
  /\ pc[p] = "release"
  /\ lock' = None
  /\ taken' = [taken EXCEPT ![p] = None]
  /\ Goto(p, "run")
  /\ UNCHANGED <<socket, backlog, backlog_max, event, nonblock>>

-----------------------------------------------------------------------------

\* What a call that has begun goes on with.
ConnectStep(p) ==
  \/ ConnectFull(p) \/ ConnectEnqueue(p) \/ ConnectAwait(p)
  \/ ConnectSignal(p) \/ ConnectFinish(p)
AcceptStep(p) ==
  \/ AcceptEmpty(p) \/ AcceptAwait(p) \/ AcceptPop(p) \/ AcceptFails(p)
  \/ AcceptLink(p) \/ AcceptHold(p) \/ AcceptReturn(p)

Next ==
  \/ \E p \in Clients : ConnectBegin(p) \/ ConnectStep(p) \/ ConnectSpurious(p)
  \/ \E p \in Servers :
       \/ Bind(p) \/ \E n \in Backlogs : Listen(p, n)
       \/ AcceptBegin(p) \/ AcceptStep(p)
       \/ AcceptSpurious(p) \/ HoldSpurious(p)

Spec == Init /\ [][Next]_vars

\* The scheduler lets every thread that runs go on.
Fairness ==
  /\ \A p \in Clients : WF_vars(ConnectStep(p))
  /\ \A p \in Servers : WF_vars(AcceptStep(p))

FairSpec == Spec /\ Fairness

-----------------------------------------------------------------------------
(* Properties *)

\* Both sockets of a connection name each other and nobody else names them,
\* whatever connects, retries and accepts run at once: what one end writes
\* (unix_write goes to this->peer) only the other end reads.
PeersAgree ==
  \A s \in Sockets : peer[s] # None => peer[peer[s]] = s

\* No lost wakeup between connect and accept: while a server sleeps there is
\* nobody in the backlog, unless another one is on its way to take it.
NoSleepOnBacklog ==
  backlog # <<>> /\ (\E p \in Servers : pc[p] = "sleep")
    => \E p \in Servers : pc[p] = "enter"

\* The listener's lock, which accept keeps while it waits, is given up again:
\* the thread it waits for never needs that lock to go on.
LockFreed == \A p \in Servers : lock = p ~> lock # p

=============================================================================
