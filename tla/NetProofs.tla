----------------------------- MODULE NetProofs -----------------------------
(***************************************************************************)
(* The proofs about module Net.  Every invariant of a socket is kept by    *)
(* what one actor does while the others are anywhere in their own calls,   *)
(* so that the inductive invariant says where everybody can be: the call   *)
(* that belongs to each place (ThreadInv, AdapterInv), that what a receive *)
(* has seen in the queue stays there unless it has a rival (ReceiveInv),   *)
(* and that the bit of a port outlives everything but a net_releaseport    *)
(* (PortInv): close needs no other rule, it may come in any call.  Lemma   *)
(* StepMoves reduces a step to its mover: it keeps, releases or takes one  *)
(* lock (Locks), goes on, returns or starts (Goes, Starts), and takes from *)
(* a queue only in a receive (Takes); the others stay or are woken.        *)
(***************************************************************************)
EXTENDS Net, SequenceTheorems, WellFoundedInduction, TLAPS

\* What an actor does, or will do once it has the lock it waits for.
Doing(t) == IF pc[t] = "lock" THEN job[t].stage ELSE pc[t]

\* The calls in which a thread can be at each place,
ThreadOK(t) ==
  /\ job[t].op \in SocketOps => job[t].sock \in Sockets /\ job[t].type = "udp"
  /\ pc[t] = "lock" =>
       job[t].stage \in {"connect", "unbind", "recvmsg", "read", "take", "sendmsg"}
  /\ pc[t] = "lock" /\ job[t].stage = "sendmsg" => job[t].op = "sendmsg"
  /\ Doing(t) \in {"recvmsg", "read", "release", "await", "woken", "take"} =>
       Receives(job[t].op)
  /\ Doing(t) = "connect" => job[t].op = "connect"
  /\ Doing(t) \in {"unbind", "close", "reset", "clear"} => job[t].op = "close"
  /\ Doing(t) \in {"bind", "todevice", "broadcast"} => job[t].op = Doing(t)
  /\ pc[t] = "bind" => job[t].dest \in Addrs
  /\ Doing(t) \in {"sendmsg", "route", "inet"} => job[t].op \in {"sendmsg", "write"}
  /\ pc[t] \in {"route", "inet"} => job[t].dest \in Addrs
  /\ pc[t] = "inet" => job[t].adapter \in Adapters
  /\ pc[t] = "ask" =>
       /\ job[t].adapter \in Adapters /\ job[t].target \in Addrs
       /\ \/ job[t].op = "addroute" /\ job[t].stage = "addroute"
          \/ /\ job[t].op \in {"sendmsg", "write"} /\ job[t].stage \in {"route", "inet"}
             /\ job[t].dest \in Addrs
  /\ pc[t] # "push"
ThreadInv == \A t \in Threads : ThreadOK(t)

\* and what an interface thread can be at.
AdapterOK(a) ==
  \/ pc[a] = "idle"
  \/ /\ Doing(a) = "push" /\ job[a].op = "netpacket" /\ job[a].sock \in Sockets
  \/ /\ pc[a] \in {"inet", "ask"} /\ job[a].op = "answer"
     /\ job[a].adapter = a /\ job[a].dest \in Addrs /\ job[a].type = "icmp"
     /\ pc[a] = "ask" => job[a].target \in Addrs /\ job[a].stage = "inet"
AdapterInv == \A a \in Adapters : AdapterOK(a)

\* A thread is in a call on a socket.
On(t, s) == pc[t] # "idle" /\ job[t].sock = s

\* Two receives on a socket are rivals, and what one alone has seen is still there.
ReceiveInv ==
  /\ \A t, u \in Threads, s \in Sockets :
       On(t, s) /\ On(u, s) /\ Receives(job[t].op) /\ Receives(job[u].op) /\ t # u =>
         s \in rivals
  /\ \A t \in Threads, s \in Sockets :
       On(t, s) /\ Doing(t) = "take" => packets[s] > 0 \/ s \in rivals
  /\ EmptyTake

\* The port that net_allocport makes of a bit.
PortOf(b) == (b + RangeStart) % PortSpace

Given(s) == sock[s].auto /\ sock[s].port # 0
Freed(p) == \E c \in cleared : PortOf(c) = p
Spent == \E b \in portbitmap \cup cleared : b >= PortSpace

\* A port that net_allocport gave to a socket has its bit set, unless net_releaseport has
\* taken it out; and PortsDistinct in these terms.
PortInv ==
  /\ \A s \in Sockets : Given(s) =>
       (\E b \in portbitmap : PortOf(b) = sock[s].port) \/ Freed(sock[s].port)
  /\ \A s, u \in Sockets :
       s # u /\ Given(s) /\ Given(u) /\ sock[s].port = sock[u].port =>
         Spent \/ Freed(sock[s].port)

IInv ==
  TypeOK /\ ThreadInv /\ AdapterInv /\ ReceiveInv /\ PortInv /\ Exclusion /\ AskVain

-----------------------------------------------------------------------------
(* Bits, ports and queues *)

LEMMA Sizes ==
  /\ PortSpace \in Nat \ {0} /\ PortBits \in Nat \ {0} /\ RangeStart \in Nat
  /\ RangeStart < PortSpace /\ PortSpace <= PortBits
  BY PortsAssumption

\* Min picks an element of a set of numbers.
LEMMA MinIn ==
  ASSUME NEW S \in SUBSET Nat, S # {}
  PROVE  Min(S) \in S
<1>1. PICK x \in S : \A y \in S : <<y, x>> \notin OpToRel(<, Nat)
  BY WFMin, NatLessThanWellFounded
<1>2. \A y \in S : ~ (y < x)
  BY <1>1 DEF OpToRel
<1>3. \A y \in S : x <= y
  BY <1>2
<1> QED
  BY <1>3 DEF Min

LEMMA PortOfType ==
  ASSUME NEW b \in Nat
  PROVE  PortOf(b) \in Ports
  BY Sizes DEF PortOf, Ports

\* net_allocport takes a clear bit, and returns its port.
LEMMA AllocBit ==
  ASSUME TypeOK
  PROVE  /\ AllocPort \in Ports /\ PortTaken \subseteq 0 .. PortBits - 1
         /\ portbitmap \subseteq PortTaken
         /\ AllocPort # 0 =>
              \E b \in PortTaken \ portbitmap : b \in Nat /\ PortOf(b) = AllocPort
<1>1. CASE FreeBits = {}
  BY <1>1, Sizes DEF AllocPort, PortTaken, Ports, TypeOK
<1>2. CASE FreeBits # {}
  <2>1. Min(FreeBits) \in FreeBits
    BY <1>2, Sizes, MinIn DEF FreeBits
  <2>2. Min(FreeBits) \in Nat /\ Min(FreeBits) \in 0 .. PortBits - 1
        /\ Min(FreeBits) \notin portbitmap
    BY <2>1, Sizes DEF FreeBits
  <2>3. AllocPort = PortOf(Min(FreeBits)) /\ PortTaken = portbitmap \cup {Min(FreeBits)}
    BY <1>2 DEF AllocPort, PortTaken, PortOf
  <2> QED
    BY <2>2, <2>3, PortOfType DEF TypeOK
<1> QED
  BY <1>1, <1>2

\* udp_grabsocket finds a registered socket.
LEMMA GrabbedSocket ==
  ASSUME TypeOK, NEW p, GrabSocket(p) # 0
  PROVE  registered[GrabSocket(p)] \in Sockets
<1> DEFINE I == {i \in 1 .. Len(registered) : sock[registered[i]].port = p}
<1>1. registered \in Seq(Sockets) /\ Len(registered) \in Nat
  BY DEF TypeOK
<1>2. GrabSocket(p) = IF I # {} THEN Min(I) ELSE 0
  BY DEF GrabSocket, SelectInSeq
<1>3. I # {} /\ GrabSocket(p) = Min(I)
  BY <1>2
<1>4. Min(I) \in I
  <2>1. I \in SUBSET Nat
    BY <1>1
  <2> HIDE DEF I
  <2> QED
    BY <1>3, <2>1, MinIn
<1> QED
  BY <1>1, <1>3, <1>4

\* udp_unref takes one registration out.
LEMMA UnregisteredType ==
  ASSUME TypeOK, NEW s
  PROVE  Unregistered(s) \in Seq(Sockets)
<1> DEFINE I == {i \in 1 .. Len(registered) : registered[i] = s}
           n == SelectInSeq(registered, LAMBDA x : x = s)
<1>1. registered \in Seq(Sockets) /\ Len(registered) \in Nat
  BY DEF TypeOK
<1>2. n = IF I # {} THEN Min(I) ELSE 0
  BY DEF SelectInSeq
<1>3. Unregistered(s) = IF n = 0 THEN registered ELSE RemoveAt(registered, n)
  BY DEF Unregistered
<1>4. n \in Nat /\ n <= Len(registered)
  <2>1. CASE I = {}
    BY <1>1, <1>2, <2>1
  <2>2. CASE I # {}
    <3>1. I \in SUBSET Nat /\ n = Min(I)
      BY <1>1, <1>2, <2>2
    <3>2. Min(I) \in I
      BY <2>2, <3>1, MinIn
    <3> QED
      BY <1>1, <3>1, <3>2
  <2> QED
    BY <2>1, <2>2
<1> HIDE DEF n, I
<1>5. CASE n # 0
  <2>1. \A k \in 1 .. Len(registered) : registered[k] \in Sockets
    BY <1>1
  <2>2. SubSeq(registered, 1, n - 1) \in Seq(Sockets)
    BY <1>1, <1>4, <1>5, <2>1, SubSeqProperties
  <2>3. SubSeq(registered, n + 1, Len(registered)) \in Seq(Sockets)
    BY <1>1, <1>4, <1>5, <2>1, SubSeqProperties
  <2>4. RemoveAt(registered, n) \in Seq(Sockets)
    BY <2>2, <2>3, ConcatProperties DEF RemoveAt
  <2> QED
    BY <1>3, <1>5, <2>4
<1> QED
  BY <1>1, <1>3, <1>5

-----------------------------------------------------------------------------
(* Types *)

LEMMA Names ==
  /\ Threads \cap Adapters = {} /\ Adapters = {"lo", "eth"} /\ Actors = Threads \cup Adapters
  /\ None \notin Actors /\ None \notin Sockets /\ None \notin Addrs
  /\ AnyAddr \in Addrs /\ Broadcast \in Addrs /\ Loopback \in Addrs /\ Hosts \subseteq Addrs
  BY NamesAssumption DEF Actors, Adapters

LEMMA IdleJob == Idle \in Jobs
  BY Names, Sizes DEF Idle, Jobs, Ports, Hows

LEMMA JobOf ==
  ASSUME NEW r \in Requests, r.op \in SocketOps \cup {"addroute"}
  PROVE  Job(r) \in Jobs
  BY Names DEF Job, Jobs, Requests, Labels

\* Changes of a field.
LEMMA StageJob ==
  ASSUME NEW t \in Actors, job \in [Actors -> Jobs]
  PROVE  [job EXCEPT ![t].stage = "take"] \in [Actors -> Jobs]
<1>1. [job[t] EXCEPT !.stage = "take"] \in Jobs
  BY DEF Jobs, Labels
<1> QED
  BY <1>1

LEMMA StateRecord ==
  ASSUME NEW s \in Sockets, sock \in [Sockets -> SocketRecords], NEW p \in Addrs \cup {None}
  PROVE  /\ [sock EXCEPT ![s].adapter = None] \in [Sockets -> SocketRecords]
         /\ [sock EXCEPT ![s].adapter = "eth"] \in [Sockets -> SocketRecords]
         /\ [sock EXCEPT ![s].broadcast = TRUE] \in [Sockets -> SocketRecords]
         /\ [sock EXCEPT ![s].peer = p, ![s].state = "connected"] \in [Sockets -> SocketRecords]
<1>1. /\ [sock[s] EXCEPT !.adapter = None] \in SocketRecords
      /\ [sock[s] EXCEPT !.adapter = "eth"] \in SocketRecords
      /\ [sock[s] EXCEPT !.broadcast = TRUE] \in SocketRecords
      /\ [sock[s] EXCEPT !.peer = p, !.state = "connected"] \in SocketRecords
  BY DEF SocketRecords, Adapters
<1> QED
  BY <1>1

LEMMA InitType == Init => TypeOK
  BY Names, Sizes, IdleJob, ScriptsAssumption, EmptySeq
     DEF Init, TypeOK, NewSocket, SocketRecords, Ports, Labels

LEMMA NowType ==
  ASSUME TypeOK, NEW t \in Threads, Called(t)
  PROVE  /\ Now(t) \in Requests /\ todo' \in [Threads -> Seq(Requests)]
         /\ pc[t] = "idle"
  BY HeadTailProperties DEF TypeOK, Called, Now

LEMMA ReturnType ==
  ASSUME TypeOK, NEW t \in Actors, Return(t)
  PROVE  pc' \in [Actors -> Labels] /\ job' \in [Actors -> Jobs]
  BY IdleJob DEF TypeOK, Return, Labels

LEMMA ReleaseType ==
  ASSUME TypeOK, NEW t \in Actors, NEW s \in Sockets, Release(t, s)
  PROVE  lock' \in [Sockets -> Actors \cup {None}] /\ stolen' \subseteq Sockets
  BY DEF TypeOK, Release

LEMMA TriggeredType ==
  ASSUME TypeOK, NEW s \in Sockets, NEW t \in Actors, Triggered(s, [u \in {t} |-> "idle"])
  PROVE  pending' \in [Sockets -> BOOLEAN] /\ pc' \in [Actors -> Labels]
  BY DEF TypeOK, Triggered, Labels

\* The socket of a call is a socket.
LEMMA CallSocket ==
  ASSUME ThreadInv, NEW t \in Threads,
         Doing(t) \in {"bind", "todevice", "broadcast", "connect", "unbind", "close", "reset",
                       "clear", "recvmsg", "read", "release", "await", "woken", "take",
                       "sendmsg"}
  PROVE  job[t].sock \in Sockets
  BY DEF ThreadInv, ThreadOK, Receives, SocketOps

\* How sending ends, for threads and interface threads.
LEMMA SentType ==
  ASSUME TypeOK, NEW t \in Actors, job[t].op = "sendmsg" => job[t].sock \in Sockets,
         SendDone(t) \/ SendFailed(t)
  PROVE  /\ pc' \in [Actors -> Labels] /\ job' \in [Actors -> Jobs]
         /\ lock' \in [Sockets -> Actors \cup {None}]
         /\ stolen' \subseteq Sockets /\ leaked' \subseteq Sockets
<1>1. CASE SendDone(t)
  BY <1>1, ReleaseType, ReturnType DEF TypeOK, SendDone
<1>2. CASE SendFailed(t)
  BY <1>2, ReturnType DEF TypeOK, SendFailed
<1> QED
  BY <1>1, <1>2

LEMMA PrepareType ==
  ASSUME TypeOK, ThreadInv, NEW t \in Threads, Prepare(t)
  PROVE  TypeOK'
<1> DEFINE s == job[t].sock
           x == sock[s]
           dest == IF x.state = "connected" THEN x.peer ELSE job[t].dest
           refused == dest = None \/ (dest = Broadcast /\ ~x.broadcast)
           p == IF x.port = 0 THEN AllocPort ELSE x.port
<1>0. t \in Actors /\ s \in Sockets
  BY Names, CallSocket DEF Prepare, Doing
<1>1. x \in SocketRecords /\ job[t] \in Jobs
  BY <1>0 DEF TypeOK
<1>2. dest \in Addrs \cup {None}
  BY <1>1 DEF SocketRecords, Jobs
<1>3. p \in Ports
  BY <1>1, AllocBit DEF SocketRecords
<1>4. /\ sock' \in [Sockets -> SocketRecords] /\ portbitmap' \subseteq 0 .. PortBits - 1
      /\ registered' \in Seq(Sockets)
  <2>1. CASE refused \/ x.port # 0
    BY <2>1 DEF Prepare, TypeOK
  <2>2. CASE ~ (refused \/ x.port # 0)
    <3>1. /\ sock' = [sock EXCEPT ![s].port = p, ![s].auto = TRUE]
          /\ portbitmap' = PortTaken /\ registered' = Registered(s, p)
      BY <2>2 DEF Prepare
    <3>2. [sock[s] EXCEPT !.port = p, !.auto = TRUE] \in SocketRecords
      BY <1>1, <1>3 DEF SocketRecords
    <3>3. sock' \in [Sockets -> SocketRecords]
      BY <1>0, <3>1, <3>2 DEF TypeOK
    <3> QED
      BY <1>0, <3>1, <3>3, AllocBit DEF TypeOK, Registered
  <2> QED
    BY <2>1, <2>2
<1>5. /\ pc' \in [Actors -> Labels] /\ job' \in [Actors -> Jobs]
      /\ lock' \in [Sockets -> Actors \cup {None}]
      /\ stolen' \subseteq Sockets /\ leaked' \subseteq Sockets
  <2>1. CASE refused \/ p = 0
    <3>1. SendDone(t)
      BY <2>1 DEF Prepare
    <3> QED
      BY <1>0, <3>1, SentType
  <2>2. CASE ~ (refused \/ p = 0)
    <3>1. /\ job' = [job EXCEPT ![t].dest = dest, ![t].adapter = x.adapter,
                       ![t].local = IF x.adapter = None THEN AnyAddr ELSE x.local]
          /\ pc' = [pc EXCEPT ![t] = IF x.adapter = None THEN "route" ELSE "inet"]
          /\ UNCHANGED <<lock, leaked, stolen>>
      BY <2>2 DEF Prepare
    <3>2. x.adapter \in Adapters \cup {None} /\ x.local \in Addrs
      BY <1>1 DEF SocketRecords
    <3> HIDE DEF x, dest, p
    <3>3. ASSUME NEW a \in Adapters \cup {None}, NEW y \in Addrs
          PROVE  [job[t] EXCEPT !.dest = dest, !.adapter = a, !.local = y] \in Jobs
      BY <1>1, <1>2 DEF Jobs
    <3>4. job' \in [Actors -> Jobs]
      BY <1>0, <3>1, <3>2, <3>3, Names DEF TypeOK
    <3> QED
      BY <1>0, <3>1, <3>4 DEF TypeOK, Labels
  <2> QED
    BY <2>1, <2>2
<1> QED
  BY <1>4, <1>5 DEF TypeOK, Prepare, config

LEMMA BindType ==
  ASSUME TypeOK, ThreadInv, NEW t \in Threads, Bind(t)
  PROVE  TypeOK'
<1> DEFINE j == job[t]
           s == j.sock
           p == IF j.port = 0 THEN AllocPort ELSE j.port
           a == IF j.dest = AnyAddr \/ p = 0 THEN None ELSE AdapterOf(j.dest)
           x == [sock[s] EXCEPT !.state = IF p = 0 THEN @ ELSE "bound", !.local = j.dest,
                                !.adapter = a, !.port = p, !.auto = (j.port = 0)]
<1>0. t \in Actors /\ pc[t] = "bind" /\ j \in Jobs
  BY Names DEF Bind, TypeOK
<1>1. s \in Sockets /\ j.dest \in Addrs /\ j.port \in Ports
  BY <1>0, CallSocket DEF Doing, ThreadInv, ThreadOK, Jobs
<1>2. p \in Ports /\ a \in Adapters \cup {None} /\ sock[s] \in SocketRecords
  BY <1>1, AllocBit DEF AdapterOf, Adapters, TypeOK
<1>3. /\ \/ /\ sock' = [sock EXCEPT ![s] = x]
            /\ registered' = Registered(s, p)
            /\ portbitmap' = IF j.port = 0 THEN PortTaken ELSE portbitmap
         \/ UNCHANGED <<sock, registered, portbitmap>>
      /\ Return(t)
      /\ UNCHANGED <<config, cache, arp, asked, packets, pending, lock, todo, inbound, history>>
  BY DEF Bind
<1>4. (j.port = 0) \in BOOLEAN
  OBVIOUS
<1> HIDE DEF p, a, j
<1>5. x \in SocketRecords
  BY <1>1, <1>2, <1>4 DEF SocketRecords
<1> HIDE DEF x
<1>6. sock' \in [Sockets -> SocketRecords]
  BY <1>1, <1>3, <1>5 DEF TypeOK
<1>7. registered' \in Seq(Sockets) /\ portbitmap' \subseteq 0 .. PortBits - 1
  <2>1. /\ registered' \in {Registered(s, p), registered}
        /\ portbitmap' \in {PortTaken, portbitmap}
    BY <1>3
  <2>2. Registered(s, p) \in Seq(Sockets)
    BY <1>1, AppendProperties DEF TypeOK, Registered
  <2> QED
    BY <2>1, <2>2, AllocBit DEF TypeOK
<1> QED
  BY <1>0, <1>3, <1>6, <1>7, ReturnType DEF TypeOK, config, history

\* net_releaseport writes bits.
LEMMA ReleasedType ==
  ASSUME TypeOK, NEW p, NEW saved \in SUBSET (0 .. PortBits - 1),
         NEW bits \in PortReleased(p, saved)
  PROVE  bits \subseteq 0 .. PortBits - 1
  BY DEF TypeOK, PortReleased

LEMMA WorkType ==
  ASSUME TypeOK, ThreadInv, NEW t \in Threads, Work(t)
  PROVE  TypeOK'
<1>0. t \in Actors
  BY Names
<1>1. CASE Acquire(t)
  BY <1>0, <1>1 DEF TypeOK, ThreadInv, ThreadOK, Acquire, Labels, config, sockets, history
<1>2. CASE Connect(t)
  <2>1. job[t].sock \in Sockets
    BY <1>2, CallSocket DEF Connect, Doing
  <2>2. sock' \in [Sockets -> SocketRecords]
    <3>1. job[t].dest \in Addrs \cup {None}
      BY <1>0 DEF TypeOK, Jobs
    <3> QED
      BY <1>2, <2>1, <3>1, StateRecord DEF TypeOK, Connect
  <2>3. job' \in [Actors -> Jobs]
    BY <1>0, <1>2, IdleJob DEF TypeOK, Connect
  <2> QED
    BY <1>0, <1>2, <2>1, <2>2, <2>3, ReleaseType, TriggeredType DEF TypeOK, Connect, config
<1>3. CASE Unbind(t)
  <2>1. job[t].sock \in Sockets
    BY <1>3, CallSocket DEF Unbind, Doing
  <2>2. sock' \in [Sockets -> SocketRecords]
    BY <1>3, <2>1, Names, StateRecord DEF TypeOK, Unbind
  <2> QED
    BY <1>0, <1>3, <2>1, <2>2, ReleaseType DEF TypeOK, Unbind, Labels, config
<1>10. CASE Close(t)
  <2>1. registered' \in Seq(Sockets)
    BY <1>10, UnregisteredType DEF Close
  <2> QED
    BY <1>0, <1>10, <2>1 DEF TypeOK, Close, Labels, config, history
<1>11. CASE ReadByte(t)
  <2>1. job[t].sock \in Sockets /\ job[t] \in Jobs
    BY <1>0, <1>11, CallSocket DEF ReadByte, Doing, TypeOK
  <2>2. ASSUME NEW p \in Ports, NEW bits \in SUBSET (0 .. PortBits - 1)
        PROVE  [job[t] EXCEPT !.port = p, !.saved = bits] \in Jobs
    BY <2>1 DEF Jobs
  <2> DEFINE p == sock[job[t].sock].port
  <2>3. p \in Ports /\ portbitmap \cap Byte(p) \in SUBSET (0 .. PortBits - 1)
    BY <2>1 DEF TypeOK, SocketRecords
  <2>4. job' = [job EXCEPT ![t].port = p, ![t].saved = portbitmap \cap Byte(p)]
    BY <1>11 DEF ReadByte
  <2> HIDE DEF p
  <2>5. job' \in [Actors -> Jobs]
    BY <1>0, <2>2, <2>3, <2>4 DEF TypeOK
  <2> QED
    BY <1>0, <1>11, <2>5 DEF TypeOK, ReadByte, Labels, config, sockets, history
<1>12. CASE WriteByte(t)
  <2>1. job[t].saved \in SUBSET (0 .. PortBits - 1)
    BY <1>0 DEF TypeOK, Jobs
  <2>2. portbitmap' \subseteq 0 .. PortBits - 1
    BY <1>12, <2>1, ReleasedType DEF WriteByte
  <2>3. cleared' \subseteq 0 .. PortBits - 1
    BY <1>12 DEF WriteByte, TypeOK
  <2> QED
    BY <1>0, <1>12, <2>2, <2>3, ReturnType DEF TypeOK, WriteByte, config
<1>13. CASE Bind(t)
  BY <1>13, BindType
<1>14. CASE SetSockOpt(t)
  <2>1. job[t].sock \in Sockets
    BY <1>14, CallSocket DEF SetSockOpt, Doing
  <2>2. sock' \in [Sockets -> SocketRecords]
    BY <1>14, <2>1, Names, StateRecord DEF TypeOK, SetSockOpt
  <2> QED
    BY <1>0, <1>14, <2>2, ReturnType DEF TypeOK, SetSockOpt, config, history
<1>4. CASE Look(t)
  <2>1. job[t].sock \in Sockets
    BY <1>4, CallSocket DEF Look, Doing
  <2>2. job' \in [Actors -> Jobs]
    BY <1>0, <1>4, IdleJob, StageJob DEF TypeOK, Look
  <2>3. lock' \in [Sockets -> Actors \cup {None}] /\ stolen' \subseteq Sockets
    BY <1>0, <1>4, <2>1, ReleaseType DEF TypeOK, Look
  <2>4. pc' \in [Actors -> Labels] /\ leaked' \subseteq Sockets
    BY <1>0, <1>4, <2>1 DEF TypeOK, Look, Labels
  <2> QED
    BY <1>4, <2>2, <2>3, <2>4 DEF TypeOK, Look, config, sockets
<1>5. CASE ReleaseAgain(t)
  <2>1. job[t].sock \in Sockets
    BY <1>5, CallSocket DEF ReleaseAgain, Doing
  <2> QED
    BY <1>0, <1>5, <2>1, ReleaseType, ReturnType DEF TypeOK, ReleaseAgain, config, sockets
<1>6. CASE Await(t)
  BY <1>0, <1>6 DEF TypeOK, Await, Labels, config, history
<1>7. CASE Woken(t)
  <2>1. job' \in [Actors -> Jobs]
    BY <1>0, <1>7, StageJob DEF TypeOK, Woken
  <2> QED
    BY <1>0, <1>7, <2>1 DEF TypeOK, Woken, Recheck, Labels, config, sockets, history
<1>8. CASE TakePacket(t)
  <2>1. job[t].sock \in Sockets
    BY <1>8, CallSocket DEF TakePacket, Doing
  <2>2. CASE packets[job[t].sock] > 0
    <3>1. packets' = [packets EXCEPT ![job[t].sock] = @ - 1]
      BY <1>8, <2>2 DEF TakePacket
    <3>2. packets \in [Sockets -> Nat] /\ packets[job[t].sock] - 1 \in Nat
      BY <2>1, <2>2 DEF TypeOK
    <3>3. packets' \in [Sockets -> Nat]
      BY <3>1, <3>2
    <3> QED
      BY <1>0, <1>8, <2>1, <2>2, <3>3, ReleaseType, ReturnType DEF TypeOK, TakePacket, config
  <2>3. CASE ~ (packets[job[t].sock] > 0)
    BY <1>8, <2>3 DEF TypeOK, TakePacket, config
  <2> QED
    BY <2>2, <2>3
<1>9. CASE Prepare(t)
  BY <1>9, PrepareType
<1> QED
  BY <1>1, <1>2, <1>3, <1>4, <1>5, <1>6, <1>7, <1>8, <1>9, <1>10, <1>11, <1>12, <1>13, <1>14
     DEF Work

\* Where a route leads.
LEMMA RouteTypes ==
  ASSUME TypeOK, NEW x \in Addrs
  PROVE  /\ RouteAny(x) # None => RouteAny(x).adapter \in Adapters /\ RouteAny(x).target \in Addrs
         /\ \A a \in Adapters : \A y : RouteVia(a, y, x) # None =>
              RouteVia(a, y, x).adapter = a /\ RouteVia(a, y, x).target \in Addrs
<1>1. ASSUME NEW a \in Adapters, NEW y, RouteVia(a, y, x) # None
      PROVE  RouteVia(a, y, x).adapter = a /\ RouteVia(a, y, x).target \in Addrs
  BY <1>1 DEF RouteVia, TypeOK
<1>2. ASSUME RouteAny(x) # None
      PROVE  RouteAny(x).adapter \in Adapters /\ RouteAny(x).target \in Addrs
  <2> DEFINE last(as) == IF "eth" \in as THEN "eth" ELSE "lo"
             locals == {a \in Adapters : Local(a, x)}
             routers == {a \in Adapters : gateway[a] # AnyAddr}
  <2>1. \A as : last(as) \in Adapters
    BY DEF Adapters
  <2>2. CASE locals # {}
    <3>1. RouteAny(x) = [adapter |-> last(locals), target |-> x]
      BY <2>2 DEF RouteAny
    <3> QED
      BY <2>1, <3>1
  <2>3. CASE locals = {} /\ routers # {}
    <3>1. RouteAny(x) = [adapter |-> last(routers), target |-> gateway[last(routers)]]
      BY <2>3 DEF RouteAny
    <3>2. gateway[last(routers)] \in Addrs
      BY <2>1 DEF TypeOK
    <3> QED
      BY <2>1, <3>1, <3>2
  <2>4. CASE locals = {} /\ routers = {}
    BY <1>2, <2>4 DEF RouteAny
  <2> QED
    BY <2>2, <2>3, <2>4
<1> QED
  BY <1>1, <1>2

\* A frame on a queue.
LEMMA QueueType ==
  ASSUME TypeOK, NEW a \in Adapters, NEW f \in Frames
  PROVE  /\ Transmitted(cache, a, f) \in [Adapters -> Seq(Frames)]
         /\ [cache EXCEPT ![a] = Append(@, f)] \in [Adapters -> Seq(Frames)]
<1>1. /\ [cache EXCEPT ![a] = Append(@, f)] \in [Adapters -> Seq(Frames)]
      /\ [cache EXCEPT !["lo"] = Append(@, f)] \in [Adapters -> Seq(Frames)]
  BY AppendProperties DEF TypeOK, Adapters
<1> QED
  BY <1>1 DEF Transmitted, TypeOK

\* An actor that sends.
Sends(t) ==
  /\ pc[t] \in {"route", "inet", "ask"} /\ job[t].op = "sendmsg" => job[t].sock \in Sockets
  /\ pc[t] \in {"route", "inet"} =>
       job[t].op # "addroute" /\ job[t].dest \in Addrs /\ job[t].type # "none"
  /\ pc[t] = "inet" => job[t].adapter \in Adapters
  /\ pc[t] = "ask" =>
       /\ job[t].adapter \in Adapters /\ job[t].target \in Addrs
       /\ job[t].op # "addroute" => job[t].dest \in Addrs /\ job[t].type # "none"
       /\ job[t].op = "addroute" <=> job[t].stage \notin {"route", "inet"}

LEMMA ActorSends ==
  ASSUME ThreadInv, AdapterInv, NEW t \in Actors
  PROVE  Sends(t)
<1>1. CASE t \in Threads
  BY <1>1 DEF ThreadInv, ThreadOK, Sends, Doing, SocketOps
<1>2. CASE t \in Adapters
  BY <1>2 DEF AdapterInv, AdapterOK, Sends, Doing
<1> QED
  BY <1>1, <1>2, Names

LEMMA EmittedType ==
  ASSUME TypeOK, NEW t \in Actors, NEW a \in Adapters, job[t].dest \in Addrs,
         job[t].type # "none"
  PROVE  Emitted(t, a) \in [Adapters -> Seq(Frames)]
<1>1. Frame(job[t].type, ip[a], job[t].dest, job[t].port) \in Frames
  BY DEF TypeOK, Frame, Frames, Jobs
<1>2. AdapterOf(job[t].dest) \in Adapters
  BY DEF AdapterOf, Adapters
<1> QED
  BY <1>1, <1>2, QueueType DEF Emitted

\* What the steps of sending change.
LEMMA RoutedType ==
  ASSUME TypeOK, NEW t \in Actors, Sends(t), pc[t] \in {"route", "inet", "ask"},
         NEW a \in Adapters, Routed(t, a)
  PROVE  /\ cache' \in [Adapters -> Seq(Frames)]
         /\ pc' \in [Actors -> Labels] /\ job' \in [Actors -> Jobs]
         /\ lock' \in [Sockets -> Actors \cup {None}]
         /\ stolen' \subseteq Sockets /\ leaked' \subseteq Sockets
<1>1. CASE pc[t] = "route" \/ (pc[t] = "ask" /\ job[t].stage = "route")
  <2>1. /\ pc' = [pc EXCEPT ![t] = "inet"] /\ job' = [job EXCEPT ![t].adapter = a]
        /\ UNCHANGED <<cache, lock, stolen, leaked>>
    BY <1>1 DEF Routed, Sends
  <2>2. [job[t] EXCEPT !.adapter = a] \in Jobs
    <3>1. job[t] \in Jobs
      BY DEF TypeOK
    <3> QED
      BY <3>1 DEF Jobs
  <2>3. job' \in [Actors -> Jobs]
    BY <2>1, <2>2 DEF TypeOK
  <2> QED
    BY <2>1, <2>3 DEF TypeOK, Labels
<1>2. CASE /\ ~ (pc[t] = "route" \/ (pc[t] = "ask" /\ job[t].stage = "route"))
           /\ job[t].op = "addroute"
  <2>1. Return(t) /\ UNCHANGED <<cache, lock, stolen, leaked>>
    BY <1>2 DEF Routed
  <2> QED
    BY <2>1, ReturnType DEF TypeOK
<1>3. CASE /\ ~ (pc[t] = "route" \/ (pc[t] = "ask" /\ job[t].stage = "route"))
           /\ job[t].op # "addroute"
  <2>1. cache' = Emitted(t, a) /\ SendDone(t)
    BY <1>3 DEF Routed
  <2>2. job[t].dest \in Addrs /\ job[t].type # "none"
    BY <1>3 DEF Sends
  <2> QED
    BY <2>1, <2>2, EmittedType, SentType DEF Sends
<1> QED
  BY <1>1, <1>2, <1>3

LEMMA AskType ==
  ASSUME TypeOK, NEW t \in Actors, NEW a \in Adapters, NEW x \in Addrs, Ask(t, a, x)
  PROVE  /\ cache' \in [Adapters -> Seq(Frames)] /\ asked' \subseteq Addrs
         /\ pc' \in [Actors -> Labels] /\ job' \in [Actors -> Jobs]
         /\ lock' \in [Sockets -> Actors \cup {None}]
         /\ stolen' \subseteq Sockets /\ leaked' \subseteq Sockets
<1>1. job[t] \in Jobs /\ pc[t] \in Labels
  BY DEF TypeOK
<1>2. [job[t] EXCEPT !.stage = pc[t], !.adapter = a, !.target = x] \in Jobs
  BY <1>1 DEF Jobs
<1>3. job' \in [Actors -> Jobs]
  BY <1>2 DEF TypeOK, Ask
<1>4. Frame("request", ip[a], x, 0) \in Frames
  BY Sizes DEF TypeOK, Frame, Frames, Ports
<1>5. cache' \in [Adapters -> Seq(Frames)]
  BY <1>4, QueueType DEF Ask
<1> QED
  BY <1>3, <1>5 DEF Ask, TypeOK, Labels

LEMMA SendingType ==
  ASSUME TypeOK, NEW t \in Actors, Sends(t), Sending(t)
  PROVE  TypeOK'
<1>1. CASE Route(t)
  <2> DEFINE r == IF pc[t] = "route" THEN RouteAny(job[t].dest)
                  ELSE RouteVia(job[t].adapter, job[t].local, job[t].dest)
  <2>0. /\ pc[t] \in {"route", "inet"} /\ job[t].dest \in Addrs
        /\ UNCHANGED <<config, arp, sockets, todo, inbound, shut, rivals, cleared, panicked>>
    BY <1>1 DEF Route, Sends
  <2>1. r # None => r.adapter \in Adapters /\ r.target \in Addrs
    BY <2>0, RouteTypes DEF Sends
  <2>2. \/ pc[t] = "inet" /\ Routed(t, job[t].adapter) /\ UNCHANGED asked
        \/ SendFailed(t) /\ UNCHANGED <<cache, asked>>
        \/ r # None /\ Routed(t, r.adapter) /\ UNCHANGED asked
        \/ r # None /\ Ask(t, r.adapter, r.target)
    BY <1>1 DEF Route
  <2> HIDE DEF r
  <2>3. CASE pc[t] = "inet" /\ Routed(t, job[t].adapter) /\ UNCHANGED asked
    BY <2>0, <2>3, RoutedType DEF Sends, TypeOK, config, sockets
  <2>4. CASE SendFailed(t) /\ UNCHANGED <<cache, asked>>
    BY <2>0, <2>4, SentType DEF Sends, TypeOK, config, sockets
  <2>5. CASE r # None /\ Routed(t, r.adapter) /\ UNCHANGED asked
    BY <2>0, <2>1, <2>5, RoutedType DEF TypeOK, config, sockets
  <2>6. CASE r # None /\ Ask(t, r.adapter, r.target)
    BY <2>0, <2>1, <2>6, AskType DEF TypeOK, config, sockets
  <2> QED
    BY <2>2, <2>3, <2>4, <2>5, <2>6
<1>2. CASE Answered(t)
  BY <1>2, RoutedType DEF Answered, Sends, TypeOK, config, sockets
<1>3. CASE TimedOut(t)
  BY <1>3, SentType DEF TimedOut, Sends, TypeOK, config, sockets
<1> QED
  BY <1>1, <1>2, <1>3 DEF Sending

LEMMA CallType ==
  ASSUME TypeOK, NEW t \in Threads, Call(t)
  PROVE  TypeOK'
<1>0. t \in Actors
  BY Names
<1>1. CASE Refuse(t)
  BY <1>1, NowType DEF TypeOK, Refuse, config, sockets, history
<1>2. CASE Begin(t)
  <2>1. /\ Now(t) \in Requests /\ Now(t).op \in SocketOps
        /\ todo' \in [Threads -> Seq(Requests)]
    BY <1>2, NowType DEF Begin, Made
  <2>2. Now(t).sock \in Sockets /\ Job(Now(t)) \in Jobs /\ FirstStep(Now(t)) \in Labels
    BY <2>1, JobOf DEF Requests, FirstStep, Labels
  <2>3. /\ job' \in [Actors -> Jobs] /\ pc' \in [Actors -> Labels] /\ rivals' \subseteq Sockets
        /\ shut' \subseteq Sockets
    BY <1>0, <1>2, <2>2 DEF TypeOK, Begin
  <2> QED
    BY <1>2, <2>1, <2>3 DEF TypeOK, Begin, config, sockets
<1>6. CASE Configure(t)
  <2>1. /\ Now(t) \in Requests /\ todo' \in [Threads -> Seq(Requests)]
    BY <1>6, NowType DEF Configure, Made
  <2>2. Now(t).op = "setaddr" => Now(t).addr \in Addrs
    BY <2>1 DEF Requests
  <2> QED
    BY <1>6, <2>1, <2>2 DEF TypeOK, Configure, sockets, history
<1>7. CASE UpdateFlags(t)
  BY <1>7, NowType, Names DEF TypeOK, UpdateFlags, Made, sockets, history
<1>8. CASE AddRoute(t)
  <2>1. /\ Now(t) \in Requests /\ Now(t).op = "addroute"
        /\ todo' \in [Threads -> Seq(Requests)]
    BY <1>8, NowType DEF AddRoute, Made
  <2>2. Now(t).addr \in Addrs /\ Job(Now(t)) \in Jobs
    BY <2>1, JobOf DEF Requests
  <2>3. [Job(Now(t)) EXCEPT !.adapter = "eth", !.target = Now(t).addr] \in Jobs
    BY <2>2 DEF Jobs, Adapters
  <2>4. job' \in [Actors -> Jobs] /\ pc' \in [Actors -> Labels] /\ asked' \subseteq Addrs
    BY <1>0, <1>8, <2>2, <2>3 DEF TypeOK, AddRoute, Labels
  <2> QED
    BY <1>8, <2>1, <2>2, <2>4 DEF TypeOK, AddRoute, sockets, history
<1> QED
  BY <1>1, <1>2, <1>6, <1>7, <1>8 DEF Call

LEMMA HandleType ==
  ASSUME TypeOK, NEW a \in Adapters, Handle(a)
  PROVE  TypeOK'
<1> DEFINE f == Head(cache[a])
           rest == [cache EXCEPT ![a] = Tail(@)]
<1>0. a \in Actors /\ f \in Frames /\ rest \in [Adapters -> Seq(Frames)]
      /\ f.src \in Addrs /\ f.dst \in Addrs
  <2>1. cache[a] \in Seq(Frames) /\ cache[a] # <<>> /\ cache \in [Adapters -> Seq(Frames)]
    BY DEF Handle, TypeOK
  <2>2. f \in Frames /\ Tail(cache[a]) \in Seq(Frames)
    BY <2>1, HeadTailProperties
  <2>3. rest \in [Adapters -> Seq(Frames)]
    BY <2>1, <2>2
  <2> QED
    BY <2>2, <2>3, Names DEF Frames
<1>1. OnArp(a, f, rest) /\ OnInet(a, f)
      /\ UNCHANGED <<config, asked, sockets, lock, todo, inbound, history>>
  BY DEF Handle
<1> HIDE DEF f, rest
<1>2. cache' \in [Adapters -> Seq(Frames)]
  <2>1. Frame("reply", f.dst, f.src, 0) \in Frames
    BY <1>0, Sizes DEF Frame, Frames, Ports
  <2>2. [rest EXCEPT !["lo"] = Append(@, Frame("reply", f.dst, f.src, 0))]
          \in [Adapters -> Seq(Frames)]
    BY <1>0, <2>1, AppendProperties DEF Adapters
  <2> QED
    BY <1>0, <1>1, <2>2 DEF OnArp, Transmitted
<1>3. arp' \in [Adapters -> SUBSET Addrs]
  BY <1>0, <1>1 DEF OnArp, TypeOK
<1>4. pc' \in [Actors -> Labels] /\ job' \in [Actors -> Jobs]
  <2>1. CASE /\ pc' = [pc EXCEPT ![a] = "inet"]
             /\ job' = [job EXCEPT ![a] =
                          [Idle EXCEPT !.op = "answer", !.dest = f.src, !.type = "icmp",
                                       !.adapter = a, !.local = ip[a]]]
    <3>1. ip[a] \in Addrs
      BY DEF TypeOK
    <3>2. [Idle EXCEPT !.op = "answer", !.dest = f.src, !.type = "icmp",
                       !.adapter = a, !.local = ip[a]] \in Jobs
      BY <1>0, <3>1, IdleJob DEF Jobs
    <3> QED
      BY <1>0, <2>1, <3>2 DEF TypeOK, Labels
  <2>2. CASE /\ GrabSocket(f.port) # 0
             /\ pc' = [pc EXCEPT ![a] = "lock"]
             /\ job' = [job EXCEPT ![a] =
                          [Idle EXCEPT !.op = "netpacket",
                                       !.sock = registered[GrabSocket(f.port)],
                                       !.stage = "push"]]
    <3>1. registered[GrabSocket(f.port)] \in Sockets
      BY <2>2, GrabbedSocket
    <3>2. [Idle EXCEPT !.op = "netpacket", !.sock = registered[GrabSocket(f.port)],
                       !.stage = "push"] \in Jobs
      BY <3>1, IdleJob DEF Jobs, Labels
    <3> QED
      BY <1>0, <2>2, <3>2 DEF TypeOK, Labels
  <2>3. CASE UNCHANGED <<pc, job>>
    BY <2>3 DEF TypeOK
  <2> QED
    BY <1>1, <2>1, <2>2, <2>3 DEF OnInet, Unreachable
<1> QED
  BY <1>1, <1>2, <1>3, <1>4 DEF TypeOK, config, sockets, history

LEMMA OtherType ==
  ASSUME TypeOK, AdapterInv,
         \/ \E a \in Adapters : Acquire(a) \/ Push(a)
         \/ \E t \in Actors : SpinPanic(t)
         \/ \E f \in inbound : Arrive(f)
         \/ \E x \in asked : Answer(x) \/ Lose(x)
  PROVE  TypeOK'
<1>1. ASSUME NEW a \in Adapters, Acquire(a) PROVE TypeOK'
  BY <1>1, Names DEF TypeOK, AdapterInv, AdapterOK, Doing, Acquire, Labels, config, sockets, history
<1>2. ASSUME NEW a \in Adapters, Push(a) PROVE TypeOK'
  <2>1. a \in Actors /\ job[a].sock \in Sockets
    BY <1>2, Names DEF AdapterInv, AdapterOK, Doing, Push
  <2>2. packets' \in [Sockets -> Nat] /\ job' \in [Actors -> Jobs]
    BY <1>2, <2>1, IdleJob DEF TypeOK, Push
  <2> QED
    BY <1>2, <2>1, <2>2, ReleaseType, TriggeredType DEF TypeOK, Push, config
<1>3. ASSUME NEW t \in Actors, SpinPanic(t) PROVE TypeOK'
  BY <1>3 DEF TypeOK, SpinPanic, config, sockets
<1>4. ASSUME NEW f \in inbound, Arrive(f) PROVE TypeOK'
  <2>1. cache' \in [Adapters -> Seq(Frames)]
    BY <1>4, QueueType DEF TypeOK, Arrive, Adapters
  <2> QED
    BY <1>4, <2>1 DEF TypeOK, Arrive, config, sockets, history
<1>5. ASSUME NEW x \in asked, Answer(x) \/ Lose(x) PROVE TypeOK'
  <2>1. x \in Addrs /\ ip["eth"] \in Addrs /\ "eth" \in Adapters
    BY DEF TypeOK, Adapters
  <2>2. Frame("reply", x, ip["eth"], 0) \in Frames
    BY <2>1, Sizes DEF Frame, Frames, Ports
  <2>3. cache' \in [Adapters -> Seq(Frames)]
    <3>1. [cache EXCEPT !["eth"] = Append(@, Frame("reply", x, ip["eth"], 0))]
            \in [Adapters -> Seq(Frames)]
      BY <2>1, <2>2, QueueType
    <3> QED
      BY <1>5, <3>1 DEF TypeOK, Answer, Lose
  <2> QED
    BY <1>5, <2>3 DEF TypeOK, Answer, Lose, config, sockets, history
<1> QED
  BY <1>1, <1>2, <1>3, <1>4, <1>5

LEMMA TypeStep ==
  ASSUME TypeOK, ThreadInv, AdapterInv, [Next]_vars
  PROVE  TypeOK'
<1>1. CASE UNCHANGED vars
  BY <1>1 DEF vars, TypeOK, config, sockets, history
<1> QED
  BY <1>1, Names, WorkType, ActorSends, SendingType, CallType, HandleType, OtherType DEF Next

-----------------------------------------------------------------------------
(* Who moves: every step is of one actor, and the others stay or are woken *)

Keeps(u) ==
  /\ job'[u] = job[u]
  /\ \/ pc'[u] = pc[u]
     \/ u \in Threads /\ pc[u] = "await" /\ pc'[u] = "woken"
OthersKeep(t) == \A u \in Actors \ {t} : Keeps(u)

\* An actor returns or goes on with its call.
Goes(t) ==
  \/ pc'[t] = "idle"
  \/ pc[t] # "idle" /\ job'[t].op = job[t].op /\ job'[t].sock = job[t].sock

\* What happens to the lock of the socket on the way.
Locks(t) ==
  \/ UNCHANGED <<lock, stolen>> /\ \A s \in Sockets : Inside(t, s)' => Inside(t, s)
  \/ job[t].sock \in Sockets /\ Release(t, job[t].sock) /\ \A s \in Sockets : ~ Inside(t, s)'
  \/ Acquire(t)

LEMMA Kept ==
  ASSUME NEW u \in Actors, Keeps(u)
  PROVE  /\ u \in Threads /\ ThreadOK(u) => ThreadOK(u)'
         /\ u \in Adapters /\ AdapterOK(u) => AdapterOK(u)'
         /\ \A s : Inside(u, s)' <=> Inside(u, s)
         /\ \A s : On(u, s)' <=> On(u, s)
         /\ Doing(u)' = "take" => Doing(u) = "take"
<1>1. u \in Threads /\ ThreadOK(u) => ThreadOK(u)'
  BY DEF Keeps, ThreadOK, Doing
<1>2. u \in Adapters /\ AdapterOK(u) => AdapterOK(u)'
  BY Names DEF Keeps, AdapterOK, Doing
<1>3. ASSUME NEW s PROVE (Inside(u, s)' <=> Inside(u, s)) /\ (On(u, s)' <=> On(u, s))
  BY DEF Keeps, Inside, On
<1> QED
  BY <1>1, <1>2, <1>3 DEF Keeps, Doing

\* How a call ends.
LEMMA Returned ==
  ASSUME TypeOK, NEW t \in Actors, Return(t)
  PROVE  /\ OthersKeep(t) /\ Goes(t) /\ pc'[t] = "idle"
         /\ ThreadOK(t)' /\ AdapterOK(t)' /\ \A s : ~ Inside(t, s)'
<1>1. pc'[t] = "idle" /\ job'[t] = Idle
  BY DEF TypeOK, Return
<1>2. OthersKeep(t)
  BY DEF TypeOK, Return, OthersKeep, Keeps
<1> QED
  BY <1>1, <1>2 DEF Goes, ThreadOK, AdapterOK, Doing, Inside, Idle, SocketOps

LEMMA SentMoves ==
  ASSUME TypeOK, NEW t \in Actors, job[t].op = "sendmsg" => job[t].sock \in Sockets,
         SendDone(t) \/ SendFailed(t)
  PROVE  OthersKeep(t) /\ Goes(t) /\ ThreadOK(t)' /\ AdapterOK(t)' /\ Locks(t)
<1>1. Return(t)
  BY DEF SendDone, SendFailed
<1>2. Locks(t)
  BY <1>1, Returned DEF SendDone, SendFailed, Locks
<1> QED
  BY <1>1, <1>2, Returned

LEMMA WorkMoves ==
  ASSUME TypeOK, ThreadInv, NEW t \in Threads, Work(t)
  PROVE  OthersKeep(t) /\ Goes(t) /\ ThreadOK(t)' /\ Locks(t)
<1>0. t \in Actors /\ ThreadOK(t) /\ pc \in [Actors -> Labels] /\ job \in [Actors -> Jobs]
  BY Names DEF ThreadInv, TypeOK
<1>1. CASE Acquire(t)
  <2>1. /\ job' = job /\ pc[t] = "lock" /\ pc' = [pc EXCEPT ![t] = job[t].stage]
    BY <1>1 DEF Acquire
  <2>2. OthersKeep(t) /\ Goes(t)
    BY <1>0, <2>1 DEF OthersKeep, Keeps, Goes
  <2>3. ThreadOK(t)'
    BY <1>0, <2>1 DEF ThreadOK, Doing, Receives
  <2> QED
    BY <1>1, <2>2, <2>3 DEF Locks
<1>2. CASE Connect(t)
  <2>1. /\ job' = [job EXCEPT ![t] = Idle] /\ pc[t] = "connect" /\ Release(t, job[t].sock)
        /\ pc' = [u \in Actors |-> CASE u \in Waiters(job[t].sock) -> "woken"
                                     [] u \in DOMAIN [v \in {t} |-> "idle"] -> "idle"
                                     [] OTHER -> pc[u]]
    BY <1>2 DEF Connect, Triggered
  <2>2. pc'[t] = "idle" /\ job'[t] = Idle
    BY <1>0, <2>1 DEF Waiters
  <2>3. OthersKeep(t)
    BY <1>0, <2>1 DEF OthersKeep, Keeps, Waiters
  <2>4. job[t].sock \in Sockets
    BY <2>1, CallSocket DEF Doing
  <2> QED
    BY <2>1, <2>2, <2>3, <2>4 DEF Goes, ThreadOK, Doing, Inside, Idle, SocketOps, Locks
<1>3. CASE Unbind(t)
  <2>1. job[t].sock \in Sockets /\ Release(t, job[t].sock) /\ pc[t] = "unbind"
    BY <1>3, CallSocket DEF Unbind, Doing
  <2>2. /\ OthersKeep(t) /\ pc'[t] = "close" /\ job'[t] = job[t]
    BY <1>0, <1>3 DEF Unbind, OthersKeep, Keeps
  <2>3. job[t].op = "close"
    BY <1>0, <2>1 DEF ThreadOK, Doing
  <2> QED
    BY <1>0, <2>1, <2>2, <2>3 DEF Goes, ThreadOK, Doing, Inside, Locks, Receives
<1>10. CASE Close(t)
  <2>1. UNCHANGED <<lock, stolen>> /\ pc[t] = "close"
    BY <1>10 DEF Close, history
  <2>2. /\ OthersKeep(t) /\ pc'[t] = "reset" /\ job'[t] = job[t]
    BY <1>0, <1>10 DEF Close, OthersKeep, Keeps
  <2>3. job[t].op = "close"
    BY <1>0, <2>1 DEF ThreadOK, Doing
  <2> QED
    BY <1>0, <2>1, <2>2, <2>3 DEF Goes, ThreadOK, Doing, Inside, Locks, Receives
<1>11. CASE ReadByte(t)
  <2>1. /\ UNCHANGED <<lock, stolen>> /\ pc[t] = "reset"
        /\ \E p, bits : job' = [job EXCEPT ![t].port = p, ![t].saved = bits]
        /\ pc' = [pc EXCEPT ![t] = "clear"]
    BY <1>11 DEF ReadByte, history
  <2>2. /\ OthersKeep(t) /\ pc'[t] = "clear" /\ job'[t].op = job[t].op
        /\ job'[t].sock = job[t].sock /\ job'[t].type = job[t].type
    BY <1>0, <2>1 DEF OthersKeep, Keeps, Jobs
  <2>3. job[t].op = "close"
    BY <1>0, <2>1 DEF ThreadOK, Doing
  <2> QED
    BY <1>0, <2>1, <2>2, <2>3 DEF Goes, ThreadOK, Doing, Inside, Locks, Receives
<1>12. CASE WriteByte(t) \/ Bind(t) \/ SetSockOpt(t)
  BY <1>0, <1>12, Returned DEF WriteByte, Bind, SetSockOpt, Locks, history
<1>4. CASE Look(t)
  <2>1. job[t].sock \in Sockets
    BY <1>4, CallSocket DEF Look, Doing
  <2>2. /\ pc[t] \in {"recvmsg", "read"} /\ Receives(job[t].op)
    BY <1>0, <1>4 DEF Look, ThreadOK, Doing
  <2>3. CASE packets[job[t].sock] > 0
    <3>1. /\ pc' = [pc EXCEPT ![t] = IF job[t].op = "read" THEN "lock" ELSE "take"]
          /\ job' = [job EXCEPT ![t].stage = "take"]
          /\ UNCHANGED <<lock, stolen>>
      BY <1>4, <2>3 DEF Look
    <3>2. OthersKeep(t)
      BY <1>0, <3>1 DEF OthersKeep, Keeps
    <3>3. /\ pc'[t] \in {"lock", "take"} /\ job'[t].stage = "take" /\ job'[t].op = job[t].op
          /\ job'[t].sock = job[t].sock /\ job'[t].type = job[t].type
      BY <1>0, <3>1 DEF Jobs
    <3> QED
      BY <1>0, <2>2, <3>1, <3>2, <3>3 DEF Goes, ThreadOK, Doing, Inside, Locks, Receives
  <2>4. CASE ~ (packets[job[t].sock] > 0)
    <3>1. /\ Release(t, job[t].sock)
          /\ pc' = [pc EXCEPT ![t] = CASE job[t].how = "nonblock" -> "release"
                                       [] job[t].how = "dontwait" -> "idle"
                                       [] OTHER -> "await"]
          /\ job' = [job EXCEPT ![t] = IF job[t].how = "dontwait" THEN Idle ELSE @]
      BY <1>4, <2>4 DEF Look
    <3>2. OthersKeep(t)
      BY <1>0, <3>1 DEF OthersKeep, Keeps
    <3>3. \/ pc'[t] = "idle" /\ job'[t] = Idle
          \/ pc'[t] \in {"release", "await"} /\ job'[t] = job[t]
      BY <1>0, <3>1
    <3>4. \A s : ~ Inside(t, s)'
      BY <2>2, <3>3 DEF Inside, Receives
    <3> QED
      BY <1>0, <2>1, <2>2, <3>1, <3>2, <3>3, <3>4
         DEF Goes, ThreadOK, Doing, Locks, Idle, SocketOps
  <2> QED
    BY <2>3, <2>4
<1>5. CASE ReleaseAgain(t)
  <2>1. job[t].sock \in Sockets
    BY <1>5, CallSocket DEF ReleaseAgain, Doing
  <2> QED
    BY <1>0, <1>5, <2>1, Returned DEF ReleaseAgain, Locks
<1>6. CASE Await(t)
  <2>1. /\ pc' = [pc EXCEPT ![t] = "woken"] /\ job' = job /\ UNCHANGED <<lock, stolen>>
        /\ pc[t] = "await"
    BY <1>6 DEF Await, history
  <2>2. OthersKeep(t) /\ pc'[t] = "woken"
    BY <1>0, <2>1 DEF OthersKeep, Keeps
  <2> QED
    BY <1>0, <2>1, <2>2 DEF Goes, ThreadOK, Doing, Inside, Locks
<1>7. CASE Woken(t)
  <2>1. /\ pc' = [pc EXCEPT ![t] = Recheck(t)] /\ pc[t] = "woken"
        /\ job' = [job EXCEPT ![t].stage = "take"] /\ UNCHANGED <<lock, stolen>>
    BY <1>7 DEF Woken, history
  <2>2. OthersKeep(t)
    BY <1>0, <2>1 DEF OthersKeep, Keeps
  <2>3. /\ pc'[t] \in {"lock", "await"} /\ job'[t].stage = "take" /\ job'[t].op = job[t].op
        /\ job'[t].sock = job[t].sock /\ job'[t].type = job[t].type
    BY <1>0, <2>1 DEF Jobs, Recheck
  <2> QED
    BY <1>0, <2>1, <2>2, <2>3 DEF Goes, ThreadOK, Doing, Inside, Locks, Receives
<1>8. CASE TakePacket(t)
  <2>1. job[t].sock \in Sockets
    BY <1>8, CallSocket DEF TakePacket, Doing
  <2>2. CASE packets[job[t].sock] > 0
    BY <1>0, <1>8, <2>1, <2>2, Returned DEF TakePacket, Locks
  <2>3. CASE ~ (packets[job[t].sock] > 0)
    <3>1. UNCHANGED <<pc, job, lock, stolen>> /\ pc[t] = "take"
      BY <1>8, <2>3 DEF TakePacket
    <3>2. OthersKeep(t) /\ Goes(t) /\ Locks(t)
      BY <3>1 DEF OthersKeep, Keeps, Goes, Locks, Inside
    <3> QED
      BY <1>0, <3>1, <3>2 DEF ThreadOK, Doing
  <2> QED
    BY <2>2, <2>3
<1>9. CASE Prepare(t)
  <2> DEFINE s == job[t].sock
             x == sock[s]
             dest == IF x.state = "connected" THEN x.peer ELSE job[t].dest
             refused == dest = None \/ (dest = Broadcast /\ ~x.broadcast)
             p == IF x.port = 0 THEN AllocPort ELSE x.port
  <2>1. s \in Sockets /\ pc[t] = "sendmsg" /\ job[t].op \in {"sendmsg", "write"}
    BY <1>0, <1>9, CallSocket DEF Prepare, Doing, ThreadOK
  <2>2. CASE refused \/ p = 0
    <3>1. SendDone(t)
      BY <1>9, <2>2 DEF Prepare
    <3> QED
      BY <1>0, <2>1, <3>1, SentMoves
  <2>3. CASE ~ (refused \/ p = 0)
    <3>1. /\ job' = [job EXCEPT ![t].dest = dest, ![t].adapter = x.adapter,
                       ![t].local = IF x.adapter = None THEN AnyAddr ELSE x.local]
          /\ pc' = [pc EXCEPT ![t] = IF x.adapter = None THEN "route" ELSE "inet"]
          /\ UNCHANGED <<lock, leaked, stolen>>
      BY <1>9, <2>3 DEF Prepare
    <3>2. x \in SocketRecords /\ job[t] \in Jobs
      BY <1>0, <2>1 DEF TypeOK
    <3>3. x.adapter \in Adapters \cup {None} /\ dest \in Addrs
      BY <2>3, <3>2 DEF SocketRecords, Jobs
    <3> HIDE DEF x, dest
    <3>4. OthersKeep(t)
      BY <1>0, <3>1 DEF OthersKeep, Keeps
    <3>5. /\ job'[t].dest = dest /\ job'[t].adapter = x.adapter /\ job'[t].op = job[t].op
          /\ job'[t].sock = job[t].sock /\ job'[t].type = job[t].type
          /\ pc'[t] = IF x.adapter = None THEN "route" ELSE "inet"
      BY <1>0, <3>1 DEF Jobs
    <3>6. ThreadOK(t)'
      BY <1>0, <2>1, <3>3, <3>5 DEF ThreadOK, Doing
    <3>7. Goes(t)
      BY <2>1, <3>5 DEF Goes
    <3>8. ASSUME NEW k \in Sockets, Inside(t, k)' PROVE Inside(t, k)
      <4>1. pc'[t] \in {"route", "inet"}
        BY <3>5
      <4>2. job[t].op = "sendmsg" /\ job[t].sock = k
        BY <3>5, <3>8, <4>1 DEF Inside
      <4> QED
        BY <2>1, <4>2 DEF Inside
    <3>9. Locks(t)
      BY <3>1, <3>8 DEF Locks
    <3> QED
      BY <3>4, <3>6, <3>7, <3>9
  <2> QED
    BY <2>2, <2>3
<1> QED
  BY <1>1, <1>2, <1>3, <1>4, <1>5, <1>6, <1>7, <1>8, <1>9, <1>10, <1>11, <1>12 DEF Work

LEMMA RoutedMoves ==
  ASSUME TypeOK, ThreadInv, AdapterInv, NEW t \in Actors, pc[t] \in {"route", "inet", "ask"},
         NEW a \in Adapters, t \in Adapters => a = t, Routed(t, a)
  PROVE  /\ OthersKeep(t) /\ Goes(t) /\ Locks(t)
         /\ t \in Threads => ThreadOK(t)'
         /\ t \in Adapters => AdapterOK(t)' /\ pc'[t] # "ask"
<1>0. Sends(t) /\ pc \in [Actors -> Labels] /\ job \in [Actors -> Jobs]
  BY ActorSends DEF TypeOK
<1>1. CASE pc[t] = "route" \/ (pc[t] = "ask" /\ job[t].stage = "route")
  <2>1. /\ pc' = [pc EXCEPT ![t] = "inet"] /\ job' = [job EXCEPT ![t].adapter = a]
        /\ UNCHANGED <<cache, lock, stolen, leaked>>
    BY <1>0, <1>1 DEF Routed, Sends
  <2>2. /\ pc'[t] = "inet" /\ job'[t].adapter = a /\ job'[t].op = job[t].op
        /\ job'[t].sock = job[t].sock /\ job'[t].type = job[t].type
        /\ job'[t].dest = job[t].dest
    BY <1>0, <2>1 DEF Jobs
  <2>3. OthersKeep(t)
    BY <1>0, <2>1 DEF OthersKeep, Keeps
  <2>4. ASSUME NEW k \in Sockets, Inside(t, k)' PROVE Inside(t, k)
    BY <1>1, <2>2, <2>4 DEF Inside
  <2>5. Goes(t) /\ Locks(t)
    BY <1>1, <2>1, <2>2, <2>4 DEF Goes, Locks
  <2>6. t \in Threads => ThreadOK(t)'
    BY <1>1, <2>2 DEF ThreadInv, ThreadOK, Doing, SocketOps
  <2>7. t \notin Adapters
    BY <1>1 DEF AdapterInv, AdapterOK, Doing
  <2> QED
    BY <2>3, <2>5, <2>6, <2>7
<1>2. CASE /\ ~ (pc[t] = "route" \/ (pc[t] = "ask" /\ job[t].stage = "route"))
           /\ job[t].op = "addroute"
  <2>1. Return(t) /\ UNCHANGED <<cache, lock, stolen, leaked>>
    BY <1>2 DEF Routed
  <2> QED
    BY <2>1, Returned DEF Locks
<1>3. CASE /\ ~ (pc[t] = "route" \/ (pc[t] = "ask" /\ job[t].stage = "route"))
           /\ job[t].op # "addroute"
  <2>1. SendDone(t)
    BY <1>3 DEF Routed
  <2>2. pc'[t] = "idle"
    BY <1>0, <2>1 DEF SendDone, Return
  <2> QED
    BY <1>0, <2>1, <2>2, SentMoves DEF Sends
<1> QED
  BY <1>1, <1>2, <1>3

LEMMA AskMoves ==
  ASSUME TypeOK, ThreadInv, AdapterInv, NEW t \in Actors, pc[t] \in {"route", "inet"},
         NEW a \in Adapters, t \in Adapters => a = t, NEW x \in Addrs, Ask(t, a, x)
  PROVE  /\ OthersKeep(t) /\ Goes(t) /\ Locks(t)
         /\ t \in Threads => ThreadOK(t)'
         /\ t \in Adapters => AdapterOK(t)' /\ job'[t].target = x
<1>0. pc \in [Actors -> Labels] /\ job \in [Actors -> Jobs]
  BY DEF TypeOK
<1>1. /\ pc' = [pc EXCEPT ![t] = "ask"]
      /\ job' = [job EXCEPT ![t].stage = pc[t], ![t].adapter = a, ![t].target = x]
      /\ UNCHANGED <<lock, stolen>>
  BY DEF Ask
<1>2. /\ pc'[t] = "ask" /\ job'[t].stage = pc[t] /\ job'[t].adapter = a
      /\ job'[t].target = x /\ job'[t].op = job[t].op /\ job'[t].sock = job[t].sock
      /\ job'[t].type = job[t].type /\ job'[t].dest = job[t].dest
  BY <1>0, <1>1 DEF Jobs
<1>3. OthersKeep(t)
  BY <1>0, <1>1 DEF OthersKeep, Keeps
<1>4. ASSUME NEW k \in Sockets, Inside(t, k)' PROVE Inside(t, k)
  BY <1>2, <1>4 DEF Inside
<1>5. Goes(t) /\ Locks(t)
  BY <1>1, <1>2, <1>4 DEF Goes, Locks
<1>6. t \in Threads => ThreadOK(t)'
  BY <1>2 DEF ThreadInv, ThreadOK, Doing, SocketOps
<1>7. t \in Adapters => AdapterOK(t)'
  BY <1>2 DEF AdapterInv, AdapterOK, Doing
<1> QED
  BY <1>2, <1>3, <1>5, <1>6, <1>7

\* An interface thread that asks does not know the answer.
LEMMA SendingMoves ==
  ASSUME TypeOK, ThreadInv, AdapterInv, NEW t \in Actors, Sending(t)
  PROVE  /\ OthersKeep(t) /\ Goes(t) /\ Locks(t)
         /\ t \in Threads => ThreadOK(t)'
         /\ t \in Adapters => AdapterOK(t)' /\ (pc'[t] = "ask" => job'[t].target \notin arp[t])
<1>0. Sends(t) /\ (t \in Adapters /\ pc[t] \in {"inet", "ask"} => job[t].adapter = t)
  BY ActorSends DEF AdapterInv, AdapterOK, Doing
<1>1. CASE Route(t)
  <2> DEFINE r == IF pc[t] = "route" THEN RouteAny(job[t].dest)
                  ELSE RouteVia(job[t].adapter, job[t].local, job[t].dest)
  <2>0. /\ pc[t] \in {"route", "inet"} /\ job[t].dest \in Addrs
        /\ t \in Adapters => pc[t] = "inet"
    BY <1>0, <1>1 DEF Route, Sends, AdapterInv, AdapterOK, Doing
  <2>1. r # None => /\ r.adapter \in Adapters /\ r.target \in Addrs
                    /\ t \in Adapters => r.adapter = t
    BY <1>0, <2>0, RouteTypes DEF Sends
  <2>2. \/ pc[t] = "inet" /\ Routed(t, job[t].adapter)
        \/ SendFailed(t)
        \/ r # None /\ Routed(t, r.adapter)
        \/ r # None /\ Ask(t, r.adapter, r.target) /\ ~ Known(r.adapter, r.target)
    BY <1>1 DEF Route
  <2> HIDE DEF r
  <2>3. CASE pc[t] = "inet" /\ Routed(t, job[t].adapter)
    BY <1>0, <2>0, <2>3, RoutedMoves DEF Sends
  <2>4. CASE SendFailed(t)
    <3>1. pc'[t] = "idle"
      BY <2>4 DEF TypeOK, SendFailed, Return
    <3> QED
      BY <1>0, <2>0, <2>4, <3>1, SentMoves DEF Sends
  <2>5. CASE r # None /\ Routed(t, r.adapter)
    BY <2>0, <2>1, <2>5, RoutedMoves
  <2>6. CASE r # None /\ Ask(t, r.adapter, r.target) /\ ~ Known(r.adapter, r.target)
    BY <2>0, <2>1, <2>6, AskMoves DEF Known
  <2> QED
    BY <2>2, <2>3, <2>4, <2>5, <2>6
<1>2. CASE Answered(t)
  BY <1>0, <1>2, RoutedMoves DEF Answered, Sends
<1>3. CASE TimedOut(t)
  <2>1. pc'[t] = "idle"
    BY <1>3 DEF TypeOK, TimedOut, SendFailed, Return
  <2> QED
    BY <1>0, <1>3, <2>1, SentMoves DEF TimedOut, Sends
<1> QED
  BY <1>1, <1>2, <1>3 DEF Sending

\* A call starts, and a second receive makes rivals.
Starts(t) ==
  /\ pc[t] = "idle" /\ Doing(t)' # "take"
  /\ \A s \in Sockets : job'[t].sock = s /\ Receives(job'[t].op) =>
       \A u \in Threads : On(u, s) /\ Receives(job[u].op) => s \in rivals'

LEMMA CallMoves ==
  ASSUME TypeOK, ThreadInv, NEW t \in Threads, Call(t)
  PROVE  /\ OthersKeep(t) /\ ThreadOK(t)' /\ Locks(t)
         /\ pc'[t] = "idle" \/ Starts(t)
<1>0. /\ t \in Actors /\ ThreadOK(t) /\ pc \in [Actors -> Labels] /\ job \in [Actors -> Jobs]
      /\ pc[t] = "idle"
  <2>1. Called(t)
    BY DEF Call, Refuse, Begin, Configure, UpdateFlags, AddRoute, Made
  <2> QED
    BY <2>1, Names DEF ThreadInv, TypeOK, Called
<1>1. CASE UNCHANGED <<pc, job, lock, stolen>>
  BY <1>0, <1>1 DEF OthersKeep, Keeps, ThreadOK, Doing, Locks, Inside
<1>2. CASE Refuse(t) \/ Configure(t) \/ UpdateFlags(t)
  BY <1>1, <1>2 DEF Refuse, Configure, UpdateFlags, history
<1> DEFINE r == Now(t)
<1>3. CASE Begin(t)
  <2>1. r \in Requests /\ r.op \in SocketOps
    BY <1>3, NowType DEF Begin, Made
  <2>2. r.sock \in Sockets /\ (r.op = "bind" => r.addr \in Addrs)
    BY <2>1 DEF Requests
  <2>3. /\ pc' = [pc EXCEPT ![t] = FirstStep(r)] /\ job' = [job EXCEPT ![t] = Job(r)]
        /\ UNCHANGED <<lock, stolen>>
    BY <1>3 DEF Begin
  <2>4. Receives(r.op) =>
          \A u \in Threads : On(u, r.sock) /\ Receives(job[u].op) => r.sock \in rivals'
    BY <1>3 DEF Begin, On
  <2> HIDE DEF r
  <2>5. OthersKeep(t) /\ pc'[t] = FirstStep(r) /\ job'[t] = Job(r)
    BY <1>0, <2>3 DEF OthersKeep, Keeps
  <2>6. /\ job'[t].op = r.op /\ job'[t].sock = r.sock /\ job'[t].type = "udp"
        /\ job'[t].stage = (IF r.op = "close" THEN "unbind" ELSE r.op)
        /\ job'[t].dest = r.addr
    BY <2>5 DEF Job
  <2>7. \/ r.op \in {"bind", "todevice", "broadcast"} /\ pc'[t] = r.op
        \/ r.op = "write" /\ pc'[t] = "sendmsg"
        \/ r.op = "close" /\ pc'[t] = "close"
        \/ r.op \in {"connect", "sendmsg", "recvmsg", "read", "close"} /\ pc'[t] = "lock"
    BY <2>1, <2>5 DEF FirstStep, SocketOps
  <2>8. ThreadOK(t)'
    BY <2>1, <2>2, <2>6, <2>7 DEF ThreadOK, Doing, Receives
  <2>9. ASSUME NEW s \in Sockets PROVE ~ Inside(t, s)'
    BY <2>6, <2>7 DEF Inside
  <2>10. Starts(t)
    BY <1>0, <2>4, <2>6, <2>7 DEF Starts, Doing
  <2> QED
    BY <2>3, <2>5, <2>8, <2>9, <2>10 DEF Locks
<1>5. CASE AddRoute(t)
  <2>1. r \in Requests /\ r.op = "addroute"
    BY <1>5, NowType DEF AddRoute, Made
  <2>2. r.addr \in Addrs
    BY <2>1 DEF Requests
  <2>3. CASE Known("eth", r.addr)
    BY <1>1, <1>5, <2>3 DEF AddRoute, history
  <2>4. CASE ~ Known("eth", r.addr)
    <3>1. /\ pc' = [pc EXCEPT ![t] = "ask"]
          /\ job' = [job EXCEPT ![t] = [Job(r) EXCEPT !.adapter = "eth", !.target = r.addr]]
          /\ UNCHANGED <<lock, stolen>>
      BY <1>5, <2>4 DEF AddRoute, history
    <3> HIDE DEF r
    <3>2. /\ OthersKeep(t) /\ pc'[t] = "ask"
          /\ job'[t] = [Job(r) EXCEPT !.adapter = "eth", !.target = r.addr]
      BY <1>0, <3>1 DEF OthersKeep, Keeps
    <3>3. /\ job'[t].op = "addroute" /\ job'[t].sock = r.sock /\ job'[t].stage = "addroute"
          /\ job'[t].adapter = "eth" /\ job'[t].target = r.addr
      BY <2>1, <3>2 DEF Job
    <3>4. ThreadOK(t)'
      BY <2>2, <3>2, <3>3 DEF ThreadOK, Doing, SocketOps, Adapters
    <3>5. ASSUME NEW s \in Sockets PROVE ~ Inside(t, s)'
      BY <3>2, <3>3 DEF Inside
    <3>6. Starts(t)
      BY <1>0, <2>2, <3>2, <3>3 DEF Starts, Doing, Receives
    <3> QED
      BY <3>1, <3>2, <3>4, <3>5, <3>6 DEF Locks
  <2> QED
    BY <2>3, <2>4
<1> QED
  BY <1>2, <1>3, <1>5 DEF Call

LEMMA HandleMoves ==
  ASSUME TypeOK, NEW a \in Adapters, Handle(a)
  PROVE  OthersKeep(a) /\ AdapterOK(a)' /\ Locks(a) /\ pc'[a] # "ask"
<1> DEFINE f == Head(cache[a])
<1>0. /\ a \in Actors /\ f \in Frames /\ pc \in [Actors -> Labels] /\ job \in [Actors -> Jobs]
      /\ f.src \in Addrs
  <2>1. cache[a] \in Seq(Frames) /\ cache[a] # <<>>
    BY DEF Handle, TypeOK
  <2>2. f \in Frames
    BY <2>1, HeadTailProperties
  <2> QED
    BY <2>2, Names DEF Frames, TypeOK
<1>1. OnInet(a, f) /\ pc[a] = "idle" /\ UNCHANGED <<lock, stolen>>
  BY DEF Handle, history
<1> HIDE DEF f
<1>2. CASE /\ pc' = [pc EXCEPT ![a] = "inet"]
           /\ job' = [job EXCEPT ![a] =
                        [Idle EXCEPT !.op = "answer", !.dest = f.src, !.type = "icmp",
                                     !.adapter = a, !.local = ip[a]]]
  <2>1. /\ pc'[a] = "inet" /\ job'[a].op = "answer" /\ job'[a].dest = f.src
        /\ job'[a].type = "icmp" /\ job'[a].adapter = a
    BY <1>0, <1>2 DEF Idle
  <2>2. OthersKeep(a)
    BY <1>0, <1>2 DEF OthersKeep, Keeps
  <2> QED
    BY <1>0, <1>1, <2>1, <2>2 DEF AdapterOK, Locks, Inside
<1>3. CASE /\ GrabSocket(f.port) # 0
           /\ pc' = [pc EXCEPT ![a] = "lock"]
           /\ job' = [job EXCEPT ![a] =
                        [Idle EXCEPT !.op = "netpacket",
                                     !.sock = registered[GrabSocket(f.port)],
                                     !.stage = "push"]]
  <2>1. registered[GrabSocket(f.port)] \in Sockets
    BY <1>3, GrabbedSocket
  <2>2. /\ pc'[a] = "lock" /\ job'[a].op = "netpacket" /\ job'[a].sock \in Sockets
        /\ job'[a].stage = "push"
    BY <1>0, <1>3, <2>1 DEF Idle
  <2>3. OthersKeep(a)
    BY <1>0, <1>3 DEF OthersKeep, Keeps
  <2> QED
    BY <1>1, <2>2, <2>3 DEF AdapterOK, Doing, Locks, Inside
<1>4. CASE UNCHANGED <<pc, job>>
  BY <1>0, <1>1, <1>4 DEF OthersKeep, Keeps, AdapterOK, Locks, Inside
<1> QED
  BY <1>1, <1>2, <1>3, <1>4 DEF OnInet, Unreachable

LEMMA AdapterLockMoves ==
  ASSUME TypeOK, AdapterInv, NEW a \in Adapters, Acquire(a) \/ Push(a)
  PROVE  OthersKeep(a) /\ AdapterOK(a)' /\ Locks(a) /\ pc'[a] # "ask"
<1>0. a \in Actors /\ AdapterOK(a) /\ pc \in [Actors -> Labels] /\ job \in [Actors -> Jobs]
  BY Names DEF AdapterInv, TypeOK
<1>1. CASE Acquire(a)
  <2>1. job' = job /\ pc[a] = "lock" /\ pc' = [pc EXCEPT ![a] = job[a].stage]
    BY <1>1 DEF Acquire
  <2>2. OthersKeep(a) /\ pc'[a] = job[a].stage
    BY <1>0, <2>1 DEF OthersKeep, Keeps
  <2> QED
    BY <1>0, <1>1, <2>1, <2>2 DEF AdapterOK, Doing, Locks
<1>2. CASE Push(a)
  <2>1. /\ job' = [job EXCEPT ![a] = Idle] /\ pc[a] = "push" /\ Release(a, job[a].sock)
        /\ pc' = [u \in Actors |-> CASE u \in Waiters(job[a].sock) -> "woken"
                                     [] u \in DOMAIN [v \in {a} |-> "idle"] -> "idle"
                                     [] OTHER -> pc[u]]
    BY <1>2 DEF Push, Triggered
  <2>2. pc'[a] = "idle"
    BY <1>0, <2>1 DEF Waiters
  <2>3. OthersKeep(a)
    BY <1>0, <2>1 DEF OthersKeep, Keeps, Waiters
  <2>4. job[a].sock \in Sockets
    BY <1>0, <2>1 DEF AdapterOK, Doing
  <2> QED
    BY <2>1, <2>2, <2>3, <2>4 DEF AdapterOK, Inside, Locks
<1> QED
  BY <1>1, <1>2

\* The queues: only a receive takes a datagram, and who is to take one has seen it.
Takes(t) ==
  /\ rivals \subseteq rivals'
  /\ \A s \in Sockets :
       \/ packets'[s] >= packets[s]
       \/ t \in Threads /\ On(t, s) /\ Receives(job[t].op) /\ pc'[t] = "idle"
  /\ t \in Threads /\ Doing(t)' = "take" =>
       \/ Doing(t) = "take" /\ job'[t].sock = job[t].sock
       \/ packets'[job'[t].sock] > 0
  /\ panicked' = "empty" =>
       \/ panicked = "empty"
       \/ t \in Threads /\ \E s \in Sockets : On(t, s) /\ Doing(t) = "take" /\ packets[s] = 0

LEMMA WorkTakes ==
  ASSUME TypeOK, ThreadInv, NEW t \in Threads, Work(t)
  PROVE  Takes(t)
<1>0. /\ t \in Actors /\ ThreadOK(t) /\ pc \in [Actors -> Labels] /\ job \in [Actors -> Jobs]
      /\ packets \in [Sockets -> Nat]
  BY Names DEF ThreadInv, TypeOK
<1>1. CASE Acquire(t)
  BY <1>0, <1>1 DEF Acquire, Takes, Doing, sockets, history
<1>2. CASE \/ Bind(t) \/ SetSockOpt(t) \/ Connect(t) \/ Unbind(t) \/ Close(t) \/ ReadByte(t)
          \/ WriteByte(t) \/ ReleaseAgain(t) \/ Prepare(t)
  <2>1. UNCHANGED <<packets, rivals, panicked>>
    BY <1>2 DEF Bind, SetSockOpt, Connect, Unbind, Close, ReadByte, WriteByte, ReleaseAgain,
                Prepare, sockets, history
  <2>2. pc'[t] \in {"idle", "close", "reset", "clear", "route", "inet"}
    BY <1>0, <1>2 DEF Bind, SetSockOpt, Connect, Triggered, Waiters, Unbind, Close, ReadByte,
                      WriteByte, ReleaseAgain, Return, Prepare, SendDone
  <2> QED
    BY <1>0, <2>1, <2>2 DEF Takes, Doing
<1>3. CASE Look(t)
  <2>1. UNCHANGED <<packets, rivals, panicked>> /\ pc[t] \in {"recvmsg", "read"}
    BY <1>3 DEF Look, sockets
  <2>2. CASE packets[job[t].sock] > 0
    <3>1. job' = [job EXCEPT ![t].stage = "take"]
      BY <1>3, <2>2 DEF Look
    <3>2. job'[t].sock = job[t].sock
      BY <1>0, <3>1 DEF Jobs
    <3> QED
      BY <1>0, <2>1, <2>2, <3>2 DEF Takes
  <2>3. CASE ~ (packets[job[t].sock] > 0)
    <3>1. pc'[t] \in {"release", "idle", "await"}
      BY <1>0, <1>3, <2>3 DEF Look
    <3> QED
      BY <1>0, <2>1, <3>1 DEF Takes, Doing
  <2> QED
    BY <2>2, <2>3
<1>4. CASE Await(t)
  <2>1. UNCHANGED <<packets, rivals, panicked>> /\ pc'[t] = "woken"
    BY <1>0, <1>4 DEF Await, history
  <2> QED
    BY <1>0, <2>1 DEF Takes, Doing
<1>5. CASE Woken(t)
  <2>1. /\ UNCHANGED <<packets, rivals, panicked>>
        /\ pc' = [pc EXCEPT ![t] = Recheck(t)] /\ job' = [job EXCEPT ![t].stage = "take"]
    BY <1>5 DEF Woken, sockets, history
  <2>2. job'[t].sock = job[t].sock /\ pc'[t] = Recheck(t)
    BY <1>0, <2>1 DEF Jobs
  <2> QED
    BY <1>0, <2>1, <2>2 DEF Takes, Doing, Recheck
<1>6. CASE TakePacket(t)
  <2>1. /\ job[t].sock \in Sockets /\ Receives(job[t].op) /\ pc[t] = "take"
        /\ rivals' = rivals
    BY <1>0, <1>6, CallSocket DEF TakePacket, Doing, ThreadOK
  <2>2. On(t, job[t].sock) /\ Doing(t) = "take"
    BY <2>1 DEF On, Doing
  <2>3. CASE packets[job[t].sock] > 0
    <3>1. /\ packets' = [packets EXCEPT ![job[t].sock] = @ - 1] /\ pc'[t] = "idle"
          /\ panicked' = panicked
      BY <1>0, <1>6, <2>3 DEF TakePacket, Return
    <3> QED
      BY <1>0, <2>1, <2>2, <3>1 DEF Takes, Doing
  <2>4. CASE ~ (packets[job[t].sock] > 0)
    <3>1. UNCHANGED <<packets, pc, job>>
      BY <1>6, <2>4 DEF TakePacket
    <3>2. packets[job[t].sock] = 0
      BY <1>0, <2>1, <2>4
    <3> QED
      BY <1>0, <2>1, <2>2, <3>1, <3>2 DEF Takes, Doing
  <2> QED
    BY <2>3, <2>4
<1> QED
  BY <1>1, <1>2, <1>3, <1>4, <1>5, <1>6 DEF Work

LEMMA SendingTakes ==
  ASSUME TypeOK, ThreadInv, AdapterInv, NEW t \in Actors, Sending(t)
  PROVE  Takes(t)
<1>1. UNCHANGED <<packets, rivals, panicked>> /\ packets \in [Sockets -> Nat]
  BY DEF Sending, Route, Answered, TimedOut, sockets, TypeOK
<1>2. pc'[t] \in {"idle", "inet", "ask"}
  <2>1. ASSUME NEW a, Routed(t, a), Sends(t), pc[t] \in {"route", "inet", "ask"}
        PROVE  pc'[t] \in {"idle", "inet"}
    BY <2>1 DEF Routed, SendDone, Return, TypeOK, Sends
  <2>2. ASSUME NEW a, NEW x, Ask(t, a, x) PROVE pc'[t] = "ask"
    BY <2>2 DEF Ask, TypeOK
  <2>3. SendFailed(t) => pc'[t] = "idle"
    BY DEF SendFailed, Return, TypeOK
  <2> QED
    BY <2>1, <2>2, <2>3, ActorSends DEF Sending, Route, Answered, TimedOut
<1> QED
  BY <1>1, <1>2 DEF Takes, Doing

LEMMA CallTakes ==
  ASSUME TypeOK, NEW t \in Threads, Call(t), pc'[t] = "idle" \/ Starts(t)
  PROVE  Takes(t)
<1>1. /\ UNCHANGED <<packets, panicked>> /\ rivals \subseteq rivals'
      /\ packets \in [Sockets -> Nat]
  BY DEF Call, Refuse, Begin, Configure, UpdateFlags, AddRoute, sockets, history, TypeOK
<1>2. Doing(t)' # "take"
  BY DEF Starts, Doing
<1> QED
  BY <1>1, <1>2 DEF Takes

\* A step of an actor,
Moves(t) ==
  /\ OthersKeep(t) /\ Locks(t) /\ Takes(t)
  /\ t \in Threads => ThreadOK(t)' /\ (Goes(t) \/ Starts(t))
  /\ t \in Adapters => AdapterOK(t)' /\ (pc'[t] = "ask" => job'[t].target \notin arp'[t])
  /\ \A a \in Adapters : a # t => arp'[a] = arp[a]

\* and one of the wire.
Rests ==
  /\ UNCHANGED <<pc, job, lock, stolen, arp, sock, packets, rivals, portbitmap>>
  /\ panicked' = "empty" => panicked = "empty"

LEMMA StepMoves ==
  ASSUME TypeOK, ThreadInv, AdapterInv, [Next]_vars
  PROVE  (\E t \in Actors : Moves(t)) \/ Rests
<1>1. CASE UNCHANGED vars
  BY <1>1 DEF vars, Rests, sockets, history
<1>2. ASSUME NEW t \in Threads, Work(t) PROVE Moves(t)
  <2>1. arp' = arp /\ t \notin Adapters
    BY <1>2, Names DEF Work, Acquire, Bind, SetSockOpt, Connect, Unbind, Close, ReadByte,
                       WriteByte, Look, ReleaseAgain, Await, Woken, TakePacket, Prepare
  <2> QED
    BY <1>2, <2>1, WorkMoves, WorkTakes DEF Moves
<1>3. ASSUME NEW t \in Threads, Call(t) PROVE Moves(t)
  <2>1. arp' = arp /\ t \notin Adapters
    BY <1>3, Names DEF Call, Refuse, Begin, Configure, UpdateFlags, AddRoute
  <2> QED
    BY <1>3, <2>1, CallMoves, CallTakes DEF Moves, Goes
<1>4. ASSUME NEW t \in Actors, Sending(t) PROVE Moves(t)
  <2>1. arp' = arp
    BY <1>4 DEF Sending, Route, Answered, TimedOut
  <2> QED
    BY <1>4, <2>1, SendingMoves, SendingTakes DEF Moves
<1>5. ASSUME NEW a \in Adapters, Handle(a) PROVE Moves(a)
  <2>1. \A b \in Adapters : b # a => arp'[b] = arp[b]
    BY <1>5 DEF Handle, OnArp, TypeOK
  <2>2. Takes(a)
    BY <1>5, Names DEF Handle, Takes, TypeOK, sockets, history
  <2> QED
    BY <1>5, <2>1, <2>2, HandleMoves, Names DEF Moves
<1>6. ASSUME NEW a \in Adapters, Acquire(a) \/ Push(a) PROVE Moves(a)
  <2>1. arp' = arp
    BY <1>6 DEF Acquire, Push
  <2>2. Takes(a)
    <3>1. a \notin Threads /\ packets \in [Sockets -> Nat]
      BY Names DEF TypeOK
    <3>2. /\ \A s \in Sockets : packets'[s] >= packets[s]
          /\ UNCHANGED <<rivals, panicked>>
      BY <1>6, <3>1 DEF Acquire, Push, sockets, history
    <3> QED
      BY <3>1, <3>2 DEF Takes
  <2> QED
    BY <1>6, <2>1, <2>2, AdapterLockMoves, Names DEF Moves
<1>7. ASSUME NEW t \in Actors, SpinPanic(t) PROVE Rests
  BY <1>7 DEF SpinPanic, Rests, sockets
<1>8. ASSUME NEW f, Arrive(f) PROVE Rests
  BY <1>8 DEF Arrive, Rests, sockets, history
<1>9. ASSUME NEW x, Answer(x) \/ Lose(x) PROVE Rests
  BY <1>9 DEF Answer, Lose, Rests, sockets, history
<1> QED
  BY <1>1, <1>2, <1>3, <1>4, <1>5, <1>6, <1>7, <1>8, <1>9, Names DEF Next

-----------------------------------------------------------------------------
(* Places, locks and answers *)

LEMMA PlacesStep ==
  ASSUME TypeOK, ThreadInv, AdapterInv, [Next]_vars
  PROVE  ThreadInv' /\ AdapterInv'
<1>1. CASE Rests
  BY <1>1 DEF Rests, ThreadInv, AdapterInv, ThreadOK, AdapterOK, Doing
<1>2. ASSUME NEW t \in Actors, Moves(t) PROVE ThreadInv' /\ AdapterInv'
  <2>1. ASSUME NEW u \in Threads PROVE ThreadOK(u)'
    BY <1>2, Names, Kept DEF Moves, OthersKeep, ThreadInv
  <2>2. ASSUME NEW a \in Adapters PROVE AdapterOK(a)'
    BY <1>2, Names, Kept DEF Moves, OthersKeep, AdapterInv
  <2> QED
    BY <2>1, <2>2 DEF ThreadInv, AdapterInv
<1> QED
  BY <1>1, <1>2, StepMoves

\* Nobody is inside while the lock is free, or while another holds it.
LEMMA ExclusionStep ==
  ASSUME TypeOK, ThreadInv, AdapterInv, Exclusion, [Next]_vars
  PROVE  Exclusion'
<1>1. CASE Rests
  BY <1>1 DEF Rests, Exclusion, Inside
<1>2. ASSUME NEW t \in Actors, Moves(t), NEW s \in Sockets, NEW u \in Actors,
             s \notin stolen', Inside(u, s)'
      PROVE  lock'[s] = u
  <2>1. u # t => Inside(u, s)
    BY <1>2, Kept DEF Moves, OthersKeep
  <2>2. u \in Actors /\ u # None /\ t # None
    BY Names
  <2>3. CASE UNCHANGED <<lock, stolen>> /\ \A k \in Sockets : Inside(t, k)' => Inside(t, k)
    BY <1>2, <2>1, <2>3 DEF Exclusion
  <2>4. CASE /\ job[t].sock \in Sockets /\ Release(t, job[t].sock)
             /\ \A k \in Sockets : ~ Inside(t, k)'
    <3>1. u # t /\ Inside(u, s)
      BY <1>2, <2>1, <2>4
    <3>2. stolen \subseteq stolen'
      BY <2>4 DEF Release
    <3>3. lock[s] = u
      BY <1>2, <3>1, <3>2 DEF Exclusion
    <3>4. s # job[t].sock
      BY <1>2, <2>2, <2>4, <3>1, <3>3 DEF Release
    <3> QED
      BY <2>4, <3>3, <3>4 DEF Release, TypeOK
  <2>5. CASE Acquire(t)
    <3>1. /\ lock[job[t].sock] = None /\ lock' = [lock EXCEPT ![job[t].sock] = t]
          /\ stolen' = stolen /\ job' = job /\ pc[t] = "lock"
      BY <2>5 DEF Acquire, history
    <3>2. CASE u = t
      <4>1. job[t].sock = s
        BY <1>2, <3>1, <3>2 DEF Inside
      <4> QED
        BY <3>1, <3>2, <4>1 DEF TypeOK
    <3>3. CASE u # t
      <4>1. lock[s] = u
        BY <1>2, <2>1, <3>1, <3>3 DEF Exclusion
      <4>2. s # job[t].sock
        BY <2>2, <3>1, <4>1
      <4> QED
        BY <3>1, <4>1, <4>2 DEF TypeOK
    <3> QED
      BY <3>2, <3>3
  <2> QED
    BY <1>2, <2>3, <2>4, <2>5 DEF Moves, Locks
<1> QED
  BY <1>1, <1>2, StepMoves DEF Exclusion

LEMMA AskVainStep ==
  ASSUME TypeOK, ThreadInv, AdapterInv, AskVain, [Next]_vars
  PROVE  AskVain'
<1>1. CASE Rests
  BY <1>1 DEF Rests, AskVain
<1>2. ASSUME NEW t \in Actors, Moves(t), NEW a \in Adapters, pc'[a] = "ask"
      PROVE  job'[a].target \notin arp'[a]
  <2>1. CASE a = t
    BY <1>2, <2>1 DEF Moves
  <2>2. CASE a # t
    <3>1. Keeps(a) /\ arp'[a] = arp[a]
      BY <1>2, <2>2, Names DEF Moves, OthersKeep
    <3> QED
      BY <1>2, <3>1 DEF Keeps, AskVain
  <2> QED
    BY <2>1, <2>2
<1> QED
  BY <1>1, <1>2, StepMoves DEF AskVain

-----------------------------------------------------------------------------
(* Receiving *)

LEMMA ReceiveStep ==
  ASSUME TypeOK, ThreadInv, AdapterInv, ReceiveInv, [Next]_vars
  PROVE  ReceiveInv'
<1>1. CASE Rests
  BY <1>1 DEF Rests, ReceiveInv, EmptyTake, On, Doing
<1>2. ASSUME NEW t \in Actors, Moves(t) PROVE ReceiveInv'
  <2>0. OthersKeep(t) /\ Takes(t) /\ (t \in Threads => Goes(t) \/ Starts(t))
    BY <1>2 DEF Moves
  <2>1. ASSUME NEW u \in Threads, u # t
        PROVE  /\ job'[u] = job[u] /\ \A s \in Sockets : On(u, s)' <=> On(u, s)
               /\ Doing(u)' = "take" => Doing(u) = "take"
    BY <2>0, <2>1, Kept, Names DEF OthersKeep, Keeps
  <2>2. ASSUME NEW s \in Sockets, t \in Threads, On(t, s)', ~ Starts(t)
        PROVE  On(t, s) /\ job'[t].op = job[t].op
    BY <2>0, <2>2 DEF Goes, On
  <2>3. ASSUME NEW s \in Sockets, t \in Threads, On(t, s)', Starts(t), Receives(job'[t].op),
               NEW u \in Threads, On(u, s), Receives(job[u].op)
        PROVE  s \in rivals'
    BY <2>3 DEF Starts, On
  <2>4. rivals \subseteq rivals'
    BY <2>0 DEF Takes
  <2>5. ASSUME NEW u \in Threads, NEW v \in Threads, NEW s \in Sockets, On(u, s)', On(v, s)',
               Receives(job'[u].op), Receives(job'[v].op), u # v
        PROVE  s \in rivals'
    <3>1. CASE u # t /\ v # t
      BY <2>1, <2>4, <2>5, <3>1 DEF ReceiveInv
    <3>2. CASE u = t /\ v # t
      BY <2>1, <2>2, <2>3, <2>4, <2>5, <3>2 DEF ReceiveInv
    <3>3. CASE u # t /\ v = t
      BY <2>1, <2>2, <2>3, <2>4, <2>5, <3>3 DEF ReceiveInv
    <3> QED
      BY <2>5, <3>1, <3>2, <3>3
  <2>6. ASSUME NEW u \in Threads, NEW s \in Sockets, On(u, s)', Doing(u)' = "take"
        PROVE  packets'[s] > 0 \/ s \in rivals'
    <3>1. \/ packets'[s] > 0
          \/ /\ On(u, s) /\ Doing(u) = "take"
             /\ u = t => pc'[t] # "idle"
      <4>1. CASE u # t
        BY <2>1, <2>6, <4>1
      <4>2. CASE u = t
        BY <2>0, <2>6, <4>2 DEF Takes, On, Doing
      <4> QED
        BY <4>1, <4>2
    <3>2. CASE On(u, s) /\ Doing(u) = "take" /\ (u = t => pc'[t] # "idle")
      <4>1. packets[s] > 0 \/ s \in rivals
        BY <3>2 DEF ReceiveInv
      <4>2. Receives(job[u].op)
        BY <3>2 DEF ThreadInv, ThreadOK
      <4>3. CASE packets'[s] >= packets[s]
        <5>1. packets[s] \in Nat /\ packets'[s] \in Nat
          BY TypeStep DEF TypeOK
        <5> QED
          BY <2>4, <4>1, <4>3, <5>1
      <4>4. CASE t \in Threads /\ On(t, s) /\ Receives(job[t].op) /\ pc'[t] = "idle"
        BY <2>4, <3>2, <4>2, <4>4 DEF ReceiveInv
      <4> QED
        BY <2>0, <4>3, <4>4 DEF Takes
    <3> QED
      BY <3>1, <3>2
  <2>7. EmptyTake'
    <3>1. ASSUME t \in Threads, NEW s \in Sockets, On(t, s), Doing(t) = "take", packets[s] = 0
          PROVE  s \in rivals
      BY <3>1 DEF ReceiveInv
    <3> QED
      BY <2>0, <2>4, <3>1 DEF ReceiveInv, EmptyTake, Takes
  <2> QED
    BY <2>5, <2>6, <2>7 DEF ReceiveInv
<1> QED
  BY <1>1, <1>2, StepMoves

-----------------------------------------------------------------------------
(* Ports *)

\* Two bits have the same port only if one lies behind that of the last port.
LEMMA PortOfOnce ==
  ASSUME NEW b \in Nat, NEW c \in Nat, PortOf(b) = PortOf(c), b < PortSpace, c < PortSpace
  PROVE  b = c
<1>0. PortSpace \in Nat \ {0} /\ RangeStart \in Nat /\ RangeStart < PortSpace
  BY Sizes
<1>1. ASSUME NEW x \in Nat, x < 2 * PortSpace
      PROVE  x % PortSpace = IF x < PortSpace THEN x ELSE x - PortSpace
  <2>1. x = PortSpace * (x \div PortSpace) + (x % PortSpace)
    BY <1>0
  <2>2. x % PortSpace \in 0 .. PortSpace - 1 /\ x \div PortSpace \in Int
    BY <1>0
  <2>3. x \div PortSpace \in {0, 1}
    BY <1>0, <1>1, <2>1, <2>2
  <2> QED
    BY <1>0, <1>1, <2>1, <2>2, <2>3
<1>2. b + RangeStart < 2 * PortSpace /\ c + RangeStart < 2 * PortSpace
  BY <1>0
<1>3. b + RangeStart \in Nat /\ c + RangeStart \in Nat
  BY <1>0
<1> QED
  BY <1>0, <1>1, <1>2, <1>3 DEF PortOf

\* Calls that leave ports alone.
LEMMA PortsKept ==
  ASSUME PortInv, UNCHANGED <<portbitmap, cleared>>,
         \A s \in Sockets : sock'[s].port = sock[s].port /\ sock'[s].auto = sock[s].auto
  PROVE  PortInv'
<1>1. \A s \in Sockets : Given(s)' <=> Given(s)
  BY DEF Given
<1>2. \A p : Freed(p)' <=> Freed(p)
  BY DEF Freed
<1>3. Spent' <=> Spent
  BY DEF Spent
<1> QED
  BY <1>1, <1>2, <1>3 DEF PortInv

\* A socket whose port changes: to one that its owner chose, to none, or to one of
\* net_allocport.
LEMMA PortsGiven ==
  ASSUME TypeOK, PortInv, NEW s \in Sockets, cleared' = cleared,
         \A u \in Sockets : u # s => sock'[u] = sock[u],
         portbitmap' \in {portbitmap, PortTaken},
         Given(s)' => sock'[s].port = AllocPort /\ portbitmap' = PortTaken
  PROVE  PortInv'
<1>1. portbitmap \subseteq portbitmap' /\ portbitmap' \subseteq Nat /\ portbitmap \subseteq Nat
  BY AllocBit, Sizes DEF TypeOK
<1>2. \A u \in Sockets : u # s => (Given(u)' <=> Given(u))
  BY DEF Given
<1>3. \A p : Freed(p) => Freed(p)'
  BY DEF Freed
<1>4. Spent => Spent'
  BY <1>1 DEF Spent
<1>5. ASSUME Given(s)'
      PROVE  \E b \in portbitmap' : b \notin portbitmap /\ PortOf(b) = sock'[s].port
  <2>1. sock'[s].port = AllocPort /\ portbitmap' = PortTaken /\ AllocPort # 0
    BY <1>5 DEF Given
  <2> QED
    BY <2>1, AllocBit
<1>6. ASSUME NEW u \in Sockets, Given(u)'
      PROVE  (\E b \in portbitmap' : PortOf(b) = sock'[u].port) \/ Freed(sock[u].port)'
  <2>1. CASE u = s
    BY <1>5, <1>6, <2>1
  <2>2. CASE u # s
    BY <1>1, <1>2, <1>3, <1>6, <2>2 DEF PortInv
  <2> QED
    BY <2>1, <2>2
<1>7. ASSUME NEW u \in Sockets, u # s, Given(u)', Given(s)', sock'[s].port = sock'[u].port
      PROVE  Spent' \/ Freed(sock[u].port)'
  <2>1. PICK b \in portbitmap' : b \notin portbitmap /\ PortOf(b) = sock'[s].port
    BY <1>5, <1>7
  <2>2. Given(u) /\ sock'[u] = sock[u]
    BY <1>2, <1>7
  <2>3. CASE Freed(sock[u].port)
    BY <1>3, <2>2, <2>3
  <2>4. CASE \E c \in portbitmap : PortOf(c) = sock[u].port
    <3>1. PICK c \in portbitmap : PortOf(c) = sock[u].port
      BY <2>4
    <3>2. b # c /\ PortOf(b) = PortOf(c) /\ b \in Nat /\ c \in Nat /\ c \in portbitmap'
      BY <1>1, <1>7, <2>1, <2>2, <3>1
    <3>3. b >= PortSpace \/ c >= PortSpace
      BY <3>2, PortOfOnce, Sizes
    <3> QED
      BY <3>2, <3>3 DEF Spent
  <2> QED
    BY <2>2, <2>3, <2>4 DEF PortInv
<1>8. ASSUME NEW u \in Sockets, NEW v \in Sockets, u # v, Given(u)', Given(v)',
             sock'[u].port = sock'[v].port
      PROVE  Spent' \/ Freed(sock[u].port)'
  <2>1. CASE u # s /\ v # s
    BY <1>2, <1>3, <1>4, <1>8, <2>1 DEF PortInv
  <2>2. CASE u = s \/ v = s
    BY <1>7, <1>8, <2>2
  <2> QED
    BY <2>1, <2>2
<1> QED
  BY <1>6, <1>8 DEF PortInv

\* net_releaseport, whatever has become of the byte: what goes is in cleared.
LEMMA PortsReleased ==
  ASSUME PortInv, UNCHANGED sock, cleared' = cleared \cup (portbitmap \ portbitmap')
  PROVE  PortInv'
<1>1. \A u \in Sockets : Given(u)' <=> Given(u)
  BY DEF Given
<1>2. \A p : Freed(p) => Freed(p)'
  BY DEF Freed
<1>3. portbitmap \cup cleared \subseteq portbitmap' \cup cleared'
  OBVIOUS
<1>4. Spent => Spent'
  BY <1>3 DEF Spent
<1>5. ASSUME NEW p, NEW b \in portbitmap, PortOf(b) = p
      PROVE  (\E c \in portbitmap' : PortOf(c) = p) \/ Freed(p)'
  BY <1>5 DEF Freed
<1> QED
  BY <1>1, <1>2, <1>4, <1>5 DEF PortInv

LEMMA PortStep ==
  ASSUME TypeOK, ThreadInv, AdapterInv, PortInv, [Next]_vars
  PROVE  PortInv'
<1>0. sock \in [Sockets -> SocketRecords]
  BY DEF TypeOK
<1>1. CASE UNCHANGED <<sock, portbitmap, cleared>>
  BY <1>1, PortsKept
<1>2. ASSUME NEW t \in Threads, Bind(t) PROVE PortInv'
  <2> DEFINE j == job[t]
             s == j.sock
             p == IF j.port = 0 THEN AllocPort ELSE j.port
             a == IF j.dest = AnyAddr \/ p = 0 THEN None ELSE AdapterOf(j.dest)
             x == [sock[s] EXCEPT !.state = IF p = 0 THEN @ ELSE "bound", !.local = j.dest,
                                  !.adapter = a, !.port = p, !.auto = (j.port = 0)]
  <2>1. cleared' = cleared /\ pc[t] = "bind"
    BY <1>2 DEF Bind, history
  <2>2. s \in Sockets
    BY <2>1, CallSocket DEF Doing
  <2>3. sock[s] \in SocketRecords
    BY <1>0, <2>2
  <2>4. CASE UNCHANGED <<sock, portbitmap>>
    BY <1>1, <2>1, <2>4
  <2>5. CASE /\ sock' = [sock EXCEPT ![s] = x]
             /\ portbitmap' = IF j.port = 0 THEN PortTaken ELSE portbitmap
    <3>1. j.port = 0 => p = AllocPort
      OBVIOUS
    <3> HIDE DEF j, p, a
    <3>2. x.port = p /\ x.auto = (j.port = 0)
      BY <2>3 DEF SocketRecords
    <3> HIDE DEF x
    <3>3. PICK k \in Sockets : k = s
      BY <2>2
    <3> HIDE DEF s
    <3>4. sock'[k] = x /\ \A u \in Sockets : u # k => sock'[u] = sock[u]
      BY <1>0, <2>5, <3>3
    <3>5. portbitmap' \in {portbitmap, PortTaken}
      BY <2>5
    <3>6. Given(k)' => sock'[k].port = AllocPort /\ portbitmap' = PortTaken
      BY <2>5, <3>1, <3>2, <3>4 DEF Given
    <3> QED
      BY <2>1, <3>4, <3>5, <3>6, PortsGiven
  <2> QED
    BY <1>2, <2>4, <2>5 DEF Bind
<1>3. ASSUME NEW t \in Threads, SetSockOpt(t) \/ Connect(t) \/ Unbind(t) PROVE PortInv'
  <2>1. job[t].sock \in Sockets /\ UNCHANGED <<portbitmap, cleared>>
    BY <1>3, CallSocket DEF SetSockOpt, Connect, Unbind, Doing, history
  <2>2. \A u \in Sockets : sock'[u].port = sock[u].port /\ sock'[u].auto = sock[u].auto
    BY <1>0, <1>3, <2>1 DEF SetSockOpt, Connect, Unbind, SocketRecords
  <2> QED
    BY <2>1, <2>2, PortsKept
<1>4. ASSUME NEW t \in Threads, WriteByte(t) PROVE PortInv'
  BY <1>4, PortsReleased DEF WriteByte
<1>5. ASSUME NEW t \in Threads, Prepare(t) PROVE PortInv'
  <2> DEFINE s == job[t].sock
  <2>1. s \in Sockets /\ cleared' = cleared
    BY <1>5, CallSocket DEF Prepare, Doing
  <2>2. CASE UNCHANGED <<sock, portbitmap>>
    BY <1>1, <2>1, <2>2
  <2>3. CASE /\ sock[s].port = 0
             /\ sock' = [sock EXCEPT ![s].port = AllocPort, ![s].auto = TRUE]
             /\ portbitmap' = PortTaken
    <3>1. /\ \A u \in Sockets : u # s => sock'[u] = sock[u]
          /\ sock'[s].port = AllocPort
      BY <1>0, <2>1, <2>3 DEF SocketRecords
    <3>2. PICK k \in Sockets : k = s
      BY <2>1
    <3> HIDE DEF s
    <3> QED
      BY <2>1, <2>3, <3>1, <3>2, PortsGiven
  <2> QED
    BY <1>5, <2>2, <2>3 DEF Prepare
<1>6. ASSUME NEW t \in Threads, Work(t), ~ Bind(t), ~ SetSockOpt(t), ~ Connect(t), ~ Unbind(t),
             ~ WriteByte(t), ~ Prepare(t)
      PROVE  UNCHANGED <<sock, portbitmap, cleared>>
  BY <1>6 DEF Work, Acquire, Close, ReadByte, Look, ReleaseAgain, Await, Woken, TakePacket,
              sockets, history
<1>7. ASSUME NEW t \in Actors, Sending(t) PROVE UNCHANGED <<sock, portbitmap, cleared>>
  BY <1>7 DEF Sending, Route, Answered, TimedOut, sockets
<1>8. ASSUME NEW t \in Threads, Call(t) PROVE UNCHANGED <<sock, portbitmap, cleared>>
  BY <1>8 DEF Call, Refuse, Begin, Configure, UpdateFlags, AddRoute, sockets, history
<1>9. ASSUME NEW a \in Adapters, Handle(a) \/ Acquire(a) \/ Push(a)
      PROVE  UNCHANGED <<sock, portbitmap, cleared>>
  BY <1>9 DEF Handle, Acquire, Push, sockets, history
<1>10. CASE \/ UNCHANGED vars
            \/ \E t \in Actors : SpinPanic(t)
            \/ \E f \in inbound : Arrive(f)
            \/ \E x \in asked : Answer(x) \/ Lose(x)
  <2>1. UNCHANGED <<sock, portbitmap, cleared>>
    BY <1>10 DEF vars, SpinPanic, Arrive, Answer, Lose, sockets, history
  <2> QED
    BY <1>1, <2>1
<1> QED
  BY <1>1, <1>2, <1>3, <1>4, <1>5, <1>6, <1>7, <1>8, <1>9, <1>10, Names DEF Next

-----------------------------------------------------------------------------
(* Theorems *)

LEMMA InitInv == Init => IInv
<1> SUFFICES ASSUME Init PROVE IInv
  OBVIOUS
<1>1. TypeOK
  BY InitType
<1>2. \A t \in Actors : pc[t] = "idle" /\ job[t] = Idle
  BY DEF Init
<1>3. ThreadInv /\ AdapterInv
  BY <1>2, Names DEF ThreadInv, ThreadOK, AdapterInv, AdapterOK, Doing, Idle, SocketOps
<1>4. ReceiveInv /\ Exclusion /\ AskVain
  BY <1>2, Names DEF ReceiveInv, On, Exclusion, Inside, AskVain, EmptyTake, Init
<1>5. PortInv
  BY DEF Init, PortInv, Given, NewSocket
<1> QED
  BY <1>1, <1>3, <1>4, <1>5 DEF IInv

\* The inductive invariant of the network stack.
THEOREM Inductive == Spec => []IInv
<1>1. IInv /\ [Next]_vars => IInv'
  BY TypeStep, PlacesStep, ReceiveStep, PortStep, ExclusionStep, AskVainStep DEF IInv
<1> QED
  BY <1>1, InitInv, PTL DEF Spec

\* Every variable keeps its type.
THEOREM TypeCorrect == Spec => []TypeOK
<1>1. IInv => TypeOK
  BY DEF IInv
<1> QED
  BY <1>1, Inductive, PTL

\* Whoever works on a socket between spinlock_acquire and spinlock_release holds its
\* lock, unless a non-blocking receive on an empty queue has released it for another.
THEOREM LockExclusive == Spec => []Exclusion
<1>1. IInv => Exclusion
  BY DEF IInv
<1> QED
  BY <1>1, Inductive, PTL

\* udp_recvmsg and udp_read, which look at the queue without the lock after they have
\* slept, take from an empty queue only when two of them are at it.
THEOREM TakesPacket == Spec => []EmptyTake
<1>1. IInv => EmptyTake
  BY DEF IInv, ReceiveInv
<1> QED
  BY <1>1, Inductive, PTL

\* net_ifhandler never sees the answer that it sleeps for in net_lookup.
THEOREM AsksInVain == Spec => []AskVain
<1>1. IInv => AskVain
  BY DEF IInv
<1> QED
  BY <1>1, Inductive, PTL

\* net_allocport gives one port to two sockets only after net_releaseport has taken its
\* bit out, whatever calls a close comes into, or after the ports have run out.
THEOREM PortsApart == Spec => []PortsDistinct
<1>1. IInv => PortsDistinct
  BY DEF IInv, PortInv, PortsDistinct, Given, Spent, Freed, PortOf
<1> QED
  BY <1>1, Inductive, PTL

=============================================================================
