-------------------------------- MODULE Net ---------------------------------
(***************************************************************************)
(* The network stack below TCP: dev/net/net.c (routes, address resolution, *)
(* ICMP, the interface threads), dev/net/loopback.c and the UDP sockets of *)
(* ipc/socket/udp.c, on a machine with the loopback interface and one      *)
(* Ethernet card.                                                          *)
(*                                                                         *)
(* A frame is what its headers say; payloads, checksums and fragments are  *)
(* left out.  Frames that leave by the card are gone, except the questions *)
(* of ARP, which other hosts may answer.  The interface thread waits for   *)
(* its event only while its queue is empty (module Event: no wakeup is     *)
(* lost), so that here it simply waits for a frame.                        *)
(***************************************************************************)
EXTENDS Integers, Sequences, FiniteSets, FiniteSetsExt, SequencesExt

CONSTANTS
  Threads, Sockets,
  AnyAddr, Broadcast, Loopback,
  Prefix,       \* the network of an address, by the mask of the interfaces
  Hosts,        \* addresses on the wire that answer ARP
  PortSpace,    \* number of ports (2^16)
  RangeStart,   \* NET_PORTRANGESTART
  PortBits,     \* bits of net_portbitmap
  ByteBits,     \* bits that are read and written together (8)
  Scripts,      \* bound: the calls that threads make, and the frames that other hosts
                \* send, in one behaviour: [calls, inbound]
  None

Adapters == {"lo", "eth"}
Actors == Threads \cup Adapters
Addrs == DOMAIN Prefix
Ports == 0 .. PortSpace - 1

\* The calls on a socket, and the ioctls on the card.
SocketOps == {"bind", "todevice", "broadcast", "connect", "sendmsg", "recvmsg", "read",
              "close", "write"}
CardOps == {"setaddr", "setmask", "down", "addroute"}
Hows == {"none", "block", "nonblock", "dontwait"}
Requests ==
  {r \in [op : SocketOps \cup CardOps, sock : Sockets \cup {None}, addr : Addrs \cup {None},
           port : Ports, how : Hows] :
     /\ r.op \in SocketOps => r.sock \in Sockets
     /\ r.op \in {"bind", "setaddr", "addroute"} => r.addr \in Addrs}
Frames == [type : {"request", "reply", "udp", "icmp", "echo", "other"}, src : Addrs,
           dst : Addrs, port : Ports]

ASSUME PortsAssumption ==
  /\ {PortSpace, PortBits, ByteBits} \subseteq Nat \ {0}
  /\ RangeStart \in 0 .. PortSpace - 1
  /\ PortSpace <= PortBits

ASSUME NamesAssumption ==
  /\ Threads \cap Adapters = {}
  /\ None \notin Actors \cup Sockets \cup Addrs
  /\ {AnyAddr, Broadcast, Loopback} \cup Hosts \subseteq Addrs

ASSUME ScriptsAssumption ==
  Scripts \subseteq [calls : [Threads -> Seq(Requests)], inbound : SUBSET Frames]

VARIABLES
  ip, mask, gateway,   \* of the interfaces; a mask is set or zero
  cache,               \* frames received and not yet taken by the interface thread
  arp,                 \* addresses in addrcache
  asked,               \* questions of ARP on the wire
  portbitmap,
  registered,          \* udp_sockets
  sock,                \* [state, peer, local, adapter, port, auto, broadcast]
  packets,             \* datagrams queued on a socket
  pending,             \* the event of a socket has been triggered for nobody
  lock,                \* holder of the lock of a socket
  pc, job,             \* of the threads and of the interface threads
  todo, inbound,       \* calls and frames still to come
  shut,                \* sockets whose descriptor is closed, or about to be
  leaked,              \* history: sockets whose holder never releases the lock
  stolen,              \* history: sockets whose lock was released by another
  rivals,              \* history: sockets with two receives at a time
  cleared,             \* history: bits that net_releaseport has taken out
  panicked             \* "no", or the reason

config == <<ip, mask, gateway>>
sockets == <<portbitmap, registered, sock, packets, pending>>
history == <<shut, leaked, stolen, rivals, cleared, panicked>>
vars == <<config, cache, arp, asked, sockets, lock, pc, job, todo, inbound, history>>

NewSocket == [state |-> "created", peer |-> None, local |-> AnyAddr, adapter |-> None,
              port |-> 0, auto |-> FALSE, broadcast |-> FALSE]
Idle == [op |-> "none", sock |-> None, dest |-> None, port |-> 0, how |-> "none",
         stage |-> "none", type |-> "none", adapter |-> None, local |-> AnyAddr,
         target |-> None, saved |-> {}]

Init ==
  /\ ip = [a \in Adapters |-> IF a = "lo" THEN Loopback ELSE AnyAddr]
  /\ mask = [a \in Adapters |-> a = "lo"]
  /\ gateway = [a \in Adapters |-> AnyAddr]
  /\ cache = [a \in Adapters |-> <<>>]
  /\ arp = [a \in Adapters |-> {}]
  /\ asked = {}
  /\ portbitmap = {}
  /\ registered = <<>>
  /\ sock = [s \in Sockets |-> NewSocket]
  /\ packets = [s \in Sockets |-> 0]
  /\ pending = [s \in Sockets |-> FALSE]
  /\ lock = [s \in Sockets |-> None]
  /\ pc = [t \in Actors |-> "idle"]
  /\ job = [t \in Actors |-> Idle]
  /\ \E script \in Scripts : todo = script.calls /\ inbound = script.inbound
  /\ shut = {} /\ leaked = {} /\ stolen = {} /\ rivals = {} /\ cleared = {}
  /\ panicked = "no"

----------------------------------------------------------------------------
(* Interfaces, routes and ports. *)

\* net_findadapterbyip: the loopback interface was registered first.
Own(x) == \E a \in Adapters : ip[a] = x
AdapterOf(x) == IF ip["lo"] = x THEN "lo" ELSE "eth"

\* A zero mask makes every address local.
Local(a, x) == mask[a] => Prefix[x] = Prefix[ip[a]]

\* net_route, with an interface (of a bound socket, or of a reply) and without: then
\* the last interface of the destination's network, or else the last with a gateway.
RouteVia(a, local, x) ==
  IF local \notin {AnyAddr, ip[a]} THEN None
  ELSE [adapter |-> a, target |-> IF Local(a, x) THEN x ELSE gateway[a]]
RouteAny(x) ==
  LET last(as) == IF "eth" \in as THEN "eth" ELSE "lo"
      locals == {a \in Adapters : Local(a, x)}
      routers == {a \in Adapters : gateway[a] # AnyAddr}
  IN CASE locals # {}  -> [adapter |-> last(locals), target |-> x]
       [] locals = {} /\ routers # {} ->
            [adapter |-> last(routers), target |-> gateway[last(routers)]]
       [] OTHER -> None

\* Mutant of Known: the cache is not consulted before asking.
KnownOwn(a, x) == Own(x)

\* The answers net_lookup has without asking: net_grabcache.
Known(a, x) == Own(x) \/ x \in arp[a]

Frame(type, src, dst, port) == [type |-> type, src |-> src, dst |-> dst, port |-> port]

\* txpacket: loopback_transmitpacket queues the frame on the interface itself.
Transmitted(c, a, f) == IF a = "lo" THEN [c EXCEPT !["lo"] = Append(@, f)] ELSE c

\* net_allocport: the number of the lowest clear bit, in sixteen bits, and 0 when
\* there is none.
FreeBits == (0 .. PortBits - 1) \ portbitmap
AllocPort == IF FreeBits = {} THEN 0 ELSE (Min(FreeBits) + RangeStart) % PortSpace

\* Mutant of PortTaken: the bit is not set.
PortTakenNot == portbitmap
PortTaken == portbitmap \cup (IF FreeBits = {} THEN {} ELSE {Min(FreeBits)})

\* net_releaseport clears the bit whose number is the port.  It takes no lock: it
\* reads a byte and writes it back without the bit.  What others have done to the byte
\* in between is undone; or, as net_allocport reads and writes it too, the release is;
\* or neither.
Byte(p) == {b \in 0 .. PortBits - 1 : b \div ByteBits = p \div ByteBits}
PortReleased(p, saved) ==
  {(portbitmap \ Byte(p)) \cup (saved \ {p})} \cup
  (IF portbitmap \cap Byte(p) = saved THEN {} ELSE {portbitmap, portbitmap \ {p}})

----------------------------------------------------------------------------
(* Sockets: locks, events, calls that do not send. *)

\* spinlock_acquire; the stage of the job is what the caller does with the lock.
Acquire(t) ==
  /\ pc[t] = "lock"
  /\ lock[job[t].sock] = None
  /\ lock' = [lock EXCEPT ![job[t].sock] = t]
  /\ pc' = [pc EXCEPT ![t] = job[t].stage]
  /\ UNCHANGED <<config, cache, arp, asked, sockets, job, todo, inbound, history>>

\* spinlock_acquire gives up on a lock that stays taken: its holder is gone, or sleeps
\* in net_lookup.
SpinPanic(t) ==
  /\ pc[t] = "lock"
  /\ LET s == job[t].sock
     IN lock[s] # None /\ (s \in leaked \/ pc[lock[s]] = "ask")
  /\ panicked' = "spin"
  /\ UNCHANGED <<config, cache, arp, asked, sockets, lock, pc, job, todo, inbound,
                 shut, leaked, stolen, rivals, cleared>>

\* spinlock_release stores zero, whoever holds the lock.
Release(t, s) ==
  /\ lock' = [lock EXCEPT ![s] = None]
  /\ stolen' = IF lock[s] \in {t, None} THEN stolen ELSE stolen \cup {s}

Return(t) ==
  /\ pc' = [pc EXCEPT ![t] = "idle"]
  /\ job' = [job EXCEPT ![t] = Idle]

\* event_trigger: every waiter wakes, or the next one will not wait.
Waiters(s) == {t \in Threads : pc[t] = "await" /\ job[t].sock = s}

\* The calls that return an error at once: the descriptor is closed (or fdnum_close has
\* the lock of the table), the socket is not in its first state, nobody is connected.
Now(t) == Head(todo[t])
Refuses(r) ==
  r.sock # None /\
    \/ r.sock \in shut
    \/ /\ r.op \in {"bind", "connect", "todevice", "broadcast"}
       /\ sock[r.sock].state # "created"
    \/ r.op = "write" /\ sock[r.sock].state # "connected"

Called(t) == pc[t] = "idle" /\ todo[t] # <<>> /\ todo' = [todo EXCEPT ![t] = Tail(@)]
Refuse(t) ==
  /\ Called(t)
  /\ Refuses(Now(t))
  /\ UNCHANGED <<config, cache, arp, asked, sockets, lock, pc, job, inbound, history>>

Made(t, ops) == Called(t) /\ Now(t).op \in ops /\ ~Refuses(Now(t))

\* A call on a socket has found the description and goes on with it, whatever happens
\* to the descriptor: udp_connect, udp_sendmsg, udp_recvmsg, udp_read, and udp_unref of a
\* socket with an interface, begin with the lock, the others do without.
Job(r) ==
  [op |-> r.op, sock |-> r.sock, dest |-> r.addr, port |-> r.port, how |-> r.how,
   stage |-> IF r.op = "close" THEN "unbind" ELSE r.op,
   type |-> "udp", adapter |-> None, local |-> AnyAddr, target |-> None, saved |-> {}]
FirstStep(r) ==
  CASE r.op \in {"bind", "todevice", "broadcast"} -> r.op
    [] r.op = "write" -> "sendmsg"
    [] r.op = "close" /\ sock[r.sock].adapter = None -> "close"
    [] OTHER -> "lock"
Receives(op) == op \in {"recvmsg", "read"}
Begin(t) ==
  /\ Made(t, SocketOps)
  /\ LET r == Now(t)
         others == {u \in Threads : pc[u] # "idle" /\ job[u].sock = r.sock}
     IN /\ pc' = [pc EXCEPT ![t] = FirstStep(r)]
        /\ job' = [job EXCEPT ![t] = Job(r)]
        /\ shut' = IF r.op = "close" THEN shut \cup {r.sock} ELSE shut
        /\ rivals' = IF Receives(r.op) /\ (\E u \in others : Receives(job[u].op))
                     THEN rivals \cup {r.sock} ELSE rivals
  /\ UNCHANGED <<config, cache, arp, asked, sockets, lock, inbound, leaked, stolen, cleared,
                 panicked>>

\* udp_acquireport
Registered(s, p) == IF p = 0 THEN registered ELSE Append(registered, s)

\* udp_bind: an address that is ours.  A socket that has sent is registered a second
\* time.
Bind(t) ==
  /\ pc[t] = "bind"
  /\ LET j == job[t]
         s == j.sock
         p == IF j.port = 0 THEN AllocPort ELSE j.port
         a == IF j.dest = AnyAddr \/ p = 0 THEN None ELSE AdapterOf(j.dest)
         x == [sock[s] EXCEPT !.state = IF p = 0 THEN @ ELSE "bound", !.local = j.dest,
                              !.adapter = a, !.port = p, !.auto = (j.port = 0)]
     IN IF j.dest = AnyAddr \/ Own(j.dest)
        THEN /\ sock' = [sock EXCEPT ![s] = x]
             /\ registered' = Registered(s, p)
             /\ portbitmap' = IF j.port = 0 THEN PortTaken ELSE portbitmap
        ELSE UNCHANGED <<sock, registered, portbitmap>>
  /\ Return(t)
  /\ UNCHANGED <<config, cache, arp, asked, packets, pending, lock, todo, inbound, history>>

\* setsockopt: SO_BINDTODEVICE and SO_BROADCAST.
SetSockOpt(t) ==
  /\ pc[t] \in {"todevice", "broadcast"}
  /\ sock' = IF pc[t] = "todevice" THEN [sock EXCEPT ![job[t].sock].adapter = "eth"]
             ELSE [sock EXCEPT ![job[t].sock].broadcast = TRUE]
  /\ Return(t)
  /\ UNCHANGED <<config, cache, arp, asked, portbitmap, registered, packets, pending, lock,
                 todo, inbound, history>>

\* event_trigger, with the waiters it wakes.
Triggered(s, move) ==
  /\ pending' = IF Waiters(s) = {} THEN [pending EXCEPT ![s] = TRUE] ELSE pending
  /\ pc' = [u \in Actors |-> CASE u \in Waiters(s) -> "woken"
                               [] u \in DOMAIN move -> move[u]
                               [] OTHER -> pc[u]]

\* udp_connect triggers the event although nothing has arrived.
Connect(t) ==
  /\ pc[t] = "connect"
  /\ LET s == job[t].sock
     IN /\ sock' = [sock EXCEPT ![s].peer = job[t].dest, ![s].state = "connected"]
        /\ Release(t, s)
        /\ Triggered(s, [u \in {t} |-> "idle"])
  /\ job' = [job EXCEPT ![t] = Idle]
  /\ UNCHANGED <<config, cache, arp, asked, portbitmap, registered, packets, todo, inbound,
                 shut, leaked, rivals, cleared, panicked>>

\* VECTOR_REMOVE_BY_VALUE drops one registration.
Unregistered(s) ==
  LET i == SelectInSeq(registered, LAMBDA x : x = s)
  IN IF i = 0 THEN registered ELSE RemoveAt(registered, i)

\* udp_unref of the last reference, in the middle of other calls on the socket if there
\* are any: net_unbindsocket with the lock,
Unbind(t) ==
  /\ pc[t] = "unbind"
  /\ sock' = [sock EXCEPT ![job[t].sock].adapter = None]
  /\ Release(t, job[t].sock)
  /\ pc' = [pc EXCEPT ![t] = "close"]
  /\ UNCHANGED <<config, cache, arp, asked, portbitmap, registered, packets, pending, job, todo,
                 inbound, shut, leaked, rivals, cleared, panicked>>

\* the registration,
Close(t) ==
  /\ pc[t] = "close"
  /\ registered' = Unregistered(job[t].sock)
  /\ pc' = [pc EXCEPT ![t] = "reset"]
  /\ UNCHANGED <<config, cache, arp, asked, portbitmap, sock, packets, pending, lock, job, todo,
                 inbound, history>>

\* and net_releaseport of the port that the socket has by now.
ReadByte(t) ==
  /\ pc[t] = "reset"
  /\ LET p == sock[job[t].sock].port
     IN job' = [job EXCEPT ![t].port = p, ![t].saved = portbitmap \cap Byte(p)]
  /\ pc' = [pc EXCEPT ![t] = "clear"]
  /\ UNCHANGED <<config, cache, arp, asked, sockets, lock, todo, inbound, history>>

WriteByte(t) ==
  /\ pc[t] = "clear"
  /\ portbitmap' \in PortReleased(job[t].port, job[t].saved)
  /\ cleared' = cleared \cup (portbitmap \ portbitmap')
  /\ Return(t)
  /\ UNCHANGED <<config, cache, arp, asked, registered, sock, packets, pending, lock, todo,
                 inbound, shut, leaked, stolen, rivals, panicked>>

\* udp_recvmsg and udp_read with the lock, first look at the queue.  With data, read
\* takes its lock again; without, a non-blocking call releases it a second time.
Look(t) ==
  /\ pc[t] \in {"recvmsg", "read"}
  /\ LET s == job[t].sock
         read == job[t].op = "read"
     IN IF packets[s] > 0
        THEN /\ pc' = [pc EXCEPT ![t] = IF read THEN "lock" ELSE "take"]
             /\ job' = [job EXCEPT ![t].stage = "take"]
             /\ leaked' = IF read THEN leaked \cup {s} ELSE leaked
             /\ UNCHANGED <<lock, stolen>>
        ELSE /\ Release(t, s)
             /\ pc' = [pc EXCEPT ![t] = CASE job[t].how = "nonblock" -> "release"
                                          [] job[t].how = "dontwait" -> "idle"
                                          [] OTHER -> "await"]
             /\ job' = [job EXCEPT ![t] = IF job[t].how = "dontwait" THEN Idle ELSE @]
             /\ UNCHANGED leaked
  /\ UNCHANGED <<config, cache, arp, asked, sockets, todo, inbound, shut, rivals, cleared, panicked>>

ReleaseAgain(t) ==
  /\ pc[t] = "release"
  /\ Release(t, job[t].sock)
  /\ Return(t)
  /\ UNCHANGED <<config, cache, arp, asked, sockets, todo, inbound, shut, leaked, rivals, cleared,
                 panicked>>

\* event_await returns at once when the event is pending; see Triggered for the rest.
Await(t) ==
  /\ pc[t] = "await"
  /\ pending[job[t].sock]
  /\ pending' = [pending EXCEPT ![job[t].sock] = FALSE]
  /\ pc' = [pc EXCEPT ![t] = "woken"]
  /\ UNCHANGED <<config, cache, arp, asked, portbitmap, registered, sock, packets, lock, job,
                 todo, inbound, history>>

\* Mutant of Recheck: the queue is not looked at again.
RecheckNot(t) == "lock"
\* Mutant of Recheck: the datagram is taken without the lock.
RecheckBare(t) == IF packets[job[t].sock] > 0 THEN "take" ELSE "await"

\* The queue is looked at without the lock.
Recheck(t) == IF packets[job[t].sock] > 0 THEN "lock" ELSE "await"

Woken(t) ==
  /\ pc[t] = "woken"
  /\ pc' = [pc EXCEPT ![t] = Recheck(t)]
  /\ job' = [job EXCEPT ![t].stage = "take"]
  /\ UNCHANGED <<config, cache, arp, asked, sockets, lock, todo, inbound, history>>

\* VECTOR_ITEM of an empty vector is not a packet.
TakePacket(t) ==
  /\ pc[t] = "take"
  /\ LET s == job[t].sock
     IN IF packets[s] > 0
        THEN /\ packets' = [packets EXCEPT ![s] = @ - 1]
             /\ Release(t, s)
             /\ Return(t)
             /\ UNCHANGED panicked
        ELSE /\ panicked' = "empty"
             /\ UNCHANGED <<packets, lock, stolen, pc, job>>
  /\ UNCHANGED <<config, cache, arp, asked, portbitmap, registered, sock, pending, todo, inbound,
                 shut, leaked, rivals, cleared>>

----------------------------------------------------------------------------
(* Sending. *)

\* How a call that sends ends, well and badly: after a route that fails, udp_sendmsg
\* returns with the lock.
SendDone(t) ==
  /\ IF job[t].op = "sendmsg" THEN Release(t, job[t].sock) ELSE UNCHANGED <<lock, stolen>>
  /\ Return(t)
  /\ UNCHANGED leaked
SendFailed(t) ==
  /\ leaked' = IF job[t].op = "sendmsg" THEN leaked \cup {job[t].sock} ELSE leaked
  /\ Return(t)
  /\ UNCHANGED <<lock, stolen>>

\* udp_sendmsg, and udp_write without the lock, up to the first net_route.
Prepare(t) ==
  /\ pc[t] = "sendmsg"
  /\ LET s == job[t].sock
         x == sock[s]
         dest == IF x.state = "connected" THEN x.peer ELSE job[t].dest
         refused == dest = None \/ (dest = Broadcast /\ ~x.broadcast)
         p == IF x.port = 0 THEN AllocPort ELSE x.port
     IN /\ IF refused \/ x.port # 0 THEN UNCHANGED <<sock, portbitmap, registered>>
           ELSE /\ sock' = [sock EXCEPT ![s].port = p, ![s].auto = TRUE]
                /\ portbitmap' = PortTaken
                /\ registered' = Registered(s, p)
        /\ IF refused \/ p = 0 THEN SendDone(t)
           ELSE /\ job' = [job EXCEPT ![t].dest = dest, ![t].adapter = x.adapter,
                             ![t].local = IF x.adapter = None THEN AnyAddr ELSE x.local]
                /\ pc' = [pc EXCEPT ![t] = IF x.adapter = None THEN "route" ELSE "inet"]
                /\ UNCHANGED <<lock, leaked, stolen>>
  /\ UNCHANGED <<config, cache, arp, asked, packets, pending, todo, inbound, shut, rivals, cleared,
                 panicked>>

\* The rest of net_sendinet: a frame for one of our addresses goes to the interface
\* that has it.
Emitted(t, a) ==
  LET f == Frame(job[t].type, ip[a], job[t].dest, job[t].port)
  IN IF Own(job[t].dest) THEN [cache EXCEPT ![AdapterOf(job[t].dest)] = Append(@, f)]
     ELSE Transmitted(cache, a, f)

\* After a net_route that found its hardware address: on to net_sendinet, or out.
Routed(t, a) ==
  CASE pc[t] = "route" \/ (pc[t] = "ask" /\ job[t].stage = "route") ->
         /\ pc' = [pc EXCEPT ![t] = "inet"]
         /\ job' = [job EXCEPT ![t].adapter = a]
         /\ UNCHANGED <<cache, lock, stolen, leaked>>
    [] job[t].op = "addroute" ->
         Return(t) /\ UNCHANGED <<cache, lock, stolen, leaked>>
    [] OTHER ->
         cache' = Emitted(t, a) /\ SendDone(t)

\* net_lookup has to ask, and sleeps until the address is known or time is up.
Ask(t, a, x) ==
  /\ pc' = [pc EXCEPT ![t] = "ask"]
  /\ job' = [job EXCEPT ![t].stage = pc[t], ![t].adapter = a, ![t].target = x]
  /\ cache' = Transmitted(cache, a, Frame("request", ip[a], x, 0))
  /\ asked' = IF a = "eth" THEN asked \cup {x} ELSE asked
  /\ UNCHANGED <<lock, stolen, leaked>>

\* One net_route: of udp_sendmsg ("route"), or inside net_sendinet ("inet").
Route(t) ==
  /\ pc[t] \in {"route", "inet"}
  /\ LET r == IF pc[t] = "route" THEN RouteAny(job[t].dest)
              ELSE RouteVia(job[t].adapter, job[t].local, job[t].dest)
     IN CASE pc[t] = "inet" /\ job[t].dest = Broadcast ->
               Routed(t, job[t].adapter) /\ UNCHANGED asked
          [] ~(pc[t] = "inet" /\ job[t].dest = Broadcast) /\ r = None ->
               SendFailed(t) /\ UNCHANGED <<cache, asked>>
          [] OTHER ->
               IF Known(r.adapter, r.target) THEN Routed(t, r.adapter) /\ UNCHANGED asked
               ELSE Ask(t, r.adapter, r.target)
  /\ UNCHANGED <<config, arp, sockets, todo, inbound, shut, rivals, cleared, panicked>>

Answered(t) ==
  /\ pc[t] = "ask"
  /\ job[t].target \in arp[job[t].adapter]
  /\ Routed(t, job[t].adapter)
  /\ UNCHANGED <<config, arp, asked, sockets, todo, inbound, shut, rivals, cleared, panicked>>

\* ENETUNREACH; the ioctl that sets a route does not look at it.
TimedOut(t) ==
  /\ pc[t] = "ask"
  /\ job[t].target \notin arp[job[t].adapter]
  /\ SendFailed(t)
  /\ UNCHANGED <<config, cache, arp, asked, sockets, todo, inbound, shut, rivals, cleared, panicked>>

----------------------------------------------------------------------------
(* Configuration: net_ifioctl on the card. *)

\* SIOCSIFADDR and SIOCSIFNETMASK.
Configure(t) ==
  /\ Made(t, {"setaddr", "setmask"})
  /\ IF Now(t).op = "setaddr"
     THEN ip' = [ip EXCEPT !["eth"] = Now(t).addr] /\ UNCHANGED mask
     ELSE mask' = [mask EXCEPT !["eth"] = TRUE] /\ UNCHANGED ip
  /\ UNCHANGED <<gateway, cache, arp, asked, sockets, lock, pc, job, inbound, history>>

\* SIOCSIFFLAGS that takes a dynamic interface down: e8254x_updateflags.
UpdateFlags(t) ==
  /\ Made(t, {"down"})
  /\ ip' = [ip EXCEPT !["eth"] = AnyAddr]
  /\ mask' = [mask EXCEPT !["eth"] = FALSE]
  /\ gateway' = [gateway EXCEPT !["eth"] = AnyAddr]
  /\ UNCHANGED <<cache, arp, asked, sockets, lock, pc, job, inbound, history>>

\* SIOCADDRT sets the gateway and looks it up.
AddRoute(t) ==
  /\ Made(t, {"addroute"})
  /\ LET x == Now(t).addr
     IN /\ gateway' = [gateway EXCEPT !["eth"] = x]
        /\ IF Known("eth", x) THEN UNCHANGED <<asked, pc, job>>
           ELSE /\ asked' = asked \cup {x}
                /\ pc' = [pc EXCEPT ![t] = "ask"]
                /\ job' = [job EXCEPT ![t] = [Job(Now(t)) EXCEPT !.adapter = "eth", !.target = x]]
  /\ UNCHANGED <<ip, mask, cache, arp, sockets, lock, inbound, history>>

----------------------------------------------------------------------------
(* Receiving. *)

\* e8254x_routine queues a frame of another host.
Arrive(f) ==
  /\ f \in inbound
  /\ inbound' = inbound \ {f}
  /\ cache' = [cache EXCEPT !["eth"] = Append(@, f)]
  /\ UNCHANGED <<config, arp, asked, sockets, lock, pc, job, todo, history>>

\* Another host answers a question of ARP, or it is lost.
Answer(x) ==
  /\ asked' = asked \ {x}
  /\ cache' = IF x \in Hosts
              THEN [cache EXCEPT !["eth"] = Append(@, Frame("reply", x, ip["eth"], 0))]
              ELSE cache
  /\ UNCHANGED <<config, arp, sockets, lock, pc, job, todo, inbound, history>>
Lose(x) ==
  /\ asked' = asked \ {x}
  /\ UNCHANGED <<config, cache, arp, sockets, lock, pc, job, todo, inbound, history>>

\* udp_grabsocket: the first socket that registered the port, or 0.
GrabSocket(p) == SelectInSeq(registered, LAMBDA s : sock[s].port = p)

\* udp_onudp answers a datagram for a port nobody has.
Unreachable(f) == f.type = "udp" /\ GrabSocket(f.port) = 0

\* Mutant of Replies: every ICMP message is answered.
RepliesAll(f) == f.type \in {"echo", "icmp", "other"} \/ Unreachable(f)

\* net_onicmp answers an echo request, and net_oninet an unknown protocol.
Replies(f) == f.type \in {"echo", "other"} \/ Unreachable(f)

\* net_onarp answers from the interface asked for, and remembers the sender.
OnArp(a, f, rest) ==
  /\ cache' = IF f.type = "request" /\ Own(f.dst)
              THEN Transmitted(rest, AdapterOf(f.dst), Frame("reply", f.dst, f.src, 0))
              ELSE rest
  /\ arp' = IF f.type \in {"request", "reply"} THEN [arp EXCEPT ![a] = @ \cup {f.src}]
            ELSE arp

\* net_oninet hands the frame on: to net_sendinet, to the socket, or to nobody.
OnInet(a, f) ==
  \/ /\ Replies(f)
     /\ pc' = [pc EXCEPT ![a] = "inet"]
     /\ job' = [job EXCEPT ![a] =
                  [Idle EXCEPT !.op = "answer", !.dest = f.src, !.type = "icmp",
                               !.adapter = a, !.local = ip[a]]]
  \/ /\ f.type = "udp" /\ ~Unreachable(f)
     /\ pc' = [pc EXCEPT ![a] = "lock"]
     /\ job' = [job EXCEPT ![a] =
                  [Idle EXCEPT !.op = "netpacket", !.sock = registered[GrabSocket(f.port)],
                               !.stage = "push"]]
  \/ /\ f.type # "udp" /\ ~Replies(f)
     /\ UNCHANGED <<pc, job>>

\* net_ifhandler takes a frame.
Handle(a) ==
  /\ pc[a] = "idle"
  /\ cache[a] # <<>>
  /\ OnArp(a, Head(cache[a]), [cache EXCEPT ![a] = Tail(@)])
  /\ OnInet(a, Head(cache[a]))
  /\ UNCHANGED <<config, asked, sockets, lock, todo, inbound, history>>

\* udp_netpacket
Push(a) ==
  /\ pc[a] = "push"
  /\ LET s == job[a].sock
     IN /\ packets' = [packets EXCEPT ![s] = @ + 1]
        /\ Release(a, s)
        /\ Triggered(s, [u \in {a} |-> "idle"])
  /\ job' = [job EXCEPT ![a] = Idle]
  /\ UNCHANGED <<config, cache, arp, asked, portbitmap, registered, sock, todo, inbound,
                 shut, leaked, rivals, cleared, panicked>>

----------------------------------------------------------------------------
Work(t) ==
  \/ Acquire(t) \/ Bind(t) \/ SetSockOpt(t) \/ Connect(t)
  \/ Unbind(t) \/ Close(t) \/ ReadByte(t) \/ WriteByte(t)
  \/ Look(t) \/ ReleaseAgain(t) \/ Await(t) \/ Woken(t) \/ TakePacket(t) \/ Prepare(t)
Sending(t) == Route(t) \/ Answered(t) \/ TimedOut(t)
Call(t) == Refuse(t) \/ Begin(t) \/ Configure(t) \/ UpdateFlags(t) \/ AddRoute(t)

Next ==
  /\ panicked = "no"
  /\ \/ \E t \in Threads : Work(t) \/ Sending(t) \/ Call(t)
     \/ \E a \in Adapters : Handle(a) \/ Acquire(a) \/ Push(a) \/ Sending(a)
     \/ \E t \in Actors : SpinPanic(t)
     \/ \E f \in inbound : Arrive(f)
     \/ \E x \in asked : Answer(x) \/ Lose(x)

Spec == Init /\ [][Next]_vars

\* Threads and interface threads are scheduled, and sleeps end.  Nobody has to make a
\* call, to send a frame or to answer.
Steps(t) == panicked = "no" /\ (Work(t) \/ Sending(t))
Serve(a) == panicked = "no" /\ (Handle(a) \/ Acquire(a) \/ Push(a) \/ Sending(a))
FairSpec ==
  /\ Spec
  /\ \A t \in Threads : WF_vars(Steps(t))
  /\ \A a \in Adapters : WF_vars(Serve(a))

----------------------------------------------------------------------------
(* Properties. *)

Labels == {"idle", "lock", "bind", "todevice", "broadcast", "connect", "unbind", "close", "reset",
           "clear", "recvmsg", "read", "release", "await", "woken", "take", "sendmsg", "route",
           "inet", "ask", "push"}
SocketRecords ==
  [state : {"created", "bound", "connected"}, peer : Addrs \cup {None},
   local : Addrs, adapter : Adapters \cup {None}, port : Ports, auto : BOOLEAN,
   broadcast : BOOLEAN]
Jobs ==
  [op : SocketOps \cup {"none", "addroute", "answer", "netpacket"},
   sock : Sockets \cup {None}, dest : Addrs \cup {None}, port : Ports, how : Hows,
   stage : Labels \cup SocketOps \cup {"none", "addroute"},
   type : {"none", "udp", "icmp"}, adapter : Adapters \cup {None}, local : Addrs,
   target : Addrs \cup {None}, saved : SUBSET (0 .. PortBits - 1)]

TypeOK ==
  /\ ip \in [Adapters -> Addrs] /\ gateway \in [Adapters -> Addrs]
  /\ mask \in [Adapters -> BOOLEAN]
  /\ cache \in [Adapters -> Seq(Frames)] /\ inbound \subseteq Frames
  /\ arp \in [Adapters -> SUBSET Addrs] /\ asked \subseteq Addrs
  /\ portbitmap \subseteq 0 .. PortBits - 1
  /\ registered \in Seq(Sockets)
  /\ sock \in [Sockets -> SocketRecords]
  /\ packets \in [Sockets -> Nat] /\ pending \in [Sockets -> BOOLEAN]
  /\ lock \in [Sockets -> Actors \cup {None}]
  /\ pc \in [Actors -> Labels] /\ job \in [Actors -> Jobs]
  /\ todo \in [Threads -> Seq(Requests)]
  /\ leaked \subseteq Sockets /\ stolen \subseteq Sockets /\ rivals \subseteq Sockets
  /\ shut \subseteq Sockets /\ cleared \subseteq 0 .. PortBits - 1
  /\ panicked \in {"no", "spin", "empty"}

\* Between spinlock_acquire and spinlock_release of a socket.
Inside(t, s) ==
  /\ pc[t] # "idle" /\ job[t].sock = s
  /\ \/ pc[t] \in {"connect", "unbind", "recvmsg", "read", "take", "push"}
     \/ job[t].op = "sendmsg" /\ pc[t] \in {"sendmsg", "route", "inet", "ask"}

\* Whoever works on the queue or the addresses of a socket holds its lock, across the
\* sleeps of udp_sendmsg in net_lookup too; the one way to lose it is a non-blocking
\* receive on an empty queue, which releases the lock once more than it took it.
Exclusion == \A s \in Sockets, t \in Actors : s \notin stolen /\ Inside(t, s) => lock[s] = t

\* A receive finds a datagram when it takes one, although event_await also returns for
\* udp_connect and the queue is looked at without the lock: only two receives at a
\* time on one socket can take from an empty queue.
EmptyTake == panicked = "empty" => rivals # {}

\* An interface thread that has to ask for the address it replies to asks in vain: the
\* answer is in the queue that it does not serve while it sleeps in net_lookup.  The
\* reply is lost, unless net_onarp had seen a frame of that host before.
AskVain == \A a \in Adapters : pc[a] = "ask" => job[a].target \notin arp[a]

\* Two sockets have the same port of net_allocport only after net_releaseport has taken
\* its bit out, the wrong one for the socket it closes or one that net_allocport set
\* while it had the byte; or after net_allocport has run out of ports and goes on with
\* the bits behind that of the last one.
PortsDistinct ==
  \A s, u \in Sockets :
    s # u /\ sock[s].auto /\ sock[u].auto /\ sock[s].port = sock[u].port /\ sock[s].port # 0
    => \E b \in portbitmap \cup cleared :
         \/ b >= PortSpace
         \/ b \in cleared /\ (b + RangeStart) % PortSpace = sock[s].port

\* Unless a lock is kept forever (by a udp_sendmsg without a route, or a udp_read with
\* data), every frame is handled and answers end: interface threads do not wait for
\* ever for each other, for a lock or for ARP, and no answer provokes the next.
Quiet == \A a \in Adapters : cache[a] = <<>> /\ pc[a] = "idle"
Drains == <>[](Quiet \/ leaked # {} \/ panicked # "no")
=============================================================================
