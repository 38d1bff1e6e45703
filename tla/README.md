# A TLA+ model of the Lyre kernel

Lyre is a Unix-like kernel for x86-64 (`src/kernel`), with a small first program
(`src/init`). It runs on several CPUs, preempts threads in the kernel, and
synchronises with spinlocks, compare-and-swap and one blocking primitive, the
*event*. This directory models the parts of it in which several CPUs, threads
and interrupt handlers meet, checks them with TLC on small instances and proves
the most important results with TLAPS for every value of the constants.

## 1. Inventory

| Component | State it keeps | Operations | What is hard |
|---|---|---|---|
| events (`lib/event.c`, `lib/lock.c`) | per event: lock, pending triggers, listener array; per thread: `which_event`, attached events | `event_await`, `event_trigger` | a trigger against a thread that is going to sleep; several spinlocks at once; arrays of 32 |
| scheduler (`sched/sched.c`, `dev/lapic.c`) | run queue of slots, per-thread lock / `yield_await` / `enqueued` / saved context, per-CPU scan position and active flag, one-shot timers | `sched_entry`, `get_next_thread`, `sched_yield`, `sched_await`, `sched_enqueue_thread`, `sched_dequeue_thread`, `sched_dequeue_and_die` | lock-free queue scanned by every CPU; a thread that blocks while another CPU wakes it; interrupts that come late or twice |
| pipes (`ipc/pipe.c`) | ring buffer, reader and writer counts, poll status, event | `pipe_read`, `pipe_write`, `pipe_ref`, `pipe_unref` | wrap-around; the gap between the lock and `event_await`; end of file |
| processes (`sched/sched.c`, `sched/proc.c`) | process table, children, child events, exit status | fork, exec, exit, waitpid, futexes | unlocked vectors; pids; an exit against a waitpid |
| file descriptors (`lib/resource.c`) | per-process table, descriptions with reference counts | open, close, dup, fcntl, ppoll | reference counts without atomics; pointers used after the lock |
| physical memory (`mm/pmm.c`), heap (`mm/slab.c`) | bitmap and scan position; free lists | page and object allocation | exhaustion, wrap of the scan |
| virtual memory (`mm/vmm.c`, `mm/mmap.c`) | per address space: ranges and page table; per mapping: shadow page map and list of ranges; shootdown mailboxes | mmap, munmap, mprotect, page fault, fork, exit, TLB shootdown | ranges read without the lock and changed after it; frames shared between processes |
| timers (`time/time.c`) | vector of armed timers | arm, disarm, tick | a tick that is skipped when the lock is taken |
| UNIX sockets (`ipc/socket.c`, `ipc/socket/unix.c`) | socket states, peers, backlog, two events | bind, listen, connect, accept, send, receive | accept sleeps with a spinlock taken; the gap before `event_await` |
| UDP and the network (`ipc/socket/udp.c`, `dev/net`) | sockets with datagram queues, ports, routes, ARP cache, packet queue and thread of each interface | bind, connect, send, receive, close, ioctls, frames | unreliable delivery; retries; early returns that keep or repeat a lock |
| TCP (`ipc/socket/tcp.c`) | connections, retransmit queues | connect, accept, send, receive, timers | retransmission, memory used after it is freed |
| VFS, tmpfs, devtmpfs (`fs/vfs`, `fs/tmpfs.c`, `fs/devtmpfs.c`) | tree of nodes with mounts and links, a hash map per directory | openat, mkdirat, unlinkat, linkat, readlinkat, chdir, getcwd, readdir, stat | walks without the lock; directories freed while in use |
| FAT32, ext2 (`fs/fat32fs.c`, `fs/ext2fs.c`) | allocation table or bitmaps, counters, directory entries | create, write, truncate, unlink, mount | chains and entries against the allocation map; hints and counters; reboots |
| block devices (`dev/storage`) | command rings with phases, block cache, partitions | read, write, initialisation | completion order at the wrap, ends of devices and partitions, cache state |
| character devices, PCI, video, ACPI, entry code (`dev/*`, `acpi`, `sys`) | registers, tty line buffer | device I/O, set-up | hardware |

Components interact in three ways: by calls into the scheduler through events
(everything that blocks calls `event_await`, everything that wakes calls
`event_trigger`), by the resource interface (`struct resource` with read, write,
ref, unref and an event that `ppoll` waits for), and by interrupts (scheduling,
shootdown, timer, devices).

The properties that make each component correct are the ones under "Runs" below
for the modelled components; for the others: a zombie is reaped once and by its
parent, live heap objects do not overlap, no CPU uses a stale translation after
`munmap` returns, a TCP stream arrives in order, the bitmaps of ext2 agree with
what inodes refer to.

## 2. Plan

Modules are written in the order of how much of the kernel rests on them.

| Step | Modules | Question | Status |
|---|---|---|---|
| 1 | `Event`, `EventProofs` | is a wakeup ever lost, can the locks deadlock | done |
| 2 | `Sched`, `SchedProofs` | is a thread ever on two CPUs, resumed with a stale context, or forgotten | done |
| 3 | `Pipe`, `PipeFifo`, `PipeProofs` | is a pipe a FIFO; end of file; what the gap before `event_await` costs | done |
| 4 | `Pmm`, `PmmProofs` | has a page one owner; is a failure honest | done |
| 5 | `FdTable`, `FdTableProofs` | is a description freed while it is in use | done |
| 6 | `Timer` | does a sleep end, and with the right tick | done; TLC only |
| 7 | `UnixConnect`, `UnixConnectProofs` | connect against accept: backlog, peers, the lock that accept sleeps with | done |
| 8 | `Fat32` | cluster chains, counters and directory entries against each other, across reboots | done |
| 9 | `Nvme`, `BlockDevice`, `NvmeProofs` | ring phases, the block cache, partitions; is a request atomic | done |
| 10 | `Net`, `NetProofs` | UDP sockets, ARP, routes, ports and interface threads; who holds which lock | done |
| 11 | `Vfs` | the tree under concurrent calls | done; the walks are recursive, so TLC only |
| 12 | `Vm` | ranges, shadow page maps and page tables; frames | done; TLC only |
| 13 | `UnixStream`, `Ext2`, `Process`, the shootdown handshake | streams in order; bitmaps; exit against waitpid; mailboxes with a timeout | open |

TCP (`ipc/socket/tcp.c`) is not planned: it goes on using its retransmit queue
and its sockets after it has freed them on ordinary paths, so what it does after
that is undefined and a faithful model would allow anything.

Compositions. `Pipe`, `Timer` and `UnixConnect` use the interface that `Event` establishes (a
trigger wakes every listener or stays pending for one later wait; a wait may come
back without a trigger). `Sched` contains the part of `Event` that keeps a thread
inside `event_await` while somebody wakes it; `Event` contains the part of the
run queue that `event_await` uses. `FdTable` and `Pipe` share the descriptors:
`Pipe` shows what the order of `fdnum_dup` means for one kind of resource.
`PipeFifo` is the abstract specification of `Pipe`, `BlockDevice` that of `Nvme`:
every request takes effect at one instant, which is what `Fat32` assumes of its
disk. `Net` uses the result of `Event` that no wakeup is lost, and leaves the
event of an interface out. `Vm` takes frames from a set, as `Pmm` shows it may.

Theorems. First the invariants of the modules on which the others rest (events,
scheduler, pipes, pages), then the counts of `FdTable`, the peers of
`UnixConnect`, the rings, the cache and the atomicity of `Nvme`, the locks, queues
and ports of `Net`: done. Open: the frames of `Vm` (`FramesOnce`), the index
invariant of `Timer`.

## 3. The modules

### Event

| Model | Code |
|---|---|
| `lock`, `pending`, `listeners` | `struct event` (`lib/event.k.h`) |
| `which_event`, `enqueued` | `struct thread` |
| `slots` | how many entries of `running_queue` hold the thread |
| `AwaitBegin`, `LockEvent`, `AwaitReady`, `AwaitWouldBlock`, `AwaitSleep`, `AttachPanic`, `ReadWhich`, `AwaitReturn` | `event_await`: one step per lock of `lock_events`, then the section under all locks |
| `TriggerPending`, `TriggerListeners`, `WakeListener`, `EnqueueThread`, `TriggerEnd` | `event_trigger`, split at the test of `enqueued` in `sched_enqueue_thread` |
| `ScanRead`, `ScanRun`, `ScanBusy` | `get_next_thread`: the slot is read, the thread's lock is tried later |

Threads wait and trigger, interrupt handlers only trigger. `SMP = FALSE` makes a
section with interrupts off indivisible. `drop` and `by_signal` are constant in
the kernel's calls and left out; with them goes the `EINTR` path. The run queue
always has room: that `sched_enqueue_thread` fails when no slot is free, which
`event_trigger` does not notice, is in `Sched` (`QueueFull`).

### Sched

| Model | Code |
|---|---|
| `running_queue`, `enqueued`, `tlock`, `yield_await`, `ctx` | the queue and `struct thread` |
| `last`, `active`, `gs`, `on` | `struct cpu_local`, the current thread, the code a CPU really executes |
| `timer`, `irr` | one-shot LAPIC timer, latched scheduling interrupt |
| `Block`, `Yield`, `Resume`, `Die`, `YieldForever`, `SchedulingOff/On` | `event_await`, `sched_yield`, `sched_dequeue_and_die`, `tlb_shootdown` |
| `Create`, `Trigger`, `TriggerEnqueued`, `TakeSlot`, `SetEnqueued`, `QueueFull` | `sched_enqueue_thread` and its callers |
| `Entry`, `EntryOff`, `ScanRead`, `ScanTry`, `Continue`, `Save`, `Release`, `LeaveIdle`, `GoIdle`, `Load` | `sched_entry`, `get_next_thread`, `sched_await`, `thread_spinup` |

A context is reduced to whether it is the one with which the thread last left a
CPU. `on` and `gs` differ while a dead thread still executes its last loop. `Ops`
is the set of operations each thread performs: it narrows an instance, and the
theorems hold for every choice of it.

### Pipe and PipeFifo

`data`, `read_ptr`, `write_ptr`, `used`, the counts and `status` are the fields
of `struct pipe` and its resource; `fds`, `mode` and `nonblock` the descriptors
and flags of the two ends. A section under the pipe's lock is a step; `"await"`
is the gap between the end of that section and `event_await`. `Dup` and `Ref` are
two steps because `fdnum_dup` publishes the descriptor before it calls
`pipe_ref`. The refinement mapping of `PipeFifo` reads the ring from `read_ptr`
(`Queue`).

### Pmm

`bitmap` is the set of pages whose bit is set; `last_used_index`, `pages`,
`last`, `p` and `pass` are the variables of `pmm_alloc_nozero` and `inner_alloc`,
whose loop is one step per page. `FreeAtBoot`, `BitmapPages` and `Hole` are what
`pmm_init` computes from Limine's memory map. `PageOfBit` says in which page a
bit lies: `Clear` (the `memset` of `pmm_alloc`) clears every bit that lies in the
pages it was given, and the bits that `pmm_init` does not initialise (`Unset`)
start with any value.

### FdTable

`fds`, `refcount` and `resref` are the tables, the count of a description and
that of the resource. `Open`, `Close`, `UseBegin` with `UseEnd` (read, write, seek,
ioctl, fcntl, which keep their reference) or `UseReturn` (the calls on sockets,
which give it back), `DupBegin` to `DupResRef` (`fdnum_dup`), the `Fork*`, `Exit*` and
`Poll*` actions are the calls of `lib/resource.c` and the loops over descriptors
in `sched/proc.c`. `lost` counts descriptions that were opened when the table was
full: the code leaves them behind.

### Timer

`armed_timers`, `index`, `fired`, `when` and `timers_lock` are those of
`time/time.c`. `Arm`/`Armed` and `Disarm`/`Free` are the two halves of the
sections under the lock, so that a tick can come in between and find it taken
(it is then skipped); `Tick` is one turn of the handler's loop. `Sleep`, `Nsleep`
and `Poll` are `syscall_sleep`, `time_nsleep` and `ppoll` with a timeout. A ppoll
also waits for the events of its resources, of which only the triggers are in the
model (`OtherPending`, `OtherEvent`); `Returned` reads `which_event`, `Detach` is
`detach_listeners`, and in `Look` ppoll is satisfied or goes round its loop again.
`asked`, `ticks` and `overtaken` are history.

### UnixConnect

| Model | Code |
|---|---|
| `state`, `peer`, `status`, `backlog`, `backlog_max` | `struct socket` and its resource |
| `lock` | the server that waits with the listener's spinlock taken; every other section under it is one step |
| `pending`, `listening` | `event` and `connect_event` of each socket |
| `Bind`, `Listen` | `syscall_bind`, `syscall_listen`, `unix_bind` |
| `ConnectBegin` to `ConnectFinish` | `syscall_connect`, `unix_connect`, `socket_add_to_backlog` |
| `AcceptBegin` to `AcceptReturn` | `syscall_accept` (the part for `AF_UNIX`), `unix_accept` |

A client is a thread and its socket. `Conns` are the sockets for which there is
memory; when they are used up `unix_accept` fails, and the client that was taken
out of the backlog is forgotten (`AcceptFails`). Calls that return an error
without a change of state are not steps. Addresses, descriptors and the
socket's reference count, which nothing reads, are left out.

### Fat32

| Model | Code |
|---|---|
| `fs.fat`, `fs.free`, `fs.startat`, `fsinfo` | the table, `fs->fsinfo` in memory and as written by `fat32fs_updatefsinfo` |
| `slots` | the 32-byte entries of the root directory: unused, end, long-name part, file, directory |
| `node` | `struct fat32fs_resource`: first cluster, size, blocks, position of its entry, references |
| `data` | whose bytes are in a cluster |
| `Create`, `Open`, `Close`, `Unlink`, `Write`, `Read`, `Truncate` | the operations of the file system and of its resources; `insertdent`, `fat32fs_allocateclusters`, `fat32fs_resize` and `fat32fs_rwbytes` are operators (`Place`/`Inserted`, `AllocateClusters`, `Resize`, `Touched`) |
| `Reboot` | `fat32fs_mount` and `fat32fs_populate`: memory is lost, the disk is read |

An operation is one step: the file system has no lock of its own, and the model
has one caller at a time. What the code does wrong ends the behaviour in a state
that says so (`stopped`): an assertion on a chain, an allocation that runs off
the table, a read or a write that spills behind its cluster, an entry written over
another.
The properties say which of these can happen.

### Nvme and BlockDevice

`queue` and `ctrl` are the two sides of the admin and the I/O ring: tails, heads,
phase, command identifiers, and the completion entries that the controller
leaves. `AdminSubmit`/`AdminDone` are the commands of `nvme_initcontroller` and
`nvme_initnamespace`, `EnumRead`/`EnumDone` those of `partition_enum`. A request
enters through a partition or the device (`Call`), takes the lock (`Lock`) and
serves one block after another: `Hit` or `Miss` and `Fetched` (`nvme_findblock`,
`nvme_cacheblock`), then `CopyOut`, or `CopyIn` and `Stored` (write-through).
`Execute` is the controller. In the refinement of `BlockDevice` the content is
the disk when the lock was last free (`before`).

### Net

| Model | Code |
|---|---|
| `ip`, `mask`, `gateway`, `cache`, `arp` | `struct net_adapter`: addresses, received frames, `addrcache` |
| `sock`, `packets`, `pending`, `lock`, `registered`, `portbitmap` | `struct udp_socket`, its event and spinlock, `udp_sockets`, `net_portbitmap` |
| `Begin`, `Refuse` | the system call up to the operation of the socket: what it tests, and that it goes on with the description it found |
| `Bind`, `Connect`, `SetSockOpt`, `Look`/`Await`/`Woken`/`TakePacket`, `Prepare` to `SendDone` (`udp_sendmsg`, and `udp_write` without the lock) | the calls of `udp.c`, split where they give up the processor or the lock |
| `Unbind`, `Close`, `ReadByte`, `WriteByte` | `udp_unref` of the last descriptor, in the middle of other calls on the socket if there are any; `net_releaseport` reads a byte of the bitmap and writes it back without the lock of `net_allocport` |
| `Route`, `Ask`, `Answered`, `TimedOut`, `Emitted` | `net_route`, `net_lookup` with its retries, `net_sendinet` |
| `Handle` (`OnArp`, `OnInet`, `Replies`), `Push` | `net_ifhandler`, `net_onarp`, `net_oninet`, `net_onicmp`, `udp_onudp`, `udp_netpacket` |
| `Configure`, `AddRoute`, `UpdateFlags` | `net_ifioctl` |
| `Arrive`, `Answer`, `Lose` | the receive routine of the 8254x; other hosts and the wire |

A path that returns with a lock taken, or releases a lock it does not hold, does
so in the model; `leaked` and `stolen` remember it, `cleared` the bits that
`net_releaseport` took out of the bitmap, its own and those it did not see.

### Vfs

`nodes` is the tree: `parent`, `mount`, `link`, and `entries` as a bucket of the
hash map, in which removal moves the last entry. A system call is the walk
without the lock (`Openat`, `Mkdirat`, `Unlinkat`, ...: `Path2Node`) and then the
function with it (`Get`, `CreateTest` and `Create`, `Unlink`), which resolves the
last element again. `vfs_create` is two steps, its test and its insertion, because
`linkat` inserts without the lock (`LinkInsert`) and may come in between. `freed`
marks a directory whose entries `vfs_unlink` has freed; a walk that meets it, or
that starts from the null pointer of a bad directory descriptor, is not followed
further (`Lost`, `stale`). `linked` holds the names that `linkat` doubled, or that
it put where a `vfs_create` was about to.

### Vm

| Model | Code |
|---|---|
| `pm`, `brk` | `struct pagemap` (ranges, page table) and `mmap_anon_base` of each process |
| `locs`, `globs` | `mmap_range_local`, `mmap_range_global` with its shadow page map |
| `Mmap`, `MmapFixed`/`Place` | `mmap` |
| `Denied`, `Fault`, `FaultShadow` | `mmap_handle_pf`: a page that is present is not for this handler; the look-up; the page into the shadow page map |
| `FaultLocals`, `FaultMap` | `mmap_page_in_range`, for each local: the test of its bounds without a lock, then `vmm_map_page` |
| `MunmapFind`, `MunmapSnip`, `MunmapRest` | a round of the loop of `munmap`: the look-up without the lock, the section with it, the bounds adjusted without |
| `Release`, `ReleaseTest`, `ReleaseFrame` | the last local goes: each frame is read, tested, cleared and freed, all without a lock |
| `MprotectFind`, `MprotectSnip` | the same of `mprotect` |
| `Fork`, `ForkShared`, `ForkPrivate`, `Forked`, `ForkFailed` | `vmm_fork_pagemap`, one step per range; for want of memory the half-built page map is destroyed first |
| `Exit`, `Destroy` | `syscall_exit`, `vmm_destroy_pagemap` |

Lengths wrap around as 64-bit numbers do. `torn`, `stray` and `doubled` are
history: ranges that two threads cut at a time, that overlap others or that fork
copied in the middle of a cut; the pages that such a race, or a fault that read
bounds before they were adjusted, may leave present; and the frames that two
munmaps freed both. A panic, a
null pointer and the use of a freed range end the behaviour (`panicked`).

## 4. Runs

| Run | Instance | Shows |
|---|---|---|
| `event_up` | 2 threads, 1 handler, 3 events, arrays of 2, one CPU | no lost wakeup (`SleeperListed`), no dangling listener, the returned index belongs to an event triggered during the wait, a listener that a trigger has seen runs again |
| `sched_run` | 3 threads, 2 CPUs, 2 slots; one thread creates, two block and wake each other, one of these turns scheduling off and one exits | one CPU per thread, saved contexts, scheduling off keeps the CPU, a thread on the queue returns from `sched_yield` |
| `pipe_one` | 1 reader, 1 writer, capacity 2, 2 byte values, dup, close, `F_SETFL` | FIFO refinement, end of file arrives, what a lost wakeup leaves |
| `pmm_alloc` | 2 callers, 16 pages in 3 usable entries, requests of 1 to 3 | one owner per page, honest failure |
| `fd_share` | 3 processes, 2 descriptions, tables of 2 | no use after free, the resource is told of every descriptor once |
| `timer_sleep` | 2 threads, ticks of 1/4 s, durations around ticks and seconds, ppoll with other events | no freed timer in the vector, firing with the right tick, every sleep ends, and every ppoll whose timer is not overtaken |
| `unix_connect` | 3 clients, 2 servers, backlog of 0 or 2, 2 sockets to accept with | both ends of a connection name each other, no lost wakeup between connect and accept, accept gives its lock up |
| `fat32_files` | 2 files or directories with names of 2 and 3 entries, 4 clusters of 2 units, a table with padding, 4 entries per cluster, reboots | exact chains, counters and entries; no file shows another's bytes |
| `nvme_cache` | 2 threads, 5 LBAs in blocks of 2, 2 cache slots, rings of 2, 2 partitions | own completions, panic only past the end, the lock comes back, atomic requests |
| `net_udp` | loopback and one card, 4 sockets, 2 threads with one of ten scripts, frames from outside that are lost or late | who holds a socket's lock, receives and empty queues, ARP on interface threads, ports, the interfaces come to rest |
| `vfs_tree` | 2 processes, 23 different calls, at most 5 in a behaviour and 9 nodes, `/dev` and a link | names are unique but for `linkat`, the root reaches no freed directory, `getcwd` leads back |
| `vm_spaces` | 2 processes, the first with 2 threads, 3 pages, 3 frames and a page of a file, 3 calls besides any number of faults | which frames can be freed twice, whole mappings show their frames, their faults are served |

Some properties hold only on part of the system, and the run says so by its
instance or the property by an exception it names; what lies outside is what the
code does, not an omission:

- `ReturnsFired` is for one CPU. On several,
  `sched_enqueue_thread` tests `enqueued` and takes its slot later, so two
  triggers give a thread two slots; it then comes back from a later wait without
  a trigger and with the `which_event` of an earlier one. For the same reason a
  thread may be picked from a slot that it has just left, and then runs without
  one. `Pipe` therefore has `AwaitSpurious`. Also on several CPUs, `lock_events`
  takes locks in the order of the caller's array, and `ppoll` fills it in the
  order of its user's descriptors: two waits in opposite orders spin on each
  other (`lib/event.c:63`).
- `WokenReturns` is checked with fewer threads that turn scheduling off than
  there are CPUs. With as many it fails: a thread that is inside
  `tlb_shootdown` whenever its timer expires keeps its CPU, because `sched_entry`
  re-arms the timer and returns (`sched/sched.c:117`), and when all CPUs are held
  like this no scan reaches the slot of another thread. The safety properties are
  theorems for any number.
- `PeersAgree` is for one thread per connecting socket: the state of a socket is
  tested without a lock, and two threads that connect the same one are both
  accepted. A thread that comes back without a trigger (`ConnectSpurious`)
  returns from `connect` with no peer.
- `EofDelivered` is for one reader. The close of the last writer leaves one
  trigger pending, which one reader in the gap consumes; a second one sleeps on.
- `StuckTogether` says what is left of liveness: a trigger that was meant for the
  other end is consumed by the end that made it, and then both ends may sleep. It
  shows that this is the only case with one thread at each end. A writer asleep
  on a full pipe does not notice that the last reader is gone.
- `F_SETFL` stores its argument over all flags, the access mode included
  (`lib/resource.c:490`), and the assertion "pipe with O_RDWR" of `pipe_ref` and
  `pipe_unref` (`ipc/pipe.c:28`, `:44`) then fails. `pipe_one` lets `F_SETFL` keep
  the access mode.
- `pmm_alloc` has a number of pages for which the bitmap fits. Its size is
  `highest_page_index / 8`, rounded down (`mm/pmm.c:58`): with a number of pages
  that is no multiple of eight the last byte may lie in a page that is handed out.
- `FdTable` has one thread per process and one step per update of a count, which
  is a machine with one CPU. Counts are plain integers that no common lock
  guards. Lookups by read, write, seek, fcntl and by ppoll for descriptors that
  are ready never give their reference back, so most descriptions are never freed;
  the calls on sockets lower the count with no look whether it was the last.
- `FiresOnTime` is checked with `time_nsleep` below one second. From one second
  on `time_nsleep` counts whole seconds twice (`time/time.c:104`); its callers in
  `dev/net/net.c:437` mean 1000 ms and sleep for 2000. `timespec_sub` loses a
  nanosecond with each borrow, which the property accounts for.
- `SleepEnds` excepts a ppoll whose timer was overtaken. The timer fires once
  (`time/time.c:88`). If another event of the ppoll is triggered before the thread
  has read `which_event`, it overwrites the number of the timer
  (`lib/event.c:134`); if the timer fires after that and before the thread has
  detached itself, its trigger wakes nobody and does not stay pending. In both
  cases ppoll looks at the other resource, and when that is not ready it waits
  again (`lib/resource.c:643`), now without a timeout. The property shows that there
  is no third case.
- `Fat32`: a read or a write that starts inside a cluster and is no longer than one
  is not cut at the boundary (`fs/fat32fs.c:339`) and gives or overwrites what lies
  behind on the disk, which `NoForeignData` excepts; when
  mount has to count free clusters it counts the padding of the table too
  (`:188`), which `CountersExact` excepts; the assertion on the last two clusters
  of a volume is off by two (`:313`), and a create that fails in the directory
  runs into an assertion of its own clean-up (`:770`).
- `PanicPastEnd`: neither the driver nor a partition refuses a request behind its
  end (`partition.c:67` tests only where it begins), so such a request panics the
  kernel or reaches the next partition.
- `Net`: `udp_sendmsg` returns with the lock taken when there is no route
  (`udp.c:273`), `udp_read` takes the lock twice when there is data (`:91`), a
  non-blocking receive releases it twice (`:333`). `Drains` excepts the first two
  (`leaked`), `Exclusion` the third (`stolen`). `net_releaseport` clears the wrong
  bit (`net.c:104`), and because it takes no lock it may also undo a bit that
  `net_allocport` sets meanwhile; `PortsDistinct` says which sockets can then share a
  port. `close` does not wait for other calls on the socket (`lib/resource.c:155`): a
  socket that is closed inside a `sendmsg` gets its port after the release, and keeps
  it. The
  bitmap has more bits than there are ports (`net.c:84`): when all are given out,
  `net_allocport` goes on with bits whose numbers wrap to ports in use, and because
  no port has such a number, `net_releaseport` never clears them. From then on two
  sockets can share a port for good, which `PortsDistinct` excepts; an exception
  for the time while more bits are set than there are ports would be too small, as
  the script that closes a socket after the ports have run out shows.
- `Vfs`: `linkat` inserts a name without a look and without the lock
  (`vfs.c:853`), over one that exists or between the test of a `vfs_create` and its
  insertion, which `NamesUnique` excepts. For the root `vfs_pathname` writes
  nothing, and the empty string that `getcwd` then gives is refused by every walk
  (`vfs.c:81`): `PathBack` excepts the root. A bad directory descriptor is not
  noticed, because `vfs.c:446` tests the wrong variable, and the walk begins at a
  null pointer. `unlinkat` accepts `.`, `..`, directories that are not empty or in use,
  and mount points, which leaves walks from inside with freed entries (`stale`).
  `RootLive` and `PathBack` are about what the root still reaches. The root of
  devtmpfs has no name, so `getcwd` below `/dev` is wrong.
- `Vm`: `MappedOwned` and `FaultServed` are for mappings that are whole. A range
  split off by `munmap` or `mprotect`, and every private range of a forked child,
  is not in the list of its mapping (`mmap.c:387`, `vmm.c:175`): a fault in it
  panics, and unmapping the listed one frees the frames under it. After a snip the
  loops of `munmap` and `mprotect` skip a page (`NextPage`).
  `munmap` frees the frames of a mapping with no lock held (`mmap.c:426` tells
  `vmm_unmap_page` that there is one): parent and child of a fork, whose private
  ranges both name the parent's mapping, can leave it together and both free a
  frame. `FramesOnce` excepts such frames and shows that it takes a mapping that is
  not whole. A fault tests the bounds of the ranges of other processes without their
  lock (`mmap.c:105`): if one of them unmaps the page before it is mapped there, an
  entry stays behind (`stray`), which `MappedOwned` and `FaultServed` except. A fork
  during a fault on a shared page copies the entry that the fault has made and then
  lists the copy, on which the fault panics; and a write to a page that is present
  and read-only panics too (`mmap.c:50`). Both are in `FaultServed`.

Bounds. `MaxPending`, `MaxSlots`, `MaxRefs`, `MaxCount`, `MaxFds` (pipes),
`MaxPages`, `MaxSize`, `MaxCalls` and `MaxNodes` cap counters and calls in guards;
`Ops`, `Requests`, `Scripts`, `Calls` and `Maps` are the calls that are made. A second
pending trigger of one event or a third slot of one thread adds no new kind of
step: steps test `pending > 0` and `enqueued`. Two events are enough for every
pair of locks and for a wait that is triggered twice; the third in `event_up`
only makes an array that is too long. Three clients fill a backlog of two and
outnumber the sockets that accept can make; two servers let one sleep while the
other takes its work. Two CPUs give each a scan that races with the other's
switch; one slot lets the queue fill up. A ring of two bytes wraps both past its
end and exactly at it. The memory map has a hole, an entry that is too small for
the bitmap and a request larger than an entry. With ticks of a quarter of a
second every duration borrows from its seconds within a few steps. Four clusters
fill up with two files and a directory that grows; two names of different length
leave gaps that are too small for one of them. Five LBAs in blocks of two have a
block that is cut, two cache slots for three blocks make evictions, and rings of
two turn over with every second command. The scripts of `net_udp` each bring
together the calls that share a lock, a port or an address; one gives out more
ports than there are, one closes a socket inside a send. A byte of the bitmap has two
bits, so that a release shares its byte with another port. Five calls are a
create, an unlink and three that hold on to what they found. Three calls on three
pages are a shared mapping, a fork and an unmapping, or a mapping that two threads
cut at a time, with faults between any two steps. `CHECK_DEADLOCK FALSE` stands
where the system may stop: a panic, pipes with both ends closed or stuck,
processes that have all exited, calls used up.

Symmetry is used in runs without liveness, for descriptions, threads or frames
that no constant distinguishes.

## 5. Fairness

- `Event`: a section with interrupts off runs to its end, a wait that has begun
  goes on while its thread has a CPU, and the round robin of `get_next_thread`
  reads the slot of a queued thread again and again.
- `Sched`: time passes, a CPU runs its handler to the end, and a thread that is
  given a timeslice (5 ms) goes on with what it has begun. This last is strong
  fairness, because a thread is taken off its CPU and put back infinitely often.
  What a thread begins is never forced.
- `Pipe`: a call under way goes on, which the scheduler grants; no call has to
  begin and no sleeper has to come back without a trigger.
- `UnixConnect`: as for `Pipe`; a thread that spins on the lock is only assumed
  to go on if the lock stays free.
- `Timer`: the handler and the sections under the lock end; interrupts keep
  coming and not every one of them falls into such a section; a spinning thread
  gets the lock now and then (the two strong conditions). No caller has to arm.
- `Nvme`: the controller executes what it was given, and the thread that has the
  lock goes on. No request has to be made, and nobody who spins has to get the
  lock.
- `Net`: a call under way and the thread of an interface go on where they can
  (weak fairness); no frame has to arrive and no question has to be answered.

## 6. Proofs

All theorems are for every value of the constants that the named assumptions
allow. Each follows the same path: an inductive invariant `IInv`, `Init => IInv`,
one lemma or step per action that it is preserved, and the properties as its
consequences.

| Module | Invariant | Theorems |
|---|---|---|
| `EventProofs` | `TypeOK`, `LockInv` (who is past `lock_events` holds the locks it counts), `TriggerInv` (a trigger holds its event's lock, and each listener of it is still to be visited, awake or about to be enqueued), `NoSleepOnPending`, `ListenersLive`, `SleeperListed`; for one CPU also `UniInv` (a thread is in the queue as often as its flag says, and what the queue, a CPU or a trigger under way has of a sleeping thread has been fired) | `TypeCorrect`, `NeverSleepsOnPending`, `NoLostWakeup`, `NoDanglingListener`, `AwaitReturnsFired` |
| `SchedProofs` | `TypeOK`, `CpuInv` (what each place in the handler implies for `gs`, `on`, `next`), `OwnInv` (the lock of a thread that a CPU has is taken, by one CPU), `CtxInv`, `NewInv`, `TimerInv`, `HandInv`, `DeadStaysDead` | `TypeCorrect`, `MutualExclusion`, `ContextIntegrity`, `DeathIsFinal`, `NoSilentCpu`, `SchedulingOffHolds` |
| `PipeProofs` | `TypeOK`, `RingInv` (`write_ptr` is `read_ptr + used`, wrapped); `StatusAgrees` is inductive beside it; for one thread at each end also `FilesInv` (the writers' count is that of the descriptors), `SleepInv` (who listens sleeps) and `TurnInv` (who is about to sleep with something to do finds a trigger pending, or the other one waits too) | `TypeCorrect`, `PipeIsFifo` (refinement of `PipeFifo`), `StatusCorrect`, `StuckOnlyTogether` |
| `PmmProofs` | `TypeOK`, `HeldInv`, `Disjoint`, `BitmapExact`, `ScanInv` (the last `p` pages looked at are free), `DoneInv` (no run that is long enough begins in what was passed) | `TypeCorrect`, `NoDoubleAllocation`, `NoLeak`, `BitmapIsOurs`, `HonestFailure` |
| `FdTableProofs` | `TypeInv`, `HandInv`, `TargetInv`, `PublishedInv` (what a call has in hand, in whose table it publishes, and that the descriptor is still there when it counts it), `RefInv` (descriptors, hands and lists of ppoll that refer to a description are no more than its count), `ResourceCounts` | `TypeCorrect`, `NothingDangles`, `ResourceExact` |
| `UnixConnectProofs` | `TypeOK`, `WaitInv`, `LockInv` (accept has the lock from the pop to its return), `ListenInv`, `PeerInv` (a socket is in the backlog, in accept or linked, once), `PeersAgree`, `WakeInv` (pending triggers and servers about to look cover the backlog) | `TypeCorrect`, `EndsAgree`, `PopExclusive`, `NoLostConnect` |
| `NetProofs` | `TypeOK`, `ThreadInv`, `AdapterInv` (which calls can be at which place), `ReceiveInv` (who is to take a datagram has one in the queue, or a rival), `PortInv` (a port that `net_allocport` gave to a socket has its bit set, unless `net_releaseport` has taken it out), `Exclusion`, `AskVain` | `TypeCorrect`, `LockExclusive`, `TakesPacket`, `AsksInVain`, `PortsApart` |
| `NvmeProofs` | `TypeInv`, `LockInv`, `RingInv` (a ring is idle, has one command, or one completion with the phase that the driver waits for), `CacheInv` (only the slot under transfer may differ from the disk), `DiskInv` (the disk is the one the lock was taken with, plus what its holder has written), `PanicInv` | `WaitsForItsOwn`, `PanicsPastEndOnly`, `CacheCoherent`, `RequestsAtomic` (refinement of `BlockDevice`) |

Why the strengthening is needed: `SleeperListed` does not survive a trigger
unless every listener that it has passed is known to be awake or on its way into
the queue (`TriggerInv`), and that nobody attaches meanwhile needs the lock to be
held (`LockInv`). `OneCpu` follows from the lock of
a thread, but a dead thread keeps its lock with nobody having it, and a new one
has none: `OwnInv` and `NewInv` tell these apart. `HonestFailure` needs to know
at the end of a scan what was seen on its way, which is `ScanInv` and `DoneInv`.
`NoUseAfterFree` says nothing of counts, and a free is decided by one:
`RefInv` counts every reference. The window of `fdnum_dup`, which publishes a
descriptor before it counts it, is closed by `TargetInv`: the table is that of
the caller, which is in the call, or of a child that does not run yet. Two
threads of one process would break it (section 4). `PeersAgree`
does not survive an accept unless the sockets it links are known to be linked
nowhere (`PeerInv`). `NoSleepOnBacklog` needs a number, since two connects may
leave two triggers that two servers consume: `WakeInv`. `OwnCompletion` looks at
a phase bit and an identifier that both come round; what makes the match right
is that one command at a time is on a ring, so that all other entries have the
old phase (`RingInv`). Atomicity takes effect when the lock is given up:
`DiskInv` says what a request has done until then. `EmptyTake` speaks of a panic;
the datagram that a receive will take was seen earlier, partly without the lock,
and stays because only a receive takes from a queue and a second one is
remembered as a rival (`ReceiveInv`). `PortsDistinct` needs to know that the bit of
a port is still there when the next one is taken, unless a release has taken it out,
its own or one that wrote back an old byte; nothing has to be known of where a close
falls (`PortInv`). All of `NetProofs` goes through one
lemma, `StepMoves`: a step has one mover, and what it does to a lock, a queue and
its own call is one of a few shapes, whichever action it is.

The hypotheses, beyond the assumptions of the modules:

- The theorems of `PmmProofs` assume `BitmapFits`, that the bitmap's bytes are
  enough for the bits of all pages; section 4 says when they are not.
- `AwaitReturnsFired` assumes `SMP = FALSE`; section 4 says how two triggers on
  two CPUs give a thread a second slot, and the slot a wait without a trigger.
- `StuckOnlyTogether` assumes one reader, one writer and `KeepMode`, that is
  F_SETFL called with the access mode that F_GETFL returned; section 4 says what
  happens otherwise. The capacity and the lengths of reads and
  writes are arbitrary.

The assumptions of the modules are about names (the sets of threads, events,
sockets and so on do not overlap, `None` is in none of them), about sizes (a ring
of a queue has two entries or more, a device a block, there are at least as many
bits as ports), about the types of the calls and frames in the scripts of `Net`,
whose number and length are arbitrary, and that the processes of
`FdTable` and the servers of `UnixConnect` are finitely many, because both are
counted. TLC evaluates them in every run.

The runs check `SleeperListed`, `ListenersLive`, `ReturnsFired`, `OneCpu`,
`LoadsSaved`, `KeepsCpu`, `Refines`, `StuckTogether`, `Disjoint`,
`FailsHonestly`, `NoUseAfterFree`, `ResourceCounts`, `PeersAgree`,
`NoSleepOnBacklog`, `OwnCompletion`, `PanicPastEnd`, `Atomic`, `Exclusion`,
`EmptyTake`, `AskVain` and `PortsDistinct` on small instances; the other theorems (types, `NoSleepOnPending`, `DeadStaysDead`,
`CpuAlive`, `StatusAgrees`, `BitmapExact`, `BitmapOwned`, `PopExclusive`,
`CacheCoherent`) are proved only, as parts of the inductive invariants.

Only model-checked:

- the liveness properties (`TriggerWakes`, `WokenReturns`, `EofDelivered`,
  `SleepEnds`, `LockFreed`, `LockReturned`, `Drains`): they depend on fairness,
  which the prover does not treat;
- `Vfs`, whose walks are recursive operators that the prover cannot use;
- `Fat32`: what a chain of clusters holds is an induction along the table;
- `Timer` and `Vm`: nothing in their invariants is out of the prover's reach; they
  are checked on the small instances of section 4 only.

## 7. What is not modelled

- TCP, for the reason given in section 2.
- ext2: it asks the questions of `Fat32` again, with bitmaps for the table; open.
- The rings of connected UNIX sockets, which repeat those of pipes. A writer that
  finds the ring of its peer full waits for the peer's event, while `unix_read`
  triggers that of its own socket (`unix.c:113`): a read does not wake it.
- waitpid, futexes and the reparenting of children; the heap (`mm/slab.c`).
- The handshake of `tlb_shootdown` with its mailboxes, repeated interrupts and the
  loop that gives up after a thousand tries (`vmm.c:305`): `Vm` has every
  shootdown succeed, `Sched` has it as a stretch with scheduling off.
- Fragments (`net_fragment` copies from a header it has freed), the set-up of the
  8254x, the page lists of NVMe transfers beyond a page.
- In the modelled components: the `-EINTR` path of waits (no caller passes
  `by_signal`), the deadlock counter of `spinlock_acquire` (it turns a deadlock
  into a panic; in `Net`, where a thread can meet its own lock, it is there), the
  statistics of the page allocator, offsets and `FD_CLOEXEC` of descriptors, the
  resources that `ppoll` waits for (`Timer` has only their triggers), the clocks, mmap of FAT32 files, the hash map in the middle
  of an insertion.
- Left out for good: drivers that only move bytes to and from registers (video,
  keyboard, PCI enumeration), boot and descriptor-table set-up, assembly entry
  code, formatting and string helpers, which keep no state that several actors
  share, and vendored code.
