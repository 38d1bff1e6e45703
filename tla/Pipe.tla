-------------------------------- MODULE Pipe --------------------------------
(***************************************************************************)
(* Pipes: kernel/ipc/pipe.c, with the descriptors of kernel/lib/resource.c *)
(* that refer to the two ends and the event (kernel/lib/event.c) on which  *)
(* both readers and writers of the pipe wait.                              *)
(*                                                                         *)
(* A section under the pipe's lock is one step.  A reader that finds the   *)
(* pipe empty, or a writer that finds it full, gives the lock up before it *)
(* calls event_await: "await" is that gap.  Event shows what event_await   *)
(* and event_trigger do: a trigger wakes everybody who listens or, when    *)
(* nobody does, stays pending for one later wait.                          *)
(***************************************************************************)
EXTENDS Integers, Sequences, FiniteSets

CONSTANTS
  Readers,     \* threads that use the read end
  Writers,     \* threads that use the write end
  Bytes,
  Cap,         \* PIPE_BUF
  MaxCount,    \* bound: the largest count of a read or a write
  MaxPending,  \* bound: triggers pending or to come from calls under way
  MaxFds,      \* bound: descriptors of one end
  KeepMode     \* F_SETFL is called with the access mode that F_GETFL returned

Procs == Readers \cup Writers
Ends == {"rd", "wr"}
Modes == {"RDONLY", "WRONLY", "RDWR"}

ASSUME PipeAssumption ==
  /\ Readers \cap Writers = {}
  /\ Bytes # {}
  /\ Cap \in Nat \ {0}
  /\ MaxCount \in Nat /\ MaxPending \in Nat /\ MaxFds \in Nat
  /\ KeepMode \in BOOLEAN

VARIABLES
  data,          \* struct pipe: data
  read_ptr,      \* struct pipe: read_ptr
  write_ptr,     \* struct pipe: write_ptr
  used,          \* struct pipe: used
  reader_count,  \* struct pipe: reader_count
  writer_count,  \* struct pipe: writer_count
  status,        \* struct resource: status
  pending,       \* struct event: pending
  listening,     \* struct event: the threads on its listener array
  fds,           \* descriptors in the tables of processes, per end
  mode,          \* struct f_description: the access mode in flags, per end
  nonblock,      \* struct f_description: O_NONBLOCK in flags, per end
  pc,            \* where each thread is
  count,         \* pipe_read: count
  buf,           \* pipe_write: buf and count
  got            \* what the last read of each reader returned

ring == <<data, read_ptr, write_ptr, used, status>>
counts == <<reader_count, writer_count>>
event == <<pending, listening>>
files == <<fds, mode, nonblock>>
args == <<count, buf>>
vars == <<ring, counts, event, files, pc, args, got>>

Index == 0 .. Cap - 1
Buffers == UNION {[1 .. n -> Bytes] : n \in 0 .. MaxCount}

TypeOK ==
  /\ data \in [Index -> Bytes]
  /\ read_ptr \in Index
  /\ write_ptr \in Index
  /\ used \in 0 .. Cap
  /\ reader_count \in Int
  /\ writer_count \in Int
  /\ status \subseteq {"POLLIN", "POLLOUT"}
  /\ pending \in Nat
  /\ listening \subseteq Procs
  /\ fds \in [Ends -> Nat]
  /\ mode \in [Ends -> Modes]
  /\ nonblock \in [Ends -> BOOLEAN]
  /\ pc \in [Procs -> {"run", "enter", "loop", "await", "sleep", "ref",
                       "trigger"}]
  /\ count \in [Readers -> 0 .. MaxCount]
  /\ buf \in [Writers -> Buffers]
  /\ got \in [Readers -> Seq(Bytes)]

\* syscall_pipe: one descriptor for each end.  pipe_ref has triggered the
\* event for each of them.
Init ==
  /\ data \in [Index -> Bytes]
  /\ read_ptr = 0 /\ write_ptr = 0 /\ used = 0
  /\ reader_count = 1 /\ writer_count = 1
  /\ status = {}
  /\ pending = 2 /\ listening = {}
  /\ fds = [d \in Ends |-> 1]
  /\ mode = [d \in Ends |-> IF d = "rd" THEN "RDONLY" ELSE "WRONLY"]
  /\ nonblock \in {[d \in Ends |-> b] : b \in BOOLEAN}
  /\ pc = [p \in Procs |-> "run"]
  /\ count = [p \in Readers |-> 0]
  /\ buf = [p \in Writers |-> <<>>]
  /\ got = [p \in Readers |-> <<>>]

EndOf(p) == IF p \in Readers THEN "rd" ELSE "wr"

Goto(p, label) == pc' = [pc EXCEPT ![p] = label]

\* Thread p may begin a call; every call triggers the event at most once.
MayBegin(p) ==
  /\ pc[p] = "run" /\ fds[EndOf(p)] > 0
  /\ pending + Cardinality({q \in Procs : pc[q] # "run"}) < MaxPending

\* Mutant of TriggerGoto: drop = true.
TriggerDrop(p, label) ==
  /\ listening' = {}
  /\ pc' = [q \in Procs |-> IF q = p THEN label
                            ELSE IF q \in listening THEN "loop"
                            ELSE pc[q]]
  /\ UNCHANGED pending

\* event_trigger(&this->event, false); then thread p is at the given place.
TriggerGoto(p, label) ==
  IF listening = {}
    THEN /\ pending' = pending + 1
         /\ Goto(p, label)
         /\ UNCHANGED listening
    ELSE /\ listening' = {}
         /\ pc' = [q \in Procs |-> IF q = p THEN label
                                   ELSE IF q \in listening THEN "loop"
                                   ELSE pc[q]]
         /\ UNCHANGED pending

-----------------------------------------------------------------------------
(* The ring buffer *)

BeforeWrap(ptr, n) == IF ptr + n > Cap THEN Cap - ptr ELSE n

AfterWrap(ptr, n) == n - BeforeWrap(ptr, n)

NewPtr(ptr, n) ==
  IF ptr + n > Cap THEN AfterWrap(ptr, n)
  ELSE IF ptr + n = Cap THEN 0
  ELSE ptr + n

\* Mutant of CopyOut: the second memcpy begins where the first one did.
CopyOutSame(n) ==
  [i \in 1 .. n |->
    IF i <= BeforeWrap(read_ptr, n) THEN data[read_ptr + i - 1]
    ELSE data[(read_ptr + i - BeforeWrap(read_ptr, n) - 1) % Cap]]

\* pipe_read: the two memcpy calls.
CopyOut(n) ==
  [i \in 1 .. n |->
    IF i <= BeforeWrap(read_ptr, n) THEN data[read_ptr + i - 1]
    ELSE data[i - BeforeWrap(read_ptr, n) - 1]]

\* pipe_write: the two memcpy calls.
CopyIn(s, n) ==
  [i \in Index |->
    IF write_ptr <= i /\ i < write_ptr + BeforeWrap(write_ptr, n)
      THEN s[i - write_ptr + 1]
    ELSE IF i < AfterWrap(write_ptr, n) THEN s[BeforeWrap(write_ptr, n) + i + 1]
    ELSE data[i]]

-----------------------------------------------------------------------------
(* pipe_read *)

ReadBegin(p, n) ==
  /\ MayBegin(p)
  /\ count' = [count EXCEPT ![p] = n]
  /\ Goto(p, "loop")
  /\ UNCHANGED <<ring, counts, event, files, buf, got>>

\* Nothing to read and nobody to write it, or the caller does not wait.
ReadEmpty(p) ==
  /\ pc[p] = "loop" /\ used = 0
  /\ writer_count = 0 \/ nonblock["rd"]
  /\ got' = [got EXCEPT ![p] = <<>>]
  /\ count' = [count EXCEPT ![p] = 0]
  /\ Goto(p, "run")
  /\ UNCHANGED <<ring, counts, event, files, buf>>

ReadWait(p) ==
  /\ pc[p] = "loop" /\ used = 0
  /\ writer_count # 0 /\ ~nonblock["rd"]
  /\ Goto(p, "await")
  /\ UNCHANGED <<ring, counts, event, files, args, got>>

\* The new status of the resource when left bytes stay in the pipe.
ReadStatus(left) ==
  (status \ (IF left = 0 THEN {"POLLIN"} ELSE {}))
    \cup (IF left < Cap THEN {"POLLOUT"} ELSE {})

ReadData(p) ==
  /\ pc[p] = "loop" /\ used # 0
  /\ LET n == IF used < count[p] THEN used ELSE count[p] IN
       /\ got' = [got EXCEPT ![p] = CopyOut(n)]
       /\ read_ptr' = NewPtr(read_ptr, n)
       /\ used' = used - n
       /\ status' = ReadStatus(used - n)
  /\ count' = [count EXCEPT ![p] = 0]
  /\ TriggerGoto(p, "run")
  /\ UNCHANGED <<data, write_ptr, counts, files, buf>>

-----------------------------------------------------------------------------
(* pipe_write *)

WriteBegin(p, s) ==
  /\ MayBegin(p)
  /\ buf' = [buf EXCEPT ![p] = s]
  /\ Goto(p, "enter")
  /\ UNCHANGED <<ring, counts, event, files, count, got>>

\* EPIPE, which only the beginning of the call looks for.
WriteBroken(p) ==
  /\ pc[p] = "enter" /\ reader_count = 0
  /\ buf' = [buf EXCEPT ![p] = <<>>]
  /\ Goto(p, "run")
  /\ UNCHANGED <<ring, counts, event, files, count, got>>

Writes(p) == pc[p] = "loop" \/ (pc[p] = "enter" /\ reader_count # 0)

WriteWait(p) ==
  /\ Writes(p) /\ used = Cap
  /\ Goto(p, "await")
  /\ UNCHANGED <<ring, counts, event, files, args, got>>

WriteStatus(now) ==
  (status \ (IF now = Cap THEN {"POLLOUT"} ELSE {})) \cup {"POLLIN"}

WriteData(p) ==
  /\ Writes(p) /\ used # Cap
  /\ LET n == IF used + Len(buf[p]) > Cap THEN Cap - used ELSE Len(buf[p]) IN
       /\ data' = CopyIn(buf[p], n)
       /\ write_ptr' = NewPtr(write_ptr, n)
       /\ used' = used + n
       /\ status' = WriteStatus(used + n)
  /\ buf' = [buf EXCEPT ![p] = <<>>]
  /\ TriggerGoto(p, "run")
  /\ UNCHANGED <<read_ptr, counts, files, count, got>>

-----------------------------------------------------------------------------
(* event_await with the pipe's event, outside the pipe's lock *)

AwaitPending(p) ==
  /\ pc[p] = "await" /\ pending > 0
  /\ pending' = pending - 1
  /\ Goto(p, "loop")
  /\ UNCHANGED <<ring, counts, listening, files, args, got>>

AwaitSleep(p) ==
  /\ pc[p] = "await" /\ pending = 0
  /\ listening' = listening \cup {p}
  /\ Goto(p, "sleep")
  /\ UNCHANGED <<ring, counts, pending, files, args, got>>

\* A thread that has two slots of the run queue comes back without a trigger.
AwaitSpurious(p) ==
  /\ pc[p] = "sleep"
  /\ listening' = listening \ {p}
  /\ Goto(p, "loop")
  /\ UNCHANGED <<ring, counts, pending, files, args, got>>

-----------------------------------------------------------------------------
(* Descriptors: dup, fork and close; fcntl *)

\* The assertion of pipe_ref and pipe_unref, "pipe with O_RDWR".
AssertMode(d) == mode[d] # "RDWR"

\* pipe_ref and pipe_unref: which count the access mode says.
AddCount(d, n) ==
  IF mode[d] = "WRONLY"
    THEN writer_count' = writer_count + n /\ UNCHANGED reader_count
    ELSE reader_count' = reader_count + n /\ UNCHANGED writer_count

\* fdnum_dup puts the new descriptor into the table ...
Dup(p) ==
  /\ MayBegin(p) /\ fds[EndOf(p)] < MaxFds
  /\ fds' = [fds EXCEPT ![EndOf(p)] = @ + 1]
  /\ Goto(p, "ref")
  /\ UNCHANGED <<ring, counts, event, mode, nonblock, args, got>>

\* ... before it calls pipe_ref.
Ref(p) ==
  /\ pc[p] = "ref"
  /\ AssertMode(EndOf(p))
  /\ AddCount(EndOf(p), 1)
  /\ Goto(p, "trigger")
  /\ UNCHANGED <<ring, event, files, args, got>>

\* Mutant of Close: the event is not triggered.
CloseSilent(p) ==
  /\ MayBegin(p)
  /\ AssertMode(EndOf(p))
  /\ AddCount(EndOf(p), -1)
  /\ fds' = [fds EXCEPT ![EndOf(p)] = @ - 1]
  /\ UNCHANGED <<ring, event, mode, nonblock, pc, args, got>>

\* fdnum_close, under the lock of the table: pipe_unref, then the slot.
Close(p) ==
  /\ MayBegin(p)
  /\ AssertMode(EndOf(p))
  /\ AddCount(EndOf(p), -1)
  /\ fds' = [fds EXCEPT ![EndOf(p)] = @ - 1]
  /\ Goto(p, "trigger")
  /\ UNCHANGED <<ring, event, mode, nonblock, args, got>>

\* The end of pipe_ref and of pipe_unref.
RefTrigger(p) ==
  /\ pc[p] = "trigger"
  /\ TriggerGoto(p, "run")
  /\ UNCHANGED <<ring, counts, files, args, got>>

\* syscall_fcntl with F_SETFL.
SetFlags(p, m, b) ==
  /\ pc[p] = "run" /\ fds[EndOf(p)] > 0
  /\ KeepMode => m = mode[EndOf(p)]
  /\ mode' = [mode EXCEPT ![EndOf(p)] = m]
  /\ nonblock' = [nonblock EXCEPT ![EndOf(p)] = b]
  /\ UNCHANGED <<ring, counts, event, fds, pc, args, got>>

-----------------------------------------------------------------------------

\* What a call that has begun goes on with.
ReadStep(p) == ReadEmpty(p) \/ ReadWait(p) \/ ReadData(p)
WriteStep(p) == WriteBroken(p) \/ WriteWait(p) \/ WriteData(p)
AwaitStep(p) == AwaitPending(p) \/ AwaitSleep(p)
FileStep(p) == Ref(p) \/ RefTrigger(p)

Next ==
  \/ \E p \in Readers : ReadStep(p) \/ \E n \in 0 .. MaxCount : ReadBegin(p, n)
  \/ \E p \in Writers : WriteStep(p) \/ \E s \in Buffers : WriteBegin(p, s)
  \/ \E p \in Procs :
       \/ AwaitStep(p) \/ AwaitSpurious(p)
       \/ FileStep(p) \/ Dup(p) \/ Close(p)
       \/ \E m \in Modes, b \in BOOLEAN : SetFlags(p, m, b)

Spec == Init /\ [][Next]_vars

\* The scheduler lets every thread that runs go on.
Fairness ==
  /\ \A p \in Readers : WF_vars(ReadStep(p))
  /\ \A p \in Writers : WF_vars(WriteStep(p))
  /\ \A p \in Procs : WF_vars(AwaitStep(p)) /\ WF_vars(FileStep(p))

FairSpec == Spec /\ Fairness

-----------------------------------------------------------------------------
(* Properties *)

\* Where the byte with the given number is, counted from the read pointer.
At(i) == IF read_ptr + i - 1 >= Cap THEN read_ptr + i - 1 - Cap
                                    ELSE read_ptr + i - 1

Queue == [i \in 1 .. used |-> data[At(i)]]

Fifo == INSTANCE PipeFifo WITH queue <- Queue

\* pipe_read and pipe_write are a FIFO of PIPE_BUF bytes: however reads and
\* writes interleave and wrap, every byte comes out once and in order, and a
\* call moves as much as it can.
Refines == Fifo!Spec

\* ppoll may rely on the status: it shows POLLIN whenever there is something
\* to read and never POLLOUT when nothing can be written.
StatusAgrees ==
  /\ used > 0 => "POLLIN" \in status
  /\ used = Cap => "POLLOUT" \notin status

Waits(P) == \E p \in P : pc[p] \in {"loop", "await", "sleep"}

\* A wakeup that goes to the wrong end leaves both ends asleep, never one: a
\* reader sleeps over bytes only while a writer waits for room in a full pipe,
\* a writer over room only while a reader waits for bytes in an empty one.
\* (With one thread at each end.)
StuckTogether ==
  /\ \A p \in Readers : pc[p] = "sleep" /\ used > 0 => used = Cap /\ Waits(Writers)
  /\ \A p \in Writers : pc[p] = "sleep" /\ used < Cap => used = 0 /\ Waits(Readers)

\* End of file arrives: once the last writer is gone a read returns.  (With
\* one reader; see README for two.)
EofDelivered ==
  \A p \in Readers :
    (pc[p] \in {"loop", "await", "sleep"} /\ writer_count = 0) ~> pc[p] = "run"

=============================================================================
