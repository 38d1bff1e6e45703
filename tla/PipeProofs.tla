----------------------------- MODULE PipeProofs -----------------------------
(***************************************************************************)
(* Proofs about Pipe.  The ring's pointers agree with the number of bytes, *)
(* so the bytes between them are the queue of PipeFifo.                    *)
(***************************************************************************)
EXTENDS Pipe, SequenceTheorems, TLAPS

\* The write pointer is the read pointer plus the bytes used, wrapped once.
RingInv ==
  write_ptr = IF read_ptr + used >= Cap THEN read_ptr + used - Cap
                                        ELSE read_ptr + used

IInv == TypeOK /\ RingInv

-----------------------------------------------------------------------------

\* Buffers are sequences of at most MaxCount bytes.
LEMMA BuffersAreSequences ==
  ASSUME NEW s \in Buffers
  PROVE  s \in Seq(Bytes) /\ Len(s) \in 0 .. MaxCount
<1>1. PICK n \in 0 .. MaxCount : s \in [1 .. n -> Bytes]
  BY DEF Buffers
<1>2. n \in Nat
  BY <1>1, PipeAssumption
<1> QED
  BY <1>1, <1>2

\* NewPtr moves a pointer of the ring by at most the capacity.
LEMMA NewPtrInRing ==
  ASSUME NEW ptr \in Index, NEW n \in 0 .. Cap
  PROVE  /\ NewPtr(ptr, n) \in Index
         /\ NewPtr(ptr, n) = IF ptr + n >= Cap THEN ptr + n - Cap ELSE ptr + n
<1> USE PipeAssumption
<1>1. CASE ptr + n > Cap
  BY <1>1 DEF NewPtr, AfterWrap, BeforeWrap, Index
<1>2. CASE ptr + n = Cap
  BY <1>2 DEF NewPtr, AfterWrap, BeforeWrap, Index
<1>3. CASE ptr + n < Cap
  BY <1>3 DEF NewPtr, AfterWrap, BeforeWrap, Index
<1> QED
  BY <1>1, <1>2, <1>3 DEF Index

\* The bytes of the queue are bytes of the buffer.
LEMMA QueueType ==
  ASSUME TypeOK
  PROVE  /\ Queue \in Seq(Bytes) /\ Len(Queue) = used
         /\ used \in Nat /\ Cap \in Nat
         /\ \A i \in 1 .. used : At(i) \in Index
<1> USE PipeAssumption
<1>1. used \in Nat /\ Cap \in Nat /\ used <= Cap
  BY DEF TypeOK
<1>2. \A i \in 1 .. used : At(i) \in Index
  BY <1>1 DEF TypeOK, At, Index
<1>3. \A i \in 1 .. used : data[At(i)] \in Bytes
  BY <1>2 DEF TypeOK
<1> QED
  BY <1>1, <1>2, <1>3 DEF Queue

\* What the two memcpy calls of pipe_read copy is the front of the queue.
LEMMA CopyOutIsFront ==
  ASSUME TypeOK, NEW n \in 0 .. used
  PROVE  /\ CopyOut(n) = SubSeq(Queue, 1, n)
         /\ CopyOut(n) \in Seq(Bytes)
<1> USE PipeAssumption
<1>1. used \in 0 .. Cap /\ read_ptr \in 0 .. Cap - 1 /\ n \in Nat
  BY DEF TypeOK, Index
<1>2. ASSUME NEW i \in 1 .. n
      PROVE  CopyOut(n)[i] = Queue[i]
  <2>1. CopyOut(n)[i] = data[At(i)]
    BY <1>1 DEF CopyOut, At, BeforeWrap
  <2> QED
    BY <2>1, <1>1 DEF Queue
<1>3. SubSeq(Queue, 1, n) = [i \in 1 .. n |-> Queue[i]]
  BY QueueType, <1>1
<1>4. CopyOut(n) = [i \in 1 .. n |-> Queue[i]]
  BY <1>2 DEF CopyOut
<1>5. SubSeq(Queue, 1, n) \in Seq(Bytes)
  BY QueueType, <1>1
<1> QED
  BY <1>3, <1>4, <1>5

\* What is left of the queue after a read of n bytes.
LEMMA ReadLeavesRest ==
  ASSUME TypeOK, NEW n \in 0 .. used,
         data' = data, read_ptr' = NewPtr(read_ptr, n), used' = used - n
  PROVE  Queue' = SubSeq(Queue, n + 1, Len(Queue))
<1> USE PipeAssumption
<1>1. used \in 0 .. Cap /\ read_ptr \in 0 .. Cap - 1 /\ n \in Nat
  BY DEF TypeOK, Index
<1>2. read_ptr' = IF read_ptr + n >= Cap THEN read_ptr + n - Cap ELSE read_ptr + n
  <2>1. read_ptr \in Index /\ n \in 0 .. Cap
    BY <1>1 DEF Index
  <2> QED
    BY <2>1, NewPtrInRing
<1>3. \A i \in 1 .. used - n : At(i)' = At(i + n)
  BY <1>1, <1>2 DEF At
<1>4. \A i \in 1 .. used - n : Queue[i + n] = data[At(i + n)]
  BY <1>1 DEF Queue
<1>5. Queue' = [i \in 1 .. used - n |-> Queue[i + n]]
  BY <1>3, <1>4 DEF Queue
<1>6. SubSeq(Queue, n + 1, Len(Queue)) = [i \in 1 .. used - n |-> Queue[i + n]]
  BY QueueType, <1>1
<1> QED
  BY <1>5, <1>6

\* The two memcpy calls of pipe_write append to the queue.
LEMMA CopyInAppends ==
  ASSUME TypeOK, RingInv,
         NEW s \in Seq(Bytes), NEW n \in 0 .. Len(s), n <= Cap - used,
         data' = CopyIn(s, n), read_ptr' = read_ptr, used' = used + n
  PROVE  /\ data' \in [Index -> Bytes]
         /\ Queue' = Queue \o SubSeq(s, 1, n)
<1> USE PipeAssumption
<1>1. /\ used \in 0 .. Cap /\ read_ptr \in 0 .. Cap - 1
      /\ write_ptr \in 0 .. Cap - 1 /\ n \in Nat /\ Len(s) \in Nat
      /\ data \in [0 .. Cap - 1 -> Bytes]
  BY DEF TypeOK, Index
<1>2. ASSUME NEW i \in Index
      PROVE  CopyIn(s, n)[i] \in Bytes
  <2>1. CASE write_ptr <= i /\ i < write_ptr + BeforeWrap(write_ptr, n)
    <3>1. i - write_ptr + 1 \in 1 .. Len(s)
      BY <1>1, <2>1 DEF BeforeWrap, Index
    <3> QED
      BY <3>1, <2>1 DEF CopyIn
  <2>2. CASE /\ ~(write_ptr <= i /\ i < write_ptr + BeforeWrap(write_ptr, n))
             /\ i < AfterWrap(write_ptr, n)
    <3>1. BeforeWrap(write_ptr, n) + i + 1 \in 1 .. Len(s)
      BY <1>1, <2>2 DEF BeforeWrap, AfterWrap, Index
    <3> QED
      BY <3>1, <2>2 DEF CopyIn
  <2>3. CASE /\ ~(write_ptr <= i /\ i < write_ptr + BeforeWrap(write_ptr, n))
             /\ ~(i < AfterWrap(write_ptr, n))
    BY <2>3, <1>1 DEF CopyIn, Index
  <2> QED
    BY <2>1, <2>2, <2>3
<1>3. data' \in [Index -> Bytes]
  BY <1>2 DEF CopyIn
<1>4. ASSUME NEW i \in 1 .. used
      PROVE  data'[At(i)] = data[At(i)]
  BY <1>1 DEF RingInv, At, CopyIn, BeforeWrap, AfterWrap, Index
<1>5. ASSUME NEW i \in used + 1 .. used + n
      PROVE  data'[At(i)] = s[i - used]
  <2>1. At(i) \in Index
    BY <1>1 DEF At, Index
  <2>2. CASE write_ptr + (i - used) <= Cap
    <3>1. At(i) = write_ptr + (i - used) - 1
      BY <1>1, <2>2 DEF RingInv, At
    <3>2. At(i) < write_ptr + BeforeWrap(write_ptr, n)
      BY <1>1, <2>2, <3>1 DEF BeforeWrap
    <3>3. At(i) - write_ptr + 1 = i - used /\ write_ptr <= At(i)
      BY <1>1, <3>1
    <3> QED
      BY <2>1, <3>2, <3>3 DEF CopyIn
  <2>3. CASE write_ptr + (i - used) > Cap
    <3>1. At(i) = write_ptr + (i - used) - 1 - Cap
      BY <1>1, <2>3 DEF RingInv, At
    <3>2. /\ At(i) < AfterWrap(write_ptr, n) /\ At(i) < write_ptr
          /\ BeforeWrap(write_ptr, n) + At(i) + 1 = i - used
      BY <1>1, <2>3, <3>1 DEF BeforeWrap, AfterWrap
    <3>3. data'[At(i)] = s[BeforeWrap(write_ptr, n) + At(i) + 1]
      BY <2>1, <3>2, <1>1 DEF CopyIn, Index
    <3> QED
      BY <3>2, <3>3
  <2> QED
    BY SMTT(40), <2>2, <2>3, <1>1
<1>6. \A i : At(i)' = At(i)
  BY DEF At
<1>7. Queue' = [i \in 1 .. used + n |-> data'[At(i)]]
  BY <1>6 DEF Queue
<1>8. DEFINE a == SubSeq(s, 1, n)
<1>9. a \in Seq(Bytes) /\ Len(a) = n /\ \A i \in 1 .. n : a[i] = s[i]
  BY <1>1
<1>10. Queue \in Seq(Bytes) /\ Len(Queue) = used
  BY QueueType
<1> HIDE DEF a
<1>11. /\ Queue \o a \in Seq(Bytes) /\ Len(Queue \o a) = used + n
       /\ \A i \in 1 .. used + n :
            (Queue \o a)[i] = IF i <= used THEN Queue[i] ELSE a[i - used]
  <2>1. /\ Queue \o a \in Seq(Bytes)
        /\ Len(Queue \o a) = Len(Queue) + Len(a)
        /\ \A i \in 1 .. Len(Queue) + Len(a) :
             (Queue \o a)[i] = IF i <= Len(Queue) THEN Queue[i] ELSE a[i - Len(Queue)]
    BY ZenonT(60), <1>9, <1>10, ConcatProperties
  <2> QED
    BY <2>1, <1>9, <1>10
<1>12. ASSUME NEW i \in 1 .. used + n
       PROVE  data'[At(i)] = IF i <= used THEN Queue[i] ELSE a[i - used]
  <2>1. CASE i <= used
    <3>1. Queue[i] = data[At(i)]
      BY <2>1, <1>1 DEF Queue
    <3> QED
      BY SMTT(40), <3>1, <2>1, <1>1, <1>4
  <2>2. CASE i > used
    BY <2>2, <1>1, <1>5, <1>9
  <2> QED
    BY <2>1, <2>2, <1>1
<1>13. \A i \in 1 .. used + n : data'[At(i)] \in Bytes
  <2>1. \A i \in 1 .. used + n : At(i) \in Index
    BY <1>1 DEF At, Index
  <2> QED
    BY <2>1, <1>3
<1>14. Queue' \in Seq(Bytes) /\ Len(Queue') = used + n
  BY <1>1, <1>7, <1>13
<1>15. \A i \in 1 .. used + n : Queue'[i] = (Queue \o a)[i]
  BY <1>7, <1>11, <1>12
<1>16. Queue' = Queue \o a
  BY <1>11, <1>14, <1>15, SeqEqual
<1> QED
  BY <1>3, <1>16 DEF a

-----------------------------------------------------------------------------

\* event_trigger leaves every thread somewhere, and nobody new listens.
LEMMA TriggerType ==
  ASSUME TypeOK, NEW p \in Procs,
         NEW label \in {"run", "loop"}, TriggerGoto(p, label)
  PROVE  /\ pending' \in Nat
         /\ listening' \subseteq Procs
         /\ pc' \in [Procs -> {"run", "enter", "loop", "await", "sleep", "ref",
                              "trigger"}]
<1>0. /\ pending \in Nat /\ listening \subseteq Procs
      /\ pc \in [Procs -> {"run", "enter", "loop", "await", "sleep", "ref",
                          "trigger"}]
  BY DEF TypeOK
<1>1. CASE listening = {}
  <2>1. /\ pending' = pending + 1 /\ listening' = listening
        /\ pc' = [pc EXCEPT ![p] = label]
    BY <1>1, Zenon DEF TriggerGoto, Goto
  <2> QED
    BY <1>0, <2>1
<1>2. CASE listening # {}
  <2>1. /\ listening' = {} /\ pending' = pending
        /\ pc' = [q \in Procs |-> IF q = p THEN label
                                  ELSE IF q \in listening THEN "loop"
                                  ELSE pc[q]]
    BY <1>2, Zenon DEF TriggerGoto
  <2> QED
    BY <1>0, <2>1
<1> QED
  BY <1>1, <1>2

\* A read of data keeps the types and the pointers' relation.
LEMMA ReadDataInv ==
  ASSUME IInv, NEW p \in Readers, ReadData(p)
  PROVE  IInv'
<1> USE PipeAssumption
<1> DEFINE n == IF used < count[p] THEN used ELSE count[p]
<1>1. /\ used \in 0 .. Cap /\ read_ptr \in 0 .. Cap - 1
      /\ write_ptr \in 0 .. Cap - 1 /\ count[p] \in 0 .. MaxCount
      /\ TypeOK /\ RingInv /\ p \in Procs
  BY DEF IInv, TypeOK, Index, Procs
<1>2. n \in 0 .. used /\ n \in 0 .. Cap /\ read_ptr \in Index
  BY <1>1 DEF Index
<1>3. /\ got' = [got EXCEPT ![p] = CopyOut(n)]
      /\ read_ptr' = NewPtr(read_ptr, n)
      /\ used' = used - n
      /\ status' = ReadStatus(used - n)
      /\ count' = [count EXCEPT ![p] = 0]
      /\ TriggerGoto(p, "run")
      /\ UNCHANGED <<data, write_ptr, counts, files, buf>>
  BY DEF ReadData
<1> HIDE DEF n
<1>4. CopyOut(n) \in Seq(Bytes)
  BY <1>1, <1>2, CopyOutIsFront
<1>5. /\ read_ptr' \in Index
      /\ read_ptr' = IF read_ptr + n >= Cap THEN read_ptr + n - Cap ELSE read_ptr + n
  BY <1>2, <1>3, NewPtrInRing
<1>6. used' \in 0 .. Cap
  BY <1>1, <1>2, <1>3
<1>7. status' \subseteq {"POLLIN", "POLLOUT"}
  BY <1>1, <1>3 DEF ReadStatus, TypeOK
<1>8. /\ pending' \in Nat
      /\ listening' \subseteq Procs
      /\ pc' \in [Procs -> {"run", "enter", "loop", "await", "sleep", "ref",
                           "trigger"}]
  BY <1>1, <1>3, TriggerType
<1>9. got' \in [Readers -> Seq(Bytes)] /\ count' \in [Readers -> 0 .. MaxCount]
  BY <1>1, <1>3, <1>4 DEF TypeOK
<1>10. TypeOK'
  BY <1>1, <1>3, <1>5, <1>6, <1>7, <1>8, <1>9 DEF TypeOK, counts, files
<1>11. RingInv'
  BY <1>1, <1>2, <1>3, <1>5 DEF RingInv
<1> QED
  BY <1>10, <1>11 DEF IInv

\* A write keeps the types and the pointers' relation.
LEMMA WriteDataInv ==
  ASSUME IInv, NEW p \in Writers, WriteData(p)
  PROVE  IInv'
<1> USE PipeAssumption
<1> DEFINE n == IF used + Len(buf[p]) > Cap THEN Cap - used ELSE Len(buf[p])
<1>1. /\ used \in 0 .. Cap /\ read_ptr \in 0 .. Cap - 1
      /\ write_ptr \in 0 .. Cap - 1 /\ buf[p] \in Buffers
      /\ TypeOK /\ RingInv /\ p \in Procs
  BY DEF IInv, TypeOK, Index, Procs
<1>2. buf[p] \in Seq(Bytes) /\ Len(buf[p]) \in Nat
  BY <1>1, BuffersAreSequences
<1>3. n \in 0 .. Len(buf[p]) /\ n \in 0 .. Cap /\ n <= Cap - used
  BY <1>1, <1>2
<1>4. /\ data' = CopyIn(buf[p], n)
      /\ write_ptr' = NewPtr(write_ptr, n)
      /\ used' = used + n
      /\ status' = WriteStatus(used + n)
      /\ buf' = [buf EXCEPT ![p] = <<>>]
      /\ TriggerGoto(p, "run")
      /\ UNCHANGED <<read_ptr, counts, files, count, got>>
  BY DEF WriteData
<1> HIDE DEF n
<1>5. data' \in [Index -> Bytes]
  BY <1>1, <1>2, <1>3, <1>4, CopyInAppends
<1>6. /\ write_ptr' \in Index
      /\ write_ptr' = IF write_ptr + n >= Cap THEN write_ptr + n - Cap ELSE write_ptr + n
  BY <1>1, <1>3, <1>4, NewPtrInRing DEF Index
<1>7. used' \in 0 .. Cap
  BY <1>1, <1>3, <1>4
<1>8. status' \subseteq {"POLLIN", "POLLOUT"}
  BY <1>1, <1>4 DEF WriteStatus, TypeOK
<1>9. /\ pending' \in Nat
      /\ listening' \subseteq Procs
      /\ pc' \in [Procs -> {"run", "enter", "loop", "await", "sleep", "ref",
                           "trigger"}]
  BY <1>1, <1>4, TriggerType
<1>10. buf' \in [Writers -> Buffers]
  <2>1. <<>> \in [1 .. 0 -> Bytes]
    OBVIOUS
  <2>2. <<>> \in Buffers
    BY <2>1 DEF Buffers
  <2> QED
    BY <1>1, <1>4, <2>2 DEF TypeOK
<1>11. TypeOK'
  BY <1>1, <1>4, <1>5, <1>6, <1>7, <1>8, <1>9, <1>10 DEF TypeOK, counts, files
<1>12. RingInv'
  BY <1>1, <1>3, <1>4, <1>6 DEF RingInv
<1> QED
  BY <1>11, <1>12 DEF IInv


\* The type invariant and the pointers' relation are inductive.
THEOREM Inductive == Spec => []IInv
<1> USE PipeAssumption
<1>1. Init => IInv
  <2> SUFFICES ASSUME Init PROVE IInv
    OBVIOUS
  <2>1. <<>> \in [1 .. 0 -> Bytes] /\ 0 \in 0 .. MaxCount
    OBVIOUS
  <2>2. <<>> \in Buffers
    BY <2>1 DEF Buffers
  <2>3. nonblock \in [Ends -> BOOLEAN] /\ mode \in [Ends -> Modes]
    BY DEF Init, Ends, Modes
  <2>4. TypeOK
    BY <2>1, <2>2, <2>3 DEF Init, TypeOK, Index
  <2>5. RingInv
    BY DEF Init, RingInv
  <2> QED
    BY <2>4, <2>5 DEF IInv
<1>2. IInv /\ [Next]_vars => IInv'
  <2> SUFFICES ASSUME IInv, [Next]_vars PROVE IInv'
    OBVIOUS
  <2>1. ASSUME NEW p \in Readers, NEW m \in 0 .. MaxCount, ReadBegin(p, m)
        PROVE  IInv'
    BY <2>1 DEF IInv, TypeOK, RingInv, ReadBegin, Goto, ring, counts, event,
                files, Procs
  <2>2. ASSUME NEW p \in Readers, ReadEmpty(p)
        PROVE  IInv'
    BY <2>2 DEF IInv, TypeOK, RingInv, ReadEmpty, Goto, ring, counts, event,
                files, Procs
  <2>3. ASSUME NEW p \in Readers, ReadWait(p)
        PROVE  IInv'
    BY <2>3 DEF IInv, TypeOK, RingInv, ReadWait, Goto, ring, counts, event,
                files, args, Procs
  <2>4. ASSUME NEW p \in Readers, ReadData(p)
        PROVE  IInv'
    BY <2>4, ReadDataInv
  <2>5. ASSUME NEW p \in Writers, NEW s \in Buffers, WriteBegin(p, s)
        PROVE  IInv'
    BY <2>5 DEF IInv, TypeOK, RingInv, WriteBegin, Goto, ring, counts, event,
                files, Procs
  <2>6. ASSUME NEW p \in Writers, WriteBroken(p)
        PROVE  IInv'
    <3>1. <<>> \in [1 .. 0 -> Bytes]
      OBVIOUS
    <3>2. <<>> \in Buffers
      BY <3>1 DEF Buffers
    <3> QED
      BY <2>6, <3>2 DEF IInv, TypeOK, RingInv, WriteBroken, Goto, ring, counts,
                        event, files, Procs
  <2>7. ASSUME NEW p \in Writers, WriteWait(p)
        PROVE  IInv'
    BY <2>7 DEF IInv, TypeOK, RingInv, WriteWait, Goto, ring, counts, event,
                files, args, Procs
  <2>8. ASSUME NEW p \in Writers, WriteData(p)
        PROVE  IInv'
    BY <2>8, WriteDataInv
  <2>9. ASSUME NEW p \in Procs, AwaitPending(p)
        PROVE  IInv'
    BY <2>9 DEF IInv, TypeOK, RingInv, AwaitPending, Goto, ring, counts, files,
                args
  <2>10. ASSUME NEW p \in Procs, AwaitSleep(p)
         PROVE  IInv'
    BY <2>10 DEF IInv, TypeOK, RingInv, AwaitSleep, Goto, ring, counts, files,
                 args
  <2>11. ASSUME NEW p \in Procs, AwaitSpurious(p)
         PROVE  IInv'
    BY <2>11 DEF IInv, TypeOK, RingInv, AwaitSpurious, Goto, ring, counts, files,
                 args
  <2>12. ASSUME NEW p \in Procs, Dup(p)
         PROVE  IInv'
    BY SMTT(40), <2>12 DEF IInv, TypeOK, RingInv, Dup, EndOf, Ends, Goto, ring, counts,
                 event, args
  <2>13. ASSUME NEW p \in Procs, Ref(p)
         PROVE  IInv'
    BY <2>13 DEF IInv, TypeOK, RingInv, Ref, AddCount, Goto, ring, event, files,
                 args
  <2>14. ASSUME NEW p \in Procs, Close(p)
         PROVE  IInv'
    <3>1. fds' \in [Ends -> Nat]
      BY <2>14 DEF IInv, TypeOK, Close, MayBegin, EndOf, Ends
    <3>2. reader_count' \in Int /\ writer_count' \in Int
      BY <2>14 DEF IInv, TypeOK, Close, AddCount
    <3> QED
      BY <2>14, <3>1, <3>2 DEF IInv, TypeOK, RingInv, Close, Goto, ring, event,
                               args
  <2>15. ASSUME NEW p \in Procs, RefTrigger(p)
         PROVE  IInv'
    <3>1. /\ pending' \in Nat
          /\ listening' \subseteq Procs
          /\ pc' \in [Procs -> {"run", "enter", "loop", "await", "sleep", "ref",
                               "trigger"}]
      BY <2>15, TriggerType DEF RefTrigger, IInv
    <3> QED
      BY <2>15, <3>1 DEF RefTrigger, IInv, TypeOK, RingInv, ring, counts, files,
                         args
  <2>16. ASSUME NEW p \in Procs, NEW m \in Modes, NEW b \in BOOLEAN,
                SetFlags(p, m, b)
         PROVE  IInv'
    BY <2>16 DEF IInv, TypeOK, RingInv, SetFlags, EndOf, Ends, ring, counts,
                 event, args
  <2>17. CASE UNCHANGED vars
    BY <2>17 DEF IInv, TypeOK, RingInv, vars, ring, counts, event, files, args
  <2> HIDE DEF IInv
  <2> QED
    BY <2>1, <2>2, <2>3, <2>4, <2>5, <2>6, <2>7, <2>8, <2>9, <2>10, <2>11, <2>12,
       <2>13, <2>14, <2>15, <2>16, <2>17
       DEF Next, ReadStep, WriteStep, AwaitStep, FileStep
<1> QED
  BY <1>1, <1>2, PTL DEF Spec

\* Type correctness: the pointers stay in the ring, used within its capacity.
THEOREM TypeCorrect == Spec => []TypeOK
<1>1. IInv => TypeOK
  BY DEF IInv
<1> QED
  BY <1>1, Inductive, PTL

-----------------------------------------------------------------------------

\* The pipe is a FIFO: pipe_read and pipe_write implement the abstract queue,
\* for every capacity and every number of readers and writers.
THEOREM PipeIsFifo == Spec => Refines
<1> USE PipeAssumption
<1>1. Init => Fifo!Init
  BY DEF Init, Fifo!Init, Queue
<1>2. IInv /\ [Next]_vars => [Fifo!Next]_<<Queue, got>>
  <2> SUFFICES ASSUME IInv, [Next]_vars
               PROVE  Fifo!Next \/ UNCHANGED <<Queue, got>>
    OBVIOUS
  <2>1. /\ TypeOK /\ RingInv
        /\ used \in 0 .. Cap /\ Len(Queue) = used /\ Queue \in Seq(Bytes)
    BY QueueType DEF IInv, TypeOK
  <2>2. ASSUME NEW p \in Readers, ReadData(p)
        PROVE  Fifo!Get(p, count[p]) /\ count[p] \in 0 .. MaxCount
    <3> DEFINE n == IF used < count[p] THEN used ELSE count[p]
    <3>1. count[p] \in 0 .. MaxCount
      BY <2>1 DEF TypeOK
    <3>2. n \in 0 .. used /\ n = Fifo!Least(count[p], Len(Queue))
      BY <2>1, <3>1 DEF Fifo!Least
    <3>3. /\ got' = [got EXCEPT ![p] = CopyOut(n)]
          /\ read_ptr' = NewPtr(read_ptr, n)
          /\ used' = used - n /\ data' = data
      BY <2>2 DEF ReadData
    <3> HIDE DEF n
    <3>4. CopyOut(n) = SubSeq(Queue, 1, n)
      BY <2>1, <3>2, CopyOutIsFront
    <3>5. Queue' = SubSeq(Queue, n + 1, Len(Queue))
      BY <2>1, <3>2, <3>3, ReadLeavesRest
    <3> QED
      BY <3>1, <3>2, <3>3, <3>4, <3>5 DEF Fifo!Get
  <2>3. ASSUME NEW p \in Readers, ReadEmpty(p)
        PROVE  Fifo!Get(p, count[p]) /\ count[p] \in 0 .. MaxCount
    <3>1. count[p] \in 0 .. MaxCount /\ used = 0
      BY <2>1, <2>3 DEF TypeOK, ReadEmpty
    <3> DEFINE n == Fifo!Least(count[p], Len(Queue))
    <3>2. n = 0
      BY <2>1, <3>1 DEF Fifo!Least
    <3> HIDE DEF n
    <3>3. Queue = <<>> /\ Queue' = Queue /\ got' = [got EXCEPT ![p] = <<>>]
      BY <2>3, <3>1 DEF ReadEmpty, Queue, At, ring
    <3>4. SubSeq(Queue, 1, n) = <<>> /\ SubSeq(Queue, n + 1, Len(Queue)) = Queue
      BY <2>1, <3>1, <3>2, <3>3
    <3> QED
      BY <3>1, <3>3, <3>4, Zenon DEF Fifo!Get, n
  <2>4. ASSUME NEW p \in Writers, WriteData(p)
        PROVE  Fifo!Put(buf[p]) /\ buf[p] \in Buffers
    <3> DEFINE n == IF used + Len(buf[p]) > Cap THEN Cap - used ELSE Len(buf[p])
    <3>1. buf[p] \in Buffers
      BY <2>1 DEF TypeOK
    <3>2. buf[p] \in Seq(Bytes) /\ Len(buf[p]) \in Nat
      BY <3>1, BuffersAreSequences
    <3>3. /\ n \in 0 .. Len(buf[p]) /\ n <= Cap - used
          /\ n = Fifo!Least(Len(buf[p]), Cap - Len(Queue))
      BY <2>1, <3>2 DEF Fifo!Least
    <3>4. /\ data' = CopyIn(buf[p], n)
          /\ used' = used + n /\ used # Cap
          /\ read_ptr' = read_ptr /\ got' = got
      BY <2>4 DEF WriteData
    <3> HIDE DEF n
    <3>5. Queue' = Queue \o SubSeq(buf[p], 1, n)
      BY <2>1, <3>2, <3>3, <3>4, CopyInAppends
    <3>6. Len(Queue) < Cap
      BY <2>1, <3>4
    <3> QED
      BY <3>1, <3>3, <3>4, <3>5, <3>6 DEF Fifo!Put
  <2>5. ASSUME UNCHANGED <<data, read_ptr, used, got>>
        PROVE  UNCHANGED <<Queue, got>>
    BY <2>5 DEF Queue, At
  <2>6. Fifo!Buffers = Buffers
    BY DEF Fifo!Buffers, Buffers
  <2>7. CASE \E p \in Readers : ReadData(p) \/ ReadEmpty(p)
    BY <2>7, <2>2, <2>3 DEF Fifo!Next
  <2>8. CASE \E p \in Writers : WriteData(p)
    BY <2>8, <2>4, <2>6 DEF Fifo!Next
  <2>9. CASE UNCHANGED <<data, read_ptr, used, got>>
    BY <2>9, <2>5
  <2>10. \/ \E p \in Readers : ReadData(p) \/ ReadEmpty(p)
         \/ \E p \in Writers : WriteData(p)
         \/ UNCHANGED <<data, read_ptr, used, got>>
    BY DEF Next, ReadStep, WriteStep, AwaitStep, FileStep, ReadWait, ReadBegin,
           WriteBegin, WriteBroken, WriteWait, AwaitPending, AwaitSleep,
           AwaitSpurious, Dup, Ref, Close, RefTrigger, SetFlags, ring, vars
  <2> QED
    BY <2>7, <2>8, <2>9, <2>10
<1>3. Fifo!Init /\ [][Fifo!Next]_<<Queue, got>> => Refines
  BY DEF Refines, Fifo!Spec
<1> QED
  BY <1>1, <1>2, <1>3, Inductive, PTL DEF Spec

-----------------------------------------------------------------------------

\* The status that ppoll reads agrees with the fill of the ring.
THEOREM StatusCorrect == Spec => []StatusAgrees
<1> USE PipeAssumption
<1>1. Init => StatusAgrees
  BY DEF Init, StatusAgrees
<1>2. IInv /\ StatusAgrees /\ [Next]_vars => StatusAgrees'
  <2> SUFFICES ASSUME IInv, StatusAgrees, [Next]_vars PROVE StatusAgrees'
    OBVIOUS
  <2>1. used \in 0 .. Cap
    BY DEF IInv, TypeOK
  <2>2. ASSUME NEW p \in Readers, ReadData(p)
        PROVE  StatusAgrees'
    <3>1. /\ status' = ReadStatus(used')
          /\ used' \in 0 .. used
      BY <2>1, <2>2 DEF ReadData, IInv, TypeOK
    <3>2. used # 0 => "POLLIN" \in status
      BY <2>1 DEF StatusAgrees
    <3>3. used # 0
      BY <2>2 DEF ReadData
    <3>4. used' = Cap => used = Cap
      BY <2>1, <3>1
    <3> QED
      BY <2>1, <3>1, <3>2, <3>3, <3>4 DEF ReadStatus, StatusAgrees
  <2>3. ASSUME NEW p \in Writers, WriteData(p)
        PROVE  StatusAgrees'
    BY <2>3 DEF WriteData, WriteStatus, StatusAgrees
  <2>4. CASE UNCHANGED <<used, status>>
    BY <2>4 DEF StatusAgrees
  <2>5. \/ \E p \in Readers : ReadData(p)
        \/ \E p \in Writers : WriteData(p)
        \/ UNCHANGED <<used, status>>
    BY DEF Next, ReadStep, WriteStep, AwaitStep, FileStep, ReadWait, ReadBegin,
           ReadEmpty, WriteBegin, WriteBroken, WriteWait, AwaitPending,
           AwaitSleep, AwaitSpurious, Dup, Ref, Close, RefTrigger, SetFlags,
           ring, vars
  <2> QED
    BY <2>2, <2>3, <2>4, <2>5
<1> QED
  BY <1>1, <1>2, Inductive, PTL DEF Spec

-----------------------------------------------------------------------------
(* One thread at each end, and F_SETFL called as fcntl's users do *)

\* The writers' count is that of the descriptors, but for the one fdnum_dup has yet
\* to count: a writer in pipe_write has one, so that the reader sees no end of file.
FilesInv(w) ==
  /\ writer_count + (IF pc[w] = "ref" THEN 1 ELSE 0) = fds["wr"]
  /\ mode["rd"] = "RDONLY" /\ mode["wr"] = "WRONLY"
  /\ pc[w] \in {"enter", "loop", "await", "sleep"} => fds["wr"] > 0

SleepInv == \A p \in Procs : p \in listening <=> pc[p] = "sleep"

Blocked(p) == pc[p] \in {"await", "sleep"}
InLoop(p) == pc[p] \in {"loop", "await", "sleep"}

\* A thread that is about to sleep with something to do finds a trigger pending,
\* unless the other thread waits too and has taken it.
TurnInv(r, w) ==
  /\ Blocked(r) => ~ nonblock["rd"]
  /\ Blocked(r) /\ used > 0 =>
       (used = Cap /\ InLoop(w)) \/ (pc[r] = "await" /\ pending > 0)
  /\ Blocked(w) /\ used < Cap =>
       (used = 0 /\ InLoop(r) /\ ~ nonblock["rd"]) \/ (pc[w] = "await" /\ pending > 0)
  /\ Blocked(r) /\ Blocked(w) => used \in {0, Cap}

OneInv(r, w) == FilesInv(w) /\ SleepInv /\ TurnInv(r, w)

\* A trigger by p, which does not listen: the other thread, q, is woken or finds the
\* trigger pending.
LEMMA TriggerOther ==
  ASSUME TypeOK, SleepInv, NEW p, NEW q, p # q, Procs = {p, q}, pc[p] # "sleep",
         TriggerGoto(p, "run")
  PROVE  /\ pc'[p] = "run" /\ SleepInv'
         /\ \/ pc[q] = "sleep" /\ pc'[q] = "loop" /\ pending' = pending
            \/ pc[q] # "sleep" /\ pc'[q] = pc[q] /\ pending' = pending + 1
<1>0. /\ pc \in [Procs -> {"run", "enter", "loop", "await", "sleep", "ref", "trigger"}]
      /\ p \in Procs /\ q \in Procs /\ listening \subseteq Procs /\ p \notin listening
      /\ q \in listening <=> pc[q] = "sleep"
  BY DEF TypeOK, SleepInv
<1>1. CASE listening = {}
  <2>1. /\ pending' = pending + 1 /\ listening' = {} /\ pc' = [pc EXCEPT ![p] = "run"]
    BY <1>1, Zenon DEF TriggerGoto, Goto
  <2>2. pc'[p] = "run" /\ pc'[q] = pc[q] /\ pc[q] # "sleep"
    BY <1>0, <1>1, <2>1
  <2> QED
    BY <2>1, <2>2 DEF SleepInv
<1>2. CASE listening # {}
  <2>1. /\ listening' = {} /\ pending' = pending
        /\ pc' = [x \in Procs |-> IF x = p THEN "run"
                                  ELSE IF x \in listening THEN "loop" ELSE pc[x]]
    BY <1>2, Zenon DEF TriggerGoto
  <2>2. q \in listening
    BY <1>0, <1>2
  <2>3. pc'[p] = "run" /\ pc'[q] = "loop" /\ pc[q] = "sleep"
    BY <1>0, <2>1, <2>2
  <2> QED
    BY <2>1, <2>3 DEF SleepInv
<1> QED
  BY <1>1, <1>2

\* The steps of the reader inside pipe_read,
LEMMA ReadOne ==
  ASSUME NEW r, NEW w, Readers = {r}, Writers = {w}, IInv, OneInv(r, w),
         ReadEmpty(r) \/ ReadWait(r) \/ ReadData(r)
  PROVE  OneInv(r, w)'
<1>0. /\ r # w /\ Procs = {r, w} /\ Cap \in Nat \ {0} /\ used \in 0 .. Cap /\ pending \in Nat
      /\ pc \in [Procs -> {"run", "enter", "loop", "await", "sleep", "ref", "trigger"}]
      /\ writer_count \in Int /\ fds["wr"] \in Nat
  BY PipeAssumption DEF IInv, TypeOK, Procs, Ends
<1>1. FilesInv(w) /\ SleepInv /\ TurnInv(r, w) /\ pc[r] = "loop"
  BY DEF OneInv, ReadEmpty, ReadWait, ReadData
<1>2. CASE ReadEmpty(r)
  <2>1. /\ used = 0 /\ (writer_count = 0 \/ nonblock["rd"])
        /\ pc' = [pc EXCEPT ![r] = "run"]
        /\ UNCHANGED <<used, writer_count, pending, listening, fds, mode, nonblock>>
    BY <1>2 DEF ReadEmpty, Goto, ring, counts, event, files
  <2>2. pc'[r] = "run" /\ pc'[w] = pc[w]
    BY <1>0, <2>1
  <2>3. FilesInv(w)'
    BY <1>1, <2>1, <2>2 DEF FilesInv
  <2>4. SleepInv'
    BY <1>0, <1>1, <2>1, <2>2 DEF SleepInv
  \* A writer that waits has a descriptor: the reader is not told of the end.
  <2>5. Blocked(w) => writer_count # 0
    BY <1>0, <1>1 DEF FilesInv, Blocked
  <2>6. TurnInv(r, w)'
    BY <1>0, <1>1, <2>1, <2>2, <2>5 DEF TurnInv, Blocked, InLoop
  <2> QED
    BY <2>3, <2>4, <2>6 DEF OneInv
<1>3. CASE ReadWait(r)
  <2>1. /\ used = 0 /\ ~ nonblock["rd"]
        /\ pc' = [pc EXCEPT ![r] = "await"]
        /\ UNCHANGED <<used, writer_count, pending, listening, fds, mode, nonblock>>
    BY <1>3 DEF ReadWait, Goto, ring, counts, event, files
  <2>2. pc'[r] = "await" /\ pc'[w] = pc[w]
    BY <1>0, <2>1
  <2>3. FilesInv(w)'
    BY <1>1, <2>1, <2>2 DEF FilesInv
  <2>4. SleepInv'
    BY <1>0, <1>1, <2>1, <2>2 DEF SleepInv
  <2>5. TurnInv(r, w)'
    BY <1>0, <1>1, <2>1, <2>2 DEF TurnInv, Blocked, InLoop
  <2> QED
    BY <2>3, <2>4, <2>5 DEF OneInv
<1>4. CASE ReadData(r)
  <2>1. TriggerGoto(r, "run") /\ UNCHANGED <<writer_count, fds, mode, nonblock>>
    BY <1>4 DEF ReadData, counts, files
  <2>2. /\ pc'[r] = "run" /\ SleepInv'
        /\ \/ pc[w] = "sleep" /\ pc'[w] = "loop" /\ pending' = pending
           \/ pc[w] # "sleep" /\ pc'[w] = pc[w] /\ pending' = pending + 1
    BY <1>0, <1>1, <2>1, TriggerOther DEF IInv
  <2>3. FilesInv(w)'
    BY <1>1, <2>1, <2>2 DEF FilesInv
  <2>4. pc'[w] # "sleep" /\ (pc'[w] = "await" => pending' > 0)
    BY <1>0, <2>2
  <2>5. TurnInv(r, w)'
    BY <2>2, <2>4 DEF TurnInv, Blocked
  <2> QED
    BY <2>2, <2>3, <2>5 DEF OneInv
<1> QED
  BY <1>2, <1>3, <1>4

\* and those of the writer inside pipe_write.
LEMMA WriteOne ==
  ASSUME NEW r, NEW w, Readers = {r}, Writers = {w}, IInv, OneInv(r, w),
         WriteBroken(w) \/ WriteWait(w) \/ WriteData(w)
  PROVE  OneInv(r, w)'
<1>0. /\ r # w /\ Procs = {w, r} /\ Cap \in Nat \ {0} /\ used \in 0 .. Cap /\ pending \in Nat
      /\ pc \in [Procs -> {"run", "enter", "loop", "await", "sleep", "ref", "trigger"}]
      /\ writer_count \in Int /\ fds["wr"] \in Nat
  BY PipeAssumption DEF IInv, TypeOK, Procs, Ends
<1>1. FilesInv(w) /\ SleepInv /\ TurnInv(r, w) /\ pc[w] \in {"enter", "loop"}
  BY DEF OneInv, WriteBroken, WriteWait, WriteData, Writes
<1>2. CASE WriteBroken(w)
  <2>1. /\ pc[w] = "enter" /\ pc' = [pc EXCEPT ![w] = "run"]
        /\ UNCHANGED <<used, writer_count, pending, listening, fds, mode, nonblock>>
    BY <1>2 DEF WriteBroken, Goto, ring, counts, event, files
  <2>2. pc'[w] = "run" /\ pc'[r] = pc[r]
    BY <1>0, <2>1
  <2>3. FilesInv(w)'
    BY <1>1, <2>1, <2>2 DEF FilesInv
  <2>4. SleepInv'
    BY <1>0, <1>1, <2>1, <2>2 DEF SleepInv
  <2>5. TurnInv(r, w)'
    BY <1>0, <1>1, <2>1, <2>2 DEF TurnInv, Blocked, InLoop
  <2> QED
    BY <2>3, <2>4, <2>5 DEF OneInv
<1>3. CASE WriteWait(w)
  <2>1. /\ used = Cap /\ pc' = [pc EXCEPT ![w] = "await"]
        /\ UNCHANGED <<used, writer_count, pending, listening, fds, mode, nonblock>>
    BY <1>3 DEF WriteWait, Goto, ring, counts, event, files
  <2>2. pc'[w] = "await" /\ pc'[r] = pc[r]
    BY <1>0, <2>1
  <2>3. FilesInv(w)'
    BY <1>1, <2>1, <2>2 DEF FilesInv
  <2>4. SleepInv'
    BY <1>0, <1>1, <2>1, <2>2 DEF SleepInv
  <2>5. TurnInv(r, w)'
    BY <1>0, <1>1, <2>1, <2>2 DEF TurnInv, Blocked, InLoop
  <2> QED
    BY <2>3, <2>4, <2>5 DEF OneInv
<1>4. CASE WriteData(w)
  <2>1. TriggerGoto(w, "run") /\ UNCHANGED <<writer_count, fds, mode, nonblock>>
    BY <1>4 DEF WriteData, counts, files
  <2>2. /\ pc'[w] = "run" /\ SleepInv'
        /\ \/ pc[r] = "sleep" /\ pc'[r] = "loop" /\ pending' = pending
           \/ pc[r] # "sleep" /\ pc'[r] = pc[r] /\ pending' = pending + 1
    BY <1>0, <1>1, <2>1, TriggerOther DEF IInv
  <2>3. FilesInv(w)'
    BY <1>1, <2>1, <2>2 DEF FilesInv
  <2>4. pc'[r] # "sleep" /\ (pc'[r] = "await" => pending' > 0 /\ pc[r] = "await")
    BY <1>0, <2>2
  <2>5. TurnInv(r, w)'
    BY <1>1, <2>1, <2>2, <2>4 DEF TurnInv, Blocked
  <2> QED
    BY <2>2, <2>3, <2>5 DEF OneInv
<1> QED
  BY <1>2, <1>3, <1>4

\* event_await, of either of them.
LEMMA AwaitOne ==
  ASSUME NEW r, NEW w, Readers = {r}, Writers = {w}, IInv, OneInv(r, w),
         NEW p \in Procs, AwaitPending(p) \/ AwaitSleep(p) \/ AwaitSpurious(p)
  PROVE  OneInv(r, w)'
<1>0. /\ r # w /\ Procs = {r, w} /\ Cap \in Nat \ {0} /\ used \in 0 .. Cap /\ pending \in Nat
      /\ pc \in [Procs -> {"run", "enter", "loop", "await", "sleep", "ref", "trigger"}]
  BY PipeAssumption DEF IInv, TypeOK, Procs
<1>1. FilesInv(w) /\ SleepInv /\ TurnInv(r, w)
  BY DEF OneInv
<1>2. /\ UNCHANGED <<used, writer_count, fds, mode, nonblock>>
      /\ \/ /\ pc[p] = "await" /\ pending > 0 /\ pending' = pending - 1
            /\ pc' = [pc EXCEPT ![p] = "loop"] /\ listening' = listening
         \/ /\ pc[p] = "await" /\ pending = 0 /\ pending' = pending
            /\ pc' = [pc EXCEPT ![p] = "sleep"] /\ listening' = listening \cup {p}
         \/ /\ pc[p] = "sleep" /\ pending' = pending
            /\ pc' = [pc EXCEPT ![p] = "loop"] /\ listening' = listening \ {p}
  BY DEF AwaitPending, AwaitSleep, AwaitSpurious, Goto, ring, counts, files
<1>3. /\ pc'[p] \in {"loop", "sleep"} /\ Blocked(p)
      /\ \A q \in Procs \ {p} : pc'[q] = pc[q]
      /\ \/ pc'[p] = "loop" /\ pending' \in Nat
         \/ pc'[p] = "sleep" /\ pc[p] = "await" /\ pending = 0 /\ pending' = 0
  BY <1>0, <1>2 DEF Blocked
<1>4. SleepInv'
  BY <1>0, <1>1, <1>2 DEF SleepInv
<1>5. CASE p = r
  <2>1. pc'[w] = pc[w]
    BY <1>0, <1>3, <1>5
  <2>2. FilesInv(w)'
    BY <1>1, <1>2, <2>1 DEF FilesInv
  <2>3. TurnInv(r, w)'
    BY <1>0, <1>1, <1>2, <1>3, <1>5, <2>1 DEF TurnInv, Blocked, InLoop
  <2> QED
    BY <1>4, <2>2, <2>3 DEF OneInv
<1>6. CASE p = w
  <2>1. pc'[r] = pc[r]
    BY <1>0, <1>3, <1>6
  <2>2. FilesInv(w)'
    BY <1>1, <1>2, <1>3, <1>6 DEF FilesInv, Blocked
  <2>3. TurnInv(r, w)'
    BY <1>0, <1>1, <1>2, <1>3, <1>6, <2>1 DEF TurnInv, Blocked, InLoop
  <2> QED
    BY <1>4, <2>2, <2>3 DEF OneInv
<1> QED
  BY <1>0, <1>5, <1>6

\* A call that begins, and the ones on descriptors.
LEMMA CallOne ==
  ASSUME KeepMode = TRUE,
         NEW r, NEW w, Readers = {r}, Writers = {w}, IInv, OneInv(r, w), NEW p \in Procs,
         \/ p \in Readers /\ \E n \in 0 .. MaxCount : ReadBegin(p, n)
         \/ p \in Writers /\ \E s \in Buffers : WriteBegin(p, s)
         \/ Dup(p) \/ Ref(p) \/ Close(p)
         \/ \E m \in Modes, b \in BOOLEAN : SetFlags(p, m, b)
  PROVE  OneInv(r, w)'
<1>0. /\ r # w /\ Procs = {r, w} /\ Cap \in Nat \ {0} /\ used \in 0 .. Cap /\ pending \in Nat
      /\ pc \in [Procs -> {"run", "enter", "loop", "await", "sleep", "ref", "trigger"}]
      /\ writer_count \in Int /\ fds \in [Ends -> Nat] /\ mode \in [Ends -> Modes]
      /\ nonblock \in [Ends -> BOOLEAN]
      /\ EndOf(r) = "rd" /\ EndOf(w) = "wr" /\ Ends = {"rd", "wr"}
  BY PipeAssumption DEF IInv, TypeOK, Procs, EndOf, Ends
<1>1. FilesInv(w) /\ SleepInv /\ TurnInv(r, w)
  BY DEF OneInv
<1>2. /\ UNCHANGED <<used, pending, listening>>
      /\ pc[p] \in {"run", "ref"}
      /\ \E label \in {"run", "loop", "enter", "ref", "trigger"} :
           pc' = [pc EXCEPT ![p] = label] /\ (label = "loop" => p = r) /\ (label = "run" => pc[p] = "run")
  <2>1. CASE \E m \in Modes, b \in BOOLEAN : SetFlags(p, m, b)
    <3>1. UNCHANGED <<used, pending, listening, pc>> /\ pc[p] = "run"
      BY <2>1 DEF SetFlags, ring, event
    <3>2. pc' = [pc EXCEPT ![p] = "run"]
      BY <1>0, <3>1
    <3> QED
      BY <3>1, <3>2
  <2>2. CASE p \in Readers /\ \E n \in 0 .. MaxCount : ReadBegin(p, n)
    BY <2>2 DEF ReadBegin, MayBegin, Goto, ring, event
  <2>3. CASE p \in Writers /\ \E s \in Buffers : WriteBegin(p, s)
    BY <2>3 DEF WriteBegin, MayBegin, Goto, ring, event
  <2>4. CASE Dup(p) \/ Ref(p) \/ Close(p)
    BY <2>4 DEF Dup, Ref, Close, MayBegin, Goto, ring, event
  <2> QED
    BY <2>1, <2>2, <2>3, <2>4
<1>3. /\ pc'[p] \in {"run", "loop", "enter", "ref", "trigger"} /\ (pc'[p] = "loop" => p = r)
      /\ \A q \in Procs \ {p} : pc'[q] = pc[q]
  BY <1>0, <1>2
<1>4. SleepInv'
  BY <1>0, <1>1, <1>2, <1>3 DEF SleepInv
<1>5. nonblock'["rd"] = nonblock["rd"] \/ (p = r /\ pc'[r] = "run")
  <2>1. CASE \E m \in Modes, b \in BOOLEAN : SetFlags(p, m, b)
    BY <1>0, <2>1 DEF SetFlags
  <2>2. CASE UNCHANGED nonblock
    BY <2>2
  <2> QED
    BY <2>1, <2>2 DEF ReadBegin, WriteBegin, Dup, Ref, Close, files
<1>6. TurnInv(r, w)'
  <2>1. CASE p = r
    <3>1. pc'[w] = pc[w] /\ ~ InLoop(r) /\ ~ Blocked(r)'
      BY <1>0, <1>2, <1>3, <2>1 DEF InLoop, Blocked
    <3> QED
      BY <1>1, <1>2, <3>1 DEF TurnInv, Blocked, InLoop
  <2>2. CASE p = w
    <3>1. pc'[r] = pc[r] /\ nonblock'["rd"] = nonblock["rd"] /\ ~ InLoop(w) /\ ~ Blocked(w)'
      BY <1>0, <1>2, <1>3, <1>5, <2>2 DEF InLoop, Blocked
    <3> QED
      BY <1>1, <1>2, <3>1 DEF TurnInv, Blocked, InLoop
  <2> QED
    BY <1>0, <2>1, <2>2
<1>7. mode' = mode
  <2>1. CASE \E m \in Modes, b \in BOOLEAN : SetFlags(p, m, b)
    BY <1>0, <2>1 DEF SetFlags
  <2>2. CASE UNCHANGED mode
    BY <2>2
  <2> QED
    BY <2>1, <2>2 DEF ReadBegin, WriteBegin, Dup, Ref, Close, files
<1>8. CASE p = r
  <2>1. writer_count' = writer_count /\ fds'["wr"] = fds["wr"] /\ pc'[w] = pc[w]
    BY <1>0, <1>1, <1>3, <1>8 DEF ReadBegin, WriteBegin, Dup, Ref, Close, SetFlags, AddCount,
       counts, files, FilesInv
  <2>2. FilesInv(w)'
    BY <1>1, <1>7, <2>1 DEF FilesInv
  <2> QED
    BY <1>4, <1>6, <2>2 DEF OneInv
<1>9. CASE p = w
  <2>0. mode[EndOf(w)] = "WRONLY" /\ fds["wr"] \in Nat
    BY <1>0, <1>1 DEF FilesInv
  <2>1. FilesInv(w)'
    <3>1. CASE \E s \in Buffers : WriteBegin(w, s)
      <4>1. /\ pc[w] = "run" /\ fds["wr"] > 0 /\ pc' = [pc EXCEPT ![w] = "enter"]
            /\ UNCHANGED <<writer_count, fds>>
        BY <1>0, <3>1 DEF WriteBegin, MayBegin, Goto, counts, files
      <4> QED
        BY <1>0, <1>1, <1>7, <4>1 DEF FilesInv
    <3>2. CASE Dup(w)
      <4>1. /\ pc[w] = "run" /\ pc' = [pc EXCEPT ![w] = "ref"]
            /\ fds' = [fds EXCEPT !["wr"] = @ + 1] /\ writer_count' = writer_count
        BY <1>0, <3>2 DEF Dup, MayBegin, Goto, counts
      <4> QED
        BY <1>0, <1>1, <1>7, <4>1 DEF FilesInv
    <3>3. CASE Ref(w)
      <4>1. /\ pc[w] = "ref" /\ pc' = [pc EXCEPT ![w] = "trigger"] /\ fds' = fds
            /\ writer_count' = writer_count + 1
        BY <1>0, <2>0, <3>3 DEF Ref, AddCount, Goto, files
      <4> QED
        BY <1>0, <1>1, <1>7, <4>1 DEF FilesInv
    <3>4. CASE Close(w)
      <4>1. /\ pc[w] = "run" /\ pc' = [pc EXCEPT ![w] = "trigger"]
            /\ fds' = [fds EXCEPT !["wr"] = @ - 1] /\ writer_count' = writer_count + (-1)
        BY <1>0, <2>0, <3>4 DEF Close, MayBegin, AddCount, Goto
      <4> QED
        BY <1>0, <1>1, <1>7, <4>1 DEF FilesInv
    <3>5. CASE \E m \in Modes, b \in BOOLEAN : SetFlags(w, m, b)
      <4>1. UNCHANGED <<pc, fds, writer_count>>
        BY <3>5 DEF SetFlags, counts
      <4> QED
        BY <1>1, <1>7, <4>1 DEF FilesInv
    <3> QED
      BY <1>0, <1>9, <3>1, <3>2, <3>3, <3>4, <3>5
  <2> QED
    BY <1>4, <1>6, <2>1 DEF OneInv
<1> QED
  BY <1>0, <1>8, <1>9

\* The trigger at the end of pipe_ref and pipe_unref.
LEMMA RefOne ==
  ASSUME NEW r, NEW w, Readers = {r}, Writers = {w}, IInv, OneInv(r, w),
         NEW p \in Procs, RefTrigger(p)
  PROVE  OneInv(r, w)'
<1>0. /\ r # w /\ Procs = {r, w} /\ Procs = {w, r} /\ pending \in Nat
  BY PipeAssumption DEF IInv, TypeOK, Procs
<1>1. FilesInv(w) /\ SleepInv /\ TurnInv(r, w)
  BY DEF OneInv
<1>2. /\ pc[p] = "trigger" /\ TriggerGoto(p, "run")
      /\ UNCHANGED <<used, writer_count, fds, mode, nonblock>>
  BY DEF RefTrigger, ring, counts, files
<1>3. CASE p = r
  <2>1. /\ pc'[r] = "run" /\ SleepInv'
        /\ \/ pc[w] = "sleep" /\ pc'[w] = "loop" /\ pending' = pending
           \/ pc[w] # "sleep" /\ pc'[w] = pc[w] /\ pending' = pending + 1
    BY <1>0, <1>1, <1>2, <1>3, TriggerOther DEF IInv
  <2>2. FilesInv(w)'
    BY <1>1, <1>2, <2>1 DEF FilesInv
  <2>3. pc'[w] # "sleep" /\ (pc'[w] = "await" => pending' > 0)
    BY <1>0, <2>1
  <2>4. TurnInv(r, w)'
    BY <2>1, <2>3 DEF TurnInv, Blocked
  <2> QED
    BY <2>1, <2>2, <2>4 DEF OneInv
<1>4. CASE p = w
  <2>1. /\ pc'[w] = "run" /\ SleepInv'
        /\ \/ pc[r] = "sleep" /\ pc'[r] = "loop" /\ pending' = pending
           \/ pc[r] # "sleep" /\ pc'[r] = pc[r] /\ pending' = pending + 1
    BY <1>0, <1>1, <1>2, <1>4, TriggerOther DEF IInv
  <2>2. FilesInv(w)'
    BY <1>1, <1>2, <1>4, <2>1 DEF FilesInv
  <2>3. pc'[r] # "sleep" /\ (pc'[r] = "await" => pending' > 0 /\ pc[r] = "await")
    BY <1>0, <2>1
  <2>4. TurnInv(r, w)'
    BY <1>1, <1>2, <2>1, <2>3 DEF TurnInv, Blocked
  <2> QED
    BY <2>1, <2>2, <2>4 DEF OneInv
<1> QED
  BY <1>0, <1>3, <1>4

LEMMA OneStep ==
  ASSUME KeepMode = TRUE, NEW r, NEW w, Readers = {r}, Writers = {w},
         IInv, OneInv(r, w), [Next]_vars
  PROVE  OneInv(r, w)'
<1>0. r \in Readers /\ w \in Writers /\ r \in Procs /\ w \in Procs
  BY DEF Procs
<1>1. CASE ReadStep(r)
  BY <1>1, ReadOne DEF ReadStep
<1>2. CASE WriteStep(w)
  BY <1>2, WriteOne DEF WriteStep
<1>3. ASSUME NEW p \in Procs, AwaitStep(p) \/ AwaitSpurious(p) PROVE OneInv(r, w)'
  BY <1>3, AwaitOne DEF AwaitStep
<1>4. ASSUME NEW p \in Procs,
             \/ p \in Readers /\ \E n \in 0 .. MaxCount : ReadBegin(p, n)
             \/ p \in Writers /\ \E s \in Buffers : WriteBegin(p, s)
             \/ Dup(p) \/ Ref(p) \/ Close(p)
             \/ \E m \in Modes, b \in BOOLEAN : SetFlags(p, m, b)
      PROVE  OneInv(r, w)'
  BY <1>4, CallOne
<1>5. ASSUME NEW p \in Procs, RefTrigger(p) PROVE OneInv(r, w)'
  BY <1>5, RefOne
<1>6. CASE UNCHANGED vars
  <2>1. UNCHANGED <<used, writer_count, pending, listening, fds, mode, nonblock, pc>>
    BY <1>6 DEF vars, ring, counts, event, files
  <2> QED
    BY <2>1 DEF OneInv, FilesInv, SleepInv, TurnInv, Blocked, InLoop
<1> QED
  BY <1>0, <1>1, <1>2, <1>3, <1>4, <1>5, <1>6 DEF Next, FileStep

\* A wakeup that pipe_read and pipe_write lose to each other, on the one event they
\* share, never leaves one end asleep alone.
THEOREM StuckOnlyTogether ==
  ASSUME KeepMode = TRUE, NEW r, NEW w, Readers = {r}, Writers = {w}
  PROVE  Spec => []StuckTogether
<1>0. r # w /\ Procs = {r, w}
  BY PipeAssumption DEF Procs
<1>1. Init => OneInv(r, w)
  BY <1>0 DEF Init, OneInv, FilesInv, SleepInv, TurnInv, Blocked, InLoop, Ends
<1>2. IInv /\ OneInv(r, w) /\ [Next]_vars => OneInv(r, w)'
  BY OneStep
<1>3. IInv /\ OneInv(r, w) => StuckTogether
  <2> SUFFICES ASSUME IInv, OneInv(r, w) PROVE StuckTogether
    OBVIOUS
  <2>1. TurnInv(r, w) /\ used \in 0 .. Cap
    BY DEF OneInv, IInv, TypeOK
  <2> QED
    BY <2>1 DEF StuckTogether, Waits, TurnInv, Blocked, InLoop
<1> QED
  BY <1>1, <1>2, <1>3, Inductive, PTL DEF Spec
=============================================================================
