----------------------------- MODULE NvmeProofs -----------------------------
(***************************************************************************)
(* Proofs about Nvme, for any number of threads, any size of the device,   *)
(* of the cache and of the rings, and any requests: a wait ends with its   *)
(* own completion, only a request past the end makes the kernel panic, and *)
(* requests take effect atomically although they are carried out block by  *)
(* block through the cache.                                                *)
(*                                                                         *)
(* The argument: the lock of the namespace lets one command at a time onto *)
(* a ring (RingInv), so that of the cache slots only the one under         *)
(* transfer may differ from the disk (CacheInv), and the disk differs from *)
(* the one the lock was taken with by what its holder has written so far   *)
(* (DiskInv).                                                              *)
(***************************************************************************)
EXTENDS Nvme, WellFoundedInduction, TLAPS

Queues == {"admin", "io"}
Ring == 0 .. QueueSlots - 1
AdminOps == {"identify", "nslist", "setqueues", "nsid", "createcq", "createsq"}
Commands ==
  [op : AdminOps]
  \cup [op : {"read", "write"}, slot : Slots, start : Nat, count : Int]
Entries == [cid : Nat, phase : {0, 1}, ok : BOOLEAN]

\* The identifier of the command submitted last.
Last(q) == (queue[q].cmdid + CidSpace - 1) % CidSpace

DriverSide ==
  [submit : [Ring -> [cid : Nat, cmd : Commands] \cup {None}],
   completion : [Ring -> Entries], sqtail : Ring, cqhead : Ring, cqphase : {0, 1},
   cmdid : 0 .. CidSpace - 1, doorbell : Ring]
ControllerSide == [sqhead : Ring, cqtail : Ring, phase : {0, 1}]

RingType ==
  /\ queue \in [Queues -> DriverSide]
  /\ ctrl \in [Queues -> ControllerSide]

\* The first n completions are of this turn of the ring, the others of the last.
Turn(q, n) ==
  \A i \in Ring : queue[q].completion[i].phase =
                    IF i < n THEN queue[q].cqphase ELSE 1 - queue[q].cqphase

\* A ring is idle, or holds one command, or the completion of that command.
Idle(q) ==
  /\ Turn(q, queue[q].cqhead)
  /\ ctrl[q].sqhead = queue[q].sqtail /\ queue[q].doorbell = queue[q].sqtail
  /\ ctrl[q].cqtail = queue[q].cqhead /\ ctrl[q].phase = queue[q].cqphase

Pending(q, cmd) ==
  /\ Turn(q, queue[q].cqhead)
  /\ queue[q].sqtail = Wrap(ctrl[q].sqhead) /\ queue[q].doorbell = queue[q].sqtail
  /\ ctrl[q].cqtail = queue[q].cqhead /\ ctrl[q].phase = queue[q].cqphase
  /\ queue[q].submit[ctrl[q].sqhead] = [cid |-> Last(q), cmd |-> cmd]

Posted(q, ok) ==
  /\ Turn(q, queue[q].cqhead + 1)
  /\ ctrl[q].sqhead = queue[q].sqtail /\ queue[q].doorbell = queue[q].sqtail
  /\ ctrl[q].cqtail = Wrap(queue[q].cqhead)
  /\ ctrl[q].phase = IF Wrap(queue[q].cqhead) = 0 THEN 1 - queue[q].cqphase
                                                  ELSE queue[q].cqphase
  /\ Entry(q).cid = Last(q) /\ Entry(q).ok = ok

\* Whether a thread waits for a ring, and for which command.
Busy(q) ==
  IF q = "admin" THEN pc[Boot] = "adminwait"
  ELSE lock # None /\ pc[lock] \in {"fetch", "store"}

Wanted(q) ==
  IF q = "admin" THEN [op |-> AdminCommands[boot.admin + 1]]
  ELSE Command(IF pc[lock] = "fetch" THEN "read" ELSE "write", slot[lock],
               BlockOf(At(lock)))

\* At most one command is under way on a ring: the lock of the namespace, and the
\* one thread of the initialisation, see to it.
RingOk(q) ==
  IF Busy(q) THEN Pending(q, Wanted(q)) \/ Posted(q, Legal(Wanted(q))) ELSE Idle(q)

RingInv == RingOk("admin") /\ RingOk("io")

\* What a read can have returned.
Answers == {None} \cup UNION {[S -> Values] : S \in SUBSET Lbas}

Places == {"admin", "adminwait", "idle", "done", "lock", "find", "fetch", "copy", "store"}

\* The types of what the driver keeps.
TypeInv ==
  /\ disk \in [Lbas -> Values] /\ before \in [Lbas -> Values]
  /\ RingType
  /\ boot \in [admin : 0 .. 6, reads : 0 .. 2]
  /\ cache \in [Slots -> [block : Nat, ready : BOOLEAN,
                          data : [InBlock -> Values \cup {None}]]]
  /\ overwritten \in 0 .. CacheSlots
  /\ lock \in Callers \cup {None}
  /\ pc \in [Callers -> Places]
  /\ req \in [Callers -> Addressed \cup {None}]
  /\ progress \in [Callers -> Nat]
  /\ slot \in [Callers -> Slots]
  /\ got \in [Callers -> Answers]
  /\ panicked \in BOOLEAN

\* Where the threads can be, and who has the lock.
LockInv ==
  /\ \A t \in Callers :
       /\ lock = t <=> pc[t] \in {"find", "fetch", "copy", "store"}
       /\ req[t] = None <=> pc[t] \in {"admin", "adminwait", "idle", "done"}
       /\ pc[t] \in {"admin", "adminwait"} => t = Boot /\ boot.admin < 6
       /\ pc[t] = "find" => progress[t] <= req[t].count
       /\ pc[t] \in {"fetch", "copy", "store"} => progress[t] < req[t].count
       /\ pc[t] = "store" => req[t].op = "write"
       /\ pc[t] = "lock" => got[t] = None
  /\ pc[Boot] = "done" => 
       parts = [n \in DOMAIN Table.entries |-> Partition(Table.entries[n])]

\* The controller has taken the command that the holder of the lock waits for.
Executed == ctrl["io"].sqhead = queue["io"].doorbell

StartOf(block) == block * BlockLbas

\* What a cache slot holds of a block, as far as the device goes.
Holds(s, block) ==
  \A k \in InBlock : StartOf(block) + k \in Lbas =>
    cache[s].data[k] = disk[StartOf(block) + k]

\* A slot that is ready has what the disk has, except the one under transfer, and
\* no block is in two slots.
CacheInv ==
  /\ \A s \in Slots :
       cache[s].ready /\ ~ (Busy("io") /\ s = slot[lock]) => Holds(s, cache[s].block)
  /\ \A s, r \in Slots :
       cache[s].ready /\ cache[r].ready /\ cache[s].block = cache[r].block => s = r
  /\ lock # None /\ pc[lock] = "fetch" =>
       /\ \A s \in Slots : cache[s].ready => cache[s].block # BlockOf(At(lock))
       /\ Executed => Holds(slot[lock], BlockOf(At(lock)))
  /\ lock # None /\ pc[lock] \in {"copy", "store"} =>
       cache[slot[lock]].ready /\ cache[slot[lock]].block = BlockOf(At(lock))
  /\ lock # None /\ pc[lock] = "store" =>
       IF Executed THEN Holds(slot[lock], BlockOf(At(lock)))
       ELSE \A k \in InBlock : StartOf(BlockOf(At(lock))) + k \in Lbas =>
              cache[slot[lock]].data[k] =
                IF StartOf(BlockOf(At(lock))) + k \in Round(lock)
                THEN req[lock].val ELSE disk[StartOf(BlockOf(At(lock))) + k]

\* How far the request that has the lock has come.
Done(t) ==
  {l \in Lbas : /\ req[t].loc <= l
                /\ l < At(t) + (IF pc[t] = "store" /\ Executed THEN Chunk(t) ELSE 0)}

\* The disk has what the writer that has the lock has written so far, and a reader
\* has read what was there before.
DiskInv ==
  /\ lock = None => disk = before
  /\ lock # None /\ req[lock].op = "read" =>
       /\ disk = before
       /\ progress[lock] = 0 => got[lock] = None
       /\ progress[lock] # 0 => got[lock] = [l \in Done(lock) |-> before[l]]
  /\ lock # None /\ req[lock].op = "write" =>
       /\ \A l \in Lbas : disk[l] = IF l \in Done(lock) THEN req[lock].val ELSE before[l]
       /\ got[lock] = None

PanicInv == panicked => lock # None /\ Busy("io") /\ ~ Legal(Wanted("io"))

IInv == TypeInv /\ LockInv /\ RingInv /\ CacheInv /\ DiskInv /\ PanicInv

-----------------------------------------------------------------------------
(* Arithmetic *)

LEMMA Sizes ==
  /\ LbaCount \in Nat \ {0} /\ BlockLbas \in Nat \ {0} /\ CacheSlots \in Nat \ {0}
  /\ QueueSlots \in Nat \ {0, 1} /\ CidSpace \in Nat \ {0, 1}
  BY SizesAssumption

\* Division by the size of a cache block.
LEMMA BlockFacts ==
  ASSUME NEW a \in Nat
  PROVE  /\ BlockOf(a) \in Nat /\ StartOf(BlockOf(a)) \in Nat /\ a % BlockLbas \in Nat
         /\ a = StartOf(BlockOf(a)) + (a % BlockLbas) /\ a % BlockLbas < BlockLbas
<1> DEFINE m == a % BlockLbas
           d == a \div BlockLbas
<1>1. d \in Nat /\ m \in Nat /\ m < BlockLbas
  BY Sizes
<1>2. a = (d * BlockLbas) + m
  BY Sizes
<1>3. d * BlockLbas \in Nat
  BY <1>1, Sizes
<1> QED
  BY <1>1, <1>2, <1>3 DEF BlockOf, StartOf

LEMMA StartType == \A b \in Nat : StartOf(b) \in Nat
  BY Sizes DEF StartOf

LEMMA InBlockMod ==
  ASSUME NEW b \in Nat, NEW k \in Nat, k < BlockLbas
  PROVE  (StartOf(b) + k) % BlockLbas = k
  BY Sizes DEF StartOf

\* The smaller of two numbers.
LEMMA MinOfTwo ==
  ASSUME NEW m \in Int, NEW n \in Int
  PROVE  Min({m, n}) = IF m <= n THEN m ELSE n
<1>1. CASE m <= n
  <2>1. m \in {m, n} /\ \A y \in {m, n} : m <= y
    BY <1>1
  <2>2. \A x \in {m, n} : (\A y \in {m, n} : x <= y) => x = m
    BY <1>1
  <2> QED
    BY <1>1, <2>1, <2>2 DEF Min
<1>2. CASE ~ (m <= n)
  <2>1. n \in {m, n} /\ \A y \in {m, n} : n <= y
    BY <1>2
  <2>2. \A x \in {m, n} : (\A y \in {m, n} : x <= y) => x = n
    BY <1>2
  <2> QED
    BY <1>2, <2>1, <2>2 DEF Min
<1> QED
  BY <1>1, <1>2

\* The smallest of a set of cache slots.
LEMMA MinOfSlots ==
  ASSUME NEW S \in SUBSET Slots, S # {}
  PROVE  Min(S) \in S
<1>1. S \in SUBSET Nat
  BY DEF Slots
<1>2. PICK x \in S : \A y \in S : ~ (<<y, x>> \in OpToRel(<, Nat))
  BY <1>1, WFMin, NatLessThanWellFounded
<1>3. \A y \in S : ~ (y < x)
  BY <1>1, <1>2 DEF OpToRel
<1>4. \A y \in S : x <= y
  BY <1>1, <1>3
<1> QED
  BY <1>4 DEF Min

\* One round of a request: some of the LBAs left, all in one block.
LEMMA RoundFacts ==
  ASSUME NEW a \in Nat, NEW n \in Nat \ {0},
         NEW c, c = Min({n, BlockLbas - (a % BlockLbas)})
  PROVE  /\ c \in Nat \ {0} /\ c <= n
         /\ StartOf(BlockOf(a)) <= a /\ a + c <= StartOf(BlockOf(a)) + BlockLbas
         /\ \A l \in a .. a + c - 1 :
              l - StartOf(BlockOf(a)) \in InBlock /\ l % BlockLbas = l - StartOf(BlockOf(a))
<1>0. /\ BlockOf(a) \in Nat /\ StartOf(BlockOf(a)) \in Nat /\ a % BlockLbas \in Nat
      /\ a = StartOf(BlockOf(a)) + (a % BlockLbas) /\ a % BlockLbas < BlockLbas
  BY BlockFacts
<1>1. BlockLbas - (a % BlockLbas) \in Nat \ {0} /\ BlockLbas \in Nat
  BY <1>0, Sizes
<1>2. c = IF n <= BlockLbas - (a % BlockLbas) THEN n ELSE BlockLbas - (a % BlockLbas)
  BY <1>1, MinOfTwo
<1>3. c \in Nat \ {0} /\ c <= n /\ c <= BlockLbas - (a % BlockLbas)
  <2> DEFINE r == BlockLbas - (a % BlockLbas)
  <2>1. r \in Nat \ {0} /\ c = IF n <= r THEN n ELSE r
    BY <1>1, <1>2
  <2> HIDE DEF r
  <2>2. c \in Nat \ {0} /\ c <= n /\ c <= r
    BY <2>1
  <2> QED
    BY <2>2 DEF r
<1>4. StartOf(BlockOf(a)) <= a /\ a + c <= StartOf(BlockOf(a)) + BlockLbas
  BY <1>0, <1>1, <1>3
<1>5. ASSUME NEW l \in a .. a + c - 1
      PROVE  /\ l - StartOf(BlockOf(a)) \in InBlock
             /\ l % BlockLbas = l - StartOf(BlockOf(a))
  <2>1. l - StartOf(BlockOf(a)) \in Nat /\ l - StartOf(BlockOf(a)) < BlockLbas
    BY <1>0, <1>1, <1>3, <1>4
  <2>2. (StartOf(BlockOf(a)) + (l - StartOf(BlockOf(a)))) % BlockLbas = l - StartOf(BlockOf(a))
    BY <1>0, <2>1, InBlockMod
  <2>3. StartOf(BlockOf(a)) + (l - StartOf(BlockOf(a))) = l
    BY <1>0, <1>3
  <2> QED
    BY <1>1, <2>1, <2>2, <2>3 DEF InBlock
<1> QED
  BY <1>3, <1>4, <1>5

\* A command of nvme_rwlba is within the device, unless its block starts past
\* the end, and moves what the device has of the block.
LEMMA CommandFacts ==
  ASSUME NEW op \in {"read", "write"}, NEW s \in Slots, NEW b \in Nat
  PROVE  /\ Command(op, s, b) \in Commands
         /\ Command(op, s, b).op = op /\ Command(op, s, b).slot = s
         /\ Command(op, s, b).start = StartOf(b)
         /\ Legal(Command(op, s, b)) <=> StartOf(b) < LbaCount
         /\ \A l \in Lbas : l \in Moved(Command(op, s, b)) <=>
              StartOf(b) <= l /\ l < StartOf(b) + BlockLbas
<1> DEFINE c == Min({BlockLbas, LbaCount - StartOf(b)})
<1>1. StartOf(b) \in Nat /\ BlockLbas \in Nat \ {0} /\ LbaCount \in Nat
  BY StartType, Sizes
<1>2. c = IF BlockLbas <= LbaCount - StartOf(b) THEN BlockLbas ELSE LbaCount - StartOf(b)
  BY <1>1, MinOfTwo
<1>3. Command(op, s, b) = [op |-> op, slot |-> s, start |-> StartOf(b), count |-> c]
  BY DEF Command, StartOf
<1> HIDE DEF c
<1>4. c \in Int
  BY <1>1, <1>2
<1>5. Legal(Command(op, s, b)) <=> c > 0 /\ StartOf(b) + c <= LbaCount
  BY <1>3 DEF Legal, Transfer
<1>6. \A l \in Lbas : l \in Moved(Command(op, s, b)) <=> StartOf(b) <= l /\ l < StartOf(b) + c
  BY <1>3 DEF Moved
<1>7. Command(op, s, b) \in Commands
  BY <1>1, <1>3, <1>4 DEF Commands
<1>8. \A l \in Lbas : l \in Int /\ l < LbaCount
  BY <1>1 DEF Lbas
<1>9. Legal(Command(op, s, b)) <=> StartOf(b) < LbaCount
  BY <1>1, <1>2, <1>5
<1>10. \A l \in Lbas : StartOf(b) <= l /\ l < StartOf(b) + c <=>
         StartOf(b) <= l /\ l < StartOf(b) + BlockLbas
  BY <1>1, <1>2, <1>8
<1> QED
  BY <1>3, <1>6, <1>7, <1>9, <1>10

-----------------------------------------------------------------------------
(* The rings *)

LEMMA WrapFacts ==
  ASSUME NEW i \in Ring
  PROVE  /\ i \in Nat /\ i < QueueSlots /\ Wrap(i) \in Ring /\ Wrap(i) # i
         /\ Wrap(i) = 0 <=> i + 1 = QueueSlots
         /\ Wrap(i) # 0 => Wrap(i) = i + 1
  BY Sizes DEF Ring, Wrap

LEMMA NextCid ==
  ASSUME NEW c \in 0 .. CidSpace - 1
  PROVE  /\ (c + 1) % CidSpace \in 0 .. CidSpace - 1
         /\ (((c + 1) % CidSpace) + CidSpace - 1) % CidSpace = c
<1>1. CASE c + 1 < CidSpace
  <2>1. (c + 1) % CidSpace = c + 1
    BY <1>1, Sizes
  <2>2. (c + CidSpace) % CidSpace = c
    BY Sizes
  <2> QED
    BY <1>1, <2>1, <2>2, Sizes
<1>2. CASE c + 1 = CidSpace
  <2>1. (c + 1) % CidSpace = 0
    BY <1>2, Sizes
  <2>2. (CidSpace - 1) % CidSpace = CidSpace - 1
    BY Sizes
  <2> QED
    BY <1>2, <2>1, <2>2, Sizes
<1> QED
  BY <1>1, <1>2, Sizes

\* nvme_submitcmd puts a command onto an idle ring.
LEMMA SubmitFacts ==
  ASSUME RingType, NEW q \in Queues, NEW cmd \in Commands, Idle(q),
         queue' = Submit(q, cmd), UNCHANGED ctrl
  PROVE  /\ RingType' /\ Pending(q, cmd)'
         /\ \A r \in Queues : r # q => queue'[r] = queue[r]
<1> DEFINE Q == queue[q]
<1>1. Q \in DriverSide /\ ctrl[q] \in ControllerSide
  BY DEF RingType
<1>2. /\ queue'[q] = [Q EXCEPT !.submit = [@ EXCEPT ![Q.sqtail] = [cid |-> Q.cmdid, cmd |-> cmd]],
                     !.sqtail = Wrap(@), !.doorbell = Wrap(Q.sqtail),
                     !.cmdid = (@ + 1) % CidSpace]
      /\ queue' \in [Queues -> {queue'[r] : r \in Queues}]
      /\ \A r \in Queues : r # q => queue'[r] = queue[r]
  BY DEF RingType, Submit
<1>3. /\ Q.sqtail \in Ring /\ Q.cmdid \in 0 .. CidSpace - 1 /\ Q.cmdid \in Nat
      /\ Q.submit \in [Ring -> [cid : Nat, cmd : Commands] \cup {None}]
      /\ Wrap(Q.sqtail) \in Ring /\ (Q.cmdid + 1) % CidSpace \in 0 .. CidSpace - 1
  BY <1>1, WrapFacts, NextCid DEF DriverSide
<1>4. queue'[q] \in DriverSide
  <2> DEFINE S == [Q.submit EXCEPT ![Q.sqtail] = [cid |-> Q.cmdid, cmd |-> cmd]]
  <2>1. S \in [Ring -> [cid : Nat, cmd : Commands] \cup {None}]
    BY <1>3
  <2>2. queue'[q] = [Q EXCEPT !.submit = S, !.sqtail = Wrap(Q.sqtail),
                     !.doorbell = Wrap(Q.sqtail), !.cmdid = (Q.cmdid + 1) % CidSpace]
    BY <1>1, <1>2 DEF DriverSide
  <2> HIDE DEF S
  <2> QED
    BY <1>1, <1>3, <2>1, <2>2 DEF DriverSide
<1>5. RingType'
  BY <1>2, <1>4 DEF RingType
<1>6. /\ queue'[q].completion = Q.completion /\ queue'[q].cqhead = Q.cqhead
      /\ queue'[q].cqphase = Q.cqphase /\ queue'[q].sqtail = Wrap(Q.sqtail)
      /\ queue'[q].doorbell = Wrap(Q.sqtail)
      /\ queue'[q].submit[Q.sqtail] = [cid |-> Q.cmdid, cmd |-> cmd]
      /\ queue'[q].cmdid = (Q.cmdid + 1) % CidSpace
  BY <1>1, <1>2, <1>3 DEF DriverSide
<1>7. Last(q)' = Q.cmdid
  BY <1>3, <1>6, NextCid DEF Last
<1>8. Pending(q, cmd)'
  BY <1>6, <1>7 DEF Idle, Pending, Turn
<1> QED
  BY <1>2, <1>5, <1>8

\* Nothing that is not of this turn ends a wait.
LEMMA NotCompleted ==
  ASSUME RingType, NEW q \in Queues, Turn(q, queue[q].cqhead)
  PROVE  ~ Completed(q)
<1>1. queue[q].cqhead \in Ring /\ queue[q].cqphase \in {0, 1} /\ queue[q].cqhead \in Nat
  BY Sizes DEF RingType, DriverSide, Ring
<1> QED
  BY <1>1 DEF Turn, Completed, Entry

LEMMA PostedCompleted ==
  ASSUME RingType, NEW q \in Queues, NEW ok, Posted(q, ok)
  PROVE  /\ Completed(q) /\ Entry(q).ok = ok /\ Entry(q).cid = Last(q)
         /\ ctrl[q].sqhead = queue[q].doorbell
<1>1. queue[q].cqhead \in Ring /\ queue[q].cqphase \in {0, 1} /\ queue[q].cqhead \in Nat
  BY Sizes DEF RingType, DriverSide, Ring
<1> QED
  BY <1>1 DEF Turn, Completed, Entry, Posted

\* The controller takes the one command, and posts its completion.
LEMMA ExecuteFacts ==
  ASSUME RingType, NEW q \in Queues, NEW cmd, Pending(q, cmd), Execute(q)
  PROVE  /\ RingType' /\ Posted(q, Legal(cmd))'
         /\ \A r \in Queues : r # q => queue'[r] = queue[r] /\ ctrl'[r] = ctrl[r]
         /\ made' = made \cup ({cmd.op} \cap {"createcq", "createsq"})
         /\ disk' = IF cmd.op # "write" THEN disk
                    ELSE [l \in Lbas |-> IF l \in Moved(cmd)
                                         THEN cache[cmd.slot].data[l - cmd.start]
                                         ELSE disk[l]]
         /\ cache' = IF cmd.op # "read" THEN cache
                     ELSE [cache EXCEPT ![cmd.slot].data =
                             [k \in InBlock |-> IF cmd.start + k \in Moved(cmd)
                                                THEN disk[cmd.start + k] ELSE @[k]]]
<1> DEFINE Q == queue[q]
           C == ctrl[q]
           done == [cid |-> Last(q), phase |-> C.phase, ok |-> Legal(cmd)]
<1>1. Q \in DriverSide /\ C \in ControllerSide
  BY DEF RingType
<1>2. Q.submit[C.sqhead].cid = Last(q) /\ Q.submit[C.sqhead].cmd = cmd
  BY DEF Pending
<1>3. /\ queue' = [queue EXCEPT ![q].submit[C.sqhead] = None, ![q].completion[C.cqtail] = done]
      /\ ctrl' = [ctrl EXCEPT ![q] =
                    [sqhead |-> Wrap(@.sqhead), cqtail |-> Wrap(@.cqtail),
                     phase |-> IF Wrap(@.cqtail) = 0 THEN 1 - @.phase ELSE @.phase]]
  BY <1>2 DEF Execute
<1>4. /\ queue'[q] = [Q EXCEPT !.submit = [@ EXCEPT ![C.sqhead] = None],
                               !.completion = [@ EXCEPT ![C.cqtail] = done]]
      /\ ctrl'[q] = [sqhead |-> Wrap(C.sqhead), cqtail |-> Wrap(C.cqtail),
                     phase |-> IF Wrap(C.cqtail) = 0 THEN 1 - C.phase ELSE C.phase]
      /\ queue' \in [Queues -> {queue'[r] : r \in Queues}]
      /\ ctrl' \in [Queues -> {ctrl'[r] : r \in Queues}]
      /\ \A r \in Queues : r # q => queue'[r] = queue[r] /\ ctrl'[r] = ctrl[r]
  BY <1>3 DEF RingType
<1>5. /\ C.sqhead \in Ring /\ C.cqtail \in Ring /\ C.phase \in {0, 1}
      /\ Q.cqhead \in Ring /\ Q.cqphase \in {0, 1}
      /\ Q.submit \in [Ring -> [cid : Nat, cmd : Commands] \cup {None}]
      /\ Q.completion \in [Ring -> Entries] /\ Q.cmdid \in Nat
  BY <1>1, Sizes DEF DriverSide, ControllerSide
<1>6. Legal(cmd) \in BOOLEAN
  BY DEF Legal
<1>7. Last(q) \in Nat
  BY <1>5, Sizes DEF Last
<1>8. done \in Entries
  BY <1>5, <1>6, <1>7 DEF Entries
<1> HIDE DEF done
<1>9. queue'[q] \in DriverSide
  <2> DEFINE S == [Q.submit EXCEPT ![C.sqhead] = None]
             D == [Q.completion EXCEPT ![C.cqtail] = done]
  <2>1. S \in [Ring -> [cid : Nat, cmd : Commands] \cup {None}]
    BY <1>5
  <2>2. D \in [Ring -> Entries]
    BY <1>5, <1>8
  <2>3. queue'[q] = [Q EXCEPT !.submit = S, !.completion = D]
    BY <1>1, <1>4 DEF DriverSide
  <2> HIDE DEF S, D
  <2> QED
    BY <1>1, <2>1, <2>2, <2>3 DEF DriverSide
<1>10. ctrl'[q] \in ControllerSide
  BY <1>4, <1>5, WrapFacts DEF ControllerSide
<1>11. RingType'
  BY <1>4, <1>9, <1>10 DEF RingType
<1>12. /\ queue'[q].completion = [Q.completion EXCEPT ![C.cqtail] = done]
       /\ queue'[q].cqhead = Q.cqhead /\ queue'[q].cqphase = Q.cqphase
       /\ queue'[q].sqtail = Q.sqtail /\ queue'[q].doorbell = Q.doorbell
       /\ queue'[q].cmdid = Q.cmdid
  BY <1>1, <1>4 DEF DriverSide
<1>13. Last(q)' = Last(q)
  BY <1>12 DEF Last
<1>14. C.cqtail = Q.cqhead /\ C.phase = Q.cqphase /\ Q.doorbell = Q.sqtail
       /\ Q.sqtail = Wrap(C.sqhead)
  BY DEF Pending
<1>15. Turn(q, queue[q].cqhead + 1)'
  <2>1. \A i \in Ring : i \in Nat
    BY Sizes DEF Ring
  <2>2. \A i \in Ring : i # Q.cqhead => queue'[q].completion[i] = Q.completion[i]
    BY <1>5, <1>12, <1>14
  <2>3. queue'[q].completion[Q.cqhead].phase = Q.cqphase
    BY <1>5, <1>12, <1>14 DEF done
  <2>4. \A i \in Ring : Q.completion[i].phase = IF i < Q.cqhead THEN Q.cqphase ELSE 1 - Q.cqphase
    BY DEF Pending, Turn
  <2>5. \A i \in Ring : i # Q.cqhead => (i < Q.cqhead <=> i < Q.cqhead + 1)
    BY <1>5, <2>1
  <2>6. Q.cqhead < Q.cqhead + 1
    BY <1>5, <2>1
  <2>7. \A i \in Ring : queue'[q].completion[i].phase =
          IF i < Q.cqhead + 1 THEN Q.cqphase ELSE 1 - Q.cqphase
    BY <2>2, <2>3, <2>4, <2>5, <2>6
  <2> QED
    BY <1>12, <2>7 DEF Turn
<1>16. Entry(q)' = done
  BY <1>5, <1>12, <1>14 DEF Entry
<1>17. (Entry(q).cid = Last(q))' /\ Entry(q)'.ok = Legal(cmd)
  BY <1>13, <1>16 DEF done
<1>18. Posted(q, Legal(cmd))'
  BY <1>4, <1>12, <1>14, <1>15, <1>17 DEF Posted
<1>19. /\ made' = made \cup ({cmd.op} \cap {"createcq", "createsq"})
       /\ disk' = IF cmd.op # "write" THEN disk
                  ELSE [l \in Lbas |-> IF l \in Moved(cmd)
                                       THEN cache[cmd.slot].data[l - cmd.start]
                                       ELSE disk[l]]
       /\ cache' = IF cmd.op # "read" THEN cache
                   ELSE [cache EXCEPT ![cmd.slot].data =
                           [k \in InBlock |-> IF cmd.start + k \in Moved(cmd)
                                              THEN disk[cmd.start + k] ELSE @[k]]]
  BY <1>2 DEF Execute
<1> QED
  BY <1>4, <1>11, <1>18, <1>19

\* nvme_awaitsubmitcmd takes the completion, and flips the phase when it wraps.
LEMMA ConsumeFacts ==
  ASSUME RingType, NEW q \in Queues, NEW ok, Posted(q, ok),
         queue' = Consume(q), UNCHANGED ctrl
  PROVE  /\ RingType' /\ Idle(q)'
         /\ \A r \in Queues : r # q => queue'[r] = queue[r]
<1> DEFINE Q == queue[q]
           flip == IF Wrap(Q.cqhead) = 0 THEN 1 - Q.cqphase ELSE Q.cqphase
<1>1. Q \in DriverSide
  BY DEF RingType
<1>2. /\ queue'[q] = [Q EXCEPT !.cqhead = Wrap(@), !.cqphase = flip]
      /\ queue' \in [Queues -> {queue'[r] : r \in Queues}]
      /\ \A r \in Queues : r # q => queue'[r] = queue[r]
  BY DEF RingType, Consume
<1>3. Q.cqhead \in Ring /\ Q.cqphase \in {0, 1} /\ Wrap(Q.cqhead) \in Ring
  BY <1>1, WrapFacts DEF DriverSide
<1>4. flip \in {0, 1}
  BY <1>3
<1> HIDE DEF flip
<1>5. queue'[q] \in DriverSide
  BY <1>1, <1>2, <1>3, <1>4 DEF DriverSide
<1>6. RingType'
  BY <1>2, <1>5 DEF RingType
<1>7. /\ queue'[q].completion = Q.completion /\ queue'[q].cqhead = Wrap(Q.cqhead)
      /\ queue'[q].cqphase = flip /\ queue'[q].sqtail = Q.sqtail
      /\ queue'[q].doorbell = Q.doorbell
  BY <1>1, <1>2 DEF DriverSide
<1>8. Turn(q, queue[q].cqhead)'
  <2>1. \A i \in Ring : i \in Nat /\ i < QueueSlots
    BY WrapFacts
  <2>2. \A i \in Ring : Q.completion[i].phase =
          IF i < Q.cqhead + 1 THEN Q.cqphase ELSE 1 - Q.cqphase
    BY DEF Posted, Turn
  <2>3. CASE Wrap(Q.cqhead) = 0
    <3>1. Q.cqhead + 1 = QueueSlots /\ flip = 1 - Q.cqphase
      BY <1>3, <2>3, WrapFacts DEF flip
    <3>2. \A i \in Ring : Q.completion[i].phase = 1 - flip
      BY <1>3, <2>1, <2>2, <3>1
    <3> QED
      BY <1>7, <2>1, <2>3, <3>2 DEF Turn
  <2>4. CASE Wrap(Q.cqhead) # 0
    BY <1>3, <1>7, <2>2, <2>4, WrapFacts DEF flip, Turn
  <2> QED
    BY <2>3, <2>4
<1>9. Idle(q)'
  BY <1>7, <1>8 DEF Idle, Posted, flip
<1> QED
  BY <1>2, <1>6, <1>9

-----------------------------------------------------------------------------
(* Requests and their holder *)

LEMMA AddressedFacts ==
  ASSUME NEW r \in Addressed
  PROVE  /\ r.op \in {"read", "write"} /\ r.loc \in Nat /\ r.count \in Nat \ {0}
         /\ r.op = "write" => r.val \in Values
         /\ r # None
<1>1. CASE \E l \in 0 .. 2 : r = Reading(l)
  <2>1. PICK l \in 0 .. 2 : r = Reading(l)
    BY <1>1
  <2>2. r = [op |-> "read", loc |-> l, count |-> 1, val |-> None] /\ l \in Nat
    BY <2>1 DEF Reading
  <2>3. r \in [op : {"read", "write"}, loc : Nat, count : Nat, val : Values \cup {None}]
    BY <2>2
  <2> QED
    BY <2>2, <2>3, NoneAssumption
<1>2. CASE ~ \E l \in 0 .. 2 : r = Reading(l)
  <2> DEFINE Starts == {0} \cup {Table.entries[i].start : i \in DOMAIN Table.entries}
  <2>1. PICK s \in Requests, n \in Starts :
          r = [op |-> s.op, count |-> s.count, val |-> s.val, loc |-> s.loc + n]
    BY <1>2 DEF Addressed
  <2>2. n \in Nat
    <3> DEFINE E == [start : Nat, end : Nat]
               T == Table.entries
    <3>1. \A i \in DOMAIN T : T[i] \in E
      <4>1. T \in Seq(E)
        BY RequestsAssumption
      <4> HIDE DEF E, T
      <4> QED
        BY <4>1
    <3> QED
      BY <2>1, <3>1
  <2>3. /\ s.op \in {"read", "write"} /\ s.loc \in Nat /\ s.count \in Nat \ {0}
        /\ s.val \in Values \cup {None} /\ (s.op = "write" => s.val \in Values)
    BY RequestsAssumption
  <2> HIDE DEF Starts
  <2>4. r \in [op : {"read", "write"}, loc : Nat, count : Nat, val : Values \cup {None}]
    BY <2>1, <2>2, <2>3
  <2> QED
    BY <2>1, <2>2, <2>3, <2>4, NoneAssumption
<1> QED
  BY <1>1, <1>2

LEMMA Nobody == None \notin Callers
  BY NoneAssumption DEF Callers, Boot

Held == {"find", "fetch", "copy", "store"}

\* Who has the lock, and where its request is.
LEMMA HolderFacts ==
  ASSUME TypeInv, LockInv, NEW t \in Callers, pc[t] \in Held
  PROVE  /\ lock = t /\ t # None /\ req[t] \in Addressed /\ slot[t] \in Slots
         /\ At(t) \in Nat /\ BlockOf(At(t)) \in Nat /\ StartOf(BlockOf(At(t))) \in Nat
         /\ progress[t] \in Nat /\ req[t].loc \in Nat /\ req[t].count \in Nat \ {0}
         /\ req[t].op \in {"read", "write"} /\ (req[t].op = "write" => req[t].val \in Values)
<1>1. lock = t /\ req[t] # None
  BY DEF LockInv, Held
<1>2. t # None
  BY Nobody
<1>3. req[t] \in Addressed /\ progress[t] \in Nat /\ slot[t] \in Slots
  BY <1>1 DEF TypeInv
<1>4. /\ req[t].loc \in Nat /\ req[t].count \in Nat \ {0}
      /\ req[t].op \in {"read", "write"} /\ (req[t].op = "write" => req[t].val \in Values)
  BY <1>3, AddressedFacts
<1>5. At(t) \in Nat
  BY <1>3, <1>4 DEF At
<1> QED
  BY <1>1, <1>2, <1>3, <1>4, <1>5, BlockFacts

LEMMA HolderIs ==
  ASSUME TypeInv, LockInv, lock # None
  PROVE  lock \in Callers /\ pc[lock] \in Held
  BY DEF TypeInv, LockInv, Held

LEMMA HolderRound ==
  ASSUME TypeInv, LockInv, NEW t \in Callers, pc[t] \in Held, progress[t] < req[t].count
  PROVE  /\ Chunk(t) \in Nat \ {0} /\ progress[t] + Chunk(t) <= req[t].count
         /\ StartOf(BlockOf(At(t))) <= At(t)
         /\ At(t) + Chunk(t) <= StartOf(BlockOf(At(t))) + BlockLbas
         /\ \A l \in Round(t) : /\ l - StartOf(BlockOf(At(t))) \in InBlock
                                /\ l % BlockLbas = l - StartOf(BlockOf(At(t)))
<1>1. /\ At(t) \in Nat /\ progress[t] \in Nat /\ req[t].count \in Nat
      /\ BlockOf(At(t)) \in Nat /\ StartOf(BlockOf(At(t))) \in Nat
  BY HolderFacts
<1>2. req[t].count - progress[t] \in Nat \ {0}
  BY <1>1
<1>3. /\ Chunk(t) \in Nat \ {0} /\ Chunk(t) <= req[t].count - progress[t]
      /\ StartOf(BlockOf(At(t))) <= At(t)
      /\ At(t) + Chunk(t) <= StartOf(BlockOf(At(t))) + BlockLbas
      /\ \A l \in At(t) .. At(t) + Chunk(t) - 1 :
           /\ l - StartOf(BlockOf(At(t))) \in InBlock
           /\ l % BlockLbas = l - StartOf(BlockOf(At(t)))
  BY <1>1, <1>2, RoundFacts DEF Chunk
<1> QED
  BY <1>1, <1>3 DEF Round

LEMMA InitIInv == Init => IInv
<1> SUFFICES ASSUME Init PROVE IInv
  OBVIOUS
<1>3. 0 \in Slots /\ 0 \in 0 .. CacheSlots
  <2>1. CacheSlots \in Nat /\ CacheSlots > 0
    BY Sizes
  <2> QED
    BY <2>1 DEF Slots
<1> USE DEF Init
<1>1. /\ NewQueue \in DriverSide /\ NewRing \in ControllerSide
  BY Sizes DEF NewQueue, NewRing, NoEntry, DriverSide, ControllerSide, Ring, Entries
<1>2. RingType
  BY <1>1 DEF RingType, Queues
<1>4. disk \in [Lbas -> Values] /\ before \in [Lbas -> Values]
  BY RequestsAssumption
<1>5. /\ lock \in Callers \cup {None} /\ req \in [Callers -> Addressed \cup {None}]
      /\ progress \in [Callers -> Nat] /\ slot \in [Callers -> Slots]
      /\ got \in [Callers -> {None}] /\ panicked \in BOOLEAN
      /\ overwritten \in 0 .. CacheSlots
  BY <1>3
<1>12. boot \in [admin : 0 .. 6, reads : 0 .. 2]
  OBVIOUS
<1>6. cache \in [Slots -> [block : Nat, ready : BOOLEAN, data : [InBlock -> Values \cup {None}]]]
  OBVIOUS
<1>7. TypeInv
  <2>1. got \in [Callers -> Answers]
    <3> HIDE DEF Init
    <3>1. None \in Answers
      BY DEF Answers
    <3> QED
      BY <1>5, <3>1
  <2>2. pc \in [Callers -> Places]
    BY DEF Places
  <2> HIDE DEF Init
  <2> QED
    BY <1>2, <1>4, <1>5, <1>12, <1>6, <2>1, <2>2 DEF TypeInv
<1>8. LockInv
  BY Nobody DEF LockInv, Callers, Boot
<1>9. RingInv
  <2>1. \A q \in Queues : Idle(q)
    BY Sizes DEF Queues, Idle, Turn, NewQueue, NewRing, NoEntry, Ring
  <2>2. ~ Busy("admin") /\ ~ Busy("io")
    BY DEF Busy, Callers
  <2> QED
    BY <2>1, <2>2 DEF RingInv, RingOk, Queues
<1>10. CacheInv
  BY DEF CacheInv
<1>11. DiskInv /\ PanicInv
  BY DEF DiskInv, PanicInv
<1> QED
  BY <1>7, <1>8, <1>9, <1>10, <1>11 DEF IInv

-----------------------------------------------------------------------------
(* Steps that the holder of the lock does not notice *)

\* Nothing changes that the holder of the lock works with.
HolderFrame ==
  /\ UNCHANGED <<disk, cache, before, lock>>
  /\ queue'["io"] = queue["io"] /\ ctrl'["io"] = ctrl["io"]
  /\ lock # None =>
       /\ pc'[lock] = pc[lock] /\ req'[lock] = req[lock] /\ got'[lock] = got[lock]
       /\ progress'[lock] = progress[lock] /\ slot'[lock] = slot[lock]

LEMMA HolderFrameKeeps ==
  ASSUME HolderFrame, RingOk("io"), CacheInv, DiskInv
  PROVE  RingOk("io")' /\ CacheInv' /\ DiskInv'
<1>1. /\ lock' = lock /\ disk' = disk /\ cache' = cache /\ before' = before
      /\ (Executed' <=> Executed) /\ (Busy("io")' <=> Busy("io"))
  BY DEF HolderFrame, Executed, Busy
<1>2. \A s, b : Holds(s, b)' <=> Holds(s, b)
  BY <1>1 DEF Holds
<1>3. Idle("io")' <=> Idle("io")
  BY DEF HolderFrame, Idle, Turn
<1>4. \A cmd : Pending("io", cmd)' <=> Pending("io", cmd)
  BY DEF HolderFrame, Pending, Turn, Last
<1>5. \A ok : Posted("io", ok)' <=> Posted("io", ok)
  BY DEF HolderFrame, Posted, Turn, Last, Entry
<1>6. CASE lock = None
  <2>1. RingOk("io")'
    BY <1>1, <1>3, <1>6 DEF RingOk, Busy
  <2>2. CacheInv'
    BY <1>1, <1>2, <1>6 DEF CacheInv, Busy
  <2>3. DiskInv'
    BY <1>1, <1>6 DEF DiskInv
  <2> QED
    BY <2>1, <2>2, <2>3
<1>7. CASE lock # None
  <2>1. /\ pc'[lock] = pc[lock] /\ req'[lock] = req[lock] /\ got'[lock] = got[lock]
        /\ progress'[lock] = progress[lock] /\ slot'[lock] = slot[lock]
    BY <1>7 DEF HolderFrame
  <2>2. At(lock)' = At(lock)
    BY <1>1, <2>1 DEF At
  <2>3. Chunk(lock)' = Chunk(lock)
    BY <1>1, <2>1, <2>2 DEF Chunk
  <2>4. Round(lock)' = Round(lock)
    BY <2>2, <2>3 DEF Round
  <2>5. Wanted("io")' = Wanted("io")
    BY <1>1, <2>1, <2>2 DEF Wanted
  <2>6. Done(lock)' = Done(lock)
    BY <1>1, <2>1, <2>2, <2>3 DEF Done
  <2>7. RingOk("io")'
    BY <1>1, <1>3, <1>4, <1>5, <2>5 DEF RingOk
  <2>8. CacheInv'
    BY <1>1, <1>2, <2>1, <2>2, <2>4 DEF CacheInv
  <2>9. DiskInv'
    BY <1>1, <2>1, <2>6 DEF DiskInv
  <2> QED
    BY <2>7, <2>8, <2>9
<1> QED
  BY <1>6, <1>7

\* The same for the ring of the initialisation.
LEMMA AdminFrameKeeps ==
  ASSUME RingOk("admin"), queue'["admin"] = queue["admin"],
         ctrl'["admin"] = ctrl["admin"], boot'.admin = boot.admin,
         Busy("admin")' <=> Busy("admin")
  PROVE  RingOk("admin")'
<1>1. Wanted("admin")' = Wanted("admin")
  BY DEF Wanted
<1>3. Idle("admin")' <=> Idle("admin")
  BY DEF Idle, Turn
<1>4. \A cmd : Pending("admin", cmd)' <=> Pending("admin", cmd)
  BY DEF Pending, Turn, Last
<1>5. \A ok : Posted("admin", ok)' <=> Posted("admin", ok)
  BY DEF Posted, Turn, Last, Entry
<1> QED
  BY <1>1, <1>3, <1>4, <1>5 DEF RingOk

-----------------------------------------------------------------------------
(* The initialisation *)

LEMMA MustBePending ==
  ASSUME NEW q \in Queues, RingOk(q), ctrl[q].sqhead # queue[q].doorbell
  PROVE  Busy(q) /\ Pending(q, Wanted(q))
  BY DEF RingOk, Idle, Posted

LEMMA CompletedPosted ==
  ASSUME RingType, NEW q \in Queues, RingOk(q), Completed(q)
  PROVE  Busy(q) /\ Posted(q, Legal(Wanted(q)))
<1>1. Turn(q, queue[q].cqhead) => FALSE
  BY NotCompleted
<1> QED
  BY <1>1 DEF RingOk, Idle, Pending

LEMMA AdminOpsFacts ==
  ASSUME NEW n \in 0 .. 5
  PROVE  AdminCommands[n + 1] \in AdminOps /\ [op |-> AdminCommands[n + 1]] \in Commands
<1>1. AdminCommands[n + 1] \in AdminOps
  <2>1. n \in {0, 1, 2, 3, 4, 5}
    OBVIOUS
  <2> QED
    BY <2>1 DEF AdminCommands, AdminOps
<1> QED
  BY <1>1 DEF Commands

LEMMA AdminLen == Len(AdminCommands) = 6
  BY DEF AdminCommands

LEMMA ExecuteAdminStep ==
  ASSUME IInv, ~ panicked, Execute("admin")
  PROVE  IInv'
<1>1. TypeInv /\ LockInv /\ RingOk("admin") /\ RingOk("io") /\ CacheInv /\ DiskInv /\ RingType
  BY DEF IInv, RingInv, TypeInv, Places
<1>2. Busy("admin") /\ Pending("admin", Wanted("admin"))
  BY <1>1, MustBePending DEF Execute, Queues
<1>3. boot.admin \in 0 .. 5 /\ Boot \in Callers
  BY <1>1, <1>2 DEF TypeInv, Places, LockInv, Busy, Callers
<1>4. Wanted("admin").op \in AdminOps
  BY <1>3, AdminOpsFacts DEF Wanted
<1> PICK cmd : cmd = Wanted("admin")
  OBVIOUS
<1>5. /\ RingType' /\ Posted("admin", Legal(cmd))' /\ disk' = disk /\ cache' = cache
      /\ queue'["io"] = queue["io"] /\ ctrl'["io"] = ctrl["io"]
  BY <1>1, <1>2, <1>4, ExecuteFacts DEF Queues, AdminOps
<1>6. UNCHANGED <<boot, parts, overwritten, lock, pc, req, progress, slot, got, before, panicked>>
  BY DEF Execute, thread
<1>7. HolderFrame
  BY <1>5, <1>6 DEF HolderFrame
<1>8. RingOk("admin")'
  <2>1. Busy("admin")'
    BY <1>2, <1>6 DEF Busy
  <2>2. Wanted("admin")' = Wanted("admin")
    BY <1>6 DEF Wanted
  <2> QED
    BY <1>5, <2>1, <2>2 DEF RingOk
<1>9. TypeInv'
  BY <1>1, <1>5, <1>6 DEF TypeInv, Places
<1>10. LockInv'
  BY <1>1, <1>6 DEF LockInv
<1> QED
  BY <1>1, <1>6, <1>7, <1>8, <1>9, <1>10, HolderFrameKeeps DEF IInv, RingInv, PanicInv

LEMMA AdminSubmitStep ==
  ASSUME IInv, ~ panicked, AdminSubmit
  PROVE  IInv'
<1>1. TypeInv /\ LockInv /\ RingOk("admin") /\ RingOk("io") /\ CacheInv /\ DiskInv /\ RingType
  BY DEF IInv, RingInv, TypeInv, Places
<1>2. /\ pc[Boot] = "admin" /\ queue' = Submit("admin", Wanted("admin"))
      /\ pc' = [pc EXCEPT ![Boot] = "adminwait"] /\ boot.admin < 6
      /\ UNCHANGED <<disk, ctrl, made, boot, parts, cache, overwritten, lock, req, progress,
                     slot, got, before, panicked>>
  BY AdminLen DEF AdminSubmit, Wanted
<1>3. boot.admin \in 0 .. 5 /\ Boot \in Callers
  BY <1>1, <1>2 DEF TypeInv, Places, Callers
<1>4. Wanted("admin") \in Commands
  BY <1>3, AdminOpsFacts DEF Wanted
<1>5. Idle("admin")
  BY <1>1, <1>2 DEF RingOk, Busy
<1>6. RingType' /\ Pending("admin", Wanted("admin"))' /\ queue'["io"] = queue["io"]
  <2> DEFINE W == Wanted("admin")
  <2>1. W' = W
    BY <1>2 DEF Wanted
  <2>2. \A cmd \in Commands : queue' = Submit("admin", cmd) =>
          RingType' /\ Pending("admin", cmd)' /\ queue'["io"] = queue["io"]
    BY <1>1, <1>2, <1>5, SubmitFacts DEF Queues
  <2> HIDE DEF W
  <2> QED
    BY <1>2, <1>4, <2>1, <2>2 DEF W
<1>7. lock # Boot /\ (lock # None => lock \in Callers)
  BY <1>1, <1>2, <1>3 DEF LockInv, TypeInv, Places
<1>8. HolderFrame
  BY <1>1, <1>2, <1>6, <1>7 DEF HolderFrame, TypeInv, Places
<1>9. RingOk("admin")'
  BY <1>1, <1>2, <1>3, <1>6 DEF RingOk, Busy, TypeInv, Places
<1>10. TypeInv'
  BY <1>1, <1>2, <1>6 DEF TypeInv, Places
<1>11. LockInv'
  BY <1>1, <1>2, <1>3 DEF LockInv, TypeInv, Places
<1> QED
  BY <1>1, <1>2, <1>8, <1>9, <1>10, <1>11, HolderFrameKeeps DEF IInv, RingInv, PanicInv

LEMMA AdminDoneStep ==
  ASSUME IInv, ~ panicked, AdminDone
  PROVE  IInv'
<1>1. TypeInv /\ LockInv /\ RingOk("admin") /\ RingOk("io") /\ CacheInv /\ DiskInv /\ RingType
  BY DEF IInv, RingInv, TypeInv, Places
<1>2. /\ pc[Boot] = "adminwait" /\ Completed("admin") /\ queue' = Consume("admin")
      /\ pc' = [pc EXCEPT ![Boot] = IF boot'.admin = 6 THEN "idle" ELSE "admin"]
      /\ boot' = [boot EXCEPT !.admin = @ + 1]
      /\ UNCHANGED <<disk, ctrl, made, parts, cache, overwritten, lock, req, progress,
                     slot, got, before, panicked>>
  BY AdminLen DEF AdminDone
<1>3. Posted("admin", Legal(Wanted("admin")))
  BY <1>1, <1>2, CompletedPosted DEF Queues
<1>4. RingType' /\ Idle("admin")' /\ queue'["io"] = queue["io"]
  BY <1>1, <1>2, <1>3, ConsumeFacts DEF Queues
<1>5. Boot \in Callers /\ boot.admin \in 0 .. 5
  BY <1>1, <1>2 DEF Callers, TypeInv, Places, LockInv
<1>6. /\ boot' \in [admin : 0 .. 6, reads : 0 .. 2] /\ boot'.admin = boot.admin + 1
  BY <1>1, <1>2, <1>5 DEF TypeInv, Places
<1>7. lock # Boot /\ (lock # None => lock \in Callers)
  BY <1>1, <1>2, <1>5 DEF LockInv, TypeInv, Places
<1>8. HolderFrame
  BY <1>1, <1>2, <1>4, <1>7 DEF HolderFrame, TypeInv, Places
<1>9. RingOk("admin")'
  BY <1>1, <1>2, <1>4, <1>5 DEF RingOk, Busy, TypeInv, Places
<1>10. TypeInv'
  BY <1>1, <1>2, <1>4, <1>6 DEF TypeInv, Places
<1>11. LockInv'
  BY <1>1, <1>2, <1>5, <1>6 DEF LockInv, TypeInv, Places
<1> QED
  BY <1>1, <1>2, <1>8, <1>9, <1>10, <1>11, HolderFrameKeeps DEF IInv, RingInv, PanicInv

\* A request that comes in waits for the lock.
LEMMA EnterStep ==
  ASSUME IInv, ~ panicked, NEW t \in Callers, NEW r \in Addressed, Enter(t, r),
         pc[t] = "idle", UNCHANGED parts,
         boot' \in [admin : 0 .. 6, reads : 0 .. 2], boot'.admin = boot.admin
  PROVE  IInv'
<1>1. TypeInv /\ LockInv /\ RingOk("admin") /\ RingOk("io") /\ CacheInv /\ DiskInv /\ RingType
  BY DEF IInv, RingInv, TypeInv, Places
<1>2. /\ pc' = [pc EXCEPT ![t] = "lock"] /\ req' = [req EXCEPT ![t] = r]
      /\ got' = [got EXCEPT ![t] = None]
      /\ UNCHANGED <<disk, queue, ctrl, made, cache, overwritten, lock, progress, slot, before,
                     panicked>>
  BY DEF Enter, rings
<1>3. r # None /\ None \in Answers
  BY AddressedFacts DEF Answers
<1>4. lock # t /\ (lock # None => lock \in Callers)
  BY <1>1 DEF LockInv, TypeInv, Places
<1>5. HolderFrame
  BY <1>1, <1>2, <1>4 DEF HolderFrame, TypeInv, Places
<1>6. RingOk("admin")'
  BY <1>1, <1>2, AdminFrameKeeps DEF Busy, TypeInv, Places, Callers
<1>7. TypeInv'
  <2>1. RingType'
    BY <1>1, <1>2 DEF RingType
  <2>2. /\ pc' \in [Callers -> Places]
        /\ req' \in [Callers -> Addressed \cup {None}] /\ got' \in [Callers -> Answers]
    BY <1>1, <1>2, <1>3 DEF TypeInv, Places
  <2> QED
    BY <1>1, <1>2, <2>1, <2>2 DEF TypeInv, Places
<1>8. LockInv'
  BY <1>1, <1>2, <1>3 DEF LockInv, TypeInv, Places, Callers
<1> QED
  BY <1>1, <1>2, <1>5, <1>6, <1>7, <1>8, HolderFrameKeeps DEF IInv, RingInv, PanicInv

LEMMA EnumReadStep ==
  ASSUME IInv, ~ panicked, EnumRead
  PROVE  IInv' /\ \E r \in Addressed : Enter(Boot, r) /\ pc[Boot] = "idle"
<1>1. /\ boot \in [admin : 0 .. 6, reads : 0 .. 2] /\ Boot \in Callers
      /\ pc[Boot] = "idle" /\ boot' = [boot EXCEPT !.reads = @ + 1] /\ UNCHANGED parts
      /\ boot.reads < 2 /\ Enter(Boot, Reading(EnumReads[boot.reads + 1]))
  BY DEF IInv, TypeInv, Places, EnumRead, EnumReads, Callers
<1>2. EnumReads[boot.reads + 1] \in 0 .. 2
  <2>1. boot.reads \in {0, 1}
    BY <1>1
  <2> QED
    BY <2>1 DEF EnumReads
<1>3. Reading(EnumReads[boot.reads + 1]) \in Addressed
  BY <1>2 DEF Addressed
<1>4. boot' \in [admin : 0 .. 6, reads : 0 .. 2] /\ boot'.admin = boot.admin
  BY <1>1
<1> QED
  BY <1>1, <1>3, <1>4, EnterStep

LEMMA CallStep ==
  ASSUME IInv, ~ panicked, NEW t \in Threads, NEW r \in Requests, Call(t, r)
  PROVE  IInv' /\ \E a \in Addressed : Enter(t, a) /\ pc[t] = "idle"
<1>1. /\ t \in Callers /\ pc[Boot] = "done" /\ pc[t] = "idle" /\ Enter(t, Through(r))
      /\ UNCHANGED <<boot, parts>> /\ boot \in [admin : 0 .. 6, reads : 0 .. 2]
      /\ parts = [n \in DOMAIN Table.entries |-> Partition(Table.entries[n])]
  BY DEF IInv, LockInv, TypeInv, Places, Call, Callers
<1>2. Through(r) \in Addressed
  <2> DEFINE Starts == {0} \cup {Table.entries[i].start : i \in DOMAIN Table.entries}
             n == IF r.via = 0 THEN 0 ELSE parts[r.via].start
  <2>1. r.via \in 0 .. Len(Table.entries) /\ r.loc \in Nat
    BY RequestsAssumption
  <2>2. r.via # 0 => r.via \in DOMAIN Table.entries
    <3>1. Table.entries \in Seq([start : Nat, end : Nat])
      BY RequestsAssumption
    <3> QED
      BY <2>1, <3>1
  <2>3. n \in Starts
    BY <1>1, <2>2 DEF Partition
  <2>4. Through(r) = [op |-> r.op, count |-> r.count, val |-> r.val, loc |-> r.loc + n]
    BY <2>1 DEF Through
  <2> HIDE DEF n
  <2> QED
    BY <2>3, <2>4 DEF Addressed
<1> QED
  BY <1>1, <1>2, EnterStep

LEMMA EnumDoneStep ==
  ASSUME IInv, ~ panicked, EnumDone
  PROVE  IInv'
<1>1. TypeInv /\ LockInv /\ RingOk("admin") /\ RingOk("io") /\ CacheInv /\ DiskInv /\ RingType
  BY DEF IInv, RingInv, TypeInv, Places
<1>2. /\ pc[Boot] = "idle" /\ pc' = [pc EXCEPT ![Boot] = "done"]
      /\ parts' = [n \in DOMAIN Table.entries |-> Partition(Table.entries[n])]
      /\ UNCHANGED <<disk, queue, ctrl, made, cache, boot, overwritten, lock, req, progress,
                     slot, got, before, panicked>>
  BY DEF EnumDone, rings
<1>3. Boot \in Callers /\ lock # Boot /\ (lock # None => lock \in Callers)
  BY <1>1, <1>2 DEF LockInv, TypeInv, Places, Callers
<1>4. HolderFrame
  BY <1>1, <1>2, <1>3 DEF HolderFrame, TypeInv, Places
<1>5. RingOk("admin")'
  BY <1>1, <1>2, <1>3, AdminFrameKeeps DEF Busy, TypeInv, Places
<1>6. TypeInv'
  BY <1>1, <1>2 DEF TypeInv, Places, RingType
<1>7. LockInv'
  BY <1>1, <1>2, <1>3 DEF LockInv, TypeInv, Places
<1> QED
  BY <1>1, <1>2, <1>4, <1>5, <1>6, <1>7, HolderFrameKeeps DEF IInv, RingInv, PanicInv

-----------------------------------------------------------------------------
(* Requests *)

\* What can be used of the inductive invariant.
LEMMA Parts ==
  ASSUME IInv
  PROVE  /\ TypeInv /\ LockInv /\ RingOk("admin") /\ RingOk("io") /\ CacheInv /\ DiskInv
         /\ RingType /\ (panicked => Busy("io") /\ ~ Legal(Wanted("io")))
  BY DEF IInv, RingInv, TypeInv, PanicInv

LEMMA Whole ==
  ASSUME TypeInv', LockInv', RingOk("admin")', RingOk("io")', CacheInv', DiskInv', ~ panicked'
  PROVE  IInv'
  BY DEF IInv, RingInv, PanicInv

\* The initialisation does not notice the holder of the lock.
LEMMA AdminUnseen ==
  ASSUME RingOk("admin"), queue'["admin"] = queue["admin"], UNCHANGED <<ctrl, boot>>,
         NEW t \in Callers, pc[t] # "adminwait", NEW label, label # "adminwait",
         pc \in [Callers -> Places], pc' = [pc EXCEPT ![t] = label]
  PROVE  RingOk("admin")'
<1>1. Busy("admin")' <=> Busy("admin")
  BY DEF Busy, Callers
<1> QED
  BY <1>1, AdminFrameKeeps

LEMMA LockStep ==
  ASSUME IInv, ~ panicked, NEW t \in Callers, Lock(t)
  PROVE  IInv'
<1>1. /\ TypeInv /\ LockInv /\ RingOk("admin") /\ RingOk("io") /\ CacheInv /\ DiskInv
      /\ RingType
  BY Parts
<1>2. /\ pc[t] = "lock" /\ lock = None /\ lock' = t /\ pc' = [pc EXCEPT ![t] = "find"]
      /\ progress' = [progress EXCEPT ![t] = 0]
      /\ UNCHANGED <<disk, queue, ctrl, made, cache, boot, parts, overwritten, req, slot, got,
                     before, panicked>>
  BY DEF Lock, rings
<1>3. /\ req[t] \in Addressed /\ req[t].count \in Nat \ {0} /\ req[t].loc \in Nat
      /\ req[t].op \in {"read", "write"} /\ t # None /\ got[t] = None
      /\ pc'[t] = "find" /\ progress'[t] = 0 /\ pc \in [Callers -> Places]
  <2>1. req[t] \in Addressed /\ got[t] = None
    BY <1>1, <1>2 DEF TypeInv, LockInv
  <2>2. pc'[t] = "find" /\ progress'[t] = 0 /\ pc \in [Callers -> Places]
    BY <1>1, <1>2 DEF TypeInv
  <2> QED
    BY <2>1, <2>2, AddressedFacts, Nobody
<1>4. TypeInv'
  BY <1>1, <1>2 DEF TypeInv, RingType, Places
<1>5. LockInv'
  <2>1. \A u \in Callers : u # None
    BY Nobody
  <2>2. 0 <= req[t].count
    BY <1>3
  <2>3. /\ pc'[t] = "find" /\ progress'[t] = 0
        /\ \A u \in Callers : u # t => pc'[u] = pc[u] /\ progress'[u] = progress[u]
    BY <1>1, <1>2 DEF TypeInv
  <2> QED
    BY <1>1, <1>2, <1>3, <2>1, <2>2, <2>3 DEF LockInv
<1>6. RingOk("admin")'
  BY <1>1, <1>2, <1>3, AdminUnseen
<1>7. ~ Busy("io") /\ ~ Busy("io")'
  BY <1>2, <1>3 DEF Busy
<1>8. RingOk("io")'
  BY <1>1, <1>2, <1>7 DEF RingOk, Idle, Turn
<1>9. CacheInv'
  BY <1>1, <1>2, <1>3, <1>7 DEF CacheInv, Holds
<1>10. Done(t)' = {}
  BY <1>2, <1>3, Sizes DEF Done, At, Lbas
<1>11. DiskInv'
  BY <1>1, <1>2, <1>3, <1>10 DEF DiskInv
<1> QED
  BY <1>2, <1>4, <1>5, <1>6, <1>8, <1>9, <1>11, Whole

LEMMA HitStep ==
  ASSUME IInv, ~ panicked, NEW t \in Callers, Hit(t)
  PROVE  IInv'
<1>1. /\ TypeInv /\ LockInv /\ RingOk("admin") /\ RingOk("io") /\ CacheInv /\ DiskInv
      /\ RingType
  BY Parts
<1>2. /\ pc[t] = "find" /\ pc' = [pc EXCEPT ![t] = "copy"] /\ progress[t] < req[t].count
      /\ slot' = [slot EXCEPT ![t] = Min(Cached(BlockOf(At(t))))]
      /\ Cached(BlockOf(At(t))) # {}
      /\ UNCHANGED <<disk, queue, ctrl, made, cache, boot, parts, overwritten, lock, req,
                     progress, got, before, panicked>>
  BY DEF Hit, rings
<1>3. /\ lock = t /\ t # None /\ pc'[t] = "copy" /\ pc \in [Callers -> Places]
      /\ Min(Cached(BlockOf(At(t)))) \in Cached(BlockOf(At(t)))
  <2>1. Cached(BlockOf(At(t))) \in SUBSET Slots
    BY DEF Cached
  <2>2. pc[t] \in Held /\ pc \in [Callers -> Places] /\ pc'[t] = "copy"
    BY <1>1, <1>2 DEF Held, TypeInv
  <2> QED
    BY <1>1, <1>2, <2>1, <2>2, HolderFacts, MinOfSlots
<1>4. /\ slot'[t] \in Slots /\ slot' \in [Callers -> Slots]
      /\ cache[slot'[t]].ready /\ cache[slot'[t]].block = BlockOf(At(t))
  BY <1>1, <1>2, <1>3 DEF TypeInv, Cached
<1>5. TypeInv'
  BY <1>1, <1>2, <1>4 DEF TypeInv, RingType, Places
<1>6. LockInv'
  BY <1>1, <1>2, <1>3 DEF LockInv, TypeInv
<1>7. RingOk("admin")'
  BY <1>1, <1>2, <1>3, AdminUnseen
<1>8. ~ Busy("io") /\ ~ Busy("io")'
  BY <1>2, <1>3 DEF Busy
<1>9. RingOk("io")'
  BY <1>1, <1>2, <1>8 DEF RingOk, Idle, Turn
<1>10. At(t)' = At(t)
  BY <1>2 DEF At
<1>11. CacheInv'
  BY <1>1, <1>2, <1>3, <1>4, <1>8, <1>10 DEF CacheInv, Holds
<1>12. Done(t)' = Done(t)
  BY <1>2, <1>3, <1>10 DEF Done
<1>13. DiskInv'
  BY <1>1, <1>2, <1>3, <1>12 DEF DiskInv
<1> QED
  BY <1>2, <1>5, <1>6, <1>7, <1>9, <1>11, <1>13, Whole

LEMMA MissStep ==
  ASSUME IInv, ~ panicked, NEW t \in Callers, Miss(t)
  PROVE  IInv'
<1>1. /\ TypeInv /\ LockInv /\ RingOk("admin") /\ RingOk("io") /\ CacheInv /\ DiskInv
      /\ RingType
  BY Parts
<1> DEFINE choice == IF Empty # {} THEN Min(Empty)
                     ELSE IF overwritten = CacheSlots THEN 0 ELSE overwritten
<1>2. /\ pc[t] = "find" /\ pc' = [pc EXCEPT ![t] = "fetch"] /\ progress[t] < req[t].count
      /\ slot' = [slot EXCEPT ![t] = choice]
      /\ overwritten' \in {overwritten, 0, overwritten + 1}
      /\ overwritten' = overwritten + 1 => overwritten # CacheSlots
      /\ Cached(BlockOf(At(t))) = {}
      /\ queue' = Submit("io", Command("read", choice, BlockOf(At(t))))
      /\ UNCHANGED <<disk, ctrl, made, cache, boot, parts, lock, req, progress, got, before,
                     panicked>>
  <2>1. overwritten \in Nat
    BY <1>1 DEF TypeInv
  <2> QED
    BY <2>1 DEF Miss
<1>3. choice \in Slots
  <2>1. Empty \in SUBSET Slots
    BY DEF Empty
  <2>2. overwritten # CacheSlots => overwritten \in Slots
    BY <1>1, Sizes DEF Slots, TypeInv
  <2>3. 0 \in Slots
    BY Sizes DEF Slots
  <2> QED
    BY <2>1, <2>2, <2>3, MinOfSlots
<1> PICK s \in Slots : s = choice
  BY <1>3
<1> HIDE DEF choice
<1>4. /\ lock = t /\ t # None /\ pc'[t] = "fetch" /\ pc \in [Callers -> Places]
      /\ BlockOf(At(t)) \in Nat /\ slot' \in [Callers -> Slots] /\ slot'[t] = s
  <2>1. /\ pc[t] \in Held /\ pc \in [Callers -> Places] /\ pc'[t] = "fetch"
        /\ slot' \in [Callers -> Slots] /\ slot'[t] = s
    BY <1>1, <1>2 DEF Held, TypeInv
  <2> QED
    BY <1>1, <2>1, HolderFacts
<1> PICK cmd : cmd = Command("read", s, BlockOf(At(t)))
  OBVIOUS
<1>5. cmd \in Commands /\ Idle("io")
  BY <1>1, <1>2, <1>4, CommandFacts DEF RingOk, Busy
<1>6. RingType' /\ Pending("io", cmd)' /\ queue'["admin"] = queue["admin"]
  BY <1>1, <1>2, <1>5, SubmitFacts DEF Queues
<1>7. TypeInv'
  <2>1. overwritten' \in 0 .. CacheSlots
    BY <1>1, <1>2, Sizes DEF TypeInv
  <2> QED
    BY <1>1, <1>2, <1>4, <1>6, <2>1 DEF TypeInv, Places
<1>8. LockInv'
  BY <1>1, <1>2, <1>4 DEF LockInv, TypeInv
<1>9. RingOk("admin")'
  BY <1>1, <1>2, <1>4, <1>6, AdminUnseen
<1>10. At(t)' = At(t)
  BY <1>2 DEF At
<1>11. RingOk("io")'
  <2>1. Busy("io")' /\ Wanted("io")' = cmd
    BY <1>2, <1>4, <1>10 DEF Busy, Wanted
  <2> QED
    BY <1>6, <2>1 DEF RingOk
<1>12. ~ Executed'
  <2>1. ctrl'["io"].sqhead \in Ring
    BY <1>6 DEF RingType, ControllerSide, Queues
  <2> QED
    BY <1>6, <2>1, WrapFacts DEF Executed, Pending
<1>13. CacheInv'
  <2>1. /\ \A r \in Slots : cache[r].ready => Holds(r, cache[r].block)
        /\ \A r \in Slots : cache[r].ready => cache[r].block # BlockOf(At(t))
    BY <1>1, <1>2, <1>4 DEF CacheInv, Cached, Busy
  <2>2. \A r, b : Holds(r, b)' <=> Holds(r, b)
    BY <1>2 DEF Holds
  <2> QED
    BY <1>1, <1>2, <1>4, <1>10, <1>12, <2>1, <2>2 DEF CacheInv
<1>14. Done(t)' = Done(t)
  BY <1>2, <1>4, <1>10 DEF Done
<1>15. DiskInv'
  BY <1>1, <1>2, <1>4, <1>14 DEF DiskInv
<1> QED
  BY <1>2, <1>7, <1>8, <1>9, <1>11, <1>13, <1>15, Whole

LEMMA FetchedStep ==
  ASSUME IInv, ~ panicked, NEW t \in Callers, Fetched(t)
  PROVE  IInv'
<1>1. /\ TypeInv /\ LockInv /\ RingOk("admin") /\ RingOk("io") /\ CacheInv /\ DiskInv
      /\ RingType
  BY Parts
<1>2. /\ pc[t] = "fetch" /\ pc' = [pc EXCEPT ![t] = "copy"] /\ Completed("io")
      /\ queue' = Consume("io") /\ cache' = Filled(t)
      /\ UNCHANGED <<disk, ctrl, made, boot, parts, overwritten, lock, req, progress, slot, got,
                     before, panicked>>
  BY DEF Fetched
<1>3. /\ lock = t /\ t # None /\ pc'[t] = "copy" /\ pc \in [Callers -> Places]
      /\ BlockOf(At(t)) \in Nat /\ slot[t] \in Slots
  <2>1. pc[t] \in Held /\ pc \in [Callers -> Places] /\ pc'[t] = "copy"
    BY <1>1, <1>2 DEF Held, TypeInv
  <2> QED
    BY <1>1, <2>1, HolderFacts
<1>4. Posted("io", Legal(Wanted("io")))
  BY <1>1, <1>2, CompletedPosted DEF Queues
<1>5. RingType' /\ Idle("io")' /\ queue'["admin"] = queue["admin"]
  BY <1>1, <1>2, <1>4, ConsumeFacts DEF Queues
<1>6. Executed
  BY <1>4 DEF Posted, Executed
<1>7. /\ cache' \in [Slots -> [block : Nat, ready : BOOLEAN, data : [InBlock -> Values \cup {None}]]]
      /\ cache'[slot[t]].ready /\ cache'[slot[t]].block = BlockOf(At(t))
      /\ cache'[slot[t]].data = cache[slot[t]].data
      /\ \A s \in Slots : s # slot[t] => cache'[s] = cache[s]
  BY <1>1, <1>2, <1>3 DEF TypeInv, Filled
<1>8. TypeInv'
  BY <1>1, <1>2, <1>5, <1>7 DEF TypeInv, Places
<1>9. LockInv'
  BY <1>1, <1>2, <1>3 DEF LockInv, TypeInv
<1>10. RingOk("admin")'
  BY <1>1, <1>2, <1>3, <1>5, AdminUnseen
<1>11. ~ Busy("io")'
  BY <1>2, <1>3 DEF Busy
<1>12. RingOk("io")'
  BY <1>5, <1>11 DEF RingOk
<1>13. At(t)' = At(t)
  BY <1>2 DEF At
<1>14. CacheInv'
  <2>1. /\ Holds(slot[t], BlockOf(At(t)))
        /\ \A s \in Slots : cache[s].ready => cache[s].block # BlockOf(At(t))
        /\ \A s \in Slots : cache[s].ready /\ s # slot[t] => Holds(s, cache[s].block)
        /\ \A s, r \in Slots : cache[s].ready /\ cache[r].ready
             /\ cache[s].block = cache[r].block => s = r
    BY <1>1, <1>2, <1>3, <1>6 DEF CacheInv
  <2>2. \A s \in Slots : cache'[s].ready => Holds(s, cache[s].block)'
    BY <1>2, <1>7, <2>1 DEF Holds
  <2>3. \A s, r \in Slots : cache'[s].ready /\ cache'[r].ready
             /\ cache'[s].block = cache'[r].block => s = r
    BY <1>7, <2>1
  <2> QED
    BY <1>2, <1>3, <1>7, <1>11, <1>13, <2>2, <2>3 DEF CacheInv
<1>15. Done(t)' = Done(t)
  BY <1>2, <1>3, <1>13 DEF Done
<1>16. DiskInv'
  BY <1>1, <1>2, <1>3, <1>15 DEF DiskInv
<1> QED
  BY <1>2, <1>8, <1>9, <1>10, <1>12, <1>14, <1>16, Whole

LEMMA CommandErrorStep ==
  ASSUME IInv, ~ panicked, NEW t \in Callers, CommandError(t)
  PROVE  IInv'
<1>1. /\ TypeInv /\ LockInv /\ RingOk("admin") /\ RingOk("io") /\ CacheInv /\ DiskInv
      /\ RingType
  BY Parts
<1>2. /\ Completed("io") /\ ~ Entry("io").ok /\ panicked' = TRUE
      /\ UNCHANGED <<disk, queue, ctrl, made, cache, boot, parts, overwritten, lock, pc, req,
                     progress, slot, got, before>>
  BY DEF CommandError, rings, thread
<1>3. Busy("io") /\ ~ Legal(Wanted("io"))
  BY <1>1, <1>2, CompletedPosted, PostedCompleted DEF Queues
<1>4. Busy("io")' /\ ~ Legal(Wanted("io"))' /\ lock' # None
  BY <1>2, <1>3 DEF Busy, Wanted, At
<1>5. HolderFrame
  BY <1>2 DEF HolderFrame
<1>6. RingOk("admin")'
  BY <1>1, <1>2, AdminFrameKeeps DEF Busy
<1>7. TypeInv'
  BY <1>1, <1>2 DEF TypeInv, RingType, Places
<1>8. LockInv'
  BY <1>1, <1>2 DEF LockInv
<1> QED
  BY <1>1, <1>4, <1>5, <1>6, <1>7, <1>8, HolderFrameKeeps DEF IInv, RingInv, PanicInv

\* Different blocks have no LBA in common.
LEMMA BlocksApart ==
  ASSUME NEW a \in Nat, NEW b \in Nat, NEW j \in InBlock, NEW k \in InBlock,
         StartOf(a) + j = StartOf(b) + k
  PROVE  a = b
<1>1. j \in Nat /\ j < BlockLbas /\ k \in Nat /\ k < BlockLbas /\ BlockLbas \in Nat \ {0}
  BY Sizes DEF InBlock
<1>2. (a * BlockLbas + j) \div BlockLbas = a
  BY <1>1
<1>3. (b * BlockLbas + k) \div BlockLbas = b
  BY <1>1
<1> QED
  BY <1>2, <1>3 DEF StartOf

LEMMA CopyOutStep ==
  ASSUME IInv, ~ panicked, NEW t \in Callers, CopyOut(t)
  PROVE  IInv'
<1>1. /\ TypeInv /\ LockInv /\ RingOk("admin") /\ RingOk("io") /\ CacheInv /\ DiskInv
      /\ RingType
  BY Parts
<1> DEFINE old == IF got[t] = None THEN <<>> ELSE got[t]
<1>2. /\ pc[t] = "copy" /\ pc' = [pc EXCEPT ![t] = "find"] /\ req[t].op = "read"
      /\ progress' = [progress EXCEPT ![t] = @ + Chunk(t)]
      /\ got' = [got EXCEPT ![t] =
          [l \in (Round(t) \cap Lbas) \cup DOMAIN old |->
             IF l \in Round(t) THEN cache[slot[t]].data[l % BlockLbas] ELSE old[l]]]
      /\ UNCHANGED <<disk, queue, ctrl, made, cache, boot, parts, overwritten, lock, req, slot,
                     before, panicked>>
  BY DEF CopyOut, Advance, rings
<1>3. pc[t] \in Held /\ pc \in [Callers -> Places] /\ pc'[t] = "find" /\ progress[t] < req[t].count
  BY <1>1, <1>2 DEF Held, TypeInv, LockInv
<1>4. /\ lock = t /\ t # None /\ BlockOf(At(t)) \in Nat /\ slot[t] \in Slots /\ At(t) \in Nat
      /\ StartOf(BlockOf(At(t))) \in Nat /\ progress[t] \in Nat /\ req[t].loc \in Nat
  BY <1>1, <1>3, HolderFacts
<1>5. /\ Chunk(t) \in Nat \ {0} /\ progress[t] + Chunk(t) <= req[t].count
      /\ \A l \in Round(t) : /\ l - StartOf(BlockOf(At(t))) \in InBlock
                             /\ l % BlockLbas = l - StartOf(BlockOf(At(t)))
  BY <1>1, <1>3, HolderRound
<1>6. \A l \in Round(t) \cap Lbas : cache[slot[t]].data[l % BlockLbas] = before[l]
  <2>1. Holds(slot[t], BlockOf(At(t))) /\ disk = before
    BY <1>1, <1>2, <1>4 DEF CacheInv, DiskInv, Busy
  <2>2. ASSUME NEW l \in Round(t) \cap Lbas
        PROVE  cache[slot[t]].data[l % BlockLbas] = before[l]
    <3>1. l \in Int
      BY <1>4, <1>5 DEF Round
    <3>2. StartOf(BlockOf(At(t))) + (l - StartOf(BlockOf(At(t)))) = l
      BY <1>4, <3>1
    <3> QED
      BY <1>5, <2>1, <3>2 DEF Holds
  <2> QED
    BY <2>2
<1>7. /\ progress' \in [Callers -> Nat] /\ progress'[t] = progress[t] + Chunk(t)
      /\ progress'[t] # 0 /\ At(t)' = At(t) + Chunk(t)
  <2>1. progress' \in [Callers -> Nat] /\ progress'[t] = progress[t] + Chunk(t)
    BY <1>1, <1>2, <1>4, <1>5 DEF TypeInv
  <2> HIDE DEF old
  <2>2. req'[t] = req[t]
    BY <1>2
  <2> QED
    BY <1>4, <1>5, <2>1, <2>2 DEF At
<1>8. Done(t) = {l \in Lbas : req[t].loc <= l /\ l < At(t)}
      /\ Done(t)' = {l \in Lbas : req[t].loc <= l /\ l < At(t) + Chunk(t)}
  BY <1>2, <1>3, <1>4, <1>5, <1>7 DEF Done
<1>9. /\ Done(t)' = (Round(t) \cap Lbas) \cup Done(t)
      /\ Done(t) \cap Round(t) = {} /\ Done(t) \subseteq Lbas
  <2>1. At(t) >= req[t].loc
    BY <1>4 DEF At
  <2>2. \A l \in Lbas : l \in Int
    BY Sizes DEF Lbas
  <2>3. \A l \in Lbas : l \in Round(t) <=> At(t) <= l /\ l < At(t) + Chunk(t)
    BY <1>4, <1>5, <2>2 DEF Round
  <2> QED
    BY <1>4, <1>5, <1>8, <2>1, <2>2, <2>3
<1>10. DOMAIN old = Done(t) /\ \A l \in Done(t) : old[l] = before[l]
  <2>1. CASE progress[t] = 0
    <3>1. At(t) = req[t].loc /\ got[t] = None
      BY <1>1, <1>2, <1>4, <2>1 DEF At, DiskInv
    <3>2. Done(t) = {}
      BY <1>4, <1>8, <3>1, Sizes DEF Lbas
    <3> QED
      BY <3>1, <3>2
  <2>2. CASE progress[t] # 0
    <3>1. got[t] = [l \in Done(t) |-> before[l]]
      BY <1>1, <1>2, <1>4, <2>2 DEF DiskInv
    <3>2. got[t] \in [Done(t) -> Values]
      BY <1>1, <1>9, <3>1 DEF TypeInv
    <3>3. got[t] # None
      BY <1>9, <3>2, NoneAssumption DEF Lbas
    <3> QED
      BY <3>1, <3>3
  <2> QED
    BY <2>1, <2>2
<1>11. got'[t] = [l \in Done(t)' |-> before[l]]
  <2>1. got'[t] = [l \in (Round(t) \cap Lbas) \cup DOMAIN old |->
             IF l \in Round(t) THEN cache[slot[t]].data[l % BlockLbas] ELSE old[l]]
    BY <1>1, <1>2 DEF TypeInv
  <2> HIDE DEF old
  <2> QED
    BY <1>6, <1>9, <1>10, <2>1
<1>12. got' \in [Callers -> Answers]
  <2>1. got'[t] \in [Done(t)' -> Values] /\ Done(t)' \in SUBSET Lbas
    BY <1>1, <1>9, <1>11 DEF TypeInv
  <2>2. got'[t] \in Answers
    BY <2>1 DEF Answers
  <2>3. got \in [Callers -> Answers]
    BY <1>1 DEF TypeInv
  <2> HIDE DEF old
  <2> QED
    BY <1>2, <2>2, <2>3
<1> HIDE DEF old
<1>13. TypeInv'
  BY <1>1, <1>2, <1>7, <1>12 DEF TypeInv, RingType, Places
<1>14. LockInv'
  <2>1. \A u \in Callers : u # t =>
          pc'[u] = pc[u] /\ progress'[u] = progress[u] /\ got'[u] = got[u]
    BY <1>1, <1>2 DEF TypeInv
  <2> QED
    BY <1>1, <1>2, <1>3, <1>5, <1>7, <2>1 DEF LockInv
<1>15. RingOk("admin")'
  BY <1>1, <1>2, <1>3, AdminUnseen
<1>16. ~ Busy("io") /\ ~ Busy("io")'
  BY <1>2, <1>3, <1>4 DEF Busy
<1>17. RingOk("io")'
  BY <1>1, <1>2, <1>16 DEF RingOk, Idle, Turn
<1>18. CacheInv'
  BY <1>1, <1>2, <1>3, <1>4, <1>16 DEF CacheInv, Holds
<1>19. DiskInv'
  BY <1>1, <1>2, <1>4, <1>7, <1>11 DEF DiskInv
<1> QED
  BY <1>2, <1>13, <1>14, <1>15, <1>17, <1>18, <1>19, Whole

LEMMA CopyInStep ==
  ASSUME IInv, ~ panicked, NEW t \in Callers, CopyIn(t)
  PROVE  IInv'
<1>1. /\ TypeInv /\ LockInv /\ RingOk("admin") /\ RingOk("io") /\ CacheInv /\ DiskInv
      /\ RingType
  BY Parts
<1>2. /\ pc[t] = "copy" /\ pc' = [pc EXCEPT ![t] = "store"] /\ req[t].op = "write"
      /\ cache' = [cache EXCEPT ![slot[t]].ready = TRUE, ![slot[t]].data =
                 [k \in InBlock |-> IF \E l \in Round(t) : l % BlockLbas = k
                                    THEN req[t].val ELSE @[k]]]
      /\ queue' = Submit("io", Command("write", slot[t], cache[slot[t]].block))
      /\ UNCHANGED <<disk, ctrl, made, boot, parts, overwritten, lock, req, progress, slot, got,
                     before, panicked>>
  BY DEF CopyIn
<1>3. pc[t] \in Held /\ pc \in [Callers -> Places] /\ pc'[t] = "store" /\ progress[t] < req[t].count
  BY <1>1, <1>2 DEF Held, TypeInv, LockInv
<1>4. /\ lock = t /\ t # None /\ BlockOf(At(t)) \in Nat /\ slot[t] \in Slots /\ At(t) \in Nat
      /\ StartOf(BlockOf(At(t))) \in Nat /\ req[t].val \in Values
  BY <1>1, <1>2, <1>3, HolderFacts
<1>5. /\ Chunk(t) \in Nat \ {0}
      /\ \A l \in Round(t) : /\ l - StartOf(BlockOf(At(t))) \in InBlock
                             /\ l % BlockLbas = l - StartOf(BlockOf(At(t)))
  BY <1>1, <1>3, HolderRound
<1> PICK s \in Slots, b \in Nat, st \in Nat : s = slot[t] /\ b = BlockOf(At(t)) /\ st = StartOf(b)
  BY <1>4
<1>6. /\ cache[s].ready /\ cache[s].block = b /\ Holds(s, b)
      /\ \A r \in Slots : cache[r].ready /\ cache[r].block = b => r = s
      /\ \A r \in Slots : cache[r].ready => Holds(r, cache[r].block)
  BY <1>1, <1>2, <1>4 DEF CacheInv, Busy
<1> PICK cmd : cmd = Command("write", s, b)
  OBVIOUS
<1>7. cmd \in Commands /\ Idle("io")
  BY <1>1, <1>2, <1>4, CommandFacts DEF RingOk, Busy
<1>8. RingType' /\ Pending("io", cmd)' /\ queue'["admin"] = queue["admin"]
  BY <1>1, <1>2, <1>6, <1>7, SubmitFacts DEF Queues
<1>9. /\ cache' \in [Slots -> [block : Nat, ready : BOOLEAN, data : [InBlock -> Values \cup {None}]]]
      /\ \A r \in Slots : cache'[r].block = cache[r].block
      /\ \A r \in Slots : r # s => cache'[r] = cache[r]
      /\ cache'[s].ready
      /\ \A k \in InBlock : cache'[s].data[k] =
           IF \E l \in Round(t) : l % BlockLbas = k THEN req[t].val ELSE cache[s].data[k]
  <2> DEFINE D == [k \in InBlock |-> IF \E l \in Round(t) : l % BlockLbas = k
                                    THEN req[t].val ELSE cache[s].data[k]]
  <2>1. cache \in [Slots -> [block : Nat, ready : BOOLEAN, data : [InBlock -> Values \cup {None}]]]
    BY <1>1 DEF TypeInv
  <2>2. D \in [InBlock -> Values \cup {None}]
    BY <1>4, <2>1
  <2>3. cache' = [cache EXCEPT ![s].ready = TRUE, ![s].data = D]
    BY <1>2, <2>1
  <2>4. \A k \in InBlock : D[k] =
           IF \E l \in Round(t) : l % BlockLbas = k THEN req[t].val ELSE cache[s].data[k]
    OBVIOUS
  <2> HIDE DEF D
  <2>5. /\ cache' \in [Slots -> [block : Nat, ready : BOOLEAN, data : [InBlock -> Values \cup {None}]]]
        /\ \A r \in Slots : cache'[r].block = cache[r].block
        /\ \A r \in Slots : r # s => cache'[r] = cache[r]
        /\ cache'[s].ready /\ cache'[s].data = D
    BY <2>1, <2>2, <2>3
  <2> QED
    BY <2>4, <2>5
<1>10. \A k \in InBlock : (\E l \in Round(t) : l % BlockLbas = k) <=> st + k \in Round(t)
  <2>1. \A k \in InBlock : k \in Nat
    BY Sizes DEF InBlock
  <2>2. \A l \in Round(t) : l \in Int /\ l % BlockLbas = l - st
    BY <1>4, <1>5 DEF Round
  <2>3. ASSUME NEW k \in InBlock, NEW l \in Round(t), l % BlockLbas = k
        PROVE  st + k \in Round(t)
    <3>1. l = st + k
      BY <2>1, <2>2, <2>3
    <3> QED
      BY <3>1
  <2>4. ASSUME NEW k \in InBlock, st + k \in Round(t)
        PROVE  (st + k) % BlockLbas = k
    <3>1. (st + k) % BlockLbas = (st + k) - st
      BY <2>2, <2>4
    <3> QED
      BY <2>1, <3>1
  <2> QED
    BY <2>3, <2>4
<1>11. TypeInv'
  BY <1>1, <1>2, <1>8, <1>9 DEF TypeInv, Places
<1>12. LockInv'
  <2>1. \A u \in Callers : u # t => pc'[u] = pc[u]
    BY <1>1, <1>2 DEF TypeInv
  <2>2. lock' = lock /\ boot' = boot /\ parts' = parts /\ req' = req
        /\ progress' = progress /\ got' = got
    BY <1>2
  <2> QED
    BY <1>1, <1>2, <1>3, <2>1, <2>2 DEF LockInv
<1>13. RingOk("admin")'
  BY <1>1, <1>2, <1>3, <1>8, AdminUnseen
<1>14. At(t)' = At(t)
  BY <1>2 DEF At
<1>15. Round(t)' = Round(t)
  BY <1>2, <1>14 DEF Round, Chunk
<1>16. RingOk("io")' /\ Busy("io")'
  <2>1. Busy("io")' /\ Wanted("io")' = cmd
    BY <1>2, <1>3, <1>4, <1>14 DEF Busy, Wanted
  <2> QED
    BY <1>8, <2>1 DEF RingOk
<1>17. ~ Executed'
  <2>1. ctrl'["io"].sqhead \in Ring
    BY <1>8 DEF RingType, ControllerSide, Queues
  <2> QED
    BY <1>8, <2>1, WrapFacts DEF Executed, Pending
<1>18. CacheInv'
  <2>1. \A r \in Slots : cache'[r].ready /\ r # s => Holds(r, cache[r].block)'
    <3>1. disk' = disk
      BY <1>2
    <3>2. ASSUME NEW r \in Slots, r # s, cache'[r].ready PROVE Holds(r, cache[r].block)'
      <4>1. cache'[r] = cache[r] /\ Holds(r, cache[r].block)
        BY <1>6, <1>9, <3>2
      <4> QED
        BY <3>1, <4>1 DEF Holds
    <3> QED
      BY <3>2
  <2>2. \A q, r \in Slots : cache'[q].ready /\ cache'[r].ready
          /\ cache'[q].block = cache'[r].block => q = r
    <3>1. \A q, r \in Slots : cache[q].ready /\ cache[r].ready
            /\ cache[q].block = cache[r].block => q = r
      BY <1>1 DEF CacheInv
    <3> QED
      BY <1>6, <1>9, <3>1
  <2>3. \A k \in InBlock : st + k \in Lbas => cache'[s].data[k] =
          IF st + k \in Round(t) THEN req[t].val ELSE disk[st + k]
    BY <1>6, <1>9, <1>10 DEF Holds
  <2>4. lock' = t /\ slot'[t] = s /\ BlockOf(At(t))' = b /\ StartOf(BlockOf(At(t)))' = st
    BY <1>2, <1>4, <1>14
  <2>5. req' = req /\ disk' = disk
    BY <1>2
  <2> QED
    BY <1>3, <1>4, <1>6, <1>9, <1>15, <1>16, <1>17, <2>1, <2>2, <2>3, <2>4, <2>5, SMTT(40)
       DEF CacheInv
<1>19. Done(t)' = Done(t)
  BY <1>2, <1>3, <1>14, <1>17 DEF Done
<1>20. DiskInv'
  BY <1>1, <1>2, <1>4, <1>19 DEF DiskInv
<1> QED
  BY <1>2, <1>11, <1>12, <1>13, <1>16, <1>18, <1>20, Whole

LEMMA StoredStep ==
  ASSUME IInv, ~ panicked, NEW t \in Callers, Stored(t)
  PROVE  IInv'
<1>1. /\ TypeInv /\ LockInv /\ RingOk("admin") /\ RingOk("io") /\ CacheInv /\ DiskInv
      /\ RingType
  BY Parts
<1>2. /\ pc[t] = "store" /\ pc' = [pc EXCEPT ![t] = "find"] /\ Completed("io")
      /\ queue' = Consume("io") /\ progress' = [progress EXCEPT ![t] = @ + Chunk(t)]
      /\ UNCHANGED <<disk, ctrl, made, boot, parts, cache, overwritten, lock, req, slot, got,
                     before, panicked>>
  BY DEF Stored, Advance
<1>3. /\ pc[t] \in Held /\ pc \in [Callers -> Places] /\ pc'[t] = "find"
      /\ progress[t] < req[t].count /\ req[t].op = "write"
  BY <1>1, <1>2 DEF Held, TypeInv, LockInv
<1>4. /\ lock = t /\ t # None /\ slot[t] \in Slots /\ At(t) \in Nat
      /\ progress[t] \in Nat /\ req[t].loc \in Nat
  BY <1>1, <1>3, HolderFacts
<1>5. Chunk(t) \in Nat \ {0} /\ progress[t] + Chunk(t) <= req[t].count
  BY <1>1, <1>3, HolderRound
<1>6. Posted("io", Legal(Wanted("io")))
  BY <1>1, <1>2, CompletedPosted DEF Queues
<1>7. RingType' /\ Idle("io")' /\ queue'["admin"] = queue["admin"]
  BY <1>1, <1>2, <1>6, ConsumeFacts DEF Queues
<1>8. Executed
  BY <1>6 DEF Posted, Executed
<1>9. /\ progress' \in [Callers -> Nat] /\ progress'[t] = progress[t] + Chunk(t)
      /\ At(t)' = At(t) + Chunk(t)
  BY <1>1, <1>2, <1>4, <1>5 DEF TypeInv, At
<1>10. TypeInv'
  BY <1>1, <1>2, <1>7, <1>9 DEF TypeInv, Places
<1>11. LockInv'
  <2>1. \A u \in Callers : u # t => pc'[u] = pc[u] /\ progress'[u] = progress[u]
    BY <1>1, <1>2 DEF TypeInv
  <2> QED
    BY <1>1, <1>2, <1>3, <1>5, <1>9, <2>1 DEF LockInv
<1>12. RingOk("admin")'
  BY <1>1, <1>2, <1>3, <1>7, AdminUnseen
<1>13. ~ Busy("io")'
  BY <1>2, <1>3, <1>4 DEF Busy
<1>14. RingOk("io")'
  BY <1>7, <1>13 DEF RingOk
<1>15. CacheInv'
  <2>1. \A s \in Slots : cache[s].ready => Holds(s, cache[s].block)
    BY <1>1, <1>2, <1>4, <1>8 DEF CacheInv, Busy
  <2>2. \A s, b : Holds(s, b)' <=> Holds(s, b)
    BY <1>2 DEF Holds
  <2> QED
    BY <1>1, <1>2, <1>3, <1>4, <1>13, <2>1, <2>2 DEF CacheInv
<1>16. Done(t)' = Done(t)
  BY <1>2, <1>3, <1>4, <1>5, <1>8, <1>9 DEF Done
<1>17. DiskInv'
  BY <1>1, <1>2, <1>3, <1>4, <1>16 DEF DiskInv
<1> QED
  BY <1>2, <1>10, <1>11, <1>12, <1>14, <1>15, <1>17, Whole

LEMMA ReturnStep ==
  ASSUME IInv, ~ panicked, NEW t \in Callers, Return(t)
  PROVE  IInv'
<1>1. /\ TypeInv /\ LockInv /\ RingOk("admin") /\ RingOk("io") /\ CacheInv /\ DiskInv
      /\ RingType
  BY Parts
<1>2. /\ pc[t] = "find" /\ pc' = [pc EXCEPT ![t] = "idle"] /\ lock' = None /\ before' = disk
      /\ req' = [req EXCEPT ![t] = None] /\ progress' = [progress EXCEPT ![t] = 0]
      /\ slot' = [slot EXCEPT ![t] = 0]
      /\ UNCHANGED <<disk, queue, ctrl, made, cache, boot, parts, overwritten, got, panicked>>
  BY DEF Return, rings
<1>3. pc[t] \in Held /\ pc \in [Callers -> Places] /\ pc'[t] = "idle"
  BY <1>1, <1>2 DEF Held, TypeInv
<1>4. lock = t /\ t # None
  BY <1>1, <1>3, HolderFacts
<1>5. TypeInv'
  <2>1. 0 \in Slots
    BY Sizes DEF Slots
  <2> QED
    BY <1>1, <1>2, <2>1 DEF TypeInv, RingType, Places
<1>6. LockInv'
  <2>1. \A u \in Callers : u # t => pc'[u] = pc[u] /\ progress'[u] = progress[u] /\ req'[u] = req[u]
    BY <1>1, <1>2 DEF TypeInv
  <2>2. req'[t] = None /\ None \notin Callers
    BY <1>1, <1>2, Nobody DEF TypeInv
  <2> QED
    BY <1>1, <1>2, <1>3, <1>4, <2>1, <2>2 DEF LockInv
<1>7. RingOk("admin")'
  BY <1>1, <1>2, <1>3, AdminUnseen
<1>8. ~ Busy("io") /\ ~ Busy("io")'
  BY <1>2, <1>3, <1>4 DEF Busy
<1>9. RingOk("io")'
  BY <1>1, <1>2, <1>8 DEF RingOk, Idle, Turn
<1>10. CacheInv'
  BY <1>1, <1>2, <1>3, <1>4, <1>8 DEF CacheInv, Holds
<1>11. DiskInv'
  BY <1>2 DEF DiskInv
<1> QED
  BY <1>2, <1>5, <1>6, <1>7, <1>9, <1>10, <1>11, Whole

\* The controller carries out what the holder of the lock waits for.
LEMMA ExecuteIoStep ==
  ASSUME IInv, ~ panicked, Execute("io")
  PROVE  IInv'
<1>1. /\ TypeInv /\ LockInv /\ RingOk("admin") /\ RingOk("io") /\ CacheInv /\ DiskInv
      /\ RingType
  BY Parts
<1>2. Busy("io") /\ Pending("io", Wanted("io"))
  BY <1>1, MustBePending DEF Execute, Queues
<1> PICK t \in Callers : t = lock /\ pc[t] \in {"fetch", "store"} /\ lock # None
  BY <1>1, <1>2 DEF Busy, TypeInv
<1>3. /\ pc[t] \in Held /\ progress[t] < req[t].count /\ (pc[t] = "store" => req[t].op = "write")
  BY <1>1 DEF Held, LockInv
<1>4. /\ BlockOf(At(t)) \in Nat /\ slot[t] \in Slots /\ At(t) \in Nat /\ req[t].loc \in Nat
      /\ StartOf(BlockOf(At(t))) \in Nat /\ (req[t].op = "write" => req[t].val \in Values)
      /\ progress[t] \in Nat
  BY <1>1, <1>3, HolderFacts
<1> PICK s \in Slots, b \in Nat, st \in Nat : s = slot[t] /\ b = BlockOf(At(t)) /\ st = StartOf(b)
  BY <1>4
<1> PICK op \in {"read", "write"} : op = IF pc[t] = "fetch" THEN "read" ELSE "write"
  OBVIOUS
<1> PICK cmd : cmd = Command(op, s, b)
  OBVIOUS
<1>5. Wanted("io") = cmd
  BY DEF Wanted
<1>6. /\ cmd.op = op /\ cmd.slot = s /\ cmd.start = st
      /\ \A l \in Lbas : l \in Moved(cmd) <=> st <= l /\ l < st + BlockLbas
  BY CommandFacts
<1>7. /\ RingType' /\ Posted("io", Legal(cmd))'
      /\ queue'["admin"] = queue["admin"] /\ ctrl'["admin"] = ctrl["admin"]
      /\ disk' = IF op # "write" THEN disk
                 ELSE [l \in Lbas |-> IF l \in Moved(cmd) THEN cache[s].data[l - st] ELSE disk[l]]
      /\ cache' = IF op # "read" THEN cache
                  ELSE [cache EXCEPT ![s].data =
                          [k \in InBlock |-> IF st + k \in Moved(cmd)
                                             THEN disk[st + k] ELSE @[k]]]
  BY <1>1, <1>2, <1>5, <1>6, ExecuteFacts DEF Queues
<1>8. UNCHANGED <<boot, parts, overwritten, lock, pc, req, progress, slot, got, before, panicked>>
  BY DEF Execute, thread
<1>9. \A k \in InBlock : k \in Nat /\ k < BlockLbas
  BY Sizes DEF InBlock
<1>10. \A l \in Lbas : l \in Int
  BY Sizes DEF Lbas
<1>11. \A k \in InBlock : st + k \in Lbas => st + k \in Moved(cmd)
  <2>1. BlockLbas \in Nat
    BY Sizes
  <2> QED
    BY <1>6, <1>9, <2>1
<1>12. Executed' /\ ~ Executed
  <2>1. Executed'
    BY <1>7 DEF Posted, Executed
  <2>2. ctrl["io"].sqhead \in Ring
    BY <1>1 DEF RingType, ControllerSide, Queues
  <2> QED
    BY <1>2, <2>1, <2>2, WrapFacts DEF Executed, Pending
<1>13. Busy("io")' /\ Wanted("io")' = cmd /\ At(t)' = At(t) /\ lock' = t /\ pc' = pc /\ slot'[t] = s
       /\ BlockOf(At(t))' = b /\ StartOf(BlockOf(At(t)))' = st /\ Chunk(t)' = Chunk(t)
  BY <1>2, <1>5, <1>8 DEF Busy, Wanted, At, Chunk
<1>14. RingOk("io")'
  BY <1>7, <1>13 DEF RingOk
<1>15. RingOk("admin")'
  BY <1>1, <1>7, <1>8, AdminFrameKeeps DEF Busy
<1>16. LockInv'
  BY <1>1, <1>8 DEF LockInv
<1>17. ASSUME cache' \in [Slots -> [block : Nat, ready : BOOLEAN,
                                    data : [InBlock -> Values \cup {None}]]],
              disk' \in [Lbas -> Values]
       PROVE  TypeInv'
  BY <1>1, <1>7, <1>8, <1>17 DEF TypeInv
<1>18. /\ cache \in [Slots -> [block : Nat, ready : BOOLEAN, data : [InBlock -> Values \cup {None}]]]
       /\ disk \in [Lbas -> Values]
  BY <1>1 DEF TypeInv
<1>19. CASE pc[t] = "fetch"
  <2>1. disk' = disk /\ op = "read"
    BY <1>7, <1>19
  <2> DEFINE D == [k \in InBlock |-> IF st + k \in Moved(cmd) THEN disk[st + k] ELSE cache[s].data[k]]
  <2>2. cache' = [cache EXCEPT ![s].data = D]
    BY <1>7, <1>18, <2>1
  <2>3. D \in [InBlock -> Values \cup {None}]
    <3>1. Moved(cmd) \subseteq Lbas
      BY DEF Moved
    <3> QED
      BY <1>18, <3>1
  <2>4. \A k \in InBlock : st + k \in Lbas => D[k] = disk[st + k]
    BY <1>11
  <2> HIDE DEF D
  <2>5. /\ cache' \in [Slots -> [block : Nat, ready : BOOLEAN, data : [InBlock -> Values \cup {None}]]]
        /\ cache'[s].data = D
        /\ \A r \in Slots : cache'[r].block = cache[r].block /\ cache'[r].ready = cache[r].ready
        /\ \A r \in Slots : r # s => cache'[r] = cache[r]
    BY <1>18, <2>2, <2>3
  <2>6. TypeInv'
    BY <1>17, <1>18, <2>1, <2>5
  <2>7. CacheInv'
    <3>1. /\ \A r \in Slots : cache[r].ready /\ r # s => Holds(r, cache[r].block)
          /\ \A q, r \in Slots : cache[q].ready /\ cache[r].ready
               /\ cache[q].block = cache[r].block => q = r
          /\ \A r \in Slots : cache[r].ready => cache[r].block # b
      BY <1>1, <1>2, <1>19 DEF CacheInv
    <3>2. \A r \in Slots : cache'[r].ready /\ r # s => Holds(r, cache[r].block)'
      BY <2>1, <2>5, <3>1 DEF Holds
    <3>3. Holds(s, b)'
      BY <2>1, <2>4, <2>5 DEF Holds
    <3> QED
      BY <1>8, <1>12, <1>13, <1>19, <2>5, <3>1, <3>2, <3>3 DEF CacheInv
  <2>8. Done(t)' = Done(t)
    BY <1>8, <1>13, <1>19 DEF Done
  <2>9. DiskInv'
    BY <1>1, <1>8, <2>1, <2>8 DEF DiskInv
  <2> QED
    BY <1>8, <1>14, <1>15, <1>16, <2>6, <2>7, <2>9, Whole
<1>20. CASE pc[t] = "store"
  <2>1. cache' = cache /\ op = "write" /\ req[t].op = "write" /\ req[t].val \in Values
    BY <1>3, <1>4, <1>7, <1>20
  <2>2. /\ Chunk(t) \in Nat \ {0} /\ st <= At(t) /\ At(t) + Chunk(t) <= st + BlockLbas
        /\ \A l \in Round(t) : l \in Int /\ l - st \in InBlock
    BY <1>1, <1>3, <1>4, HolderRound DEF Round
  <2>3. \A k \in InBlock : st + k \in Lbas =>
          cache[s].data[k] = IF st + k \in Round(t) THEN req[t].val ELSE disk[st + k]
    BY <1>1, <1>12, <1>20 DEF CacheInv
  <2>4. disk' = [l \in Lbas |-> IF l \in Round(t) THEN req[t].val ELSE disk[l]]
    <3>1. disk' = [l \in Lbas |-> IF l \in Moved(cmd) THEN cache[s].data[l - st] ELSE disk[l]]
      BY <1>7, <2>1
    <3>2. ASSUME NEW l \in Lbas, l \in Moved(cmd)
          PROVE  cache[s].data[l - st] = IF l \in Round(t) THEN req[t].val ELSE disk[l]
      <4>1. l - st \in InBlock
        BY <1>6, <1>10, <3>2, Sizes DEF InBlock
      <4>2. st + (l - st) = l
        BY <1>10
      <4> QED
        BY <2>3, <4>1, <4>2
    <3>3. ASSUME NEW l \in Lbas, l \notin Moved(cmd)
          PROVE  l \notin Round(t)
      <4>1. l \in Round(t) => At(t) <= l /\ l < At(t) + Chunk(t)
        BY <1>4, <1>10, <2>2 DEF Round
      <4> QED
        BY <1>4, <1>6, <1>10, <2>2, <3>3, <4>1, Sizes
    <3> QED
      BY <3>1, <3>2, <3>3
  <2>5. disk' \in [Lbas -> Values]
    BY <1>18, <2>1, <2>4
  <2>6. TypeInv'
    BY <1>17, <1>18, <2>1, <2>5
  <2>7. /\ \A r \in Slots : cache[r].ready /\ r # s => Holds(r, cache[r].block)
        /\ \A q, r \in Slots : cache[q].ready /\ cache[r].ready
             /\ cache[q].block = cache[r].block => q = r
        /\ cache[s].ready /\ cache[s].block = b
    BY <1>1, <1>2, <1>20 DEF CacheInv
  <2>8. ASSUME NEW r \in Slots, cache[r].ready, r # s
        PROVE  Holds(r, cache[r].block)'
    <3> PICK a \in Nat : a = cache[r].block
      BY <1>18
    <3>1. a # b
      BY <2>7, <2>8
    <3>2. ASSUME NEW k \in InBlock, StartOf(a) + k \in Lbas
          PROVE  StartOf(a) + k \notin Round(t)
      <4>1. SUFFICES ASSUME StartOf(a) + k \in Round(t) PROVE FALSE
        OBVIOUS
      <4> PICK j \in InBlock : j = (StartOf(a) + k) - st
        BY <2>2, <4>1
      <4>2. StartOf(a) + k = StartOf(b) + j
        BY <1>9, StartType
      <4> QED
        BY <3>1, <4>2, BlocksApart
    <3>3. \A k \in InBlock : StartOf(a) + k \in Lbas => cache[r].data[k] = disk[StartOf(a) + k]
      BY <2>7, <2>8 DEF Holds
    <3>4. \A k \in InBlock : StartOf(a) + k \in Lbas => cache'[r].data[k] = disk'[StartOf(a) + k]
      BY <2>1, <2>4, <3>2, <3>3
    <3> QED
      BY <2>1, <3>4 DEF Holds
  <2>9. Holds(s, b)'
    BY <2>1, <2>3, <2>4 DEF Holds
  <2>10. CacheInv'
    BY <1>8, <1>12, <1>13, <1>20, <2>1, <2>7, <2>8, <2>9 DEF CacheInv
  <2>11. /\ Done(t) = {l \in Lbas : req[t].loc <= l /\ l < At(t)}
         /\ Done(t)' = {l \in Lbas : req[t].loc <= l /\ l < At(t) + Chunk(t)}
    BY <1>4, <1>8, <1>12, <1>13, <1>20, <2>2 DEF Done
  <2>12. \A l \in Lbas : l \in Done(t)' <=> l \in Done(t) \/ l \in Round(t)
    <3>1. req[t].loc <= At(t)
      BY <1>4 DEF At
    <3>2. \A l \in Lbas : l \in Round(t) <=> At(t) <= l /\ l < At(t) + Chunk(t)
      BY <1>4, <1>10, <2>2 DEF Round
    <3> QED
      BY <1>4, <1>10, <2>2, <2>11, <3>1, <3>2
  <2>13. DiskInv'
    <3>1. /\ \A l \in Lbas : disk[l] = IF l \in Done(t) THEN req[t].val ELSE before[l]
          /\ got[t] = None
      BY <1>1, <2>1 DEF DiskInv
    <3>2. \A l \in Lbas : disk'[l] = IF l \in Done(t)' THEN req[t].val ELSE before[l]
      BY <2>4, <2>12, <3>1
    <3> QED
      BY <1>8, <2>1, <3>1, <3>2 DEF DiskInv
  <2> QED
    BY <1>8, <1>14, <1>15, <1>16, <2>6, <2>10, <2>13, Whole
<1> QED
  BY <1>19, <1>20

LEMMA StutterStep ==
  ASSUME IInv, UNCHANGED vars
  PROVE  IInv'
<1>1. /\ TypeInv /\ LockInv /\ RingOk("admin") /\ RingOk("io") /\ CacheInv /\ DiskInv
      /\ RingType /\ PanicInv
  BY Parts DEF IInv
<1>2. UNCHANGED <<disk, queue, ctrl, made, boot, parts, cache, overwritten, lock, pc, req,
                  progress, slot, got, before, panicked>>
  BY DEF vars
<1>3. HolderFrame
  BY <1>2 DEF HolderFrame
<1>4. RingOk("admin")'
  BY <1>1, <1>2, AdminFrameKeeps DEF Busy
<1>5. TypeInv'
  BY <1>1, <1>2 DEF TypeInv, RingType
<1>6. LockInv'
  BY <1>1, <1>2 DEF LockInv
<1>7. PanicInv'
  BY <1>1, <1>2 DEF PanicInv, Busy, Wanted, At
<1> QED
  BY <1>1, <1>3, <1>4, <1>5, <1>6, <1>7, HolderFrameKeeps DEF IInv, RingInv

LEMMA IInvStep == IInv /\ [Next]_vars => IInv'
<1> SUFFICES ASSUME IInv, [Next]_vars PROVE IInv'
  OBVIOUS
<1>1. CASE UNCHANGED vars
  BY <1>1, StutterStep
<1>2. ASSUME ~ panicked, NEW q \in {"admin", "io"}, Execute(q) PROVE IInv'
  BY <1>2, ExecuteAdminStep, ExecuteIoStep
<1>3. ASSUME ~ panicked, BootStep PROVE IInv'
  BY <1>3, AdminSubmitStep, AdminDoneStep, EnumReadStep, EnumDoneStep DEF BootStep
<1>4. ASSUME ~ panicked, NEW t \in Callers, Step(t) PROVE IInv'
  BY <1>4, LockStep, HitStep, MissStep, FetchedStep, CommandErrorStep, CopyOutStep,
     CopyInStep, StoredStep, ReturnStep DEF Step
<1>5. ASSUME ~ panicked, NEW t \in Threads, NEW r \in Requests, Call(t, r) PROVE IInv'
  BY <1>5, CallStep
<1> QED
  BY <1>1, <1>2, <1>3, <1>4, <1>5 DEF Next

-----------------------------------------------------------------------------
(* Atomicity *)

\* What the callers have been given, which is the answer of the abstract device.
Ans == [t \in Callers |-> IF req[t] = None THEN got[t] ELSE None]

LEMMA InitDevice == Init => Device!Init
<1> SUFFICES ASSUME Init PROVE Device!Init
  OBVIOUS
<1>1. before \in [Lbas -> Values]
  BY RequestsAssumption DEF Init
<1> QED
  BY <1>1 DEF Init, Device!Init, Device!Lbas, Lbas

\* A request that comes in is a call of the abstract device.
LEMMA EnterDevice ==
  ASSUME IInv, NEW t \in Callers, NEW r \in Addressed, Enter(t, r), pc[t] = "idle"
  PROVE  Device!Next
<1>1. /\ req[t] = None /\ req \in [Callers -> Addressed \cup {None}] /\ r # None
      /\ got \in [Callers -> Answers]
  BY AddressedFacts DEF IInv, LockInv, TypeInv
<1>2. /\ req' = [req EXCEPT ![t] = r] /\ got' = [got EXCEPT ![t] = None] /\ UNCHANGED before
  BY DEF Enter
<1>3. Ans' = [Ans EXCEPT ![t] = None]
  <2>1. \A u \in Callers : u # t => req'[u] = req[u] /\ got'[u] = got[u]
    BY <1>1, <1>2
  <2>2. req'[t] # None
    BY <1>1, <1>2
  <2> QED
    BY <2>1, <2>2 DEF Ans
<1> QED
  BY <1>1, <1>2, <1>3 DEF Device!Next, Device!Call, Ans

\* The return of a request is where it takes effect.
LEMMA ReturnDevice ==
  ASSUME IInv, NEW t \in Callers, Return(t)
  PROVE  Device!Next
<1>1. /\ TypeInv /\ LockInv /\ DiskInv
  BY Parts
<1>2. /\ pc[t] = "find" /\ progress[t] = req[t].count /\ before' = disk /\ UNCHANGED got
      /\ req' = [req EXCEPT ![t] = None] /\ pc[t] \in Held
  BY DEF Return, Held
<1>3. /\ lock = t /\ t # None /\ req[t] \in Addressed /\ req[t].count \in Nat \ {0}
      /\ req[t].op \in {"read", "write"} /\ req[t].loc \in Nat
      /\ disk \in [Lbas -> Values] /\ before \in [Lbas -> Values]
  BY <1>1, <1>2, HolderFacts DEF TypeInv
<1>4. req[t] # None
  BY <1>3, AddressedFacts
<1>5. /\ req'[t] = None /\ \A u \in Callers : u # t => req'[u] = req[u]
  BY <1>1, <1>2 DEF TypeInv
<1>6. Done(t) = Device!Range(req[t])
  BY <1>2, <1>3 DEF Done, At, Device!Range, Device!Lbas, Lbas
<1>7. CASE req[t].op = "write"
  <2>1. /\ \A l \in Lbas : disk[l] = IF l \in Done(t) THEN req[t].val ELSE before[l]
        /\ got[t] = None
    BY <1>1, <1>3, <1>7 DEF DiskInv
  <2>2. before' = [l \in Device!Lbas |-> IF l \in Device!Range(req[t]) THEN req[t].val
                                         ELSE before[l]]
    BY <1>2, <1>3, <1>6, <2>1 DEF Device!Lbas, Lbas
  <2>3. Ans' = Ans
    BY <1>2, <1>4, <1>5, <2>1 DEF Ans
  <2> QED
    BY <1>2, <1>4, <1>7, <2>2, <2>3 DEF Device!Next, Device!Return, Ans
<1>8. CASE req[t].op = "read"
  <2>1. disk = before /\ got[t] = [l \in Done(t) |-> before[l]]
    BY <1>1, <1>2, <1>3, <1>8 DEF DiskInv
  <2>2. Ans' = [Ans EXCEPT ![t] = [l \in Device!Range(req[t]) |-> before[l]]]
    BY <1>2, <1>4, <1>5, <1>6, <2>1 DEF Ans
  <2> QED
    BY <1>2, <1>4, <1>8, <2>1, <2>2 DEF Device!Next, Device!Return, Ans
<1> QED
  BY <1>3, <1>7, <1>8

\* Every other step is one that the callers cannot see.
LEMMA UnseenDevice ==
  ASSUME IInv, ~ panicked,
         \/ \E q \in {"admin", "io"} : Execute(q)
         \/ AdminSubmit \/ AdminDone \/ EnumDone
         \/ \E t \in Callers :
              \/ Lock(t) \/ Hit(t) \/ Miss(t) \/ Fetched(t) \/ CommandError(t)
              \/ CopyOut(t) \/ CopyIn(t) \/ Stored(t)
  PROVE  UNCHANGED <<before, req, Ans>>
<1>1. CASE \E t \in Callers : CopyOut(t)
  <2>1. PICK t \in Callers : CopyOut(t)
    BY <1>1
  <2>2. UNCHANGED <<before, req>> /\ pc[t] = "copy"
    BY <2>1 DEF CopyOut
  <2>3. req[t] # None /\ got \in [Callers -> Answers]
    BY <2>2 DEF IInv, LockInv, TypeInv
  <2>4. \A u \in Callers : u # t => got'[u] = got[u]
    BY <2>1, <2>3 DEF CopyOut
  <2> QED
    BY <2>2, <2>3, <2>4 DEF Ans
<1>2. CASE ~ \E t \in Callers : CopyOut(t)
  <2>1. UNCHANGED <<before, req, got>>
    BY <1>2 DEF Execute, AdminSubmit, AdminDone, EnumDone, Lock, Hit, Miss, Fetched,
       CommandError, CopyIn, Stored, thread
  <2> QED
    BY <2>1 DEF Ans
<1> QED
  BY <1>1, <1>2

LEMMA DeviceStep ==
  IInv /\ [Next]_vars => [Device!Next]_<<before, req, Ans>>
<1> SUFFICES ASSUME IInv, [Next]_vars PROVE [Device!Next]_<<before, req, Ans>>
  OBVIOUS
<1>1. CASE UNCHANGED vars
  BY <1>1 DEF vars, Ans
<1>2. ASSUME ~ panicked, EnumRead PROVE Device!Next
  BY <1>2, EnumReadStep, EnterDevice DEF Callers
<1>3. ASSUME ~ panicked, NEW t \in Threads, NEW r \in Requests, Call(t, r) PROVE Device!Next
  <2>1. t \in Callers
    BY DEF Callers
  <2> QED
    BY <1>3, <2>1, CallStep, EnterDevice
<1>4. ASSUME NEW t \in Callers, Return(t) PROVE Device!Next
  BY <1>4, ReturnDevice
<1> QED
  BY <1>1, <1>2, <1>3, <1>4, UnseenDevice DEF Next, BootStep, Step

-----------------------------------------------------------------------------
(* Theorems *)

\* The rings, the lock, the cache and the disk are related as IInv says in every
\* state of the driver and the controller: the inductive invariant that the
\* properties below follow from.
THEOREM Inductive == Spec => []IInv
  BY InitIInv, IInvStep, PTL DEF Spec

\* At every turn of a ring, and whatever the sizes of rings and identifiers, the
\* completion on which nvme_awaitsubmitcmd stops is that of the command it
\* submitted, and no other command is on the ring.
THEOREM WaitsForItsOwn == Spec => []OwnCompletion
<1>1. IInv => OwnCompletion
  <2> SUFFICES ASSUME IInv, NEW q \in {"admin", "io"}, Completed(q)
               PROVE  Entry(q).cid = Last(q) /\ ctrl[q].sqhead = queue[q].sqtail
    BY DEF OwnCompletion, Last
  <2>1. RingType /\ RingOk(q) /\ q \in Queues
    BY Parts DEF Queues
  <2>2. Posted(q, Legal(Wanted(q)))
    BY <2>1, CompletedPosted
  <2> QED
    BY <2>2 DEF Posted
<1> QED
  BY Inductive, <1>1, PTL

\* The controller refuses a command ("nvme: cmd error") only when the request
\* itself reaches a block past the end of the device: nvme_rwlba cuts every other
\* transfer to fit.
THEOREM PanicsPastEndOnly == Spec => []PanicPastEnd
<1>1. IInv => PanicPastEnd
  <2> SUFFICES ASSUME IInv, panicked PROVE StartOf(BlockOf(At(lock))) >= LbaCount
    BY DEF PanicPastEnd, StartOf
  <2>1. Busy("io") /\ ~ Legal(Wanted("io")) /\ TypeInv /\ LockInv
    BY Parts
  <2> PICK t \in Callers : t = lock /\ pc[t] \in Held
    BY <2>1, HolderIs DEF Busy
  <2>2. slot[t] \in Slots /\ BlockOf(At(t)) \in Nat /\ StartOf(BlockOf(At(t))) \in Nat
    BY <2>1, HolderFacts
  <2>3. \E op \in {"read", "write"} : Wanted("io") = Command(op, slot[t], BlockOf(At(t)))
    BY DEF Wanted
  <2>4. ~ (StartOf(BlockOf(At(t))) < LbaCount)
    BY <2>1, <2>2, <2>3, CommandFacts
  <2> QED
    BY <2>2, <2>4, Sizes
<1> QED
  BY Inductive, <1>1, PTL

\* Whenever nobody is in the driver, every block in the cache is what the disk
\* has, and no block is in two slots: an overwritten slot, a cut transfer at the
\* end of the device and a write through the cache all keep it so.
THEOREM CacheCoherent ==
  Spec => [](lock = None =>
    /\ \A s \in Slots : cache[s].ready => Holds(s, cache[s].block)
    /\ \A s, r \in Slots :
         cache[s].ready /\ cache[r].ready /\ cache[s].block = cache[r].block => s = r)
<1>1. IInv => (lock = None =>
        /\ \A s \in Slots : cache[s].ready => Holds(s, cache[s].block)
        /\ \A s, r \in Slots :
             cache[s].ready /\ cache[r].ready /\ cache[s].block = cache[r].block => s = r)
  BY DEF IInv, CacheInv, Busy
<1> QED
  BY Inductive, <1>1, PTL

\* The driver with its cache implements a device on which every request takes
\* effect at one instant: what a read returns is what the writes before it have
\* left there, for requests of any length, over any number of blocks.
THEOREM RequestsAtomic == Spec => Atomic
<1>1. IInv /\ [Next]_vars => [Device!Next]_<<before, req, Ans>>
  BY DeviceStep
<1> QED
  BY InitDevice, Inductive, <1>1, PTL DEF Spec, Atomic, Device!Spec, Ans

=============================================================================
