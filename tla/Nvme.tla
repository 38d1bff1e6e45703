-------------------------------- MODULE Nvme --------------------------------
(***************************************************************************)
(* The NVMe driver of dev/storage/nvme/nvme.c with the partitions of       *)
(* dev/storage/partition.c in front of it: the submission and completion   *)
(* rings shared with the controller, and the write-through cache of blocks *)
(* that reads and writes go through under the lock of the namespace.       *)
(*                                                                         *)
(* Addresses are in logical blocks (LBAs); the transfer of one cache block *)
(* fits one page, so that commands need no list of pages.  The controller  *)
(* is external: it takes commands in ring order and completes each in turn.*)
(***************************************************************************)
EXTENDS Integers, Sequences, FiniteSets, FiniteSetsExt

CONSTANTS
  Threads,
  Values,       \* contents of an LBA
  LbaCount,     \* ns->lbacount
  BlockLbas,    \* LBAs in a cache block (4 in the code)
  CacheSlots,   \* entries of ns->cache (512 in the code)
  QueueSlots,   \* elements of a ring
  CidSpace,     \* bound: command identifiers are counted modulo this (2^16)
  LbaSize,      \* bytes of an LBA
  Table,        \* the partition table: [gpt, entries]
  Requests,     \* bound: the requests made: [via, op, loc, count, val]
  None

ASSUME SizesAssumption ==
  /\ {LbaCount, BlockLbas, CacheSlots, LbaSize} \subseteq Nat \ {0}
  /\ {QueueSlots, CidSpace} \subseteq Nat \ {0, 1}

ASSUME RequestsAssumption ==
  /\ Values # {}
  /\ Table.entries \in Seq([start : Nat, end : Nat])
  /\ Requests \subseteq [via : 0 .. Len(Table.entries), op : {"read", "write"},
                          loc : Nat, count : Nat \ {0}, val : Values \cup {None}]
  /\ \A r \in Requests : r.op = "write" => r.val \in Values

\* NULL is neither a thread nor a request nor what a read returns.
ASSUME NoneAssumption ==
  /\ None \notin Threads \cup {"boot"}
  /\ None \notin [op : {"read", "write"}, loc : Nat, count : Nat, val : Values \cup {None}]
  /\ \A S \in SUBSET (0 .. LbaCount - 1) : None \notin [S -> Values]

VARIABLES
  disk,      \* what the controller holds
  queue,     \* "admin" and "io": the driver's side of the two rings
  ctrl,      \* the controller's side
  made,      \* the rings of the namespace that the controller has been given
  boot,      \* [admin, reads]: commands and reads done by the initialisation
  parts,     \* the partition devices, in the order they are found
  cache,     \* ns->cache
  overwritten,
  lock,      \* holder of the lock of the namespace
  pc, req, progress, slot, got,
  before,    \* history: the disk when the lock was last free
  panicked

vars == <<disk, queue, ctrl, made, boot, parts, cache, overwritten, lock, pc, req,
          progress, slot, got, before, panicked>>
rings == <<disk, queue, ctrl, made, cache>>
thread == <<pc, req, progress, slot, got>>

Boot == "boot"
Callers == Threads \cup {Boot}
Lbas == 0 .. LbaCount - 1
Slots == 0 .. CacheSlots - 1
InBlock == 0 .. BlockLbas - 1
BlockOf(l) == l \div BlockLbas

----------------------------------------------------------------------------
(* The rings. *)

NoEntry == [cid |-> 0, phase |-> 0, ok |-> TRUE]
NewQueue ==
  [submit |-> [i \in 0 .. QueueSlots - 1 |-> None],
   completion |-> [i \in 0 .. QueueSlots - 1 |-> NoEntry],
   sqtail |-> 0, cqhead |-> 0, cqphase |-> 1, cmdid |-> 0, doorbell |-> 0]
NewRing == [sqhead |-> 0, cqtail |-> 0, phase |-> 1]

Wrap(i) == IF i + 1 = QueueSlots THEN 0 ELSE i + 1

\* nvme_submitcmd, with the identifier that nvme_awaitsubmitcmd gives.
Submit(q, cmd) ==
  [queue EXCEPT ![q].submit[queue[q].sqtail] = [cid |-> queue[q].cmdid, cmd |-> cmd],
                ![q].sqtail = Wrap(@),
                ![q].doorbell = Wrap(queue[q].sqtail),
                ![q].cmdid = (@ + 1) % CidSpace]

\* The loop of nvme_awaitsubmitcmd ends.
Entry(q) == queue[q].completion[queue[q].cqhead]
Completed(q) == Entry(q).phase = queue[q].cqphase

\* Mutant of Consume: the phase is not flipped when the ring wraps.
ConsumeFlat(q) == [queue EXCEPT ![q].cqhead = Wrap(@)]

Consume(q) ==
  [queue EXCEPT ![q].cqhead = Wrap(@),
                ![q].cqphase = IF Wrap(queue[q].cqhead) = 0 THEN 1 - @ ELSE @]

\* The controller takes the next command (a taken one is not looked at again, and
\* is dropped from the model), transfers, and posts its completion.  The rings of
\* a namespace are served once both of them have been created.
Transfer(cmd) == cmd.op \in {"read", "write"}
Legal(cmd) == Transfer(cmd) => cmd.count > 0 /\ cmd.start + cmd.count <= LbaCount
Moved(cmd) == {l \in Lbas : cmd.start <= l /\ l < cmd.start + cmd.count}

Execute(q) ==
  /\ ctrl[q].sqhead # queue[q].doorbell
  /\ q = "io" => made = {"createcq", "createsq"}
  /\ LET e == queue[q].submit[ctrl[q].sqhead]
         cmd == e.cmd
     IN /\ queue' = [queue EXCEPT ![q].submit[ctrl[q].sqhead] = None,
                       ![q].completion[ctrl[q].cqtail] =
                         [cid |-> e.cid, phase |-> ctrl[q].phase, ok |-> Legal(cmd)]]
        /\ ctrl' = [ctrl EXCEPT ![q] =
                      [sqhead |-> Wrap(@.sqhead), cqtail |-> Wrap(@.cqtail),
                       phase |-> IF Wrap(@.cqtail) = 0 THEN 1 - @.phase ELSE @.phase]]
        /\ made' = made \cup ({cmd.op} \cap {"createcq", "createsq"})
        /\ disk' = IF cmd.op # "write" THEN disk
                   ELSE [l \in Lbas |-> IF l \in Moved(cmd)
                                        THEN cache[cmd.slot].data[l - cmd.start]
                                        ELSE disk[l]]
        /\ cache' = IF cmd.op # "read" THEN cache
                    ELSE [cache EXCEPT ![cmd.slot].data =
                            [k \in InBlock |-> IF cmd.start + k \in Moved(cmd)
                                               THEN disk[cmd.start + k] ELSE @[k]]]
  /\ UNCHANGED <<boot, parts, overwritten, lock, thread, before, panicked>>

----------------------------------------------------------------------------
(* Initialisation: nvme_initcontroller, nvme_initnamespace, partition_enum. *)

AdminCommands == <<"identify", "nslist", "setqueues", "nsid", "createcq", "createsq">>

\* The header of a GPT, then its entries, or else the MBR.
EnumReads == IF Table.gpt THEN <<1, 2>> ELSE <<1, 0>>

\* A partition as the table gives it.  The length of a GPT partition is divided by
\* the size of an LBA although it is already a number of LBAs.
Partition(e) ==
  [start |-> e.start,
   sectors |-> IF Table.gpt THEN (e.end - e.start) \div LbaSize ELSE e.end - e.start]

Init ==
  /\ disk = [l \in Lbas |-> CHOOSE v \in Values : TRUE]
  /\ queue = [q \in {"admin", "io"} |-> NewQueue]
  /\ ctrl = [q \in {"admin", "io"} |-> NewRing]
  /\ made = {}
  /\ boot = [admin |-> 0, reads |-> 0]
  /\ parts = <<>>
  /\ cache = [s \in Slots |-> [block |-> 0, ready |-> FALSE,
                               data |-> [k \in InBlock |-> None]]]
  /\ overwritten = 0
  /\ lock = None
  /\ pc = [t \in Callers |-> IF t = Boot THEN "admin" ELSE "idle"]
  /\ req = [t \in Callers |-> None]
  /\ progress = [t \in Callers |-> 0]
  /\ slot = [t \in Callers |-> 0]
  /\ got = [t \in Callers |-> None]
  /\ before = disk
  /\ panicked = FALSE

AdminSubmit ==
  /\ pc[Boot] = "admin" /\ boot.admin < Len(AdminCommands)
  /\ queue' = Submit("admin", [op |-> AdminCommands[boot.admin + 1]])
  /\ pc' = [pc EXCEPT ![Boot] = "adminwait"]
  /\ UNCHANGED <<disk, ctrl, made, boot, parts, cache, overwritten, lock, req,
                 progress, slot, got, before, panicked>>

AdminDone ==
  /\ pc[Boot] = "adminwait" /\ Completed("admin")
  /\ queue' = Consume("admin")
  /\ boot' = [boot EXCEPT !.admin = @ + 1]
  /\ pc' = [pc EXCEPT ![Boot] = IF boot'.admin = Len(AdminCommands) THEN "idle"
                                ELSE "admin"]
  /\ UNCHANGED <<disk, ctrl, made, parts, cache, overwritten, lock, req, progress,
                 slot, got, before, panicked>>

\* A request enters nvme_read or nvme_write.
Enter(t, r) ==
  /\ pc' = [pc EXCEPT ![t] = "lock"]
  /\ req' = [req EXCEPT ![t] = r]
  /\ got' = [got EXCEPT ![t] = None]
  /\ UNCHANGED <<rings, overwritten, lock, progress, slot, before, panicked>>

Reading(l) == [op |-> "read", loc |-> l, count |-> 1, val |-> None]

EnumRead ==
  /\ pc[Boot] = "idle" /\ boot.reads < Len(EnumReads)
  /\ boot' = [boot EXCEPT !.reads = @ + 1]
  /\ Enter(Boot, Reading(EnumReads[boot.reads + 1]))
  /\ UNCHANGED parts

EnumDone ==
  /\ pc[Boot] = "idle" /\ boot.reads = Len(EnumReads)
  /\ parts' = [n \in DOMAIN Table.entries |-> Partition(Table.entries[n])]
  /\ pc' = [pc EXCEPT ![Boot] = "done"]
  /\ UNCHANGED <<rings, boot, overwritten, lock, req, progress, slot, got, before,
                 panicked>>

----------------------------------------------------------------------------
(* Requests: on the device, or through readpart and writepart, which check where *)
(* the request starts but not where it ends.                                     *)

Through(r) ==
  [op |-> r.op, count |-> r.count, val |-> r.val,
   loc |-> IF r.via = 0 THEN r.loc ELSE r.loc + parts[r.via].start]

Call(t, r) ==
  /\ pc[Boot] = "done" /\ pc[t] = "idle"
  /\ r.via # 0 => r.loc < parts[r.via].sectors
  /\ Enter(t, Through(r))
  /\ UNCHANGED <<boot, parts>>

\* Mutant of Lock: the lock is not waited for.
LockLoose(t) ==
  /\ pc[t] = "lock"
  /\ lock' = t
  /\ pc' = [pc EXCEPT ![t] = "find"]
  /\ progress' = [progress EXCEPT ![t] = 0]
  /\ UNCHANGED <<rings, boot, parts, overwritten, req, slot, got, before, panicked>>

Lock(t) ==
  /\ pc[t] = "lock" /\ lock = None
  /\ lock' = t
  /\ pc' = [pc EXCEPT ![t] = "find"]
  /\ progress' = [progress EXCEPT ![t] = 0]
  /\ UNCHANGED <<rings, boot, parts, overwritten, req, slot, got, before, panicked>>

At(t) == req[t].loc + progress[t]
Chunk(t) == Min({req[t].count - progress[t], BlockLbas - (At(t) % BlockLbas)})

\* Mutant of Command: always a whole block.
CommandUncut(op, s, block) ==
  [op |-> op, slot |-> s, start |-> block * BlockLbas, count |-> BlockLbas]

\* nvme_rwlba: a transfer is cut at the end of the device.
Command(op, s, block) ==
  [op |-> op, slot |-> s, start |-> block * BlockLbas,
   count |-> Min({BlockLbas, LbaCount - block * BlockLbas})]

\* nvme_findblock, and on a miss the choice of nvme_cacheblock.
Cached(block) == {s \in Slots : cache[s].ready /\ cache[s].block = block}
Empty == {s \in Slots : ~ cache[s].ready}

Hit(t) ==
  /\ pc[t] = "find" /\ progress[t] < req[t].count
  /\ Cached(BlockOf(At(t))) # {}
  /\ slot' = [slot EXCEPT ![t] = Min(Cached(BlockOf(At(t))))]
  /\ pc' = [pc EXCEPT ![t] = "copy"]
  /\ UNCHANGED <<rings, boot, parts, overwritten, lock, req, progress, got, before,
                 panicked>>

Miss(t) ==
  /\ pc[t] = "find" /\ progress[t] < req[t].count
  /\ Cached(BlockOf(At(t))) = {}
  /\ LET wraps == overwritten = CacheSlots
         s == IF Empty # {} THEN Min(Empty) ELSE IF wraps THEN 0 ELSE overwritten
     IN /\ overwritten' = IF Empty # {} THEN overwritten
                          ELSE IF wraps THEN 0 ELSE overwritten + 1
        /\ slot' = [slot EXCEPT ![t] = s]
        /\ queue' = Submit("io", Command("read", s, BlockOf(At(t))))
  /\ pc' = [pc EXCEPT ![t] = "fetch"]
  /\ UNCHANGED <<disk, ctrl, made, boot, parts, cache, lock, req, progress, got,
                 before, panicked>>

Filled(t) == [cache EXCEPT ![slot[t]].block = BlockOf(At(t)), ![slot[t]].ready = TRUE]

Fetched(t) ==
  /\ pc[t] = "fetch" /\ Completed("io") /\ Entry("io").ok
  /\ queue' = Consume("io")
  /\ cache' = Filled(t)
  /\ pc' = [pc EXCEPT ![t] = "copy"]
  /\ UNCHANGED <<disk, ctrl, made, boot, parts, overwritten, lock, req, progress,
                 slot, got, before, panicked>>

\* "nvme: cmd error"
CommandError(t) ==
  /\ pc[t] \in {"fetch", "store"} /\ Completed("io") /\ ~ Entry("io").ok
  /\ panicked' = TRUE
  /\ UNCHANGED <<rings, boot, parts, overwritten, lock, thread, before>>

\* The LBAs of this round, and where they are in the cache block.
Round(t) == At(t) .. At(t) + Chunk(t) - 1
Advance(t) == progress' = [progress EXCEPT ![t] = @ + Chunk(t)]

CopyOut(t) ==
  /\ pc[t] = "copy" /\ req[t].op = "read"
  /\ LET old == IF got[t] = None THEN <<>> ELSE got[t]
     IN got' = [got EXCEPT ![t] =
          [l \in (Round(t) \cap Lbas) \cup DOMAIN old |->
             IF l \in Round(t) THEN cache[slot[t]].data[l % BlockLbas] ELSE old[l]]]
  /\ Advance(t)
  /\ pc' = [pc EXCEPT ![t] = "find"]
  /\ UNCHANGED <<rings, boot, parts, overwritten, lock, req, slot, before, panicked>>

CopyIn(t) ==
  /\ pc[t] = "copy" /\ req[t].op = "write"
  /\ cache' = [cache EXCEPT ![slot[t]].ready = TRUE, ![slot[t]].data =
                 [k \in InBlock |-> IF \E l \in Round(t) : l % BlockLbas = k
                                    THEN req[t].val ELSE @[k]]]
  /\ queue' = Submit("io", Command("write", slot[t], cache[slot[t]].block))
  /\ pc' = [pc EXCEPT ![t] = "store"]
  /\ UNCHANGED <<disk, ctrl, made, boot, parts, overwritten, lock, req, progress,
                 slot, got, before, panicked>>

Stored(t) ==
  /\ pc[t] = "store" /\ Completed("io") /\ Entry("io").ok
  /\ queue' = Consume("io")
  /\ Advance(t)
  /\ pc' = [pc EXCEPT ![t] = "find"]
  /\ UNCHANGED <<disk, ctrl, made, boot, parts, cache, overwritten, lock, req, slot,
                 got, before, panicked>>

\* Mutant of Return: a read keeps the lock.
ReturnLocked(t) ==
  /\ pc[t] = "find" /\ progress[t] = req[t].count
  /\ lock' = IF req[t].op = "read" THEN lock ELSE None
  /\ before' = disk
  /\ req' = [req EXCEPT ![t] = None]
  /\ pc' = [pc EXCEPT ![t] = "idle"]
  /\ progress' = [progress EXCEPT ![t] = 0]
  /\ slot' = [slot EXCEPT ![t] = 0]
  /\ UNCHANGED <<rings, boot, parts, overwritten, got, panicked>>

Return(t) ==
  /\ pc[t] = "find" /\ progress[t] = req[t].count
  /\ lock' = None
  /\ before' = disk
  /\ req' = [req EXCEPT ![t] = None]
  /\ pc' = [pc EXCEPT ![t] = "idle"]
  /\ progress' = [progress EXCEPT ![t] = 0]
  /\ slot' = [slot EXCEPT ![t] = 0]
  /\ UNCHANGED <<rings, boot, parts, overwritten, got, panicked>>

Step(t) ==
  \/ Lock(t) \/ Hit(t) \/ Miss(t) \/ Fetched(t) \/ CommandError(t)
  \/ CopyOut(t) \/ CopyIn(t) \/ Stored(t) \/ Return(t)

BootStep == AdminSubmit \/ AdminDone \/ EnumRead \/ EnumDone

Next ==
  /\ ~ panicked
  /\ \/ \E q \in {"admin", "io"} : Execute(q)
     \/ BootStep
     \/ \E t \in Callers : Step(t)
     \/ \E t \in Threads, r \in Requests : Call(t, r)

Spec == Init /\ [][Next]_vars

\* The controller answers, and a thread that holds the lock goes on; whoever
\* waits for the lock may wait for ever, the spinlock being unfair.
Fairness ==
  /\ \A q \in {"admin", "io"} : WF_vars(~ panicked /\ Execute(q))
  /\ WF_vars(~ panicked /\ BootStep)
  /\ \A t \in Callers : WF_vars(~ panicked /\ lock = t /\ Step(t))

FairSpec == Spec /\ Fairness

----------------------------------------------------------------------------
(* Properties *)

\* The completion that ends a wait is the one of the command waited for, at
\* every turn of the ring and of its phase.
OwnCompletion ==
  \A q \in {"admin", "io"} :
    Completed(q) => Entry(q).cid = (queue[q].cmdid + CidSpace - 1) % CidSpace
                    /\ ctrl[q].sqhead = queue[q].sqtail

\* Only a request that leaves the device makes the controller refuse a command.
PanicPastEnd ==
  panicked => BlockOf(At(lock)) * BlockLbas >= LbaCount

\* A caller that has the lock gives it back, unless the kernel panics.
LockReturned == \A t \in Callers : lock = t ~> lock # t \/ panicked

\* The requests as they reach the device.
Addressed ==
  {Reading(l) : l \in 0 .. 2} \cup
  {[op |-> r.op, count |-> r.count, val |-> r.val, loc |-> r.loc + n] :
     r \in Requests,
     n \in {0} \cup {Table.entries[i].start : i \in DOMAIN Table.entries}}

\* Every request takes effect at one instant, although its blocks are read and
\* written one by one through the cache: what a reader gets is what the last
\* writer wrote.
Device == INSTANCE BlockDevice WITH
  Threads <- Callers, content <- before, ans <- [t \in Callers |->
    IF req[t] = None THEN got[t] ELSE None],
  Requests <- Addressed

Atomic == Device!Spec
=============================================================================
