------------------------------ MODULE FdTable ------------------------------
(***************************************************************************)
(* Descriptors and open file descriptions, kernel/lib/resource.c: one      *)
(* table per process, descriptions that the tables share after dup and     *)
(* fork, and the two reference counts, the description's and that of the   *)
(* resource behind it.                                                     *)
(*                                                                         *)
(* Processes have one thread.  A section under fds_lock is one step: the   *)
(* lock guards the table of one process only, and within a section there   *)
(* is one access to each count.  A count is changed by one instruction,    *)
(* which is a step on one CPU; between steps other processes run.  A small *)
(* allocation does not fail (alloc_from_slab has no such result).  The     *)
(* descriptor's own flags and the offset play no part.  All descriptions   *)
(* are of one resource, with the counting of stub_ref and stub_unref.      *)
(***************************************************************************)
EXTENDS Integers, FiniteSetsExt

CONSTANTS
  Procs,
  First,    \* the process that exists at first
  Descs,    \* struct f_description
  MaxFds,   \* MAX_FDS
  MaxRefs,  \* bound: the largest reference count
  None

Nums == 0 .. MaxFds - 1

ASSUME FdAssumption ==
  /\ First \in Procs
  /\ None \notin Descs \cup Procs
  /\ MaxFds \in Nat /\ MaxRefs \in Nat
  /\ IsFiniteSet(Procs)

VARIABLES
  fds,       \* struct process: fds, as the descriptions they refer to
  refcount,  \* struct f_description: refcount
  alive,     \* the descriptions that are allocated
  resref,    \* struct resource: refcount
  lost,      \* opened descriptions for which there was no room in the table
  pc,        \* where each process is
  hand,      \* the description a call under way has looked up
  target,    \* fdnum_dup: [proc, num, specific]
  at,        \* syscall_fork, syscall_exit: i
  fd_list    \* syscall_ppoll: fd_list, as a count per description

counts == <<refcount, alive, resref>>
vars == <<fds, counts, lost, pc, hand, target, at, fd_list>>

NoRefs == [d \in Descs |-> 0]
NoTarget == [proc |-> None, num |-> 0, specific |-> FALSE]

Init ==
  /\ fds = [p \in Procs |-> [n \in Nums |-> None]]
  /\ refcount = NoRefs
  /\ alive = {}
  /\ resref = 0
  /\ lost = 0
  /\ pc = [p \in Procs |-> IF p = First THEN "run" ELSE "none"]
  /\ hand = [p \in Procs |-> None]
  /\ target = [p \in Procs |-> NoTarget]
  /\ at = [p \in Procs |-> 0]
  /\ fd_list = [p \in Procs |-> NoRefs]

Goto(p, where) == pc' = [pc EXCEPT ![p] = where]

-----------------------------------------------------------------------------
(* The table *)

\* The first free number from m on, if there is one.
FreeFrom(p, m) == {n \in Nums : n >= m /\ fds[p][n] = None}

\* fd_from_fdnum: the count of what it finds is raised, once per call.
Lookup(p, n, refs) ==
  /\ fds[p][n] # None
  /\ refcount[fds[p][n]] + refs <= MaxRefs
  /\ refcount' = [refcount EXCEPT ![fds[p][n]] = @ + refs]
  /\ hand' = [hand EXCEPT ![p] = fds[p][n]]

\* Mutant of Drop: the description goes with any of its descriptors.
DropAlways(d) ==
  /\ resref' = resref - 1
  /\ refcount' = [refcount EXCEPT ![d] = @ - 1]
  /\ alive' = alive \ {d}

\* The body of fdnum_close for a descriptor of description d.
Drop(d) ==
  /\ resref' = resref - 1
  /\ refcount' = [refcount EXCEPT ![d] = @ - 1]
  /\ alive' = IF refcount[d] = 1 THEN alive \ {d} ELSE alive

\* fd_create_from_resource and fdnum_create_from_fd: open, pipe, socket,
\* accept.  When the table is full the descriptor and its description stay
\* behind.
Open(p) ==
  /\ pc[p] = "run"
  /\ \E d \in Descs \ alive :
       /\ alive' = alive \cup {d}
       /\ refcount' = [refcount EXCEPT ![d] = 1]
       /\ resref' = resref + 1
       /\ \/ /\ FreeFrom(p, 0) # {}
             /\ fds' = [fds EXCEPT ![p][Min(FreeFrom(p, 0))] = d]
             /\ UNCHANGED lost
          \/ /\ FreeFrom(p, 0) = {}
             /\ lost' = lost + 1
             /\ UNCHANGED fds
  /\ UNCHANGED <<pc, hand, target, at, fd_list>>

\* syscall_close
Close(p, n) ==
  /\ pc[p] = "run" /\ fds[p][n] # None
  /\ Drop(fds[p][n])
  /\ fds' = [fds EXCEPT ![p][n] = None]
  /\ UNCHANGED <<lost, pc, hand, target, at, fd_list>>

-----------------------------------------------------------------------------
(* Calls that look the descriptor up and use its description.               *)

UseBegin(p, n) ==
  /\ pc[p] = "run"
  /\ Lookup(p, n, 1)
  /\ Goto(p, "use")
  /\ UNCHANGED <<fds, alive, resref, lost, target, at, fd_list>>

\* syscall_read, write, seek, ioctl, and fcntl without F_DUPFD: the reference is never
\* given back.
UseEnd(p) ==
  /\ pc[p] = "use"
  /\ Goto(p, "run")
  /\ hand' = [hand EXCEPT ![p] = None]
  /\ UNCHANGED <<fds, counts, lost, target, at, fd_list>>

\* The calls on sockets give it back, with no look whether it was the last.
UseReturn(p) ==
  /\ pc[p] = "use"
  /\ refcount' = [refcount EXCEPT ![hand[p]] = @ - 1]
  /\ Goto(p, "run")
  /\ hand' = [hand EXCEPT ![p] = None]
  /\ UNCHANGED <<fds, alive, resref, lost, target, at, fd_list>>

-----------------------------------------------------------------------------
(* fdnum_dup *)

\* From syscall_dup3 (specific), or from fcntl with F_DUPFD or F_DUPFD_CLOEXEC,
\* which has looked the same descriptor up before.
DupBegin(p, n, m, specific) ==
  /\ pc[p] = "run"
  /\ specific => n # m
  /\ Lookup(p, n, IF specific THEN 1 ELSE 2)
  /\ target' = [target EXCEPT ![p] = [proc |-> p, num |-> m, specific |-> specific]]
  /\ Goto(p, "dup")
  /\ UNCHANGED <<fds, alive, resref, lost, at, fd_list>>

\* fdnum_create_from_fd at the number asked for, which is closed first.
PublishSpecific(p) ==
  LET q == target[p].proc
      m == target[p].num
  IN /\ pc[p] = "dup" /\ target[p].specific /\ m \in Nums
     /\ IF fds[q][m] # None THEN Drop(fds[q][m]) ELSE UNCHANGED counts
     /\ fds' = [fds EXCEPT ![q][m] = hand[p]]
     /\ Goto(p, "ref")
     /\ UNCHANGED <<lost, hand, target, at, fd_list>>

\* fdnum_create_from_fd at the first free number.
PublishFree(p) ==
  LET q == target[p].proc
      free == FreeFrom(q, target[p].num)
  IN /\ pc[p] = "dup" /\ ~target[p].specific
     /\ free # {}
     /\ fds' = [fds EXCEPT ![q][Min(free)] = hand[p]]
     /\ Goto(p, "ref")
     /\ UNCHANGED <<counts, lost, hand, target, at, fd_list>>

\* There is no such number, or no free one.  What was looked up stays counted.
DupFails(p) ==
  /\ pc[p] = "dup"
  /\ \/ target[p].num \notin Nums
     \/ ~target[p].specific /\ FreeFrom(target[p].proc, target[p].num) = {}
  /\ Goto(p, "run")
  /\ hand' = [hand EXCEPT ![p] = None]
  /\ target' = [target EXCEPT ![p] = NoTarget]
  /\ UNCHANGED <<fds, counts, lost, at, fd_list>>

\* old_fd->description->refcount++
DupRef(p) ==
  /\ pc[p] = "ref"
  /\ refcount' = [refcount EXCEPT ![hand[p]] = @ + 1]
  /\ Goto(p, "resref")
  /\ UNCHANGED <<fds, alive, resref, lost, hand, target, at, fd_list>>

\* Mutant of DupResRef: the resource is not told.
DupResRefNone(p) ==
  /\ pc[p] = "resref"
  /\ Goto(p, IF target[p].proc = p THEN "run" ELSE "fork")
  /\ at' = [at EXCEPT ![p] = IF target[p].proc = p THEN 0 ELSE @ + 1]
  /\ hand' = [hand EXCEPT ![p] = None]
  /\ target' = [target EXCEPT ![p] = IF target[p].proc = p THEN NoTarget ELSE @]
  /\ UNCHANGED <<fds, counts, lost, fd_list>>

\* res->ref, and back to the caller, which may be the loop of syscall_fork.
DupResRef(p) ==
  /\ pc[p] = "resref"
  /\ resref' = resref + 1
  /\ Goto(p, IF target[p].proc = p THEN "run" ELSE "fork")
  /\ at' = [at EXCEPT ![p] = IF target[p].proc = p THEN 0 ELSE @ + 1]
  /\ hand' = [hand EXCEPT ![p] = None]
  /\ target' = [target EXCEPT ![p] = IF target[p].proc = p THEN NoTarget ELSE @]
  /\ UNCHANGED <<fds, refcount, alive, lost, fd_list>>

-----------------------------------------------------------------------------
(* syscall_fork and syscall_exit, as far as descriptors go *)

ForkBegin(p, q) ==
  /\ pc[p] = "run" /\ pc[q] = "none"
  /\ pc' = [pc EXCEPT ![p] = "fork", ![q] = "new"]
  /\ target' = [target EXCEPT ![p] = [proc |-> q, num |-> 0, specific |-> TRUE]]
  /\ at' = [at EXCEPT ![p] = 0]
  /\ UNCHANGED <<fds, counts, lost, hand, fd_list>>

ForkSkip(p) ==
  /\ pc[p] = "fork" /\ at[p] \in Nums
  /\ fds[p][at[p]] = None
  /\ at' = [at EXCEPT ![p] = @ + 1]
  /\ UNCHANGED <<fds, counts, lost, pc, hand, target, fd_list>>

ForkDup(p) ==
  /\ pc[p] = "fork" /\ at[p] \in Nums
  /\ Lookup(p, at[p], 1)
  /\ target' = [target EXCEPT ![p].num = at[p]]
  /\ Goto(p, "dup")
  /\ UNCHANGED <<fds, alive, resref, lost, at, fd_list>>

ForkEnd(p) ==
  /\ pc[p] = "fork" /\ at[p] \notin Nums
  /\ pc' = [pc EXCEPT ![p] = "run", ![target[p].proc] = "run"]
  /\ target' = [target EXCEPT ![p] = NoTarget]
  /\ at' = [at EXCEPT ![p] = 0]
  /\ UNCHANGED <<fds, counts, lost, hand, fd_list>>

ExitBegin(p) ==
  /\ pc[p] = "run"
  /\ Goto(p, "exit")
  /\ UNCHANGED <<fds, counts, lost, hand, target, at, fd_list>>

\* The loop over all numbers; fdnum_close fails for the free ones.
ExitClose(p) ==
  /\ pc[p] = "exit" /\ at[p] \in Nums
  /\ IF fds[p][at[p]] # None THEN Drop(fds[p][at[p]]) ELSE UNCHANGED counts
  /\ fds' = [fds EXCEPT ![p][at[p]] = None]
  /\ at' = [at EXCEPT ![p] = @ + 1]
  /\ UNCHANGED <<lost, pc, hand, target, fd_list>>

ExitEnd(p) ==
  /\ pc[p] = "exit" /\ at[p] \notin Nums
  /\ Goto(p, "none")
  /\ at' = [at EXCEPT ![p] = 0]
  /\ UNCHANGED <<fds, counts, lost, hand, target, fd_list>>

-----------------------------------------------------------------------------
(* syscall_ppoll *)

\* One turn of the first loop: a descriptor that is ready is not put on the
\* list.
PollLookup(p, n, ready) ==
  /\ pc[p] \in {"run", "poll"}
  /\ Lookup(p, n, 1)
  /\ fd_list' = IF ready THEN fd_list
                ELSE [fd_list EXCEPT ![p][fds[p][n]] = @ + 1]
  /\ Goto(p, "poll")
  /\ UNCHANGED <<fds, alive, resref, lost, target, at>>

\* The cleanup, after the wait or without one.
PollEnd(p) ==
  /\ pc[p] = "poll"
  /\ refcount' = [d \in Descs |-> refcount[d] - fd_list[p][d]]
  /\ fd_list' = [fd_list EXCEPT ![p] = NoRefs]
  /\ hand' = [hand EXCEPT ![p] = None]
  /\ Goto(p, "run")
  /\ UNCHANGED <<fds, alive, resref, lost, target, at>>

-----------------------------------------------------------------------------

File(p) ==
  \/ Open(p)
  \/ \E n \in Nums : Close(p, n) \/ UseBegin(p, n)
  \/ UseEnd(p) \/ UseReturn(p)

Dup(p) ==
  \/ \E n \in Nums, m \in 0 .. MaxFds, specific \in BOOLEAN :
       DupBegin(p, n, m, specific)
  \/ PublishSpecific(p) \/ PublishFree(p) \/ DupFails(p)
  \/ DupRef(p) \/ DupResRef(p)

Fork(p) ==
  \/ \E q \in Procs : ForkBegin(p, q)
  \/ ForkSkip(p) \/ ForkDup(p) \/ ForkEnd(p)

Exit(p) == ExitBegin(p) \/ ExitClose(p) \/ ExitEnd(p)

Poll(p) ==
  \/ \E n \in Nums, ready \in BOOLEAN : PollLookup(p, n, ready)
  \/ PollEnd(p)

Next == \E p \in Procs : File(p) \/ Dup(p) \/ Fork(p) \/ Exit(p) \/ Poll(p)

Spec == Init /\ [][Next]_vars

-----------------------------------------------------------------------------
(* Properties *)

Slots(d) == {s \in Procs \X Nums : fds[s[1]][s[2]] = d}

\* Types; no reference count falls below zero (they are unsigned).
TypeOK ==
  /\ fds \in [Procs -> [Nums -> Descs \cup {None}]]
  /\ refcount \in [Descs -> Nat]
  /\ alive \subseteq Descs
  /\ resref \in Nat /\ lost \in Nat
  /\ pc \in [Procs -> {"none", "new", "run", "use", "dup", "ref", "resref",
                       "fork", "exit", "poll"}]
  /\ hand \in [Procs -> Descs \cup {None}]
  /\ target \in [Procs -> [proc : Procs \cup {None}, num : 0 .. MaxFds, specific : BOOLEAN]]
  /\ at \in [Procs -> 0 .. MaxFds]
  /\ fd_list \in [Procs -> [Descs -> Nat]]

\* Whatever a table, a call under way or a list of ppoll refers to has not
\* been freed.
NoUseAfterFree ==
  \A p \in Procs :
    /\ \A n \in Nums : fds[p][n] # None => fds[p][n] \in alive
    /\ hand[p] # None => hand[p] \in alive
    /\ \A d \in Descs : fd_list[p][d] > 0 => d \in alive

\* The resource counts its descriptors, but for the ones that fdnum_dup has
\* yet to count and the ones that a full table has left behind: every close,
\* dup, fork and exit tells the resource exactly once.
ResourceCounts ==
  resref + Cardinality({p \in Procs : pc[p] \in {"ref", "resref"}})
    = Cardinality({s \in Procs \X Nums : fds[s[1]][s[2]] # None}) + lost
=============================================================================
