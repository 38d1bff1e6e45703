--------------------------------- MODULE Vm ---------------------------------
(***************************************************************************)
(* Address spaces: kernel/mm/mmap.c and the page tables of kernel/mm/vmm.c.*)
(*                                                                         *)
(* A mapping is one mmap_range_global, with a shadow page map that records *)
(* the frames that were brought in, and one mmap_range_local for each      *)
(* stretch of an address space that shows it.  The global lists the locals *)
(* that page faults fill in.  munmap and mprotect cut locals into pieces,  *)
(* fork copies them.                                                       *)
(*                                                                         *)
(* Addresses are page numbers.  The four levels of a page table and the    *)
(* frames they take are one function from pages to entries, and the        *)
(* shootdown that ends every change of an entry reaches all CPUs.  A step  *)
(* is what happens under one hold of a page map's lock; what happens       *)
(* without the lock is one step for each access to an entry or to the      *)
(* bounds of a range.  The program keeps to its mappings: it touches and   *)
(* protects mapped pages only (it may write to one that it may only read), *)
(* and its other threads are at rest when it leaves.                       *)
(***************************************************************************)
EXTENDS Integers, Sequences, FiniteSetsExt, SequencesExt, Functions

CONSTANTS
  Procs,      \* the first is the parent, the others are born by fork
  Parent,
  Threads,
  ProcOf,     \* [Threads -> Procs]
  Frames,     \* physical pages of the pmm that user mappings may get
  FilePage,   \* a page of a file's own storage, never the pmm's to give
  NPages,     \* user pages are 0 .. NPages - 1
  AnonBase,   \* the initial mmap_anon_base
  Maps,       \* bound: the [fixed, b, n, prot, flags] that programs ask mmap for
  Mappers,    \* bound: the threads that call mmap, mprotect and fork
  MaxCalls,   \* bound: system calls in a behaviour
  None

Pages == 0..(NPages - 1)

\* Lengths and ends are 64-bit numbers: they wrap around far behind Pages
Wrap == 16 * NPages

Prots == {"r", "rw"}

VARIABLES
  pm,         \* each process: live, ranges, pt
  brk,        \* mmap_anon_base of each process
  locs,       \* the mmap_range_locals ever made
  globs,      \* the mmap_range_globals ever made
  free,       \* the frames that the pmm would hand out
  th,         \* each thread: where it is in which call
  stray,      \* history: <<process, page>> whose entry a race may have left
  doubled,    \* history: <<mapping, frame>> that two munmaps freed both
  panicked,   \* None, or why the kernel stopped
  calls

vars == <<pm, brk, locs, globs, free, th, stray, doubled, panicked, calls>>

Blank == [v \in Pages |-> None]
Idle == [pc |-> "idle"]

End(l) == (l.base + l.len) % Wrap

Covers(l, v) == v >= l.base /\ v < End(l)

Span(l) == {v \in Pages : Covers(l, v)}

\* A fork is under way that holds the lock of the page map
Forking(q) == \E u \in Threads : th[u].pc = "fork" /\ ProcOf[u] = q

\* addr2range: the first range of the vector that holds the page
addr2range(q, v) ==
  LET at == {k \in DOMAIN pm[q].ranges : Covers(locs[pm[q].ranges[k]], v)}
  IN IF at = {} THEN None ELSE pm[q].ranges[Min(at)]

Local(q, g, b, n, prot, flags) ==
  [pm |-> q, glob |-> g, base |-> b, len |-> n, prot |-> prot,
   flags |-> flags, freed |-> FALSE, torn |-> FALSE]

Global(b, n, shadow, ls) ==
  [base |-> b, len |-> n, shadow |-> shadow, locals |-> ls]

\* vmm_init and elf_load: the parent's image has been mapped by mmap_range
Init ==
  \E f \in Frames :
    LET image == [Blank EXCEPT ![0] = f]
        lazy == [anon |-> TRUE, shared |-> FALSE]
    IN /\ pm = [q \in Procs |->
                  [live |-> q = Parent,
                   ranges |-> IF q = Parent THEN <<1>> ELSE <<>>,
                   pt |-> [v \in Pages |->
                             IF q = Parent /\ v = 0
                             THEN [frame |-> f, prot |-> "r"] ELSE None]]]
       /\ brk = [q \in Procs |-> AnonBase]
       /\ locs = <<Local(Parent, 1, 0, 1, "r", lazy)>>
       /\ globs = <<Global(0, 1, image, <<1>>)>>
       /\ free = Frames \ {f}
       /\ th = [t \in Threads |-> Idle]
       /\ stray = {}
       /\ doubled = {}
       /\ panicked = None
       /\ calls = 0

Goto(t, s) == th' = [th EXCEPT ![t] = s]
Stop(why) ==
  panicked' = why /\ UNCHANGED <<pm, brk, locs, globs, free, th, stray, doubled>>

\* A system call of an idle thread
Enter(t) ==
  /\ th[t] = Idle
  /\ pm[ProcOf[t]].live
  /\ calls < MaxCalls
  /\ calls' = calls + 1

-----------------------------------------------------------------------------
(* mmap *)

\* The new global and local, at the end of ranges.  History: nothing keeps
\* the new range clear of the others.
Placed(q, b, a) ==
  LET g == Len(globs) + 1
      l == Len(locs) + 1
      new == Local(q, g, b, a.n, a.prot, a.flags)
      over == {k \in ToSet(pm[q].ranges) : Span(locs[k]) \cap Span(new) # {}}
  IN /\ ~Forking(q)
     /\ globs' = Append(globs, Global(b, a.n, Blank, <<l>>))
     /\ locs' = Append([k \in DOMAIN locs |->
                         [locs[k] EXCEPT !.torn = @ \/ k \in over]],
                       [new EXCEPT !.torn = over # {}])
     /\ pm' = [pm EXCEPT ![q].ranges = Append(@, l)]

\* mmap_anon_base leaves a page free behind each mapping
Mmap(t, a) ==
  /\ ~a.fixed
  /\ Enter(t)
  /\ t \in Mappers
  /\ brk[ProcOf[t]] + a.n <= NPages
  /\ Placed(ProcOf[t], brk[ProcOf[t]], a)
  /\ brk' = [brk EXCEPT ![ProcOf[t]] = @ + a.n + 1]
  /\ UNCHANGED <<free, th, stray, doubled, panicked>>

\* munmap(addr, length), and what its caller does next
Unmap(q, b, n, then) ==
  [pc |-> "munmap", pm |-> q, from |-> b, i |-> b, end |-> (b + n) % Wrap,
   then |-> then]

\* A program unmaps no page that another of its threads is touching
Untouched(t, b, n) ==
  \A u \in Threads \ {t} :
    ~ /\ ProcOf[u] = ProcOf[t]
      /\ th[u].pc \in {"shadow", "locals", "maps"}
      /\ th[u].v >= b /\ th[u].v < b + n

\* MAP_FIXED: first of all munmap the stretch
MmapFixed(t, a) ==
  /\ a.fixed
  /\ Enter(t)
  /\ t \in Mappers
  /\ Untouched(t, a.b, a.n)
  /\ Goto(t, Unmap(ProcOf[t], a.b, a.n, [pc |-> "place", a |-> a]))
  /\ UNCHANGED <<pm, brk, locs, globs, free, stray, doubled, panicked>>

Place(t) ==
  /\ th[t].pc = "place"
  /\ Placed(ProcOf[t], th[t].a.b, th[t].a)
  /\ Goto(t, Idle)
  /\ UNCHANGED <<brk, free, stray, doubled, panicked, calls>>

-----------------------------------------------------------------------------
(* Page faults *)

\* ... and touches none that another is unmapping
Stays(t, v) ==
  \A u \in Threads \ {t} :
    ~ /\ th[u].pc \in {"munmap", "found", "snipped", "release", "unmap", "clear"}
      /\ th[u].pm = ProcOf[t]
      /\ v >= th[u].from /\ v < th[u].end

\* mmap_handle_pf refuses a fault on a page that is present
Denied(t, v) ==
  LET e == pm[ProcOf[t]].pt[v]
  IN /\ th[t] = Idle
     /\ pm[ProcOf[t]].live
     /\ e # None
     /\ e.prot = "r"
     /\ Goto(t, [pc |-> "denied", v |-> v])
     /\ panicked' = "denied"
     /\ UNCHANGED <<pm, brk, locs, globs, free, stray, doubled, calls>>

\* The range is looked up under the lock, used after it
Fault(t, v) ==
  LET q == ProcOf[t]
      l == addr2range(q, v)
  IN /\ th[t] = Idle
     /\ pm[q].live
     /\ ~Forking(q)
     /\ pm[q].pt[v] = None
     /\ l # None
     /\ Stays(t, v)
     /\ Goto(t, [pc |-> "shadow", l |-> l, v |-> v])
     /\ UNCHANGED <<pm, brk, locs, globs, free, stray, doubled, panicked, calls>>

\* A fresh page, or the file's own page for a shared mapping of a file
Brought(flags) ==
  IF ~flags.anon /\ flags.shared THEN {FilePage} ELSE free

\* mmap_page_in_range: the shadow page map first
FaultShadow(t) ==
  LET c == th[t]
      l == locs[c.l]
  IN /\ c.pc = "shadow"
     /\ UNCHANGED calls
     /\ \/ l.freed /\ Stop("wild")
        \/ ~l.freed /\ Brought(l.flags) = {} /\ Stop("memory")
        \/ /\ ~l.freed
           /\ Brought(l.flags) # {}
           /\ globs[l.glob].shadow[c.v] # None
           /\ Stop("fault")
        \/ /\ ~l.freed
           /\ globs[l.glob].shadow[c.v] = None
           /\ \E f \in Brought(l.flags) :
                /\ free' = free \ {f}
                /\ globs' = [globs EXCEPT ![l.glob].shadow[c.v] = f]
                /\ Goto(t, [pc |-> "locals", l |-> c.l, v |-> c.v, f |-> f, k |-> 1])
           /\ UNCHANGED <<pm, brk, locs, stray, doubled, panicked>>

\* Mutant of Shown: only the range that mmap made
ShownFirst(g, k, v) == k = 1 /\ Covers(locs[globs[g].locals[k]], v)

\* The k-th local of a global shows the page
Shown(g, k, v) == Covers(locs[globs[g].locals[k]], v)

\* The page of the range is cleared, the bounds are not yet adjusted
Leaving(l, v) ==
  \E u \in Threads :
    th[u].pc = "snipped" /\ th[u].l = l /\ v >= th[u].b /\ v < th[u].e

\* History: the range is looked up to be cut, or is copied, while another
\* thread that looked it up has yet to cut it or to adjust its bounds
Torn(t, k) ==
  [locs[k] EXCEPT !.torn =
     @ \/ \E u \in Threads \ {t} :
            th[u].pc \in {"found", "snipped", "protects"} /\ th[u].l = k]

\* The page is no longer one of the range, in its address space
Left(k, v) ==
  k \notin ToSet(pm[locs[k].pm].ranges) \/ ~Covers(locs[k], v) \/ Leaving(k, v)

\* ... then every local of the mapping: its bounds are read without a lock
FaultLocals(t) ==
  LET c == th[t]
      g == locs[c.l].glob
      l == locs[globs[g].locals[c.k]]
  IN /\ c.pc = "locals"
     /\ UNCHANGED calls
     /\ \/ c.k <= Len(globs[g].locals) /\ l.freed /\ Stop("wild")
        \/ /\ c.k <= Len(globs[g].locals) => ~l.freed
           /\ Goto(t, IF c.k > Len(globs[g].locals) THEN Idle
                      ELSE IF Shown(g, c.k, c.v) THEN [c EXCEPT !.pc = "maps"] @@ [to |-> l.pm]
                      ELSE [c EXCEPT !.k = @ + 1])
           /\ UNCHANGED <<pm, brk, locs, globs, free, stray, doubled, panicked>>

\* ... and vmm_map_page takes the lock of its page map, which may be gone.  History:
\* the page may have left the local meanwhile.
FaultMap(t) ==
  LET c == th[t]
      g == locs[c.l].glob
      k == globs[g].locals[c.k]
  IN /\ c.pc = "maps"
     /\ ~Forking(c.to)
     /\ UNCHANGED calls
     /\ \/ c.to = None /\ Stop("wild")
        \/ c.to # None /\ pm[c.to].pt[c.v] # None /\ Stop("fault")
        \/ /\ c.to # None
           /\ pm[c.to].pt[c.v] = None
           /\ pm' = [pm EXCEPT ![c.to].pt[c.v] = [frame |-> c.f, prot |-> locs[c.l].prot]]
           /\ stray' = IF Left(k, c.v) THEN stray \cup {<<c.to, c.v>>} ELSE stray
           /\ Goto(t, [pc |-> "locals", l |-> c.l, v |-> c.v, f |-> c.f, k |-> c.k + 1])
           /\ UNCHANGED <<brk, locs, globs, free, doubled, panicked>>

-----------------------------------------------------------------------------
(* munmap *)

Munmap(t, b, n) ==
  /\ Enter(t)
  /\ Untouched(t, b, n)
  /\ Goto(t, Unmap(ProcOf[t], b, n, Idle))
  /\ UNCHANGED <<pm, brk, locs, globs, free, stray, doubled, panicked>>

\* The end of a snip of range l
SnipEnd(l, end) == Min({End(l), end})

\* The loop passes over the pages that no range holds
NextHeld(c) ==
  Min({v \in c.i..(c.end - 1) : addr2range(c.pm, v) # None}
        \cup {Max({c.i, c.end})})

\* A round of the loop looks the range up before it takes the lock
MunmapFind(t) ==
  LET c == th[t]
      i == NextHeld(c)
      k == addr2range(c.pm, i)
  IN /\ c.pc = "munmap"
     /\ i < c.end
     /\ Goto(t, [c EXCEPT !.pc = "found"]
                  @@ [l |-> k, b |-> i, e |-> SnipEnd(locs[k], c.end)])
     /\ locs' = [locs EXCEPT ![k] = Torn(t, k)]
     /\ UNCHANGED <<pm, brk, globs, free, stray, doubled, panicked, calls>>

\* A snip from the middle of a range splits off what lies behind it
Splits(l, b, e) == b > l.base /\ e < End(l)

\* The pieces: local_range cut short, postsplit_range
CutShort(l, e) == [l EXCEPT !.len = e - l.base]
PostSplit(l, e) == [l EXCEPT !.base = e, !.len = End(l) - e]

\* The pages of a mapping
Extent(g) == globs[g].base..(globs[g].base + globs[g].len - 1)

\* The round up to the release of the lock.  History: a range that two threads
\* cut at a time may leave the vector with entries that are still present.
MunmapSnip(t) ==
  LET c == th[t]
      l == locs[c.l]
      s == Splits(l, c.b, c.e)
      cut == IF s THEN CutShort(l, c.e) ELSE l
      rs == IF s THEN Append(pm[c.pm].ranges, Len(locs) + 1)
            ELSE pm[c.pm].ranges
  IN /\ c.pc = "found"
     /\ ~Forking(c.pm)
     /\ UNCHANGED calls
     /\ \/ l.freed /\ Stop("wild")
        \/ /\ ~l.freed
           /\ locs' = [locs EXCEPT ![c.l] = cut] \o
                        (IF s THEN <<PostSplit(l, c.e)>> ELSE <<>>)
           /\ pm' = [pm EXCEPT ![c.pm].pt =
                                 [v \in Pages |-> IF v >= c.b /\ v < c.e
                                                  THEN None ELSE @[v]],
                               ![c.pm].ranges =
                                 IF c.e - c.b = cut.len
                                 THEN SelectSeq(rs, LAMBDA x : x # c.l) ELSE rs]
           /\ stray' = stray \cup
                {<<c.pm, v>> : v \in IF l.torn THEN Extent(l.glob) ELSE {}}
           /\ Goto(t, [c EXCEPT !.pc = "snipped"])
           /\ UNCHANGED <<brk, globs, free, doubled, panicked>>

\* After a snip, the loop steps over the page behind it
NextPage(e) == e + 1

\* Mutant of Cleared: freed, and not unmapped from the shadow page map
ClearedNot(shadow, v) == shadow

\* The shadow page map when the frame of a page is freed
Cleared(shadow, v) == [shadow EXCEPT ![v] = None]

\* Mutant of LastLocal: other processes that share the mapping are forgotten
LastLocalAny(l, n) == n = l.len

\* The snip is all of the range, and the range all that shows the mapping
LastLocal(l, n) == n = l.len /\ Len(globs[l.glob].locals) = 1

\* The next round
Round(c) == [Unmap(c.pm, c.from, c.end - c.from, c.then) EXCEPT !.i = NextPage(c.e)]

\* The rest of the round, without the lock: the bounds are adjusted, or the mapping goes
MunmapRest(t) ==
  LET c == th[t]
      l == locs[c.l]
      n == c.e - c.b
  IN /\ c.pc = "snipped"
     /\ UNCHANGED calls
     /\ \/ l.freed /\ Stop("wild")
        \/ /\ ~l.freed /\ ~LastLocal(l, n)
           /\ locs' = [locs EXCEPT ![c.l].base = IF c.b = @ THEN c.e ELSE @,
                                   ![c.l].len = (@ - n) % Wrap]
           /\ Goto(t, Round(c))
           /\ UNCHANGED <<pm, brk, globs, free, stray, doubled, panicked>>
        \/ /\ ~l.freed /\ LastLocal(l, n)
           /\ Goto(t, [c EXCEPT !.pc = "release"]
                        @@ [j |-> IF l.flags.anon THEN globs[l.glob].base
                                  ELSE Max(Extent(l.glob)) + 1])
           /\ UNCHANGED <<pm, brk, locs, globs, free, stray, doubled, panicked>>

\* The mapping goes: the frame of the next page is read, or the local is freed
Release(t) ==
  LET c == th[t]
      l == locs[c.l]
      f == globs[l.glob].shadow[c.j]
  IN /\ c.pc = "release"
     /\ UNCHANGED calls
     /\ \/ /\ c.j \in Extent(l.glob)
           /\ Goto(t, IF f = None THEN [c EXCEPT !.j = @ + 1]
                      ELSE [c EXCEPT !.pc = "unmap"] @@ [phys |-> f])
           /\ UNCHANGED <<pm, brk, locs, globs, free, stray, doubled, panicked>>
        \/ c.j \notin Extent(l.glob) /\ l.freed /\ Stop("wild")
        \/ /\ c.j \notin Extent(l.glob) /\ ~l.freed
           /\ locs' = [locs EXCEPT ![c.l].freed = TRUE]
           /\ Goto(t, Round(c))
           /\ UNCHANGED <<pm, brk, globs, free, stray, doubled, panicked>>

\* A munmap that fails: mmap with MAP_FIXED fails too, vmm_destroy_pagemap goes on
Failed(then) == IF then.pc = "place" THEN Idle ELSE then

\* vmm_unmap_page of the shadow page map, told that its lock is held: it is present?
ReleaseTest(t) ==
  LET c == th[t]
  IN /\ c.pc = "unmap"
     /\ Goto(t, IF globs[locs[c.l].glob].shadow[c.j] = None THEN Failed(c.then)
                ELSE [c EXCEPT !.pc = "clear"])
     /\ UNCHANGED <<pm, brk, locs, globs, free, stray, doubled, panicked, calls>>

\* ... it is cleared, and the frame that was read goes to the pmm
ReleaseFrame(t) ==
  LET c == th[t]
      g == locs[c.l].glob
  IN /\ c.pc = "clear"
     /\ globs' = [globs EXCEPT ![g].shadow = Cleared(@, c.j)]
     /\ free' = free \cup {c.phys}
     /\ doubled' = IF globs[g].shadow[c.j] = c.phys THEN doubled ELSE doubled \cup {<<g, c.phys>>}
     /\ Goto(t, [pc |-> "release", pm |-> c.pm, from |-> c.from, i |-> c.i, end |-> c.end,
                 then |-> c.then, l |-> c.l, b |-> c.b, e |-> c.e, j |-> c.j + 1])
     /\ UNCHANGED <<pm, brk, locs, stray, panicked, calls>>

MunmapDone(t) ==
  /\ th[t].pc = "munmap"
  /\ NextHeld(th[t]) >= th[t].end
  /\ Goto(t, th[t].then)
  /\ UNCHANGED <<pm, brk, locs, globs, free, stray, doubled, panicked, calls>>

-----------------------------------------------------------------------------
(* mprotect *)

Mprotect(t, b, n, prot) ==
  /\ Enter(t)
  /\ t \in Mappers
  /\ \A v \in b..(b + n - 1) : addr2range(ProcOf[t], v) # None
  /\ Goto(t, [pc |-> "mprotect", i |-> b, end |-> b + n, prot |-> prot])
  /\ UNCHANGED <<pm, brk, locs, globs, free, stray, doubled, panicked>>

\* vmm_flag_page on the present pages of the snip
Flagged(pt, b, e, prot) ==
  [v \in Pages |-> IF v >= b /\ v < e /\ pt[v] # None
                   THEN [pt[v] EXCEPT !.prot = prot] ELSE pt[v]]

\* What is left of the range in front of, or behind, the snip
Shrunk(l, b, e) ==
  [l EXCEPT !.base = IF b = @ THEN e ELSE @, !.len = (@ - (e - b)) % Wrap]

\* As in munmap, the range is looked up before the lock is taken
MprotectFind(t) ==
  LET c == th[t]
      k == addr2range(ProcOf[t], c.i)
  IN /\ c.pc = "mprotect"
     /\ c.i < c.end
     /\ UNCHANGED calls
     /\ \/ k = None /\ Stop("null")
        \/ /\ k # None
           /\ locs[k].prot = c.prot
           /\ Goto(t, [c EXCEPT !.i = @ + 1])
           /\ UNCHANGED <<pm, brk, locs, globs, free, stray, doubled, panicked>>
        \/ /\ k # None
           /\ locs[k].prot # c.prot
           /\ locs' = [locs EXCEPT ![k] = Torn(t, k)]
           /\ Goto(t, [c EXCEPT !.pc = "protects"]
                        @@ [l |-> k, b |-> c.i, e |-> SnipEnd(locs[k], c.end)])
           /\ UNCHANGED <<pm, brk, globs, free, stray, doubled, panicked>>

MprotectSnip(t) ==
  LET c == th[t]
      q == ProcOf[t]
      l == locs[c.l]
      s == Splits(l, c.b, c.e)
      cut == IF s THEN CutShort(l, c.e) ELSE l
      new == [cut EXCEPT !.base = c.b, !.len = c.e - c.b, !.prot = c.prot]
      more == (IF s THEN <<PostSplit(l, c.e)>> ELSE <<>>) \o <<new>>
  IN /\ c.pc = "protects"
     /\ ~Forking(q)
     /\ UNCHANGED calls
     /\ \/ l.freed /\ Stop("wild")
        \/ /\ ~l.freed
           /\ locs' = [locs EXCEPT ![c.l] = Shrunk(cut, c.b, c.e)] \o more
           /\ pm' = [pm EXCEPT
                ![q].pt = Flagged(@, c.b, c.e, c.prot),
                ![q].ranges = @ \o [j \in DOMAIN more |-> Len(locs) + j]]
           /\ Goto(t, [pc |-> "mprotect", i |-> NextPage(c.e), end |-> c.end,
                       prot |-> c.prot])
           /\ UNCHANGED <<brk, globs, free, stray, doubled, panicked>>

MprotectDone(t) ==
  /\ th[t].pc = "mprotect"
  /\ th[t].i >= th[t].end
  /\ Goto(t, Idle)
  /\ UNCHANGED <<pm, brk, locs, globs, free, stray, doubled, panicked, calls>>

-----------------------------------------------------------------------------
(* fork, exit, exec *)

\* fork holds the page map's lock until the child's page map is complete
Fork(t, c) ==
  /\ Enter(t)
  /\ t \in Mappers
  /\ ~Forking(ProcOf[t])
  /\ ~pm[c].live /\ pm[c].ranges = <<>>
  /\ \A u \in Threads : ProcOf[u] = c => th[u] = Idle
  /\ Goto(t, [pc |-> "fork", child |-> c, k |-> 1])
  /\ pm' = [pm EXCEPT ![c].pt = Blank]
  /\ UNCHANGED <<brk, locs, globs, free, stray, doubled, panicked>>

\* The copy of a local still points to the global of the original
ForkedLocal(l, c, g) == [l EXCEPT !.pm = c]

\* MAP_SHARED: the copy joins the locals of the global
ForkShared(t) ==
  LET c == th[t]
      k == pm[ProcOf[t]].ranges[c.k]
      l == Torn(t, k)
      g == l.glob
  IN /\ c.pc = "fork" /\ c.k <= Len(pm[ProcOf[t]].ranges)
     /\ l.flags.shared
     /\ locs' = Append(locs, ForkedLocal(l, c.child, g))
     /\ globs' = [globs EXCEPT ![g].locals = Append(@, Len(locs) + 1)]
     /\ pm' = [pm EXCEPT ![c.child].ranges = Append(@, Len(locs) + 1),
                         ![c.child].pt =
                           [v \in Pages |-> IF v \in Span(l)
                                            THEN pm[l.pm].pt[v] ELSE @[v]]]
     /\ Goto(t, [c EXCEPT !.k = @ + 1])
     /\ UNCHANGED <<brk, free, stray, doubled, panicked, calls>>

\* MAP_PRIVATE: the present pages are copied into a global of their own.  For want of
\* memory the half of a page map is destroyed, what was copied last being lost.
ForkPrivate(t) ==
  LET c == th[t]
      q == ProcOf[t]
      l == locs[pm[q].ranges[c.k]]
      g == Len(globs) + 1
      copy == {v \in Span(l) : pm[q].pt[v] # None}
  IN /\ c.pc = "fork" /\ c.k <= Len(pm[q].ranges)
     /\ ~l.flags.shared
     /\ UNCHANGED calls
     /\ \/ ~l.flags.anon /\ Stop("non anon fork")
        \/ /\ l.flags.anon /\ Cardinality(copy) > Cardinality(free)
           /\ free' = {}
           /\ Goto(t, [pc |-> "destroy", pm |-> c.child, then |-> [pc |-> "failed"]])
           /\ UNCHANGED <<pm, brk, locs, globs, stray, doubled, panicked>>
        \/ /\ l.flags.anon
           /\ \E f \in Injection(copy, free) :
                /\ free' = free \ {f[v] : v \in copy}
                /\ globs' = Append(globs,
                     Global(globs[l.glob].base, globs[l.glob].len,
                            f @@ Blank, <<Len(locs) + 1>>))
                /\ pm' = [pm EXCEPT
                     ![c.child].ranges = Append(@, Len(locs) + 1),
                     ![c.child].pt =
                       [v \in copy |-> [pm[q].pt[v] EXCEPT !.frame = f[v]]] @@ @]
           /\ locs' = Append(locs, ForkedLocal(l, c.child, g))
           /\ Goto(t, [c EXCEPT !.k = @ + 1])
           /\ UNCHANGED <<brk, stray, doubled, panicked>>

\* ... then syscall_fork goes on without a process, through a null pointer
ForkFailed(t) ==
  /\ th[t].pc = "failed"
  /\ Stop("memory")
  /\ UNCHANGED calls

\* The rest of sched_new_process and syscall_fork: the child may run
Forked(t) ==
  LET c == th[t]
  IN /\ c.pc = "fork" /\ c.k > Len(pm[ProcOf[t]].ranges)
     /\ pm' = [pm EXCEPT ![c.child].live = TRUE]
     /\ brk' = [brk EXCEPT ![c.child] = brk[ProcOf[t]]]
     /\ Goto(t, Idle)
     /\ UNCHANGED <<locs, globs, free, stray, doubled, panicked, calls>>

\* exit, and the end of exec: the process leaves its page map
Exit(t) ==
  LET q == ProcOf[t]
  IN /\ Enter(t)
     /\ \A u \in Threads : ProcOf[u] = q => th[u] = Idle
     /\ pm' = [pm EXCEPT ![q].live = FALSE]
     /\ Goto(t, [pc |-> "destroy", pm |-> q, then |-> Idle])
     /\ UNCHANGED <<brk, locs, globs, free, stray, doubled, panicked>>

\* vmm_destroy_pagemap: munmap the first range until there is none.  A fault that is
\* about to fill in a page of it finds it gone.
Destroy(t) ==
  LET c == th[t]
      l == locs[pm[c.pm].ranges[1]]
  IN /\ c.pc = "destroy"
     /\ IF pm[c.pm].ranges = <<>>
        THEN /\ pm' = [pm EXCEPT ![c.pm].pt = Blank]
             /\ th' = [u \in Threads |->
                         CASE u = t -> c.then
                           [] u # t /\ th[u].pc = "maps" -> IF th[u].to = c.pm THEN [th[u] EXCEPT !.to = None] ELSE th[u]
                           [] OTHER -> th[u]]
        ELSE /\ Goto(t, Unmap(c.pm, l.base, l.len, c))
             /\ UNCHANGED pm
     /\ UNCHANGED <<brk, locs, globs, free, stray, doubled, panicked, calls>>

-----------------------------------------------------------------------------
Next ==
  /\ panicked = None
  /\ \E t \in Threads :
       \/ \E a \in Maps : Mmap(t, a) \/ MmapFixed(t, a)
       \/ Place(t)
       \/ \E v \in Pages : Fault(t, v) \/ Denied(t, v)
       \/ FaultShadow(t) \/ FaultLocals(t) \/ FaultMap(t)
       \/ \E b \in Pages : \E n \in 1..(NPages - b) : Munmap(t, b, n)
       \/ MunmapFind(t) \/ MunmapSnip(t) \/ MunmapRest(t) \/ MunmapDone(t)
       \/ Release(t) \/ ReleaseTest(t) \/ ReleaseFrame(t)
       \/ \E b \in Pages, prot \in Prots : \E n \in 1..(NPages - b) :
            Mprotect(t, b, n, prot)
       \/ MprotectFind(t) \/ MprotectSnip(t) \/ MprotectDone(t)
       \/ \E c \in Procs : Fork(t, c)
       \/ ForkShared(t) \/ ForkPrivate(t) \/ ForkFailed(t) \/ Forked(t)
       \/ Exit(t) \/ Destroy(t)

Spec == Init /\ [][Next]_vars

-----------------------------------------------------------------------------
(* Properties *)

\* Every range that refers to the mapping is one of those that faults fill
\* in and that keep its frames: none was split off, none copied by fork, none
\* overlapped another range, and none was looked up to be cut, or copied, while
\* another thread was about to cut it or to adjust its bounds.
Whole(g) ==
  \A l \in DOMAIN locs :
    locs[l].glob = g => l \in ToSet(globs[g].locals) /\ ~locs[l].torn

\* The entries of the shadow page maps that hold a frame of the pmm
Held == {x \in (DOMAIN globs) \X Pages : globs[x[1]].shadow[x[2]] \in Frames}

\* FramesOnce.  A frame is recorded by at most one entry of one shadow page map, and is
\* not one that the pmm would hand out again, unless two munmaps freed it both: they
\* release one mapping at a time, without a lock, and both find the entry present.  That
\* takes a mapping that is not whole, such as one that the child of a fork copied and
\* that parent and child leave together.
FramesOnce ==
  /\ \A d \in doubled : ~Whole(d[1])
  /\ \A x \in Held :
       LET f == globs[x[1]].shadow[x[2]]
       IN (\A d \in doubled : d[2] # f)
          => /\ f \notin free
             /\ \A y \in Held : f = globs[y[1]].shadow[y[2]] => x = y

\* MappedOwned.  A page that a process sees through a whole mapping is the frame that
\* the mapping's shadow page map records, with the protection of the range: nobody else's
\* frame shows.  (Not so where a fault filled in a page after another process's munmap
\* had cleared it, the bounds having been read before they were adjusted, nor where two
\* threads unmapped parts of one range at a time.)
MappedOwned ==
  \A q \in Procs, v \in Pages :
    LET k == addr2range(q, v)
    IN (pm[q].pt[v] # None /\ <<q, v>> \notin stray /\ k # None) =>
         (Whole(locs[k].glob) =>
            pm[q].pt[v] = [frame |-> globs[locs[k].glob].shadow[v],
                           prot |-> locs[k].prot])

\* Another thread brings in the page, or has done so
Rival(t, g, v) ==
  \/ pm[ProcOf[t]].pt[v] # None
  \/ \E u \in Threads \ {t} :
       th[u].pc \in {"locals", "maps"} /\ th[u].v = v /\ locs[th[u].l].glob = g

\* FaultServed.  A page fault inside a range of a whole mapping stops the kernel
\* (exception_handler panics when mmap_handle_pf returns false) only for want of memory,
\* because the program writes where the range lets it read, because another thread
\* brings in, or has brought in, the same page, because fork copied the entry that this
\* fault had made and lists the copy, or because another process unmapped the page after
\* its bounds were read, in this fault or in one that left an entry behind.
FaultServed ==
  \A t \in Threads :
    LET c == th[t]
        g == locs[c.l].glob
        k == addr2range(ProcOf[t], c.v)
    IN /\ (panicked = "fault" /\ c.pc = "shadow" /\ Whole(g) /\ globs[g].shadow[c.v] # None)
          => Rival(t, g, c.v)
       /\ (/\ panicked = "fault" /\ c.pc = "maps" /\ Whole(g)
           /\ c.to # None /\ pm[c.to].pt[c.v] # None)
          => \/ pm[c.to].pt[c.v].frame = c.f
             \/ Left(globs[g].locals[c.k], c.v)
             \/ <<c.to, c.v>> \in stray
       /\ c.pc = "denied"
          => k = None \/ ~Whole(locs[k].glob) \/ locs[k].prot = "r" \/ <<ProcOf[t], c.v>> \in stray
=============================================================================
