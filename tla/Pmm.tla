-------------------------------- MODULE Pmm --------------------------------
(***************************************************************************)
(* The physical page allocator, kernel/mm/pmm.c: a bitmap with one bit per *)
(* page, and a position from which the next request goes on scanning.      *)
(*                                                                         *)
(* A request holds the allocator's lock from its beginning to its end; its *)
(* loop over the bitmap is one step per page.  Sizes of the memory map are *)
(* in pages.  The bitmap itself lies in memory: a bit whose byte is in a   *)
(* page that somebody has been given is at that somebody's mercy.  used_   *)
(* pages, usable_pages and reserved_pages are statistics and left out.     *)
(***************************************************************************)
EXTENDS Integers, Sequences, FiniteSetsExt

CONSTANTS
  Callers,    \* kernel threads and CPUs that allocate and free pages
  PageSize,   \* PAGE_SIZE, in bytes
  Memmap,     \* Limine's memory map: a sequence of [base, length, usable]
  MaxPages,   \* bound: the largest request
  None

VARIABLES
  bitmap,           \* the pages whose bits are set: they are not free
  last_used_index,
  lock,             \* the caller that holds the lock
  pass,             \* pmm_alloc_nozero: which call of inner_alloc it is in
  pages,            \* pmm_alloc_nozero: pages
  last,             \* pmm_alloc_nozero: last
  p,                \* inner_alloc: p
  held,             \* the allocations that have not been freed
  clear             \* the allocation that each caller of pmm_alloc will clear

call == <<pass, pages, last>>
vars == <<bitmap, last_used_index, lock, call, p, held, clear>>

-----------------------------------------------------------------------------
(* pmm_init *)

Usable == {i \in DOMAIN Memmap : Memmap[i].usable}

\* highest_page_index
Highest == Max({Memmap[i].base + Memmap[i].length : i \in Usable})

Index == 0 .. Highest - 1

\* bitmap_size, in pages: ALIGN_UP(highest_page_index / 8, PAGE_SIZE).
BitmapPages == (Highest \div 8 + PageSize - 1) \div PageSize

\* The entry that the bitmap is put into: the first one that is large enough.
Hole == Min({i \in Usable : Memmap[i].length >= BitmapPages})

\* The page that holds the bit of page i.
PageOfBit(i) == Memmap[Hole].base + (i \div 8) \div PageSize

Run(page, n) == page .. page + n - 1

\* The pages that are free after pmm_init.
FreeAtBoot ==
  (UNION {Run(Memmap[i].base, Memmap[i].length) : i \in Usable})
    \ Run(Memmap[Hole].base, BitmapPages)

\* What pmm_init relies on: usable memory without page 0 (a NULL result means
\* failure), in entries that do not overlap, one of which takes the bitmap.
ASSUME PmmAssumption ==
  /\ PageSize \in Nat \ {0}
  /\ MaxPages \in Nat
  /\ None \notin Callers
  /\ Highest \in Nat
  /\ Hole \in Usable
  /\ \A i \in Usable :
       Memmap[i].base \in Nat \ {0} /\ Memmap[i].length \in Nat
  /\ \A i, j \in Usable :
       i # j => Run(Memmap[i].base, Memmap[i].length)
                  \cap Run(Memmap[j].base, Memmap[j].length) = {}

\* The bytes of pmm_init's bitmap are enough for all pages.
BitmapFits == \A i \in Index : (i \div 8) \div PageSize < BitmapPages

\* The bits that pmm_init does not initialise to 1: whatever the memory holds.
Unset ==
  {i \in Index : PageOfBit(i) \notin Run(Memmap[Hole].base, BitmapPages)}

Init ==
  /\ \E zero \in SUBSET Unset : bitmap = Index \ (FreeAtBoot \cup zero)
  /\ last_used_index = 0
  /\ lock = None
  /\ pass = 1 /\ pages = 0 /\ last = 0
  /\ p = 0
  /\ held = {}
  /\ clear = [c \in Callers |-> None]

-----------------------------------------------------------------------------
(* pmm_alloc_nozero and inner_alloc *)

Limit == IF pass = 1 THEN Highest ELSE last

AllocBegin(c, n) ==
  /\ lock = None /\ clear[c] = None
  /\ lock' = c
  /\ pass' = 1
  /\ pages' = n
  /\ last' = last_used_index
  /\ p' = 0
  /\ UNCHANGED <<bitmap, last_used_index, held, clear>>

\* Mutant of Scan: used pages do not end a run.
ScanOver(c, free) ==
  /\ lock = c /\ last_used_index < Limit
  /\ free <=> last_used_index \notin bitmap
  /\ free => p + 1 # pages
  /\ last_used_index' = last_used_index + 1
  /\ p' = IF free THEN p + 1 ELSE p
  /\ UNCHANGED <<bitmap, lock, call, held, clear>>

\* inner_alloc looks at a page: a free one that is not yet enough, or a used
\* one.
Scan(c, free) ==
  /\ lock = c /\ last_used_index < Limit
  /\ free <=> last_used_index \notin bitmap
  /\ free => p + 1 # pages
  /\ last_used_index' = last_used_index + 1
  /\ p' = IF free THEN p + 1 ELSE 0
  /\ UNCHANGED <<bitmap, lock, call, held, clear>>

\* The lock is released and the locals of the call are gone.
Return ==
  /\ lock' = None
  /\ pass' = 1 /\ pages' = 0 /\ last' = 0
  /\ p' = 0

\* page, once last_used_index has gone past the last page of the run.
FirstPage == last_used_index + 1 - pages

\* inner_alloc finds the last page that it needs: it marks the run and returns
\* it.  pmm_alloc (zero) will clear the pages, without the lock.
Take(c, zero) ==
  /\ lock = c /\ last_used_index < Limit
  /\ last_used_index \notin bitmap
  /\ p + 1 = pages
  /\ last_used_index' = last_used_index + 1
  /\ bitmap' = bitmap \cup Run(FirstPage, pages)
  /\ LET r == [page |-> FirstPage, pages |-> pages]
     IN /\ held' = held \cup {r}
        /\ clear' = [clear EXCEPT ![c] = IF zero THEN r ELSE None]
  /\ Return

\* The first call of inner_alloc fails: once more from the beginning, up to
\* where the first one began.
Again(c) ==
  /\ lock = c /\ last_used_index >= Limit
  /\ pass = 1
  /\ pass' = 2
  /\ last_used_index' = 0
  /\ p' = 0
  /\ UNCHANGED <<bitmap, lock, pages, last, held, clear>>

\* Mutant of Fail: the second call is left out.
FailFirst(c) ==
  /\ lock = c /\ last_used_index >= Limit
  /\ Return
  /\ UNCHANGED <<bitmap, last_used_index, held, clear>>

\* Both calls have failed: the result is NULL.
Fail(c) ==
  /\ lock = c /\ last_used_index >= Limit
  /\ pass = 2
  /\ Return
  /\ UNCHANGED <<bitmap, last_used_index, held, clear>>

-----------------------------------------------------------------------------
(* pmm_alloc and pmm_free *)

\* memset: every bit of the bitmap that lies in these pages is cleared too.
Clear(c) ==
  /\ clear[c] # None
  /\ bitmap' = {i \in bitmap :
                  PageOfBit(i) \notin Run(clear[c].page, clear[c].pages)}
  /\ clear' = [clear EXCEPT ![c] = None]
  /\ UNCHANGED <<last_used_index, lock, call, p, held>>

\* pmm_free, by whoever has the pages now.
Free(r) ==
  /\ lock = None
  /\ \A c \in Callers : clear[c] # r
  /\ bitmap' = bitmap \ Run(r.page, r.pages)
  /\ held' = held \ {r}
  /\ UNCHANGED <<last_used_index, lock, call, p, clear>>

-----------------------------------------------------------------------------

Alloc(c) ==
  \/ \E n \in 1 .. MaxPages : AllocBegin(c, n)
  \/ \E free \in BOOLEAN : Scan(c, free)
  \/ \E zero \in BOOLEAN : Take(c, zero)
  \/ Again(c)
  \/ Fail(c)
  \/ Clear(c)

Next == (\E c \in Callers : Alloc(c)) \/ (\E r \in held : Free(r))

Spec == Init /\ [][Next]_vars

-----------------------------------------------------------------------------
(* Properties *)

Runs == [page : Nat, pages : Nat]

\* Types; a scan never goes past the bitmap, and counts no more free pages
\* than it has looked at.
TypeOK ==
  /\ bitmap \subseteq Index
  /\ last_used_index \in 0 .. Highest /\ last \in 0 .. Highest
  /\ lock \in Callers \cup {None}
  /\ pass \in {1, 2}
  /\ pages \in Nat
  /\ p \in 0 .. last_used_index
  /\ held \subseteq Runs
  /\ clear \in [Callers -> held \cup {None}]

\* No page is allocated twice (inner_alloc marks what it returns).
Disjoint ==
  \A r, s \in held :
    r # s => Run(r.page, r.pages) \cap Run(s.page, s.pages) = {}

\* The bitmap is exact (pmm_free gives back what was taken, nobody else's
\* memory is used as a bitmap): a page is marked if and only if it was not
\* free at boot or belongs to an allocation.
BitmapExact ==
  bitmap = (Index \ FreeAtBoot)
             \cup UNION {Run(r.page, r.pages) : r \in held}

\* "Calculate the needed size for the bitmap" (pmm_init): no allocation
\* contains a byte of the bitmap.
BitmapOwned ==
  \A r \in held, i \in Index : PageOfBit(i) \notin Run(r.page, r.pages)

\* pmm_alloc_nozero returns NULL only when there is no free run of that many
\* pages, or every one of them reaches across the page where its scan began.
FailsHonestly ==
  [][(lock # None /\ lock' = None /\ held' = held) =>
       \A s \in Index :
         Run(s, pages) \subseteq Index \ bitmap =>
           s < last /\ last < s + pages]_vars
=============================================================================
