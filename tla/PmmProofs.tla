----------------------------- MODULE PmmProofs -----------------------------
(***************************************************************************)
(* Proofs about Pmm, for every memory map whose bitmap fits the memory     *)
(* that pmm_init sets aside for it (BitmapFits).                           *)
(***************************************************************************)
EXTENDS Pmm, TLAPS

\* Where the call of inner_alloc under way began.
Start == IF pass = 1 THEN last ELSE 0

\* Allocations are not empty, and consist of pages that were free at boot.
HeldInv ==
  \A r \in held : r.pages > 0 /\ Run(r.page, r.pages) \subseteq FreeAtBoot \cap Index

\* The last p pages that the scan has looked at are free, and no more can be
\* added to them on the left.
ScanInv ==
  lock # None =>
    /\ pages > 0 /\ p < pages
    /\ Start <= last_used_index - p
    /\ Run(last_used_index - p, p) \cap bitmap = {}
    /\ last_used_index - p = Start \/ last_used_index - p - 1 \in bitmap

\* No free run between the pages a and b is long enough.
NoRun(a, b) ==
  \A s \in Nat : a <= s /\ s + pages <= b => Run(s, pages) \cap bitmap # {}

\* What the scans so far have established.
DoneInv ==
  lock # None =>
    /\ NoRun(Start, last_used_index)
    /\ pass = 2 => NoRun(last, Highest)

IInv == TypeOK /\ HeldInv /\ Disjoint /\ BitmapExact /\ ScanInv /\ DoneInv

-----------------------------------------------------------------------------
(* The bitmap's own pages *)

\* If the bitmap fits, all of its bytes are in the pages that pmm_init has
\* taken out of the memory map.
LEMMA BitsInHole ==
  ASSUME BitmapFits, NEW i \in Index
  PROVE  PageOfBit(i) \in Run(Memmap[Hole].base, BitmapPages)
<1>1. Memmap[Hole].base \in Nat /\ PageSize \in Nat \ {0} /\ Highest \in Nat
  BY PmmAssumption
<1>2. i \in Nat /\ i \div 8 \in Nat
  BY <1>1 DEF Index
<1>3. (i \div 8) \div PageSize \in Nat
  BY <1>1, <1>2
<1>4. Highest \div 8 \in Nat
  BY <1>1
<1>5. Highest \div 8 + PageSize - 1 \in Nat
  BY <1>1, <1>4
<1>6. BitmapPages \in Nat
  BY <1>1, <1>5 DEF BitmapPages
<1>7. (i \div 8) \div PageSize < BitmapPages
  BY DEF BitmapFits
<1> HIDE DEF BitmapPages
<1> QED
  BY <1>1, <1>3, <1>6, <1>7 DEF PageOfBit, Run

\* Pages that were free at boot hold no byte of the bitmap.
LEMMA OwnedFromHeld ==
  ASSUME BitmapFits, HeldInv
  PROVE  BitmapOwned
<1> SUFFICES ASSUME NEW r \in held, NEW i \in Index
             PROVE  PageOfBit(i) \notin Run(r.page, r.pages)
  BY DEF BitmapOwned
<1>1. PageOfBit(i) \in Run(Memmap[Hole].base, BitmapPages)
  BY BitsInHole
<1>2. PageOfBit(i) \notin FreeAtBoot
  BY <1>1, Zenon DEF FreeAtBoot
<1> QED
  BY <1>2, Zenon DEF HeldInv

-----------------------------------------------------------------------------
(* Each action preserves the invariant *)

\* A new request has looked at no page yet.
LEMMA AllocBeginInv ==
  ASSUME IInv, NEW c \in Callers, NEW n \in 1 .. MaxPages, AllocBegin(c, n)
  PROVE  IInv'
<1> USE PmmAssumption
<1>1. /\ n \in Nat /\ n > 0
      /\ last_used_index \in Nat
  BY DEF IInv, TypeOK
<1>2. TypeOK'
  BY <1>1 DEF IInv, TypeOK, AllocBegin
<1>3. HeldInv' /\ Disjoint' /\ BitmapExact'
  BY DEF IInv, HeldInv, Disjoint, BitmapExact, AllocBegin
<1>4. ScanInv'
  BY <1>1 DEF ScanInv, Start, Run, AllocBegin
<1>5. DoneInv'
  BY <1>1 DEF DoneInv, NoRun, Start, AllocBegin
<1> QED
  BY <1>2, <1>3, <1>4, <1>5 DEF IInv

\* A scanned page extends the free run by one, or ends it; a run that is
\* long enough would have been taken.
LEMMA ScanPreserves ==
  ASSUME IInv, NEW c \in Callers, NEW free \in BOOLEAN, Scan(c, free)
  PROVE  IInv'
<1> USE PmmAssumption
<1> DEFINE k == last_used_index
<1>1. /\ k \in Nat /\ p \in Nat /\ pages \in Nat /\ last \in Nat
      /\ p <= k /\ k < Highest /\ Highest \in Nat
      /\ pass \in {1, 2}
  BY DEF IInv, TypeOK, Scan, Limit
<1>2. /\ last_used_index' = k + 1
      /\ UNCHANGED <<bitmap, lock, pass, pages, last, held, clear>>
      /\ lock # None
      /\ free <=> k \notin bitmap
      /\ free => p + 1 # pages
      /\ p' = IF free THEN p + 1 ELSE 0
  BY DEF Scan, call
<1>3. TypeOK'
  <2>1. p' \in 0 .. last_used_index'
    BY <1>1, <1>2
  <2> QED
    BY <1>1, <1>2, <2>1 DEF IInv, TypeOK
<1>4. HeldInv' /\ Disjoint' /\ BitmapExact'
  BY <1>2 DEF IInv, HeldInv, Disjoint, BitmapExact
<1>5. Start' = Start /\ Start \in Nat
  BY <1>1, <1>2 DEF Start
<1>6. /\ pages > 0 /\ p < pages
      /\ Start <= k - p
      /\ Run(k - p, p) \cap bitmap = {}
      /\ k - p = Start \/ k - p - 1 \in bitmap
  BY <1>2 DEF IInv, ScanInv
<1> HIDE DEF k
<1>7. ScanInv'
  <2>1. CASE free
    <3>1. Run(k - p, p + 1) \cap bitmap = {}
      BY <2>1, <1>1, <1>2, <1>6 DEF Run
    <3>2. p' = p + 1 /\ last_used_index' - p' = k - p
      BY <2>1, <1>1, <1>2
    <3> QED
      BY <3>1, <3>2, <2>1, <1>1, <1>2, <1>5, <1>6 DEF ScanInv
  <2>2. CASE ~free
    <3>1. p' = 0 /\ last_used_index' - p' = k + 1
      BY <2>2, <1>1, <1>2
    <3> QED
      BY <3>1, <2>2, <1>1, <1>2, <1>5, <1>6 DEF ScanInv, Run
  <2> QED
    BY <2>1, <2>2
<1>8. DoneInv'
  <2>1. /\ NoRun(Start, k)
        /\ pass = 2 => NoRun(last, Highest)
    BY <1>2 DEF IInv, DoneInv, k
  <2>2. NoRun(Start, k + 1)
    <3> SUFFICES ASSUME NEW s \in Nat, Start <= s, s + pages = k + 1
                 PROVE  Run(s, pages) \cap bitmap # {}
      BY <2>1, <1>1 DEF NoRun
    <3>1. CASE free
      <4>1. s <= k - p - 1
        BY <3>1, <1>1, <1>2, <1>6
      <4>2. k - p - 1 \in bitmap
        BY <4>1, <1>1, <1>5, <1>6
      <4>3. k - p - 1 \in Run(s, pages)
        BY <4>1, <1>1, <1>6 DEF Run
      <4> QED
        BY <4>2, <4>3
    <3>2. CASE ~free
      <4>1. k \in bitmap /\ k \in Run(s, pages)
        BY <3>2, <1>1, <1>2, <1>6 DEF Run
      <4> QED
        BY <4>1
    <3> QED
      BY <3>1, <3>2
  <2> QED
    BY <2>1, <2>2, <1>1, <1>2, <1>5 DEF DoneInv, NoRun
<1> QED
  BY <1>3, <1>4, <1>7, <1>8 DEF IInv

\* The run that inner_alloc takes is free, so it belongs to nobody else.
LEMMA TakePreserves ==
  ASSUME IInv, NEW c \in Callers, NEW zero \in BOOLEAN, Take(c, zero)
  PROVE  IInv'
<1> USE PmmAssumption
<1> DEFINE r == [page |-> FirstPage, pages |-> pages]
<1>1. /\ last_used_index \in Nat /\ p \in Nat /\ pages \in Nat
      /\ p <= last_used_index /\ last_used_index < Highest /\ Highest \in Nat
  BY DEF IInv, TypeOK, Take, Limit
<1>2. /\ last_used_index \notin bitmap
      /\ p + 1 = pages
      /\ last_used_index' = last_used_index + 1
      /\ bitmap' = bitmap \cup Run(r.page, r.pages)
      /\ held' = held \cup {r}
      /\ clear' = [clear EXCEPT ![c] = IF zero THEN r ELSE None]
      /\ lock = c
      /\ Return
  BY DEF Take
<1>3. Run(last_used_index - p, p) \cap bitmap = {}
  BY <1>2 DEF IInv, ScanInv
<1>4. /\ FirstPage = last_used_index - p
      /\ r \in Runs /\ r.pages > 0
      /\ Run(r.page, r.pages) = last_used_index - p .. last_used_index
  BY <1>1, <1>2 DEF FirstPage, Run, Runs
<1>5. Run(r.page, r.pages) \subseteq Index \ bitmap
  BY <1>1, <1>2, <1>3, <1>4 DEF Run, Index
<1> HIDE DEF r
<1>6. TypeOK'
  <2>1. bitmap' \subseteq Index
    BY <1>2, <1>5 DEF IInv, TypeOK
  <2>2. held' \subseteq Runs
    BY <1>2, <1>4 DEF IInv, TypeOK
  <2>3. clear \in [Callers -> held' \cup {None}]
    BY <1>2 DEF IInv, TypeOK
  <2>4. (IF zero THEN r ELSE None) \in held' \cup {None}
    BY <1>2
  <2>5. clear' \in [Callers -> held' \cup {None}]
    BY <1>2, <2>3, <2>4
  <2> QED
    BY <1>1, <1>2, <2>1, <2>2, <2>5 DEF TypeOK, Return
<1>7. Run(r.page, r.pages) \subseteq FreeAtBoot
  BY <1>5 DEF IInv, BitmapExact
<1>8. \A s \in held : Run(s.page, s.pages) \cap Run(r.page, r.pages) = {}
  BY <1>5, Zenon DEF IInv, BitmapExact
<1>9. HeldInv'
  BY <1>2, <1>4, <1>5, <1>7 DEF IInv, HeldInv
<1>10. Disjoint'
  <2> SUFFICES ASSUME NEW s \in held', NEW t \in held', s # t
               PROVE  Run(s.page, s.pages) \cap Run(t.page, t.pages) = {}
    BY DEF Disjoint
  <2>1. CASE s \in held /\ t \in held
    BY <2>1 DEF IInv, Disjoint
  <2>2. CASE s = r
    BY <2>2, <1>2, <1>8
  <2>3. CASE t = r
    BY <2>3, <1>2, <1>8
  <2> QED
    BY <2>1, <2>2, <2>3, <1>2
<1>11. BitmapExact'
  BY <1>2, Zenon DEF IInv, BitmapExact
<1>12. ScanInv' /\ DoneInv'
  BY <1>2 DEF ScanInv, DoneInv, Return
<1> QED
  BY <1>6, <1>9, <1>10, <1>11, <1>12 DEF IInv

\* The second call of inner_alloc knows what the first has not found.
LEMMA AgainPreserves ==
  ASSUME IInv, NEW c \in Callers, Again(c)
  PROVE  IInv'
<1> USE PmmAssumption
<1>1. /\ last_used_index \in Nat /\ last \in Nat /\ pages \in Nat
      /\ last_used_index = Highest /\ Highest \in Nat
  BY DEF IInv, TypeOK, Again, Limit
<1>2. /\ pass = 1 /\ pass' = 2 /\ last_used_index' = 0 /\ p' = 0
      /\ UNCHANGED <<bitmap, lock, pages, last, held, clear>>
      /\ lock # None
  BY DEF Again
<1>3. TypeOK'
  BY <1>1, <1>2 DEF IInv, TypeOK
<1>4. HeldInv' /\ Disjoint' /\ BitmapExact'
  BY <1>2 DEF IInv, HeldInv, Disjoint, BitmapExact
<1>5. pages > 0 /\ NoRun(last, Highest)
  BY <1>1, <1>2 DEF IInv, ScanInv, DoneInv, Start
<1>6. ScanInv'
  BY <1>1, <1>2, <1>5 DEF ScanInv, Start, Run
<1>7. DoneInv'
  BY <1>1, <1>2, <1>5 DEF DoneInv, NoRun, Start
<1> QED
  BY <1>3, <1>4, <1>6, <1>7 DEF IInv

\* A failed request changes nothing but the lock.
LEMMA FailPreserves ==
  ASSUME IInv, NEW c \in Callers, Fail(c)
  PROVE  IInv'
<1> USE PmmAssumption
<1>1. TypeOK'
  BY DEF IInv, TypeOK, Fail, Return
<1>2. HeldInv' /\ Disjoint' /\ BitmapExact'
  BY DEF IInv, HeldInv, Disjoint, BitmapExact, Fail
<1>3. ScanInv' /\ DoneInv'
  BY DEF ScanInv, DoneInv, Fail, Return
<1> QED
  BY <1>1, <1>2, <1>3 DEF IInv

\* Clearing the pages of an allocation touches no bit of the bitmap.
LEMMA ClearPreserves ==
  ASSUME BitmapFits, IInv, NEW c \in Callers, Clear(c)
  PROVE  IInv' /\ bitmap' = bitmap
<1>1. clear[c] \in held
  BY DEF IInv, TypeOK, Clear
<1>2. bitmap' = bitmap
  <2>1. \A i \in Index :
          PageOfBit(i) \notin Run(clear[c].page, clear[c].pages)
    BY <1>1, OwnedFromHeld DEF IInv, BitmapOwned
  <2> QED
    BY <2>1 DEF IInv, TypeOK, Clear
<1>3. /\ UNCHANGED <<last_used_index, lock, pass, pages, last, p, held>>
      /\ clear' = [clear EXCEPT ![c] = None]
  BY DEF Clear, call
<1>4. TypeOK'
  BY <1>2, <1>3 DEF IInv, TypeOK
<1>5. HeldInv' /\ Disjoint' /\ BitmapExact'
  BY <1>2, <1>3 DEF IInv, HeldInv, Disjoint, BitmapExact
<1>6. ScanInv' /\ DoneInv'
  BY <1>2, <1>3 DEF IInv, ScanInv, DoneInv, Start, NoRun
<1> QED
  BY <1>2, <1>4, <1>5, <1>6 DEF IInv

\* pmm_free clears the bits of the pages of one allocation, and of no other.
LEMMA FreePreserves ==
  ASSUME IInv, NEW r \in held, Free(r)
  PROVE  IInv'
<1>1. /\ lock = None /\ \A c \in Callers : clear[c] # r
      /\ bitmap' = bitmap \ Run(r.page, r.pages)
      /\ held' = held \ {r}
      /\ UNCHANGED <<last_used_index, lock, pass, pages, last, p, clear>>
  BY DEF Free, call
<1>2. TypeOK'
  <2>1. clear \in [Callers -> (held \ {r}) \cup {None}]
    BY <1>1 DEF IInv, TypeOK
  <2> QED
    BY <1>1, <2>1 DEF IInv, TypeOK
<1>3. HeldInv' /\ Disjoint'
  BY <1>1 DEF IInv, HeldInv, Disjoint
<1>4. BitmapExact'
  <2>1. Run(r.page, r.pages) \subseteq FreeAtBoot
    BY DEF IInv, HeldInv
  <2>2. \A s \in held \ {r} : Run(s.page, s.pages) \cap Run(r.page, r.pages) = {}
    BY DEF IInv, Disjoint
  <2>3. bitmap' = (Index \ FreeAtBoot)
                    \cup UNION {Run(s.page, s.pages) : s \in held \ {r}}
    BY <1>1, <2>1, <2>2, Zenon DEF IInv, BitmapExact
  <2> QED
    BY <1>1, <2>3, Zenon DEF BitmapExact
<1>5. ScanInv' /\ DoneInv'
  BY <1>1 DEF ScanInv, DoneInv
<1> QED
  BY <1>2, <1>3, <1>4, <1>5 DEF IInv

-----------------------------------------------------------------------------
(* The theorems *)

\* The invariant holds after pmm_init.
LEMMA InitIInv == BitmapFits /\ Init => IInv
<1> USE PmmAssumption
<1> SUFFICES ASSUME BitmapFits, Init PROVE IInv
  OBVIOUS
<1>1. Unset = {}
  BY BitsInHole DEF Unset
<1>2. bitmap = Index \ FreeAtBoot
  BY <1>1 DEF Init
<1>3. TypeOK
  BY <1>2 DEF Init, TypeOK, Index
<1>4. HeldInv /\ Disjoint /\ ScanInv /\ DoneInv
  BY DEF Init, HeldInv, Disjoint, ScanInv, DoneInv
<1>5. BitmapExact
  BY <1>2, Zenon DEF Init, BitmapExact
<1> QED
  BY <1>3, <1>4, <1>5 DEF IInv

\* Every step of the allocator preserves the invariant.
LEMMA IInvStep ==
  ASSUME BitmapFits, IInv, [Next]_vars
  PROVE  IInv'
<1>1. ASSUME NEW c \in Callers, Alloc(c) PROVE IInv'
  BY <1>1, AllocBeginInv, ScanPreserves, TakePreserves, AgainPreserves,
     FailPreserves, ClearPreserves DEF Alloc
<1>2. ASSUME NEW r \in held, Free(r) PROVE IInv'
  BY <1>2, FreePreserves
<1>3. CASE UNCHANGED vars
  BY <1>3 DEF IInv, TypeOK, HeldInv, Disjoint, BitmapExact, ScanInv, DoneInv,
              Start, NoRun, vars, call
<1> QED
  BY <1>1, <1>2, <1>3 DEF Next

\* The invariant holds in every reachable state.
THEOREM Inductive == ASSUME BitmapFits PROVE Spec => []IInv
<1>1. IInv /\ [Next]_vars => IInv'
  BY IInvStep
<1>2. Init => IInv
  BY InitIInv
<1> QED
  BY <1>1, <1>2, PTL DEF Spec

\* Type correctness: the scan of inner_alloc stays within the bitmap.
THEOREM TypeCorrect == ASSUME BitmapFits PROVE Spec => []TypeOK
<1>1. IInv => TypeOK
  BY DEF IInv
<1> QED
  BY <1>1, Inductive, PTL

\* No page belongs to two allocations.
THEOREM NoDoubleAllocation == ASSUME BitmapFits PROVE Spec => []Disjoint
<1>1. IInv => Disjoint
  BY DEF IInv
<1> QED
  BY <1>1, Inductive, PTL

\* The bitmap says exactly which pages are free: none leaks and none is free
\* twice.
THEOREM NoLeak == ASSUME BitmapFits PROVE Spec => []BitmapExact
<1>1. IInv => BitmapExact
  BY DEF IInv
<1> QED
  BY <1>1, Inductive, PTL

\* The pages of the bitmap are never handed out.
THEOREM BitmapIsOurs == ASSUME BitmapFits PROVE Spec => []BitmapOwned
<1>1. IInv => BitmapOwned
  BY OwnedFromHeld DEF IInv
<1> QED
  BY <1>1, Inductive, PTL

\* pmm_alloc_nozero fails only when every free run that is long enough
\* reaches across the page where the scan began.
THEOREM HonestFailure == ASSUME BitmapFits PROVE Spec => FailsHonestly
<1> USE PmmAssumption
<1> DEFINE Honest ==
      (lock # None /\ lock' = None /\ held' = held) =>
        \A s \in Index :
          Run(s, pages) \subseteq Index \ bitmap =>
            s < last /\ last < s + pages
<1>1. IInv /\ [Next]_vars => Honest
  <2> SUFFICES ASSUME IInv, [Next]_vars, lock # None, lock' = None, held' = held,
                      NEW s \in Index, Run(s, pages) \subseteq Index \ bitmap
               PROVE  s < last /\ last < s + pages
    OBVIOUS
  <2>1. PICK c \in Callers : Take(c, TRUE) \/ Take(c, FALSE) \/ Fail(c)
    BY DEF Next, Alloc, AllocBegin, Scan, Again, Clear, Free, vars
  <2>2. /\ pages \in Nat /\ pages > 0 /\ s \in Nat /\ last \in Nat
        /\ last_used_index \in Nat /\ Highest \in Nat
    BY DEF IInv, TypeOK, ScanInv, Index
  <2>3. s + pages <= Highest
    <3>1. s + pages - 1 \in Run(s, pages)
      BY <2>2 DEF Run
    <3> QED
      BY <2>2, <3>1 DEF Index
  <2>4. CASE Fail(c)
    <3>1. pass = 2 /\ last <= last_used_index
      BY <2>2, <2>4 DEF Fail, Limit
    <3>2. NoRun(0, last_used_index) /\ NoRun(last, Highest)
      BY <3>1 DEF IInv, DoneInv, Start
    <3> QED
      BY <2>2, <2>3, <3>1, <3>2 DEF NoRun
  <2>5. CASE \E zero \in BOOLEAN : Take(c, zero)
    <3>1. PICK zero \in BOOLEAN : Take(c, zero)
      BY <2>5
    <3>2. [page |-> FirstPage, pages |-> pages] \in held
      BY <3>1 DEF Take
    <3> DEFINE r == [page |-> FirstPage, pages |-> pages]
    <3>3. Run(r.page, r.pages) \subseteq bitmap
      <4> HIDE DEF r
      <4> QED
        BY <3>2, Zenon DEF IInv, BitmapExact, r
    <3>4. Run(FirstPage, pages) \subseteq bitmap
      BY <3>3
    <3>5. last_used_index \in Run(FirstPage, pages) \ bitmap
      BY <2>2, <3>1 DEF Take, Run, FirstPage
    <3> QED
      BY <3>4, <3>5
  <2> QED
    BY <2>1, <2>4, <2>5
<1>2. [][Honest]_vars => FailsHonestly
  BY DEF FailsHonestly
<1> QED
  BY <1>1, <1>2, Inductive, PTL DEF Spec
=============================================================================
