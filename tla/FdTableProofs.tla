--------------------------- MODULE FdTableProofs ---------------------------
(***************************************************************************)
(* Proofs about FdTable, for any number of processes and descriptions and  *)
(* tables of any size: nothing that is still referred to has been freed,   *)
(* and the count of the resource is that of the descriptors.               *)
(*                                                                         *)
(* NoUseAfterFree needs a count that covers every reference: descriptors,  *)
(* calls under way and lists of ppoll (RefInv).  What a call of fdnum_dup  *)
(* holds between the publication and the increment is covered by the       *)
(* published descriptor, which nobody else can close meanwhile, because it *)
(* is in the caller's table or in that of a child that does not run yet    *)
(* (TargetInv, PublishedInv).                                              *)
(***************************************************************************)
EXTENDS FdTable, FiniteSetTheorems, WellFoundedInduction, TLAPS

Places == {"none", "new", "run", "use", "dup", "ref", "resref", "fork", "exit", "poll"}

TypeInv ==
  /\ fds \in [Procs -> [Nums -> Descs \cup {None}]]
  /\ refcount \in [Descs -> Nat]
  /\ alive \in SUBSET Descs
  /\ resref \in Int /\ lost \in Nat
  /\ pc \in [Procs -> Places]
  /\ hand \in [Procs -> Descs \cup {None}]
  /\ target \in [Procs -> [proc : Procs \cup {None}, num : 0 .. MaxFds, specific : BOOLEAN]]
  /\ at \in [Procs -> 0 .. MaxFds]
  /\ fd_list \in [Procs -> [Descs -> Nat]]

Dupping == {"dup", "ref", "resref"}

\* What a process has, depending on where it is: a description in hand and a list
\* of ppoll,
HandInv ==
  \A p \in Procs :
    /\ hand[p] # None <=> pc[p] \in Dupping \cup {"use", "poll"}
    /\ pc[p] # "poll" => \A d \in Descs : fd_list[p][d] = 0

\* a table to publish in that no other process works on,
TargetInv ==
  \A p \in Procs :
    /\ target[p].proc # None <=> pc[p] \in Dupping \cup {"fork"}
    /\ pc[p] \in Dupping \cup {"fork"} =>
         \/ target[p].proc = p /\ pc[p] # "fork"
         \/ target[p].proc # p /\ pc[target[p].proc] = "new" /\ target[p].specific
    /\ pc[p] = "dup" /\ target[p].proc # p => target[p].num \in Nums
    /\ pc[p] \in Dupping /\ target[p].proc # p => at[p] \in Nums
    /\ \A q \in Procs : target[p].proc = target[q].proc /\ target[p].proc # None => p = q

\* and, between the publication and the end of fdnum_dup, a descriptor there.
PublishedInv ==
  \A p \in Procs :
    pc[p] \in {"ref", "resref"} => \E n \in Nums : fds[target[p].proc][n] = hand[p]

PlaceInv == HandInv /\ TargetInv /\ PublishedInv

\* The references to a description that its count covers.
Counted(p) ==
  pc[p] \in {"use", "dup", "resref"} \/ (pc[p] = "poll" /\ fd_list[p][hand[p]] = 0)
Hands(d) == {p \in Procs : hand[p] = d /\ Counted(p)}
Listed(d) == {x \in Procs \X (Nat \ {0}) : x[2] <= fd_list[x[1]][d]}

Total(d) ==
  Cardinality(Slots(d)) + Cardinality(Hands(d)) + Cardinality(Listed(d))

RefInv ==
  \A d \in Descs :
    /\ IsFiniteSet(Listed(d))
    /\ d \in alive => Total(d) <= refcount[d]
    /\ d \notin alive => Total(d) = 0

\* The two sides of ResourceCounts.
Uncounted == {p \in Procs : pc[p] \in {"ref", "resref"}}
Used == {s \in Procs \X Nums : fds[s[1]][s[2]] # None}

IInv == TypeInv /\ PlaceInv /\ RefInv /\ ResourceCounts

-----------------------------------------------------------------------------
(* Facts about sets, functions and counts *)

Bit(b) == IF b THEN 1 ELSE 0

LEMMA MinOfNums ==
  ASSUME NEW S \in SUBSET Nums, S # {}
  PROVE  Min(S) \in S
<1>1. S \in SUBSET Nat
  BY FdAssumption DEF Nums
<1>2. PICK x \in S : \A y \in S : ~ (<<y, x>> \in OpToRel(<, Nat))
  BY <1>1, WFMin, NatLessThanWellFounded
<1>3. \A y \in S : ~ (y < x)
  BY <1>1, <1>2 DEF OpToRel
<1>4. \A y \in S : x <= y
  BY <1>1, <1>3
<1> QED
  BY <1>4 DEF Min

\* Two sets that differ in x at most differ in size by x.
LEMMA DifferAt ==
  ASSUME NEW S, NEW T, NEW x, IsFiniteSet(S), S \ {x} = T \ {x}
  PROVE  /\ IsFiniteSet(T) /\ Cardinality(T) \in Nat /\ Cardinality(S) \in Nat
         /\ Cardinality(T) = (Cardinality(S) - Bit(x \in S)) + Bit(x \in T)
<1> DEFINE R == S \ {x}
<1>1. IsFiniteSet(R) /\ Cardinality(R) = IF x \in S THEN Cardinality(S) - 1 ELSE Cardinality(S)
  BY FS_RemoveElement
<1>2. x \notin R
  OBVIOUS
<1>3. IsFiniteSet(R \cup {x}) /\ Cardinality(R \cup {x}) = Cardinality(R) + 1
  BY <1>1, <1>2, FS_AddElement
<1>4. T = IF x \in T THEN R \cup {x} ELSE R
  OBVIOUS
<1>5. Cardinality(S) \in Nat /\ Cardinality(R) \in Nat
  BY <1>1, FS_CardinalityType
<1> HIDE DEF R
<1>6. CASE x \in T
  <2>1. IsFiniteSet(T) /\ Cardinality(T) = Cardinality(R) + 1
    BY <1>3, <1>4, <1>6
  <2> QED
    BY <2>1, <1>1, <1>5, <1>6 DEF Bit
<1>7. CASE x \notin T
  <2>1. IsFiniteSet(T) /\ Cardinality(T) = Cardinality(R)
    BY <1>1, <1>4, <1>7
  <2> QED
    BY <2>1, <1>1, <1>5, <1>7 DEF Bit
<1> QED
  BY <1>6, <1>7

LEMMA Member ==
  ASSUME NEW S, IsFiniteSet(S)
  PROVE  /\ Cardinality(S) \in Nat
         /\ S # {} => Cardinality(S) >= 1
<1>1. Cardinality(S) \in Nat /\ (Cardinality(S) = 0 <=> S = {})
  BY FS_CardinalityType, FS_EmptySet
<1> QED
  BY <1>1

LEMMA NumsFinite == IsFiniteSet(Nums) /\ IsFiniteSet(Procs \X Nums)
<1>1. IsFiniteSet(Nums)
  <2>1. 0 \in Int /\ MaxFds - 1 \in Int
    BY FdAssumption
  <2> QED
    BY <2>1, FS_Interval DEF Nums
<1> QED
  BY <1>1, FS_Product, FdAssumption

\* What is counted is finite.
LEMMA Finite ==
  /\ \A d : IsFiniteSet(Slots(d)) /\ IsFiniteSet(Hands(d))
  /\ IsFiniteSet(Used) /\ IsFiniteSet(Uncounted)
<1>1. \A d : IsFiniteSet(Slots(d))
  BY NumsFinite, FS_Subset DEF Slots
<1>2. \A d : IsFiniteSet(Hands(d))
  BY FS_Subset, FdAssumption DEF Hands
<1>3. IsFiniteSet(Used)
  BY NumsFinite, FS_Subset DEF Used
<1>4. IsFiniteSet(Uncounted)
  BY FS_Subset, FdAssumption DEF Uncounted
<1> QED
  BY <1>1, <1>2, <1>3, <1>4

LEMMA CountTypes ==
  ASSUME RefInv
  PROVE  /\ \A d \in Descs :
              /\ Cardinality(Slots(d)) \in Nat /\ Cardinality(Hands(d)) \in Nat
              /\ Cardinality(Listed(d)) \in Nat
         /\ Cardinality(Used) \in Nat /\ Cardinality(Uncounted) \in Nat
<1>1. \A d \in Descs : IsFiniteSet(Listed(d))
  BY DEF RefInv
<1> QED
  BY <1>1, Finite, FS_CardinalityType

-----------------------------------------------------------------------------
(* What changes of the counts *)

\* A write of one descriptor.
Writes(q, n, e) == fds' = [fds EXCEPT ![q][n] = e]

LEMMA Written ==
  ASSUME TypeInv, NEW q \in Procs, NEW n \in Nums, NEW e \in Descs \cup {None},
         Writes(q, n, e)
  PROVE  /\ \A s \in (Procs \X Nums) \ {<<q, n>>} : fds'[s[1]][s[2]] = fds[s[1]][s[2]]
         /\ fds'[q][n] = e
         /\ <<q, n>> \in Procs \X Nums /\ <<q, n>>[1] = q /\ <<q, n>>[2] = n
BY DEF TypeInv, Writes

LEMMA SlotWrite ==
  ASSUME TypeInv, NEW q \in Procs, NEW n \in Nums, NEW e \in Descs \cup {None},
         Writes(q, n, e)
  PROVE  \A d \in Descs :
           Cardinality(Slots(d))' =
             (Cardinality(Slots(d)) - Bit(fds[q][n] = d)) + Bit(e = d)
<1> SUFFICES ASSUME NEW d \in Descs
             PROVE  Cardinality(Slots(d))' =
                      (Cardinality(Slots(d)) - Bit(fds[q][n] = d)) + Bit(e = d)
  OBVIOUS
<1>0. /\ \A s \in (Procs \X Nums) \ {<<q, n>>} : fds'[s[1]][s[2]] = fds[s[1]][s[2]]
      /\ fds'[q][n] = e
      /\ <<q, n>> \in Procs \X Nums /\ <<q, n>>[1] = q /\ <<q, n>>[2] = n
  BY Written
<1>1. Slots(d)' \ {<<q, n>>} = Slots(d) \ {<<q, n>>}
  BY <1>0 DEF Slots
<1>2. (<<q, n>> \in Slots(d) <=> fds[q][n] = d) /\ (<<q, n>> \in Slots(d)' <=> e = d)
  BY <1>0 DEF Slots
<1> QED
  BY <1>1, <1>2, Finite, DifferAt DEF Bit

LEMMA UsedWrite ==
  ASSUME TypeInv, NEW q \in Procs, NEW n \in Nums, NEW e \in Descs \cup {None},
         Writes(q, n, e)
  PROVE  Cardinality(Used)' =
           (Cardinality(Used) - Bit(fds[q][n] # None)) + Bit(e # None)
<1>0. /\ \A s \in (Procs \X Nums) \ {<<q, n>>} : fds'[s[1]][s[2]] = fds[s[1]][s[2]]
      /\ fds'[q][n] = e
      /\ <<q, n>> \in Procs \X Nums /\ <<q, n>>[1] = q /\ <<q, n>>[2] = n
  BY Written
<1>1. Used' \ {<<q, n>>} = Used \ {<<q, n>>}
  BY <1>0 DEF Used
<1>2. (<<q, n>> \in Used <=> fds[q][n] # None) /\ (<<q, n>> \in Used' <=> e # None)
  BY <1>0 DEF Used
<1> QED
  BY <1>1, <1>2, Finite, DifferAt DEF Bit

\* A step of one process, as far as what the processes hold goes.
LEMMA HandsStep ==
  ASSUME NEW p \in Procs,
         \A q \in Procs \ {p} : hand'[q] = hand[q] /\ (Counted(q)' <=> Counted(q))
  PROVE  \A d \in Descs :
           Cardinality(Hands(d))' =
             (Cardinality(Hands(d)) - Bit(hand[p] = d /\ Counted(p)))
               + Bit(hand'[p] = d /\ Counted(p)')
<1> SUFFICES ASSUME NEW d \in Descs
             PROVE  Cardinality(Hands(d))' =
                      (Cardinality(Hands(d)) - Bit(hand[p] = d /\ Counted(p)))
                        + Bit(hand'[p] = d /\ Counted(p)')
  OBVIOUS
<1>1. Hands(d)' \ {p} = Hands(d) \ {p}
  BY Zenon DEF Hands
<1>2. /\ p \in Hands(d) <=> hand[p] = d /\ Counted(p)
      /\ p \in Hands(d)' <=> hand'[p] = d /\ Counted(p)'
  BY Zenon DEF Hands
<1> QED
  BY <1>1, <1>2, Finite, DifferAt DEF Bit

LEMMA UncountedStep ==
  ASSUME NEW p \in Procs,
         \A q \in Procs \ {p} :
           pc'[q] \in {"ref", "resref"} <=> pc[q] \in {"ref", "resref"}
  PROVE  Cardinality(Uncounted)' =
           (Cardinality(Uncounted) - Bit(pc[p] \in {"ref", "resref"}))
             + Bit(pc'[p] \in {"ref", "resref"})
<1>1. Uncounted' \ {p} = Uncounted \ {p}
  BY DEF Uncounted
<1>2. /\ p \in Uncounted <=> pc[p] \in {"ref", "resref"}
      /\ p \in Uncounted' <=> pc'[p] \in {"ref", "resref"}
  BY DEF Uncounted
<1> QED
  BY <1>1, <1>2, Finite, DifferAt DEF Bit

\* syscall_ppoll puts a description on its list,
LEMMA ListAdd ==
  ASSUME TypeInv, RefInv, NEW p \in Procs, NEW e \in Descs,
         fd_list' = [fd_list EXCEPT ![p][e] = @ + 1]
  PROVE  \A d \in Descs :
           /\ IsFiniteSet(Listed(d))'
           /\ Cardinality(Listed(d))' = Cardinality(Listed(d)) + Bit(d = e)
<1> SUFFICES ASSUME NEW d \in Descs
             PROVE  /\ IsFiniteSet(Listed(d))'
                    /\ Cardinality(Listed(d))' = Cardinality(Listed(d)) + Bit(d = e)
  OBVIOUS
<1>0. IsFiniteSet(Listed(d))
  BY DEF RefInv
<1>1. fd_list \in [Procs -> [Descs -> Nat]]
  BY DEF TypeInv
<1>2. CASE d # e
  <2>1. \A q \in Procs : fd_list'[q][d] = fd_list[q][d]
    BY <1>1, <1>2
  <2>2. Listed(d)' = Listed(d)
    BY <2>1 DEF Listed
  <2> QED
    BY <2>2, <1>0, <1>2, FS_CardinalityType DEF Bit
<1>3. CASE d = e
  <2> DEFINE x == <<p, fd_list[p][d] + 1>>
  <2>1. /\ \A q \in Procs \ {p} : fd_list'[q][d] = fd_list[q][d]
        /\ fd_list'[p][d] = fd_list[p][d] + 1 /\ fd_list[p][d] \in Nat
    BY <1>1, <1>3
  <2>2. Listed(d)' = Listed(d) \cup {x}
    <3>1. ASSUME NEW y \in Listed(d)' PROVE y \in Listed(d) \cup {x}
      <4>1. /\ y \in Procs \X (Nat \ {0}) /\ y = <<y[1], y[2]>>
            /\ y[2] <= fd_list'[y[1]][d]
        BY DEF Listed
      <4>2. CASE y[1] # p
        BY <4>1, <4>2, <2>1 DEF Listed
      <4>3. CASE y[1] = p /\ y[2] # fd_list[p][d] + 1
        <5>1. y[2] <= fd_list[p][d]
          BY <4>1, <4>3, <2>1
        <5> QED
          BY <5>1, <4>1, <4>3 DEF Listed
      <4> QED
        BY <4>1, <4>2, <4>3
    <3>2. ASSUME NEW y \in Listed(d) PROVE y \in Listed(d)'
      <4>1. y \in Procs \X (Nat \ {0}) /\ y[2] <= fd_list[y[1]][d]
        BY DEF Listed
      <4>2. y[2] <= fd_list'[y[1]][d]
        BY <4>1, <2>1
      <4> QED
        BY <4>1, <4>2 DEF Listed
    <3>3. x \in Listed(d)'
      BY <2>1 DEF Listed
    <3> QED
      BY <3>1, <3>2, <3>3
  <2>3. x \notin Listed(d)
    BY <2>1 DEF Listed
  <2>4. /\ IsFiniteSet(Listed(d) \cup {x})
        /\ Cardinality(Listed(d) \cup {x}) = Cardinality(Listed(d)) + 1
    BY <1>0, <2>3, FS_AddElement
  <2> QED
    BY <2>2, <2>4, <1>3 DEF Bit
<1> QED
  BY <1>2, <1>3

\* and its cleanup empties it.
LEMMA ListClear ==
  ASSUME TypeInv, RefInv, NEW p \in Procs,
         fd_list' = [fd_list EXCEPT ![p] = NoRefs]
  PROVE  \A d \in Descs :
           /\ IsFiniteSet(Listed(d))'
           /\ Cardinality(Listed(d)) \in Nat /\ Cardinality(Listed(d))' \in Nat
           /\ Cardinality(Listed(d))' = Cardinality(Listed(d)) - fd_list[p][d]
<1> SUFFICES ASSUME NEW d \in Descs
             PROVE  /\ IsFiniteSet(Listed(d))'
                    /\ Cardinality(Listed(d)) \in Nat /\ Cardinality(Listed(d))' \in Nat
                    /\ Cardinality(Listed(d))' = Cardinality(Listed(d)) - fd_list[p][d]
  OBVIOUS
<1> DEFINE k == fd_list[p][d]
           Mine == {p} \X (1 .. k)
<1>0. IsFiniteSet(Listed(d))
  BY DEF RefInv
<1>1. fd_list \in [Procs -> [Descs -> Nat]] /\ k \in Nat
  BY DEF TypeInv
<1>2. /\ \A q \in Procs \ {p} : fd_list'[q][d] = fd_list[q][d]
      /\ fd_list'[p][d] = 0
  BY <1>1 DEF NoRefs
<1>3. Mine \subseteq Listed(d)
  BY <1>1 DEF Listed
<1>4. Listed(d)' = Listed(d) \ Mine
  <2>1. ASSUME NEW y \in Listed(d)' PROVE y \in Listed(d) /\ y \notin Mine
    <3>1. y \in Procs \X (Nat \ {0}) /\ y[2] <= fd_list'[y[1]][d]
      BY DEF Listed
    <3>2. y[1] # p
      BY <3>1, <1>2
    <3> QED
      BY <3>1, <3>2, <1>2 DEF Listed
  <2>2. ASSUME NEW y \in Listed(d), y \notin Mine PROVE y \in Listed(d)'
    <3>1. y \in Procs \X (Nat \ {0}) /\ y[2] <= fd_list[y[1]][d]
      BY DEF Listed
    <3>2. y[1] # p
      BY <3>1, <2>2, <1>1
    <3> QED
      BY <3>1, <3>2, <1>2 DEF Listed
  <2> QED
    BY <2>1, <2>2
<1>5. Cardinality(Mine) = k
  <2>1. IsFiniteSet({p}) /\ Cardinality({p}) = 1
    BY FS_Singleton
  <2>2. IsFiniteSet(1 .. k) /\ Cardinality(1 .. k) = k
    BY <1>1, FS_Interval
  <2> DEFINE P == {p}
             K == 1 .. k
  <2> HIDE DEF P, K
  <2>3. IsFiniteSet(P) /\ IsFiniteSet(K) /\ Cardinality(P) = 1 /\ Cardinality(K) = k
    BY <2>1, <2>2 DEF P, K
  <2>4. Cardinality(P \X K) = Cardinality(P) * Cardinality(K)
    BY <2>3, FS_Product
  <2>5. Cardinality(P \X K) = k
    BY <2>3, <2>4, <1>1
  <2> QED
    BY <2>5 DEF P, K
<1> HIDE DEF Mine, k
<1>6. Listed(d) \cap Mine = Mine
  BY <1>3
<1>7. IsFiniteSet(Listed(d) \ Mine) /\ Cardinality(Listed(d) \ Mine) = Cardinality(Listed(d)) - k
  BY <1>0, <1>5, <1>6, FS_Difference
<1>8. Cardinality(Listed(d)) \in Nat /\ Cardinality(Listed(d) \ Mine) \in Nat
  BY <1>0, <1>7, FS_CardinalityType
<1> QED
  BY <1>4, <1>7, <1>8 DEF k

-----------------------------------------------------------------------------
(* What the counts say of the references there are *)

LEMMA SlotAlive ==
  ASSUME TypeInv, RefInv, NEW p \in Procs, NEW n \in Nums, fds[p][n] # None
  PROVE  fds[p][n] \in Descs /\ fds[p][n] \in alive /\ refcount[fds[p][n]] >= 1
<1> DEFINE d == fds[p][n]
<1>1. d \in Descs /\ refcount[d] \in Nat
  BY DEF TypeInv
<1>2. <<p, n>> \in Slots(d)
  BY DEF Slots
<1>3. Cardinality(Slots(d)) >= 1
  BY <1>2, Finite, Member
<1>4. Total(d) >= 1
  BY <1>1, <1>3, CountTypes DEF Total
<1>5. Total(d) \in Nat
  BY <1>1, CountTypes DEF Total
<1> HIDE DEF d
<1>6. d \in alive /\ Total(d) <= refcount[d]
  BY <1>1, <1>4, <1>5 DEF RefInv
<1>7. refcount[d] >= 1
  BY <1>1, <1>4, <1>5, <1>6
<1> QED
  BY <1>1, <1>6, <1>7 DEF d

LEMMA ListedAlive ==
  ASSUME TypeInv, RefInv, NEW p \in Procs, NEW d \in Descs, fd_list[p][d] > 0
  PROVE  d \in alive
<1>0. fd_list[p][d] \in Nat
  BY DEF TypeInv
<1>1. <<p, 1>> \in Listed(d)
  BY <1>0 DEF Listed
<1>2. Cardinality(Listed(d)) >= 1
  BY <1>1, Member DEF RefInv
<1>3. Total(d) # 0
  BY <1>2, CountTypes DEF Total
<1> QED
  BY <1>3 DEF RefInv

LEMMA HandAlive ==
  ASSUME TypeInv, PlaceInv, RefInv, NEW p \in Procs, hand[p] # None
  PROVE  hand[p] \in Descs /\ hand[p] \in alive
<1>0. hand[p] \in Descs /\ pc[p] \in Dupping \cup {"use", "poll"}
  BY DEF TypeInv, PlaceInv, HandInv
<1>1. CASE Counted(p)
  <2>1. p \in Hands(hand[p])
    BY <1>1 DEF Hands
  <2>2. Cardinality(Hands(hand[p])) >= 1
    BY <2>1, Finite, Member
  <2>3. Total(hand[p]) # 0
    BY <1>0, <2>2, CountTypes DEF Total
  <2> QED
    BY <1>0, <2>3 DEF RefInv
<1>2. CASE pc[p] = "ref"
  <2>1. PICK n \in Nums : fds[target[p].proc][n] = hand[p]
    BY <1>2 DEF PlaceInv, PublishedInv
  <2>2. target[p].proc \in Procs
    BY <1>2 DEF PlaceInv, TargetInv, TypeInv, Dupping
  <2> QED
    BY <2>1, <2>2, SlotAlive
<1>3. CASE pc[p] = "poll" /\ fd_list[p][hand[p]] # 0
  <2>1. fd_list[p][hand[p]] \in Nat
    BY <1>0 DEF TypeInv
  <2> QED
    BY <1>0, <1>3, <2>1, ListedAlive
<1> QED
  BY <1>0, <1>1, <1>2, <1>3 DEF Counted, Dupping

LEMMA Alive ==
  ASSUME TypeInv, PlaceInv, RefInv
  PROVE  NoUseAfterFree
<1> SUFFICES ASSUME NEW p \in Procs
             PROVE  /\ \A n \in Nums : fds[p][n] # None => fds[p][n] \in alive
                    /\ hand[p] # None => hand[p] \in alive
                    /\ \A d \in Descs : fd_list[p][d] > 0 => d \in alive
  BY DEF NoUseAfterFree
<1> QED
  BY SlotAlive, HandAlive, ListedAlive

-----------------------------------------------------------------------------
(* How a step keeps RefInv *)

LEMMA NotNone == \A d \in Descs : d # None
BY FdAssumption

\* A write of one descriptor: the one that was there is dropped, and the one that
\* comes takes the place of a reference in hand.
LEMMA WriteStep ==
  ASSUME TypeInv, RefInv,
         NEW q \in Procs, NEW n \in Nums, NEW e \in Descs \cup {None},
         Writes(q, n, e),
         IF fds[q][n] # None THEN Drop(fds[q][n]) ELSE UNCHANGED counts,
         \A d \in Descs :
           /\ Cardinality(Hands(d))' = Cardinality(Hands(d)) - Bit(e = d)
           /\ Listed(d)' = Listed(d)
  PROVE  /\ RefInv'
         /\ refcount' \in [Descs -> Nat] /\ alive' \in SUBSET Descs
         /\ resref' = resref - Bit(fds[q][n] # None)
<1> DEFINE c == fds[q][n]
<1>0. /\ refcount \in [Descs -> Nat] /\ alive \in SUBSET Descs /\ resref \in Int
      /\ c \in Descs \cup {None}
  BY DEF TypeInv
<1>1. \A d \in Descs :
        Cardinality(Slots(d))' = (Cardinality(Slots(d)) - Bit(c = d)) + Bit(e = d)
  <2> HIDE DEF c
  <2>1. \A d \in Descs :
          Cardinality(Slots(d))' = (Cardinality(Slots(d)) - Bit(fds[q][n] = d)) + Bit(e = d)
    BY SlotWrite DEF Bit
  <2> QED
    BY <2>1 DEF c
<1>2. \A d \in Descs : Total(d) \in Nat
  BY CountTypes DEF Total
<1>3. \A d \in Descs : Total(d)' = Total(d) - Bit(c = d)
  <2> SUFFICES ASSUME NEW d \in Descs PROVE Total(d)' = Total(d) - Bit(c = d)
    OBVIOUS
  <2>1. Cardinality(Listed(d))' = Cardinality(Listed(d))
    OBVIOUS
  <2>2. Cardinality(Hands(d))' = Cardinality(Hands(d)) - Bit(e = d)
    OBVIOUS
  <2>3. /\ Cardinality(Slots(d)) \in Nat /\ Cardinality(Hands(d)) \in Nat
        /\ Cardinality(Listed(d)) \in Nat /\ Bit(e = d) \in Nat /\ Bit(c = d) \in Nat
    BY CountTypes DEF Bit
  <2>4. Cardinality(Slots(d))' = (Cardinality(Slots(d)) - Bit(c = d)) + Bit(e = d)
    BY <1>1
  <2> HIDE DEF c
  <2> QED
    BY <2>1, <2>2, <2>3, <2>4 DEF Total
<1>4. \A d \in Descs : IsFiniteSet(Listed(d)')
  BY DEF RefInv
<1>5. CASE c = None
  <2>1. refcount' = refcount /\ alive' = alive /\ resref' = resref
    BY <1>5 DEF counts
  <2>2. \A d \in Descs : Total(d)' = Total(d)
    BY <1>2, <1>3, <1>5, NotNone DEF Bit
  <2>3. RefInv'
    BY <2>1, <2>2, <1>4 DEF RefInv
  <2> QED
    BY <2>1, <2>3, <1>0, <1>5 DEF Bit
<1>6. CASE c # None
  <2>1. c \in Descs /\ c \in alive /\ refcount[c] >= 1
    BY <1>6, SlotAlive
  <2>2. /\ resref' = resref - 1
        /\ refcount' = [refcount EXCEPT ![c] = @ - 1]
        /\ alive' = IF refcount[c] = 1 THEN alive \ {c} ELSE alive
    BY <1>6 DEF Drop
  <2> HIDE DEF c
  <2>3. refcount' \in [Descs -> Nat] /\ alive' \in SUBSET Descs
    BY <2>1, <2>2, <1>0
  <2>4. ASSUME NEW d \in Descs
        PROVE  /\ d \in alive' => Total(d)' <= refcount'[d]
               /\ d \notin alive' => Total(d)' = 0
    <3>1. /\ d \in alive => Total(d) <= refcount[d]
          /\ d \notin alive => Total(d) = 0
      BY DEF RefInv
    <3>2. CASE d # c
      <4>1. Total(d)' = Total(d) /\ refcount'[d] = refcount[d] /\ (d \in alive' <=> d \in alive)
        BY <3>2, <2>1, <2>2, <1>0, <1>2, <1>3 DEF Bit
      <4> QED
        BY <4>1, <3>1
    <3>3. CASE d = c
      <4>1. Total(d)' = Total(d) - 1 /\ refcount'[d] = refcount[d] - 1
        BY <3>3, <2>1, <2>2, <1>0, <1>3 DEF Bit
      <4>2. Total(d) <= refcount[d] /\ refcount[d] \in Nat /\ Total(d) \in Nat
        BY <3>1, <3>3, <2>1, <1>0, <1>2
      <4>3. Total(d)' \in Nat
        <5>1. Total(d) >= 1
          <6>1. <<q, n>> \in Slots(d)
            BY <3>3 DEF Slots, c
          <6>2. Cardinality(Slots(d)) >= 1
            BY <6>1, Finite, Member
          <6> QED
            BY <6>2, CountTypes DEF Total
        <5> QED
          BY <5>1, <4>1, <4>2
      <4>4. d \in alive' <=> refcount[d] # 1
        BY <3>3, <2>1, <2>2
      <4> QED
        BY <4>1, <4>2, <4>3, <4>4
    <3> QED
      BY <3>2, <3>3
  <2>5. RefInv'
    BY <2>4, <1>4 DEF RefInv
  <2> QED
    BY <2>2, <2>3, <2>5, <1>6 DEF Bit, c
<1> QED
  BY <1>5, <1>6

\* A step that leaves the tables alone: what comes into a hand or on a list, the
\* count goes up by.
LEMMA CoverStep ==
  ASSUME TypeInv, RefInv, fds' = fds, alive' = alive,
         refcount' \in [Descs -> Nat],
         \A d \in Descs :
           /\ IsFiniteSet(Listed(d))'
           /\ Cardinality(Hands(d))' + Cardinality(Listed(d))'
                <= (Cardinality(Hands(d)) + Cardinality(Listed(d))) + (refcount'[d] - refcount[d])
           /\ d \notin alive => Cardinality(Hands(d))' + Cardinality(Listed(d))'
                                  <= Cardinality(Hands(d)) + Cardinality(Listed(d))
  PROVE  RefInv'
<1> SUFFICES ASSUME NEW d \in Descs
             PROVE  /\ IsFiniteSet(Listed(d))'
                    /\ d \in alive' => Total(d)' <= refcount'[d]
                    /\ d \notin alive' => Total(d)' = 0
  BY DEF RefInv
<1>1. /\ d \in alive => Total(d) <= refcount[d]
      /\ d \notin alive => Total(d) = 0
  BY DEF RefInv
<1>2. Slots(d)' = Slots(d)
  BY DEF Slots
<1>3. Hands(d)' \in SUBSET Procs
  BY DEF Hands
<1>4. Cardinality(Hands(d))' \in Nat /\ Cardinality(Listed(d))' \in Nat
  BY <1>3, FS_Subset, FS_CardinalityType, FdAssumption
<1>5. /\ Cardinality(Slots(d)) \in Nat /\ Cardinality(Hands(d)) \in Nat
      /\ Cardinality(Listed(d)) \in Nat /\ refcount[d] \in Nat /\ refcount'[d] \in Nat
  BY CountTypes DEF TypeInv
<1>6. Cardinality(Slots(d))' = Cardinality(Slots(d))
  BY <1>2
<1>7. CASE d \in alive
  <2>1. Cardinality(Hands(d))' + Cardinality(Listed(d))'
          <= (Cardinality(Hands(d)) + Cardinality(Listed(d))) + (refcount'[d] - refcount[d])
    OBVIOUS
  <2>2. Total(d)' <= refcount'[d]
    BY <2>1, <1>1, <1>4, <1>5, <1>6, <1>7 DEF Total
  <2> QED
    BY <2>2, <1>7
<1>8. CASE d \notin alive
  <2>1. Cardinality(Hands(d))' + Cardinality(Listed(d))'
          <= Cardinality(Hands(d)) + Cardinality(Listed(d))
    BY <1>8
  <2>2. /\ Cardinality(Slots(d)) = 0
        /\ Cardinality(Hands(d)) + Cardinality(Listed(d)) = 0
    BY <1>1, <1>5, <1>8 DEF Total
  <2>3. Cardinality(Hands(d))' + Cardinality(Listed(d))' = 0
    BY <2>1, <2>2, <1>4
  <2>4. Total(d)' = 0
    BY <2>2, <2>3, <1>4, <1>6 DEF Total
  <2> QED
    BY <2>4, <1>8
<1> QED
  BY <1>7, <1>8

\* Where nobody's hand or list changes.
LEMMA HandsKept ==
  ASSUME hand' = hand, fd_list' = fd_list,
         \A q \in Procs : Counted(q)' <=> Counted(q)
  PROVE  \A d \in Descs : Hands(d)' = Hands(d) /\ Listed(d)' = Listed(d)
<1>1. \A d \in Descs : Hands(d)' = Hands(d)
  BY Zenon DEF Hands
<1>2. \A d \in Descs : Listed(d)' = Listed(d)
  BY Zenon DEF Listed
<1> QED
  BY <1>1, <1>2

LEMMA ListKept ==
  ASSUME RefInv, fd_list' = fd_list
  PROVE  \A d \in Descs : Listed(d)' = Listed(d) /\ IsFiniteSet(Listed(d))'
<1>1. \A d \in Descs : Listed(d)' = Listed(d)
  BY Zenon DEF Listed
<1> QED
  BY <1>1 DEF RefInv

\* The two sides of ResourceCounts, from what a step does to them.
LEMMA CountsStep ==
  ASSUME RefInv, ResourceCounts, TypeInv, NEW r \in Int, NEW u \in Int, NEW l \in Int,
         resref' = resref + r, lost' = lost + l,
         Cardinality(Uncounted)' = Cardinality(Uncounted) + u,
         Cardinality(Used)' = Cardinality(Used) + ((r + u) - l)
  PROVE  ResourceCounts'
<1>1. resref + Cardinality(Uncounted) = Cardinality(Used) + lost
  BY DEF ResourceCounts, Uncounted, Used
<1>2. /\ resref \in Int /\ lost \in Int
      /\ Cardinality(Uncounted) \in Int /\ Cardinality(Used) \in Int
  BY CountTypes DEF TypeInv
<1>3. resref' + Cardinality(Uncounted)' = Cardinality(Used)' + lost'
  BY <1>1, <1>2
<1> QED
  BY <1>3 DEF ResourceCounts, Uncounted, Used

-----------------------------------------------------------------------------
(* The actions *)

\* The parts of the invariant that are about one process, for a step that leaves
\* everything of the processes alone.
LEMMA PlacesKept ==
  ASSUME HandInv, TargetInv, UNCHANGED <<pc, hand, target, at, fd_list>>
  PROVE  HandInv' /\ TargetInv'
<1>1. HandInv'
  BY DEF HandInv
<1>2. TargetInv'
  BY DEF TargetInv
<1> QED
  BY <1>1, <1>2

\* A write to the table of a process that runs by itself, or to a free place, does
\* not touch what a call of fdnum_dup has published.
LEMMA PublishedKept ==
  ASSUME TypeInv, HandInv, TargetInv, PublishedInv,
         NEW q \in Procs, NEW n \in Nums, NEW e \in Descs \cup {None},
         Writes(q, n, e),
         fds[q][n] = None \/ pc[q] \in {"run", "exit"},
         UNCHANGED <<pc, hand, target>>
  PROVE  PublishedInv'
<1> SUFFICES ASSUME NEW p \in Procs, pc[p] \in {"ref", "resref"}
             PROVE  \E m \in Nums : fds'[target[p].proc][m] = hand[p]
  BY DEF PublishedInv
<1>1. PICK m \in Nums : fds[target[p].proc][m] = hand[p]
  BY DEF PublishedInv
<1>2. hand[p] # None /\ target[p].proc \in Procs
  BY DEF HandInv, TargetInv, TypeInv, Dupping
<1>3. target[p].proc # q \/ m # n
  <2>1. CASE fds[q][n] = None
    BY <2>1, <1>1, <1>2
  <2>2. CASE pc[q] \in {"run", "exit"}
    BY <2>2 DEF TargetInv, Dupping
  <2> QED
    BY <2>1, <2>2
<1>4. fds'[target[p].proc][m] = fds[target[p].proc][m]
  BY <1>2, <1>3 DEF TypeInv, Writes
<1> QED
  BY <1>1, <1>4

LEMMA FreeFacts ==
  ASSUME NEW p, NEW m, FreeFrom(p, m) # {}
  PROVE  Min(FreeFrom(p, m)) \in Nums /\ fds[p][Min(FreeFrom(p, m))] = None
<1>1. FreeFrom(p, m) \in SUBSET Nums
  BY DEF FreeFrom
<1>2. Min(FreeFrom(p, m)) \in FreeFrom(p, m)
  BY <1>1, MinOfNums
<1> QED
  BY <1>2 DEF FreeFrom

LEMMA OpenStep ==
  ASSUME IInv, NEW p \in Procs, Open(p)
  PROVE  IInv'
<1> USE DEF IInv
<1>0. PICK d \in Descs \ alive :
        /\ alive' = alive \cup {d}
        /\ refcount' = [refcount EXCEPT ![d] = 1]
        /\ resref' = resref + 1
        /\ \/ /\ FreeFrom(p, 0) # {}
              /\ fds' = [fds EXCEPT ![p][Min(FreeFrom(p, 0))] = d]
              /\ UNCHANGED lost
           \/ /\ FreeFrom(p, 0) = {}
              /\ lost' = lost + 1
              /\ UNCHANGED fds
  BY DEF Open
<1>1. pc[p] = "run" /\ UNCHANGED <<pc, hand, target, at, fd_list>>
  BY DEF Open
<1>2. HandInv' /\ TargetInv'
  BY <1>1, PlacesKept DEF PlaceInv
<1>3. \A q \in Procs : Counted(q)' <=> Counted(q)
  BY <1>1 DEF Counted
<1>4. \A c \in Descs : Hands(c)' = Hands(c) /\ Listed(c)' = Listed(c)
  BY <1>1, <1>3, HandsKept
<1>5. Uncounted' = Uncounted
  BY <1>1 DEF Uncounted
<1>6. Total(d) = 0 /\ \A c \in Descs : IsFiniteSet(Listed(c)) /\ Total(c) \in Nat
  BY CountTypes DEF RefInv, Total
<1>7. /\ refcount' \in [Descs -> Nat] /\ alive' \in SUBSET Descs /\ resref' \in Int
      /\ pc' \in [Procs -> Places] /\ hand' \in [Procs -> Descs \cup {None}]
      /\ target' \in [Procs -> [proc : Procs \cup {None}, num : 0 .. MaxFds, specific : BOOLEAN]]
      /\ at' \in [Procs -> 0 .. MaxFds] /\ fd_list' \in [Procs -> [Descs -> Nat]]
  BY <1>0, <1>1 DEF TypeInv
<1>8. CASE FreeFrom(p, 0) # {} /\ fds' = [fds EXCEPT ![p][Min(FreeFrom(p, 0))] = d]
           /\ UNCHANGED lost
  <2>1. PICK n \in Nums : n = Min(FreeFrom(p, 0)) /\ fds[p][n] = None
    BY <1>8, FreeFacts
  <2>2. Writes(p, n, d)
    BY <1>8, <2>1 DEF Writes
  <2>3. TypeInv'
    <3>1. fds' \in [Procs -> [Nums -> Descs \cup {None}]]
      BY <2>2 DEF TypeInv, Writes
    <3>2. lost' \in Nat
      BY <1>8 DEF TypeInv
    <3> QED
      BY <3>1, <3>2, <1>7 DEF TypeInv
  <2>4. PublishedInv'
    BY <1>1, <2>1, <2>2, PublishedKept DEF PlaceInv
  <2>5. /\ \A c \in Descs : Cardinality(Slots(c))' = Cardinality(Slots(c)) + Bit(d = c)
        /\ Cardinality(Used)' = Cardinality(Used) + 1
    <3>1. \A c \in Descs :
             Cardinality(Slots(c))' =
               (Cardinality(Slots(c)) - Bit(fds[p][n] = c)) + Bit(d = c)
      BY <2>2, SlotWrite DEF Bit
    <3>2. Cardinality(Used)' = (Cardinality(Used) - Bit(fds[p][n] # None)) + Bit(d # None)
      BY <2>2, UsedWrite DEF Bit
    <3> QED
      BY <3>1, <3>2, <2>1, NotNone, CountTypes DEF Bit
  <2>6. \A c \in Descs : Total(c)' = Total(c) + Bit(d = c)
    <3> SUFFICES ASSUME NEW c \in Descs PROVE Total(c)' = Total(c) + Bit(d = c)
      OBVIOUS
    <3>1. Cardinality(Hands(c))' = Cardinality(Hands(c)) /\ Cardinality(Listed(c))' = Cardinality(Listed(c))
      BY <1>4
    <3> QED
      BY <2>5, <3>1, CountTypes DEF Total, Bit
  <2>7. ASSUME NEW c \in Descs
        PROVE  /\ IsFiniteSet(Listed(c))'
               /\ c \in alive' => Total(c)' <= refcount'[c]
               /\ c \notin alive' => Total(c)' = 0
    <3>1. IsFiniteSet(Listed(c))'
      BY <1>4, <1>6
    <3>2. CASE c = d
      <4>1. Total(c)' = 1 /\ refcount'[c] = 1 /\ c \in alive'
        BY <3>2, <2>6, <1>0, <1>6 DEF Bit, TypeInv
      <4> QED
        BY <3>1, <4>1
    <3>3. CASE c # d
      <4>1. Total(c)' = Total(c) /\ refcount'[c] = refcount[c] /\ (c \in alive' <=> c \in alive)
        BY <3>3, <2>6, <1>0, <1>6 DEF Bit, TypeInv
      <4> QED
        BY <3>1, <4>1 DEF RefInv
    <3> QED
      BY <3>2, <3>3
  <2>8. RefInv'
    BY <2>7 DEF RefInv
  <2>9. ResourceCounts'
    <3>1. lost' = lost + 0 /\ Cardinality(Uncounted)' = Cardinality(Uncounted) + 0
      BY <1>5, <1>8, CountTypes DEF TypeInv
    <3> QED
      BY <3>1, <2>5, <1>0, CountsStep
  <2> QED
    BY <2>3, <2>4, <2>8, <2>9, <1>2 DEF PlaceInv
<1>9. CASE lost' = lost + 1 /\ UNCHANGED fds
  <2>1. TypeInv'
    BY <1>7, <1>9 DEF TypeInv
  <2>2. PublishedInv'
    BY <1>1, <1>9 DEF PublishedInv, PlaceInv
  <2>3. \A c \in Descs : Slots(c)' = Slots(c)
    BY <1>9 DEF Slots
  <2>4. Used' = Used
    BY <1>9 DEF Used
  <2>5. \A c \in Descs : Total(c)' = Total(c)
    BY <2>3, <1>4 DEF Total
  <2>6. ASSUME NEW c \in Descs
        PROVE  /\ IsFiniteSet(Listed(c))'
               /\ c \in alive' => Total(c)' <= refcount'[c]
               /\ c \notin alive' => Total(c)' = 0
    <3>1. IsFiniteSet(Listed(c))'
      BY <1>4, <1>6
    <3>2. CASE c = d
      <4>1. Total(c)' = 0 /\ refcount'[c] = 1 /\ c \in alive'
        BY <3>2, <2>5, <1>0, <1>6 DEF TypeInv
      <4> QED
        BY <3>1, <4>1
    <3>3. CASE c # d
      <4>1. Total(c)' = Total(c) /\ refcount'[c] = refcount[c] /\ (c \in alive' <=> c \in alive)
        BY <3>3, <2>5, <1>0 DEF TypeInv
      <4> QED
        BY <3>1, <4>1 DEF RefInv
    <3> QED
      BY <3>2, <3>3
  <2>7. RefInv'
    BY <2>6 DEF RefInv
  <2>8. ResourceCounts'
    <3>1. Cardinality(Used)' = Cardinality(Used) + ((1 + 0) - 1)
          /\ Cardinality(Uncounted)' = Cardinality(Uncounted) + 0
      BY <2>4, <1>5, CountTypes
    <3> QED
      BY <3>1, <1>0, <1>9, CountsStep
  <2> QED
    BY <2>1, <2>2, <2>7, <2>8, <1>2 DEF PlaceInv
<1> QED
  BY <1>0, <1>8, <1>9

\* A close, of syscall_close or of the loop in syscall_exit.
LEMMA DropStep ==
  ASSUME IInv, NEW p \in Procs, NEW n \in Nums, pc[p] \in {"run", "exit"},
         IF fds[p][n] # None THEN Drop(fds[p][n]) ELSE UNCHANGED counts,
         Writes(p, n, None),
         UNCHANGED <<lost, pc, hand, target, fd_list>>
  PROVE  /\ fds' \in [Procs -> [Nums -> Descs \cup {None}]]
         /\ refcount' \in [Descs -> Nat] /\ alive' \in SUBSET Descs /\ resref' \in Int
         /\ PublishedInv' /\ RefInv' /\ ResourceCounts'
<1> USE DEF IInv
<1>1. \A q \in Procs : Counted(q)' <=> Counted(q)
  BY DEF Counted
<1>2. \A d \in Descs : Hands(d)' = Hands(d) /\ Listed(d)' = Listed(d)
  BY <1>1, HandsKept
<1>3. \A d \in Descs : Cardinality(Hands(d))' = Cardinality(Hands(d)) - Bit(None = d)
  BY <1>2, NotNone, CountTypes DEF Bit
<1>4. /\ RefInv' /\ refcount' \in [Descs -> Nat] /\ alive' \in SUBSET Descs
      /\ resref' = resref - Bit(fds[p][n] # None)
  BY <1>2, <1>3, WriteStep DEF Bit
<1>5. Cardinality(Used)' = (Cardinality(Used) - Bit(fds[p][n] # None)) + Bit(None # None)
  BY UsedWrite DEF Bit
<1>6. Uncounted' = Uncounted
  BY DEF Uncounted
<1>7. PublishedInv'
  BY PublishedKept DEF PlaceInv
<1>8. PICK b \in Int : b = Bit(fds[p][n] # None)
  BY DEF Bit
<1>9. ResourceCounts'
  <2>1. /\ resref' = resref + (-b) /\ lost' = lost + 0
        /\ Cardinality(Uncounted)' = Cardinality(Uncounted) + 0
        /\ Cardinality(Used)' = Cardinality(Used) + (((-b) + 0) - 0)
    BY <1>4, <1>5, <1>6, <1>8, CountTypes DEF TypeInv, Bit
  <2>2. -b \in Int
    OBVIOUS
  <2> QED
    BY <2>1, <2>2, CountsStep
<1>10. fds' \in [Procs -> [Nums -> Descs \cup {None}]] /\ resref' \in Int
  BY <1>4, <1>8 DEF TypeInv, Writes
<1> QED
  BY <1>4, <1>7, <1>9, <1>10

LEMMA CloseStep ==
  ASSUME IInv, NEW p \in Procs, NEW n \in Nums, Close(p, n)
  PROVE  IInv'
<1> USE DEF IInv
<1>1. /\ pc[p] \in {"run", "exit"} /\ fds[p][n] # None /\ Drop(fds[p][n])
      /\ Writes(p, n, None)
      /\ UNCHANGED <<lost, pc, hand, target, at, fd_list>>
  BY DEF Close, Writes
<1>2. IF fds[p][n] # None THEN Drop(fds[p][n]) ELSE UNCHANGED counts
  BY <1>1
<1>3. /\ fds' \in [Procs -> [Nums -> Descs \cup {None}]]
      /\ refcount' \in [Descs -> Nat] /\ alive' \in SUBSET Descs /\ resref' \in Int
      /\ PublishedInv' /\ RefInv' /\ ResourceCounts'
  <2> HIDE DEF IInv
  <2> QED
    BY <1>1, <1>2, DropStep
<1>4. TypeInv'
  BY <1>1, <1>3 DEF TypeInv
<1>5. HandInv' /\ TargetInv'
  BY <1>1, PlacesKept DEF PlaceInv
<1> QED
  BY <1>3, <1>4, <1>5 DEF PlaceInv

LEMMA ExitCloseStep ==
  ASSUME IInv, NEW p \in Procs, ExitClose(p)
  PROVE  IInv'
<1> USE DEF IInv
<1>1. PICK n \in Nums : n = at[p]
  BY DEF ExitClose
<1>2. /\ pc[p] = "exit"
      /\ IF fds[p][n] # None THEN Drop(fds[p][n]) ELSE UNCHANGED counts
      /\ Writes(p, n, None)
      /\ at' = [at EXCEPT ![p] = @ + 1]
      /\ UNCHANGED <<lost, pc, hand, target, fd_list>>
  BY <1>1 DEF ExitClose, Writes
<1>3. /\ fds' \in [Procs -> [Nums -> Descs \cup {None}]]
      /\ refcount' \in [Descs -> Nat] /\ alive' \in SUBSET Descs /\ resref' \in Int
      /\ PublishedInv' /\ RefInv' /\ ResourceCounts'
  <2> HIDE DEF IInv
  <2> QED
    BY <1>2, DropStep
<1>4. at' \in [Procs -> 0 .. MaxFds]
  <2>1. n + 1 \in 0 .. MaxFds
    BY FdAssumption DEF Nums
  <2> QED
    BY <2>1, <1>1, <1>2 DEF TypeInv
<1>5. TypeInv'
  BY <1>2, <1>3, <1>4 DEF TypeInv
<1>6. HandInv'
  BY <1>2 DEF HandInv, PlaceInv
<1>7. TargetInv'
  <2>1. \A q \in Procs : at'[q] = at[q] \/ pc[q] = "exit"
    BY <1>2 DEF TypeInv
  <2> QED
    BY <2>1, <1>2 DEF TargetInv, PlaceInv, Dupping
<1> QED
  BY <1>3, <1>5, <1>6, <1>7 DEF PlaceInv

\* fd_from_fdnum
LEMMA LookupFacts ==
  ASSUME TypeInv, RefInv, NEW p \in Procs, NEW n \in Nums, NEW refs \in {1, 2},
         Lookup(p, n, refs)
  PROVE  /\ fds[p][n] \in Descs /\ fds[p][n] \in alive /\ fds[p][n] # None
         /\ refcount' \in [Descs -> Nat]
         /\ \A d \in Descs : refcount'[d] - refcount[d] = IF fds[p][n] = d THEN refs ELSE 0
         /\ hand' = [hand EXCEPT ![p] = fds[p][n]]
         /\ hand' \in [Procs -> Descs \cup {None}]
<1> DEFINE c == fds[p][n]
<1>1. c # None /\ refcount' = [refcount EXCEPT ![c] = @ + refs] /\ hand' = [hand EXCEPT ![p] = c]
  BY DEF Lookup
<1>2. c \in Descs /\ c \in alive
  BY <1>1, SlotAlive
<1> HIDE DEF c
<1>3. refcount' \in [Descs -> Nat] /\ hand' \in [Procs -> Descs \cup {None}]
  BY <1>1, <1>2 DEF TypeInv
<1>4. \A d \in Descs : refcount'[d] - refcount[d] = IF c = d THEN refs ELSE 0
  BY <1>1, <1>2 DEF TypeInv
<1> QED
  BY <1>1, <1>2, <1>3, <1>4 DEF c

\* A call that begins with a lookup, from "run" or from the loop of syscall_fork.
LEMMA TakeStep ==
  ASSUME IInv, NEW p \in Procs, NEW n \in Nums, NEW refs \in {1, 2}, Lookup(p, n, refs),
         pc[p] \in {"run", "fork"}, pc'[p] \in {"use", "dup"},
         \A q \in Procs \ {p} : pc'[q] = pc[q],
         UNCHANGED <<fds, alive, resref, lost, fd_list>>
  PROVE  /\ RefInv' /\ ResourceCounts' /\ HandInv'
         /\ refcount' \in [Descs -> Nat] /\ hand' \in [Procs -> Descs \cup {None}]
<1> USE DEF IInv
<1>0. /\ fds[p][n] \in Descs /\ fds[p][n] \in alive /\ fds[p][n] # None
      /\ refcount' \in [Descs -> Nat]
      /\ \A d \in Descs : refcount'[d] - refcount[d] = IF fds[p][n] = d THEN refs ELSE 0
      /\ hand' = [hand EXCEPT ![p] = fds[p][n]]
      /\ hand' \in [Procs -> Descs \cup {None}]
  BY LookupFacts
<1>1. \A q \in Procs \ {p} : hand'[q] = hand[q] /\ (Counted(q)' <=> Counted(q))
  BY <1>0 DEF TypeInv, Counted
<1>2. hand'[p] = fds[p][n] /\ Counted(p)' /\ ~ Counted(p)
  BY <1>0 DEF TypeInv, Counted
<1>3. \A d \in Descs : Cardinality(Hands(d))' = Cardinality(Hands(d)) + Bit(fds[p][n] = d)
  <2>1. \A d \in Descs :
           Cardinality(Hands(d))' =
             (Cardinality(Hands(d)) - Bit(hand[p] = d /\ Counted(p)))
               + Bit(hand'[p] = d /\ Counted(p)')
    BY <1>1, HandsStep DEF Bit
  <2> QED
    BY <2>1, <1>2, CountTypes DEF Bit
<1>4. \A d \in Descs : Listed(d)' = Listed(d) /\ IsFiniteSet(Listed(d))'
  BY ListKept
<1>5. RefInv'
  <2>1. ASSUME NEW d \in Descs
        PROVE  /\ IsFiniteSet(Listed(d))'
               /\ Cardinality(Hands(d))' + Cardinality(Listed(d))'
                    <= (Cardinality(Hands(d)) + Cardinality(Listed(d))) + (refcount'[d] - refcount[d])
               /\ d \notin alive => Cardinality(Hands(d))' + Cardinality(Listed(d))'
                                      <= Cardinality(Hands(d)) + Cardinality(Listed(d))
    <3>1. /\ Cardinality(Hands(d)) \in Nat /\ Cardinality(Listed(d)) \in Nat
          /\ Cardinality(Listed(d))' = Cardinality(Listed(d))
      BY <1>4, CountTypes
    <3>2. Cardinality(Hands(d))' = Cardinality(Hands(d)) + Bit(fds[p][n] = d)
      BY <1>3 DEF Bit
    <3>3. CASE fds[p][n] = d
      <4>1. refcount'[d] - refcount[d] = refs /\ d \in alive
        BY <1>0, <3>3
      <4>2. Cardinality(Hands(d))' = Cardinality(Hands(d)) + 1
        BY <3>2, <3>3 DEF Bit
      <4> QED
        BY <1>4, <3>1, <4>1, <4>2
    <3>4. CASE fds[p][n] # d
      <4>1. refcount'[d] - refcount[d] = 0 /\ Cardinality(Hands(d))' = Cardinality(Hands(d))
        BY <1>0, <3>1, <3>2, <3>4 DEF Bit
      <4> QED
        BY <1>4, <3>1, <4>1
    <3> QED
      BY <3>3, <3>4
  <2> QED
    BY <2>1, <1>0, CoverStep
<1>6. ResourceCounts'
  <2>1. Used' = Used
    BY DEF Used
  <2>2. Uncounted' = Uncounted
    <3>1. pc[p] \notin {"ref", "resref"} /\ pc'[p] \notin {"ref", "resref"}
      OBVIOUS
    <3> QED
      BY <3>1 DEF Uncounted
  <2> QED
    BY <2>1, <2>2 DEF ResourceCounts, Used, Uncounted
<1>7. HandInv'
  <2>1. ASSUME NEW q \in Procs
        PROVE  /\ hand'[q] # None <=> pc'[q] \in Dupping \cup {"use", "poll"}
               /\ pc'[q] # "poll" => \A d \in Descs : fd_list[q][d] = 0
    <3>1. CASE q = p
      BY <3>1, <1>0, <1>2 DEF HandInv, PlaceInv, Dupping
    <3>2. CASE q # p
      BY <3>2, <1>1 DEF HandInv, PlaceInv
    <3> QED
      BY <3>1, <3>2
  <2> QED
    BY <2>1 DEF HandInv
<1> QED
  BY <1>0, <1>5, <1>6, <1>7

LEMMA UseBeginStep ==
  ASSUME IInv, NEW p \in Procs, NEW n \in Nums, UseBegin(p, n)
  PROVE  IInv'
<1>1. /\ pc[p] = "run" /\ Lookup(p, n, 1) /\ pc' = [pc EXCEPT ![p] = "use"]
      /\ UNCHANGED <<fds, alive, resref, lost, target, at, fd_list>>
  BY DEF UseBegin, Goto
<1>2. pc'[p] = "use" /\ (\A q \in Procs \ {p} : pc'[q] = pc[q]) /\ pc' \in [Procs -> Places]
  BY <1>1 DEF IInv, TypeInv, Places
<1>3. /\ RefInv' /\ ResourceCounts' /\ HandInv'
      /\ refcount' \in [Descs -> Nat] /\ hand' \in [Procs -> Descs \cup {None}]
  BY <1>1, <1>2, TakeStep
<1> USE DEF IInv
<1>4. TypeInv'
  BY <1>1, <1>2, <1>3 DEF TypeInv
<1>5. TargetInv'
  BY <1>1, <1>2 DEF TargetInv, PlaceInv, Dupping, TypeInv
<1>6. PublishedInv'
  <2>1. \A q \in Procs : q # p => hand'[q] = hand[q]
    BY <1>1 DEF Lookup, TypeInv
  <2> QED
    BY <2>1, <1>1, <1>2 DEF PublishedInv, PlaceInv
<1> QED
  BY <1>3, <1>4, <1>5, <1>6 DEF PlaceInv

LEMMA DupBeginStep ==
  ASSUME IInv, NEW p \in Procs, NEW n \in Nums, NEW m \in 0 .. MaxFds,
         NEW specific \in BOOLEAN, DupBegin(p, n, m, specific)
  PROVE  IInv'
<1>1. /\ pc[p] = "run" /\ pc' = [pc EXCEPT ![p] = "dup"]
      /\ target' = [target EXCEPT ![p] = [proc |-> p, num |-> m, specific |-> specific]]
      /\ UNCHANGED <<fds, alive, resref, lost, at, fd_list>>
  BY DEF DupBegin, Goto
<1>2. PICK refs \in {1, 2} : Lookup(p, n, refs)
  BY DEF DupBegin
<1>3. pc'[p] = "dup" /\ (\A q \in Procs \ {p} : pc'[q] = pc[q]) /\ pc' \in [Procs -> Places]
  BY <1>1 DEF IInv, TypeInv, Places
<1>4. /\ RefInv' /\ ResourceCounts' /\ HandInv'
      /\ refcount' \in [Descs -> Nat] /\ hand' \in [Procs -> Descs \cup {None}]
  BY <1>1, <1>2, <1>3, TakeStep
<1> USE DEF IInv
<1>5. /\ target'[p] = [proc |-> p, num |-> m, specific |-> specific]
      /\ \A q \in Procs \ {p} : target'[q] = target[q]
  BY <1>1 DEF TypeInv
<1>6. TypeInv'
  <2>1. target' \in [Procs -> [proc : Procs \cup {None}, num : 0 .. MaxFds, specific : BOOLEAN]]
    BY <1>1 DEF TypeInv
  <2> QED
    BY <2>1, <1>1, <1>3, <1>4 DEF TypeInv
<1>7. TargetInv'
  <2>0. target'[p].proc = p /\ p # None
    BY <1>5, FdAssumption
  <2>1. \A q \in Procs \ {p} : target[q].proc # p
    BY <2>0, <1>1 DEF TargetInv, PlaceInv
  <2>2. ASSUME NEW q \in Procs
        PROVE  /\ target'[q].proc # None <=> pc'[q] \in Dupping \cup {"fork"}
               /\ pc'[q] \in Dupping \cup {"fork"} =>
                    \/ target'[q].proc = q /\ pc'[q] # "fork"
                    \/ target'[q].proc # q /\ pc'[target'[q].proc] = "new" /\ target'[q].specific
               /\ pc'[q] = "dup" /\ target'[q].proc # q => target'[q].num \in Nums
               /\ pc'[q] \in Dupping /\ target'[q].proc # q => at'[q] \in Nums
    <3>1. CASE q = p
      BY <3>1, <2>0, <1>3 DEF Dupping
    <3>2. CASE q # p
      <4>1. target'[q] = target[q] /\ pc'[q] = pc[q] /\ at'[q] = at[q] /\ target[q].proc # p
        BY <3>2, <2>1, <1>1, <1>3, <1>5
      <4>2. target[q].proc \in Procs => pc'[target[q].proc] = pc[target[q].proc]
        BY <4>1, <1>3
      <4> QED
        BY <4>1, <4>2 DEF TargetInv, PlaceInv, TypeInv
    <3> QED
      BY <3>1, <3>2
  <2>3. \A r, q \in Procs : target'[r].proc = target'[q].proc /\ target'[r].proc # None => r = q
    BY <2>0, <2>1, <1>5 DEF TargetInv, PlaceInv
  <2> QED
    BY <2>2, <2>3 DEF TargetInv
<1>8. PublishedInv'
  <2>1. \A q \in Procs : q # p => hand'[q] = hand[q]
    BY <1>2 DEF Lookup, TypeInv
  <2> QED
    BY <2>1, <1>1, <1>3, <1>5 DEF PublishedInv, PlaceInv
<1> QED
  BY <1>4, <1>6, <1>7, <1>8 DEF PlaceInv

LEMMA ForkDupStep ==
  ASSUME IInv, NEW p \in Procs, ForkDup(p)
  PROVE  IInv'
<1>0. PICK n \in Nums : n = at[p]
  BY DEF ForkDup
<1>1. /\ pc[p] = "fork" /\ Lookup(p, n, 1) /\ pc' = [pc EXCEPT ![p] = "dup"]
      /\ target' = [target EXCEPT ![p].num = n]
      /\ UNCHANGED <<fds, alive, resref, lost, at, fd_list>>
  BY <1>0 DEF ForkDup, Goto
<1>2. pc'[p] = "dup" /\ (\A q \in Procs \ {p} : pc'[q] = pc[q]) /\ pc' \in [Procs -> Places]
  BY <1>1 DEF IInv, TypeInv, Places
<1>3. /\ RefInv' /\ ResourceCounts' /\ HandInv'
      /\ refcount' \in [Descs -> Nat] /\ hand' \in [Procs -> Descs \cup {None}]
  BY <1>1, <1>2, TakeStep
<1> USE DEF IInv
<1>4. /\ target'[p].proc = target[p].proc /\ target'[p].num = n
      /\ target'[p].specific = target[p].specific
      /\ \A q \in Procs \ {p} : target'[q] = target[q]
  BY <1>1 DEF TypeInv
<1>5. TypeInv'
  <2>1. n \in 0 .. MaxFds
    BY FdAssumption DEF Nums
  <2>2. target' \in [Procs -> [proc : Procs \cup {None}, num : 0 .. MaxFds, specific : BOOLEAN]]
    BY <2>1, <1>1 DEF TypeInv
  <2> QED
    BY <2>2, <1>1, <1>2, <1>3 DEF TypeInv
<1>6. TargetInv'
  <2>1. \A q \in Procs : target'[q].proc = target[q].proc /\ target'[q].specific = target[q].specific
    BY <1>4
  <2>2. ASSUME NEW q \in Procs
        PROVE  /\ target'[q].proc # None <=> pc'[q] \in Dupping \cup {"fork"}
               /\ pc'[q] \in Dupping \cup {"fork"} =>
                    \/ target'[q].proc = q /\ pc'[q] # "fork"
                    \/ target'[q].proc # q /\ pc'[target'[q].proc] = "new" /\ target'[q].specific
               /\ pc'[q] = "dup" /\ target'[q].proc # q => target'[q].num \in Nums
               /\ pc'[q] \in Dupping /\ target'[q].proc # q => at'[q] \in Nums
    <3>0. pc[target[q].proc] = "new" /\ target[q].proc \in Procs => pc'[target[q].proc] = "new"
      BY <1>1, <1>2
    <3>1. CASE q = p
      BY <3>0, <3>1, <2>1, <1>0, <1>1, <1>2, <1>4 DEF Dupping, TargetInv, PlaceInv, TypeInv
    <3>2. CASE q # p
      BY <3>0, <3>2, <2>1, <1>1, <1>2, <1>4 DEF Dupping, TargetInv, PlaceInv, TypeInv
    <3> QED
      BY <3>1, <3>2
  <2>3. \A r, q \in Procs : target'[r].proc = target'[q].proc /\ target'[r].proc # None => r = q
    BY <2>1 DEF TargetInv, PlaceInv
  <2> QED
    BY <2>2, <2>3 DEF TargetInv
<1>7. PublishedInv'
  <2>1. \A q \in Procs : q # p => hand'[q] = hand[q]
    BY <1>1 DEF Lookup, TypeInv
  <2> QED
    BY <2>1, <1>1, <1>2, <1>4 DEF PublishedInv, PlaceInv
<1> QED
  BY <1>3, <1>5, <1>6, <1>7 DEF PlaceInv

\* A call that gives up what it holds, without giving the reference back.
LEMMA LeaveStep ==
  ASSUME TypeInv, RefInv, NEW p \in Procs,
         hand' = [hand EXCEPT ![p] = None],
         \A q \in Procs \ {p} : pc'[q] = pc[q],
         UNCHANGED <<fds, refcount, alive, fd_list>>
  PROVE  RefInv'
<1>1. \A q \in Procs \ {p} : hand'[q] = hand[q] /\ (Counted(q)' <=> Counted(q))
  BY DEF TypeInv, Counted
<1>2. hand'[p] = None
  BY DEF TypeInv
<1>3. \A d \in Descs : Cardinality(Hands(d))' <= Cardinality(Hands(d))
  <2>1. \A d \in Descs :
           Cardinality(Hands(d))' =
             (Cardinality(Hands(d)) - Bit(hand[p] = d /\ Counted(p)))
               + Bit(hand'[p] = d /\ Counted(p)')
    BY <1>1, HandsStep DEF Bit
  <2> QED
    BY <2>1, <1>2, NotNone, CountTypes DEF Bit
<1>4. \A d \in Descs : Listed(d)' = Listed(d) /\ IsFiniteSet(Listed(d))'
  BY ListKept
<1>5. ASSUME NEW d \in Descs
      PROVE  /\ Cardinality(Hands(d))' + Cardinality(Listed(d))'
                  <= (Cardinality(Hands(d)) + Cardinality(Listed(d))) + (refcount'[d] - refcount[d])
             /\ Cardinality(Hands(d))' + Cardinality(Listed(d))'
                  <= Cardinality(Hands(d)) + Cardinality(Listed(d))
  <2>1. Cardinality(Hands(d)) \in Nat /\ Cardinality(Listed(d)) \in Nat /\ refcount[d] \in Nat
    BY CountTypes DEF TypeInv
  <2>2. Cardinality(Hands(d))' \in Nat
    <3>1. Hands(d)' \in SUBSET Procs
      BY DEF Hands
    <3> QED
      BY <3>1, FS_Subset, FS_CardinalityType, FdAssumption
  <2>3. Cardinality(Listed(d))' = Cardinality(Listed(d)) /\ refcount'[d] - refcount[d] = 0
    BY <1>4, <2>1
  <2>4. Cardinality(Hands(d))' <= Cardinality(Hands(d))
    BY <1>3
  <2> QED
    BY <2>1, <2>2, <2>3, <2>4
<1>6. refcount' \in [Descs -> Nat]
  BY DEF TypeInv
<1> QED
  BY <1>4, <1>5, <1>6, CoverStep

LEMMA UseEndStep ==
  ASSUME IInv, NEW p \in Procs, UseEnd(p)
  PROVE  IInv'
<1> USE DEF IInv
<1>1. /\ pc[p] = "use" /\ pc' = [pc EXCEPT ![p] = "run"]
      /\ hand' = [hand EXCEPT ![p] = None]
      /\ UNCHANGED <<fds, refcount, alive, resref, lost, target, at, fd_list>>
  BY DEF UseEnd, Goto, counts
<1>2. /\ pc'[p] = "run" /\ (\A q \in Procs \ {p} : pc'[q] = pc[q]) /\ pc' \in [Procs -> Places]
      /\ hand'[p] = None /\ (\A q \in Procs \ {p} : hand'[q] = hand[q])
  BY <1>1 DEF TypeInv, Places
<1>3. RefInv'
  BY <1>1, <1>2, LeaveStep
<1>4. TypeInv'
  BY <1>1, <1>2 DEF TypeInv
<1>5. HandInv'
  BY <1>1, <1>2 DEF HandInv, PlaceInv, Dupping
<1>6. TargetInv'
  BY <1>1, <1>2 DEF TargetInv, PlaceInv, Dupping, TypeInv
<1>7. PublishedInv'
  BY <1>1, <1>2 DEF PublishedInv, PlaceInv
<1>8. ResourceCounts'
  <2>1. Uncounted' = Uncounted
    BY <1>1, <1>2 DEF Uncounted
  <2> QED
    BY <2>1, <1>1 DEF ResourceCounts, Uncounted
<1> QED
  BY <1>3, <1>4, <1>5, <1>6, <1>7, <1>8 DEF PlaceInv

\* A call on a socket gives its reference back.
LEMMA UseReturnStep ==
  ASSUME IInv, NEW p \in Procs, UseReturn(p)
  PROVE  IInv'
<1> USE DEF IInv
<1> DEFINE e == hand[p]
<1>1. /\ pc[p] = "use" /\ pc' = [pc EXCEPT ![p] = "run"]
      /\ hand' = [hand EXCEPT ![p] = None]
      /\ refcount' = [refcount EXCEPT ![e] = @ - 1]
      /\ UNCHANGED <<fds, alive, resref, lost, target, at, fd_list>>
  BY DEF UseReturn, Goto
<1>2. /\ pc'[p] = "run" /\ (\A q \in Procs \ {p} : pc'[q] = pc[q]) /\ pc' \in [Procs -> Places]
      /\ hand'[p] = None /\ (\A q \in Procs \ {p} : hand'[q] = hand[q])
      /\ hand' \in [Procs -> Descs \cup {None}]
  BY <1>1 DEF TypeInv, Places
<1>3. e # None /\ e \in Descs /\ e \in alive /\ Counted(p)
  <2>1. hand[p] # None
    BY <1>1 DEF PlaceInv, HandInv
  <2> QED
    BY <2>1, <1>1, HandAlive DEF Counted
<1>4. refcount[e] \in Nat /\ refcount[e] >= 1
  <2>1. p \in Hands(e)
    BY <1>3 DEF Hands
  <2>2. Cardinality(Hands(e)) >= 1
    BY <2>1, Finite, Member
  <2>3. Total(e) >= 1
    BY <1>3, <2>2, CountTypes DEF Total
  <2>4. Total(e) <= refcount[e] /\ refcount[e] \in Nat /\ Total(e) \in Nat
    BY <1>3, CountTypes DEF RefInv, TypeInv, Total
  <2> QED
    BY <2>3, <2>4
<1>5. /\ refcount'[e] = refcount[e] - 1 /\ (\A d \in Descs : d # e => refcount'[d] = refcount[d])
      /\ refcount' \in [Descs -> Nat]
  BY <1>1, <1>3, <1>4 DEF TypeInv
<1>6. RefInv'
  <2>1. \A q \in Procs \ {p} : hand'[q] = hand[q] /\ (Counted(q)' <=> Counted(q))
    BY <1>1, <1>2 DEF Counted
  <2>2. \A d \in Descs :
           Cardinality(Hands(d))' =
             (Cardinality(Hands(d)) - Bit(hand[p] = d /\ Counted(p)))
               + Bit(hand'[p] = d /\ Counted(p)')
    BY <2>1, HandsStep DEF Bit
  <2>3. \A d \in Descs : Listed(d)' = Listed(d) /\ IsFiniteSet(Listed(d))'
    BY <1>1, ListKept
  <2>4. ASSUME NEW d \in Descs
        PROVE  /\ Cardinality(Hands(d))' + Cardinality(Listed(d))'
                    <= (Cardinality(Hands(d)) + Cardinality(Listed(d))) + (refcount'[d] - refcount[d])
               /\ Cardinality(Hands(d))' + Cardinality(Listed(d))'
                    <= Cardinality(Hands(d)) + Cardinality(Listed(d))
    <3>1. Cardinality(Hands(d)) \in Nat /\ Cardinality(Listed(d)) \in Nat /\ refcount[d] \in Nat
      BY CountTypes DEF TypeInv
    <3>2. Cardinality(Listed(d))' = Cardinality(Listed(d))
      BY <2>3
    <3>3. Cardinality(Hands(d))' = Cardinality(Hands(d)) - Bit(e = d)
      BY <2>2, <3>1, <1>2, <1>3, NotNone DEF Bit
    <3>4. refcount'[d] - refcount[d] = 0 - Bit(e = d)
      BY <1>5, <3>1 DEF Bit
    <3> QED
      BY <3>1, <3>2, <3>3, <3>4 DEF Bit
  <2> QED
    BY <1>1, <1>5, <2>3, <2>4, CoverStep
<1>7. TypeInv'
  BY <1>1, <1>2, <1>5 DEF TypeInv
<1>8. HandInv'
  BY <1>1, <1>2 DEF HandInv, PlaceInv, Dupping
<1>9. TargetInv'
  BY <1>1, <1>2 DEF TargetInv, PlaceInv, Dupping, TypeInv
<1>10. PublishedInv'
  BY <1>1, <1>2 DEF PublishedInv, PlaceInv
<1>11. ResourceCounts'
  <2>1. Uncounted' = Uncounted
    BY <1>1, <1>2 DEF Uncounted
  <2> QED
    BY <2>1, <1>1 DEF ResourceCounts, Uncounted
<1> QED
  BY <1>6, <1>7, <1>8, <1>9, <1>10, <1>11 DEF PlaceInv

LEMMA DupFailsStep ==
  ASSUME IInv, NEW p \in Procs, DupFails(p)
  PROVE  IInv'
<1> USE DEF IInv
<1>1. /\ pc[p] = "dup" /\ pc' = [pc EXCEPT ![p] = "run"]
      /\ hand' = [hand EXCEPT ![p] = None]
      /\ target' = [target EXCEPT ![p] = NoTarget]
      /\ UNCHANGED <<fds, refcount, alive, resref, lost, at, fd_list>>
  BY DEF DupFails, Goto, counts
<1>2. /\ pc'[p] = "run" /\ (\A q \in Procs \ {p} : pc'[q] = pc[q]) /\ pc' \in [Procs -> Places]
      /\ hand'[p] = None /\ (\A q \in Procs \ {p} : hand'[q] = hand[q])
      /\ target'[p].proc = None /\ (\A q \in Procs \ {p} : target'[q] = target[q])
  BY <1>1 DEF TypeInv, Places, NoTarget
<1>3. RefInv'
  BY <1>1, <1>2, LeaveStep
<1>4. TypeInv'
  <2>1. NoTarget \in [proc : Procs \cup {None}, num : 0 .. MaxFds, specific : BOOLEAN]
    BY FdAssumption DEF NoTarget
  <2>2. target' \in [Procs -> [proc : Procs \cup {None}, num : 0 .. MaxFds, specific : BOOLEAN]]
    BY <2>1, <1>1 DEF TypeInv
  <2>3. hand' \in [Procs -> Descs \cup {None}]
    BY <1>1 DEF TypeInv
  <2> QED
    BY <2>2, <2>3, <1>1, <1>2 DEF TypeInv
<1>5. HandInv'
  BY <1>1, <1>2 DEF HandInv, PlaceInv, Dupping
<1>6. TargetInv'
  <2>1. ASSUME NEW q \in Procs
        PROVE  /\ target'[q].proc # None <=> pc'[q] \in Dupping \cup {"fork"}
               /\ pc'[q] \in Dupping \cup {"fork"} =>
                    \/ target'[q].proc = q /\ pc'[q] # "fork"
                    \/ target'[q].proc # q /\ pc'[target'[q].proc] = "new" /\ target'[q].specific
               /\ pc'[q] = "dup" /\ target'[q].proc # q => target'[q].num \in Nums
               /\ pc'[q] \in Dupping /\ target'[q].proc # q => at'[q] \in Nums
    <3>0. pc[target[q].proc] = "new" /\ target[q].proc \in Procs => pc'[target[q].proc] = "new"
      BY <1>1, <1>2
    <3>1. CASE q = p
      BY <3>1, <1>2 DEF Dupping
    <3>2. CASE q # p
      BY <3>0, <3>2, <1>1, <1>2 DEF TargetInv, PlaceInv, TypeInv
    <3> QED
      BY <3>1, <3>2
  <2>2. \A r, q \in Procs : target'[r].proc = target'[q].proc /\ target'[r].proc # None => r = q
    BY <1>2 DEF TargetInv, PlaceInv
  <2> QED
    BY <2>1, <2>2 DEF TargetInv
<1>7. PublishedInv'
  BY <1>1, <1>2 DEF PublishedInv, PlaceInv
<1>8. ResourceCounts'
  <2>1. Uncounted' = Uncounted
    BY <1>1, <1>2 DEF Uncounted
  <2> QED
    BY <2>1, <1>1 DEF ResourceCounts, Uncounted
<1> QED
  BY <1>3, <1>4, <1>5, <1>6, <1>7, <1>8 DEF PlaceInv

LEMMA DupResRefStep ==
  ASSUME IInv, NEW p \in Procs, DupResRef(p)
  PROVE  IInv'
<1> USE DEF IInv
<1>0. PICK own \in BOOLEAN : own <=> target[p].proc = p
  OBVIOUS
<1>1. /\ pc[p] = "resref" /\ resref' = resref + 1
      /\ pc' = [pc EXCEPT ![p] = IF own THEN "run" ELSE "fork"]
      /\ at' = [at EXCEPT ![p] = IF own THEN 0 ELSE @ + 1]
      /\ hand' = [hand EXCEPT ![p] = None]
      /\ target' = [target EXCEPT ![p] = IF own THEN NoTarget ELSE @]
      /\ UNCHANGED <<fds, refcount, alive, lost, fd_list>>
  BY <1>0 DEF DupResRef, Goto
<1>2. /\ pc'[p] = IF own THEN "run" ELSE "fork"
      /\ (\A q \in Procs \ {p} : pc'[q] = pc[q]) /\ pc' \in [Procs -> Places]
      /\ hand'[p] = None /\ (\A q \in Procs \ {p} : hand'[q] = hand[q])
      /\ hand' \in [Procs -> Descs \cup {None}]
  BY <1>1 DEF TypeInv, Places
<1>3. /\ own => target'[p].proc = None
      /\ ~ own => target'[p] = target[p] /\ target[p].proc # p
      /\ \A q \in Procs \ {p} : target'[q] = target[q] /\ at'[q] = at[q]
  BY <1>0, <1>1 DEF TypeInv, NoTarget
<1>4. RefInv'
  BY <1>1, <1>2, LeaveStep
<1>5. TypeInv'
  <2>1. NoTarget \in [proc : Procs \cup {None}, num : 0 .. MaxFds, specific : BOOLEAN]
    BY FdAssumption DEF NoTarget
  <2>2. target' \in [Procs -> [proc : Procs \cup {None}, num : 0 .. MaxFds, specific : BOOLEAN]]
    BY <2>1, <1>1 DEF TypeInv
  <2>3. (IF own THEN 0 ELSE at[p] + 1) \in 0 .. MaxFds
    BY <1>1, <1>3, FdAssumption DEF PlaceInv, TargetInv, Dupping, Nums
  <2>4. at' \in [Procs -> 0 .. MaxFds]
    BY <2>3, <1>1 DEF TypeInv
  <2> QED
    BY <2>2, <2>4, <1>1, <1>2 DEF TypeInv
<1>6. HandInv'
  BY <1>1, <1>2 DEF HandInv, PlaceInv, Dupping
<1>7. TargetInv'
  <2>1. ASSUME NEW q \in Procs
        PROVE  /\ target'[q].proc # None <=> pc'[q] \in Dupping \cup {"fork"}
               /\ pc'[q] \in Dupping \cup {"fork"} =>
                    \/ target'[q].proc = q /\ pc'[q] # "fork"
                    \/ target'[q].proc # q /\ pc'[target'[q].proc] = "new" /\ target'[q].specific
               /\ pc'[q] = "dup" /\ target'[q].proc # q => target'[q].num \in Nums
               /\ pc'[q] \in Dupping /\ target'[q].proc # q => at'[q] \in Nums
    <3>0. pc[target[q].proc] = "new" /\ target[q].proc \in Procs => pc'[target[q].proc] = "new"
      BY <1>1, <1>2
    <3>1. CASE q = p
      <4>1. CASE own
        BY <3>1, <4>1, <1>2, <1>3 DEF Dupping
      <4>2. CASE ~ own
        BY <3>0, <3>1, <4>2, <1>1, <1>2, <1>3 DEF Dupping, TargetInv, PlaceInv, TypeInv
      <4> QED
        BY <4>1, <4>2
    <3>2. CASE q # p
      BY <3>0, <3>2, <1>1, <1>2, <1>3 DEF TargetInv, PlaceInv, TypeInv
    <3> QED
      BY <3>1, <3>2
  <2>2. \A r, q \in Procs : target'[r].proc = target'[q].proc /\ target'[r].proc # None => r = q
    BY <1>3 DEF TargetInv, PlaceInv
  <2> QED
    BY <2>1, <2>2 DEF TargetInv
<1>8. PublishedInv'
  BY <1>1, <1>2, <1>3 DEF PublishedInv, PlaceInv
<1>9. ResourceCounts'
  <2>1. Cardinality(Uncounted)' =
           (Cardinality(Uncounted) - Bit(pc[p] \in {"ref", "resref"}))
             + Bit(pc'[p] \in {"ref", "resref"})
    BY <1>2, UncountedStep DEF Bit
  <2>2. Cardinality(Uncounted)' = Cardinality(Uncounted) + (-1)
    <3>1. pc[p] \in {"ref", "resref"} /\ pc'[p] \notin {"ref", "resref"}
      BY <1>1, <1>2
    <3> QED
      BY <2>1, <3>1, CountTypes DEF Bit
  <2>3. Used' = Used
    BY <1>1 DEF Used
  <2>4. Cardinality(Used)' = Cardinality(Used) + ((1 + (-1)) - 0) /\ lost' = lost + 0
    BY <2>3, <1>1, CountTypes DEF TypeInv
  <2> QED
    BY <2>2, <2>4, <1>1, CountsStep
<1> QED
  BY <1>4, <1>5, <1>6, <1>7, <1>8, <1>9 DEF PlaceInv

LEMMA DupRefStep ==
  ASSUME IInv, NEW p \in Procs, DupRef(p)
  PROVE  IInv'
<1> USE DEF IInv
<1>0. PICK c : c = hand[p]
  OBVIOUS
<1>1. /\ pc[p] = "ref" /\ refcount' = [refcount EXCEPT ![c] = @ + 1]
      /\ pc' = [pc EXCEPT ![p] = "resref"]
      /\ UNCHANGED <<fds, alive, resref, lost, hand, target, at, fd_list>>
  BY <1>0 DEF DupRef, Goto
<1>2. pc'[p] = "resref" /\ (\A q \in Procs \ {p} : pc'[q] = pc[q]) /\ pc' \in [Procs -> Places]
  BY <1>1 DEF TypeInv, Places
<1>3. c \in Descs /\ c \in alive
  <2>1. hand[p] # None
    BY <1>1 DEF PlaceInv, HandInv, Dupping
  <2> QED
    BY <2>1, <1>0, HandAlive
<1>4. /\ refcount' \in [Descs -> Nat]
      /\ \A d \in Descs : refcount'[d] - refcount[d] = IF c = d THEN 1 ELSE 0
  BY <1>1, <1>3 DEF TypeInv
<1>5. TypeInv'
  BY <1>1, <1>2, <1>4 DEF TypeInv
<1>6. HandInv'
  BY <1>1, <1>2 DEF HandInv, PlaceInv, Dupping
<1>7. TargetInv'
  <2>1. \A q \in Procs : pc[q] = "new" => pc'[q] = "new"
    BY <1>1, <1>2
  <2> QED
    BY <2>1, <1>1, <1>2 DEF TargetInv, PlaceInv, Dupping, TypeInv
<1>8. PublishedInv'
  BY <1>1, <1>2 DEF PublishedInv, PlaceInv
<1>9. ResourceCounts'
  <2>1. Uncounted' = Uncounted
    BY <1>1, <1>2 DEF Uncounted
  <2> QED
    BY <2>1, <1>1 DEF ResourceCounts, Uncounted
<1>10. \A d \in Descs : Cardinality(Hands(d))' = Cardinality(Hands(d)) + Bit(c = d)
  <2>1. \A q \in Procs \ {p} : hand'[q] = hand[q] /\ (Counted(q)' <=> Counted(q))
    BY <1>1, <1>2 DEF Counted
  <2>2. hand'[p] = c /\ Counted(p)' /\ ~ Counted(p)
    BY <1>0, <1>1, <1>2 DEF Counted
  <2>3. \A d \in Descs :
           Cardinality(Hands(d))' =
             (Cardinality(Hands(d)) - Bit(hand[p] = d /\ Counted(p)))
               + Bit(hand'[p] = d /\ Counted(p)')
    BY <2>1, HandsStep DEF Bit
  <2> QED
    BY <2>2, <2>3, CountTypes DEF Bit
<1>11. \A d \in Descs : Listed(d)' = Listed(d) /\ IsFiniteSet(Listed(d))'
  BY <1>1, ListKept
<1>12. ASSUME NEW d \in Descs
       PROVE  /\ Cardinality(Hands(d))' + Cardinality(Listed(d))'
                   <= (Cardinality(Hands(d)) + Cardinality(Listed(d))) + (refcount'[d] - refcount[d])
              /\ d \notin alive => Cardinality(Hands(d))' + Cardinality(Listed(d))'
                                     <= Cardinality(Hands(d)) + Cardinality(Listed(d))
  <2>1. /\ Cardinality(Hands(d)) \in Nat /\ Cardinality(Listed(d)) \in Nat
        /\ Cardinality(Listed(d))' = Cardinality(Listed(d))
    BY <1>11, CountTypes
  <2>2. CASE c = d
    <3>1. Cardinality(Hands(d))' = Cardinality(Hands(d)) + 1 /\ refcount'[d] - refcount[d] = 1
      BY <2>2, <1>4, <1>10 DEF Bit
    <3> QED
      BY <2>1, <2>2, <3>1, <1>3
  <2>3. CASE c # d
    <3>1. Cardinality(Hands(d))' = Cardinality(Hands(d)) /\ refcount'[d] - refcount[d] = 0
      BY <2>1, <2>3, <1>4, <1>10 DEF Bit
    <3> QED
      BY <2>1, <3>1
  <2> QED
    BY <2>2, <2>3
<1>13. RefInv'
  BY <1>1, <1>4, <1>11, <1>12, CoverStep
<1> QED
  BY <1>5, <1>6, <1>7, <1>8, <1>9, <1>13 DEF PlaceInv

\* fdnum_create_from_fd for fdnum_dup, at number m of the table of process q.
LEMMA PublishStep ==
  ASSUME IInv, NEW p \in Procs, NEW q \in Procs, NEW m \in Nums, NEW e,
         pc[p] = "dup", q = target[p].proc, e = hand[p],
         IF fds[q][m] # None THEN Drop(fds[q][m]) ELSE UNCHANGED counts,
         Writes(q, m, e),
         pc' = [pc EXCEPT ![p] = "ref"],
         UNCHANGED <<lost, hand, target, at, fd_list>>
  PROVE  IInv'
<1> USE DEF IInv
<1>1. e \in Descs /\ e # None
  BY DEF PlaceInv, HandInv, TypeInv, Dupping
<1>2. pc'[p] = "ref" /\ (\A r \in Procs \ {p} : pc'[r] = pc[r]) /\ pc' \in [Procs -> Places]
  BY DEF TypeInv, Places
<1>3. \A d \in Descs : Listed(d)' = Listed(d) /\ IsFiniteSet(Listed(d))'
  BY ListKept
<1>4. \A d \in Descs : Cardinality(Hands(d))' = Cardinality(Hands(d)) - Bit(e = d)
  <2>1. \A r \in Procs \ {p} : hand'[r] = hand[r] /\ (Counted(r)' <=> Counted(r))
    BY <1>2 DEF Counted
  <2>2. hand'[p] = e /\ hand[p] = e /\ ~ Counted(p)' /\ Counted(p)
    BY <1>2 DEF Counted
  <2>3. \A d \in Descs :
           Cardinality(Hands(d))' =
             (Cardinality(Hands(d)) - Bit(hand[p] = d /\ Counted(p)))
               + Bit(hand'[p] = d /\ Counted(p)')
    BY <2>1, HandsStep DEF Bit
  <2> QED
    BY <2>2, <2>3, CountTypes DEF Bit
<1>5. /\ RefInv' /\ refcount' \in [Descs -> Nat] /\ alive' \in SUBSET Descs
      /\ resref' = resref - Bit(fds[q][m] # None)
  BY <1>1, <1>3, <1>4, WriteStep DEF Bit
<1>6. Cardinality(Used)' = (Cardinality(Used) - Bit(fds[q][m] # None)) + Bit(e # None)
  BY <1>1, UsedWrite DEF Bit
<1>7. PICK b \in Int : b = Bit(fds[q][m] # None)
  BY DEF Bit
<1>8. ResourceCounts'
  <2>1. Cardinality(Uncounted)' =
           (Cardinality(Uncounted) - Bit(pc[p] \in {"ref", "resref"}))
             + Bit(pc'[p] \in {"ref", "resref"})
    BY <1>2, UncountedStep DEF Bit
  <2>2. Cardinality(Uncounted)' = Cardinality(Uncounted) + 1
    <3>1. pc[p] \notin {"ref", "resref"} /\ pc'[p] \in {"ref", "resref"}
      BY <1>2
    <3> QED
      BY <2>1, <3>1, CountTypes DEF Bit
  <2>3. Cardinality(Used)' = Cardinality(Used) + (((-b) + 1) - 0)
    <3>1. Cardinality(Used)' = (Cardinality(Used) - b) + 1
      BY <1>1, <1>6, <1>7 DEF Bit
    <3> QED
      BY <3>1, CountTypes
  <2>4. resref' = resref + (-b) /\ lost' = lost + 0 /\ -b \in Int
    BY <1>5, <1>7 DEF TypeInv
  <2> QED
    BY <2>2, <2>3, <2>4, CountsStep
<1>9. TypeInv'
  <2>1. fds' \in [Procs -> [Nums -> Descs \cup {None}]]
    BY <1>1 DEF TypeInv, Writes
  <2>2. resref' \in Int
    BY <1>5, <1>7 DEF TypeInv
  <2> QED
    BY <2>1, <2>2, <1>2, <1>5 DEF TypeInv
<1>10. HandInv'
  BY <1>2 DEF HandInv, PlaceInv, Dupping
<1>11. TargetInv'
  <2>1. \A r \in Procs : pc[r] = "new" => pc'[r] = "new"
    BY <1>2
  <2> QED
    BY <2>1, <1>2 DEF TargetInv, PlaceInv, Dupping, TypeInv
<1>12. PublishedInv'
  <2> SUFFICES ASSUME NEW r \in Procs, pc'[r] \in {"ref", "resref"}
               PROVE  \E n \in Nums : fds'[target[r].proc][n] = hand[r]
    BY DEF PublishedInv
  <2>1. CASE r = p
    <3>1. fds'[q][m] = e
      BY DEF TypeInv, Writes
    <3> QED
      BY <2>1, <3>1
  <2>2. CASE r # p
    <3>1. PICK n \in Nums : fds[target[r].proc][n] = hand[r]
      BY <2>2, <1>2 DEF PublishedInv, PlaceInv
    <3>2. target[r].proc \in Procs /\ target[r].proc # q
      <4>1. pc[r] \in Dupping
        BY <2>2, <1>2 DEF Dupping
      <4>2. target[r].proc \in Procs
        BY <4>1 DEF PlaceInv, TargetInv, TypeInv
      <4>3. target[r].proc # None
        BY <4>2, FdAssumption
      <4> QED
        BY <2>2, <4>2, <4>3 DEF PlaceInv, TargetInv
    <3>3. fds'[target[r].proc] = fds[target[r].proc]
      BY <3>2 DEF TypeInv, Writes
    <3> QED
      BY <3>1, <3>3
  <2> QED
    BY <2>1, <2>2
<1> QED
  BY <1>5, <1>8, <1>9, <1>10, <1>11, <1>12 DEF PlaceInv

LEMMA TargetProc ==
  ASSUME TypeInv, TargetInv, NEW p \in Procs, pc[p] \in Dupping \cup {"fork"}
  PROVE  target[p].proc \in Procs
BY DEF TypeInv, TargetInv

LEMMA PublishSpecificStep ==
  ASSUME IInv, NEW p \in Procs, PublishSpecific(p)
  PROVE  IInv'
<1>1. pc[p] = "dup" /\ target[p].num \in Nums
  BY DEF PublishSpecific
<1>2. PICK q \in Procs : q = target[p].proc
  BY <1>1, TargetProc DEF IInv, PlaceInv, Dupping
<1>3. PICK m \in Nums : m = target[p].num
  BY <1>1
<1>4. PICK e : e = hand[p]
  OBVIOUS
<1>5. /\ IF fds[q][m] # None THEN Drop(fds[q][m]) ELSE UNCHANGED counts
      /\ Writes(q, m, e)
      /\ pc' = [pc EXCEPT ![p] = "ref"]
      /\ UNCHANGED <<lost, hand, target, at, fd_list>>
  BY <1>2, <1>3, <1>4 DEF PublishSpecific, Goto, Writes
<1> QED
  BY <1>1, <1>2, <1>4, <1>5, PublishStep

LEMMA PublishFreeStep ==
  ASSUME IInv, NEW p \in Procs, PublishFree(p)
  PROVE  IInv'
<1>1. pc[p] = "dup"
  BY DEF PublishFree
<1>2. PICK q \in Procs : q = target[p].proc
  BY <1>1, TargetProc DEF IInv, PlaceInv, Dupping
<1>3. PICK k : k = target[p].num
  OBVIOUS
<1>4. PICK e : e = hand[p]
  OBVIOUS
<1>5. /\ FreeFrom(q, k) # {}
      /\ fds' = [fds EXCEPT ![q][Min(FreeFrom(q, k))] = e]
      /\ pc' = [pc EXCEPT ![p] = "ref"]
      /\ UNCHANGED <<counts, lost, hand, target, at, fd_list>>
  BY <1>2, <1>3, <1>4 DEF PublishFree, Goto
<1>6. PICK m \in Nums : m = Min(FreeFrom(q, k)) /\ fds[q][m] = None
  BY <1>5, FreeFacts
<1>7. /\ Writes(q, m, e)
      /\ IF fds[q][m] # None THEN Drop(fds[q][m]) ELSE UNCHANGED counts
      /\ pc' = [pc EXCEPT ![p] = "ref"]
      /\ UNCHANGED <<lost, hand, target, at, fd_list>>
  BY <1>5, <1>6 DEF Writes
<1> QED
  BY <1>1, <1>2, <1>4, <1>7, PublishStep

-----------------------------------------------------------------------------

\* A step that leaves tables, counts, hands and lists alone, of processes that are
\* not in the middle of a call on a descriptor.
LEMMA MoveStep ==
  ASSUME IInv, UNCHANGED <<fds, counts, lost, hand, fd_list>>,
         pc' \in [Procs -> Places],
         \A q \in Procs : pc'[q] # pc[q] =>
           /\ pc[q] \in {"none", "new", "run", "fork", "exit"}
           /\ pc'[q] \in {"none", "new", "run", "fork", "exit"},
         \A q \in Procs : pc[q] \in {"ref", "resref"} => target'[q] = target[q]
  PROVE  HandInv' /\ PublishedInv' /\ RefInv' /\ ResourceCounts'
<1> USE DEF IInv
<1>1. HandInv'
  BY DEF HandInv, PlaceInv, Dupping
<1>2. PublishedInv'
  BY DEF PublishedInv, PlaceInv
<1>3. \A q \in Procs : Counted(q)' <=> Counted(q)
  BY DEF Counted
<1>4. \A d \in Descs : Hands(d)' = Hands(d) /\ Listed(d)' = Listed(d)
  BY <1>3, HandsKept
<1>5. \A d \in Descs : Slots(d)' = Slots(d)
  BY DEF Slots
<1>6. \A d \in Descs : Total(d)' = Total(d)
  BY <1>4, <1>5 DEF Total
<1>7. refcount' = refcount /\ alive' = alive /\ resref' = resref
  BY DEF counts
<1>8. RefInv'
  BY <1>4, <1>6, <1>7 DEF RefInv
<1>9. Uncounted' = Uncounted
  BY DEF Uncounted
<1>10. ResourceCounts'
  BY <1>7, <1>9 DEF ResourceCounts, Uncounted
<1> QED
  BY <1>1, <1>2, <1>8, <1>10

LEMMA ForkBeginStep ==
  ASSUME IInv, NEW p \in Procs, NEW c \in Procs, ForkBegin(p, c)
  PROVE  IInv'
<1>1. /\ pc[p] = "run" /\ pc[c] = "none"
      /\ pc' = [pc EXCEPT ![p] = "fork", ![c] = "new"]
      /\ target' = [target EXCEPT ![p] = [proc |-> c, num |-> 0, specific |-> TRUE]]
      /\ at' = [at EXCEPT ![p] = 0]
      /\ UNCHANGED <<fds, counts, lost, hand, fd_list>>
  BY DEF ForkBegin
<1>2. /\ p # c /\ pc'[p] = "fork" /\ pc'[c] = "new" /\ pc' \in [Procs -> Places]
      /\ \A q \in Procs \ {p, c} : pc'[q] = pc[q]
  BY <1>1 DEF IInv, TypeInv, Places
<1>3. /\ target'[p] = [proc |-> c, num |-> 0, specific |-> TRUE]
      /\ \A q \in Procs \ {p} : target'[q] = target[q] /\ at'[q] = at[q]
  BY <1>1 DEF IInv, TypeInv
<1>4. HandInv' /\ PublishedInv' /\ RefInv' /\ ResourceCounts'
  BY <1>1, <1>2, <1>3, MoveStep
<1> USE DEF IInv
<1>5. TypeInv'
  <2>1. target' \in [Procs -> [proc : Procs \cup {None}, num : 0 .. MaxFds, specific : BOOLEAN]]
    BY <1>1, FdAssumption DEF TypeInv
  <2>2. at' \in [Procs -> 0 .. MaxFds]
    BY <1>1, FdAssumption DEF TypeInv
  <2> QED
    BY <2>1, <2>2, <1>1, <1>2 DEF TypeInv, counts
<1>6. TargetInv'
  <2>0. target'[p].proc = c /\ target'[p].specific /\ c # None
    BY <1>3, FdAssumption
  <2>1. \A q \in Procs \ {p} : target[q].proc # c
    <3>1. ASSUME NEW q \in Procs \ {p}, target[q].proc = c PROVE FALSE
      <4>1. pc[q] \in Dupping \cup {"fork"}
        BY <3>1, <2>0 DEF TargetInv, PlaceInv
      <4> QED
        BY <3>1, <4>1, <1>1 DEF TargetInv, PlaceInv, Dupping
    <3> QED
      BY <3>1
  <2>2. ASSUME NEW q \in Procs
        PROVE  /\ target'[q].proc # None <=> pc'[q] \in Dupping \cup {"fork"}
               /\ pc'[q] \in Dupping \cup {"fork"} =>
                    \/ target'[q].proc = q /\ pc'[q] # "fork"
                    \/ target'[q].proc # q /\ pc'[target'[q].proc] = "new" /\ target'[q].specific
               /\ pc'[q] = "dup" /\ target'[q].proc # q => target'[q].num \in Nums
               /\ pc'[q] \in Dupping /\ target'[q].proc # q => at'[q] \in Nums
    <3>0. pc[target[q].proc] = "new" /\ target[q].proc \in Procs => pc'[target[q].proc] = "new"
      BY <1>1, <1>2
    <3>1. CASE q = p
      BY <3>1, <2>0, <1>2 DEF Dupping
    <3>2. CASE q = c
      <4>1. target[c].proc = None
        BY <1>1 DEF TargetInv, PlaceInv, Dupping
      <4> QED
        BY <3>2, <4>1, <1>2, <1>3 DEF Dupping
    <3>3. CASE q \notin {p, c}
      BY <3>0, <3>3, <1>2, <1>3 DEF TargetInv, PlaceInv, TypeInv
    <3> QED
      BY <3>1, <3>2, <3>3
  <2>3. \A r, q \in Procs : target'[r].proc = target'[q].proc /\ target'[r].proc # None => r = q
    BY <2>0, <2>1, <1>3 DEF TargetInv, PlaceInv
  <2> QED
    BY <2>2, <2>3 DEF TargetInv
<1> QED
  BY <1>4, <1>5, <1>6 DEF PlaceInv

LEMMA ForkSkipStep ==
  ASSUME IInv, NEW p \in Procs, ForkSkip(p)
  PROVE  IInv'
<1>1. /\ pc[p] = "fork" /\ at[p] \in Nums /\ at' = [at EXCEPT ![p] = @ + 1]
      /\ UNCHANGED <<fds, counts, lost, pc, hand, target, fd_list>>
  BY DEF ForkSkip
<1>2. HandInv' /\ PublishedInv' /\ RefInv' /\ ResourceCounts'
  BY <1>1, MoveStep DEF IInv, TypeInv
<1> USE DEF IInv
<1>3. TypeInv'
  <2>1. at[p] + 1 \in 0 .. MaxFds
    BY <1>1, FdAssumption DEF Nums
  <2>2. at' \in [Procs -> 0 .. MaxFds]
    BY <2>1, <1>1 DEF TypeInv
  <2> QED
    BY <2>2, <1>1 DEF TypeInv, counts
<1>4. TargetInv'
  <2>1. \A q \in Procs : at'[q] = at[q] \/ pc[q] = "fork"
    BY <1>1 DEF TypeInv
  <2> QED
    BY <2>1, <1>1 DEF TargetInv, PlaceInv, Dupping
<1> QED
  BY <1>2, <1>3, <1>4 DEF PlaceInv

LEMMA ForkEndStep ==
  ASSUME IInv, NEW p \in Procs, ForkEnd(p)
  PROVE  IInv'
<1>0. pc[p] = "fork"
  BY DEF ForkEnd
<1>1. PICK c \in Procs : c = target[p].proc
  BY <1>0, TargetProc DEF IInv, PlaceInv, Dupping
<1>2. /\ pc' = [pc EXCEPT ![p] = "run", ![c] = "run"]
      /\ target' = [target EXCEPT ![p] = NoTarget]
      /\ at' = [at EXCEPT ![p] = 0]
      /\ UNCHANGED <<fds, counts, lost, hand, fd_list>>
  BY <1>1 DEF ForkEnd
<1>3. p # c /\ pc[c] = "new"
  BY <1>0, <1>1 DEF IInv, PlaceInv, TargetInv
<1>4. /\ pc'[p] = "run" /\ pc'[c] = "run" /\ pc' \in [Procs -> Places]
      /\ \A q \in Procs \ {p, c} : pc'[q] = pc[q]
  BY <1>2, <1>3 DEF IInv, TypeInv, Places
<1>5. /\ target'[p].proc = None
      /\ \A q \in Procs \ {p} : target'[q] = target[q] /\ at'[q] = at[q]
  BY <1>2 DEF IInv, TypeInv, NoTarget
<1>6. HandInv' /\ PublishedInv' /\ RefInv' /\ ResourceCounts'
  BY <1>0, <1>2, <1>3, <1>4, <1>5, MoveStep
<1> USE DEF IInv
<1>7. TypeInv'
  <2>0. NoTarget \in [proc : Procs \cup {None}, num : 0 .. MaxFds, specific : BOOLEAN]
    BY FdAssumption DEF NoTarget
  <2>1. target' \in [Procs -> [proc : Procs \cup {None}, num : 0 .. MaxFds, specific : BOOLEAN]]
    BY <2>0, <1>2 DEF TypeInv
  <2>2. at' \in [Procs -> 0 .. MaxFds]
    BY <1>2, FdAssumption DEF TypeInv
  <2> QED
    BY <2>1, <2>2, <1>2, <1>4 DEF TypeInv, counts
<1>8. TargetInv'
  <2>0. c # None
    BY FdAssumption
  <2>1. \A q \in Procs \ {p} : target[q].proc # c
    BY <2>0, <1>1 DEF TargetInv, PlaceInv
  <2>2. ASSUME NEW q \in Procs
        PROVE  /\ target'[q].proc # None <=> pc'[q] \in Dupping \cup {"fork"}
               /\ pc'[q] \in Dupping \cup {"fork"} =>
                    \/ target'[q].proc = q /\ pc'[q] # "fork"
                    \/ target'[q].proc # q /\ pc'[target'[q].proc] = "new" /\ target'[q].specific
               /\ pc'[q] = "dup" /\ target'[q].proc # q => target'[q].num \in Nums
               /\ pc'[q] \in Dupping /\ target'[q].proc # q => at'[q] \in Nums
    <3>1. CASE q = p
      BY <3>1, <1>4, <1>5 DEF Dupping
    <3>2. CASE q = c
      <4>1. target[c].proc = None
        BY <1>3 DEF TargetInv, PlaceInv, Dupping
      <4> QED
        BY <3>2, <4>1, <1>3, <1>4, <1>5 DEF Dupping
    <3>3. CASE q \notin {p, c}
      <4>1. target[q].proc # c
        BY <3>3, <2>1
      <4>2. pc[target[q].proc] = "new" /\ target[q].proc \in Procs => pc'[target[q].proc] = "new"
        BY <4>1, <1>0, <1>4
      <4> QED
        BY <4>2, <3>3, <1>4, <1>5 DEF TargetInv, PlaceInv, TypeInv
    <3> QED
      BY <3>1, <3>2, <3>3
  <2>3. \A r, q \in Procs : target'[r].proc = target'[q].proc /\ target'[r].proc # None => r = q
    BY <1>5 DEF TargetInv, PlaceInv
  <2> QED
    BY <2>2, <2>3 DEF TargetInv
<1> QED
  BY <1>6, <1>7, <1>8 DEF PlaceInv

\* The first and the last step of syscall_exit.
LEMMA ExitEndsStep ==
  ASSUME IInv, NEW p \in Procs, ExitBegin(p) \/ ExitEnd(p)
  PROVE  IInv'
<1>1. /\ pc[p] \in {"run", "exit"} /\ UNCHANGED <<fds, counts, lost, hand, target, fd_list>>
      /\ at' = at \/ at' = [at EXCEPT ![p] = 0]
  BY DEF ExitBegin, ExitEnd
<1>2. PICK where \in {"exit", "none"} : pc' = [pc EXCEPT ![p] = where]
  BY DEF ExitBegin, ExitEnd, Goto
<1>3. /\ pc'[p] \in {"exit", "none"} /\ pc' \in [Procs -> Places]
      /\ \A q \in Procs \ {p} : pc'[q] = pc[q]
  BY <1>2 DEF IInv, TypeInv, Places
<1>4. HandInv' /\ PublishedInv' /\ RefInv' /\ ResourceCounts'
  BY <1>1, <1>3, MoveStep
<1> USE DEF IInv
<1>5. TypeInv'
  <2>1. at' \in [Procs -> 0 .. MaxFds]
    BY <1>1, FdAssumption DEF TypeInv
  <2> QED
    BY <2>1, <1>1, <1>3 DEF TypeInv, counts
<1>6. TargetInv'
  <2>1. \A q \in Procs \ {p} : at'[q] = at[q]
    BY <1>1 DEF TypeInv
  <2>2. \A q \in Procs : pc[q] = "new" => pc'[q] = "new"
    BY <1>1, <1>3
  <2> QED
    BY <2>1, <2>2, <1>1, <1>3 DEF TargetInv, PlaceInv, Dupping, TypeInv
<1> QED
  BY <1>4, <1>5, <1>6 DEF PlaceInv

LEMMA PollLookupStep ==
  ASSUME IInv, NEW p \in Procs, NEW n \in Nums, NEW ready \in BOOLEAN,
         PollLookup(p, n, ready)
  PROVE  IInv'
<1> USE DEF IInv
<1>0. PICK c : c = fds[p][n]
  OBVIOUS
<1>1. /\ pc[p] \in {"run", "poll"} /\ pc' = [pc EXCEPT ![p] = "poll"]
      /\ fd_list' = IF ready THEN fd_list ELSE [fd_list EXCEPT ![p][c] = @ + 1]
      /\ UNCHANGED <<fds, alive, resref, lost, target, at>>
  BY <1>0 DEF PollLookup, Goto
<1>2. /\ c \in Descs /\ c \in alive /\ c # None
      /\ refcount' \in [Descs -> Nat]
      /\ \A d \in Descs : refcount'[d] - refcount[d] = IF c = d THEN 1 ELSE 0
      /\ hand' = [hand EXCEPT ![p] = c]
      /\ hand' \in [Procs -> Descs \cup {None}]
  <2>1. Lookup(p, n, 1)
    BY DEF PollLookup
  <2> QED
    BY <2>1, <1>0, LookupFacts
<1>3. /\ pc'[p] = "poll" /\ (\A q \in Procs \ {p} : pc'[q] = pc[q]) /\ pc' \in [Procs -> Places]
      /\ hand'[p] = c /\ (\A q \in Procs \ {p} : hand'[q] = hand[q])
  BY <1>1, <1>2 DEF TypeInv, Places
<1>4. fd_list' \in [Procs -> [Descs -> Nat]] /\ \A q \in Procs \ {p} : fd_list'[q] = fd_list[q]
  BY <1>1, <1>2 DEF TypeInv
<1>5. TypeInv'
  BY <1>1, <1>2, <1>3, <1>4 DEF TypeInv
<1>6. HandInv'
  <2>1. ASSUME NEW q \in Procs
        PROVE  /\ hand'[q] # None <=> pc'[q] \in Dupping \cup {"use", "poll"}
               /\ pc'[q] # "poll" => \A d \in Descs : fd_list'[q][d] = 0
    <3>1. CASE q = p
      BY <3>1, <1>2, <1>3
    <3>2. CASE q # p
      BY <3>2, <1>3, <1>4 DEF HandInv, PlaceInv
    <3> QED
      BY <3>1, <3>2
  <2> QED
    BY <2>1 DEF HandInv
<1>7. TargetInv'
  <2>1. \A q \in Procs : pc[q] = "new" => pc'[q] = "new"
    BY <1>1, <1>3
  <2> QED
    BY <2>1, <1>1, <1>3 DEF TargetInv, PlaceInv, Dupping, TypeInv
<1>8. PublishedInv'
  BY <1>1, <1>3 DEF PublishedInv, PlaceInv
<1>9. ResourceCounts'
  <2>1. Uncounted' = Uncounted
    BY <1>1, <1>3 DEF Uncounted
  <2> QED
    BY <2>1, <1>1 DEF ResourceCounts, Uncounted
<1>10. \A d \in Descs :
         Cardinality(Hands(d))' <= Cardinality(Hands(d)) + Bit(hand'[p] = d /\ Counted(p)')
  <2>1. \A q \in Procs \ {p} : hand'[q] = hand[q] /\ (Counted(q)' <=> Counted(q))
    BY <1>3, <1>4 DEF Counted
  <2>2. \A d \in Descs :
           Cardinality(Hands(d))' =
             (Cardinality(Hands(d)) - Bit(hand[p] = d /\ Counted(p)))
               + Bit(hand'[p] = d /\ Counted(p)')
    BY <2>1, HandsStep DEF Bit
  <2> QED
    BY <2>2, CountTypes DEF Bit
<1>11. \A d \in Descs : Cardinality(Hands(d))' \in Nat
  <2>1. \A d \in Descs : Hands(d)' \in SUBSET Procs
    BY DEF Hands
  <2> QED
    BY <2>1, FS_Subset, FS_CardinalityType, FdAssumption
<1>12. ASSUME NEW d \in Descs
       PROVE  /\ IsFiniteSet(Listed(d))' /\ Cardinality(Listed(d))' \in Nat
              /\ Cardinality(Hands(d))' + Cardinality(Listed(d))'
                   <= (Cardinality(Hands(d)) + Cardinality(Listed(d))) + Bit(c = d)
  <2>0. Cardinality(Hands(d)) \in Nat /\ Cardinality(Listed(d)) \in Nat
    BY CountTypes
  <2>1. CASE ready
    <3>1. Listed(d)' = Listed(d) /\ IsFiniteSet(Listed(d))'
      BY <2>1, <1>1, ListKept
    <3>2. Cardinality(Listed(d))' = Cardinality(Listed(d))
      BY <3>1
    <3>3. Cardinality(Hands(d))' <= Cardinality(Hands(d)) + Bit(c = d)
      BY <1>3, <1>10, <1>11, <2>0 DEF Bit
    <3> QED
      BY <3>1, <3>2, <3>3, <2>0, <1>11 DEF Bit
  <2>2. CASE ~ ready
    <3>0. fd_list' = [fd_list EXCEPT ![p][c] = @ + 1]
      BY <2>2, <1>1
    <3>1. /\ IsFiniteSet(Listed(d))'
          /\ Cardinality(Listed(d))' = Cardinality(Listed(d)) + Bit(c = d)
      BY <3>0, <1>2, ListAdd DEF Bit
    <3>2. ~ Counted(p)'
      <4>1. fd_list'[p][c] # 0
        BY <3>0, <1>2 DEF TypeInv
      <4> QED
        BY <4>1, <1>3 DEF Counted
    <3>3. Cardinality(Hands(d))' <= Cardinality(Hands(d))
      BY <3>2, <1>10, <1>11, <2>0 DEF Bit
    <3> QED
      BY <3>1, <3>3, <2>0, <1>11 DEF Bit
  <2> QED
    BY <2>1, <2>2
<1>13. ASSUME NEW d \in Descs
       PROVE  /\ IsFiniteSet(Listed(d))'
              /\ Cardinality(Hands(d))' + Cardinality(Listed(d))'
                   <= (Cardinality(Hands(d)) + Cardinality(Listed(d))) + (refcount'[d] - refcount[d])
              /\ d \notin alive => Cardinality(Hands(d))' + Cardinality(Listed(d))'
                                     <= Cardinality(Hands(d)) + Cardinality(Listed(d))
  <2>1. /\ IsFiniteSet(Listed(d))' /\ Cardinality(Listed(d))' \in Nat
        /\ Cardinality(Hands(d))' + Cardinality(Listed(d))'
             <= (Cardinality(Hands(d)) + Cardinality(Listed(d))) + Bit(c = d)
    BY <1>12 DEF Bit
  <2>2. refcount'[d] - refcount[d] = Bit(c = d)
    BY <1>2 DEF Bit
  <2>3. d \notin alive => Bit(c = d) = 0
    BY <1>2 DEF Bit
  <2>4. Cardinality(Hands(d)) \in Nat /\ Cardinality(Listed(d)) \in Nat
    BY CountTypes
  <2> QED
    BY <2>1, <2>2, <2>3, <2>4
<1>14. RefInv'
  BY <1>1, <1>2, <1>13, CoverStep
<1> QED
  BY <1>5, <1>6, <1>7, <1>8, <1>9, <1>14 DEF PlaceInv

LEMMA PollEndStep ==
  ASSUME IInv, NEW p \in Procs, PollEnd(p)
  PROVE  IInv'
<1> USE DEF IInv
<1>1. /\ pc[p] = "poll" /\ pc' = [pc EXCEPT ![p] = "run"]
      /\ refcount' = [d \in Descs |-> refcount[d] - fd_list[p][d]]
      /\ fd_list' = [fd_list EXCEPT ![p] = NoRefs]
      /\ hand' = [hand EXCEPT ![p] = None]
      /\ UNCHANGED <<fds, alive, resref, lost, target, at>>
  BY DEF PollEnd, Goto
<1>2. /\ pc'[p] = "run" /\ (\A q \in Procs \ {p} : pc'[q] = pc[q]) /\ pc' \in [Procs -> Places]
      /\ hand'[p] = None /\ (\A q \in Procs \ {p} : hand'[q] = hand[q])
      /\ hand' \in [Procs -> Descs \cup {None}]
  BY <1>1 DEF TypeInv, Places
<1>3. /\ fd_list' \in [Procs -> [Descs -> Nat]] /\ \A q \in Procs \ {p} : fd_list'[q] = fd_list[q]
      /\ \A d \in Descs : fd_list'[p][d] = 0 /\ fd_list[p][d] \in Nat
  BY <1>1 DEF TypeInv, NoRefs
<1>4. \A d \in Descs :
        /\ IsFiniteSet(Listed(d))'
        /\ Cardinality(Listed(d)) \in Nat /\ Cardinality(Listed(d))' \in Nat
        /\ Cardinality(Listed(d))' = Cardinality(Listed(d)) - fd_list[p][d]
  BY <1>1, ListClear
<1>5. refcount' \in [Descs -> Nat]
  <2>1. ASSUME NEW d \in Descs PROVE refcount[d] - fd_list[p][d] \in Nat
    <3>1. /\ Cardinality(Slots(d)) \in Nat /\ Cardinality(Hands(d)) \in Nat
          /\ Cardinality(Listed(d)) \in Nat /\ refcount[d] \in Nat
      BY CountTypes DEF TypeInv
    <3>2. fd_list[p][d] <= Cardinality(Listed(d))
      BY <1>3, <1>4, <3>1
    <3>3. Total(d) <= refcount[d]
      BY <3>1 DEF RefInv
    <3>4. Cardinality(Listed(d)) <= refcount[d]
      BY <3>1, <3>3 DEF Total
    <3> QED
      BY <3>1, <3>2, <3>4, <1>3
  <2> QED
    BY <2>1, <1>1
<1>6. TypeInv'
  BY <1>1, <1>2, <1>3, <1>5 DEF TypeInv
<1>7. HandInv'
  <2>1. ASSUME NEW q \in Procs
        PROVE  /\ hand'[q] # None <=> pc'[q] \in Dupping \cup {"use", "poll"}
               /\ pc'[q] # "poll" => \A d \in Descs : fd_list'[q][d] = 0
    <3>1. CASE q = p
      BY <3>1, <1>2, <1>3 DEF Dupping
    <3>2. CASE q # p
      BY <3>2, <1>2, <1>3 DEF HandInv, PlaceInv
    <3> QED
      BY <3>1, <3>2
  <2> QED
    BY <2>1 DEF HandInv
<1>8. TargetInv'
  <2>1. \A q \in Procs : pc[q] = "new" => pc'[q] = "new"
    BY <1>1, <1>2
  <2> QED
    BY <2>1, <1>1, <1>2 DEF TargetInv, PlaceInv, Dupping, TypeInv
<1>9. PublishedInv'
  BY <1>1, <1>2 DEF PublishedInv, PlaceInv
<1>10. ResourceCounts'
  <2>1. Uncounted' = Uncounted
    BY <1>1, <1>2 DEF Uncounted
  <2> QED
    BY <2>1, <1>1 DEF ResourceCounts, Uncounted
<1>11. \A d \in Descs : Cardinality(Hands(d))' <= Cardinality(Hands(d))
  <2>1. \A q \in Procs \ {p} : hand'[q] = hand[q] /\ (Counted(q)' <=> Counted(q))
    BY <1>2, <1>3 DEF Counted
  <2>2. \A d \in Descs :
           Cardinality(Hands(d))' =
             (Cardinality(Hands(d)) - Bit(hand[p] = d /\ Counted(p)))
               + Bit(hand'[p] = d /\ Counted(p)')
    BY <2>1, HandsStep DEF Bit
  <2> QED
    BY <2>2, <1>2, NotNone, CountTypes DEF Bit
<1>12. ASSUME NEW d \in Descs
       PROVE  /\ IsFiniteSet(Listed(d))'
              /\ Cardinality(Hands(d))' + Cardinality(Listed(d))'
                   <= (Cardinality(Hands(d)) + Cardinality(Listed(d))) + (refcount'[d] - refcount[d])
              /\ d \notin alive => Cardinality(Hands(d))' + Cardinality(Listed(d))'
                                     <= Cardinality(Hands(d)) + Cardinality(Listed(d))
  <2>1. /\ Cardinality(Hands(d)) \in Nat /\ Cardinality(Listed(d)) \in Nat
        /\ refcount[d] \in Nat /\ fd_list[p][d] \in Nat
    BY <1>3, CountTypes DEF TypeInv
  <2>2. Cardinality(Hands(d))' \in Nat
    <3>1. Hands(d)' \in SUBSET Procs
      BY DEF Hands
    <3> QED
      BY <3>1, FS_Subset, FS_CardinalityType, FdAssumption
  <2>3. refcount'[d] - refcount[d] = - fd_list[p][d]
    BY <2>1, <1>1
  <2>4. Cardinality(Hands(d))' <= Cardinality(Hands(d))
    BY <1>11
  <2>5. /\ IsFiniteSet(Listed(d))' /\ Cardinality(Listed(d))' \in Nat
        /\ Cardinality(Listed(d))' = Cardinality(Listed(d)) - fd_list[p][d]
    BY <1>4
  <2> QED
    BY <2>1, <2>2, <2>3, <2>4, <2>5
<1>13. RefInv'
  BY <1>1, <1>5, <1>12, CoverStep
<1> QED
  BY <1>6, <1>7, <1>8, <1>9, <1>10, <1>13 DEF PlaceInv

-----------------------------------------------------------------------------

LEMMA InitHolds == Init => IInv
<1> SUFFICES ASSUME Init PROVE IInv
  OBVIOUS
<1> USE DEF Init
<1>1. TypeInv
  <2>1. NoTarget \in [proc : Procs \cup {None}, num : 0 .. MaxFds, specific : BOOLEAN]
    BY FdAssumption DEF NoTarget
  <2>2. target \in [Procs -> [proc : Procs \cup {None}, num : 0 .. MaxFds, specific : BOOLEAN]]
    BY <2>1
  <2>3. at \in [Procs -> 0 .. MaxFds]
    BY FdAssumption
  <2> QED
    BY <2>2, <2>3 DEF TypeInv, NoRefs, Places
<1>2. PlaceInv
  <2>1. HandInv
    BY DEF HandInv, NoRefs, Dupping
  <2>2. TargetInv
    BY DEF TargetInv, NoTarget, Dupping
  <2>3. PublishedInv
    BY DEF PublishedInv
  <2> QED
    BY <2>1, <2>2, <2>3 DEF PlaceInv
<1>3. ASSUME NEW d \in Descs PROVE IsFiniteSet(Listed(d)) /\ Total(d) = 0
  <2>1. Slots(d) = {}
    BY NotNone DEF Slots
  <2>2. Hands(d) = {}
    BY NotNone DEF Hands
  <2>3. Listed(d) = {}
    BY DEF Listed, NoRefs
  <2> QED
    BY <2>1, <2>2, <2>3, FS_EmptySet DEF Total
<1>4. RefInv
  BY <1>3 DEF RefInv
<1>5. ResourceCounts
  <2>1. Used = {} /\ Uncounted = {}
    BY DEF Used, Uncounted
  <2>2. Cardinality(Used) = 0 /\ Cardinality(Uncounted) = 0
    BY <2>1, FS_EmptySet
  <2> QED
    BY <2>2 DEF ResourceCounts, Used, Uncounted
<1> QED
  BY <1>1, <1>2, <1>4, <1>5 DEF IInv

LEMMA StutterStep ==
  ASSUME IInv, UNCHANGED vars
  PROVE  IInv'
<1>1. UNCHANGED <<fds, counts, lost, pc, hand, target, at, fd_list>>
  BY DEF vars
<1>2. HandInv' /\ PublishedInv' /\ RefInv' /\ ResourceCounts'
  BY <1>1, MoveStep DEF IInv, TypeInv
<1>3. TypeInv'
  BY <1>1 DEF IInv, TypeInv, counts
<1>4. TargetInv'
  BY <1>1, PlacesKept DEF IInv, PlaceInv
<1> QED
  BY <1>2, <1>3, <1>4 DEF IInv, PlaceInv

LEMMA NextStep ==
  ASSUME IInv, [Next]_vars
  PROVE  IInv'
<1>1. ASSUME NEW p \in Procs, File(p) PROVE IInv'
  BY <1>1, OpenStep, CloseStep, UseBeginStep, UseEndStep, UseReturnStep DEF File
<1>2. ASSUME NEW p \in Procs, Dup(p) PROVE IInv'
  BY <1>2, DupBeginStep, PublishSpecificStep, PublishFreeStep, DupFailsStep,
     DupRefStep, DupResRefStep DEF Dup
<1>3. ASSUME NEW p \in Procs, Fork(p) PROVE IInv'
  BY <1>3, ForkBeginStep, ForkSkipStep, ForkDupStep, ForkEndStep DEF Fork
<1>4. ASSUME NEW p \in Procs, Exit(p) PROVE IInv'
  BY <1>4, ExitEndsStep, ExitCloseStep DEF Exit
<1>5. ASSUME NEW p \in Procs, Poll(p) PROVE IInv'
  BY <1>5, PollLookupStep, PollEndStep DEF Poll
<1> QED
  BY <1>1, <1>2, <1>3, <1>4, <1>5, StutterStep DEF Next

\* The inductive invariant: the count of a description covers the descriptors, the
\* calls under way and the lists of ppoll that refer to it.
THEOREM Inductive == Spec => []IInv
<1>1. Init => IInv
  BY InitHolds
<1>2. IInv /\ [Next]_vars => IInv'
  BY NextStep
<1> QED
  BY <1>1, <1>2, PTL DEF Spec

\* fdnum_close, dup, fork, exit and ppoll never free a description that a table, a
\* call under way or a list of ppoll still refers to.
THEOREM NothingDangles == Spec => []NoUseAfterFree
<1>1. IInv => NoUseAfterFree
  BY Alive DEF IInv
<1> QED
  BY <1>1, Inductive, PTL

\* The resource is told of each descriptor once: its count is that of the
\* descriptors, the published ones that fdnum_dup has yet to count apart.
THEOREM ResourceExact == Spec => []ResourceCounts
<1>1. IInv => ResourceCounts
  BY DEF IInv
<1> QED
  BY <1>1, Inductive, PTL

\* Each call of fdnum_dup that has yet to count has a descriptor of its own.
LEMMA UncountedUsed ==
  ASSUME IInv
  PROVE  Cardinality(Uncounted) <= Cardinality(Used)
<1> USE DEF IInv
<1> DEFINE g(p) == CHOOSE n \in Nums : fds[target[p].proc][n] = hand[p]
           f == [p \in Uncounted |-> <<target[p].proc, g(p)>>]
<1>1. ASSUME NEW p \in Uncounted
      PROVE  /\ target[p].proc \in Procs /\ g(p) \in Nums
             /\ fds[target[p].proc][g(p)] # None
  <2>1. p \in Procs /\ pc[p] \in {"ref", "resref"}
    BY DEF Uncounted
  <2>2. target[p].proc \in Procs
    BY <2>1, TargetProc DEF PlaceInv, Dupping
  <2>3. hand[p] # None
    BY <2>1 DEF PlaceInv, HandInv, Dupping
  <2>4. \E n \in Nums : fds[target[p].proc][n] = hand[p]
    BY <2>1 DEF PlaceInv, PublishedInv
  <2>5. g(p) \in Nums /\ fds[target[p].proc][g(p)] = hand[p]
    BY <2>4
  <2> QED
    BY <2>2, <2>3, <2>5
<1> HIDE DEF g
<1>2. f \in [Uncounted -> Used]
  BY <1>1 DEF Used
<1>3. ASSUME NEW p \in Uncounted, NEW q \in Uncounted, f[p] = f[q] PROVE p = q
  <2>1. target[p].proc = target[q].proc
    BY <1>3
  <2>2. target[p].proc # None
    BY <1>1, FdAssumption
  <2> QED
    BY <2>1, <2>2 DEF PlaceInv, TargetInv, Uncounted
<1> HIDE DEF f
<1>4. f \in Injection(Uncounted, Used)
  BY <1>2, <1>3 DEF Injection, IsInjective
<1> QED
  BY <1>4, Finite, FS_Injection

\* Types; no reference count falls below zero.
THEOREM TypeCorrect == Spec => []TypeOK
<1>1. IInv => TypeOK
  <2> SUFFICES ASSUME IInv PROVE TypeOK
    OBVIOUS
  <2>1. resref + Cardinality(Uncounted) = Cardinality(Used) + lost
    BY DEF IInv, ResourceCounts, Uncounted, Used
  <2>2. resref \in Int /\ lost \in Nat
    BY DEF IInv, TypeInv
  <2>3. Cardinality(Uncounted) \in Nat /\ Cardinality(Used) \in Nat
    BY CountTypes DEF IInv
  <2>4. resref \in Nat
    BY <2>1, <2>2, <2>3, UncountedUsed
  <2> QED
    BY <2>4 DEF IInv, TypeInv, TypeOK, Places
<1> QED
  BY <1>1, Inductive, PTL

=============================================================================
