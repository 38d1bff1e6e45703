------------------------------ MODULE PipeFifo ------------------------------
(***************************************************************************)
(* What a pipe promises: a queue of at most Cap bytes.  A write appends as *)
(* much of its buffer as fits and only when something fits; a read takes   *)
(* as much as was asked for and is there, from the front.                  *)
(***************************************************************************)
EXTENDS Naturals, Sequences

CONSTANTS
  Readers,   \* who reads
  Bytes,
  Cap,       \* the capacity
  MaxCount   \* the largest count of a read or a write

VARIABLES
  queue,     \* the bytes in the pipe
  got        \* what the last read of each reader returned

Least(m, n) == IF m < n THEN m ELSE n

\* The buffers a write may be called with.
Buffers == UNION {[1 .. n -> Bytes] : n \in 0 .. MaxCount}

Init == queue = <<>> /\ got = [r \in Readers |-> <<>>]

Put(s) ==
  /\ Len(queue) < Cap
  /\ queue' = queue \o SubSeq(s, 1, Least(Len(s), Cap - Len(queue)))
  /\ UNCHANGED got

Get(r, count) ==
  LET n == Least(count, Len(queue)) IN
  /\ queue' = SubSeq(queue, n + 1, Len(queue))
  /\ got' = [got EXCEPT ![r] = SubSeq(queue, 1, n)]

Next ==
  \/ \E s \in Buffers : Put(s)
  \/ \E r \in Readers, count \in 0 .. MaxCount : Get(r, count)

Spec == Init /\ [][Next]_<<queue, got>>
=============================================================================
