------------------------------- MODULE MCNvme -------------------------------
(* Five LBAs in blocks of two, so that the last block is cut, and two slots for   *)
(* three blocks.                                                                  *)
EXTENDS Nvme

Req(via, op, loc, count, val) ==
  [via |-> via, op |-> op, loc |-> loc, count |-> count, val |-> val]

\* Within a block, across blocks, through a partition and over its end, into the cut
\* block, and past the end of the device.
SomeRequests ==
  {Req(0, "read", 0, 4, None), Req(2, "read", 0, 2, None), Req(0, "read", 5, 2, None)}
  \cup {Req(0, "write", 1, 2, v) : v \in Values}
  \cup {Req(1, "write", 1, 3, v) : v \in Values}

Mbr == [gpt |-> FALSE, entries |-> <<[start |-> 1, end |-> 3], [start |-> 3, end |-> 5]>>]
=============================================================================
