------------------------------- MODULE MCPmm -------------------------------
(* Memory maps of a few pages, with eight bits of the bitmap to a page.      *)
EXTENDS Pmm

Entry(b, l, u) == [base |-> b, length |-> l, usable |-> u]

\* A hole in the middle, and an entry that is too small for the bitmap.
Split == <<Entry(0, 1, FALSE), Entry(1, 1, TRUE), Entry(2, 1, FALSE),
           Entry(3, 5, TRUE), Entry(8, 6, FALSE), Entry(14, 2, TRUE)>>

=============================================================================
