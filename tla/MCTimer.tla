------------------------------ MODULE MCTimer ------------------------------
(* Ticks of a quarter of a second, so that seconds are borrowed from.        *)
EXTENDS Timer

Span(s, n) == [sec |-> s, nsec |-> n]

Edges == {Span(0, 0), Span(0, 1), Span(0, 250000000), Span(0, 250000001),
          Span(0, 1000000000), Span(0, 1000000001), Span(1, 0), Span(1, 1),
          Span(2, 500000001), Span(3, 999999999)}

\* No time, one tick, and two seconds' borrows.
Limits == {Span(0, 0), Span(0, 250000000), Span(2, 1)}
=============================================================================
