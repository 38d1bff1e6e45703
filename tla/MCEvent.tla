------------------------------ MODULE MCEvent ------------------------------
(* Event for TLC: the arrays that callers pass to event_await.             *)
EXTENDS Event, TLC

CONSTANTS e1, e2, e3, t1, t2

TwoThreads == {t1, t2}
\* One array is longer than a thread's.
LongAwaits == {<<e1>>, <<e1, e2>>, <<e1, e2, e3>>}
=============================================================================
