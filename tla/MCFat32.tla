------------------------------ MODULE MCFat32 ------------------------------
EXTENDS Fat32, TLC

CONSTANTS f1, f2

\* A name of up to 12 characters, and a longer one.
ShortAndLong == (f1 :> 2) @@ (f2 :> 3)
=============================================================================
