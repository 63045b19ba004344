--------------------------- MODULE MCMemoryCache ---------------------------
(* Instances of MemoryCache for TLC.                                       *)
EXTENDS MemoryCache, TLC

CONSTANTS k1, k2, k3, k4, v1, v2

FourKeys == {k1, k2, k3, k4}
TwoValues == {v1, v2}

\* Limits that purge no more than the limit; 0 and -1 are refused.
Fitting == {[max |-> 3, purge |-> 2], [max |-> 2, purge |-> 2],
            [max |-> 1, purge |-> 1], [max |-> 0, purge |-> 1],
            [max |-> 2, purge |-> -1]}
NoSettings == {}
Lower == {[max |-> 1, purge |-> 1]}
PurgeLarger == {[max |-> 1, purge |-> 3]}

AnySettings == Fitting \cup PurgeLarger
=============================================================================
