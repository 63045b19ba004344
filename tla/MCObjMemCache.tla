--------------------------- MODULE MCObjMemCache ---------------------------
(* Instances of ObjMemCache for TLC.                                       *)
EXTENDS ObjMemCache, TLC

CONSTANTS k1, k2, k3, k4, v1, v2

OneVersion == {v1}
TwoVersions == {v1, v2}
TwoKeys == {k1, k2}
FourKeys == {k1, k2, k3, k4}

Half == [num |-> 1, den |-> 2]
Fifth == [num |-> 1, den |-> 5]
All == [num |-> 1, den |-> 1]
NoFraction == {}
SomeFractions == {Half, All}

Symmetric == Permutations(Keys) \cup Permutations(Versions)
=============================================================================
