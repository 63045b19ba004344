---------------------------- MODULE MCFileCache ----------------------------
(* Instances of FileCache for TLC: one FileCache object per process.       *)
EXTENDS FileCacheProperties, TLC

CONSTANTS p1, p2, k1, k2

TwoProcesses == {p1, p2}
OneKey    == {k1}
TwoKeys   == {k1, k2}

\* Every process has its own FileCache object, named after it.
OwnInstance == [p \in Procs |-> p]

\* Two threads of one process, which share its object (README.md, section 9).
SharedInstance == [p \in Procs |-> p1]

\* Enough inodes for the linked files and the unlinked ones that are open.
InodePool == 1..(Cardinality(Keys) + 2 * Cardinality(Procs))

NoInfo   == {[state |-> "absent", size |-> 0]}
ZeroInfo == {[state |-> "sized", size |-> 0]}

Symmetric == Permutations(Procs) \cup Permutations(Keys)
=============================================================================
