---------------------------- MODULE SharedStore ----------------------------
(* What FileCache promises to the processes that share a cache, as long as *)
(* no system call fails and nobody clears it: values by key.  A value is   *)
(* stored at once and whole, where there is none; a reader pins the key it *)
(* reads, and a value that is pinned is neither replaced nor withdrawn.    *)
(* Anybody may withdraw the others at any time.                            *)

CONSTANTS Procs, Keys, Values, None

VARIABLES
    stored,     \* the value of each key, or None
    pinned      \* the key each process reads, or None

Init ==
    /\ stored = [k \in Keys |-> None]
    /\ pinned = [p \in Procs |-> None]

Put(k, v) ==
    /\ stored[k] = None
    /\ stored' = [stored EXCEPT ![k] = v]
    /\ UNCHANGED pinned

Get(p, k) ==
    /\ pinned[p] = None
    /\ stored[k] # None
    /\ pinned' = [pinned EXCEPT ![p] = k]
    /\ UNCHANGED stored

Release(p) ==
    /\ pinned' = [pinned EXCEPT ![p] = None]
    /\ UNCHANGED stored

Withdraw(k) ==
    /\ \A p \in Procs : pinned[p] # k
    /\ stored' = [stored EXCEPT ![k] = None]
    /\ UNCHANGED pinned

Next ==
    \/ \E k \in Keys : Withdraw(k) \/ \E v \in Values : Put(k, v)
    \/ \E p \in Procs : Release(p) \/ \E k \in Keys : Get(p, k)

Spec == Init /\ [][Next]_<<stored, pinned>>
=============================================================================
