---------------------------- MODULE BoundedStore ----------------------------
(* What the memory caches of bes_utils promise: a store of values by key   *)
(* that may drop entries when something is added, the first in its order   *)
(* first.  `older' is that order: <<j, k>> is in it when j goes before k.  *)
(* With Refreshes a get() moves its key to the end (ObjMemCache, least     *)
(* recently used); without it keys stay in order of arrival (MemoryCache,  *)
(* first in first out).                                                    *)

CONSTANTS Keys, Values, None, Refreshes

VARIABLES value, older, reply

Held == {k \in Keys : value[k] # None}

\* Any number of entries, so long as they are the first in the order.
Oldest(gone) ==
    /\ gone \subseteq Held
    /\ \A k \in gone : \A j \in Held : <<j, k>> \in older => j \in gone

Only(S) == [k \in Keys |-> IF k \in S THEN value[k] ELSE None]
Among(S) == older \cap (S \X S)

Init ==
    /\ value = [k \in Keys |-> None]
    /\ older = {}
    /\ reply = None

\* The new entry is last in the order, and it stays.
Put(k, v) ==
    \E gone \in SUBSET Held :
        /\ k \notin Held
        /\ Oldest(gone)
        /\ value' = [Only(Held \ gone) EXCEPT ![k] = v]
        /\ older' = Among(Held \ gone) \cup ((Held \ gone) \X {k})
        /\ UNCHANGED reply

Update(k, v) ==
    /\ k \in Held
    /\ value' = [value EXCEPT ![k] = v]
    /\ UNCHANGED <<older, reply>>

Get(k) ==
    /\ reply' = value[k]
    /\ older' = IF Refreshes /\ k \in Held
                THEN Among(Held \ {k}) \cup ((Held \ {k}) \X {k})
                ELSE older
    /\ UNCHANGED value

Remove(k) ==
    /\ value' = Only(Held \ {k})
    /\ older' = Among(Held \ {k})
    /\ UNCHANGED reply

Evict ==
    \E gone \in SUBSET Held :
        /\ Oldest(gone)
        /\ value' = Only(Held \ gone)
        /\ older' = Among(Held \ gone)
        /\ UNCHANGED reply

Next ==
    \/ \E k \in Keys :
        \/ \E v \in Values : Put(k, v) \/ Update(k, v)
        \/ Get(k)
        \/ Remove(k)
    \/ Evict

Spec == Init /\ [][Next]_<<value, older, reply>>
=============================================================================
