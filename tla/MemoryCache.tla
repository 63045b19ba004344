---------------------------- MODULE MemoryCache ----------------------------
(* bes_utils/MemoryCache.h: values by key in a map, d_cache, and the keys  *)
(* in order of arrival in a queue, d_fifo_keys.  put() of a new key that   *)
(* makes the map larger than d_max_items purges d_purge_items entries.     *)
EXTENDS Integers, Sequences, FiniteSets, Functions

CONSTANTS
    Keys, Values, None,
    DefaultMax, DefaultPurge,   \* d_max_items and d_purge_items when declared
    Settings,                   \* arguments of initialize(), [max, purge]
    MayThrow                    \* may push_back() run out of memory?

ASSUME MemoryCacheAssumption ==
    /\ None \notin Values
    /\ DefaultMax \in Nat \ {0} /\ DefaultPurge \in Nat \ {0}
    /\ \A s \in Settings : s.max \in Int /\ s.purge \in Int
    /\ MayThrow \in BOOLEAN

VARIABLES
    maxItems, purgeItems,
    fifo,       \* d_fifo_keys
    cache,      \* d_cache
    reply,      \* the last value get() delivered, None when there was none
    undefined   \* the program ran into undefined behaviour

vars == <<maxItems, purgeItems, fifo, cache, reply, undefined>>

Init ==
    /\ maxItems = DefaultMax
    /\ purgeItems = DefaultPurge
    /\ fifo = <<>>
    /\ cache = <<>>
    /\ reply = None
    /\ undefined = FALSE

Size == Cardinality(DOMAIN cache)

\* Mutant: any setting is accepted.
InitializeUnchecked(s) ==
    /\ maxItems' = s.max
    /\ purgeItems' = s.purge
    /\ UNCHANGED <<fifo, cache, reply, undefined>>

\* initialize(): settings that are not positive are refused.
Initialize(s) ==
    /\ s.max > 0 /\ s.purge > 0
    /\ maxItems' = s.max
    /\ purgeItems' = s.purge
    /\ UNCHANGED <<fifo, cache, reply, undefined>>

Get(k) ==
    /\ reply' = IF k \in DOMAIN cache THEN cache[k] ELSE None
    /\ UNCHANGED <<maxItems, purgeItems, fifo, cache, undefined>>

\* put() of a key that is there.
\* Mutant: the key joins the queue again.
PutUpdateRequeues(k, v) ==
    /\ k \in DOMAIN cache
    /\ cache' = [cache EXCEPT ![k] = v]
    /\ fifo' = Append(fifo, k)
    /\ UNCHANGED <<maxItems, purgeItems, reply, undefined>>

PutUpdate(k, v) ==
    /\ k \in DOMAIN cache
    /\ cache' = [cache EXCEPT ![k] = v]
    /\ UNCHANGED <<maxItems, purgeItems, fifo, reply, undefined>>

\* insert() and push_back().
Inserted(k, v) ==
    [j \in DOMAIN cache \cup {k} |-> IF j = k THEN v ELSE cache[j]]

\* put() of a new key, with room for it.
\* Mutant: the size is compared before the entry is inserted.
PutNewLate(k, v) ==
    /\ k \notin DOMAIN cache
    /\ Size <= maxItems
    /\ cache' = Inserted(k, v)
    /\ fifo' = Append(fifo, k)
    /\ UNCHANGED <<maxItems, purgeItems, reply, undefined>>

PutNew(k, v) ==
    /\ k \notin DOMAIN cache
    /\ Size + 1 <= maxItems
    /\ cache' = Inserted(k, v)
    /\ fifo' = Append(fifo, k)
    /\ UNCHANGED <<maxItems, purgeItems, reply, undefined>>

\* Mutants of put() and purge(): the newest keys are popped; the
\* entries leave the map and their keys stay in the queue.
PutPurgeNewest(k, v) ==
    /\ k \notin DOMAIN cache
    /\ Size + 1 > maxItems
    /\ purgeItems <= Len(fifo)
    /\ cache' = Restrict(Inserted(k, v),
                    Range(SubSeq(fifo, 1, Len(fifo) - purgeItems)) \cup {k})
    /\ fifo' = Append(SubSeq(fifo, 1, Len(fifo) - purgeItems), k)
    /\ UNCHANGED <<maxItems, purgeItems, reply, undefined>>

PutPurgeKeepsKeys(k, v) ==
    /\ k \notin DOMAIN cache
    /\ Size + 1 > maxItems
    /\ purgeItems <= Len(fifo)
    /\ cache' = Restrict(Inserted(k, v),
                    Range(SubSeq(fifo, purgeItems + 1, Len(fifo))) \cup {k})
    /\ fifo' = Append(fifo, k)
    /\ UNCHANGED <<maxItems, purgeItems, reply, undefined>>

\* put() of a new key, and purge(): d_purge_items keys leave the front of
\* the queue and their entries leave the map.
PutPurge(k, v) ==
    /\ k \notin DOMAIN cache
    /\ Size + 1 > maxItems
    /\ purgeItems <= Len(fifo) + 1
    /\ LET queue == Append(fifo, k)
           rest  == SubSeq(queue, purgeItems + 1, Len(queue))
       IN  /\ fifo' = rest
           /\ cache' = Restrict(Inserted(k, v),
                          {j \in DOMAIN cache \cup {k} :
                              \A i \in 1..purgeItems : queue[i] # j})
    /\ UNCHANGED <<maxItems, purgeItems, reply, undefined>>

\* put() and purge() with more to purge than there is: front() of an empty
\* queue and erase(end()).  The model stops; the program may do anything.
PutPurgeUndefined(k) ==
    /\ k \notin DOMAIN cache
    /\ Size + 1 > maxItems
    /\ purgeItems > Len(fifo) + 1
    /\ undefined' = TRUE
    /\ UNCHANGED <<maxItems, purgeItems, fifo, cache, reply>>

\* put() of a new key: the map takes the entry, and push_back() throws.
PutThrows(k, v) ==
    /\ MayThrow
    /\ k \notin DOMAIN cache
    /\ cache' = Inserted(k, v)
    /\ UNCHANGED <<maxItems, purgeItems, fifo, reply, undefined>>

Clear ==
    /\ cache' = <<>>
    /\ fifo' = <<>>
    /\ UNCHANGED <<maxItems, purgeItems, reply, undefined>>

Next ==
    /\ ~undefined
    /\ \/ \E s \in Settings : Initialize(s)
       \/ \E k \in Keys :
            \/ Get(k)
            \/ \E v \in Values : PutUpdate(k, v) \/ PutNew(k, v) \/ PutPurge(k, v)
                                 \/ PutThrows(k, v)
            \/ PutPurgeUndefined(k)
       \/ Clear

Spec == Init /\ [][Next]_vars

-----------------------------------------------------------------------------

TypeOK ==
    /\ maxItems \in Nat \ {0} /\ purgeItems \in Nat \ {0}
    /\ fifo \in Seq(Keys)
    /\ DOMAIN cache \subseteq Keys /\ \A k \in DOMAIN cache : cache[k] \in Values
    /\ reply \in Values \cup {None}
    /\ undefined \in BOOLEAN

\* The queue holds the keys of the map, each once: purge() finds the entry of
\* every key it pops, and no entry outlives its key in the queue.
QueueMatchesMap == IsInjective(fifo) /\ Range(fifo) = DOMAIN cache

\* That much is left when put() can fail half way: purge() finds an entry for
\* every key it pops.
QueueLeadsToEntries == IsInjective(fifo) /\ Range(fifo) \subseteq DOMAIN cache

\* The consistency check of MemoryCache.h:83-100 (its size is also part of
\* QueueMatchesMap).
Invariant ==
    /\ Size <= maxItems
    /\ Len(fifo) <= maxItems
    /\ Size = Len(fifo)
    /\ \A i \in 1..Len(fifo) : fifo[i] \in DOMAIN cache

\* A call never leaves the cache larger than d_max_items unless it was larger
\* before, when initialize() lowered the limit.
NeverGrowsPastLimit == [][Size' <= maxItems' \/ Size' <= Size]_vars

\* The oldest entries are purged first, the newest one is kept, and get()
\* delivers the value put last: a BoundedStore in order of arrival.
Value == [k \in Keys |-> IF k \in DOMAIN cache THEN cache[k] ELSE None]
Older == {p \in Range(fifo) \X Range(fifo) :
            \E i, j \in DOMAIN fifo : i < j /\ p = <<fifo[i], fifo[j]>>}
Store == INSTANCE BoundedStore WITH
            Refreshes <- FALSE, value <- Value, older <- Older
FirstInFirstOutStore == Store!Spec

-----------------------------------------------------------------------------
\* What comments of the source say.

\* MemoryCache.h:113-115: settings that are greater than zero are accepted,
\* and nothing more is asked of them.
NothingUndefined == ~undefined
=============================================================================
