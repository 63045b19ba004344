---------------------------- MODULE ObjMemCache ----------------------------
(* bes_utils/ObjMemCache.{h,cc}: pointers to DAP objects by key.  `cache'  *)
(* maps the age at which an entry was added or last used to the entry,     *)
(* `index' maps its key to that age; every operation must change the two   *)
(* together.  Keys of `cache' are unsigned int: the counter d_age counts   *)
(* modulo W (2^32 in the code).                                            *)
EXTENDS Naturals, FiniteSets, Functions

CONSTANTS
    Keys,
    Versions,           \* of the object built from a data set
    None,
    EntriesThreshold,   \* d_entries_threshold; 0: the caller purges
    PurgeThreshold,     \* d_purge_threshold, a fraction [num, den]
    Fractions,          \* arguments of the public purge()
    W,
    MaxAge,             \* bound: add() and get() stop when d_age is there
    AddTwice            \* may callers add a key that is in the cache?

\* DapObj: the objects that are built from the data set named by a key.
ObjectsOf(S) == [of : S, version : Versions]
Objects == ObjectsOf(Keys)

ASSUME ObjMemCacheAssumption ==
    /\ None \notin Objects
    /\ EntriesThreshold \in Nat
    /\ \A f \in Fractions \cup {PurgeThreshold} :
           f.num \in Nat /\ f.den \in Nat \ {0}
    /\ W \in Nat \ {0} /\ MaxAge \in Nat
    /\ AddTwice \in BOOLEAN

VARIABLES
    age,        \* d_age modulo W
    cache,      \* age -> [obj, name]
    index,      \* key -> age
    asked,      \* the key of the last get()
    reply,      \* what it returned
    aborted     \* an assert() failed

vars == <<age, cache, index, asked, reply, aborted>>

Ages == 0..(W - 1)
Entries == [obj : Objects, name : Keys]

Init ==
    /\ age = 0
    /\ cache = <<>>
    /\ index = <<>>
    /\ asked = None
    /\ reply = None
    /\ aborted = FALSE

\* map::insert() leaves an entry that is there as it is.
Insert(map, key, x) ==
    [y \in DOMAIN map \cup {key} |-> IF y \in DOMAIN map THEN map[y] ELSE x]

Erase(map, S) == Restrict(map, DOMAIN map \ S)

-----------------------------------------------------------------------------
(* purge(fraction): the first entries of the map `cache', in order of age. *)

PurgeCount(f) == (Cardinality(DOMAIN cache) * f.num) \div f.den

\* The entries that come first when ages are in order.
\* Mutant: reverse iterators.
FirstReversed(n) ==
    {a \in DOMAIN cache : Cardinality({b \in DOMAIN cache : b > a}) < n}

First(n) ==
    {a \in DOMAIN cache : Cardinality({b \in DOMAIN cache : b < a}) < n}

NamesOf(doomed) == {cache[a].name : a \in doomed}

\* assert(pos != index.end()) in the loop of purge().
PurgeAsserts(doomed) ==
    /\ NamesOf(doomed) \subseteq DOMAIN index
    /\ \A a, b \in doomed : cache[a].name = cache[b].name => a = b

Abort == aborted' = TRUE /\ UNCHANGED <<age, cache, index, asked, reply>>

Purge(f) ==
    LET doomed == First(PurgeCount(f)) IN
    IF PurgeAsserts(doomed)
    THEN /\ cache' = Erase(cache, doomed)
         /\ index' = Erase(index, NamesOf(doomed))
         /\ UNCHANGED <<age, asked, reply, aborted>>
    ELSE Abort

-----------------------------------------------------------------------------

NextAge == (age + 1) % W

\* Mutant: the threshold met before the purge, one entry too late.
CrowdedLate == Cardinality(DOMAIN cache) > EntriesThreshold + 1

Crowded == Cardinality(DOMAIN cache) > EntriesThreshold

\* The entries add() purges.
Doomed ==
    IF EntriesThreshold # 0 /\ Crowded THEN First(PurgeCount(PurgeThreshold))
                                       ELSE {}

\* add(obj, key).  Handlers add the object they built when get() found none.
Add(k, o) ==
    /\ AddTwice \/ k \notin DOMAIN index
    /\ IF PurgeAsserts(Doomed)
       THEN /\ age' = NextAge
            /\ index' = Insert(Erase(index, NamesOf(Doomed)), k, NextAge)
            /\ cache' = Insert(Erase(cache, Doomed), NextAge,
                               [obj |-> o, name |-> k])
            /\ UNCHANGED <<asked, reply, aborted>>
       ELSE Abort

\* remove(key)
Remove(k) ==
    /\ k \in DOMAIN index
    /\ IF index[k] \in DOMAIN cache
       THEN /\ index' = Erase(index, {k})
            /\ cache' = Erase(cache, {index[k]})
            /\ UNCHANGED <<age, asked, reply, aborted>>
       ELSE Abort

\* get(key) of a key that is not there.
GetMiss(k) ==
    /\ k \notin DOMAIN index
    /\ asked' = k
    /\ reply' = None
    /\ UNCHANGED <<age, cache, index, aborted>>

\* Mutant: the index keeps the old age.
GetHitIndexKept(k) ==
    /\ k \in DOMAIN index
    /\ IF index[k] \in DOMAIN cache
       THEN /\ age' = NextAge
            /\ asked' = k
            /\ reply' = cache[index[k]].obj
            /\ cache' = Insert(Erase(cache, {index[k]}), NextAge,
                               cache[index[k]])
            /\ UNCHANGED <<index, aborted>>
       ELSE Abort

\* get(key) moves the entry to a new age in both maps.
GetHit(k) ==
    /\ k \in DOMAIN index
    /\ IF index[k] \in DOMAIN cache
       THEN /\ age' = NextAge
            /\ asked' = k
            /\ reply' = cache[index[k]].obj
            /\ cache' = Insert(Erase(cache, {index[k]}), NextAge,
                               cache[index[k]])
            /\ index' = [index EXCEPT ![k] = NextAge]
            /\ UNCHANGED aborted
       ELSE Abort

Next ==
    /\ ~aborted
    /\ \/ \E k \in Keys :
            \/ age < MaxAge /\ \E o \in ObjectsOf({k}) : Add(k, o)
            \/ age < MaxAge /\ GetHit(k)
            \/ GetMiss(k)
            \/ Remove(k)
       \/ \E f \in Fractions : Purge(f)

Spec == Init /\ [][Next]_vars

-----------------------------------------------------------------------------

TypeOK ==
    /\ age \in Ages
    /\ DOMAIN cache \subseteq Ages /\ \A a \in DOMAIN cache : cache[a] \in Entries
    /\ DOMAIN index \subseteq Keys /\ \A k \in DOMAIN index : index[k] \in Ages
    /\ asked \in Keys \cup {None}
    /\ reply \in Objects \cup {None}
    /\ aborted \in BOOLEAN

\* The two maps of ObjMemCache.h:107 and :112 describe the same entries: every
\* key leads to its own entry, and no entry is out of reach.
MapsAgree ==
    /\ \A k \in DOMAIN index : /\ index[k] \in DOMAIN cache
                               /\ cache[index[k]].name = k
    /\ \A a \in DOMAIN cache : /\ cache[a].name \in DOMAIN index
                               /\ index[cache[a].name] = a

\* The assertions of remove(), get() and purge() hold.
NoAssertFails == ~aborted

\* What add() keeps the cache to, when its purge removes at least one entry
\* of a full cache: one entry more than the threshold.
OneOverThreshold ==
    EntriesThreshold # 0 => Cardinality(DOMAIN cache) <= EntriesThreshold + 1

\* The cache drops the entries that were used least recently, keeps the rest,
\* and get() returns what add() stored: it implements a BoundedStore whose
\* get() moves the key to the end of the order.
Value == [k \in Keys |-> IF k \in DOMAIN index THEN cache[index[k]].obj ELSE None]
Older == {p \in (DOMAIN index) \X (DOMAIN index) : index[p[1]] < index[p[2]]}
Store == INSTANCE BoundedStore WITH
            Values <- Objects, Refreshes <- TRUE, value <- Value, older <- Older
LeastRecentlyUsedStore == Store!Spec

-----------------------------------------------------------------------------
\* What comments and assertions of the source say.

\* ObjMemCache.h:102: "no more than this num of entries".
AtMostThreshold ==
    EntriesThreshold # 0 => Cardinality(DOMAIN cache) <= EntriesThreshold

\* ObjMemCache.h:155, in size(): assert(cache.size() == index.size()).
SizesAgree == Cardinality(DOMAIN cache) = Cardinality(DOMAIN index)

\* get() returns an object that was added under its key, although the ages
\* wrap around: ObjMemCache.h:75-81 says that the cache evens itself out.
GetReturnsItsKey == reply # None => reply \in ObjectsOf({asked})
=============================================================================
