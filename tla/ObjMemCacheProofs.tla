------------------------- MODULE ObjMemCacheProofs -------------------------
(* Proofs about ObjMemCache, for callers that add what get() did not find  *)
(* and fewer calls than there are ages.                                    *)
EXTENDS ObjMemCache, FiniteSetTheorems, WellFoundedInduction, TLAPS

Disciplined == ~AddTwice /\ MaxAge < W

Agree(c, i) ==
    /\ \A k \in DOMAIN i : i[k] \in DOMAIN c /\ c[i[k]].name = k
    /\ \A a \in DOMAIN c : c[a].name \in DOMAIN i /\ i[c[a].name] = a

\* The inductive invariant: every age in use has been counted, so that the
\* next one is new.
IInv ==
    /\ TypeOK
    /\ MapsAgree
    /\ NoAssertFails
    /\ age <= MaxAge
    /\ \A a \in DOMAIN cache : a <= age

-----------------------------------------------------------------------------
(* The operators on maps.                                                  *)

LEMMA NewAge ==
    ASSUME Disciplined, IInv, age < MaxAge
    PROVE  /\ NextAge = age + 1
           /\ NextAge \in Ages
           /\ NextAge \notin DOMAIN cache
<1>1. age \in Nat /\ MaxAge \in Nat /\ W \in Nat /\ MaxAge < W
  BY ObjMemCacheAssumption DEF IInv, TypeOK, Ages, Disciplined
<1>2. (age + 1) % W = age + 1
  BY <1>1
<1>3. \A a \in DOMAIN cache : a \in Nat /\ a <= age
  BY DEF IInv, TypeOK, Ages
<1> QED
  BY <1>1, <1>2, <1>3 DEF NextAge, Ages

LEMMA DoomedCached ==
    /\ \A n : First(n) \subseteq DOMAIN cache
    /\ Doomed \subseteq DOMAIN cache
BY DEF First, Doomed

LEMMA AssertsHold ==
    ASSUME MapsAgree, NEW D \in SUBSET (DOMAIN cache)
    PROVE  PurgeAsserts(D)
BY DEF MapsAgree, PurgeAsserts, NamesOf

LEMMA EraseAgrees ==
    ASSUME MapsAgree, NEW D \in SUBSET (DOMAIN cache)
    PROVE  Agree(Erase(cache, D), Erase(index, NamesOf(D)))
BY DEF MapsAgree, Agree, Erase, NamesOf, Restrict

LEMMA InsertAgrees ==
    ASSUME NEW c, NEW i, Agree(c, i),
           NEW k, k \notin DOMAIN i, NEW a, a \notin DOMAIN c, NEW o
    PROVE  Agree(Insert(c, a, [obj |-> o, name |-> k]), Insert(i, k, a))
BY DEF Agree, Insert

-----------------------------------------------------------------------------
(* The invariant is inductive: one lemma per operation.                    *)

LEMMA PurgeKeepsIInv ==
    ASSUME IInv, NEW f \in Fractions, Purge(f)
    PROVE  IInv'
<1> DEFINE D == First(PurgeCount(f))
<1>1. D \subseteq DOMAIN cache
  BY DoomedCached
<1>2. PurgeAsserts(D)
  BY <1>1, AssertsHold DEF IInv
<1>3. /\ cache' = Erase(cache, D)
      /\ index' = Erase(index, NamesOf(D))
      /\ UNCHANGED <<age, asked, reply, aborted>>
  BY <1>2 DEF Purge
<1>4. MapsAgree'
  BY <1>1, <1>3, EraseAgrees DEF IInv, Agree, MapsAgree
<1>5. TypeOK'
  BY <1>3 DEF IInv, TypeOK, Erase, Restrict
<1> QED
  BY <1>3, <1>4, <1>5 DEF IInv, NoAssertFails, Erase, Restrict

LEMMA AddKeepsIInv ==
    ASSUME IInv, Disciplined, age < MaxAge,
           NEW k \in Keys, NEW o \in ObjectsOf({k}), Add(k, o)
    PROVE  IInv'
<1> DEFINE c == Erase(cache, Doomed)
           i == Erase(index, NamesOf(Doomed))
<1>1. k \notin DOMAIN index
  BY DEF Add, Disciplined
<1>2. PurgeAsserts(Doomed)
  BY DoomedCached, AssertsHold DEF IInv
<1>3. /\ age' = NextAge
      /\ index' = Insert(i, k, NextAge)
      /\ cache' = Insert(c, NextAge, [obj |-> o, name |-> k])
      /\ UNCHANGED <<asked, reply, aborted>>
  BY <1>2 DEF Add
<1>4. /\ DOMAIN c \subseteq DOMAIN cache /\ \A a \in DOMAIN c : c[a] = cache[a]
      /\ DOMAIN i \subseteq DOMAIN index /\ \A j \in DOMAIN i : i[j] = index[j]
  BY DEF Erase, Restrict
<1>5. MapsAgree'
  <2>1. Agree(c, i)
    BY DoomedCached, EraseAgrees DEF IInv
  <2>2. k \notin DOMAIN i /\ NextAge \notin DOMAIN c
    BY <1>1, <1>4, NewAge
  <2>3. Agree(cache', index')
    BY <1>3, <2>1, <2>2, InsertAgrees
  <2> QED
    BY <2>3 DEF Agree, MapsAgree
<1>6. [obj |-> o, name |-> k] \in Entries
  BY DEF Entries, Objects, ObjectsOf
<1>7. TypeOK'
  <2> HIDE DEF c, i
  <2>1. TypeOK /\ NextAge \in Ages
    BY NewAge DEF IInv
  <2> QED
    BY <1>3, <1>4, <1>6, <2>1 DEF TypeOK, Insert
<1>8. age' <= MaxAge /\ \A a \in DOMAIN cache' : a <= age'
  <2> HIDE DEF c, i
  <2>1. NextAge = age + 1 /\ age \in Nat /\ MaxAge \in Nat
    BY NewAge, ObjMemCacheAssumption DEF IInv, TypeOK, Ages
  <2>2. \A a \in DOMAIN cache : a \in Nat /\ a <= age
    BY DEF IInv, TypeOK, Ages
  <2> QED
    BY <1>3, <1>4, <2>1, <2>2 DEF Insert
<1> QED
  BY <1>3, <1>5, <1>7, <1>8 DEF IInv, NoAssertFails

LEMMA RemoveKeepsIInv ==
    ASSUME IInv, NEW k \in Keys, Remove(k)
    PROVE  IInv'
<1>1. index[k] \in DOMAIN cache
  BY DEF Remove, IInv, MapsAgree
<1>2. /\ index' = Erase(index, {k})
      /\ cache' = Erase(cache, {index[k]})
      /\ UNCHANGED <<age, asked, reply, aborted>>
  BY <1>1 DEF Remove
<1>3. MapsAgree'
  BY <1>1, <1>2 DEF IInv, MapsAgree, Erase, Restrict, Remove
<1>4. TypeOK'
  BY <1>2 DEF IInv, TypeOK, Erase, Restrict
<1> QED
  BY <1>2, <1>3, <1>4 DEF IInv, NoAssertFails, Erase, Restrict

LEMMA GetMissKeepsIInv ==
    ASSUME IInv, NEW k \in Keys, GetMiss(k)
    PROVE  IInv'
BY DEF GetMiss, IInv, TypeOK, MapsAgree, NoAssertFails

LEMMA GetHitKeepsIInv ==
    ASSUME IInv, Disciplined, age < MaxAge, NEW k \in Keys, GetHit(k)
    PROVE  IInv'
<1>1. k \in DOMAIN index /\ index[k] \in DOMAIN cache
  BY DEF GetHit, IInv, MapsAgree
<1>2. /\ age' = NextAge
      /\ asked' = k
      /\ reply' = cache[index[k]].obj
      /\ cache' = Insert(Erase(cache, {index[k]}), NextAge, cache[index[k]])
      /\ index' = [index EXCEPT ![k] = NextAge]
      /\ UNCHANGED aborted
  BY <1>1 DEF GetHit
<1>3. NextAge = age + 1 /\ NextAge \in Ages /\ NextAge \notin DOMAIN cache
  BY NewAge
<1>4. /\ DOMAIN cache' = (DOMAIN cache \ {index[k]}) \cup {NextAge}
      /\ \A a \in DOMAIN cache \ {index[k]} : cache'[a] = cache[a]
      /\ cache'[NextAge] = cache[index[k]]
  BY <1>2, <1>3 DEF Insert, Erase, Restrict
<1>5. MapsAgree'
  <2>1. /\ DOMAIN index' = DOMAIN index /\ index'[k] = NextAge
        /\ \A j \in DOMAIN index \ {k} : index'[j] = index[j]
    BY <1>1, <1>2
  <2>2. \A j \in DOMAIN index' : /\ index'[j] \in DOMAIN cache'
                                /\ cache'[index'[j]].name = j
    BY <1>1, <1>4, <2>1 DEF IInv, MapsAgree
  <2>3. \A a \in DOMAIN cache' : /\ cache'[a].name \in DOMAIN index'
                                /\ index'[cache'[a].name] = a
    BY <1>1, <1>4, <2>1 DEF IInv, MapsAgree
  <2> QED
    BY <2>2, <2>3 DEF MapsAgree
<1>6. TypeOK'
  <2>1. TypeOK /\ cache[index[k]] \in Entries /\ cache[index[k]].obj \in Objects
    BY <1>1 DEF IInv, TypeOK, Entries
  <2>2. DOMAIN index' = DOMAIN index
        /\ \A j \in DOMAIN index : index'[j] \in Ages
    BY <1>1, <1>2, <1>3, <2>1 DEF TypeOK
  <2>3. DOMAIN cache' \subseteq Ages /\ \A a \in DOMAIN cache' : cache'[a] \in Entries
    BY <1>1, <1>3, <1>4, <2>1 DEF TypeOK
  <2> QED
    BY <1>2, <1>3, <2>1, <2>2, <2>3 DEF TypeOK
<1>7. age' <= MaxAge /\ \A a \in DOMAIN cache' : a <= age'
  <2>1. age \in Nat /\ MaxAge \in Nat
    BY ObjMemCacheAssumption DEF IInv, TypeOK, Ages
  <2>2. \A a \in DOMAIN cache : a \in Nat /\ a <= age
    BY DEF IInv, TypeOK, Ages
  <2> QED
    BY <1>2, <1>3, <1>4, <2>1, <2>2
<1> QED
  BY <1>2, <1>5, <1>6, <1>7 DEF IInv, NoAssertFails

LEMMA Invariance ==
    Disciplined => (Spec => []IInv)
<1> SUFFICES ASSUME Disciplined PROVE Spec => []IInv
  OBVIOUS
<1>1. Init => IInv
  <2> SUFFICES ASSUME Init PROVE IInv
    OBVIOUS
  <2>1. DOMAIN cache = {} /\ DOMAIN index = {}
    BY DEF Init
  <2>2. age = 0 /\ asked = None /\ reply = None /\ aborted = FALSE
    BY DEF Init
  <2>3. 0 \in Ages /\ 0 <= MaxAge
    BY ObjMemCacheAssumption DEF Ages
  <2> QED
    BY <2>1, <2>2, <2>3 DEF IInv, TypeOK, MapsAgree, NoAssertFails
<1>2. IInv /\ [Next]_vars => IInv'
  <2> SUFFICES ASSUME IInv, [Next]_vars PROVE IInv'
    OBVIOUS
  <2>1. ASSUME NEW k \in Keys, age < MaxAge, NEW o \in ObjectsOf({k}), Add(k, o)
        PROVE  IInv'
    BY <2>1, AddKeepsIInv
  <2>2. ASSUME NEW k \in Keys, age < MaxAge, GetHit(k) PROVE IInv'
    BY <2>2, GetHitKeepsIInv
  <2>3. ASSUME NEW k \in Keys, GetMiss(k) PROVE IInv'
    BY <2>3, GetMissKeepsIInv
  <2>4. ASSUME NEW k \in Keys, Remove(k) PROVE IInv'
    BY <2>4, RemoveKeepsIInv
  <2>5. ASSUME NEW f \in Fractions, Purge(f) PROVE IInv'
    BY <2>5, PurgeKeepsIInv
  <2>6. CASE UNCHANGED vars
    BY <2>6 DEF vars, IInv, TypeOK, MapsAgree, NoAssertFails
  <2> QED
    BY <2>1, <2>2, <2>3, <2>4, <2>5, <2>6 DEF Next
<1> QED
  BY <1>1, <1>2, PTL DEF Spec

\* The two maps of the cache always describe the same entries, and none of
\* the assertions of add(), remove(), get() and purge() fails, as long as
\* nobody adds a key that is there and the ages do not wrap around.
THEOREM TwoMapsAgree ==
    ~AddTwice /\ MaxAge < W => (Spec => [](MapsAgree /\ NoAssertFails))
<1>1. IInv => MapsAgree /\ NoAssertFails
  BY DEF IInv
<1> QED
  BY <1>1, Invariance, PTL DEF Disciplined

-----------------------------------------------------------------------------
(* The cache implements a least-recently-used store.                       *)

LEMMA CacheFinite ==
    ASSUME TypeOK
    PROVE  IsFiniteSet(DOMAIN cache)
<1>1. IsFiniteSet(Ages)
  BY FS_Interval, ObjMemCacheAssumption DEF Ages
<1> QED
  BY <1>1, FS_Subset DEF TypeOK

\* purge() takes no entry before those that are older.
LEMMA FirstIsFirst ==
    ASSUME TypeOK, NEW n \in Nat, NEW a \in First(n),
           NEW b \in DOMAIN cache, b < a
    PROVE  b \in First(n)
<1> DEFINE Before(x) == {y \in DOMAIN cache : y < x}
<1>1. DOMAIN cache \subseteq Int
  BY DEF TypeOK, Ages
<1>2. Before(b) \subseteq Before(a)
  BY <1>1 DEF First
<1>3. IsFiniteSet(Before(a))
  BY CacheFinite, FS_Subset
<1>4. Cardinality(Before(b)) <= Cardinality(Before(a))
  BY <1>2, <1>3, FS_Subset
<1>5. Cardinality(Before(b)) \in Nat /\ Cardinality(Before(a)) \in Nat
  BY <1>2, <1>3, FS_Subset, FS_CardinalityType
<1>6. Cardinality(Before(a)) < n
  BY DEF First
<1> QED
  BY <1>4, <1>5, <1>6 DEF First

LEMMA PurgeCountNat ==
    ASSUME TypeOK, NEW f \in Fractions \cup {PurgeThreshold}
    PROVE  PurgeCount(f) \in Nat
<1>1. Cardinality(DOMAIN cache) \in Nat
  BY CacheFinite, FS_CardinalityType
<1>2. f.num \in Nat /\ f.den \in Nat \ {0}
  BY ObjMemCacheAssumption
<1>3. Cardinality(DOMAIN cache) * f.num \in Nat
  BY <1>1, <1>2
<1>4. \A x \in Nat, d \in Nat \ {0} : x \div d \in Nat
  OBVIOUS
<1> QED
  BY <1>2, <1>3, <1>4 DEF PurgeCount

LEMMA HeldIsIndexed ==
    ASSUME IInv
    PROVE  /\ Store!Held = DOMAIN index
           /\ \A k \in DOMAIN index : Value[k] = cache[index[k]].obj
<1>1. \A k \in DOMAIN index : cache[index[k]].obj # None
  BY ObjMemCacheAssumption DEF IInv, TypeOK, MapsAgree, Entries
<1> QED
  BY <1>1 DEF Store!Held, Value, IInv, TypeOK

\* What a purge removes is first in the order of the store.
LEMMA DoomedAreOldest ==
    ASSUME IInv, NEW n \in Nat
    PROVE  Store!Oldest(NamesOf(First(n)))
<1>1. NamesOf(First(n)) \subseteq DOMAIN index
  BY DEF NamesOf, First, IInv, MapsAgree
<1>2. ASSUME NEW k \in NamesOf(First(n)), NEW j \in DOMAIN index,
             <<j, k>> \in Older
      PROVE  j \in NamesOf(First(n))
  <2>1. k \in DOMAIN index /\ index[j] < index[k]
    BY <1>2 DEF Older
  <2>2. index[k] \in First(n)
    BY DEF NamesOf, First, IInv, MapsAgree
  <2>3. index[j] \in DOMAIN cache /\ cache[index[j]].name = j
    BY DEF IInv, MapsAgree
  <2>4. index[j] \in First(n)
    BY <2>1, <2>2, <2>3, FirstIsFirst DEF IInv
  <2> QED
    BY <2>3, <2>4 DEF NamesOf
<1> QED
  BY <1>1, <1>2, HeldIsIndexed DEF Store!Oldest

LEMMA PurgeImplements ==
    ASSUME IInv, NEW f \in Fractions, Purge(f)
    PROVE  Store!Evict
<1> DEFINE D == First(PurgeCount(f))
           G == NamesOf(D)
<1>1. D \subseteq DOMAIN cache /\ PurgeAsserts(D)
  BY DoomedCached, AssertsHold DEF IInv
<1>2. cache' = Erase(cache, D) /\ index' = Erase(index, G) /\ reply' = reply
  BY <1>1 DEF Purge
<1>3. Store!Oldest(G)
  BY PurgeCountNat, DoomedAreOldest DEF IInv
<1>4. G \in SUBSET Store!Held
  BY <1>3 DEF Store!Oldest
<1> HIDE DEF G, D
<1>5. /\ DOMAIN index' = (DOMAIN index) \ G
      /\ \A j \in DOMAIN index' : index'[j] = index[j]
  BY <1>2 DEF Erase, Restrict
<1>6. \A j \in DOMAIN index' : cache'[index'[j]] = cache[index[j]]
  <2> SUFFICES ASSUME NEW j \in DOMAIN index'
               PROVE  cache'[index'[j]] = cache[index[j]]
    OBVIOUS
  <2>1. j \in DOMAIN index /\ j \notin G /\ index'[j] = index[j]
    BY <1>5
  <2>2. index[j] \in DOMAIN cache /\ cache[index[j]].name = j
    BY <2>1 DEF IInv, MapsAgree
  <2>3. index[j] \notin D
    BY <2>1, <2>2 DEF G, NamesOf
  <2> QED
    BY <1>2, <2>1, <2>2, <2>3 DEF Erase, Restrict
<1>7. Value' = Store!Only(Store!Held \ G)
  BY <1>5, <1>6, HeldIsIndexed DEF Value, Store!Only
<1>8. Older' = Store!Among(Store!Held \ G)
  BY <1>5, HeldIsIndexed DEF Older, Store!Among
<1> QED
  BY <1>2, <1>3, <1>4, <1>7, <1>8 DEF Store!Evict

LEMMA RemoveImplements ==
    ASSUME IInv, NEW k \in Keys, Remove(k)
    PROVE  Store!Remove(k)
<1>1. k \in DOMAIN index /\ index[k] \in DOMAIN cache
  BY DEF Remove, IInv, MapsAgree
<1>2. /\ index' = Erase(index, {k})
      /\ cache' = Erase(cache, {index[k]})
      /\ reply' = reply
  BY <1>1 DEF Remove
<1>3. /\ DOMAIN index' = (DOMAIN index) \ {k}
      /\ \A j \in DOMAIN index' : index'[j] = index[j]
  BY <1>2 DEF Erase, Restrict
<1>4. \A j \in DOMAIN index' : cache'[index'[j]] = cache[index[j]]
  BY <1>1, <1>2, <1>3 DEF IInv, MapsAgree, Erase, Restrict
<1>5. Value' = Store!Only(Store!Held \ {k})
  BY <1>3, <1>4, HeldIsIndexed DEF Value, Store!Only
<1>6. Older' = Store!Among(Store!Held \ {k})
  BY <1>3, HeldIsIndexed DEF Older, Store!Among
<1> QED
  BY <1>2, <1>5, <1>6 DEF Store!Remove

LEMMA GetMissImplements ==
    ASSUME IInv, NEW k \in Keys, GetMiss(k)
    PROVE  Store!Get(k)
BY HeldIsIndexed DEF GetMiss, Store!Get, Value, Older

LEMMA GetHitImplements ==
    ASSUME IInv, Disciplined, age < MaxAge, NEW k \in Keys, GetHit(k)
    PROVE  Store!Get(k)
<1>1. k \in DOMAIN index /\ index[k] \in DOMAIN cache
  BY DEF GetHit, IInv, MapsAgree
<1>2. /\ reply' = cache[index[k]].obj
      /\ cache' = Insert(Erase(cache, {index[k]}), NextAge, cache[index[k]])
      /\ index' = [index EXCEPT ![k] = NextAge]
  BY <1>1 DEF GetHit
<1>3. NextAge = age + 1 /\ NextAge \notin DOMAIN cache
  BY NewAge
<1>4. /\ DOMAIN index' = DOMAIN index
      /\ index'[k] = age + 1
      /\ \A j \in DOMAIN index \ {k} : index'[j] = index[j]
  BY <1>1, <1>2, <1>3
<1>5. \A j \in DOMAIN index : cache'[index'[j]] = cache[index[j]]
  <2>1. cache'[NextAge] = cache[index[k]]
    BY <1>2, <1>3 DEF Insert, Erase, Restrict
  <2>2. ASSUME NEW j \in DOMAIN index \ {k}
        PROVE  cache'[index[j]] = cache[index[j]]
    <3>1. index[j] \in DOMAIN cache \ {index[k]}
      BY DEF IInv, MapsAgree, GetHit
    <3> QED
      BY <1>2, <3>1 DEF Insert, Erase, Restrict
  <2> QED
    BY <1>3, <1>4, <2>1, <2>2
<1>6. Value' = Value
  BY <1>4, <1>5 DEF Value
<1>7. Older' = Store!Among(Store!Held \ {k}) \cup ((Store!Held \ {k}) \X {k})
  <2>1. age \in Nat /\ \A j \in DOMAIN index : index[j] \in Nat /\ index[j] <= age
    BY DEF IInv, TypeOK, MapsAgree, Ages
  <2> QED
    BY <1>1, <1>4, <2>1, HeldIsIndexed DEF Older, Store!Among
<1> QED
  BY <1>1, <1>2, <1>6, <1>7, HeldIsIndexed DEF Store!Get

LEMMA DoomedAreOldestInAdd ==
    ASSUME IInv
    PROVE  Store!Oldest(NamesOf(Doomed))
<1>1. CASE EntriesThreshold # 0 /\ Crowded
  <2>1. Doomed = First(PurgeCount(PurgeThreshold))
    BY <1>1 DEF Doomed
  <2> QED
    BY <2>1, PurgeCountNat, DoomedAreOldest DEF IInv
<1>2. CASE ~(EntriesThreshold # 0 /\ Crowded)
  <2>1. NamesOf(Doomed) = {}
    BY <1>2 DEF Doomed, NamesOf
  <2> QED
    BY <2>1 DEF Store!Oldest
<1> QED
  BY <1>1, <1>2

LEMMA AddImplements ==
    ASSUME IInv, Disciplined, age < MaxAge,
           NEW k \in Keys, NEW o \in ObjectsOf({k}), Add(k, o)
    PROVE  Store!Put(k, o)
<1> DEFINE G == NamesOf(Doomed)
           S == (DOMAIN index) \ G
<1>1. k \notin DOMAIN index
  BY DEF Add, Disciplined
<1>2. PurgeAsserts(Doomed)
  BY DoomedCached, AssertsHold DEF IInv
<1>3. /\ index' = Insert(Erase(index, G), k, NextAge)
      /\ cache' = Insert(Erase(cache, Doomed), NextAge, [obj |-> o, name |-> k])
      /\ reply' = reply
  BY <1>2 DEF Add
<1>4. NextAge = age + 1 /\ NextAge \notin DOMAIN cache
  BY NewAge
<1>5. Store!Oldest(G) /\ G \in SUBSET Store!Held
  BY DoomedAreOldestInAdd DEF Store!Oldest
<1>6. /\ DOMAIN index' = S \cup {k}
      /\ index'[k] = age + 1
      /\ \A j \in S : index'[j] = index[j]
  BY <1>1, <1>3, <1>4 DEF Insert, Erase, Restrict
<1>7. cache'[index'[k]].obj = o
  BY <1>3, <1>4, <1>6 DEF Insert, Erase, Restrict
<1>8. \A j \in S : cache'[index'[j]] = cache[index[j]]
  <2> SUFFICES ASSUME NEW j \in S PROVE cache'[index'[j]] = cache[index[j]]
    OBVIOUS
  <2>1. index[j] \in DOMAIN cache /\ cache[index[j]].name = j
    BY DEF IInv, MapsAgree
  <2>2. index[j] \notin Doomed
    BY <2>1 DEF NamesOf
  <2> QED
    BY <1>3, <1>6, <2>1, <2>2 DEF Insert, Erase, Restrict
<1> HIDE DEF G
<1>9. Value' = [Store!Only(Store!Held \ G) EXCEPT ![k] = o]
  BY <1>6, <1>7, <1>8, HeldIsIndexed DEF Value, Store!Only
<1>10. Older' = Store!Among(Store!Held \ G) \cup ((Store!Held \ G) \X {k})
  <2>1. age \in Nat /\ \A j \in DOMAIN index : index[j] \in Nat /\ index[j] <= age
    BY DEF IInv, TypeOK, MapsAgree, Ages
  <2> QED
    BY <1>1, <1>6, <2>1, HeldIsIndexed DEF Older, Store!Among
<1> QED
  BY <1>1, <1>3, <1>5, <1>9, <1>10, HeldIsIndexed DEF Store!Put

\* With disciplined callers and ages that do not wrap around, the cache is a
\* store that drops its least recently used entries: get() returns what add()
\* stored, purge() and add() drop a prefix of the order of use.
THEOREM ImplementsLeastRecentlyUsedStore ==
    ~AddTwice /\ MaxAge < W => (Spec => LeastRecentlyUsedStore)
<1> SUFFICES ASSUME Disciplined PROVE Spec => LeastRecentlyUsedStore
  BY DEF Disciplined
<1>1. Init => Store!Init
  <2> SUFFICES ASSUME Init PROVE Store!Init
    OBVIOUS
  <2>1. DOMAIN index = {} /\ reply = None
    BY DEF Init
  <2> QED
    BY <2>1 DEF Store!Init, Value, Older
<1>2. IInv /\ [Next]_vars => [Store!Next]_<<Value, Older, reply>>
  <2> SUFFICES ASSUME IInv, [Next]_vars
               PROVE  Store!Next \/ UNCHANGED <<Value, Older, reply>>
    OBVIOUS
  <2>1. ASSUME NEW k \in Keys, age < MaxAge, NEW o \in ObjectsOf({k}), Add(k, o)
        PROVE  Store!Next
    <3>1. o \in Objects
      BY DEF Objects, ObjectsOf
    <3> QED
      BY <2>1, <3>1, AddImplements DEF Store!Next
  <2>2. ASSUME NEW k \in Keys, age < MaxAge, GetHit(k) PROVE Store!Next
    BY <2>2, GetHitImplements DEF Store!Next
  <2>3. ASSUME NEW k \in Keys, GetMiss(k) PROVE Store!Next
    BY <2>3, GetMissImplements DEF Store!Next
  <2>4. ASSUME NEW k \in Keys, Remove(k) PROVE Store!Next
    BY <2>4, RemoveImplements DEF Store!Next
  <2>5. ASSUME NEW f \in Fractions, Purge(f) PROVE Store!Next
    BY <2>5, PurgeImplements DEF Store!Next
  <2>6. CASE UNCHANGED vars
    BY <2>6 DEF vars, Value, Older
  <2> QED
    BY <2>1, <2>2, <2>3, <2>4, <2>5, <2>6 DEF Next
<1> QED
  BY <1>1, <1>2, Invariance, PTL DEF Spec, LeastRecentlyUsedStore, Store!Spec

-----------------------------------------------------------------------------
(* The threshold.  Nothing is asked of the callers: they may add a key     *)
(* twice, and ages may wrap around.                                        *)

\* The fraction that add() purges is at least one entry of a cache that is one over
\* the threshold.
PurgesSome == (EntriesThreshold + 1) * PurgeThreshold.num >= PurgeThreshold.den

AgesInUse == age \in Ages /\ DOMAIN cache \subseteq Ages

LEMMA InUseFinite ==
    ASSUME NEW S \in SUBSET Ages
    PROVE  IsFiniteSet(S) /\ Cardinality(S) \in Nat
<1>1. IsFiniteSet(Ages)
  BY FS_Interval, ObjMemCacheAssumption DEF Ages
<1> QED
  BY <1>1, FS_Subset, FS_CardinalityType

\* A purge of n entries, n > 0, takes the one whose age comes first.
LEMMA FirstTakesSome ==
    ASSUME AgesInUse, DOMAIN cache # {}, NEW n \in Nat \ {0}
    PROVE  \E a \in DOMAIN cache : a \in First(n)
<1>1. DOMAIN cache \subseteq Nat
  BY ObjMemCacheAssumption DEF AgesInUse, Ages
<1>2. IsWellFoundedOn(OpToRel(<, Nat), Nat)
  BY NatLessThanWellFounded, Zenon
<1>3. PICK a \in DOMAIN cache : \A b \in DOMAIN cache : <<b, a>> \notin OpToRel(<, Nat)
  BY <1>1, <1>2, WFMin, Zenon
<1>4. \A b \in DOMAIN cache : ~(b < a)
  BY <1>1, <1>3 DEF OpToRel
<1>5. {b \in DOMAIN cache : b < a} = {}
  BY <1>4
<1>6. Cardinality({b \in DOMAIN cache : b < a}) = 0
  BY <1>5, FS_EmptySet
<1> QED
  BY <1>6 DEF First

LEMMA NextAgeInUse ==
    ASSUME AgesInUse
    PROVE  NextAge \in Ages
BY ObjMemCacheAssumption DEF AgesInUse, Ages, NextAge

\* One insertion adds one entry at most.
LEMMA InsertGrows ==
    ASSUME NEW S \in SUBSET Ages, NEW a \in Ages
    PROVE  Cardinality(S \cup {a}) <= Cardinality(S) + 1 /\ Cardinality(S) \in Nat
           /\ Cardinality(S \cup {a}) \in Nat
<1>1. IsFiniteSet(S) /\ Cardinality(S) \in Nat
  BY InUseFinite
<1>2. Cardinality(S \cup {a}) = IF a \in S THEN Cardinality(S) ELSE Cardinality(S) + 1
  BY <1>1, FS_AddElement
<1> QED
  BY <1>1, <1>2

\* Taking one entry out and putting one in does not make the cache larger.
LEMMA ReplaceKeepsSize ==
    ASSUME NEW S \in SUBSET Ages, NEW D \in SUBSET S, D # {}, NEW a \in Ages
    PROVE  Cardinality((S \ D) \cup {a}) <= Cardinality(S)
<1>1. PICK d \in D : TRUE
  OBVIOUS
<1>2. IsFiniteSet(S) /\ Cardinality(S) \in Nat /\ d \in S
  BY <1>1, InUseFinite
<1>3. IsFiniteSet(S \ {d}) /\ Cardinality(S \ {d}) = Cardinality(S) - 1
  BY <1>2, FS_RemoveElement
<1>4. (S \ D) \subseteq S \ {d} /\ (S \ D) \in SUBSET Ages
  BY <1>1
<1>5. Cardinality(S \ D) <= Cardinality(S) - 1
  BY <1>3, <1>4, FS_Subset
<1>6. /\ Cardinality((S \ D) \cup {a}) <= Cardinality(S \ D) + 1
      /\ Cardinality(S \ D) \in Nat /\ Cardinality((S \ D) \cup {a}) \in Nat
  BY <1>4, InsertGrows
<1> QED
  BY <1>2, <1>5, <1>6

LEMMA AddKeepsThreshold ==
    ASSUME PurgesSome, AgesInUse, OneOverThreshold, EntriesThreshold # 0,
           NEW k \in Keys, NEW o, Add(k, o)
    PROVE  Cardinality(DOMAIN cache') <= EntriesThreshold + 1
<1> DEFINE S == DOMAIN cache
<1>1. EntriesThreshold \in Nat /\ S \in SUBSET Ages /\ Cardinality(S) \in Nat
  BY InUseFinite, ObjMemCacheAssumption DEF AgesInUse
<1>2. CASE ~PurgeAsserts(Doomed)
  BY <1>2 DEF Add, Abort, OneOverThreshold
<1>3. CASE PurgeAsserts(Doomed)
  <2>1. DOMAIN cache' = (S \ Doomed) \cup {NextAge}
    <3>1. cache' = Insert(Erase(cache, Doomed), NextAge, [obj |-> o, name |-> k])
      BY <1>3 DEF Add
    <3> QED
      BY <3>1 DEF Insert, Erase, Restrict
  <2>2. NextAge \in Ages
    BY NextAgeInUse
  <2>3. CASE ~Crowded
    <3>1. Cardinality(S) <= EntriesThreshold /\ Doomed = {}
      BY <1>1, <2>3 DEF Crowded, Doomed
    <3>2. Cardinality(S \cup {NextAge}) <= Cardinality(S) + 1
          /\ Cardinality(S \cup {NextAge}) \in Nat
      BY <1>1, <2>2, InsertGrows
    <3>3. DOMAIN cache' = S \cup {NextAge}
      BY <2>1, <3>1
    <3> QED
      BY <1>1, <3>1, <3>2, <3>3
  <2>4. CASE Crowded
    <3>1. Cardinality(S) = EntriesThreshold + 1
      BY <1>1, <2>4 DEF Crowded, OneOverThreshold
    <3>2. S # {}
      BY <1>1, <3>1, FS_EmptySet
    <3>3. PurgeCount(PurgeThreshold) \in Nat \ {0}
      <4>1. PurgeThreshold.num \in Nat /\ PurgeThreshold.den \in Nat \ {0}
        BY ObjMemCacheAssumption
      <4>2. (EntriesThreshold + 1) * PurgeThreshold.num \in Nat
        BY <1>1, <4>1
      <4>3. \A x \in Nat : \A d \in Nat \ {0} : x >= d => x \div d \in Nat \ {0}
        OBVIOUS
      <4> QED
        BY <3>1, <4>1, <4>2, <4>3 DEF PurgeCount, PurgesSome
    <3>4. Doomed \in SUBSET S /\ Doomed # {}
      BY <2>4, <3>2, <3>3, FirstTakesSome, DoomedCached DEF Doomed
    <3>5. Cardinality((S \ Doomed) \cup {NextAge}) <= Cardinality(S)
      BY <1>1, <2>2, <3>4, ReplaceKeepsSize
    <3> QED
      BY <2>1, <3>1, <3>5
  <2> QED
    BY <2>3, <2>4
<1> QED
  BY <1>2, <1>3

\* add() keeps the cache to one entry more than the threshold, when its purge removes
\* at least one entry of a full cache: whatever callers add, twice or not, and also
\* after d_age has wrapped around.
THEOREM ThresholdHolds ==
    PurgesSome => (Spec => []OneOverThreshold)
<1> SUFFICES ASSUME PurgesSome PROVE Spec => []OneOverThreshold
  OBVIOUS
<1> DEFINE Inv == AgesInUse /\ OneOverThreshold
<1>1. Init => Inv
  <2> SUFFICES ASSUME Init PROVE Inv
    OBVIOUS
  <2>1. age = 0 /\ DOMAIN cache = {}
    BY DEF Init
  <2>2. Cardinality(DOMAIN cache) = 0
    BY <2>1, FS_EmptySet
  <2> QED
    BY <2>1, <2>2, ObjMemCacheAssumption DEF AgesInUse, Ages, OneOverThreshold
<1>2. Inv /\ [Next]_vars => Inv'
  <2> SUFFICES ASSUME Inv, [Next]_vars PROVE Inv'
    OBVIOUS
  <2>0. /\ EntriesThreshold \in Nat /\ DOMAIN cache \in SUBSET Ages
        /\ Cardinality(DOMAIN cache) \in Nat /\ IsFiniteSet(DOMAIN cache)
    BY InUseFinite, ObjMemCacheAssumption DEF AgesInUse
  <2>1. ASSUME DOMAIN cache' \subseteq DOMAIN cache, age' = age PROVE Inv'
    <3>1. Cardinality(DOMAIN cache') <= Cardinality(DOMAIN cache)
          /\ Cardinality(DOMAIN cache') \in Nat
      BY <2>0, <2>1, FS_Subset, InUseFinite
    <3> QED
      BY <2>0, <2>1, <3>1 DEF AgesInUse, OneOverThreshold
  <2>2. ASSUME NEW k \in Keys, NEW o, Add(k, o) PROVE Inv'
    <3>1. AgesInUse'
      BY <2>2, NextAgeInUse, DoomedCached
      DEF Add, Abort, AgesInUse, Insert, Erase, Restrict
    <3> QED
      BY <2>2, <3>1, AddKeepsThreshold DEF OneOverThreshold
  <2>3. ASSUME NEW k \in Keys, GetHit(k) PROVE Inv'
    <3>1. CASE index[k] \notin DOMAIN cache
      <4>1. UNCHANGED <<cache, age>>
        BY <2>3, <3>1 DEF GetHit, Abort
      <4> QED
        BY <2>1, <4>1
    <3>2. CASE index[k] \in DOMAIN cache
      <4>1. /\ age' = NextAge /\ NextAge \in Ages
            /\ DOMAIN cache' = (DOMAIN cache \ {index[k]}) \cup {NextAge}
        BY <2>3, <3>2, NextAgeInUse DEF GetHit, Insert, Erase, Restrict
      <4>2. Cardinality(DOMAIN cache') <= Cardinality(DOMAIN cache)
        BY <2>0, <3>2, <4>1, ReplaceKeepsSize
      <4>3. DOMAIN cache' \in SUBSET Ages /\ Cardinality(DOMAIN cache') \in Nat
        BY <2>0, <4>1, InUseFinite
      <4> QED
        BY <2>0, <4>1, <4>2, <4>3 DEF AgesInUse, OneOverThreshold
    <3> QED
      BY <3>1, <3>2
  <2>4. ASSUME NEW k \in Keys, GetMiss(k) \/ Remove(k) PROVE Inv'
    <3>1. DOMAIN cache' \subseteq DOMAIN cache /\ age' = age
      BY <2>4 DEF GetMiss, Remove, Abort, Erase, Restrict
    <3> QED
      BY <2>1, <3>1
  <2>5. ASSUME NEW f \in Fractions, Purge(f) PROVE Inv'
    <3>1. DOMAIN cache' \subseteq DOMAIN cache /\ age' = age
      BY <2>5 DEF Purge, Abort, Erase, Restrict
    <3> QED
      BY <2>1, <3>1
  <2>6. CASE UNCHANGED vars
    BY <2>1, <2>6 DEF vars
  <2> QED
    BY <2>2, <2>3, <2>4, <2>5, <2>6 DEF Next
<1>3. Inv => OneOverThreshold
  OBVIOUS
<1> HIDE DEF Inv
<1> QED
  BY <1>1, <1>2, <1>3, PTL DEF Spec

=============================================================================
