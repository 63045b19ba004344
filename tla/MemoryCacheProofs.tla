------------------------- MODULE MemoryCacheProofs -------------------------
(* Proofs about MemoryCache.                                               *)
EXTENDS MemoryCache, FiniteSetTheorems, TLAPS

QueueInv == TypeOK /\ QueueMatchesMap

-----------------------------------------------------------------------------
(* The queue and the map.                                                  *)

\* push_back() of a key that the queue does not hold.
LEMMA Pushed ==
    ASSUME NEW q \in Seq(Keys), IsInjective(q), NEW k \in Keys, k \notin Range(q)
    PROVE  /\ Append(q, k) \in Seq(Keys)
           /\ IsInjective(Append(q, k))
           /\ Range(Append(q, k)) = Range(q) \cup {k}
<1>1. Append(q, k) \in Seq(Keys) /\ Len(Append(q, k)) = Len(q) + 1
  OBVIOUS
<1>2. /\ \A i \in 1..Len(q) : Append(q, k)[i] = q[i]
      /\ Append(q, k)[Len(q) + 1] = k
  OBVIOUS
<1>3. \A i \in 1..Len(q) : q[i] # k
  BY DEF Range
<1>4. DOMAIN q = 1..Len(q) /\ DOMAIN Append(q, k) = 1..(Len(q) + 1) /\ Len(q) \in Nat
  OBVIOUS
<1>5. IsInjective(Append(q, k))
  BY <1>1, <1>2, <1>3, <1>4 DEF IsInjective
<1>6. Range(Append(q, k)) = Range(q) \cup {k}
  BY <1>1, <1>2, <1>4 DEF Range
<1> QED
  BY <1>1, <1>5, <1>6

\* pop_front(), n times.
LEMMA Popped ==
    ASSUME NEW q \in Seq(Keys), IsInjective(q), NEW n \in Nat, n <= Len(q)
    PROVE  LET r == SubSeq(q, n + 1, Len(q)) IN
           /\ r \in Seq(Keys)
           /\ Len(r) = Len(q) - n
           /\ \A i \in 1..Len(r) : r[i] = q[i + n]
           /\ IsInjective(r)
           /\ Range(r) = {j \in Range(q) : \A i \in 1..n : q[i] # j}
<1> DEFINE r == SubSeq(q, n + 1, Len(q))
<1>1. DOMAIN q = 1..Len(q) /\ Len(q) \in Nat
  OBVIOUS
<1>2. /\ r \in Seq(Keys)
      /\ Len(r) = Len(q) - n
      /\ \A i \in 1..Len(r) : r[i] = q[i + n]
  OBVIOUS
<1>3. DOMAIN r = 1..Len(r)
  BY <1>2
<1> HIDE DEF r
<1>4. IsInjective(r)
  <2>1. ASSUME NEW a \in 1..Len(r), NEW b \in 1..Len(r), r[a] = r[b]
        PROVE  a = b
    <3>1. a + n \in 1..Len(q) /\ b + n \in 1..Len(q)
      BY <1>1, <1>2
    <3>2. q[a + n] = q[b + n]
      BY <1>2, <2>1
    <3>3. a + n = b + n
      BY <1>1, <3>1, <3>2 DEF IsInjective
    <3> QED
      BY <3>3
  <2> QED
    BY <1>3, <2>1 DEF IsInjective
<1>5. ASSUME NEW x \in Range(r) PROVE x \in Range(q) /\ \A i \in 1..n : q[i] # x
  <2>1. PICK m \in 1..Len(r) : x = r[m]
    BY <1>3 DEF Range
  <2>2. m + n \in 1..Len(q) /\ x = q[m + n]
    BY <1>1, <1>2, <2>1
  <2> QED
    BY <1>1, <2>1, <2>2 DEF Range, IsInjective
<1>6. ASSUME NEW x \in Range(q), \A i \in 1..n : q[i] # x PROVE x \in Range(r)
  <2>1. PICK m \in 1..Len(q) : x = q[m]
    BY <1>1 DEF Range
  <2>2. m - n \in 1..Len(r) /\ r[m - n] = x
    BY <1>1, <1>2, <1>6, <2>1
  <2> QED
    BY <1>3, <2>2 DEF Range
<1> QED
  BY <1>2, <1>4, <1>5, <1>6 DEF r

\* The keys that a purge leaves in the queue, once the new one has joined.
Rest(k) == SubSeq(Append(fifo, k), purgeItems + 1, Len(fifo) + 1)

\* What put() of a new key does when it purges.
LEMMA PutPurgeFacts ==
    ASSUME QueueInv, NEW k \in Keys, NEW v \in Values, PutPurge(k, v)
    PROVE  /\ fifo' = Rest(k)
           /\ fifo' \in Seq(Keys)
           /\ Len(fifo') = Len(fifo) + 1 - purgeItems
           /\ IsInjective(fifo')
           /\ DOMAIN cache' = Range(fifo')
           /\ Range(fifo') = {j \in DOMAIN cache \cup {k} :
                                 \A i \in 1..purgeItems : Append(fifo, k)[i] # j}
           /\ \A j \in DOMAIN cache' : cache'[j] = IF j = k THEN v ELSE cache[j]
<1> DEFINE q == Append(fifo, k)
<1>1. /\ fifo \in Seq(Keys) /\ IsInjective(fifo) /\ Range(fifo) = DOMAIN cache
      /\ purgeItems \in Nat /\ k \notin Range(fifo)
  BY DEF QueueInv, TypeOK, QueueMatchesMap, PutPurge
<1>2. /\ q \in Seq(Keys) /\ IsInjective(q) /\ Range(q) = DOMAIN cache \cup {k}
      /\ Len(q) = Len(fifo) + 1
  BY <1>1, Pushed
<1>3. purgeItems <= Len(q)
  BY <1>2 DEF PutPurge
<1>4. /\ fifo' = SubSeq(q, purgeItems + 1, Len(q))
      /\ cache' = Restrict(Inserted(k, v),
                    {j \in DOMAIN cache \cup {k} : \A i \in 1..purgeItems : q[i] # j})
  BY DEF PutPurge
<1> HIDE DEF q
<1>5. /\ fifo' \in Seq(Keys)
      /\ Len(fifo') = Len(q) - purgeItems
      /\ IsInjective(fifo')
      /\ Range(fifo') = {j \in Range(q) : \A i \in 1..purgeItems : q[i] # j}
  BY <1>1, <1>2, <1>3, <1>4, Popped
<1>6. /\ DOMAIN cache' = {j \in DOMAIN cache \cup {k} : \A i \in 1..purgeItems : q[i] # j}
      /\ \A j \in DOMAIN cache' : cache'[j] = IF j = k THEN v ELSE cache[j]
  BY <1>4 DEF Restrict, Inserted
<1>7. fifo' = Rest(k)
  BY <1>2, <1>4 DEF q, Rest
<1>8. Len(fifo') = Len(fifo) + 1 - purgeItems
  BY <1>1, <1>2, <1>5
<1>9. DOMAIN cache' = Range(fifo')
  BY <1>2, <1>5, <1>6
<1> QED
  BY <1>2, <1>5, <1>6, <1>7, <1>8, <1>9 DEF q

LEMMA PutPurgeKeepsQueueInv ==
    ASSUME QueueInv, NEW k \in Keys, NEW v \in Values, PutPurge(k, v)
    PROVE  QueueInv'
<1>1. UNCHANGED <<maxItems, purgeItems, reply, undefined>>
  BY DEF PutPurge
<1>2. QueueMatchesMap'
  BY PutPurgeFacts DEF QueueMatchesMap
<1>3. TypeOK'
  <2>1. /\ DOMAIN cache' \subseteq DOMAIN cache \cup {k}
        /\ \A j \in DOMAIN cache' : cache'[j] = IF j = k THEN v ELSE cache[j]
    BY PutPurgeFacts
  <2>2. \A j \in DOMAIN cache : cache[j] \in Values
    BY DEF QueueInv, TypeOK
  <2>3. DOMAIN cache' \subseteq Keys /\ \A j \in DOMAIN cache' : cache'[j] \in Values
    BY <2>1, <2>2 DEF QueueInv, TypeOK
  <2>4. fifo' \in Seq(Keys)
    BY PutPurgeFacts
  <2> QED
    BY <1>1, <2>3, <2>4 DEF QueueInv, TypeOK
<1> QED
  BY <1>2, <1>3 DEF QueueInv

LEMMA PutNewKeepsQueueInv ==
    ASSUME QueueInv, NEW k \in Keys, NEW v \in Values, PutNew(k, v)
    PROVE  QueueInv'
<1>1. /\ fifo \in Seq(Keys) /\ IsInjective(fifo) /\ Range(fifo) = DOMAIN cache
      /\ k \notin Range(fifo)
  BY DEF QueueInv, TypeOK, QueueMatchesMap, PutNew
<1>2. /\ fifo' = Append(fifo, k)
      /\ DOMAIN cache' = DOMAIN cache \cup {k}
      /\ \A j \in DOMAIN cache' : cache'[j] = IF j = k THEN v ELSE cache[j]
      /\ UNCHANGED <<maxItems, purgeItems, reply, undefined>>
  BY DEF PutNew, Inserted
<1>3. /\ fifo' \in Seq(Keys) /\ IsInjective(fifo')
      /\ Range(fifo') = DOMAIN cache'
  BY <1>1, <1>2, Pushed
<1> QED
  BY <1>2, <1>3 DEF QueueInv, TypeOK, QueueMatchesMap

LEMMA QueueInvariance ==
    ~MayThrow => (Spec => []QueueInv)
<1> SUFFICES ASSUME ~MayThrow PROVE Spec => []QueueInv
  OBVIOUS
<1>1. Init => QueueInv
  <2> SUFFICES ASSUME Init PROVE QueueInv
    OBVIOUS
  <2>1. fifo \in Seq(Keys) /\ DOMAIN fifo = {} /\ DOMAIN cache = {}
    BY DEF Init
  <2> QED
    BY <2>1, MemoryCacheAssumption
    DEF Init, QueueInv, TypeOK, QueueMatchesMap, IsInjective, Range
<1>2. QueueInv /\ [Next]_vars => QueueInv'
  <2> SUFFICES ASSUME QueueInv, [Next]_vars PROVE QueueInv'
    OBVIOUS
  <2>1. ASSUME NEW s \in Settings, Initialize(s) PROVE QueueInv'
    <3>1. s.max \in Nat \ {0} /\ s.purge \in Nat \ {0}
      BY <2>1, MemoryCacheAssumption DEF Initialize
    <3> QED
      BY <2>1, <3>1 DEF Initialize, QueueInv, TypeOK, QueueMatchesMap
  <2>2. ASSUME NEW k \in Keys, Get(k) PROVE QueueInv'
    BY <2>2 DEF Get, QueueInv, TypeOK, QueueMatchesMap
  <2>3. ASSUME NEW k \in Keys, NEW v \in Values, PutUpdate(k, v) PROVE QueueInv'
    BY <2>3 DEF PutUpdate, QueueInv, TypeOK, QueueMatchesMap
  <2>4. ASSUME NEW k \in Keys, NEW v \in Values, PutNew(k, v) PROVE QueueInv'
    BY <2>4, PutNewKeepsQueueInv
  <2>5. ASSUME NEW k \in Keys, NEW v \in Values, PutPurge(k, v) PROVE QueueInv'
    BY <2>5, PutPurgeKeepsQueueInv
  <2>6. ASSUME NEW k \in Keys, PutPurgeUndefined(k) PROVE QueueInv'
    BY <2>6 DEF PutPurgeUndefined, QueueInv, TypeOK, QueueMatchesMap
  <2>7. CASE Clear
    <3>1. /\ fifo' \in Seq(Keys) /\ DOMAIN fifo' = {} /\ DOMAIN cache' = {}
          /\ UNCHANGED <<maxItems, purgeItems, reply, undefined>>
      BY <2>7 DEF Clear
    <3> QED
      BY <3>1 DEF QueueInv, TypeOK, QueueMatchesMap, IsInjective, Range
  <2>8. CASE UNCHANGED vars
    BY <2>8 DEF vars, QueueInv, TypeOK, QueueMatchesMap
  <2> QED
    BY <2>1, <2>2, <2>3, <2>4, <2>5, <2>6, <2>7, <2>8 DEF Next, PutThrows
<1> QED
  BY <1>1, <1>2, PTL DEF Spec

\* The queue holds the keys of the map, each once, whatever limits the cache
\* is given and whenever: purge() finds the entry of every key it pops.
THEOREM QueueAndMapAgree ==
    ~MayThrow => (Spec => []QueueMatchesMap)
<1>1. QueueInv => QueueMatchesMap
  BY DEF QueueInv
<1> QED
  BY <1>1, QueueInvariance, PTL

-----------------------------------------------------------------------------
(* The order of the queue.                                                 *)

OlderOf(q) == {p \in Range(q) \X Range(q) :
                  \E i, j \in DOMAIN q : i < j /\ p = <<q[i], q[j]>>}

LEMMA OlderOfPushed ==
    ASSUME NEW q \in Seq(Keys), NEW k \in Keys, k \notin Range(q)
    PROVE  OlderOf(Append(q, k)) = OlderOf(q) \cup (Range(q) \X {k})
<1> DEFINE r == Append(q, k)
<1>1. /\ DOMAIN q = 1..Len(q) /\ Len(q) \in Nat
      /\ DOMAIN r = 1..(Len(q) + 1)
      /\ \A i \in 1..Len(q) : r[i] = q[i]
      /\ r[Len(q) + 1] = k
  OBVIOUS
<1> HIDE DEF r
<1>2. Range(r) = Range(q) \cup {k}
  BY <1>1 DEF Range
<1>3. ASSUME NEW p \in OlderOf(r) PROVE p \in OlderOf(q) \cup (Range(q) \X {k})
  <2>1. PICK i, j \in 1..(Len(q) + 1) : i < j /\ p = <<r[i], r[j]>>
    BY <1>1 DEF OlderOf
  <2>2. i \in 1..Len(q) /\ r[i] = q[i] /\ q[i] \in Range(q)
    BY <1>1, <2>1 DEF Range
  <2>3. CASE j = Len(q) + 1
    BY <1>1, <2>1, <2>2, <2>3
  <2>4. CASE j \in 1..Len(q)
    <3>1. r[j] = q[j] /\ q[j] \in Range(q)
      BY <1>1, <2>4 DEF Range
    <3> QED
      BY <1>1, <2>1, <2>2, <2>4, <3>1 DEF OlderOf
  <2> QED
    BY <1>1, <2>3, <2>4
<1>4. ASSUME NEW p \in OlderOf(q) PROVE p \in OlderOf(r)
  <2>1. PICK i, j \in 1..Len(q) : i < j /\ p = <<q[i], q[j]>>
    BY <1>1, <1>4 DEF OlderOf
  <2>2. p \in Range(r) \X Range(r)
    BY <1>2, <1>4 DEF OlderOf
  <2>3. i \in DOMAIN r /\ j \in DOMAIN r /\ p = <<r[i], r[j]>>
    BY <1>1, <2>1
  <2> QED
    BY <2>1, <2>2, <2>3 DEF OlderOf
<1>5. ASSUME NEW x \in Range(q) PROVE <<x, k>> \in OlderOf(r)
  <2>1. PICK i \in 1..Len(q) : x = q[i]
    BY <1>1 DEF Range
  <2>2. i \in DOMAIN r /\ Len(q) + 1 \in DOMAIN r /\ i < Len(q) + 1
    BY <1>1, <2>1
  <2>3. <<x, k>> = <<r[i], r[Len(q) + 1]>>
    BY <1>1, <2>1
  <2>4. <<x, k>> \in Range(r) \X Range(r)
    BY <1>2
  <2> QED
    BY <2>2, <2>3, <2>4 DEF OlderOf
<1> QED
  BY <1>3, <1>4, <1>5 DEF r

\* r is q without its first n elements.
IsTail(r, q, n) ==
    /\ r \in Seq(Keys) /\ Len(r) = Len(q) - n
    /\ \A i \in 1..Len(r) : r[i] = q[i + n]
    /\ Range(r) \subseteq Range(q)

LEMMA OlderOfPopped ==
    ASSUME NEW q \in Seq(Keys), IsInjective(q), NEW n \in Nat, n <= Len(q),
           NEW r, IsTail(r, q, n)
    PROVE  OlderOf(r) = OlderOf(q) \cap (Range(r) \X Range(r))
<1>0. /\ r \in Seq(Keys)
      /\ \A i \in 1..Len(r) : r[i] = q[i + n]
      /\ Range(r) \subseteq Range(q)
  BY DEF IsTail
<1>1. Len(r) \in Nat /\ Len(q) = Len(r) + n
  BY DEF IsTail
<1>2. DOMAIN q = 1..Len(q) /\ DOMAIN r = 1..Len(r) /\ Len(q) \in Nat
  BY <1>0, <1>1
<1>3. \A i \in 1..Len(r) : i + n \in 1..Len(q)
  BY <1>1
<1>4. ASSUME NEW p \in OlderOf(r) PROVE p \in OlderOf(q)
  <2>1. PICK i, j \in 1..Len(r) : i < j /\ p = <<r[i], r[j]>>
    BY <1>2 DEF OlderOf
  <2>2. i + n \in DOMAIN q /\ j + n \in DOMAIN q /\ i + n < j + n
    BY <1>2, <1>3, <2>1
  <2>3. p = <<q[i + n], q[j + n]>>
    BY <1>0, <2>1
  <2>4. p \in Range(q) \X Range(q)
    BY <1>0, <1>4 DEF OlderOf
  <2> QED
    BY <2>2, <2>3, <2>4 DEF OlderOf
<1>5. ASSUME NEW p \in OlderOf(q), p \in Range(r) \X Range(r)
      PROVE  p \in OlderOf(r)
  <2>1. PICK i, j \in 1..Len(q) : i < j /\ p = <<q[i], q[j]>>
    BY <1>2 DEF OlderOf
  <2>2. q[i] \in Range(r) /\ q[j] \in Range(r)
    BY <1>5, <2>1
  <2>3. PICK m \in 1..Len(r) : r[m] = q[i]
    BY <1>2, <2>2 DEF Range
  <2>4. PICK h \in 1..Len(r) : r[h] = q[j]
    BY <1>2, <2>2 DEF Range
  <2>5. m + n = i /\ h + n = j
    BY <1>0, <1>2, <1>3, <2>3, <2>4 DEF IsInjective
  <2>6. m < h
    BY <2>1, <2>5
  <2> QED
    BY <1>2, <1>5, <2>1, <2>3, <2>4, <2>6 DEF OlderOf
<1> QED
  BY <1>4, <1>5 DEF OlderOf

LEMMA OlderOfPurged ==
    ASSUME NEW q \in Seq(Keys), IsInjective(q),
           NEW k \in Keys, k \notin Range(q), NEW n \in Nat, n <= Len(q)
    PROVE  LET r == SubSeq(Append(q, k), n + 1, Len(q) + 1)
           IN  OlderOf(r) = (OlderOf(q) \cup (Range(q) \X {k}))
                               \cap (Range(r) \X Range(r))
<1>1. PICK p : p = Append(q, k)
  OBVIOUS
<1>2. PICK r : r = SubSeq(p, n + 1, Len(p))
  OBVIOUS
<1>3. /\ p \in Seq(Keys) /\ IsInjective(p) /\ Range(p) = Range(q) \cup {k}
      /\ Len(p) = Len(q) + 1 /\ n <= Len(p)
  BY <1>1, Pushed
<1>4. IsTail(r, p, n)
  BY <1>2, <1>3, Popped DEF IsTail
<1>5. OlderOf(r) = OlderOf(p) \cap (Range(r) \X Range(r))
  BY <1>3, <1>4, OlderOfPopped
<1>6. OlderOf(p) = OlderOf(q) \cup (Range(q) \X {k})
  BY <1>1, OlderOfPushed
<1>7. r = SubSeq(Append(q, k), n + 1, Len(q) + 1)
  BY <1>1, <1>2, <1>3
<1> QED
  BY <1>5, <1>6, <1>7

LEMMA SizeOfQueue ==
    ASSUME QueueInv
    PROVE  Size = Len(fifo)
<1>1. /\ DOMAIN fifo = 1..Len(fifo) /\ Len(fifo) \in Nat
      /\ IsInjective(fifo) /\ Range(fifo) = DOMAIN cache
  BY DEF QueueInv, TypeOK, QueueMatchesMap
<1>2. fifo \in [1..Len(fifo) -> Range(fifo)]
  BY <1>1 DEF QueueInv, TypeOK, Range
<1>3. \A x \in Range(fifo) : \E i \in 1..Len(fifo) : fifo[i] = x
  BY <1>1 DEF Range
<1>4. fifo \in Injection(1..Len(fifo), Range(fifo))
  BY <1>1, <1>2 DEF Injection
<1>5. fifo \in Surjection(1..Len(fifo), Range(fifo))
  BY <1>2, <1>3 DEF Surjection
<1>6. IsFiniteSet(1..Len(fifo)) /\ Cardinality(1..Len(fifo)) = Len(fifo)
  BY <1>1, FS_Interval
<1> QED
  BY <1>1, <1>4, <1>5, <1>6, FS_Surjection DEF Size

-----------------------------------------------------------------------------
(* The cache implements a first-in first-out store.                        *)

\* No setting purges more than it admits.
SettingsFit ==
    DefaultPurge <= DefaultMax /\ \A s \in Settings : s.purge <= s.max

FitInv == QueueInv /\ purgeItems <= maxItems

LEMMA HeldIsCached ==
    ASSUME QueueInv
    PROVE  /\ Store!Held = DOMAIN cache
           /\ \A k \in DOMAIN cache : Value[k] = cache[k]
           /\ Older = OlderOf(fifo)
<1>1. /\ DOMAIN cache \subseteq Keys
      /\ \A k \in DOMAIN cache : cache[k] \in Values
  BY DEF QueueInv, TypeOK
<1>2. \A k \in DOMAIN cache : cache[k] # None
  BY <1>1, MemoryCacheAssumption
<1> QED
  BY <1>1, <1>2 DEF Store!Held, Value, Older, OlderOf

LEMMA PutNewImplements ==
    ASSUME QueueInv, NEW k \in Keys, NEW v \in Values, PutNew(k, v)
    PROVE  Store!Put(k, v)
<1>1. /\ fifo \in Seq(Keys) /\ Range(fifo) = DOMAIN cache /\ k \notin DOMAIN cache
      /\ fifo' = Append(fifo, k) /\ reply' = reply
      /\ DOMAIN cache' = DOMAIN cache \cup {k}
      /\ \A j \in DOMAIN cache' : cache'[j] = IF j = k THEN v ELSE cache[j]
  BY DEF QueueInv, TypeOK, QueueMatchesMap, PutNew, Inserted
<1>2. Value' = [Store!Only(Store!Held \ {}) EXCEPT ![k] = v]
  BY <1>1, HeldIsCached DEF Value, Store!Only
<1>3. Older' = OlderOf(fifo')
  BY DEF Older, OlderOf
<1>4. Older' = Older \cup ((DOMAIN cache) \X {k})
  BY <1>1, <1>3, OlderOfPushed, HeldIsCached
<1>5. Older \subseteq (DOMAIN cache) \X (DOMAIN cache)
  BY <1>1 DEF Older
<1>6. Older' = Store!Among(Store!Held \ {}) \cup ((Store!Held \ {}) \X {k})
  BY <1>4, <1>5, HeldIsCached DEF Store!Among
<1>7. Store!Oldest({}) /\ {} \in SUBSET Store!Held
  BY DEF Store!Oldest
<1> QED
  BY <1>1, <1>2, <1>6, <1>7, HeldIsCached DEF Store!Put

\* The keys at the front of the queue are the oldest.
LEMMA FrontIsOldest ==
    ASSUME QueueInv, NEW n \in Nat, n <= Len(fifo)
    PROVE  Store!Oldest({fifo[i] : i \in 1..n})
<1> DEFINE G == {fifo[i] : i \in 1..n}
<1>1. /\ DOMAIN fifo = 1..Len(fifo) /\ Len(fifo) \in Nat
      /\ IsInjective(fifo) /\ Range(fifo) = DOMAIN cache
  BY DEF QueueInv, TypeOK, QueueMatchesMap
<1>2. G \subseteq Store!Held
  BY <1>1, HeldIsCached DEF Range
<1>3. ASSUME NEW x \in G, NEW j \in Store!Held, <<j, x>> \in Older PROVE j \in G
  <2>1. PICK m, h \in DOMAIN fifo : m < h /\ <<j, x>> = <<fifo[m], fifo[h]>>
    BY <1>3 DEF Older
  <2>2. PICK i \in 1..n : x = fifo[i]
    BY <1>3
  <2>3. i \in DOMAIN fifo /\ fifo[h] = fifo[i] /\ j = fifo[m]
    BY <1>1, <2>1, <2>2
  <2>4. h = i
    BY <1>1, <2>1, <2>3 DEF IsInjective
  <2>5. m \in 1..n
    BY <1>1, <2>1, <2>2, <2>4
  <2> QED
    BY <2>3, <2>5
<1> QED
  BY <1>2, <1>3 DEF Store!Oldest

LEMMA PutPurgeImplements ==
    ASSUME FitInv, NEW k \in Keys, NEW v \in Values, PutPurge(k, v)
    PROVE  Store!Put(k, v)
<1> DEFINE G == {fifo[i] : i \in 1..purgeItems}
           S == DOMAIN cache \ G
<1>1. /\ fifo \in Seq(Keys) /\ DOMAIN fifo = 1..Len(fifo) /\ Len(fifo) \in Nat
      /\ IsInjective(fifo) /\ Range(fifo) = DOMAIN cache
      /\ k \notin DOMAIN cache /\ reply' = reply
      /\ purgeItems \in Nat /\ maxItems \in Nat /\ purgeItems <= maxItems
  BY DEF FitInv, QueueInv, TypeOK, QueueMatchesMap, PutPurge
<1>2. purgeItems <= Len(fifo)
  BY <1>1, SizeOfQueue DEF FitInv, PutPurge
<1>3. Store!Oldest(G) /\ G \in SUBSET Store!Held
  BY <1>1, <1>2, FrontIsOldest DEF FitInv, Store!Oldest
<1>4. \A i \in 1..purgeItems : Append(fifo, k)[i] = fifo[i] /\ fifo[i] # k
  BY <1>1, <1>2 DEF Range
<1>5. Range(fifo') = S \cup {k} /\ DOMAIN cache' = S \cup {k}
  <2>1. Range(fifo') = {j \in DOMAIN cache \cup {k} :
                           \A i \in 1..purgeItems : fifo[i] # j}
    <3>1. Range(fifo') = {j \in DOMAIN cache \cup {k} :
                              \A i \in 1..purgeItems : Append(fifo, k)[i] # j}
      BY PutPurgeFacts DEF FitInv
    <3> QED
      BY <1>4, <3>1
  <2>2. Range(fifo') = S \cup {k}
    BY <1>1, <1>4, <2>1
  <2> QED
    BY <2>2, PutPurgeFacts DEF FitInv
<1>6. \A j \in DOMAIN cache' : cache'[j] = IF j = k THEN v ELSE cache[j]
  BY PutPurgeFacts DEF FitInv
<1>7. Value' = [Store!Only(Store!Held \ G) EXCEPT ![k] = v]
  BY <1>1, <1>5, <1>6, HeldIsCached DEF Value, Store!Only, FitInv
<1>8. Older' = Store!Among(Store!Held \ G) \cup ((Store!Held \ G) \X {k})
  <2>5. OlderOf(fifo') = (OlderOf(fifo) \cup (Range(fifo) \X {k}))
                            \cap (Range(fifo') \X Range(fifo'))
    <3>1. OlderOf(Rest(k)) = (OlderOf(fifo) \cup (Range(fifo) \X {k}))
                                \cap (Range(Rest(k)) \X Range(Rest(k)))
      BY <1>1, <1>2, OlderOfPurged DEF Rest
    <3>2. fifo' = Rest(k)
      BY PutPurgeFacts DEF FitInv
    <3> QED
      BY <3>1, <3>2
  <2>6. Older' = OlderOf(fifo')
    BY DEF Older, OlderOf
  <2>7. Older \subseteq (DOMAIN cache) \X (DOMAIN cache)
    BY <1>1 DEF Older
  <2>8. Older' = (Older \cup ((DOMAIN cache) \X {k}))
                    \cap ((S \cup {k}) \X (S \cup {k}))
    BY <1>1, <1>5, <2>5, <2>6, HeldIsCached DEF FitInv
  <2> HIDE DEF G
  <2>9. Older' = (Older \cap (S \X S)) \cup (S \X {k})
    BY <1>1, <2>7, <2>8
  <2> QED
    BY <2>9, HeldIsCached DEF Store!Among, FitInv
<1> HIDE DEF G
<1> QED
  BY <1>1, <1>3, <1>7, <1>8, HeldIsCached DEF Store!Put, FitInv

LEMMA OthersImplement ==
    ASSUME QueueInv, [Next]_vars, ~MayThrow,
           \A k \in Keys, v \in Values : ~PutNew(k, v) /\ ~PutPurge(k, v)
    PROVE  Store!Next \/ UNCHANGED <<Value, Older, reply>>
<1>1. ASSUME NEW k \in Keys, Get(k) PROVE Store!Next
  <2>1. Store!Get(k)
    BY <1>1, HeldIsCached DEF Get, Store!Get, Value, Older, QueueInv, TypeOK
  <2> QED
    BY <2>1 DEF Store!Next
<1>2. ASSUME NEW k \in Keys, NEW v \in Values, PutUpdate(k, v) PROVE Store!Next
  <2>1. k \in Store!Held
    BY <1>2, HeldIsCached DEF PutUpdate
  <2>2. /\ cache' = [cache EXCEPT ![k] = v] /\ DOMAIN cache' = DOMAIN cache
        /\ fifo' = fifo /\ reply' = reply
    BY <1>2 DEF PutUpdate
  <2>3. Value' = [Value EXCEPT ![k] = v]
    BY <1>2, <2>2 DEF Value, PutUpdate
  <2>4. Store!Update(k, v)
    BY <2>1, <2>2, <2>3 DEF Store!Update, Older
  <2> QED
    BY <2>4 DEF Store!Next
<1>3. CASE Clear
  <2>1. DOMAIN cache' = {} /\ Range(fifo') = {} /\ reply' = reply
    BY <1>3 DEF Clear, Range
  <2>2. Value' = Store!Only(Store!Held \ Store!Held) /\ Older' = {}
    BY <2>1 DEF Value, Older, Store!Only
  <2>3. Store!Among(Store!Held \ Store!Held) = {}
    BY DEF Store!Among
  <2>4. Store!Oldest(Store!Held)
    BY DEF Store!Oldest
  <2>5. Store!Evict
    BY <2>1, <2>2, <2>3, <2>4 DEF Store!Evict
  <2> QED
    BY <2>5 DEF Store!Next
<1>4. ASSUME NEW s \in Settings, Initialize(s)
      PROVE  UNCHANGED <<Value, Older, reply>>
  BY <1>4 DEF Initialize, Value, Older
<1>5. ASSUME NEW k \in Keys, PutPurgeUndefined(k)
      PROVE  UNCHANGED <<Value, Older, reply>>
  BY <1>5 DEF PutPurgeUndefined, Value, Older
<1>6. CASE UNCHANGED vars
  BY <1>6 DEF vars, Value, Older
<1> QED
  BY <1>1, <1>2, <1>3, <1>4, <1>5, <1>6 DEF Next, PutThrows

LEMMA FitInvariance ==
    ~MayThrow /\ SettingsFit => (Spec => []FitInv)
<1> SUFFICES ASSUME ~MayThrow, SettingsFit PROVE Spec => []FitInv
  OBVIOUS
<1> DEFINE Fit == purgeItems <= maxItems
<1>1. Init => Fit
  BY DEF Init, SettingsFit
<1>2. Fit /\ [Next]_vars => Fit'
  BY DEF SettingsFit, Next, vars, Initialize, Get, PutUpdate, PutNew, PutPurge,
         PutPurgeUndefined, PutThrows, Clear
<1>3. QueueInv /\ Fit => FitInv
  BY DEF FitInv
<1> HIDE DEF Fit
<1> QED
  BY <1>1, <1>2, <1>3, QueueInvariance, PTL DEF Spec

\* Whatever limits initialize() sets, and at any time, provided that no limit
\* purges more than it admits, the cache is a store that drops its oldest
\* entries, keeps the newest, and delivers the value put last.
THEOREM ImplementsFirstInFirstOutStore ==
    ~MayThrow /\ SettingsFit => (Spec => FirstInFirstOutStore)
<1> SUFFICES ASSUME ~MayThrow, SettingsFit PROVE Spec => FirstInFirstOutStore
  OBVIOUS
<1>1. Init => Store!Init
  <2> SUFFICES ASSUME Init PROVE Store!Init
    OBVIOUS
  <2>1. DOMAIN cache = {} /\ DOMAIN fifo = {} /\ reply = None
    BY DEF Init
  <2> QED
    BY <2>1 DEF Store!Init, Value, Older, Range
<1>2. FitInv /\ [Next]_vars => [Store!Next]_<<Value, Older, reply>>
  <2> SUFFICES ASSUME FitInv, [Next]_vars
               PROVE  Store!Next \/ UNCHANGED <<Value, Older, reply>>
    OBVIOUS
  <2>1. ASSUME NEW k \in Keys, NEW v \in Values, PutNew(k, v) PROVE Store!Next
    BY <2>1, PutNewImplements DEF Store!Next, FitInv
  <2>2. ASSUME NEW k \in Keys, NEW v \in Values, PutPurge(k, v) PROVE Store!Next
    BY <2>2, PutPurgeImplements DEF Store!Next
  <2> QED
    BY <2>1, <2>2, OthersImplement DEF FitInv
<1> QED
  BY <1>1, <1>2, FitInvariance, PTL DEF Spec, FirstInFirstOutStore, Store!Spec

-----------------------------------------------------------------------------
(* The check that the class makes of itself.                               *)

LEMMA FitsInvariant ==
    ASSUME QueueInv, Len(fifo) <= maxItems
    PROVE  Invariant
<1>1. Size = Len(fifo)
  BY SizeOfQueue
<1>2. \A i \in 1..Len(fifo) : fifo[i] \in DOMAIN cache
  BY DEF QueueInv, TypeOK, QueueMatchesMap, Range
<1> QED
  BY <1>1, <1>2 DEF Invariant

\* invariant() holds after every call when initialize() is not called again:
\* no more than d_max_items entries, as many keys as entries, and every key
\* of the queue in the map.
THEOREM InvariantHolds ==
    ~MayThrow /\ Settings = {} => (Spec => []Invariant)
<1> SUFFICES ASSUME ~MayThrow, Settings = {} PROVE Spec => []Invariant
  OBVIOUS
<1> DEFINE Fits == Len(fifo) <= maxItems
<1>1. Init => Fits
  BY MemoryCacheAssumption DEF Init
<1>2. QueueInv /\ Fits /\ [Next]_vars => Fits'
  <2> SUFFICES ASSUME QueueInv, Fits, [Next]_vars PROVE Fits'
    OBVIOUS
  <2>1. /\ Size = Len(fifo) /\ fifo \in Seq(Keys)
        /\ maxItems \in Nat /\ purgeItems \in Nat \ {0}
    BY SizeOfQueue DEF QueueInv, TypeOK
  <2>2. ASSUME NEW k \in Keys, NEW v \in Values, PutNew(k, v) PROVE Fits'
    BY <2>1, <2>2 DEF PutNew
  <2>3. ASSUME NEW k \in Keys, NEW v \in Values, PutPurge(k, v) PROVE Fits'
    <3>1. Len(fifo') = Len(fifo) + 1 - purgeItems /\ maxItems' = maxItems
      BY <2>3, PutPurgeFacts DEF PutPurge
    <3> QED
      BY <2>1, <3>1
  <2>4. CASE Clear
    BY <2>1, <2>4 DEF Clear
  <2>5. ASSUME NEW k \in Keys, NEW v \in Values, PutUpdate(k, v) PROVE Fits'
    BY <2>5 DEF PutUpdate
  <2>6. ASSUME NEW k \in Keys, Get(k) \/ PutPurgeUndefined(k) PROVE Fits'
    BY <2>6 DEF Get, PutPurgeUndefined
  <2>7. CASE UNCHANGED vars
    BY <2>7 DEF vars
  <2> QED
    BY <2>2, <2>3, <2>4, <2>5, <2>6, <2>7 DEF Next, PutThrows
<1>3. QueueInv /\ Fits => Invariant
  BY FitsInvariant
<1> HIDE DEF Fits
<1> QED
  BY <1>1, <1>2, <1>3, QueueInvariance, PTL DEF Spec

-----------------------------------------------------------------------------
(* What is left of it when put() can fail half way, and the limit.         *)

LeadsInv == TypeOK /\ QueueLeadsToEntries

LEMMA PutNewKeepsLeadsInv ==
    ASSUME LeadsInv, NEW k \in Keys, NEW v \in Values, PutNew(k, v)
    PROVE  LeadsInv'
<1>1. /\ fifo \in Seq(Keys) /\ IsInjective(fifo) /\ Range(fifo) \subseteq DOMAIN cache
      /\ k \notin Range(fifo)
  BY DEF LeadsInv, TypeOK, QueueLeadsToEntries, PutNew
<1>2. /\ fifo' = Append(fifo, k)
      /\ DOMAIN cache' = DOMAIN cache \cup {k}
      /\ \A j \in DOMAIN cache' : cache'[j] = IF j = k THEN v ELSE cache[j]
      /\ UNCHANGED <<maxItems, purgeItems, reply, undefined>>
  BY DEF PutNew, Inserted
<1>3. /\ fifo' \in Seq(Keys) /\ IsInjective(fifo')
      /\ Range(fifo') \subseteq DOMAIN cache'
  BY <1>1, <1>2, Pushed
<1> QED
  BY <1>2, <1>3 DEF LeadsInv, TypeOK, QueueLeadsToEntries

\* purge() erases the entries of the keys it pops, and each key is in the queue
\* once, so no key that stays loses its entry.
LEMMA PutPurgeKeepsLeadsInv ==
    ASSUME LeadsInv, NEW k \in Keys, NEW v \in Values, PutPurge(k, v)
    PROVE  LeadsInv'
<1> DEFINE q == Append(fifo, k)
<1>1. /\ fifo \in Seq(Keys) /\ IsInjective(fifo) /\ Range(fifo) \subseteq DOMAIN cache
      /\ purgeItems \in Nat /\ k \notin Range(fifo)
  BY DEF LeadsInv, TypeOK, QueueLeadsToEntries, PutPurge
<1>2. /\ q \in Seq(Keys) /\ IsInjective(q) /\ Range(q) \subseteq DOMAIN cache \cup {k}
      /\ Len(q) = Len(fifo) + 1
  BY <1>1, Pushed
<1>3. purgeItems <= Len(q)
  BY <1>2 DEF PutPurge
<1>4. /\ fifo' = SubSeq(q, purgeItems + 1, Len(q))
      /\ cache' = Restrict(Inserted(k, v),
                    {j \in DOMAIN cache \cup {k} : \A i \in 1..purgeItems : q[i] # j})
      /\ UNCHANGED <<maxItems, purgeItems, reply, undefined>>
  BY DEF PutPurge
<1> HIDE DEF q
<1>5. /\ fifo' \in Seq(Keys)
      /\ IsInjective(fifo')
      /\ Range(fifo') = {j \in Range(q) : \A i \in 1..purgeItems : q[i] # j}
  BY <1>1, <1>2, <1>3, <1>4, Popped
<1>6. /\ DOMAIN cache' = {j \in DOMAIN cache \cup {k} : \A i \in 1..purgeItems : q[i] # j}
      /\ \A j \in DOMAIN cache' : cache'[j] = IF j = k THEN v ELSE cache[j]
  BY <1>4 DEF Restrict, Inserted
<1>7. QueueLeadsToEntries'
  BY <1>2, <1>5, <1>6 DEF QueueLeadsToEntries
<1>8. DOMAIN cache' \subseteq Keys /\ \A j \in DOMAIN cache' : cache'[j] \in Values
  BY <1>6 DEF LeadsInv, TypeOK
<1> QED
  BY <1>4, <1>5, <1>7, <1>8 DEF LeadsInv, TypeOK

LEMMA LeadsInvariance ==
    Spec => []LeadsInv
<1>1. Init => LeadsInv
  <2> SUFFICES ASSUME Init PROVE LeadsInv
    OBVIOUS
  <2>1. fifo \in Seq(Keys) /\ DOMAIN fifo = {} /\ DOMAIN cache = {}
    BY DEF Init
  <2> QED
    BY <2>1, MemoryCacheAssumption
    DEF Init, LeadsInv, TypeOK, QueueLeadsToEntries, IsInjective, Range
<1>2. LeadsInv /\ [Next]_vars => LeadsInv'
  <2> SUFFICES ASSUME LeadsInv, [Next]_vars PROVE LeadsInv'
    OBVIOUS
  <2>1. ASSUME NEW s \in Settings, Initialize(s) PROVE LeadsInv'
    <3>1. s.max \in Nat \ {0} /\ s.purge \in Nat \ {0}
      BY <2>1, MemoryCacheAssumption DEF Initialize
    <3> QED
      BY <2>1, <3>1 DEF Initialize, LeadsInv, TypeOK, QueueLeadsToEntries
  <2>2. ASSUME NEW k \in Keys, Get(k) PROVE LeadsInv'
    BY <2>2 DEF Get, LeadsInv, TypeOK, QueueLeadsToEntries
  <2>3. ASSUME NEW k \in Keys, NEW v \in Values, PutUpdate(k, v) PROVE LeadsInv'
    BY <2>3 DEF PutUpdate, LeadsInv, TypeOK, QueueLeadsToEntries
  <2>4. ASSUME NEW k \in Keys, NEW v \in Values, PutNew(k, v) PROVE LeadsInv'
    BY <2>4, PutNewKeepsLeadsInv
  <2>5. ASSUME NEW k \in Keys, NEW v \in Values, PutPurge(k, v) PROVE LeadsInv'
    BY <2>5, PutPurgeKeepsLeadsInv
  <2>6. ASSUME NEW k \in Keys, PutPurgeUndefined(k) PROVE LeadsInv'
    BY <2>6 DEF PutPurgeUndefined, LeadsInv, TypeOK, QueueLeadsToEntries
  <2>7. ASSUME NEW k \in Keys, NEW v \in Values, PutThrows(k, v) PROVE LeadsInv'
    BY <2>7 DEF PutThrows, Inserted, LeadsInv, TypeOK, QueueLeadsToEntries
  <2>8. CASE Clear
    <3>1. /\ fifo' \in Seq(Keys) /\ DOMAIN fifo' = {} /\ DOMAIN cache' = {}
          /\ UNCHANGED <<maxItems, purgeItems, reply, undefined>>
      BY <2>8 DEF Clear
    <3> QED
      BY <3>1 DEF LeadsInv, TypeOK, QueueLeadsToEntries, IsInjective, Range
  <2>9. CASE UNCHANGED vars
    BY <2>9 DEF vars, LeadsInv, TypeOK, QueueLeadsToEntries
  <2> QED
    BY <2>1, <2>2, <2>3, <2>4, <2>5, <2>6, <2>7, <2>8, <2>9 DEF Next
<1> QED
  BY <1>1, <1>2, PTL DEF Spec

\* Every variable keeps its type, and the limits in force are positive, whatever
\* initialize() is called with and whether or not put() throws.
THEOREM TypeCorrect ==
    Spec => []TypeOK
<1>1. LeadsInv => TypeOK
  BY DEF LeadsInv
<1> QED
  BY <1>1, LeadsInvariance, PTL

\* Whatever put() leaves half done, purge() finds an entry for every key it pops,
\* and pops no key twice: erase() is never called with end().
THEOREM QueueAlwaysLeadsToEntries ==
    Spec => []QueueLeadsToEntries
<1>1. LeadsInv => QueueLeadsToEntries
  BY DEF LeadsInv
<1> QED
  BY <1>1, LeadsInvariance, PTL

\* No call makes the cache larger than the limit in force, not even the first put()
\* after initialize() has lowered it: what it adds it purges, once it is past it.
THEOREM LimitIsKept ==
    ~MayThrow => (Spec => NeverGrowsPastLimit)
<1> SUFFICES ASSUME ~MayThrow PROVE Spec => NeverGrowsPastLimit
  OBVIOUS
<1> DEFINE Step  == Size' <= maxItems' \/ Size' <= Size
           Sized == Size = Len(fifo)
<1>1. QueueInv => Sized
  BY SizeOfQueue
<1>2. QueueInv /\ Sized /\ Sized' /\ [Next]_vars => [Step]_vars
  <2> SUFFICES ASSUME QueueInv, Sized, Sized', Next PROVE Step
    OBVIOUS
  <2>1. Size = Len(fifo) /\ Len(fifo) \in Nat
    BY DEF QueueInv, TypeOK
  <2>2. Size' = Len(fifo')
    OBVIOUS
  <2>3. ASSUME NEW k \in Keys, NEW v \in Values, PutNew(k, v) PROVE Step
    <3>1. Len(fifo') = Len(fifo) + 1 /\ maxItems' = maxItems
      BY <2>3 DEF PutNew, QueueInv, TypeOK
    <3> QED
      BY <2>1, <2>2, <2>3, <3>1 DEF PutNew
  <2>4. ASSUME NEW k \in Keys, NEW v \in Values, PutPurge(k, v) PROVE Step
    <3>1. Len(fifo') = Len(fifo) + 1 - purgeItems
      BY <2>4, PutPurgeFacts
    <3>2. purgeItems \in Nat \ {0}
      BY DEF QueueInv, TypeOK
    <3> QED
      BY <2>1, <2>2, <3>1, <3>2
  <2>5. CASE Clear
    <3>1. Len(fifo') = 0
      BY <2>5 DEF Clear
    <3> QED
      BY <2>1, <2>2, <3>1
  <2>6. ASSUME UNCHANGED fifo PROVE Step
    BY <2>1, <2>2, <2>6
  <2>7. ASSUME NEW k \in Keys, NEW v \in Values, PutUpdate(k, v) PROVE Step
    BY <2>6, <2>7 DEF PutUpdate
  <2>8. ASSUME NEW k \in Keys, Get(k) \/ PutPurgeUndefined(k) PROVE Step
    BY <2>6, <2>8 DEF Get, PutPurgeUndefined
  <2>9. ASSUME NEW s \in Settings, Initialize(s) PROVE Step
    BY <2>6, <2>9 DEF Initialize
  <2> QED
    BY <2>3, <2>4, <2>5, <2>7, <2>8, <2>9 DEF Next, PutThrows
<1>3. (Spec => [][Step]_vars) <=> (Spec => NeverGrowsPastLimit)
  BY DEF NeverGrowsPastLimit
<1> HIDE DEF Step, Sized
<1> QED
  BY <1>1, <1>2, <1>3, QueueInvariance, PTL DEF Spec

=============================================================================
