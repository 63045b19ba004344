------------------------ MODULE NCRequestHandlerProofs ------------------------
(* Proofs about NCRequestHandler, for any data sets, versions and sizes of   *)
(* the caches.                                                               *)
EXTENDS NCRequestHandler, TLAPS

Caches == [Datasets -> Objects]

TypeInv ==
    /\ das_cache \in Caches /\ dds_cache \in Caches
    /\ datadds_cache \in Caches /\ dmr_cache \in Caches
    /\ file \in [Datasets -> Nat]
    /\ \A d \in Datasets : file[d] >= 1
    /\ request \in [op : {"none", "das", "dds", "data", "dmr", "add"}, of : Datasets]
    /\ pc \in {"idle", "variables", "attributes"}
    /\ response \in Objects
    /\ seen \in [{"das", "dds", "data"} -> Caches]

\* What is being built has its variables when it waits for its attributes, and
\* the caches that were asked still do not have it.
BuiltInOrder ==
    /\ pc = "variables" => request.op \in {"dds", "data", "dmr"}
    /\ pc = "attributes" =>
          /\ request.op \in {"das", "dds", "dmr", "add"}
          /\ request.op \in {"dds", "dmr"} => response.vars # 0
          /\ request.op = "das" => response = None
          /\ request.op # "dmr" => das_cache[request.of] = None
    /\ pc # "idle" =>
          /\ request.op = "dds" => dds_cache[request.of] = None
          /\ request.op = "data" => datadds_cache[request.of] = None

Inv == TypeInv /\ CachedIsWhole /\ BuiltInOrder

\* An add() leaves other entries or throws them out; of d it keeps what is
\* added, or nothing, when there was nothing.
LEMMA AddKeeps ==
    ASSUME NEW cache \in Caches, NEW d \in Datasets, NEW o \in Objects,
           NEW result \in Add(cache, d, o)
    PROVE  /\ result \in Caches
           /\ \A e \in Datasets : e # d => result[e] \in {None, cache[e]}
           /\ result[d] \in {None, cache[d], o}
           /\ cache[d] = None => result[d] \in {None, o}
  <1>1. None \in Objects
    BY DEF None, Objects, Versions
  <1>2. CASE entries = 0
    BY <1>2 DEF Add
  <1>3. CASE entries # 0
    <2> DEFINE c == [cache EXCEPT ![d] = o]
    <2>1. c \in Caches /\ c[d] = o /\ \A e \in Datasets : e # d => c[e] = cache[e]
      BY DEF Caches
    <2>2. PICK kept \in SUBSET Held(c) :
              result = [e \in Datasets |-> IF e \in kept THEN c[e] ELSE None]
      BY <1>3 DEF Add
    <2> HIDE DEF c
    <2>3. QED
      BY <1>1, <2>1, <2>2 DEF Caches
  <1>4. QED
    BY <1>2, <1>3

\* What is remembered of an answer.
LEMMA NewerType ==
    ASSUME NEW a \in Objects, NEW b \in Objects
    PROVE  /\ Newer(a, b) \in Objects
           /\ Newer(a, b).vars \in {a.vars, b.vars}
           /\ Newer(a, b).atts \in {a.atts, b.atts}
  BY DEF Newer, Objects, Versions

LEMMA AnswerType ==
    ASSUME TypeInv, NEW op, NEW d \in Datasets, NEW o \in Objects, Answer(op, d, o)
    PROVE  /\ pc' = "idle" /\ response' = o /\ response' \in Objects
           /\ seen' \in [{"das", "dds", "data"} -> Caches]
  <1>1. ASSUME op \in {"das", "dds", "data"}
        PROVE  seen' \in [{"das", "dds", "data"} -> Caches]
    <2>1. seen[op] \in Caches /\ seen[op][d] \in Objects
      BY <1>1 DEF TypeInv, Caches
    <2>2. Newer(seen[op][d], o) \in Objects
      BY <2>1, NewerType
    <2>3. seen' = [seen EXCEPT ![op][d] = Newer(seen[op][d], o)]
      BY <1>1 DEF Answer, TypeInv
    <2>4. [seen[op] EXCEPT ![d] = Newer(seen[op][d], o)] \in Caches
      BY <2>1, <2>2 DEF Caches
    <2>5. QED
      BY <1>1, <2>3, <2>4 DEF TypeInv
  <1>2. op \notin {"das", "dds", "data"} => seen' = seen
    BY DEF Answer, TypeInv
  <1>3. QED
    BY <1>1, <1>2 DEF Answer, TypeInv

LEMMA NoneType == None \in Objects /\ None.vars = 0 /\ None.atts = 0
  BY DEF None, Objects, Versions

LEMMA InitInv == Init => Inv
  <1> SUFFICES ASSUME Init PROVE Inv
    OBVIOUS
  <1>1. Empty \in Caches /\ \A d \in Datasets : Empty[d] = None
    BY NoneType DEF Empty, Caches
  <1>2. TypeInv
    BY <1>1, NoneType, HandlerAssumption DEF Init, TypeInv
  <1>3. CachedIsWhole
    BY <1>1 DEF Init, CachedIsWhole
  <1>4. BuiltInOrder
    BY DEF Init, BuiltInOrder
  <1>5. QED
    BY <1>2, <1>3, <1>4 DEF Inv

\* A call that is answered from a cache, or finds none and starts to read.
LEMMA CallsKeepInv ==
    ASSUME Inv, NEW d \in Datasets,
           BuildDas(d) \/ BuildDds(d) \/ BuildData(d) \/ AddAttributes(d)
    PROVE  Inv'
  <1> USE DEF Ask, Read, settings, caches
  <1>1. CASE BuildDas(d)
    <2>1. das_cache[d] \in Objects /\ None \in Objects
      BY NoneType DEF Inv, TypeInv, Caches
    <2>2. /\ response' \in Objects /\ seen' \in [{"das", "dds", "data"} -> Caches]
          /\ pc' \in {"idle", "attributes"}
          /\ pc' = "attributes" => response' = None /\ das_cache[d] = None
          /\ UNCHANGED <<caches, file>>
          /\ request' = [op |-> "das", of |-> d]
      BY <1>1, <2>1, AnswerType DEF BuildDas, Inv, TypeInv
    <2>3. QED
      BY <2>2 DEF Inv, TypeInv, CachedIsWhole, BuiltInOrder
  <1>2. CASE BuildDds(d)
    <2>1. dds_cache[d] \in Objects /\ None \in Objects
      BY NoneType DEF Inv, TypeInv, Caches
    <2>2. /\ response' \in Objects /\ seen' \in [{"das", "dds", "data"} -> Caches]
          /\ pc' \in {"idle", "variables"}
          /\ pc' = "variables" => dds_cache[d] = None
          /\ UNCHANGED <<caches, file>>
          /\ request' = [op |-> "dds", of |-> d]
      BY <1>2, <2>1, AnswerType DEF BuildDds, Inv, TypeInv
    <2>3. QED
      BY <2>2 DEF Inv, TypeInv, CachedIsWhole, BuiltInOrder
  <1>3. CASE BuildData(d)
    <2>1. datadds_cache[d] \in Objects /\ None \in Objects
      BY NoneType DEF Inv, TypeInv, Caches
    <2>2. /\ response' \in Objects /\ seen' \in [{"das", "dds", "data"} -> Caches]
          /\ pc' \in {"idle", "variables"}
          /\ pc' = "variables" => datadds_cache[d] = None
          /\ UNCHANGED <<caches, file>>
          /\ request' = [op |-> "data", of |-> d]
      BY <1>3, <2>1, AnswerType DEF BuildData, Inv, TypeInv
    <2>3. QED
      BY <2>2 DEF Inv, TypeInv, CachedIsWhole, BuiltInOrder
  <1>4. CASE AddAttributes(d)
    <2>1. [response EXCEPT !.atts = das_cache[d].atts] \in Objects
      BY DEF Inv, TypeInv, Caches, Objects, Versions
    <2>2. /\ response' \in Objects /\ seen' \in [{"das", "dds", "data"} -> Caches]
          /\ pc' \in {"idle", "attributes"}
          /\ pc' = "attributes" => das_cache[d] = None
          /\ UNCHANGED <<caches, file>>
          /\ request' = [op |-> "add", of |-> d]
      BY <1>4, <2>1, AnswerType DEF AddAttributes, Inv, TypeInv
    <2>3. QED
      BY <2>2 DEF Inv, TypeInv, CachedIsWhole, BuiltInOrder
  <1>5. QED
    BY <1>1, <1>2, <1>3, <1>4

LEMMA DmrKeepsInv ==
    ASSUME Inv, NEW d \in Datasets, BuildDmr(d)
    PROVE  Inv'
  <1> USE DEF Ask, Read, settings, caches
  <1>1. /\ request' = [op |-> "dmr", of |-> d] /\ file' = file
        /\ UNCHANGED <<das_cache, dds_cache, datadds_cache>>
    BY DEF BuildDmr
  <1>2. dmr_cache[d] \in Objects /\ dds_cache[d] \in Objects /\ None \in Objects
    BY NoneType DEF Inv, TypeInv, Caches
  <1>3. CASE pc' = "variables"
    <2>1. UNCHANGED <<dmr_cache, seen>> /\ response' = None
      BY <1>3 DEF BuildDmr, Answer
    <2>2. QED
      BY <1>1, <1>2, <1>3, <2>1 DEF Inv, TypeInv, CachedIsWhole, BuiltInOrder
  <1>4. CASE dmr_cache[d] # None
    <2>1. UNCHANGED dmr_cache /\ Answer("dmr", d, dmr_cache[d])
      BY <1>4 DEF BuildDmr
    <2>2. QED
      BY <1>1, <1>2, <2>1, AnswerType DEF Inv, TypeInv, CachedIsWhole, BuiltInOrder
  <1>5. CASE dmr_cache[d] = None /\ dds_cache[d] # None
    <2>1. dmr_cache' \in Add(dmr_cache, d, dds_cache[d]) /\ Answer("dmr", d, dds_cache[d])
      BY <1>5 DEF BuildDmr
    <2>2. /\ dmr_cache' \in Caches
          /\ \A e \in Datasets : dmr_cache'[e] \in {None, dmr_cache[e], dds_cache[d]}
      BY <1>2, <2>1, AddKeeps DEF Inv, TypeInv
    <2>3. TypeInv' /\ BuiltInOrder'
      BY <1>1, <1>2, <2>1, <2>2, AnswerType DEF Inv, TypeInv, BuiltInOrder
    <2>4. CachedIsWhole'
      BY <1>1, <1>5, <2>2 DEF Inv, CachedIsWhole
    <2>5. QED
      BY <2>3, <2>4 DEF Inv
  <1>6. QED
    BY <1>3, <1>4, <1>5 DEF BuildDmr

LEMMA VariablesKeepInv ==
    ASSUME Inv, ReadVariables
    PROVE  Inv'
  <1> DEFINE d == request.of
             o == [vars |-> file[d], atts |-> 0]
             whole == [o EXCEPT !.atts = das_cache[d].atts]
  <1> USE DEF settings, caches, CacheDds
  <1>1. d \in Datasets /\ o \in Objects /\ whole \in Objects /\ o.vars # 0 /\ o # None
        /\ whole = [vars |-> file[d], atts |-> das_cache[d].atts]
    BY DEF Inv, TypeInv, Caches, Objects, Versions, None
  <1>2. UNCHANGED <<file, request>> /\ pc = "variables"
    BY DEF ReadVariables
  <1>3. CASE request.op = "data"
    <2>1. /\ datadds_cache' \in Add(datadds_cache, d, o) /\ Answer("data", d, o)
          /\ UNCHANGED <<das_cache, dds_cache, dmr_cache>>
      BY <1>3 DEF ReadVariables
    <2>2. /\ datadds_cache' \in Caches
          /\ \A e \in Datasets : datadds_cache'[e] \in {None, datadds_cache[e], o}
      BY <1>1, <2>1, AddKeeps DEF Inv, TypeInv
    <2>3. TypeInv' /\ BuiltInOrder'
      BY <1>1, <1>2, <1>3, <2>1, <2>2, AnswerType DEF Inv, TypeInv, BuiltInOrder
    <2>4. CachedIsWhole'
      BY <1>1, <2>1, <2>2 DEF Inv, CachedIsWhole
    <2>5. QED
      BY <2>3, <2>4 DEF Inv
  <1>4. CASE request.op = "dds" /\ das_cache[d] # None
    <2>1. /\ dds_cache' \in Add(dds_cache, d, whole) /\ Answer("dds", d, whole)
          /\ UNCHANGED <<das_cache, datadds_cache, dmr_cache>>
      BY <1>4 DEF ReadVariables
    <2>2. /\ dds_cache' \in Caches
          /\ \A e \in Datasets : dds_cache'[e] \in {None, dds_cache[e], whole}
      BY <1>1, <2>1, AddKeeps DEF Inv, TypeInv
    <2>3. TypeInv' /\ BuiltInOrder'
      BY <1>1, <1>2, <1>4, <2>1, <2>2, AnswerType DEF Inv, TypeInv, BuiltInOrder
    <2>4. whole.vars # 0 /\ whole.atts # 0
      BY <1>1, <1>4 DEF Inv, CachedIsWhole
    <2>5. CachedIsWhole'
      BY <1>1, <2>1, <2>2, <2>4 DEF Inv, CachedIsWhole
    <2>6. QED
      BY <2>3, <2>5 DEF Inv
  <1>5. CASE pc' = "attributes" /\ response' = o /\ UNCHANGED <<caches, seen>>
    <2>1. request.op \in {"dds", "dmr"} /\ (request.op = "dds" => das_cache[d] = None)
      BY <1>5 DEF ReadVariables, Answer
    <2>2. QED
      BY <1>1, <1>2, <1>5, <2>1 DEF Inv, TypeInv, CachedIsWhole, BuiltInOrder
  <1>6. QED
    BY <1>3, <1>4, <1>5 DEF ReadVariables

\* What ReadAttributes does, for the version it reads.
LEMMA AttributesRead ==
    ASSUME Inv, ReadAttributes
    PROVE  \E version \in Sources(request.of) :
             LET d == request.of
                 a == [vars |-> 0, atts |-> version]
                 o == [vars |-> response.vars, atts |-> version]
             IN  /\ version \in 1..file[d]
                 /\ a \in Objects /\ o \in Objects
                 /\ pc = "attributes" /\ UNCHANGED <<settings, file, request, datadds_cache>>
                 /\ Answer(request.op, d, o)
                 /\ IF request.op = "dmr" THEN UNCHANGED das_cache
                    ELSE das_cache' \in Add(das_cache, d, a)
                 /\ IF request.op = "dds" THEN dds_cache' \in Add(dds_cache, d, o)
                    ELSE UNCHANGED dds_cache
                 /\ IF request.op = "dmr" THEN dmr_cache' \in Add(dmr_cache, d, o)
                    ELSE UNCHANGED dmr_cache
  <1> DEFINE d == request.of
             a(v) == [vars |-> 0, atts |-> v]
             o(v) == [response EXCEPT !.atts = v]
  <1>1. PICK version \in Sources(d) :
            /\ IF request.op = "dmr" THEN UNCHANGED das_cache
               ELSE das_cache' \in Add(das_cache, d, a(version))
            /\ IF request.op = "dds" THEN CacheDds(d, o(version)) ELSE UNCHANGED dds_cache
            /\ IF request.op = "dmr" THEN dmr_cache' \in Add(dmr_cache, d, o(version))
               ELSE UNCHANGED dmr_cache
            /\ Answer(request.op, d, o(version))
    BY DEF ReadAttributes
  <1>2. pc = "attributes" /\ UNCHANGED <<settings, file, request, datadds_cache>>
    BY DEF ReadAttributes
  <1>3. version \in 1..file[d]
    BY DEF Sources, Inv, TypeInv
  <1>4. version \in Nat
    BY <1>3
  <1>5. o(version) = [vars |-> response.vars, atts |-> version]
    BY DEF Inv, TypeInv, Objects
  <1>6. a(version) \in Objects /\ o(version) \in Objects
    BY <1>4, <1>5 DEF Inv, TypeInv, Objects, Versions
  <1>7. QED
    BY <1>1, <1>2, <1>3, <1>5, <1>6 DEF CacheDds

LEMMA AttributesKeepInv ==
    ASSUME Inv, ReadAttributes
    PROVE  Inv'
  <1> DEFINE d == request.of
  <1>1. PICK version \in Sources(d) :
          LET a == [vars |-> 0, atts |-> version]
              o == [vars |-> response.vars, atts |-> version]
          IN  /\ version \in 1..file[d]
              /\ a \in Objects /\ o \in Objects
              /\ pc = "attributes" /\ UNCHANGED <<settings, file, request, datadds_cache>>
              /\ Answer(request.op, d, o)
              /\ IF request.op = "dmr" THEN UNCHANGED das_cache
                 ELSE das_cache' \in Add(das_cache, d, a)
              /\ IF request.op = "dds" THEN dds_cache' \in Add(dds_cache, d, o)
                 ELSE UNCHANGED dds_cache
              /\ IF request.op = "dmr" THEN dmr_cache' \in Add(dmr_cache, d, o)
                 ELSE UNCHANGED dmr_cache
    BY AttributesRead
  <1> DEFINE a == [vars |-> 0, atts |-> version]
             o == [vars |-> response.vars, atts |-> version]
  <1>2. d \in Datasets /\ version # 0 /\ a.atts # 0 /\ o.atts # 0 /\ a \in Objects /\ o \in Objects
    BY <1>1 DEF Inv, TypeInv
  <1>3. /\ das_cache' \in Caches
        /\ \A e \in Datasets : das_cache'[e] \in {None, das_cache[e], a}
    BY <1>1, <1>2, AddKeeps DEF Inv, TypeInv
  <1>4. /\ dds_cache' \in Caches
        /\ \A e \in Datasets : \/ dds_cache'[e] \in {None, dds_cache[e]}
                               \/ request.op = "dds" /\ dds_cache'[e] = o
    BY <1>1, <1>2, AddKeeps DEF Inv, TypeInv
  <1>5. /\ dmr_cache' \in Caches
        /\ \A e \in Datasets : \/ dmr_cache'[e] \in {None, dmr_cache[e]}
                               \/ request.op = "dmr" /\ dmr_cache'[e] = o
    BY <1>1, <1>2, AddKeeps DEF Inv, TypeInv
  <1>6. TypeInv' /\ BuiltInOrder'
    BY <1>1, <1>2, <1>3, <1>4, <1>5, AnswerType DEF Inv, TypeInv, BuiltInOrder
  <1>7. request.op \in {"dds", "dmr"} => o.vars # 0
    BY <1>1 DEF Inv, BuiltInOrder
  <1>8. CachedIsWhole'
    BY <1>1, <1>2, <1>3, <1>4, <1>5, <1>7 DEF Inv, CachedIsWhole
  <1>9. QED
    BY <1>6, <1>8 DEF Inv

LEMMA NextInv == Inv /\ [Next]_vars => Inv'
  <1> SUFFICES ASSUME Inv, [Next]_vars PROVE Inv'
    OBVIOUS
  <1>1. ASSUME NEW d \in Datasets, Modify(d) PROVE Inv'
    <2>1. file' \in [Datasets -> Nat] /\ \A e \in Datasets : file'[e] >= 1
      BY <1>1 DEF Modify, Inv, TypeInv
    <2>2. UNCHANGED <<caches, request, pc, response, seen>>
      BY <1>1 DEF Modify
    <2>3. QED
      BY <2>1, <2>2 DEF caches, Inv, TypeInv, CachedIsWhole, BuiltInOrder
  <1>2. CASE Fail
    <2>1. /\ UNCHANGED <<caches, file, seen>> /\ pc' = "idle" /\ response' = None
          /\ request' \in [op : {"none"}, of : Datasets]
      BY <1>2 DEF Fail, Throw, Inv, TypeInv
    <2>2. QED
      BY <2>1, NoneType DEF caches, Inv, TypeInv, CachedIsWhole, BuiltInOrder
  <1>3. CASE UNCHANGED vars
    BY <1>3 DEF vars, caches, settings, Inv, TypeInv, CachedIsWhole, BuiltInOrder
  <1>4. QED
    BY <1>1, <1>2, <1>3, CallsKeepInv, DmrKeepsInv, VariablesKeepInv, AttributesKeepInv DEF Next

\* Whatever is in a cache is whole: a DDS has its attributes, as the comment in
\* get_dds_with_attributes() assumes, for any requests, failures and purges.
THEOREM WholeSafe == Spec => []CachedIsWhole
  <1>1. Inv => CachedIsWhole
    BY DEF Inv
  <1>2. QED
    BY InitInv, NextInv, <1>1, PTL DEF Spec

-----------------------------------------------------------------------------
(* Nothing goes back.  The file is as new as anything; an entry of a cache   *)
(* is as new as what was answered from there; and a DAS is as new as the     *)
(* attributes of a DDS, in a cache or answered, which is what a DDS that is  *)
(* built again takes its attributes from.                                    *)

DasInOrder(d) ==
    /\ seen["das"][d].vars = 0 /\ seen["das"][d].atts <= file[d]
    /\ das_cache[d] # None =>
          /\ das_cache[d].vars = 0
          /\ das_cache[d].atts <= file[d]
          /\ das_cache[d].atts >= seen["das"][d].atts
          /\ das_cache[d].atts >= seen["dds"][d].atts
          /\ das_cache[d].atts >= dds_cache[d].atts

DdsInOrder(d) ==
    /\ seen["dds"][d].vars <= file[d] /\ seen["dds"][d].atts <= file[d]
    /\ dds_cache[d].vars <= file[d] /\ dds_cache[d].atts <= file[d]
    /\ dds_cache[d] # None => NotOlder(dds_cache[d], seen["dds"][d])

DataInOrder(d) ==
    /\ seen["data"][d].vars <= file[d] /\ seen["data"][d].atts = 0
    /\ datadds_cache[d] # None => NotOlder(datadds_cache[d], seen["data"][d])
    /\ datadds_cache[d].vars <= file[d] /\ datadds_cache[d].atts = 0

BuiltNotOlder ==
    pc = "attributes" /\ request.op = "dds" =>
        /\ response.vars >= seen["dds"][request.of].vars
        /\ response.vars <= file[request.of]

Order ==
    ~useMds => /\ \A d \in Datasets : DasInOrder(d) /\ DdsInOrder(d) /\ DataInOrder(d)
               /\ BuiltNotOlder

\* seen' in terms of seen.
LEMMA AnswerSeen ==
    ASSUME TypeInv, NEW op, NEW d \in Datasets, NEW o \in Objects, Answer(op, d, o)
    PROVE  \A k \in {"das", "dds", "data"}, e \in Datasets :
               /\ ~(k = op /\ e = d) => seen'[k][e] = seen[k][e]
               /\ k = op /\ e = d =>
                     /\ seen'[k][e].vars \in {seen[k][e].vars, o.vars}
                     /\ seen'[k][e].atts \in {seen[k][e].atts, o.atts}
                     /\ seen'[k][e].vars >= seen[k][e].vars /\ seen'[k][e].vars >= o.vars
                     /\ seen'[k][e].atts >= seen[k][e].atts /\ seen'[k][e].atts >= o.atts
  <1> SUFFICES ASSUME NEW k \in {"das", "dds", "data"}, NEW e \in Datasets
               PROVE  /\ ~(k = op /\ e = d) => seen'[k][e] = seen[k][e]
                      /\ k = op /\ e = d =>
                            /\ seen'[k][e].vars \in {seen[k][e].vars, o.vars}
                            /\ seen'[k][e].atts \in {seen[k][e].atts, o.atts}
                            /\ seen'[k][e].vars >= seen[k][e].vars /\ seen'[k][e].vars >= o.vars
                            /\ seen'[k][e].atts >= seen[k][e].atts /\ seen'[k][e].atts >= o.atts
    OBVIOUS
  <1>1. seen[k] \in Caches /\ seen[k][e] \in Objects
    BY DEF TypeInv, Caches
  <1>2. CASE k = op
    <2>1. seen' = [seen EXCEPT ![k] = [seen[k] EXCEPT ![d] = Newer(seen[k][d], o)]]
      BY <1>2 DEF Answer, TypeInv
    <2>2. seen'[k] = [seen[k] EXCEPT ![d] = Newer(seen[k][d], o)]
      BY <2>1 DEF TypeInv
    <2>3. seen'[k][e] = IF e = d THEN Newer(seen[k][e], o) ELSE seen[k][e]
      BY <1>1, <2>2 DEF Caches
    <2>4. QED
      BY <1>1, <1>2, <2>3 DEF Newer, Objects, Versions
  <1>3. CASE k # op
    <2>1. seen'[k] = seen[k]
      BY <1>3 DEF Answer, TypeInv
    <2>2. QED
      BY <1>3, <2>1
  <1>4. QED
    BY <1>2, <1>3

LEMMA InitOrder == Init => Order
  <1> SUFFICES ASSUME Init PROVE Order
    OBVIOUS
  <1>1. \A d \in Datasets : Empty[d] = None
    BY DEF Empty
  <1>2. \A k \in {"das", "dds", "data"} : seen[k] = Empty
    BY DEF Init
  <1>3. \A d \in Datasets : file[d] = 1
    BY DEF Init
  <1>4. pc = "idle" /\ das_cache = Empty /\ dds_cache = Empty /\ datadds_cache = Empty
    BY DEF Init
  <1>5. \A d \in Datasets : DasInOrder(d) /\ DdsInOrder(d) /\ DataInOrder(d)
    BY <1>1, <1>2, <1>3, <1>4, NoneType DEF DasInOrder, DdsInOrder, DataInOrder
  <1>6. QED
    BY <1>4, <1>5 DEF Order, BuiltNotOlder

\* The numbers that are compared.
LEMMA Numbers ==
    ASSUME Inv, NEW d \in Datasets
    PROVE  /\ file[d] \in Nat
           /\ response.vars \in Nat /\ response.atts \in Nat
           /\ das_cache[d].vars \in Nat /\ das_cache[d].atts \in Nat
           /\ dds_cache[d].vars \in Nat /\ dds_cache[d].atts \in Nat
           /\ datadds_cache[d].vars \in Nat /\ datadds_cache[d].atts \in Nat
           /\ \A k \in {"das", "dds", "data"} :
                 seen[k][d].vars \in Nat /\ seen[k][d].atts \in Nat
  BY DEF Inv, TypeInv, Caches, Objects, Versions

\* An answer from a cache that leaves the caches as they are.
LEMMA HitKeepsOrder ==
    ASSUME Inv, Order, NEW d \in Datasets, NEW op, NEW o \in Objects,
           Answer(op, d, o), UNCHANGED <<useMds, das_cache, dds_cache, datadds_cache, file>>,
           op = "das" => das_cache[d] # None /\ o = das_cache[d],
           op = "dds" => dds_cache[d] # None /\ o = dds_cache[d],
           op = "data" => datadds_cache[d] # None /\ o = datadds_cache[d]
    PROVE  Order'
  <1> SUFFICES ASSUME ~useMds PROVE Order'
    BY DEF Order
  <1>1. \A e \in Datasets : DasInOrder(e) /\ DdsInOrder(e) /\ DataInOrder(e)
    BY DEF Order
  <1>2. TypeInv
    BY DEF Inv
  <1>3. SUFFICES ASSUME NEW e \in Datasets
                 PROVE  (DasInOrder(e) /\ DdsInOrder(e) /\ DataInOrder(e))'
    BY DEF Order, BuiltNotOlder, Answer
  <1>4. \A k \in {"das", "dds", "data"} :
               /\ ~(k = op /\ e = d) => seen'[k][e] = seen[k][e]
               /\ k = op /\ e = d =>
                     /\ seen'[k][e].vars \in {seen[k][e].vars, o.vars}
                     /\ seen'[k][e].atts \in {seen[k][e].atts, o.atts}
    BY <1>2, AnswerSeen
  <1>5. DasInOrder(e)'
    BY <1>1, <1>4, Numbers, NoneType DEF DasInOrder, DdsInOrder
  <1>6. DdsInOrder(e)'
    BY <1>1, <1>4, Numbers DEF DdsInOrder, NotOlder
  <1>7. DataInOrder(e)'
    BY <1>1, <1>4, Numbers DEF DataInOrder, NotOlder
  <1>8. QED
    BY <1>5, <1>6, <1>7

\* A call that reads, or one that fails, changes nothing that is in order.
LEMMA PauseKeepsOrder ==
    ASSUME Order, UNCHANGED <<useMds, das_cache, dds_cache, datadds_cache, file, seen>>,
           pc' # "attributes" \/ request'.op # "dds"
    PROVE  Order'
  <1> SUFFICES ASSUME ~useMds PROVE Order'
    BY DEF Order
  <1>1. \A e \in Datasets : (DasInOrder(e) /\ DdsInOrder(e) /\ DataInOrder(e))'
    BY DEF Order, DasInOrder, DdsInOrder, DataInOrder
  <1>2. QED
    BY <1>1 DEF Order, BuiltNotOlder

LEMMA CallsKeepOrder ==
    ASSUME Inv, Order, NEW d \in Datasets,
           BuildDas(d) \/ BuildDds(d) \/ BuildData(d) \/ BuildDmr(d) \/ AddAttributes(d)
    PROVE  Order'
  <1>1. UNCHANGED <<useMds, das_cache, dds_cache, datadds_cache, file>>
    BY DEF BuildDas, BuildDds, BuildData, BuildDmr, AddAttributes, Ask, Read, caches, settings
  <1> das_cache[d] \in Objects /\ dds_cache[d] \in Objects /\ datadds_cache[d] \in Objects
    BY DEF Inv, TypeInv, Caches
  <1>2. ASSUME UNCHANGED seen, pc' # "attributes" \/ request'.op # "dds"
        PROVE  Order'
    BY <1>1, <1>2, PauseKeepsOrder
  <1>3. CASE BuildDas(d)
    <2>1. CASE das_cache[d] # None /\ Answer("das", d, das_cache[d])
      BY <1>1, <2>1, HitKeepsOrder
    <2>2. CASE Read("attributes")
      BY <1>2, <1>3, <2>2 DEF BuildDas, Ask, Read
    <2>3. QED
      BY <1>3, <2>1, <2>2 DEF BuildDas
  <1>4. CASE BuildDds(d)
    <2>1. CASE dds_cache[d] # None /\ Answer("dds", d, dds_cache[d])
      BY <1>1, <2>1, HitKeepsOrder
    <2>2. CASE Read("variables")
      BY <1>2, <2>2 DEF Read
    <2>3. QED
      BY <1>4, <2>1, <2>2 DEF BuildDds
  <1>5. CASE BuildData(d)
    <2>1. CASE datadds_cache[d] # None /\ Answer("data", d, datadds_cache[d])
      BY <1>1, <2>1, HitKeepsOrder
    <2>2. CASE Read("variables")
      BY <1>2, <2>2 DEF Read
    <2>3. QED
      BY <1>5, <2>1, <2>2 DEF BuildData
  <1>6. CASE BuildDmr(d)
    <2>1. ASSUME NEW o, Answer("dmr", d, o) PROVE Order'
      BY <1>2, <2>1 DEF Answer, Inv, TypeInv
    <2>2. CASE Read("variables")
      BY <1>2, <2>2 DEF Read
    <2>3. QED
      BY <1>6, <2>1, <2>2 DEF BuildDmr
  <1>7. CASE AddAttributes(d)
    <2>1. ASSUME NEW o, Answer("add", d, o) PROVE Order'
      BY <1>2, <2>1 DEF Answer, Inv, TypeInv
    <2>2. CASE pc' = "attributes" /\ UNCHANGED seen
      BY <1>2, <1>7, <2>2 DEF AddAttributes, Ask
    <2>3. QED
      BY <1>7, <2>1, <2>2 DEF AddAttributes
  <1>8. QED
    BY <1>3, <1>4, <1>5, <1>6, <1>7

LEMMA VariablesKeepOrder ==
    ASSUME Inv, Order, ReadVariables
    PROVE  Order'
  <1> DEFINE d == request.of
             o == [vars |-> file[d], atts |-> 0]
             whole == [o EXCEPT !.atts = das_cache[d].atts]
  <1>2. UNCHANGED <<useMds, file, request>> /\ pc = "variables" /\ d \in Datasets
    BY DEF ReadVariables, settings, Inv, TypeInv
  <1> SUFFICES ASSUME ~useMds PROVE Order'
    BY <1>2 DEF Order
  <1>1. file[d] \in Nat /\ file[d] # 0 /\ das_cache[d].atts \in Nat
    BY <1>2, Numbers DEF Inv, TypeInv
  <1>3. /\ o \in Objects /\ whole \in Objects /\ o # None
        /\ whole.vars = file[d] /\ whole.atts = das_cache[d].atts
    BY <1>1 DEF Objects, Versions, None
  <1>4. \A e \in Datasets : DasInOrder(e) /\ DdsInOrder(e) /\ DataInOrder(e)
    BY DEF Order
  <1>5. TypeInv
    BY DEF Inv
  <1>6. CASE request.op = "data"
    <2>1. /\ datadds_cache' \in Add(datadds_cache, d, o) /\ Answer("data", d, o)
          /\ UNCHANGED <<das_cache, dds_cache>>
      BY <1>6 DEF ReadVariables
    <2>2. datadds_cache[d] = None
      BY <1>2, <1>6 DEF Inv, BuiltInOrder
    <2>3. /\ \A e \in Datasets : e # d => datadds_cache'[e] \in {None, datadds_cache[e]}
          /\ datadds_cache'[d] \in {None, o}
      BY <1>2, <1>3, <1>5, <2>1, <2>2, AddKeeps DEF TypeInv
    <2>4. \A k \in {"das", "dds", "data"}, e \in Datasets :
             /\ ~(k = "data" /\ e = d) => seen'[k][e] = seen[k][e]
             /\ k = "data" /\ e = d => /\ seen'[k][e].vars \in {seen[k][e].vars, o.vars}
                                       /\ seen'[k][e].atts \in {seen[k][e].atts, o.atts}
      BY <1>2, <1>3, <1>5, <2>1, AnswerSeen
    <2>5. ASSUME NEW e \in Datasets
          PROVE  (DasInOrder(e) /\ DdsInOrder(e) /\ DataInOrder(e))'
      <3>1. (DasInOrder(e) /\ DdsInOrder(e))'
        BY <1>2, <1>4, <2>1, <2>4 DEF DasInOrder, DdsInOrder
      <3>2. DataInOrder(e)'
        BY <1>2, <1>4, <2>3, <2>4, Numbers, NoneType DEF DataInOrder, NotOlder
      <3>3. QED
        BY <3>1, <3>2
    <2>6. QED
      BY <2>1, <2>5 DEF Order, BuiltNotOlder, Answer
  <1>7. CASE request.op = "dds" /\ das_cache[d] # None
    <2>1. /\ dds_cache' \in Add(dds_cache, d, whole) /\ Answer("dds", d, whole)
          /\ UNCHANGED <<das_cache, datadds_cache>>
      BY <1>7 DEF ReadVariables, CacheDds
    <2>2. dds_cache[d] = None
      BY <1>2, <1>7 DEF Inv, BuiltInOrder
    <2>3. /\ \A e \in Datasets : e # d => dds_cache'[e] \in {None, dds_cache[e]}
          /\ dds_cache'[d] \in {None, whole}
      BY <1>2, <1>3, <1>5, <2>1, <2>2, AddKeeps DEF TypeInv
    <2>4. \A k \in {"das", "dds", "data"}, e \in Datasets :
             /\ ~(k = "dds" /\ e = d) => seen'[k][e] = seen[k][e]
             /\ k = "dds" /\ e = d => /\ seen'[k][e].vars \in {seen[k][e].vars, whole.vars}
                                      /\ seen'[k][e].atts \in {seen[k][e].atts, whole.atts}
      BY <1>2, <1>3, <1>5, <2>1, AnswerSeen
    <2>5. ASSUME NEW e \in Datasets
          PROVE  (DasInOrder(e) /\ DdsInOrder(e) /\ DataInOrder(e))'
      <3>1. DataInOrder(e)'
        BY <1>2, <1>4, <2>1, <2>4 DEF DataInOrder
      <3>2. DasInOrder(e)'
        BY <1>2, <1>3, <1>4, <1>7, <2>1, <2>3, <2>4, Numbers, NoneType DEF DasInOrder, DdsInOrder
      <3>3. DdsInOrder(e)'
        BY <1>2, <1>3, <1>4, <1>7, <2>1, <2>3, <2>4, Numbers, NoneType
           DEF DdsInOrder, DasInOrder, NotOlder
      <3>4. QED
        BY <3>1, <3>2, <3>3
    <2>6. QED
      BY <2>1, <2>5 DEF Order, BuiltNotOlder, Answer
  <1>8. CASE pc' = "attributes" /\ response' = o /\ UNCHANGED <<caches, seen>>
    <2>1. \A e \in Datasets : (DasInOrder(e) /\ DdsInOrder(e) /\ DataInOrder(e))'
      BY <1>2, <1>4, <1>8 DEF caches, DasInOrder, DdsInOrder, DataInOrder
    <2>2. BuiltNotOlder'
      BY <1>2, <1>3, <1>4, <1>8, Numbers DEF BuiltNotOlder, DdsInOrder
    <2>3. QED
      BY <2>1, <2>2 DEF Order
  <1>9. QED
    BY <1>6, <1>7, <1>8 DEF ReadVariables

LEMMA AttributesKeepOrder ==
    ASSUME Inv, Order, ReadAttributes
    PROVE  Order'
  <1> DEFINE d == request.of
             op == request.op
  <1>1. PICK version \in Sources(d) :
          LET a == [vars |-> 0, atts |-> version]
              o == [vars |-> response.vars, atts |-> version]
          IN  /\ version \in 1..file[d]
              /\ a \in Objects /\ o \in Objects
              /\ pc = "attributes" /\ UNCHANGED <<settings, file, request, datadds_cache>>
              /\ Answer(op, d, o)
              /\ IF op = "dmr" THEN UNCHANGED das_cache
                 ELSE das_cache' \in Add(das_cache, d, a)
              /\ IF op = "dds" THEN dds_cache' \in Add(dds_cache, d, o)
                 ELSE UNCHANGED dds_cache
              /\ IF op = "dmr" THEN dmr_cache' \in Add(dmr_cache, d, o)
                 ELSE UNCHANGED dmr_cache
    BY AttributesRead
  <1> DEFINE a == [vars |-> 0, atts |-> version]
             o == [vars |-> response.vars, atts |-> version]
  <1>2. UNCHANGED <<useMds, file, request, datadds_cache>> /\ pc' = "idle" /\ d \in Datasets
    BY <1>1 DEF settings, Answer, Inv, TypeInv
  <1> SUFFICES ASSUME ~useMds PROVE Order'
    BY <1>2 DEF Order
  <1>3. version = file[d] /\ a \in Objects /\ o \in Objects /\ a # None
    BY <1>1 DEF Sources, None
  <1>4. \A e \in Datasets : DasInOrder(e) /\ DdsInOrder(e) /\ DataInOrder(e)
    BY DEF Order
  <1>5. TypeInv
    BY DEF Inv
  <1>6. /\ op # "dmr" => das_cache[d] = None
        /\ op = "dds" => dds_cache[d] = None
        /\ op = "das" => response.vars = 0
        /\ op \in {"das", "dds", "dmr", "add"}
    BY <1>1, NoneType DEF Inv, BuiltInOrder
  <1>7. /\ \A e \in Datasets : e # d => das_cache'[e] \in {None, das_cache[e]}
        /\ op # "dmr" => das_cache'[d] \in {None, a}
        /\ op = "dmr" => das_cache' = das_cache
    BY <1>1, <1>2, <1>3, <1>5, <1>6, AddKeeps DEF TypeInv
  <1>8. /\ \A e \in Datasets : e # d => dds_cache'[e] \in {None, dds_cache[e]}
        /\ op = "dds" => dds_cache'[d] \in {None, o}
        /\ op # "dds" => dds_cache' = dds_cache
    BY <1>1, <1>2, <1>3, <1>5, <1>6, AddKeeps DEF TypeInv
  <1>9. \A k \in {"das", "dds", "data"}, e \in Datasets :
           /\ ~(k = op /\ e = d) => seen'[k][e] = seen[k][e]
           /\ k = op /\ e = d => /\ seen'[k][e].vars \in {seen[k][e].vars, o.vars}
                                 /\ seen'[k][e].atts \in {seen[k][e].atts, o.atts}
    BY <1>1, <1>2, <1>3, <1>5, AnswerSeen
  <1>10. op = "dds" => o.vars <= file[d] /\ o.vars >= seen["dds"][d].vars
    BY <1>1 DEF Order, BuiltNotOlder
  <1>11. o.vars = response.vars /\ o.atts = file[d] /\ a.vars = 0 /\ a.atts = file[d]
    BY <1>3
  <1>12. ASSUME NEW e \in Datasets
         PROVE  (DasInOrder(e) /\ DdsInOrder(e) /\ DataInOrder(e))'
    <2>1. DataInOrder(e)'
      BY <1>2, <1>4, <1>6, <1>9 DEF DataInOrder
    <2>2. DdsInOrder(e)'
      BY <1>2, <1>4, <1>6, <1>8, <1>9, <1>10, <1>11, Numbers, NoneType DEF DdsInOrder, NotOlder
    <2>3. ASSUME e = d PROVE DasInOrder(e)'
      BY <1>2, <1>4, <1>6, <1>7, <1>8, <1>9, <1>11, <2>3, Numbers, NoneType
         DEF DasInOrder, DdsInOrder
    <2>4. ASSUME e # d PROVE DasInOrder(e)'
      BY <1>2, <1>4, <1>7, <1>8, <1>9, <2>4, Numbers, NoneType DEF DasInOrder, DdsInOrder
    <2>5. QED
      BY <2>1, <2>2, <2>3, <2>4
  <1>13. QED
    BY <1>2, <1>12 DEF Order, BuiltNotOlder

LEMMA NextOrder == Inv /\ Order /\ [Next]_vars => Order'
  <1> SUFFICES ASSUME Inv, Order, [Next]_vars PROVE Order'
    OBVIOUS
  <1>1. ASSUME NEW d \in Datasets, Modify(d) PROVE Order'
    <2>1. /\ \A e \in Datasets : file[e] \in Nat /\ file'[e] \in Nat /\ file'[e] >= file[e]
          /\ UNCHANGED <<useMds, das_cache, dds_cache, datadds_cache, request, pc, response, seen>>
      BY <1>1 DEF Modify, settings, caches, Inv, TypeInv
    <2> SUFFICES ASSUME ~useMds PROVE Order'
      BY <2>1 DEF Order
    <2>2. ASSUME NEW e \in Datasets
          PROVE  (DasInOrder(e) /\ DdsInOrder(e) /\ DataInOrder(e))'
      BY <2>1, Numbers DEF Order, DasInOrder, DdsInOrder, DataInOrder
    <2>3. BuiltNotOlder'
      BY <2>1, Numbers DEF Order, BuiltNotOlder, Inv, TypeInv
    <2>4. QED
      BY <2>2, <2>3 DEF Order
  <1>2. CASE Fail
    BY <1>2, PauseKeepsOrder DEF Fail, Throw, caches, settings
  <1>3. CASE UNCHANGED vars
    <2>1. UNCHANGED <<useMds, das_cache, dds_cache, datadds_cache, file, seen, pc, request, response>>
      BY <1>3 DEF vars, caches, settings
    <2>2. QED
      BY <2>1 DEF Order, DasInOrder, DdsInOrder, DataInOrder, BuiltNotOlder
  <1>4. QED
    BY <1>1, <1>2, <1>3, CallsKeepOrder, VariablesKeepOrder, AttributesKeepOrder DEF Next

-----------------------------------------------------------------------------

\* A DAS in its cache is never older than the attributes of a DDS in its, for
\* any requests, failures, purges and changes of the files.
THEOREM AgreeSafe == Spec => []CachesAgree
  <1>1. Order => CachesAgree
    <2> SUFFICES ASSUME Order, ~useMds, NEW d \in Datasets, das_cache[d] # None
                 PROVE  das_cache[d].atts >= dds_cache[d].atts
      BY DEF CachesAgree
    <2>1. QED
      BY DEF Order, DasInOrder
  <1>2. QED
    BY InitInv, NextInv, InitOrder, NextOrder, <1>1, PTL DEF Spec

\* No answer of a kind is older than the one before it.
LEMMA StepNeverGoesBack ==
    ASSUME Inv, Order, Next, NEW k \in DOMAIN seen,
           request'.op = k, pc' = "idle", ~useMds,
           ~UNCHANGED <<pc, request, response>>
    PROVE  NotOlder(response', seen[k][request'.of])
  <1>1. \A e \in Datasets : DasInOrder(e) /\ DdsInOrder(e) /\ DataInOrder(e)
    BY DEF Order
  <1>2. k \in {"das", "dds", "data"}
    BY DEF Inv, TypeInv
  <1>3. ASSUME NEW d \in Datasets,
               BuildDas(d) \/ BuildDds(d) \/ BuildData(d) \/ BuildDmr(d) \/ AddAttributes(d)
        PROVE  NotOlder(response', seen[k][request'.of])
    <2>1. \/ k = "das" /\ request'.of = d /\ das_cache[d] # None /\ response' = das_cache[d]
          \/ k = "dds" /\ request'.of = d /\ dds_cache[d] # None /\ response' = dds_cache[d]
          \/ k = "data" /\ request'.of = d /\ datadds_cache[d] # None /\ response' = datadds_cache[d]
      BY <1>2, <1>3 DEF BuildDas, BuildDds, BuildData, BuildDmr, AddAttributes, Ask, Read, Answer
    <2>2. QED
      BY <1>1, <2>1, Numbers DEF DasInOrder, DdsInOrder, DataInOrder, NotOlder
  <1>4. CASE ReadVariables
    <2> DEFINE d == request.of
    <2>1. request' = request /\ d \in Datasets /\ pc = "variables"
      BY <1>4 DEF ReadVariables, Inv, TypeInv
    <2>2. file[d] \in Nat /\ das_cache[d].atts \in Nat
      BY <2>1, Numbers
    <2>3. \/ k = "data" /\ response' = [vars |-> file[d], atts |-> 0]
          \/ /\ k = "dds" /\ das_cache[d] # None
             /\ response' = [vars |-> file[d], atts |-> das_cache[d].atts]
      BY <1>2, <1>4, <2>1 DEF ReadVariables, Answer
    <2>4. QED
      BY <1>1, <2>1, <2>2, <2>3, Numbers DEF DasInOrder, DdsInOrder, DataInOrder, NotOlder
  <1>5. CASE ReadAttributes
    <2> DEFINE d == request.of
    <2>1. request' = request /\ d \in Datasets /\ pc = "attributes"
      BY <1>5 DEF ReadAttributes, Inv, TypeInv
    <2>2. file[d] \in Nat /\ response.vars \in Nat
      BY <2>1, Numbers
    <2>3. response' = [vars |-> response.vars, atts |-> file[d]] /\ k # "data"
      BY <1>2, <1>5, <2>1, AttributesRead DEF Sources, Answer, Inv, BuiltInOrder
    <2>4. k = "dds" => response.vars >= seen["dds"][d].vars
      BY <2>1 DEF Order, BuiltNotOlder
    <2>5. QED
      BY <1>1, <1>2, <2>1, <2>2, <2>3, <2>4, Numbers DEF DasInOrder, DdsInOrder, NotOlder
  <1>6. CASE Fail
    BY <1>2, <1>6 DEF Fail, Throw, Inv, TypeInv
  <1>7. ASSUME NEW d \in Datasets, Modify(d) PROVE FALSE
    BY <1>7 DEF Modify
  <1>8. QED
    BY <1>3, <1>4, <1>5, <1>6, <1>7 DEF Next

\* A client that asks again never gets an older DAS, DDS or data response, for
\* any number of data sets, versions and cache entries, when the metadata
\* store is not used.
THEOREM NeverGoesBackSafe == Spec => NeverGoesBack
  <1>1. Inv /\ Order /\ [Next]_vars =>
          [\A op \in DOMAIN seen :
              request'.op = op /\ pc' = "idle" /\ ~useMds =>
                  NotOlder(response', seen[op][request'.of])]_<<pc, request, response>>
    BY StepNeverGoesBack DEF vars
  <1>2. QED
    BY InitInv, NextInv, InitOrder, NextOrder, <1>1, PTL DEF Spec, NeverGoesBack

=============================================================================
