--------------------------- MODULE NCRequestHandler ---------------------------
(* netcdf/retired/NCRequestHandler.cc: the handler that answered requests in   *)
(* the BES, one at a time, from four in-memory caches that know nothing of the *)
(* time a file was last changed.  What it keeps and answers is an object       *)
(* [vars, atts]: the versions of the file that the variables and the           *)
(* attributes were read from, 0 where there are none.                          *)
EXTENDS Integers, FiniteSets

CONSTANTS
    Datasets,
    MaxVersion,     \* bound: versions of each file
    CacheEntries    \* values of NC.CacheEntries

ASSUME HandlerAssumption ==
    /\ Datasets # {}
    /\ MaxVersion \in [Datasets -> Nat \ {0}]
    /\ CacheEntries \subseteq Nat

VARIABLES
    entries, useMds,                        \* get_cache_entries(), get_use_mds()
    das_cache, dds_cache, datadds_cache, dmr_cache,
    file,       \* external: the version of each file
    request,    \* [op, of]
    pc,
    response,   \* the object that is built or was answered last
    seen        \* history: the newest answer to a "das", "dds" and "data"

settings == <<entries, useMds>>
caches == <<das_cache, dds_cache, datadds_cache, dmr_cache>>
vars == <<settings, caches, file, request, pc, response, seen>>

Versions == Nat
Objects == [vars : Versions, atts : Versions]
None == [vars |-> 0, atts |-> 0]

Empty == [d \in Datasets |-> None]

\* The constructor; the methods are registered for the four responses.
Init ==
    /\ entries \in CacheEntries
    /\ useMds \in BOOLEAN
    /\ das_cache = Empty /\ dds_cache = Empty
    /\ datadds_cache = Empty /\ dmr_cache = Empty
    /\ file = [d \in Datasets |-> 1]
    /\ request = [op |-> "none", of |-> CHOOSE d \in Datasets : TRUE]
    /\ pc = "idle"
    /\ response = None
    /\ seen = [op \in {"das", "dds", "data"} |-> Empty]

-----------------------------------------------------------------------------
(* ObjMemCache, to its callers: add() may throw other entries out.         *)

Held(cache) == {d \in Datasets : cache[d] # None}

\* cache' when there is a cache, and it is given a copy of o.
Add(cache, d, o) ==
    IF entries = 0 THEN {cache}
    ELSE LET c == [cache EXCEPT ![d] = o]
         IN  {[e \in Datasets |-> IF e \in kept THEN c[e] ELSE None] :
                 kept \in {k \in SUBSET Held(c) : k = Held(c) \/ Cardinality(k) <= entries}}

-----------------------------------------------------------------------------

Newer(a, b) == [vars |-> IF a.vars > b.vars THEN a.vars ELSE b.vars,
                atts |-> IF a.atts > b.atts THEN a.atts ELSE b.atts]

Answer(op, d, o) ==
    /\ pc' = "idle"
    /\ response' = o
    /\ seen' = IF op \in DOMAIN seen THEN [seen EXCEPT ![op][d] = Newer(@, o)] ELSE seen

\* An exception: the response is not sent, and whatever was allocated is lost.
Throw ==
    /\ pc' = "idle" /\ response' = None
    /\ request' = [request EXCEPT !.op = "none"]
    /\ UNCHANGED <<caches, seen>>

Ask(op, d) ==
    /\ pc = "idle"
    /\ request' = [op |-> op, of |-> d]
    /\ UNCHANGED <<settings, file>>

Read(next) == pc' = next /\ response' = None /\ UNCHANGED <<caches, seen>>

\* Mutant: a DDS in its cache saves reading the file, as for a DMR.
BuildDasFromDds(d) ==
    /\ Ask("das", d)
    /\ \/ /\ das_cache[d] # None \/ dds_cache[d] # None
          /\ Answer("das", d, [vars |-> 0, atts |-> IF das_cache[d] # None THEN das_cache[d].atts
                                                   ELSE dds_cache[d].atts])
          /\ UNCHANGED caches
       \/ /\ das_cache[d] = None /\ dds_cache[d] = None
          /\ Read("attributes")

\* nc_build_das()
BuildDas(d) ==
    /\ Ask("das", d)
    /\ \/ /\ das_cache[d] # None
          /\ Answer("das", d, das_cache[d])
          /\ UNCHANGED caches
       \/ /\ das_cache[d] = None
          /\ Read("attributes")

\* nc_build_dds(), get_dds_with_attributes()
BuildDds(d) ==
    /\ Ask("dds", d)
    /\ \/ /\ dds_cache[d] # None
          /\ Answer("dds", d, dds_cache[d])
          /\ UNCHANGED caches
       \/ /\ dds_cache[d] = None
          /\ Read("variables")

\* nc_build_data(), get_dds_without_attributes()
BuildData(d) ==
    /\ Ask("data", d)
    /\ \/ /\ datadds_cache[d] # None
          /\ Answer("data", d, datadds_cache[d])
          /\ UNCHANGED caches
       \/ /\ datadds_cache[d] = None
          /\ Read("variables")

\* nc_build_dmr(): a DDS in its cache saves reading the file.
BuildDmr(d) ==
    /\ Ask("dmr", d)
    /\ \/ /\ dmr_cache[d] # None
          /\ Answer("dmr", d, dmr_cache[d])
          /\ UNCHANGED caches
       \/ /\ dmr_cache[d] = None /\ dds_cache[d] # None
          /\ Answer("dmr", d, dds_cache[d])
          /\ dmr_cache' \in Add(dmr_cache, d, dds_cache[d])
          /\ UNCHANGED <<das_cache, dds_cache, datadds_cache>>
       \/ /\ dmr_cache[d] = None /\ dds_cache[d] = None
          /\ Read("variables")

\* add_attributes(), which the framework calls for the response to "data".
AddAttributes(d) ==
    /\ request = [op |-> "data", of |-> d]
    /\ Ask("add", d)
    /\ \/ /\ das_cache[d] # None
          /\ Answer("add", d, [response EXCEPT !.atts = das_cache[d].atts])
          /\ UNCHANGED caches
       \/ /\ das_cache[d] = None
          /\ pc' = "attributes"
          /\ UNCHANGED <<caches, response, seen>>

-----------------------------------------------------------------------------

\* Mutant: the DDS goes to its cache before it has its attributes.
CacheEarly(d, o) == dds_cache' \in Add(dds_cache, d, [o EXCEPT !.atts = 0])

\* The last step of get_dds_with_attributes().
CacheDds(d, o) == dds_cache' \in Add(dds_cache, d, o)

\* nc_read_dataset_variables(), and what follows that needs no other reading.
ReadVariables ==
    /\ pc = "variables"
    /\ LET d == request.of
           o == [vars |-> file[d], atts |-> 0]
           whole == [o EXCEPT !.atts = das_cache[d].atts]
       IN  \/ /\ request.op = "data"
              /\ datadds_cache' \in Add(datadds_cache, d, o)
              /\ Answer("data", d, o)
              /\ UNCHANGED <<das_cache, dds_cache, dmr_cache>>
           \/ /\ request.op = "dds" /\ das_cache[d] # None
              /\ CacheDds(d, whole)
              /\ Answer("dds", d, whole)
              /\ UNCHANGED <<das_cache, datadds_cache, dmr_cache>>
           \/ /\ request.op = "dmr" \/ (request.op = "dds" /\ das_cache[d] = None)
              /\ pc' = "attributes" /\ response' = o
              /\ UNCHANGED <<caches, seen>>
    /\ UNCHANGED <<settings, file, request>>

\* Mutant: NC.UseMDS is not looked at.
SourcesUnasked(d) == IF request.op = "add" THEN 1..file[d] ELSE {file[d]}

\* add_attributes() takes the attributes from the metadata store if it may
\* and they are there, of whichever version the store was told last.
Sources(d) == IF request.op = "add" /\ useMds THEN 1..file[d] ELSE {file[d]}

\* nc_read_dataset_attributes() or parse_das_from_mds(), the ancillary DAS,
\* and the transfer to the DDS.
ReadAttributes ==
    /\ pc = "attributes"
    /\ \E version \in Sources(request.of) :
       LET d == request.of
           op == request.op
           a == [vars |-> 0, atts |-> version]
           o == [response EXCEPT !.atts = version]
       IN  /\ IF op = "dmr" THEN UNCHANGED das_cache
              ELSE das_cache' \in Add(das_cache, d, a)
           /\ IF op = "dds" THEN CacheDds(d, o) ELSE UNCHANGED dds_cache
           /\ IF op = "dmr" THEN dmr_cache' \in Add(dmr_cache, d, o) ELSE UNCHANGED dmr_cache
           /\ Answer(op, d, o)
    /\ UNCHANGED <<settings, file, request, datadds_cache>>

\* The file, or an ancillary file, cannot be read.
Fail ==
    /\ pc \in {"variables", "attributes"}
    /\ Throw
    /\ UNCHANGED <<settings, file>>

\* External: the file is replaced.
Modify(d) ==
    /\ file[d] < MaxVersion[d]
    /\ file' = [file EXCEPT ![d] = @ + 1]
    /\ UNCHANGED <<settings, caches, request, pc, response, seen>>

Next ==
    \/ \E d \in Datasets :
          \/ BuildDas(d) \/ BuildDds(d) \/ BuildData(d) \/ BuildDmr(d)
          \/ AddAttributes(d) \/ Modify(d)
    \/ ReadVariables \/ ReadAttributes \/ Fail

Spec == Init /\ [][Next]_vars

-----------------------------------------------------------------------------
(* Properties                                                              *)

\* What a cache holds is whole, whichever requests failed and at which call:
\* the code assumes of a DDS it finds "that any cached DDS includes the DAS
\* information", and makes a DMR of it.
CachedIsWhole ==
    \A d \in Datasets :
        /\ das_cache[d] # None => das_cache[d].atts # 0
        /\ dds_cache[d] # None => dds_cache[d].vars # 0 /\ dds_cache[d].atts # 0
        /\ datadds_cache[d] # None => datadds_cache[d].vars # 0
        /\ dmr_cache[d] # None => dmr_cache[d].vars # 0 /\ dmr_cache[d].atts # 0

NotOlder(o, than) == o.vars >= than.vars /\ o.atts >= than.atts

\* Where two caches both have a data set, its DAS is never older than the
\* attributes of its DDS, though they are purged and read again apart.  Only
\* the metadata store can bring in an older DAS.
CachesAgree ==
    ~useMds =>
        \A d \in Datasets :
            das_cache[d] # None => das_cache[d].atts >= dds_cache[d].atts

\* A client that asks for the DAS, the DDS or the data of a file again never
\* gets an older one, in variables or attributes, though the caches do not
\* look at the file and each is purged by itself.  (A DMR may be made of a DDS
\* whose attributes are older than those of a DMR before it.)
NeverGoesBack ==
    [][\A op \in DOMAIN seen :
          request'.op = op /\ pc' = "idle" /\ ~useMds =>
              NotOlder(response', seen[op][request'.of])]_<<pc, request, response>>

=============================================================================
