---------------------------- MODULE AlgorithmProofs ----------------------------
(***************************************************************************)
(* Proofs about the modules of sequential code: what read() leaves behind  *)
(* (NcRead), for any variable, the Grids of a DDS (NcDds), for any file,   *)
(* and the directory of a cache (CacheDirectory), for any processes.       *)
(***************************************************************************)
EXTENDS NcDas, NcRead, CacheDirectory, SequenceTheorems, FiniteSetTheorems, WellFoundedInduction, TLAPS

\* The least of some numbers.
LEMMA MinIsLeast ==
    ASSUME NEW S \in SUBSET Nat, S # {}
    PROVE  Min(S) \in S /\ \A x \in S : Min(S) <= x
  <1>1. IsWellFoundedOn(OpToRel(<, Nat), Nat)
    BY NatLessThanWellFounded, Zenon
  <1>2. PICK a \in S : \A b \in S : <<b, a>> \notin OpToRel(<, Nat)
    BY <1>1, WFMin, Zenon
  <1>3. \A b \in S : ~(b < a)
    BY <1>2 DEF OpToRel
  <1>4. \A b \in S : a <= b
    BY <1>3
  <1>5. QED
    BY <1>4 DEF Min

-----------------------------------------------------------------------------
(* The calls of a read().                                                  *)

CallNames == {"open", "varid", "inq", "type", "get", "close"}

\* What is left of a read() that closes the file at the end, or, for a
\* string, ends with the data.
Rest(c, str) ==
    /\ c \in Seq(CallNames)
    /\ \A n \in 1..Len(c) :
        /\ c[n] = "open" => n = 1
        /\ c[n] = "get" => n = IF str THEN Len(c) ELSE Len(c) - 1
        /\ c[n] = "close" => n = Len(c)
    /\ c # <<>> => c[Len(c)] = IF str THEN "get" ELSE "close"

Gets(c) == \E n \in 1..Len(c) : c[n] = "get"

LEMMA RestOfTail ==
    ASSUME NEW str \in BOOLEAN, NEW c, Rest(c, str), c # <<>>
    PROVE  /\ Rest(Tail(c), str)
           /\ Tail(c) # <<>> => Head(Tail(c)) # "open"
           /\ Gets(Tail(c)) <=> Gets(c) /\ Head(c) # "get"
           /\ Tail(c) = <<>> <=> Head(c) = IF str THEN "get" ELSE "close"
  <1> DEFINE t == Tail(c)
             n == Len(c)
             m == Len(t)
  <1>1. /\ c \in Seq(CallNames) /\ n \in Nat /\ n > 0 /\ Head(c) = c[1]
        /\ t \in Seq(CallNames) /\ m = n - 1
        /\ \A k \in 1..m : t[k] = c[k + 1]
    BY HeadTailProperties DEF Rest
  <1>2. /\ \A k \in 1..n : /\ c[k] = "open" => k = 1
                           /\ c[k] = "get" => k = IF str THEN n ELSE n - 1
                           /\ c[k] = "close" => k = n
        /\ c[n] = IF str THEN "get" ELSE "close"
    BY DEF Rest
  <1>3. t = <<>> <=> m = 0
    BY <1>1, EmptySeq
  <1>4. t # <<>> => Head(t) = t[1]
    BY <1>1
  <1> HIDE DEF t, n, m
  <1>5. \A k \in 1..m : k + 1 \in 1..n
    BY <1>1
  <1>6. \A k \in 1..m : /\ t[k] # "open"
                        /\ t[k] = "get" => k = IF str THEN m ELSE m - 1
                        /\ t[k] = "close" => k = m
    <2> SUFFICES ASSUME NEW k \in 1..m
                 PROVE  /\ t[k] # "open"
                        /\ t[k] = "get" => k = IF str THEN m ELSE m - 1
                        /\ t[k] = "close" => k = m
      OBVIOUS
    <2>1. /\ k \in Nat /\ k > 0 /\ m \in Nat /\ n = m + 1 /\ t[k] = c[k + 1]
      BY <1>1
    <2>2. /\ c[k + 1] = "open" => k + 1 = 1
          /\ c[k + 1] = "get" => k + 1 = IF str THEN n ELSE n - 1
          /\ c[k + 1] = "close" => k + 1 = n
      BY <1>2, <1>5
    <2>3. QED
      BY <2>1, <2>2
  <1>7. t # <<>> => t[m] = IF str THEN "get" ELSE "close"
    BY <1>1, <1>2, <1>3
  <1>8. (\E k \in 1..m : t[k] = "get") <=> (\E k \in 1..n : c[k] = "get") /\ c[1] # "get"
    <2>1. ASSUME NEW k \in 1..m, t[k] = "get" PROVE c[k + 1] = "get" /\ k + 1 \in 1..n /\ c[1] # "get"
      BY <1>1, <1>2, <1>5, <2>1
    <2>2. ASSUME NEW k \in 1..n, c[k] = "get", c[1] # "get" PROVE k - 1 \in 1..m /\ t[k - 1] = "get"
      BY <1>1, <2>2
    <2>3. QED
      BY <2>1, <2>2
  <1>9. m = 0 <=> c[1] = IF str THEN "get" ELSE "close"
    BY <1>1, <1>2
  <1>10. Rest(t, str) /\ (t # <<>> => Head(t) # "open")
    BY <1>1, <1>3, <1>4, <1>6, <1>7 DEF Rest, m
  <1>11. QED
    BY <1>1, <1>3, <1>8, <1>9, <1>10 DEF Gets, t, n, m

\* The parts of a variable are of the classes that have a read().
Readable(v) ==
    /\ Len(v.parts) \in Nat /\ DOMAIN v.parts = 1..Len(v.parts)
    /\ \A k \in DOMAIN v.parts :
        \/ v.parts[k].kind \in {"array", "structure"}
        \/ v.parts[k].kind = "scalar" /\ v.parts[k].type \in DOMAIN ScalarReads

\* Strings are read without closing the file.
IsString(k) == Calls(variable.parts[k]) = NCStrRead

LEMMA ReadsAreWhole ==
    /\ \A c \in {NCByteRead, NCInt16Read, NCInt32Read, NCUInt16Read, NCUInt32Read,
                 NCFloat32Read, NCFloat64Read, NCArrayRead, NCStructureRead} :
          Rest(c, FALSE) /\ c # <<>> /\ Head(c) = "open" /\ Gets(c) /\ c # NCStrRead
    /\ Rest(NCStrRead, TRUE) /\ NCStrRead # <<>> /\ Head(NCStrRead) = "open" /\ Gets(NCStrRead)
  <1> DEFINE Good(c, str) == Rest(c, str) /\ c # <<>> /\ Head(c) = "open" /\ Gets(c)
  <1>1. Good(NCStrRead, TRUE) /\ NCStrRead[Len(NCStrRead)] = "get"
    <2> DEFINE c == <<"open", "varid", "inq", "type", "get">>
    <2>1. /\ c \in Seq(CallNames) /\ Len(c) = 5 /\ c # <<>> /\ Head(c) = "open"
          /\ c[1] = "open" /\ c[2] = "varid" /\ c[3] = "inq" /\ c[4] = "type" /\ c[5] = "get"
      BY DEF CallNames
    <2> HIDE DEF c
    <2>2. Good(c, TRUE) /\ c[Len(c)] = "get"
      BY <2>1 DEF Rest, Gets
    <2>3. QED
      BY <2>2 DEF c, NCStrRead
  <1>2. ASSUME NEW c, c = <<"open", "varid", "get", "close">>
        PROVE  Good(c, FALSE) /\ c[Len(c)] = "close"
    <2>1. /\ c \in Seq(CallNames) /\ Len(c) = 4 /\ c # <<>> /\ Head(c) = "open"
          /\ c[1] = "open" /\ c[2] = "varid" /\ c[3] = "get" /\ c[4] = "close"
      BY <1>2 DEF CallNames
    <2>2. QED
      BY <2>1 DEF Rest, Gets
  <1>3. ASSUME NEW c, c = <<"open", "varid", "inq", "get", "close">>
        PROVE  Good(c, FALSE) /\ c[Len(c)] = "close"
    <2>1. /\ c \in Seq(CallNames) /\ Len(c) = 5 /\ c # <<>> /\ Head(c) = "open"
          /\ c[1] = "open" /\ c[2] = "varid" /\ c[3] = "inq" /\ c[4] = "get" /\ c[5] = "close"
      BY <1>3 DEF CallNames
    <2>2. QED
      BY <2>1 DEF Rest, Gets
  <1>4. ASSUME NEW c, c = <<"open", "varid", "inq", "type", "get", "close">>
        PROVE  Good(c, FALSE) /\ c[Len(c)] = "close"
    <2>1. /\ c \in Seq(CallNames) /\ Len(c) = 6 /\ c # <<>> /\ Head(c) = "open"
          /\ c[1] = "open" /\ c[2] = "varid" /\ c[3] = "inq" /\ c[4] = "type" /\ c[5] = "get"
          /\ c[6] = "close"
      BY <1>4 DEF CallNames
    <2>2. QED
      BY <2>1 DEF Rest, Gets
  <1> HIDE DEF Good
  <1>5. ASSUME NEW c \in {NCByteRead, NCInt16Read, NCInt32Read, NCUInt16Read, NCUInt32Read,
                          NCFloat32Read, NCFloat64Read, NCArrayRead, NCStructureRead}
        PROVE  Good(c, FALSE) /\ c # NCStrRead
    <2>1. Good(c, FALSE) /\ c[Len(c)] = "close"
      BY <1>2, <1>3, <1>4, Zenon
         DEF NCByteRead, NCInt16Read, NCInt32Read, NCUInt16Read, NCUInt32Read,
             NCFloat32Read, NCFloat64Read, NCArrayRead, NCStructureRead
    <2>2. QED
      BY <1>1, <2>1
  <1>6. QED
    BY <1>1, <1>5 DEF Good

\* A read() begins by opening the file.
LEMMA CallsAreWhole ==
    ASSUME Readable(variable), NEW k \in Parts
    PROVE  LET c == Calls(variable.parts[k])
           IN  Rest(c, IsString(k)) /\ c # <<>> /\ Head(c) = "open" /\ Gets(c)
  <1> DEFINE c == Calls(variable.parts[k])
             Others == {NCByteRead, NCInt16Read, NCInt32Read, NCUInt16Read, NCUInt32Read,
                        NCFloat32Read, NCFloat64Read, NCArrayRead, NCStructureRead}
  <1>1. c \in Others \cup {NCStrRead}
    <2>1. CASE variable.parts[k].kind \in {"array", "structure"}
      BY <2>1 DEF Calls
    <2>2. CASE /\ variable.parts[k].kind = "scalar"
               /\ variable.parts[k].type \in DOMAIN ScalarReads
      <3>1. c = ScalarReads[variable.parts[k].type]
        BY <2>2 DEF Calls
      <3>2. variable.parts[k].type \in {"BYTE", "UBYTE", "SHORT", "INT", "USHORT", "UINT",
                                        "FLOAT", "DOUBLE", "CHAR", "STRING"}
        BY <2>2 DEF ScalarReads
      <3>3. QED
        BY <3>1, <3>2 DEF ScalarReads
    <2>3. QED
      BY <2>1, <2>2 DEF Readable, Parts
  <1>2. CASE c \in Others
    <2>1. /\ Rest(c, FALSE) /\ c # <<>> /\ Head(c) = "open" /\ Gets(c) /\ c # NCStrRead
      BY <1>2, ReadsAreWhole
    <2>2. IsString(k) = FALSE
      BY <2>1 DEF IsString
    <2>3. QED
      BY <2>1, <2>2
  <1>3. CASE c = NCStrRead
    <2>1. IsString(k) = TRUE
      BY <1>3 DEF IsString
    <2>2. QED
      BY <1>3, <2>1, ReadsAreWhole
  <1>4. QED
    BY <1>1, <1>2, <1>3

-----------------------------------------------------------------------------
(* The invariant of read().                                                *)

\* read() of the variables of `vs`, any of them.
ReadSpec(vs) == ReadInit(vs) /\ [][ReadNext]_readVars

ReadTypes ==
    /\ Readable(variable)
    /\ readP \in [0..Len(variable.parts) -> BOOLEAN]
    /\ DOMAIN value = Parts
    /\ open \in Int /\ failures \in Nat
    /\ part \in 0..Len(variable.parts)

\* Parts are read in order, and a part gets its data when it has none.
Reading ==
    /\ part = 0 => calls = <<>>
    /\ part # 0 => /\ ~readP[0]
                   /\ Rest(calls, IsString(part))
                   /\ Gets(calls) <=> ~readP[part]
                   /\ \A j \in Parts : j < part /\ variable.parts[j].send => readP[j]

Complete ==
    /\ \A k \in Parts : readP[k] => value[k] # None
    /\ readP[0] => \A k \in Parts : variable.parts[k].send => readP[k]

Strings == {k \in Parts : readP[k] /\ IsString(k)}

\* The running read() has opened the file.
InFile == IF calls # <<>> /\ Head(calls) # "open" THEN 1 ELSE 0

Handles == open <= failures + Cardinality(Strings) + InFile

ReadInv == ReadTypes /\ Reading /\ Complete /\ Handles

LEMMA PartsAreNumbers ==
    ASSUME Readable(variable)
    PROVE  Len(variable.parts) \in Nat /\ Parts = 1..Len(variable.parts)
  BY DEF Readable, Parts

LEMMA StringsAreFinite ==
    ASSUME Readable(variable)
    PROVE  /\ IsFiniteSet(Parts) /\ IsFiniteSet(Strings) /\ Cardinality(Strings) \in Nat
  <1>1. IsFiniteSet(Parts)
    BY PartsAreNumbers, FS_Interval
  <1>2. IsFiniteSet(Strings)
    BY <1>1, FS_Subset DEF Strings
  <1>3. QED
    BY <1>1, <1>2, FS_CardinalityType

LEMMA ReadInvInit ==
    ASSUME NEW vs, \A v \in vs : Readable(v), ReadInit(vs)
    PROVE  ReadInv
  <1>1. Readable(variable)
    BY DEF ReadInit
  <1>2. ReadTypes
    BY <1>1, PartsAreNumbers DEF ReadInit, ReadTypes
  <1>3. Reading /\ Complete
    BY <1>1, PartsAreNumbers DEF ReadInit, Reading, Complete
  <1>4. Handles
    BY <1>1, StringsAreFinite DEF ReadInit, Handles, InFile
  <1>5. QED
    BY <1>2, <1>3, <1>4 DEF ReadInv

\* On to the next part, or to the end, from a part before which all is read.
LEMMA GoOnKeeps ==
    ASSUME ReadInv, NEW k \in 0..Len(variable.parts), GoOn(k), calls = <<>>,
           ~readP[0],
           \A j \in Parts : j <= k /\ variable.parts[j].send => readP[j],
           UNCHANGED <<variable, value, open, failures>>
    PROVE  ReadInv'
  <1>1. /\ ReadTypes /\ Complete /\ Handles
        /\ Readable(variable) /\ Len(variable.parts) \in Nat /\ Parts = 1..Len(variable.parts)
    BY PartsAreNumbers DEF ReadInv, ReadTypes
  <1>2. /\ Parts' = Parts /\ Readable(variable)' /\ variable' = variable
        /\ \A j : IsString(j)' = IsString(j)
    BY <1>1 DEF Parts, Readable, IsString
  <1>3. CASE Left(k) # {}
    <2> DEFINE m == Min(Left(k))
    <2>1. Left(k) \subseteq Nat /\ Left(k) \subseteq Parts
      BY <1>1 DEF Left
    <2>2. m \in Left(k) /\ \A x \in Left(k) : m <= x
      BY <1>3, <2>1, MinIsLeast
    <2>3. /\ part' = m /\ calls' = Calls(variable.parts[m]) /\ readP' = readP
      BY <1>3 DEF GoOn
    <2> HIDE DEF m
    <2>4. m \in Parts /\ m > k /\ variable.parts[m].send /\ ~readP[m]
      BY <2>2 DEF Left
    <2>5. /\ Rest(calls', IsString(m)) /\ calls' # <<>> /\ Head(calls') = "open" /\ Gets(calls')
      BY <1>1, <2>3, <2>4, CallsAreWhole
    <2>6. ReadTypes'
      BY <1>1, <1>2, <2>3, <2>4 DEF ReadTypes
    <2>7. \A j \in Parts : j < m /\ variable.parts[j].send => readP[j]
      <3> SUFFICES ASSUME NEW j \in Parts, j < m, variable.parts[j].send, ~readP[j]
                   PROVE  FALSE
        OBVIOUS
      <3>1. j > k
        BY <1>1
      <3>2. j \in Left(k)
        BY <3>1 DEF Left
      <3>3. QED
        BY <1>1, <2>2, <2>4, <3>2
    <2>8. Reading'
      <3>1. part' # 0
        BY <1>1, <2>3, <2>4
      <3>2. Gets(calls)' /\ Rest(calls, IsString(part))'
        BY <1>2, <2>3, <2>5
      <3>3. QED
        BY <1>2, <2>3, <2>4, <2>7, <3>1, <3>2 DEF Reading
    <2>9. Complete'
      BY <1>1, <1>2, <2>3 DEF Complete
    <2>10. Strings' = Strings /\ InFile' = 0 /\ InFile = 0
      BY <1>2, <2>3, <2>5 DEF Strings, InFile
    <2>11. Handles'
      BY <1>1, <2>10 DEF Handles
    <2>12. QED
      BY <2>6, <2>8, <2>9, <2>11 DEF ReadInv
  <1>4. CASE Left(k) = {}
    <2>1. part' = 0 /\ calls' = <<>> /\ readP' = [readP EXCEPT ![0] = TRUE]
      BY <1>4 DEF GoOn
    <2>2. ReadTypes'
      BY <1>1, <1>2, <2>1 DEF ReadTypes
    <2>3. \A j \in Parts : readP'[j] = readP[j]
      <3>1. DOMAIN readP = 0..Len(variable.parts) /\ \A j \in Parts : j # 0 /\ j \in DOMAIN readP
        BY <1>1 DEF ReadTypes
      <3>2. QED
        BY <2>1, <3>1, Zenon
    <2>4. \A j \in Parts : variable.parts[j].send => readP[j]
      <3> SUFFICES ASSUME NEW j \in Parts, variable.parts[j].send, ~readP[j], j > k
                   PROVE  FALSE
        BY <1>1
      <3>1. QED
        BY <1>4 DEF Left
    <2>5. Reading' /\ Complete'
      BY <1>1, <1>2, <2>1, <2>3, <2>4 DEF Reading, Complete
    <2>6. Strings' = Strings /\ InFile' = 0 /\ InFile = 0
      BY <1>2, <2>1, <2>3 DEF Strings, InFile
    <2>7. Handles'
      BY <1>1, <2>6 DEF Handles
    <2>8. QED
      BY <2>2, <2>5, <2>7 DEF ReadInv
  <1>5. QED
    BY <1>3, <1>4

\* What one call of read() leaves of the calls.
LEMMA ContinueKeeps ==
    ASSUME ReadInv, calls # <<>>, Continue, UNCHANGED variable
    PROVE  /\ part # 0 /\ part \in Parts /\ part' = part
           /\ Rest(calls', IsString(part)')
           /\ Gets(calls') <=> (Gets(calls) /\ Head(calls) # "get")
           /\ calls' # <<>> => Head(calls') # "open"
           /\ calls' = <<>> <=> Head(calls) = IF IsString(part) THEN "get" ELSE "close"
           /\ InFile' = IF calls' = <<>> THEN 0 ELSE 1
  <1>1. part # 0 /\ Rest(calls, IsString(part)) /\ part \in Parts
    BY PartsAreNumbers DEF ReadInv, ReadTypes, Reading
  <1>2. part' = part /\ calls' = Tail(calls) /\ IsString(part)' = IsString(part)
    BY DEF Continue, IsString
  <1>3. IsString(part) \in BOOLEAN
    BY DEF IsString
  <1>4. /\ Rest(calls', IsString(part))
        /\ Gets(calls') <=> (Gets(calls) /\ Head(calls) # "get")
        /\ calls' # <<>> => Head(calls') # "open"
        /\ calls' = <<>> <=> Head(calls) = IF IsString(part) THEN "get" ELSE "close"
    BY <1>1, <1>2, <1>3, RestOfTail
  <1>5. InFile' = IF calls' = <<>> THEN 0 ELSE 1
    BY <1>4 DEF InFile
  <1>6. QED
    BY <1>1, <1>2, <1>4, <1>5

\* A call that changes neither the data nor what counts as read, and goes on
\* or gives up.
LEMMA QuietCall ==
    ASSUME ReadInv, calls # <<>>, Head(calls) # "get",
           UNCHANGED <<variable, readP, value>>,
           open' \in Int, failures' \in Nat,
           (part' = part /\ Continue) \/ End,
           open' <= failures' + Cardinality(Strings) + InFile'
    PROVE  ReadInv'
  <1>1. /\ ReadTypes /\ Reading /\ Complete
        /\ Readable(variable) /\ Len(variable.parts) \in Nat /\ Parts = 1..Len(variable.parts)
    BY PartsAreNumbers DEF ReadInv, ReadTypes
  <1>2. /\ Parts' = Parts /\ Readable(variable)' /\ variable' = variable
        /\ readP' = readP /\ value' = value /\ Strings' = Strings
    BY <1>1 DEF Parts, Readable, Strings, IsString
  <1>3. ReadTypes' /\ Reading'
    <2>1. CASE Continue
      <3>1. ReadTypes'
        BY <1>1, <1>2, <2>1, ContinueKeeps DEF ReadTypes
      <3>2. /\ Rest(calls, IsString(part))' /\ part' = part /\ part # 0
            /\ Gets(calls)' <=> Gets(calls)
        BY <2>1, ContinueKeeps
      <3>3. Reading'
        BY <1>1, <1>2, <3>2 DEF Reading
      <3>4. QED
        BY <3>1, <3>3
    <2>2. CASE End
      BY <1>1, <1>2, <2>2 DEF End, ReadTypes, Reading
    <2>3. QED
      BY <2>1, <2>2
  <1>4. Complete'
    BY <1>1, <1>2 DEF Complete
  <1>5. Handles'
    BY <1>2 DEF Handles
  <1>6. QED
    BY <1>3, <1>4, <1>5 DEF ReadInv

\* The part gets its data, and counts as read.
LEMMA GotData ==
    ASSUME ReadInv, At("get"), Continue, NEW d, d # None,
           value' = [value EXCEPT ![part] = d],
           readP' = [readP EXCEPT ![part] = TRUE],
           UNCHANGED <<variable, open>>
    PROVE  ReadInv'
  <1>1. /\ ReadTypes /\ Reading /\ Complete /\ Handles
        /\ Readable(variable) /\ Len(variable.parts) \in Nat /\ Parts = 1..Len(variable.parts)
        /\ calls # <<>> /\ Head(calls) = "get"
    BY PartsAreNumbers DEF ReadInv, ReadTypes, At
  <1>2. /\ Parts' = Parts /\ Readable(variable)' /\ variable' = variable
        /\ \A j : IsString(j)' = IsString(j)
    BY <1>1 DEF Parts, Readable, IsString
  <1>3. /\ part # 0 /\ part \in Parts /\ part' = part /\ failures' = failures
        /\ Rest(calls, IsString(part))' /\ ~Gets(calls)'
        /\ calls' = <<>> <=> IsString(part)
        /\ InFile' = IF calls' = <<>> THEN 0 ELSE 1
    BY <1>1, ContinueKeeps DEF Continue
  <1>4. /\ ~readP[part] /\ ~readP[0]
    <2>1. Gets(calls)
      <3>1. Rest(calls, IsString(part)) 
        BY <1>1, <1>3 DEF Reading
      <3>2. Len(calls) \in Nat /\ Len(calls) >= 1 /\ calls[1] = "get"
        BY <1>1, <3>1 DEF Rest
      <3>3. QED
        BY <3>2 DEF Gets
    <2>2. QED
      BY <1>1, <1>3, <2>1 DEF Reading
  <1>5. /\ DOMAIN readP = 0..Len(variable.parts)
        /\ \A j \in Parts : j \in DOMAIN readP
        /\ 0 \in DOMAIN readP
    BY <1>1 DEF ReadTypes
  <1>6. /\ readP'[part] /\ ~readP'[0]
        /\ \A j \in Parts : j # part => readP'[j] = readP[j]
    BY <1>3, <1>4, <1>5, Zenon
  <1>7. value'[part] = d /\ \A j \in Parts : j # part => value'[j] = value[j]
    BY <1>1, <1>3 DEF ReadTypes
  <1>8. ReadTypes'
    <2>1. readP' \in [0..Len(variable.parts) -> BOOLEAN] /\ DOMAIN value' = Parts
      BY <1>1, <1>3 DEF ReadTypes
    <2>2. QED
      BY <1>1, <1>2, <1>3, <2>1 DEF ReadTypes
  <1>9. Reading'
    <2>1. \A j \in Parts : j < part /\ variable.parts[j].send => readP'[j]
      BY <1>1, <1>3, <1>6 DEF Reading
    <2>2. QED
      BY <1>2, <1>3, <1>6, <2>1 DEF Reading
  <1>10. Complete'
    BY <1>1, <1>2, <1>6, <1>7 DEF Complete
  <1>11. Handles'
    <2>1. InFile = 1 /\ open \in Int /\ failures \in Nat
      BY <1>1 DEF InFile, ReadTypes
    <2>2. IsFiniteSet(Strings) /\ Cardinality(Strings) \in Nat /\ part \notin Strings
      BY <1>1, <1>4, StringsAreFinite DEF Strings
    <2>3. CASE IsString(part)
      <3>1. Strings' = Strings \cup {part}
        BY <1>2, <1>3, <1>6, <2>3 DEF Strings
      <3>2. Cardinality(Strings)' = Cardinality(Strings) + 1
        BY <2>2, <3>1, FS_AddElement
      <3>3. QED
        BY <1>1, <1>3, <2>1, <2>2, <2>3, <3>2 DEF Handles
    <2>4. CASE ~IsString(part)
      <3>1. Strings' = Strings
        BY <1>2, <1>3, <1>6, <2>4 DEF Strings
      <3>2. QED
        BY <1>1, <1>3, <2>1, <2>2, <2>4, <3>1 DEF Handles
    <2>5. QED
      BY <2>3, <2>4
  <1>12. QED
    BY <1>8, <1>9, <1>10, <1>11 DEF ReadInv

LEMMA ReadInvStep ==
    ASSUME ReadInv, [ReadNext]_readVars
    PROVE  ReadInv'
  <1>1. /\ ReadTypes /\ Reading /\ Complete /\ Handles
        /\ Readable(variable) /\ Len(variable.parts) \in Nat /\ Parts = 1..Len(variable.parts)
        /\ open \in Int /\ failures \in Nat /\ Cardinality(Strings) \in Nat
    BY PartsAreNumbers, StringsAreFinite DEF ReadInv, ReadTypes
  <1>2. CASE Read
    <2>1. part = 0 /\ ~readP[0] /\ GoOn(0) /\ UNCHANGED <<variable, value, open, failures>>
      BY <1>2 DEF Read
    <2>2. calls = <<>> /\ \A j \in Parts : j <= 0 /\ variable.parts[j].send => readP[j]
      BY <1>1, <2>1 DEF Reading
    <2>3. QED
      BY <1>1, <2>1, <2>2, GoOnKeeps
  <1>3. CASE OpenFile
    <2>1. calls # <<>> /\ Head(calls) = "open" /\ InFile = 0
      BY <1>3 DEF OpenFile, At, InFile
    <2>2. CASE open' = open + 1 /\ Continue
      <3>1. UNCHANGED <<variable, readP, value>> /\ part' = part /\ failures' = failures
        BY <1>3, <2>2 DEF OpenFile, Continue
      <3>2. InFile' = 1
        BY <2>1, <2>2, <3>1, ContinueKeeps
      <3>3. QED
        BY <1>1, <2>1, <2>2, <3>1, <3>2, QuietCall DEF Handles
    <2>3. CASE End /\ UNCHANGED <<open, failures>>
      <3>1. UNCHANGED <<variable, readP, value>> /\ InFile' = 0
        BY <1>3, <2>3 DEF OpenFile, End, InFile
      <3>2. QED
        BY <1>1, <2>1, <2>3, <3>1, QuietCall DEF Handles
    <2>4. QED
      BY <1>3, <2>2, <2>3 DEF OpenFile
  <1>4. ASSUME calls # <<>>, Head(calls) \in {"varid", "inq", "type"}, Continue \/ Fail,
               UNCHANGED <<variable, readP, value, open>>
        PROVE  ReadInv'
    <2>1. InFile = 1
      BY <1>4 DEF InFile
    <2>2. CASE Continue
      <3>1. part' = part /\ failures' = failures
        BY <2>2 DEF Continue
      <3>2. InFile' = 1
        BY <1>4, <2>2, ContinueKeeps
      <3>3. QED
        BY <1>1, <1>4, <2>1, <2>2, <3>1, <3>2, QuietCall DEF Handles
    <2>3. CASE Fail
      <3>1. End /\ failures' = failures + 1 /\ InFile' = 0
        BY <2>3 DEF Fail, End, InFile
      <3>2. QED
        BY <1>1, <1>4, <2>1, <3>1, QuietCall DEF Handles
    <2>4. QED
      BY <1>4, <2>2, <2>3
  <1>5. CASE Inquire
    BY <1>4, <1>5 DEF Inquire, At
  <1>6. CASE CheckType
    BY <1>4, <1>6 DEF CheckType, At
  <1>7. CASE Get
    <2>1. At("get") /\ UNCHANGED <<variable, open>>
      BY <1>7 DEF Get
    <2>2. ASSUME value' = [value EXCEPT ![part] = IF replaced THEN Garbage ELSE FromFile(Data(Part))],
                 readP' = [readP EXCEPT ![part] = TRUE], Continue
          PROVE  ReadInv'
      <3> DEFINE d == IF replaced THEN Garbage ELSE FromFile(Data(Part))
      <3>1. d # None
        BY DEF Garbage, FromFile, None
      <3>2. value' = [value EXCEPT ![part] = d]
        BY <2>2
      <3> HIDE DEF d
      <3>3. QED
        BY <2>1, <2>2, <3>1, <3>2, GotData
    <2>3. ASSUME Fail, UNCHANGED <<readP, value>> PROVE ReadInv'
      <3>1. /\ calls # <<>> /\ InFile = 1 /\ InFile' = 0
            /\ End /\ failures' = failures + 1
        BY <2>1, <2>3 DEF At, InFile, Fail, End
      <3>2. ReadTypes' /\ Reading'
        BY <1>1, <2>1, <2>3, <3>1 DEF ReadTypes, Reading, Readable, End, Parts
      <3>3. Complete' /\ Strings' = Strings
        BY <1>1, <2>1, <2>3 DEF Complete, Strings, Parts, IsString
      <3>4. Handles'
        BY <1>1, <2>1, <3>1, <3>3 DEF Handles
      <3>5. QED
        BY <3>2, <3>3, <3>4 DEF ReadInv
    <2>4. QED
      BY <1>7, <2>2, <2>3 DEF Get
  <1>8. CASE CloseFile
    <2>1. calls # <<>> /\ Head(calls) = "close" /\ InFile = 1
          /\ UNCHANGED <<variable, readP, value>>
      BY <1>8 DEF CloseFile, At, InFile
    <2>2. InFile' \in {0, 1}
      BY DEF InFile
    <2>3. CASE open' = open - 1 /\ Continue
      <3>1. part' = part /\ failures' = failures
        BY <2>3 DEF Continue
      <3>2. QED
        BY <1>1, <2>1, <2>2, <2>3, <3>1, QuietCall DEF Handles
    <2>4. CASE open' \in {open - 1, open} /\ Fail
      <3>1. End /\ failures' = failures + 1
        BY <2>4 DEF Fail
      <3>2. QED
        BY <1>1, <2>1, <2>2, <2>4, <3>1, QuietCall DEF Handles
    <2>5. QED
      BY <1>8, <2>3, <2>4 DEF CloseFile
  <1>9. CASE Return
    <2>1. part # 0 /\ calls = <<>> /\ GoOn(part) /\ UNCHANGED <<variable, value, open, failures>>
      BY <1>9 DEF Return
    <2>2. ~Gets(calls)
      BY <2>1 DEF Gets
    <2>3. /\ readP[part] /\ ~readP[0]
          /\ \A j \in Parts : j < part /\ variable.parts[j].send => readP[j]
      BY <1>1, <2>1, <2>2 DEF Reading
    <2>4. part \in 0..Len(variable.parts)
      BY <1>1 DEF ReadTypes
    <2>5. \A j \in Parts : j <= part /\ variable.parts[j].send => readP[j]
      BY <1>1, <2>3, <2>4
    <2>6. QED
      BY <2>1, <2>3, <2>4, <2>5, GoOnKeeps
  <1>10. ASSUME UNCHANGED <<variable, readP, value, open, part, calls, failures>>
         PROVE  ReadInv'
    BY <1>10
       DEF ReadInv, ReadTypes, Reading, Complete, Handles, Readable, Parts, Strings, InFile, IsString
  <1>11. CASE Replace
    BY <1>10, <1>11 DEF Replace
  <1>12. CASE UNCHANGED readVars
    BY <1>10, <1>12 DEF readVars
  <1>13. QED
    BY <1>2, <1>3, <1>5, <1>6, <1>7, <1>8, <1>9, <1>11, <1>12 DEF ReadNext

\* NCGrid::read() and the others, for any variable of the classes that have a
\* read(), any number of failures and of later tries: what counts as read has
\* a value in every part that is sent.
THEOREM ReadGridIsComplete ==
    ASSUME NEW CONSTANT vs, \A v \in vs : Readable(v)
    PROVE  ReadSpec(vs) => []GridReadIsComplete
  <1>1. ReadInit(vs) => ReadInv
    BY ReadInvInit
  <1>2. ReadInv /\ [ReadNext]_readVars => ReadInv'
    BY ReadInvStep
  <1>3. ReadInv => GridReadIsComplete
    BY DEF ReadInv, Complete, GridReadIsComplete
  <1>4. QED
    BY <1>1, <1>2, <1>3, PTL DEF ReadSpec

\* The same variables: no more netCDF files stay open than reads failed with
\* the file open and strings were read.
THEOREM HandlesAreAccounted ==
    ASSUME NEW CONSTANT vs, \A v \in vs : Readable(v)
    PROVE  ReadSpec(vs) => []HandlesAccounted
  <1>1. ReadInit(vs) => ReadInv
    BY ReadInvInit
  <1>2. ReadInv /\ [ReadNext]_readVars => ReadInv'
    BY ReadInvStep
  <1>3. ReadInv => HandlesAccounted
    <2> SUFFICES ASSUME ReadInv, part = 0
                 PROVE  open <= failures + Cardinality(Strings)
      BY DEF HandlesAccounted, Strings, IsString
    <2>1. InFile = 0
      BY DEF ReadInv, Reading, InFile
    <2>2. Cardinality(Strings) \in Nat
      BY StringsAreFinite DEF ReadInv, ReadTypes
    <2>3. QED
      BY <2>1, <2>2 DEF ReadInv, ReadTypes, Handles
  <1>4. QED
    BY <1>1, <1>2, <1>3, PTL DEF ReadSpec

-----------------------------------------------------------------------------
(* The Grids of a DDS.                                                     *)

\* The files a netCDF library opens: names are unique, and a variable has
\* dimensions of the file; those of a user-defined type are refused.
Accepted(f) ==
    /\ Len(f.vars) \in Nat /\ DOMAIN f.vars = 1..Len(f.vars)
    /\ \A i \in DOMAIN f.vars :
        LET v == f.vars[i]
        IN  /\ Len(v.dims) \in Nat /\ v.dims \in [1..Len(v.dims) -> DOMAIN f.dims]
            /\ IsUserDefined(v.type) => UserDefined(v) = {}
    /\ \A i, j \in DOMAIN f.vars : f.vars[i].name = f.vars[j].name => i = j

\* new_ncdds.cc, then ncdas.cc, on one of the files `fs`.
NcSpec(fs) ==
    /\ DdsInit(fs) /\ DasInit
    /\ [][(ReadAllVariables /\ UNCHANGED dasVars) \/ DasNext]_<<ddsVars, dasVars>>

\* A sequence without its last element.
LEMMA FrontProperties ==
    ASSUME NEW S, NEW s \in Seq(S), Len(s) > 0
    PROVE  /\ SubSeq(s, 1, Len(s) - 1) \in Seq(S)
           /\ Len(SubSeq(s, 1, Len(s) - 1)) = Len(s) - 1
           /\ DOMAIN SubSeq(s, 1, Len(s) - 1) = 1..(Len(s) - 1)
           /\ \A d \in 1..(Len(s) - 1) : SubSeq(s, 1, Len(s) - 1)[d] = s[d]
  <1> DEFINE n == Len(s) - 1
             t == SubSeq(s, 1, n)
  <1>1. n \in Nat /\ \A i \in 1..n : s[i] \in S
    OBVIOUS
  <1>2. /\ t \in Seq(S)
        /\ Len(t) = IF 1 <= n THEN n - 1 + 1 ELSE 0
        /\ \A i \in 1..(n - 1 + 1) : t[i] = s[1 + i - 1]
    <2> HIDE DEF n
    <2>1. n \in Int
      BY <1>1
    <2>2. QED
      BY <1>1, <2>1, SubSeqProperties DEF t
  <1> HIDE DEF n, t
  <1>3. Len(t) = n /\ n - 1 + 1 = n
    BY <1>1, <1>2
  <1>4. DOMAIN t = 1..n
    BY <1>2, <1>3
  <1>5. \A d \in 1..n : t[d] = s[d]
    BY <1>1, <1>2, <1>3
  <1>6. QED
    BY <1>2, <1>3, <1>4, <1>5, Zenon DEF n, t

\* The dimensions that DAP gives to a variable are the first of the file's.
LEMMA DapShapeIsPrefix ==
    ASSUME NEW f, Accepted(f), NEW i \in DOMAIN f.vars
    PROVE  LET v == f.vars[i]
               shape == DapShape(v.type, Shape(f, v))
           IN  /\ DOMAIN shape \subseteq DOMAIN v.dims
               /\ \A d \in DOMAIN shape : shape[d] = f.dims[v.dims[d]]
               /\ v.type # "CHAR" => shape = [d \in DOMAIN v.dims |-> f.dims[v.dims[d]]]
  <1> DEFINE v == f.vars[i]
             n == Len(v.dims)
             all == Shape(f, v)
             T == {f.dims[k] : k \in DOMAIN f.dims}
  <1>1. n \in Nat /\ v.dims \in [1..n -> DOMAIN f.dims]
    BY DEF Accepted
  <1>2. /\ all = [d \in 1..n |-> f.dims[v.dims[d]]]
        /\ all \in Seq(T)
    <2>1. DOMAIN v.dims = 1..n
      BY <1>1
    <2>2. all = [d \in 1..n |-> f.dims[v.dims[d]]]
      BY <2>1, Zenon DEF Shape
    <2>3. ASSUME NEW d \in 1..n
          PROVE  f.dims[v.dims[d]] \in T
      BY <1>1, <2>3
    <2>4. \A g : g = [d \in 1..n |-> f.dims[v.dims[d]]] => g \in [1..n -> T]
      BY <2>3
    <2>5. ASSUME NEW S, NEW m \in Nat, NEW g \in [1..m -> S]
          PROVE  g \in Seq(S)
      OBVIOUS
    <2>6. all \in Seq(T)
      <3>1. all \in [1..n -> T]
        BY <2>2, <2>4, Zenon
      <3>2. QED
        BY <1>1, <2>5, <3>1, Zenon
    <2>7. QED
      BY <2>2, <2>6
  <1>3. Len(all) = n
    BY <1>1, <1>2
  <1>4. DOMAIN v.dims = 1..n
    BY <1>1
  <1>5. \A d \in DOMAIN v.dims : all[d] = f.dims[v.dims[d]]
    BY <1>2, <1>4
  <1> DEFINE shape == DapShape(v.type, all)
  <1> HIDE DEF n, all, T, shape
  <1>6. ASSUME v.type = "CHAR"
        PROVE  /\ DOMAIN shape \subseteq DOMAIN v.dims
               /\ \A d \in DOMAIN shape : shape[d] = all[d]
    <2>1. shape = SubSeq(all, 1, n - 1)
      BY <1>3, <1>6 DEF DapShape, shape
    <2>2. CASE n = 0
      <3>1. SubSeq(all, 1, n - 1) = <<>>
        BY <1>1, <1>2, <2>2, SubSeqEmpty
      <3>2. ASSUME NEW e, e = <<>> PROVE DOMAIN e = {}
        <4>1. e \in Seq({}) /\ Len(e) = 0
          BY <3>2
        <4>2. QED
          BY <4>1
      <3>3. DOMAIN shape = {}
        BY <2>1, <3>1, <3>2, Zenon
      <3>4. QED
        BY <3>3
    <2>3. CASE n > 0
      <3>1. Len(all) > 0
        BY <1>1, <1>3, <2>3
      <3>2. /\ DOMAIN SubSeq(all, 1, Len(all) - 1) = 1..(Len(all) - 1)
            /\ \A d \in 1..(Len(all) - 1) : SubSeq(all, 1, Len(all) - 1)[d] = all[d]
        BY <1>2, <3>1, FrontProperties
      <3>3. /\ DOMAIN shape = 1..(n - 1)
            /\ \A d \in 1..(n - 1) : shape[d] = all[d]
        BY <1>3, <2>1, <3>2
      <3>4. 1..(n - 1) \subseteq DOMAIN v.dims
        BY <1>1, <1>4
      <3>5. QED
        BY <3>3, <3>4
    <2>4. QED
      BY <1>1, <2>2, <2>3
  <1>7. ASSUME v.type # "CHAR"
        PROVE  shape = all /\ DOMAIN shape = DOMAIN v.dims
    <2>1. shape = all
      BY <1>7 DEF DapShape, shape
    <2>2. DOMAIN all = DOMAIN v.dims
      BY <1>2, <1>4
    <2>3. QED
      BY <2>1, <2>2
  <1>8. /\ DOMAIN shape \subseteq DOMAIN v.dims
        /\ \A d \in DOMAIN shape : shape[d] = all[d]
        /\ v.type # "CHAR" => shape = all
    BY <1>6, <1>7
  <1>9. /\ \A d \in DOMAIN shape : shape[d] = f.dims[v.dims[d]]
        /\ v.type # "CHAR" => shape = [d \in DOMAIN v.dims |-> f.dims[v.dims[d]]]
    BY <1>2, <1>4, <1>5, <1>8
  <1>10. QED
    BY <1>8, <1>9, Zenon DEF shape, all

\* Each() of sets, none of them empty, has the one sequence.
LEMMA EachOf ==
    ASSUME NEW sets, NEW s \in Each(sets)
    PROVE  DOMAIN s = DOMAIN sets /\ \A k \in DOMAIN sets : s[k] \in sets[k]
  <1>1. /\ \A k \in DOMAIN sets : sets[k] # {}
        /\ s = [k \in DOMAIN sets |-> CHOOSE x \in sets[k] : TRUE]
    BY DEF Each
  <1>2. QED
    BY <1>1

\* GridsAreConsistent, of one declaration.
ConsistentWith(f, i, d) ==
    /\ d.name = f.vars[i].name
    /\ d.kind = "grid" =>
         /\ [m \in DOMAIN d.maps |-> d.maps[m].dims] =
               [m \in DOMAIN d.array.dims |-> <<d.array.dims[m]>>]
         /\ \A m \in DOMAIN d.maps : d.maps[m].name \notin {d.name}
    /\ \A a \in Arrays(d) : a.name = f.vars[i].name /\ f.vars[i].type # "CHAR" =>
         a.dims = [m \in DOMAIN f.vars[i].dims |-> f.dims[f.vars[i].dims[m]]]

LEMMA GridIsConsistent ==
    ASSUME NEW f, Accepted(f), NEW i \in DOMAIN f.vars, IsGrid(f, i),
           NEW d \in BuildGrid(f, f.vars[i])
    PROVE  ConsistentWith(f, i, d)
  <1> DEFINE v == f.vars[i]
             shape == DapShape(v.type, Shape(f, v))
             sets == [k \in DOMAIN shape |-> MapOf(f, shape[k])]
  <1>1. PICK a \in BuildArray(f, v), ms \in Each(sets) :
            d = [kind |-> "grid", name |-> v.name, array |-> a, maps |-> ms]
    BY DEF BuildGrid
  <1>2. a.name = v.name /\ a.dims = shape
    BY DEF BuildArray, ArrayOf
  <1>3. DOMAIN sets = DOMAIN shape /\ \A k \in DOMAIN shape : sets[k] = MapOf(f, shape[k])
    OBVIOUS
  <1>4. /\ DOMAIN shape \subseteq DOMAIN v.dims
        /\ \A k \in DOMAIN shape : shape[k] = f.dims[v.dims[k]]
        /\ v.type # "CHAR" => shape = [k \in DOMAIN v.dims |-> f.dims[v.dims[k]]]
    BY DapShapeIsPrefix
  <1> HIDE DEF shape, sets
  <1>5. DOMAIN ms = DOMAIN shape /\ \A k \in DOMAIN shape : ms[k] \in MapOf(f, shape[k])
    BY <1>3, EachOf
  <1>6. \A k \in DOMAIN shape : ms[k].name = shape[k].name /\ ms[k].dims = <<shape[k]>>
    BY <1>5 DEF MapOf, ArrayOf
  <1>7. \A k \in DOMAIN shape : shape[k].name # v.name
    <2> SUFFICES ASSUME NEW k \in DOMAIN shape, shape[k].name = v.name
                 PROVE  FALSE
      OBVIOUS
    <2>1. FindMatchingCoordinateVariable(f, i, shape[k])
      BY <1>4 DEF IsGrid
    <2>2. PICK j \in DOMAIN f.vars : j # i /\ f.vars[j].name = v.name
      BY <2>1 DEF FindMatchingCoordinateVariable, Coordinates
    <2>3. QED
      BY <2>2 DEF Accepted
  <1>8. Arrays(d) = {a} \cup {ms[k] : k \in DOMAIN ms}
    BY <1>1 DEF Arrays, ToSet
  <1>9. [m \in DOMAIN d.maps |-> d.maps[m].dims] = [m \in DOMAIN d.array.dims |-> <<d.array.dims[m]>>]
    BY <1>1, <1>2, <1>5, <1>6
  <1>10. \A m \in DOMAIN d.maps : d.maps[m].name # d.name
    BY <1>1, <1>5, <1>6, <1>7
  <1>11. \A b \in Arrays(d) : b.name = v.name /\ v.type # "CHAR" =>
             b.dims = [m \in DOMAIN v.dims |-> f.dims[v.dims[m]]]
    BY <1>2, <1>4, <1>5, <1>6, <1>7, <1>8
  <1>12. d.name = v.name
    BY <1>1
  <1>13. QED
    BY <1>9, <1>10, <1>11, <1>12 DEF ConsistentWith

LEMMA DeclaredIsConsistent ==
    ASSUME NEW f, Accepted(f), NEW i \in DOMAIN f.vars, NEW d \in Declare(f, i)
    PROVE  ConsistentWith(f, i, d)
  <1> DEFINE v == f.vars[i]
  <1>1. CASE IsGrid(f, i)
    BY <1>1, GridIsConsistent DEF Declare
  <1>2. CASE d \in Scalar(v.name, v.type)
    <2>1. d.kind = "scalar" /\ d.name = v.name
      BY <1>2 DEF Scalar
    <2>2. QED
      BY <2>1 DEF ConsistentWith, Arrays
  <1>3. CASE d \in BuildArray(f, v)
    <2>1. d.kind = "array" /\ d.name = v.name /\ d.dims = DapShape(v.type, Shape(f, v))
      BY <1>3 DEF BuildArray, ArrayOf
    <2>2. Arrays(d) = {d}
      BY <2>1 DEF Arrays
    <2>3. QED
      BY <2>1, <2>2, DapShapeIsPrefix DEF ConsistentWith
  <1>4. IsGrid(f, i) \/ d \in Scalar(v.name, v.type) \/ d \in BuildArray(f, v)
    BY DEF Declare, Accepted
  <1>5. QED
    BY <1>1, <1>2, <1>3, <1>4

\* Each declaration is that of a variable of the file.
DdsInv ==
    /\ Accepted(nc)
    /\ varid \in Nat \ {0}
    /\ dds \in Seq(UNION {Declare(nc, k) : k \in DOMAIN nc.vars})

LEMMA DdsInvStep ==
    ASSUME DdsInv, [(ReadAllVariables /\ UNCHANGED dasVars) \/ DasNext]_<<ddsVars, dasVars>>
    PROVE  DdsInv'
  <1>1. CASE /\ UNCHANGED <<nc, dds>>
             /\ varid' \in {varid, varid + 1, 1}
    BY <1>1 DEF DdsInv
  <1>2. CASE ReadAllVariables
    <2>1. ASSUME NEW d \in Declare(nc, varid), varid <= Len(nc.vars),
                 dds' = Append(dds, d), varid' = varid + 1, UNCHANGED nc
          PROVE  DdsInv'
      <3> DEFINE S == UNION {Declare(nc, k) : k \in DOMAIN nc.vars}
      <3>1. Len(nc.vars) \in Nat /\ DOMAIN nc.vars = 1..Len(nc.vars)
        BY DEF DdsInv, Accepted
      <3>2. varid \in DOMAIN nc.vars
        BY <2>1, <3>1 DEF DdsInv
      <3>3. d \in S /\ dds \in Seq(S)
        BY <2>1, <3>2 DEF DdsInv
      <3> HIDE DEF S
      <3>4. dds' \in Seq(S)
        BY <2>1, <3>3
      <3>5. S' = S
        BY <2>1 DEF S
      <3>6. QED
        BY <2>1, <3>4, <3>5 DEF DdsInv, S
    <2>2. \/ /\ UNCHANGED <<nc, dds>>
             /\ varid' \in {varid, varid + 1}
          \/ \E d \in Declare(nc, varid) :
                /\ ~(varid > Len(nc.vars))
                /\ dds' = Append(dds, d) /\ varid' = varid + 1 /\ UNCHANGED nc
      BY <1>2 DEF ReadAllVariables
    <2>3. ~(varid > Len(nc.vars)) => varid <= Len(nc.vars)
      BY DEF DdsInv, Accepted
    <2>4. QED
      BY <1>1, <2>1, <2>2, <2>3
  <1>3. CASE DasNext
    BY <1>1, <1>3
       DEF DasNext, Open, ReadVariable, ReadGlobals, ReadExtra, Transfer, ddsVars
  <1>4. QED
    BY <1>1, <1>2, <1>3 DEF ddsVars

\* read_all_variables() of new_ncdds.cc, for any file with any number of
\* variables and dimensions: the Maps of every Grid it declares are the
\* dimensions of the Grid's array, and no Grid is a Map of itself.
THEOREM DeclaredGridsAreConsistent ==
    ASSUME NEW CONSTANT fs, \A f \in fs : Accepted(f)
    PROVE  NcSpec(fs) => []GridsAreConsistent
  <1>1. DdsInit(fs) => DdsInv
    <2> SUFFICES ASSUME DdsInit(fs) PROVE DdsInv
      OBVIOUS
    <2>1. Accepted(nc) /\ dds = <<>> /\ varid = 1
      BY DEF DdsInit
    <2>2. ASSUME NEW S PROVE dds \in Seq(S)
      BY <2>1
    <2>3. QED
      BY <2>1, <2>2 DEF DdsInv
  <1>2. DdsInv /\ [(ReadAllVariables /\ UNCHANGED dasVars) \/ DasNext]_<<ddsVars, dasVars>> => DdsInv'
    BY DdsInvStep
  <1>3. DdsInv => GridsAreConsistent
    <2> SUFFICES ASSUME DdsInv, NEW d \in ToSet(dds)
                 PROVE  \E v \in ToSet(nc.vars) : \E i \in DOMAIN nc.vars :
                            v = nc.vars[i] /\ ConsistentWith(nc, i, d)
      BY DEF GridsAreConsistent, ConsistentWith
    <2> DEFINE S == UNION {Declare(nc, k) : k \in DOMAIN nc.vars}
    <2>1. dds \in Seq(S)
      BY DEF DdsInv
    <2> HIDE DEF S
    <2>2. d \in S
      BY <2>1 DEF ToSet
    <2>3. PICK i \in DOMAIN nc.vars : d \in Declare(nc, i)
      BY <2>2 DEF S
    <2>4. ConsistentWith(nc, i, d)
      BY <2>3, DeclaredIsConsistent DEF DdsInv
    <2>5. QED
      BY <2>3, <2>4 DEF ToSet
  <1>4. QED
    BY <1>1, <1>2, <1>3, PTL DEF NcSpec

-----------------------------------------------------------------------------
(* The directory of a cache (CacheDirectory).  Sequences first.            *)

\* The last element, and the others.
LEMMA FrontFacts ==
    ASSUME NEW S, NEW w \in Seq(S), w # <<>>
    PROVE  /\ Len(w) \in Nat \ {0} /\ Last(w) = w[Len(w)] /\ Last(w) \in S
           /\ Front(w) \in Seq(S) /\ Len(Front(w)) = Len(w) - 1
           /\ \A k \in 1..(Len(w) - 1) : Front(w)[k] = w[k]
  <1>1. Len(w) \in Nat \ {0}
    BY EmptySeq
  <1>2. Last(w) = w[Len(w)] /\ w[Len(w)] \in S
    BY <1>1, ElementOfSeq DEF Last
  <1>3. Front(w) = SubSeq(w, 1, Len(w) - 1) /\ Len(w) > 0
    BY <1>1 DEF Front
  <1>4. QED
    BY <1>1, <1>2, <1>3, FrontProperties

\* mkdir_p() has trimmed its argument and calls itself.
LEMMA PushFacts ==
    ASSUME NEW S, NEW w \in Seq(S), w # <<>>, NEW x \in S, NEW y \in S
    PROVE  /\ Front(w) \o <<x, y>> \in Seq(S) /\ Len(Front(w) \o <<x, y>>) = Len(w) + 1
           /\ \A k \in 1..(Len(w) - 1) : (Front(w) \o <<x, y>>)[k] = w[k]
           /\ (Front(w) \o <<x, y>>)[Len(w)] = x
           /\ (Front(w) \o <<x, y>>)[Len(w) + 1] = y
  <1> DEFINE n == Len(w)
             f == Front(w)
             b == <<x, y>>
             z == f \o b
  <1>1. n \in Nat \ {0} /\ f \in Seq(S) /\ Len(f) = n - 1 /\ \A k \in 1..(n - 1) : f[k] = w[k]
    BY FrontFacts
  <1>2. b \in Seq(S) /\ Len(b) = 2 /\ b[1] = x /\ b[2] = y
    OBVIOUS
  <1> HIDE DEF n, f, b
  <1>3. /\ z \in Seq(S) /\ Len(z) = Len(f) + Len(b)
        /\ \A k \in 1..(Len(f) + Len(b)) : z[k] = IF k <= Len(f) THEN f[k] ELSE b[k - Len(f)]
    BY <1>1, <1>2, ConcatProperties
  <1> HIDE DEF z
  <1>4. \A k \in 1..(n + 1) : z[k] = IF k <= n - 1 THEN f[k] ELSE b[k - (n - 1)]
    BY <1>1, <1>2, <1>3
  <1>5. Len(z) = n + 1
    BY <1>1, <1>2, <1>3
  <1>6. \A k \in 1..(n - 1) : z[k] = w[k]
    BY <1>1, <1>4
  <1>7. z[n] = x
    <2>1. n \in 1..(n + 1) /\ ~(n <= n - 1) /\ n - (n - 1) = 1
      BY <1>1
    <2>2. QED
      BY <1>2, <1>4, <2>1
  <1>8. z[n + 1] = y
    <2>1. n + 1 \in 1..(n + 1) /\ ~(n + 1 <= n - 1) /\ (n + 1) - (n - 1) = 2
      BY <1>1
    <2>2. QED
      BY <1>2, <1>4, <2>1
  <1>9. QED
    BY <1>3, <1>5, <1>6, <1>7, <1>8 DEF n, f, b, z

-----------------------------------------------------------------------------

\* The arguments of the calls that mkdir_p(path) makes, and a path of which
\* CacheDirectory speaks.
Way(path, names) == CHOOSE args : Walked(path, args, names)
Sound(path, names) == Walked(path, Way(path, names), names) /\ InfoStands(path, names)

\* What Walked says of an argument.
WayFacts(path, a, names) ==
    /\ a # <<>> /\ Place(a) \in Seq(names) /\ Place(a) \in Ancestors(Place(path))
    /\ Trim(a) = <<>> => Place(a) = <<>>
    /\ Trim(a) # <<>> =>
          /\ Trim(a) \in Way(path, names) /\ GetDirName(Trim(a)) \in Way(path, names)
          /\ Place(Trim(a)) = Place(a)
          /\ Place(a) # Cwd /\ ~Run(path) => Len(Place(GetDirName(Trim(a)))) < Len(Place(a))

LEMMA OnTheWay ==
    ASSUME NEW path, NEW names, Sound(path, names), NEW a \in Way(path, names)
    PROVE  WayFacts(path, a, names)
  <1> DEFINE w == Way(path, names)
  <1>1. Walked(path, w, names)
    BY Zenon DEF Sound
  <1>2. a \in w
    OBVIOUS
  <1> HIDE DEF w
  <1>3. /\ a # <<>> /\ Place(a) \in Seq(names) \cap Ancestors(Place(path))
        /\ IF Trim(a) = <<>> THEN Place(a) = <<>>
           ELSE /\ {Trim(a), GetDirName(Trim(a))} \subseteq w
                /\ Place(Trim(a)) = Place(a)
                /\ Place(a) # Cwd /\ ~Run(path) =>
                      Len(Place(GetDirName(Trim(a)))) < Len(Place(a))
    BY <1>1, <1>2, Zenon DEF Walked
  <1>4. QED
    BY <1>3, Zenon DEF WayFacts, w

LEMMA InfoFacts ==
    ASSUME NEW path, NEW names, Sound(path, names)
    PROVE  /\ path # <<>> /\ Place(path) \in Ancestors(Place(path))
           /\ Place(PathConcat(path, CacheInfo)) # Cwd
           /\ Place(path) # <<>> =>
                 /\ Place(PathConcat(path, CacheInfo)) = Place(path) \o <<CacheInfo>>
                 /\ Front(Place(PathConcat(path, CacheInfo))) = Place(path)
           /\ Place(path) = <<>> => Front(Place(PathConcat(path, CacheInfo))) = Cwd
  <1> DEFINE place == Place(path)
             info == Place(PathConcat(path, CacheInfo))
             in == IF place = <<>> THEN Cwd ELSE place
             f == Front(info)
  <1>1. path \in Way(path, names)
    BY Zenon DEF Sound, Walked
  <1>2. path # <<>> /\ place \in Seq(names) /\ place \in Ancestors(place)
    BY <1>1, OnTheWay DEF WayFacts
  <1>3. /\ info # Cwd /\ CacheInfo \in names /\ Cwd \in Seq(names)
        /\ info = in \o <<CacheInfo>>
    BY Zenon DEF Sound, InfoStands
  <1>4. in \in Seq(names)
    BY <1>2, <1>3
  <1> HIDE DEF place, info
  <1>5. f = in
    <2> HIDE DEF in, f
    <2>1. <<CacheInfo>> \in Seq(names) /\ Len(<<CacheInfo>>) = 1
      BY <1>3
    <2>2. /\ info \in Seq(names) /\ Len(info) = Len(in) + 1 /\ Len(in) \in Nat
          /\ \A k \in 1..(Len(in) + 1) : info[k] = IF k <= Len(in) THEN in[k] ELSE <<CacheInfo>>[k - Len(in)]
      BY <1>3, <1>4, <2>1, ConcatProperties, LenProperties
    <2>3. info # <<>>
      BY <2>2
    <2>4. f \in Seq(names) /\ Len(f) = Len(info) - 1 /\ \A k \in 1..(Len(info) - 1) : f[k] = info[k]
      BY <2>2, <2>3, FrontFacts DEF f
    <2>5. Len(f) = Len(in) /\ \A k \in 1..Len(f) : f[k] = in[k]
      BY <2>2, <2>4
    <2>6. QED
      BY <1>4, <2>4, <2>5, SeqEqual
  <1>6. QED
    BY <1>2, <1>3, <1>5 DEF place, info, f, in

-----------------------------------------------------------------------------
(* The invariant.                                                          *)

Home(p) == Place(cacheDir[p])

\* Why opening the cache may fail.
Excused(p) ==
    \/ p \in faulted
    \/ Ancestors(Home(p)) \cap files # {}
    \/ Run(cacheDir[p])
    \/ \E d \in Ancestors(Home(p)) \cap DOMAIN madeBy : madeBy[d] \notin {p, Nobody}

\* A directory of the path that another process made under the hands of p.
Foreign(p, d, made) == d \in DOMAIN made => made[d] \notin {p, Nobody}

\* The k-th call in progress has seen that its directory was not there.
Missing(walk, stage, k) == k \in 1..Len(walk) /\ (k # Len(walk) \/ stage = "mkdir")

DirStages == {"stat", "mkdir_p", "mkdir", "restat", "open", "ready", "failed"}

\* Every path is sound; the root and the working directory stand.
WorldInv(names) ==
    /\ dirPc \in [Processes -> DirStages]
    /\ DOMAIN paths = Processes
    /\ \A p \in Processes : Sound(cacheDir[p], names)
    /\ <<>> \in DOMAIN madeBy /\ Cwd \in DOMAIN madeBy /\ Cwd \notin files

\* No system call failed for p, and what mkdir_p() makes of its path is known.
Sure(p) == ~Run(cacheDir[p]) /\ p \notin faulted

\* The calls in progress: the outermost is for the directory of the cache, each
\* has a shorter way to go than the ones before, and nobody but another process
\* has made what was missing.
CallsInv(p, names) ==
    /\ paths[p] \in Seq(Way(cacheDir[p], names))
    /\ dirPc[p] \in {"mkdir_p", "mkdir"} => paths[p] # <<>>
    /\ paths[p] # <<>> => Place(paths[p][1]) = Home(p)
    /\ Sure(p) =>
          /\ \A k \in Nat : Missing(paths[p], dirPc[p], k) => Foreign(p, Place(paths[p][k]), madeBy)
          /\ \A k \in 1..Len(paths[p]) : \A j \in 1..(k - 1) :
                Len(Place(paths[p][k])) < Len(Place(paths[p][j]))

\* What p made, and where it arrived.
OutcomeInv(p) ==
    /\ \A d \in DOMAIN madeBy : madeBy[d] = p => d \in Ancestors(Home(p))
    /\ dirPc[p] = "restat" => Excused(p) \/ Home(p) \in DOMAIN madeBy
    /\ dirPc[p] = "ready" =>
          /\ Home(p) \in DOMAIN madeBy
          /\ Home(p) # <<>> => Home(p) \o <<CacheInfo>> \in files
    /\ dirPc[p] = "failed" => Excused(p)

DirectoryInv(names) ==
    /\ WorldInv(names)
    /\ \A p \in Processes : CallsInv(p, names) /\ OutcomeInv(p)

-----------------------------------------------------------------------------
(* What a step leaves of the other processes.                              *)

DirStep(p) == Stat(p) \/ MkdirP(p) \/ Mkdir(p) \/ Restat(p) \/ OpenCacheInfo(p)

\* Directories and files are added only, and only p made the new ones.
Grows(p) ==
    /\ DOMAIN madeBy \subseteq DOMAIN madeBy'
    /\ \A d \in DOMAIN madeBy' : madeBy'[d] = IF d \in DOMAIN madeBy THEN madeBy[d] ELSE p
    /\ files \subseteq files' /\ faulted \subseteq faulted' /\ cacheDir' = cacheDir

Aside(q) == dirPc'[q] = dirPc[q] /\ paths'[q] = paths[q]

LEMMA StepGrows ==
    ASSUME NEW p, DirStep(p)
    PROVE  Grows(p)
  <1>1. CASE Stat(p) \/ MkdirP(p) \/ Restat(p)
    <2>1. UNCHANGED <<cacheDir, madeBy, files>> /\ faulted \subseteq faulted'
      BY <1>1 DEF Stat, MkdirP, Restat, NotFound
    <2>2. QED
      BY <2>1 DEF Grows
  <1>2. CASE Mkdir(p)
    <2> DEFINE place == Place(Last(paths[p]))
    <2> HIDE DEF place
    <2>1. /\ cacheDir' = cacheDir /\ files' = files
          /\ faulted \subseteq faulted'
          /\ \/ madeBy' = madeBy
             \/ madeBy' = [d \in DOMAIN madeBy \cup {place} |-> IF d = place THEN p ELSE madeBy[d]]
                /\ place \notin DOMAIN madeBy
      BY <1>2 DEF Mkdir, place
    <2>2. QED
      BY <2>1 DEF Grows
  <1>3. CASE OpenCacheInfo(p)
    <2>1. /\ cacheDir' = cacheDir /\ madeBy' = madeBy
          /\ files \subseteq files' /\ faulted \subseteq faulted'
      BY <1>3 DEF OpenCacheInfo
    <2>2. QED
      BY <2>1 DEF Grows
  <1>4. QED
    BY <1>1, <1>2, <1>3 DEF DirStep

LEMMA StepAside ==
    ASSUME NEW p \in Processes, DirStep(p), NEW names, WorldInv(names)
    PROVE  /\ dirPc' \in [Processes -> DirStages] /\ DOMAIN paths' = Processes
           /\ \A q \in Processes : q # p => Aside(q)
  <1> DEFINE Goes == dirPc' = dirPc \/ \E where \in DirStages : DirGoto(p, where)
             Puts == paths' = paths \/ \E walk : paths' = [paths EXCEPT ![p] = walk]
  <1>1. Goes /\ Puts
    <2>1. /\ "mkdir_p" \in DirStages /\ "mkdir" \in DirStages /\ "restat" \in DirStages
          /\ "open" \in DirStages /\ "ready" \in DirStages /\ "failed" \in DirStages
      BY DEF DirStages
    <2>2. ASSUME Succeed(p) PROVE Goes /\ Puts
      BY <2>1, <2>2, Zenon DEF Succeed
    <2>3. CASE Stat(p)
      BY <2>1, <2>3, Zenon DEF Stat
    <2>4. CASE MkdirP(p)
      <3>1. Succeed(p) \/ (dirPc' = dirPc /\ \E walk : paths' = [paths EXCEPT ![p] = walk])
        BY <2>4, Zenon DEF MkdirP
      <3>2. QED
        BY <2>2, <3>1
    <2>5. CASE Mkdir(p)
      <3>1. Succeed(p) \/ (DirGoto(p, "restat") /\ paths' = [paths EXCEPT ![p] = <<>>])
        BY <2>5, Zenon DEF Mkdir
      <3>2. QED
        BY <2>1, <2>2, <3>1, Zenon
    <2>6. CASE Restat(p)
      BY <2>1, <2>6, Zenon DEF Restat
    <2>7. CASE OpenCacheInfo(p)
      <3>1. (DirGoto(p, "ready") \/ DirGoto(p, "failed")) /\ paths' = paths
        BY <2>7, Zenon DEF OpenCacheInfo
      <3>2. QED
        BY <2>1, <3>1, Zenon
    <2>8. QED
      BY <2>3, <2>4, <2>5, <2>6, <2>7, Zenon DEF DirStep
  <1>2. dirPc \in [Processes -> DirStages] /\ DOMAIN paths = Processes
    BY DEF WorldInv
  <1>3. dirPc' \in [Processes -> DirStages] /\ \A q \in Processes : q # p => dirPc'[q] = dirPc[q]
    BY <1>1, <1>2 DEF DirGoto
  <1>4. DOMAIN paths' = Processes /\ \A q \in Processes : q # p => paths'[q] = paths[q]
    BY <1>1, <1>2
  <1>5. QED
    BY <1>3, <1>4 DEF Aside

\* The root and the working directory stay, and no file takes their place.
LEMMA StepWorld ==
    ASSUME NEW p \in Processes, DirStep(p), NEW names, WorldInv(names)
    PROVE  WorldInv(names)'
  <1>1. Grows(p) /\ dirPc' \in [Processes -> DirStages] /\ DOMAIN paths' = Processes
    BY StepGrows, StepAside
  <1>2. Cwd \notin files'
    <2>1. Cwd \notin files /\ Sound(cacheDir[p], names)
      BY DEF WorldInv
    <2>2. Place(PathConcat(cacheDir[p], CacheInfo)) # Cwd
      BY <2>1, InfoFacts
    <2>3. files' = files \/ files' = files \cup {Place(PathConcat(cacheDir[p], CacheInfo))}
      BY Zenon DEF DirStep, Stat, MkdirP, Mkdir, Restat, OpenCacheInfo, InfoPath
    <2>4. QED
      BY <2>1, <2>2, <2>3
  <1>3. QED
    BY <1>1, <1>2 DEF WorldInv, Grows

\* An excuse stays one.
LEMMA ExcuseStays ==
    ASSUME NEW p, NEW q, Grows(p), Excused(q)
    PROVE  Excused(q)'
  <1>1. Home(q)' = Home(q) /\ Run(cacheDir'[q]) = Run(cacheDir[q])
    BY DEF Grows, Home
  <1>2. QED
    BY <1>1 DEF Grows, Excused

\* What q misses may be made by another process, not by itself.
LEMMA ForeignStays ==
    ASSUME NEW p \in Processes, NEW q, p # q, Grows(p), NEW d, Foreign(q, d, madeBy)
    PROVE  Foreign(q, d, madeBy')
  BY CacheDirectoryAssumption DEF Grows, Foreign

LEMMA OthersStay ==
    ASSUME NEW p \in Processes, NEW q \in Processes, p # q, Grows(p), Aside(q),
           NEW names, CallsInv(q, names), OutcomeInv(q)
    PROVE  CallsInv(q, names)' /\ OutcomeInv(q)'
  <1>1. Home(q)' = Home(q) /\ cacheDir' = cacheDir /\ paths'[q] = paths[q] /\ dirPc'[q] = dirPc[q]
    BY DEF Grows, Home, Aside
  <1>2. \A d : Foreign(q, d, madeBy) => Foreign(q, d, madeBy')
    BY ForeignStays
  <1>3. CallsInv(q, names)'
    <2>1. Sure(q)' => Sure(q)
      BY <1>1 DEF Grows, Sure
    <2>2. QED
      BY <1>1, <1>2, <2>1 DEF CallsInv
  <1>4. \A d \in DOMAIN madeBy' : madeBy'[d] = q => d \in Ancestors(Home(q))
    BY DEF OutcomeInv, Grows
  <1>5. (Excused(q) => Excused(q)') /\ DOMAIN madeBy \subseteq DOMAIN madeBy' /\ files \subseteq files'
    BY ExcuseStays DEF Grows
  <1>6. OutcomeInv(q)'
    BY <1>1, <1>4, <1>5 DEF OutcomeInv
  <1>7. QED
    BY <1>3, <1>6

-----------------------------------------------------------------------------
(* What a step keeps of its own process.                                   *)

\* The calls are as they were, or there are none.
LEMMA CallsStay ==
    ASSUME NEW p, NEW names, CallsInv(p, names), cacheDir' = cacheDir, madeBy' = madeBy,
           faulted \subseteq faulted', paths'[p] = paths[p], dirPc'[p] \notin {"mkdir_p", "mkdir"}
    PROVE  CallsInv(p, names)'
  <1>1. Home(p)' = Home(p)
    BY DEF Home
  <1>2. \A k : Missing(paths'[p], dirPc'[p], k) => Missing(paths[p], dirPc[p], k)
    BY DEF Missing
  <1>3. Sure(p)' => Sure(p)
    BY DEF Sure
  <1>4. QED
    BY <1>1, <1>2, <1>3 DEF CallsInv

LEMMA NoCalls ==
    ASSUME NEW p, NEW names, paths'[p] = <<>>, dirPc'[p] \notin {"mkdir_p", "mkdir"}
    PROVE  CallsInv(p, names)'
  <1> DEFINE st == paths'[p]
  <1>1. st = <<>> /\ Len(st) = 0
    OBVIOUS
  <1>2. st \in Seq(Way(cacheDir'[p], names))
    BY <1>1
  <1> HIDE DEF st
  <1>3. \A k : ~Missing(st, dirPc'[p], k) /\ k \notin 1..Len(st)
    BY <1>1 DEF Missing
  <1>4. QED
    BY <1>1, <1>2, <1>3, Zenon DEF CallsInv, st

LEMMA StatKeeps ==
    ASSUME NEW p \in Processes, NEW names, WorldInv(names), CallsInv(p, names), OutcomeInv(p), Stat(p)
    PROVE  CallsInv(p, names)' /\ OutcomeInv(p)'
  <1>1. /\ cacheDir' = cacheDir /\ madeBy' = madeBy /\ Home(p)' = Home(p)
        /\ dirPc \in [Processes -> DirStages] /\ DOMAIN paths = Processes /\ Sound(cacheDir[p], names)
        /\ faulted \subseteq faulted'
    BY DEF Stat, NotFound, WorldInv, Home
  <1>2. dirPc'[p] \in {"open", "mkdir_p"}
    BY <1>1 DEF Stat, DirGoto
  <1>3. OutcomeInv(p)'
    BY <1>1, <1>2 DEF OutcomeInv
  <1>4. CASE dirPc'[p] = "open"
    <2>1. paths' = paths
      BY <1>1, <1>4 DEF Stat, DirGoto
    <2>2. QED
      BY <1>1, <1>3, <1>4, <2>1, CallsStay
  <1>5. CASE dirPc'[p] = "mkdir_p"
    <2> DEFINE st == paths'[p]
               w == Way(cacheDir[p], names)
    <2>1. st = <<cacheDir[p]>>
      BY <1>1, <1>5 DEF Stat, DirGoto
    <2>2. cacheDir[p] \in w
      BY <1>1, Zenon DEF Sound, Walked
    <2> HIDE DEF st, w
    <2>3. st \in Seq(w) /\ Len(st) = 1 /\ st[1] = cacheDir[p] /\ st # <<>>
      BY <2>1, <2>2
    <2>4. \A k : ~Missing(st, "mkdir_p", k)
      BY <2>3 DEF Missing
    <2>5. \A k \in 1..Len(st) : \A j : j \notin 1..(k - 1)
      BY <2>3
    <2>6. Place(st[1]) = Home(p)
      BY <2>3 DEF Home
    <2>7. CallsInv(p, names)'
      BY <1>1, <1>5, <2>3, <2>4, <2>5, <2>6, Zenon DEF CallsInv, st, w
    <2>8. QED
      BY <1>3, <2>7
  <1>6. QED
    BY <1>2, <1>4, <1>5

\* The innermost call returned 0, and nothing else that is missing was made.
LEMMA SucceedKeeps ==
    ASSUME NEW p \in Processes, NEW names, WorldInv(names), CallsInv(p, names), OutcomeInv(p), Succeed(p),
           cacheDir' = cacheDir, faulted' = faulted, paths[p] # <<>>,
           Place(Last(paths[p])) \in DOMAIN madeBy',
           \A d \in DOMAIN madeBy' : madeBy'[d] = p => d \in Ancestors(Home(p)),
           Sure(p) =>
              \A k \in 1..(Len(paths[p]) - 1) : Foreign(p, Place(paths[p][k]), madeBy')
    PROVE  CallsInv(p, names)' /\ OutcomeInv(p)'
  <1> DEFINE st == paths[p]
             w == Way(cacheDir[p], names)
             f == Front(st)
  <1>1. /\ dirPc \in [Processes -> DirStages] /\ DOMAIN paths = Processes /\ Home(p)' = Home(p)
        /\ st \in Seq(w) /\ st # <<>> /\ Place(st[1]) = Home(p)
        /\ Sure(p)' = Sure(p)
    BY DEF WorldInv, CallsInv, Home, Sure
  <1>2. paths'[p] = f /\ dirPc'[p] = IF f = <<>> THEN "restat" ELSE "mkdir"
    BY <1>1 DEF Succeed, DirGoto
  <1> HIDE DEF w, st
  <1>3. /\ Len(st) \in Nat \ {0} /\ Last(st) = st[Len(st)]
        /\ f \in Seq(w) /\ Len(f) = Len(st) - 1
        /\ \A k \in 1..(Len(st) - 1) : f[k] = st[k]
    BY <1>1, FrontFacts
  <1> HIDE DEF f
  <1>4. f # <<>> => f[1] = st[1]
    <2>1. f # <<>> => Len(f) # 0
      BY <1>3, EmptySeq
    <2>2. QED
      BY <1>3, <2>1
  <1>5. ASSUME Sure(p)
        PROVE  /\ \A k \in Nat : Missing(f, dirPc'[p], k) => Foreign(p, Place(f[k]), madeBy')
               /\ \A k \in 1..Len(f) : \A j \in 1..(k - 1) : Len(Place(f[k])) < Len(Place(f[j]))
    <2>1. ASSUME NEW k \in Nat, Missing(f, dirPc'[p], k)
          PROVE  Foreign(p, Place(f[k]), madeBy')
      <3>1. k \in 1..(Len(st) - 1)
        BY <1>3, <2>1 DEF Missing
      <3>2. Foreign(p, Place(st[k]), madeBy')
        BY <1>5, <3>1 DEF st
      <3>3. QED
        BY <1>3, <3>1, <3>2
    <2>2. ASSUME NEW k \in 1..Len(f), NEW j \in 1..(k - 1)
          PROVE  Len(Place(f[k])) < Len(Place(f[j]))
      <3>1. k \in 1..(Len(st) - 1) /\ j \in 1..(Len(st) - 1) /\ k \in 1..Len(st)
        BY <1>3
      <3>2. Len(Place(st[k])) < Len(Place(st[j]))
        BY <1>5, <3>1 DEF CallsInv, st
      <3>3. QED
        BY <1>3, <3>1, <3>2
    <2>3. QED
      BY <2>1, <2>2
  <1>6. CallsInv(p, names)'
    <2>1. f \in Seq(w) /\ (f # <<>> => Place(f[1]) = Home(p)')
          /\ (dirPc'[p] \in {"mkdir_p", "mkdir"} => f # <<>>)
      BY <1>1, <1>2, <1>3, <1>4
    <2>2. QED
      BY <1>1, <1>2, <1>5, <2>1, Zenon DEF CallsInv, w
  <1>7. dirPc'[p] = "restat" => Home(p) \in DOMAIN madeBy'
    <2>1. ASSUME dirPc'[p] = "restat" PROVE Last(st) = st[1]
      <3>1. f = <<>>
        BY <1>2, <2>1
      <3>2. Len(f) = 0
        BY <3>1
      <3>3. Len(st) = 1 /\ Last(st) = st[Len(st)]
        BY <1>3, <3>2
      <3>4. QED
        BY <3>3
    <2>2. QED
      BY <1>1, <2>1 DEF st
  <1>8. dirPc'[p] \in {"restat", "mkdir"}
    BY <1>2
  <1>9. OutcomeInv(p)'
    BY <1>1, <1>7, <1>8 DEF OutcomeInv
  <1>10. QED
    BY <1>6, <1>9

\* mkdir_p() trims its argument, and finds the directory or calls itself.
LEMMA MkdirPKeeps ==
    ASSUME NEW p \in Processes, NEW names, WorldInv(names), CallsInv(p, names), OutcomeInv(p), MkdirP(p)
    PROVE  CallsInv(p, names)' /\ OutcomeInv(p)'
  <1> DEFINE st == paths[p]
             w == Way(cacheDir[p], names)
             a == Last(st)
             x == Trim(a)
             y == GetDirName(x)
             n == Len(st)
  <1>1. /\ DOMAIN paths = Processes /\ Home(p)' = Home(p) /\ Sound(cacheDir[p], names)
        /\ cacheDir' = cacheDir /\ madeBy' = madeBy /\ dirPc[p] = "mkdir_p"
        /\ <<>> \in DOMAIN madeBy /\ Cwd \in DOMAIN madeBy
    BY DEF WorldInv, MkdirP, Home
  <1>2. st \in Seq(w) /\ st # <<>> /\ Place(st[1]) = Home(p)
    BY <1>1 DEF CallsInv
  <1> HIDE DEF w, st
  <1>3. n \in Nat \ {0} /\ a = st[n] /\ a \in w
    BY <1>2, FrontFacts
  <1> HIDE DEF n
  <1>4. WayFacts(cacheDir[p], a, names)
    BY <1>1, <1>3, OnTheWay DEF w
  <1> HIDE DEF a, x, y
  <1>5. \A d \in DOMAIN madeBy : madeBy[d] = p => d \in Ancestors(Home(p))
    BY DEF OutcomeInv
  <1>6. Sure(p) =>
           /\ \A k \in 1..(n - 1) : Foreign(p, Place(st[k]), madeBy)
           /\ \A k \in 1..n : \A j \in 1..(k - 1) : Len(Place(st[k])) < Len(Place(st[j]))
    <2> SUFFICES ASSUME Sure(p)
                 PROVE  /\ \A k \in 1..(n - 1) : Foreign(p, Place(st[k]), madeBy)
                        /\ \A k \in 1..n : \A j \in 1..(k - 1) : Len(Place(st[k])) < Len(Place(st[j]))
      OBVIOUS
    <2>1. \A k \in 1..(n - 1) : k \in Nat /\ Missing(st, dirPc[p], k)
      BY <1>3 DEF Missing, n
    <2>2. QED
      BY <2>1 DEF CallsInv, st, n
  <1>7. CASE (x = <<>> \/ IsDirectory(x)) /\ Succeed(p) /\ faulted' = faulted
    <2>2. Place(a) \in DOMAIN madeBy
      BY <1>1, <1>4, <1>7 DEF WayFacts, IsDirectory, x
    <2>3. QED
      BY <1>1, <1>2, <1>5, <1>6, <1>7, <2>2, SucceedKeeps DEF st, n, a
  <1>8. CASE /\ x # <<>> /\ NotFound(p, IsDirectory(x)) /\ dirPc' = dirPc
             /\ paths' = [paths EXCEPT ![p] = Front(@) \o <<x, y>>]
    <2> DEFINE z == Front(st) \o <<x, y>>
    <2>1. Sure(p)' => Sure(p) /\ ~IsDirectory(x)
      BY <1>1, <1>8 DEF NotFound, Sure
    <2>2. paths'[p] = z
      BY <1>1, <1>8 DEF st
    <2>3. /\ x \in w /\ y \in w /\ Place(x) = Place(a)
          /\ Sure(p)' => Place(a) \notin DOMAIN madeBy
      BY <1>4, <1>8, <2>1 DEF WayFacts, IsDirectory, x, y, w
    <2>4. Sure(p)' => Len(Place(y)) < Len(Place(a))
      BY <1>1, <1>4, <1>8, <2>1, <2>3 DEF WayFacts, Sure, x, y
    <2>5. WayFacts(cacheDir[p], y, names)
      BY <1>1, <2>3, OnTheWay DEF w
    <2>6. Len(Place(y)) \in Nat /\ Len(Place(a)) \in Nat
      BY <1>4, <2>5 DEF WayFacts
    <2>7. /\ z \in Seq(w) /\ Len(z) = n + 1 /\ z[n] = x /\ z[n + 1] = y
          /\ \A k \in 1..(n - 1) : z[k] = st[k]
      BY <1>2, <2>3, PushFacts DEF n
    <2> HIDE DEF z
    <2>8. z # <<>> /\ Place(z[1]) = Home(p)
      <3>1. z # <<>>
        BY <1>3, <2>7
      <3>2. CASE n = 1
        <4>1. z[1] = x
          BY <2>7, <3>2, Zenon
        <4>2. a = st[1]
          BY <1>3, <3>2, Zenon
        <4>3. QED
          BY <1>2, <2>3, <3>1, <4>1, <4>2, Zenon
      <3>3. CASE n # 1
        BY <1>2, <1>3, <2>7, <3>3
      <3>4. QED
        BY <3>1, <3>2, <3>3
    <2>9. ASSUME Sure(p)'
           PROVE  /\ \A k \in Nat : Missing(z, "mkdir_p", k) => Foreign(p, Place(z[k]), madeBy)
                  /\ \A k \in 1..Len(z) : \A j \in 1..(k - 1) : Len(Place(z[k])) < Len(Place(z[j]))
      <3>1. ASSUME NEW k \in Nat, Missing(z, "mkdir_p", k)
            PROVE  Foreign(p, Place(z[k]), madeBy)
        <4>1. k \in 1..(n - 1) \/ k = n
          BY <1>3, <2>7, <3>1 DEF Missing
        <4>2. QED
          BY <1>6, <2>1, <2>3, <2>7, <2>9, <4>1 DEF Foreign
      <3>2. ASSUME NEW k \in 1..(n + 1), NEW j \in 1..(k - 1)
            PROVE  Len(Place(z[k])) < Len(Place(z[j]))
        <4>1. CASE k <= n
          <5>1. k \in 1..n /\ j \in 1..(k - 1) /\ j \in 1..(n - 1)
            BY <1>3, <4>1
          <5>2. Place(z[k]) = Place(st[k])
            BY <1>3, <2>3, <2>7, <5>1
          <5>3. z[j] = st[j]
            BY <2>7, <5>1
          <5>4. Len(Place(st[k])) < Len(Place(st[j]))
            BY <1>6, <2>1, <2>9, <5>1
          <5>5. QED
            BY <5>2, <5>3, <5>4
        <4>2. CASE k = n + 1 /\ j = n
          BY <2>3, <2>4, <2>7, <2>9, <4>2
        <4>3. CASE k = n + 1 /\ j # n
          <5>1. j \in 1..(n - 1) /\ n \in 1..n
            BY <1>3, <4>3
          <5>2. z[j] = st[j] /\ z[k] = y
            BY <2>7, <4>3, <5>1
          <5>3. Len(Place(a)) < Len(Place(st[j]))
            BY <1>3, <1>6, <2>1, <2>9, <5>1
          <5>4. st[j] \in w
            BY <1>2, <5>1, ElementOfSeq DEF n
          <5>5. WayFacts(cacheDir[p], st[j], names)
            BY <1>1, <5>4, OnTheWay DEF w
          <5>6. Len(Place(st[j])) \in Nat
            BY <5>5 DEF WayFacts
          <5>7. QED
            BY <2>4, <2>6, <2>9, <5>2, <5>3, <5>6
        <4>4. k <= n \/ k = n + 1
          BY <1>3
        <4>5. QED
          BY <4>1, <4>2, <4>3, <4>4
      <3>3. QED
        BY <2>7, <3>1, <3>2
    <2>10. dirPc'[p] = "mkdir_p"
      BY <1>1, <1>8
    <2>11. CallsInv(p, names)'
      BY <1>1, <2>2, <2>7, <2>8, <2>9, <2>10, Zenon DEF CallsInv, w
    <2>12. OutcomeInv(p)'
      BY <1>1, <1>5, <2>10 DEF OutcomeInv
    <2>13. QED
      BY <2>11, <2>12
  <1>9. QED
    BY <1>7, <1>8, Zenon DEF MkdirP, x, y, a, st

\* mkdir() makes the directory, or a system call failed, or something is there.
LEMMA MkdirKeeps ==
    ASSUME NEW p \in Processes, NEW names, WorldInv(names), CallsInv(p, names), OutcomeInv(p), Mkdir(p)
    PROVE  CallsInv(p, names)' /\ OutcomeInv(p)'
  <1> DEFINE st == paths[p]
             w == Way(cacheDir[p], names)
             a == Last(st)
             n == Len(st)
             place == Place(a)
  <1>1. /\ DOMAIN paths = Processes /\ Home(p)' = Home(p) /\ Sound(cacheDir[p], names)
        /\ cacheDir' = cacheDir /\ files' = files /\ dirPc[p] = "mkdir"
        /\ dirPc \in [Processes -> DirStages]
    BY DEF WorldInv, Mkdir, Home
  <1>2. st \in Seq(w) /\ st # <<>>
    BY <1>1 DEF CallsInv
  <1> HIDE DEF w, st
  <1>3. n \in Nat \ {0} /\ a = st[n] /\ a \in w
    BY <1>2, FrontFacts
  <1> HIDE DEF n
  <1>4. WayFacts(cacheDir[p], a, names)
    BY <1>1, <1>3, OnTheWay DEF w
  <1>5. place \in Ancestors(Home(p))
    BY <1>4 DEF WayFacts, Home
  <1> HIDE DEF a, place
  <1>6. \A d \in DOMAIN madeBy : madeBy[d] = p => d \in Ancestors(Home(p))
    BY DEF OutcomeInv
  <1>7. Sure(p) =>
           /\ \A k \in 1..n : Foreign(p, Place(st[k]), madeBy)
           /\ \A k \in 1..n : \A j \in 1..(k - 1) : Len(Place(st[k])) < Len(Place(st[j]))
    <2> SUFFICES ASSUME Sure(p)
                 PROVE  /\ \A k \in 1..n : Foreign(p, Place(st[k]), madeBy)
                        /\ \A k \in 1..n : \A j \in 1..(k - 1) : Len(Place(st[k])) < Len(Place(st[j]))
      OBVIOUS
    <2>1. \A k \in 1..n : k \in Nat /\ Missing(st, dirPc[p], k)
      BY <1>1, <1>3 DEF Missing, n
    <2>2. QED
      BY <2>1 DEF CallsInv, st, n
  <1>8. CASE /\ place \notin DOMAIN madeBy
             /\ madeBy' = [d \in DOMAIN madeBy \cup {place} |-> IF d = place THEN p ELSE madeBy[d]]
             /\ Succeed(p) /\ faulted' = faulted
    <2>1. place \in DOMAIN madeBy' /\ \A d \in DOMAIN madeBy' : madeBy'[d] = p => d \in Ancestors(Home(p))
      BY <1>5, <1>6, <1>8
    <2>2. ASSUME Sure(p), NEW k \in 1..(n - 1)
          PROVE  Foreign(p, Place(st[k]), madeBy')
      <3>1. n \in 1..n /\ k \in 1..n
        BY <1>3
      <3>2. Len(place) < Len(Place(st[k])) /\ Foreign(p, Place(st[k]), madeBy)
        BY <1>3, <1>7, <2>2, <3>1 DEF place
      <3>3. Len(place) \in Nat
        BY <1>4 DEF WayFacts, place
      <3>4. Place(st[k]) # place
        BY <3>2, <3>3
      <3>5. QED
        BY <1>8, <3>2, <3>4 DEF Foreign
    <2>3. QED
      BY <1>1, <1>2, <1>8, <2>1, <2>2, SucceedKeeps DEF st, n, a, place
  <1>9. CASE /\ faulted' = IF place \in DOMAIN madeBy \cup files THEN faulted ELSE faulted \cup {p}
             /\ DirGoto(p, "restat") /\ paths' = [paths EXCEPT ![p] = <<>>] /\ madeBy' = madeBy
    <2>1. dirPc'[p] = "restat" /\ paths'[p] = <<>>
      BY <1>1, <1>9 DEF DirGoto
    <2>2. CallsInv(p, names)'
      BY <2>1, NoCalls
    <2>3. Excused(p)'
      <3>1. CASE place \notin DOMAIN madeBy \cup files
        BY <1>9, <3>1 DEF Excused
      <3>2. CASE place \in files
        BY <1>1, <1>5, <3>2 DEF Excused
      <3>3. CASE place \in DOMAIN madeBy /\ ~Sure(p)
        BY <1>1, <1>9, <3>3 DEF Excused, Sure
      <3>4. CASE place \in DOMAIN madeBy /\ Sure(p)
        <4>1. Foreign(p, place, madeBy)
          BY <1>3, <1>7, <3>4 DEF place
        <4>2. place \in Ancestors(Home(p)) \cap DOMAIN madeBy /\ madeBy[place] \notin {p, Nobody}
          BY <1>5, <3>4, <4>1 DEF Foreign
        <4>3. QED
          BY <1>1, <1>9, <4>2 DEF Excused
      <3>5. QED
        BY <3>1, <3>2, <3>3, <3>4
    <2>4. OutcomeInv(p)'
      BY <1>1, <1>6, <1>9, <2>1, <2>3 DEF OutcomeInv
    <2>5. QED
      BY <2>2, <2>4
  <1>10. QED
    BY <1>8, <1>9, Zenon DEF Mkdir, place, a, st

LEMMA RestatKeeps ==
    ASSUME NEW p \in Processes, NEW names, WorldInv(names), CallsInv(p, names), OutcomeInv(p), Restat(p)
    PROVE  CallsInv(p, names)' /\ OutcomeInv(p)'
  <1>1. /\ cacheDir' = cacheDir /\ madeBy' = madeBy /\ files' = files /\ faulted \subseteq faulted'
        /\ paths' = paths /\ dirPc[p] = "restat" /\ Home(p)' = Home(p)
    BY DEF Restat, NotFound, Home
  <1>2. \/ dirPc'[p] = "open" /\ Exists(cacheDir[p])
        \/ dirPc'[p] = "failed" /\ (Exists(cacheDir[p]) => p \in faulted')
    BY DEF WorldInv, Restat, NotFound, DirGoto
  <1>3. CallsInv(p, names)'
    BY <1>1, <1>2, CallsStay
  <1>4. cacheDir[p] # <<>>
    BY InfoFacts DEF WorldInv
  <1>5. Home(p) \in DOMAIN madeBy => Exists(cacheDir[p])
    BY <1>4 DEF Exists, IsDirectory, Home
  <1>6. Excused(p) => Excused(p)'
    BY <1>1 DEF Excused
  <1>7. p \in faulted' => Excused(p)'
    BY DEF Excused
  <1>8. OutcomeInv(p)'
    BY <1>1, <1>2, <1>5, <1>6, <1>7 DEF OutcomeInv
  <1>9. QED
    BY <1>3, <1>8

\* cache_info is made in the directory, or in the working directory for "/".
LEMMA OpenKeeps ==
    ASSUME NEW p \in Processes, NEW names, WorldInv(names), CallsInv(p, names), OutcomeInv(p),
           OpenCacheInfo(p)
    PROVE  CallsInv(p, names)' /\ OutcomeInv(p)'
  <1> DEFINE info == Place(InfoPath(p))
  <1>1. /\ cacheDir' = cacheDir /\ madeBy' = madeBy /\ paths' = paths /\ files \subseteq files'
        /\ faulted \subseteq faulted' /\ Home(p)' = Home(p)
    BY DEF OpenCacheInfo, Home
  <1>2. /\ dirPc \in [Processes -> DirStages] /\ Sound(cacheDir[p], names)
        /\ <<>> \in DOMAIN madeBy /\ Cwd \notin files
    BY DEF WorldInv
  <1>3. /\ Home(p) \in Ancestors(Home(p))
        /\ Home(p) # <<>> => info = Home(p) \o <<CacheInfo>> /\ Front(info) = Home(p)
        /\ Home(p) = <<>> => Front(info) = Cwd
    BY <1>2, InfoFacts, Zenon DEF Home, InfoPath
  <1>4. \/ /\ Front(info) \in DOMAIN madeBy /\ files' = files \cup {info} /\ DirGoto(p, "ready")
        \/ /\ faulted' = IF Front(info) \in files THEN faulted ELSE faulted \cup {p}
           /\ DirGoto(p, "failed")
    BY Zenon DEF OpenCacheInfo
  <1> HIDE DEF info
  <1>5. \A d \in DOMAIN madeBy : madeBy[d] = p => d \in Ancestors(Home(p))
    BY DEF OutcomeInv
  <1>6. CASE /\ Front(info) \in DOMAIN madeBy /\ files' = files \cup {info} /\ DirGoto(p, "ready")
    <2>1. dirPc'[p] = "ready"
      BY <1>2, <1>6 DEF DirGoto
    <2>2. Home(p) \in DOMAIN madeBy /\ (Home(p) # <<>> => Home(p) \o <<CacheInfo>> \in files')
      BY <1>2, <1>3, <1>6
    <2>3. OutcomeInv(p)'
      BY <1>1, <1>5, <2>1, <2>2, Zenon DEF OutcomeInv
    <2>4. QED
      BY <1>1, <2>1, <2>3, CallsStay
  <1>7. CASE /\ faulted' = IF Front(info) \in files THEN faulted ELSE faulted \cup {p}
             /\ DirGoto(p, "failed")
    <2>1. dirPc'[p] = "failed"
      BY <1>2, <1>7 DEF DirGoto
    <2>2. p \in faulted' \/ Home(p) \in files
      BY <1>2, <1>3, <1>7
    <2>3. Excused(p)'
      BY <1>1, <1>3, <2>2 DEF Excused
    <2>4. OutcomeInv(p)'
      BY <1>1, <1>5, <2>1, <2>3 DEF OutcomeInv
    <2>5. QED
      BY <1>1, <2>1, <2>4, CallsStay
  <1>8. QED
    BY <1>4, <1>6, <1>7

-----------------------------------------------------------------------------

LEMMA DirectoryInvInit ==
    ASSUME NEW spellings, NEW filesThere, NEW names,
           \A path \in spellings : Sound(path, names),
           DirInit(spellings, filesThere)
    PROVE  DirectoryInv(names)
  <1>1. /\ cacheDir \in [Processes -> spellings]
        /\ \A f \in files : f \notin DOMAIN madeBy
        /\ dirPc = [p \in Processes |-> "stat"] /\ paths = [p \in Processes |-> <<>>]
    BY Zenon DEF DirInit
  <1>2. <<>> \in DOMAIN madeBy /\ Cwd \in DOMAIN madeBy /\ \A d \in DOMAIN madeBy : madeBy[d] = Nobody
    BY DEF DirInit
  <1>3. WorldInv(names)
    BY <1>1, <1>2 DEF WorldInv, DirStages
  <1>4. ASSUME NEW p \in Processes
        PROVE  CallsInv(p, names) /\ OutcomeInv(p)
    <2>1. dirPc[p] = "stat" /\ paths[p] = <<>>
      BY <1>1
    <2>2. \A k : ~Missing(<<>>, "stat", k) /\ k \notin 1..Len(<<>>)
      BY DEF Missing
    <2>3. <<>> \in Seq(Way(cacheDir[p], names))
      OBVIOUS
    <2>4. CallsInv(p, names)
      BY <2>1, <2>2, <2>3, Zenon DEF CallsInv
    <2>5. OutcomeInv(p)
      BY <1>2, <2>1, CacheDirectoryAssumption DEF OutcomeInv
    <2>6. QED
      BY <2>4, <2>5
  <1>5. QED
    BY <1>3, <1>4 DEF DirectoryInv

LEMMA DirectoryInvStep ==
    ASSUME NEW names, DirectoryInv(names), DirNext
    PROVE  DirectoryInv(names)'
  <1>1. PICK p \in Processes : DirStep(p)
    BY Zenon DEF DirNext, DirStep
  <1>2. WorldInv(names) /\ CallsInv(p, names) /\ OutcomeInv(p)
    BY DEF DirectoryInv
  <1>3. CallsInv(p, names)' /\ OutcomeInv(p)'
    BY <1>1, <1>2, StatKeeps, MkdirPKeeps, MkdirKeeps, RestatKeeps, OpenKeeps, Zenon DEF DirStep
  <1>4. WorldInv(names)'
    BY <1>1, <1>2, StepWorld
  <1>5. ASSUME NEW q \in Processes, q # p
        PROVE  CallsInv(q, names)' /\ OutcomeInv(q)'
    <2>1. Grows(p) /\ Aside(q)
      BY <1>1, <1>2, <1>5, StepGrows, StepAside
    <2>2. CallsInv(q, names) /\ OutcomeInv(q)
      BY DEF DirectoryInv
    <2>3. QED
      BY <1>5, <2>1, <2>2, OthersStay
  <1>6. QED
    BY <1>3, <1>4, <1>5 DEF DirectoryInv

\* A process that is ready has its directory with cache_info in it, made
\* nothing but directories on its path, and fails only for a reason: any number
\* of processes, each with a spelling of a path along which mkdir_p() walks to
\* ancestors of its directory.  What mkdir_p() finds at the end of a path is
\* computed by recursion: TLC evaluates it for the spellings of its run.
THEOREM DirectoriesInPlace ==
    ASSUME NEW CONSTANT spellings, NEW CONSTANT filesThere, NEW CONSTANT names,
           \A path \in spellings :
              (\E args : Walked(path, args, names)) /\ InfoStands(path, names)
    PROVE  DirInit(spellings, filesThere) /\ [][DirNext]_dirVars => []DirectoryInPlace
  <1>1. \A path \in spellings : Sound(path, names)
    BY Zenon DEF Sound, Way
  <1>2. DirInit(spellings, filesThere) => DirectoryInv(names)
    BY <1>1, DirectoryInvInit
  <1>3. DirectoryInv(names) /\ [DirNext]_dirVars => DirectoryInv(names)'
    <2>1. CASE UNCHANGED dirVars
      BY <2>1 DEF dirVars, DirectoryInv, WorldInv, CallsInv, OutcomeInv, Excused, Sure, Home
    <2>2. QED
      BY <2>1, DirectoryInvStep
  <1>4. DirectoryInv(names) => DirectoryInPlace
    BY DEF DirectoryInv, OutcomeInv, DirectoryInPlace, Excused, Home
  <1>5. QED
    BY <1>2, <1>3, <1>4, PTL
=============================================================================
