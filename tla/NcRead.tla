------------------------------- MODULE NcRead -------------------------------
(* The read() methods of the variables of a DDS: NCArray, NCStructure,     *)
(* NCGrid and the scalar types in netcdf/.  A variable is a sequence of    *)
(* parts that read for themselves: a Grid's array and Maps, or the one     *)
(* variable itself.  A part is [kind, type, shape, hyper, send]: the shape *)
(* it has in the file, the hyperslab [start, stride, stop] that the        *)
(* constraint selects in each of its dimensions, and whether it is sent.   *)
(* Between the DDS and read() another program may replace the file.        *)
EXTENDS NcDds, FiniteSetsExt

CONSTANT MaxFailures    \* bound: failures after which the caller still tries again

VARIABLES
    variable,   \* [kind, parts]
    readP,      \* read_p of every part; of the whole at 0
    value,      \* what val2buf() was given, for every part
    replaced,   \* the file has a variable of another type now
    open,       \* ncid's that are open
    part,       \* the part whose read() runs, or 0
    calls,      \* the calls it has left to make
    failures    \* history: exceptions while a file was open

readVars == <<variable, readP, value, replaced, open, part, calls, failures>>

Opaque == {t \in DOMAIN UserTypes : UserTypes[t].class = "OPAQUE"}
Compound == {t \in DOMAIN UserTypes : UserTypes[t].class = "COMPOUND"}

\* A value is where it comes from and what it is.
None == [from |-> "nowhere", data |-> {}]
Garbage == [from |-> "another type", data |-> {}]
FromFile(data) == [from |-> "file", data |-> data]

-----------------------------------------------------------------------------
(* NCArray                                                                 *)

\* Mutant: rounds the wrong way.
EdgeShort(h) == (h.stop - h.start + 1) \div h.stride

\* format_constraint(), one dimension: the number of elements.
Edge(h) == ((h.stop - h.start) \div h.stride) + 1

FormatConstraint(hyper) ==
    [d \in DOMAIN hyper |-> [cor |-> hyper[d].start, step |-> hyper[d].stride,
                             edg |-> Edge(hyper[d])]]

\* do_cardinal_array_read() of characters: the last dimension in the file is
\* the string's and is read whole.  The NC_OPAQUE case of do_array_read()
\* does that to the last dimension of the file, which is not the bytes'.
ReadConstraint(p) ==
    LET last == Len(p.shape)
        whole == [cor |-> 0, step |-> 1, edg |-> p.shape[last]]
        slab == FormatConstraint(p.hyper)
    IN  CASE p.type = "CHAR" -> Append(slab, whole)
          [] p.type \in Opaque -> [SubSeq(slab, 1, last) EXCEPT ![last] = whole]
          [] OTHER -> slab

\* External: nc_get_vara() and nc_get_vars(), in row-major order.
GetVars(slab) ==
    FoldLeft(LAMBDA acc, s : FlattenSeq([k \in DOMAIN acc |->
                 [n \in 1..s.edg |-> Append(acc[k], s.cor + (n - 1) * s.step)]]),
             <<<<>>>>, slab)

-----------------------------------------------------------------------------
(* Compound values: a leaf is the first byte and the length of what        *)
(* val2buf() copies from `values`.                                         *)

Width == [BYTE |-> 1, SHORT |-> 2, INT |-> 4, FLOAT |-> 4, DOUBLE |-> 8]

Count(field) == FoldLeft(LAMBDA n, size : n * size, 1, field.dims)

Leaf(field, at) == [at |-> at, len |-> Width[field.type] * Count(field)]

Moved(leaves, offset) == {[l EXCEPT !.at = @ + offset] : l \in leaves}

\* do_structure_read(), for values_offset 0.  Mutant: the offset is not
\* passed down.
StructureReadFlat(type) ==
    LET read[t \in DOMAIN UserTypes] ==
            UNION {IF IsUserDefined(f.type) THEN read[f.type] ELSE {Leaf(f, f.offset)} :
                      f \in ToSet(UserTypes[t].fields)}
    IN  read[type]

StructureRead(type) ==
    LET read[t \in DOMAIN UserTypes] ==
            UNION {IF IsUserDefined(f.type) THEN Moved(read[f.type], f.offset)
                   ELSE {Leaf(f, f.offset)} : f \in ToSet(UserTypes[t].fields)}
    IN  read[type]

\* The NC_COMPOUND case of do_array_read(): a Structure for each element.
StructuresRead(type, nels) ==
    UNION {Moved(StructureRead(type), e * UserTypes[type].size) : e \in 0..(nels - 1)}

Elements(p) ==
    FoldLeft(LAMBDA n, s : n * s.edg, 1, FormatConstraint(p.hyper))

\* What read() of a part that meets no error gets from the file.
Data(p) ==
    CASE p.kind = "array" /\ p.type \notin Compound -> GetVars(ReadConstraint(p))
      [] p.kind = "array" /\ p.type \in Compound -> StructuresRead(p.type, Elements(p))
      [] p.kind = "structure" -> StructureRead(p.type)
      [] OTHER -> <<<<>>>>

\* A Structure that holds an array of Structures ends in a std::bad_cast.
BadCast(p) ==
    LET bad[t \in DOMAIN UserTypes] ==
            \E f \in ToSet(UserTypes[t].fields) :
                IsUserDefined(f.type) /\ (f.dims # <<>> \/ bad[f.type])
    IN  p.type \in Compound /\ bad[p.type]

-----------------------------------------------------------------------------
(* What each class's read() calls, in order, after it has found read_p     *)
(* false; any call may throw.  "varid" and "inq" stand for the inquiries   *)
(* before the data, "type" for a test of the type the variable has in the  *)
(* file, "get" for nc_get_var...(), set_read_p() and val2buf().            *)

NCByteRead      == <<"open", "varid", "get", "close">>
NCInt16Read     == <<"open", "varid", "inq", "type", "get", "close">>
NCInt32Read     == <<"open", "varid", "get", "close">>
NCUInt16Read    == <<"open", "varid", "get", "close">>
NCUInt32Read    == <<"open", "varid", "get", "close">>
NCFloat32Read   == <<"open", "varid", "inq", "type", "get", "close">>
NCFloat64Read   == <<"open", "varid", "inq", "type", "get", "close">>
NCStrRead       == <<"open", "varid", "inq", "type", "get">>
NCArrayRead     == <<"open", "varid", "inq", "get", "close">>
NCStructureRead == <<"open", "varid", "inq", "get", "close">>

ScalarReads ==
    [BYTE |-> NCByteRead, UBYTE |-> NCByteRead, SHORT |-> NCInt16Read, INT |-> NCInt32Read,
     USHORT |-> NCUInt16Read, UINT |-> NCUInt32Read, FLOAT |-> NCFloat32Read,
     DOUBLE |-> NCFloat64Read, CHAR |-> NCStrRead, STRING |-> NCStrRead]

\* The read() of a part.
Calls(p) ==
    CASE p.kind = "scalar" -> ScalarReads[p.type]
      [] p.kind = "structure" -> NCStructureRead
      [] p.kind = "array" -> NCArrayRead

-----------------------------------------------------------------------------

Parts == DOMAIN variable.parts
Part == variable.parts[part]

ReadInit(variables) ==
    /\ variable \in variables
    /\ readP = [k \in 0..Len(variable.parts) |-> FALSE]
    /\ value = [k \in Parts |-> None]
    /\ replaced = FALSE
    /\ open = 0 /\ failures = 0
    /\ part = 0 /\ calls = <<>>

\* Parts after part k that are sent; one that has read_p reads nothing.
Left(k) == {j \in Parts : j > k /\ variable.parts[j].send /\ ~readP[j]}

\* Mutant: the Grid counts as read when its array is.
GoOnFirst(k) ==
    IF k = 0 /\ Left(k) # {}
    THEN part' = Min(Left(k)) /\ calls' = Calls(variable.parts[part']) /\ UNCHANGED readP
    ELSE part' = 0 /\ calls' = <<>> /\ readP' = [readP EXCEPT ![0] = TRUE]

\* NCGrid::read(): on to the next part, or the whole is read.
GoOn(k) ==
    IF Left(k) # {}
    THEN part' = Min(Left(k)) /\ calls' = Calls(variable.parts[part']) /\ UNCHANGED readP
    ELSE part' = 0 /\ calls' = <<>> /\ readP' = [readP EXCEPT ![0] = TRUE]

\* The caller serialises the variable.
Read ==
    /\ part = 0
    /\ ~readP[0]
    /\ failures <= MaxFailures
    /\ GoOn(0)
    /\ UNCHANGED <<variable, value, replaced, open, failures>>

At(call) == calls # <<>> /\ Head(calls) = call

Continue == calls' = Tail(calls) /\ UNCHANGED <<part, failures>>

\* An exception ends read(), whatever is open.
End == part' = 0 /\ calls' = <<>>

Fail == End /\ failures' = failures + 1

OpenFile ==
    /\ At("open")
    /\ \/ open' = open + 1 /\ Continue
       \/ End /\ UNCHANGED <<open, failures>>
    /\ UNCHANGED <<variable, readP, value, replaced>>

Inquire ==
    /\ At("varid") \/ At("inq")
    /\ Continue \/ Fail
    /\ UNCHANGED <<variable, readP, value, replaced, open>>

CheckType ==
    /\ At("type")
    /\ IF replaced THEN Fail ELSE Continue
    /\ UNCHANGED <<variable, readP, value, replaced, open>>

Get ==
    /\ At("get")
    /\ \/ /\ ~BadCast(Part)
          /\ value' = [value EXCEPT ![part] = IF replaced THEN Garbage ELSE FromFile(Data(Part))]
          /\ readP' = [readP EXCEPT ![part] = TRUE]
          /\ Continue
       \/ Fail /\ UNCHANGED <<readP, value>>
    /\ UNCHANGED <<variable, replaced, open>>

\* Mutant: nothing is closed.
CloseFileNever ==
    /\ At("close")
    /\ Continue
    /\ UNCHANGED <<variable, readP, value, replaced, open>>

\* nc_close(), when read_p is set already.
CloseFile ==
    /\ At("close")
    /\ \/ open' = open - 1 /\ Continue
       \/ open' \in {open - 1, open} /\ Fail
    /\ UNCHANGED <<variable, readP, value, replaced>>

Return ==
    /\ part # 0 /\ calls = <<>>
    /\ GoOn(part)
    /\ UNCHANGED <<variable, value, replaced, open, failures>>

\* External: another program writes another file of that name.
Replace ==
    /\ ~replaced /\ replaced' = TRUE
    /\ UNCHANGED <<variable, readP, value, open, part, calls, failures>>

ReadNext ==
    Read \/ OpenFile \/ Inquire \/ CheckType \/ Get \/ CloseFile \/ Return \/ Replace

-----------------------------------------------------------------------------
(* Properties                                                              *)

\* The elements that a constraint selects, as indices in the file; the last
\* dimension of characters is not the client's to constrain.
Selected(p) ==
    {i \in [DOMAIN p.shape -> 0..(Max(ToSet(p.shape)) - 1)] :
        \A d \in DOMAIN i :
            IF p.type = "CHAR" /\ d = Len(p.shape) THEN i[d] < p.shape[d]
            ELSE /\ i[d] \in p.hyper[d].start..p.hyper[d].stop
                 /\ (i[d] - p.hyper[d].start) % p.hyper[d].stride = 0}

Before(i, j) ==
    \E d \in DOMAIN i : i[d] < j[d] /\ \A e \in 1..(d - 1) : i[e] = j[e]

\* All of the last dimension is selected.
WholeLast(p) ==
    LET h == p.hyper[Len(p.shape)]
    IN  h = [start |-> 0, stride |-> 1, stop |-> p.shape[Len(p.shape)] - 1]

Bytes(leaf) == leaf.at..(leaf.at + leaf.len - 1)

\* An array that is read() has the elements the constraint selects, all of
\* them and no other, in row-major order, whatever the strides and the number
\* of dimensions.  An array of an opaque type has that only when the last
\* dimension is not constrained: the code reads all of it in any case.  The
\* leaves of a compound value, however it nests and however many there are in
\* an array, are copied from every byte of the value and from none twice, when
\* the type has no padding.
ReadsWhatWasSelected ==
    \A k \in Parts :
        LET p == variable.parts[k]
            v == value[k].data
            nels == IF p.kind = "array" THEN Elements(p) ELSE 1
        IN  readP[k] /\ value[k] # Garbage =>
                /\ p.kind = "array" /\ p.type \notin Compound /\ (p.type \in Opaque => WholeLast(p)) =>
                      /\ ToSet(v) = Selected(p)
                      /\ \A m \in 1..(Len(v) - 1) : Before(v[m], v[m + 1])
                /\ p.type \in Compound =>
                      /\ UNION {Bytes(l) : l \in v} = 0..(nels * UserTypes[p.type].size - 1)
                      /\ \A l, m \in v : l # m => Bytes(l) \cap Bytes(m) = {}

\* A variable that counts as read has a value in each part that is sent,
\* through failures and later tries.
GridReadIsComplete ==
    readP[0] => \A k \in Parts : variable.parts[k].send => readP[k] /\ value[k] # None

\* Between calls, a file is still open only for a call that failed after it
\* had opened it, and for a string; never for a part that was read.
HandlesAccounted ==
    LET strings == {k \in Parts : readP[k] /\ Calls(variable.parts[k]) = NCStrRead}
    IN  part = 0 => open <= failures + Cardinality(strings)

=============================================================================
