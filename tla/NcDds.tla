------------------------------- MODULE NcDds -------------------------------
(* netcdf/new_ncdds.cc: the DDS of a netCDF file, one declaration for each *)
(* variable; and netcdf/ncdds.cc, its predecessor, which is no longer      *)
(* built but which other code still refers to for the declarations it      *)
(* expects.  An operator that builds something is the set of what it       *)
(* builds: empty when it throws.                                           *)
EXTENDS Integers, Sequences, SequencesExt

CONSTANT UserTypes  \* name |-> [class, base, size, fields], not recursive;
                    \* a field's type is atomic or compound

VARIABLES
    nc,         \* the file: [dims, vars, atts, unlimited, lost]; nc_inq_var()
                \* fails for the variables `lost`
    dds,        \* the declarations
    varid, ddsPc

ddsVars == <<nc, dds, varid, ddsPc>>

IsUserDefined(t) == t \in DOMAIN UserTypes

\* nc_inq_dim() of the dimensions of a variable: [name, size].
Shape(f, v) == [d \in DOMAIN v.dims |-> f.dims[v.dims[d]]]

\* Characters are strings: the last dimension is the string's.
DapShape(type, shape) ==
    IF type = "CHAR" THEN SubSeq(shape, 1, Len(shape) - 1) ELSE shape

\* What DAP calls the types; get_promote_byte_to_short() is always false.
DapTypes == [STRING |-> "String", CHAR |-> "String", BYTE |-> "Byte",
             UBYTE |-> "Byte", SHORT |-> "Int16", USHORT |-> "UInt16",
             INT |-> "Int32", UINT |-> "UInt32",
             FLOAT |-> "Float32", DOUBLE |-> "Float64"]

\* build_scalar(): get_ignore_unknown_types() is always false, so 64-bit
\* integers throw as user-defined types do.
Scalar(name, type) ==
    IF type \in DOMAIN DapTypes
    THEN {[kind |-> "scalar", name |-> name, type |-> DapTypes[type]]}
    ELSE {}

ArrayOf(name, elem, shape) ==
    [kind |-> "array", name |-> name, elem |-> elem, dims |-> shape]

BuildArray(f, v) ==
    {ArrayOf(v.name, s, DapShape(v.type, Shape(f, v))) : s \in Scalar(v.name, v.type)}

\* Variables whose name is that of the dimension.
Coordinates(f, dim) == {j \in DOMAIN f.vars : f.vars[j].name = dim.name}

\* Mutant: a variable is its own coordinate variable.
FindsItself(f, i, dim) == Coordinates(f, dim) # {}

\* find_matching_coordinate_variable(): any variable of that name but i itself.
FindMatchingCoordinateVariable(f, i, dim) == Coordinates(f, dim) \ {i} # {}

IsGrid(f, i) ==
    \A d \in DOMAIN f.vars[i].dims :
        FindMatchingCoordinateVariable(f, i, f.dims[f.vars[i].dims[d]])

\* All or nothing: the sequences with one element of each set.
Each(sets) ==
    IF \E k \in DOMAIN sets : sets[k] = {} THEN {}
    ELSE {[k \in DOMAIN sets |-> CHOOSE x \in sets[k] : TRUE]}

\* The Map of a Grid: a vector of the dimension's size, of the type of the
\* coordinate variable.
MapOf(f, dim) ==
    LET type == f.vars[CHOOSE j \in Coordinates(f, dim) : TRUE].type
    IN  {ArrayOf(dim.name, s, <<dim>>) : s \in Scalar(dim.name, type)}

BuildGrid(f, v) ==
    LET shape == DapShape(v.type, Shape(f, v))
    IN  {[kind |-> "grid", name |-> v.name, array |-> a, maps |-> ms] :
            a \in BuildArray(f, v),
            ms \in Each([d \in DOMAIN shape |-> MapOf(f, shape[d])])}

Structure(name, fields) ==
    [kind |-> "structure", name |-> name, fields |-> fields]

\* A member of a Structure: its dimensions have no names.
FieldArray(name, elem, field) ==
    IF Len(field.dims) = 0 \/ (Len(field.dims) = 1 /\ field.type = "CHAR") THEN elem
    ELSE ArrayOf(name, elem, [d \in DOMAIN field.dims |-> [name |-> "", size |-> field.dims[d]]])

\* build_user_defined() of new_ncdds.cc: it asks nc_inq_user_type() of every
\* field, which refuses the types that are not user-defined; what it makes of
\* the rest has the variable's name, and the ids of dimensions for their sizes.
UserDefined(v) ==
    LET Sized(elem, sizes) ==
            IF sizes = <<>> THEN elem
            ELSE ArrayOf(v.name, elem, [d \in DOMAIN sizes |-> [name |-> "", size |-> sizes[d]]])
        build[t \in DOMAIN UserTypes] ==
            IF UserTypes[t].class # "COMPOUND" THEN {}
            ELSE {Structure(v.name, fs) :
                    fs \in Each([k \in DOMAIN UserTypes[t].fields |->
                        LET field == UserTypes[t].fields[k]
                        IN  IF ~IsUserDefined(field.type) THEN {}
                            ELSE {FieldArray(v.name, Sized(e, field.dims), field) :
                                     e \in build[field.type]}])}
    IN  {Sized(e, [d \in DOMAIN v.dims |-> v.dims[d] - 1]) : e \in build[v.type]}

\* Mutant: a vector of characters is an array.
DeclareVector(f, i) ==
    LET v == f.vars[i]
    IN  IF IsGrid(f, i) THEN BuildGrid(f, v)
        ELSE IF IsUserDefined(v.type) THEN UserDefined(v)
        ELSE BuildArray(f, v)

\* read_all_variables(): the declaration of one variable.
Declare(f, i) ==
    LET v == f.vars[i]
    IN  IF IsGrid(f, i) THEN BuildGrid(f, v)
        ELSE IF IsUserDefined(v.type) THEN UserDefined(v)
        ELSE IF Len(v.dims) = 1 /\ v.type = "CHAR" THEN Scalar(v.name, v.type)
        ELSE BuildArray(f, v)

-----------------------------------------------------------------------------
(* ncdds.cc                                                                *)

\* build_scalar()
OldScalar(name, type) ==
    LET A(dap) == {[kind |-> "scalar", name |-> name, type |-> dap]}
    IN  CASE type \in {"STRING", "CHAR"} -> A("String")
          [] type \in {"BYTE", "UBYTE"} -> A("Byte")
          [] type = "SHORT" -> A("Int16")    [] type = "USHORT" -> A("UInt16")
          [] type = "INT" -> A("Int32")      [] type = "UINT" -> A("UInt32")
          [] type = "FLOAT" -> A("Float32")  [] type = "DOUBLE" -> A("Float64")
          [] OTHER -> {}

\* find_matching_coordinate_variable(): the type of the variable that
\* nc_inq_varid() finds, unless it is i.
OldMatchingTypes(f, i, dim) ==
    {f.vars[j].type : j \in {j \in DOMAIN f.vars :
        dim \in ToSet(f.dims) /\ f.vars[j].name = dim.name /\ j # i}}

\* is_grid(): the names, sizes and types of the Maps.
OldIsGrid(f, i) ==
    Each([d \in DOMAIN f.vars[i].dims |->
            LET dim == f.dims[f.vars[i].dims[d]]
            IN  {[dim |-> dim, type |-> t] : t \in OldMatchingTypes(f, i, dim)}])

\* build_grid(), of the Maps that are not the characters of a string.
OldBuildGrid(v, maps) ==
    LET ndims == Len(maps) - (IF v.type = "CHAR" THEN 1 ELSE 0)
        map(m) == {ArrayOf(m.dim.name, s, <<m.dim>>) : s \in OldScalar(m.dim.name, m.type)}
    IN  {[kind |-> "grid", name |-> v.name, maps |-> ms,
          array |-> ArrayOf(v.name, s, [d \in 1..ndims |-> maps[d].dim])] :
            s \in OldScalar(v.name, v.type), ms \in Each([d \in 1..ndims |-> map(maps[d])])}

\* build_array()
OldBuildArray(f, v) ==
    LET ndims == Len(v.dims) - (IF v.type = "CHAR" THEN 1 ELSE 0)
    IN  {ArrayOf(v.name, s, [d \in 1..ndims |-> f.dims[v.dims[d]]]) : s \in OldScalar(v.name, v.type)}

\* build_user_defined(): a field of a compound type is named after its type,
\* and when it is an array, its sizes are first taken for ids of dimensions.
OldUserDefined(f, v) ==
    LET shape == Shape(f, v)
        Shaped(elem) == IF shape = <<>> THEN elem ELSE ArrayOf(v.name, elem, shape)
        Ids(field) == [d \in DOMAIN field.dims |-> field.dims[d] + 1]
        Nested(e, field) ==
            IF field.dims = <<>> THEN {e}
            ELSE IF ~(ToSet(Ids(field)) \subseteq DOMAIN f.dims) THEN {}
            ELSE LET sized == FieldArray(e.name, e, field)
                 IN  {[sized EXCEPT !.dims = Shape(f, [dims |-> Ids(field)]) \o @]}
        build[t \in DOMAIN UserTypes] ==
            LET ut == UserTypes[t] IN
            CASE ut.class = "COMPOUND" ->
                   {Structure(t, fs) :
                      fs \in Each([k \in DOMAIN ut.fields |->
                        LET field == ut.fields[k]
                        IN  IF IsUserDefined(field.type)
                            THEN UNION {Nested(e, field) : e \in build[field.type]}
                            ELSE {FieldArray(field.name, e, field) :
                                     e \in OldScalar(field.name, field.type)}])}
              [] ut.class = "OPAQUE" ->
                   {ArrayOf(v.name, s, Append(shape, [name |-> "", size |-> ut.size])) :
                        s \in OldScalar(v.name, "BYTE")}
              [] ut.class = "ENUM" -> {Shaped(s) : s \in OldScalar(v.name, ut.base)}
              [] OTHER -> {}
    IN  IF UserTypes[v.type].class = "COMPOUND"
        THEN {Shaped([s EXCEPT !.name = v.name]) : s \in build[v.type]}
        ELSE build[v.type]

\* read_variables(), with get_show_shared_dims() false: arrays come last, and
\* those that are Maps of a Grid are left out.
OldIsArray(f, i) ==
    LET v == f.vars[i]
    IN  /\ ~IsUserDefined(v.type) /\ v.dims # <<>>
        /\ ~(Len(v.dims) = 1 /\ v.type = "CHAR")
        /\ OldIsGrid(f, i) = {}

OldDeclare(f, i) ==
    LET v == f.vars[i]
    IN  IF IsUserDefined(v.type) THEN OldUserDefined(f, v)
        ELSE IF v.dims = <<>> \/ (Len(v.dims) = 1 /\ v.type = "CHAR")
             THEN OldScalar(v.name, v.type)
        ELSE UNION {OldBuildGrid(v, maps) : maps \in OldIsGrid(f, i)}

Arrays(d) ==
    CASE d.kind = "grid" -> {d.array} \cup ToSet(d.maps)
      [] d.kind = "array" -> {d}
      [] OTHER -> {}

MapNames(ds) ==
    UNION {{m.name : m \in ToSet(ds[k].maps)} :
              k \in {k \in DOMAIN ds : ds[k].kind = "grid"}}

OldDds(f) ==
    LET ids(Test(_)) == SelectSeq([i \in DOMAIN f.vars |-> i], Test)
        first == ids(LAMBDA i : ~OldIsArray(f, i))
    IN  UNION {LET last == ids(LAMBDA i : OldIsArray(f, i)
                                        /\ f.vars[i].name \notin MapNames(ds))
               IN  {ds \o as : as \in Each([k \in DOMAIN last |-> OldBuildArray(f, f.vars[last[k]])])} :
               ds \in Each([k \in DOMAIN first |-> OldDeclare(f, first[k])])}

-----------------------------------------------------------------------------

DdsInit(files) ==
    /\ nc \in files
    /\ dds = <<>>
    /\ varid = 1
    /\ ddsPc = "read"

\* read_all_variables(), one variable at a time; it passes over one that
\* nc_inq_var() says nothing of.
ReadAllVariables ==
    /\ ddsPc = "read"
    /\ IF varid > Len(nc.vars) THEN ddsPc' = "done" /\ UNCHANGED <<dds, varid>>
       ELSE \/ /\ varid \in nc.lost
               /\ varid' = varid + 1
               /\ UNCHANGED <<dds, ddsPc>>
            \/ /\ varid \notin nc.lost
               /\ \E d \in Declare(nc, varid) :
                    /\ dds' = Append(dds, d)
                    /\ varid' = varid + 1
                    /\ UNCHANGED ddsPc
            \/ /\ varid \notin nc.lost
               /\ Declare(nc, varid) = {}
               /\ ddsPc' = "threw"
               /\ UNCHANGED <<dds, varid>>
    /\ UNCHANGED nc

-----------------------------------------------------------------------------
(* Properties                                                              *)

\* What is declared is a variable of the file.  A Grid's Maps are the
\* dimensions of its array, in order, by name and size, none of them is the
\* variable itself, and every variable has the dimensions it has in the file,
\* except that of the characters of a string.
GridsAreConsistent ==
    \A d \in ToSet(dds) : \E v \in ToSet(nc.vars) :
        /\ d.name = v.name
        /\ d.kind = "grid" =>
             /\ [m \in DOMAIN d.maps |-> d.maps[m].dims] =
                   [m \in DOMAIN d.array.dims |-> <<d.array.dims[m]>>]
             /\ \A m \in DOMAIN d.maps : d.maps[m].name \notin {d.name}
        /\ \A a \in Arrays(d) : a.name = v.name /\ v.type # "CHAR" =>
             a.dims = [m \in DOMAIN v.dims |-> nc.dims[v.dims[m]]]

\* A Grid of no dimensions stands for a scalar.
AsScalar(d) == IF d.kind = "grid" /\ d.maps = <<>> THEN d.array.elem ELSE d

\* new_ncdds.cc declares what ncdds.cc declared, except that it makes a scalar
\* a Grid without Maps and does not leave out the arrays that are Maps.  (When
\* nc_inq_var() fails, ncdds.cc throws: there is nothing to compare.)
LikeItsPredecessor ==
    ddsPc = "done" /\ nc.lost = {} =>
        \E old \in OldDds(nc) :
            LET new == {AsScalar(dds[k]) : k \in DOMAIN dds}
            IN  /\ ToSet(old) \subseteq new
                /\ \A d \in new \ ToSet(old) :
                      d.kind = "array" /\ d.name \in MapNames(dds)

=============================================================================
