------------------------------- MODULE NcDas -------------------------------
(* netcdf/ncdas.cc: the attributes of a netCDF file, one table for each    *)
(* variable, and their transfer to the variables of the DDS, which goes by *)
(* name (libdap, and the overrides in NCGrid.cc and NCStructure.cc).  An   *)
(* attribute is [name, type, vals]: characters are one value, a sequence;  *)
(* a float is the name of its value; a value of a user-defined type is the *)
(* function of its fields or the sequence of its bytes.  A table maps      *)
(* names to [type, vals], whose vals are as printed.                       *)
EXTENDS NcDds

VARIABLES
    das,        \* tables by name
    told,       \* what the variables of the DDS were told: by name and place
    handle,     \* is ncid open?
    dasPc

dasVars == <<das, told, handle, dasPc>>

Noted == {"INT64", "UINT64"}

\* print_type() of the types that print_attr() prints.
PrintType(t) == DapTypes[t]

\* print_attr(): bytes are unsigned, characters end at the first null, and a
\* float that is a number or infinite has a point.
PrintAttr(type, val) ==
    CASE type \in {"BYTE", "UBYTE"} -> val % 256
      [] type = "CHAR" -> SubSeq(val, 1, SelectInSeq(Append(val, "NUL"), LAMBDA c : c = "NUL") - 1)
      [] type \in {"FLOAT", "DOUBLE"} -> IF val = "NaN" THEN <<val>> ELSE <<val, ".">>
      [] OTHER -> val

\* What is appended to a table: [name, type, val].  An operator that reads
\* something is a set, empty when it throws.
Appends(name, type, vals) ==
    [k \in DOMAIN vals |-> [name |-> name, type |-> type, val |-> vals[k]]]

\* The values of a type, printed.
Printed(name, type, vals) ==
    Appends(name, PrintType(type), [k \in DOMAIN vals |-> PrintAttr(type, vals[k])])

\* Mutant: an attribute must have a value.
AppendValuesSome(att) ==
    IF att.vals = <<>> THEN {} ELSE {Printed(att.name, att.type, att.vals)}

\* append_values()
AppendValues(att) == {Printed(att.name, att.type, att.vals)}

\* The first element of a compound attribute: a value of each field, under
\* the name of the field.
CompoundValues(fields, vals) ==
    IF \E k \in DOMAIN fields : fields[k].type \notin DOMAIN DapTypes THEN {}
    ELSE {FlattenSeq([k \in DOMAIN fields |->
              Printed(fields[k].name, fields[k].type, <<vals[1][fields[k].name]>>)])}

\* read_attributes_netcdf4(), one attribute.
ReadAttribute(att) ==
    IF IsUserDefined(att.type)
    THEN LET ut == UserTypes[att.type] IN
         CASE ut.class = "COMPOUND" -> CompoundValues(ut.fields, att.vals)
           [] ut.class = "OPAQUE" ->
                {Printed(att.name, "BYTE", att.vals[1])}
           [] ut.class = "ENUM" /\ ut.base \in DOMAIN DapTypes ->
                {Printed(att.name, ut.base, att.vals)}
           [] OTHER -> {}
    ELSE IF att.type \in Noted
    THEN {Appends(att.name, "String", <<"Attribute elided">>)}
    ELSE AppendValues(att)

\* The attributes the code makes up for a variable.
MadeUp(v) ==
    LET origin(class) ==
            Appends("DAP2_OriginalNetCDFBaseType", "String", <<class>>)
              \o Appends("DAP2_OriginalNetCDFTypeName", "String", <<v.type>>)
    IN  IF v.type = "CHAR"
        THEN {Appends("string_length", "Int32",
                <<IF v.dims = <<>> THEN 1 ELSE nc.dims[Last(v.dims)].size>>)}
        ELSE IF ~IsUserDefined(v.type) THEN {<<>>}
        ELSE LET ut == UserTypes[v.type] IN
             CASE ut.class = "OPAQUE" -> {origin("NC_OPAQUE")}
               [] ut.class = "ENUM" /\ ut.base \in Noted -> {}
               [] ut.class = "ENUM" /\ ut.base \notin Noted ->
                    {Printed("DAP2_EnumValues", ut.base, [m \in DOMAIN ut.members |-> ut.members[m].value])
                       \o Appends("DAP2_EnumNames", "String", [m \in DOMAIN ut.members |-> ut.members[m].name])
                       \o origin("NC_ENUM")}
               [] OTHER -> {<<>>}

\* Mutant: a second value replaces the first.
AppendReplaces(table, a) ==
    {[n \in DOMAIN table \cup {a.name} |->
        IF n = a.name THEN [type |-> a.type, vals |-> <<a.val>>] ELSE table[n]]}

\* External: AttrTable::append_attr() throws when the types differ.
AppendAttr(table, a) ==
    IF a.name \in DOMAIN table /\ table[a.name].type # a.type THEN {}
    ELSE {[n \in DOMAIN table \cup {a.name} |->
            IF n # a.name THEN table[n]
            ELSE [type |-> a.type,
                  vals |-> Append(IF n \in DOMAIN table THEN table[n].vals ELSE <<>>, a.val)]]}

\* All the appends to an empty table.
TableOf(appends) ==
    FoldLeft(LAMBDA tables, a : UNION {AppendAttr(t, a) : t \in tables}, {<<>>}, appends)

\* The appends that the attributes and what is made up come to.
AppendsOf(atts, extra) ==
    LET read == [k \in DOMAIN atts |-> ReadAttribute(atts[k])]
    IN  {FlattenSeq(rs) \o e : rs \in Each(read), e \in extra}

\* External: DAS::add_table() throws when there is a table of that name.
AddTable(name, table) ==
    IF name \in DOMAIN das THEN {}
    ELSE {[n \in DOMAIN das \cup {name} |-> IF n = name THEN table ELSE das[n]]}

-----------------------------------------------------------------------------

DasInit ==
    /\ das = <<>>
    /\ told = <<>>
    /\ handle = FALSE
    /\ dasPc = "idle"

\* An exception skips nc_close(), which is the last line.
Throw == dasPc' = "threw" /\ UNCHANGED das

\* get_dmr() reads the attributes when it has the DDS; nc_build_das() of the
\* retired handler does whatever came of that.
Open ==
    /\ dasPc = "idle" /\ ddsPc \in {"done", "threw"}
    /\ handle' = TRUE
    /\ dasPc' = "vars"
    /\ varid' = 1
    /\ UNCHANGED <<nc, dds, ddsPc, das, told>>

\* One variable: its table, its attributes and those made up.
ReadVariable ==
    /\ dasPc = "vars"
    /\ varid <= Len(nc.vars)
    /\ LET v == nc.vars[varid]
           tables == UNION {TableOf(as) : as \in AppendsOf(v.atts, MadeUp(v))}
           added == IF varid \in nc.lost THEN {}
                    ELSE UNION {AddTable(v.name, t) : t \in tables}
       IN  \/ das' \in added /\ varid' = varid + 1 /\ UNCHANGED dasPc
           \/ added = {} /\ Throw /\ UNCHANGED varid
    /\ UNCHANGED <<nc, dds, ddsPc, told, handle>>

ReadGlobals ==
    /\ dasPc = "vars"
    /\ varid > Len(nc.vars)
    /\ LET tables == UNION {TableOf(as) : as \in AppendsOf(nc.atts, {<<>>})}
           added == IF nc.atts = <<>> THEN {das}
                    ELSE UNION {AddTable("NC_GLOBAL", t) : t \in tables}
       IN  \/ das' \in added /\ dasPc' = "extra"
           \/ added = {} /\ Throw
    /\ UNCHANGED <<ddsVars, told, handle>>

\* The unlimited dimension, and nc_close().
ReadExtra ==
    /\ dasPc = "extra"
    /\ LET added == IF nc.unlimited = 0 THEN {das}
                    ELSE UNION {AddTable("DODS_EXTRA", t) :
                            t \in TableOf(Appends("Unlimited_Dimension", "String",
                                                  <<nc.dims[nc.unlimited].name>>))}
       IN  \/ das' \in added /\ dasPc' = "read" /\ handle' = FALSE
           \/ added = {} /\ Throw /\ UNCHANGED handle
    /\ UNCHANGED <<ddsVars, told>>

\* NCGrid::transfer_attributes(): the array and the Maps each find the table
\* of their own name.
Tell(d) == [p \in 0..Len(d.maps) |-> IF p = 0 THEN d.array.name ELSE d.maps[p].name]

\* dds.transfer_attributes(): told[k][p] is the table found for part p of
\* declaration k.
Transfer ==
    /\ dasPc = "read" /\ ddsPc = "done"
    /\ told' = [k \in DOMAIN dds |->
                  LET names == IF dds[k].kind = "grid" THEN Tell(dds[k])
                               ELSE [p \in {0} |-> dds[k].name]
                  IN  [p \in DOMAIN names |-> IF names[p] \in DOMAIN das
                                              THEN das[names[p]] ELSE <<>>]]
    /\ dasPc' = "done"
    /\ UNCHANGED <<ddsVars, das, handle>>

DasNext == Open \/ ReadVariable \/ ReadGlobals \/ ReadExtra \/ Transfer

-----------------------------------------------------------------------------
(* Properties                                                              *)

\* The types of attributes whose values are numbers, strings or members of
\* an enumeration: the type of the values, or none.
ValueTypes(att) ==
    IF att.type \in DOMAIN DapTypes THEN {att.type}
    ELSE {UserTypes[t].base : t \in {t \in {att.type} \cap DOMAIN UserTypes :
                                       UserTypes[t].class = "ENUM"}}

\* rep denotes val: DAP bytes are 0..255, and strings stop at a null.
Denotes(rep, type, val) ==
    CASE type \in {"BYTE", "UBYTE"} -> rep \in 0..255 /\ (rep - val) % 256 = 0
      [] type = "CHAR" -> IsPrefix(rep, val) /\ \A c \in ToSet(rep) : c # "NUL"
      [] type \in {"FLOAT", "DOUBLE"} -> rep[1] = val
      [] OTHER -> rep = val

\* Once the attributes are with the variables, each array, whether it stands
\* alone, in a Grid or as a Map, has every value of every attribute of the
\* variable of its name, in order and of the right DAP type, though attributes
\* may share a name with the fields of a compound one and with those the code
\* makes up.
VariablesHaveTheirAttributes ==
    dasPc = "done" =>
        \A k \in DOMAIN told : \A p \in DOMAIN told[k] : \A v \in ToSet(nc.vars) :
            v.name = (IF p = 0 THEN dds[k].name ELSE dds[k].maps[p].name) =>
                \A a \in ToSet(v.atts) : \A type \in ValueTypes(a) :
                    a.vals # <<>> =>
                        /\ a.name \in DOMAIN told[k][p]
                        /\ LET entry == told[k][p][a.name]
                           IN  /\ entry.type = DapTypes[type]
                               /\ \E pre \in 0..(Len(entry.vals) - Len(a.vals)) :
                                     \A n \in DOMAIN a.vals : Denotes(entry.vals[pre + n], type, a.vals[n])

\* What the handler cannot describe: types it does not know, a variable that
\* nc_inq_var() fails for, one with the name of another table, attributes of
\* one name and different types.
Unread(att) ==
    IsUserDefined(att.type) /\
        LET ut == UserTypes[att.type] IN
        \/ ut.class = "VLEN"
        \/ ut.class = "ENUM" /\ ut.base \in Noted
        \/ ut.class = "COMPOUND" /\ \E f \in ToSet(ut.fields) : f.type \notin DOMAIN DapTypes

\* The names an attribute takes in the table, and their types.
Takes(att) ==
    IF ~IsUserDefined(att.type)
    THEN {<<att.name, IF att.type \in Noted THEN "String" ELSE DapTypes[att.type]>>}
    ELSE LET ut == UserTypes[att.type] IN
         CASE ut.class = "COMPOUND" -> {<<f.name, DapTypes[f.type]>> : f \in ToSet(ut.fields)}
           [] ut.class = "OPAQUE" -> {<<att.name, "Byte">>}
           [] ut.class = "ENUM" -> {<<att.name, DapTypes[ut.base]>>}

Clash(atts, more) ==
    \E t, u \in more \cup UNION {Takes(a) : a \in ToSet(atts)} :
        t[1] = u[1] /\ t[2] # u[2]

Undescribable ==
    \/ nc.lost # {}
    \/ \E v \in ToSet(nc.vars) :
          \/ v.type \notin DOMAIN DapTypes
          \/ v.name \in {"NC_GLOBAL", "DODS_EXTRA"}
          \/ \E a \in ToSet(v.atts) : Unread(a)
          \/ Clash(v.atts, IF v.type = "CHAR" THEN {<<"string_length", "Int32">>} ELSE {})
    \/ \E a \in ToSet(nc.atts) : Unread(a)
    \/ Clash(nc.atts, {})

\* Any other file is described, and its handle closed.  When an exception
\* ends the reading of the attributes, the handle stays open.
GoodFileDescribed ==
    /\ "threw" \in {ddsPc, dasPc} => Undescribable
    /\ handle <=> dasPc \in {"vars", "extra", "threw"}

=============================================================================
