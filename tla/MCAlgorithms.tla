---------------------------- MODULE MCAlgorithms ----------------------------
(* Inputs for the modules of sequential code.  A behaviour describes a file  *)
(* (DDS, then DAS), reads a variable, sends a stored response, takes strings *)
(* apart, or opens caches in a directory.                                    *)
EXTENDS NcDas, NcRead, XmlBase, CacheDirectory

Field(n, t, d, o) == [name |-> n, type |-> t, dims |-> d, offset |-> o]
MCUserTypes ==
    [point |-> [class |-> "COMPOUND", size |-> 5,
                fields |-> <<Field("units", "BYTE", <<>>, 0), Field("lat", "FLOAT", <<>>, 1)>>],
     pair  |-> [class |-> "COMPOUND", size |-> 13,
                fields |-> <<Field("n", "SHORT", <<2, 2>>, 5), Field("point", "point", <<>>, 0)>>],
     deep  |-> [class |-> "COMPOUND", size |-> 29,
                fields |-> <<Field("w", "DOUBLE", <<2>>, 0), Field("p", "pair", <<>>, 16)>>],
     track |-> [class |-> "COMPOUND", size |-> 18,
                fields |-> <<Field("p", "point", <<2>>, 0), Field("n", "INT", <<2>>, 10)>>],
     blob  |-> [class |-> "OPAQUE", size |-> 2],
     flag  |-> [class |-> "ENUM", base |-> "BYTE",
                members |-> <<[name |-> "off", value |-> -1], [name |-> "on", value |-> 1]>>],
     wide  |-> [class |-> "ENUM", base |-> "INT64", members |-> <<[name |-> "off", value |-> 0]>>],
     list  |-> [class |-> "VLEN"]]

-----------------------------------------------------------------------------
(* Files to describe *)

Dims == <<[name |-> "x", size |-> 2], [name |-> "y", size |-> 3]>>
Var(n, t, d, as) == [name |-> n, type |-> t, dims |-> d, atts |-> as]
File(vs, as, u) ==
    [dims |-> Dims, vars |-> vs, atts |-> as, unlimited |-> u, lost |-> {}]

\* Variables named after dimensions and not, of every class of type.
DdsFiles ==
    {File(<<x, y, t>>, <<>>, 0) :
        x \in {Var("x", ty, d, <<>>) : ty \in {"INT", "CHAR", "USHORT"}, d \in {<<>>, <<1>>, <<1, 2>>}},
        y \in {Var("y", ty, d, <<>>) : ty \in {"FLOAT", "INT64"}, d \in {<<2>>, <<1>>}},
        t \in {Var("t", ty, d, <<>>) :
                  ty \in DOMAIN MCUserTypes \cup {"INT", "CHAR", "BYTE", "INT64", "STRING"},
                  d \in {<<>>, <<1>>, <<2>>, <<1, 2>>, <<2, 1>>}}}

\* Files of which nc_inq_var() does not give every variable, Grids among them.
LostFiles ==
    {[File(<<Var("x", "INT", <<1>>, <<>>), Var("y", "FLOAT", <<2>>, <<>>),
             Var("t", "SHORT", d, <<>>)>>, <<>>, 0) EXCEPT !.lost = l] :
        d \in {<<>>, <<1>>, <<1, 2>>}, l \in SUBSET (1..3) \ {{}}}

Att(n, t, vs) == [name |-> n, type |-> t, vals |-> vs]
Point == [units |-> -3, lat |-> "1"]
Atts ==
    {Att("units", "STRING", <<"m", "s">>), Att("lat", "FLOAT", <<"1", "NaN">>),
     Att("valid", "BYTE", <<-1, 2>>), Att("name", "CHAR", <<<<"m", "NUL", "s">>>>), Att("fill", "USHORT", <<7>>), Att("fill", "INT", <<>>),
     Att("string_length", "INT", <<9>>), Att("string_length", "CHAR", <<<<"9">>>>),
     Att("big", "INT64", <<1>>), Att("c", "point", <<Point>>), Att("n", "track", <<[p |-> <<Point, Point>>, n |-> <<1, 2>>]>>),
     Att("o", "blob", <<<<1, 255>>>>), Att("e", "flag", <<-1, 1>>), Att("w", "wide", <<0>>), Att("v", "list", <<<<1>>>>)}
SomeAtts ==
    {<<>>} \cup {<<a>> : a \in Atts}
      \cup {<<ab[1], ab[2]>> : ab \in {ab \in Atts \X Atts : ab[1].name # ab[2].name}}

\* A variable with up to two attributes, global attributes, an unlimited
\* dimension.
DasFiles ==
    {File(<<Var("x", "USHORT", <<1>>, <<>>), t>>, g, u) :
        t \in {Var(n, td[1], td[2], as) :
                  n \in {"t", "NC_GLOBAL"}, as \in SomeAtts,
                  td \in {<<"USHORT", <<1>>>>, <<"CHAR", <<1, 2>>>>, <<"CHAR", <<>>>>,
                          <<"flag", <<>>>>, <<"wide", <<>>>>, <<"blob", <<1>>>>}},
        g \in {<<>>, <<Att("c", "point", <<Point>>)>>, <<Att("u", "CHAR", <<<<"m">>>>), Att("v", "list", <<<<1>>>>)>>},
        u \in {0, 1}}

-----------------------------------------------------------------------------
(* Variables to read *)

\* Every hyperslab of a dimension of n elements.
Slabs(n) == {h \in [start : 0..(n - 1), stride : 1..n, stop : 0..(n - 1)] : h.start <= h.stop}
Whole(n) == [start |-> 0, stride |-> 1, stop |-> n - 1]

PartOf(k, t, sh, h) == [kind |-> k, type |-> t, shape |-> sh, hyper |-> h, send |-> TRUE]
One(p) == [kind |-> p.kind, parts |-> <<p>>]

Arrays1 == {PartOf("array", t, <<5>>, <<h>>) : t \in {"INT", "flag"}, h \in Slabs(5)}
Arrays2 == {PartOf("array", "FLOAT", <<3, 2>>, <<h, g>>) : h \in Slabs(3), g \in Slabs(2)}
Arrays3 == {PartOf("array", "SHORT", <<2, 2, 3>>, <<h, g, f>>) :
               h \in Slabs(2), g \in Slabs(2), f \in Slabs(3)}
Strings == {PartOf("array", "CHAR", <<3, 2>>, <<h>>) : h \in Slabs(3)}
Blobs == {PartOf("array", "blob", <<2, 3>>, <<h, g, Whole(2)>>) : h \in Slabs(2), g \in Slabs(3)}
Compounds == {PartOf("array", t, <<3>>, <<h>>) : t \in {"point", "pair", "deep", "track"}, h \in Slabs(3)}
               \cup {PartOf("structure", t, <<>>, <<>>) : t \in {"point", "pair", "deep", "track"}}
Scalars == {PartOf("scalar", t, <<>>, <<>>) : t \in DOMAIN ScalarReads}

Grids ==
    {[kind |-> "grid", parts |-> <<[PartOf("array", "FLOAT", <<3, 2>>, <<h, Whole(2)>>) EXCEPT !.send = sends[1]],
                                   [PartOf("array", "INT", <<3>>, <<h>>) EXCEPT !.send = sends[2]],
                                   [PartOf("array", "INT", <<2>>, <<Whole(2)>>) EXCEPT !.send = sends[3]]>>] :
        h \in Slabs(3), sends \in [1..3 -> BOOLEAN]}

Variables ==
    {One(p) : p \in Arrays1 \cup Arrays2 \cup Arrays3 \cup Strings \cup Blobs \cup Compounds \cup Scalars}
        \cup Grids

-----------------------------------------------------------------------------
(* Responses to send: the literal is "xb" *)

MCChars == {"=", "\"", " ", ">", "x", "b", "o", "n"}
MCLiteral == <<"x", "b">>

\* A value may hold anything but quotes; an attribute follows a blank.
Befores ==
    {Append(b, " ") : b \in {b \in UNION {[1..n -> {"x", "b", "=", "o"}] : n \in 0..3} :
        ~\E k \in 1..(Len(b) - 1) : SubSeq(b, k, k + 1) = MCLiteral}}

StoredResponses ==
    {[prolog |-> <<"o", ">">>, before |-> b, old |-> o, after |-> a, rest |-> r] :
        b \in Befores,
        o \in {{}} \cup {{v} : v \in {<<>>, <<"o">>, <<">", "x", "b">>}},
        a \in {<<>>, <<" ", "x", "o", "o", "o">>},
        r \in {<<>>, <<" ", "x", "b", "=", "\"", "o", "\"", ">">>}}

ASSUME StoredResponsesExpected == \A r \in StoredResponses : Expected(r)

ContextNames == {"xml:base", "other"}
ContextValues == {<<>>, <<"n", "=">>}

-----------------------------------------------------------------------------
(* Lists, URLs and paths *)

StringsOf(chars, n) == UNION {[1..k -> chars] : k \in 0..n}

\* A backslash escapes a quote or itself; unquoted values have no delimiter.
\* After an escaped backslash the code takes an escaped quote for the end of
\* the value.
Quoted ==
    {<<"\"">> \o FlattenSeq(b) \o <<"\"">> :
        b \in {b \in StringsOf({<<"o">>, <<",">>, <<"\\", "\"">>, <<"\\", "\\">>}, 3) :
                 ~\E k \in 1..(Len(b) - 1) : b[k] = <<"\\", "\\">> /\ b[k + 1] = <<"\\", "\"">>}}
Unquoted == {v \in StringsOf({"o", "\"", "\\"}, 2) : v # <<>> => v[1] # "\""}

\* No list is the empty string: explode() makes two values of it.
Lists ==
    {[kind |-> "list", values |-> v] :
        v \in {<<v>> : v \in (Quoted \cup Unquoted) \ {<<>>}}
              \cup (Quoted \cup Unquoted) \X (Quoted \cup Unquoted)
              \cup Unquoted \X Unquoted \X Unquoted}

\* A password may hold a colon, and a path anything.
Urls ==
    {[kind |-> "url",
      url |-> [protocol |-> <<"p">>, uname |-> login[1], psswd |-> login[2],
               domain |-> <<"d">>, port |-> port, path |-> path]] :
        login \in {<<<<>>, <<>>>>} \cup ({<<"u">>} \X StringsOf({"w", ":"}, 2)),
        port \in {<<>>, <<"8">>}, path \in StringsOf({"/", ":", "@", "o"}, 3)}

PathParts ==
    {[kind |-> "path", first |-> f, second |-> s2, leading |-> l, trailing |-> t] :
        f \in StringsOf({"/", "a"}, 5), s2 \in StringsOf({"/", "b"}, 3),
        l \in BOOLEAN, t \in BOOLEAN}

\* One directory, spelled in several ways, its parent, and others.
Spellings ==
    {<<"/", "a", "/", "b">>, <<"/", "a", "/", "/", "b", "/">>, <<"/", "a", "/", "/", "/", "b">>,
     <<"/", "a", "/", "b", "/", "c">>, <<"/", "a">>, <<"/">>, <<"b">>, <<".", "/", "b", "/", "b">>}

MCProcesses == {"p", "q"}
MCCwd == <<<<"w">>>>

\* The beginnings of a path, and what precedes its first name.
Beginnings(path) ==
    {SubSeq(path, 1, n) : n \in DOMAIN path} \cup {IF Begins(path) THEN <<"/">> ELSE <<".">>}

Names == {<<"a">>, <<"b">>, <<"c">>, <<"w">>, <<"i">>}

ASSUME SpellingsWalked ==
    \A path \in Spellings :
        /\ \E args \in SUBSET Beginnings(path) : Walked(path, args, Names)
        /\ InfoStands(path, Names)

-----------------------------------------------------------------------------

Nothing == [kind |-> "none", parts |-> <<>>]

NoFile == nc = File(<<>>, <<>>, 0) /\ dds = <<>> /\ varid = 1 /\ ddsPc = "done"
            /\ das = <<>> /\ told = <<>> /\ handle = FALSE /\ dasPc = "off"
NoVariable == /\ variable = Nothing /\ readP = [k \in {0} |-> FALSE] /\ value = <<>>
              /\ replaced = FALSE /\ open = 0 /\ part = 0 /\ calls = <<>> /\ failures = 0
NoResponse == /\ contexts = <<>> /\ response = Nothing /\ base = {} /\ sent = <<>>
              /\ i = 0 /\ s = 0 /\ j = 0 /\ xmlPc = "off"
NoParts == parts = Nothing
NoCaches == cacheDir = <<>> /\ madeBy = <<>> /\ files = {} /\ paths = <<>> /\ faulted = {}
              /\ dirPc = [p \in Processes |-> "off"]

MCInit ==
    \/ DdsInit(DdsFiles \cup LostFiles \cup DasFiles) /\ DasInit /\ NoVariable /\ NoResponse /\ NoParts /\ NoCaches
    \/ NoFile /\ ReadInit(Variables) /\ NoResponse /\ NoParts /\ NoCaches
    \/ NoFile /\ NoVariable /\ XmlInit(StoredResponses) /\ NoParts /\ NoCaches
    \/ NoFile /\ NoVariable /\ NoResponse /\ parts \in Lists \cup Urls \cup PathParts /\ NoCaches
    \/ /\ NoFile /\ NoVariable /\ NoResponse /\ NoParts
       /\ DirInit(Spellings, {{}, {<<<<"a">>>>}, {<<<<"a">>, <<"b">>>>}})

MCNext ==
    \/ ReadAllVariables /\ UNCHANGED <<dasVars, readVars, xmlVars, parts, dirVars>>
    \/ DasNext /\ UNCHANGED <<readVars, xmlVars, parts, dirVars>>
    \/ variable # Nothing /\ ReadNext /\ UNCHANGED <<ddsVars, dasVars, xmlVars, parts, dirVars>>
    \/ /\ response # Nothing
       /\ XmlNext(ContextNames, ContextValues)
       /\ UNCHANGED <<ddsVars, dasVars, readVars, parts, dirVars>>
    \/ DirNext /\ UNCHANGED <<ddsVars, dasVars, readVars, xmlVars, parts>>

MCSpec == MCInit /\ [][MCNext]_<<ddsVars, dasVars, readVars, xmlVars, parts, dirVars>>
=============================================================================
