------------------------------ MODULE BESUtil ------------------------------
(* bes_utils/BESUtil.cc: strings put together from parts and taken apart    *)
(* again: lists of values, URLs and paths.  A string is a sequence of       *)
(* one-character strings.  An operator that may throw has the set of its    *)
(* results, {} for an exception.                                            *)
EXTENDS Integers, Sequences, SequencesExt, FiniteSetsExt

VARIABLE parts      \* what the caller has: [kind, ...]

\* find(), from 1; npos is past the end.
FindFrom(str, c, from) == Min({k \in from..Len(str) : str[k] = c} \cup {Len(str) + 1})
Find(str, c) == FindFrom(str, c, 1)
UpTo(str, c) == SubSeq(str, 1, Find(str, c) - 1)
Past(str, c) == SubSeq(str, Find(str, c) + 1, Len(str))

-----------------------------------------------------------------------------
(* Lists of values                                                         *)

\* A value that holds the delimiter must begin with a quote.
Implode(values, delim) ==
    IF \E k \in DOMAIN values : delim \in ToSet(values[k]) /\ values[k][1] # "\""
    THEN {}
    ELSE {FlattenSeq([k \in DOMAIN values |->
                         IF k = 1 THEN values[k] ELSE <<delim>> \o values[k]])}

\* Mutant: every quote ends the value.
EndQuotesEscaped(str, start) ==
    LET ends == {q \in (start + 1)..Len(str) : str[q] = "\""}
    IN  IF ends = {} THEN {} ELSE {Min(ends)}

\* The quote that ends the value whose first quote is at start: not one behind
\* a backslash, unless there are two of them.
EndQuotes(str, start) ==
    LET ends == {q \in (start + 1)..Len(str) :
                    str[q] = "\"" /\ (str[q - 1] = "\\" => str[q - 2] = "\\")}
    IN  IF ends = {} THEN {} ELSE {Min(ends)}

\* Where the value at start ends: a delimiter, or npos.
ValueEnds(delim, str, start) ==
    IF start <= Len(str) /\ str[start] = "\""
    THEN {q + 1 : q \in {q \in EndQuotes(str, start) : q = Len(str) \/ str[q + 1] = delim}}
    ELSE {FindFrom(str, delim, start)}

Explode(delim, str) ==
    LET values[start \in 1..(Len(str) + 1)] ==
            UNION {LET value == SubSeq(str, start, end - 1)
                   IN  CASE end > Len(str) -> {IF str = <<>> THEN <<value, <<>>>> ELSE <<value>>}
                         [] end = Len(str) -> {<<value, <<>>>>}
                         [] OTHER -> {<<value>> \o v : v \in values[end + 1]} :
                   end \in ValueEnds(delim, str, start)}
    IN  values[1]

-----------------------------------------------------------------------------
(* URLs                                                                    *)

UrlCreate(url) ==
    LET Opt(c, part) == IF part = <<>> THEN <<>> ELSE <<c>> \o part
    IN  url.protocol \o <<":", "/", "/">>
          \o (IF url.uname = <<>> THEN <<>> ELSE url.uname \o Opt(":", url.psswd) \o <<"@">>)
          \o url.domain \o Opt(":", url.port) \o Opt("/", url.path)

\* url_explode(url_str, url_parts): what is not in the URL keeps the value that
\* the caller's url_parts had.
UrlExplode(str, old) ==
    LET colon == Find(str, ":")
        rest == SubSeq(str, colon + 3, Len(str))
        hasLogin == Find(rest, "@") < Find(rest, "/")
        login == UpTo(rest, "@")
        place == IF hasLogin THEN Past(rest, "@") ELSE rest
        hasPort == Find(place, ":") < Find(place, "/")
        tail == IF hasPort THEN Past(place, ":") ELSE place
    IN  IF SubSeq(str, colon, colon + 2) # <<":", "/", "/">> THEN {}
        ELSE {[protocol |-> UpTo(str, ":"),
               uname |-> IF hasLogin THEN UpTo(login, ":") ELSE old.uname,
               psswd |-> IF hasLogin /\ ":" \in ToSet(login) THEN Past(login, ":") ELSE old.psswd,
               domain |-> IF hasPort THEN UpTo(place, ":") ELSE UpTo(place, "/"),
               port |-> IF hasPort THEN UpTo(tail, "/") ELSE old.port,
               path |-> IF hasPort \/ "/" \in ToSet(tail) THEN Past(tail, "/") ELSE old.path]}

\* A url as it is declared.
NoUrl == [part \in {"protocol", "uname", "psswd", "domain", "port", "path"} |-> <<>>]

-----------------------------------------------------------------------------
(* Paths                                                                   *)

Ends(str) == str # <<>> /\ Last(str) = "/"
Begins(str) == str # <<>> /\ Head(str) = "/"

\* The string without its last, or first, separators.
StripEnd(str) == SubSeq(str, 1, Max({k \in DOMAIN str : str[k] # "/"} \cup {0}))
StripBegin(str) == SubSeq(str, Min({k \in DOMAIN str : str[k] # "/"} \cup {Len(str) + 1}), Len(str))

PathConcat(first, second) ==
    LET a == StripEnd(first)
        b == StripBegin(second)
    IN  a \o (IF a = <<>> \/ b = <<>> THEN <<>> ELSE <<"/">>) \o b

AssemblePath(first, second, leading, trailing) ==
    LET path == PathConcat(first, second)
        led == IF leading /\ ~Begins(path) THEN <<"/">> \o path ELSE path
    IN  CASE trailing /\ ~Ends(led) -> led \o <<"/">>
          [] trailing /\ Ends(led) -> led
          [] ~trailing -> StripEnd(led)

\* replace_all(path, "//", "/"): pairs, from the left.
HalveSeparators(str) ==
    LET from[k \in 1..(Len(str) + 2)] ==
            CASE k > Len(str) -> <<>>
              [] k < Len(str) /\ str[k] = "/" /\ str[k + 1] = "/" -> <<"/">> \o from[k + 2]
              [] OTHER -> <<str[k]>> \o from[k + 1]
    IN  from[1]

NormalizePath(raw, leading, trailing) ==
    LET path == HalveSeparators(raw)
        led == CASE leading /\ ~Begins(path) -> <<"/">> \o path
                 [] ~leading /\ Begins(path) -> Tail(path)
                 [] OTHER -> path
    IN  IF path \in {<<>>, <<"/">>} THEN <<"/">>
        ELSE CASE trailing /\ ~Ends(led) -> led \o <<"/">>
               [] ~trailing /\ Ends(led) -> Front(led)
               [] OTHER -> led

\* tokenize(), with one delimiter.
Tokenize(str, delim) ==
    LET from[k \in 1..(Len(str) + 1)] ==
            LET last == Min({m \in k..Len(str) : str[m] # delim} \cup {Len(str) + 1})
                pos == FindFrom(str, delim, last)
            IN  IF last > Len(str) THEN <<>>
                ELSE <<SubSeq(str, last, pos - 1)>> \o (IF pos > Len(str) THEN <<>> ELSE from[pos])
    IN  from[1]

\* split(): what getline() gives piece by piece, the empty ones left out or not.
Split(str, delim, skipEmpty) ==
    LET from[k \in 1..(Len(str) + 1)] ==
            LET pos == FindFrom(str, delim, k)
                item == SubSeq(str, k, pos - 1)
            IN  IF k > Len(str) THEN <<>>
                ELSE (IF item = <<>> /\ skipEmpty THEN <<>> ELSE <<item>>)
                       \o (IF pos > Len(str) THEN <<>> ELSE from[pos + 1])
    IN  from[1]

-----------------------------------------------------------------------------
(* Properties                                                              *)

\* A separator three times in a row.
Run(str) == \E k \in 1..(Len(str) - 2) : \A m \in k..(k + 2) : str[m] = "/"

Joined(tokens) ==
    FlattenSeq([k \in DOMAIN tokens |-> IF k = 1 THEN tokens[k] ELSE <<"/">> \o tokens[k]])

ListComesBack ==
    UNION {Explode(",", str) : str \in Implode(parts.values, ",")} = {parts.values}

UrlComesBack == UrlExplode(UrlCreate(parts.url), NoUrl) = {parts.url}

\* Only separators are put in or taken out, where the caller asked for it.
PathComesBack ==
    LET a == Tokenize(parts.first, "/")
        b == Tokenize(parts.second, "/")
        path == AssemblePath(parts.first, parts.second, parts.leading, parts.trailing)
        normal == NormalizePath(parts.first, parts.leading, parts.trailing)
    IN  /\ a = Split(parts.first, "/", TRUE)
        /\ Tokenize(path, "/") = a \o b
        /\ a \o b # <<>> => /\ Ends(path) = parts.trailing
                            /\ Begins(path) = (parts.leading \/ (Begins(parts.first) /\ a # <<>>))
        /\ a # <<>> /\ ~Run(parts.first) =>
             normal = (IF parts.leading THEN <<"/">> ELSE <<>>) \o Joined(a)
                        \o (IF parts.trailing THEN <<"/">> ELSE <<>>)

\* Taking apart what was put together gives the parts back: values with
\* escaped quotes and delimiters in them, URLs with and without their optional
\* parts, the names on a path.
PartsComeBack ==
    CASE parts.kind = "list" -> ListComesBack
      [] parts.kind = "url" -> UrlComesBack
      [] parts.kind = "path" -> PathComesBack
      [] OTHER -> TRUE

=============================================================================
