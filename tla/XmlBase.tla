------------------------------ MODULE XmlBase ------------------------------
(* bes_utils/GlobalMetadataStore.cc: a stored DMR is sent with the value   *)
(* that the context "xml:base" has in BESContextManager.  Only the first   *)
(* bytes of the response, a buffer of them, are searched for the start tag *)
(* of the Dataset and for xml:base in it.                                  *)
(*                                                                         *)
(* A response is given by its parts [prolog, before, old, after, rest]:    *)
(* before and after stand before and after the attribute xml:base, and old *)
(* is {} or the set of its value.  A byte is a string of one character.    *)
EXTENDS Integers, Sequences, SequencesExt, FiniteSetsExt, Functions

CONSTANTS
    Chars,      \* the characters of a response
    Buffer,     \* BUFFER_SIZE
    Literal     \* xml_base_literal

ASSUME XmlBaseAssumption ==
    /\ Buffer \in Nat
    /\ {"=", "\"", " ", ">"} \subseteq Chars
    /\ Literal \in Seq(Chars) /\ Literal # <<>> /\ ">" \notin ToSet(Literal)

VARIABLES
    contexts,   \* _context_list
    response,   \* the stored response
    base,       \* {} or the set of the value that get_context() found
    sent,       \* what was written to os
    i, s, j,    \* the local variables of insert_xml_base(), from 0
    xmlPc

xmlVars == <<contexts, response, base, sent, i, s, j, xmlPc>>

Equals(value) == <<"=", "\"">> \o value \o <<"\"">>

\* What other code puts before the attribute, and after its value.
Document(r, attribute) == r.prolog \o r.before \o attribute \o r.after \o <<">">> \o r.rest

Stored(r) ==
    Document(r, IF r.old = {} THEN <<>> ELSE Literal \o Equals(CHOOSE v \in r.old : TRUE))

\* buf, and bytes_read.
BytesRead == Min({Buffer, Len(Stored(response))})
Buf == SubSeq(Stored(response), 1, BytesRead)
Piece(from, to) == SubSeq(Buf, from + 1, to)

\* while (buf[i++] != c): {} when c does not come before the end of what was
\* read, where the loop runs on.
After(from, c) ==
    LET at == {k \in from..(BytesRead - 1) : Buf[k + 1] = c}
    IN  IF at = {} THEN {} ELSE {Min(at) + 1}

-----------------------------------------------------------------------------

XmlInit(responses) ==
    /\ contexts = <<>>
    /\ response \in responses
    /\ base = {} /\ sent = <<>>
    /\ i = 0 /\ s = 0 /\ j = 0
    /\ xmlPc = "idle"

\* Other requests set and unset contexts at any time.
SetContext(name, value) ==
    /\ contexts' = [n \in DOMAIN contexts \cup {name} |->
                       IF n = name THEN value ELSE contexts[n]]
    /\ UNCHANGED <<response, base, sent, i, s, j, xmlPc>>

UnsetContext(name) ==
    /\ contexts' = Restrict(contexts, DOMAIN contexts \ {name})
    /\ UNCHANGED <<response, base, sent, i, s, j, xmlPc>>

GetContext(name) == {contexts[n] : n \in {name} \cap DOMAIN contexts}

\* write_dmr_response(), write_dmrpp_response(): with XML_BASE_MISSING_MEANS_-
\* OMIT_ATTRIBUTE, the response is sent as it is when there is no context.
WriteDmrResponse ==
    /\ xmlPc = "idle"
    /\ base' = GetContext("xml:base")
    /\ xmlPc' = IF base' = {} THEN "transfer" ELSE "prolog"
    /\ UNCHANGED <<contexts, response, sent, i, s, j>>

\* write_response_helper() without a value: transfer_bytes().
TransferBytes ==
    /\ xmlPc = "transfer"
    /\ sent' = Stored(response)
    /\ xmlPc' = "sent"
    /\ UNCHANGED <<contexts, response, base, i, s, j>>

Prolog ==
    /\ xmlPc = "prolog"
    /\ \/ \E k \in After(0, ">") :
            /\ sent' = Piece(0, k)
            /\ i' = k /\ s' = k
            /\ xmlPc' = "scan"
       \/ After(0, ">") = {} /\ xmlPc' = "undefined" /\ UNCHANGED <<sent, i, s>>
    /\ UNCHANGED <<contexts, response, base, j>>

\* Mutant: the opening quote is taken for the closing one.
ValueEndFirstQuote == UNION {After(k, "\"") : k \in After(i, "=")}

\* The end of the value of xml:base, past its quotes.
ValueEnd == UNION {UNION {After(l, "\"") : l \in After(k, "\"")} : k \in After(i, "=")}

\* One turn of the loop.
Scan ==
    /\ xmlPc = "scan"
    /\ \E value \in base :
        CASE i >= BytesRead -> xmlPc' = "rest" /\ UNCHANGED <<sent, i, j>>
          [] i < BytesRead /\ Piece(i, i + 1) = <<">">> ->
               /\ sent' = sent \o Piece(s, i) \o <<" ">> \o Literal \o Equals(value)
               /\ xmlPc' = "rest"
               /\ UNCHANGED <<i, j>>
          [] i < BytesRead /\ Piece(i, i + 1) # <<">">> /\ j = Len(Literal) ->
               \/ \E k \in ValueEnd :
                     /\ sent' = sent \o Piece(s, i) \o Equals(value)
                     /\ i' = k
                     /\ xmlPc' = "rest"
                     /\ UNCHANGED j
               \/ ValueEnd = {} /\ xmlPc' = "undefined" /\ UNCHANGED <<sent, i, j>>
          [] OTHER ->
               /\ j' = IF Buf[i + 1] = Literal[j + 1] THEN j + 1 ELSE 0
               /\ i' = i + 1
               /\ UNCHANGED <<sent, xmlPc>>
    /\ UNCHANGED <<contexts, response, base, s>>

\* What is left of the buffer, and the rest of the file.
Rest ==
    /\ xmlPc = "rest"
    /\ sent' = sent \o Piece(i, BytesRead) \o SubSeq(Stored(response), BytesRead + 1, Len(Stored(response)))
    /\ xmlPc' = "sent"
    /\ UNCHANGED <<contexts, response, base, i, s, j>>

XmlNext(names, values) ==
    \/ \E n \in names : UnsetContext(n) \/ \E v \in values : SetContext(n, v)
    \/ WriteDmrResponse \/ TransferBytes \/ Prolog \/ Scan \/ Rest

-----------------------------------------------------------------------------
(* Properties                                                              *)

\* Where u stands in w.
Occurs(u, w) == \E k \in 0..(Len(w) - Len(u)) : \A m \in DOMAIN u : w[k + m] = u[m]

\* The responses that other code stores: the prolog ends with the first ">";
\* what precedes the attribute, and what the tag holds when there is none,
\* has neither ">" nor the literal in it; the attribute comes after a byte,
\* a blank, that is not one of the literal's; a value has no quotes in it.
Expected(r) ==
    /\ r \in [prolog : Seq(Chars), before : Seq(Chars), old : SUBSET Seq(Chars),
              after : Seq(Chars), rest : Seq(Chars)]
    /\ r.prolog # <<>> /\ Last(r.prolog) = ">" /\ ">" \notin ToSet(Front(r.prolog))
    /\ r.before # <<>> /\ Last(r.before) \notin ToSet(Literal)
    /\ \A u \in {r.before} \cup (IF r.old = {} THEN {r.after} ELSE {}) :
          ">" \notin ToSet(u) /\ ~Occurs(Literal, u)
    /\ \A u, w \in r.old : u = w /\ "\"" \notin ToSet(u)

\* The start tag of the Dataset, or what there is of it up to the end of the
\* value of xml:base, lies in the buffer.
TagFits ==
    LET tag == [response EXCEPT !.rest = <<>>, !.after = IF response.old = {} THEN @ ELSE <<>>]
    IN  Len(Stored(tag)) - (IF response.old = {} THEN 0 ELSE 1) <= Buffer

\* The response is sent with the context's value of xml:base, where it had
\* one or else at the end of the tag, and is otherwise what is stored, byte for
\* byte, however the bytes before the attribute resemble it; without a
\* context it is sent as it is.  A tag that does not fit into the buffer loses
\* bytes.
BaseOfContextSent ==
    xmlPc \in {"sent", "undefined"} /\ (base # {} => TagFits) =>
        /\ xmlPc = "sent"
        /\ base = {} => sent = Stored(response)
        /\ \A value \in base :
              sent = IF response.old # {} THEN Document(response, Literal \o Equals(value))
                     ELSE Document([response EXCEPT !.before = @ \o response.after, !.after = <<>>],
                                   <<" ">> \o Literal \o Equals(value))

=============================================================================
