----------------------------- MODULE DmrService -----------------------------
(* opendap_service.cpp, handler.cpp and netcdf/DataAccessNetCDF.cpp: the    *)
(* answer to a request for the DMR of a data set.  A worker thread looks at *)
(* the data file four times, by its path: access(), stat(), one nc_open()   *)
(* for the variables and one for the attributes.  Other programs create,    *)
(* replace and remove the file between any two of them.  All workers draw   *)
(* on the file handles of the one process.                                  *)
EXTENDS Integers, FiniteSets

CONSTANTS
    Workers,        \* threads of the HTTP server
    Paths,          \* data paths that clients ask for
    NcPaths,        \* those with the extension .nc
    Contents,       \* of data files
    None,           \* no file, no value
    Unreadable,     \* contents of files that the server may not read
    NotNetcdf,      \* contents that nc_open() refuses
    BadVars,        \* contents of which read_all_variables() throws an Error
    BadAttrs,       \* contents of which nc_read_dataset_attributes() does
    BadAncillary,   \* paths with an ancillary DAS that is out of order at times
    MayThrow,       \* may steps throw for reasons that are not in the file?
    HandleLimit     \* files that the process may have open

Unopenable == Unreadable \cup NotNetcdf
Good == Contents \ (Unopenable \cup BadVars \cup BadAttrs)

ASSUME DmrServiceAssumption ==
    /\ IsFiniteSet(Workers)
    /\ NcPaths \subseteq Paths /\ BadAncillary \subseteq Paths
    /\ None \notin Contents \cup Paths
    /\ Unreadable \cup NotNetcdf \cup BadVars \cup BadAttrs \subseteq Contents
    /\ MayThrow \in BOOLEAN
    /\ HandleLimit \in Nat

VARIABLES
    file,       \* the data file of each path
    pc,         \* where the worker is in handle_dmr_request()
    path,       \* data_path
    vars,       \* the file that dds was built from, by the first pass
    attrs,      \* the file that das was built from, by the second
    answer,     \* the response that was sent
    handles,    \* open file handles
    seen        \* history: what the file has been since the request came

state == <<file, pc, path, vars, attrs, answer, handles, seen>>

\* The number of headers tells what set_dmr_response_headers() set.
Answer(status, body, headers) ==
    [status |-> status, body |-> body, headers |-> headers]
NoAnswer  == Answer(0, "none", 0)
Refusal   == Answer(200, "only netCDF", 1)
NotFound  == Answer(404, "not found", 1)
Failure   == Answer(500, "error", 1)
Exception == Answer(500, "none", 1)       \* EXCEPTION_WHAT, by cpp-httplib
Mishap    == Answer(500, "mishap", 1)     \* an exception for other reasons
Dmr       == Answer(200, "DMR", 1)        \* Content-Type, by set_content()
Answers == {NoAnswer, Refusal, NotFound, Failure, Exception, Mishap, Dmr}

Stages == {"idle", "find_format", "access", "stat", "dds_open", "dds_read",
           "das_open", "das_read", "build", "answered"}

Init ==
    /\ file \in [Paths -> Contents \cup {None}]
    /\ pc = [w \in Workers |-> "idle"]
    /\ path = [w \in Workers |-> None]
    /\ vars = [w \in Workers |-> None]
    /\ attrs = [w \in Workers |-> None]
    /\ answer = [w \in Workers |-> NoAnswer]
    /\ handles = 0
    /\ seen = [w \in Workers |-> {}]

-----------------------------------------------------------------------------

Go(w, to) == pc' = [pc EXCEPT ![w] = to]

\* The response is ready: handle_dmr_request() returns, or an exception
\* leaves it.
Reply(w, a) ==
    /\ Go(w, "answered")
    /\ answer' = [answer EXCEPT ![w] = a]

File(w) == file[path[w]]

Request(w, p) ==
    /\ pc[w] = "idle"
    /\ Go(w, "find_format")
    /\ path' = [path EXCEPT ![w] = p]
    /\ seen' = [seen EXCEPT ![w] = {file[p]}]
    /\ UNCHANGED <<file, vars, attrs, answer, handles>>

FindFormat(w) ==
    /\ pc[w] = "find_format"
    /\ IF path[w] \in NcPaths
       THEN Go(w, "access") /\ UNCHANGED answer
       ELSE Reply(w, Refusal)
    /\ UNCHANGED <<file, path, vars, attrs, handles, seen>>

\* Mutant: access(path, F_OK).
AccessExists(w) ==
    /\ pc[w] = "access"
    /\ IF File(w) \in Contents
       THEN Go(w, "stat") /\ UNCHANGED answer
       ELSE Reply(w, NotFound)
    /\ UNCHANGED <<file, path, vars, attrs, handles, seen>>

Access(w) ==
    /\ pc[w] = "access"
    /\ IF File(w) \in Contents \ Unreadable
       THEN Go(w, "stat") /\ UNCHANGED answer
       ELSE Reply(w, NotFound)
    /\ UNCHANGED <<file, path, vars, attrs, handles, seen>>

\* get_last_modification_time(), outside of the try: the runtime_error ends
\* in cpp-httplib.  The time is not used.
Stat(w) ==
    /\ pc[w] = "stat"
    /\ IF File(w) \in Contents
       THEN Go(w, "dds_open") /\ UNCHANGED answer
       ELSE Reply(w, Exception)
    /\ UNCHANGED <<file, path, vars, attrs, handles, seen>>

\* Mutants: one handle is kept in reserve; one too many is given out.
CanOpenReserve(w) ==
    File(w) \in Contents \ Unopenable /\ handles + 1 < HandleLimit

CanOpenLate(w) == File(w) \in Contents \ Unopenable /\ handles <= HandleLimit

CanOpen(w) == File(w) \in Contents \ Unopenable /\ handles < HandleLimit

\* NetCDFFile(): what is open stays what it was when the path is replaced.
DdsOpen(w) ==
    /\ pc[w] = "dds_open"
    /\ IF CanOpen(w)
       THEN /\ Go(w, "dds_read")
            /\ vars' = [vars EXCEPT ![w] = File(w)]
            /\ handles' = handles + 1
            /\ UNCHANGED answer
       ELSE Reply(w, Failure) /\ UNCHANGED <<vars, handles>>
    /\ UNCHANGED <<file, path, attrs, seen>>

\* Mutant: an exception skips nc_close().
DdsReadLeaks(w) ==
    /\ pc[w] = "dds_read"
    /\ IF vars[w] \in BadVars
       THEN Reply(w, Failure) /\ UNCHANGED handles
       ELSE /\ Go(w, "das_open")
            /\ handles' = handles - 1
            /\ UNCHANGED answer
    /\ UNCHANGED <<file, path, vars, attrs, seen>>

\* read_all_variables() and ~NetCDFFile(), which closes in any case.
DdsRead(w) ==
    /\ pc[w] = "dds_read"
    /\ IF vars[w] \in BadVars
       THEN Reply(w, Failure)
       ELSE Go(w, "das_open") /\ UNCHANGED answer
    /\ handles' = handles - 1
    /\ UNCHANGED <<file, path, vars, attrs, seen>>

DdsThrows(w) ==
    /\ pc[w] = "dds_read"
    /\ MayThrow
    /\ Reply(w, Mishap)
    /\ handles' = handles - 1
    /\ UNCHANGED <<file, path, vars, attrs, seen>>

\* Mutant: nc_open() waits for a handle.
DasOpenWaits(w) ==
    /\ pc[w] = "das_open"
    /\ handles < HandleLimit
    /\ IF CanOpen(w)
       THEN /\ Go(w, "das_read")
            /\ attrs' = [attrs EXCEPT ![w] = File(w)]
            /\ handles' = handles + 1
            /\ UNCHANGED answer
       ELSE Reply(w, Failure) /\ UNCHANGED <<attrs, handles>>
    /\ UNCHANGED <<file, path, vars, seen>>

\* nc_open() in nc_read_dataset_attributes().
DasOpen(w) ==
    /\ pc[w] = "das_open"
    /\ IF CanOpen(w)
       THEN /\ Go(w, "das_read")
            /\ attrs' = [attrs EXCEPT ![w] = File(w)]
            /\ handles' = handles + 1
            /\ UNCHANGED answer
       ELSE Reply(w, Failure) /\ UNCHANGED <<attrs, handles>>
    /\ UNCHANGED <<file, path, vars, seen>>

\* The attributes are read.  An exception leaves the handle open.
DasRead(w) ==
    /\ pc[w] = "das_read"
    /\ IF attrs[w] \in BadAttrs
       THEN Reply(w, Failure) /\ UNCHANGED handles
       ELSE /\ Go(w, "build")
            /\ handles' = handles - 1
            /\ UNCHANGED answer
    /\ UNCHANGED <<file, path, vars, attrs, seen>>

DasThrows(w) ==
    /\ pc[w] = "das_read"
    /\ MayThrow
    /\ Reply(w, Mishap)
    /\ UNCHANGED <<file, path, vars, attrs, handles, seen>>

\* The attributes of an ancillary DAS file beside the data file, where there is
\* one, are added; all are transferred to the variables of the same name, and
\* the DMR is built and printed.
Build(w) ==
    /\ pc[w] = "build"
    /\ Reply(w, Dmr)
    /\ UNCHANGED <<file, path, vars, attrs, handles, seen>>

\* Ancillary::read_ancillary_das(), of libdap, throws an Error at a file that it
\* cannot parse.
AncillaryFails(w) ==
    /\ pc[w] = "build"
    /\ path[w] \in BadAncillary
    /\ Reply(w, Failure)
    /\ UNCHANGED <<file, path, vars, attrs, handles, seen>>

BuildThrows(w) ==
    /\ pc[w] = "build"
    /\ MayThrow
    /\ Reply(w, Mishap)
    /\ UNCHANGED <<file, path, vars, attrs, handles, seen>>

\* The server sends the response; the worker's locals are gone.
Send(w) ==
    /\ pc[w] = "answered"
    /\ Go(w, "idle")
    /\ path' = [path EXCEPT ![w] = None]
    /\ vars' = [vars EXCEPT ![w] = None]
    /\ attrs' = [attrs EXCEPT ![w] = None]
    /\ answer' = [answer EXCEPT ![w] = NoAnswer]
    /\ seen' = [seen EXCEPT ![w] = {}]
    /\ UNCHANGED <<file, handles>>

\* Some other program creates, replaces (by rename()) or removes the file.
Change(p, c) ==
    /\ c # file[p]
    /\ file' = [file EXCEPT ![p] = c]
    /\ seen' = [w \in Workers |-> IF path[w] = p THEN seen[w] \cup {c}
                                                 ELSE seen[w]]
    /\ UNCHANGED <<pc, path, vars, attrs, answer, handles>>

Handle(w) ==
    \/ FindFormat(w) \/ Access(w) \/ Stat(w)
    \/ DdsOpen(w) \/ DdsRead(w) \/ DdsThrows(w)
    \/ DasOpen(w) \/ DasRead(w) \/ DasThrows(w)
    \/ AncillaryFails(w) \/ Build(w) \/ BuildThrows(w)
    \/ Send(w)

Next ==
    \/ \E w \in Workers : Handle(w) \/ \E p \in Paths : Request(w, p)
    \/ \E p \in Paths, c \in Contents \cup {None} : Change(p, c)

Spec == Init /\ [][Next]_state

\* A thread inside the handler is scheduled.
FairSpec == Spec /\ \A w \in Workers : WF_state(Handle(w))

-----------------------------------------------------------------------------

TypeOK ==
    /\ file \in [Paths -> Contents \cup {None}]
    /\ pc \in [Workers -> Stages]
    /\ path \in [Workers -> Paths \cup {None}]
    /\ vars \in [Workers -> Contents \cup {None}]
    /\ attrs \in [Workers -> Contents \cup {None}]
    /\ answer \in [Workers -> Answers]
    /\ handles \in 0..HandleLimit
    /\ seen \in [Workers -> SUBSET (Contents \cup {None})]

\* Workers that have a file open.
InPass == {w \in Workers : pc[w] \in {"dds_read", "das_read"}}

\* Handles that nobody will close.
Leaked == handles - Cardinality(InPass)

\* A request ends with every handle closed that it opened: the open handles
\* are those of the passes under way, at most one for each worker.
HandlesOfPasses == Leaked = 0 /\ handles <= Cardinality(Workers)

\* A data set that is there, in order and left alone while the request is
\* answered, as its ancillary file is, is answered with its own DMR, whatever other requests meet.
GoodFileServed ==
    \A w \in Workers : \A c \in Good :
        pc[w] = "answered" /\ path[w] \in NcPaths \ BadAncillary /\ seen[w] = {c}
            => answer[w] = Dmr /\ vars[w] = c /\ attrs[w] = c

\* Each answer has its reason in what the file was while it was made: 404 in
\* a file that was not there to read, 500 in one that changed, that is not in
\* order, in a lack of handles, or, when the attributes had been read, in the
\* ancillary file, and the DMR tells of files that were there.
AnswerHasReason ==
    \A w \in Workers : pc[w] = "answered" /\ path[w] \in NcPaths =>
        \/ answer[w] = NotFound /\ seen[w] \cap (Unreadable \cup {None}) # {}
        \/ /\ answer[w] = Dmr
           /\ {vars[w], attrs[w]} \subseteq seen[w]
           /\ vars[w] \notin Unopenable \cup BadVars
           /\ attrs[w] \notin Unopenable \cup BadAttrs
        \/ /\ answer[w] \in {Failure, Exception}
           /\ \/ \E c, d \in seen[w] : c # d
              \/ seen[w] \cap (NotNetcdf \cup BadVars \cup BadAttrs) # {}
              \/ Leaked > 0
              \/ path[w] \in BadAncillary /\ attrs[w] \notin BadAttrs \cup {None}
        \/ answer[w] = Mishap /\ MayThrow

\* Every request is answered, whatever happens to the file and however many
\* handles are lost.
EveryRequestIsAnswered ==
    \A w \in Workers : pc[w] # "idle" ~> pc[w] = "idle"

-----------------------------------------------------------------------------
\* What comments and tests of the source say.

\* DataAccessNetCDF.h:22-24: get_dmr() "builds a DAP4 DMR for the data source
\* referenced by a path", so variables and attributes are of one data source.
DmrOfOneFile ==
    \A w \in Workers : answer[w] = Dmr => vars[w] = attrs[w]

\* test_handler.cpp:132-135: a DMR comes with eight headers.
DmrHasHeaders ==
    \A w \in Workers : answer[w].body = "DMR" => answer[w].headers = 8
=============================================================================
