------------------------------ MODULE DmrProofs ------------------------------
(* Theorems about DmrService, for any workers, paths, contents and limits,   *)
(* and, from "What is sent of a DMR" on, about XmlBase, for any buffer,      *)
(* literal, contexts and responses of the kind that other code stores.       *)
EXTENDS DmrService, XmlBase, SequenceTheorems, FiniteSetTheorems,
        WellFoundedInduction, TLAPS

-----------------------------------------------------------------------------
(* Handles: what the passes of each step do to their number.               *)

PassStages == {"dds_read", "das_read"}

\* A request under way is for one of the paths.
Asked == \A w \in Workers : pc[w] # "idle" => path[w] \in Paths

TypeInv == TypeOK /\ Asked /\ Leaked >= 0

LEMMA PassesAreCounted ==
    IsFiniteSet(InPass) /\ Cardinality(InPass) \in Nat
        /\ Cardinality(InPass) <= Cardinality(Workers)
<1>1. InPass \subseteq Workers
  BY DEF InPass
<1> QED
  BY <1>1, DmrServiceAssumption, FS_Subset, FS_CardinalityType

\* A worker in no pass leaves room: there is a worker more than passes.
LEMMA WorkerLeft ==
    ASSUME NEW w \in Workers, w \notin InPass
    PROVE  Cardinality(InPass) < Cardinality(Workers)
<1>1. InPass \subseteq Workers /\ InPass # Workers
  BY DEF InPass
<1>2. Cardinality(InPass) # Cardinality(Workers)
  BY <1>1, DmrServiceAssumption, FS_Subset
<1> QED
  BY <1>2, PassesAreCounted, FS_CardinalityType, DmrServiceAssumption

\* A step of one worker that moves it to stage s.
Moves(w, stage) == pc' = [pc EXCEPT ![w] = stage]

LEMMA PassBegins ==
    ASSUME TypeOK, NEW w \in Workers, NEW stage \in PassStages,
           pc[w] \notin PassStages, Moves(w, stage)
    PROVE  Cardinality(InPass') = Cardinality(InPass) + 1
<1>1. InPass' = InPass \cup {w} /\ w \notin InPass
  BY DEF InPass, PassStages, Moves, TypeOK
<1> QED
  BY <1>1, PassesAreCounted, FS_AddElement

LEMMA PassEnds ==
    ASSUME TypeOK, NEW w \in Workers, NEW stage, stage \notin PassStages,
           pc[w] \in PassStages, Moves(w, stage)
    PROVE  Cardinality(InPass') = Cardinality(InPass) - 1
<1>1. InPass' = InPass \ {w} /\ w \in InPass
  BY DEF InPass, PassStages, Moves, TypeOK
<1> QED
  BY <1>1, PassesAreCounted, FS_RemoveElement

LEMMA NoPass ==
    ASSUME TypeOK, NEW w \in Workers, NEW stage, stage \notin PassStages,
           pc[w] \notin PassStages, Moves(w, stage)
    PROVE  InPass' = InPass
BY DEF InPass, PassStages, Moves, TypeOK

\* What a step does to the handles: none is lost, but for the attribute pass.
Kept == Leaked' = Leaked
Lost == Leaked' = Leaked + 1

LEMMA QuietKeeps ==
    ASSUME TypeOK, handles' = handles, InPass' = InPass
    PROVE  Kept
BY PassesAreCounted DEF Kept, Leaked, TypeOK

LEMMA OpenKeeps ==
    ASSUME TypeOK, NEW w \in Workers, DdsOpen(w) \/ DasOpen(w)
    PROVE  Kept
<1>1. pc[w] \notin PassStages
  BY DEF DdsOpen, DasOpen, PassStages
<1>2. CASE CanOpen(w)
  <2>1. \E stage \in PassStages : Moves(w, stage)
    BY <1>2 DEF DdsOpen, DasOpen, Go, Moves, PassStages
  <2>2. Cardinality(InPass') = Cardinality(InPass) + 1
    BY <1>1, <2>1, PassBegins
  <2>3. handles' = handles + 1
    BY <1>2 DEF DdsOpen, DasOpen
  <2> QED
    BY <2>2, <2>3, PassesAreCounted DEF Kept, Leaked, TypeOK
<1>3. CASE ~CanOpen(w)
  <2>1. Moves(w, "answered") /\ handles' = handles
    BY <1>3 DEF DdsOpen, DasOpen, Reply, Go, Moves
  <2>2. InPass' = InPass
    BY <1>1, <2>1, NoPass DEF PassStages
  <2> QED
    BY <2>1, <2>2, QuietKeeps
<1> QED
  BY <1>2, <1>3

LEMMA DdsKeeps ==
    ASSUME TypeOK, NEW w \in Workers, DdsRead(w) \/ DdsThrows(w)
    PROVE  Kept
<1>1. pc[w] \in PassStages /\ handles' = handles - 1
  BY DEF DdsRead, DdsThrows, PassStages
<1>2. \E stage : stage \notin PassStages /\ Moves(w, stage)
  <2>1. Moves(w, "answered") \/ Moves(w, "das_open")
    BY DEF DdsRead, DdsThrows, Reply, Go, Moves
  <2> QED
    BY <2>1 DEF PassStages
<1>3. Cardinality(InPass') = Cardinality(InPass) - 1
  BY <1>1, <1>2, PassEnds
<1> QED
  BY <1>1, <1>3, PassesAreCounted DEF Kept, Leaked, TypeOK

LEMMA DasKeepsOrLoses ==
    ASSUME TypeOK, NEW w \in Workers, DasRead(w) \/ DasThrows(w)
    PROVE  Kept \/ (Lost /\ (BadAttrs # {} \/ MayThrow))
<1>1. pc[w] \in PassStages /\ (Moves(w, "answered") \/ Moves(w, "build"))
  BY DEF DasRead, DasThrows, PassStages, Reply, Go, Moves
<1>2. Cardinality(InPass') = Cardinality(InPass) - 1
  BY <1>1, PassEnds DEF PassStages
<1>3. \/ handles' = handles - 1
      \/ handles' = handles /\ (BadAttrs # {} \/ MayThrow)
  BY DEF DasRead, DasThrows
<1> QED
  BY <1>2, <1>3, PassesAreCounted DEF Kept, Lost, Leaked, TypeOK

\* Everything else moves no worker into or out of a pass.
LEMMA RestKeeps ==
    ASSUME TypeOK, NEW w \in Workers,
           \/ \E p \in Paths : Request(w, p)
           \/ FindFormat(w) \/ Access(w) \/ Stat(w) \/ Send(w)
           \/ AncillaryFails(w) \/ Build(w) \/ BuildThrows(w)
    PROVE  Kept
<1>1. pc[w] \notin PassStages /\ handles' = handles
  BY DEF Request, FindFormat, Access, Stat, Send, AncillaryFails, Build,
         BuildThrows, PassStages
<1>2. \E stage : stage \notin PassStages /\ Moves(w, stage)
  <2>1. \/ Moves(w, "find_format") \/ Moves(w, "access") \/ Moves(w, "stat")
        \/ Moves(w, "dds_open") \/ Moves(w, "answered") \/ Moves(w, "idle")
    BY DEF Request, FindFormat, Access, Stat, Send, AncillaryFails, Build,
           BuildThrows, Reply, Go, Moves
  <2> QED
    BY <2>1 DEF PassStages
<1> QED
  BY <1>1, <1>2, NoPass, QuietKeeps

LEMMA StepKeepsOrLoses ==
    ASSUME TypeOK, [Next]_state
    PROVE  Kept \/ (Lost /\ (BadAttrs # {} \/ MayThrow))
<1>1. ASSUME NEW w \in Workers, Handle(w) \/ \E p \in Paths : Request(w, p)
      PROVE  Kept \/ (Lost /\ (BadAttrs # {} \/ MayThrow))
  BY <1>1, OpenKeeps, DdsKeeps, DasKeepsOrLoses, RestKeeps DEF Handle
<1>2. ASSUME NEW p \in Paths, NEW c \in Contents \cup {None}, Change(p, c)
      PROVE  Kept
  BY <1>2, QuietKeeps DEF Change, InPass
<1>3. CASE UNCHANGED state
  BY <1>3, QuietKeeps DEF state, InPass
<1> QED
  BY <1>1, <1>2, <1>3 DEF Next

-----------------------------------------------------------------------------
(* Types.                                                                  *)

LEMMA Constants ==
    /\ Good \subseteq Contents /\ Unopenable \subseteq Contents
    /\ None \notin Contents /\ None \notin Paths
    /\ NcPaths \subseteq Paths /\ HandleLimit \in Nat
BY DmrServiceAssumption DEF Good, Unopenable

\* The types of everything but the handles.
LocalTypes ==
    /\ file \in [Paths -> Contents \cup {None}]
    /\ pc \in [Workers -> Stages]
    /\ path \in [Workers -> Paths \cup {None}]
    /\ vars \in [Workers -> Contents \cup {None}]
    /\ attrs \in [Workers -> Contents \cup {None}]
    /\ answer \in [Workers -> Answers]
    /\ seen \in [Workers -> SUBSET (Contents \cup {None})]

LEMMA InitTypes == Init => TypeInv
<1> SUFFICES ASSUME Init PROVE TypeInv
  OBVIOUS
<1>1. TypeOK
  BY Constants DEF Init, TypeOK, Stages, Answers
<1>2. Asked
  BY DEF Init, Asked
<1>3. InPass = {}
  BY DEF Init, InPass
<1>4. Leaked = 0
  BY <1>3, FS_EmptySet DEF Init, Leaked
<1> QED
  BY <1>1, <1>2, <1>4 DEF TypeInv

LEMMA StepTypes ==
    ASSUME TypeInv, [Next]_state
    PROVE  LocalTypes' /\ Asked'
<1> USE DEF LocalTypes, TypeInv, TypeOK, Asked
<1>1. ASSUME NEW w \in Workers, NEW p \in Paths, Request(w, p)
      PROVE  LocalTypes' /\ Asked'
  <2>1. file[p] \in Contents \cup {None}
    OBVIOUS
  <2> QED
    BY <1>1, <2>1 DEF Request, Go, Stages
<1>2. ASSUME NEW w \in Workers, \/ FindFormat(w) \/ Access(w) \/ Stat(w)
                                \/ AncillaryFails(w) \/ Build(w) \/ BuildThrows(w)
      PROVE  LocalTypes' /\ Asked'
  <2>1. /\ UNCHANGED <<file, path, vars, attrs, seen>>
        /\ \/ \E stage \in Stages : Go(w, stage) /\ UNCHANGED answer
           \/ \E a \in Answers : Reply(w, a)
        /\ pc[w] # "idle"
    BY <1>2 DEF FindFormat, Access, Stat, AncillaryFails, Build, BuildThrows,
                Stages, Answers
  <2>2. CASE \E stage \in Stages : Go(w, stage) /\ UNCHANGED answer
    BY <2>1, <2>2 DEF Go
  <2>3. CASE \E a \in Answers : Reply(w, a)
    BY <2>1, <2>3 DEF Reply, Go, Stages
  <2> QED
    BY <2>1, <2>2, <2>3
<1>3. ASSUME NEW w \in Workers, DdsOpen(w) \/ DasOpen(w)
      PROVE  LocalTypes' /\ Asked'
  <2>1. pc[w] # "idle" /\ path[w] \in Paths /\ File(w) \in Contents \cup {None}
    BY <1>3 DEF DdsOpen, DasOpen, File
  <2>2. CASE CanOpen(w)
    BY <1>3, <2>1, <2>2 DEF DdsOpen, DasOpen, Go, Stages
  <2>3. CASE ~CanOpen(w)
    BY <1>3, <2>1, <2>3 DEF DdsOpen, DasOpen, Reply, Go, Stages, Answers
  <2> QED
    BY <2>2, <2>3
<1>4. ASSUME NEW w \in Workers,
             DdsRead(w) \/ DdsThrows(w) \/ DasRead(w) \/ DasThrows(w)
      PROVE  LocalTypes' /\ Asked'
  <2>1. /\ UNCHANGED <<file, path, vars, attrs, seen>>
        /\ \/ \E stage \in Stages : Go(w, stage) /\ UNCHANGED answer
           \/ \E a \in Answers : Reply(w, a)
        /\ pc[w] # "idle"
    BY <1>4 DEF DdsRead, DdsThrows, DasRead, DasThrows, Stages, Answers
  <2>2. CASE \E stage \in Stages : Go(w, stage) /\ UNCHANGED answer
    BY <2>1, <2>2 DEF Go
  <2>3. CASE \E a \in Answers : Reply(w, a)
    BY <2>1, <2>3 DEF Reply, Go, Stages
  <2> QED
    BY <2>1, <2>2, <2>3
<1>5. ASSUME NEW w \in Workers, Send(w)
      PROVE  LocalTypes' /\ Asked'
  BY <1>5 DEF Send, Go, Stages, Answers
<1>6. ASSUME NEW p \in Paths, NEW c \in Contents \cup {None}, Change(p, c)
      PROVE  LocalTypes' /\ Asked'
  BY <1>6 DEF Change
<1>7. CASE UNCHANGED state
  BY <1>7 DEF state
<1> QED
  BY <1>1, <1>2, <1>3, <1>4, <1>5, <1>6, <1>7 DEF Next, Handle

\* Handles are opened below the limit and closed by those who opened them.
LEMMA StepHandles ==
    ASSUME TypeInv, [Next]_state
    PROVE  handles' \in 0..HandleLimit /\ Leaked' >= 0
<1>1. Leaked \in Int /\ Leaked >= 0 /\ handles \in 0..HandleLimit
  BY PassesAreCounted DEF TypeInv, TypeOK, Leaked
<1>2. Leaked' >= 0
  BY <1>1, StepKeepsOrLoses DEF TypeInv, Kept, Lost
<1>3. handles' \in Int /\ (handles' <= handles \/ handles' <= HandleLimit)
  <2>1. ASSUME NEW w \in Workers, Handle(w)
        PROVE  \/ handles' = handles \/ handles' = handles - 1
               \/ handles' = handles + 1 /\ handles < HandleLimit
    BY <2>1 DEF Handle, FindFormat, Access, Stat, DdsOpen, DdsRead, DdsThrows,
                DasOpen, DasRead, DasThrows, AncillaryFails, Build, BuildThrows,
                Send, CanOpen
  <2>2. \/ handles' = handles \/ handles' = handles - 1
        \/ handles' = handles + 1 /\ handles < HandleLimit
    BY <2>1 DEF Next, state, Request, Change
  <2> QED
    BY <1>1, <2>2, Constants
<1>4. handles' >= 0
  <2>1. IsFiniteSet(InPass') /\ Cardinality(InPass') \in Nat
    <3>1. InPass' \subseteq Workers
      BY DEF InPass
    <3> QED
      BY <3>1, DmrServiceAssumption, FS_Subset, FS_CardinalityType
  <2> QED
    BY <1>2, <1>3, <2>1 DEF Leaked
<1> QED
  BY <1>1, <1>2, <1>3, <1>4, Constants

LEMMA TypeInvariance == Spec => []TypeInv
<1>1. TypeInv /\ [Next]_state => TypeInv'
  BY StepTypes, StepHandles DEF TypeInv, TypeOK, LocalTypes
<1> QED
  BY InitTypes, <1>1, PTL DEF Spec

\* Every variable of the service keeps its type; open handles are counted
\* from zero up to what the process may have.
THEOREM TypeCorrect == Spec => []TypeOK
<1>1. TypeInv => TypeOK
  BY DEF TypeInv
<1> QED
  BY <1>1, TypeInvariance, PTL

\* When no data set has attributes that cannot be translated, and no pass ends
\* with an exception of another kind, no handle is ever lost: those open are
\* those of passes under way.
THEOREM HandlesAreReturned ==
    ASSUME BadAttrs = {}, ~MayThrow
    PROVE  Spec => []HandlesOfPasses
<1> DEFINE Even == TypeInv /\ Leaked = 0
<1>1. Init => Even
  <2>1. Init => InPass = {} /\ handles = 0
    BY DEF Init, InPass
  <2> QED
    BY <2>1, InitTypes, FS_EmptySet DEF Leaked
<1>2. Even /\ [Next]_state => Even'
  <2>1. TypeInv /\ [Next]_state => TypeInv'
    BY StepTypes, StepHandles DEF TypeInv, TypeOK, LocalTypes
  <2> QED
    BY <2>1, StepKeepsOrLoses DEF TypeInv, Kept
<1>3. Even => HandlesOfPasses
  BY PassesAreCounted, FS_CardinalityType, DmrServiceAssumption
     DEF HandlesOfPasses, Leaked, TypeInv, TypeOK
<1> HIDE DEF Even
<1> QED
  BY <1>1, <1>2, <1>3, PTL DEF Spec

-----------------------------------------------------------------------------
(* Answers and their reasons.                                              *)

\* What a worker has learnt of the file, by where it is.
Learnt(w) ==
    /\ pc[w] # "idle" => path[w] \in Paths /\ File(w) \in seen[w]
    /\ pc[w] \notin {"idle", "find_format", "answered"} => path[w] \in NcPaths
    /\ pc[w] \in {"stat", "dds_open", "dds_read", "das_open", "das_read"}
           => \E c \in seen[w] : c \in Contents \ Unreadable
    /\ pc[w] \in {"dds_read", "das_open", "das_read", "build"}
           => vars[w] \in seen[w] /\ vars[w] \notin Unopenable
    /\ pc[w] \in {"das_open", "das_read", "build"}
           => vars[w] \notin BadVars
    /\ pc[w] \in {"das_read", "build"}
           => attrs[w] \in seen[w] /\ attrs[w] \notin Unopenable \cup {None}
    /\ pc[w] = "build" => attrs[w] \notin BadAttrs

Changed(w) == \E c, d \in seen[w] : c # d

\* The part of AnswerHasReason about one worker.
HasReason(w) ==
    pc[w] = "answered" /\ path[w] \in NcPaths =>
        \/ answer[w] = NotFound /\ seen[w] \cap (Unreadable \cup {None}) # {}
        \/ /\ answer[w] = Dmr
           /\ {vars[w], attrs[w]} \subseteq seen[w]
           /\ vars[w] \notin Unopenable \cup BadVars
           /\ attrs[w] \notin Unopenable \cup BadAttrs
        \/ /\ answer[w] \in {Failure, Exception}
           /\ \/ Changed(w)
              \/ seen[w] \cap (NotNetcdf \cup BadVars \cup BadAttrs) # {}
              \/ Leaked > 0
              \/ path[w] \in BadAncillary /\ attrs[w] \notin BadAttrs \cup {None}
        \/ answer[w] = Mishap /\ MayThrow

Enough == HandleLimit >= Cardinality(Workers)

ReasonInv == TypeInv /\ \A w \in Workers : Learnt(w) /\ HasReason(w)

LEMMA LeakedIsInt == TypeOK => Leaked \in Int
BY PassesAreCounted DEF Leaked, TypeOK

LEMMA LeakedGrows ==
    ASSUME TypeInv, [Next]_state
    PROVE  Leaked' \in Int /\ Leaked' >= Leaked
<1>1. Leaked \in Int
  BY LeakedIsInt DEF TypeInv
<1> QED
  BY <1>1, StepKeepsOrLoses DEF TypeInv, Kept, Lost

\* An open fails for want of a handle only when handles are lost.
LEMMA NoHandleLeft ==
    ASSUME TypeInv, Enough, NEW w \in Workers, w \notin InPass,
           ~(handles < HandleLimit)
    PROVE  Leaked > 0
BY WorkerLeft, PassesAreCounted, FS_CardinalityType, DmrServiceAssumption
   DEF Enough, Leaked, TypeInv, TypeOK

\* A worker that does not move, while the file of its path stays or its
\* history grows.
LEMMA OthersKeep ==
    ASSUME TypeInv, [Next]_state, NEW v \in Workers, Learnt(v), HasReason(v),
           pc'[v] = pc[v], path'[v] = path[v], vars'[v] = vars[v],
           attrs'[v] = attrs[v], answer'[v] = answer[v],
           seen[v] \subseteq seen'[v],
           pc[v] # "idle" => File(v)' \in seen'[v]
    PROVE  Learnt(v)' /\ HasReason(v)'
<1>1. Leaked > 0 => Leaked' > 0
  BY LeakedGrows, LeakedIsInt DEF TypeInv
<1>2. Learnt(v)'
  BY DEF Learnt
<1>3. Changed(v) => Changed(v)'
  BY DEF Changed
<1>4. HasReason(v)'
  BY <1>1, <1>3 DEF HasReason
<1> QED
  BY <1>2, <1>4

\* Steps of a worker change nothing of the others.
Own(w) ==
    /\ file' = file
    /\ \A v \in Workers \ {w} :
          /\ pc'[v] = pc[v] /\ path'[v] = path[v] /\ vars'[v] = vars[v]
          /\ attrs'[v] = attrs[v] /\ answer'[v] = answer[v] /\ seen'[v] = seen[v]

LEMMA WorkersStepAlone ==
    ASSUME TypeInv, NEW w \in Workers,
           Handle(w) \/ \E p \in Paths : Request(w, p)
    PROVE  Own(w)
<1> USE DEF Own, TypeInv, TypeOK
<1>1. CASE \E p \in Paths : Request(w, p)
  BY <1>1 DEF Request, Go
<1>2. CASE \/ FindFormat(w) \/ Access(w) \/ Stat(w)
           \/ AncillaryFails(w) \/ Build(w) \/ BuildThrows(w)
  BY <1>2 DEF FindFormat, Access, Stat, AncillaryFails, Build, BuildThrows, Reply, Go
<1>3. CASE DdsOpen(w) \/ DasOpen(w)
  BY <1>3 DEF DdsOpen, DasOpen, Reply, Go
<1>4. CASE DdsRead(w) \/ DdsThrows(w) \/ DasRead(w) \/ DasThrows(w)
  BY <1>4 DEF DdsRead, DdsThrows, DasRead, DasThrows, Reply, Go
<1>5. CASE Send(w)
  BY <1>5 DEF Send, Go
<1> QED
  BY <1>1, <1>2, <1>3, <1>4, <1>5 DEF Handle

\* One step of the worker itself.
LEMMA LookKeeps ==
    ASSUME TypeInv, NEW w \in Workers, Learnt(w), HasReason(w),
           \/ \E p \in Paths : Request(w, p)
           \/ FindFormat(w) \/ Access(w) \/ Stat(w) \/ Send(w)
    PROVE  Learnt(w)' /\ HasReason(w)'
<1> USE Constants DEF TypeInv, TypeOK, Learnt, HasReason, Changed, File
<1>1. ASSUME NEW p \in Paths, Request(w, p)
      PROVE  Learnt(w)' /\ HasReason(w)'
  BY <1>1 DEF Request, Go
<1>2. ASSUME FindFormat(w) PROVE Learnt(w)' /\ HasReason(w)'
  <2>1. CASE path[w] \in NcPaths
    BY <1>2, <2>1 DEF FindFormat, Go
  <2>2. CASE path[w] \notin NcPaths
    BY <1>2, <2>2 DEF FindFormat, Reply, Go
  <2> QED
    BY <2>1, <2>2
<1>3. ASSUME Access(w) PROVE Learnt(w)' /\ HasReason(w)'
  <2>1. CASE File(w) \in Contents \ Unreadable
    BY <1>3, <2>1 DEF Access, Go
  <2>2. CASE File(w) \notin Contents \ Unreadable
    <3>1. File(w) \in seen[w] \cap (Unreadable \cup {None})
      BY <1>3, <2>2 DEF Access
    <3> QED
      BY <1>3, <2>2, <3>1 DEF Access, Reply, Go
  <2> QED
    BY <2>1, <2>2
<1>4. ASSUME Stat(w) PROVE Learnt(w)' /\ HasReason(w)'
  <2>1. CASE File(w) \in Contents
    BY <1>4, <2>1 DEF Stat, Go
  <2>2. CASE File(w) \notin Contents
    <3>1. PICK c \in seen[w] : c \in Contents \ Unreadable
      BY <1>4 DEF Stat
    <3>2. File(w) \in seen[w] /\ c # File(w)
      BY <1>4, <2>2, <3>1 DEF Stat
    <3>3. pc'[w] = "answered" /\ answer'[w] = Exception /\ path'[w] = path[w]
          /\ seen'[w] = seen[w] /\ file' = file
      BY <1>4, <2>2 DEF Stat, Reply, Go
    <3>4. Changed(w)'
      BY <3>2, <3>3
    <3>5. path[w] \in Paths /\ path[w] \in NcPaths
      BY <1>4 DEF Stat
    <3> QED
      BY <3>2, <3>3, <3>4, <3>5
  <2> QED
    BY <2>1, <2>2
<1>5. ASSUME Send(w) PROVE Learnt(w)' /\ HasReason(w)'
  BY <1>5 DEF Send, Go
<1> QED
  BY <1>1, <1>2, <1>3, <1>4, <1>5

\* A failed open has its reason.
LEMMA OpenFails ==
    ASSUME TypeInv, Enough, NEW w \in Workers, Learnt(w), ~CanOpen(w),
           pc[w] \in {"dds_open", "das_open"}
    PROVE  Changed(w) \/ seen[w] \cap NotNetcdf # {} \/ Leaked > 0
<1>1. CASE ~(handles < HandleLimit)
  <2>1. w \notin InPass
    BY DEF InPass
  <2> QED
    BY <1>1, <2>1, NoHandleLeft
<1>2. CASE File(w) \notin Contents \ Unopenable
  <2>1. File(w) \in seen[w] /\ File(w) \in Contents \cup {None}
    BY DEF Learnt, File, TypeInv, TypeOK
  <2>2. CASE File(w) \in NotNetcdf
    BY <2>1, <2>2
  <2>3. CASE File(w) \notin NotNetcdf
    <3>1. PICK c \in seen[w] : c \in Contents \ Unreadable
      BY DEF Learnt
    <3>2. c # File(w)
      BY <1>2, <2>1, <2>3, <3>1, Constants DEF Unopenable
    <3> QED
      BY <2>1, <3>2 DEF Changed
  <2> QED
    BY <2>2, <2>3
<1> QED
  BY <1>1, <1>2 DEF CanOpen

LEMMA OpenKeepsReason ==
    ASSUME TypeInv, Enough, NEW w \in Workers, Learnt(w), HasReason(w),
           DdsOpen(w) \/ DasOpen(w)
    PROVE  Learnt(w)' /\ HasReason(w)'
<1>1. pc[w] \in {"dds_open", "das_open"} /\ file' = file /\ path' = path
      /\ seen' = seen
  BY DEF DdsOpen, DasOpen
<1>2. path[w] \in NcPaths /\ File(w) \in seen[w] /\ File(w)' = File(w)
  BY <1>1 DEF Learnt, File
<1>3. CASE CanOpen(w)
  <2>1. File(w) \in Contents \ Unopenable /\ File(w) # None
    BY <1>3, Constants DEF CanOpen
  <2>2. CASE DdsOpen(w)
    <3>1. pc'[w] = "dds_read" /\ vars'[w] = File(w)
      BY <1>3, <2>2 DEF DdsOpen, Go, TypeInv, TypeOK
    <3>2. pc[w] = "dds_open"
      BY <2>2 DEF DdsOpen
    <3> QED
      BY <1>1, <1>2, <2>1, <3>1, <3>2 DEF Learnt, HasReason
  <2>3. CASE DasOpen(w)
    <3>1. pc'[w] = "das_read" /\ attrs'[w] = File(w) /\ vars' = vars
      BY <1>3, <2>3 DEF DasOpen, Go, TypeInv, TypeOK
    <3>2. pc[w] = "das_open"
      BY <2>3 DEF DasOpen
    <3> QED
      BY <1>1, <1>2, <2>1, <3>1, <3>2 DEF Learnt, HasReason
  <2> QED
    BY <2>2, <2>3
<1>4. CASE ~CanOpen(w)
  <2>1. pc'[w] = "answered" /\ answer'[w] = Failure
    BY <1>4 DEF DdsOpen, DasOpen, Reply, Go, TypeInv, TypeOK
  <2>2. Changed(w)' \/ seen'[w] \cap NotNetcdf # {} \/ Leaked' > 0
    <3>1. Changed(w) \/ seen[w] \cap NotNetcdf # {} \/ Leaked > 0
      BY <1>1, <1>4, OpenFails
    <3>2. Leaked' = Leaked
      BY OpenKeeps DEF Kept, TypeInv
    <3> QED
      BY <1>1, <3>1, <3>2 DEF Changed
  <2>3. path[w] \in Paths
    BY <1>1 DEF Learnt
  <2>4. Learnt(w)'
    BY <1>1, <1>2, <2>1, <2>3 DEF Learnt
  <2>5. HasReason(w)'
    BY <2>1, <2>2 DEF HasReason
  <2> QED
    BY <2>4, <2>5
<1> QED
  BY <1>3, <1>4

LEMMA PassKeepsReason ==
    ASSUME TypeInv, NEW w \in Workers, Learnt(w), HasReason(w),
           DdsRead(w) \/ DdsThrows(w) \/ DasRead(w) \/ DasThrows(w)
    PROVE  Learnt(w)' /\ HasReason(w)'
<1>1. /\ pc[w] \in {"dds_read", "das_read"}
      /\ UNCHANGED <<file, path, vars, attrs, seen>>
  BY DEF DdsRead, DdsThrows, DasRead, DasThrows
<1>2. path[w] \in NcPaths /\ File(w) \in seen[w] /\ File(w)' = File(w)
      /\ path[w] \in Paths
  BY <1>1 DEF Learnt, File
<1>3. CASE DdsRead(w)
  <2>1. vars[w] \in seen[w] /\ vars[w] \notin Unopenable
    BY <1>3 DEF DdsRead, Learnt
  <2>2. CASE vars[w] \in BadVars
    <3>1. pc'[w] = "answered" /\ answer'[w] = Failure
      BY <1>3, <2>2 DEF DdsRead, Reply, Go, TypeInv, TypeOK
    <3> QED
      BY <1>1, <1>2, <2>1, <2>2, <3>1 DEF Learnt, HasReason
  <2>3. CASE vars[w] \notin BadVars
    <3>1. pc'[w] = "das_open" /\ pc[w] = "dds_read"
      BY <1>3, <2>3 DEF DdsRead, Go, TypeInv, TypeOK
    <3> QED
      BY <1>1, <1>2, <2>1, <2>3, <3>1 DEF Learnt, HasReason
  <2> QED
    BY <2>2, <2>3
<1>4. CASE DasRead(w)
  <2>1. /\ pc[w] = "das_read"
        /\ vars[w] \in seen[w] /\ vars[w] \notin Unopenable \cup BadVars
        /\ attrs[w] \in seen[w] /\ attrs[w] \notin Unopenable \cup {None}
    BY <1>4 DEF DasRead, Learnt
  <2>2. CASE attrs[w] \in BadAttrs
    <3>1. pc'[w] = "answered" /\ answer'[w] = Failure
      BY <1>4, <2>2 DEF DasRead, Reply, Go, TypeInv, TypeOK
    <3> QED
      BY <1>1, <1>2, <2>1, <2>2, <3>1 DEF Learnt, HasReason
  <2>3. CASE attrs[w] \notin BadAttrs
    <3>1. pc'[w] = "build"
      BY <1>4, <2>3 DEF DasRead, Go, TypeInv, TypeOK
    <3> QED
      BY <1>1, <1>2, <2>1, <2>3, <3>1 DEF Learnt, HasReason
  <2> QED
    BY <2>2, <2>3
<1>5. CASE DdsThrows(w) \/ DasThrows(w)
  <2>1. pc'[w] = "answered" /\ answer'[w] = Mishap /\ MayThrow
    BY <1>5 DEF DdsThrows, DasThrows, Reply, Go, TypeInv, TypeOK
  <2> QED
    BY <1>1, <1>2, <2>1 DEF Learnt, HasReason
<1> QED
  BY <1>3, <1>4, <1>5

LEMMA BuildKeepsReason ==
    ASSUME TypeInv, NEW w \in Workers, Learnt(w), HasReason(w),
           AncillaryFails(w) \/ Build(w) \/ BuildThrows(w)
    PROVE  Learnt(w)' /\ HasReason(w)'
<1>1. pc[w] = "build" /\ UNCHANGED <<file, path, vars, attrs, seen>>
  BY DEF AncillaryFails, Build, BuildThrows
<1>2. pc'[w] = "answered"
  BY DEF AncillaryFails, Build, BuildThrows, Reply, Go, TypeInv, TypeOK
<1>3. \/ answer'[w] = Dmr
      \/ answer'[w] = Mishap /\ MayThrow
      \/ answer'[w] = Failure /\ path[w] \in BadAncillary
  BY DEF AncillaryFails, Build, BuildThrows, Reply, Go, TypeInv, TypeOK
<1>4. Learnt(w)'
  BY <1>1, <1>2 DEF Learnt, File
<1>5. HasReason(w)'
  BY <1>1, <1>2, <1>3 DEF Learnt, HasReason
<1> QED
  BY <1>4, <1>5

LEMMA ReasonInvariance ==
    ASSUME Enough
    PROVE  Spec => []ReasonInv
<1>1. Init => ReasonInv
  BY InitTypes DEF Init, ReasonInv, Learnt, HasReason
<1>2. ReasonInv /\ [Next]_state => ReasonInv'
  <2> SUFFICES ASSUME ReasonInv, [Next]_state
               PROVE  ReasonInv'
    OBVIOUS
  <2>1. TypeInv /\ \A v \in Workers : Learnt(v) /\ HasReason(v)
    BY DEF ReasonInv
  <2>2. TypeInv'
    BY <2>1, StepTypes, StepHandles DEF TypeInv, TypeOK, LocalTypes
  <2>3. ASSUME NEW w \in Workers, Handle(w) \/ \E p \in Paths : Request(w, p),
               NEW v \in Workers
        PROVE  Learnt(v)' /\ HasReason(v)'
    <3>1. CASE v = w
      BY <2>1, <2>3, <3>1, LookKeeps, OpenKeepsReason, PassKeepsReason,
         BuildKeepsReason DEF Handle
    <3>2. CASE v # w
      <4>1. Own(w)
        BY <2>1, <2>3, WorkersStepAlone
      <4>2. pc[v] # "idle" => File(v)' \in seen'[v]
        BY <2>1, <3>2, <4>1 DEF Own, Learnt, File
      <4> QED
        BY <2>1, <3>2, <4>1, <4>2, OthersKeep DEF Own
    <3> QED
      BY <3>1, <3>2
  <2>4. ASSUME NEW p \in Paths, NEW c \in Contents \cup {None}, Change(p, c),
               NEW v \in Workers
        PROVE  Learnt(v)' /\ HasReason(v)'
    <3>1. seen[v] \subseteq seen'[v]
      BY <2>4 DEF Change
    <3>2. pc[v] # "idle" => File(v)' \in seen'[v]
      BY <2>1, <2>4 DEF Change, Learnt, File, TypeInv, TypeOK
    <3>3. UNCHANGED <<pc, path, vars, attrs, answer>>
      BY <2>4 DEF Change
    <3> QED
      BY <2>1, <3>1, <3>2, <3>3, OthersKeep
  <2>5. CASE UNCHANGED state
    <3>1. ASSUME NEW v \in Workers PROVE Learnt(v)' /\ HasReason(v)'
      <4>1. pc[v] # "idle" => File(v)' \in seen'[v]
        BY <2>1, <2>5 DEF state, Learnt, File
      <4> QED
        BY <2>1, <2>5, <4>1, OthersKeep DEF state
    <3> QED
      BY <2>2, <3>1 DEF ReasonInv
  <2> QED
    BY <2>2, <2>3, <2>4, <2>5 DEF Next, ReasonInv
<1> QED
  BY <1>1, <1>2, PTL DEF Spec

\* With a handle for each worker every answer has its reason in the states
\* that the file went through during the request, or in lost handles.
THEOREM AnswersHaveReasons ==
    ASSUME HandleLimit >= Cardinality(Workers)
    PROVE  Spec => []AnswerHasReason
<1>1. ReasonInv => AnswerHasReason
  BY DEF ReasonInv, HasReason, Changed, AnswerHasReason
<1> QED
  BY <1>1, ReasonInvariance, PTL DEF Enough

\* A data set that is in order, as its ancillary file is, and left alone while
\* the request is answered, is answered with its DMR, as long as there is a handle for each worker and
\* no pass loses one.
THEOREM GoodDataSetsAreServed ==
    ASSUME HandleLimit >= Cardinality(Workers), BadAttrs = {}, ~MayThrow
    PROVE  Spec => []GoodFileServed
<1>1. ReasonInv /\ HandlesOfPasses => GoodFileServed
  <2> SUFFICES ASSUME ReasonInv, HandlesOfPasses, NEW w \in Workers,
                      NEW c \in Good, pc[w] = "answered",
                      path[w] \in NcPaths \ BadAncillary, seen[w] = {c}
               PROVE  answer[w] = Dmr /\ vars[w] = c /\ attrs[w] = c
    BY DEF GoodFileServed
  <2>1. HasReason(w) /\ ~(Leaked > 0)
    BY DEF ReasonInv, HandlesOfPasses
  <2>2. c \notin Unopenable \cup BadVars \cup BadAttrs /\ c # None
    BY Constants DEF Good
  <2>3. /\ ~Changed(w)
        /\ seen[w] \cap (NotNetcdf \cup BadVars \cup BadAttrs) = {}
        /\ seen[w] \cap (Unreadable \cup {None}) = {}
    BY <2>2 DEF Changed, Unopenable
  <2> QED
    BY <2>1, <2>3 DEF HasReason
<1> QED
  BY <1>1, ReasonInvariance, HandlesAreReturned, PTL DEF Enough

-----------------------------------------------------------------------------
(* What is sent of a DMR: strings and their parts.                         *)

\* Min() of some numbers is the least of them.
LEMMA MinIsLeast ==
    ASSUME NEW S \in SUBSET Nat, S # {}
    PROVE  Min(S) \in S /\ \A x \in S : Min(S) <= x
  <1>1. IsWellFoundedOn(OpToRel(<, Nat), Nat)
    BY NatLessThanWellFounded, Zenon
  <1>2. PICK a \in S : \A b \in S : <<b, a>> \notin OpToRel(<, Nat)
    BY <1>1, WFMin, Zenon
  <1>3. \A b \in S : ~(b < a)
    BY <1>2 DEF OpToRel
  <1>4. \A b \in S : a <= b
    BY <1>3
  <1>5. QED
    BY <1>4 DEF Min

\* Strings.
Text == Seq(Chars)

\* A concatenation, character by character.
LEMMA Joins ==
    ASSUME NEW a \in Text, NEW b \in Text
    PROVE  /\ a \o b \in Text /\ Len(a) \in Nat /\ Len(b) \in Nat /\ Len(a \o b) = Len(a) + Len(b)
           /\ \A k \in 1..Len(a) : (a \o b)[k] = a[k]
           /\ \A k \in 1..Len(b) : (a \o b)[Len(a) + k] = b[k]
  <1> DEFINE l == Len(a)
             m == Len(b)
             d == a \o b
  <1>1. l \in Nat /\ m \in Nat
    BY LenProperties DEF Text
  <1>2. /\ d \in Text /\ Len(d) = l + m
        /\ \A k \in 1..(l + m) : d[k] = IF k <= l THEN a[k] ELSE b[k - l]
    BY ConcatProperties DEF Text
  <1> HIDE DEF l, m, d
  <1>3. \A k \in 1..l : d[k] = a[k]
    BY <1>1, <1>2
  <1>4. \A k \in 1..m : d[l + k] = b[k]
    BY <1>1, <1>2
  <1>5. QED
    BY <1>1, <1>2, <1>3, <1>4 DEF l, m, d

\* x stands in d after the first from characters.
At(d, from, x) ==
    /\ d \in Text /\ x \in Text /\ from \in Nat /\ from + Len(x) <= Len(d)
    /\ \A k \in 1..Len(x) : d[from + k] = x[k]

\* Each half of a concatenation stands in it.
LEMMA AtHalves ==
    ASSUME NEW a \in Text, NEW b \in Text
    PROVE  /\ a \o b \in Text /\ Len(a) \in Nat /\ Len(b) \in Nat
           /\ Len(a \o b) = Len(a) + Len(b)
           /\ At(a \o b, 0, a) /\ At(a \o b, Len(a), b)
  <1> DEFINE d == a \o b
             l == Len(a)
             m == Len(b)
  <1>1. /\ d \in Text /\ l \in Nat /\ m \in Nat /\ Len(d) = l + m
        /\ \A k \in 1..l : d[k] = a[k]
        /\ \A k \in 1..m : d[l + k] = b[k]
    BY Joins
  <1> HIDE DEF d, l, m
  <1>2. At(d, 0, a)
    <2>1. 0 + l <= Len(d) /\ \A k \in 1..l : d[0 + k] = a[k]
      BY <1>1
    <2>2. QED
      BY <1>1, <2>1 DEF At, l
  <1>3. At(d, l, b)
    BY <1>1 DEF At, m
  <1>4. QED
    BY <1>1, <1>2, <1>3 DEF d, l, m

\* A part of a part.
LEMMA AtAt ==
    ASSUME NEW d, NEW m, NEW x, At(d, m, x), NEW n, NEW y, At(x, n, y)
    PROVE  At(d, m + n, y)
  <1>1. Len(d) \in Nat /\ Len(x) \in Nat /\ Len(y) \in Nat
    BY LenProperties DEF At, Text
  <1>2. ASSUME NEW k \in 1..Len(y)
        PROVE  d[(m + n) + k] = y[k]
    <2>1. n + k \in 1..Len(x) /\ m + (n + k) = (m + n) + k
      BY <1>1 DEF At
    <2>2. x[n + k] = y[k] /\ d[m + (n + k)] = x[n + k]
      BY <2>1 DEF At
    <2>3. QED
      BY <2>1, <2>2
  <1>3. m + n \in Nat /\ (m + n) + Len(y) <= Len(d)
    BY <1>1 DEF At
  <1>4. QED
    BY <1>2, <1>3 DEF At

\* Two parts, one after the other, are one.
LEMMA AtJoin ==
    ASSUME NEW d, NEW m, NEW x, At(d, m, x), NEW y, At(d, m + Len(x), y)
    PROVE  At(d, m, x \o y)
  <1> DEFINE z == x \o y
             l == Len(x)
             n == Len(y)
  <1>1. /\ z \in Text /\ l \in Nat /\ n \in Nat /\ Len(z) = l + n
        /\ \A k \in 1..l : z[k] = x[k]
        /\ \A k \in 1..n : z[l + k] = y[k]
    BY Joins DEF At
  <1>2. /\ d \in Text /\ m \in Nat /\ Len(d) \in Nat /\ (m + l) + n <= Len(d)
        /\ \A k \in 1..l : d[m + k] = x[k]
        /\ \A k \in 1..n : d[(m + l) + k] = y[k]
    BY LenProperties DEF At, Text
  <1> HIDE DEF z, l, n
  <1>3. ASSUME NEW k \in 1..(l + n)
        PROVE  d[m + k] = z[k]
    <2>1. CASE k \in 1..l
      BY <1>1, <1>2, <2>1
    <2>2. CASE k - l \in 1..n
      <3>1. z[l + (k - l)] = y[k - l] /\ d[(m + l) + (k - l)] = y[k - l]
        BY <1>1, <1>2, <2>2
      <3>2. l + (k - l) = k /\ (m + l) + (k - l) = m + k
        BY <1>1, <1>2
      <3>3. QED
        BY <3>1, <3>2
    <2>3. QED
      BY <1>1, <2>1, <2>2
  <1>4. m + (l + n) <= Len(d)
    BY <1>1, <1>2
  <1>5. At(d, m, z)
    BY <1>1, <1>2, <1>3, <1>4 DEF At
  <1>6. QED
    BY <1>5 DEF z

\* A character of a part.
LEMMA AtOne ==
    ASSUME NEW d, NEW from, NEW x, At(d, from, x), NEW k \in 1..Len(x)
    PROVE  d[from + k] = x[k] /\ from + k \in Nat /\ from + k <= Len(d)
  <1>1. Len(x) \in Nat /\ Len(d) \in Nat
    BY LenProperties DEF At, Text
  <1>2. QED
    BY <1>1 DEF At

\* A part is the subsequence there.
LEMMA AtIsPart ==
    ASSUME NEW d, NEW from, NEW x, At(d, from, x)
    PROVE  SubSeq(d, from + 1, from + Len(x)) = x
  <1> DEFINE y == SubSeq(d, from + 1, from + Len(x))
             n == Len(x)
  <1>1. n \in Nat /\ Len(d) \in Nat /\ from \in Nat /\ from + n <= Len(d)
    BY LenProperties DEF Text, At
  <1>2. ASSUME NEW k \in (from + 1)..(from + n)
        PROVE  d[k] \in Chars
    <2>1. k \in 1..Len(d)
      BY <1>1
    <2>2. QED
      BY <2>1, ElementOfSeq DEF Text, At
  <1>3. /\ y \in Text
        /\ Len(y) = IF from + 1 <= from + n THEN (from + n) - (from + 1) + 1 ELSE 0
        /\ \A k \in 1..((from + n) - (from + 1) + 1) : y[k] = d[(from + 1) + k - 1]
    BY <1>1, <1>2, SubSeqProperties DEF Text
  <1> HIDE DEF y, n
  <1>4. Len(y) = n
    BY <1>1, <1>3
  <1>5. ASSUME NEW k \in 1..n
        PROVE  y[k] = x[k]
    <2>1. /\ k \in 1..((from + n) - (from + 1) + 1)
          /\ (from + 1) + k - 1 = from + k
      BY <1>1
    <2>2. d[from + k] = x[k]
      BY DEF n, At
    <2>3. QED
      BY <1>3, <2>1, <2>2
  <1>6. y = x
    BY <1>3, <1>4, <1>5, SeqEqual DEF n, Text, At
  <1>7. QED
    BY <1>6 DEF y, n

\* Concatenation is associative.
Associates(a, b, c) == (a \o b) \o c = a \o (b \o c)

\* In the form that rewriting asks for.
LEMMA Associative ==
    ASSUME NEW a \in Text, NEW b \in Text, NEW c \in Text
    PROVE  Associates(a, b, c)
  BY ConcatAssociative DEF Associates, Text

Regroups(a, b, c, d, e) ==
    (((a \o b) \o c) \o d) \o e = a \o (b \o ((c \o d) \o e))

\* The same for the five parts of a Document.
LEMMA Regroup ==
    ASSUME NEW a \in Text, NEW b \in Text, NEW c \in Text, NEW d \in Text, NEW e \in Text
    PROVE  Regroups(a, b, c, d, e)
  <1>1. /\ a \o b \in Text /\ c \o d \in Text
        /\ (a \o b) \o c \in Text /\ (c \o d) \o e \in Text
    BY Joins
  <1>2. /\ Associates(a \o b, c, d)
        /\ Associates(a \o b, c \o d, e)
        /\ Associates(a, b, (c \o d) \o e)
    BY <1>1, Associative
  <1>3. QED
    BY <1>2, Zenon DEF Associates, Regroups

\* What follows the attribute.
End(r) == r.after \o <<">">> \o r.rest

\* A Document is what precedes the attribute, it, and what follows.
LEMMA DocumentParts ==
    ASSUME NEW r, r.prolog \in Text, r.before \in Text,
           r.after \in Text, r.rest \in Text, NEW x \in Text
    PROVE  /\ Document(r, x) = (r.prolog \o r.before) \o (x \o End(r))
           /\ End(r) \in Text
  <1> DEFINE tag == <<">">>
             p == r.prolog
             b == r.before
             a == r.after
             o == r.rest
  <1>1. tag \in Text
    <2>1. ">" \in Chars
      BY XmlBaseAssumption
    <2>2. QED
      BY <2>1 DEF Text
  <1> HIDE DEF tag, p, b, a, o
  <1>2. p \in Text /\ b \in Text /\ a \in Text /\ o \in Text
    BY DEF p, b, a, o
  <1>3. p \o b \in Text /\ a \o tag \in Text
    BY <1>1, <1>2, Joins
  <1>4. (a \o tag) \o o \in Text
    BY <1>2, <1>3, Joins
  <1>5. Regroups(p \o b, x, a, tag, o)
    BY <1>1, <1>2, <1>3, Regroup
  <1>6. QED
    BY <1>4, <1>5, Zenon DEF Regroups, Document, End, tag, p, b, a, o

\* Where the tag begins, where the attribute stands or would, and how far the
\* loop goes.
TagAt(r)   == Len(r.prolog)
AttrAt(r)  == Len(r.prolog) + Len(r.before)
ScanEnd(r) == AttrAt(r) + (IF r.old = {} THEN Len(r.after) ELSE Len(Literal))

\* Past the value of the attribute.
PastValue(r, v) == ScanEnd(r) + 3 + Len(v)

Mark == "\""
Quote == <<Mark>>
Opening == <<"=", Mark>>
Blank == <<" ">>
Close == <<">">>

\* The characters that are searched for, and the literal.
LEMMA TextFacts ==
    /\ Quote \in Text /\ Opening \in Text /\ Close \in Text /\ <<>> \in Text /\ Blank \in Text
    /\ Len(Quote) = 1 /\ Len(Opening) = 2 /\ Len(Close) = 1 /\ Len(<<>>) = 0
    /\ Quote[1] = Mark /\ Opening[1] = "=" /\ Opening[2] = Mark /\ Close[1] = ">"
    /\ Literal \in Text /\ Len(Literal) \in Nat \ {0}
  <1> DEFINE blank == " "
  <1>1. "=" \in Chars /\ Mark \in Chars /\ blank \in Chars /\ ">" \in Chars
    BY XmlBaseAssumption, Zenon DEF Mark
  <1> HIDE DEF blank
  <1>2. Quote \in Text /\ Opening \in Text /\ Close \in Text /\ Blank \in Text
    <2>1. ASSUME NEW c \in Chars, NEW e \in Chars
          PROVE  <<c>> \in Text /\ <<c, e>> \in Text
      BY DEF Text
    <2>2. Blank = <<blank>>
      BY DEF Blank, blank
    <2>3. QED
      BY <1>1, <2>1, <2>2 DEF Quote, Opening, Close
  <1>3. /\ Len(Quote) = 1 /\ Len(Opening) = 2 /\ Len(Close) = 1
        /\ Quote[1] = Mark /\ Opening[1] = "=" /\ Opening[2] = Mark /\ Close[1] = ">"
    BY DEF Quote, Opening, Close
  <1>4. <<>> \in Text /\ Len(<<>>) = 0 /\ Literal \in Text /\ Len(Literal) \in Nat \ {0}
    BY EmptySeq, XmlBaseAssumption DEF Text
  <1>5. QED
    BY <1>2, <1>3, <1>4

\* The parts of a stored response are strings; it has one value at most.
LEMMA ExpectedParts ==
    ASSUME NEW r, Expected(r)
    PROVE  /\ r.prolog \in Text /\ r.before \in Text /\ r.after \in Text /\ r.rest \in Text
           /\ r.old \subseteq Text
           /\ r.old = {} \/ \E v \in Text : r.old = {v}
  <1>1. /\ r.prolog \in Text /\ r.before \in Text /\ r.after \in Text /\ r.rest \in Text
        /\ r.old \subseteq Text
    BY DEF Expected, Text
  <1>2. \A u, w \in r.old : u = w
    BY DEF Expected
  <1>3. ASSUME NEW u \in r.old
        PROVE  u \in Text /\ r.old = {u}
    BY <1>1, <1>2
  <1>4. QED
    BY <1>1, <1>3

\* A document, whatever its attribute is.
LEMMA DocumentAt ==
    ASSUME NEW r, Expected(r), NEW x \in Text
    PROVE  /\ At(Document(r, x), 0, r.prolog)
           /\ At(Document(r, x), TagAt(r), r.before)
           /\ At(Document(r, x), AttrAt(r), x)
           /\ At(Document(r, x), AttrAt(r) + Len(x), End(r))
           /\ AttrAt(r) + Len(x) + Len(End(r)) = Len(Document(r, x))
           /\ TagAt(r) \in Nat /\ AttrAt(r) \in Nat /\ Len(x) \in Nat /\ Len(End(r)) \in Nat
  <1> DEFINE p == r.prolog
             b == r.before
             e == End(r)
  <1>1. p \in Text /\ b \in Text /\ e \in Text /\ Document(r, x) = (p \o b) \o (x \o e)
    BY ExpectedParts, DocumentParts
  <1> HIDE DEF p, b, e
  <1>2. p \o b \in Text /\ x \o e \in Text
    BY <1>1, AtHalves
  <1> DEFINE pb == p \o b
             y == x \o e
             d == Document(r, x)
             m == Len(p) + Len(b)
  <1>3. /\ At(pb, 0, p) /\ At(pb, Len(p), b) /\ Len(pb) = m
        /\ Len(p) \in Nat /\ Len(b) \in Nat
        /\ At(y, 0, x) /\ At(y, Len(x), e) /\ Len(y) = Len(x) + Len(e)
        /\ Len(x) \in Nat /\ Len(e) \in Nat
    BY <1>1, AtHalves
  <1>4. d = pb \o y /\ pb \in Text /\ y \in Text
    BY <1>1, <1>2
  <1> HIDE DEF pb, y, d
  <1>5. At(d, 0, pb) /\ At(d, m, y) /\ Len(d) = m + Len(y)
    <2>1. /\ At(pb \o y, 0, pb) /\ At(pb \o y, Len(pb), y)
          /\ Len(pb \o y) = Len(pb) + Len(y)
      BY <1>4, AtHalves
    <2>2. QED
      BY <1>3, <1>4, <2>1
  <1>6. At(d, 0 + 0, p) /\ At(d, 0 + Len(p), b) /\ At(d, m + 0, x) /\ At(d, m + Len(x), e)
    BY <1>3, <1>5, AtAt
  <1>7. /\ 0 + 0 = 0 /\ 0 + Len(p) = Len(p) /\ m + 0 = m /\ m \in Nat
        /\ m + Len(x) + Len(e) = Len(d)
    BY <1>3, <1>5
  <1>8. TagAt(r) = Len(p) /\ AttrAt(r) = m
    BY DEF TagAt, AttrAt, p, b
  <1>9. QED
    BY <1>3, <1>6, <1>7, <1>8 DEF p, b, e, d

\* What the loop meets in a response without the attribute.
LEMMA WithoutAttribute ==
    ASSUME NEW r, Expected(r), r.old = {}
    PROVE  /\ Stored(r) \in Text
           /\ At(Stored(r), 0, r.prolog) /\ At(Stored(r), TagAt(r), r.before)
           /\ At(Stored(r), AttrAt(r), r.after)
           /\ At(Stored(r), ScanEnd(r), Close \o r.rest)
           /\ At(Stored(r), ScanEnd(r), Close)
           /\ ScanEnd(r) + Len(Close \o r.rest) = Len(Stored(r))
  <1> DEFINE a == r.after
             o == Close \o r.rest
             d == Stored(r)
             m == AttrAt(r)
  <1>1. d = Document(r, <<>>)
    BY DEF Stored
  <1>2. /\ r.after \in Text /\ r.rest \in Text /\ o \in Text
        /\ At(o, 0, Close) /\ Len(a) \in Nat /\ Len(o) \in Nat
    BY ExpectedParts, TextFacts, AtHalves
  <1>3. End(r) = a \o o
    <2>1. Associates(r.after, Close, r.rest)
      BY <1>2, TextFacts, Associative
    <2>2. QED
      BY <2>1, Zenon DEF Associates, End, Close
  <1>4. /\ At(d, 0, r.prolog) /\ At(d, TagAt(r), r.before)
        /\ At(d, m + 0, End(r)) /\ m + 0 + Len(End(r)) = Len(d) /\ m \in Nat
    BY <1>1, TextFacts, DocumentAt
  <1> HIDE DEF a, o, d, m
  <1>5. At(a \o o, 0, a) /\ At(a \o o, Len(a), o) /\ Len(a \o o) = Len(a) + Len(o)
    BY <1>2, AtHalves DEF a
  <1>6. At(d, m, a \o o) /\ m + 0 = m
    BY <1>3, <1>4
  <1>7. At(d, m + 0, a) /\ At(d, m + Len(a), o)
    BY <1>5, <1>6, AtAt
  <1>8. At(d, m + Len(a) + 0, Close)
    BY <1>2, <1>7, AtAt
  <1>9. ScanEnd(r) = m + Len(a) /\ m + Len(a) + 0 = m + Len(a) /\ d \in Text
    BY <1>2, <1>4 DEF ScanEnd, m, a, At
  <1>10. m + Len(a) + Len(o) = Len(d)
    BY <1>2, <1>3, <1>4, <1>5
  <1>11. QED
    BY <1>4, <1>6, <1>7, <1>8, <1>9, <1>10 DEF d, m, a, o

\* And in one with it.
LEMMA WithAttribute ==
    ASSUME NEW r, Expected(r), NEW v, r.old = {v}
    PROVE  /\ Stored(r) \in Text /\ v \in Text
           /\ At(Stored(r), 0, r.prolog) /\ At(Stored(r), TagAt(r), r.before)
           /\ At(Stored(r), AttrAt(r), Literal)
           /\ At(Stored(r), ScanEnd(r), Opening)
           /\ At(Stored(r), ScanEnd(r) + 2, v)
           /\ At(Stored(r), ScanEnd(r) + 2 + Len(v), Quote)
           /\ At(Stored(r), PastValue(r, v), End(r))
           /\ PastValue(r, v) + Len(End(r)) = Len(Stored(r))
  <1> DEFINE q == Equals(v)
             x == Literal \o q
             d == Stored(r)
             m == AttrAt(r)
             l == Len(Literal)
             n == Len(v)
             ov == Opening \o v
  <1>1. v \in Text /\ n \in Nat /\ l \in Nat
    BY ExpectedParts, TextFacts, AtHalves
  <1>2. d = Document(r, x)
    <2>1. (CHOOSE w \in r.old : TRUE) = v /\ r.old # {}
      OBVIOUS
    <2>2. QED
      BY <2>1, Zenon DEF Stored
  <1>3. q = ov \o Quote
    BY Zenon DEF Equals, Opening, Quote, Mark
  <1>4. ov \in Text /\ At(ov, 0, Opening) /\ At(ov, 2, v) /\ Len(ov) = 2 + n
    <2>1. /\ Opening \o v \in Text /\ At(Opening \o v, 0, Opening)
          /\ At(Opening \o v, Len(Opening), v)
          /\ Len(Opening \o v) = Len(Opening) + Len(v)
      BY <1>1, TextFacts, AtHalves
    <2>2. QED
      BY <2>1, TextFacts
  <1> HIDE DEF ov, q, n, l
  <1>5. q \in Text /\ At(q, 0, ov) /\ At(q, 2 + n, Quote) /\ Len(q) = 2 + n + 1
    <2>1. Quote \in Text /\ Len(Quote) = 1
      BY TextFacts
    <2>2. /\ ov \o Quote \in Text /\ At(ov \o Quote, 0, ov) /\ At(ov \o Quote, Len(ov), Quote)
          /\ Len(ov \o Quote) = Len(ov) + Len(Quote)
      BY <1>4, <2>1, AtHalves
    <2>3. QED
      BY <1>3, <1>4, <2>1, <2>2
  <1>6. x \in Text /\ At(x, 0, Literal) /\ At(x, l, q) /\ Len(x) = l + Len(q)
    BY <1>5, TextFacts, AtHalves DEF l
  <1> HIDE DEF x, d, m
  <1>7. /\ At(d, 0, r.prolog) /\ At(d, TagAt(r), r.before)
        /\ At(d, m, x) /\ At(d, m + Len(x), End(r)) /\ m \in Nat
        /\ m + Len(x) + Len(End(r)) = Len(d)
    BY <1>2, <1>6, DocumentAt DEF m
  <1>8. At(d, m + 0, Literal) /\ At(d, m + l, q)
    BY <1>6, <1>7, AtAt
  <1>9. At(d, m + l + 0, ov) /\ At(d, m + l + (2 + n), Quote)
    BY <1>5, <1>8, AtAt
  <1>10. At(d, m + l + 0 + 0, Opening) /\ At(d, m + l + 0 + 2, v)
    BY <1>4, <1>9, AtAt
  <1>11. /\ ScanEnd(r) = m + l /\ PastValue(r, v) = m + l + 3 + n
    BY DEF ScanEnd, PastValue, m, l, n
  <1>12. /\ m + 0 = m /\ m + l + 0 + 0 = m + l /\ m + l + 0 + 2 = m + l + 2
         /\ m + l + (2 + n) = m + l + 2 + n /\ m + Len(x) = m + l + 3 + n
    <2>1. m \in Nat /\ l \in Nat /\ n \in Nat
      BY <1>1, <1>7 DEF n, l
    <2>2. Len(x) = l + (2 + n + 1)
      BY <1>5, <1>6
    <2>3. QED
      BY <2>1, <2>2
  <1>13. d \in Text
    BY <1>7 DEF At
  <1>14. QED
    BY <1>1, <1>7, <1>8, <1>9, <1>10, <1>11, <1>12, <1>13 DEF d, m, n

\* c is not among the characters of d from from to to.
Lacks(d, from, to, c) == \A k \in (from + 1)..to : d[k] # c

\* Nor is the literal.
NoMatch(d, from, to) ==
    \A a \in Nat : from <= a /\ a + Len(Literal) <= to =>
        \E k \in 1..Len(Literal) : d[a + k] # Literal[k]

\* What is not in a part is not in d, as far as the part goes.
LEMMA CharLacks ==
    ASSUME NEW d, NEW from, NEW x, At(d, from, x), NEW c, c \notin ToSet(x)
    PROVE  Lacks(d, from, from + Len(x), c)
  <1>1. /\ from \in Nat /\ Len(x) \in Nat /\ DOMAIN x = 1..Len(x)
        /\ \A k \in 1..Len(x) : d[from + k] = x[k]
    BY LenProperties DEF At, Text
  <1>2. \A k \in 1..Len(x) : x[k] # c
    BY <1>1 DEF ToSet
  <1>3. ASSUME NEW k \in (from + 1)..(from + Len(x))
        PROVE  d[k] # c
    <2>1. k - from \in 1..Len(x) /\ from + (k - from) = k
      BY <1>1
    <2>2. QED
      BY <1>1, <1>2, <2>1
  <1>4. QED
    BY <1>3 DEF Lacks

\* And no match begins and ends in a part that the literal is not in.
LEMMA LiteralLacks ==
    ASSUME NEW d, NEW from, NEW x, At(d, from, x), ~Occurs(Literal, x)
    PROVE  NoMatch(d, from, from + Len(x))
  <1> SUFFICES ASSUME NEW a \in Nat, from <= a, a + Len(Literal) <= from + Len(x)
               PROVE  \E k \in 1..Len(Literal) : d[a + k] # Literal[k]
    BY DEF NoMatch
  <1>1. /\ from \in Nat /\ Len(x) \in Nat /\ Len(Literal) \in Nat /\ DOMAIN Literal = 1..Len(Literal)
        /\ \A k \in 1..Len(x) : d[from + k] = x[k]
    BY LenProperties, TextFacts DEF At, Text
  <1>2. a - from \in 0..(Len(x) - Len(Literal))
    BY <1>1
  <1>3. PICK k \in 1..Len(Literal) : x[(a - from) + k] # Literal[k]
    BY <1>1, <1>2 DEF Occurs
  <1>4. (a - from) + k \in 1..Len(x) /\ from + ((a - from) + k) = a + k
    BY <1>1, <1>2
  <1>5. d[a + k] = x[(a - from) + k]
    BY <1>1, <1>4
  <1>6. QED
    BY <1>3, <1>5

\* Two parts without c, one after the other.
LEMMA LacksJoin ==
    ASSUME NEW d, NEW f \in Nat, NEW g \in Nat, NEW h \in Nat, NEW c,
           Lacks(d, f, g, c), Lacks(d, g, h, c)
    PROVE  Lacks(d, f, h, c)
  BY DEF Lacks

\* The prolog, and what precedes the attribute, in any response.
PrologFacts(r, d) ==
    /\ TagAt(r) \in Nat \ {0} /\ AttrAt(r) \in Nat /\ TagAt(r) < AttrAt(r)
    /\ d[TagAt(r)] = ">" /\ Lacks(d, 0, TagAt(r) - 1, ">")
    /\ Lacks(d, TagAt(r), AttrAt(r), ">")
    /\ \A k \in 1..Len(Literal) : d[AttrAt(r)] # Literal[k]
    /\ NoMatch(d, TagAt(r), AttrAt(r))
    /\ SubSeq(d, 1, TagAt(r)) = r.prolog

\* All of a string but its last character.
LEMMA FrontLacks ==
    ASSUME NEW p \in Text, p # <<>>, NEW c, c \notin ToSet(Front(p))
    PROVE  Lacks(p, 0, Len(p) - 1, c)
  <1> DEFINE t == Len(p)
             f == Front(p)
  <1>1. t \in Nat \ {0}
    BY EmptySeq DEF Text
  <1>2. \A k \in 1..(t - 1) : p[k] \in Chars
    <2>1. \A k \in 1..t : p[k] \in Chars
      BY ElementOfSeq DEF Text
    <2> HIDE DEF t
    <2>2. QED
      BY <1>1, <2>1
  <1> HIDE DEF t
  <1>3. /\ SubSeq(p, 1, t - 1) \in Seq(Chars)
        /\ Len(SubSeq(p, 1, t - 1)) = IF 1 <= t - 1 THEN (t - 1) - 1 + 1 ELSE 0
        /\ \A k \in 1..((t - 1) - 1 + 1) : SubSeq(p, 1, t - 1)[k] = p[1 + k - 1]
    BY <1>1, <1>2, SubSeqProperties
  <1>4. f = SubSeq(p, 1, t - 1)
    BY DEF Front, t
  <1> HIDE DEF f
  <1>5. /\ f \in Seq(Chars) /\ Len(f) = IF 1 <= t - 1 THEN (t - 1) - 1 + 1 ELSE 0
        /\ \A k \in 1..((t - 1) - 1 + 1) : f[k] = p[1 + k - 1]
    BY <1>3, <1>4
  <1>6. DOMAIN f = 1..Len(f) /\ Len(f) = t - 1
    BY <1>1, <1>5, LenProperties
  <1>7. \A k \in 1..(t - 1) : f[k] = p[k]
    BY <1>1, <1>5
  <1>8. \A k \in 1..(t - 1) : p[k] # c
    BY <1>6, <1>7 DEF f, ToSet
  <1>9. QED
    BY <1>8 DEF Lacks, t

\* What stands before the attribute.
LEMMA BeforeFacts ==
    ASSUME NEW r, Expected(r), NEW d, At(d, 0, r.prolog), At(d, TagAt(r), r.before)
    PROVE  PrologFacts(r, d)
  <1> DEFINE p == r.prolog
             b == r.before
             t == TagAt(r)
             m == AttrAt(r)
             n == Len(b)
  <1>1. /\ p \in Text /\ b \in Text /\ p # <<>> /\ b # <<>>
        /\ Last(p) = ">" /\ ">" \notin ToSet(Front(p)) /\ Last(b) \notin ToSet(Literal)
        /\ ">" \notin ToSet(b) /\ ~Occurs(Literal, b)
    BY ExpectedParts DEF Expected
  <1> HIDE DEF p, b
  <1>2. /\ t = Len(p) /\ m = t + n
    BY DEF TagAt, AttrAt, p, b
  <1>3. At(d, 0, p) /\ At(d, t, b)
    BY DEF p, b
  <1>4. t \in Nat \ {0} /\ n \in Nat \ {0}
    BY <1>1, <1>2, EmptySeq DEF Text
  <1> HIDE DEF t, m, n
  <1>5. d[t] = ">" /\ Lacks(d, 0, t - 1, ">")
    <2>1. \A k \in 1..t : d[k] = p[k]
      BY <1>2, <1>3, <1>4 DEF At
    <2>2. p[t] = ">"
      BY <1>1, <1>2 DEF Last
    <2>3. Lacks(p, 0, t - 1, ">")
      BY <1>1, <1>2, FrontLacks
    <2>4. ASSUME NEW k \in 1..(t - 1)
          PROVE  d[k] # ">"
      <3>1. k \in 1..t /\ k \in (0 + 1)..(t - 1)
        BY <1>4
      <3>2. QED
        BY <2>1, <2>3, <3>1 DEF Lacks
    <2>5. t \in 1..t
      BY <1>4
    <2>6. QED
      BY <2>1, <2>2, <2>4, <2>5 DEF Lacks
  <1>6. Lacks(d, t, m, ">")
    BY <1>1, <1>2, <1>3, CharLacks DEF n
  <1>7. \A k \in 1..Len(Literal) : d[m] # Literal[k]
    <2>1. d[t + n] = b[n]
      BY <1>3, <1>4 DEF At, n
    <2>2. DOMAIN Literal = 1..Len(Literal)
      BY TextFacts, LenProperties DEF Text
    <2>3. b[n] \notin ToSet(Literal)
      BY <1>1 DEF Last, n
    <2>4. QED
      BY <1>2, <2>1, <2>2, <2>3 DEF ToSet
  <1>8. NoMatch(d, t, m)
    BY <1>1, <1>2, <1>3, LiteralLacks DEF n
  <1>9. m \in Nat /\ t < m
    BY <1>2, <1>4
  <1>10. SubSeq(d, 1, t) = p
    <2>1. SubSeq(d, 0 + 1, 0 + Len(p)) = p
      BY <1>3, AtIsPart
    <2>2. t = Len(p) /\ 0 + 1 = 1 /\ 0 + t = t
      BY <1>2, <1>4
    <2>3. QED
      BY <2>1, <2>2
  <1>11. QED
    BY <1>4, <1>5, <1>6, <1>7, <1>8, <1>9, <1>10 DEF PrologFacts, t, m, p

\* What the scan meets before its end.
ScanFacts(r, d) ==
    /\ PrologFacts(r, d)
    /\ d \in Text
    /\ Lacks(d, TagAt(r), ScanEnd(r), ">")
    /\ ScanEnd(r) \in Nat /\ AttrAt(r) <= ScanEnd(r)

\* At its end: the end of the tag, or the attribute's value.
FactsWithout(r, d) ==
    /\ d[ScanEnd(r) + 1] = ">" /\ ScanEnd(r) + 1 <= Len(d)
    /\ NoMatch(d, AttrAt(r), ScanEnd(r))
    /\ SubSeq(d, TagAt(r) + 1, ScanEnd(r)) = r.before \o r.after
    /\ SubSeq(d, ScanEnd(r) + 1, Len(d)) = Close \o r.rest

FactsWith(r, d, v) ==
    /\ ScanEnd(r) = AttrAt(r) + Len(Literal)
    /\ \A k \in 1..Len(Literal) : d[AttrAt(r) + k] = Literal[k]
    /\ d[ScanEnd(r) + 1] = "=" /\ d[ScanEnd(r) + 2] = Mark
    /\ Lacks(d, ScanEnd(r) + 2, PastValue(r, v) - 1, Mark)
    /\ d[PastValue(r, v)] = Mark
    /\ PastValue(r, v) \in Nat /\ ScanEnd(r) + 3 <= PastValue(r, v) /\ PastValue(r, v) <= Len(d)
    /\ SubSeq(d, TagAt(r) + 1, ScanEnd(r)) = r.before \o Literal
    /\ SubSeq(d, PastValue(r, v) + 1, Len(d)) = End(r)

PartJoins(w, from, x, y) == SubSeq(w, from + 1, from + Len(x) + Len(y)) = x \o y

\* What two parts, one after the other, are together.
LEMMA JoinIsPart ==
    ASSUME NEW w, NEW from, NEW x, NEW y, At(w, from, x), At(w, from + Len(x), y)
    PROVE  PartJoins(w, from, x, y)
  <1>1. /\ At(w, from, x \o y) /\ Len(x \o y) = Len(x) + Len(y)
        /\ Len(x) \in Nat /\ Len(y) \in Nat /\ from \in Nat
    <2>1. x \in Text /\ y \in Text /\ from \in Nat
      BY DEF At
    <2>2. QED
      BY <2>1, AtJoin, AtHalves
  <1>2. SubSeq(w, from + 1, from + Len(x \o y)) = x \o y
    BY <1>1, AtIsPart
  <1>3. from + Len(x \o y) = from + Len(x) + Len(y)
    BY <1>1
  <1>4. QED
    BY <1>2, <1>3 DEF PartJoins

\* The facts about the scan hold of a response without the attribute,
LEMMA ScanWithout ==
    ASSUME NEW r, Expected(r), r.old = {}
    PROVE  ScanFacts(r, Stored(r)) /\ FactsWithout(r, Stored(r))
  <1> DEFINE d == Stored(r)
             t == TagAt(r)
             m == AttrAt(r)
             e == ScanEnd(r)
             a == r.after
             b == r.before
  <1>1. /\ d \in Text /\ At(d, 0, r.prolog) /\ At(d, t, b)
        /\ At(d, m, a) /\ At(d, e, Close \o r.rest) /\ At(d, e, Close)
        /\ e + Len(Close \o r.rest) = Len(d)
    BY WithoutAttribute
  <1> HIDE DEF d
  <1>2. PrologFacts(r, d)
    BY <1>1, BeforeFacts
  <1>3. /\ e = m + Len(a) /\ m = t + Len(b)
    BY DEF ScanEnd, AttrAt, TagAt
  <1>4. ">" \notin ToSet(a) /\ ~Occurs(Literal, a)
    BY DEF Expected
  <1>5. Len(a) \in Nat
    BY <1>1, LenProperties DEF At, Text
  <1>6. t \in Nat /\ m \in Nat /\ Lacks(d, t, m, ">")
    BY <1>2 DEF PrologFacts
  <1> HIDE DEF t, m, e, a, b
  <1>7. Lacks(d, m, e, ">")
    BY <1>1, <1>3, <1>4, CharLacks
  <1>8. NoMatch(d, m, e)
    BY <1>1, <1>3, <1>4, LiteralLacks
  <1>9. e \in Nat /\ m <= e
    BY <1>3, <1>5, <1>6
  <1>10. Lacks(d, t, e, ">")
    BY <1>6, <1>7, <1>9, LacksJoin
  <1>11. d[e + 1] = ">" /\ e + 1 <= Len(d)
    <2>1. 1 \in 1..Len(Close) /\ Close[1] = ">"
      BY TextFacts
    <2>2. At(d, e, Close)
      BY <1>1
    <2>3. QED
      BY <2>1, <2>2, AtOne
  <1>12. SubSeq(d, t + 1, e) = b \o a
    <2>1. At(d, t, b) /\ At(d, t + Len(b), a) /\ e = t + Len(b) + Len(a)
      BY <1>1, <1>3, Zenon
    <2>2. PartJoins(d, t, b, a)
      BY <2>1, JoinIsPart, Zenon
    <2>3. QED
      BY <2>1, <2>2, Zenon DEF PartJoins
  <1>13. SubSeq(d, e + 1, Len(d)) = Close \o r.rest
    <2>1. At(d, e, Close \o r.rest) /\ e + Len(Close \o r.rest) = Len(d)
      BY <1>1
    <2>2. SubSeq(d, e + 1, e + Len(Close \o r.rest)) = Close \o r.rest
      BY <2>1, AtIsPart, Zenon
    <2>3. QED
      BY <2>1, <2>2, Zenon
  <1>14. ScanFacts(r, d)
    BY <1>1, <1>2, <1>9, <1>10 DEF ScanFacts, t, m, e
  <1>15. FactsWithout(r, d)
    BY <1>8, <1>11, <1>12, <1>13 DEF FactsWithout, t, m, e, a, b
  <1>16. QED
    BY <1>14, <1>15 DEF d

\* and of one with it.
LEMMA ScanWith ==
    ASSUME NEW r, Expected(r), NEW v, r.old = {v}
    PROVE  ScanFacts(r, Stored(r)) /\ FactsWith(r, Stored(r), v)
  <1> DEFINE d == Stored(r)
             t == TagAt(r)
             m == AttrAt(r)
             e == ScanEnd(r)
             b == r.before
             x == PastValue(r, v)
             l == Len(Literal)
             n == Len(v)
  <1>1. /\ d \in Text /\ At(d, 0, r.prolog) /\ At(d, t, b)
        /\ At(d, m, Literal) /\ At(d, e, Opening) /\ At(d, e + 2, v)
        /\ At(d, e + 2 + n, Quote) /\ At(d, x, End(r)) /\ x + Len(End(r)) = Len(d)
    BY WithAttribute
  <1> HIDE DEF d
  <1>2. PrologFacts(r, d)
    BY <1>1, BeforeFacts
  <1>3. e = m + l /\ x = e + 3 + n /\ m = t + Len(b)
    BY DEF ScanEnd, PastValue, AttrAt, TagAt
  <1>4. ">" \notin ToSet(Literal) /\ Mark \notin ToSet(v)
    <2>1. v \in r.old
      OBVIOUS
    <2>2. QED
      BY <2>1, XmlBaseAssumption, Zenon DEF Expected, Mark
  <1>5. l \in Nat /\ n \in Nat /\ Len(End(r)) \in Nat
    BY <1>1, LenProperties DEF At, Text
  <1>6. t \in Nat /\ m \in Nat /\ Lacks(d, t, m, ">")
    BY <1>2 DEF PrologFacts
  <1> HIDE DEF t, m, e, x, b
  <1>7. Lacks(d, m, m + l, ">")
    BY <1>1, <1>4, CharLacks
  <1>8. Lacks(d, e + 2, e + 2 + n, Mark)
    BY <1>1, <1>4, CharLacks
  <1>9. d[e + 1] = "=" /\ d[e + 2] = Mark /\ d[e + 2 + n + 1] = Mark
    <2>1. /\ 1 \in 1..Len(Opening) /\ 2 \in 1..Len(Opening) /\ 1 \in 1..Len(Quote)
          /\ Opening[1] = "=" /\ Opening[2] = Mark /\ Quote[1] = Mark
      BY TextFacts
    <2> HIDE DEF n
    <2>2. At(d, e, Opening) /\ At(d, e + 2 + n, Quote)
      BY <1>1 DEF n
    <2>3. d[e + 1] = "=" /\ d[e + 2] = Mark
      BY <2>1, <2>2, AtOne
    <2>4. d[e + 2 + n + 1] = Mark
      BY <2>1, <2>2, AtOne
    <2>5. QED
      BY <2>3, <2>4
  <1>10. SubSeq(d, t + 1, e) = b \o Literal
    <2>1. At(d, t, b) /\ At(d, t + Len(b), Literal) /\ e = t + Len(b) + Len(Literal)
      BY <1>1, <1>3, Zenon
    <2>2. PartJoins(d, t, b, Literal)
      BY <2>1, JoinIsPart, Zenon
    <2>3. QED
      BY <2>1, <2>2, Zenon DEF PartJoins
  <1>11. SubSeq(d, x + 1, Len(d)) = End(r)
    <2>1. At(d, x, End(r)) /\ x + Len(End(r)) = Len(d)
      BY <1>1
    <2>2. SubSeq(d, x + 1, x + Len(End(r))) = End(r)
      BY <2>1, AtIsPart, Zenon
    <2>3. QED
      BY <2>1, <2>2, Zenon
  <1>12. \A k \in 1..l : d[m + k] = Literal[k]
    BY <1>1, AtOne
  <1> DEFINE z == Len(End(r))
  <1> HIDE DEF l, n, z
  <1>13. e \in Nat /\ m <= e /\ x \in Nat /\ e + 3 <= x /\ e + 2 + n = x - 1 /\ e + 2 + n + 1 = x
    BY <1>3, <1>5, <1>6
  <1>14. x <= Len(d)
    <2>1. x + z = Len(d) /\ z \in Nat
      BY <1>1, <1>5 DEF z
    <2>2. QED
      BY <1>13, <2>1
  <1>15. Lacks(d, t, e, ">")
    BY <1>3, <1>6, <1>7, <1>13, LacksJoin
  <1>16. Lacks(d, e + 2, x - 1, Mark) /\ d[x] = Mark
    BY <1>8, <1>9, <1>13
  <1>17. ScanFacts(r, d)
    BY <1>1, <1>2, <1>13, <1>15 DEF ScanFacts, t, m, e
  <1>18. FactsWith(r, d, v)
    BY <1>3, <1>9, <1>10, <1>11, <1>12, <1>13, <1>14, <1>16 DEF FactsWith, t, m, e, l, x, b
  <1>19. QED
    BY <1>17, <1>18 DEF d
-----------------------------------------------------------------------------

\* What was read of the response.
LEMMA BytesReadFacts ==
    ASSUME Stored(response) \in Text
    PROVE  /\ BytesRead \in Nat /\ BytesRead <= Len(Stored(response))
           /\ \A k \in Nat : k <= Buffer /\ k <= Len(Stored(response)) => k <= BytesRead
  <1> DEFINE d == Stored(response)
             n == Len(d)
             sizes == {Buffer, n}
  <1>1. n \in Nat /\ Buffer \in Nat
    BY LenProperties, XmlBaseAssumption DEF Text
  <1>2. BytesRead = Min(sizes)
    BY DEF BytesRead
  <1> HIDE DEF n
  <1>3. sizes \in SUBSET Nat /\ sizes # {}
    BY <1>1
  <1> HIDE DEF sizes
  <1>4. Min(sizes) \in sizes /\ \A x \in sizes : Min(sizes) <= x
    BY <1>3, MinIsLeast
  <1>5. QED
    BY <1>1, <1>2, <1>4 DEF sizes, n

\* A subsequence, by the bytes before it.
LEMMA PartFacts ==
    ASSUME NEW d \in Text, NEW f \in Nat, NEW g \in Nat, f <= g, g <= Len(d)
    PROVE  /\ SubSeq(d, f + 1, g) \in Text /\ Len(SubSeq(d, f + 1, g)) = g - f
           /\ \A k \in 1..(g - f) : SubSeq(d, f + 1, g)[k] = d[f + k]
  <1>1. Len(d) \in Nat
    BY LenProperties DEF Text
  <1>2. ASSUME NEW k \in (f + 1)..g
        PROVE  d[k] \in Chars
    <2>1. k \in 1..Len(d)
      BY <1>1
    <2>2. QED
      BY <2>1, ElementOfSeq DEF Text
  <1> DEFINE p == SubSeq(d, f + 1, g)
  <1>3. /\ p \in Text
        /\ Len(p) = IF f + 1 <= g THEN g - (f + 1) + 1 ELSE 0
        /\ \A k \in 1..(g - (f + 1) + 1) : p[k] = d[(f + 1) + k - 1]
    BY <1>2, SubSeqProperties DEF Text
  <1> HIDE DEF p
  <1>4. \A k \in 1..(g - f) : (f + 1) + k - 1 = f + k
    OBVIOUS
  <1>5. Len(p) = g - f /\ g - (f + 1) + 1 = g - f
    BY <1>3
  <1>6. QED
    BY <1>3, <1>4, <1>5 DEF p

\* The buffer holds the first bytes of the response.
LEMMA BufFacts ==
    ASSUME Stored(response) \in Text
    PROVE  /\ Buf \in Text /\ Len(Buf) = BytesRead
           /\ \A k \in 1..BytesRead : Buf[k] = Stored(response)[k]
  <1> DEFINE d == Stored(response)
             n == BytesRead
  <1>1. n \in Nat /\ n <= Len(d) /\ 0 <= n /\ d \in Text
    BY BytesReadFacts
  <1>2. Buf = SubSeq(d, 1, n)
    BY DEF Buf
  <1> HIDE DEF d, n
  <1>3. /\ SubSeq(d, 0 + 1, n) \in Text /\ Len(SubSeq(d, 0 + 1, n)) = n - 0
        /\ \A k \in 1..(n - 0) : SubSeq(d, 0 + 1, n)[k] = d[0 + k]
    BY <1>1, PartFacts
  <1>4. n - 0 = n /\ 0 + 1 = 1 /\ \A k \in 1..n : 0 + k = k
    BY <1>1
  <1>5. QED
    BY <1>2, <1>3, <1>4 DEF d, n

\* What is written from the buffer is a part of the response.
LEMMA PieceIsPart ==
    ASSUME Stored(response) \in Text, NEW f \in Nat, NEW g \in Nat, f <= g, g <= BytesRead
    PROVE  Piece(f, g) = SubSeq(Stored(response), f + 1, g)
  <1> DEFINE d == Stored(response)
             n == BytesRead
             p == SubSeq(Buf, f + 1, g)
             q == SubSeq(d, f + 1, g)
  <1>1. /\ Buf \in Text /\ d \in Text /\ Len(Buf) = n /\ n \in Nat /\ n <= Len(d) /\ g <= n
        /\ \A k \in 1..n : Buf[k] = d[k]
    BY BytesReadFacts, BufFacts
  <1>2. g <= Len(d) /\ g <= Len(Buf)
    <2>1. Len(d) \in Nat
      BY LenProperties DEF Text
    <2> HIDE DEF n, d
    <2>2. QED
      BY <1>1, <2>1
  <1> HIDE DEF d, n
  <1>3. /\ p \in Text /\ Len(p) = g - f /\ \A k \in 1..(g - f) : p[k] = Buf[f + k]
        /\ q \in Text /\ Len(q) = g - f /\ \A k \in 1..(g - f) : q[k] = d[f + k]
    BY <1>1, <1>2, PartFacts
  <1> HIDE DEF p, q
  <1>4. \A k \in 1..(g - f) : p[k] = q[k]
    <2>1. \A k \in 1..(g - f) : f + k \in 1..n
      BY <1>1
    <2>2. QED
      BY <1>1, <1>3, <2>1
  <1>5. p = q
    BY <1>3, <1>4, SeqEqual DEF Text
  <1>6. QED
    BY <1>5 DEF Piece, p, q, d

\* What was left of the buffer and the rest of the file.
LEMMA PartsJoin ==
    ASSUME NEW d \in Text, NEW f \in Nat, NEW g \in Nat, f <= g, g <= Len(d)
    PROVE  SubSeq(d, f + 1, g) \o SubSeq(d, g + 1, Len(d)) = SubSeq(d, f + 1, Len(d))
  <1> DEFINE n == Len(d)
             m == f + 1
  <1>1. n \in Nat /\ g <= n
    BY LenProperties DEF Text
  <1> HIDE DEF n
  <1>2. m \in 1..n + 1 /\ g \in m - 1..n /\ n \in g..n
    BY <1>1
  <1> HIDE DEF m
  <1>3. SubSeq(d, m, g) \o SubSeq(d, g + 1, n) = SubSeq(d, m, n)
    BY <1>2, ConcatAdjacentSubSeq DEF Text, n
  <1>4. QED
    BY <1>3 DEF m, n

\* A loop of insert_xml_base() stops past the first c.
Finds(from, c, k) == After(from, c) = {k}

\* It does, when what was read has one.
LEMMA AfterFirst ==
    ASSUME Stored(response) \in Text, NEW from \in Nat, NEW c, NEW k \in Nat,
           from < k, k <= BytesRead, Lacks(Stored(response), from, k - 1, c),
           Stored(response)[k] = c
    PROVE  Finds(from, c, k)
  <1> DEFINE d == Stored(response)
             n == BytesRead
             at == {l \in from..(n - 1) : Buf[l + 1] = c}
  <1>1. n \in Nat /\ \A l \in 1..n : Buf[l] = d[l]
    BY BytesReadFacts, BufFacts
  <1>2. k <= n /\ Lacks(d, from, k - 1, c) /\ d[k] = c
    OBVIOUS
  <1>3. After(from, c) = IF at = {} THEN {} ELSE {Min(at) + 1}
    BY DEF After
  <1> HIDE DEF d, n
  <1>4. k - 1 \in at
    <2>1. k - 1 \in from..(n - 1) /\ (k - 1) + 1 = k /\ k \in 1..n
      BY <1>1, <1>2
    <2>2. QED
      BY <1>1, <1>2, <2>1
  <1>5. at \in SUBSET Nat
    BY <1>1
  <1>6. ASSUME NEW l \in at
        PROVE  l >= k - 1
    <2>1. l \in from..(n - 1) /\ d[l + 1] = c
      BY <1>1
    <2>2. l + 1 \notin (from + 1)..(k - 1)
      BY <1>2, <2>1 DEF Lacks
    <2>3. QED
      BY <1>1, <2>1, <2>2
  <1> HIDE DEF at
  <1>7. Min(at) \in at /\ Min(at) <= k - 1
    BY <1>4, <1>5, MinIsLeast
  <1>8. Min(at) = k - 1
    <2>1. Min(at) \in Nat /\ Min(at) >= k - 1
      BY <1>5, <1>6, <1>7
    <2>2. QED
      BY <1>7, <2>1
  <1>9. After(from, c) = {Min(at) + 1} /\ (k - 1) + 1 = k
    BY <1>3, <1>4
  <1>10. QED
    BY <1>8, <1>9 DEF Finds

\* A response whose tag is all there is of it, as in TagFits.
Tag(r) == [r EXCEPT !.rest = <<>>, !.after = IF r.old = {} THEN @ ELSE <<>>]

\* The tag alone is a response of that kind too.
LEMMA TagParts ==
    ASSUME NEW r, Expected(r)
    PROVE  /\ Expected(Tag(r)) /\ Tag(r).old = r.old
           /\ ScanEnd(Tag(r)) = ScanEnd(r) /\ \A v : PastValue(Tag(r), v) = PastValue(r, v)
           /\ Tag(r).rest = <<>> /\ (r.old # {} => Tag(r).after = <<>>)
  <1> DEFINE u == Tag(r)
             o == r.old
             none == o = {}
  <1>1. r \in [prolog : Text, before : Text, old : SUBSET Text, after : Text, rest : Text]
    BY DEF Expected, Text
  <1>2. <<>> \in Text
    BY TextFacts
  <1>3. /\ u \in [prolog : Text, before : Text, old : SUBSET Text, after : Text, rest : Text]
        /\ u.prolog = r.prolog /\ u.before = r.before /\ u.old = o /\ u.rest = <<>>
        /\ u.after = IF o = {} THEN r.after ELSE <<>>
    BY <1>1, <1>2 DEF Tag
  <1> HIDE DEF u
  <1>4. Expected(u)
    <2>1. /\ r.prolog # <<>> /\ Last(r.prolog) = ">" /\ ">" \notin ToSet(Front(r.prolog))
          /\ r.before # <<>> /\ Last(r.before) \notin ToSet(Literal)
          /\ \A x \in {r.before} \cup (IF o = {} THEN {r.after} ELSE {}) :
                ">" \notin ToSet(x) /\ ~Occurs(Literal, x)
          /\ \A x, y \in o : x = y /\ "\"" \notin ToSet(x)
      BY Zenon DEF Expected
    <2>2. /\ u.prolog # <<>> /\ Last(u.prolog) = ">" /\ ">" \notin ToSet(Front(u.prolog))
          /\ u.before # <<>> /\ Last(u.before) \notin ToSet(Literal)
      BY <1>3, <2>1, Zenon
    <2>3. \A x \in {u.before} \cup (IF u.old = {} THEN {u.after} ELSE {}) :
                ">" \notin ToSet(x) /\ ~Occurs(Literal, x)
      BY <1>3, <2>1, Zenon
    <2>4. \A x, y \in u.old : x = y /\ "\"" \notin ToSet(x)
      BY <1>3, <2>1, Zenon
    <2>5. QED
      BY <1>3, <2>2, <2>3, <2>4, Zenon DEF Expected, Text
  <1>5. AttrAt(u) = AttrAt(r)
    BY <1>3, Zenon DEF AttrAt
  <1>6. ScanEnd(u) = ScanEnd(r)
    <2>1. CASE o = {}
      BY <1>3, <1>5, <2>1, Zenon DEF ScanEnd
    <2>2. CASE o # {}
      BY <1>3, <1>5, <2>2, Zenon DEF ScanEnd
    <2>3. QED
      BY <2>1, <2>2
  <1>7. \A v : PastValue(u, v) = PastValue(r, v)
    BY <1>6, Zenon DEF PastValue
  <1>8. QED
    BY <1>3, <1>4, <1>6, <1>7 DEF u

\* The tag lies in what was read.
LEMMA TagIsRead ==
    ASSUME Expected(response), TagFits
    PROVE  /\ response.old = {} => ScanEnd(response) + 1 <= BytesRead
           /\ \A v : response.old = {v} => PastValue(response, v) <= BytesRead
  <1> DEFINE r == response
             u == Tag(r)
             w == Stored(u)
             d == Stored(r)
             e == ScanEnd(r)
  <1>1. /\ Expected(u) /\ u.old = r.old /\ ScanEnd(u) = e
        /\ \A v : PastValue(u, v) = PastValue(r, v)
        /\ u.rest = <<>> /\ (r.old # {} => u.after = <<>>)
    BY TagParts
  <1>2. Len(w) - (IF r.old = {} THEN 0 ELSE 1) <= Buffer
    BY Zenon DEF TagFits, Tag
  <1>3. Buffer \in Nat
    BY XmlBaseAssumption
  <1>4. Len(Close \o <<>>) = 1 /\ Len(<<>> \o Close) = 1 /\ Len((<<>> \o Close) \o <<>>) = 1
    <2>1. Close \in Text /\ <<>> \in Text /\ Len(Close) = 1 /\ Len(<<>>) = 0
      BY TextFacts
    <2>2. /\ Len(Close \o <<>>) = Len(Close) + Len(<<>>)
          /\ <<>> \o Close \in Text /\ Len(<<>> \o Close) = Len(<<>>) + Len(Close)
      BY <2>1, Joins
    <2>3. Len((<<>> \o Close) \o <<>>) = Len(<<>> \o Close) + Len(<<>>)
      BY <2>1, <2>2, Joins
    <2>4. QED
      BY <2>1, <2>2, <2>3
  <1>5. ASSUME r.old = {}
        PROVE  e + 1 <= BytesRead
    <2>1. e + Len(Close \o u.rest) = Len(w)
      BY <1>1, <1>5, WithoutAttribute
    <2>2. Len(w) = e + 1
      BY <1>1, <1>4, <2>1
    <2>3. ScanFacts(r, d) /\ FactsWithout(r, d)
      BY <1>5, ScanWithout
    <2>4. d \in Text /\ e \in Nat /\ e + 1 <= Len(d)
      BY <2>3 DEF ScanFacts, FactsWithout
    <2>5. \A k \in Nat : k <= Buffer /\ k <= Len(d) => k <= BytesRead
      BY <2>4, BytesReadFacts
    <2> HIDE DEF e, w, d, r
    <2>6. e + 1 \in Nat /\ e + 1 <= Buffer
      BY <1>2, <1>3, <1>5, <2>2, <2>4
    <2>7. QED
      BY <2>4, <2>5, <2>6
  <1>6. ASSUME NEW v, r.old = {v}
        PROVE  PastValue(r, v) <= BytesRead
    <2> DEFINE x == PastValue(r, v)
    <2>1. PastValue(u, v) + Len(End(u)) = Len(w)
      BY <1>1, <1>6, WithAttribute
    <2>2. r.old # {}
      BY <1>6
    <2>3. End(u) = (<<>> \o Close) \o <<>>
      BY <1>1, <2>2, Zenon DEF End, Close
    <2>4. Len(w) = x + 1
      BY <1>1, <1>4, <2>1, <2>3
    <2>5. ScanFacts(r, d) /\ FactsWith(r, d, v)
      BY <1>6, ScanWith
    <2>6. d \in Text /\ x \in Nat /\ x <= Len(d)
      BY <2>5 DEF ScanFacts, FactsWith
    <2>7. \A k \in Nat : k <= Buffer /\ k <= Len(d) => k <= BytesRead
      BY <2>6, BytesReadFacts
    <2> HIDE DEF x, w, d, r
    <2>8. x <= Buffer
      BY <1>2, <1>3, <2>2, <2>4, <2>6
    <2>9. QED
      BY <2>6, <2>7, <2>8 DEF x
  <1>7. QED
    BY <1>5, <1>6

\* What is to be sent, as in BaseOfContextSent.
Want(r, v) ==
    IF r.old # {} THEN Document(r, Literal \o Equals(v))
    ELSE Document([r EXCEPT !.before = @ \o r.after, !.after = <<>>],
                  <<" ">> \o Literal \o Equals(v))

\* The value in its quotes is a string.
LEMMA EqualsText ==
    ASSUME NEW v \in Text
    PROVE  Equals(v) \in Text
  <1>1. Equals(v) = (Opening \o v) \o Quote
    BY Zenon DEF Equals, Opening, Quote, Mark
  <1>2. Opening \o v \in Text
    BY TextFacts, Joins
  <1>3. (Opening \o v) \o Quote \in Text
    BY <1>2, TextFacts, Joins
  <1>4. QED
    BY <1>1, <1>3

\* A new value, sent after the prolog and the tag up to the value.
LEMMA ValueReplaced ==
    ASSUME NEW r, Expected(r), r.old # {}, NEW v \in Text
    PROVE  /\ (((r.prolog \o (r.before \o Literal)) \o Equals(v)) \o End(r)) = Want(r, v)
           /\ (r.prolog \o (r.before \o Literal)) \o Equals(v) \in Text
  <1> DEFINE p == r.prolog
             b == r.before
             q == Equals(v)
             e == End(r)
             x == Literal \o q
  <1>1. /\ p \in Text /\ b \in Text /\ q \in Text /\ Literal \in Text
        /\ r.after \in Text /\ r.rest \in Text
    BY ExpectedParts, EqualsText, TextFacts
  <1>2. x \in Text
    BY <1>1, Joins
  <1>3. Document(r, x) = (p \o b) \o (x \o e) /\ e \in Text
    BY <1>1, <1>2, DocumentParts
  <1>4. Want(r, v) = Document(r, x)
    BY Zenon DEF Want
  <1> HIDE DEF p, b, q, e
  <1>5. p \o b \in Text /\ b \o Literal \in Text
    BY <1>1, Joins
  <1>6. p \o (b \o Literal) \in Text /\ (p \o b) \o Literal \in Text
    BY <1>1, <1>5, Joins
  <1>7. (p \o (b \o Literal)) \o q \in Text
    BY <1>1, <1>6, Joins
  <1>8. Associates(p, b, Literal) /\ Associates(p \o b, Literal, q) /\ Associates(p \o b, x, e)
    BY <1>1, <1>2, <1>3, <1>5, Associative
  <1>9. ((p \o (b \o Literal)) \o q) \o e = (p \o b) \o (x \o e)
    BY <1>8, Zenon DEF Associates
  <1>10. QED
    BY <1>3, <1>4, <1>7, <1>9 DEF p, b, q, e

\* An attribute, sent after the prolog and the tag.
LEMMA AttributeAdded ==
    ASSUME NEW r, Expected(r), r.old = {}, NEW v \in Text
    PROVE  /\ ((((r.prolog \o (r.before \o r.after)) \o <<" ">>) \o Literal) \o Equals(v))
                  \o (Close \o r.rest) = Want(r, v)
           /\ (((r.prolog \o (r.before \o r.after)) \o <<" ">>) \o Literal) \o Equals(v) \in Text
  <1> DEFINE p == r.prolog
             b == r.before \o r.after
             q == Equals(v)
             y == Blank \o Literal
             x == y \o q
             o == Close \o r.rest
             u == [r EXCEPT !.before = b, !.after = <<>>]
  <1>1. /\ p \in Text /\ q \in Text /\ Literal \in Text /\ Blank \in Text /\ Close \in Text
        /\ r.before \in Text /\ r.after \in Text /\ r.rest \in Text /\ <<>> \in Text
    BY ExpectedParts, EqualsText, TextFacts
  <1>2. b \in Text /\ y \in Text /\ o \in Text
    BY <1>1, Joins
  <1>3. x \in Text
    BY <1>1, <1>2, Joins
  <1>4. u.prolog = p /\ u.before = b /\ u.after = <<>> /\ u.rest = r.rest
    <2>1. r \in [prolog : Text, before : Text, old : SUBSET Text, after : Text, rest : Text]
      BY DEF Expected, Text
    <2> HIDE DEF b
    <2>2. QED
      BY <2>1
  <1>5. Want(r, v) = Document(u, x)
    BY Zenon DEF Want, Blank
  <1> HIDE DEF u, b, q, x, y, p
  <1>6. Document(u, x) = (p \o b) \o (x \o End(u))
    BY <1>1, <1>2, <1>3, <1>4, DocumentParts
  <1>7. End(u) = o
    <2>1. End(u) = (<<>> \o Close) \o r.rest
      BY <1>4, Zenon DEF End, Close
    <2>2. <<>> \o Close = Close
      BY <1>1, ConcatEmptySeq DEF Text
    <2>3. QED
      BY <2>1, <2>2
  <1> DEFINE w == p \o b
  <1>8. w \in Text
    BY <1>1, <1>2, Joins
  <1> HIDE DEF o, w
  <1>9. w \o Blank \in Text /\ w \o y \in Text
    BY <1>1, <1>2, <1>8, Joins
  <1>10. (w \o Blank) \o Literal \in Text
    BY <1>1, <1>9, Joins
  <1>11. ((w \o Blank) \o Literal) \o q \in Text
    BY <1>1, <1>10, Joins
  <1>12. Associates(w, Blank, Literal) /\ Associates(w, y, q) /\ Associates(w, x, o)
    BY <1>1, <1>2, <1>3, <1>8, Associative
  <1>13. (((w \o Blank) \o Literal) \o q) \o o = w \o (x \o o)
    BY <1>12, Zenon DEF Associates, y, x
  <1>14. QED
    BY <1>5, <1>6, <1>7, <1>11, <1>13, Zenon DEF p, b, q, o, w, Blank

-----------------------------------------------------------------------------

\* One turn of the loop at byte a, of which the h bytes before begin the literal.
Matched(r, d, a, h) ==
    /\ a \in Nat /\ TagAt(r) <= a /\ a <= ScanEnd(r)
    /\ h \in Nat /\ h <= Len(Literal) /\ h <= a - TagAt(r)
    /\ \A k \in 1..h : d[(a - h) + k] = Literal[k]
    /\ r.old # {} /\ AttrAt(r) <= a => h = a - AttrAt(r)

\* The literal is met only where the attribute stands.
LEMMA MatchIsTheAttribute ==
    ASSUME NEW r, NEW d, ScanFacts(r, d), NEW a, Matched(r, d, a, Len(Literal))
    PROVE  /\ r.old = {} => ~FactsWithout(r, d)
           /\ r.old # {} => \A v : FactsWith(r, d, v) => a = ScanEnd(r)
  <1> DEFINE t == TagAt(r)
             m == AttrAt(r)
             e == ScanEnd(r)
             l == Len(Literal)
             b == a - l
  <1>1. l \in Nat \ {0}
    BY TextFacts
  <1>2. /\ t \in Nat /\ m \in Nat /\ t < m /\ e \in Nat /\ m <= e
        /\ \A k \in 1..l : d[m] # Literal[k]
        /\ NoMatch(d, t, m)
    BY DEF ScanFacts, PrologFacts
  <1>3. /\ a \in Nat /\ t <= a /\ a <= e /\ l <= a - t
        /\ \A k \in 1..l : d[b + k] = Literal[k]
    BY Zenon DEF Matched
  <1> HIDE DEF t, m, e, l
  <1>4. b \in Nat /\ t <= b /\ b + l = a
    BY <1>1, <1>2, <1>3
  <1>5. ~(b + l <= m)
    <2>1. b + l <= m => \E k \in 1..l : d[b + k] # Literal[k]
      BY <1>2, <1>4 DEF NoMatch, l
    <2>2. QED
      BY <1>3, <2>1
  <1>6. ~(b < m)
    <2>1. SUFFICES ASSUME b < m PROVE FALSE
      OBVIOUS
    <2> DEFINE k == m - b
    <2>2. k \in 1..l /\ b + k = m
      BY <1>1, <1>2, <1>4, <1>5, <2>1
    <2> HIDE DEF k
    <2>3. d[b + k] = Literal[k] /\ d[m] # Literal[k]
      BY <1>2, <1>3, <2>2
    <2>4. QED
      BY <2>2, <2>3
  <1>7. m <= b
    BY <1>2, <1>4, <1>6
  <1>8. ~FactsWithout(r, d)
    <2>1. FactsWithout(r, d) => NoMatch(d, m, e)
      BY DEF FactsWithout, m, e
    <2>2. b + l <= e
      BY <1>3, <1>4
    <2>3. NoMatch(d, m, e) => \E k \in 1..l : d[b + k] # Literal[k]
      BY <1>4, <1>7, <2>2 DEF NoMatch, l
    <2>4. QED
      BY <1>3, <2>1, <2>3
  <1>9. ASSUME NEW v, FactsWith(r, d, v)
        PROVE  a = e
    <2>1. e = m + l
      BY <1>9 DEF FactsWith, e, m, l
    <2>2. QED
      BY <1>1, <1>2, <1>3, <1>4, <1>7, <2>1
  <1>10. QED
    BY <1>8, <1>9 DEF e

\* A byte that ends neither the tag nor the literal.
LEMMA ScanGoesOn ==
    ASSUME NEW r, NEW d, ScanFacts(r, d), NEW a, NEW h, Matched(r, d, a, h),
           r.old = {} => FactsWithout(r, d) /\ d[a + 1] # ">",
           r.old # {} => \E v : FactsWith(r, d, v),
           h # Len(Literal)
    PROVE  Matched(r, d, a + 1, IF d[a + 1] = Literal[h + 1] THEN h + 1 ELSE 0)
  <1> DEFINE t == TagAt(r)
             m == AttrAt(r)
             e == ScanEnd(r)
             l == Len(Literal)
             with == r.old # {}
             g == IF d[a + 1] = Literal[h + 1] THEN h + 1 ELSE 0
  <1>1. l \in Nat \ {0} /\ h # l
    BY TextFacts
  <1>2. /\ t \in Nat /\ m \in Nat /\ t < m /\ e \in Nat /\ m <= e
        /\ \A k \in 1..l : d[m] # Literal[k]
    BY DEF ScanFacts, PrologFacts
  <1>3. /\ a \in Nat /\ t <= a /\ a <= e /\ h \in Nat /\ h <= l /\ h <= a - t
        /\ \A k \in 1..h : d[(a - h) + k] = Literal[k]
        /\ with /\ m <= a => h = a - m
    BY Zenon DEF Matched
  <1>4. ~with => d[e + 1] = ">" /\ d[a + 1] # ">"
    BY DEF FactsWithout
  <1>5. with => e = m + l /\ \A k \in 1..l : d[m + k] = Literal[k]
    BY Zenon DEF FactsWith
  <1> HIDE DEF t, m, e, l, with
  <1>6. a < e
    <2>1. CASE with
      <3>1. e = m + l
        BY <1>5, <2>1
      <3>2. a # e
        BY <1>1, <1>2, <1>3, <2>1, <3>1
      <3>3. QED
        BY <1>2, <1>3, <3>2
    <2>2. CASE ~with
      <3>1. a # e
        BY <1>4, <2>2
      <3>2. QED
        BY <1>2, <1>3, <3>1
    <2>3. QED
      BY <2>1, <2>2
  <1>7. h + 1 \in 1..l
    BY <1>1, <1>3
  <1>8. g \in Nat /\ g <= l /\ g <= (a + 1) - t
    BY <1>1, <1>2, <1>3, <1>7
  <1>9. ASSUME NEW k \in 1..g
        PROVE  d[((a + 1) - g) + k] = Literal[k]
    <2>1. g = h + 1 /\ d[a + 1] = Literal[h + 1]
      BY <1>3, <1>9
    <2> HIDE DEF g
    <2>2. ((a + 1) - g) + k = (a - h) + k
      BY <1>3, <2>1
    <2>3. CASE k = h + 1
      <3>1. (a - h) + k = a + 1
        BY <1>3, <2>3
      <3>2. QED
        BY <2>1, <2>2, <2>3, <3>1
    <2>4. CASE k \in 1..h
      BY <1>3, <2>2, <2>4
    <2>5. QED
      BY <1>3, <2>1, <2>3, <2>4
  <1>10. ASSUME with, m <= a + 1
         PROVE  g = (a + 1) - m
    <2>1. CASE a + 1 = m
      <3>1. d[a + 1] # Literal[h + 1]
        BY <1>2, <1>7, <2>1
      <3>2. g = 0
        BY <3>1
      <3> HIDE DEF g
      <3>3. QED
        BY <1>2, <2>1, <3>2
    <2>2. CASE m <= a
      <3>1. h = a - m /\ m + (h + 1) = a + 1
        BY <1>2, <1>3, <1>10, <2>2
      <3>2. d[m + (h + 1)] = Literal[h + 1]
        BY <1>5, <1>7, <1>10
      <3>3. g = h + 1
        BY <3>1, <3>2
      <3> HIDE DEF g
      <3>4. QED
        BY <1>2, <1>3, <3>1, <3>3
    <2>3. QED
      BY <1>2, <1>3, <1>10, <2>1, <2>2
  <1> HIDE DEF g
  <1>11. a + 1 \in Nat /\ t <= a + 1 /\ a + 1 <= e
    BY <1>2, <1>3, <1>6
  <1>12. Matched(r, d, a + 1, g)
    BY <1>8, <1>9, <1>10, <1>11 DEF Matched, t, m, e, l, with
  <1>13. QED
    BY <1>12 DEF g

\* A byte of the buffer.
LEMMA OneByte ==
    ASSUME Stored(response) \in Text, NEW a \in Nat, a < BytesRead
    PROVE  /\ Piece(a, a + 1) = Close <=> Stored(response)[a + 1] = ">"
           /\ Buf[a + 1] = Stored(response)[a + 1]
  <1> DEFINE d == Stored(response)
             n == BytesRead
             g == a + 1
             p == SubSeq(d, a + 1, g)
  <1>1. /\ d \in Text /\ n \in Nat /\ n <= Len(d) /\ a < n
        /\ \A k \in 1..n : Buf[k] = d[k]
    BY BytesReadFacts, BufFacts
  <1>2. Len(d) \in Nat
    BY <1>1, LenProperties DEF Text
  <1> HIDE DEF n, d
  <1>3. a + 1 \in Nat /\ a <= a + 1 /\ a + 1 <= n /\ a + 1 <= Len(d) /\ (a + 1) - a = 1
    BY <1>1, <1>2
  <1>4. Piece(a, a + 1) = p
    BY <1>1, <1>3, PieceIsPart DEF d, n
  <1>5. p \in Text /\ Len(p) = 1 /\ p[1] = d[a + 1]
    <2>1. g \in Nat /\ a <= g /\ g <= Len(d) /\ g - a = 1 /\ 1 \in 1..1
      BY <1>3
    <2> HIDE DEF g
    <2>2. p \in Text /\ Len(p) = g - a /\ \A k \in 1..(g - a) : p[k] = d[a + k]
      BY <1>1, <2>1, PartFacts
    <2> HIDE DEF p
    <2>3. QED
      BY <2>1, <2>2
  <1> HIDE DEF p, g
  <1>6. Close \in Text /\ Len(Close) = 1 /\ Close[1] = ">"
    BY TextFacts
  <1>7. p[1] = ">" => p = Close
    <2> SUFFICES ASSUME p[1] = ">" PROVE p = Close
      OBVIOUS
    <2>1. \A k \in 1..Len(p) : p[k] = Close[k]
      BY <1>5, <1>6
    <2>2. QED
      BY <1>5, <1>6, <2>1, SeqEqual DEF Text
  <1>8. Buf[a + 1] = d[a + 1]
    BY <1>1, <1>3
  <1>9. QED
    BY <1>4, <1>5, <1>6, <1>7, <1>8 DEF d

\* There is nothing between f and f.
LEMMA LacksNone ==
    ASSUME NEW d, NEW f \in Nat, NEW c
    PROVE  Lacks(d, f, f, c)
  BY DEF Lacks

\* The loops that pass over the value stop behind it.
LEMMA ValueEndFound ==
    ASSUME Stored(response) \in Text, NEW v, FactsWith(response, Stored(response), v),
           ScanEnd(response) \in Nat, PastValue(response, v) <= BytesRead,
           i = ScanEnd(response)
    PROVE  ValueEnd = {PastValue(response, v)}
  <1> DEFINE d == Stored(response)
             n == BytesRead
             e == ScanEnd(response)
             x == PastValue(response, v)
             e1 == e + 1
             e2 == e + 2
  <1>1. /\ d[e + 1] = "=" /\ d[e + 2] = Mark /\ d[x] = Mark
        /\ Lacks(d, e + 2, x - 1, Mark)
        /\ x \in Nat /\ e + 3 <= x
    BY DEF FactsWith
  <1>2. n \in Nat
    BY BytesReadFacts
  <1>3. e \in Nat /\ x <= n
    OBVIOUS
  <1> HIDE DEF n, e, x
  <1>4. /\ e1 \in Nat /\ e2 \in Nat /\ e < e1 /\ e1 < e2 /\ e2 < x
        /\ e1 <= n /\ e2 <= n /\ e1 - 1 = e /\ e2 - 1 = e1
    BY <1>1, <1>2, <1>3
  <1>5. d[e1] = "=" /\ d[e2] = Mark /\ Lacks(d, e2, x - 1, Mark)
    BY <1>1
  <1> HIDE DEF d, e1, e2
  <1>6. Lacks(d, e, e1 - 1, "=") /\ Lacks(d, e1, e2 - 1, Mark)
    BY <1>3, <1>4, LacksNone
  <1>7. Finds(e, "=", e1)
    BY <1>3, <1>4, <1>5, <1>6, AfterFirst DEF d, n
  <1>8. Finds(e1, Mark, e2)
    BY <1>4, <1>5, <1>6, AfterFirst DEF d, n
  <1>9. Finds(e2, Mark, x)
    BY <1>1, <1>3, <1>4, <1>5, AfterFirst DEF d, n
  <1>10. i = e
    BY DEF e
  <1>11. After(i, "=") = {e1} /\ After(e1, "\"") = {e2} /\ After(e2, "\"") = {x}
    BY <1>7, <1>8, <1>9, <1>10, Zenon DEF Finds, Mark
  <1>12. UNION {After(l, "\"") : l \in {e2}} = {x}
    BY <1>11, Zenon
  <1>13. UNION {After(l, "\"") : l \in After(e1, "\"")} = {x}
    BY <1>11, <1>12, Zenon
  <1>14. UNION {UNION {After(l, "\"") : l \in After(k, "\"")} : k \in {e1}} = {x}
    BY <1>13, Zenon
  <1>15. ValueEnd = {x}
    BY <1>11, <1>14, Zenon DEF ValueEnd
  <1>16. QED
    BY <1>15 DEF x

\* Where insert_xml_base() stands, with the local variables a, b and h for i,
\* s and j, n bytes in the buffer and out written.
Underway(r, n, v, stage, out, a, b, h) ==
    /\ stage \in {"prolog", "scan", "rest", "sent"}
    /\ stage = "prolog" => h = 0
    /\ stage = "scan" => out = r.prolog /\ b = TagAt(r) /\ Matched(r, Stored(r), a, h)
    /\ stage = "rest" => /\ a \in Nat /\ a <= n /\ out \in Text
                         /\ out \o SubSeq(Stored(r), a + 1, Len(Stored(r))) = Want(r, v)
    /\ stage = "sent" => out = Want(r, v)

XmlInv ==
    /\ Expected(response)
    /\ \A n \in DOMAIN contexts : contexts[n] \in Text
    /\ xmlPc \in {"idle", "transfer", "prolog", "scan", "rest", "sent", "undefined"}
    /\ base = {} \/ \E v \in Text : base = {v}
    /\ base = {} => /\ xmlPc \in {"idle", "transfer", "sent"}
                    /\ xmlPc = "sent" => sent = Stored(response)
    /\ xmlPc = "idle" => base = {} /\ j = 0
    /\ TagFits => \A v \in base :
          Underway(response, BytesRead, v, xmlPc, sent, i, s, j)

\* The facts about the response in hand.
LEMMA ResponseFacts ==
    ASSUME XmlInv, TagFits
    PROVE  /\ Stored(response) \in Text /\ ScanFacts(response, Stored(response))
           /\ response.old = {} => /\ FactsWithout(response, Stored(response))
                                   /\ ScanEnd(response) < BytesRead
           /\ response.old # {} => \E w :
                 /\ FactsWith(response, Stored(response), w)
                 /\ PastValue(response, w) <= BytesRead
                 /\ ScanEnd(response) < BytesRead
  <1> DEFINE r == response
             d == Stored(r)
             n == BytesRead
             e == ScanEnd(r)
  <1>1. Expected(r)
    BY DEF XmlInv
  <1>2. CASE r.old = {}
    <2>1. ScanFacts(r, d) /\ FactsWithout(r, d) /\ e + 1 <= n
      BY <1>1, <1>2, ScanWithout, TagIsRead
    <2>2. d \in Text /\ e \in Nat
      BY <2>1 DEF ScanFacts
    <2>3. n \in Nat
      BY <2>2, BytesReadFacts
    <2> HIDE DEF e, n
    <2>4. e < n
      BY <2>1, <2>2, <2>3
    <2>5. QED
      BY <1>2, <2>1, <2>2, <2>4 DEF e, n
  <1>3. CASE r.old # {}
    <2>1. PICK v : r.old = {v}
      BY <1>1, <1>3, ExpectedParts
    <2> DEFINE x == PastValue(r, v)
    <2>2. ScanFacts(r, d) /\ FactsWith(r, d, v) /\ x <= n
      BY <1>1, <2>1, ScanWith, TagIsRead
    <2>3. d \in Text /\ e \in Nat /\ x \in Nat /\ e + 3 <= x
      BY <2>2 DEF ScanFacts, FactsWith
    <2>4. n \in Nat
      BY <2>3, BytesReadFacts
    <2> HIDE DEF e, n, x
    <2>5. e < n
      BY <2>2, <2>3, <2>4
    <2>6. QED
      BY <1>3, <2>2, <2>3, <2>5 DEF e, n, x
  <1>4. QED
    BY <1>2, <1>3

\* The prolog is sent, and the scan begins behind it.
LEMMA PrologStep ==
    ASSUME XmlInv, Prolog, TagFits, NEW v \in base
    PROVE  Underway(response, BytesRead, v, xmlPc', sent', i', s', j')
  <1> DEFINE r == response
             d == Stored(r)
             n == BytesRead
             t == TagAt(r)
             m == AttrAt(r)
             e == ScanEnd(r)
  <1>1. d \in Text /\ ScanFacts(r, d) /\ e < n
    BY ResponseFacts
  <1>2. /\ t \in Nat \ {0} /\ m \in Nat /\ t < m /\ e \in Nat /\ m <= e
        /\ d[t] = ">" /\ Lacks(d, 0, t - 1, ">") /\ SubSeq(d, 1, t) = r.prolog
    BY <1>1 DEF ScanFacts, PrologFacts
  <1>3. n \in Nat
    BY <1>1, BytesReadFacts
  <1>4. j = 0 /\ j' = j /\ xmlPc = "prolog"
    BY DEF Prolog, XmlInv, Underway
  <1> HIDE DEF d, n, t, m, e, r
  <1>5. 0 < t /\ t <= n /\ 0 <= t /\ 0 + 1 = 1 /\ 0 \in Nat /\ t \in Nat /\ t <= e
    BY <1>1, <1>2, <1>3
  <1>6. Finds(0, ">", t)
    BY <1>1, <1>2, <1>5, AfterFirst DEF d, n, r
  <1>7. Piece(0, t) = r.prolog
    <2>1. Piece(0, t) = SubSeq(d, 0 + 1, t)
      BY <1>1, <1>5, PieceIsPart DEF d, n, r
    <2>2. QED
      BY <1>2, <1>5, <2>1
  <1>8. After(0, ">") = {t}
    BY <1>6 DEF Finds
  <1>9. xmlPc' = "scan" /\ sent' = r.prolog /\ i' = t /\ s' = t
    <2>1. \E k \in After(0, ">") : sent' = Piece(0, k) /\ i' = k /\ s' = k /\ xmlPc' = "scan"
      BY <1>8, Zenon DEF Prolog
    <2>2. PICK k \in {t} : sent' = Piece(0, k) /\ i' = k /\ s' = k /\ xmlPc' = "scan"
      BY <1>8, <2>1, Zenon
    <2>3. k = t
      OBVIOUS
    <2>4. QED
      BY <1>7, <2>2, <2>3, Zenon
  <1>10. Matched(r, d, t, 0)
    <2>1. Len(Literal) \in Nat
      BY TextFacts
    <2>2. 0 <= Len(Literal) /\ 0 <= t - t /\ 1..0 = {} /\ ~(m <= t)
      BY <1>2, <2>1
    <2>3. QED
      BY <1>5, <2>2 DEF Matched, t, m, e
  <1>11. QED
    BY <1>4, <1>9, <1>10 DEF Underway, t, d, r

\* What Scan does to the response, by the byte it meets.
LEMMA ScanStep ==
    ASSUME XmlInv, Scan, TagFits, NEW v \in base, base = {v}, v \in Text
    PROVE  Underway(response, BytesRead, v, xmlPc', sent', i', s', j')
  <1> DEFINE r == response
             d == Stored(r)
             n == BytesRead
             t == TagAt(r)
             m == AttrAt(r)
             e == ScanEnd(r)
             l == Len(Literal)
             total == Len(d)
  <1>1. d \in Text /\ ScanFacts(r, d) /\ e < n /\ Expected(r)
    BY ResponseFacts DEF XmlInv
  <1>2. n \in Nat /\ n <= total /\ total \in Nat
    BY <1>1, BytesReadFacts, LenProperties DEF Text
  <1>3. xmlPc = "scan" /\ s' = s /\ sent = r.prolog /\ s = t /\ Matched(r, d, i, j)
    BY DEF Scan, XmlInv, Underway
  <1>4. t \in Nat /\ m \in Nat /\ t < m /\ e \in Nat /\ m <= e /\ Lacks(d, t, e, ">")
    BY <1>1 DEF ScanFacts, PrologFacts
  <1>5. i \in Nat /\ t <= i /\ i <= e
    BY <1>3 DEF Matched
  <1>6. /\ r.old = {} => FactsWithout(r, d)
        /\ r.old # {} => \E w : FactsWith(r, d, w) /\ PastValue(r, w) <= n
    BY ResponseFacts
  <1> HIDE DEF d, n, t, m, e, r, l, total
  <1>7. i < n /\ i <= n /\ ~(i >= n)
    BY <1>1, <1>2, <1>4, <1>5
  <1>8. Piece(i, i + 1) = <<">">> <=> d[i + 1] = ">"
    BY <1>1, <1>5, <1>7, OneByte DEF d, n, r, Close
  <1>9. Buf[i + 1] = d[i + 1]
    BY <1>1, <1>5, <1>7, OneByte DEF d, n, r
  <1>10. Piece(s, i) = SubSeq(d, t + 1, i)
    BY <1>1, <1>3, <1>4, <1>5, <1>7, PieceIsPart DEF d, n, r
  <1>11. CASE Piece(i, i + 1) = <<">">>
    <2>1. /\ sent' = sent \o Piece(s, i) \o <<" ">> \o Literal \o Equals(v)
          /\ xmlPc' = "rest" /\ i' = i
      BY <1>7, <1>11, Zenon DEF Scan, n
    <2>2. d[i + 1] = ">"
      BY <1>8, <1>11
    <2>3. i = e
      BY <1>4, <1>5, <2>2 DEF Lacks
    <2>4. r.old = {}
      <3>1. \A w : FactsWith(r, d, w) => d[e + 1] = "="
        BY DEF FactsWith, e
      <3>2. d[e + 1] # "="
        BY <2>2, <2>3
      <3>3. QED
        BY <1>6, <3>1, <3>2
    <2>5. /\ SubSeq(d, t + 1, e) = r.before \o r.after
          /\ SubSeq(d, e + 1, total) = Close \o r.rest
      BY <1>6, <2>4 DEF FactsWithout, t, e, total
    <2>6. sent' = (((r.prolog \o (r.before \o r.after)) \o <<" ">>) \o Literal) \o Equals(v)
      BY <1>3, <1>10, <2>1, <2>3, <2>5, Zenon
    <2>7. sent' \in Text /\ sent' \o (Close \o r.rest) = Want(r, v)
      BY <1>1, <2>4, <2>6, AttributeAdded
    <2>8. i' \in Nat /\ i' <= n /\ sent' \o SubSeq(d, i' + 1, total) = Want(r, v)
      <3>1. i' = e
        BY <2>1, <2>3
      <3>2. SubSeq(d, i' + 1, total) = Close \o r.rest
        BY <2>5, <3>1, Zenon
      <3>3. QED
        BY <1>5, <1>7, <2>1, <2>7, <3>2
    <2>9. QED
      BY <2>1, <2>7, <2>8, Zenon DEF Underway, d, n, r, total
  <1>12. CASE Piece(i, i + 1) # <<">">> /\ j = l
    <2>1. \/ \E k \in ValueEnd :
                sent' = sent \o Piece(s, i) \o Equals(v) /\ i' = k /\ xmlPc' = "rest"
          \/ ValueEnd = {}
      BY <1>7, <1>12, Zenon DEF Scan, n, l
    <2>2. Matched(r, d, i, l)
      BY <1>3, <1>12
    <2>3. r.old # {} /\ \A w : FactsWith(r, d, w) => i = e
      BY <1>1, <1>6, <2>2, MatchIsTheAttribute DEF e, l
    <2>4. PICK w : FactsWith(r, d, w) /\ PastValue(r, w) <= n
      BY <1>6, <2>3
    <2> DEFINE x == PastValue(r, w)
    <2>5. i = e
      BY <2>3, <2>4
    <2>6. ValueEnd = {x}
      BY <1>1, <1>4, <2>4, <2>5, ValueEndFound DEF d, n, e, r
    <2>7. /\ SubSeq(d, t + 1, e) = r.before \o Literal
          /\ SubSeq(d, x + 1, total) = End(r)
          /\ x \in Nat /\ x <= n
      BY <2>4 DEF FactsWith, t, e, total
    <2> HIDE DEF x
    <2>8. sent' = sent \o Piece(s, i) \o Equals(v) /\ i' = x /\ xmlPc' = "rest"
      <3>1. \E k \in {x} : sent' = sent \o Piece(s, i) \o Equals(v) /\ i' = k /\ xmlPc' = "rest"
        BY <2>1, <2>6, Zenon
      <3>2. QED
        BY <3>1, Zenon
    <2>9. sent' = (r.prolog \o (r.before \o Literal)) \o Equals(v)
      BY <1>3, <1>10, <2>5, <2>7, <2>8, Zenon
    <2>10. sent' \in Text /\ sent' \o End(r) = Want(r, v)
      BY <1>1, <2>3, <2>9, ValueReplaced
    <2>11. i' \in Nat /\ i' <= n /\ sent' \o SubSeq(d, i' + 1, total) = Want(r, v)
      BY <2>7, <2>8, <2>10, Zenon
    <2>12. QED
      BY <2>8, <2>10, <2>11, Zenon DEF Underway, d, n, r, total
  <1>13. CASE Piece(i, i + 1) # <<">">> /\ j # l
    <2>1. /\ j' = IF Buf[i + 1] = Literal[j + 1] THEN j + 1 ELSE 0
          /\ i' = i + 1 /\ sent' = sent /\ xmlPc' = xmlPc
      BY <1>7, <1>13, Zenon DEF Scan, n, l
    <2>2. d[i + 1] # ">"
      BY <1>8, <1>13
    <2>3. Matched(r, d, i + 1, IF d[i + 1] = Literal[j + 1] THEN j + 1 ELSE 0)
      BY <1>1, <1>3, <1>6, <1>13, <2>2, ScanGoesOn DEF l
    <2>4. Matched(r, d, i', j')
      BY <1>9, <2>1, <2>3, Zenon
    <2>5. QED
      BY <1>3, <2>1, <2>4 DEF Underway, t, d, r
  <1>14. QED
    BY <1>11, <1>12, <1>13

\* After the rest, what is sent is complete.
LEMMA RestStep ==
    ASSUME XmlInv, Rest, TagFits, NEW v \in base
    PROVE  Underway(response, BytesRead, v, xmlPc', sent', i', s', j')
  <1> DEFINE d == Stored(response)
             n == BytesRead
             total == Len(d)
             p == SubSeq(d, i + 1, n)
             q == SubSeq(d, n + 1, total)
  <1>1. d \in Text
    BY ResponseFacts
  <1>2. n \in Nat /\ n <= total /\ total \in Nat
    BY <1>1, BytesReadFacts, LenProperties DEF Text
  <1>3. /\ i \in Nat /\ i <= n /\ sent \in Text
        /\ sent \o SubSeq(d, i + 1, total) = Want(response, v)
    BY DEF Rest, XmlInv, Underway
  <1>4. xmlPc' = "sent" /\ sent' = (sent \o Piece(i, n)) \o q
    BY Zenon DEF Rest
  <1>5. Piece(i, n) = p
    <2>1. n <= BytesRead
      BY <1>2
    <2>2. QED
      BY <1>1, <1>2, <1>3, <2>1, PieceIsPart
  <1> HIDE DEF n
  <1>6. p \o q = SubSeq(d, i + 1, total)
    BY <1>1, <1>2, <1>3, PartsJoin
  <1>7. p \in Text /\ q \in Text
    BY <1>1, <1>2, <1>3, PartFacts
  <1> HIDE DEF p, q, d, total
  <1>8. (sent \o p) \o q = sent \o (p \o q)
    BY <1>3, <1>7, Associative DEF Associates
  <1>9. sent' = Want(response, v)
    BY <1>3, <1>4, <1>5, <1>6, <1>8, Zenon
  <1>10. QED
    BY <1>4, <1>9, Zenon DEF Underway

\* What a step leaves alone when it leaves the response alone.
LEMMA SameResponse ==
    ASSUME response' = response
    PROVE  /\ TagFits' = TagFits /\ BytesRead' = BytesRead
           /\ Stored(response)' = Stored(response) /\ Expected(response)' = Expected(response)
  <1>1. TagFits' = TagFits
    BY Zenon DEF TagFits
  <1>2. BytesRead' = BytesRead
    BY Zenon DEF BytesRead
  <1>3. QED
    BY <1>1, <1>2, Zenon

\* Every step keeps the invariant.
LEMMA XmlInvKept ==
    ASSUME XmlInv, NEW names, NEW values \in SUBSET Seq(Chars),
           [XmlNext(names, values)]_xmlVars
    PROVE  XmlInv'
  <1>1. /\ Expected(response)
        /\ \A n \in DOMAIN contexts : contexts[n] \in Text
        /\ xmlPc \in {"idle", "transfer", "prolog", "scan", "rest", "sent", "undefined"}
        /\ base = {} \/ \E v \in Text : base = {v}
        /\ base = {} => /\ xmlPc \in {"idle", "transfer", "sent"}
                        /\ xmlPc = "sent" => sent = Stored(response)
        /\ xmlPc = "idle" => base = {} /\ j = 0
        /\ TagFits => \A v \in base :
              Underway(response, BytesRead, v, xmlPc, sent, i, s, j)
    BY DEF XmlInv
  <1> DEFINE Texts(c) == \A n \in DOMAIN c : c[n] \in Text
             Step == \* a step of insert_xml_base()
                /\ UNCHANGED <<contexts, response, base>>
                /\ base # {} /\ xmlPc' \in {"scan", "rest", "sent", "undefined"}
                /\ TagFits => \A v \in base :
                      Underway(response, BytesRead, v, xmlPc', sent', i', s', j')
  <1>2. ASSUME Step
        PROVE  XmlInv'
    <2>1. /\ response' = response /\ base' = base /\ contexts' = contexts
          /\ TagFits' = TagFits /\ BytesRead' = BytesRead
      BY <1>2, SameResponse
    <2>2. xmlPc' # "idle" /\ base' # {}
      BY <1>2, <2>1
    <2>3. TagFits' => \A v \in base' :
             Underway(response', BytesRead', v, xmlPc', sent', i', s', j')
      BY <1>2, <2>1, Zenon
    <2>4. xmlPc' \in {"idle", "transfer", "prolog", "scan", "rest", "sent", "undefined"}
      BY <1>2
    <2>5. Expected(response') /\ Texts(contexts') /\ (base' = {} \/ \E v \in Text : base' = {v})
      BY <1>1, <2>1, Zenon
    <2> HIDE DEF Step
    <2>6. QED
      BY <2>2, <2>3, <2>4, <2>5, Zenon DEF XmlInv
  <1>3. ASSUME Texts(contexts'), UNCHANGED <<response, base, sent, i, s, j, xmlPc>>
        PROVE  XmlInv'
    <2>1. /\ response' = response /\ base' = base /\ sent' = sent /\ i' = i /\ s' = s /\ j' = j
          /\ xmlPc' = xmlPc /\ TagFits' = TagFits /\ BytesRead' = BytesRead
      BY <1>3, SameResponse
    <2>2. TagFits' => \A v \in base' :
             Underway(response', BytesRead', v, xmlPc', sent', i', s', j')
      BY <1>1, <2>1, Zenon
    <2>3. base' = {} => /\ xmlPc' \in {"idle", "transfer", "sent"}
                        /\ xmlPc' = "sent" => sent' = Stored(response')
      BY <1>1, <2>1, Zenon
    <2>4. /\ Expected(response')
          /\ xmlPc' \in {"idle", "transfer", "prolog", "scan", "rest", "sent", "undefined"}
          /\ base' = {} \/ \E v \in Text : base' = {v}
          /\ xmlPc' = "idle" => base' = {} /\ j' = 0
      BY <1>1, <2>1, Zenon
    <2>5. QED
      BY <1>3, <2>2, <2>3, <2>4, Zenon DEF XmlInv
  <1>4. CASE UNCHANGED xmlVars
    <2>1. contexts' = contexts /\ UNCHANGED <<response, base, sent, i, s, j, xmlPc>>
      BY <1>4 DEF xmlVars
    <2>2. QED
      BY <1>1, <1>3, <2>1, Zenon
  <1>5. ASSUME NEW n \in names, UnsetContext(n)
        PROVE  XmlInv'
    <2>1. /\ contexts' = Restrict(contexts, DOMAIN contexts \ {n})
          /\ UNCHANGED <<response, base, sent, i, s, j, xmlPc>>
      BY <1>5 DEF UnsetContext
    <2>2. Texts(contexts')
      BY <1>1, <2>1 DEF Restrict
    <2>3. QED
      BY <1>3, <2>1, <2>2, Zenon
  <1>6. ASSUME NEW n \in names, NEW w \in values, SetContext(n, w)
        PROVE  XmlInv'
    <2>1. /\ contexts' = [m \in DOMAIN contexts \cup {n} |-> IF m = n THEN w ELSE contexts[m]]
          /\ UNCHANGED <<response, base, sent, i, s, j, xmlPc>>
      BY <1>6 DEF SetContext
    <2>2. w \in Text
      BY DEF Text
    <2>3. Texts(contexts')
      BY <1>1, <2>1, <2>2
    <2>4. QED
      BY <1>3, <2>1, <2>3, Zenon
  <1>7. CASE WriteDmrResponse
    <2>1. /\ xmlPc = "idle" /\ base' = GetContext("xml:base")
          /\ xmlPc' = IF base' = {} THEN "transfer" ELSE "prolog"
          /\ UNCHANGED <<contexts, response, sent, i, s, j>>
      BY <1>7 DEF WriteDmrResponse
    <2>2. base' = {} \/ \E v \in Text : base' = {v}
      BY <1>1, <2>1 DEF GetContext
    <2>3. TagFits' => \A v \in base' :
             Underway(response', BytesRead', v, xmlPc', sent', i', s', j')
      <3>1. ASSUME NEW v \in base'
            PROVE  Underway(response', BytesRead', v, xmlPc', sent', i', s', j')
        <4>1. xmlPc' = "prolog" /\ j' = 0
          BY <1>1, <2>1, <3>1
        <4>2. QED
          BY <4>1 DEF Underway
      <3>2. QED
        BY <3>1
    <2>4. Expected(response') /\ Texts(contexts')
      BY <1>1, <2>1, Zenon
    <2>5. /\ xmlPc' \in {"idle", "transfer", "prolog", "scan", "rest", "sent", "undefined"}
          /\ xmlPc' # "idle" /\ xmlPc' # "sent"
          /\ base' = {} => xmlPc' = "transfer"
      BY <2>1
    <2>6. QED
      BY <2>2, <2>3, <2>4, <2>5, Zenon DEF XmlInv
  <1>8. CASE TransferBytes
    <2>1. /\ xmlPc = "transfer" /\ sent' = Stored(response) /\ xmlPc' = "sent"
          /\ UNCHANGED <<contexts, response, base, i, s, j>>
      BY <1>8 DEF TransferBytes
    <2>2. base' = base /\ response' = response /\ contexts' = contexts
      BY <2>1
    <2>3. TagFits' => \A v \in base' :
             Underway(response', BytesRead', v, xmlPc', sent', i', s', j')
      <3>1. ASSUME TagFits, NEW v \in base
            PROVE  FALSE
        <4>1. Underway(response, BytesRead, v, xmlPc, sent, i, s, j)
          BY <1>1, <3>1, Zenon
        <4>2. xmlPc \in {"prolog", "scan", "rest", "sent"}
          BY <4>1 DEF Underway
        <4>3. QED
          BY <2>1, <4>2
      <3>2. TagFits' = TagFits
        BY <2>2, SameResponse
      <3>3. QED
        BY <2>2, <3>1, <3>2, Zenon
    <2>4. /\ Expected(response') /\ Texts(contexts')
          /\ base' = {} \/ \E v \in Text : base' = {v}
          /\ sent' = Stored(response')
      BY <1>1, <2>1, <2>2, Zenon
    <2>5. /\ xmlPc' \in {"idle", "transfer", "prolog", "scan", "rest", "sent", "undefined"}
          /\ xmlPc' # "idle" /\ xmlPc' \in {"idle", "transfer", "sent"}
      BY <2>1
    <2>6. QED
      BY <2>3, <2>4, <2>5, Zenon DEF XmlInv
  <1>9. CASE Prolog
    <2>1. /\ xmlPc = "prolog" /\ UNCHANGED <<contexts, response, base>>
          /\ xmlPc' \in {"scan", "undefined"}
      BY <1>9 DEF Prolog
    <2>2. base # {}
      BY <1>1, <2>1
    <2>3. TagFits => \A v \in base :
             Underway(response, BytesRead, v, xmlPc', sent', i', s', j')
      BY <1>9, PrologStep
    <2>4. Step
      BY <2>1, <2>2, <2>3
    <2> HIDE DEF Step
    <2>5. QED
      BY <1>2, <2>4
  <1>10. CASE Scan
    <2>1. /\ xmlPc = "scan" /\ UNCHANGED <<contexts, response, base>>
      BY <1>10 DEF Scan
    <2>2. base # {}
      BY <1>1, <2>1
    <2>3. PICK v \in Text : base = {v}
      BY <1>1, <2>2
    <2>4. xmlPc' \in {"scan", "rest", "undefined"}
      BY <1>10, <2>1, <2>3, Zenon DEF Scan
    <2>5. TagFits => Underway(response, BytesRead, v, xmlPc', sent', i', s', j')
      BY <1>10, <2>3, ScanStep
    <2>6. Step
      BY <2>1, <2>2, <2>3, <2>4, <2>5
    <2> HIDE DEF Step
    <2>7. QED
      BY <1>2, <2>6
  <1>11. CASE Rest
    <2>1. xmlPc = "rest" /\ UNCHANGED <<contexts, response, base>> /\ xmlPc' = "sent"
      BY <1>11 DEF Rest
    <2>2. base # {}
      BY <1>1, <2>1
    <2>3. TagFits => \A v \in base :
             Underway(response, BytesRead, v, xmlPc', sent', i', s', j')
      BY <1>11, RestStep
    <2>4. Step
      BY <2>1, <2>2, <2>3
    <2> HIDE DEF Step
    <2>5. QED
      BY <1>2, <2>4
  <1>12. QED
    BY <1>4, <1>5, <1>6, <1>7, <1>8, <1>9, <1>10, <1>11, Zenon DEF XmlNext

\* It holds of the initial states,
LEMMA XmlInvAtFirst ==
    ASSUME NEW responses, \A r \in responses : Expected(r), XmlInit(responses)
    PROVE  XmlInv
  <1>1. /\ contexts = <<>> /\ response \in responses /\ base = {} /\ j = 0 /\ xmlPc = "idle"
    BY DEF XmlInit
  <1>2. DOMAIN contexts = {}
    BY <1>1
  <1>3. QED
    BY <1>1, <1>2 DEF XmlInv

\* and says what is sent.
LEMMA XmlInvSays ==
    ASSUME XmlInv
    PROVE  BaseOfContextSent
  <1> SUFFICES ASSUME xmlPc \in {"sent", "undefined"}, base # {} => TagFits
               PROVE  /\ xmlPc = "sent"
                      /\ base = {} => sent = Stored(response)
                      /\ \A v \in base : sent = Want(response, v)
    BY Zenon DEF BaseOfContextSent, Want
  <1>1. CASE base = {}
    BY <1>1 DEF XmlInv
  <1>2. CASE base # {}
    <2>1. \A v \in base : Underway(response, BytesRead, v, xmlPc, sent, i, s, j)
      BY <1>2 DEF XmlInv
    <2>2. xmlPc # "undefined"
      BY <1>2, <2>1 DEF Underway
    <2>3. \A v \in base : sent = Want(response, v)
      BY <2>1, <2>2 DEF Underway
    <2>4. QED
      BY <1>2, <2>2, <2>3
  <1>3. QED
    BY <1>1, <1>2

\* A stored DMR is sent with the value of the context xml:base, where it had one
\* or else at the end of the tag, and else byte for byte, whenever the other code
\* sets and unsets contexts, of any response of the kind that other code stores.
THEOREM ContextsBaseIsSent ==
    ASSUME NEW CONSTANT responses, \A r \in responses : Expected(r),
           NEW CONSTANT names, NEW CONSTANT values \in SUBSET Seq(Chars)
    PROVE  XmlInit(responses) /\ [][XmlNext(names, values)]_xmlVars => []BaseOfContextSent
  <1>1. XmlInit(responses) => XmlInv
    BY XmlInvAtFirst
  <1>2. XmlInv /\ [XmlNext(names, values)]_xmlVars => XmlInv'
    BY XmlInvKept
  <1>3. XmlInv => BaseOfContextSent
    BY XmlInvSays
  <1>4. QED
    BY <1>1, <1>2, <1>3, PTL
=============================================================================
