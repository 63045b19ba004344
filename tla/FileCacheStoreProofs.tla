------------------------ MODULE FileCacheStoreProofs ------------------------
(***************************************************************************)
(* Theorems about a cache whose system calls do not fail and that nobody   *)
(* clears: it is a store that its processes share, and its counter is the  *)
(* sum of the sizes of its files.                                          *)
(***************************************************************************)
EXTENDS FileCacheProofs, FiniteSetTheorems, WellFoundedInduction

\* Nothing fails, nobody dies, and nobody removes files without their locks.
NothingFails == Faults = {} /\ "clear" \notin Ops

-----------------------------------------------------------------------------
(* What is locked, and by which name.                                      *)

\* Where a put has its file locked, and knows it by its key.
PutStages == {"open_source", "write", "read_info", "write_info"}

\* A call that puts waits for its lock, so it has one, on the file of its key.
WorksOK(p) ==
    /\ call[p].op # "clear" /\ pc[p] # "clear"
    /\ call[p].op \in Puts => call[p].wait
    /\ pc[p] = "lock_item" =>
          ofd[Handle(p)].ino = dir[call[p].key] /\ ofd[Handle(p)].lk = "un"
    /\ call[p].op \in {"put", "put_data"} /\ pc[p] \in PutStages =>
          /\ ofd[OpFd(p)].ino # None
          /\ ofd[OpFd(p)].ino = dir[call[p].key] /\ ofd[OpFd(p)].lk = "ex"

\* What an owner has in its Item.  It owns what it has locked, or is locking.
Reads(p) == item[p] = "get" /\ ofd[ItemFd(p)].lk = "sh"
Makes(p) == item[p] = "put" /\ ofd[ItemFd(p)].ino # None

OwnsOK(p) ==
    /\ Makes(p) => \/ pc[p] = "lock_item" /\ call[p].op = "put_item"
                   \/ ofd[ItemFd(p)].lk = "ex"
    /\ Reads(p) \/ Makes(p) =>
          \E k \in Keys : dir[k] # None /\ dir[k] = ofd[ItemFd(p)].ino

\* Who can be read is full.
Complete ==
    \A k \in Keys : dir[k] # None /\ ~file[dir[k]].full =>
        \E o \in Ofds : Writer(o) /\ ofd[o].ino = dir[k]

StoreInv == /\ \A p \in Procs : WorksOK(p) /\ OwnsOK(p)
            /\ Complete

LEMMA Faultless ==
  ASSUME NothingFails
  PROVE  /\ \A p \in Procs : /\ ~LockCacheFails(p) /\ ~CopyReadError(p) /\ ~WriteFails(p)
                             /\ ~InitializeFails(p)
         /\ \A c \in Instances : ~Crash(c)
  BY DEF NothingFails, LockCacheFails, CopyReadError, WriteFails, InitializeFails, Crash

\* A put that has made its file gets the lock on it.
LEMMA NoFailedPut ==
  ASSUME NothingFails, NEW p \in Procs, WorksOK(p), Fails(p), call[p].op \in Puts
  PROVE  pc[p] \notin {"lock_item", "open_source", "write_info"}
  BY DEF NothingFails, WorksOK, Fails, CanFail

\* A step of p keeps its call on the file of its key.
LEMMA WorksStep ==
  ASSUME TypeOK, HandleOpen, NothingFails, NEW p \in Procs, WorksOK(p),
         Caller(p) \/ LockCache(p) \/ Step(p)
  PROVE  WorksOK(p)'
  <1> USE DEF TypeOK
  <1>1. OpFd(p) \in Ofds /\ ItemFd(p) \in Ofds /\ OpFd(p) # ItemFd(p)
    BY OfdType
  <1>2. Handle(p) = IF call[p].op \in {"get", "put_item", "drop"} THEN ItemFd(p) ELSE OpFd(p)
    BY DEF Handle
  <1>3. CASE InitializeCreate(p) \/ InitializeOpen(p) \/ InitializeWrite(p) \/ UserWrite(p)
    BY <1>3
    DEF WorksOK, PutStages, VarTypes, InitializeCreate, InitializeOpen, CanInitialize,
        InitializeWrite, UserWrite, Goto, locks, disk
  <1>4. ASSUME NEW op, NEW k, NEW n, NEW w, Call(p, op, k, n, w), op \in Puts => w
        PROVE  WorksOK(p)'
    <2>1. /\ pc'[p] = "lock" /\ op \in Ops
          /\ call'[p].op = op /\ call'[p].wait = w
      BY <1>4 DEF Call, VarTypes, Goto
    <2>2. QED
      BY <1>4, <2>1 DEF WorksOK, PutStages, NothingFails
  <1>5. CASE CallPut(p) \/ CallPutData(p) \/ CallDel(p) \/ CallClear(p) \/ CallPurge(p)
               \/ CallPutItem(p) \/ CallGet(p)
    BY <1>4, <1>5
    DEF CallPut, CallPutData, CallDel, CallClear, CallPurge, CallPutItem, CallGet, Puts
  <1>6. CASE DropPutItem(p) \/ CloseItem(p) \/ LockCache(p) \/ Return(p)
    <2>1. /\ call'[p].op \in {call[p].op, "drop", "none"}
          /\ call'[p].op \in Puts => call'[p] = call[p]
          /\ pc'[p] \in {"lock", "idle", "create", "open", "scan", "close_item"}
               \/ (pc'[p] = "read_info" /\ call[p].op \in {"drop", "purge"})
      BY <1>6
      DEF DropPutItem, CloseItem, LockCache, Return, VarTypes, Goto, Entry, AfterCall,
          NoCall, Puts
    <2>2. QED
      BY <2>1 DEF WorksOK, PutStages, Puts
  <1>7. CASE CreateKey(p)
    <2>1. pc'[p] = "lock_item" /\ UNCHANGED call /\ call[p].key \in Keys
      BY <1>7 DEF CreateKey, Goto, VarTypes, StageOK, KeyOps
    <2>2. PICK i \in Inodes :
              /\ dir' = [dir EXCEPT ![call[p].key] = i]
              /\ ofd' = [ofd EXCEPT ![Handle(p)] = [ino |-> i, lk |-> "un"]]
      BY <1>7 DEF CreateKey
    <2>3. ofd'[Handle(p)].ino = dir'[call[p].key] /\ ofd'[Handle(p)].lk = "un"
      BY <2>1, <2>2, HandleType DEF VarTypes
    <2>4. QED
      BY <2>1, <2>3 DEF WorksOK, PutStages, Handle
  <1>8. CASE OpenKey(p)
    <2>1. pc'[p] = "lock_item" /\ UNCHANGED <<call, dir>>
      BY <1>8 DEF OpenKey, Goto, VarTypes, disk
    <2>2. ofd'[Handle(p)].ino = dir[call[p].key] /\ ofd'[Handle(p)].lk = "un"
      BY <1>8, HandleType DEF OpenKey, VarTypes
    <2>3. QED
      BY <2>1, <2>2 DEF WorksOK, PutStages, Handle
  <1>9. CASE LockItem(p)
    <2>1. /\ pc[p] = "lock_item" /\ pc'[p] # "lock_item" /\ UNCHANGED dir
          /\ pc'[p] # "clear"
          /\ call'[p].op = call[p].op /\ call'[p].wait = call[p].wait
          /\ call'[p].key = call[p].key
      BY <1>9 DEF LockItem, Exit, Goto, VarTypes, Calls
    <2>2. ofd'[Handle(p)].ino = ofd[Handle(p)].ino /\ ofd'[Handle(p)].lk = LockKind(p)
      BY <1>9, HandleType DEF LockItem, VarTypes
    <2>3. ofd[Handle(p)].ino # None
      BY <2>1 DEF HandleOpen, HandleOpenAt
    <2>4. QED
      BY <1>2, <2>1, <2>2, <2>3 DEF WorksOK, LockKind
  <1>10. CASE OpenSource(p) \/ CopyChunk(p) \/ CopyDone(p) \/ WriteData(p) \/ ReadInfo(p)
                \/ PurgeSkip(p)
    <2>1. /\ UNCHANGED <<call, ofd, dir>>
          /\ pc'[p] \in PutStages \cup {"purge"}
          /\ pc[p] \in PutStages \cup {"purge"}
          /\ pc'[p] \in PutStages => pc[p] \in PutStages
      BY <1>10
      DEF OpenSource, CopyChunk, CopyDone, WriteData, Writing, ReadInfo, PurgeSkip,
          VarTypes, Goto, locks, disk, PutStages
    <2>2. QED
      BY <2>1 DEF WorksOK, PutStages
  <1>11. CASE RemoveKey(p) \/ PurgeLock(p) \/ PurgeRemove(p) \/ PurgeDone(p) \/ Scan(p)
    <2>1. /\ call[p].op \in {"del", "purge", "clear"} /\ call'[p].op = call[p].op
          /\ pc'[p] # "lock_item"
          /\ call[p].op # "clear" => pc'[p] # "clear"
      BY <1>11
      DEF RemoveKey, PurgeLock, PurgeRemove, PurgeDone, Scan, VarTypes, StageOK, Goto,
          Calls
    <2>2. QED
      BY <2>1 DEF WorksOK, PutStages, Puts
  <1>12. CASE WriteInfo(p) \/ PurgeReadInfo(p) \/ Fails(p) \/ ClearDone(p)
    <2>1. /\ call'[p].op = call[p].op /\ call'[p].wait = call[p].wait
          /\ pc'[p] \in {"return", "scan"}
      BY <1>12
      DEF WriteInfo, PurgeReadInfo, Fails, ClearDone, Exit, Goto, VarTypes, Calls
    <2>2. QED
      BY <2>1 DEF WorksOK, PutStages
  <1>13. CASE ClearRemove(p)
    BY <1>13 DEF ClearRemove, WorksOK
  <1>14. QED
    BY <1>3, <1>5, <1>6, <1>7, <1>8, <1>9, <1>10, <1>11, <1>12, <1>13, Faultless
    DEF Caller, Step, Body

\* A step is one of q's own, or leaves q as it is; the directory too, when q is in
\* the middle of a call.
LEMMA OwnOrApart ==
  ASSUME TypeOK, InsideLocked, OneThreadPerInstance, NothingFails, NEW q \in Procs,
         [Next]_vars
  PROVE  \/ Caller(q) \/ LockCache(q) \/ Step(q)
         \/ Apart(q) /\ (Inside(q) => UNCHANGED dir)
  <1>1. ASSUME NEW p \in Procs, p # q, Caller(p) \/ LockCache(p) \/ Step(p)
        PROVE  Apart(q) /\ (Inside(q) => UNCHANGED dir)
    <2>1. Apart(q)
      BY <1>1, OthersApart
    <2>2. Inside(q) => Untouched(q)
      BY <1>1, OthersUntouched
    <2>3. QED
      BY <2>1, <2>2 DEF Untouched
  <1>2. CASE UNCHANGED vars \/ Tick \/ \E c \in Instances : Destroy(c)
    BY <1>2 DEF Apart, vars, Tick, Destroy, work, locks, disk
  <1>3. QED
    BY <1>1, <1>2, Faultless DEF Next

LEMMA WorksPreserved ==
  ASSUME TypeOK, InsideLocked, HandleOpen, OneThreadPerInstance, NothingFails,
         [Next]_vars, NEW q \in Procs, WorksOK(q)
  PROVE  WorksOK(q)'
  <1>1. CASE Caller(q) \/ LockCache(q) \/ Step(q)
    BY <1>1, WorksStep
  <1>2. CASE Apart(q) /\ (Inside(q) => UNCHANGED dir)
    <2>1. CASE Inside(q)
      BY <1>2, <2>1 DEF Apart, WorksOK, Handle
    <2>2. CASE ~Inside(q)
      BY <1>2, <2>2 DEF Apart, WorksOK, Inside, PutStages
    <2>3. QED
      BY <2>1, <2>2
  <1>3. QED
    BY <1>1, <1>2, OwnOrApart

\* A file that somebody's Item has locked keeps its name.
LEMMA LockedStays ==
  ASSUME TypeOK, HandleOpen, FlockExclusive, [Next]_vars,
         \A p \in Procs : pc[p] # "clear",
         NEW o \in Ofds, NEW k \in Keys, dir[k] # None, dir[k] = ofd[o].ino,
         ofd[o].lk # "un", \A p \in Procs : o # OpFd(p)
  PROVE  dir'[k] = dir[k]
  <1>1. SUFFICES ASSUME dir'[k] # dir[k]
                 PROVE  FALSE
    OBVIOUS
  <1>2. \A p \in Procs : ~ClearRemove(p)
    BY DEF ClearRemove
  <1>3. PICK p \in Procs : ofd[OpFd(p)].ino = dir[k] /\ ofd[OpFd(p)].lk = "ex"
    BY <1>1, <1>2, RemovedUnderLock
  <1>4. QED
    BY <1>3, OfdType DEF FlockExclusive

\* What a step of p does to the Item of p.
LEMMA ItemStep ==
  ASSUME TypeOK, NothingFails, NEW p \in Procs, HoldsOK(p), WorksOK(p),
         Caller(p) \/ LockCache(p) \/ Step(p)
  PROVE  \/ /\ item'[p] = item[p] /\ ofd'[ItemFd(p)] = ofd[ItemFd(p)]
            /\ pc[p] # "lock_item" \/ call[p].op # "put_item"
         \/ ~Reads(p) /\ ~Makes(p) /\ ~Reads(p)' /\ ~Makes(p)'
         \/ CloseItem(p)
         \/ CreateKey(p) /\ call[p].op = "put_item"
         \/ LockItem(p) /\ call[p].op \in {"get", "put_item"}
  <1> USE DEF TypeOK
  <1>1. OpFd(p) \in Ofds /\ ItemFd(p) \in Ofds /\ OpFd(p) # ItemFd(p)
    BY OfdType
  <1>2. Handle(p) = IF call[p].op \in {"get", "put_item", "drop"} THEN ItemFd(p) ELSE OpFd(p)
    BY DEF Handle
  <1> DEFINE Same == /\ item'[p] = item[p] /\ ofd'[ItemFd(p)] = ofd[ItemFd(p)]
                     /\ pc[p] # "lock_item" \/ call[p].op # "put_item"
  <1>3. CASE CallPutItem(p) \/ CallGet(p)
    <2>1. /\ item[p] = "none" /\ UNCHANGED ofd
      BY <1>3 DEF CallPutItem, CallGet, Call, locks
    <2>2. ofd[ItemFd(p)] = Closed
      BY <2>1 DEF HoldsOK
    <2>3. QED
      BY <2>1, <2>2 DEF Reads, Makes, Closed
  <1>4. CASE Caller(p) /\ ~CallPutItem(p) /\ ~CallGet(p) /\ ~CloseItem(p)
    <2>1. UNCHANGED <<item, ofd>> /\ pc[p] = "idle"
      BY <1>4
      DEF Caller, InitializeCreate, InitializeOpen, CanInitialize, CallPut, CallPutData,
          CallDel, CallClear, CallPurge, Call, UserWrite, DropPutItem, locks
    <2>2. QED
      BY <2>1
  <1>5. CASE CreateKey(p) \/ OpenKey(p) \/ LockItem(p)
    <2>1. /\ UNCHANGED item
          /\ call[p].op \notin {"get", "put_item", "drop"} => ofd'[ItemFd(p)] = ofd[ItemFd(p)]
      <3>1. \A o \in Ofds : o # Handle(p) => ofd'[o] = ofd[o]
        <4>1. CASE CreateKey(p)
          BY <4>1 DEF CreateKey, VarTypes
        <4>2. CASE OpenKey(p) \/ LockItem(p)
          BY <4>2 DEF OpenKey, LockItem, VarTypes
        <4>3. QED
          BY <1>5, <4>1, <4>2
      <3>2. UNCHANGED item
        BY <1>5 DEF CreateKey, OpenKey, LockItem
      <3>3. QED
        BY <1>1, <1>2, <3>1, <3>2
    <2>2. CASE call[p].op \notin {"get", "put_item", "drop"}
      BY <2>1, <2>2
    <2>3. CASE OpenKey(p) /\ call[p].op = "get"
      <3>1. pc[p] = "open" /\ ofd'[ItemFd(p)].lk = "un"
        BY <1>1, <1>2, <2>3 DEF OpenKey, VarTypes
      <3>2. ofd[ItemFd(p)] = Closed /\ item[p] = "get"
        BY <2>3, <3>1 DEF HoldsOK
      <3>3. QED
        BY <2>1, <3>1, <3>2 DEF Reads, Makes, Closed
    <2>4. QED
      BY <1>5, <2>2, <2>3 DEF CreateKey, OpenKey, LockItem, StageOK, KeyOps, Puts
  <1>6. CASE PurgeLock(p) \/ PurgeRemove(p) \/ Return(p)
    BY <1>1, <1>6 DEF PurgeLock, PurgeRemove, Return, VarTypes
  <1>7. CASE LockCache(p) \/ OpenSource(p) \/ CopyChunk(p) \/ CopyDone(p) \/ WriteData(p)
               \/ RemoveKey(p) \/ ReadInfo(p) \/ WriteInfo(p) \/ Scan(p) \/ ClearRemove(p)
               \/ ClearDone(p) \/ PurgeReadInfo(p) \/ PurgeSkip(p) \/ PurgeDone(p)
               \/ InitializeWrite(p)
    BY <1>7
    DEF LockCache, OpenSource, CopyChunk, CopyDone, WriteData, Writing, RemoveKey,
        ReadInfo, WriteInfo, Scan, ClearRemove, ClearDone, PurgeReadInfo, PurgeSkip,
        PurgeDone, InitializeWrite, locks
  <1>8. CASE Fails(p)
    <2>1. UNCHANGED <<item, ofd>>
      BY <1>8 DEF Fails, locks
    <2>2. call[p].op = "put_item" => pc[p] # "lock_item"
      BY <1>8, NoFailedPut DEF Puts
    <2>3. QED
      BY <2>1, <2>2
  <1>9. QED
    BY <1>3, <1>4, <1>5, <1>6, <1>7, <1>8, Faultless DEF Step, Body

LEMMA OwnsPreserved ==
  ASSUME TypeOK, FilesInv, OneThreadPerInstance, NothingFails, [Next]_vars,
         \A p \in Procs : WorksOK(p), NEW q \in Procs, OwnsOK(q)
  PROVE  OwnsOK(q)'
  <1> USE DEF TypeOK, FilesInv
  <1>1. OpFd(q) \in Ofds /\ ItemFd(q) \in Ofds /\ \A p \in Procs : ItemFd(q) # OpFd(p)
    BY DEF OpFd, ItemFd, Ofds
  <1> DEFINE NamedBy(k) == dir[k] # None /\ dir[k] = ofd[ItemFd(q)].ino
  <1>2. ASSUME Reads(q) \/ Makes(q), ofd[ItemFd(q)].lk # "un",
               ofd'[ItemFd(q)].ino = ofd[ItemFd(q)].ino
        PROVE  \E k \in Keys : NamedBy(k)'
    <2>1. PICK k \in Keys : NamedBy(k)
      BY <1>2 DEF OwnsOK
    <2>2. \A p \in Procs : pc[p] # "clear"
      BY DEF WorksOK
    <2>3. dir'[k] = dir[k]
      BY <1>1, <1>2, <2>1, <2>2, LockedStays
    <2>4. QED
      BY <1>2, <2>1, <2>3
  <1>3. ASSUME item'[q] = item[q], ofd'[ItemFd(q)] = ofd[ItemFd(q)],
               ~(pc[q] = "lock_item" /\ call[q].op = "put_item")
        PROVE  OwnsOK(q)'
    <2>1. Reads(q)' = Reads(q) /\ Makes(q)' = Makes(q)
      BY <1>3 DEF Reads, Makes
    <2>2. Reads(q) \/ Makes(q) => ofd[ItemFd(q)].lk # "un"
      BY <1>3 DEF OwnsOK, Reads
    <2>3. QED
      BY <1>2, <1>3, <2>1, <2>2 DEF OwnsOK
  <1>4. CASE Caller(q) \/ LockCache(q) \/ Step(q)
    <2>1. CASE ~Reads(q)' /\ ~Makes(q)'
      BY <2>1 DEF OwnsOK
    <2>2. CASE CloseItem(q)
      BY <1>1, <2>1, <2>2 DEF CloseItem, VarTypes, Reads, Makes
    <2>3. CASE CreateKey(q) /\ call[q].op = "put_item"
      <3>1. PICK i \in Inodes :
                /\ dir' = [dir EXCEPT ![call[q].key] = i]
                /\ ofd' = [ofd EXCEPT ![Handle(q)] = [ino |-> i, lk |-> "un"]]
        BY <2>3 DEF CreateKey
      <3>2. Handle(q) = ItemFd(q) /\ call[q].key \in Keys
        BY <2>3 DEF Handle, StageOK, KeyOps, Puts
      <3>3. pc'[q] = "lock_item" /\ UNCHANGED <<call, item>>
        BY <2>3 DEF CreateKey, Goto, VarTypes
      <3>4. ofd'[ItemFd(q)].lk = "un" /\ dir'[call[q].key] = i /\ i # None
            /\ ofd'[ItemFd(q)].ino = i
        BY <1>1, <3>1, <3>2, FileCacheAssumption DEF VarTypes
      <3>5. QED
        BY <2>3, <3>2, <3>3, <3>4 DEF OwnsOK
    <2>4. CASE LockItem(q) /\ call[q].op \in {"get", "put_item"}
      <3>1. Handle(q) = ItemFd(q) /\ call[q].key \in Keys /\ pc[q] = "lock_item"
        BY <2>4 DEF Handle, StageOK, KeyOps, Puts, LockItem
      <3>2. ofd'[ItemFd(q)] = [ofd[ItemFd(q)] EXCEPT !.lk = LockKind(q)]
            /\ UNCHANGED <<dir, item>>
        BY <1>1, <2>4, <3>1 DEF LockItem, VarTypes
      <3>3. ofd'[ItemFd(q)].ino = ofd[ItemFd(q)].ino /\ ofd'[ItemFd(q)].lk = LockKind(q)
        BY <1>1, <3>2 DEF VarTypes
      <3>4. ofd[ItemFd(q)].ino = dir[call[q].key] /\ dir[call[q].key] # None
        BY <3>1 DEF WorksOK, HandleOpen, HandleOpenAt
      <3>5. call[q].op = "get" => item[q] = "get"
        BY DEF Holdings, HoldsOK
      <3>6. Makes(q)' => ofd'[ItemFd(q)].lk = "ex"
        BY <2>4, <3>2, <3>3, <3>5 DEF Makes, LockKind
      <3>7. \E k \in Keys : NamedBy(k)'
        BY <3>1, <3>2, <3>3, <3>4
      <3>8. QED
        BY <3>6, <3>7 DEF OwnsOK
    <2>5. QED
      BY <1>3, <1>4, <2>1, <2>2, <2>3, <2>4, ItemStep DEF Holdings
  <1>5. CASE Apart(q) /\ (Inside(q) => UNCHANGED dir)
    <2>1. CASE Inside(q)
      BY <1>5, <2>1 DEF Apart, OwnsOK, Reads, Makes
    <2>2. CASE ~Inside(q)
      BY <1>3, <1>5, <2>2 DEF Apart, Inside
    <2>3. QED
      BY <2>1, <2>2
  <1>6. QED
    BY <1>4, <1>5, OwnOrApart

\* A file that has a name is not emptied.
LEMMA FullStays ==
  ASSUME TypeOK, [Next]_vars, NEW k \in Keys, dir'[k] \in Inodes, file[dir'[k]].full
  PROVE  file'[dir'[k]].full
  <1> USE DEF TypeOK
  <1> DEFINE Filled == \A i \in Inodes : file[i].full => file'[i].full
  <1>1. CASE Reclaim
    BY <1>1, ReclaimLinked
  <1>2. ASSUME NEW p \in Procs, Caller(p)
        PROVE  Filled \/ Reclaim
    <2>1. CASE DropPutItem(p)
      BY <2>1 DEF DropPutItem, VarTypes
    <2>2. CASE UserWrite(p)
      BY <2>2 DEF UserWrite, VarTypes
    <2>3. CASE CloseItem(p) \/ UNCHANGED file
      BY <2>3 DEF CloseItem
    <2>4. QED
      BY <1>2, <2>1, <2>2, <2>3
      DEF Caller, InitializeCreate, InitializeOpen, CallPut, CallPutData, CallPutItem,
          CallGet, CallDel, CallClear, CallPurge, disk
  <1>3. ASSUME NEW p \in Procs, LockCache(p) \/ Step(p)
        PROVE  Filled \/ Reclaim
    <2>1. CASE CreateKey(p)
      BY <2>1 DEF CreateKey, VarTypes
    <2>2. CASE LockItem(p) \/ PurgeLock(p)
      <3>1. PICK i : Touch(i)
        BY <2>2 DEF LockItem, PurgeLock
      <3>2. QED
        BY <3>1 DEF Touch, VarTypes
    <2>3. CASE CopyChunk(p) \/ CopyDone(p)
      BY <2>3 DEF CopyChunk, CopyDone, VarTypes
    <2>4. CASE WriteData(p)
      BY <2>4 DEF WriteData, VarTypes
    <2>5. CASE WriteFails(p)
      <3>1. PICK v : file' = [file EXCEPT ![ofd[OpFd(p)].ino].size = v]
        BY <2>5 DEF WriteFails
      <3>2. QED
        BY <3>1 DEF VarTypes
    <2>6. CASE Reclaim \/ UNCHANGED file
      BY <2>6
    <2>7. QED
      BY <1>3, <2>1, <2>2, <2>3, <2>4, <2>5, <2>6
      DEF LockCache, LockCacheFails, Step, Return, Body, OpenKey, OpenSource,
          CopyReadError, RemoveKey, ReadInfo, WriteInfo, Scan, ClearRemove, ClearDone,
          PurgeReadInfo, PurgeSkip, PurgeRemove, PurgeDone, Fails, InitializeWrite,
          InitializeFails, disk
  <1>4. Filled \/ Reclaim
    BY <1>2, <1>3 DEF Next, Tick, Destroy, Crash, vars, disk
  <1>5. QED
    BY <1>1, <1>4

\* A writer goes on writing its file until that is full.
LEMMA WriterStays ==
  ASSUME TypeOK, HandleOpen, NothingFails, NEW p \in Procs, HoldsOK(p), WorksOK(p),
         Caller(p) \/ LockCache(p) \/ Step(p)
  PROVE  /\ CallWrites(p) => \/ CallWrites(p)' /\ ofd'[OpFd(p)].ino = ofd[OpFd(p)].ino
                             \/ CopyDone(p) \/ WriteData(p)
         /\ ItemWrites(p) => \/ ItemWrites(p)' /\ ofd'[ItemFd(p)].ino = ofd[ItemFd(p)].ino
                             \/ DropPutItem(p)
  <1> USE DEF TypeOK
  <1>1. OpFd(p) \in Ofds /\ ItemFd(p) \in Ofds /\ OpFd(p) # ItemFd(p)
    BY OfdType
  <1>2. CASE LockItem(p)
    <2>1. UNCHANGED item /\ call'[p].op = call[p].op /\ pc[p] = "lock_item"
          /\ \A o \in Ofds : ofd'[o].ino = ofd[o].ino
      BY <1>2 DEF LockItem, Exit, VarTypes, Calls
    <2>2. pc'[p] = CASE call[p].op \in {"get", "put_item"} -> "return"
                     [] call[p].op = "put" -> "open_source"
                     [] call[p].op = "put_data" -> "write"
                     [] OTHER -> "remove"
      BY <1>2 DEF LockItem, Exit, Goto, VarTypes
    <2>3. QED
      BY <1>1, <2>1, <2>2 DEF CallWrites, ItemWrites
  <1>3. CASE OpenSource(p) \/ CopyChunk(p)
    BY <1>3 DEF OpenSource, CopyChunk, Writing, CallWrites, ItemWrites, VarTypes, Goto, locks
  <1>4. CASE CallWrites(p) /\ ~(LockItem(p) \/ OpenSource(p) \/ CopyChunk(p))
    <2>1. pc[p] \in {"lock_item", "open_source", "write"}
          /\ call[p].op \in {"put", "put_data"} /\ call[p].op \in Puts
      BY <1>4 DEF CallWrites, Puts
    <2>2. ~Fails(p) \/ pc[p] = "write"
      BY <2>1, NoFailedPut
    <2>3. CopyDone(p) \/ WriteData(p)
      BY <1>4, <2>1, <2>2, Faultless
      DEF Caller, InitializeCreate, InitializeOpen, CanInitialize, CallPut, CallPutData,
          CallPutItem, CallGet, CallDel, CallClear, CallPurge, Call, UserWrite,
          DropPutItem, CloseItem, LockCache, Step, Return, Body, CreateKey, OpenKey,
          RemoveKey, ReadInfo, WriteInfo, Scan, ClearRemove, ClearDone, PurgeReadInfo,
          PurgeLock, PurgeSkip, PurgeRemove, PurgeDone, Fails, CanFail, InitializeWrite
    <2>4. ItemWrites(p) => ItemWrites(p)' /\ ofd'[ItemFd(p)].ino = ofd[ItemFd(p)].ino
      <3>1. UNCHANGED <<item, ofd, call>> /\ pc'[p] = "read_info"
        BY <2>3 DEF CopyDone, WriteData, Goto, VarTypes, locks
      <3>2. QED
        BY <3>1 DEF ItemWrites
    <2>5. QED
      BY <2>3, <2>4
  <1>5. ASSUME ItemWrites(p), ~DropPutItem(p), ~LockItem(p)
        PROVE  ItemWrites(p)' /\ ofd'[ItemFd(p)].ino = ofd[ItemFd(p)].ino
    <2>1. item[p] = "put" /\ ofd[ItemFd(p)].ino # None /\ call[p].op \notin {"drop", "get"}
          /\ pc[p] # "close_item"
      BY <1>5 DEF ItemWrites, HoldsOK
    <2>2. ~CloseItem(p)
      BY <2>1 DEF CloseItem
    <2>3. ~CreateKey(p) \/ call[p].op # "put_item"
      BY <2>1 DEF CreateKey, HoldsOK, Closed
    <2>5. item'[p] = item[p] /\ ofd'[ItemFd(p)] = ofd[ItemFd(p)]
      <3>1. CASE Caller(p)
        BY <2>1, <2>2, <3>1
        DEF Caller, InitializeCreate, InitializeOpen, CallPut, CallPutData, CallPutItem,
            CallGet, CallDel, CallClear, CallPurge, Call, UserWrite, DropPutItem, locks
      <3>2. CASE CreateKey(p)
        <4>1. Handle(p) # ItemFd(p) /\ UNCHANGED item
          BY <1>1, <2>1, <2>3, <3>2 DEF Handle, CreateKey
        <4>2. QED
          BY <1>1, <3>2, <4>1 DEF CreateKey, VarTypes
      <3>3. CASE OpenKey(p)
        BY <1>1, <2>1, <3>3 DEF OpenKey, StageOK, Handle, VarTypes
      <3>4. CASE PurgeLock(p) \/ PurgeRemove(p) \/ Return(p)
        BY <1>1, <3>4 DEF PurgeLock, PurgeRemove, Return, VarTypes
      <3>5. CASE (LockCache(p) \/ Step(p)) /\ UNCHANGED <<item, ofd>>
        BY <3>5
      <3>6. QED
        BY <1>5, <3>1, <3>2, <3>3, <3>4, <3>5, Faultless
        DEF LockCache, Step, Body, OpenSource, CopyChunk, CopyDone, WriteData, RemoveKey,
            ReadInfo, WriteInfo, Scan, ClearRemove, ClearDone, PurgeReadInfo, PurgeSkip,
            PurgeDone, Fails, InitializeWrite, locks
    <2>6. call'[p].op # "drop" /\ pc'[p] # "close_item"
      <3>1. CASE Caller(p)
        BY <1>5, <2>1, <2>2, <3>1
        DEF Caller, InitializeCreate, InitializeOpen, CallPut, CallPutData, CallPutItem,
            CallGet, CallDel, CallClear, CallPurge, Call, UserWrite, VarTypes, Goto
      <3>2. CASE LockCache(p) \/ Return(p) \/ InitializeWrite(p)
        BY <2>1, <3>2
        DEF LockCache, Return, InitializeWrite, VarTypes, Goto, Entry, AfterCall, NoCall
      <3>3. CASE Body(p)
        BY <2>1, <3>3, BodyStays DEF Inside
      <3>4. QED
        BY <3>1, <3>2, <3>3, Faultless DEF Step
    <2>7. QED
      BY <2>1, <2>5, <2>6 DEF ItemWrites
  <1>6. QED
    BY <1>2, <1>3, <1>4, <1>5

\* Only create_key() makes a name.
LEMMA NameMade ==
  ASSUME TypeOK, [Next]_vars, NEW k \in Keys, dir[k] = None, dir'[k] # None
  PROVE  \E p \in Procs : CreateKey(p)
  <1>1. ~UNCHANGED dir
    OBVIOUS
  <1>2. \A p \in Procs : ~RemoveKey(p) /\ ~PurgeRemove(p) /\ ~ClearRemove(p)
    BY DEF RemoveKey, PurgeRemove, ClearRemove, TypeOK, VarTypes
  <1>3. QED
    BY <1>1, <1>2, NamesKept

LEMMA CompletePreserved ==
  ASSUME TypeOK, FilesInv, StoreInv, OneThreadPerInstance, NothingFails, [Next]_vars
  PROVE  Complete'
  <1> USE DEF TypeOK, FilesInv, Contents
  <1> SUFFICES ASSUME NEW k \in Keys, dir'[k] # None, ~file'[dir'[k]].full
               PROVE  \E o \in Ofds : Writer(o)' /\ ofd'[o].ino = dir'[k]
    BY DEF Complete
  <1>1. VarTypes'
    BY VarTypesPreserved
  <1>2. dir'[k] \in Inodes
    BY <1>1 DEF VarTypes
  <1>3. Holdings'
    BY HoldingsPreserved
  <1>4. CASE dir'[k] # dir[k]
    <2>1. PICK p \in Procs : CreateKey(p)
      <3>1. \A p \in Procs : ~ClearRemove(p)
        BY DEF ClearRemove, StoreInv, WorksOK
      <3>2. dir[k] = None
        BY <1>4, <3>1, RemovedUnderLock
      <3>3. QED
        BY <1>4, <3>2, NameMade
    <2>2. /\ Handle(p) \in Ofds
          /\ dir' = [dir EXCEPT ![call[p].key] = ofd'[Handle(p)].ino]
      BY <2>1, WriterMade
    <2>3. dir'[k] = ofd'[Handle(p)].ino
      BY <1>4, <2>2 DEF VarTypes
    <2>4. UNCHANGED <<call, item>> /\ pc'[p] = "lock_item" /\ pc[p] = "create"
          /\ call[p].op \in Puts
      BY <2>1 DEF CreateKey, Goto, VarTypes, StageOK
    <2>5. CallWrites(p)' \/ Handle(p) = ItemFd(p)
      BY <1>2, <1>4, <2>3, <2>4, FileCacheAssumption DEF CallWrites, Handle, Puts
    <2>6. call[p].op = "put_item" => item[p] = "put"
      BY DEF Holdings, HoldsOK
    <2>7. Handle(p) = ItemFd(p) => call[p].op = "put_item"
      BY <2>4, OfdType DEF Handle, Puts
    <2>8. Handle(p) = ItemFd(p) => ItemWrites(p)'
      BY <1>2, <2>3, <2>4, <2>6, <2>7, FileCacheAssumption DEF ItemWrites
    <2>9. Handle(p) \in {OpFd(p), ItemFd(p)}
      BY DEF Handle
    <2>10. \/ Handle(p) = OpFd(p) /\ CallWrites(p)'
           \/ Handle(p) = ItemFd(p) /\ ItemWrites(p)'
      BY <2>5, <2>8, <2>9
    <2>11. ASSUME NEW o \in Ofds, \/ o = OpFd(p) /\ CallWrites(p)'
                                  \/ o = ItemFd(p) /\ ItemWrites(p)'
           PROVE  Writer(o)'
      BY <2>11 DEF Writer, OpFd, ItemFd
    <2>12. QED
      BY <2>2, <2>3, <2>10, <2>11
  <1>5. CASE dir'[k] = dir[k]
    <2>1. ~file[dir[k]].full
      BY <1>2, <1>5, FullStays
    <2>2. PICK o \in Ofds : Writer(o) /\ ofd[o].ino = dir[k]
      BY <1>5, <2>1 DEF StoreInv, Complete
    <2>3. PICK q \in Procs : \/ o = OpFd(q) /\ CallWrites(q)
                             \/ o = ItemFd(q) /\ ItemWrites(q)
      BY <2>2 DEF Writer
    <2>4. CASE Apart(q)
      <3>1. ofd'[o] = ofd[o] /\ Writer(o)'
        BY <2>3, <2>4 DEF Apart, Writer, CallWrites, ItemWrites, OpFd, ItemFd
      <3>2. QED
        BY <1>5, <2>2, <3>1
    <2>5. CASE Caller(q) \/ LockCache(q) \/ Step(q)
      <3>1. HoldsOK(q) /\ WorksOK(q)
        BY DEF Holdings, StoreInv
      <3>2. ~(o = OpFd(q) /\ (CopyDone(q) \/ WriteData(q)))
        <4>1. ASSUME CopyDone(q), o = OpFd(q)
              PROVE  FALSE
          BY <1>2, <1>5, <2>2, <4>1 DEF CopyDone, VarTypes
        <4>2. ASSUME WriteData(q), o = OpFd(q)
              PROVE  FALSE
          BY <1>2, <1>5, <2>2, <4>2 DEF WriteData, VarTypes
        <4>3. QED
          BY <4>1, <4>2
      <3>3. ~(o = ItemFd(q) /\ DropPutItem(q))
        <4>1. ASSUME DropPutItem(q), o = ItemFd(q)
              PROVE  file'[dir[k]] = [file[dir[k]] EXCEPT !.full = TRUE]
          BY <1>2, <1>5, <2>2, <4>1 DEF DropPutItem, VarTypes
        <4>2. file[dir[k]] \in [size : Nat, full : BOOLEAN, atime : Nat]
          BY <1>2, <1>5 DEF VarTypes
        <4>3. QED
          BY <1>2, <1>5, <4>1, <4>2
      <3>4. /\ CallWrites(q) => \/ CallWrites(q)' /\ ofd'[OpFd(q)].ino = ofd[OpFd(q)].ino
                                \/ CopyDone(q) \/ WriteData(q)
            /\ ItemWrites(q) => \/ ItemWrites(q)' /\ ofd'[ItemFd(q)].ino = ofd[ItemFd(q)].ino
                                \/ DropPutItem(q)
        BY <2>5, <3>1, WriterStays
      <3>5. \/ o = OpFd(q) /\ CallWrites(q)' /\ ofd'[o].ino = dir[k]
            \/ o = ItemFd(q) /\ ItemWrites(q)' /\ ofd'[o].ino = dir[k]
        BY <2>2, <2>3, <3>2, <3>3, <3>4
      <3>6. QED
        BY <1>5, <3>5 DEF Writer, OpFd, ItemFd
    <2>6. QED
      BY <2>4, <2>5, OwnOrApart
  <1>6. QED
    BY <1>4, <1>5

LEMMA StoreInvPreserved ==
  ASSUME TypeOK, FilesInv, StoreInv, OneThreadPerInstance, NothingFails, [Next]_vars
  PROVE  StoreInv'
  <1>1. \A q \in Procs : WorksOK(q) /\ OwnsOK(q)
    BY DEF StoreInv
  <1>2. \A q \in Procs : WorksOK(q)'
    BY <1>1, WorksPreserved DEF FilesInv
  <1>3. \A q \in Procs : OwnsOK(q)'
    BY <1>1, OwnsPreserved
  <1>4. QED
    BY <1>2, <1>3, CompletePreserved DEF StoreInv

LEMMA StoreInvInit == Init => StoreInv
  <1> SUFFICES ASSUME Init
               PROVE  StoreInv
    OBVIOUS
  <1>1. \A p \in Procs : /\ pc[p] = "idle" /\ call[p] = NoCall /\ item[p] = "none"
    BY DEF Init
  <1>2. \A p \in Procs : WorksOK(p) /\ OwnsOK(p)
    BY <1>1 DEF WorksOK, OwnsOK, Reads, Makes, NoCall, Puts
  <1>3. Complete
    BY DEF Init, Complete
  <1>4. QED
    BY <1>2, <1>3 DEF StoreInv

-----------------------------------------------------------------------------
(* The cache is a shared store.                                            *)

\* The step by which the writer of file i is done with it.
Finishes(p, i) ==
    \/ (CopyDone(p) \/ WriteData(p)) /\ ofd[OpFd(p)].ino = i
    \/ DropPutItem(p) /\ ofd[ItemFd(p)].ino = i

\* A size that fits into some file is an amount that somebody may have stored.
LEMMA FitsAmounts ==
  ASSUME NEW n \in Nat, Fits(n)
  PROVE  n \in Amounts
  <1>1. ASSUME NEW m \in Sizes, n <= m
        PROVE  n \in 0..m
    BY <1>1, FileCacheAssumption
  <1>2. QED
    BY <1>1 DEF Amounts, Fits

\* The value of a key that keeps its file stays, or it is stored at once and whole
\* where there was none.
LEMMA StoredStays ==
  ASSUME TypeOK, FilesInv, FilesFit', [Next]_vars, NEW k \in Keys, dir'[k] = dir[k]
  PROVE  \/ Stored'[k] = Stored[k]
         \/ /\ Stored[k] = None /\ Stored'[k] \in Amounts /\ dir[k] # None
            /\ \E p \in Procs : Finishes(p, dir[k])
  <1> USE DEF TypeOK, FilesInv, Contents
  <1> DEFINE i == dir[k]
  <1>1. CASE i = None
    BY <1>1 DEF Stored
  <1>2. CASE i # None /\ file[i].full
    <2>1. i \in Inodes
      BY <1>2 DEF VarTypes
    <2>2. file'[i].full
      BY <1>2, <2>1, FullStays
    <2>3. file'[i].size = file[i].size
      BY <1>2, <2>1, <2>2, SizeStep DEF WritersNotFull, Blank
    <2>4. QED
      BY <1>2, <2>2, <2>3 DEF Stored
  <1>3. CASE i # None /\ ~file[i].full /\ file'[i].full
    <2>1. i \in Inodes
      BY <1>3 DEF VarTypes
    <2>2. \E p \in Procs : Finishes(p, i)
      BY <1>3, <2>1, FullStep DEF Finishes
    <2>3. Stored[k] = None /\ Stored'[k] = file'[i].size
      BY <1>3 DEF Stored
    <2>4. file'[i].size \in Nat
      BY <2>1, VarTypesPreserved DEF VarTypes
    <2>5. Fits(file'[i].size)
      BY <2>1 DEF FilesFit, Fits
    <2>6. file'[i].size \in Amounts
      BY <2>4, <2>5, FitsAmounts
    <2>7. QED
      BY <1>3, <2>2, <2>3, <2>6
  <1>4. CASE i # None /\ ~file[i].full /\ ~file'[i].full
    BY <1>4 DEF Stored
  <1>5. QED
    BY <1>1, <1>2, <1>3, <1>4

\* Only the thread of control that takes the step finishes a file.
LEMMA FinishesAlone ==
  ASSUME TypeOK, NEW p \in Procs, Caller(p) \/ LockCache(p) \/ Step(p),
         NEW q \in Procs, NEW i, Finishes(q, i)
  PROVE  q = p
  <1>1. pc'[q] # pc[q]
    BY DEF Finishes, CopyDone, WriteData, Writing, DropPutItem, Goto, TypeOK, VarTypes
  <1>2. QED
    BY <1>1, OthersApart DEF Apart

LEMMA ChooseOnly ==
  ASSUME NEW K, NEW d, NEW i, NEW k \in K, d[k] = i, \A l \in K : d[l] = i => l = k
  PROVE  (CHOOSE l \in K : d[l] = i) = k
  OBVIOUS

\* What a caller has open for reading is the file of one key.
LEMMA PinnedKey ==
  ASSUME OneName, NEW p \in Procs, OwnsOK(p)
  PROVE  /\ Reads(p) => \E k \in Keys : /\ Pinned[p] = k /\ dir[k] # None
                                        /\ dir[k] = ofd[ItemFd(p)].ino
         /\ ~Reads(p) => Pinned[p] = None
  <1>1. CASE Reads(p)
    <2>1. PICK k \in Keys : dir[k] # None /\ dir[k] = ofd[ItemFd(p)].ino
      BY <1>1 DEF OwnsOK
    <2>2. (CHOOSE l \in Keys : dir[l] = ofd[ItemFd(p)].ino) = k
      BY <2>1 DEF OneName
    <2>3. QED
      BY <1>1, <2>1, <2>2 DEF Pinned, Reads
  <1>2. CASE ~Reads(p)
    BY <1>2 DEF Pinned, Reads
  <1>3. QED
    BY <1>1, <1>2

\* The key a caller reads stays, unless it takes or closes an Item.
LEMMA PinnedStays ==
  ASSUME TypeOK, FilesInv, StoreInv, OneName', [Next]_vars, NEW q \in Procs,
         item'[q] = item[q], ofd'[ItemFd(q)] = ofd[ItemFd(q)]
  PROVE  Pinned'[q] = Pinned[q]
  <1> USE DEF FilesInv, Contents
  <1>1. CASE Reads(q)
    <2>1. PICK k \in Keys : /\ Pinned[q] = k /\ dir[k] # None
                            /\ dir[k] = ofd[ItemFd(q)].ino
      BY <1>1, PinnedKey DEF StoreInv
    <2>2. ItemFd(q) \in Ofds /\ \A p \in Procs : ItemFd(q) # OpFd(p)
      BY DEF OpFd, ItemFd, Ofds
    <2>3. \A p \in Procs : pc[p] # "clear"
      BY DEF StoreInv, WorksOK
    <2>4. dir'[k] = dir[k]
      BY <1>1, <2>1, <2>2, <2>3, LockedStays DEF Reads
    <2>5. \A l \in Keys : dir'[l] = ofd'[ItemFd(q)].ino => l = k
      BY <2>1, <2>4 DEF OneName
    <2>6. (CHOOSE l \in Keys : dir'[l] = ofd'[ItemFd(q)].ino) = k
      BY <2>1, <2>4, <2>5, ChooseOnly
    <2>7. QED
      BY <1>1, <2>1, <2>4, <2>6 DEF Pinned, Reads
  <1>2. CASE ~Reads(q)
    BY <1>2 DEF Pinned, Reads
  <1>3. QED
    BY <1>1, <1>2

LEMMA PinnedOthers ==
  ASSUME TypeOK, FilesInv, StoreInv, OneName', [Next]_vars, NEW p \in Procs,
         Caller(p) \/ LockCache(p) \/ Step(p), NEW q \in Procs, q # p
  PROVE  Pinned'[q] = Pinned[q]
  BY OthersApart, PinnedStays DEF Apart

\* But for lock_the_item() in get() and ~Item(), a step pins and releases nothing.
LEMMA PinnedOwn ==
  ASSUME TypeOK, FilesInv, StoreInv, OneName', [Next]_vars, NothingFails,
         NEW p \in Procs, Caller(p) \/ LockCache(p) \/ Step(p),
         ~CloseItem(p), ~(LockItem(p) /\ call[p].op = "get")
  PROVE  UNCHANGED Pinned
  <1> USE DEF FilesInv
  <1>1. Pinned'[p] = Pinned[p]
    <2>1. CASE item'[p] = item[p] /\ ofd'[ItemFd(p)] = ofd[ItemFd(p)]
      BY <2>1, PinnedStays
    <2>2. CASE ~Reads(p) /\ ~Reads(p)'
      BY <2>2 DEF Pinned, Reads
    <2>3. CASE (CreateKey(p) \/ LockItem(p)) /\ call[p].op = "put_item"
      <3>1. item[p] = "put" /\ UNCHANGED item
        BY <2>3 DEF Holdings, HoldsOK, CreateKey, LockItem
      <3>2. QED
        BY <3>1 DEF Pinned
    <2>4. HoldsOK(p) /\ WorksOK(p)
      BY DEF Holdings, StoreInv
    <2>5. QED
      BY <2>1, <2>2, <2>3, <2>4, ItemStep
  <1>2. \A q \in Procs : Pinned'[q] = Pinned[q]
    BY <1>1, PinnedOthers
  <1>3. QED
    BY <1>2 DEF Pinned

\* A put, or the destructor of a PutItem, stores a value where there is none.
LEMMA FinishPuts ==
  ASSUME TypeOK, FilesInv, FilesFit', StoreInv, OneName', [Next]_vars, NothingFails,
         NEW p \in Procs, CopyDone(p) \/ WriteData(p) \/ DropPutItem(p)
  PROVE  \/ UNCHANGED <<Stored, Pinned>>
         \/ \E k \in Keys, v \in Amounts : Store!Put(k, v)
  <1> USE DEF TypeOK, FilesInv, Contents
  <1>1. /\ Caller(p) \/ LockCache(p) \/ Step(p)
        /\ ~CloseItem(p) /\ ~LockItem(p) /\ UNCHANGED dir
    BY DEF CopyDone, WriteData, Writing, DropPutItem, CloseItem, LockItem, Caller, Step, Body
  <1>2. UNCHANGED Pinned
    BY <1>1, PinnedOwn
  <1>3. CASE \A k \in Keys : Stored'[k] = Stored[k]
    BY <1>2, <1>3 DEF Stored
  <1>4. CASE \E k \in Keys : Stored'[k] # Stored[k]
    <2>1. PICK k \in Keys : Stored'[k] # Stored[k]
      BY <1>4
    <2>2. /\ Stored[k] = None /\ Stored'[k] \in Amounts /\ dir[k] # None
          /\ \E q \in Procs : Finishes(q, dir[k])
      BY <1>1, <2>1, StoredStays
    <2>3. Finishes(p, dir[k])
      BY <1>1, <2>2, FinishesAlone
    <2>4. ASSUME NEW l \in Keys, l # k
          PROVE  Stored'[l] = Stored[l]
      <3>1. SUFFICES ASSUME Stored'[l] # Stored[l]
                     PROVE  FALSE
        OBVIOUS
      <3>2. dir[l] # None /\ \E q \in Procs : Finishes(q, dir[l])
        BY <1>1, <3>1, StoredStays
      <3>3. Finishes(p, dir[l])
        BY <1>1, <3>2, FinishesAlone
      <3>4. dir[l] = dir[k]
        BY <2>3, <3>3 DEF Finishes, CopyDone, WriteData, Writing, DropPutItem
      <3>5. QED
        BY <2>2, <2>4, <3>4 DEF OneName
    <2>5. Stored' = [Stored EXCEPT ![k] = Stored'[k]]
      BY <2>4 DEF Stored
    <2>6. QED
      BY <1>2, <2>2, <2>5 DEF Store!Put
  <1>5. QED
    BY <1>3, <1>4

\* del() and purge() withdraw a value that nobody reads.
LEMMA RemoveWithdraws ==
  ASSUME TypeOK, FilesInv, FilesFit', StoreInv, OneName', [Next]_vars, NothingFails,
         NEW p \in Procs, RemoveKey(p) \/ PurgeRemove(p)
  PROVE  \/ UNCHANGED <<Stored, Pinned>>
         \/ \E k \in Keys : Store!Withdraw(k)
  <1> USE DEF TypeOK, FilesInv, Contents
  <1>1. /\ Caller(p) \/ LockCache(p) \/ Step(p)
        /\ ~CloseItem(p) /\ ~LockItem(p)
    BY DEF RemoveKey, PurgeRemove, CloseItem, LockItem, Step, Body
  <1>2. UNCHANGED Pinned
    BY <1>1, PinnedOwn
  <1>3. ASSUME NEW l \in Keys, dir'[l] = dir[l]
        PROVE  Stored'[l] = Stored[l]
    <2>1. SUFFICES ASSUME Stored'[l] # Stored[l]
                   PROVE  FALSE
      OBVIOUS
    <2>2. \E q \in Procs : Finishes(q, dir[l])
      BY <1>3, <2>1, StoredStays
    <2>3. Finishes(p, dir[l])
      BY <1>1, <2>2, FinishesAlone
    <2>4. QED
      BY <2>3
      DEF Finishes, CopyDone, WriteData, Writing, DropPutItem, RemoveKey, PurgeRemove
  <1>4. CASE UNCHANGED dir
    BY <1>2, <1>3, <1>4 DEF Stored
  <1>5. CASE ~UNCHANGED dir
    <2> DEFINE k == call[p].key
    <2>1. k \in Keys /\ dir[k] # None /\ dir' = [dir EXCEPT ![k] = None]
      BY <1>5 DEF RemoveKey, PurgeRemove, StageOK, KeyOps
    <2>2. ofd[OpFd(p)].ino = dir[k] /\ ofd[OpFd(p)].lk = "ex"
      BY DEF RemoveKey, PurgeRemove, HandleOpen, HandleOpenAt, StageOK
    <2>3. dir'[k] = None /\ \A l \in Keys \ {k} : dir'[l] = dir[l]
      BY <2>1 DEF VarTypes
    <2>4. Stored' = [Stored EXCEPT ![k] = None]
      <3>1. Stored'[k] = None
        BY <2>1, <2>3 DEF Stored
      <3>2. \A l \in Keys \ {k} : Stored'[l] = Stored[l]
        BY <1>3, <2>3
      <3>3. QED
        BY <3>1, <3>2 DEF Stored
    <2>5. ASSUME NEW q \in Procs, Pinned[q] = k
          PROVE  FALSE
      <3>1. OwnsOK(q)
        BY DEF StoreInv
      <3>2. k # None
        BY <2>1, FileCacheAssumption
      <3>3. Reads(q) /\ ofd[ItemFd(q)].ino = dir[k]
        BY <2>5, <3>1, <3>2, PinnedKey
      <3>4. ItemFd(q) \in Ofds /\ OpFd(p) \in Ofds /\ ItemFd(q) # OpFd(p)
        BY DEF OpFd, ItemFd, Ofds
      <3>5. QED
        BY <2>1, <2>2, <3>3, <3>4 DEF FlockExclusive, Reads
    <2>6. QED
      BY <1>2, <2>1, <2>4, <2>5 DEF Store!Withdraw
  <1>6. QED
    BY <1>4, <1>5

\* lock_the_item() in get() finds the file whole: no writer lets go of it before.
LEMMA LockItemGets ==
  ASSUME TypeOK, FilesInv, FilesFit, FilesFit', StoreInv, OneName',
         OneThreadPerInstance, [Next]_vars, NothingFails, NEW p \in Procs, LockItem(p), call[p].op = "get"
  PROVE  \E k \in Keys : Store!Get(p, k)
  <1> USE DEF TypeOK, FilesInv, Contents
  <1> DEFINE k == call[p].key
  <1>1. Caller(p) \/ LockCache(p) \/ Step(p)
    BY DEF Step, Body
  <1>2. /\ k \in Keys /\ Handle(p) = ItemFd(p) /\ pc[p] = "lock_item"
        /\ LockKind(p) = "sh" /\ item[p] = "get"
    BY DEF LockItem, StageOK, KeyOps, Handle, LockKind, Holdings, HoldsOK
  <1>3. ofd[ItemFd(p)].ino = dir[k] /\ dir[k] # None /\ ofd[ItemFd(p)].lk = "un"
    BY <1>2 DEF StoreInv, WorksOK, HandleOpen, HandleOpenAt
  <1>4. file[dir[k]].full
    <2>1. SUFFICES ASSUME ~file[dir[k]].full
                   PROVE  FALSE
      OBVIOUS
    <2>2. PICK o \in Ofds : Writer(o) /\ ofd[o].ino = dir[k]
      BY <1>2, <1>3, <2>1 DEF StoreInv, Complete
    <2>3. PICK q \in Procs : \/ o = OpFd(q) /\ CallWrites(q)
                             \/ o = ItemFd(q) /\ ItemWrites(q)
      BY <2>2 DEF Writer
    <2>4. ~CallWrites(p) /\ ~ItemWrites(p)
      BY <1>2 DEF CallWrites, ItemWrites
    <2>5. ~Inside(q)
      BY <1>2, <2>3, <2>4 DEF InsideLocked, OneThreadPerInstance, Inside
    <2>6. o = ItemFd(q) /\ item[q] = "put" /\ ofd[o].lk = "ex"
      BY <2>3, <2>5 DEF CallWrites, ItemWrites, Inside, StoreInv, OwnsOK, Makes
    <2>7. o # ItemFd(p)
      BY <1>3, <2>6
    <2>8. QED
      BY <1>2, <1>3, <2>2, <2>6, <2>7 DEF LockItem, CanLock
  <1>5. UNCHANGED Stored
    <2>1. UNCHANGED dir /\ \A q \in Procs : \A i : ~Finishes(q, i)
      <3>1. UNCHANGED dir /\ \A i : ~Finishes(p, i)
        BY DEF LockItem, Finishes, CopyDone, WriteData, Writing, DropPutItem
      <3>2. QED
        BY <1>1, <3>1, FinishesAlone
    <2>2. \A l \in Keys : Stored'[l] = Stored[l]
      BY <2>1, StoredStays
    <2>3. QED
      BY <2>2 DEF Stored
  <1>6. Pinned[p] = None /\ Stored[k] # None
    <2>1. dir[k] \in Inodes
      BY <1>2, <1>3 DEF VarTypes
    <2>2. file[dir[k]].size # None
      BY <2>1, FitsAmounts, AmountsAssumption DEF VarTypes, FilesFit
    <2>3. QED
      BY <1>2, <1>3, <1>4, <2>2 DEF Pinned, Stored
  <1>7. Pinned'[p] = k
    <2>1. /\ ofd'[ItemFd(p)].ino = dir[k] /\ ofd'[ItemFd(p)].lk = "sh"
          /\ item'[p] = "get" /\ UNCHANGED dir
      BY <1>2, <1>3, OfdType DEF LockItem, VarTypes
    <2>2. \A l \in Keys : dir'[l] = ofd'[ItemFd(p)].ino => l = k
      BY <1>2, <1>3, <2>1 DEF OneName
    <2>3. (CHOOSE l \in Keys : dir'[l] = ofd'[ItemFd(p)].ino) = k
      BY <1>2, <2>1, <2>2, ChooseOnly
    <2>4. QED
      BY <1>2, <2>1, <2>3 DEF Pinned
  <1>8. Pinned' = [Pinned EXCEPT ![p] = k]
    <2>1. \A q \in Procs \ {p} : Pinned'[q] = Pinned[q]
      BY <1>1, PinnedOthers
    <2>2. QED
      BY <1>7, <2>1 DEF Pinned
  <1>9. QED
    BY <1>2, <1>5, <1>6, <1>8 DEF Store!Get

\* ~Item() gives its key back, whatever becomes of its file.
LEMMA CloseReleases ==
  ASSUME TypeOK, FilesInv, FilesFit', StoreInv, OneName', [Next]_vars, NothingFails,
         NEW p \in Procs, CloseItem(p)
  PROVE  Store!Release(p)
  <1> USE DEF TypeOK
  <1>1. Caller(p)
    BY DEF Caller
  <1>2. UNCHANGED dir /\ \A q \in Procs : \A i : ~Finishes(q, i)
    <2>1. UNCHANGED dir /\ \A i : ~Finishes(p, i)
      <3>1. pc'[p] = "idle" /\ UNCHANGED dir
        BY DEF CloseItem, Goto, VarTypes
      <3>2. QED
        BY <3>1
        DEF Finishes, CopyDone, WriteData, DropPutItem, Goto, VarTypes
    <2>2. QED
      BY <1>1, <2>1, FinishesAlone
  <1>3. \A l \in Keys : Stored'[l] = Stored[l]
    BY <1>2, StoredStays
  <1>4. UNCHANGED Stored
    BY <1>3 DEF Stored
  <1>5. Pinned'[p] = None
    BY DEF CloseItem, Pinned, VarTypes
  <1>6. \A q \in Procs \ {p} : Pinned'[q] = Pinned[q]
    BY <1>1, PinnedOthers
  <1>7. Pinned' = [Pinned EXCEPT ![p] = None]
    BY <1>5, <1>6 DEF Pinned
  <1>8. QED
    BY <1>4, <1>7 DEF Store!Release

\* Every other step is none of the store.
LEMMA OtherStepsStutter ==
  ASSUME TypeOK, FilesInv, FilesFit', StoreInv, OneName', [Next]_vars, NothingFails,
         \A p \in Procs : /\ ~CopyDone(p) /\ ~WriteData(p) /\ ~DropPutItem(p)
                          /\ ~RemoveKey(p) /\ ~PurgeRemove(p) /\ ~CloseItem(p)
                          /\ ~(LockItem(p) /\ call[p].op = "get")
  PROVE  UNCHANGED <<Stored, Pinned>>
  <1> USE DEF TypeOK, FilesInv, Contents
  <1>1. \A p \in Procs : ~ClearRemove(p)
    BY DEF ClearRemove, StoreInv, WorksOK
  <1>2. ASSUME NEW l \in Keys
        PROVE  Stored'[l] = Stored[l]
    <2>1. CASE dir'[l] = dir[l]
      BY <2>1, StoredStays DEF Finishes
    <2>2. CASE dir'[l] # dir[l]
      <3>1. dir[l] = None
        BY <1>1, <2>2, RemovedUnderLock
      <3>2. PICK p \in Procs : CreateKey(p)
        BY <2>2, <3>1, NameMade
      <3>3. PICK i \in Inodes :
                /\ dir' = [dir EXCEPT ![call[p].key] = i] /\ file[i] = Blank
                /\ \A j \in Inodes : file'[j].full = file[j].full
        BY <3>2, WriterMade
      <3>4. dir'[l] = i /\ ~file'[i].full
        BY <2>2, <3>3 DEF VarTypes, Blank
      <3>5. QED
        BY <3>1, <3>4 DEF Stored
    <2>3. QED
      BY <2>1, <2>2
  <1>3. UNCHANGED Pinned
    <2>1. CASE \E p \in Procs : Caller(p) \/ LockCache(p) \/ Step(p)
      BY <2>1, PinnedOwn
    <2>2. CASE UNCHANGED vars \/ Tick \/ \E c \in Instances : Destroy(c)
      <3>1. UNCHANGED <<item, ofd>>
        BY <2>2 DEF vars, Tick, Destroy, locks
      <3>2. \A q \in Procs : Pinned'[q] = Pinned[q]
        BY <3>1, PinnedStays
      <3>3. QED
        BY <3>2 DEF Pinned
    <2>3. QED
      BY <2>1, <2>2, Faultless DEF Next
  <1>4. QED
    BY <1>2, <1>3 DEF Stored

\* As long as nothing fails and nobody clears it, the cache is a store that its
\* processes share: every step of its system calls is a step of that store, or none.
THEOREM CacheIsSharedStore ==
  OneThreadPerInstance /\ NothingFails => (Spec => ImplementsSharedStore)
  <1> SUFFICES ASSUME OneThreadPerInstance, NothingFails
               PROVE  Spec => ImplementsSharedStore
    OBVIOUS
  <1> DEFINE IInv == FilesInv /\ StoreInv /\ CallsFit /\ FilesFit
  <1>1. Init => IInv
    <2>1. Init => CallsFit /\ FilesFit
      BY DEF Init, CallsFit, FilesFit, Fits, NoCall, Blank
    <2>2. QED
      BY <2>1, FilesInvInit, StoreInvInit
  <1>2. TypeOK /\ IInv /\ [Next]_vars => IInv'
    BY FilesInvPreserved, StoreInvPreserved, CallsFitPreserved, FilesFitPreserved
  <1>3. Init => Store!Init
    BY DEF Init, Store!Init, Stored, Pinned
  <1>4. TypeOK /\ IInv /\ IInv' /\ [Next]_vars => [Store!Next]_<<Stored, Pinned>>
    <2> SUFFICES ASSUME TypeOK, IInv, IInv', [Next]_vars
                 PROVE  Store!Next \/ UNCHANGED <<Stored, Pinned>>
      OBVIOUS
    <2>1. OneName'
      BY DEF FilesInv, Contents
    <2>2. ASSUME NEW p \in Procs, CopyDone(p) \/ WriteData(p) \/ DropPutItem(p)
          PROVE  Store!Next \/ UNCHANGED <<Stored, Pinned>>
      BY <2>1, <2>2, FinishPuts DEF Store!Next
    <2>3. ASSUME NEW p \in Procs, RemoveKey(p) \/ PurgeRemove(p)
          PROVE  Store!Next \/ UNCHANGED <<Stored, Pinned>>
      BY <2>1, <2>3, RemoveWithdraws DEF Store!Next
    <2>4. ASSUME NEW p \in Procs, LockItem(p), call[p].op = "get"
          PROVE  Store!Next
      BY <2>1, <2>4, LockItemGets DEF Store!Next
    <2>5. ASSUME NEW p \in Procs, CloseItem(p)
          PROVE  Store!Next
      BY <2>1, <2>5, CloseReleases DEF Store!Next
    <2>6. QED
      BY <2>1, <2>2, <2>3, <2>4, <2>5, OtherStepsStutter
  <1>5. QED
    BY <1>1, <1>2, <1>3, <1>4, TypeCorrect, PTL DEF Spec, ImplementsSharedStore, Store!Spec

-----------------------------------------------------------------------------
(* Sums of a function's values, and reduction modulo m.                     *)

\* The cells of a bar chart of f: as many for each x as f[x] says.
Row(f, x)   == {x} \X (1..f[x])
Cells(f, s) == UNION {Row(f, x) : x \in s}

LEMMA RowCount ==
  ASSUME NEW f, NEW x, f[x] \in Nat
  PROVE  IsFiniteSet(Row(f, x)) /\ Cardinality(Row(f, x)) = f[x]
  <1>1. IsFiniteSet(1..f[x]) /\ Cardinality(1..f[x]) = f[x]
    BY FS_Interval
  <1>2. IsFiniteSet({x}) /\ Cardinality({x}) = 1
    BY FS_Singleton
  <1>3. IsFiniteSet({x} \X (1..f[x])) /\ Cardinality({x} \X (1..f[x])) = 1 * f[x]
    BY <1>1, <1>2, FS_Product
  <1>4. QED
    BY <1>3 DEF Row

LEMMA CellsFinite ==
  ASSUME NEW S, NEW f \in [S -> Nat], NEW s \in SUBSET S, IsFiniteSet(S)
  PROVE  IsFiniteSet(Cells(f, s)) /\ Cardinality(Cells(f, s)) \in Nat
  <1> DEFINE R == {Row(f, x) : x \in s}
             r == [x \in s |-> Row(f, x)]
  <1>1. IsFiniteSet(s)
    BY FS_Subset
  <1>2. r \in Surjection(s, R)
    BY DEF Surjection
  <1>3. IsFiniteSet(R)
    BY <1>1, <1>2, FS_Surjection
  <1>4. \A T \in R : IsFiniteSet(T)
    BY RowCount
  <1>5. IsFiniteSet(UNION R)
    BY <1>3, <1>4, FS_UNION
  <1>6. QED
    BY <1>5, FS_CardinalityType DEF Cells

LEMMA CellsSplit ==
  ASSUME NEW S, NEW f \in [S -> Nat], NEW s \in SUBSET S, IsFiniteSet(S), NEW x \in s
  PROVE  Cardinality(Cells(f, s)) = f[x] + Cardinality(Cells(f, s \ {x}))
  <1>1. Cells(f, s) = Row(f, x) \cup Cells(f, s \ {x})
    BY DEF Cells
  <1>2. Row(f, x) \cap Cells(f, s \ {x}) = {}
    BY DEF Cells, Row
  <1>3. IsFiniteSet(Row(f, x)) /\ Cardinality(Row(f, x)) = f[x] /\ f[x] \in Nat
    BY RowCount
  <1>4. IsFiniteSet(Cells(f, s \ {x})) /\ Cardinality(Cells(f, s \ {x})) \in Nat
    BY CellsFinite
  <1>5. Cardinality({}) = 0
    BY FS_EmptySet
  <1>6. Cardinality(Row(f, x) \cup Cells(f, s \ {x}))
          = Cardinality(Row(f, x)) + Cardinality(Cells(f, s \ {x}))
              - Cardinality(Row(f, x) \cap Cells(f, s \ {x}))
    BY <1>3, <1>4, FS_Union
  <1>7. Cardinality(Row(f, x) \cap Cells(f, s \ {x})) = 0
    BY <1>2, <1>5
  <1>8. Cardinality(Cells(f, s)) = Cardinality(Row(f, x) \cup Cells(f, s \ {x}))
    BY <1>1
  <1>9. QED
    BY <1>3, <1>4, <1>6, <1>7, <1>8

Some(s) == CHOOSE x \in s : TRUE
Fold(f, S) == CHOOSE g : g = [s \in SUBSET S |->
     IF s = {} THEN 0 ELSE f[Some(s)] + g[s \ {Some(s)}]]

LEMMA FoldUnfolds == ASSUME NEW f, NEW S PROVE SumFunctionOnSet(f, S) = Fold(f,S)[S]
  BY DEF SumFunctionOnSet, FoldFunctionOnSet, Fold, Some, MapThenFoldSet

LEMMA SomeIn == ASSUME NEW s, s # {} PROVE Some(s) \in s
  BY DEF Some

LEMMA SumIsCells ==
  ASSUME NEW S, NEW f \in [S -> Nat], IsFiniteSet(S)
  PROVE  SumFunctionOnSet(f, S) = Cardinality(Cells(f, S))
  <1> DEFINE F(g) == [s \in SUBSET S |-> IF s = {} THEN 0 ELSE f[Some(s)] + g[s \ {Some(s)}]]
             h == [s \in SUBSET S |-> Cardinality(Cells(f, s))]
             g == Fold(f, S)
             Bad == {s \in SUBSET S : g[s] # h[s]}
  <1>1. h = F(h)
    <2>1. ASSUME NEW s \in SUBSET S
          PROVE  Cardinality(Cells(f, s)) = F(h)[s]
      <3>1. CASE s = {}
        <4>1. Cells(f, s) = {}
          BY <3>1 DEF Cells
        <4>2. QED
          BY <3>1, <4>1, FS_EmptySet
      <3>2. CASE s # {}
        <4>1. Some(s) \in s
          BY <3>2, SomeIn
        <4>2. s \ {Some(s)} \in SUBSET S
          OBVIOUS
        <4>3. Cardinality(Cells(f, s)) = f[Some(s)] + Cardinality(Cells(f, s \ {Some(s)}))
          BY <4>1, CellsSplit
        <4>4. QED
          BY <3>2, <4>2, <4>3
      <3>3. QED
        BY <3>1, <3>2
    <2>2. QED
      BY <2>1
  <1>2. g = F(g)
    <2> HIDE DEF h
    <2>1. \E g0 : g0 = F(g0)
      BY <1>1
    <2>2. QED
      BY <2>1 DEF Fold
  <1>3. IsWellFoundedOn(StrictSubsetOrdering(S), FiniteSubsetsOf(S))
    BY FS_StrictSubsetOrderingWellFounded
  <1>4. Bad = {}
    <2>1. SUFFICES ASSUME Bad # {}
                   PROVE  FALSE
      OBVIOUS
    <2>2. Bad \subseteq FiniteSubsetsOf(S)
      BY FS_FiniteSubsetsOfFinite
    <2>3. PICK s \in Bad : \A t \in Bad : <<t, s>> \notin StrictSubsetOrdering(S)
      <3> HIDE DEF Bad
      <3> QED BY <1>3, <2>1, <2>2, WFMin
    <2>4. s \in SUBSET S /\ g[s] # h[s]
      BY <2>3
    <2>5. s # {}
      <3>1. g[{}] = 0 /\ h[{}] = 0
        <4>1. {} \in SUBSET S
          OBVIOUS
        <4>2. F(g)[{}] = 0 /\ F(h)[{}] = 0
          BY <4>1
        <4> HIDE DEF F, g, h
        <4>3. QED
          BY <1>1, <1>2, <4>2
      <3>2. QED
        BY <2>4, <3>1
    <2>6. DEFINE t == s \ {Some(s)}
    <2>7. Some(s) \in s /\ t \in SUBSET S /\ t \subseteq s /\ t # s
      BY <2>4, <2>5, SomeIn
    <2>8. g[t] = h[t]
      <3>1. <<t, s>> \in StrictSubsetOrdering(S)
        BY <2>4, <2>7 DEF StrictSubsetOrdering
      <3>2. QED
        BY <2>3, <2>7, <3>1
    <2>9. g[s] = f[Some(s)] + g[t] /\ h[s] = f[Some(s)] + h[t]
      <3>1. F(g)[s] = f[Some(s)] + g[t] /\ F(h)[s] = f[Some(s)] + h[t]
        BY <2>4, <2>5
      <3> HIDE DEF F, g, h
      <3>2. QED
        BY <1>1, <1>2, <3>1
    <2>10. QED
      BY <2>4, <2>8, <2>9
  <1>5. g[S] = h[S]
    BY <1>4
  <1>6. h[S] = Cardinality(Cells(f, S))
    OBVIOUS
  <1>7. QED
    BY <1>5, <1>6, FoldUnfolds

\* A sum of natural numbers is one; it changes as one of them does.
LEMMA SumIsNat ==
  ASSUME NEW S, NEW f \in [S -> Nat], IsFiniteSet(S)
  PROVE  SumFunction(f) = Cardinality(Cells(f, S)) /\ SumFunction(f) \in Nat
  BY SumIsCells, CellsFinite DEF SumFunction

LEMMA SumChanges ==
  ASSUME NEW S, NEW f \in [S -> Nat], NEW g \in [S -> Nat], IsFiniteSet(S),
         NEW y \in S, \A x \in S \ {y} : f[x] = g[x]
  PROVE  SumFunction(g) = SumFunction(f) - f[y] + g[y]
  <1>1. Cells(f, S \ {y}) = Cells(g, S \ {y})
    BY DEF Cells, Row
  <1>2. /\ Cardinality(Cells(f, S)) = f[y] + Cardinality(Cells(f, S \ {y}))
        /\ Cardinality(Cells(g, S)) = g[y] + Cardinality(Cells(g, S \ {y}))
    BY CellsSplit
  <1>3. Cardinality(Cells(f, S \ {y})) \in Nat /\ f[y] \in Nat /\ g[y] \in Nat
    BY CellsFinite
  <1>4. QED
    BY <1>1, <1>2, <1>3, SumIsNat

LEMMA SumOfNothing ==
  ASSUME NEW S, NEW f \in [S -> Nat], IsFiniteSet(S), \A x \in S : f[x] = 0
  PROVE  SumFunction(f) = 0
  <1>1. \A x \in S : Row(f, x) = {}
    BY DEF Row
  <1>2. Cells(f, S) = {}
    BY <1>1 DEF Cells
  <1>3. QED
    BY <1>2, SumIsNat, FS_EmptySet

LEMMA ModSplit ==
  ASSUME NEW m \in Nat \ {0}, NEW a \in Int
  PROVE  a % m \in 0..(m - 1) /\ \E n \in Int : a = (n * m) + (a % m)
  <1>1. a % m \in 0..(m - 1)
    OBVIOUS
  <1>2. a \div m \in Int /\ a = ((a \div m) * m) + (a % m)
    OBVIOUS
  <1>3. QED
    BY <1>1, <1>2

LEMMA ModUnique ==
  ASSUME NEW m \in Nat \ {0}, NEW n \in Int, NEW r \in 0..(m - 1)
  PROVE  ((n * m) + r) % m = r
  OBVIOUS

LEMMA ModShift ==
  ASSUME NEW m \in Nat \ {0}, NEW a \in Int, NEW n \in Int
  PROVE  (a + (n * m)) % m = a % m
  <1>1. PICK k \in Int : a = (k * m) + (a % m)
    BY ModSplit
  <1> DEFINE r == a % m
  <1>2. r \in 0..(m - 1)
    BY ModSplit
  <1>3. k + n \in Int /\ (((k + n) * m) + r) % m = r
    BY <1>2, ModUnique
  <1>4. a + (n * m) = ((k + n) * m) + r
    <2>1. a = (k * m) + r
      BY <1>1
    <2>2. (k + n) * m = (k * m) + (n * m)
      OBVIOUS
    <2>3. (k * m) \in Int /\ (n * m) \in Int /\ (k + n) * m \in Int /\ r \in Int
      BY <1>2
    <2> HIDE DEF r
    <2>4. QED
      BY <2>1, <2>2, <2>3
  <1>5. QED
    BY <1>3, <1>4

LEMMA ModAdd ==
  ASSUME NEW m \in Nat \ {0}, NEW a \in Int, NEW b \in Int, NEW c \in Int, a % m = b % m
  PROVE (a + c) % m = (b + c) % m
  <1>1. PICK k \in Int : a = (k * m) + (a % m)
    BY ModSplit
  <1>2. PICK n \in Int : b = (n * m) + (b % m)
    BY ModSplit
  <1>3. a % m \in Int /\ k * m \in Int /\ n * m \in Int /\ k - n \in Int
    BY ModSplit
  <1>4. (k - n) * m = (k * m) - (n * m)
    OBVIOUS
  <1>5. a + c = (b + c) + ((k - n) * m)
    BY <1>1, <1>2, <1>3, <1>4
  <1>6. ((b + c) + ((k - n) * m)) % m = (b + c) % m
    <2>1. b + c \in Int
      OBVIOUS
    <2>2. QED
      BY <1>3, <2>1, ModShift
  <1>7. QED
    BY <1>5, <1>6

\* Reducing twice is reducing once.
LEMMA ModTwice ==
  ASSUME NEW m \in Nat \ {0}, NEW a \in Int, NEW c \in Int
  PROVE  ((a % m) + c) % m = (a + c) % m
  <1>1. a % m \in 0..(m - 1)
    BY ModSplit
  <1>2. (0 * m) + (a % m) = a % m /\ a % m \in Int
    BY <1>1
  <1>3. (a % m) % m = a % m
    BY <1>1, <1>2, ModUnique
  <1>4. QED
    BY <1>2, <1>3, ModAdd

-----------------------------------------------------------------------------
(* The books of the cache.                                                 *)

\* What the files that are counted hold, all together.
Total == SumFunction(CountedSize)

\* What the call of p has still to add to the recorded size, or has added too early.
Owed(p) ==
    CASE call[p].op \in {"put", "put_data"} /\ pc[p] \in {"lock_item"} \cup PutStages
                                              -> HandleSize(p)
      [] call[p].op = "del" /\ pc[p] \in {"read_info", "write_info"}
                                              -> 0 - HandleSize(p)
      [] call[p].op = "drop" /\ pc[p] = "return"
                                              -> 0 - HandleSize(p)
      [] call[p].op = "purge" /\ pc[p] \in {"purge", "purge_remove", "write_info"}
                                              -> 0 - removed[p]
      [] OTHER                                -> 0

\* What it adds when it writes cache_info.
Due(p) == IF call[p].op = "drop" THEN HandleSize(p) ELSE Owed(p)

\* Inside a call, the recorded size and what the call owes make up the total.
Balanced(p) == Inside(p) => (RecordedSize + Owed(p)) % W = Total % W

\* What a purge knows of the files it has still to try.
SizesKnown(p) ==
    pc[p] \in {"purge", "purge_remove"} =>
        \A e \in todo[p] : \/ Outstanding(dir[e.key])
                           \/ e.size = file[dir[e.key]].size

\* What a call knows of the sizes is so.
LedgerOK(p) ==
    /\ pc[p] = "write_info" => ci[p] = (RecordedSize + Due(p)) % W
    /\ pc[p] \in {"scan", "purge", "purge_remove"} => ci[p] = RecordedSize
    /\ pc[p] \notin {"purge", "purge_remove", "write_info", "return"} => removed[p] = 0
    /\ pc[p] \in {"read_info", "write_info"} =>
          call[p].op \in {"put", "put_data", "del", "drop", "purge"}
    /\ call[p].op = "del" /\ pc[p] \in {"read_info", "write_info"} =>
          ofd[OpFd(p)].ino # None /\ ofd[OpFd(p)].lk = "ex"
    /\ SizesKnown(p)

Books ==
    /\ info.state = "sized" /\ \A p \in Procs : pc[p] # "init_write"
    /\ (\A p \in Procs : ~Inside(p)) => RecordedSize = Total % W
    /\ \A p \in Procs : Balanced(p) /\ LedgerOK(p)

\* The PutItem of p holds inode i, and has not added its size to the counter yet.
Owing(p, i) == item[p] = "put" /\ pc[p] # "close_item" /\ ofd[ItemFd(p)].ino = i

\* A PutItem owes the size of its file until its destructor returns.
LEMMA OwingStep ==
  ASSUME TypeOK, HandleOpen, NothingFails, NEW p \in Procs, HoldsOK(p), WorksOK(p),
         Caller(p) \/ LockCache(p) \/ Step(p), NEW i, i # None,
         ~(CreateKey(p) /\ call[p].op = "put_item"),
         ~(Return(p) /\ call[p].op = "drop")
  PROVE  Owing(p, i)' <=> Owing(p, i)
  <1> USE DEF TypeOK
  <1>1. OpFd(p) \in Ofds /\ ItemFd(p) \in Ofds /\ OpFd(p) # ItemFd(p)
    BY OfdType
  <1>2. CASE ~Makes(p) /\ ~Makes(p)'
    BY <1>2 DEF Makes, Owing
  <1>3. CASE CloseItem(p)
    <2>1. item'[p] = "none" /\ (item[p] = "get" \/ pc[p] = "close_item")
      BY <1>3 DEF CloseItem, VarTypes
    <2>2. QED
      BY <2>1 DEF Owing
  <1>4. CASE LockItem(p) /\ call[p].op = "put_item"
    <2>1. UNCHANGED item /\ pc[p] = "lock_item" /\ pc'[p] = "return"
          /\ ofd'[ItemFd(p)].ino = ofd[ItemFd(p)].ino
      BY <1>1, <1>4 DEF LockItem, Exit, Goto, VarTypes
    <2>2. QED
      BY <2>1 DEF Owing
  <1>5. CASE LockItem(p) /\ call[p].op = "get"
    <2>1. item[p] = "get" /\ UNCHANGED item
      BY <1>5 DEF HoldsOK, LockItem
    <2>2. QED
      BY <2>1 DEF Owing
  <1>6. CASE /\ item'[p] = item[p] /\ ofd'[ItemFd(p)] = ofd[ItemFd(p)] /\ ~CloseItem(p)
    <2>1. (pc'[p] = "close_item") <=> (pc[p] = "close_item")
      <3>1. CASE Caller(p)
        BY <1>6, <3>1
        DEF Caller, InitializeCreate, InitializeOpen, CanInitialize, CallPut,
            CallPutData, CallPutItem, CallGet, CallDel, CallClear, CallPurge, Call,
            UserWrite, DropPutItem, VarTypes, Goto
      <3>2. CASE LockCache(p) \/ Return(p) \/ InitializeWrite(p)
        BY <3>2 DEF LockCache, Return, InitializeWrite, VarTypes, Goto, Entry, AfterCall
      <3>3. CASE Body(p)
        BY <3>3, BodyStays, BodyFrame DEF Inside
      <3>4. QED
        BY <3>1, <3>2, <3>3, Faultless DEF Step
    <2>2. QED
      BY <1>6, <2>1 DEF Owing
  <1>7. QED
    BY <1>2, <1>3, <1>4, <1>5, <1>6, ItemStep

\* The file of a key stays what it is, but for the steps that write to it, and for
\* the end of the PutItem that made it.
LEMMA FileStays ==
  ASSUME TypeOK, FilesInv, StoreInv, OneThreadPerInstance, NothingFails, [Next]_vars,
         NEW k \in Keys, dir'[k] = dir[k], dir[k] # None,
         \A p \in Procs :
            /\ ~((CopyChunk(p) \/ WriteData(p)) /\ ofd[OpFd(p)].ino = dir[k])
            /\ ~(Return(p) /\ call[p].op = "drop" /\ ofd[ItemFd(p)].ino = dir[k])
  PROVE  /\ Outstanding(dir[k])' <=> Outstanding(dir[k])
         /\ file'[dir[k]].size = file[dir[k]].size \/ Outstanding(dir[k])
  <1> USE DEF TypeOK, FilesInv, Contents
  <1> DEFINE i == dir[k]
  <1>1. i \in Inodes
    BY DEF VarTypes
  <1>2. ASSUME NEW q \in Procs
        PROVE  Owing(q, i)' <=> Owing(q, i)
    <2>1. CASE Apart(q)
      BY <2>1 DEF Apart, Owing
    <2>2. CASE Caller(q) \/ LockCache(q) \/ Step(q)
      <3>1. CASE CreateKey(q) /\ call[q].op = "put_item"
        <4>1. Handle(q) = ItemFd(q) /\ ofd'[Handle(q)].ino # i /\ ofd[Handle(q)].ino # i
          BY <1>1, <3>1, WriterMade DEF Handle, Closed
        <4>2. QED
          BY <4>1 DEF Owing
      <3>2. CASE Return(q) /\ call[q].op = "drop"
        <4>1. ofd[ItemFd(q)].ino # i /\ ofd'[ItemFd(q)] = ofd[ItemFd(q)]
          BY <3>2, OfdType DEF Return, VarTypes
        <4>2. QED
          BY <4>1 DEF Owing
      <3>3. HoldsOK(q) /\ WorksOK(q)
        BY DEF Holdings, StoreInv
      <3>4. QED
        BY <2>2, <3>1, <3>2, <3>3, OwingStep
    <2>3. QED
      BY <2>1, <2>2, OwnOrApart
  <1>3. Outstanding(i)' <=> Outstanding(i)
    BY <1>2 DEF Outstanding, Owing
  <1>4. file'[i].size = file[i].size \/ Outstanding(i)
    <2>1. ~Reclaim \/ file'[i] = file[i]
      BY <1>1, ReclaimLinked
    <2>2. ASSUME NEW p \in Procs, UserWrite(p), ofd[ItemFd(p)].ino = i
          PROVE  Outstanding(i)
      BY <2>2 DEF UserWrite, Outstanding
    <2>3. QED
      BY <1>1, <2>1, <2>2, SizeWritten, Faultless
  <1>5. QED
    BY <1>3, <1>4

\* So what it counts stays.
LEMMA CountStays ==
  ASSUME TypeOK, FilesInv, StoreInv, OneThreadPerInstance, NothingFails, [Next]_vars,
         NEW k \in Keys, dir'[k] = dir[k],
         \A p \in Procs :
            /\ ~((CopyChunk(p) \/ WriteData(p)) /\ ofd[OpFd(p)].ino = dir[k])
            /\ ~(Return(p) /\ call[p].op = "drop" /\ ofd[ItemFd(p)].ino = dir[k])
  PROVE  CountedSize'[k] = CountedSize[k]
  <1>1. CASE dir[k] = None
    BY <1>1 DEF CountedSize
  <1>2. CASE dir[k] # None
    BY <1>2, FileStays DEF CountedSize
  <1>3. QED
    BY <1>1, <1>2

\* Nobody has a PutItem on a file that a call has locked for itself.
LEMMA LockedIsCounted ==
  ASSUME TypeOK, FilesInv, StoreInv, OneThreadPerInstance, NEW p \in Procs,
         Inside(p), pc[p] # "lock_item", NEW i, i # None, ofd[OpFd(p)].ino = i,
         ofd[OpFd(p)].lk = "ex"
  PROVE  ~Outstanding(i)
  <1>1. SUFFICES ASSUME NEW r \in Procs, item[r] = "put", ofd[ItemFd(r)].ino = i
                 PROVE  FALSE
    BY DEF Outstanding
  <1>2. OpFd(p) \in Ofds /\ ItemFd(r) \in Ofds /\ OpFd(p) # ItemFd(r)
    BY DEF OpFd, ItemFd, Ofds
  <1>3. ofd[ItemFd(r)].lk = "un"
    BY <1>1, <1>2 DEF FilesInv, FlockExclusive
  <1>4. pc[r] = "lock_item"
    BY <1>1, <1>3 DEF StoreInv, OwnsOK, Makes
  <1>5. QED
    BY <1>4 DEF FilesInv, InsideLocked, OneThreadPerInstance, Inside

LEMMA CountsAreNat ==
  ASSUME VarTypes
  PROVE  CountedSize \in [Keys -> Nat]
  BY DEF CountedSize, VarTypes

LEMMA TotalType ==
  ASSUME VarTypes, IsFiniteSet(Keys)
  PROVE  Total \in Nat
  BY CountsAreNat, SumIsNat DEF Total

\* The total is as it was when every count is, and moves with the only one that does.
LEMMA TotalStays ==
  ASSUME \A k \in Keys : CountedSize'[k] = CountedSize[k]
  PROVE  Total' = Total
  <1>1. CountedSize' = CountedSize
    BY DEF CountedSize
  <1>2. QED
    BY <1>1 DEF Total

LEMMA TotalMoves ==
  ASSUME VarTypes, VarTypes', IsFiniteSet(Keys), NEW k \in Keys,
         \A l \in Keys \ {k} : CountedSize'[l] = CountedSize[l]
  PROVE  Total' = Total - CountedSize[k] + CountedSize'[k]
  <1>1. CountedSize \in [Keys -> Nat]
    BY CountsAreNat
  <1>2. CountedSize' \in [Keys -> Nat]
    BY DEF CountedSize, VarTypes
  <1>3. SumFunction(CountedSize') = SumFunction(CountedSize) - CountedSize[k] + CountedSize'[k]
    BY <1>1, <1>2, SumChanges
  <1>4. QED
    BY <1>3 DEF Total

\* The size of the file that a call works on is the call's own to change.
LEMMA HandleSizeStays ==
  ASSUME TypeOK, FilesInv, StoreInv, OneThreadPerInstance, NothingFails, [Next]_vars,
         NEW q \in Procs, Inside(q), Apart(q), ~CopyChunk(q), ofd[Handle(q)].ino # None,
         \/ pc[q] = "lock_item" /\ call[q].op \in {"put", "put_data"}
         \/ ofd[Handle(q)].lk = "ex"
  PROVE  HandleSize(q)' = HandleSize(q)
  <1> USE DEF TypeOK, FilesInv, Contents
  <1> DEFINE i == ofd[Handle(q)].ino
  <1>1. i \in Inodes /\ Handle(q) \in Ofds
    BY HandleType DEF VarTypes
  <1>2. Handle(q)' = Handle(q) /\ ofd'[Handle(q)] = ofd[Handle(q)]
    BY DEF Apart, Handle
  <1>3. file'[i].size = file[i].size
    <2>1. SUFFICES ASSUME file'[i].size # file[i].size
                   PROVE  FALSE
      OBVIOUS
    <2>2. CASE Reclaim
      BY <1>1, <1>2, <2>1, <2>2 DEF Reclaim, InUse
    <2>3. ASSUME NEW p \in Procs, CopyChunk(p) \/ WriteData(p)
          PROVE  FALSE
      <3>1. Inside(p) /\ pc[p] = "write"
        BY <2>3 DEF CopyChunk, WriteData, Writing, Inside
      <3>2. p = q
        BY <3>1 DEF InsideLocked, OneThreadPerInstance
      <3>3. pc[q] = "write" /\ pc'[q] = "write"
        BY <3>1, <3>2 DEF Apart
      <3>4. QED
        BY <2>3, <3>2, <3>3 DEF WriteData, Goto, VarTypes
    <2>4. ASSUME NEW p \in Procs, UserWrite(p), ofd[ItemFd(p)].ino = i
          PROVE  FALSE
      <3>1. pc[p] = "idle" /\ Makes(p) /\ ofd[ItemFd(p)].lk = "ex"
        BY <2>4 DEF UserWrite, Makes, StoreInv, OwnsOK
      <3>2. p # q
        BY <3>1 DEF Inside
      <3>3. ItemFd(p) \in Ofds /\ ItemFd(p) # Handle(q)
        BY <3>2, OfdType DEF Handle, ItemFd, OpFd
      <3>4. ofd[Handle(q)].lk = "un"
        BY <1>1, <2>4, <3>1, <3>3 DEF FlockExclusive
      <3>5. CallWrites(q) /\ Handle(q) = OpFd(q)
        BY <3>4 DEF CallWrites, Handle
      <3>6. ItemWrites(p)
        BY <2>4, <3>1 DEF ItemWrites, Makes, Holdings, HoldsOK
      <3>7. Writer(OpFd(q)) /\ Writer(ItemFd(p))
        BY <3>5, <3>6, WriterCases
      <3>8. QED
        BY <1>1, <2>4, <3>3, <3>5, <3>7 DEF WritersAlone
    <2>5. QED
      BY <1>1, <2>1, <2>2, <2>3, <2>4, SizeWritten, Faultless
  <1>4. QED
    BY <1>2, <1>3 DEF HandleSize

\* Two threads of control are never inside together.
LEMMA InsideAlone ==
  ASSUME InsideLocked, OneThreadPerInstance, NEW p \in Procs, Inside(p),
         NEW q \in Procs, Inside(q)
  PROVE  p = q
  BY DEF InsideLocked, OneThreadPerInstance

LEMMA TotalKept ==
  ASSUME TypeOK, FilesInv, StoreInv, OneThreadPerInstance, NothingFails, [Next]_vars,
         UNCHANGED dir,
         \A p \in Procs : /\ ~CopyChunk(p) /\ ~WriteData(p)
                          /\ ~(Return(p) /\ call[p].op = "drop")
  PROVE  Total' = Total
  <1>1. ASSUME NEW k \in Keys
        PROVE  CountedSize'[k] = CountedSize[k]
    BY CountStays
  <1>2. QED
    BY <1>1, TotalStays

\* Only the end of an update writes cache_info, once it is there.
LEMMA InfoStays ==
  ASSUME TypeOK, NothingFails, [Next]_vars, info.state = "sized",
         \A p \in Procs : pc[p] # "init_write", \A p \in Procs : ~WriteInfo(p)
  PROVE  UNCHANGED info
  <1>1. ASSUME NEW p \in Procs, Caller(p)
        PROVE  UNCHANGED info
    BY <1>1
    DEF Caller, InitializeCreate, InitializeOpen, CallPut, CallPutData, CallPutItem,
        CallGet, CallDel, CallClear, CallPurge, Call, UserWrite, DropPutItem, CloseItem,
        disk
  <1>2. ASSUME NEW p \in Procs, LockCache(p) \/ Return(p) \/ InitializeWrite(p)
        PROVE  UNCHANGED info
    BY <1>2 DEF LockCache, Return, InitializeWrite, disk
  <1>3. ASSUME NEW p \in Procs,
               \/ CreateKey(p) \/ OpenKey(p) \/ LockItem(p) \/ OpenSource(p)
               \/ CopyChunk(p) \/ CopyDone(p) \/ WriteData(p) \/ RemoveKey(p)
        PROVE  UNCHANGED info
    BY <1>3
    DEF CreateKey, OpenKey, LockItem, OpenSource, CopyChunk, CopyDone, WriteData,
        RemoveKey, disk
  <1>4. ASSUME NEW p \in Procs,
               \/ ReadInfo(p) \/ Scan(p) \/ ClearRemove(p) \/ ClearDone(p)
               \/ PurgeReadInfo(p) \/ PurgeLock(p) \/ PurgeSkip(p) \/ PurgeRemove(p)
               \/ PurgeDone(p) \/ Fails(p)
        PROVE  UNCHANGED info
    BY <1>4
    DEF ReadInfo, Scan, ClearRemove, ClearDone, PurgeReadInfo, PurgeLock, PurgeSkip,
        PurgeRemove, PurgeDone, Fails, disk
  <1>5. CASE (\E c \in Instances : Destroy(c)) \/ Tick \/ UNCHANGED vars
    BY <1>5 DEF Destroy, Tick, vars, disk
  <1>6. QED
    BY <1>1, <1>2, <1>3, <1>4, <1>5, Faultless DEF Next, Step, Body

\* Where the sizes of p's call are those of a file that it has for itself.
OwnFile(p) ==
    \/ call[p].op \in {"put", "put_data"} /\ pc[p] \in {"lock_item"} \cup PutStages
    \/ call[p].op = "del" /\ pc[p] \in {"read_info", "write_info"}
    \/ call[p].op = "drop" /\ pc[p] \in {"read_info", "write_info", "return"}

\* A step of nobody's, or of somebody outside, changes nothing in the books of q.
LEMMA BooksApart ==
  ASSUME TypeOK, FilesInv, StoreInv, PurgeListings, OneThreadPerInstance, NothingFails,
         [Next]_vars, info.state = "sized", \A p \in Procs : pc[p] # "init_write",
         NEW q \in Procs, Balanced(q), LedgerOK(q),
         ~(Caller(q) \/ LockCache(q) \/ Step(q))
  PROVE  Balanced(q)' /\ LedgerOK(q)'
  <1> USE DEF TypeOK, FilesInv, Contents
  <1>1. Apart(q) /\ (Inside(q) => UNCHANGED dir)
    BY OwnOrApart
  <1>2. CASE ~Inside(q)
    <2>1. pc[q] \in {"idle", "init_write", "lock", "close_item"} /\ pc'[q] = pc[q]
          /\ removed'[q] = removed[q]
      BY <1>1, <1>2 DEF Apart, Inside
    <2>2. ~Inside(q)'
      BY <2>1 DEF Inside
    <2>3. QED
      BY <2>1, <2>2 DEF Balanced, LedgerOK, SizesKnown
  <1>3. CASE Inside(q)
    <2>1. \A p \in Procs : /\ ~WriteInfo(p) /\ ~CopyChunk(p) /\ ~WriteData(p) /\ ~Return(p)
      <3>1. ASSUME NEW p \in Procs, WriteInfo(p) \/ CopyChunk(p) \/ WriteData(p) \/ Return(p)
            PROVE  FALSE
        <4>1. Inside(p)
          BY <3>1 DEF WriteInfo, CopyChunk, WriteData, Return, Writing, Inside
        <4>2. p = q
          BY <1>3, <4>1, InsideAlone
        <4>3. QED
          BY <3>1, <4>2 DEF Step, Body
      <3>2. QED
        BY <3>1
    <2>2. UNCHANGED <<dir, info>> /\ RecordedSize' = RecordedSize
      BY <1>1, <1>3, <2>1, InfoStays DEF RecordedSize
    <2>3. Total' = Total
      BY <2>1, <2>2, TotalKept
    <2>4. OwnFile(q) => HandleSize(q)' = HandleSize(q)
      <3>1. SUFFICES ASSUME OwnFile(q)
                     PROVE  HandleSize(q)' = HandleSize(q)
        OBVIOUS
      <3>2. ofd'[Handle(q)] = ofd[Handle(q)] /\ Handle(q)' = Handle(q)
        BY <1>1 DEF Apart, Handle
      <3>3. CASE ofd[Handle(q)].ino = None
        BY <3>2, <3>3 DEF HandleSize
      <3>4. CASE ofd[Handle(q)].ino # None
        <4>1. CASE call[q].op \in {"put", "put_data"} /\ pc[q] = "lock_item"
          BY <1>1, <1>3, <2>1, <3>4, <4>1, HandleSizeStays
        <4>2. CASE call[q].op = "del" \/ (call[q].op \in {"put", "put_data"} /\ pc[q] # "lock_item")
          <5>1. ofd[Handle(q)].lk = "ex"
            BY <3>1, <4>2 DEF OwnFile, LedgerOK, StoreInv, WorksOK, Handle
          <5>2. QED
            BY <1>1, <1>3, <2>1, <3>4, <5>1, HandleSizeStays
        <4>3. CASE call[q].op = "drop"
          <5>1. item[q] = "put" /\ Handle(q) = ItemFd(q)
            BY <4>3 DEF Holdings, HoldsOK, Handle
          <5>2. ofd[Handle(q)].lk = "ex"
            BY <3>4, <4>3, <5>1 DEF StoreInv, OwnsOK, Makes
          <5>3. QED
            BY <1>1, <1>3, <2>1, <3>4, <5>2, HandleSizeStays
        <4>4. QED
          BY <3>1, <4>1, <4>2, <4>3 DEF OwnFile
      <3>5. QED
        BY <3>3, <3>4
    <2>5. Owed(q)' = Owed(q)
      BY <1>1, <2>4 DEF Apart, Owed, OwnFile, PutStages
    <2>6. pc[q] = "write_info" => Due(q)' = Due(q)
      BY <1>1, <2>4, <2>5 DEF Apart, Due, OwnFile
    <2>7. Balanced(q)'
      BY <1>3, <2>2, <2>3, <2>5 DEF Balanced
    <2>8. ASSUME pc'[q] \in {"purge", "purge_remove"}, NEW e \in todo'[q]
          PROVE  (Outstanding(dir[e.key]) \/ e.size = file[dir[e.key]].size)'
      <3>1. pc[q] \in {"purge", "purge_remove"} /\ e \in todo[q]
        BY <1>1, <2>8 DEF Apart
      <3>2. e.key \in Keys /\ dir[e.key] # None
        BY <3>1 DEF VarTypes, Entries, PurgeListings, PurgeListing
      <3>3. /\ Outstanding(dir[e.key])' <=> Outstanding(dir[e.key])
            /\ file'[dir[e.key]].size = file[dir[e.key]].size \/ Outstanding(dir[e.key])
        BY <2>1, <2>2, <3>2, FileStays
      <3>4. Outstanding(dir[e.key]) \/ e.size = file[dir[e.key]].size
        BY <3>1 DEF LedgerOK, SizesKnown
      <3>5. QED
        BY <2>2, <3>3, <3>4
    <2>9. LedgerOK(q)'
      BY <1>1, <2>2, <2>6, <2>8 DEF Apart, LedgerOK, SizesKnown
    <2>10. QED
      BY <2>7, <2>9
  <1>4. QED
    BY <1>2, <1>3

-----------------------------------------------------------------------------
(* A step of a call keeps what the call knows.                             *)

\* What another thread of control does inside, when p is inside: nothing.
LEMMA Undisturbed ==
  ASSUME InsideLocked, OneThreadPerInstance, NEW p \in Procs, Inside(p),
         NEW q \in Procs, CopyChunk(q) \/ WriteData(q) \/ Return(q) \/ WriteInfo(q)
  PROVE  q = p
  <1>1. Inside(q)
    BY DEF CopyChunk, WriteData, Return, WriteInfo, Writing, Inside
  <1>2. QED
    BY <1>1, InsideAlone

LEMMA WritesAlone ==
  ASSUME InsideLocked, OneThreadPerInstance, NEW p \in Procs, Inside(p), pc[p] # "write",
         NEW q \in Procs
  PROVE  ~CopyChunk(q) /\ ~WriteData(q) /\ (Return(q) => q = p)
  <1>1. CASE CopyChunk(q) \/ WriteData(q)
    <2>1. pc[q] = "write"
      BY <1>1 DEF CopyChunk, WriteData, Writing
    <2>2. q = p
      BY <1>1, Undisturbed
    <2>3. QED
      BY <2>1, <2>2
  <1>2. QED
    BY <1>1, Undisturbed

LEMMA Alone ==
  ASSUME InsideLocked, OneThreadPerInstance, NEW p \in Procs, Inside(p),
         pc[p] \notin {"write", "return"}
  PROVE  \A q \in Procs : ~CopyChunk(q) /\ ~WriteData(q) /\ ~Return(q)
  <1>1. ASSUME NEW q \in Procs, CopyChunk(q) \/ WriteData(q) \/ Return(q)
        PROVE  FALSE
    <2>1. pc[q] \in {"write", "return"}
      BY <1>1 DEF CopyChunk, WriteData, Writing, Return
    <2>2. q = p
      BY <1>1, Undisturbed
    <2>3. QED
      BY <2>1, <2>2
  <1>2. QED
    BY <1>1

LEMMA SizesKnownStep ==
  ASSUME TypeOK, FilesInv, StoreInv, OneThreadPerInstance, NothingFails, [Next]_vars,
         NEW p \in Procs, PurgeListing(p), PurgeListing(p)', SizesKnown(p),
         LockCache(p) \/ Body(p)
  PROVE  SizesKnown(p)'
  <1> USE DEF TypeOK, FilesInv, Contents
  <1>1. CASE ~(Scan(p) \/ PurgeLock(p) \/ PurgeSkip(p) \/ PurgeRemove(p))
    <2>1. pc'[p] \notin {"purge", "purge_remove"}
      <3>1. CASE \/ LockCache(p) \/ CreateKey(p) \/ OpenKey(p) \/ LockItem(p)
                 \/ OpenSource(p) \/ CopyChunk(p) \/ CopyDone(p) \/ WriteData(p)
        BY <3>1
        DEF LockCache, CreateKey, OpenKey, LockItem, OpenSource, CopyChunk, CopyDone,
            WriteData, Writing, Exit, Goto, Entry, VarTypes
      <3>2. CASE \/ RemoveKey(p) \/ ReadInfo(p) \/ WriteInfo(p) \/ ClearRemove(p)
                 \/ ClearDone(p) \/ PurgeReadInfo(p) \/ PurgeDone(p) \/ Fails(p)
        BY <3>2
        DEF RemoveKey, ReadInfo, WriteInfo, ClearRemove, ClearDone, PurgeReadInfo,
            PurgeDone, Fails, Exit, Goto, VarTypes
      <3>3. QED
        BY <1>1, <3>1, <3>2, Faultless DEF Body
    <2>2. QED
      BY <2>1 DEF SizesKnown
  <1>2. CASE Scan(p)
    <2>1. todo'[p] = Listing /\ UNCHANGED <<dir, file, item, ofd>>
      BY <1>2 DEF Scan, VarTypes, disk, locks
    <2>2. \A e \in Listing : e.size = file[dir[e.key]].size
      BY DEF Listing
    <2>3. QED
      BY <2>1, <2>2 DEF SizesKnown
  <1>3. CASE PurgeLock(p) \/ PurgeSkip(p) \/ PurgeRemove(p)
    <2>1. /\ pc[p] \in {"purge", "purge_remove"} /\ Inside(p)
          /\ todo'[p] \subseteq todo[p]
      BY <1>3 DEF PurgeLock, PurgeSkip, PurgeRemove, VarTypes, work, Inside
    <2>2. SUFFICES ASSUME NEW e \in todo'[p], pc'[p] \in {"purge", "purge_remove"}
                   PROVE  (Outstanding(dir[e.key]) \/ e.size = file[dir[e.key]].size)'
      BY DEF SizesKnown
    <2>3. e \in todo[p] /\ e.key \in Keys /\ dir[e.key] # None /\ dir'[e.key] # None
      BY <2>1, <2>2 DEF VarTypes, Entries, PurgeListing
    <2>4. dir'[e.key] = dir[e.key]
      <3>1. CASE PurgeLock(p) \/ PurgeSkip(p)
        BY <3>1 DEF PurgeLock, PurgeSkip, disk
      <3>2. CASE PurgeRemove(p)
        <4>1. PICK f : dir' = [dir EXCEPT ![f] = None] \/ UNCHANGED dir
          BY <3>2 DEF PurgeRemove
        <4>2. QED
          BY <2>3, <4>1 DEF VarTypes
      <3>3. QED
        BY <1>3, <3>1, <3>2
    <2>5. \A q \in Procs : /\ ~CopyChunk(q) /\ ~WriteData(q) /\ ~Return(q)
      BY <2>1, Alone
    <2>6. /\ Outstanding(dir[e.key])' <=> Outstanding(dir[e.key])
          /\ file'[dir[e.key]].size = file[dir[e.key]].size \/ Outstanding(dir[e.key])
      BY <2>3, <2>4, <2>5, FileStays
    <2>7. Outstanding(dir[e.key]) \/ e.size = file[dir[e.key]].size
      BY <2>1, <2>3 DEF SizesKnown
    <2>8. QED
      BY <2>4, <2>6, <2>7
  <1>4. QED
    BY <1>1, <1>2, <1>3

LEMMA LedgerLock ==
  ASSUME TypeOK, NEW p \in Procs, WorksOK(p), LedgerOK(p), SizesKnown(p)', LockCache(p)
  PROVE  LedgerOK(p)'
  <1>1. /\ pc[p] = "lock" /\ pc'[p] = Entry(call[p].op) /\ removed'[p] = removed[p]
        /\ call[p].op \in Operations \cup {"drop"}
    BY DEF LockCache, TypeOK, VarTypes, Goto, work, Calls, StageOK
  <1>2. /\ pc'[p] \in {"create", "open", "read_info"}
        /\ pc'[p] = "read_info" => call[p].op \in {"drop", "purge"}
    BY <1>1 DEF Entry, WorksOK, Operations
  <1>3. UNCHANGED call
    BY DEF LockCache
  <1>4. QED
    BY <1>1, <1>2, <1>3 DEF LedgerOK

\* Where nothing fails, a call reads the sizes that are there.
LEMMA SizesAreRead ==
  ASSUME NothingFails, NEW p \in Procs
  PROVE  SizesRead = {RecordedSize} /\ SizesMeasured(p) = {HandleSize(p)}
  <1>1. ~("info" \in Faults) /\ ~("stat" \in Faults)
    BY DEF NothingFails
  <1> QED
    BY <1>1 DEF SizesRead, SizesMeasured

\* A call keeps its books: it knows what it will write when it has read.
LEMMA LedgerStep ==
  ASSUME TypeOK, HandleOpen, NothingFails, NEW p \in Procs, WorksOK(p), LedgerOK(p),
         SizesKnown(p)', Body(p)
  PROVE  LedgerOK(p)'
  <1> USE DEF TypeOK
  <1>1. OpFd(p) \in Ofds /\ ItemFd(p) \in Ofds /\ OpFd(p) # ItemFd(p)
    BY OfdType
  <1>2. CASE ReadInfo(p)
    <2>1. /\ pc[p] = "read_info" /\ pc'[p] = "write_info"
          /\ UNCHANGED <<call, removed, info, ofd, file>>
          /\ ci'[p] = (IF call[p].op = "del" THEN RecordedSize - HandleSize(p)
                                             ELSE RecordedSize + HandleSize(p)) % W
          /\ call[p].op \in {"put", "put_data", "del", "drop"}
      BY <1>2, SizesAreRead DEF ReadInfo, VarTypes, Goto, LedgerOK, locks, disk
    <2>2. RecordedSize' = RecordedSize /\ HandleSize(p)' = HandleSize(p)
      BY <2>1 DEF RecordedSize, HandleSize, Handle
    <2>3. Due(p)' = IF call[p].op = "del" THEN 0 - HandleSize(p) ELSE HandleSize(p)
      BY <2>1, <2>2 DEF Due, Owed, PutStages
    <2>4. RecordedSize \in Int /\ HandleSize(p) \in Int
      BY SizesAreNat
    <2>5. RecordedSize - HandleSize(p) = RecordedSize + (0 - HandleSize(p))
      BY <2>4
    <2>6. ci'[p] = (RecordedSize' + Due(p)') % W
      BY <2>1, <2>2, <2>3, <2>5
    <2>7. QED
      BY <2>1, <2>6 DEF LedgerOK
  <1>3. CASE PurgeDone(p)
    <2>1. /\ pc[p] = "purge" /\ pc'[p] = "write_info" /\ call[p].op = "purge"
          /\ UNCHANGED <<call, removed, info>>
          /\ ci'[p] = (ci[p] - removed[p]) % W
          /\ ci[p] = RecordedSize
      BY <1>3 DEF PurgeDone, VarTypes, Goto, StageOK, LedgerOK, disk
    <2>2. RecordedSize' = RecordedSize /\ Due(p)' = 0 - removed[p]
      BY <2>1 DEF RecordedSize, Due, Owed
    <2>3. RecordedSize - removed[p] = RecordedSize + (0 - removed[p])
      BY SizesAreNat DEF VarTypes
    <2>4. QED
      BY <2>1, <2>2, <2>3 DEF LedgerOK
  <1>4. CASE CreateKey(p) \/ OpenKey(p) \/ LockItem(p) \/ OpenSource(p) \/ CopyChunk(p)
    <2>1. /\ pc[p] \notin {"purge", "purge_remove", "write_info", "return"}
          /\ pc'[p] \notin {"write_info", "read_info", "scan", "purge", "purge_remove"}
          /\ UNCHANGED removed
      BY <1>4
      DEF CreateKey, OpenKey, LockItem, OpenSource, CopyChunk, Writing, VarTypes, Goto,
          Exit, work
    <2>2. QED
      BY <2>1 DEF LedgerOK
  <1>5. CASE CopyDone(p) \/ WriteData(p)
    <2>1. /\ pc[p] = "write" /\ pc'[p] = "read_info" /\ UNCHANGED <<call, removed>>
          /\ call[p].op \in {"put", "put_data"}
      BY <1>5 DEF CopyDone, WriteData, Writing, VarTypes, Goto, work
    <2>2. QED
      BY <2>1 DEF LedgerOK
  <1>6. CASE RemoveKey(p)
    <2>1. /\ pc[p] = "remove" /\ pc'[p] = "read_info" /\ call[p].op = "del"
          /\ UNCHANGED <<call, removed, ofd>>
          /\ ofd[OpFd(p)].ino # None /\ ofd[OpFd(p)].lk = "ex"
      BY <1>6 DEF RemoveKey, VarTypes, Goto, work, locks, StageOK, HandleOpen, HandleOpenAt
    <2>2. QED
      BY <2>1 DEF LedgerOK
  <1>7. CASE WriteInfo(p) \/ Fails(p) \/ ClearDone(p)
    <2>1. pc'[p] = "return"
      BY <1>7 DEF WriteInfo, Fails, ClearDone, Exit, Goto, VarTypes
    <2>2. QED
      BY <2>1 DEF LedgerOK
  <1>8. CASE PurgeReadInfo(p)
    <2>1. /\ pc[p] = "read_info" /\ pc'[p] \in {"return", "scan"}
          /\ ci'[p] = RecordedSize /\ UNCHANGED <<removed, info>>
      BY <1>8, SizesAreRead DEF PurgeReadInfo, VarTypes, Goto, Exit, disk
    <2>2. QED
      BY <2>1 DEF LedgerOK, RecordedSize
  <1>9. CASE Scan(p) \/ PurgeLock(p) \/ PurgeSkip(p) \/ PurgeRemove(p)
    <2>1. /\ pc[p] \in {"scan", "purge", "purge_remove"}
          /\ pc'[p] \in {"clear", "purge", "purge_remove"}
          /\ UNCHANGED <<ci, info>>
      BY <1>9
      DEF Scan, PurgeLock, PurgeSkip, PurgeRemove, VarTypes, Goto, work, disk
    <2>2. pc'[p] = "clear" => Scan(p)
      BY <1>9 DEF PurgeLock, PurgeSkip, PurgeRemove, VarTypes, Goto
    <2>3. Scan(p) => pc'[p] # "clear"
      BY DEF Scan, VarTypes, Goto, WorksOK
    <2>4. QED
      BY <2>1, <2>2, <2>3 DEF LedgerOK, RecordedSize
  <1>10. CASE ClearRemove(p)
    BY <1>10 DEF ClearRemove, WorksOK
  <1>11. QED
    BY <1>2, <1>3, <1>4, <1>5, <1>6, <1>7, <1>8, <1>9, <1>10, Faultless DEF Body

-----------------------------------------------------------------------------
(* A step of a call keeps its balance.                                     *)

LEMMA CounterAdds ==
  ASSUME NEW a \in Int, NEW b \in Int, NEW c \in Int, a % W = b % W
  PROVE  (a + c) % W = (b + c) % W
  <1>1. W \in Nat \ {0}
    BY FileCacheAssumption
  <1>2. QED
    BY <1>1, ModAdd

\* The recorded size r and what is owed, o, make up t, as far as the counter can tell.
MakeUp(r, o, t) == (r + o) % W = t % W

LEMMA BothSides ==
  ASSUME NEW r \in Int, NEW o \in Int, NEW t \in Int, NEW o2 \in Int, NEW t2 \in Int,
         MakeUp(r, o, t), o2 - o = t2 - t
  PROVE  MakeUp(r, o2, t2)
  <1>1. (r + o) % W = t % W
    BY DEF MakeUp
  <1>2. r + o \in Int /\ o2 - o \in Int
    OBVIOUS
  <1>3. (r + o) + (o2 - o) = r + o2 /\ t + (o2 - o) = t2
    OBVIOUS
  <1>4. ((r + o) + (o2 - o)) % W = (t + (o2 - o)) % W
    BY <1>1, <1>2, CounterAdds, Zenon
  <1>5. QED
    BY <1>3, <1>4, Zenon DEF MakeUp

\* What the call of p owes stays, where it changes neither a size nor cache_info.
LEMMA OwedStays ==
  ASSUME TypeOK, NothingFails, NEW p \in Procs, HoldsOK(p), WorksOK(p), LedgerOK(p),
         PurgeListing(p),
         \/ OpenKey(p) \/ LockItem(p) \/ OpenSource(p) \/ CopyDone(p) \/ ReadInfo(p)
         \/ Scan(p) \/ PurgeReadInfo(p) \/ PurgeLock(p) \/ PurgeSkip(p) \/ PurgeDone(p)
         \/ Fails(p)
  PROVE  Owed(p)' = Owed(p) /\ UNCHANGED <<dir, info>>
  <1> USE DEF TypeOK
  <1>1. Handle(p) \in Ofds
    BY HandleType
  <1>2. CASE OpenKey(p)
    <2>1. /\ pc[p] = "open" /\ pc'[p] = "lock_item" /\ UNCHANGED <<call, dir, info>>
          /\ call[p].op \in {"get", "del"}
      BY <1>2 DEF OpenKey, Goto, VarTypes, StageOK, disk
    <2>2. QED
      BY <2>1 DEF Owed, PutStages
  <1>3. CASE LockItem(p)
    <2>1. /\ pc[p] = "lock_item" /\ UNCHANGED <<dir, info>>
          /\ call'[p].op = call[p].op
          /\ pc'[p] \in {"return", "open_source", "write", "remove"}
          /\ call[p].op \in {"put", "put_data"} => pc'[p] \in {"open_source", "write"}
      BY <1>3 DEF LockItem, Goto, Exit, VarTypes, Calls
    <2>2. call[p].op \in {"put", "put_data"} => HandleSize(p)' = HandleSize(p)
      <3>1. HandleSize(p)' = IF ofd'[Handle(p)].ino = None THEN 0
                                                           ELSE file'[ofd'[Handle(p)].ino].size
        BY <2>1 DEF HandleSize, Handle
      <3>2. ofd'[Handle(p)].ino = ofd[Handle(p)].ino
        BY <1>1, <1>3 DEF LockItem, VarTypes
      <3>3. \A i \in Inodes : file'[i].size = file[i].size
        BY <1>3 DEF LockItem, Touch, VarTypes
      <3>4. ofd[Handle(p)].ino \in Inodes \cup {None}
        BY <1>1 DEF VarTypes
      <3>5. QED
        BY <3>1, <3>2, <3>3, <3>4 DEF HandleSize
    <2>3. call[p].op \in KeyOps
      BY <2>1 DEF StageOK
    <2>4. QED
      BY <2>1, <2>2, <2>3 DEF Owed, PutStages, KeyOps, Puts
  <1>4. CASE OpenSource(p) \/ ReadInfo(p)
    <2>1. /\ UNCHANGED <<call, dir, info, ofd, file>>
          /\ \/ pc[p] = "open_source" /\ pc'[p] = "write" /\ call[p].op \in {"put", "put_data"}
             \/ /\ pc[p] = "read_info" /\ pc'[p] = "write_info"
                /\ call[p].op \in {"put", "put_data", "del", "drop"}
      BY <1>4 DEF OpenSource, ReadInfo, Goto, VarTypes, StageOK, LedgerOK, locks, disk
    <2>2. HandleSize(p)' = HandleSize(p)
      BY <2>1 DEF HandleSize, Handle
    <2>3. QED
      BY <2>1, <2>2 DEF Owed, PutStages
  <1>5. CASE CopyDone(p)
    <2>1. /\ pc[p] = "write" /\ pc'[p] = "read_info" /\ call[p].op = "put"
          /\ UNCHANGED <<call, dir, info, ofd>>
      BY <1>5 DEF CopyDone, Writing, Goto, VarTypes, locks
    <2>2. HandleSize(p)' = HandleSize(p)
      <3>1. \A i \in Inodes : file'[i].size = file[i].size
        BY <1>5 DEF CopyDone, VarTypes
      <3>2. ofd[Handle(p)].ino \in Inodes \cup {None}
        BY <1>1 DEF VarTypes
      <3>3. QED
        BY <2>1, <3>1, <3>2 DEF HandleSize, Handle
    <2>3. QED
      BY <2>1, <2>2 DEF Owed, PutStages
  <1>6. CASE Scan(p) \/ PurgeReadInfo(p) \/ PurgeSkip(p) \/ PurgeDone(p) \/ PurgeLock(p)
    <2>1. /\ UNCHANGED <<removed, dir, info>> /\ call'[p].op = call[p].op
          /\ call[p].op = "purge"
          /\ pc[p] \in {"read_info", "scan"} => removed[p] = 0
      BY <1>6
      DEF Scan, PurgeReadInfo, PurgeSkip, PurgeDone, PurgeLock, Exit, VarTypes, Calls,
          StageOK, LedgerOK, WorksOK, work, disk
    <2>2. \/ /\ pc[p] \in {"read_info", "scan"}
             /\ pc'[p] \in {"return", "scan", "purge"}
          \/ /\ pc[p] = "purge"
             /\ pc'[p] \in {"purge", "purge_remove", "write_info"}
      BY <1>6, <2>1
      DEF Scan, PurgeReadInfo, PurgeSkip, PurgeDone, PurgeLock, Goto, Exit, VarTypes
    <2>3. QED
      BY <2>1, <2>2 DEF Owed
  <1>7. CASE Fails(p)
    <2>1. /\ pc'[p] = "return" /\ UNCHANGED <<dir, info>> /\ call'[p].op = call[p].op
      BY <1>7 DEF Fails, Exit, Goto, VarTypes, Calls, disk
    <2>2. ~(pc[p] = "purge")
      <3>1. SUFFICES ASSUME pc[p] = "purge"
                     PROVE  FALSE
        OBVIOUS
      <3>2. \A e \in todo[p] : dir[e.key] # None
        BY <3>1 DEF PurgeListing
      <3>3. QED
        BY <1>7, <3>1, <3>2 DEF Fails, CanFail, Oldest, NothingFails
    <2>3. pc[p] \in {"create", "open", "lock_item", "remove"}
      BY <1>7, <2>2 DEF Fails, CanFail, NothingFails, WorksOK
    <2>4. pc[p] = "lock_item" => call[p].op \notin {"put", "put_data"}
      BY <1>7, NoFailedPut DEF Puts
    <2>5. call[p].op # "drop"
      BY <2>3 DEF StageOK, KeyOps, Puts
    <2>6. Owed(p) = 0
      BY <2>3, <2>4 DEF Owed, PutStages
    <2>7. Owed(p)' = 0
      BY <2>1, <2>5 DEF Owed, PutStages
    <2>8. QED
      BY <2>1, <2>6, <2>7
  <1>8. QED
    BY <1>2, <1>3, <1>4, <1>5, <1>6, <1>7

LEMMA BalanceKept ==
  ASSUME TypeOK, FilesInv, StoreInv, OneThreadPerInstance, NothingFails, [Next]_vars,
         NEW p \in Procs, LedgerOK(p), PurgeListing(p), Balanced(p),
         \/ OpenKey(p) \/ LockItem(p) \/ OpenSource(p) \/ CopyDone(p) \/ ReadInfo(p)
         \/ Scan(p) \/ PurgeReadInfo(p) \/ PurgeLock(p) \/ PurgeSkip(p) \/ PurgeDone(p)
         \/ Fails(p)
  PROVE  Balanced(p)'
  <1> USE DEF FilesInv
  <1>1. Body(p) /\ Inside(p)
    BY BodyFrame DEF Body, TypeOK
  <1>2. Owed(p)' = Owed(p) /\ UNCHANGED <<dir, info>>
    BY OwedStays DEF Holdings, StoreInv
  <1>3. ~CopyChunk(p) /\ ~WriteData(p) /\ ~Return(p)
    BY DEF OpenKey, LockItem, OpenSource, CopyDone, ReadInfo, Scan, PurgeReadInfo,
           PurgeLock, PurgeSkip, PurgeDone, Fails, CanFail, CopyChunk, WriteData, Writing,
           Return, Goto, TypeOK, VarTypes
  <1>4. Total' = Total
    BY <1>1, <1>2, <1>3, Undisturbed, TotalKept
  <1>5. QED
    BY <1>1, <1>2, <1>4 DEF Balanced, RecordedSize

\* A new file is empty, and is counted for nothing.
LEMMA BalanceCreate ==
  ASSUME TypeOK, FilesInv, StoreInv, OneThreadPerInstance, NothingFails, [Next]_vars,
         NEW p \in Procs, Balanced(p), CreateKey(p)
  PROVE  Balanced(p)'
  <1> USE DEF TypeOK, FilesInv, Contents
  <1> DEFINE k == call[p].key
  <1>1. /\ pc[p] = "create" /\ pc'[p] = "lock_item" /\ UNCHANGED <<call, item, info>>
        /\ call[p].op \in Puts /\ k \in Keys /\ dir[k] = None /\ Inside(p)
    BY DEF CreateKey, Goto, VarTypes, StageOK, KeyOps, Inside
  <1>2. PICK i \in Inodes :
           /\ ofd'[Handle(p)].ino = i
           /\ \A l \in Keys : dir[l] # i
           /\ dir' = [dir EXCEPT ![k] = i]
           /\ file[i] = Blank
           /\ file'[i].size = file[i].size
    BY WriterMade
  <1>3. file'[i].size = 0 /\ dir'[k] = i /\ i # None
    <2>1. file'[i].size = 0
      BY <1>2 DEF Blank
    <2>2. dir'[k] = i
      BY <1>1, <1>2 DEF VarTypes
    <2>3. i # None
      BY FileCacheAssumption
    <2>4. QED
      BY <2>1, <2>2, <2>3
  <1>4. \A q \in Procs : /\ ~CopyChunk(q) /\ ~WriteData(q) /\ ~Return(q)
    BY <1>1, Alone
  <1>5. ASSUME NEW l \in Keys
        PROVE  CountedSize'[l] = CountedSize[l]
    <2>1. CASE l = k
      BY <1>1, <1>3, <2>1 DEF CountedSize
    <2>2. CASE l # k
      <3>1. dir'[l] = dir[l]
        BY <1>2, <2>2 DEF VarTypes
      <3>2. QED
        BY <1>4, <3>1, CountStays
    <2>3. QED
      BY <2>1, <2>2
  <1>6. Total' = Total
    BY <1>5, TotalStays
  <1>7. Owed(p) = 0
    BY <1>1 DEF Owed, PutStages
  <1>8. HandleSize(p)' = 0
    BY <1>1, <1>2, <1>3 DEF HandleSize, Handle
  <1>9. Owed(p)' = 0
    BY <1>1, <1>8 DEF Owed, PutStages, Puts
  <1>10. QED
    BY <1>1, <1>6, <1>7, <1>9 DEF Balanced, RecordedSize

\* What a put writes is counted at once, and is owed until it is recorded.
LEMMA BalanceWrite ==
  ASSUME TypeOK, VarTypes', FilesInv, StoreInv, OneThreadPerInstance, NothingFails,
         IsFiniteSet(Keys), [Next]_vars,
         NEW p \in Procs, Balanced(p), CopyChunk(p) \/ WriteData(p)
  PROVE  Balanced(p)'
  <1> USE DEF TypeOK, FilesInv, Contents
  <1> DEFINE k == call[p].key
             i == ofd[OpFd(p)].ino
  <1>1. /\ pc[p] = "write" /\ pc'[p] \in {"write", "read_info"}
        /\ UNCHANGED <<call, item, info, dir, ofd>>
        /\ call[p].op \in {"put", "put_data"} /\ k \in Keys /\ Inside(p)
    BY DEF CopyChunk, WriteData, Writing, Goto, VarTypes, StageOK, KeyOps, Puts, Inside, locks
  <1>2. i # None /\ i = dir[k] /\ ofd[OpFd(p)].lk = "ex" /\ i \in Inodes
    BY <1>1 DEF StoreInv, WorksOK, PutStages, VarTypes
  <1>3. ASSUME NEW q \in Procs
        PROVE  /\ ~Return(q)
               /\ CopyChunk(q) \/ WriteData(q) => q = p
    BY <1>1, Undisturbed DEF Return
  <1>4. ASSUME NEW l \in Keys \ {k}
        PROVE  CountedSize'[l] = CountedSize[l]
    <2>1. dir[l] # i
      BY <1>1, <1>2, <1>4 DEF OneName
    <2>2. QED
      BY <1>1, <1>3, <1>4, <2>1, CountStays
  <1>5. Total' = Total - CountedSize[k] + CountedSize'[k]
    BY <1>1, <1>4, TotalMoves
  <1>6. ~Outstanding(i)
    BY <1>1, <1>2, LockedIsCounted
  <1>7. ~Outstanding(i)'
    <2>1. ASSUME NEW q \in Procs
          PROVE  Owing(q, i)' <=> Owing(q, i)
      <3>1. pc'[q] = "close_item" <=> pc[q] = "close_item"
        <4>1. q # p => pc'[q] = pc[q]
          BY BodyFrame DEF Body
        <4>2. QED
          BY <1>1, <4>1
      <3>2. QED
        BY <1>1, <3>1 DEF Owing
    <2>2. QED
      BY <1>6, <2>1 DEF Outstanding, Owing
  <1>8. CountedSize[k] = file[i].size /\ CountedSize'[k] = file'[i].size
    BY <1>1, <1>2, <1>6, <1>7 DEF CountedSize
  <1>9. Handle(p) = OpFd(p) /\ Handle(p)' = OpFd(p)
    BY <1>1 DEF Handle
  <1>10. Owed(p) = file[i].size /\ Owed(p)' = file'[i].size
    <2>1. HandleSize(p) = file[i].size /\ HandleSize(p)' = file'[i].size
      BY <1>1, <1>2, <1>9 DEF HandleSize
    <2>2. QED
      BY <1>1, <2>1 DEF Owed, PutStages
  <1>11. RecordedSize' = RecordedSize /\ MakeUp(RecordedSize, Owed(p), Total)
    BY <1>1 DEF RecordedSize, Balanced, MakeUp
  <1>12. RecordedSize \in Int /\ Total \in Int
    BY SizesAreNat, TotalType
  <1>13. file[i].size \in Int /\ file'[i].size \in Int
    BY <1>2 DEF VarTypes
  <1>14. /\ Owed(p) \in Int /\ Owed(p)' \in Int /\ Total' \in Int
         /\ Owed(p)' - Owed(p) = Total' - Total
    BY <1>5, <1>8, <1>10, <1>12, <1>13
  <1>15. MakeUp(RecordedSize, Owed(p)', Total')
    BY <1>11, <1>12, <1>14, BothSides
  <1>16. QED
    BY <1>11, <1>15 DEF Balanced, MakeUp

LEMMA MinusPlusZero ==
  ASSUME NEW t \in Int, NEW n \in Int
  PROVE  t - n + 0 = t - n
  OBVIOUS

\* Removing a locked file takes what it holds off the total.
LEMMA RemovalCounts ==
  ASSUME TypeOK, VarTypes', FilesInv, StoreInv, OneThreadPerInstance, NothingFails,
         IsFiniteSet(Keys), [Next]_vars, NEW p \in Procs, Inside(p), ~Return(p),
         pc[p] \notin {"lock_item", "write"}, NEW k \in Keys, dir[k] # None,
         ofd[OpFd(p)].ino = dir[k], ofd[OpFd(p)].lk = "ex",
         dir' = [dir EXCEPT ![k] = None]
  PROVE  Total' = Total - file[dir[k]].size
  <1>1. \A q \in Procs : /\ ~CopyChunk(q) /\ ~WriteData(q) /\ ~Return(q)
    BY WritesAlone DEF FilesInv
  <1>2. ASSUME NEW l \in Keys \ {k}
        PROVE  CountedSize'[l] = CountedSize[l]
    BY <1>1, <1>2, CountStays DEF TypeOK, VarTypes
  <1>3. ~Outstanding(dir[k])
    BY LockedIsCounted
  <1>4. CountedSize[k] = file[dir[k]].size /\ CountedSize'[k] = 0
    BY <1>3 DEF CountedSize, TypeOK, VarTypes
  <1>5. Total' = Total - CountedSize[k] + CountedSize'[k]
    BY <1>2, TotalMoves DEF TypeOK
  <1>6. Total \in Int /\ file[dir[k]].size \in Int
    BY TotalType DEF TypeOK, VarTypes
  <1>7. Total' = Total - file[dir[k]].size + 0
    BY <1>4, <1>5, Zenon
  <1>8. QED
    BY <1>6, <1>7, MinusPlusZero

LEMMA BalanceRemove ==
  ASSUME TypeOK, VarTypes', FilesInv, StoreInv, OneThreadPerInstance, NothingFails,
         IsFiniteSet(Keys), [Next]_vars, NEW p \in Procs, Balanced(p), RemoveKey(p)
  PROVE  Balanced(p)'
  <1> USE DEF TypeOK, FilesInv
  <1> DEFINE k == call[p].key
             i == ofd[OpFd(p)].ino
  <1>1. /\ pc[p] = "remove" /\ pc'[p] = "read_info" /\ call[p].op = "del"
        /\ UNCHANGED <<call, ofd, file, info>> /\ dir' = [dir EXCEPT ![k] = None]
        /\ k \in Keys /\ Inside(p)
    BY DEF RemoveKey, Goto, VarTypes, StageOK, KeyOps, locks, Inside
  <1>2. i = dir[k] /\ i # None /\ ofd[OpFd(p)].lk = "ex" /\ i \in Inodes
    BY <1>1 DEF HandleOpen, HandleOpenAt, VarTypes
  <1>3. Total' = Total - file[i].size
    BY <1>1, <1>2, RemovalCounts DEF Return
  <1>4. Owed(p) = 0 /\ Owed(p)' = 0 - file[i].size
    <2>1. HandleSize(p)' = file[i].size
      BY <1>1, <1>2 DEF HandleSize, Handle
    <2>2. QED
      BY <1>1, <2>1 DEF Owed
  <1>5. RecordedSize \in Int /\ Total \in Int /\ file[i].size \in Int
    <2>1. RecordedSize \in Int /\ Total \in Int
      BY SizesAreNat, TotalType
    <2>2. file[i].size \in Int
      BY <1>2 DEF VarTypes
    <2>3. QED
      BY <2>1, <2>2
  <1>6. MakeUp(RecordedSize, Owed(p), Total) /\ RecordedSize' = RecordedSize
    BY <1>1 DEF Balanced, RecordedSize, MakeUp
  <1>7. /\ Owed(p) \in Int /\ Owed(p)' \in Int /\ Total' \in Int
        /\ Owed(p)' - Owed(p) = Total' - Total
    BY <1>3, <1>4, <1>5
  <1>8. MakeUp(RecordedSize, Owed(p)', Total')
    BY <1>5, <1>6, <1>7, BothSides
  <1>9. QED
    BY <1>6, <1>8 DEF Balanced, MakeUp

LEMMA BalancePurge ==
  ASSUME TypeOK, VarTypes', FilesInv, StoreInv, OneThreadPerInstance, NothingFails,
         IsFiniteSet(Keys), [Next]_vars, NEW p \in Procs, Balanced(p), LedgerOK(p),
         PurgeListing(p), PurgeRemove(p)
  PROVE  Balanced(p)'
  <1> USE DEF TypeOK, FilesInv
  <1> DEFINE k == call[p].key
             i == ofd[OpFd(p)].ino
  <1>1. /\ pc[p] = "purge_remove" /\ pc'[p] = "purge" /\ call[p].op = "purge"
        /\ call'[p].op = "purge" /\ UNCHANGED info /\ k \in Keys /\ Inside(p)
    BY DEF PurgeRemove, Goto, VarTypes, Calls, StageOK, Inside
  <1>2. i = dir[k] /\ i # None /\ ofd[OpFd(p)].lk = "ex" /\ i \in Inodes
    BY <1>1 DEF HandleOpen, HandleOpenAt, VarTypes
  <1>3. PICK e \in todo[p] :
           /\ e.key = k
           /\ dir' = [dir EXCEPT ![e.key] = None]
           /\ removed' = [removed EXCEPT ![p] = @ + e.size]
    BY <1>2 DEF PurgeRemove, NothingFails
  <1>4. Total' = Total - file[i].size /\ ~Outstanding(i)
    <2>1. Total' = Total - file[i].size
      BY <1>1, <1>2, <1>3, RemovalCounts DEF Return
    <2>2. ~Outstanding(i)
      BY <1>1, <1>2, LockedIsCounted
    <2>3. QED
      BY <2>1, <2>2
  <1>5. e.size = file[i].size
    BY <1>1, <1>2, <1>3, <1>4 DEF LedgerOK, SizesKnown
  <1>6. /\ removed'[p] = removed[p] + file[i].size
        /\ removed[p] \in Int /\ file[i].size \in Int
    BY <1>2, <1>3, <1>5 DEF VarTypes
  <1>7. Owed(p) = 0 - removed[p] /\ Owed(p)' = 0 - removed'[p]
    BY <1>1 DEF Owed
  <1>8. RecordedSize \in Int /\ Total \in Int
    BY SizesAreNat, TotalType
  <1>9. MakeUp(RecordedSize, Owed(p), Total) /\ RecordedSize' = RecordedSize
    BY <1>1 DEF Balanced, RecordedSize, MakeUp
  <1>10. /\ Owed(p) \in Int /\ Owed(p)' \in Int /\ Total' \in Int
         /\ Owed(p)' - Owed(p) = Total' - Total
    BY <1>4, <1>6, <1>7, <1>8
  <1>11. MakeUp(RecordedSize, Owed(p)', Total')
    BY <1>8, <1>9, <1>10, BothSides
  <1>12. QED
    BY <1>9, <1>11 DEF Balanced, MakeUp

\* What is written to cache_info is what was due.
LEMMA BalanceRecord ==
  ASSUME TypeOK, FilesInv, StoreInv, OneThreadPerInstance, NothingFails,
         IsFiniteSet(Keys), [Next]_vars, NEW p \in Procs, Balanced(p), LedgerOK(p),
         WriteInfo(p)
  PROVE  Balanced(p)' /\ info'.state = "sized"
  <1> USE DEF TypeOK, FilesInv
  <1>1. /\ pc[p] = "write_info" /\ pc'[p] = "return" /\ UNCHANGED <<dir, ofd, file>>
        /\ call'[p].op = call[p].op /\ Inside(p)
        /\ call[p].op \in {"put", "put_data", "del", "drop", "purge"}
        /\ info' = [state |-> "sized", size |-> ci[p]]
    BY DEF WriteInfo, Exit, Goto, VarTypes, Calls, Inside, locks, LedgerOK
  <1>2. HandleSize(p)' = HandleSize(p)
    BY <1>1 DEF HandleSize, Handle
  <1>3. Total' = Total
    BY <1>1, Alone, TotalKept
  <1>4. RecordedSize' = (RecordedSize + Due(p)) % W
    BY <1>1 DEF RecordedSize, LedgerOK
  <1>5. (RecordedSize + Owed(p)) % W = Total % W
    BY <1>1 DEF Balanced
  <1>6. /\ RecordedSize \in Int /\ Total \in Int /\ HandleSize(p) \in Int
        /\ removed[p] \in Int /\ W \in Nat \ {0}
    BY SizesAreNat, TotalType, FileCacheAssumption DEF VarTypes
  <1>7. Owed(p) \in Int /\ Due(p) \in Int
    BY <1>1, <1>6 DEF Owed, Due
  <1>8. CASE call[p].op = "drop"
    <2>1. Owed(p) = 0 /\ Due(p) = HandleSize(p) /\ Owed(p)' = 0 - HandleSize(p)
      BY <1>1, <1>2, <1>8 DEF Owed, Due, PutStages
    <2>2. RecordedSize + HandleSize(p) \in Int /\ 0 - HandleSize(p) \in Int
      BY <1>6
    <2>3. (RecordedSize' + Owed(p)') % W
            = ((RecordedSize + HandleSize(p)) + (0 - HandleSize(p))) % W
      BY <1>4, <1>6, <2>1, <2>2, ModTwice
    <2>4. (RecordedSize + HandleSize(p)) + (0 - HandleSize(p)) = RecordedSize + 0
      BY <1>6
    <2>5. QED
      BY <1>1, <1>3, <1>5, <2>1, <2>3, <2>4 DEF Balanced
  <1>9. CASE call[p].op # "drop"
    <2>1. Due(p) = Owed(p) /\ Owed(p)' = 0
      BY <1>1, <1>9 DEF Due, Owed, PutStages
    <2>2. RecordedSize + Due(p) \in Int
      BY <1>6, <1>7
    <2> DEFINE a == RecordedSize + Due(p)
    <2>3. ((a % W) + 0) % W = (a + 0) % W
      <3>1. a \in Int /\ 0 \in Int
        BY <2>2
      <3> HIDE DEF a
      <3>2. QED
        BY <1>6, <3>1, ModTwice
    <2>4. a + 0 = a /\ (RecordedSize' + Owed(p)') % W = ((a % W) + 0) % W
      BY <1>4, <2>1, <2>2
    <2>5. QED
      BY <1>1, <1>3, <1>5, <2>1, <2>3, <2>4 DEF Balanced
  <1>10. QED
    BY <1>1, <1>8, <1>9

LEMMA RecordedReduced ==
  ASSUME VarTypes
  PROVE  RecordedSize \in 0..(W - 1) /\ RecordedSize % W = RecordedSize
  <1>1. RecordedSize \in 0..(W - 1) /\ W \in Nat \ {0}
    BY FileCacheAssumption DEF VarTypes, CacheInfo, RecordedSize
  <1>2. (0 * W) + RecordedSize = RecordedSize
    BY <1>1
  <1>3. QED
    BY <1>1, <1>2, ModUnique

\* Who takes the lock on the cache finds the books closed, and owes nothing.
LEMMA BalanceLock ==
  ASSUME TypeOK, FilesInv, StoreInv, OneThreadPerInstance, NothingFails, Books,
         [Next]_vars, NEW p \in Procs, LockCache(p)
  PROVE  Balanced(p)'
  <1> USE DEF TypeOK, FilesInv
  <1>1. /\ pc[p] = "lock" /\ pc'[p] = Entry(call[p].op)
        /\ cacheLock \in {None, InstanceOf[p]}
        /\ UNCHANGED <<call, info, dir>>
        /\ call[p].op \in Operations \cup {"drop"}
    BY DEF LockCache, VarTypes, Goto, Calls, StageOK, disk
  <1>2. /\ pc'[p] \in {"create", "open", "read_info"}
        /\ pc'[p] = "read_info" => call[p].op \in {"drop", "purge"}
    BY <1>1 DEF Entry, StoreInv, WorksOK, Operations
  <1>3. ASSUME NEW q \in Procs, Inside(q)
        PROVE  FALSE
    <2>1. cacheLock = InstanceOf[q] /\ InstanceOf[q] # None
      BY <1>3, InstanceType DEF InsideLocked
    <2>2. q = p
      BY <1>1, <2>1 DEF OneThreadPerInstance
    <2>3. QED
      BY <1>1, <1>3, <2>2 DEF Inside
  <1>4. RecordedSize = Total % W
    BY <1>3 DEF Books
  <1>5. Total' = Total
    <2>1. \A q \in Procs : ~CopyChunk(q) /\ ~WriteData(q) /\ ~Return(q)
      BY <1>3 DEF CopyChunk, WriteData, Writing, Return, Inside
    <2>2. QED
      BY <1>1, <2>1, TotalKept
  <1>6. Owed(p)' = 0 /\ RecordedSize' = RecordedSize
    BY <1>1, <1>2 DEF Owed, PutStages, RecordedSize
  <1>7. RecordedSize + 0 = RecordedSize /\ RecordedSize % W = RecordedSize
    BY RecordedReduced, SizesAreNat
  <1>8. QED
    BY <1>4, <1>5, <1>6, <1>7 DEF Balanced

LEMMA BalanceStep ==
  ASSUME TypeOK, VarTypes', FilesInv, StoreInv, OneThreadPerInstance, NothingFails,
         IsFiniteSet(Keys), [Next]_vars, NEW p \in Procs, Balanced(p), LedgerOK(p),
         PurgeListing(p), Body(p)
  PROVE  Balanced(p)'
  <1>1. ~ClearRemove(p) /\ ~ClearDone(p)
    BY DEF ClearRemove, ClearDone, StoreInv, WorksOK
  <1>2. QED
    BY <1>1, Faultless, BalanceKept, BalanceCreate, BalanceWrite, BalanceRemove,
       BalancePurge, BalanceRecord
    DEF Body

\* The size of a PutItem's file is counted when its destructor has returned, if it has
\* one.
LEMMA DropCounts ==
  ASSUME TypeOK, VarTypes', FilesInv, StoreInv, OneThreadPerInstance, NothingFails,
         IsFiniteSet(Keys), [Next]_vars, NEW p \in Procs, Return(p), call[p].op = "drop"
  PROVE  Total' = Total + HandleSize(p)
  <1> USE DEF TypeOK, FilesInv, Contents
  <1> DEFINE i == ofd[ItemFd(p)].ino
  <1>1. /\ pc[p] = "return" /\ pc'[p] = "close_item" /\ UNCHANGED <<dir, item>>
        /\ item[p] = "put" /\ Inside(p) /\ Handle(p) = ItemFd(p) /\ Reclaim
        /\ \A q \in Procs \ {p} : pc'[q] = pc[q]
        /\ \A q \in Procs : ofd'[ItemFd(q)] = ofd[ItemFd(q)]
    <2>1. /\ pc[p] = "return" /\ UNCHANGED <<dir, item>> /\ Reclaim
          /\ pc' = [pc EXCEPT ![p] = "close_item"]
          /\ ofd' = [ofd EXCEPT ![OpFd(p)] = Closed]
      BY DEF Return, Goto, AfterCall
    <2>2. item[p] = "put"
      BY DEF Holdings, HoldsOK
    <2>3. \A q \in Procs : ItemFd(q) \in Ofds /\ ItemFd(q) # OpFd(p)
      BY DEF ItemFd, OpFd, Ofds
    <2>4. \A q \in Procs : ofd'[ItemFd(q)] = ofd[ItemFd(q)]
      BY <2>1, <2>3 DEF VarTypes
    <2>5. pc'[p] = "close_item" /\ \A q \in Procs \ {p} : pc'[q] = pc[q]
      BY <2>1 DEF VarTypes
    <2>6. Inside(p) /\ Handle(p) = ItemFd(p)
      BY <2>1 DEF Inside, Handle
    <2>7. QED
      BY <2>1, <2>2, <2>4, <2>5, <2>6
  <1>2. \A q \in Procs : ~CopyChunk(q) /\ ~WriteData(q) /\ (Return(q) => q = p)
    BY <1>1, WritesAlone
  <1>3. ASSUME NEW l \in Keys, dir[l] = None \/ dir[l] # i
        PROVE  CountedSize'[l] = CountedSize[l]
    <2>1. CASE dir[l] = None
      BY <1>1, <2>1 DEF CountedSize
    <2>2. CASE dir[l] # None
      BY <1>1, <1>2, <1>3, <2>2, CountStays
    <2>3. QED
      BY <2>1, <2>2
  <1>4. CASE i = None
    <2>1. Total' = Total
      BY <1>3, <1>4, TotalStays
    <2>2. HandleSize(p) = 0
      BY <1>1, <1>4 DEF HandleSize
    <2>3. QED
      BY <2>1, <2>2, TotalType
  <1>5. CASE i # None
    <2>1. Makes(p) /\ ofd[ItemFd(p)].lk = "ex"
      BY <1>1, <1>5 DEF Makes, StoreInv, OwnsOK
    <2>2. PICK k \in Keys : dir[k] # None /\ dir[k] = i
      BY <2>1 DEF StoreInv, OwnsOK
    <2>3. \A l \in Keys \ {k} : CountedSize'[l] = CountedSize[l]
      BY <1>3, <2>2 DEF OneName
    <2>4. Outstanding(i)
      BY <1>1 DEF Outstanding
    <2>5. ~Outstanding(i)'
      <3>1. SUFFICES ASSUME NEW q \in Procs, item[q] = "put", pc'[q] # "close_item",
                            ofd[ItemFd(q)].ino = i
                     PROVE  FALSE
        BY <1>1 DEF Outstanding
      <3>2. q # p
        BY <1>1, <3>1
      <3>3. ~Inside(q)
        BY <1>1, <3>2, InsideAlone
      <3>4. ofd[ItemFd(q)].lk = "ex"
        BY <1>5, <3>1, <3>3 DEF Inside, Makes, StoreInv, OwnsOK
      <3>5. ItemFd(p) \in Ofds /\ ItemFd(q) \in Ofds /\ ItemFd(p) # ItemFd(q)
        BY <3>2 DEF ItemFd, Ofds
      <3>6. QED
        BY <1>5, <2>1, <3>1, <3>4, <3>5 DEF FlockExclusive
    <2>6. file'[i] = file[i]
      BY <1>1, <2>2, ReclaimLinked DEF VarTypes
    <2>7. CountedSize[k] = 0 /\ CountedSize'[k] = HandleSize(p)
      BY <1>1, <1>5, <2>2, <2>4, <2>5, <2>6 DEF CountedSize, HandleSize
    <2>8. Total' = Total - CountedSize[k] + CountedSize'[k]
      BY <2>3, TotalMoves
    <2>9. Total \in Int /\ HandleSize(p) \in Int
      BY TotalType, SizesAreNat
    <2>10. QED
      BY <2>7, <2>8, <2>9
  <1>6. QED
    BY <1>4, <1>5

\* Who gives the lock up leaves the books closed.
LEMMA ReturnCloses ==
  ASSUME TypeOK, VarTypes', FilesInv, StoreInv, OneThreadPerInstance, NothingFails,
         IsFiniteSet(Keys), [Next]_vars, NEW p \in Procs, Balanced(p), Return(p)
  PROVE  RecordedSize' = Total' % W
  <1> USE DEF TypeOK, FilesInv
  <1>1. pc[p] = "return" /\ Inside(p) /\ UNCHANGED <<dir, info>>
    BY DEF Return, Inside
  <1>2. (RecordedSize + Owed(p)) % W = Total % W /\ RecordedSize' = RecordedSize
    BY <1>1 DEF Balanced, RecordedSize
  <1>3. /\ RecordedSize \in Int /\ Total \in Int /\ HandleSize(p) \in Int
        /\ RecordedSize % W = RecordedSize
    BY SizesAreNat, TotalType, RecordedReduced
  <1>4. CASE call[p].op = "drop"
    <2>1. Owed(p) = 0 - HandleSize(p)
      BY <1>1, <1>4 DEF Owed, PutStages
    <2>2. Total' = Total + HandleSize(p)
      BY <1>4, DropCounts
    <2>3. /\ Total' \in Int /\ Owed(p) \in Int /\ 0 - Owed(p) = Total' - Total
      BY <1>3, <2>1, <2>2
    <2>4. MakeUp(RecordedSize, Owed(p), Total)
      BY <1>2 DEF MakeUp
    <2>5. MakeUp(RecordedSize, 0, Total')
      BY <1>3, <2>3, <2>4, BothSides
    <2>6. QED
      BY <1>2, <1>3, <2>5 DEF MakeUp
  <1>5. CASE call[p].op # "drop"
    <2>1. Owed(p) = 0
      BY <1>1, <1>5 DEF Owed, PutStages
    <2>2. ASSUME NEW q \in Procs
          PROVE  /\ ~CopyChunk(q) /\ ~WriteData(q)
                 /\ ~(Return(q) /\ call[q].op = "drop")
      <3>1. CASE CopyChunk(q) \/ WriteData(q) \/ Return(q)
        <4>1. q = p
          BY <1>1, <3>1, Undisturbed
        <4>2. pc[q] # "write" /\ call[q].op # "drop"
          BY <1>1, <1>5, <4>1
        <4>3. QED
          BY <4>2 DEF CopyChunk, WriteData, Writing
      <3>2. QED
        BY <3>1
    <2>3. Total' = Total
      BY <1>1, <2>2, TotalKept
    <2>4. QED
      BY <1>2, <1>3, <2>1, <2>3
  <1>6. QED
    BY <1>4, <1>5

\* Outside a call there is nothing to know.
LEMMA LedgerOutside ==
  ASSUME TypeOK, NEW p \in Procs, LedgerOK(p),
         Caller(p) \/ Return(p) \/ InitializeWrite(p)
  PROVE  Balanced(p)' /\ LedgerOK(p)' /\ ~Inside(p)'
  <1> USE DEF TypeOK
  <1>1. pc'[p] \in {"idle", "init_write", "lock", "close_item"}
    BY DEF Caller, InitializeCreate, InitializeOpen, CanInitialize, CallPut, CallPutData,
           CallPutItem, CallGet, CallDel, CallClear, CallPurge, Call, UserWrite,
           DropPutItem, CloseItem, Return, AfterCall, InitializeWrite, Goto, VarTypes
  <1>2. removed'[p] = 0
    <2>1. CASE Return(p)
      BY <2>1 DEF Return, VarTypes
    <2>2. CASE Caller(p) \/ InitializeWrite(p)
      <3>1. /\ UNCHANGED removed
            /\ pc[p] \in {"idle", "init_write", "lock", "close_item"}
        BY <2>2
        DEF Caller, InitializeCreate, InitializeOpen, CanInitialize, CallPut,
            CallPutData, CallPutItem, CallGet, CallDel, CallClear, CallPurge, Call,
            UserWrite, DropPutItem, CloseItem, InitializeWrite, work
      <3>2. QED
        BY <3>1 DEF LedgerOK
    <2>3. QED
      BY <2>1, <2>2
  <1>3. QED
    BY <1>1, <1>2 DEF Inside, Balanced, LedgerOK, SizesKnown

\* When everybody is outside, the books are closed.
LEMMA BooksClosed ==
  ASSUME TypeOK, VarTypes', FilesInv, StoreInv, OneThreadPerInstance, NothingFails,
         IsFiniteSet(Keys), Books, [Next]_vars, \A p \in Procs : ~Inside(p)'
  PROVE  RecordedSize' = Total' % W
  <1> USE DEF TypeOK, FilesInv
  <1>1. CASE \E p \in Procs : Return(p)
    BY <1>1, ReturnCloses DEF Books
  <1>2. CASE \A p \in Procs : ~Return(p)
    <2>1. ASSUME NEW p \in Procs, Body(p) \/ LockCache(p)
          PROVE  FALSE
      <3>1. Inside(p)'
        BY <2>1, BodyStays
      <3>2. QED
        BY <3>1
    <2>2. ASSUME NEW q \in Procs
          PROVE  ~Inside(q)
      <3>1. CASE Caller(q) \/ InitializeWrite(q)
        BY <3>1, CallerFrame, InitializeFrame
      <3>2. CASE Apart(q)
        BY <3>2 DEF Apart, Inside
      <3>3. QED
        BY <1>2, <2>1, <3>1, <3>2, OwnOrApart, Faultless DEF Step
    <2>3. \A p \in Procs : ~CopyChunk(p) /\ ~WriteData(p) /\ ~WriteInfo(p)
      BY <2>1 DEF Body
    <2>4. UNCHANGED info
      BY <2>3, InfoStays DEF Books
    <2>5. UNCHANGED dir
      BY <1>2, <2>1, CallerFrame, InitializeFrame, Faultless
      DEF Next, Step, Tick, Destroy, vars, disk
    <2>6. Total' = Total
      BY <1>2, <2>3, <2>5, TotalKept
    <2>7. QED
      BY <2>2, <2>4, <2>6 DEF Books, RecordedSize
  <1>3. QED
    BY <1>1, <1>2

LEMMA BooksPreserved ==
  ASSUME TypeOK, VarTypes', FilesInv, StoreInv, PurgeListings, PurgeListings',
         OneThreadPerInstance, NothingFails, IsFiniteSet(Keys), Books, [Next]_vars
  PROVE  Books'
  <1> USE DEF TypeOK, FilesInv
  <1>1. info'.state = "sized"
    <2>1. CASE \E p \in Procs : WriteInfo(p)
      BY <2>1 DEF WriteInfo
    <2>2. CASE \A p \in Procs : ~WriteInfo(p)
      BY <2>2, InfoStays DEF Books
    <2>3. QED
      BY <2>1, <2>2
  <1>2. ASSUME NEW q \in Procs
        PROVE  pc'[q] # "init_write" /\ Balanced(q)' /\ LedgerOK(q)'
    <2>1. /\ info.state = "sized" /\ pc[q] # "init_write" /\ Balanced(q) /\ LedgerOK(q)
          /\ WorksOK(q) /\ PurgeListing(q) /\ PurgeListing(q)'
          /\ \A p \in Procs : pc[p] # "init_write"
      BY DEF Books, StoreInv, PurgeListings
    <2>2. CASE Body(q) \/ LockCache(q)
      <3>1. SizesKnown(q)'
        BY <2>1, <2>2, SizesKnownStep DEF LedgerOK
      <3>2. LedgerOK(q)'
        BY <2>1, <2>2, <3>1, LedgerLock, LedgerStep
      <3>3. Balanced(q)'
        BY <2>1, <2>2, BalanceLock, BalanceStep
      <3>4. pc'[q] # "init_write"
        BY <2>2, BodyStays DEF Inside
      <3>5. QED
        BY <3>2, <3>3, <3>4
    <2>3. CASE Caller(q) \/ Return(q) \/ InitializeWrite(q)
      <3>1. pc'[q] # "init_write"
        BY <2>1, <2>3
        DEF Caller, InitializeCreate, InitializeOpen, CanInitialize, CallPut, CallPutData,
            CallPutItem, CallGet, CallDel, CallClear, CallPurge, Call, UserWrite,
            DropPutItem, CloseItem, Return, AfterCall, InitializeWrite, Goto, VarTypes
      <3>2. QED
        BY <2>1, <2>3, <3>1, LedgerOutside
    <2>4. CASE ~(Caller(q) \/ LockCache(q) \/ Step(q))
      <3>1. Apart(q)
        BY <2>4, OwnOrApart
      <3>2. QED
        BY <2>1, <2>4, <3>1, BooksApart DEF Apart
    <2>5. QED
      BY <2>2, <2>3, <2>4, Faultless DEF Step
  <1>3. QED
    BY <1>1, <1>2, BooksClosed DEF Books

\* A cache that exists and is empty has nothing in its books.
FreshInfo == InitialInfo = {[state |-> "sized", size |-> 0]}

LEMMA BooksInit ==
  ASSUME Init, FreshInfo, IsFiniteSet(Keys)
  PROVE  Books
  <1>1. VarTypes
    BY TypeInit
  <1>2. \A k \in Keys : CountedSize[k] = 0
    BY DEF CountedSize, Init
  <1>3. Total = 0
    BY <1>1, <1>2, CountsAreNat, SumOfNothing DEF Total
  <1>4. info = [state |-> "sized", size |-> 0]
    BY DEF Init, FreshInfo
  <1>5. RecordedSize = 0 /\ 0 % W = 0
    BY <1>1, <1>4, RecordedReduced DEF RecordedSize
  <1>6. \A p \in Procs : pc[p] = "idle" /\ removed[p] = 0 /\ ~Inside(p)
    BY DEF Init, Inside
  <1>7. QED
    BY <1>3, <1>4, <1>5, <1>6 DEF Books, Balanced, LedgerOK, SizesKnown

\* AccountingExact: whenever the cache is unlocked, cache_info holds the sum of the
\* sizes of the cached files, but for those whose PutItem is still to be destroyed:
\* for any number of processes, whatever order their calls come in and whatever they
\* store, if no system call fails, nobody calls clear() and the cache was empty.
THEOREM CounterIsExact ==
  /\ OneThreadPerInstance /\ NothingFails /\ FreshInfo /\ IsFiniteSet(Keys)
  => (Spec => []AccountingExact)
  <1> SUFFICES ASSUME OneThreadPerInstance, NothingFails, FreshInfo, IsFiniteSet(Keys)
               PROVE  Spec => []AccountingExact
    OBVIOUS
  <1> DEFINE IInv == FilesInv /\ StoreInv /\ UsedBefore /\ PurgeListings /\ Books
  <1>1. Init => IInv
    <2>1. Init => UsedBefore /\ PurgeListings
      BY TypeInit DEF Init, UsedBefore, PurgeListings, PurgeListing, Blank
    <2>2. QED
      BY <2>1, FilesInvInit, StoreInvInit, BooksInit
  <1>2. TypeOK /\ TypeOK' /\ IInv /\ [Next]_vars => IInv'
    <2> SUFFICES ASSUME TypeOK, TypeOK', IInv, [Next]_vars
                 PROVE  IInv'
      OBVIOUS
    <2>1. FilesInv' /\ StoreInv' /\ UsedBefore'
      BY FilesInvPreserved, StoreInvPreserved, UsedBeforePreserved
    <2>2. PurgeListings'
      BY PurgeListingsPreserved DEF FilesInv
    <2>3. Books'
      BY <2>2, BooksPreserved DEF TypeOK
    <2>4. QED
      BY <2>1, <2>2, <2>3
  <1>3. TypeOK /\ IInv => AccountingExact
    <2> SUFFICES ASSUME IInv, cacheLock = None
                 PROVE  RecordedSize = SumFunction(CountedSize) % W
      BY DEF AccountingExact
    <2>1. \A p \in Procs : ~Inside(p)
      BY InstanceType DEF FilesInv, InsideLocked
    <2>2. QED
      BY <2>1 DEF Books, Total
  <1>4. QED
    <2> HIDE DEF IInv
    <2>1. QED
      BY <1>1, <1>2, <1>3, TypeCorrect, PTL DEF Spec

=============================================================================
