-------------------------- MODULE FileCacheProofs --------------------------
(***************************************************************************)
(* Theorems about FileCache, for every set of processes, keys and sizes:   *)
(* types, exclusion, what a purge removes and in which order, and what     *)
(* happens to data once stored.                                            *)
(***************************************************************************)
EXTENDS FileCacheProperties, TLAPS

\* Each thread of control has a FileCache object of its own, as separate
\* processes do: then flock() on cache_info excludes them from one another.
OneThreadPerInstance ==
    \A p, q \in Procs : InstanceOf[p] = InstanceOf[q] => p = q

-----------------------------------------------------------------------------
(* Lemmas about the operators.                                             *)

\* Reduction modulo W gives a value that cache_info can hold.
LEMMA CounterRange == \A n \in Int : n % W \in 0..(W - 1)
  BY FileCacheAssumption

\* A FileCache object is never None.
LEMMA InstanceType == \A p \in Procs : InstanceOf[p] \in Instances
                                       /\ InstanceOf[p] # None
  BY FileCacheAssumption

LEMMA OfdType == \A p \in Procs : OpFd(p) \in Ofds /\ ItemFd(p) \in Ofds
                                  /\ OpFd(p) # ItemFd(p)
  BY DEF Ofds, OpFd, ItemFd

\* Whatever call p makes, the descriptor it works on is one of its own.
LEMMA HandleType == \A p \in Procs : Handle(p) \in Ofds
  BY OfdType DEF Handle

\* get_file_size() and get_cache_info_size() return natural numbers.
LEMMA SizesAreNat ==
  ASSUME VarTypes, NEW p \in Procs
  PROVE  HandleSize(p) \in Nat /\ RecordedSize \in Nat
  <1>1. ofd[Handle(p)].ino \in Inodes \cup {None}
    BY HandleType DEF VarTypes
  <1>2. \A i \in Inodes : file[i].size \in Nat
    BY DEF VarTypes
  <1>3. HandleSize(p) \in Nat
    BY <1>1, <1>2 DEF HandleSize
  <1>4. info.size \in Nat
    BY FileCacheAssumption DEF VarTypes, CacheInfo
  <1>5. QED
    BY <1>3, <1>4 DEF RecordedSize

\* The reclaiming of inodes leaves every file a file.
LEMMA ReclaimType ==
  ASSUME VarTypes, Reclaim
  PROVE  file' \in [Inodes -> [size : Nat, full : BOOLEAN, atime : Nat]]
  BY DEF VarTypes, Reclaim, Blank

LEMMA TouchType ==
  ASSUME VarTypes, NEW i, Touch(i)
  PROVE  file' \in [Inodes -> [size : Nat, full : BOOLEAN, atime : Nat]]
  BY DEF VarTypes, Touch

\* A write makes a file of any size, or one unit larger.
LEMMA ResizeType ==
  ASSUME VarTypes, NEW i, NEW n \in Nat,
         file' = [file EXCEPT ![i].size = n]
  PROVE  file' \in [Inodes -> [size : Nat, full : BOOLEAN, atime : Nat]]
  <1>1. \A j \in Inodes : file[j] \in [size : Nat, full : BOOLEAN, atime : Nat]
                            /\ file[j].size \in Nat
    BY DEF VarTypes
  <1>2. \A f \in [size : Nat, full : BOOLEAN, atime : Nat] :
          [f EXCEPT !.size = n] \in [size : Nat, full : BOOLEAN, atime : Nat]
    OBVIOUS
  <1>3. QED
    BY <1>1, <1>2 DEF VarTypes

LEMMA GrowType ==
  ASSUME VarTypes, NEW i,
         file' = [file EXCEPT ![i].size = @ + 1]
  PROVE  file' \in [Inodes -> [size : Nat, full : BOOLEAN, atime : Nat]]
  <1>1. CASE i \in Inodes
    <2>1. file[i].size + 1 \in Nat
      BY <1>1 DEF VarTypes
    <2>2. file' = [file EXCEPT ![i].size = file[i].size + 1]
      OBVIOUS
    <2>3. QED
      BY <2>1, <2>2, ResizeType
  <1>2. CASE i \notin Inodes
    BY <1>2 DEF VarTypes
  <1>3. QED
    BY <1>1, <1>2

LEMMA ListingType ==
  ASSUME VarTypes
  PROVE  Listing \in SUBSET Entries
  BY DEF VarTypes, Listing, Entries

\* A thread of control moves to a label; a method leaves with a result.
LEMMA GotoType ==
  ASSUME VarTypes, NEW p \in Procs, NEW l \in Labels, Goto(p, l)
  PROVE  pc' \in [Procs -> Labels]
  BY DEF VarTypes, Goto

LEMMA ExitType ==
  ASSUME VarTypes, NEW p \in Procs, NEW ok \in BOOLEAN, Exit(p, ok)
  PROVE  pc' \in [Procs -> Labels] /\ call' \in [Procs -> Calls]
  <1>1. "return" \in Labels
    BY DEF Labels
  <1>2. pc' \in [Procs -> Labels]
    BY <1>1, GotoType DEF Exit
  <1>3. \A c \in Calls : [c EXCEPT !.ok = ok] \in Calls
    BY DEF Calls
  <1>4. call' \in [Procs -> Calls]
    BY <1>3 DEF Exit, VarTypes
  <1>5. QED
    BY <1>2, <1>4

\* The record of a thread of control that is making no call.
LEMMA NoCallType == NoCall \in Calls /\ [NoCall EXCEPT !.op = "drop"] \in Calls
  BY DEF NoCall, Calls

-----------------------------------------------------------------------------
(* Type correctness.                                                       *)

LEMMA TypeInit == Init => VarTypes
  <1> SUFFICES ASSUME Init
               PROVE  VarTypes
    OBVIOUS
  <1>1. pc \in [Procs -> Labels] /\ call \in [Procs -> Calls]
    BY NoCallType DEF Init, Labels
  <1>2. ci \in [Procs -> 0..(W - 1)]
    <2>1. 0 \in 0..(W - 1)
      BY FileCacheAssumption
    <2>2. QED
      BY <2>1 DEF Init
  <1>3. file \in [Inodes -> [size : Nat, full : BOOLEAN, atime : Nat]]
    <2>1. Blank \in [size : Nat, full : BOOLEAN, atime : Nat]
      BY DEF Blank
    <2>2. QED
      BY <2>1 DEF Init
  <1>4. ofd \in [Ofds -> [ino : Inodes \cup {None}, lk : {"un", "sh", "ex"}]]
    BY DEF Init, Closed
  <1>5. info \in CacheInfo
    BY FileCacheAssumption DEF Init
  <1>6. QED
    BY <1>1, <1>2, <1>3, <1>4, <1>5 DEF Init, VarTypes

LEMMA TypeInitialize ==
  ASSUME VarTypes, NEW p \in Procs,
         InitializeCreate(p) \/ InitializeOpen(p) \/ InitializeWrite(p)
           \/ InitializeFails(p)
  PROVE  VarTypes'
  <1>1. pc' \in [Procs -> Labels]
    <2>1. UNCHANGED pc \/ Goto(p, "init_write") \/ Goto(p, "idle")
      BY DEF InitializeCreate, InitializeOpen, InitializeWrite, InitializeFails
    <2>2. QED
      BY <2>1, GotoType DEF VarTypes, Labels
  <1>2. info' \in CacheInfo
    <2>1. 0 \in 0..(W - 1)
      BY FileCacheAssumption
    <2>2. QED
      BY <2>1 DEF InitializeCreate, InitializeOpen, InitializeWrite,
                  InitializeFails, VarTypes, CacheInfo, disk
  <1>3. fd' \in [Instances -> {"closed", "creating", "open"}]
    BY DEF InitializeCreate, InitializeOpen, InitializeWrite, InitializeFails,
           VarTypes
  <1>4. UNCHANGED <<call, work, item, cacheLock, ofd, dir, file, clock>>
    BY DEF InitializeCreate, InitializeOpen, InitializeWrite, InitializeFails,
           disk
  <1>5. QED
    BY <1>1, <1>2, <1>3, <1>4 DEF VarTypes, work

LEMMA TypeCall ==
  ASSUME VarTypes, NEW p \in Procs, NEW op \in Operations,
         NEW k \in Keys \cup {None}, NEW n \in Nat, NEW w \in BOOLEAN,
         Call(p, op, k, n, w), UNCHANGED file,
         item' \in [Procs -> {"none", "get", "put"}]
  PROVE  VarTypes'
  BY DEF VarTypes, Call, Goto, Labels, Calls, work, locks

\* The step that begins a call, and what the owner of an Item does.
LEMMA TypeCaller ==
  ASSUME VarTypes, NEW p \in Procs, Caller(p)
  PROVE  VarTypes'
  <1>1. CASE InitializeCreate(p) \/ InitializeOpen(p)
    BY <1>1, TypeInitialize
  <1>2. CASE CallPut(p)
    BY <1>2, TypeCall, FileCacheAssumption DEF CallPut, Operations, VarTypes
  <1>3. CASE CallPutData(p)
    BY <1>3, TypeCall, FileCacheAssumption DEF CallPutData, Operations, VarTypes
  <1>4. CASE CallPutItem(p)
    BY <1>4, TypeCall DEF CallPutItem, Operations, VarTypes
  <1>5. CASE CallGet(p)
    <2>1. PICK k \in Keys, w \in WaitModes : Call(p, "get", k, 0, w)
      BY <1>5 DEF CallGet
    <2>2. w \in BOOLEAN
      BY Zenon, FileCacheAssumption
    <2>3. QED
      BY <1>5, <2>1, <2>2, TypeCall DEF CallGet, Operations, VarTypes
  <1>6. CASE CallDel(p)
    <2>1. PICK k \in Keys, w \in WaitModes : Call(p, "del", k, 0, w)
      BY <1>6 DEF CallDel
    <2>2. w \in BOOLEAN
      BY Zenon, FileCacheAssumption
    <2>3. QED
      BY <1>6, <2>1, <2>2, TypeCall DEF CallDel, Operations, VarTypes
  <1>7. CASE CallClear(p)
    BY <1>7, TypeCall DEF CallClear, Operations, VarTypes
  <1>8. CASE CallPurge(p)
    BY <1>8, TypeCall DEF CallPurge, Operations, VarTypes
  <1>9. CASE UserWrite(p)
    BY <1>9, GrowType DEF UserWrite, VarTypes, work, locks
  <1>10. CASE DropPutItem(p)
    <2>1. call' \in [Procs -> Calls]
      BY <1>10, NoCallType DEF DropPutItem, VarTypes
    <2>2. pc' \in [Procs -> Labels]
      BY <1>10, GotoType DEF DropPutItem, Labels
    <2>3. file' \in [Inodes -> [size : Nat, full : BOOLEAN, atime : Nat]]
      BY <1>10 DEF DropPutItem, VarTypes
    <2>4. QED
      BY <1>10, <2>1, <2>2, <2>3 DEF DropPutItem, VarTypes, work, locks
  <1>11. CASE CloseItem(p)
    BY <1>11, ReclaimType
    DEF CloseItem, VarTypes, Goto, Labels, Closed, work
  <1>12. QED
    BY <1>1, <1>2, <1>3, <1>4, <1>5, <1>6, <1>7, <1>8, <1>9, <1>10, <1>11
    DEF Caller

\* The lock on the cache: taken, refused, released.
LEMMA TypeLock ==
  ASSUME VarTypes, NEW p \in Procs,
         LockCache(p) \/ LockCacheFails(p) \/ Return(p)
  PROVE  VarTypes'
  <1>1. CASE LockCache(p)
    BY <1>1, InstanceType
    DEF LockCache, VarTypes, Goto, Entry, Labels, work, disk
  <1>2. CASE LockCacheFails(p)
    BY <1>2, NoCallType
    DEF LockCacheFails, VarTypes, Goto, AfterCall, Unlocked, Labels, work, disk
  <1>3. CASE Return(p)
    <2>1. file' \in [Inodes -> [size : Nat, full : BOOLEAN, atime : Nat]]
      BY <1>3, ReclaimType DEF Return
    <2>2. 0 \in 0..(W - 1)
      BY FileCacheAssumption
    <2>3. QED
      BY <1>3, <2>1, <2>2, NoCallType, OfdType
      DEF Return, VarTypes, Goto, AfterCall, Unlocked, Labels, Closed
  <1>4. QED
    BY <1>1, <1>2, <1>3

\* The steps that make, open, lock, write and remove one file.
LEMMA TypeFileStep ==
  ASSUME VarTypes, NEW p \in Procs, StageOK(p),
         \/ CreateKey(p) \/ OpenKey(p) \/ LockItem(p) \/ OpenSource(p)
         \/ CopyChunk(p) \/ CopyDone(p) \/ CopyReadError(p) \/ WriteData(p)
         \/ WriteFails(p) \/ RemoveKey(p)
  PROVE  VarTypes'
  <1>1. CASE CreateKey(p)
    <2>1. call[p].key \in Keys
      BY <1>1 DEF StageOK, CreateKey, KeyOps
    <2>2. PICK i \in Inodes :
              /\ dir' = [dir EXCEPT ![call[p].key] = i]
              /\ ofd' = [ofd EXCEPT ![Handle(p)] = [ino |-> i, lk |-> "un"]]
              /\ file' = [file EXCEPT ![i].atime = clock]
      BY <1>1 DEF CreateKey
    <2>3. file' \in [Inodes -> [size : Nat, full : BOOLEAN, atime : Nat]]
      BY <2>2 DEF VarTypes
    <2>4. pc' \in [Procs -> Labels]
      BY <1>1, GotoType DEF CreateKey, Labels
    <2>5. QED
      BY <1>1, <2>1, <2>2, <2>3, <2>4, HandleType DEF CreateKey, VarTypes, work
  <1>3. CASE OpenSource(p)
    BY <1>3, GotoType DEF OpenSource, VarTypes, Labels, work, locks, disk
  <1>4. CASE CopyChunk(p)
    BY <1>4, GrowType DEF CopyChunk, VarTypes, work, locks
  <1>5. CASE CopyDone(p)
    <2>1. pc' \in [Procs -> Labels]
      BY <1>5, GotoType DEF CopyDone, Labels
    <2>2. file' \in [Inodes -> [size : Nat, full : BOOLEAN, atime : Nat]]
      BY <1>5 DEF CopyDone, VarTypes
    <2>3. QED
      BY <1>5, <2>1, <2>2 DEF CopyDone, VarTypes, work, locks
  <1>6. CASE CopyReadError(p)
    BY <1>6 DEF CopyReadError, Writing, VarTypes, Goto, Labels, work, locks, disk
  <1>7. CASE WriteData(p)
    <2>1. pc' \in [Procs -> Labels]
      BY <1>7, GotoType DEF WriteData, Labels
    <2>2. call[p].size \in Nat
      BY DEF VarTypes, Calls
    <2>3. file' \in [Inodes -> [size : Nat, full : BOOLEAN, atime : Nat]]
      BY <1>7, <2>2 DEF WriteData, VarTypes
    <2>4. QED
      BY <1>7, <2>1, <2>3 DEF WriteData, VarTypes, work, locks
  <1>8. CASE WriteFails(p)
    <2>1. pc' \in [Procs -> Labels] /\ call' \in [Procs -> Calls]
      BY <1>8, ExitType DEF WriteFails
    <2>2. file' \in [Inodes -> [size : Nat, full : BOOLEAN, atime : Nat]]
      <3>1. PICK n \in HandleSize(p)..call[p].size :
                file' = [file EXCEPT ![ofd[OpFd(p)].ino].size = n]
        BY <1>8 DEF WriteFails
      <3>2. n \in Nat
        BY SizesAreNat
      <3>3. QED
        BY <3>1, <3>2, ResizeType
    <2>3. QED
      BY <1>8, <2>1, <2>2 DEF WriteFails, VarTypes, work, locks
  <1>2. CASE OpenKey(p)
    <2>1. call[p].key \in Keys
      BY <1>2 DEF StageOK, OpenKey, KeyOps
    <2>2. QED
      BY <1>2, <2>1, HandleType DEF OpenKey, VarTypes, Goto, Labels, work, disk
  <1>9. CASE LockItem(p)
    <2>1. pc' \in [Procs -> Labels] /\ call' \in [Procs -> Calls]
      <3>1. CASE call[p].op \in {"get", "put_item"}
        BY <1>9, <3>1, ExitType DEF LockItem
      <3>2. CASE call[p].op \notin {"get", "put_item"}
        BY <1>9, <3>2 DEF LockItem, VarTypes, Goto, Labels
      <3>3. QED
        BY <3>1, <3>2
    <2>2. ofd' \in [Ofds -> [ino : Inodes \cup {None},
                             lk : {"un", "sh", "ex"}]]
      <3>1. LockKind(p) \in {"sh", "ex"}
        BY DEF LockKind
      <3>2. ofd' = [ofd EXCEPT ![Handle(p)].lk = LockKind(p)]
        BY <1>9 DEF LockItem
      <3>3. QED
        BY <3>1, <3>2, HandleType DEF VarTypes
    <2>3. file' \in [Inodes -> [size : Nat, full : BOOLEAN, atime : Nat]]
      BY <1>9, TouchType DEF LockItem
    <2>4. QED
      BY <1>9, <2>1, <2>2, <2>3 DEF LockItem, VarTypes, work
  <1>10. CASE RemoveKey(p)
    BY <1>10 DEF RemoveKey, VarTypes, Goto, Labels, work, locks
  <1>11. QED
    BY <1>1, <1>2, <1>3, <1>4, <1>5, <1>6, <1>7, <1>8, <1>9, <1>10

\* clear() and purge().
LEMMA TypeDirStep ==
  ASSUME VarTypes, NEW p \in Procs,
         \/ Scan(p) \/ ClearRemove(p) \/ ClearDone(p) \/ PurgeReadInfo(p)
         \/ PurgeLock(p) \/ PurgeSkip(p) \/ PurgeRemove(p) \/ PurgeDone(p)
  PROVE  VarTypes'
  <1> DEFINE FileType == [Inodes -> [size : Nat, full : BOOLEAN, atime : Nat]]
  <1>1. CASE Scan(p)
    <2>1. todo' \in [Procs -> SUBSET Entries]
      BY <1>1, ListingType DEF Scan, VarTypes
    <2>2. pc' \in [Procs -> Labels] /\ call' \in [Procs -> Calls]
      BY <1>1, GotoType DEF Scan, Labels, VarTypes
    <2>3. QED
      BY <1>1, <2>1, <2>2 DEF Scan, VarTypes, locks, disk
  <1>2. CASE ClearRemove(p)
    <2>1. PICK e \in todo[p] :
              /\ dir' = [dir EXCEPT ![e.key] = None]
              /\ todo' = [todo EXCEPT ![p] = @ \ {e}]
      BY <1>2 DEF ClearRemove
    <2>2. dir' \in [Keys -> Inodes \cup {None}]
      BY <2>1 DEF VarTypes
    <2>3. todo' \in [Procs -> SUBSET Entries]
      BY <2>1 DEF VarTypes
    <2>4. file' \in FileType
      BY <1>2, ReclaimType DEF ClearRemove
    <2>5. QED
      BY <1>2, <2>2, <2>3, <2>4 DEF ClearRemove, VarTypes, locks
  <1>3. CASE ClearDone(p)
    BY <1>3, ExitType DEF ClearDone, VarTypes, work, locks, disk
  <1>4. CASE PurgeReadInfo(p)
    <2>1. RecordedSize \in 0..(W - 1) /\ 0 \in 0..(W - 1)
      BY FileCacheAssumption DEF RecordedSize, VarTypes, CacheInfo
    <2>2. SizesRead \subseteq 0..(W - 1)
      BY <2>1 DEF SizesRead
    <2>3. pc' \in [Procs -> Labels] /\ call' \in [Procs -> Calls]
      BY <1>4, ExitType, GotoType DEF PurgeReadInfo, Labels, VarTypes
    <2>4. ci' \in [Procs -> 0..(W - 1)]
      BY <1>4, <2>2 DEF PurgeReadInfo, VarTypes
    <2>5. QED
      BY <1>4, <2>3, <2>4 DEF PurgeReadInfo, VarTypes, locks, disk
  <1>5. CASE PurgeLock(p)
    <2>1. PICK e \in todo[p] :
              /\ dir[e.key] # None
              /\ ofd' = [ofd EXCEPT ![OpFd(p)] =
                              [ino |-> dir[e.key], lk |-> "ex"]]
              /\ Touch(dir[e.key])
              /\ call' = [call EXCEPT ![p].key = e.key]
      BY <1>5 DEF PurgeLock, Oldest
    <2>2. e.key \in Keys
      BY DEF VarTypes, Entries
    <2>3. ofd' \in [Ofds -> [ino : Inodes \cup {None},
                             lk : {"un", "sh", "ex"}]]
      BY <2>1, <2>2 DEF VarTypes
    <2>4. file' \in FileType
      BY <2>1, TouchType
    <2>5. \A c \in Calls : [c EXCEPT !.key = e.key] \in Calls
      BY <2>2 DEF Calls
    <2>6. call' \in [Procs -> Calls]
      BY <2>1, <2>5 DEF VarTypes
    <2>7. pc' \in [Procs -> Labels]
      BY <1>5, GotoType DEF PurgeLock, Labels
    <2>8. QED
      BY <1>5, <2>3, <2>4, <2>6, <2>7 DEF PurgeLock, VarTypes, work
  <1>6. CASE PurgeSkip(p)
    BY <1>6 DEF PurgeSkip, VarTypes, locks, disk
  <1>7. CASE PurgeRemove(p)
    <2>1. PICK e \in todo[p] :
              /\ todo' = [todo EXCEPT ![p] = @ \ {e}]
              /\ \/ /\ dir' = [dir EXCEPT ![e.key] = None]
                    /\ removed' = [removed EXCEPT ![p] = @ + e.size]
                 \/ UNCHANGED <<dir, removed>>
      BY <1>7 DEF PurgeRemove
    <2>2. e.size \in Nat
      BY DEF VarTypes, Entries
    <2>3. removed' \in [Procs -> Nat]
      BY <2>1, <2>2 DEF VarTypes
    <2>4. todo' \in [Procs -> SUBSET Entries]
          /\ dir' \in [Keys -> Inodes \cup {None}]
      BY <2>1 DEF VarTypes
    <2>5. file' \in FileType
      BY <1>7, ReclaimType DEF PurgeRemove
    <2>6. \A c \in Calls : [c EXCEPT !.key = None] \in Calls
      BY DEF Calls
    <2>7. call' \in [Procs -> Calls]
      BY <1>7, <2>6 DEF PurgeRemove, VarTypes
    <2>8. pc' \in [Procs -> Labels]
      BY <1>7, GotoType DEF PurgeRemove, Labels
    <2>9. ofd' \in [Ofds -> [ino : Inodes \cup {None},
                             lk : {"un", "sh", "ex"}]]
      BY <1>7 DEF PurgeRemove, VarTypes, Closed
    <2>10. QED
      BY <1>7, <2>3, <2>4, <2>5, <2>7, <2>8, <2>9 DEF PurgeRemove, VarTypes
  <1>8. CASE PurgeDone(p)
    <2>1. ci[p] - removed[p] \in Int
      BY FileCacheAssumption DEF VarTypes
    <2>2. (ci[p] - removed[p]) % W \in 0..(W - 1)
      BY <2>1, CounterRange
    <2>3. QED
      BY <1>8, <2>2 DEF PurgeDone, VarTypes, Goto, Labels, locks, disk
  <1>9. QED
    BY <1>1, <1>2, <1>3, <1>4, <1>5, <1>6, <1>7, <1>8

\* The counter, and the error exits.
LEMMA TypeInfoStep ==
  ASSUME VarTypes, NEW p \in Procs, ReadInfo(p) \/ WriteInfo(p) \/ Fails(p)
  PROVE  VarTypes'
  <1>1. CASE Fails(p)
    BY <1>1, ExitType DEF Fails, VarTypes, work, locks, disk
  <1>2. CASE ReadInfo(p)
    <2>1. HandleSize(p) \in Nat /\ RecordedSize \in Nat
      BY SizesAreNat
    <2>2. \A n \in SizesRead, m \in SizesMeasured(p) :
             /\ (n - m) % W \in 0..(W - 1)
             /\ (n + m) % W \in 0..(W - 1)
      <3>1. SizesRead \subseteq Nat /\ SizesMeasured(p) \subseteq Nat
        BY <2>1 DEF SizesRead, SizesMeasured
      <3>2. QED
        BY <3>1, CounterRange
    <2>3. ci' \in [Procs -> 0..(W - 1)]
      BY <1>2, <2>2 DEF ReadInfo, VarTypes
    <2>4. QED
      BY <1>2, <2>3 DEF ReadInfo, VarTypes, Goto, Labels, locks, disk
  <1>3. CASE WriteInfo(p)
    <2>1. info' \in CacheInfo
      BY <1>3 DEF WriteInfo, VarTypes, CacheInfo
    <2>2. QED
      BY <1>3, <2>1, ExitType DEF WriteInfo, VarTypes, work, locks
  <1>4. QED
    BY <1>1, <1>2, <1>3

\* The death of a process, the end of a FileCache object, time.
LEMMA TypeEnvironment ==
  ASSUME VarTypes,
         Tick \/ \E c \in Instances : Destroy(c) \/ Crash(c)
  PROVE  VarTypes'
  <1>1. CASE Tick
    BY <1>1, FileCacheAssumption DEF Tick, VarTypes, work, locks
  <1>2. ASSUME NEW c \in Instances, Destroy(c)
        PROVE  VarTypes'
    BY <1>2 DEF Destroy, VarTypes, work, disk
  <1>3. ASSUME NEW c \in Instances, Crash(c)
        PROVE  VarTypes'
    <2>1. file' \in [Inodes -> [size : Nat, full : BOOLEAN, atime : Nat]]
      BY <1>3, ReclaimType DEF Crash
    <2>2. 0 \in 0..(W - 1)
      BY FileCacheAssumption
    <2>3. /\ pc' \in [Procs -> Labels]
          /\ ci' \in [Procs -> 0..(W - 1)]
          /\ todo' \in [Procs -> SUBSET Entries]
          /\ removed' \in [Procs -> Nat]
          /\ item' \in [Procs -> {"none", "get", "put"}]
      BY <1>3, <2>2 DEF Crash, VarTypes, Labels
    <2>4. call' \in [Procs -> Calls]
      BY <1>3, NoCallType DEF Crash, VarTypes
    <2>5. ofd' \in [Ofds -> [ino : Inodes \cup {None},
                             lk : {"un", "sh", "ex"}]]
      BY <1>3 DEF Crash, VarTypes, Closed
    <2>6. QED
      BY <1>3, <2>1, <2>3, <2>4, <2>5 DEF Crash, VarTypes
  <1>4. QED
    BY <1>1, <1>2, <1>3

LEMMA VarTypesPreserved ==
  ASSUME TypeOK, [Next]_vars
  PROVE  VarTypes'
  <1> USE DEF TypeOK
  <1>1. ASSUME NEW p \in Procs, Caller(p) \/ LockCache(p) \/ Step(p)
        PROVE  VarTypes'
    BY <1>1, TypeCaller, TypeLock, TypeFileStep, TypeDirStep, TypeInfoStep,
       TypeInitialize DEF Step, Body
  <1>2. CASE UNCHANGED vars
    BY <1>2 DEF VarTypes, vars, work, locks, disk
  <1>3. QED
    BY <1>1, <1>2, TypeEnvironment DEF Next

-----------------------------------------------------------------------------
(* Every call is where its operation goes.                                 *)

Stages == \A p \in Procs : StageOK(p)

LEMMA StageExit ==
  ASSUME VarTypes, Stages, NEW p \in Procs, NEW ok, Exit(p, ok)
  PROVE  Stages'
  BY DEF VarTypes, Stages, StageOK, Exit, Goto

LEMMA StageGoto ==
  ASSUME VarTypes, Stages, NEW p \in Procs, NEW l, Goto(p, l), UNCHANGED call,
         /\ l = "lock" => call[p].op # "none"
         /\ l = "create" => call[p].op \in Puts
         /\ l \in {"open_source", "write"} => call[p].op \in {"put", "put_data"}
         /\ l = "open" => call[p].op \in {"get", "del"}
         /\ l = "lock_item" => call[p].op \in KeyOps
         /\ l = "remove" => call[p].op = "del"
         /\ l \in {"scan", "clear"} => call[p].op \in {"clear", "purge"}
         /\ l \in {"purge", "purge_remove"} => call[p].op = "purge"
         /\ l = "purge_remove" => call[p].key \in Keys
  PROVE  Stages'
  BY DEF VarTypes, Stages, StageOK, Goto

\* Between calls there is nothing to say.
LEMMA StageIdle ==
  ASSUME VarTypes, Stages, NEW p \in Procs, NEW l \in {"idle", "close_item"},
         Goto(p, l),
         call' = [call EXCEPT ![p] = NoCall] \/ UNCHANGED call
  PROVE  Stages'
  <1>1. NoCall.op \notin KeyOps
    BY DEF NoCall, KeyOps, Puts
  <1>2. \A q \in Procs : q # p => pc'[q] = pc[q] /\ call'[q] = call[q]
    BY DEF VarTypes, Goto
  <1>3. pc'[p] = l /\ (call'[p] = NoCall \/ call'[p] = call[p])
    BY DEF VarTypes, Goto
  <1>4. QED
    BY <1>1, <1>2, <1>3 DEF Stages, StageOK

LEMMA StageCall ==
  ASSUME VarTypes, Stages, NEW p \in Procs, NEW op, NEW k, NEW n, NEW w,
         op # "none", op \in KeyOps => k \in Keys, Call(p, op, k, n, w)
  PROVE  Stages'
  <1>1. \A q \in Procs : q # p => pc'[q] = pc[q] /\ call'[q] = call[q]
    BY DEF VarTypes, Call, Goto
  <1>2. pc'[p] = "lock" /\ call'[p].op = op /\ call'[p].key = k
    BY DEF VarTypes, Call, Goto
  <1>3. QED
    BY <1>1, <1>2 DEF Stages, StageOK

LEMMA StageCaller ==
  ASSUME VarTypes, Stages, NEW p \in Procs, Caller(p)
  PROVE  Stages'
  <1>1. CASE InitializeCreate(p)
    BY <1>1, StageGoto DEF InitializeCreate
  <1>2. CASE InitializeOpen(p) \/ UserWrite(p)
    BY <1>2 DEF InitializeOpen, UserWrite, Stages, StageOK
  <1>3. CASE CallPut(p) \/ CallPutData(p) \/ CallPutItem(p) \/ CallGet(p)
               \/ CallDel(p)
    BY <1>3, StageCall DEF CallPut, CallPutData, CallPutItem, CallGet, CallDel
  <1>4. CASE CallClear(p) \/ CallPurge(p)
    BY <1>4, StageCall DEF CallClear, CallPurge, KeyOps, Puts
  <1>5. CASE DropPutItem(p)
    <2>1. \A q \in Procs : q # p => pc'[q] = pc[q] /\ call'[q] = call[q]
      BY <1>5 DEF VarTypes, DropPutItem, Goto
    <2>2. pc'[p] = "lock" /\ call'[p].op = "drop"
      BY <1>5 DEF VarTypes, DropPutItem, Goto, NoCall
    <2>3. QED
      BY <2>1, <2>2 DEF Stages, StageOK, KeyOps, Puts
  <1>6. CASE CloseItem(p)
    BY <1>6, StageIdle DEF CloseItem
  <1>7. QED
    BY <1>1, <1>2, <1>3, <1>4, <1>5, <1>6 DEF Caller

LEMMA StageLock ==
  ASSUME VarTypes, Stages, NEW p \in Procs,
         LockCache(p) \/ LockCacheFails(p) \/ Return(p)
  PROVE  Stages'
  <1>1. CASE LockCache(p)
    <2>1. call[p].op \in Operations \cup {"drop"}
      BY <1>1 DEF LockCache, Stages, StageOK, VarTypes, Calls
    <2>2. QED
      BY <1>1, <2>1, StageGoto
      DEF LockCache, Entry, Operations, Puts, KeyOps
  <1>2. CASE LockCacheFails(p)
    BY <1>2, StageIdle DEF LockCacheFails, AfterCall
  <1>3. CASE Return(p)
    BY <1>3, StageIdle DEF Return, AfterCall
  <1>4. QED
    BY <1>1, <1>2, <1>3

LEMMA StageStep ==
  ASSUME VarTypes, Stages, NEW p \in Procs,
         Body(p) \/ InitializeWrite(p) \/ InitializeFails(p)
  PROVE  Stages'
  <1> USE DEF Stages
  <1>1. CASE WriteFails(p) \/ ClearDone(p) \/ WriteInfo(p) \/ Fails(p)
    BY <1>1, StageExit DEF WriteFails, ClearDone, WriteInfo, Fails
  <1>2. CASE CreateKey(p)
    BY <1>2, StageGoto DEF CreateKey, StageOK, KeyOps
  <1>3. CASE OpenSource(p)
    BY <1>3, StageGoto DEF OpenSource, StageOK
  <1>4. CASE CopyDone(p) \/ CopyReadError(p) \/ WriteData(p)
    BY <1>4, StageGoto DEF CopyDone, CopyReadError, WriteData
  <1>5. CASE CopyChunk(p) \/ ClearRemove(p) \/ PurgeSkip(p)
    BY <1>5 DEF CopyChunk, ClearRemove, PurgeSkip, StageOK
  <1>6. CASE OpenKey(p)
    BY <1>6, StageGoto DEF OpenKey, StageOK, KeyOps
  <1>7. CASE LockItem(p)
    BY <1>7, StageGoto, StageExit DEF LockItem, StageOK, KeyOps, Puts
  <1>8. CASE RemoveKey(p) \/ ReadInfo(p) \/ PurgeDone(p)
    BY <1>8, StageGoto DEF RemoveKey, ReadInfo, PurgeDone
  <1>9. CASE Scan(p)
    BY <1>9, StageGoto DEF Scan, StageOK
  <1>10. CASE PurgeReadInfo(p)
    BY <1>10, StageGoto, StageExit DEF PurgeReadInfo
  <1>11. CASE PurgeLock(p)
    <2>1. PICK e \in todo[p] : call' = [call EXCEPT ![p].key = e.key]
      BY <1>11 DEF PurgeLock, Oldest
    <2>2. e.key \in Keys
      BY DEF VarTypes, Entries
    <2>3. \A q \in Procs : q # p => pc'[q] = pc[q] /\ call'[q] = call[q]
      BY <1>11, <2>1 DEF PurgeLock, VarTypes, Goto
    <2>4. pc'[p] = "purge_remove" /\ call'[p].op = "purge"
            /\ call'[p].key = e.key
      BY <1>11, <2>1 DEF PurgeLock, VarTypes, Goto, StageOK, Calls
    <2>5. QED
      BY <2>2, <2>3, <2>4 DEF StageOK
  <1>12. CASE PurgeRemove(p)
    <2>1. \A q \in Procs : q # p => pc'[q] = pc[q] /\ call'[q] = call[q]
      BY <1>12 DEF PurgeRemove, VarTypes, Goto
    <2>2. pc'[p] = "purge" /\ call'[p].op = "purge"
      BY <1>12 DEF PurgeRemove, VarTypes, Goto, StageOK, Calls
    <2>3. QED
      BY <2>1, <2>2 DEF StageOK, KeyOps, Puts
  <1>13. CASE InitializeWrite(p) \/ InitializeFails(p)
    BY <1>13, StageIdle DEF InitializeWrite, InitializeFails
  <1>14. QED
    BY <1>1, <1>2, <1>3, <1>4, <1>5, <1>6, <1>7, <1>8, <1>9, <1>10, <1>11,
       <1>12, <1>13 DEF Body

LEMMA StagesPreserved ==
  ASSUME VarTypes, Stages, [Next]_vars
  PROVE  Stages'
  <1>1. ASSUME NEW p \in Procs, Caller(p) \/ LockCache(p) \/ Step(p)
        PROVE  Stages'
    BY <1>1, StageCaller, StageLock, StageStep DEF Step
  <1>2. CASE Tick \/ \E c \in Instances : Destroy(c)
    BY <1>2 DEF Tick, Destroy, Stages, StageOK
  <1>3. ASSUME NEW c \in Instances, Crash(c)
        PROVE  Stages'
    <2>1. \A q \in Procs : \/ pc'[q] = pc[q] /\ call'[q] = call[q]
                           \/ pc'[q] = "idle" /\ call'[q] = NoCall
      BY <1>3 DEF Crash
    <2>2. NoCall.op \notin KeyOps
      BY DEF NoCall, KeyOps, Puts
    <2>3. QED
      BY <2>1, <2>2 DEF Stages, StageOK
  <1>4. CASE UNCHANGED vars
    BY <1>4 DEF vars, Stages, StageOK
  <1>5. QED
    BY <1>1, <1>2, <1>3, <1>4 DEF Next

\* Every variable keeps its type, and every call its place, in every
\* behaviour of the cache: with threads, processes, failures and crashes.
THEOREM TypeCorrect == Spec => []TypeOK
  <1>1. Init => TypeOK
    <2>1. Init => Stages
      <3>1. NoCall.op = "none" /\ "none" \notin KeyOps
        BY DEF NoCall, KeyOps, Puts
      <3>2. QED
        BY <3>1 DEF Init, Stages, StageOK
    <2>2. QED
      BY <2>1, TypeInit DEF TypeOK, Stages
  <1>2. TypeOK /\ [Next]_vars => TypeOK'
    <2>1. SUFFICES ASSUME TypeOK, [Next]_vars
                   PROVE  VarTypes' /\ Stages'
      BY DEF TypeOK, Stages
    <2>2. QED
      BY <2>1, VarTypesPreserved, StagesPreserved DEF TypeOK, Stages
  <1>3. QED
    BY <1>1, <1>2, PTL DEF Spec

-----------------------------------------------------------------------------
(* The lock on the cache.                                                  *)

\* Whoever is inside a method has the lock of its own FileCache object.
InsideLocked == \A p \in Procs : Inside(p) => cacheLock = InstanceOf[p]

\* A step of a method is taken inside it, and leaves the lock and the other
\* threads of control where they are.
LEMMA BodyFrame ==
  ASSUME VarTypes, NEW p \in Procs, Body(p)
  PROVE  /\ Inside(p)
         /\ UNCHANGED cacheLock
         /\ \A q \in Procs : q # p => pc'[q] = pc[q]
  <1>1. CASE CreateKey(p) \/ OpenKey(p) \/ LockItem(p) \/ OpenSource(p)
    BY <1>1 DEF CreateKey, OpenKey, LockItem, OpenSource, VarTypes, Inside,
                Goto, Exit, locks
  <1>2. CASE \/ CopyChunk(p) \/ CopyDone(p) \/ CopyReadError(p)
             \/ WriteData(p) \/ WriteFails(p)
    BY <1>2 DEF CopyChunk, CopyDone, CopyReadError, WriteData, WriteFails,
                Writing, VarTypes, Inside, Goto, Exit, locks
  <1>3. CASE \/ RemoveKey(p) \/ ReadInfo(p) \/ WriteInfo(p) \/ Scan(p)
             \/ ClearRemove(p) \/ ClearDone(p)
    BY <1>3 DEF RemoveKey, ReadInfo, WriteInfo, Scan, ClearRemove, ClearDone,
                VarTypes, Inside, Goto, Exit, locks
  <1>4. CASE \/ PurgeReadInfo(p) \/ PurgeLock(p) \/ PurgeSkip(p)
             \/ PurgeRemove(p) \/ PurgeDone(p) \/ Fails(p)
    BY <1>4 DEF PurgeReadInfo, PurgeLock, PurgeSkip, PurgeRemove, PurgeDone,
                Fails, CanFail, VarTypes, Inside, Goto, Exit, locks
  <1>5. QED
    BY <1>1, <1>2, <1>3, <1>4 DEF Body

\* A step of a method, and the one that enters it, keep the call inside.
LEMMA BodyStays ==
  ASSUME VarTypes, NEW p \in Procs, LockCache(p) \/ Body(p)
  PROVE  Inside(p)' /\ call'[p].op = call[p].op
  <1>1. CASE LockCache(p)
    BY <1>1 DEF LockCache, Entry, Goto, VarTypes, Inside
  <1>2. CASE \/ CreateKey(p) \/ OpenKey(p) \/ OpenSource(p) \/ CopyChunk(p)
             \/ CopyDone(p) \/ CopyReadError(p) \/ WriteData(p)
             \/ RemoveKey(p) \/ ReadInfo(p)
    BY <1>2 DEF CreateKey, OpenKey, OpenSource, CopyChunk, CopyDone,
                CopyReadError, WriteData, Writing, RemoveKey, ReadInfo, Goto,
                VarTypes, Inside
  <1>3. CASE LockItem(p) \/ WriteFails(p) \/ WriteInfo(p) \/ ClearDone(p) \/ Fails(p)
    BY <1>3 DEF LockItem, WriteFails, WriteInfo, ClearDone, Fails, Exit, Goto,
                VarTypes, Calls, Inside
  <1>4. CASE \/ Scan(p) \/ ClearRemove(p) \/ PurgeReadInfo(p) \/ PurgeLock(p)
             \/ PurgeSkip(p) \/ PurgeRemove(p) \/ PurgeDone(p)
    BY <1>4 DEF Scan, ClearRemove, PurgeReadInfo, PurgeLock, PurgeSkip,
                PurgeRemove, PurgeDone, Exit, Goto, VarTypes, Calls, Inside
  <1>5. QED
    BY <1>1, <1>2, <1>3, <1>4 DEF Body

\* What a caller does between its calls touches nothing but its own Item.
LEMMA CallerFrame ==
  ASSUME VarTypes, NEW p \in Procs, Caller(p)
  PROVE  /\ ~Inside(p)
         /\ pc'[p] = pc[p] \/ ~Inside(p)'
         /\ UNCHANGED <<cacheLock, dir>>
         /\ \A q \in Procs : q # p =>
               /\ pc'[q] = pc[q] /\ call'[q] = call[q]
               /\ ofd'[OpFd(q)] = ofd[OpFd(q)]
               /\ ofd'[ItemFd(q)] = ofd[ItemFd(q)]
  <1>1. \A q \in Procs : /\ OpFd(q) \in Ofds /\ OpFd(q) # ItemFd(p)
                         /\ ItemFd(q) \in Ofds
                         /\ q # p => ItemFd(q) # ItemFd(p)
    BY DEF OpFd, ItemFd, Ofds
  <1>2. QED
    BY <1>1
    DEF VarTypes, Inside, Goto, locks, disk, Caller, CanInitialize,
        InitializeCreate, InitializeOpen, CallPut, CallPutData, CallPutItem,
        CallGet, CallDel, CallClear, CallPurge, Call, UserWrite, DropPutItem,
        CloseItem

\* The two ends of initialize(), which take no lock.
LEMMA InitializeFrame ==
  ASSUME VarTypes, NEW p \in Procs, InitializeWrite(p) \/ InitializeFails(p)
  PROVE  /\ ~Inside(p) /\ ~Inside(p)'
         /\ UNCHANGED <<cacheLock, call, ofd, dir>>
         /\ \A q \in Procs : q # p => pc'[q] = pc[q]
  BY DEF VarTypes, Inside, Goto, InitializeWrite, InitializeFails, disk

\* A step of p inside a method, and its entry to it.
LEMMA InsideStep ==
  ASSUME VarTypes, InsideLocked, OneThreadPerInstance, NEW p \in Procs,
         Caller(p) \/ LockCache(p) \/ Body(p) \/ InitializeWrite(p)
           \/ InitializeFails(p)
  PROVE  InsideLocked'
  <1>1. CASE Caller(p)
    BY <1>1, CallerFrame DEF InsideLocked, Inside
  <1>2. CASE LockCache(p)
    <2>1. cacheLock' = InstanceOf[p] /\ cacheLock \in {None, InstanceOf[p]}
      BY <1>2 DEF LockCache
    <2>2. \A q \in Procs : q # p => ~Inside(q) /\ pc'[q] = pc[q]
      BY <1>2, <2>1, InstanceType
      DEF InsideLocked, OneThreadPerInstance, LockCache, Goto, VarTypes
    <2>3. QED
      BY <2>1, <2>2 DEF InsideLocked, Inside
  <1>3. CASE Body(p)
    BY <1>3, BodyFrame DEF InsideLocked, Inside
  <1>4. CASE InitializeWrite(p) \/ InitializeFails(p)
    BY <1>4, InitializeFrame DEF InsideLocked, Inside
  <1>5. QED
    BY <1>1, <1>2, <1>3, <1>4

\* Unlocking: only a process that is inside, or whose flock failed, unlocks,
\* and it unlocks no lock but its own.
LEMMA InsideUnlock ==
  ASSUME VarTypes, InsideLocked, NEW p \in Procs,
         LockCacheFails(p) \/ Return(p), OneThreadPerInstance
  PROVE  InsideLocked'
  <1>1. \A q \in Procs : q # p => pc'[q] = pc[q]
    BY DEF VarTypes, LockCacheFails, Return, Goto
  <1>2. ~Inside(p)'
    BY DEF VarTypes, LockCacheFails, Return, Goto, AfterCall, Inside
  <1>3. \A q \in Procs : q # p /\ Inside(q) => cacheLock' = cacheLock
    BY DEF InsideLocked, LockCacheFails, Return, Unlocked, OneThreadPerInstance
  <1>4. QED
    BY <1>1, <1>2, <1>3 DEF InsideLocked, Inside

LEMMA InsideLockedPreserved ==
  ASSUME TypeOK, InsideLocked, [Next]_vars, OneThreadPerInstance
  PROVE  InsideLocked'
  <1> USE DEF TypeOK
  <1>1. ASSUME NEW p \in Procs, Caller(p) \/ LockCache(p) \/ Step(p)
        PROVE  InsideLocked'
    BY <1>1, InsideStep, InsideUnlock DEF Step
  <1>2. CASE Tick
    BY <1>2 DEF Tick, InsideLocked, Inside, locks
  <1>3. ASSUME NEW c \in Instances, Destroy(c)
        PROVE  InsideLocked'
    BY <1>3 DEF Destroy, InsideLocked, Inside
  <1>4. ASSUME NEW c \in Instances, Crash(c)
        PROVE  InsideLocked'
    <2>1. \A q \in Procs : \/ InstanceOf[q] # c /\ pc'[q] = pc[q]
                           \/ ~Inside(q)'
      BY <1>4 DEF Crash, Inside
    <2>2. QED
      BY <1>4, <2>1 DEF Crash, InsideLocked, Inside
  <1>5. CASE UNCHANGED vars
    BY <1>5 DEF vars, InsideLocked, Inside, locks
  <1>6. QED
    BY <1>1, <1>2, <1>3, <1>4, <1>5 DEF Next

\* With a FileCache object to each thread of control, no two are inside a
\* method at once, whatever fails and whoever dies.
THEOREM CacheMutualExclusion ==
  OneThreadPerInstance => (Spec => []MutualExclusion)
  <1> SUFFICES ASSUME OneThreadPerInstance
               PROVE  Spec => []MutualExclusion
    OBVIOUS
  <1>1. Init => InsideLocked
    BY DEF Init, InsideLocked, Inside
  <1>2. TypeOK /\ InsideLocked /\ [Next]_vars => InsideLocked'
    BY InsideLockedPreserved
  <1>3. InsideLocked => MutualExclusion
    BY DEF InsideLocked, MutualExclusion, OneThreadPerInstance
  <1>4. QED
    BY <1>1, <1>2, <1>3, TypeCorrect, PTL DEF Spec

-----------------------------------------------------------------------------
(* The locks on the cached files.                                          *)

\* flock(): an exclusive lock on an inode is the only lock on it.
FlockExclusive ==
    \A o, q \in Ofds :
        /\ o # q
        /\ ofd[o].ino # None
        /\ ofd[o].ino = ofd[q].ino
        /\ ofd[o].lk = "ex"
        => ofd[q].lk = "un"

\* lock_the_item() works on an open file; del() removes by name the file it
\* has locked, and so does purge().
HandleOpenAt(p) ==
    /\ pc[p] = "lock_item" => ofd[Handle(p)].ino # None
    /\ pc[p] \in {"lock_item", "remove"} /\ call[p].op = "del" =>
          ofd[OpFd(p)].ino = dir[call[p].key]
    /\ pc[p] = "purge_remove" => ofd[OpFd(p)].ino = dir[call[p].key]
    /\ pc[p] \in {"remove", "purge_remove"} =>
          ofd[OpFd(p)].ino # None /\ ofd[OpFd(p)].lk = "ex"

HandleOpen == \A p \in Procs : HandleOpenAt(p)

\* Opening a file takes no lock; closing one, or dying, gives locks up.
LEMMA FlockOpenClose ==
  ASSUME VarTypes, FlockExclusive,
         \A o \in Ofds : ofd'[o] = ofd[o] \/ ofd'[o].lk = "un"
  PROVE  FlockExclusive'
  BY DEF FlockExclusive

\* A lock that flock() grants conflicts with no other.
LEMMA FlockGranted ==
  ASSUME VarTypes, FlockExclusive, NEW o \in Ofds, NEW i \in Inodes,
         NEW kind \in {"sh", "ex"}, CanLock(o, i, kind),
         ofd' = [ofd EXCEPT ![o] = [ino |-> i, lk |-> kind]]
  PROVE  FlockExclusive'
  <1>1. \A q \in Ofds : q # o => ofd'[q] = ofd[q]
    BY DEF VarTypes
  <1>2. ofd'[o].ino = i /\ ofd'[o].lk = kind
    BY DEF VarTypes
  <1>3. QED
    BY <1>1, <1>2 DEF FlockExclusive, CanLock

\* Descriptors are opened, locked and closed by seven actions only.
LEMMA DescriptorsKept ==
  ASSUME NEW p \in Procs, Caller(p) \/ LockCache(p) \/ Step(p),
         ~(LockItem(p) \/ PurgeLock(p) \/ CreateKey(p) \/ OpenKey(p)
             \/ Return(p) \/ CloseItem(p) \/ PurgeRemove(p))
  PROVE  UNCHANGED ofd
  <1>1. CASE Caller(p)
    BY <1>1
    DEF Caller, InitializeCreate, InitializeOpen, CallPut, CallPutData,
        CallPutItem, CallGet, CallDel, CallClear, CallPurge, Call, UserWrite,
        DropPutItem, locks
  <1>2. CASE \/ LockCache(p) \/ LockCacheFails(p) \/ InitializeWrite(p)
             \/ InitializeFails(p)
    BY <1>2 DEF LockCache, LockCacheFails, InitializeWrite, InitializeFails
  <1>3. CASE \/ OpenSource(p) \/ CopyChunk(p) \/ CopyDone(p)
             \/ CopyReadError(p) \/ WriteData(p) \/ WriteFails(p)
             \/ RemoveKey(p)
    BY <1>3 DEF OpenSource, CopyChunk, CopyDone, CopyReadError, WriteData,
                WriteFails, RemoveKey, locks
  <1>4. CASE \/ ReadInfo(p) \/ WriteInfo(p) \/ Scan(p) \/ ClearRemove(p)
             \/ ClearDone(p) \/ PurgeReadInfo(p) \/ PurgeSkip(p)
             \/ PurgeDone(p) \/ Fails(p)
    BY <1>4 DEF ReadInfo, WriteInfo, Scan, ClearRemove, ClearDone,
                PurgeReadInfo, PurgeSkip, PurgeDone, Fails, locks
  <1>5. QED
    BY <1>1, <1>2, <1>3, <1>4 DEF Step, Body

LEMMA FlockExclusivePreserved ==
  ASSUME TypeOK, FlockExclusive, HandleOpen, [Next]_vars
  PROVE  FlockExclusive'
  <1> USE DEF TypeOK
  <1>1. ASSUME NEW p \in Procs, LockItem(p)
        PROVE  FlockExclusive'
    <2> DEFINE o == Handle(p)
    <2>1. ofd[o].ino \in Inodes
      BY <1>1, HandleType DEF HandleOpen, HandleOpenAt, LockItem, VarTypes
    <2>2. ofd' = [ofd EXCEPT ![o] = [ino |-> ofd[o].ino, lk |-> LockKind(p)]]
      <3>1. ofd[o] \in [ino : Inodes \cup {None}, lk : {"un", "sh", "ex"}]
        BY HandleType DEF VarTypes
      <3>2. [ofd[o] EXCEPT !.lk = LockKind(p)]
              = [ino |-> ofd[o].ino, lk |-> LockKind(p)]
        BY <3>1
      <3>3. QED
        BY <1>1, <3>2 DEF LockItem
    <2>3. LockKind(p) \in {"sh", "ex"}
      BY DEF LockKind
    <2>4. QED
      BY <1>1, <2>1, <2>2, <2>3, HandleType, FlockGranted DEF LockItem
  <1>2. ASSUME NEW p \in Procs, PurgeLock(p)
        PROVE  FlockExclusive'
    <2>1. PICK e \in todo[p] :
              /\ dir[e.key] # None
              /\ CanLock(OpFd(p), dir[e.key], "ex")
              /\ ofd' = [ofd EXCEPT ![OpFd(p)] =
                              [ino |-> dir[e.key], lk |-> "ex"]]
      BY <1>2 DEF PurgeLock, Oldest
    <2>2. dir[e.key] \in Inodes
      BY <2>1 DEF VarTypes, Entries
    <2>3. QED
      BY <2>1, <2>2, OfdType, FlockGranted
  <1>3. ASSUME NEW p \in Procs,
               CreateKey(p) \/ OpenKey(p) \/ Return(p) \/ CloseItem(p)
                 \/ PurgeRemove(p)
        PROVE  FlockExclusive'
    <2>1. \A o \in Ofds : ofd'[o] = ofd[o] \/ ofd'[o].lk = "un"
      <3>1. CASE CreateKey(p)
        <4>1. PICK i \in Inodes :
                  ofd' = [ofd EXCEPT ![Handle(p)] = [ino |-> i, lk |-> "un"]]
          BY <3>1 DEF CreateKey
        <4>2. QED
          BY <4>1 DEF VarTypes
      <3>2. CASE OpenKey(p)
        BY <3>2 DEF OpenKey, VarTypes
      <3>3. CASE Return(p) \/ CloseItem(p) \/ PurgeRemove(p)
        BY <3>3 DEF Return, CloseItem, PurgeRemove, Closed, VarTypes
      <3>4. QED
        BY <1>3, <3>1, <3>2, <3>3
    <2>2. QED
      BY <2>1, FlockOpenClose
  <1>4. ASSUME NEW c \in Instances, Crash(c)
        PROVE  FlockExclusive'
    <2>1. \A o \in Ofds : ofd'[o] = ofd[o] \/ ofd'[o].lk = "un"
      BY <1>4 DEF Crash, Closed
    <2>2. QED
      BY <2>1, FlockOpenClose
  <1>5. CASE UNCHANGED ofd
    BY <1>5 DEF FlockExclusive
  <1>6. ASSUME NEW p \in Procs, Caller(p) \/ LockCache(p) \/ Step(p)
        PROVE  FlockExclusive'
    <2>1. CASE LockItem(p) \/ PurgeLock(p) \/ CreateKey(p) \/ OpenKey(p)
                 \/ Return(p) \/ CloseItem(p) \/ PurgeRemove(p)
      BY <2>1, <1>1, <1>2, <1>3
    <2>2. CASE ~(LockItem(p) \/ PurgeLock(p) \/ CreateKey(p) \/ OpenKey(p)
                   \/ Return(p) \/ CloseItem(p) \/ PurgeRemove(p))
      <3>1. UNCHANGED ofd
        BY <1>6, <2>2, DescriptorsKept
      <3>2. QED
        BY <3>1, <1>5
    <2>3. QED
      BY <2>1, <2>2
  <1>7. QED
    BY <1>4, <1>5, <1>6
    DEF Next, Tick, Destroy, vars, locks

\* The descriptors and the directory entry that the call of q works on.
Untouched(q) ==
    /\ pc'[q] = pc[q]
    /\ call'[q] = call[q]
    /\ ofd'[OpFd(q)] = ofd[OpFd(q)]
    /\ ofd'[ItemFd(q)] = ofd[ItemFd(q)]
    /\ UNCHANGED dir

\* A step of p disturbs no call of another that is inside a method.
LEMMA OthersUntouched ==
  ASSUME TypeOK, InsideLocked, OneThreadPerInstance,
         NEW p \in Procs, NEW q \in Procs, q # p, Inside(q),
         Caller(p) \/ LockCache(p) \/ Step(p)
  PROVE  Untouched(q)
  <1> USE DEF TypeOK
  <1>1. ~Inside(p)
    BY DEF InsideLocked, OneThreadPerInstance
  <1>2. CASE Caller(p)
    BY <1>2, CallerFrame DEF Untouched
  <1>3. CASE LockCache(p) \/ LockCacheFails(p)
    BY <1>3 DEF Untouched, VarTypes, LockCache, LockCacheFails, Goto, disk
  <1>4. CASE InitializeWrite(p) \/ InitializeFails(p)
    BY <1>4, InitializeFrame DEF Untouched
  <1>5. ~Body(p) /\ ~Return(p)
    BY <1>1, BodyFrame DEF Return, Inside
  <1>6. QED
    BY <1>2, <1>3, <1>4, <1>5 DEF Step

\* A step of p keeps its own call in order.
LEMMA HandleOpenStep ==
  ASSUME TypeOK, NEW p \in Procs, HandleOpenAt(p),
         Caller(p) \/ LockCache(p) \/ Step(p)
  PROVE  HandleOpenAt(p)'
  <1> USE DEF TypeOK
  <1>1. CASE pc'[p] \notin {"lock_item", "remove", "purge_remove"}
    BY <1>1 DEF HandleOpenAt
  <1>2. CASE CreateKey(p)
    <2>1. call[p].op \in Puts
      BY <1>2 DEF CreateKey, StageOK
    <2>2. PICK i \in Inodes :
              ofd' = [ofd EXCEPT ![Handle(p)] = [ino |-> i, lk |-> "un"]]
      BY <1>2 DEF CreateKey
    <2>3. ofd'[Handle(p)].ino # None
      BY <2>2, HandleType, FileCacheAssumption DEF VarTypes
    <2>4. pc'[p] = "lock_item" /\ UNCHANGED call /\ Handle(p)' = Handle(p)
      BY <1>2 DEF CreateKey, Goto, VarTypes, Handle
    <2>5. QED
      BY <2>1, <2>3, <2>4 DEF HandleOpenAt, Puts
  <1>3. CASE OpenKey(p)
    <2>1. pc'[p] = "lock_item" /\ UNCHANGED <<call, dir>>
          /\ Handle(p)' = Handle(p)
      BY <1>3 DEF OpenKey, Goto, VarTypes, Handle, disk
    <2>2. ofd'[Handle(p)].ino = dir[call[p].key] /\ dir[call[p].key] # None
      BY <1>3, HandleType DEF OpenKey, VarTypes
    <2>3. call[p].op = "del" => Handle(p) = OpFd(p)
      BY DEF Handle
    <2>4. QED
      BY <2>1, <2>2, <2>3 DEF HandleOpenAt
  <1>4. CASE LockItem(p) /\ pc'[p] = "remove"
    <2>1. call[p].op = "del"
      BY <1>4 DEF LockItem, Exit, Goto, VarTypes, StageOK, KeyOps, Puts
    <2>2. Handle(p) = OpFd(p) /\ LockKind(p) = "ex"
      BY <2>1 DEF Handle, LockKind
    <2>3. ofd'[OpFd(p)].ino = ofd[OpFd(p)].ino /\ ofd'[OpFd(p)].lk = "ex"
          /\ UNCHANGED <<call, dir>>
      BY <1>4, <2>1, <2>2, OfdType DEF LockItem, VarTypes
    <2>4. QED
      BY <1>4, <2>1, <2>2, <2>3 DEF HandleOpenAt, LockItem
  <1>5. CASE PurgeLock(p)
    <2>1. PICK e \in todo[p] :
              /\ dir[e.key] # None
              /\ ofd' = [ofd EXCEPT ![OpFd(p)] =
                              [ino |-> dir[e.key], lk |-> "ex"]]
              /\ call' = [call EXCEPT ![p].key = e.key]
      BY <1>5 DEF PurgeLock, Oldest
    <2>2. pc'[p] = "purge_remove" /\ UNCHANGED dir
      BY <1>5 DEF PurgeLock, Goto, VarTypes
    <2>3. call'[p].key = e.key
      BY <2>1 DEF VarTypes, Calls
    <2>4. ofd'[OpFd(p)] = [ino |-> dir[e.key], lk |-> "ex"]
      BY <2>1, OfdType DEF VarTypes
    <2>5. QED
      BY <2>1, <2>2, <2>3, <2>4 DEF HandleOpenAt
  <1>6. CASE ~(CreateKey(p) \/ OpenKey(p) \/ LockItem(p) \/ PurgeLock(p))
               /\ pc'[p] \in {"lock_item", "remove", "purge_remove"}
    <2>1. ~Caller(p)
      BY <1>6, CallerFrame DEF Inside
    <2>2. ~(\/ LockCache(p) \/ LockCacheFails(p) \/ Return(p)
            \/ InitializeWrite(p) \/ InitializeFails(p))
      BY <1>6
      DEF VarTypes, LockCache, Entry, LockCacheFails, Return, AfterCall,
          InitializeWrite, InitializeFails, Goto
    <2>3. ~(\/ OpenSource(p) \/ CopyChunk(p) \/ CopyDone(p)
            \/ CopyReadError(p) \/ WriteData(p) \/ WriteFails(p))
      BY <1>6
      DEF VarTypes, OpenSource, CopyChunk, CopyDone, CopyReadError, WriteData,
          WriteFails, Writing, Exit, Goto
    <2>4. ~(\/ RemoveKey(p) \/ ReadInfo(p) \/ WriteInfo(p) \/ Scan(p)
            \/ ClearRemove(p) \/ ClearDone(p))
      BY <1>6
      DEF VarTypes, RemoveKey, ReadInfo, WriteInfo, Scan, ClearRemove,
          ClearDone, Exit, Goto
    <2>5. ~(\/ PurgeReadInfo(p) \/ PurgeSkip(p) \/ PurgeRemove(p)
            \/ PurgeDone(p) \/ Fails(p))
      BY <1>6
      DEF VarTypes, PurgeReadInfo, PurgeSkip, PurgeRemove, PurgeDone, Fails,
          Exit, Goto
    <2>6. QED
      BY <1>6, <2>1, <2>2, <2>3, <2>4, <2>5 DEF Step, Body
  <1>7. CASE LockItem(p) /\ pc'[p] \in {"lock_item", "purge_remove"}
    BY <1>7 DEF LockItem, Exit, Goto, VarTypes
  <1>8. QED
    BY <1>1, <1>2, <1>3, <1>4, <1>5, <1>6, <1>7

LEMMA HandleOpenPreserved ==
  ASSUME TypeOK, InsideLocked, HandleOpen, OneThreadPerInstance, [Next]_vars
  PROVE  HandleOpen'
  <1>1. \A p \in Procs : HandleOpenAt(p)
    BY DEF HandleOpen
  <1>2. HandleOpen' <=> \A p \in Procs : HandleOpenAt(p)'
    BY DEF HandleOpen
  <1>3. \A q \in Procs : Untouched(q) => HandleOpenAt(q)'
    BY <1>1 DEF Untouched, HandleOpenAt, Handle
  <1>4. \A q \in Procs : pc'[q] = pc[q] /\ ~Inside(q) => HandleOpenAt(q)'
    BY DEF Inside, HandleOpenAt
  <1>5. ASSUME NEW p \in Procs, Caller(p) \/ LockCache(p) \/ Step(p)
        PROVE  HandleOpen'
    <2>1. HandleOpenAt(p)'
      BY <1>1, <1>5, HandleOpenStep
    <2>2. ASSUME NEW q \in Procs, q # p
          PROVE  HandleOpenAt(q)'
      <3>1. CASE Inside(q)
        BY <1>3, <1>5, <2>2, <3>1, OthersUntouched
      <3>2. CASE ~Inside(q)
        <4>1. pc'[q] = pc[q]
          BY <1>5, <2>2, CallerFrame, BodyFrame, InitializeFrame
          DEF TypeOK, VarTypes, LockCache, Step, LockCacheFails, Return, Goto
        <4>2. QED
          BY <1>4, <3>2, <4>1
      <3>3. QED
        BY <3>1, <3>2
    <2>3. QED
      BY <1>2, <2>1, <2>2
  <1>6. CASE UNCHANGED vars \/ Tick \/ \E c \in Instances : Destroy(c)
    <2>1. \A q \in Procs : Untouched(q)
      BY <1>6 DEF Untouched, vars, Tick, Destroy, locks, disk
    <2>2. QED
      BY <1>2, <1>3, <2>1
  <1>7. ASSUME NEW c \in Instances, Crash(c)
        PROVE  HandleOpen'
    <2>1. ASSUME NEW q \in Procs
          PROVE  Untouched(q) \/ pc'[q] = "idle"
      <3>1. CASE InstanceOf[q] = c
        BY <1>7, <3>1 DEF Crash
      <3>2. CASE InstanceOf[q] # c
        <4>1. OpFd(q) \in Ofds /\ ItemFd(q) \in Ofds
              /\ OpFd(q)[1] = q /\ ItemFd(q)[1] = q
          BY DEF Ofds, OpFd, ItemFd
        <4>2. QED
          BY <1>7, <3>2, <4>1 DEF Crash, Untouched
      <3>3. QED
        BY <3>1, <3>2
    <2>2. QED
      BY <1>2, <1>3, <2>1 DEF HandleOpenAt
  <1>8. QED
    BY <1>5, <1>6, <1>7 DEF Next

\* Names enter and leave the directory by four actions only.
LEMMA NamesKept ==
  ASSUME [Next]_vars,
         \A p \in Procs :
            ~(CreateKey(p) \/ RemoveKey(p) \/ ClearRemove(p) \/ PurgeRemove(p))
  PROVE  UNCHANGED dir
  <1>1. ASSUME NEW p \in Procs, Caller(p)
        PROVE  UNCHANGED dir
    BY <1>1
    DEF Caller, InitializeCreate, InitializeOpen, CallPut, CallPutData,
        CallPutItem, CallGet, CallDel, CallClear, CallPurge, Call, UserWrite,
        DropPutItem, CloseItem, disk
  <1>2. ASSUME NEW p \in Procs,
               \/ LockCache(p) \/ LockCacheFails(p) \/ Return(p)
               \/ InitializeWrite(p) \/ InitializeFails(p)
        PROVE  UNCHANGED dir
    BY <1>2 DEF LockCache, LockCacheFails, Return, InitializeWrite,
                InitializeFails, disk
  <1>3. ASSUME NEW p \in Procs,
               \/ OpenKey(p) \/ LockItem(p) \/ OpenSource(p) \/ CopyChunk(p)
               \/ CopyDone(p) \/ CopyReadError(p) \/ WriteData(p)
               \/ WriteFails(p)
        PROVE  UNCHANGED dir
    BY <1>3 DEF OpenKey, LockItem, OpenSource, CopyChunk, CopyDone,
                CopyReadError, WriteData, WriteFails, disk
  <1>4. ASSUME NEW p \in Procs,
               \/ ReadInfo(p) \/ WriteInfo(p) \/ Scan(p) \/ ClearDone(p)
               \/ PurgeReadInfo(p) \/ PurgeLock(p) \/ PurgeSkip(p)
               \/ PurgeDone(p) \/ Fails(p)
        PROVE  UNCHANGED dir
    BY <1>4 DEF ReadInfo, WriteInfo, Scan, ClearDone, PurgeReadInfo,
                PurgeLock, PurgeSkip, PurgeDone, Fails, disk
  <1>5. CASE (\E c \in Instances : Destroy(c) \/ Crash(c)) \/ Tick \/ UNCHANGED vars
    BY <1>5 DEF Destroy, Crash, Tick, vars, disk
  <1>6. QED
    BY <1>1, <1>2, <1>3, <1>4, <1>5 DEF Next, Step, Body

\* Whoever removes a file, but for clear(), has an exclusive lock on it.
LEMMA RemovedUnderLock ==
  ASSUME TypeOK, HandleOpen, [Next]_vars, \A p \in Procs : ~ClearRemove(p),
         NEW k \in Keys, dir[k] # None, dir'[k] # dir[k]
  PROVE  \E p \in Procs :
            /\ RemoveKey(p) \/ PurgeRemove(p)
            /\ k = call[p].key /\ dir'[k] = None
            /\ ofd[OpFd(p)].ino = dir[k] /\ ofd[OpFd(p)].lk = "ex"
  <1> USE DEF TypeOK
  <1>1. PICK p \in Procs : CreateKey(p) \/ RemoveKey(p) \/ PurgeRemove(p)
    BY NamesKept
  <1>2. k = call[p].key
    BY <1>1 DEF CreateKey, RemoveKey, PurgeRemove, VarTypes
  <1>3. ~CreateKey(p)
    BY <1>2 DEF CreateKey
  <1>4. dir'[k] = None
    BY <1>1, <1>2, <1>3 DEF RemoveKey, PurgeRemove, VarTypes
  <1>5. ofd[OpFd(p)].ino = dir[k] /\ ofd[OpFd(p)].lk = "ex"
    <2>1. pc[p] \in {"remove", "purge_remove"}
      BY <1>1, <1>3 DEF RemoveKey, PurgeRemove
    <2>2. StageOK(p) /\ HandleOpenAt(p)
      BY DEF HandleOpen
    <2>3. QED
      BY <1>2, <2>1, <2>2 DEF HandleOpenAt, StageOK
  <1>6. QED
    BY <1>1, <1>2, <1>3, <1>4, <1>5

\* del() and purge() remove no file that a caller holds locked, whatever
\* fails and whoever dies; only clear() does.
THEOREM LockedFilesAreSpared ==
  OneThreadPerInstance => (Spec => LockedFileSpared)
  <1> SUFFICES ASSUME OneThreadPerInstance
               PROVE  Spec => LockedFileSpared
    OBVIOUS
  <1> DEFINE IInv == TypeOK /\ InsideLocked /\ FlockExclusive /\ HandleOpen
             Spared == \A k \in Linked :
                         dir'[k] = None /\ (\A p \in Procs : pc[p] # "clear") =>
                           \A q \in Procs : ofd[ItemFd(q)].ino = dir[k] =>
                                               ofd[ItemFd(q)].lk = "un"
  <1>1. Init => InsideLocked /\ FlockExclusive /\ HandleOpen
    BY DEF Init, InsideLocked, Inside, FlockExclusive, HandleOpen, HandleOpenAt, Closed
  <1>2. IInv /\ [Next]_vars => (InsideLocked /\ FlockExclusive /\ HandleOpen)'
    BY InsideLockedPreserved, FlockExclusivePreserved, HandleOpenPreserved
  <1>3. IInv /\ [Next]_vars => [Spared]_vars
    <2> SUFFICES ASSUME IInv, [Next]_vars, NEW k \in Linked, dir'[k] = None,
                        \A p \in Procs : pc[p] # "clear",
                        NEW q \in Procs, ofd[ItemFd(q)].ino = dir[k]
                 PROVE  ofd[ItemFd(q)].lk = "un"
      OBVIOUS
    <2>1. k \in Keys /\ dir[k] # None
      BY DEF Linked
    <2>2. \A p \in Procs : ~ClearRemove(p)
      BY DEF ClearRemove
    <2>3. PICK p \in Procs : ofd[OpFd(p)].ino = dir[k] /\ ofd[OpFd(p)].lk = "ex"
      BY <2>1, <2>2, RemovedUnderLock
    <2>4. ItemFd(q) # OpFd(p) /\ ItemFd(q) \in Ofds /\ OpFd(p) \in Ofds
      BY DEF ItemFd, OpFd, Ofds
    <2>5. QED
      BY <2>1, <2>3, <2>4 DEF FlockExclusive
  <1>4. QED
    BY <1>1, <1>2, <1>3, TypeCorrect, PTL DEF Spec, LockedFileSpared


-----------------------------------------------------------------------------
(* No size is larger than what a caller may store.                         *)

Fits(n) == n = 0 \/ \E m \in Sizes : n <= m

CallsFit   == \A p \in Procs : Fits(call[p].size)
FilesFit   == \A i \in Inodes : Fits(file[i].size)
EntriesFit == \A p \in Procs : \A e \in todo[p] : Fits(e.size)

LEMMA FitsDown ==
  ASSUME NEW n \in Nat, NEW m \in Nat, Fits(m), n <= m
  PROVE  Fits(n)
  BY FileCacheAssumption DEF Fits

LEMMA CallFits ==
  ASSUME VarTypes, CallsFit, NEW p \in Procs, NEW op, NEW k, NEW n, NEW w,
         n = 0 \/ n \in Sizes, Call(p, op, k, n, w)
  PROVE  CallsFit'
  <1>1. Fits(n)
    <2>1. \A m \in Sizes : m \in Nat /\ m <= m
      BY FileCacheAssumption
    <2>2. QED
      BY <2>1 DEF Fits
  <1>2. call'[p].size = n /\ \A q \in Procs : q # p => call'[q] = call[q]
    BY DEF Call, VarTypes
  <1>3. QED
    BY <1>1, <1>2 DEF CallsFit, Fits

\* Every call asks for a size of its caller, or for none.
LEMMA CallsFitPreserved ==
  ASSUME TypeOK, CallsFit, [Next]_vars
  PROVE  CallsFit'
  <1> USE DEF TypeOK
  <1>1. ASSUME NEW p \in Procs,
               \/ CallPut(p) \/ CallPutData(p) \/ CallPutItem(p) \/ CallGet(p)
               \/ CallDel(p) \/ CallClear(p) \/ CallPurge(p)
        PROVE  CallsFit'
    BY <1>1, CallFits
    DEF CallPut, CallPutData, CallPutItem, CallGet, CallDel, CallClear, CallPurge
  <1>2. ASSUME \A q \in Procs : call'[q].size \in {0, call[q].size}
        PROVE  CallsFit'
    BY <1>2 DEF CallsFit, Fits
  <1>3. ASSUME NEW p \in Procs, NEW ok \in BOOLEAN, Exit(p, ok)
        PROVE  CallsFit'
    <2>1. \A q \in Procs : call'[q].size = call[q].size
      BY <1>3 DEF Exit, VarTypes, Calls
    <2>2. QED
      BY <1>2, <2>1
  <1>4. ASSUME NEW p \in Procs, NEW k, call' = [call EXCEPT ![p].key = k]
        PROVE  CallsFit'
    <2>1. \A q \in Procs : call'[q].size = call[q].size
      BY <1>4 DEF VarTypes, Calls
    <2>2. QED
      BY <1>2, <2>1
  <1>5. ASSUME NEW p \in Procs,
               call' = [call EXCEPT ![p] = NoCall]
                 \/ call' = [call EXCEPT ![p] = [NoCall EXCEPT !.op = "drop"]]
        PROVE  CallsFit'
    BY <1>2, <1>5 DEF VarTypes, NoCall
  <1>6. CASE UNCHANGED call
    BY <1>6 DEF CallsFit
  <1>7. ASSUME NEW p \in Procs, Caller(p)
        PROVE  CallsFit'
    <2>1. CASE DropPutItem(p)
      BY <1>5, <2>1 DEF DropPutItem
    <2>2. CASE ~DropPutItem(p)
      BY <1>1, <1>6, <1>7, <2>2
      DEF Caller, InitializeCreate, InitializeOpen, UserWrite, CloseItem
    <2>3. QED
      BY <2>1, <2>2
  <1>8. ASSUME NEW p \in Procs, LockCache(p) \/ LockCacheFails(p) \/ Return(p)
        PROVE  CallsFit'
    BY <1>5, <1>6, <1>8 DEF LockCache, LockCacheFails, Return
  <1>9. ASSUME NEW p \in Procs,
               \/ LockItem(p) \/ WriteFails(p) \/ WriteInfo(p) \/ ClearDone(p)
               \/ PurgeReadInfo(p) \/ Fails(p)
        PROVE  CallsFit'
    BY <1>3, <1>6, <1>9
    DEF LockItem, WriteFails, WriteInfo, ClearDone, PurgeReadInfo, Fails
  <1>10. ASSUME NEW p \in Procs, PurgeLock(p) \/ PurgeRemove(p)
         PROVE  CallsFit'
    BY <1>4, <1>10 DEF PurgeLock, PurgeRemove
  <1>11. ASSUME NEW p \in Procs, Step(p)
         PROVE  CallsFit'
    BY <1>6, <1>8, <1>9, <1>10, <1>11
    DEF Step, Body, CreateKey, OpenKey, OpenSource, CopyChunk, CopyDone,
        CopyReadError, WriteData, RemoveKey, ReadInfo, Scan, ClearRemove,
        PurgeSkip, PurgeDone, InitializeWrite, InitializeFails
  <1>12. ASSUME NEW c \in Instances, Crash(c)
         PROVE  CallsFit'
    BY <1>2, <1>12 DEF Crash, NoCall
  <1>13. QED
    BY <1>6, <1>7, <1>8, <1>11, <1>12 DEF Next, Tick, Destroy, vars

\* What a step does to the files: it closes or makes some, locks, writes or
\* completes one, or leaves them alone.
LEMMA FilesFitPreserved ==
  ASSUME TypeOK, CallsFit, FilesFit, [Next]_vars
  PROVE  FilesFit'
  <1> USE DEF TypeOK
  <1>1. CASE UNCHANGED file
    BY <1>1 DEF FilesFit
  <1>2. CASE Reclaim
    BY <1>2 DEF Reclaim, FilesFit, Fits, Blank
  <1>3. ASSUME \A i \in Inodes : file'[i].size = file[i].size
        PROVE  FilesFit'
    BY <1>3 DEF FilesFit, Fits
  <1>4. ASSUME NEW j, NEW n, Fits(n),
               \A i \in Inodes : file'[i].size = IF i = j THEN n ELSE file[i].size
        PROVE  FilesFit'
    BY <1>4 DEF FilesFit, Fits
  <1>5. ASSUME NEW p \in Procs, CreateKey(p) \/ LockItem(p) \/ PurgeLock(p)
        PROVE  FilesFit'
    <2>1. PICK j : file' = [file EXCEPT ![j].atime = clock]
      BY <1>5 DEF CreateKey, LockItem, PurgeLock, Touch
    <2>2. \A i \in Inodes : file'[i].size = file[i].size
      BY <2>1 DEF VarTypes
    <2>3. QED
      BY <1>3, <2>2
  <1>6. ASSUME NEW p \in Procs, CopyDone(p) \/ DropPutItem(p)
        PROVE  FilesFit'
    <2>1. CASE CopyDone(p)
      BY <1>3, <2>1 DEF CopyDone, VarTypes
    <2>2. CASE DropPutItem(p)
      <3>1. \A i \in Inodes : [file[i] EXCEPT !.full = TRUE].size = file[i].size
        BY DEF VarTypes
      <3>2. QED
        BY <1>3, <2>2, <3>1 DEF DropPutItem
    <2>3. QED
      BY <1>6, <2>1, <2>2
  <1>7. ASSUME NEW p \in Procs, CopyChunk(p)
        PROVE  FilesFit'
    <2> DEFINE j == ofd[OpFd(p)].ino
    <2>1. CASE j \in Inodes
      <3>1. file[j].size \in Nat /\ call[p].size \in Nat /\ Fits(call[p].size)
        BY <2>1 DEF VarTypes, Calls, CallsFit
      <3>2. file[j].size < call[p].size
        BY <1>7, <2>1, FileCacheAssumption
        DEF CopyChunk, Writing, HandleSize, Handle
      <3>3. Fits(file[j].size + 1)
        BY <3>1, <3>2, FitsDown
      <3>4. \A i \in Inodes :
              file'[i].size = IF i = j THEN file[j].size + 1 ELSE file[i].size
        BY <1>7, <2>1 DEF CopyChunk, VarTypes
      <3>5. QED
        BY <1>4, <3>1, <3>3, <3>4
    <2>2. CASE j \notin Inodes
      BY <1>3, <1>7, <2>2 DEF CopyChunk, VarTypes
    <2>3. QED
      BY <2>1, <2>2
  <1>8. ASSUME NEW p \in Procs, UserWrite(p)
        PROVE  FilesFit'
    <2> DEFINE j == ofd[ItemFd(p)].ino
    <2>1. j \in Inodes
      BY <1>8, OfdType DEF UserWrite, VarTypes
    <2>2. PICK n \in Sizes : file[j].size < n
      BY <1>8 DEF UserWrite
    <2>3. n \in Nat /\ file[j].size \in Nat
      BY <2>1, FileCacheAssumption DEF VarTypes
    <2>4. Fits(file[j].size + 1)
      BY <2>2, <2>3 DEF Fits
    <2>5. \A i \in Inodes :
            file'[i].size = IF i = j THEN file[j].size + 1 ELSE file[i].size
      BY <1>8, <2>1 DEF UserWrite, VarTypes
    <2>6. QED
      BY <1>4, <2>3, <2>4, <2>5
  <1>9. ASSUME NEW p \in Procs, WriteData(p) \/ WriteFails(p)
        PROVE  FilesFit'
    <2> DEFINE j == ofd[OpFd(p)].ino
    <2>1. call[p].size \in Nat /\ HandleSize(p) \in Nat /\ Fits(call[p].size)
      BY SizesAreNat DEF VarTypes, Calls, CallsFit
    <2>2. PICK n \in Nat : /\ n <= call[p].size
                           /\ \A i \in Inodes : file'[i].size =
                                IF i = j THEN n ELSE file[i].size
      <3>1. CASE WriteData(p)
        <4>1. \A i \in Inodes : file'[i].size =
                                IF i = j THEN call[p].size ELSE file[i].size
          BY <3>1 DEF WriteData, VarTypes
        <4>2. QED
          BY <2>1, <4>1
      <3>2. CASE WriteFails(p)
        <4>1. PICK n \in HandleSize(p)..call[p].size :
                      file' = [file EXCEPT ![j].size = n]
          BY <3>2 DEF WriteFails
        <4>2. n \in Nat /\ n <= call[p].size
          BY <2>1
        <4>3. \A i \in Inodes : file'[i].size = IF i = j THEN n ELSE file[i].size
          BY <4>1 DEF VarTypes
        <4>4. QED
          BY <4>2, <4>3
      <3>3. QED
        BY <1>9, <3>1, <3>2
    <2>3. Fits(n)
      BY <2>1, <2>2, FitsDown
    <2>4. QED
      BY <1>4, <2>2, <2>3
  <1>10. ASSUME NEW p \in Procs, Caller(p)
         PROVE  FilesFit'
    <2>1. CASE CloseItem(p)
      BY <1>2, <2>1 DEF CloseItem
    <2>2. CASE ~(CloseItem(p) \/ DropPutItem(p) \/ UserWrite(p))
      <3>1. UNCHANGED file
        BY <1>10, <2>2
        DEF Caller, InitializeCreate, InitializeOpen, CallPut, CallPutData,
            CallPutItem, CallGet, CallDel, CallClear, CallPurge, disk
      <3>2. QED
        BY <1>1, <3>1
    <2>3. QED
      BY <1>6, <1>8, <2>1, <2>2
  <1>11. ASSUME NEW p \in Procs, LockCache(p) \/ Step(p)
         PROVE  FilesFit'
    <2>1. CASE Return(p) \/ ClearRemove(p) \/ PurgeRemove(p)
      BY <1>2, <2>1 DEF Return, ClearRemove, PurgeRemove
    <2>2. CASE \/ LockCache(p) \/ LockCacheFails(p) \/ InitializeWrite(p)
               \/ InitializeFails(p) \/ OpenKey(p) \/ OpenSource(p)
               \/ CopyReadError(p) \/ RemoveKey(p)
      BY <1>1, <2>2
      DEF LockCache, LockCacheFails, InitializeWrite, InitializeFails, OpenKey,
          OpenSource, CopyReadError, RemoveKey, disk
    <2>3. CASE \/ ReadInfo(p) \/ WriteInfo(p) \/ Scan(p) \/ ClearDone(p)
               \/ PurgeReadInfo(p) \/ PurgeSkip(p) \/ PurgeDone(p) \/ Fails(p)
      BY <1>1, <2>3
      DEF ReadInfo, WriteInfo, Scan, ClearDone, PurgeReadInfo, PurgeSkip,
          PurgeDone, Fails, disk
    <2>4. QED
      BY <1>5, <1>6, <1>7, <1>9, <1>11, <2>1, <2>2, <2>3 DEF Step, Body
  <1>12. QED
    BY <1>1, <1>2, <1>10, <1>11 DEF Next, Tick, Destroy, Crash, vars, disk


\* No step but the listing of the directory adds entries to a listing.
ListingsShrink == \A q \in Procs : todo'[q] \subseteq todo[q]

LEMMA TodoFrame ==
  ASSUME TypeOK, [Next]_vars, \A p \in Procs : ~Scan(p)
  PROVE  ListingsShrink
  <1> USE DEF TypeOK
  <1>1. CASE UNCHANGED todo
    BY <1>1 DEF ListingsShrink
  <1>2. ASSUME NEW p \in Procs,
               Return(p) \/ ClearRemove(p) \/ PurgeSkip(p) \/ PurgeRemove(p)
        PROVE  ListingsShrink
    BY <1>2
    DEF ListingsShrink, VarTypes, Return, ClearRemove, PurgeSkip, PurgeRemove
  <1>3. ASSUME NEW p \in Procs, Caller(p) \/ LockCache(p) \/ LockCacheFails(p)
        PROVE  ListingsShrink
    BY <1>1, <1>3
    DEF Caller, InitializeCreate, InitializeOpen, CallPut, CallPutData, CallPutItem,
        CallGet, CallDel, CallClear, CallPurge, Call, UserWrite, DropPutItem,
        CloseItem, LockCache, LockCacheFails, work
  <1>4. ASSUME NEW p \in Procs, Step(p)
        PROVE  ListingsShrink
    BY <1>1, <1>2, <1>3, <1>4
    DEF Step, Body, CreateKey, OpenKey, LockItem, OpenSource, CopyChunk, CopyDone,
        CopyReadError, WriteData, WriteFails, RemoveKey, ReadInfo, WriteInfo,
        ClearDone, PurgeReadInfo, PurgeLock, PurgeDone, Fails, InitializeWrite,
        InitializeFails, work
  <1>5. ASSUME NEW c \in Instances, Crash(c)
        PROVE  ListingsShrink
    BY <1>5 DEF ListingsShrink, Crash
  <1>6. QED
    BY <1>1, <1>3, <1>4, <1>5 DEF Next, Tick, Destroy, vars, work

LEMMA EntriesFitPreserved ==
  ASSUME TypeOK, FilesFit, EntriesFit, [Next]_vars
  PROVE  EntriesFit'
  <1>1. ASSUME NEW p \in Procs, Scan(p)
        PROVE  EntriesFit'
    <2>1. \A e \in Listing : Fits(e.size)
      BY DEF Listing, FilesFit, TypeOK, VarTypes
    <2>2. \A q \in Procs : todo'[q] = todo[q] \/ todo'[q] = Listing
      BY <1>1 DEF Scan, TypeOK, VarTypes
    <2>3. QED
      BY <2>1, <2>2 DEF EntriesFit, Fits
  <1>2. CASE \A p \in Procs : ~Scan(p)
    BY <1>2, TodoFrame DEF ListingsShrink, EntriesFit, Fits
  <1>3. QED
    BY <1>1, <1>2

-----------------------------------------------------------------------------
(* How much purge() removes.                                               *)

\* purge() goes on to another file only while it has not removed enough.
RemovedFitsAt(p) ==
    /\ pc[p] = "purge_remove" => removed[p] <= PurgeSize
    /\ removed[p] > 0 => \E n \in Sizes : removed[p] <= PurgeSize + n

RemovedFits == \A p \in Procs : RemovedFitsAt(p)

LEMMA RemovedStep ==
  ASSUME TypeOK, EntriesFit, NEW p \in Procs, RemovedFitsAt(p),
         PurgeLock(p) \/ PurgeRemove(p)
  PROVE  RemovedFitsAt(p)'
  <1> USE DEF TypeOK
  <1>1. PurgeSize \in Nat /\ removed[p] \in Nat /\ Sizes \subseteq Nat
    BY FileCacheAssumption DEF VarTypes
  <1>2. CASE PurgeLock(p)
    <2>1. removed' = removed /\ removed[p] <= PurgeSize
      BY <1>1, <1>2 DEF PurgeLock, PurgeEnough, work
    <2>2. QED
      BY <2>1 DEF RemovedFitsAt
  <1>3. CASE PurgeRemove(p)
    <2>1. PICK e \in todo[p] : removed' = [removed EXCEPT ![p] = @ + e.size]
                                 \/ UNCHANGED removed
      BY <1>3 DEF PurgeRemove
    <2>2. e.size \in Nat /\ Fits(e.size)
      BY DEF VarTypes, Entries, EntriesFit
    <2>3. removed'[p] \in {removed[p], removed[p] + e.size}
      BY <2>1 DEF VarTypes
    <2>4. pc'[p] = "purge" /\ removed[p] <= PurgeSize
      BY <1>3 DEF PurgeRemove, RemovedFitsAt, Goto, VarTypes
    <2>5. CASE removed'[p] = removed[p]
      BY <2>4, <2>5 DEF RemovedFitsAt
    <2>6. CASE e.size # 0 /\ removed'[p] = removed[p] + e.size
      <3>1. PICK m \in Sizes : e.size <= m
        BY <2>2, <2>6 DEF Fits
      <3>2. m \in Nat
        BY <1>1
      <3>3. removed'[p] <= PurgeSize + m
        BY <1>1, <2>2, <2>4, <2>6, <3>1, <3>2
      <3>4. QED
        BY <2>4, <3>3 DEF RemovedFitsAt
    <2>7. QED
      BY <1>1, <2>2, <2>3, <2>5, <2>6
  <1>4. QED
    BY <1>2, <1>3

\* The other steps only reset the count.
LEMMA RemovedFrame ==
  ASSUME TypeOK, [Next]_vars, NEW q \in Procs, ~PurgeLock(q), ~PurgeRemove(q)
  PROVE  /\ removed'[q] \in {0, removed[q]}
         /\ pc'[q] = "purge_remove" => pc[q] = "purge_remove"
  <1> USE DEF TypeOK, VarTypes
  <1> DEFINE Kept == /\ removed'[q] \in {0, removed[q]}
                     /\ pc'[q] # pc[q] => pc'[q] # "purge_remove"
  <1>1. ASSUME NEW p \in Procs, Caller(p)
        PROVE  Kept
    BY <1>1
    DEF Caller, InitializeCreate, InitializeOpen, CallPut, CallPutData, CallPutItem,
        CallGet, CallDel, CallClear, CallPurge, Call, UserWrite, DropPutItem,
        CloseItem, Goto, work
  <1>2. ASSUME NEW p \in Procs, LockCache(p) \/ LockCacheFails(p) \/ Return(p)
        PROVE  Kept
    BY <1>2 DEF LockCache, LockCacheFails, Return, Goto, Entry, AfterCall, work
  <1>3. ASSUME NEW p \in Procs,
               \/ CreateKey(p) \/ OpenKey(p) \/ LockItem(p) \/ OpenSource(p)
               \/ CopyChunk(p) \/ CopyDone(p) \/ CopyReadError(p)
               \/ WriteData(p) \/ WriteFails(p) \/ RemoveKey(p)
        PROVE  Kept
    BY <1>3
    DEF CreateKey, OpenKey, LockItem, OpenSource, CopyChunk, CopyDone,
        CopyReadError, WriteData, WriteFails, RemoveKey, Exit, Goto, work
  <1>4. ASSUME NEW p \in Procs,
               \/ ReadInfo(p) \/ WriteInfo(p) \/ Scan(p) \/ ClearRemove(p)
               \/ ClearDone(p) \/ PurgeReadInfo(p) \/ PurgeSkip(p)
               \/ PurgeDone(p) \/ Fails(p)
               \/ InitializeWrite(p) \/ InitializeFails(p)
        PROVE  Kept
    BY <1>4
    DEF ReadInfo, WriteInfo, Scan, ClearRemove, ClearDone, PurgeReadInfo,
        PurgeSkip, PurgeDone, Fails, InitializeWrite, InitializeFails, Exit,
        Goto, work
  <1>5. ASSUME NEW p \in Procs, p # q, PurgeLock(p) \/ PurgeRemove(p)
        PROVE  Kept
    BY <1>5 DEF PurgeLock, PurgeRemove, Goto, work
  <1>6. ASSUME NEW p \in Procs, Step(p)
        PROVE  Kept
    BY <1>2, <1>3, <1>4, <1>5, <1>6 DEF Step, Body
  <1>7. ASSUME NEW c \in Instances, Crash(c)
        PROVE  Kept
    BY <1>7 DEF Crash
  <1>8. CASE Tick \/ (\E c \in Instances : Destroy(c)) \/ UNCHANGED vars
    BY <1>8 DEF Tick, Destroy, vars, work
  <1>9. Kept
    BY <1>1, <1>2, <1>6, <1>7, <1>8 DEF Next
  <1>10. QED
    BY <1>9

LEMMA RemovedFitsPreserved ==
  ASSUME TypeOK, EntriesFit, RemovedFits, [Next]_vars
  PROVE  RemovedFits'
  <1> SUFFICES ASSUME NEW q \in Procs
               PROVE  RemovedFitsAt(q)'
    BY DEF RemovedFits
  <1>1. RemovedFitsAt(q)
    BY DEF RemovedFits
  <1>2. CASE PurgeLock(q) \/ PurgeRemove(q)
    BY <1>1, <1>2, RemovedStep
  <1>3. CASE ~PurgeLock(q) /\ ~PurgeRemove(q)
    <2>1. removed'[q] \in {0, removed[q]}
          /\ (pc'[q] = "purge_remove" => pc[q] = "purge_remove")
      BY <1>3, RemovedFrame
    <2>2. PurgeSize \in Nat
      BY FileCacheAssumption
    <2>3. QED
      BY <1>1, <2>1, <2>2 DEF RemovedFitsAt
  <1>4. QED
    BY <1>2, <1>3

\* However the sizes of the files change while their owners write to them, and
\* whatever fails, a purge removes the purge size and at most one file more.
THEOREM PurgeIsBounded == Spec => []PurgeBounded
  <1> DEFINE IInv == CallsFit /\ FilesFit /\ EntriesFit /\ RemovedFits
  <1>1. Init => IInv
    BY DEF Init, CallsFit, FilesFit, EntriesFit, RemovedFits, RemovedFitsAt, Fits,
           NoCall, Blank
  <1>2. TypeOK /\ IInv /\ [Next]_vars => IInv'
    BY CallsFitPreserved, FilesFitPreserved, EntriesFitPreserved,
       RemovedFitsPreserved
  <1>3. IInv => PurgeBounded
    BY DEF RemovedFits, RemovedFitsAt, PurgeBounded
  <1>4. QED
    BY <1>1, <1>2, <1>3, TypeCorrect, PTL DEF Spec

-----------------------------------------------------------------------------
(* The order in which purge() removes.                                     *)

\* What the steps of others leave alone while q is inside a method: its call, its
\* listing, the directory, and when the files in it were last used.
Quiet(q) ==
    /\ pc'[q] = pc[q]
    /\ call'[q] = call[q]
    /\ todo'[q] = todo[q]
    /\ UNCHANGED dir
    /\ \A i \in Inodes : (\E k \in Keys : dir[k] = i) => file'[i].atime = file[i].atime

\* Reclaiming takes no file that has a name.
LEMMA ReclaimLinked ==
  ASSUME VarTypes, Reclaim, NEW k \in Keys, dir'[k] \in Inodes
  PROVE  file'[dir'[k]] = file[dir'[k]]
  BY DEF Reclaim, InUse

LEMMA QuietCaller ==
  ASSUME TypeOK, InsideLocked, OneThreadPerInstance, NEW q \in Procs, Inside(q),
         NEW p \in Procs, p # q, Caller(p) \/ LockCache(p) \/ Step(p)
  PROVE  Quiet(q)
  <1> USE DEF TypeOK
  <1>1. Untouched(q)
    BY OthersUntouched
  <1>2. ~Inside(p)
    BY DEF InsideLocked, OneThreadPerInstance
  <1>3. ~Body(p) /\ ~Return(p)
    BY <1>2, BodyFrame DEF Return, Inside
  <1>4. todo'[q] = todo[q]
    BY <1>3
    DEF VarTypes, Caller, InitializeCreate, InitializeOpen, CallPut, CallPutData,
        CallPutItem, CallGet, CallDel, CallClear, CallPurge, Call, UserWrite,
        DropPutItem, CloseItem, LockCache, LockCacheFails, Step, InitializeWrite,
        InitializeFails, work
  <1>5. ASSUME NEW i \in Inodes, NEW k \in Keys, dir[k] = i
        PROVE  file'[i].atime = file[i].atime
    <2>1. CASE CloseItem(p)
      BY <1>1, <1>5, <2>1, ReclaimLinked DEF CloseItem, Untouched
    <2>2. CASE UserWrite(p)
      BY <2>2 DEF UserWrite, VarTypes
    <2>3. CASE DropPutItem(p)
      BY <2>3 DEF DropPutItem, VarTypes
    <2>4. CASE ~CloseItem(p) /\ ~UserWrite(p) /\ ~DropPutItem(p)
      <3>1. UNCHANGED file
        BY <1>3, <2>4
        DEF Caller, InitializeCreate, InitializeOpen, CallPut, CallPutData,
            CallPutItem, CallGet, CallDel, CallClear, CallPurge, LockCache,
            LockCacheFails, Step, InitializeWrite, InitializeFails, disk
      <3>2. QED
        BY <3>1
    <2>5. QED
      BY <2>1, <2>2, <2>3, <2>4
  <1>6. QED
    BY <1>1, <1>4, <1>5 DEF Quiet, Untouched

\* While q is inside, a step is its own, or leaves q alone, or q dies.
LEMMA QuietOrOwn ==
  ASSUME TypeOK, InsideLocked, OneThreadPerInstance, NEW q \in Procs, Inside(q),
         [Next]_vars
  PROVE  Body(q) \/ Return(q) \/ Quiet(q) \/ pc'[q] = "idle"
  <1> USE DEF TypeOK
  <1>1. ASSUME NEW p \in Procs, p # q, Caller(p) \/ LockCache(p) \/ Step(p)
        PROVE  Quiet(q)
    BY <1>1, QuietCaller
  <1>2. CASE Caller(q) \/ LockCache(q) \/ Step(q)
    <2>1. ~Caller(q) /\ ~LockCache(q) /\ ~LockCacheFails(q)
      BY CallerFrame DEF LockCache, LockCacheFails, Inside
    <2>2. ~InitializeWrite(q) /\ ~InitializeFails(q)
      BY DEF InitializeWrite, InitializeFails, Inside
    <2>3. QED
      BY <1>2, <2>1, <2>2 DEF Step
  <1>3. CASE UNCHANGED vars \/ Tick \/ \E c \in Instances : Destroy(c)
    BY <1>3 DEF Quiet, vars, Tick, Destroy, work, disk
  <1>4. ASSUME NEW c \in Instances, Crash(c), InstanceOf[q] = c
        PROVE  pc'[q] = "idle"
    BY <1>4 DEF Crash
  <1>5. ASSUME NEW c \in Instances, Crash(c), InstanceOf[q] # c
        PROVE  Quiet(q)
    <2>1. pc'[q] = pc[q] /\ call'[q] = call[q] /\ todo'[q] = todo[q] /\ UNCHANGED dir
      BY <1>5 DEF Crash
    <2>2. \A k \in Keys : dir[k] \in Inodes => file'[dir[k]] = file[dir[k]]
      BY <1>5, ReclaimLinked DEF Crash
    <2>3. QED
      BY <2>1, <2>2 DEF Quiet
  <1>6. QED
    BY <1>1, <1>2, <1>3, <1>4, <1>5 DEF Next

\* No file was used later than now.
UsedBefore == \A i \in Inodes : file[i].atime <= clock

LEMMA UsedBeforePreserved ==
  ASSUME TypeOK, UsedBefore, [Next]_vars
  PROVE  UsedBefore'
  <1> USE DEF TypeOK
  <1>1. ASSUME \A i \in Inodes : file'[i].atime \in {0, clock, file[i].atime},
               UNCHANGED clock
        PROVE  UsedBefore'
    BY <1>1 DEF UsedBefore, VarTypes
  <1>2. CASE Reclaim /\ UNCHANGED clock
    BY <1>1, <1>2 DEF Reclaim, Blank
  <1>3. CASE UNCHANGED file /\ UNCHANGED clock
    BY <1>1, <1>3
  <1>4. ASSUME NEW p \in Procs, CreateKey(p) \/ LockItem(p) \/ PurgeLock(p)
        PROVE  UsedBefore'
    <2>1. PICK j : file' = [file EXCEPT ![j].atime = clock]
      BY <1>4 DEF CreateKey, LockItem, PurgeLock, Touch
    <2>2. \A i \in Inodes : file'[i].atime \in {clock, file[i].atime}
      BY <2>1 DEF VarTypes
    <2>3. UNCHANGED clock
      BY <1>4 DEF CreateKey, LockItem, PurgeLock
    <2>4. QED
      BY <1>1, <2>2, <2>3
  <1>5. ASSUME NEW p \in Procs, CopyDone(p) \/ CopyChunk(p) \/ UserWrite(p)
        PROVE  UsedBefore'
    <2>1. PICK j : \/ file' = [file EXCEPT ![j].full = TRUE]
                   \/ file' = [file EXCEPT ![j].size = @ + 1]
      BY <1>5 DEF CopyDone, CopyChunk, UserWrite
    <2>2. \A i \in Inodes : file'[i].atime = file[i].atime
      <3> TAKE i \in Inodes
      <3>1. file[i] \in [size : Nat, full : BOOLEAN, atime : Nat]
        BY DEF VarTypes
      <3>2. /\ [file[i] EXCEPT !.full = TRUE].atime = file[i].atime
            /\ [file[i] EXCEPT !.size = file[i].size + 1].atime = file[i].atime
        BY <3>1
      <3>3. file'[i] \in {file[i], [file[i] EXCEPT !.full = TRUE],
                         [file[i] EXCEPT !.size = file[i].size + 1]}
        BY <2>1 DEF VarTypes
      <3>4. QED
        BY <3>2, <3>3
    <2>3. QED
      BY <1>1, <1>5, <2>2 DEF CopyDone, CopyChunk, UserWrite
  <1>6. ASSUME NEW p \in Procs, DropPutItem(p) \/ WriteData(p) \/ WriteFails(p)
        PROVE  UsedBefore'
    <2>1. \A i \in Inodes : file'[i].atime = file[i].atime
      <3>1. \A i \in Inodes : [file[i] EXCEPT !.full = TRUE].atime = file[i].atime
        BY DEF VarTypes
      <3>2. CASE DropPutItem(p)
        BY <3>1, <3>2 DEF DropPutItem
      <3>3. CASE WriteData(p)
        BY <3>3 DEF WriteData, VarTypes
      <3>4. CASE WriteFails(p)
        <4>1. PICK j, n : file' = [file EXCEPT ![j].size = n]
          BY <3>4 DEF WriteFails
        <4>2. QED
          BY <4>1 DEF VarTypes
      <3>5. QED
        BY <1>6, <3>2, <3>3, <3>4
    <2>2. QED
      BY <1>1, <1>6, <2>1 DEF DropPutItem, WriteData, WriteFails
  <1>7. ASSUME NEW p \in Procs, Caller(p)
        PROVE  UsedBefore'
    BY <1>2, <1>3, <1>5, <1>6, <1>7
    DEF Caller, InitializeCreate, InitializeOpen, CallPut, CallPutData, CallPutItem,
        CallGet, CallDel, CallClear, CallPurge, Call, CloseItem, disk
  <1>8. ASSUME NEW p \in Procs, LockCache(p) \/ Step(p)
        PROVE  UsedBefore'
    BY <1>2, <1>3, <1>4, <1>5, <1>6, <1>8
    DEF LockCache, LockCacheFails, Step, Return, Body, OpenKey, OpenSource,
        CopyReadError, RemoveKey, ReadInfo, WriteInfo, Scan, ClearRemove, ClearDone,
        PurgeReadInfo, PurgeSkip, PurgeRemove, PurgeDone, Fails, InitializeWrite,
        InitializeFails, disk
  <1>9. CASE Tick
    BY <1>9 DEF Tick, UsedBefore, VarTypes
  <1>10. ASSUME NEW c \in Instances, Destroy(c) \/ Crash(c)
         PROVE  UsedBefore'
    BY <1>2, <1>3, <1>10 DEF Destroy, Crash, disk
  <1>11. QED
    BY <1>3, <1>7, <1>8, <1>9, <1>10 DEF Next, vars, disk

\* The listing of a purge has one entry for a file, no file of it is gone, or was
\* last used before the time in its entry; and the file that is locked has an
\* oldest entry.
PurgeListing(p) ==
    pc[p] \in {"purge", "purge_remove"} =>
        /\ \A d, e \in todo[p] : d.key = e.key => d = e
        /\ \A d \in todo[p] : dir[d.key] # None /\ d.atime <= file[dir[d.key]].atime
        /\ pc[p] = "purge_remove" =>
              \A d, e \in todo[p] : e.key = call[p].key => e.atime <= d.atime

PurgeListings == \A p \in Procs : PurgeListing(p)

LEMMA PurgeListingOwn ==
  ASSUME TypeOK, UsedBefore, NEW p \in Procs, PurgeListing(p), Body(p)
  PROVE  PurgeListing(p)'
  <1> USE DEF TypeOK
  <1>1. \A d \in todo[p] : d \in Entries /\ d.key \in Keys /\ d.atime \in Nat
    BY DEF VarTypes, Entries
  <1>2. CASE pc'[p] \notin {"purge", "purge_remove"}
    BY <1>2 DEF PurgeListing
  <1>3. CASE Scan(p)
    <2>1. todo'[p] = Listing /\ UNCHANGED <<dir, file>>
          /\ pc'[p] \in {"clear", "purge"}
      BY <1>3 DEF Scan, VarTypes, Goto, disk
    <2>2. \A d, e \in Listing : d.key = e.key => d = e
      BY DEF Listing
    <2>3. \A d \in Listing : dir[d.key] # None /\ d.atime = file[dir[d.key]].atime
                              /\ d.atime \in Nat
      BY DEF Listing, VarTypes
    <2>4. QED
      BY <2>1, <2>2, <2>3 DEF PurgeListing
  <1>4. CASE PurgeLock(p)
    <2>1. PICK f \in Oldest(p) : /\ Touch(dir[f.key])
                                 /\ call' = [call EXCEPT ![p].key = f.key]
      BY <1>4 DEF PurgeLock
    <2>2. pc[p] = "purge" /\ pc'[p] = "purge_remove" /\ UNCHANGED <<todo, dir, clock>>
      BY <1>4 DEF PurgeLock, VarTypes, Goto, work
    <2>3. call'[p].key = f.key /\ f \in todo[p] /\ \A d \in todo[p] : f.atime <= d.atime
      BY <2>1 DEF VarTypes, Calls, Oldest
    <2>4. \A i \in Inodes : file'[i].atime \in {file[i].atime, clock}
      BY <2>1 DEF Touch, VarTypes
    <2>5. \A i \in Inodes : file[i].atime <= file'[i].atime
      <3> TAKE i \in Inodes
      <3>1. file[i].atime \in Nat /\ clock \in Nat /\ file[i].atime <= clock
        BY DEF VarTypes, UsedBefore
      <3>2. QED
        BY <2>4, <3>1
    <2>6. ASSUME NEW d \in todo[p]
          PROVE  dir[d.key] # None /\ d.atime <= file'[dir[d.key]].atime
      <3>1. dir[d.key] \in Inodes /\ d.atime <= file[dir[d.key]].atime
        BY <1>1, <2>2 DEF PurgeListing, VarTypes
      <3>2. /\ file[dir[d.key]].atime \in Nat /\ file'[dir[d.key]].atime \in Nat
            /\ d.atime \in Nat
        BY <1>1, <2>4, <3>1 DEF VarTypes
      <3>3. file[dir[d.key]].atime <= file'[dir[d.key]].atime
        BY <2>5, <3>1
      <3>4. d.atime <= file'[dir[d.key]].atime
        BY <3>1, <3>2, <3>3
      <3>5. dir[d.key] # None
        BY <3>1, FileCacheAssumption
      <3>6. QED
        BY <3>4, <3>5
    <2>7. QED
      BY <2>2, <2>3, <2>6 DEF PurgeListing
  <1>5. CASE PurgeSkip(p)
    BY <1>5 DEF PurgeSkip, PurgeListing, VarTypes, disk
  <1>6. CASE PurgeRemove(p)
    <2>1. PICK f \in todo[p] :
              /\ f.key = call[p].key
              /\ todo' = [todo EXCEPT ![p] = @ \ {f}]
              /\ dir' = [dir EXCEPT ![f.key] = None] \/ UNCHANGED dir
      BY <1>6 DEF PurgeRemove
    <2>2. pc[p] = "purge_remove" /\ pc'[p] = "purge" /\ Reclaim
      BY <1>6 DEF PurgeRemove, VarTypes, Goto
    <2>3. todo'[p] = todo[p] \ {f}
      BY <2>1 DEF VarTypes
    <2>4. ASSUME NEW d \in todo'[p]
          PROVE  dir'[d.key] # None /\ d.atime <= file'[dir'[d.key]].atime
      <3>1. d \in todo[p] /\ d.key # f.key
        BY <2>2, <2>3 DEF PurgeListing
      <3>2. dir'[d.key] = dir[d.key] /\ dir[d.key] \in Inodes
        BY <1>1, <2>1, <2>2, <3>1 DEF VarTypes, PurgeListing
      <3>3. file'[dir'[d.key]] = file[dir[d.key]]
        BY <1>1, <2>2, <3>1, <3>2, ReclaimLinked
      <3>4. QED
        BY <2>2, <3>1, <3>2, <3>3, FileCacheAssumption DEF PurgeListing
    <2>5. QED
      BY <2>2, <2>3, <2>4 DEF PurgeListing
  <1>7. CASE pc'[p] \in {"purge", "purge_remove"}
              /\ ~(Scan(p) \/ PurgeLock(p) \/ PurgeSkip(p) \/ PurgeRemove(p))
    BY <1>7
    DEF Body, CreateKey, OpenKey, LockItem, OpenSource, CopyChunk, CopyDone,
        CopyReadError, WriteData, WriteFails, Writing, RemoveKey, ReadInfo, WriteInfo,
        ClearRemove, ClearDone, PurgeReadInfo, PurgeDone, Fails, Exit, Goto, VarTypes
  <1>8. QED
    BY <1>2, <1>3, <1>4, <1>5, <1>6, <1>7

\* A step of a method that reaches a purge's loop over its listing was taken in
\* that loop, or is the step that makes the listing.
LEMMA PurgeListingsPreserved ==
  ASSUME TypeOK, InsideLocked, OneThreadPerInstance, UsedBefore, PurgeListings,
         [Next]_vars
  PROVE  PurgeListings'
  <1> USE DEF TypeOK
  <1> SUFFICES ASSUME NEW q \in Procs
               PROVE  PurgeListing(q)'
    BY DEF PurgeListings
  <1>1. PurgeListing(q)
    BY DEF PurgeListings
  <1>2. CASE pc'[q] \notin {"purge", "purge_remove"}
    BY <1>2 DEF PurgeListing
  <1>3. CASE pc'[q] \in {"purge", "purge_remove"} /\ Inside(q)
    <2>1. CASE Body(q)
      BY <1>1, <2>1, PurgeListingOwn
    <2>2. ~Return(q)
      BY <1>3 DEF Return, Goto, AfterCall, VarTypes
    <2>3. CASE Quiet(q)
      <3>1. \A d \in todo[q] : d.key \in Keys
        BY DEF VarTypes, Entries
      <3>2. \A d \in todo[q] : dir[d.key] # None =>
                dir[d.key] \in Inodes /\ file'[dir[d.key]].atime = file[dir[d.key]].atime
        BY <2>3, <3>1 DEF Quiet, VarTypes
      <3>3. QED
        BY <1>1, <2>3, <3>2 DEF Quiet, PurgeListing
    <2>4. QED
      BY <1>3, <2>1, <2>2, <2>3, QuietOrOwn
  <1>4. CASE pc'[q] \in {"purge", "purge_remove"} /\ ~Inside(q)
    <2>1. pc'[q] = pc[q]
      <3>1. ASSUME NEW p \in Procs, Caller(p) \/ Body(p) \/ InitializeWrite(p)
                                      \/ InitializeFails(p)
            PROVE  pc'[q] = pc[q]
        BY <1>4, <3>1, CallerFrame, BodyFrame, InitializeFrame DEF Inside
      <3>2. ASSUME NEW p \in Procs, LockCache(p) \/ LockCacheFails(p) \/ Return(p)
            PROVE  pc'[q] = pc[q]
        BY <1>4, <3>2
        DEF LockCache, LockCacheFails, Return, Goto, Entry, AfterCall, VarTypes
      <3>3. ASSUME NEW c \in Instances, Crash(c)
            PROVE  pc'[q] = pc[q]
        BY <1>4, <3>3 DEF Crash
      <3>4. QED
        BY <3>1, <3>2, <3>3 DEF Next, Step, Tick, Destroy, vars
    <2>2. QED
      BY <1>4, <2>1 DEF Inside
  <1>5. QED
    BY <1>2, <1>3, <1>4

\* While a purge works through its listing the others may use files, which makes
\* them more recent than the listing says, but not older: what purge() removes is
\* a file no older one of which it has still to try.
THEOREM PurgeRemovesOldestFirst ==
  OneThreadPerInstance => (Spec => LeastRecentlyUsedFirst)
  <1> SUFFICES ASSUME OneThreadPerInstance
               PROVE  Spec => LeastRecentlyUsedFirst
    OBVIOUS
  <1> DEFINE IInv == InsideLocked /\ UsedBefore /\ PurgeListings
             Oldest1st == \A p \in Procs, k \in Keys :
                PurgeRemove(p) /\ dir[k] # None /\ dir'[k] = None =>
                  \A j \in Linked \ {k} : \A e \in todo[p] :
                    e.key = k /\ file[dir[j]].atime < e.atime =>
                        \A d \in todo[p] : d.key # j
  <1>1. Init => IInv
    BY DEF Init, InsideLocked, Inside, UsedBefore, PurgeListings, PurgeListing, Blank
  <1>2. TypeOK /\ IInv /\ [Next]_vars => IInv'
    BY InsideLockedPreserved, UsedBeforePreserved, PurgeListingsPreserved
  <1>3. TypeOK /\ IInv => Oldest1st
    <2> SUFFICES ASSUME TypeOK, PurgeListings, NEW p \in Procs, NEW k \in Keys,
                        PurgeRemove(p), dir[k] # None, dir'[k] = None,
                        NEW j \in Linked \ {k}, NEW e \in todo[p], e.key = k,
                        file[dir[j]].atime < e.atime,
                        NEW d \in todo[p], d.key = j
                 PROVE  FALSE
      OBVIOUS
    <2> USE DEF TypeOK
    <2>1. PurgeListing(p) /\ pc[p] = "purge_remove"
      BY DEF PurgeListings, PurgeRemove
    <2>2. k = call[p].key
      BY DEF PurgeRemove, VarTypes
    <2>3. e.atime <= d.atime /\ d.atime <= file[dir[j]].atime
      BY <2>1, <2>2 DEF PurgeListing
    <2>4. e.atime \in Nat /\ d.atime \in Nat /\ file[dir[j]].atime \in Nat
      BY DEF VarTypes, Entries, Linked
    <2>5. QED
      BY <2>3, <2>4
  <1>4. QED
    BY <1>1, <1>2, <1>3, TypeCorrect, PTL DEF Spec, LeastRecentlyUsedFirst

-----------------------------------------------------------------------------
(* What a thread of control has open.                                      *)

\* A call opens a file at one place of it and closes it when it returns; an Item
\* is open from the call that fills it in to its destructor.
OpenAt(p) ==
    \/ /\ call[p].op \in {"put", "put_data"}
       /\ pc[p] \in {"lock_item", "open_source", "write", "read_info", "write_info",
                     "return"}
    \/ /\ call[p].op = "del"
       /\ pc[p] \in {"lock_item", "remove", "read_info", "write_info", "return"}
    \/ call[p].op = "purge" /\ pc[p] = "purge_remove"

HoldsOK(p) ==
    /\ pc[p] \in {"idle", "init_write", "close_item"} => call[p].op = "none"
    /\ pc[p] = "close_item" \/ call[p].op \in {"put_item", "drop"} => item[p] = "put"
    /\ call[p].op = "get" => item[p] = "get"
    /\ item[p] = "none" => ofd[ItemFd(p)] = Closed
    /\ call[p].op \in {"put_item", "get"} /\ pc[p] \in {"lock", "create", "open"} =>
          ofd[ItemFd(p)] = Closed
    /\ ofd[OpFd(p)] # Closed => OpenAt(p)

Holdings == \A p \in Procs : HoldsOK(p)

\* Nobody touches what belongs to the call of another.
Apart(q) ==
    /\ pc'[q] = pc[q] /\ call'[q] = call[q] /\ item'[q] = item[q]
    /\ ofd'[OpFd(q)] = ofd[OpFd(q)] /\ ofd'[ItemFd(q)] = ofd[ItemFd(q)]
    /\ ci'[q] = ci[q] /\ todo'[q] = todo[q] /\ removed'[q] = removed[q]

LEMMA OthersApart ==
  ASSUME TypeOK, NEW p \in Procs, NEW q \in Procs, q # p,
         Caller(p) \/ LockCache(p) \/ Step(p)
  PROVE  Apart(q)
  <1> USE DEF TypeOK
  <1>1. /\ OpFd(q) \in Ofds /\ ItemFd(q) \in Ofds
        /\ {OpFd(q), ItemFd(q)} \cap {OpFd(p), ItemFd(p), Handle(p)} = {}
    BY DEF OpFd, ItemFd, Ofds, Handle
  <1>2. CASE Caller(p)
    <2>1. ASSUME NEW op, NEW k, NEW n, NEW w, Call(p, op, k, n, w)
          PROVE  /\ pc'[q] = pc[q] /\ call'[q] = call[q]
                 /\ UNCHANGED <<work, ofd>>
      BY <2>1 DEF Call, VarTypes, Goto, locks
    <2>2. CASE \/ CallPut(p) \/ CallPutData(p) \/ CallDel(p) \/ CallClear(p)
               \/ CallPurge(p)
      BY <2>1, <2>2
      DEF Apart, CallPut, CallPutData, CallDel, CallClear, CallPurge, work
    <2>3. CASE CallPutItem(p) \/ CallGet(p)
      BY <2>1, <2>3 DEF Apart, VarTypes, CallPutItem, CallGet, work
    <2>4. CASE InitializeCreate(p) \/ InitializeOpen(p) \/ UserWrite(p)
      BY <2>4 DEF Apart, VarTypes, InitializeCreate, InitializeOpen, UserWrite,
                  Goto, work, locks
    <2>5. CASE DropPutItem(p) \/ CloseItem(p)
      BY <1>1, <2>5 DEF Apart, VarTypes, DropPutItem, CloseItem, Goto, work, locks
    <2>6. QED
      BY <1>2, <2>2, <2>3, <2>4, <2>5 DEF Caller
  <1>3. CASE LockCache(p) \/ LockCacheFails(p) \/ Return(p) \/ InitializeWrite(p)
               \/ InitializeFails(p)
    <2>1. CASE Return(p)
      BY <1>1, <2>1 DEF Apart, VarTypes, Return, Goto
    <2>2. CASE \/ LockCache(p) \/ LockCacheFails(p) \/ InitializeWrite(p)
               \/ InitializeFails(p)
      BY <2>2 DEF Apart, VarTypes, LockCache, LockCacheFails, InitializeWrite,
                  InitializeFails, Goto, work
    <2>3. QED
      BY <1>3, <2>1, <2>2
  <1>4. CASE CreateKey(p) \/ OpenKey(p) \/ LockItem(p)
    <2>1. CASE CreateKey(p) \/ OpenKey(p)
      BY <1>1, <2>1 DEF Apart, VarTypes, CreateKey, OpenKey, Goto, work
    <2>2. CASE LockItem(p)
      <3>1. call'[q] = call[q] /\ pc'[q] = pc[q]
        BY <2>2 DEF VarTypes, LockItem, Exit, Goto
      <3>2. QED
        BY <1>1, <2>2, <3>1 DEF Apart, VarTypes, LockItem, work
    <2>3. QED
      BY <1>4, <2>1, <2>2
  <1>5. CASE PurgeLock(p)
    BY <1>1, <1>5 DEF Apart, VarTypes, PurgeLock, Goto, work, locks
  <1>6. CASE PurgeRemove(p)
    BY <1>1, <1>6 DEF Apart, VarTypes, PurgeRemove, Goto, work, locks
  <1>7. CASE ~(CreateKey(p) \/ OpenKey(p) \/ LockItem(p) \/ PurgeLock(p)
                 \/ PurgeRemove(p)) /\ Body(p)
    BY <1>1, <1>7
    DEF Apart, VarTypes, Body, OpenSource, CopyChunk, CopyDone, CopyReadError,
        WriteData, WriteFails, RemoveKey, ReadInfo, WriteInfo, Scan, ClearRemove,
        ClearDone, PurgeReadInfo, PurgeSkip, PurgeDone, Fails, Exit, Goto, work, locks
  <1>8. QED
    BY <1>2, <1>3, <1>4, <1>5, <1>6, <1>7 DEF Step

\* A step of p leaves what p has open in its place.
LEMMA HoldingsStep ==
  ASSUME TypeOK, NEW p \in Procs, HoldsOK(p), Caller(p) \/ LockCache(p) \/ Step(p)
  PROVE  HoldsOK(p)'
  <1> USE DEF TypeOK
  <1>1. OpFd(p) \in Ofds /\ ItemFd(p) \in Ofds /\ OpFd(p) # ItemFd(p)
    BY OfdType
  <1>2. CASE InitializeCreate(p) \/ InitializeOpen(p) \/ InitializeWrite(p)
               \/ InitializeFails(p) \/ UserWrite(p)
    BY <1>2
    DEF HoldsOK, OpenAt, VarTypes, InitializeCreate, InitializeOpen, CanInitialize,
        InitializeWrite, InitializeFails, UserWrite, Goto, locks
  <1>3. ASSUME NEW op \in Operations, NEW k, NEW n, NEW w, Call(p, op, k, n, w),
               \/ op = "put_item" /\ item[p] = "none" /\ item' = [item EXCEPT ![p] = "put"]
               \/ op = "get" /\ item[p] = "none" /\ item' = [item EXCEPT ![p] = "get"]
               \/ op \notin {"put_item", "get"} /\ UNCHANGED item
        PROVE  HoldsOK(p)'
    <2>1. pc[p] = "idle" /\ pc'[p] = "lock" /\ call'[p].op = op /\ UNCHANGED ofd
          /\ op # "drop"
      BY <1>3 DEF Call, VarTypes, Goto, locks, Operations
    <2>2. ofd[OpFd(p)] = Closed
      BY <2>1 DEF HoldsOK, OpenAt
    <2>3. item'[p] = IF op = "put_item" THEN "put" ELSE IF op = "get" THEN "get" ELSE item[p]
      BY <1>3 DEF VarTypes
    <2>4. op \in {"put_item", "get"} => ofd[ItemFd(p)] = Closed
      BY <1>3 DEF HoldsOK
    <2>5. QED
      BY <2>1, <2>2, <2>3, <2>4 DEF HoldsOK, OpenAt
  <1>4. CASE CallPut(p) \/ CallPutData(p) \/ CallDel(p) \/ CallClear(p) \/ CallPurge(p)
    BY <1>3, <1>4
    DEF CallPut, CallPutData, CallDel, CallClear, CallPurge, Operations
  <1>5. CASE CallPutItem(p) \/ CallGet(p)
    BY <1>3, <1>5 DEF CallPutItem, CallGet, Operations
  <1>6. CASE DropPutItem(p)
    <2>1. /\ pc[p] = "idle" /\ item[p] = "put" /\ pc'[p] = "lock"
          /\ call'[p].op = "drop" /\ UNCHANGED <<ofd, item>>
      BY <1>6 DEF DropPutItem, VarTypes, Goto, NoCall, locks
    <2>2. QED
      BY <2>1 DEF HoldsOK, OpenAt
  <1>7. CASE CloseItem(p)
    BY <1>1, <1>7 DEF CloseItem, HoldsOK, OpenAt, VarTypes, Goto
  <1>8. CASE LockCache(p)
    BY <1>8 DEF LockCache, HoldsOK, OpenAt, VarTypes, Goto, Entry
  <1>9. CASE LockCacheFails(p)
    BY <1>9 DEF LockCacheFails, HoldsOK, OpenAt, VarTypes, Goto, AfterCall, NoCall
  <1>10. CASE Return(p)
    BY <1>1, <1>10 DEF Return, HoldsOK, OpenAt, VarTypes, Goto, AfterCall, NoCall
  <1>11. CASE CreateKey(p)
    <2>1. PICK i \in Inodes :
              ofd' = [ofd EXCEPT ![Handle(p)] = [ino |-> i, lk |-> "un"]]
      BY <1>11 DEF CreateKey
    <2>2. pc[p] = "create" /\ pc'[p] = "lock_item" /\ UNCHANGED <<call, item>>
      BY <1>11 DEF CreateKey, Goto, VarTypes
    <2>3. call[p].op \in Puts /\ ofd[OpFd(p)] = Closed
      BY <2>2 DEF StageOK, HoldsOK, OpenAt
    <2>4. QED
      BY <1>1, <2>1, <2>2, <2>3 DEF HoldsOK, OpenAt, Handle, Puts, VarTypes
  <1>12. CASE OpenKey(p)
    <2>1. ofd' = [ofd EXCEPT ![Handle(p)] = [ino |-> dir[call[p].key], lk |-> "un"]]
      BY <1>12 DEF OpenKey
    <2>2. pc[p] = "open" /\ pc'[p] = "lock_item" /\ UNCHANGED <<call, item>>
      BY <1>12 DEF OpenKey, Goto, VarTypes
    <2>3. call[p].op \in {"get", "del"} /\ ofd[OpFd(p)] = Closed
      BY <2>2 DEF StageOK, HoldsOK, OpenAt
    <2>4. QED
      BY <1>1, <2>1, <2>2, <2>3 DEF HoldsOK, OpenAt, Handle, VarTypes
  <1>13. CASE LockItem(p)
    <2>1. pc[p] = "lock_item" /\ UNCHANGED item /\ call'[p].op = call[p].op
          /\ call[p].op \in KeyOps
      BY <1>13 DEF LockItem, Exit, VarTypes, Calls, StageOK
    <2>2. pc'[p] = CASE call[p].op \in {"get", "put_item"} -> "return"
                     [] call[p].op = "put" -> "open_source"
                     [] call[p].op = "put_data" -> "write"
                     [] OTHER -> "remove"
      BY <1>13 DEF LockItem, Exit, Goto, VarTypes
    <2>3. \A o \in Ofds : o # Handle(p) => ofd'[o] = ofd[o]
      BY <1>13 DEF LockItem, VarTypes
    <2>4. QED
      BY <1>1, <2>1, <2>2, <2>3 DEF HoldsOK, OpenAt, Handle, KeyOps, Puts
  <1>14. CASE PurgeLock(p)
    <2>1. PICK e : call' = [call EXCEPT ![p].key = e] /\ ofd' = [ofd EXCEPT
              ![OpFd(p)] = [ino |-> dir[e], lk |-> "ex"]]
      BY <1>14 DEF PurgeLock
    <2>2. pc'[p] = "purge_remove" /\ call[p].op = "purge" /\ UNCHANGED item
      BY <1>14 DEF PurgeLock, Goto, VarTypes, StageOK
    <2>3. call'[p].op = call[p].op /\ ofd'[ItemFd(p)] = ofd[ItemFd(p)]
      BY <1>1, <2>1 DEF VarTypes, Calls
    <2>4. pc[p] = "purge"
      BY <1>14 DEF PurgeLock
    <2>5. QED
      BY <2>2, <2>3, <2>4 DEF HoldsOK, OpenAt
  <1>15. CASE PurgeRemove(p)
    <2>1. /\ pc'[p] = "purge" /\ call[p].op = "purge" /\ pc[p] = "purge_remove"
          /\ UNCHANGED item /\ call'[p].op = call[p].op
      BY <1>15 DEF PurgeRemove, Goto, VarTypes, StageOK, Calls
    <2>2. ofd'[ItemFd(p)] = ofd[ItemFd(p)] /\ ofd'[OpFd(p)] = Closed
      BY <1>1, <1>15 DEF PurgeRemove, VarTypes
    <2>3. QED
      BY <2>1, <2>2 DEF HoldsOK, OpenAt
  <1>16. CASE OpenSource(p) \/ CopyChunk(p) \/ CopyDone(p) \/ CopyReadError(p)
                \/ WriteData(p) \/ RemoveKey(p) \/ ReadInfo(p) \/ Scan(p)
                \/ ClearRemove(p) \/ PurgeSkip(p) \/ PurgeDone(p)
    BY <1>16
    DEF OpenSource, CopyChunk, CopyDone, CopyReadError, WriteData, Writing, RemoveKey,
        ReadInfo, Scan, ClearRemove, PurgeSkip, PurgeDone, HoldsOK, OpenAt, VarTypes,
        StageOK, Goto, locks
  <1>17. ASSUME NEW ok \in BOOLEAN, Exit(p, ok), UNCHANGED <<item, ofd>>,
                pc[p] \notin {"idle", "init_write", "close_item", "purge_remove"}
         PROVE  HoldsOK(p)'
    <2>1. pc'[p] = "return" /\ call'[p].op = call[p].op
      BY <1>17 DEF Exit, Goto, VarTypes, Calls
    <2>2. QED
      BY <1>17, <2>1 DEF HoldsOK, OpenAt
  <1>18. CASE WriteFails(p) \/ WriteInfo(p) \/ ClearDone(p) \/ Fails(p)
    BY <1>17, <1>18 DEF WriteFails, WriteInfo, ClearDone, Fails, CanFail, locks
  <1>19. CASE PurgeReadInfo(p)
    <2>1. CASE Exit(p, TRUE)
      BY <1>17, <1>19, <2>1 DEF PurgeReadInfo, locks
    <2>2. CASE Goto(p, "scan") /\ UNCHANGED call
      BY <1>19, <2>2 DEF PurgeReadInfo, HoldsOK, OpenAt, VarTypes, Goto, locks
    <2>3. QED
      BY <1>19, <2>1, <2>2 DEF PurgeReadInfo
  <1>20. QED
    BY <1>2, <1>4, <1>5, <1>6, <1>7, <1>8, <1>9, <1>10, <1>11, <1>12, <1>13, <1>14,
       <1>15, <1>16, <1>18, <1>19 DEF Caller, Step, Body

LEMMA HoldingsPreserved ==
  ASSUME TypeOK, Holdings, [Next]_vars
  PROVE  Holdings'
  <1> USE DEF TypeOK
  <1>1. \A q \in Procs : HoldsOK(q)
    BY DEF Holdings
  <1>2. SUFFICES ASSUME NEW q \in Procs
                 PROVE  HoldsOK(q)'
    BY DEF Holdings
  <1>3. Apart(q) => HoldsOK(q)'
    BY <1>1 DEF Apart, HoldsOK, OpenAt
  <1>4. ASSUME NEW p \in Procs, Caller(p) \/ LockCache(p) \/ Step(p)
        PROVE  HoldsOK(q)'
    BY <1>1, <1>3, <1>4, HoldingsStep, OthersApart
  <1>5. CASE UNCHANGED vars \/ Tick \/ \E c \in Instances : Destroy(c)
    BY <1>3, <1>5 DEF Apart, vars, Tick, Destroy, work, locks
  <1>6. ASSUME NEW c \in Instances, Crash(c)
        PROVE  HoldsOK(q)'
    <2>1. OpFd(q) \in Ofds /\ ItemFd(q) \in Ofds /\ OpFd(q)[1] = q /\ ItemFd(q)[1] = q
      BY DEF OpFd, ItemFd, Ofds
    <2>2. CASE InstanceOf[q] = c
      BY <1>6, <2>1, <2>2 DEF Crash, HoldsOK, OpenAt, NoCall
    <2>3. CASE InstanceOf[q] # c
      BY <1>3, <1>6, <2>1, <2>3 DEF Crash, Apart
    <2>4. QED
      BY <2>2, <2>3
  <1>7. QED
    BY <1>4, <1>5, <1>6 DEF Next

-----------------------------------------------------------------------------
(* What is in the files.                                                   *)

\* No file has two names.
OneName == \A k, l \in Keys : dir[k] # None /\ dir[k] = dir[l] => k = l

\* An inode that nobody uses is as new.
UnusedBlank == \A i \in Inodes : ~InUse(i, dir, ofd) => file[i] = Blank

\* Writing through the descriptor of p's call, until put()'s copy is done, or
\* through p's PutItem, until its destructor begins.
CallWrites(p) == /\ ofd[OpFd(p)].ino # None
                 /\ call[p].op \in {"put", "put_data"}
                 /\ pc[p] \in {"lock_item", "open_source", "write"}
ItemWrites(p) == /\ ofd[ItemFd(p)].ino # None
                 /\ item[p] = "put"
                 /\ call[p].op # "drop" /\ pc[p] # "close_item"

Writer(o) == \E p \in Procs : \/ o = OpFd(p) /\ CallWrites(p)
                              \/ o = ItemFd(p) /\ ItemWrites(p)

\* A file has one writer, and is not full as long as it has.
WritersAlone   == \A o, q \in Ofds : Writer(o) /\ Writer(q) /\ ofd[o].ino = ofd[q].ino => o = q
WritersNotFull == \A o \in Ofds : Writer(o) => ~file[ofd[o].ino].full

Contents == OneName /\ UnusedBlank /\ WritersAlone /\ WritersNotFull

LEMMA OneNamePreserved ==
  ASSUME TypeOK, OneName, [Next]_vars
  PROVE  OneName'
  <1> USE DEF TypeOK
  <1>1. ASSUME NEW p \in Procs, CreateKey(p)
        PROVE  OneName'
    <2>1. PICK i \in Inodes : ~InUse(i, dir, ofd) /\ dir' = [dir EXCEPT ![call[p].key] = i]
      BY <1>1 DEF CreateKey
    <2>2. QED
      BY <2>1 DEF OneName, InUse, VarTypes
  <1>2. ASSUME NEW k, dir' = [dir EXCEPT ![k] = None]
        PROVE  OneName'
    BY <1>2 DEF OneName, VarTypes
  <1>3. ASSUME NEW p \in Procs, RemoveKey(p) \/ ClearRemove(p) \/ PurgeRemove(p)
        PROVE  OneName'
    BY <1>2, <1>3 DEF RemoveKey, ClearRemove, PurgeRemove, OneName
  <1>4. CASE UNCHANGED dir
    BY <1>4 DEF OneName
  <1>5. QED
    BY <1>1, <1>3, <1>4, NamesKept

LEMMA UnusedBlankPreserved ==
  ASSUME TypeOK, HandleOpen, Holdings, UnusedBlank, [Next]_vars
  PROVE  UnusedBlank'
  <1> USE DEF TypeOK
  <1>1. CASE Reclaim
    BY <1>1 DEF Reclaim, UnusedBlank
  \* A step that keeps every name and descriptor changes files only through
  \* descriptors.
  <1>2. ASSUME UNCHANGED dir, \A o \in Ofds : ofd'[o].ino = ofd[o].ino,
               \A i \in Inodes : file'[i] # file[i] => InUse(i, dir, ofd)
        PROVE  UnusedBlank'
    BY <1>2 DEF UnusedBlank, InUse
  <1>3. ASSUME NEW j, \A i \in Inodes : i # j => file'[i] = file[i], UNCHANGED <<dir, ofd>>,
               NEW o \in Ofds, ofd[o].ino = j
        PROVE  UnusedBlank'
    BY <1>2, <1>3 DEF InUse
  <1>4. ASSUME UNCHANGED <<dir, file>>, \A o \in Ofds : ofd'[o].ino = ofd[o].ino
        PROVE  UnusedBlank'
    BY <1>2, <1>4
  <1>5. ASSUME NEW p \in Procs, CreateKey(p)
        PROVE  UnusedBlank'
    <2>1. PICK j \in Inodes :
              /\ dir' = [dir EXCEPT ![call[p].key] = j]
              /\ ofd' = [ofd EXCEPT ![Handle(p)] = [ino |-> j, lk |-> "un"]]
              /\ file' = [file EXCEPT ![j].atime = clock]
      BY <1>5 DEF CreateKey
    <2>2. pc[p] = "create" /\ dir[call[p].key] = None /\ call[p].key \in Keys
          /\ call[p].op \in Puts
      BY <1>5 DEF CreateKey, StageOK, KeyOps
    <2>3. ofd[Handle(p)] = Closed
      BY <2>2 DEF Holdings, HoldsOK, OpenAt, Handle, Puts
    <2>4. dir'[call[p].key] = j
      BY <2>1, <2>2 DEF VarTypes
    <2>5. \A i \in Inodes : i # j => file'[i] = file[i]
      BY <2>1 DEF VarTypes
    <2>6. ASSUME NEW i \in Inodes, ~InUse(i, dir', ofd')
          PROVE  i # j /\ ~InUse(i, dir, ofd)
      <3>1. i # j
        BY <2>2, <2>4, <2>6 DEF InUse
      <3>2. \A k \in Keys : dir[k] = i => dir'[k] = i
        BY <2>1, <2>2, FileCacheAssumption DEF VarTypes
      <3>3. \A o \in Ofds : ofd[o].ino = i => ofd'[o].ino = i
        BY <2>1, <2>3, FileCacheAssumption DEF VarTypes, Closed
      <3>4. QED
        BY <2>6, <3>1, <3>2, <3>3 DEF InUse
    <2>7. QED
      BY <2>5, <2>6 DEF UnusedBlank
  <1>6. ASSUME NEW p \in Procs, OpenKey(p)
        PROVE  UnusedBlank'
    <2>1. pc[p] = "open" /\ call[p].op \in {"get", "del"} /\ UNCHANGED <<dir, file>>
          /\ ofd' = [ofd EXCEPT ![Handle(p)] = [ino |-> dir[call[p].key], lk |-> "un"]]
      BY <1>6 DEF OpenKey, StageOK, disk
    <2>2. ofd[Handle(p)] = Closed
      BY <2>1 DEF Holdings, HoldsOK, OpenAt, Handle
    <2>3. \A i \in Inodes, o \in Ofds : ofd[o].ino = i => ofd'[o].ino = i
      BY <2>1, <2>2, FileCacheAssumption DEF VarTypes, Closed
    <2>4. QED
      BY <2>1, <2>3 DEF UnusedBlank, InUse
  <1>7. ASSUME NEW p \in Procs, PurgeLock(p)
        PROVE  UnusedBlank'
    <2>1. PICK e \in todo[p] :
              /\ ofd' = [ofd EXCEPT ![OpFd(p)] = [ino |-> dir[e.key], lk |-> "ex"]]
              /\ file' = [file EXCEPT ![dir[e.key]].atime = clock]
      BY <1>7 DEF PurgeLock, Oldest, Touch
    <2>2. pc[p] = "purge" /\ UNCHANGED dir /\ e.key \in Keys
      BY <1>7 DEF PurgeLock, VarTypes, Entries
    <2>3. ofd[OpFd(p)] = Closed
      BY <2>2 DEF Holdings, HoldsOK, OpenAt
    <2>4. \A i \in Inodes, o \in Ofds : ofd[o].ino = i => ofd'[o].ino = i
      BY <2>1, <2>3, FileCacheAssumption DEF VarTypes, Closed
    <2>5. \A i \in Inodes : i # dir[e.key] => file'[i] = file[i]
      BY <2>1 DEF VarTypes
    <2>6. QED
      BY <2>2, <2>4, <2>5 DEF UnusedBlank, InUse
  <1>8. ASSUME NEW p \in Procs, LockItem(p)
        PROVE  UnusedBlank'
    <2>1. \A o \in Ofds : ofd'[o].ino = ofd[o].ino
      BY <1>8 DEF LockItem, VarTypes
    <2>2. \A i \in Inodes : i # ofd[Handle(p)].ino => file'[i] = file[i]
      BY <1>8 DEF LockItem, Touch, VarTypes
    <2>3. UNCHANGED dir
      BY <1>8 DEF LockItem
    <2>4. QED
      BY <1>2, <2>1, <2>2, <2>3, HandleType DEF InUse
  <1>9. ASSUME NEW p \in Procs, RemoveKey(p)
        PROVE  UnusedBlank'
    <2>1. call[p].op = "del" /\ ofd[OpFd(p)].ino = dir[call[p].key]
      BY <1>9 DEF RemoveKey, StageOK, HandleOpen, HandleOpenAt
    <2>2. UNCHANGED <<file, ofd>> /\ dir' = [dir EXCEPT ![call[p].key] = None]
      BY <1>9 DEF RemoveKey, locks
    <2>3. \A k \in Keys : dir'[k] = dir[k] \/ k = call[p].key
      BY <2>2 DEF VarTypes
    <2>4. \A i \in Inodes : InUse(i, dir, ofd) => InUse(i, dir', ofd)
      BY <2>1, <2>3, OfdType DEF InUse
    <2>5. QED
      BY <2>2, <2>4 DEF UnusedBlank
  <1>10. ASSUME NEW p \in Procs, CopyChunk(p) \/ CopyDone(p) \/ WriteData(p) \/ WriteFails(p)
         PROVE  UnusedBlank'
    <2>1. PICK v : file' = [file EXCEPT ![ofd[OpFd(p)].ino] = v]
      <3>1. ASSUME WriteFails(p)
            PROVE  \E v : file' = [file EXCEPT ![ofd[OpFd(p)].ino] = v]
        BY <3>1 DEF WriteFails
      <3>2. QED
        BY <1>10, <3>1 DEF CopyChunk, CopyDone, WriteData
    <2>2. \A i \in Inodes : i # ofd[OpFd(p)].ino => file'[i] = file[i]
      BY <2>1 DEF VarTypes
    <2>3. UNCHANGED <<dir, ofd>>
      BY <1>10 DEF CopyChunk, CopyDone, WriteData, WriteFails, locks
    <2>4. QED
      BY <1>3, <2>2, <2>3, OfdType
  <1>11. ASSUME NEW p \in Procs, UserWrite(p) \/ DropPutItem(p)
         PROVE  UnusedBlank'
    <2>1. \A i \in Inodes : i # ofd[ItemFd(p)].ino => file'[i] = file[i]
      BY <1>11 DEF UserWrite, DropPutItem, VarTypes
    <2>2. UNCHANGED <<dir, ofd>>
      BY <1>11 DEF UserWrite, DropPutItem, locks
    <2>3. QED
      BY <1>3, <2>1, <2>2, OfdType
  <1>12. ASSUME NEW p \in Procs, Caller(p)
         PROVE  UnusedBlank'
    BY <1>1, <1>4, <1>11, <1>12
    DEF Caller, InitializeCreate, InitializeOpen, CallPut, CallPutData, CallPutItem,
        CallGet, CallDel, CallClear, CallPurge, Call, CloseItem, locks, disk
  <1>13. ASSUME NEW p \in Procs, LockCache(p) \/ Step(p)
         PROVE  UnusedBlank'
    BY <1>1, <1>4, <1>5, <1>6, <1>7, <1>8, <1>9, <1>10, <1>13
    DEF LockCache, LockCacheFails, Step, Return, Body, OpenSource, CopyReadError,
        ReadInfo, WriteInfo, Scan, ClearRemove, ClearDone, PurgeReadInfo, PurgeSkip,
        PurgeRemove, PurgeDone, Fails, InitializeWrite, InitializeFails, locks, disk
  <1>14. QED
    BY <1>1, <1>4, <1>12, <1>13 DEF Next, Tick, Destroy, Crash, vars, locks, disk

LEMMA WriterCases ==
  ASSUME NEW p \in Procs
  PROVE  /\ Writer(OpFd(p)) <=> CallWrites(p)
         /\ Writer(ItemFd(p)) <=> ItemWrites(p)
  <1>1. \A q \in Procs : /\ OpFd(p) # ItemFd(q) /\ ItemFd(p) # OpFd(q)
                         /\ OpFd(p) = OpFd(q) => p = q
                         /\ ItemFd(p) = ItemFd(q) => p = q
    BY DEF OpFd, ItemFd
  <1>2. QED
    BY <1>1 DEF Writer, CallWrites, ItemWrites

LEMMA OfdCases == \A o \in Ofds : \E p \in Procs : o = OpFd(p) \/ o = ItemFd(p)
  BY DEF Ofds, OpFd, ItemFd

\* Only create_key() makes a writer, of a file that is new.
LEMMA WriterStep ==
  ASSUME TypeOK, NEW p \in Procs, HoldsOK(p), HoldsOK(p)',
         Caller(p) \/ LockCache(p) \/ Step(p), ~CreateKey(p)
  PROVE  /\ CallWrites(p)' => CallWrites(p) /\ ofd'[OpFd(p)].ino = ofd[OpFd(p)].ino
         /\ ItemWrites(p)' => ItemWrites(p) /\ ofd'[ItemFd(p)].ino = ofd[ItemFd(p)].ino
  <1> USE DEF TypeOK
  <1>1. OpFd(p) \in Ofds /\ ItemFd(p) \in Ofds /\ OpFd(p) # ItemFd(p)
    BY OfdType
  <1>2. CASE InitializeCreate(p) \/ InitializeOpen(p) \/ InitializeWrite(p)
               \/ InitializeFails(p) \/ UserWrite(p)
    BY <1>2
    DEF CallWrites, ItemWrites, HoldsOK, VarTypes, InitializeCreate, InitializeOpen,
        CanInitialize, InitializeWrite, InitializeFails, UserWrite, Goto, locks
  <1>3. ASSUME NEW op, NEW k, NEW n, NEW w, Call(p, op, k, n, w),
               item'[p] = item[p] \/ item[p] = "none"
        PROVE  ~CallWrites(p)' /\ (ItemWrites(p)' => ItemWrites(p)) /\ UNCHANGED ofd
    <2>1. pc[p] = "idle" /\ pc'[p] = "lock" /\ UNCHANGED ofd
      BY <1>3 DEF Call, VarTypes, Goto, locks
    <2>2. QED
      BY <1>3, <2>1 DEF CallWrites, ItemWrites, HoldsOK, Closed
  <1>4. CASE CallPut(p) \/ CallPutData(p) \/ CallDel(p) \/ CallClear(p) \/ CallPurge(p)
    <2>1. UNCHANGED item
      BY <1>4 DEF CallPut, CallPutData, CallDel, CallClear, CallPurge
    <2>2. \E op, k, n, w : Call(p, op, k, n, w)
      BY <1>4 DEF CallPut, CallPutData, CallDel, CallClear, CallPurge
    <2>3. QED
      BY <1>3, <2>1, <2>2
  <1>5. CASE CallPutItem(p) \/ CallGet(p)
    BY <1>3, <1>5 DEF CallPutItem, CallGet
  <1>6. CASE DropPutItem(p)
    BY <1>6 DEF DropPutItem, CallWrites, ItemWrites, VarTypes, Goto, NoCall, locks
  <1>7. CASE CloseItem(p)
    BY <1>1, <1>7 DEF CloseItem, CallWrites, ItemWrites, VarTypes, Goto
  <1>8. CASE LockCache(p) \/ LockCacheFails(p)
    BY <1>8
    DEF LockCache, LockCacheFails, CallWrites, ItemWrites, VarTypes, Goto, AfterCall,
        Entry, NoCall
  <1>9. CASE Return(p)
    BY <1>1, <1>9
    DEF Return, CallWrites, ItemWrites, VarTypes, Goto, AfterCall, NoCall
  <1>10. CASE OpenKey(p)
    <2>1. call[p].op \in {"get", "del"} /\ UNCHANGED <<call, item>>
          /\ \A o \in Ofds : o # Handle(p) => ofd'[o] = ofd[o]
      BY <1>10 DEF OpenKey, StageOK, VarTypes
    <2>2. call[p].op = "get" => item[p] = "get"
      BY DEF HoldsOK
    <2>3. pc[p] = "open" /\ pc'[p] = "lock_item"
      BY <1>10 DEF OpenKey, Goto, VarTypes
    <2>4. QED
      BY <1>1, <2>1, <2>2, <2>3 DEF CallWrites, ItemWrites, Handle
  <1>11. CASE LockItem(p)
    <2>1. UNCHANGED item /\ call'[p].op = call[p].op /\ pc[p] = "lock_item"
          /\ \A o \in Ofds : ofd'[o].ino = ofd[o].ino
      BY <1>11 DEF LockItem, Exit, VarTypes, Calls
    <2>2. QED
      BY <1>1, <2>1 DEF CallWrites, ItemWrites
  <1>12. CASE PurgeLock(p) \/ PurgeRemove(p)
    <2>1. UNCHANGED item /\ call'[p].op = call[p].op /\ call[p].op = "purge"
          /\ ofd'[ItemFd(p)] = ofd[ItemFd(p)]
      BY <1>1, <1>12 DEF PurgeLock, PurgeRemove, VarTypes, Calls, StageOK
    <2>2. pc[p] \in {"purge", "purge_remove"}
      BY <1>12 DEF PurgeLock, PurgeRemove
    <2>3. QED
      BY <2>1, <2>2 DEF CallWrites, ItemWrites
  <1>13. CASE OpenSource(p) \/ CopyChunk(p) \/ CopyDone(p) \/ CopyReadError(p)
                \/ WriteData(p) \/ RemoveKey(p) \/ ReadInfo(p) \/ Scan(p)
                \/ ClearRemove(p) \/ PurgeSkip(p) \/ PurgeDone(p)
    BY <1>13
    DEF OpenSource, CopyChunk, CopyDone, CopyReadError, WriteData, Writing, RemoveKey,
        ReadInfo, Scan, ClearRemove, PurgeSkip, PurgeDone, CallWrites, ItemWrites,
        VarTypes, Goto, locks
  <1>14. CASE WriteFails(p) \/ WriteInfo(p) \/ ClearDone(p) \/ Fails(p)
                \/ PurgeReadInfo(p)
    <2>1. pc'[p] \in {"return", "scan"} /\ call'[p].op = call[p].op
          /\ UNCHANGED <<item, ofd>>
      BY <1>14
      DEF WriteFails, WriteInfo, ClearDone, Fails, PurgeReadInfo, Exit, Goto, VarTypes,
          Calls, locks
    <2>2. pc[p] # "close_item"
      BY <1>14 DEF WriteFails, WriteInfo, ClearDone, Fails, CanFail, PurgeReadInfo
    <2>3. QED
      BY <2>1, <2>2 DEF CallWrites, ItemWrites
  <1>15. QED
    BY <1>2, <1>4, <1>5, <1>6, <1>7, <1>8, <1>9, <1>10, <1>11, <1>12, <1>13, <1>14
    DEF Caller, Step, Body

\* But for create_key(), a writer was a writer of the same file.
LEMMA WriterWas ==
  ASSUME TypeOK, Holdings, [Next]_vars, \A p \in Procs : ~CreateKey(p),
         NEW o \in Ofds, Writer(o)'
  PROVE  Writer(o) /\ ofd'[o].ino = ofd[o].ino
  <1>1. PICK q \in Procs : \/ o = OpFd(q) /\ CallWrites(q)'
                           \/ o = ItemFd(q) /\ ItemWrites(q)'
    BY DEF Writer, OpFd, ItemFd
  <1>2. SUFFICES /\ CallWrites(q)' => CallWrites(q) /\ ofd'[OpFd(q)].ino = ofd[OpFd(q)].ino
                 /\ ItemWrites(q)' => ItemWrites(q) /\ ofd'[ItemFd(q)].ino = ofd[ItemFd(q)].ino
    BY <1>1, WriterCases
  <1>3. CASE Apart(q)
    BY <1>3 DEF Apart, CallWrites, ItemWrites
  <1>4. ASSUME NEW p \in Procs, Caller(p) \/ LockCache(p) \/ Step(p)
        PROVE  <1>2!1
    <2>1. CASE p = q
      <3>1. HoldsOK(q) /\ HoldsOK(q)'
        BY HoldingsPreserved DEF Holdings
      <3>2. QED
        BY <1>4, <2>1, <3>1, WriterStep
    <2>2. CASE p # q
      BY <1>3, <1>4, <2>2, OthersApart
    <2>3. QED
      BY <2>1, <2>2
  <1>5. CASE UNCHANGED vars \/ Tick \/ \E c \in Instances : Destroy(c)
    BY <1>3, <1>5 DEF Apart, vars, Tick, Destroy, work, locks
  <1>6. ASSUME NEW c \in Instances, Crash(c)
        PROVE  <1>2!1
    <2>1. OpFd(q) \in Ofds /\ ItemFd(q) \in Ofds /\ OpFd(q)[1] = q /\ ItemFd(q)[1] = q
      BY DEF OpFd, ItemFd, Ofds
    <2>2. CASE InstanceOf[q] = c
      BY <1>6, <2>1, <2>2 DEF Crash, CallWrites, ItemWrites, Closed
    <2>3. CASE InstanceOf[q] # c
      BY <1>3, <1>6, <2>1, <2>3 DEF Crash, Apart
    <2>4. QED
      BY <2>2, <2>3
  <1>7. QED
    BY <1>4, <1>5, <1>6 DEF Next

\* The file that create_key() makes is nobody else's, and empty.
LEMMA WriterMade ==
  ASSUME TypeOK, Holdings, UnusedBlank, NEW p \in Procs, CreateKey(p)
  PROVE  /\ Handle(p) \in Ofds /\ ofd[Handle(p)] = Closed
         /\ \E i \in Inodes :
              /\ ofd'[Handle(p)].ino = i
              /\ \A o \in Ofds : ofd[o].ino # i
              /\ \A k \in Keys : dir[k] # i
              /\ dir' = [dir EXCEPT ![call[p].key] = i]
              /\ file[i] = Blank
              /\ \A j \in Inodes : file'[j].full = file[j].full /\ file'[j].size = file[j].size
         /\ \A o \in Ofds \ {Handle(p)} : ofd'[o] = ofd[o] /\ (Writer(o)' => Writer(o))
  <1> USE DEF TypeOK
  <1>1. pc[p] = "create" /\ call[p].op \in Puts
    BY DEF CreateKey, StageOK
  <1>2. Handle(p) \in Ofds /\ ofd[Handle(p)] = Closed
    BY <1>1, HandleType DEF Holdings, HoldsOK, OpenAt, Handle, Puts
  <1>3. PICK i \in Inodes :
            /\ ~InUse(i, dir, ofd)
            /\ dir' = [dir EXCEPT ![call[p].key] = i]
            /\ ofd' = [ofd EXCEPT ![Handle(p)] = [ino |-> i, lk |-> "un"]]
            /\ file' = [file EXCEPT ![i].atime = clock]
    BY DEF CreateKey
  <1>4. \A j \in Inodes : file'[j].full = file[j].full /\ file'[j].size = file[j].size
    BY <1>3 DEF VarTypes
  <1>5. \A o \in Ofds \ {Handle(p)} : ofd'[o] = ofd[o]
    BY <1>3 DEF VarTypes
  <1>6. ASSUME NEW o \in Ofds \ {Handle(p)}, Writer(o)'
        PROVE  Writer(o)
    <2>1. PICK q \in Procs : \/ o = OpFd(q) /\ CallWrites(q)'
                             \/ o = ItemFd(q) /\ ItemWrites(q)'
      BY <1>6 DEF Writer, OpFd, ItemFd
    <2>2. UNCHANGED <<call, item>> /\ (q # p => pc'[q] = pc[q]) /\ ofd'[o] = ofd[o]
      BY <1>5 DEF CreateKey, Goto, VarTypes
    <2>3. CASE q # p
      BY <2>1, <2>2, <2>3, WriterCases DEF CallWrites, ItemWrites
    <2>4. CASE q = p
      <3>1. pc'[p] = "lock_item"
        BY DEF CreateKey, Goto, VarTypes
      <3>2. ~(o = OpFd(p) /\ call[p].op \in {"put", "put_data"})
        BY DEF Handle
      <3>3. QED
        BY <1>1, <2>1, <2>2, <2>4, <3>2, WriterCases DEF CallWrites, ItemWrites
    <2>5. QED
      BY <2>3, <2>4
  <1>7. QED
    BY <1>2, <1>3, <1>4, <1>5, <1>6 DEF InUse, UnusedBlank, VarTypes

\* A step that makes a file full is the last one of its writer.
LEMMA FullStep ==
  ASSUME TypeOK, [Next]_vars, NEW i \in Inodes, file'[i].full, ~file[i].full
  PROVE  \E p \in Procs :
            \/ /\ CopyDone(p) \/ WriteData(p)
               /\ ofd[OpFd(p)].ino = i /\ CallWrites(p) /\ ~CallWrites(p)'
            \/ /\ DropPutItem(p)
               /\ ofd[ItemFd(p)].ino = i /\ ~ItemWrites(p)'
  <1> USE DEF TypeOK
  <1>1. ASSUME NEW p \in Procs, CopyDone(p) \/ WriteData(p)
        PROVE  ofd[OpFd(p)].ino = i /\ CallWrites(p) /\ ~CallWrites(p)'
    <2>1. \A j \in Inodes : j # ofd[OpFd(p)].ino => file'[j] = file[j]
      BY <1>1 DEF CopyDone, WriteData, VarTypes
    <2>2. pc[p] = "write" /\ call[p].op \in {"put", "put_data"}
          /\ pc'[p] = "read_info"
      BY <1>1 DEF CopyDone, WriteData, Writing, Goto, VarTypes
    <2>3. QED
      BY <2>1, <2>2, FileCacheAssumption DEF CallWrites
  <1>2. ASSUME NEW p \in Procs, DropPutItem(p)
        PROVE  ofd[ItemFd(p)].ino = i /\ ~ItemWrites(p)'
    BY <1>2 DEF DropPutItem, ItemWrites, VarTypes, NoCall
  <1>3. ASSUME \A j \in Inodes : file'[j].full = file[j].full
        PROVE  FALSE
    BY <1>3
  <1>4. ~Reclaim
    BY DEF Reclaim, Blank
  <1>5. ~UNCHANGED file
    BY <1>3
  <1>6. ASSUME NEW j, NEW v, file' = [file EXCEPT ![j].atime = v]
                               \/ file' = [file EXCEPT ![j].size = v]
        PROVE  FALSE
    <2>1. CASE file' = [file EXCEPT ![j].atime = v]
      BY <1>3, <2>1 DEF VarTypes
    <2>2. CASE file' = [file EXCEPT ![j].size = v]
      BY <1>3, <2>2 DEF VarTypes
    <2>3. QED
      BY <1>6, <2>1, <2>2
  <1>7. ASSUME NEW p \in Procs, CreateKey(p) \/ LockItem(p) \/ PurgeLock(p)
        PROVE  FALSE
    BY <1>6, <1>7 DEF CreateKey, LockItem, PurgeLock, Touch
  <1>8. ASSUME NEW p \in Procs, CopyChunk(p) \/ WriteFails(p) \/ UserWrite(p)
        PROVE  FALSE
    <2>1. CASE CopyChunk(p)
      BY <1>6, <2>1 DEF CopyChunk
    <2>2. CASE WriteFails(p)
      BY <1>6, <2>2 DEF WriteFails
    <2>3. CASE UserWrite(p)
      BY <1>6, <2>3 DEF UserWrite
    <2>4. QED
      BY <1>8, <2>1, <2>2, <2>3
  <1>9. ASSUME NEW p \in Procs, Caller(p)
        PROVE  DropPutItem(p)
    BY <1>4, <1>5, <1>8, <1>9
    DEF Caller, InitializeCreate, InitializeOpen, CallPut, CallPutData, CallPutItem,
        CallGet, CallDel, CallClear, CallPurge, CloseItem, disk
  <1>10. ASSUME NEW p \in Procs, LockCache(p) \/ Step(p)
         PROVE  CopyDone(p) \/ WriteData(p)
    BY <1>4, <1>5, <1>7, <1>8, <1>10
    DEF LockCache, LockCacheFails, Step, Return, Body, OpenKey, OpenSource,
        CopyReadError, RemoveKey, ReadInfo, WriteInfo, Scan, ClearRemove, ClearDone,
        PurgeReadInfo, PurgeSkip, PurgeRemove, PurgeDone, Fails, InitializeWrite,
        InitializeFails, disk
  <1>11. PICK p \in Procs : CopyDone(p) \/ WriteData(p) \/ DropPutItem(p)
    BY <1>4, <1>5, <1>9, <1>10 DEF Next, Tick, Destroy, Crash, vars, disk
  <1>12. QED
    BY <1>1, <1>2, <1>11

LEMMA WritersAlonePreserved ==
  ASSUME TypeOK, Holdings, UnusedBlank, WritersAlone, [Next]_vars
  PROVE  WritersAlone'
  <1> SUFFICES ASSUME NEW o \in Ofds, NEW q \in Ofds, Writer(o)', Writer(q)',
                      ofd'[o].ino = ofd'[q].ino
               PROVE  o = q
    BY DEF WritersAlone
  <1>1. ASSUME NEW p \in Procs, CreateKey(p)
        PROVE  o = q
    BY <1>1, WriterMade DEF WritersAlone
  <1>2. CASE \A p \in Procs : ~CreateKey(p)
    BY <1>2, WriterWas DEF WritersAlone
  <1>3. QED
    BY <1>1, <1>2

LEMMA WritersNotFullPreserved ==
  ASSUME TypeOK, Holdings, UnusedBlank, WritersAlone, WritersNotFull, [Next]_vars
  PROVE  WritersNotFull'
  <1> USE DEF TypeOK
  <1> SUFFICES ASSUME NEW o \in Ofds, Writer(o)', file'[ofd'[o].ino].full
               PROVE  FALSE
    BY DEF WritersNotFull
  <1>1. ASSUME NEW p \in Procs, CreateKey(p)
        PROVE  FALSE
    <2>1. CASE o = Handle(p)
      BY <1>1, <2>1, WriterMade DEF Blank
    <2>2. CASE o # Handle(p)
      <3>1. Writer(o) /\ ofd'[o] = ofd[o]
        BY <1>1, <2>2, WriterMade
      <3>2. ofd[o].ino \in Inodes
        BY <3>1 DEF Writer, CallWrites, ItemWrites, VarTypes
      <3>3. QED
        BY <1>1, <3>1, <3>2, WriterMade DEF WritersNotFull
    <2>3. QED
      BY <2>1, <2>2
  <1>2. CASE \A p \in Procs : ~CreateKey(p)
    <2> DEFINE i == ofd[o].ino
    <2>1. Writer(o) /\ ofd'[o].ino = i
      BY <1>2, WriterWas
    <2>2. i \in Inodes /\ ~file[i].full
      BY <2>1 DEF Writer, CallWrites, ItemWrites, VarTypes, WritersNotFull
    <2>3. PICK p \in Procs :
            \/ ofd[OpFd(p)].ino = i /\ CallWrites(p) /\ ~CallWrites(p)'
            \/ DropPutItem(p) /\ ofd[ItemFd(p)].ino = i /\ ~ItemWrites(p)'
      BY <2>1, <2>2, FullStep
    <2>4. CASE ofd[OpFd(p)].ino = i /\ CallWrites(p) /\ ~CallWrites(p)'
      <3>1. o = OpFd(p)
        BY <2>1, <2>4, WriterCases, OfdType DEF WritersAlone
      <3>2. QED
        BY <2>4, <3>1 DEF Writer, OpFd, ItemFd
    <2>5. CASE DropPutItem(p) /\ ofd[ItemFd(p)].ino = i /\ ~ItemWrites(p)'
      <3>1. ItemWrites(p)
        BY <2>2, <2>5, FileCacheAssumption DEF DropPutItem, ItemWrites, Holdings, HoldsOK
      <3>2. o = ItemFd(p)
        BY <2>1, <2>5, <3>1, WriterCases, OfdType DEF WritersAlone
      <3>3. QED
        BY <2>5, <3>2 DEF Writer, OpFd, ItemFd
    <2>6. QED
      BY <2>3, <2>4, <2>5
  <1>3. QED
    BY <1>1, <1>2

\* Only a writer changes the size of a file that stays in use.
\* The steps that change the size of a file: the two that write to it, and the
\* reclaiming of its inode.
LEMMA SizeWritten ==
  ASSUME TypeOK, [Next]_vars, NEW i \in Inodes, file'[i].size # file[i].size
  PROVE  \/ Reclaim
         \/ \E p \in Procs : /\ CopyChunk(p) \/ WriteData(p) \/ WriteFails(p)
                             /\ ofd[OpFd(p)].ino = i
         \/ \E p \in Procs : UserWrite(p) /\ ofd[ItemFd(p)].ino = i
  <1> USE DEF TypeOK
  <1>1. ASSUME NEW p \in Procs, CopyChunk(p) \/ WriteData(p) \/ WriteFails(p)
        PROVE  ofd[OpFd(p)].ino = i
    <2>1. PICK v : file' = [file EXCEPT ![ofd[OpFd(p)].ino] = v]
      <3>1. ASSUME WriteFails(p)
            PROVE  \E v : file' = [file EXCEPT ![ofd[OpFd(p)].ino] = v]
        BY <3>1 DEF WriteFails
      <3>2. QED
        BY <1>1, <3>1 DEF CopyChunk, WriteData
    <2>2. QED
      BY <2>1 DEF VarTypes
  <1>2. ASSUME NEW p \in Procs, UserWrite(p)
        PROVE  ofd[ItemFd(p)].ino = i
    BY <1>2 DEF UserWrite, VarTypes
  <1>3. ASSUME \A j \in Inodes : file'[j].size = file[j].size
        PROVE  FALSE
    BY <1>3
  <1>4. ~UNCHANGED file
    BY <1>3
  <1>5. ASSUME NEW j, NEW v, file' = [file EXCEPT ![j].atime = v]
                               \/ file' = [file EXCEPT ![j].full = v]
        PROVE  FALSE
    BY <1>3, <1>5 DEF VarTypes
  <1>6. ASSUME NEW p \in Procs, CreateKey(p) \/ LockItem(p) \/ PurgeLock(p)
                                  \/ CopyDone(p)
        PROVE  FALSE
    BY <1>5, <1>6 DEF CreateKey, LockItem, PurgeLock, Touch, CopyDone
  <1>7. ASSUME NEW p \in Procs, DropPutItem(p)
        PROVE  FALSE
    <2>1. \A j \in Inodes : [file[j] EXCEPT !.full = TRUE].size = file[j].size
      BY DEF VarTypes
    <2>2. QED
      BY <1>3, <1>7, <2>1 DEF DropPutItem
  <1>8. ASSUME NEW p \in Procs, Caller(p)
        PROVE  UserWrite(p) \/ Reclaim
    BY <1>4, <1>7, <1>8
    DEF Caller, InitializeCreate, InitializeOpen, CallPut, CallPutData, CallPutItem,
        CallGet, CallDel, CallClear, CallPurge, CloseItem, disk
  <1>9. ASSUME NEW p \in Procs, LockCache(p) \/ Step(p)
         PROVE  CopyChunk(p) \/ WriteData(p) \/ WriteFails(p) \/ Reclaim
    BY <1>4, <1>6, <1>9
    DEF LockCache, LockCacheFails, Step, Return, Body, OpenKey, OpenSource,
        CopyReadError, RemoveKey, ReadInfo, WriteInfo, Scan, ClearRemove, ClearDone,
        PurgeReadInfo, PurgeSkip, PurgeRemove, PurgeDone, Fails, InitializeWrite,
        InitializeFails, disk
  <1>10. Reclaim \/ \E p \in Procs : CopyChunk(p) \/ WriteData(p) \/ WriteFails(p)
                                       \/ UserWrite(p)
    BY <1>4, <1>8, <1>9 DEF Next, Tick, Destroy, Crash, vars, disk
  <1>11. QED
    BY <1>1, <1>2, <1>10

LEMMA SizeStep ==
  ASSUME TypeOK, Holdings, [Next]_vars, NEW i \in Inodes,
         file'[i].size # file[i].size
  PROVE  file'[i] = Blank \/ \E o \in Ofds : Writer(o) /\ ofd[o].ino = i
  <1>1. CASE Reclaim
    BY <1>1 DEF Reclaim, Blank
  <1>2. ASSUME NEW p \in Procs, CopyChunk(p) \/ WriteData(p) \/ WriteFails(p),
               ofd[OpFd(p)].ino = i
        PROVE  CallWrites(p)
    <2>1. pc[p] = "write" /\ call[p].op \in {"put", "put_data"}
      BY <1>2 DEF CopyChunk, WriteData, WriteFails, Writing, TypeOK, StageOK
    <2>2. QED
      BY <1>2, <2>1, FileCacheAssumption DEF CallWrites
  <1>3. ASSUME NEW p \in Procs, UserWrite(p)
        PROVE  ItemWrites(p)
    BY <1>3 DEF UserWrite, ItemWrites, Holdings, HoldsOK
  <1>4. QED
    BY <1>1, <1>2, <1>3, SizeWritten, WriterCases, OfdType

\* What holds of the files whatever fails.
FilesInv == InsideLocked /\ FlockExclusive /\ HandleOpen /\ Holdings /\ Contents

LEMMA FilesInvInit == Init => FilesInv
  <1> SUFFICES ASSUME Init
               PROVE  FilesInv
    OBVIOUS
  <1>1. \A p \in Procs : /\ pc[p] = "idle" /\ call[p] = NoCall /\ item[p] = "none"
                         /\ ofd[OpFd(p)] = Closed /\ ofd[ItemFd(p)] = Closed
    BY OfdType DEF Init
  <1>2. InsideLocked /\ HandleOpen /\ Holdings
    BY <1>1 DEF InsideLocked, Inside, HandleOpen, HandleOpenAt, Holdings, HoldsOK,
                NoCall
  <1>3. FlockExclusive
    BY DEF Init, FlockExclusive, Closed
  <1>4. OneName /\ UnusedBlank
    BY DEF Init, OneName, UnusedBlank
  <1>5. \A o \in Ofds : ~Writer(o)
    BY <1>1 DEF Writer, CallWrites, ItemWrites, Closed
  <1>6. QED
    BY <1>2, <1>3, <1>4, <1>5 DEF FilesInv, Contents, WritersAlone, WritersNotFull

LEMMA FilesInvPreserved ==
  ASSUME TypeOK, FilesInv, OneThreadPerInstance, [Next]_vars
  PROVE  FilesInv'
  BY InsideLockedPreserved, FlockExclusivePreserved, HandleOpenPreserved,
     HoldingsPreserved, OneNamePreserved, UnusedBlankPreserved,
     WritersAlonePreserved, WritersNotFullPreserved
  DEF FilesInv, Contents

\* No process ever writes to a file that is full, whatever fails and whoever dies:
\* its writer is done with it, and no name or descriptor of another's leads a write
\* to it, although its inode may have been another file's before.
THEOREM StoredDataAreFinal ==
  OneThreadPerInstance => (Spec => StoredDataNeverChange)
  <1> SUFFICES ASSUME OneThreadPerInstance
               PROVE  Spec => StoredDataNeverChange
    OBVIOUS
  <1> DEFINE Final == \A i \in Inodes : file[i].full /\ file'[i].full =>
                                          file'[i].size = file[i].size
  <1>1. Init => FilesInv
    BY FilesInvInit
  <1>2. TypeOK /\ FilesInv /\ [Next]_vars => FilesInv'
    BY FilesInvPreserved
  <1>3. TypeOK /\ FilesInv /\ [Next]_vars => Final
    BY SizeStep DEF FilesInv, Contents, WritersNotFull, Blank
  <1>4. QED
    BY <1>1, <1>2, <1>3, TypeCorrect, PTL DEF Spec, StoredDataNeverChange

=============================================================================
