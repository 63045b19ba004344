----------------------------- MODULE FileCache -----------------------------
(***************************************************************************)
(* The cross-process file cache of bes_utils/FileCache.h.                  *)
(*                                                                         *)
(* A cache is a directory: one file per key, and a file cache_info that    *)
(* records the sum of the sizes of the others.  Every operation holds an   *)
(* exclusive flock(2) on cache_info; a file that is being written or read  *)
(* by a caller is held with a flock of its own.  flock belongs to an open  *)
(* file description, so two FileCache objects exclude one another, and     *)
(* two threads that share a FileCache object do not.                       *)
(*                                                                         *)
(* An operation is a sequence of system calls.  Each is an action, but for *)
(* pairs that only the holder of the lock on the cache can tell apart: the *)
(* listing and its stat()s in Scan, open() and flock() in PurgeLock,       *)
(* remove() and close() in PurgeRemove, close() and the unlocking of the   *)
(* cache in Return.  A method leaves through "return", where its           *)
(* destructors run: the descriptor it opened is closed, then the cache is  *)
(* unlocked.                                                               *)
(***************************************************************************)
EXTENDS Integers, FiniteSets

CONSTANTS
    Procs,         \* threads of control that call the cache
    Instances,     \* FileCache objects, each with its own open cache_info
    InstanceOf,    \* the FileCache object each thread of control uses
    Keys,          \* cache keys: the names of files in the directory
    Inodes,        \* identities of files; an unlinked file lives while open
    None,
    W,             \* the size counter is an unsigned integer modulo W
    Sizes,         \* sizes a caller may store
    MaxCacheSize,  \* d_max_cache_size_in_bytes
    PurgeSize,     \* d_purge_size
    MaxClock,      \* bound on the file system's clock, in its granularity
    Ops,           \* the operations the callers use
    WaitModes,     \* FALSE: lock types with LOCK_NB; TRUE: without it
    Faults,        \* the system calls that may fail, and "crash"
    InitialInfo    \* contents of cache_info when the model starts

CacheInfo == [state : {"absent", "empty", "sized"}, size : 0..(W - 1)]

ASSUME FileCacheAssumption ==
    /\ InstanceOf \in [Procs -> Instances]
    /\ Inodes \subseteq Nat
    /\ None \notin Inodes \cup Instances \cup Keys
    /\ W \in Nat \ {0}
    /\ Sizes \subseteq Nat
    /\ {MaxCacheSize, PurgeSize, MaxClock} \subseteq Nat
    /\ WaitModes \subseteq BOOLEAN
    /\ InitialInfo \subseteq CacheInfo

VARIABLES
    pc,         \* where each thread of control is; "idle" between calls
    call,       \* the call it is making
    ci,         \* the size it read from, or will write to, cache_info
    todo,       \* the listing that clear() and purge() work through
    removed,    \* purge()'s removed_bytes
    item,       \* the Item or PutItem the caller owns: "none", "get", "put"
    fd,         \* d_cache_info_fd of each FileCache object
    cacheLock,  \* the FileCache object whose cache_info is flocked, or None
    ofd,        \* the open file descriptions on cached files
    info,       \* the file cache_info
    dir,        \* the directory: the inode of each key, or None
    file,       \* the cached files
    clock       \* the file system's clock

disk  == <<info, dir, file, clock>>
locks == <<fd, cacheLock, ofd>>
work  == <<ci, todo, removed>>
vars  == <<pc, call, work, item, locks, disk>>

-----------------------------------------------------------------------------
(* Open file descriptions and flock.  A thread of control has at most two  *)
(* cached files open: the one its Item owns and the one its call opened.   *)

Ofds == Procs \X {"item", "op"}
ItemFd(p) == <<p, "item">>
OpFd(p)   == <<p, "op">>

Closed == [ino |-> None, lk |-> "un"]
Blank  == [size |-> 0, full |-> FALSE, atime |-> 0]
NoCall == [op |-> "none", key |-> None, size |-> 0, wait |-> FALSE,
           ok |-> FALSE]

\* The descriptor the call of p works on: a get, a put(key, item) and the
\* destructor of a PutItem work on the caller's item.
Handle(p) == IF call[p].op \in {"get", "put_item", "drop"}
             THEN ItemFd(p) ELSE OpFd(p)

\* flock(o, kind) would be granted on inode i.
CanLock(o, i, kind) ==
    \A q \in Ofds \ {o} :
        ofd[q].ino = i =>
            \/ ofd[q].lk = "un"
            \/ kind = "sh" /\ ofd[q].lk = "sh"

InUse(i, d, o) == \/ \E k \in Keys : d[k] = i
                  \/ \E q \in Ofds : o[q].ino = i

\* An inode that is neither linked nor open is reclaimed.
Reclaim == file' = [i \in Inodes |-> IF InUse(i, dir', ofd')
                                     THEN file[i] ELSE Blank]

\* lock_the_item() sets the access time of the file it locked.
Touch(i) == file' = [file EXCEPT ![i].atime = clock]

\* The size in cache_info: zero when it holds none yet.
RecordedSize == IF info.state = "sized" THEN info.size ELSE 0

\* What get_cache_info_size() may return: when lseek() or read() fails it
\* returns zero, and its caller goes on with that.
SizesRead == {RecordedSize} \cup {n \in {0} : "info" \in Faults}

\* The size of the file the call of p works on; zero without one.
HandleSize(p) == LET i == ofd[Handle(p)].ino
                 IN  IF i = None THEN 0 ELSE file[i].size

\* What get_file_size() may return for it: zero also when fstat() fails.
SizesMeasured(p) == {HandleSize(p)} \cup {n \in {0} : "stat" \in Faults}

Goto(p, l) == pc' = [pc EXCEPT ![p] = l]

\* Leave a method with a result; its destructors run in Return.
Exit(p, ok) == /\ Goto(p, "return")
               /\ call' = [call EXCEPT ![p].ok = ok]

\* ~CacheLock(): LOCK_UN on cache_info through the instance of p.
Unlocked(p) == IF cacheLock = InstanceOf[p] THEN None ELSE cacheLock

-----------------------------------------------------------------------------
Init ==
    /\ pc = [p \in Procs |-> "idle"]
    /\ call = [p \in Procs |-> NoCall]
    /\ ci = [p \in Procs |-> 0]
    /\ todo = [p \in Procs |-> {}]
    /\ removed = [p \in Procs |-> 0]
    /\ item = [p \in Procs |-> "none"]
    /\ fd = [c \in Instances |-> "closed"]
    /\ cacheLock = None
    /\ ofd = [o \in Ofds |-> Closed]
    /\ info \in InitialInfo
    /\ dir = [k \in Keys |-> None]
    /\ file = [i \in Inodes |-> Blank]
    /\ clock = 0

-----------------------------------------------------------------------------
(* initialize() and open_cache_info(): create cache_info and write a zero, *)
(* or open the one that is there.  No lock is held.                        *)

CanInitialize(p) == pc[p] = "idle" /\ fd[InstanceOf[p]] = "closed"

InitializeCreate(p) ==
    /\ CanInitialize(p)
    /\ info.state = "absent"
    /\ info' = [state |-> "empty", size |-> 0]
    /\ fd' = [fd EXCEPT ![InstanceOf[p]] = "creating"]
    /\ Goto(p, "init_write")
    /\ UNCHANGED <<call, work, item, cacheLock, ofd, dir, file, clock>>

InitializeOpen(p) ==
    /\ CanInitialize(p)
    /\ info.state # "absent"
    /\ fd' = [fd EXCEPT ![InstanceOf[p]] = "open"]
    /\ UNCHANGED <<pc, call, work, item, cacheLock, ofd, disk>>

InitializeWrite(p) ==
    /\ pc[p] = "init_write"
    /\ info' = [state |-> "sized", size |-> 0]
    /\ fd' = [fd EXCEPT ![InstanceOf[p]] = "open"]
    /\ Goto(p, "idle")
    /\ UNCHANGED <<call, work, item, cacheLock, ofd, dir, file, clock>>

\* The write fails: initialize() returns false and the owner gives the
\* object up.
InitializeFails(p) ==
    /\ "info" \in Faults
    /\ pc[p] = "init_write"
    /\ fd' = [fd EXCEPT ![InstanceOf[p]] = "closed"]
    /\ Goto(p, "idle")
    /\ UNCHANGED <<call, work, item, cacheLock, ofd, disk>>

\* ~FileCache(), once no caller has an Item or a call in progress.
Destroy(c) ==
    /\ fd[c] = "open"
    /\ \A p \in Procs : InstanceOf[p] = c => pc[p] = "idle" /\ item[p] = "none"
    /\ fd' = [fd EXCEPT ![c] = "closed"]
    /\ cacheLock' = IF cacheLock = c THEN None ELSE cacheLock
    /\ UNCHANGED <<pc, call, work, item, ofd, disk>>

-----------------------------------------------------------------------------
(* The calls.  Each one begins by asking for the lock on the cache.        *)

Call(p, op, k, n, w) ==
    /\ op \in Ops
    /\ pc[p] = "idle"
    /\ fd[InstanceOf[p]] = "open"
    /\ call' = [call EXCEPT ![p] =
                  [op |-> op, key |-> k, size |-> n, wait |-> w, ok |-> FALSE]]
    /\ Goto(p, "lock")
    /\ UNCHANGED <<work, locks, info, dir, clock>>

CallPut(p)     == /\ \E k \in Keys, n \in Sizes : Call(p, "put", k, n, TRUE)
                  /\ UNCHANGED <<item, file>>
CallPutData(p) == /\ \E k \in Keys, n \in Sizes :
                         Call(p, "put_data", k, n, TRUE)
                  /\ UNCHANGED <<item, file>>
CallDel(p)     == /\ \E k \in Keys, w \in WaitModes : Call(p, "del", k, 0, w)
                  /\ UNCHANGED <<item, file>>
CallClear(p)   == Call(p, "clear", None, 0, FALSE) /\ UNCHANGED <<item, file>>
CallPurge(p)   == Call(p, "purge", None, 0, FALSE) /\ UNCHANGED <<item, file>>

\* The caller constructs the PutItem or Item that the call fills in.
CallPutItem(p) == /\ item[p] = "none"
                  /\ \E k \in Keys : Call(p, "put_item", k, 0, TRUE)
                  /\ item' = [item EXCEPT ![p] = "put"]
                  /\ UNCHANGED file
CallGet(p)     == /\ item[p] = "none"
                  /\ \E k \in Keys, w \in WaitModes : Call(p, "get", k, 0, w)
                  /\ item' = [item EXCEPT ![p] = "get"]
                  /\ UNCHANGED file

Entry(op) == CASE op \in {"put", "put_data", "put_item"} -> "create"
               [] op \in {"get", "del"}                  -> "open"
               [] op \in {"drop", "purge"}               -> "read_info"
               [] OTHER                                  -> "scan"

\* Mutant: lock_the_cache() with LOCK_SH.
LockCacheShared(p) ==
    /\ pc[p] = "lock"
    /\ cacheLock' = InstanceOf[p]
    /\ Goto(p, Entry(call[p].op))
    /\ UNCHANGED <<call, work, item, fd, ofd, disk>>

\* lock_the_cache(LOCK_EX): granted when no other open cache_info holds it.
LockCache(p) ==
    /\ pc[p] = "lock"
    /\ cacheLock \in {None, InstanceOf[p]}
    /\ cacheLock' = InstanceOf[p]
    /\ Goto(p, Entry(call[p].op))
    /\ UNCHANGED <<call, work, item, fd, ofd, disk>>

AfterCall(p) == IF call[p].op = "drop" THEN "close_item" ELSE "idle"

\* The flock fails; the method returns false, and ~CacheLock() unlocks.
LockCacheFails(p) ==
    /\ "flock" \in Faults
    /\ pc[p] = "lock"
    /\ cacheLock' = Unlocked(p)
    /\ Goto(p, AfterCall(p))
    /\ call' = [call EXCEPT ![p] = NoCall]
    /\ UNCHANGED <<work, item, fd, ofd, disk>>

\* The destructors of a method: ~Item() of the descriptor it opened, then
\* ~CacheLock().
Return(p) ==
    /\ pc[p] = "return"
    /\ ofd' = [ofd EXCEPT ![OpFd(p)] = Closed]
    /\ UNCHANGED <<item, fd, info, dir, clock>>
    /\ Reclaim
    /\ cacheLock' = Unlocked(p)
    /\ Goto(p, AfterCall(p))
    /\ call' = [call EXCEPT ![p] = NoCall]
    /\ ci' = [ci EXCEPT ![p] = 0]
    /\ todo' = [todo EXCEPT ![p] = {}]
    /\ removed' = [removed EXCEPT ![p] = 0]

-----------------------------------------------------------------------------
(* put(key, file_name), put_data(key, data), put(key, PutItem)             *)

\* Mutant: create_key() with O_TRUNC for O_EXCL.
CreateKeyTruncates(p) ==
    /\ pc[p] = "create"
    /\ \E i \in Inodes :
        /\ i = dir[call[p].key] \/ (dir[call[p].key] = None /\ ~InUse(i, dir, ofd))
        /\ dir' = [dir EXCEPT ![call[p].key] = i]
        /\ ofd' = [ofd EXCEPT ![Handle(p)] = [ino |-> i, lk |-> "un"]]
        /\ file' = [file EXCEPT ![i].size = 0]
    /\ Goto(p, "lock_item")
    /\ UNCHANGED <<call, work, item, fd, cacheLock, info, clock>>

\* create_key(): O_CREAT | O_EXCL.
CreateKey(p) ==
    /\ pc[p] = "create"
    /\ dir[call[p].key] = None
    /\ \E i \in Inodes :
        /\ ~InUse(i, dir, ofd)
        /\ \A j \in Inodes : j < i => InUse(j, dir, ofd)
        /\ dir' = [dir EXCEPT ![call[p].key] = i]
        /\ ofd' = [ofd EXCEPT ![Handle(p)] = [ino |-> i, lk |-> "un"]]
        /\ file' = [file EXCEPT ![i].atime = clock]
    /\ Goto(p, "lock_item")
    /\ UNCHANGED <<call, work, item, fd, cacheLock, info, clock>>

\* Mutants: del() with a shared lock; the puts with a shared lock.
LockKindDelShared(p) == IF call[p].op \in {"get", "del"} THEN "sh" ELSE "ex"
LockKindPutShared(p) == IF call[p].op = "del" THEN "ex" ELSE "sh"

LockKind(p) == IF call[p].op = "get" THEN "sh" ELSE "ex"

\* lock_the_item() in the three puts, in get() and in del().
LockItem(p) ==
    /\ pc[p] = "lock_item"
    /\ CanLock(Handle(p), ofd[Handle(p)].ino, LockKind(p))
    /\ ofd' = [ofd EXCEPT ![Handle(p)].lk = LockKind(p)]
    /\ Touch(ofd[Handle(p)].ino)
    /\ IF call[p].op \in {"get", "put_item"}
       THEN Exit(p, TRUE)
       ELSE /\ Goto(p, CASE call[p].op = "put"      -> "open_source"
                         [] call[p].op = "put_data" -> "write"
                         [] OTHER                   -> "remove")
            /\ UNCHANGED call
    /\ UNCHANGED <<work, item, fd, cacheLock, info, dir, clock>>

OpenSource(p) ==
    /\ pc[p] = "open_source"
    /\ Goto(p, "write")
    /\ UNCHANGED <<call, work, item, locks, disk>>

Writing(p, op) == pc[p] = "write" /\ call[p].op = op

\* One turn of the copy loop of put(key, file_name).
CopyChunk(p) ==
    /\ Writing(p, "put")
    /\ HandleSize(p) < call[p].size
    /\ file' = [file EXCEPT ![ofd[OpFd(p)].ino].size = @ + 1]
    /\ UNCHANGED <<pc, call, work, item, locks, info, dir, clock>>

\* read() returned zero: the copy is complete.
CopyDone(p) ==
    /\ Writing(p, "put")
    /\ HandleSize(p) = call[p].size
    /\ file' = [file EXCEPT ![ofd[OpFd(p)].ino].full = TRUE]
    /\ Goto(p, "read_info")
    /\ UNCHANGED <<call, work, item, locks, info, dir, clock>>

\* read() returned an error: the loop ends as it does at the end of file.
CopyReadError(p) ==
    /\ "read" \in Faults
    /\ Writing(p, "put")
    /\ Goto(p, "read_info")
    /\ UNCHANGED <<call, work, item, locks, disk>>

WriteData(p) ==
    /\ Writing(p, "put_data")
    /\ file' = [file EXCEPT ![ofd[OpFd(p)].ino] =
                   [@ EXCEPT !.size = call[p].size, !.full = TRUE]]
    /\ Goto(p, "read_info")
    /\ UNCHANGED <<call, work, item, locks, info, dir, clock>>

\* A short write, in put() or put_data().
WriteFails(p) ==
    /\ "write" \in Faults
    /\ pc[p] = "write"
    /\ \E n \in HandleSize(p)..call[p].size :
        /\ n = HandleSize(p) \/ n < call[p].size
        /\ file' = [file EXCEPT ![ofd[OpFd(p)].ino].size = n]
    /\ Exit(p, FALSE)
    /\ UNCHANGED <<work, item, locks, info, dir, clock>>

-----------------------------------------------------------------------------
(* The counter: update_cache_info_size(get_cache_info_size() +- size)      *)

\* Mutant: the counter as a signed integer that is never reduced.
ReadInfoSigned(p) ==
    /\ pc[p] = "read_info"
    /\ call[p].op # "purge"
    /\ \E n \in SizesRead, m \in SizesMeasured(p) :
          ci' = [ci EXCEPT ![p] = IF call[p].op = "del" THEN n - m ELSE n + m]
    /\ Goto(p, "write_info")
    /\ UNCHANGED <<call, todo, removed, item, locks, disk>>

ReadInfo(p) ==
    /\ pc[p] = "read_info"
    /\ call[p].op # "purge"
    /\ \E n \in SizesRead, m \in SizesMeasured(p) :
          ci' = [ci EXCEPT ![p] =
                   (IF call[p].op = "del" THEN n - m ELSE n + m) % W]
    /\ Goto(p, "write_info")
    /\ UNCHANGED <<call, todo, removed, item, locks, disk>>

WriteInfo(p) ==
    /\ pc[p] = "write_info"
    /\ info' = [state |-> "sized", size |-> ci[p]]
    /\ Exit(p, TRUE)
    /\ UNCHANGED <<work, item, locks, dir, file, clock>>

-----------------------------------------------------------------------------
(* What the owner of an Item or a PutItem does between calls.              *)

\* Write through a PutItem's descriptor.
UserWrite(p) ==
    /\ pc[p] = "idle"
    /\ item[p] = "put"
    /\ ofd[ItemFd(p)].ino # None
    /\ \E n \in Sizes : file[ofd[ItemFd(p)].ino].size < n
    /\ file' = [file EXCEPT ![ofd[ItemFd(p)].ino].size = @ + 1]
    /\ UNCHANGED <<pc, call, work, item, locks, info, dir, clock>>

\* Mutant: ~PutItem() updates the counter without the lock on the cache.
DropPutItemUnlocked(p) ==
    /\ pc[p] = "idle"
    /\ item[p] = "put"
    /\ call' = [call EXCEPT ![p] = [NoCall EXCEPT !.op = "drop"]]
    /\ Goto(p, "read_info")
    /\ UNCHANGED <<work, item, locks, disk>>

\* ~PutItem() begins: the contents are what the owner meant to store.
DropPutItem(p) ==
    /\ pc[p] = "idle"
    /\ item[p] = "put"
    /\ call' = [call EXCEPT ![p] = [NoCall EXCEPT !.op = "drop"]]
    /\ file' = [i \in Inodes |->
                  IF i = ofd[ItemFd(p)].ino THEN [file[i] EXCEPT !.full = TRUE]
                                            ELSE file[i]]
    /\ Goto(p, "lock")
    /\ UNCHANGED <<work, item, locks, info, dir, clock>>

\* ~Item(): the base destructor, after the body of ~PutItem().
CloseItem(p) ==
    /\ pc[p] = "close_item" \/ (pc[p] = "idle" /\ item[p] = "get")
    /\ ofd' = [ofd EXCEPT ![ItemFd(p)] = Closed]
    /\ UNCHANGED <<call, work, fd, cacheLock, info, dir, clock>>
    /\ Reclaim
    /\ item' = [item EXCEPT ![p] = "none"]
    /\ Goto(p, "idle")

-----------------------------------------------------------------------------
(* get() and del()                                                         *)

OpenKey(p) ==
    /\ pc[p] = "open"
    /\ dir[call[p].key] # None
    /\ ofd' = [ofd EXCEPT ![Handle(p)] =
                  [ino |-> dir[call[p].key], lk |-> "un"]]
    /\ Goto(p, "lock_item")
    /\ UNCHANGED <<call, work, item, fd, cacheLock, disk>>

RemoveKey(p) ==
    /\ pc[p] = "remove"
    /\ dir[call[p].key] # None
    /\ dir' = [dir EXCEPT ![call[p].key] = None]
    /\ Goto(p, "read_info")
    /\ UNCHANGED <<call, work, item, locks, info, file, clock>>

-----------------------------------------------------------------------------
(* clear() and purge()                                                     *)

\* files_in_cache(), and in purge() the stat of each file.  clear() uses
\* the names only.
Listing == {[key |-> k, size |-> file[dir[k]].size,
             atime |-> file[dir[k]].atime] : k \in {j \in Keys : dir[j] # None}}

Scan(p) ==
    /\ pc[p] = "scan"
    /\ todo' = [todo EXCEPT ![p] = Listing]
    /\ Goto(p, IF call[p].op = "clear" THEN "clear" ELSE "purge")
    /\ UNCHANGED <<call, ci, removed, item, locks, disk>>

ClearRemove(p) ==
    /\ pc[p] = "clear"
    /\ \E e \in todo[p] :
        /\ dir[e.key] # None
        /\ dir' = [dir EXCEPT ![e.key] = None]
        /\ todo' = [todo EXCEPT ![p] = @ \ {e}]
    /\ UNCHANGED <<pc, call, ci, removed, item, locks, info, clock>>
    /\ Reclaim

ClearDone(p) ==
    /\ pc[p] = "clear"
    /\ todo[p] = {}
    /\ Exit(p, TRUE)
    /\ UNCHANGED <<work, item, locks, disk>>

\* purge() reads the recorded size and returns at once when it is small.
PurgeReadInfo(p) ==
    /\ pc[p] = "read_info"
    /\ call[p].op = "purge"
    /\ \E n \in SizesRead :
        /\ ci' = [ci EXCEPT ![p] = n]
        /\ IF n < MaxCacheSize
           THEN Exit(p, TRUE)
           ELSE Goto(p, "scan") /\ UNCHANGED call
    /\ UNCHANGED <<todo, removed, item, locks, disk>>

\* Mutant: no limit on what purge() removes.
PurgeEnoughNever(p) == todo[p] = {}

PurgeEnough(p) == todo[p] = {} \/ removed[p] > PurgeSize

\* Mutant: the multimap ordered by std::greater.
OldestNewest(p) == {e \in todo[p] : \A d \in todo[p] : e.atime >= d.atime}

\* An entry purge() may take next: the multimap orders them by access time,
\* and entries with one access time in the order of the directory.
Oldest(p) == {e \in todo[p] : \A d \in todo[p] : e.atime <= d.atime}

\* open() and flock(LOCK_EX | LOCK_NB) of the next entry.
PurgeLock(p) ==
    /\ pc[p] = "purge"
    /\ ~PurgeEnough(p)
    /\ \E e \in Oldest(p) :
        /\ dir[e.key] # None
        /\ CanLock(OpFd(p), dir[e.key], "ex")
        /\ ofd' = [ofd EXCEPT ![OpFd(p)] = [ino |-> dir[e.key], lk |-> "ex"]]
        /\ Touch(dir[e.key])
        /\ call' = [call EXCEPT ![p].key = e.key]
    /\ Goto(p, "purge_remove")
    /\ UNCHANGED <<work, item, fd, cacheLock, info, dir, clock>>

\* Mutant: an entry in use is tried again, not left.
PurgeSkipRetries(p) ==
    /\ pc[p] = "purge"
    /\ ~PurgeEnough(p)
    /\ \E e \in Oldest(p) : ~CanLock(OpFd(p), dir[e.key], "ex")
    /\ UNCHANGED vars

\* The entry is in use: leave it and go on.
PurgeSkip(p) ==
    /\ pc[p] = "purge"
    /\ ~PurgeEnough(p)
    /\ \E e \in Oldest(p) :
        /\ dir[e.key] # None
        /\ ~CanLock(OpFd(p), dir[e.key], "ex") \/ "flock" \in Faults
        /\ todo' = [todo EXCEPT ![p] = @ \ {e}]
    /\ UNCHANGED <<pc, call, ci, removed, item, locks, disk>>

\* remove() the locked entry, count it, and close its descriptor.  A remove
\* that fails is not counted.
PurgeRemove(p) ==
    /\ pc[p] = "purge_remove"
    /\ \E e \in todo[p] :
        /\ e.key = call[p].key
        /\ todo' = [todo EXCEPT ![p] = @ \ {e}]
        /\ \/ /\ dir[e.key] # None
              /\ dir' = [dir EXCEPT ![e.key] = None]
              /\ removed' = [removed EXCEPT ![p] = @ + e.size]
           \/ /\ dir[e.key] = None \/ "remove" \in Faults
              /\ UNCHANGED <<dir, removed>>
    /\ ofd' = [ofd EXCEPT ![OpFd(p)] = Closed]
    /\ call' = [call EXCEPT ![p].key = None]
    /\ Goto(p, "purge")
    /\ UNCHANGED <<ci, item, fd, cacheLock, info, clock>>
    /\ Reclaim

PurgeDone(p) ==
    /\ pc[p] = "purge"
    /\ PurgeEnough(p)
    /\ ci' = [ci EXCEPT ![p] = (@ - removed[p]) % W]
    /\ Goto(p, "write_info")
    /\ UNCHANGED <<call, todo, removed, item, locks, disk>>

-----------------------------------------------------------------------------
(* The error exits.  Each one logs and returns false; the destructors undo *)
(* the locks and nothing else.                                             *)

CanFail(p) ==
    \/ pc[p] = "create" /\ (dir[call[p].key] # None \/ "open" \in Faults)
    \/ pc[p] = "open" /\ (dir[call[p].key] = None \/ "open" \in Faults)
    \/ /\ pc[p] = "lock_item"       \* LOCK_NB, or an error of flock()
       /\ \/ /\ ~call[p].wait
             /\ ~CanLock(Handle(p), ofd[Handle(p)].ino, LockKind(p))
          \/ "flock" \in Faults
    \/ pc[p] = "open_source" /\ "source" \in Faults
    \/ pc[p] = "write_info" /\ "info" \in Faults
    \/ pc[p] = "remove" /\ (dir[call[p].key] = None \/ "remove" \in Faults)
    \/ pc[p] = "scan" /\ "open" \in Faults
    \/ pc[p] = "scan" /\ call[p].op = "purge" /\ "stat" \in Faults
    \/ /\ pc[p] = "clear"
       /\ \E e \in todo[p] : dir[e.key] = None \/ "remove" \in Faults
    \/ /\ pc[p] = "purge"
       /\ ~PurgeEnough(p)
       /\ \E e \in Oldest(p) : dir[e.key] = None \/ "open" \in Faults

Fails(p) ==
    /\ CanFail(p)
    /\ Exit(p, FALSE)
    /\ UNCHANGED <<work, item, locks, disk>>

-----------------------------------------------------------------------------
(* A process dies: the kernel closes what it had open.                     *)

Crash(c) ==
    /\ "crash" \in Faults
    /\ fd[c] # "closed"
    /\ LET Mine == {p \in Procs : InstanceOf[p] = c}
           Reset(f, v) == [p \in Procs |-> IF p \in Mine THEN v ELSE f[p]]
       IN  /\ pc' = Reset(pc, "idle")
           /\ call' = Reset(call, NoCall)
           /\ ci' = Reset(ci, 0)
           /\ todo' = Reset(todo, {})
           /\ removed' = Reset(removed, 0)
           /\ item' = Reset(item, "none")
           /\ ofd' = [o \in Ofds |-> IF o[1] \in Mine THEN Closed ELSE ofd[o]]
    /\ fd' = [fd EXCEPT ![c] = "closed"]
    /\ cacheLock' = IF cacheLock = c THEN None ELSE cacheLock
    /\ UNCHANGED <<info, dir, clock>>
    /\ Reclaim

\* Time passes.
Tick ==
    /\ clock < MaxClock
    /\ clock' = clock + 1
    /\ UNCHANGED <<pc, call, work, item, locks, info, dir, file>>

-----------------------------------------------------------------------------
Caller(p) ==
    \/ InitializeCreate(p) \/ InitializeOpen(p)
    \/ CallPut(p) \/ CallPutData(p) \/ CallPutItem(p) \/ CallGet(p)
    \/ CallDel(p) \/ CallClear(p) \/ CallPurge(p)
    \/ UserWrite(p) \/ DropPutItem(p) \/ CloseItem(p)

\* A step of a method that holds the lock on the cache.
Body(p) ==
    \/ CreateKey(p) \/ OpenKey(p) \/ LockItem(p) \/ OpenSource(p)
    \/ CopyChunk(p) \/ CopyDone(p) \/ CopyReadError(p) \/ WriteData(p)
    \/ WriteFails(p) \/ RemoveKey(p) \/ ReadInfo(p) \/ WriteInfo(p)
    \/ Scan(p) \/ ClearRemove(p) \/ ClearDone(p)
    \/ PurgeReadInfo(p) \/ PurgeLock(p) \/ PurgeSkip(p) \/ PurgeRemove(p)
    \/ PurgeDone(p) \/ Fails(p)

\* A call in progress, from the lock on the cache to the end of the call.
Step(p) ==
    \/ Body(p) \/ LockCacheFails(p) \/ Return(p)
    \/ InitializeWrite(p) \/ InitializeFails(p)

Next ==
    \/ \E p \in Procs : Caller(p) \/ LockCache(p) \/ Step(p)
    \/ \E c \in Instances : Destroy(c) \/ Crash(c)
    \/ Tick

Spec == Init /\ [][Next]_vars

\* A thread of control that is inside a method goes on; the kernel grants a
\* contended flock to each waiter in turn; ~Item() follows ~PutItem().
Fairness ==
    \A p \in Procs :
        /\ WF_vars(Step(p))
        /\ SF_vars(LockCache(p))
        /\ WF_vars(pc[p] = "close_item" /\ CloseItem(p))

FairSpec == Spec /\ Fairness

=============================================================================
