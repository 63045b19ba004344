------------------------ MODULE FileCacheProperties ------------------------
(***************************************************************************)
(* What FileCache promises, and what its comments say of it.               *)
(***************************************************************************)
EXTENDS FileCache, Functions

\* p is between the lock and the unlock of the cache.
Inside(p) == pc[p] \notin {"idle", "init_write", "lock", "close_item"}

\* Some PutItem holds inode i and has not added its size to the counter yet.
Outstanding(i) ==
    \E p \in Procs : /\ item[p] = "put"
                     /\ pc[p] # "close_item"
                     /\ ofd[ItemFd(p)].ino = i

Linked == {k \in Keys : dir[k] # None}

\* What each key adds to the recorded size: the size of its file, once the
\* PutItem that made it, if one did, is destroyed.
CountedSize == [k \in Keys |-> IF dir[k] = None \/ Outstanding(dir[k])
                               THEN 0 ELSE file[dir[k]].size]

\* The sum of the sizes of the files in the cache.
TotalSize == SumFunction([k \in Keys |-> IF dir[k] = None THEN 0
                                                         ELSE file[dir[k]].size])

Labels == {"idle", "init_write", "lock", "create", "lock_item",
           "open_source", "write", "read_info", "write_info", "return",
           "open", "remove", "scan", "clear", "purge", "purge_remove",
           "close_item"}

Operations == {"put", "put_data", "put_item", "get", "del", "clear", "purge"}

Calls == [op : Operations \cup {"none", "drop"}, key : Keys \cup {None},
          size : Nat, wait : BOOLEAN, ok : BOOLEAN]

Entries == [key : Keys, size : Nat, atime : Nat]

VarTypes ==
    /\ pc \in [Procs -> Labels]
    /\ call \in [Procs -> Calls]
    /\ ci \in [Procs -> 0..(W - 1)]
    /\ todo \in [Procs -> SUBSET Entries]
    /\ removed \in [Procs -> Nat]
    /\ item \in [Procs -> {"none", "get", "put"}]
    /\ fd \in [Instances -> {"closed", "creating", "open"}]
    /\ cacheLock \in Instances \cup {None}
    /\ ofd \in [Ofds -> [ino : Inodes \cup {None}, lk : {"un", "sh", "ex"}]]
    /\ info \in CacheInfo
    /\ dir \in [Keys -> Inodes \cup {None}]
    /\ file \in [Inodes -> [size : Nat, full : BOOLEAN, atime : Nat]]
    /\ clock \in Nat

Puts == {"put", "put_data", "put_item"}
KeyOps == Puts \cup {"get", "del"}

\* What p is calling fits where p is.
StageOK(p) ==
    /\ call[p].op \in KeyOps => call[p].key \in Keys
    /\ pc[p] = "lock" => call[p].op # "none"
    /\ pc[p] = "create" => call[p].op \in Puts
    /\ pc[p] \in {"open_source", "write"} => call[p].op \in {"put", "put_data"}
    /\ pc[p] = "open" => call[p].op \in {"get", "del"}
    /\ pc[p] = "lock_item" => call[p].op \in KeyOps
    /\ pc[p] = "remove" => call[p].op = "del"
    /\ pc[p] \in {"scan", "clear"} => call[p].op \in {"clear", "purge"}
    /\ pc[p] \in {"purge", "purge_remove"} => call[p].op = "purge"
    /\ pc[p] = "purge_remove" => call[p].key \in Keys

\* Every variable of the cache has its type, and every call its place.
TypeOK == VarTypes /\ \A p \in Procs : StageOK(p)

\* lock_the_cache(): at most one caller is inside put, get, del, clear,
\* purge or ~PutItem() at a time.
MutualExclusion == \A p, q \in Procs : Inside(p) /\ Inside(q) => p = q

\* del() and purge() remove a file only under an exclusive lock on it: a file
\* that a caller holds locked keeps its name, unless clear() is running.
LockedFileSpared ==
    [][\A k \in Linked :
          dir'[k] = None /\ (\A p \in Procs : pc[p] # "clear") =>
              \A q \in Procs : ofd[ItemFd(q)].ino = dir[k] =>
                                  ofd[ItemFd(q)].lk = "un"]_vars

\* get() never returns a file whose writer, a put() or the owner of a
\* PutItem, is not done with it: create_key() and the writer's lock are one
\* step to anyone who takes the lock on the cache.
NoPartialGet ==
    \A p \in Procs :
        item[p] = "get" /\ ofd[ItemFd(p)].lk = "sh" =>
            file[ofd[ItemFd(p)].ino].full

\* Whenever the cache is unlocked, cache_info holds the sum of the sizes of
\* the cached files, except those whose PutItem is still to be destroyed.
AccountingExact ==
    cacheLock = None =>
        RecordedSize = SumFunction(CountedSize) % W

\* purge() throws away d_purge_size bytes and at most one item more.
PurgeBounded ==
    \A p \in Procs : removed[p] > 0 =>
        \E n \in Sizes : removed[p] <= PurgeSize + n

\* purge() removes the files in the order of their last use: whatever other
\* processes use, add or delete meanwhile, it never removes a file while one
\* that was used longer ago, even as of now, is still waiting to be tried.
LeastRecentlyUsedFirst ==
    [][\A p \in Procs, k \in Keys :
          PurgeRemove(p) /\ dir[k] # None /\ dir'[k] = None =>
              \A j \in Linked \ {k} : \A e \in todo[p] :
                  e.key = k /\ file[dir[j]].atime < e.atime =>
                      \A d \in todo[p] : d.key # j]_vars

\* Once stored, a file is never written again: put() does not open the file
\* of a key that exists, so the data under a reader's Item do not change.
StoredDataNeverChange ==
    [][\A i \in Inodes : file[i].full /\ file'[i].full =>
                            file'[i].size = file[i].size]_vars

\* The value of a key: the size of its file, once its writer is done with it.
Stored ==
    [k \in Keys |-> IF dir[k] # None /\ file[dir[k]].full THEN file[dir[k]].size ELSE None]

\* The key whose file a caller holds open for reading.  A file that has lost its
\* name is no key of the store, and no step of the store leads there.
Pinned ==
    [p \in Procs |->
        IF item[p] = "get" /\ ofd[ItemFd(p)].lk = "sh"
        THEN IF \E k \in Keys : dir[k] = ofd[ItemFd(p)].ino
             THEN CHOOSE k \in Keys : dir[k] = ofd[ItemFd(p)].ino
             ELSE "lost"
        ELSE None]

\* The owner of a PutItem may stop anywhere.
Amounts == {0} \cup UNION {0..n : n \in Sizes}

\* A file that is empty is not one that is missing.
ASSUME AmountsAssumption == None \notin Amounts

Store == INSTANCE SharedStore WITH Values <- Amounts, stored <- Stored, pinned <- Pinned

\* Without failures the cache is a store that its processes share: put() makes
\* a value there at once and whole, although it is many system calls and a
\* PutItem may be written to for long; get() never finds anything else; and
\* what a caller reads is neither removed, by del() or purge() of another
\* process, nor replaced, as long as it has the Item.
ImplementsSharedStore == Store!Spec

\* Every call returns: no method waits for an item with the cache locked
\* when the lock types have LOCK_NB.
EveryCallReturns ==
    \A p \in Procs : pc[p] = "lock" ~> pc[p] = "idle"

-----------------------------------------------------------------------------
\* Comments of the source that the code does not keep.

\* clear(), FileCache.h:642: "Remove all files from the cache. Zero the cache
\* info file."
ClearZeroesInfo ==
    \A p \in Procs :
        pc[p] = "return" /\ call[p].op = "clear" /\ call[p].ok =>
            RecordedSize = 0

\* put(), FileCache.h:448: "True if the data are cached, ..."
PutStoresTheData ==
    \A p \in Procs :
        pc[p] = "return" /\ call[p].op = "put" /\ call[p].ok =>
            HandleSize(p) = call[p].size

\* put(), FileCache.h:448: "... false otherwise."
FailedPutLeavesNothing ==
    \A p \in Procs :
        pc[p] = "return" /\ call[p].op = "put" /\ ~call[p].ok
          /\ ofd[OpFd(p)].ino # None =>
            dir[call[p].key] # ofd[OpFd(p)].ino

\* purge(), FileCache.h:714: the recorded size is the measured size.
PurgeSanityCheck ==
    \A p \in Procs :
        pc[p] = "purge" /\ removed[p] = 0 /\ todo[p] = Listing =>
            ci[p] = TotalSize

\* initialize(), FileCache.h:410: "When purging, remove items until this many
\* bytes remain."
PurgeLeavesPurgeSize ==
    \A p \in Procs :
        pc[p] = "write_info" /\ call[p].op = "purge" =>
            TotalSize <= PurgeSize

=============================================================================
