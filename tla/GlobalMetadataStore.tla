------------------------ MODULE GlobalMetadataStore ------------------------
(***************************************************************************)
(* GlobalMetadataStore (bes_utils/GlobalMetadataStore.{h,cc}): the DDS,    *)
(* DAS and DMR responses of data sets, kept as files that several server   *)
(* processes share.  A process locks a file by its name in the             *)
(* BESFileLockingCache it extends, which is not in the repository; the     *)
(* section "External" says what the code relies on.                        *)
(*                                                                         *)
(* A response is two parts, so that a file can hold half of one.  An       *)
(* ofstream keeps parts in its buffer until it is closed.  Other programs  *)
(* modify the data sets; time passes in whole seconds, as st_mtime counts. *)
(***************************************************************************)
EXTENDS Integers, Sequences, FiniteSets

CONSTANTS
    Procs,       \* processes of the server
    Names,       \* data sets
    Suffixes,    \* of {"dds_r", "das_r", "dmr_r", "dmrpp_r"}
    Pool,        \* per item: the inodes its files may have
    None,
    Ops,         \* the operations each process calls
    Faults,      \* per process: of {"open", "writer", "purge", "lmt", "crash"}
    Unlimited,   \* processes whose configuration gives the store no limit
    MaxItems,    \* for the others: responses beyond which it is too big
    MaxClock     \* bound on time

Items == Names \X Suffixes
Inodes == UNION {Pool[it] : it \in Items}

ASSUME StoreAssumption ==
    /\ Inodes \subseteq Nat /\ IsFiniteSet(Inodes)
    /\ MaxItems \in Nat /\ MaxClock \in Nat
    /\ None \notin Procs \cup Names \cup Inodes
    /\ Unlimited \subseteq Procs

\* The responses an operation stores, removes or reads, in this order.
Responses ==
    [add_dds       |-> <<"dds_r", "das_r">>,
     add_dmr       |-> <<"dmr_r">>,
     remove        |-> <<"dds_r", "das_r", "dmr_r", "dmrpp_r">>,
     write_dds     |-> <<"dds_r">>,
     get_dds       |-> <<"dds_r", "das_r">>,
     get_dmr       |-> <<"dmr_r">>,
     parse_das     |-> <<"das_r">>,
     write_das     |-> <<"das_r">>,
     write_dmr     |-> <<"dmr_r">>,
     write_dmrpp   |-> <<"dmrpp_r">>,
     has_dds       |-> <<"dds_r">>,
     has_das       |-> <<"das_r">>,
     has_dmr       |-> <<"dmr_r">>,
     has_dmrpp     |-> <<"dmrpp_r">>,
     dds_available   |-> <<"dds_r">>,
     das_available   |-> <<"das_r">>,
     dmr_available   |-> <<"dmr_r">>,
     dmrpp_available |-> <<"dmrpp_r">>]

ToDo(op) == SelectSeq(Responses[op], LAMBDA s : s \in Suffixes)

ASSUME OpsAssumption ==
    /\ None \notin Items
    /\ \A p \in Procs : \A op \in Ops[p] : ToDo(op) \in Seq(Suffixes) \ {<<>>}

Writes == {"write_dds", "write_das", "write_dmr", "write_dmrpp"}

\* is_dds_available(name), ...
TakesName(op) == op \in {"has_dds", "has_das", "has_dmr", "has_dmrpp"}

\* is_dds_available(container), ...: the container knows the data set, so that
\* its time can be compared with that of the response.
TakesContainer(op) ==
    op \in {"dds_available", "das_available", "dmr_available", "dmrpp_available"}

VARIABLES
    clock,
    data,   \* the data sets: their st_mtime
    dir,    \* the cache directory: item to inode
    file,   \* the inodes: body and st_mtime
    locks,  \* per process: the locked files of BESFileLockingCache
    out,    \* per process: the ofstream `response` and the parts in its buffer
    held,   \* per process: the MDSReadLock the caller owns
    pc, call,
    raced   \* history: a file was unlinked before its writer had opened it

store == <<dir, file, raced>>
world == <<clock, data>>
vars == <<world, store, locks, out, held, pc, call>>

NoFile == [body |-> <<>>, mtime |-> 0]
NoCall == [op |-> None, name |-> None, todo |-> <<>>, got |-> <<>>, fd |-> None, lmt |-> 0]
Closed == [ino |-> None, left |-> 0]
NotHeld == [item |-> None, lmt |-> 0]

\* The parts of a response; a parser accepts nothing less and nothing more.
Whole == <<1, 2>>

\* The item a process works on.
Item(p) == <<call[p].name, Head(call[p].todo)>>

Linked == {it \in Items : dir[it] # None}

-----------------------------------------------------------------------------
(* External: BESFileLockingCache.  fcntl() locks belong to processes and   *)
(* files; the cache records them under the name of the item.               *)

Conflicts(p, i, mode) ==
    \E q \in Procs \ {p} : \E l \in locks[q] :
        l.ino = i /\ (mode = "ex" \/ l.mode = "ex")

Locked(p, it, i, mode) ==
    locks[p] \cup {[item |-> it, ino |-> i, mode |-> mode]}

\* unlock_and_close(name): every lock the process has under that name.
Unlocked(p, it) == {l \in locks[p] : l.item # it}

InUse(i, d, ls, o) ==
    \/ \E it \in Items : d[it] = i
    \/ \E q \in Procs : o[q].ino = i \/ \E l \in ls[q] : l.ino = i

\* An inode without a name that nobody has open is gone.
Collected(f, d, ls, o) ==
    [i \in Inodes |-> IF InUse(i, d, ls, o) THEN f[i] ELSE NoFile]

\* open(O_CREAT) of an item that is not there; i is an unused inode.
IsFree(it, i) == /\ i \in Pool[it] /\ ~InUse(i, dir, locks, out)
                 /\ \A j \in Pool[it] : InUse(j, dir, locks, out) \/ i <= j

MakeFile(it, i) ==
    /\ dir' = [dir EXCEPT ![it] = i]
    /\ file' = [file EXCEPT ![i] = [NoFile EXCEPT !.mtime = clock]]

\* unlink() of items, whoever has them open.
Unlink(its, by) ==
    /\ dir' = [it \in Items |-> IF it \in its THEN None ELSE dir[it]]
    /\ raced' = (raced \/ \E q \in Procs \ {by} : pc[q] = "open" /\ Item(q) \in its)

-----------------------------------------------------------------------------
Init ==
    /\ clock = 0
    /\ data = [n \in Names |-> 0]
    /\ dir = [it \in Items |-> None]
    /\ file = [i \in Inodes |-> NoFile]
    /\ locks = [p \in Procs |-> {}]
    /\ out = [p \in Procs |-> Closed]
    /\ held = [p \in Procs |-> NotHeld]
    /\ pc = [p \in Procs |-> "idle"]
    /\ call = [p \in Procs |-> NoCall]
    /\ raced = FALSE

Goto(p, l) == pc' = [pc EXCEPT ![p] = l]

\* The call ends, with an answer or with an exception.
Finish(p) == Goto(p, "idle") /\ call' = [call EXCEPT ![p] = NoCall]
Throw(p) == Finish(p)

\* On to the next response of the call c, or to `last` after the last one.
Advance(p, c, first, last) ==
    /\ call' = [call EXCEPT ![p] = IF Len(c.todo) = 1 /\ last = "idle"
                                   THEN NoCall
                                   ELSE [c EXCEPT !.todo = Tail(@)]]
    /\ Goto(p, IF Len(c.todo) = 1 THEN last ELSE first)

EntryOf(op) ==
    CASE op \in {"add_dds", "add_dmr"} -> "create"
      [] op = "remove" -> "remove"
      [] TakesName(op) \/ TakesContainer(op) -> "lookup"
      [] OTHER -> "fetch"

\* Bound: a process that left an exclusive lock behind calls no more.
\* A caller that owns an MDSReadLock reads, or lets it go: see add_attributes() in
\* netcdf/retired/NCRequestHandler.cc.
Call(p) ==
    /\ pc[p] = "idle"
    /\ \A l \in locks[p] : l.mode = "sh"
    /\ \E op \in Ops[p], n \in Names :
        /\ held[p] # NotHeld => EntryOf(op) = "fetch"
        /\ call' = [call EXCEPT ![p] =
                      [NoCall EXCEPT !.op = op, !.name = n,
                                     !.todo = ToDo(op)]]
        /\ Goto(p, EntryOf(op))
    /\ UNCHANGED <<world, store, locks, out, held>>

-----------------------------------------------------------------------------
(* store_dap_response()                                                    *)

\* create_and_lock(): O_EXCL, under the lock of the cache.
CreateAndLock(p) ==
    /\ pc[p] = "create"
    /\ dir[Item(p)] = None
    /\ \E i \in Inodes :
        /\ IsFree(Item(p), i)
        /\ MakeFile(Item(p), i)
        /\ locks' = [locks EXCEPT ![p] = Locked(p, Item(p), i, "ex")]
    /\ Goto(p, "open")
    /\ UNCHANGED <<world, raced, out, held, call>>

\* Mutant: the item is opened without O_EXCL.
CreateFailsNot(p) ==
    /\ pc[p] = "create"
    /\ dir[Item(p)] # None
    /\ ~Conflicts(p, dir[Item(p)], "ex")
    /\ locks' = [locks EXCEPT ![p] = Locked(p, Item(p), dir[Item(p)], "ex")]
    /\ Goto(p, "open")
    /\ UNCHANGED <<world, store, out, held, call>>

\* The key is in use.
CreateFails(p) ==
    /\ pc[p] = "create"
    /\ dir[Item(p)] # None
    /\ Goto(p, "probe")
    /\ UNCHANGED <<world, store, locks, out, held, call>>

\* Mutant: get_exclusive_lock() of the key in use.
ProbeExclusive(p) ==
    /\ pc[p] = "probe"
    /\ dir[Item(p)] # None => ~Conflicts(p, dir[Item(p)], "ex")
    /\ locks' = [locks EXCEPT ![p] = Unlocked(p, Item(p))]
    /\ file' = Collected(file, dir, locks', out)
    /\ Advance(p, call[p], "create", "ledger")
    /\ UNCHANGED <<world, dir, raced, out, held>>

\* get_read_lock() of the key in use, unlock_and_close(), false.
Probe(p) ==
    /\ pc[p] = "probe"
    /\ \/ /\ dir[Item(p)] = None
          /\ Throw(p)
          /\ UNCHANGED <<locks, file>>
       \/ /\ dir[Item(p)] # None
          /\ ~Conflicts(p, dir[Item(p)], "sh")
          /\ locks' = [locks EXCEPT ![p] = Unlocked(p, Item(p))]
          /\ file' = Collected(file, dir, locks', out)
          /\ Advance(p, call[p], "create", "ledger")
    /\ UNCHANGED <<world, dir, raced, out, held>>

\* The ofstream is opened by name: the locked file, or, when that was
\* unlinked meanwhile, whatever has its name, or a new file without a lock.
OpenResponse(p) ==
    /\ pc[p] = "open"
    /\ \E i \in Inodes :
        /\ \/ dir[Item(p)] = i /\ UNCHANGED <<dir, file>>
           \/ dir[Item(p)] = None /\ IsFree(Item(p), i) /\ MakeFile(Item(p), i)
        /\ out' = [out EXCEPT ![p] = [ino |-> i, left |-> 2]]
    /\ Goto(p, "write")
    /\ UNCHANGED <<world, raced, locks, held, call>>

\* It cannot be opened: the exception leaves the item locked.
OpenFails(p) ==
    /\ pc[p] = "open"
    /\ "open" \in Faults[p]
    /\ Throw(p)
    /\ UNCHANGED <<world, store, locks, out, held>>

\* n parts leave the buffer of the ofstream of p.
Appended(p, n) ==
    LET old == file[out[p].ino]
        parts == SubSeq(Whole, 3 - out[p].left, 2 - out[p].left + n)
    IN [file EXCEPT ![out[p].ino] =
           [body |-> old.body \o parts,
            mtime |-> IF n > 0 THEN clock ELSE old.mtime]]

\* writer(response): the end of the response stays in the buffer.
Stream(p) ==
    /\ pc[p] = "write"
    /\ \E n \in 0..1 :
        /\ file' = Appended(p, n)
        /\ out' = [out EXCEPT ![p].left = @ - n]
    /\ UNCHANGED <<world, dir, raced, held, call>>

\* Then, where the store has a limit, exclusive_to_shared_lock() and
\* update_cache_info().
Writer(p) ==
    /\ Stream(p)
    /\ p \notin Unlimited
    /\ locks' = [locks EXCEPT ![p] =
          {IF l.item = Item(p) THEN [l EXCEPT !.mode = "sh"] ELSE l : l \in @}]
    /\ Goto(p, "purge")

\* A store without a limit is never measured (GlobalMetadataStore.cc:68).
WriterUnlimited(p) ==
    /\ Stream(p)
    /\ p \in Unlimited
    /\ Goto(p, "unlock")
    /\ UNCHANGED locks

\* The writer throws, with some of the response written.
WriterFails(p) ==
    /\ Stream(p)
    /\ "writer" \in Faults[p]
    /\ Goto(p, "undo")
    /\ UNCHANGED locks

\* update_and_purge(), under the lock of the cache: other responses that nobody
\* has locked go, until the store is small enough or no such response is left.
Victims(p) == {it \in Linked \ {Item(p)} : ~Conflicts(p, dir[it], "ex")}

\* How many responses have to go.
Excess == IF Cardinality(Linked) <= MaxItems THEN 0
                                            ELSE Cardinality(Linked) - MaxItems

Purge(p) ==
    /\ pc[p] = "purge"
    /\ \E its \in SUBSET Victims(p) :
        /\ Cardinality(its) = IF Excess <= Cardinality(Victims(p)) THEN Excess
                              ELSE Cardinality(Victims(p))
        /\ Unlink(its, p)
        /\ file' = Collected(file, dir', locks, out)
    /\ Goto(p, "unlock")
    /\ UNCHANGED <<world, locks, out, held, call>>

\* update_cache_info() or update_and_purge() throws: some of the responses
\* are gone, and the lock on the new one is a shared lock already.
PurgeFails(p) ==
    /\ pc[p] = "purge"
    /\ "purge" \in Faults[p]
    /\ \E its \in SUBSET Victims(p) :
        /\ Cardinality(its) <= Excess
        /\ Unlink(its, p)
        /\ file' = Collected(file, dir', locks, out)
    /\ Goto(p, "undo_purge")
    /\ UNCHANGED <<world, locks, out, held, call>>

Unlock(p) ==
    /\ pc[p] = "unlock"
    /\ locks' = [locks EXCEPT ![p] = Unlocked(p, Item(p))]
    /\ file' = Collected(file, dir, locks', out)
    /\ Goto(p, "close")
    /\ UNCHANGED <<world, dir, raced, out, held, call>>

\* The function returns, and the destructor of the ofstream writes what is
\* left in its buffer.
CloseResponse(p) ==
    /\ pc[p] = "close"
    /\ out' = [out EXCEPT ![p] = Closed]
    /\ file' = Collected(Appended(p, out[p].left), dir, locks, out')
    /\ Advance(p, call[p], "create", "ledger")
    /\ UNCHANGED <<world, dir, raced, locks, held>>

\* Mutant: the stream stays open.
UndoLeavesOpen(p) ==
    /\ pc[p] \in {"undo", "undo_purge"}
    /\ Unlink({Item(p)}, p)
    /\ locks' = [locks EXCEPT ![p] = Unlocked(p, Item(p))]
    /\ file' = Collected(file, dir', locks', out)
    /\ Throw(p)
    /\ UNCHANGED <<world, out, held>>

\* What the ofstream still has in its buffer: the rest of the response, or,
\* when the writer threw, what it had got to.
Buffered(p) == IF pc[p] = "undo_purge" THEN {out[p].left} ELSE 0..1

\* catch (...): close, purge_file(), unlock, rethrow.
Undo(p) ==
    /\ pc[p] \in {"undo", "undo_purge"}
    /\ Unlink({Item(p)}, p)
    /\ locks' = [locks EXCEPT ![p] = Unlocked(p, Item(p))]
    /\ out' = [out EXCEPT ![p] = Closed]
    /\ \E n \in Buffered(p) :
          file' = Collected(Appended(p, n), dir', locks', out')
    /\ Throw(p)
    /\ UNCHANGED <<world, held>>

-----------------------------------------------------------------------------
(* write_ledger(): "ledger_write" is holding the exclusive lock on it.     *)

LockLedger(p) ==
    /\ pc[p] = "ledger"
    /\ \A q \in Procs : pc[q] # "ledger_write"
    /\ Goto(p, "ledger_write")
    /\ UNCHANGED <<world, store, locks, out, held, call>>

\* The exception undoes nothing of what was stored or removed.
LockLedgerFails(p) ==
    /\ pc[p] = "ledger"
    /\ "open" \in Faults[p]
    /\ Throw(p)
    /\ UNCHANGED <<world, store, locks, out, held>>

\* The member `of` was never opened, so the entry is lost.  Every path, that of
\* an exception too, unlocks the ledger.
WriteLedger(p) ==
    /\ pc[p] = "ledger_write"
    /\ Finish(p)
    /\ UNCHANGED <<world, store, locks, out, held>>

-----------------------------------------------------------------------------
(* remove_responses(): unlink() without a lock, one response at a time.    *)

RemoveResponse(p) ==
    /\ pc[p] = "remove"
    /\ Unlink({Item(p)}, p)
    /\ file' = Collected(file, dir', locks, out)
    /\ Advance(p, call[p], "remove", "ledger")
    /\ UNCHANGED <<world, locks, out, held>>

-----------------------------------------------------------------------------
(* is_dds_available(container), is_das_available(name), ...                *)

\* get_read_lock_helper(); the methods that take a name end here.
Lookup(p) ==
    /\ pc[p] = "lookup"
    /\ \/ /\ dir[Item(p)] = None
          /\ Finish(p)
          /\ UNCHANGED <<locks, held>>
       \/ /\ dir[Item(p)] # None
          /\ ~Conflicts(p, dir[Item(p)], "sh")
          /\ locks' = [locks EXCEPT ![p] = Locked(p, Item(p), dir[Item(p)], "sh")]
          /\ held' = [held EXCEPT ![p] = [item |-> Item(p), lmt |-> 0]]
          /\ IF TakesContainer(call[p].op) THEN Goto(p, "get_lmt") /\ UNCHANGED call
             ELSE Finish(p)
    /\ UNCHANGED <<world, store, out>>

\* is_available_helper(): first the time of the data.
GetLmt(p) ==
    /\ pc[p] = "get_lmt"
    /\ call' = [call EXCEPT ![p].lmt = data[call[p].name]]
    /\ Goto(p, "get_cache_lmt")
    /\ UNCHANGED <<world, store, locks, out, held>>

\* ~MDSReadLock() and clearLock()
ClearLock(p) ==
    /\ locks' = [locks EXCEPT ![p] = Unlocked(p, held[p].item)]
    /\ held' = [held EXCEPT ![p] = NotHeld]
    /\ file' = Collected(file, dir, locks', out)

\* get_lmt() of the handler throws: ~MDSReadLock() unlocks the response.
GetLmtFails(p) ==
    /\ pc[p] = "get_lmt"
    /\ "lmt" \in Faults[p]
    /\ ClearLock(p)
    /\ Throw(p)
    /\ UNCHANGED <<world, dir, raced, out>>

\* Mutant: the times compared the other way round.
ReloadSwapped(p) == call[p].lmt < file[dir[Item(p)]].mtime

\* The data are newer than the response.
Reload(p) == call[p].lmt > file[dir[Item(p)]].mtime

\* get_cache_lmt(): the time of the file that has the name now.
GetCacheLmt(p) ==
    /\ pc[p] = "get_cache_lmt"
    /\ \/ /\ dir[Item(p)] = None
          /\ ClearLock(p)
          /\ Throw(p)
       \/ /\ dir[Item(p)] # None
          /\ Reload(p)
          /\ ClearLock(p)
          /\ Finish(p)
       \/ /\ dir[Item(p)] # None
          /\ ~Reload(p)
          /\ held' = [held EXCEPT ![p].lmt = call[p].lmt]
          /\ Finish(p)
          /\ UNCHANGED <<locks, file>>
    /\ UNCHANGED <<world, dir, raced, out>>

\* The MDSReadLock of the caller goes out of scope.
DropLock(p) ==
    /\ pc[p] = "idle"
    /\ held[p] # NotHeld
    /\ ClearLock(p)
    /\ UNCHANGED <<world, dir, raced, out, pc, call>>

-----------------------------------------------------------------------------
(* write_response_helper(), get_dds_object(), parse_das_from_mds()         *)

\* get_read_lock()
Fetch(p) ==
    /\ pc[p] = "fetch"
    /\ \/ /\ dir[Item(p)] = None
          /\ Throw(p)
          /\ UNCHANGED locks
       \/ /\ dir[Item(p)] # None
          /\ ~Conflicts(p, dir[Item(p)], "sh")
          /\ locks' = [locks EXCEPT ![p] = Locked(p, Item(p), dir[Item(p)], "sh")]
          /\ call' = [call EXCEPT ![p].fd = dir[Item(p)]]
          /\ Goto(p, "transfer")
    /\ UNCHANGED <<world, store, out, held>>

\* parse_das_from_mds() gives DAS::parse() the name of the file it has
\* locked; the others read the descriptor get_read_lock() returned.
Source(p) == IF call[p].op = "parse_das" THEN dir[Item(p)] ELSE call[p].fd

\* transfer_bytes()
Transfer(p) ==
    /\ pc[p] = "transfer"
    /\ call' = [call EXCEPT ![p].got = IF Source(p) = None THEN <<>>
                                       ELSE file[Source(p)].body]
    /\ Goto(p, "release")
    /\ UNCHANGED <<world, store, locks, out, held>>

\* A parser throws when it does not get a whole response; write_*_response()
\* sends what there is.
Accepted(p) == call[p].op \in Writes \/ call[p].got = Whole

\* Mutant: unlocks only when the parser does not throw.
ReleaseKeepsLock(p) ==
    /\ pc[p] = "release"
    /\ IF Accepted(p)
       THEN /\ locks' = [locks EXCEPT ![p] = Unlocked(p, Item(p))]
            /\ file' = Collected(file, dir, locks', out)
            /\ Advance(p, call[p], "fetch", "idle")
       ELSE Throw(p) /\ UNCHANGED <<locks, file>>
    /\ UNCHANGED <<world, dir, raced, out, held>>

\* unlock_and_close(), whether or not the parser threw.
Release(p) ==
    /\ pc[p] = "release"
    /\ locks' = [locks EXCEPT ![p] = Unlocked(p, Item(p))]
    /\ file' = Collected(file, dir, locks', out)
    /\ IF Accepted(p)
       THEN Advance(p, [call[p] EXCEPT !.fd = None, !.got = <<>>], "fetch", "idle")
       ELSE Throw(p)
    /\ UNCHANGED <<world, dir, raced, out, held>>

-----------------------------------------------------------------------------
(* The rest of the world.                                                  *)

\* A process dies while it stores a response or writes the ledger: its locks
\* go, and what its ofstream had not written.  (Elsewhere a crash only ends
\* locks.)
Crash(p) ==
    /\ "crash" \in Faults[p]
    /\ pc[p] \in {"open", "write", "purge", "unlock", "close", "ledger_write"}
    /\ locks' = [locks EXCEPT ![p] = {}]
    /\ out' = [out EXCEPT ![p] = Closed]
    /\ held' = [held EXCEPT ![p] = NotHeld]
    /\ file' = Collected(file, dir, locks', out')
    /\ call' = [call EXCEPT ![p] = NoCall]
    /\ Goto(p, "dead")
    /\ UNCHANGED <<world, dir, raced>>

\* Another program writes a data set.
Modify(n) ==
    /\ data' = [data EXCEPT ![n] = clock]
    /\ UNCHANGED <<clock, store, locks, out, held, pc, call>>

Tick ==
    /\ clock < MaxClock
    /\ clock' = clock + 1
    /\ UNCHANGED <<data, store, locks, out, held, pc, call>>

\* The steps that may have to wait for a lock.
Waiting(p) == Probe(p) \/ LockLedger(p) \/ Lookup(p) \/ Fetch(p)

Step(p) ==
    \/ CreateAndLock(p) \/ CreateFails(p) \/ OpenResponse(p) \/ OpenFails(p)
    \/ Writer(p) \/ WriterUnlimited(p) \/ WriterFails(p)
    \/ Purge(p) \/ PurgeFails(p) \/ Unlock(p) \/ CloseResponse(p) \/ Undo(p)
    \/ LockLedgerFails(p) \/ WriteLedger(p) \/ RemoveResponse(p)
    \/ GetLmt(p) \/ GetLmtFails(p) \/ GetCacheLmt(p) \/ Transfer(p) \/ Release(p)
    \/ Waiting(p)

Next ==
    \/ \E p \in Procs : Call(p) \/ Step(p) \/ DropLock(p) \/ Crash(p)
    \/ \E n \in Names : Modify(n)
    \/ Tick

Spec == Init /\ [][Next]_vars

\* A process in a call goes on, and fcntl() serves every waiter: a step that is
\* possible again and again is taken.
FairSpec == Spec /\ \A p \in Procs : SF_vars(Step(p))

-----------------------------------------------------------------------------
(* Properties                                                              *)

\* Types; a process has a response open exactly while it stores one.
TypeOK ==
    /\ clock \in 0..MaxClock
    /\ data \in [Names -> 0..MaxClock]
    /\ dir \in [Items -> Inodes \cup {None}]
    /\ \A i \in Inodes : file[i].mtime \in 0..clock
    /\ \A p \in Procs :
        /\ \A l \in locks[p] : l.item \in Items /\ l.ino \in Inodes
                                /\ l.mode \in {"sh", "ex"}
        /\ out[p].left \in 0..2
        /\ out[p] # Closed <=>
               pc[p] \in {"write", "purge", "unlock", "close", "undo", "undo_purge"}
        /\ pc[p] \in {"idle", "dead"} <=> call[p] = NoCall
        /\ held[p] = NotHeld \/ held[p].item \in Items

\* When a call ends, with an answer or an exception, the process holds no lock
\* but that of the caller's MDSReadLock.  The exception for a response that
\* could not be opened is thrown outside the try, and leaves an exclusive one.
NoLockLeftBehind ==
    \A p \in Procs : pc[p] = "idle" =>
        \A l \in locks[p] : l.item = held[p].item
                            \/ ("open" \in Faults[p] /\ l.mode = "ex")

\* A response is served under an MDSReadLock only if it was written no earlier
\* than the data set was modified, as of the check, although the check and
\* the read both go by name and the file may be another one each time.
ServedNotOlder ==
    \A p \in Procs :
        pc[p] = "release" /\ held[p].item = Item(p) /\ call[p].op # "parse_das" =>
            file[call[p].fd].mtime >= held[p].lmt

\* As long as nothing was unlinked between create_and_lock() and the opening
\* of the stream, a file holds at most one response: two processes that add
\* the same data set never write one file.
FileHoldsOneResponse ==
    ~raced => \A i \in Inodes : file[i].body \in {<<>>, <<1>>, Whole}

\* A file of the store is written under the lock of its item: the stream is
\* "directed at the locked cache file" (GlobalMetadataStore.cc:582).
WrittenUnderLock ==
    [][\A p \in Procs, i \in Inodes :
          out[p].ino = i /\ file'[i].body # file[i].body =>
              \E l \in locks[p] : l.ino = i]_vars

\* An item is locked by a process whose store_dap_response() is over.
Abandoned == \E p \in Procs : pc[p] = "idle" /\ \E l \in locks[p] : l.mode = "ex"

\* Every call returns, unless a response could not be opened: then callers
\* wait for its item for ever.
EveryCallReturns ==
    \A p \in Procs : pc[p] # "idle" ~> (pc[p] \in {"idle", "dead"} \/ Abandoned)
=============================================================================
