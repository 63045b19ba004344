# Formal models of skunk

skunk is an OPeNDAP data service: an HTTP server that answers a request for
`/opendap/<dataset>.dmr` with the DMR (the description of a data set) of a
netCDF file, and the parts of the Hyrax BES that the service is being built
from, above all its caches. This directory holds TLA+ models of those parts,
TLC configurations that check them on small instances, and TLAPS proofs.

All paths below are relative to the repository; `bes_utils/` and `netcdf/` are
in `services/opendap/src/`.

## 1. Inventory

| Component | State | Operations | Interacts with | Hard behaviour | Correct when |
|---|---|---|---|---|---|
| **FileCache** `bes_utils/FileCache.h` | a directory with a file per key, `cache_info` with the sum of their sizes, flocks on both, open descriptors | initialize, three puts, get, del, clear, purge, Item and PutItem destructors | other processes through the file system and flock(2) | interleaving of processes and threads, files in use while they are purged, crashes between system calls, partial failures, unsigned counter | one process inside at a time; no reader sees half a file; no file in use is removed; the recorded size is the sum of the sizes; every call returns |
| **MemoryCache** `bes_utils/MemoryCache.h` | a map from key to entry and a queue of keys in order of arrival, without a lock ("not thread-safe") | initialize, put (which purges), get, clear, size | callers that lock for themselves; meant for the DMR cache of DataAccess | limits that change while the cache is in use, a put that throws half way | map and queue agree; the oldest go first; no more entries than the limit |
| **ObjMemCache** `bes_utils/ObjMemCache.{h,cc}` | a map from age to entry and an index from name to age | add, get, remove, purge | single-threaded callers: the netCDF request handler (retired) gets an object and adds it when it missed | the two maps must change together; counter of ages; fractions of small sizes | maps agree, no assertion fails; least recently used goes first |
| **GlobalMetadataStore** `bes_utils/GlobalMetadataStore.{h,cc}` | responses (DDS, DAS, DMR, DMR++) of each data set as files of a locked cache, a ledger | add_responses, is_*_available, write_*_response, remove_responses, parse_das_from_mds | the BES file-locking cache (not in the repository), the handlers | a response removed while it is read, three responses added one after the other, stale responses of a data set that changed | a reader holds the file it streams; a data set has all of its responses or a caller knows |
| **BESContextManager** `bes_utils/BESContextManager.{h,cc}` | a map of contexts under a recursive mutex | set, unset, get, get_int | the metadata store, which sends a DMR with the context `xml:base` | a context set or unset between requests | the value that was got is the one that is sent |
| **BESUtil** `bes_utils/BESUtil.{h,cc}` | none | lists, URLs and paths, mkdir_p, ... | file system; FileCache makes its directory with mkdir_p | path algorithms with corner cases, mkdir_p against another process | what was put together comes apart again; a cache that is ready has its directory |
| **Logging, debug, timing** `bes_utils/BESLog`, `BESDebug`, `BESStopWatch`, `BESScrub` | streams, flags, start and stop times | write, set, start and stop | all | unsynchronized singletons, a clock that steps back | (output only) |
| **HTTP service** `opendap_service.cpp`, `handler.cpp`, `DataAccess.*` | none between requests | route `/opendap/(.+).dmr`, find_format, response headers, build of the DMR | cpp-httplib's threads, DataAccessNetCDF, the data files | a data file that is replaced or vanishes between two looks at it, exceptions outside the handler's try | every request is answered; headers and body are of one file |
| **DataAccessNetCDF** `netcdf/DataAccessNetCDF.cpp` | static configuration flags | build_dmr: variables, then attributes, each from its own open of the file | netCDF library | the file changes between the two opens; an exception leaves a netCDF handle open | the DMR describes one version of the file |
| **DDS builder** `netcdf/new_ncdds.cc` | the DDS in construction | read variables: scalar, array, grid, user-defined | netCDF, libdap | classification at its borders (no dimensions, coordinate variables) | every variable appears once with its shape |
| **DAS builder** `netcdf/ncdas.cc` | the DAS in construction | attribute containers and values | netCDF, libdap | handles and buffers on error paths | every attribute appears once with its values |
| **netCDF readers** `netcdf/NC*.cc`, `nc_util.cc` | one variable | read with a constraint | netCDF, libdap | hyperslab arithmetic, compound offsets, handles on error paths | exactly the constrained elements are read |
| **Request handler** `netcdf/retired/NCRequestHandler.cc` | four ObjMemCaches: DAS, DDS, data DDS, DMR | build DAS, DDS, data, DMR; add_attributes | ObjMemCache, the metadata store, both builders | caches filled and purged one by one over files that change, failures between them | a cached object is whole; no client goes back to an older response |
| **Earlier DDS builder** `netcdf/ncdds.cc` | the DDS in construction | read variables | netCDF, libdap | (reference for `new_ncdds.cc`) | the two agree where both give an answer |
| teapot, cpp-httplib | | | | | not modelled: a demonstration, vendored |

How they fit together: a server thread runs the handler for each request; the
handler asks `DataAccessNetCDF` for a DMR, which runs the DDS and the DAS
builder over the same file. `bes_utils/` is the next layer to be linked in: the
metadata store keeps built responses so that they are not built twice, over a
file cache that several server processes share, with memory caches in front.

## 2. Plan

The order puts the code with the hardest concurrency first.

1. **FileCache**: `FileCache`, `FileCacheProperties`, `MCFileCache`,
   `FileCacheProofs`; `SharedStore`, what it promises, and `FileCacheStoreProofs`,
   that it keeps the promise; the directory of a cache in `CacheDirectory`, with
   its proofs in `AlgorithmProofs`.
2. **DmrService**: handler, `DataAccessNetCDF`, the two builders seen as
   passes over a file that other programs replace; netCDF handles; worker
   threads. `DmrService`, `MCDmrService`, `DmrProofs`.
3. **MemoryCache** and **ObjMemCache**: exact models of the containers of
   each, with the thresholds at their limits, and `BoundedStore`, the abstract
   store that both implement.
4. **GlobalMetadataStore** on the file-locking cache it uses, with
   `MCGlobalMetadataStore`, `GlobalMetadataStoreProofs`; **XmlBase**, what it
   sends of a stored DMR, with its proofs in `DmrProofs`.
5. **NcDds**, **NcDas**, **NcRead**: the algorithms of the builders and
   readers against reference definitions, on bounded inputs; `AlgorithmProofs`,
   for what holds of any file and any variable.
6. **NCRequestHandler**: the four caches over one file,
   `NCRequestHandlerProofs`.
7. **BESUtil**: lists, URLs, paths.

`MCAlgorithms` composes the modules of sequential code (`NcDds`, `NcDas`,
`NcRead`, `XmlBase`, `BESUtil`, `CacheDirectory`); `NcDas` uses the DDS that
`NcDds` builds. What is left: descriptor numbers (`set_fd` and
the double close). A theorem still worth proving: that a file that `NcDas`
describes is closed (the second part of `GoodFileDescribed`).

## 3. FileCache

### State and actions

A thread of control (`Procs`) calls methods of the FileCache object it uses
(`InstanceOf`). The variables are those of the code and the kernel:
`fd` is `d_cache_info_fd` of each object; `info` the file `cache_info` (absent,
created and empty, or holding a size); `cacheLock` the object whose open file
description holds the flock on it; `dir` and `file` the directory and the
inodes; `ofd` the open file descriptions on cached files with their flocks;
`item` whether the caller owns an `Item` or a `PutItem`. Per thread of control,
`pc` and `call` say where in which method it is; `ci`, `todo` and `removed` are
the locals `ci_size`, `items` and `removed_bytes`.

flock(2) belongs to the open file description. Two FileCache objects have two
of them and exclude one another; two threads with one object have one, and
`LockCache` grants the lock to the second at once, as the kernel does.

Each system call is one action, but for pairs that only the holder of the lock on
the cache can tell apart: the listing and its stat()s (`Scan`), open() and flock()
of a file (`PurgeLock`), remove() and close() (`PurgeRemove`), and what `Return`
does. A method ends in `"return"`, where `Return` runs
its destructors (close the descriptor the method opened, unlock the cache).
`~PutItem` is a call of its own, `"drop"`: lock, read and write the size, unlock,
and only then `CloseItem`. `Fails` is every early `return false`; which failures
can happen is the constant `Faults`. Two failures do not end a call:
`get_cache_info_size()` and `get_file_size()` return zero, and their callers go on
with it (`SizesRead`, `SizesMeasured`). An inode lives while it is linked or open,
so that a file removed while it is in use, and a new file under its key, are two
files. The recorded size is an unsigned number modulo `W`.

Each `mutant` in the module is a plausible slip in the definition after it; the
property named in `PROJECT.json` fails when it takes that definition's place.

### Runs

| Run | Question | Bounds, and why they are enough |
|---|---|---|
| `FileCache_accounting` | Is the recorded size exact when nothing fails? In which order does purge remove, and how much? Is the cache the store that `SharedStore` specifies? | Two processes, two keys, files of size 1, clock 0 to 1: a PutItem can be open while the other process purges, deletes and puts; `MaxCacheSize` 2 is reached by two files, so that purges happen and choose; ties and strict order of use both occur. That the sizes differ from file to file is left to the proofs, which are for any `Sizes` |
| `FileCache_faults` | What survives every failure and crash? | Two processes, one key: conflicts are about one key; every failing call at every point, but those of clear(); new cache directory |
| `FileCache_liveness` | Does every call return? | Two processes, one key; `FairSpec` |

`Inodes` has one inode for each key and two for each thread of control, so
that `CreateKey` never lacks one. `W` is 3 where amounts matter (more than the
sum of all sizes) and 2 where they do not. `MaxClock` 0 stops the clock where
order does not matter.

Fairness: a thread inside a method is scheduled (`WF` on its steps), the kernel
grants a contended flock to each waiter in turn (`SF` on `LockCache`), and
`~Item` follows `~PutItem`. Nothing is assumed of callers: the owner of an Item
may keep it for ever, and calls return all the same, because item locks are
taken with `LOCK_NB`. Without `LOCK_NB` a get waits for the item with the cache
locked, and the PutItem's destructor waits for the cache: a deadlock that the
comment at FileCache.h:536 warns of, so `WaitModes` is `{FALSE}` in the runs.

### What the runs show

`SharedStore` is the promise: a value is there at once and whole, and one that
is read is neither removed nor replaced. `Stored` maps a key to the size of its
file from the step on in which its writer is done (the end of the copy, or the
beginning of `~PutItem`), `Pinned` a reader to the key of the file it has locked;
a reader whose file lost its name is nowhere in the store. `ImplementsSharedStore`
is checked without failures and without clear(): a put() that fails, or a process
that dies in it, leaves a part of a value, and clear() removes files in use.

The locking protocol between processes is sound: with separate FileCache
objects the size is exact, files in use are spared and readers get whole files.
Section 9 lists disagreements with comments, among them a `put()` that returns
false and leaves a file that get() then serves, and threads that share an object
and enter the cache together.

### The directory of a cache

`CacheDirectory` is what `initialize()` does before it opens `cache_info`, with
`mkdir_p()`: its calls of itself are the sequence `paths`, and each look at the
file system is an action. Two processes start caches at once, each with its
spelling of a path (doubled, tripled and trailing separators, relative paths).
Every system call may fail, which `faulted` records; a stat() that fails is taken
for a file that is not there (`NotFound`), and so may be the first failure of a
process only, since mkdir_p() would go on to the parent of the root.
`Place` is the kernel's resolution of a path. `DirectoryInPlace`, in run
`Algorithms_inputs`, says that a process that is ready has its directory, and
bounds the reasons for failing: one of them is the other process, since mkdir()
of a directory that has just been made answers EEXIST and mkdir_p() gives up
before the directories below it (BESUtil.cc:1274). A process alone fails on a
path with three separators in a row, where mkdir_p() makes `a` and then `a/`.
`DirectoriesInPlace` proves the property for any number of processes (section 12).

## 4. DmrService

### State and actions

A worker thread of cpp-httplib runs `handle_dmr_request()` for one request at a
time. `pc` says where it is; `path` is `data_path`; `vars` and `attrs` are the
versions of the file that `dds` and `das` were built from, which are two
variables because `get_dmr()` opens the file twice; `answer` is the response.
`file` is what is behind each path now, and `Change` is any other program that
creates, replaces or removes it: a replacement is a rename, so that a file that
is open stays what it was. Files written in place are not modelled.
`handles` counts the open netCDF handles of the process: up to `HandleLimit`,
the limit of the system on open files.

Each look at the file by its path is an action: `Access`, `Stat`, `DdsOpen`,
`DasOpen`; the passes end in `DdsRead` and `DasRead`, and `Build` is the rest of
`get_dmr()` and the printing. Between the passes and the build, an ancillary DAS
file is read, where there is one; `AncillaryFails` is libdap's `Error` at one that
is out of order, on the paths of `BadAncillary`. What is in a file is abstracted to what the two
passes make of it: `NotNetcdf` files cannot be opened, `BadVars` files make
`read_all_variables()` throw, `BadAttrs` files make
`nc_read_dataset_attributes()` throw (an attribute of a VLEN type does). The first
pass holds its handle in a `NetCDFFile`, whose destructor closes it in any case;
the second closes it on its last line only, which `DasRead` and `DasThrows` say.
An exception that is not a `libdap::Error` leaves the handler and is answered
500 by cpp-httplib (`Exception`). `MayThrow` allows such exceptions, and errors
that are not due to the file, at every place where one may come. `nc_close()`
itself does not fail in the model.

`seen` is a history variable: all the file has been while the request was under
way. The properties compare the answer with it.

### Runs

| Run | Question | Bounds, and why they are enough |
|---|---|---|
| `DmrService_served` | Does every pass return its handle, and does a good data set get its own DMR, however the other requests fare? | Two workers, two data sets and a path that is not netCDF, contents of three kinds, two handles: every handle is needed, and both workers contend for them |
| `DmrService_kinds` | Is every answer, 200, 404 or 500, explained by what the file was? Is every request answered? | `FairSpec`; one data set, four kinds of file and none, replaced at any point; every exception; lost handles bring the server to its limit |
| `DmrService_leak` | Is a data set that is there answered 200, as the test expects? | Ends in a counterexample; see `findings` |

Fairness: a thread in the handler is scheduled (`WF` on its steps). Nothing is
assumed of clients or of the programs that change files. No step of the handler
waits for another thread, so that the runs also show the absence of deadlock; a
handle is refused and not waited for.

### What the runs show

A request never fails without a reason in the file or in its ancillary file, and a
data set that is in order, as its ancillary file is, and left alone gets its own
DMR, as long as no handle was lost. The
finding: handles lost to bad attributes end the service for all data sets, with
500 for those that are in order. Section 9 lists two more disagreements.

## 5. MemoryCache and ObjMemCache

`BoundedStore` is what both promise: values by key, in an order, of which the
first may be dropped. With `Refreshes` a get moves its key to the end of the
order (least recently used), without it keys stay in order of arrival. Each
cache has a refinement mapping (`Value`, `Older`, `Store`) onto it, checked as a
property and proved as a theorem.

`MemoryCache`: `maxItems`, `purgeItems`, `fifo` and `cache` are the four members;
`reply` is the last result of get(). put() is four actions by what it finds: the
key is there (`PutUpdate`), there is room (`PutNew`), there is none and the purge
is part of the call (`PutPurge`), or the purge asks for more than there is, which
pops an empty deque (`PutPurgeUndefined`: the model stops, as anything may
follow). `PutThrows` is a `push_back()` without memory, after the map took the
entry. The class has no lock, and neither has the model: a call is an action.

`ObjMemCache`: `cache` and `index` are the two maps, `age` the counter. The
counter is 64 bits wide, the keys of the maps 32, so that what counts is the
counter modulo `W`. An assertion that fails stops the model (`aborted`), as
abort() does the program. A purge's fraction is a pair of whole numbers. With
`AddTwice` a caller may add a key that is there; the request handlers add what
get() did not find, and the runs about the promise assume that.

| Run | Question | Bounds, and why they are enough |
|---|---|---|
| `MemoryCache_fifo` | Do queue and map agree, are the oldest dropped, does a put() keep to the limit, whenever initialize() is called? | Four keys, limits from 1 to 3, refused settings, no purge larger than its limit: a purge leaves old entries, and keys come back |
| `MemoryCache_faults` | What is left when put() throws, with any settings? | As above; the model may stop in undefined behaviour, so deadlock is not checked |
| `ObjMemCache_lru` | Do the two maps agree, and are the least recently used dropped? | Four keys, threshold 2, half of the entries purged; nine uses (`MaxAge`): enough to fill the cache, purge it, use what is left and purge again |

That no assertion fails in that run (`NoAssertFails`) is proved, with `MapsAgree`,
in `TwoMapsAgree` (section 12). `ObjMemCache_lru` uses symmetry of keys and
versions: both are compared for equality only.

Neither cache waits for anything, so there is no liveness to state.

## 6. GlobalMetadataStore

### State and actions

Processes (`Procs`) store, look up, read, parse and remove the responses of a data
set. `dir` and `file` are the directory of the store and the inodes in it, as in
`FileCache`: a file lives while it is linked, open or locked. `locks` is what
`BESFileLockingCache` records, the fcntl() locks of a process by the name of the
item; that class is not in the repository, and the section "External" of the
module has what its callers rely on. `out` is the `ofstream` of
`store_dap_response()` with what is still in its buffer, and `held` the
`MDSReadLock` a caller was given. `data` is the time a data set was modified;
`clock` counts whole seconds, as `st_mtime` does.

`Call` begins an operation, `Responses` are the items it goes through, in order,
and `pc` says where it is:

- storing: `CreateAndLock` or `CreateFails` with `Probe`, then `OpenResponse`,
  `Writer`, `Purge`, `Unlock`, `CloseResponse`, for each response, and at last
  `LockLedger` and `WriteLedger`. A process whose configuration gives the store no
  limit (`Unlimited`) keeps its lock and goes on without a purge
  (`WriterUnlimited`). `OpenFails` is the exception outside the `try`;
  `WriterFails`, when the lock is still exclusive, and `PurgeFails`, when it is
  shared already, are those inside, and `Undo` is the `catch`. An exception from
  the lock of the ledger undoes nothing (`LockLedgerFails`). The stream is opened by name, and its last bytes
  leave it when it is destroyed, which is after the unlock.
- looking up: `Lookup`, and with a container `GetLmt` and `GetCacheLmt`, each of
  which looks at a file by its name once more. The handler's `get_lmt()` may throw
  (`GetLmtFails`), and the destructor of the `MDSReadLock` unlocks the item.
- reading: `Fetch`, `Transfer`, `Release`. `parse_das_from_mds()` gives the parser
  the name of the file it has locked, the others their descriptor (`Source`).
- removing: `RemoveResponse`, an unlink() without a lock.

A body is a sequence of parts, so that half a response and two responses in one
file can be told from a whole one. `raced` is a history variable: some file was
unlinked between its creation and the opening of the stream.

| Run | Question | Bounds, and why they are enough |
|---|---|---|
| `GlobalMetadataStore_store` | Is every lock given up at the end of a call? Is a response that is served under a lock as new as the check said? Do two processes ever write one file? Does every call return? | Two processes; the DDS and the DAS of one data set, which are stored one after the other; `MaxItems` 1, so that storing the second purges what it may; one second passes (`MaxClock`), so that a data set is newer than its response or is not. One process stores and removes and may fail, the other stores without a limit, looks up, and reads a DDS, and may fail to get the time of the data or crash (the other readers take the same steps on another suffix; the theorems are for all operations); `Pool` has more inodes of an item than can be in use |

Fairness: a process in a call goes on, and fcntl() serves every waiter: a step
that is possible again and again, as taking a lock that others take and give up
is, is taken (`SF` on `Step` of each process). Nothing is assumed of a caller that has an
`MDSReadLock`. A process that was left with an exclusive lock calls no more, a
bound on what follows the leak.

The store keeps its promises except in two places. The exception for a
response that cannot be opened leaves its item locked for ever, which
`NoLockLeftBehind` and `EveryCallReturns` name as their one exception
(`Abandoned`). And an unlink between the creation of a file and the opening of
its stream lets two processes write one file (`raced`, `WrittenUnderLock` in
section 9). Beyond the properties, the model also shows that readers may get a
response without its last bytes, which parsers refuse, and that two processes
that store one data set may leave the DDS of one version and the DAS of another.

### What is sent of a DMR

`XmlBase` is `insert_xml_base()` and the look at the context `xml:base` before it,
one action per turn of its loop; other requests set and unset contexts meanwhile,
under the mutex of `BESContextManager`. `Buffer` stands for the 1024 bytes that are
read at once and `Literal` for `"xml:base"`; `Chars` are the characters. A tag that
does not fit into the buffer (`TagFits`) loses bytes, since the loops run on past
what was read. `Expected` says what is required of the responses that other code
stores.

## 7. Sequential code

These modules are algorithms, checked on bounded inputs by one run. `MCInit`
chooses an input for one of them and leaves the variables of the others idle;
`MCNext` is the steps of that one. A behaviour ends when its algorithm does, so
that deadlock is not checked; there is nothing to wait for and no fairness.

- `NcDds`: `read_all_variables()` of `new_ncdds.cc`, variable by variable. What
  builds something is the set of what it builds, empty when it throws. `OldDds`
  is `ncdds.cc`, the predecessor, which is no longer in the build: the
  reference. Variables for which nc_inq_var() fails (`lost`) are left out in
  silence (new_ncdds.cc:295); `ncdds.cc` and `NcDas` throw at them. Every scalar
  becomes a Grid without Maps in the new code
  (new_ncdds.cc:300), which `LikeItsPredecessor` looks through, and every
  variable of a user-defined type throws.
- `NcDas`: `nc_read_dataset_attributes()`, one action per variable, then the
  global attributes and the unlimited dimension, then the transfer to the
  variables of the DDS that `NcDds` built (`told`). `Undescribable` is the list of
  what the handler throws at.
- `NcRead`: `read()` of every class. `NCByteRead` and the like are the calls each
  class makes, in order, with its omissions: some do not check the type, strings
  do not close the file. A Grid is parts that read for themselves, and a client
  that got an exception may try again. `Replace` is another program.
- `BESUtil`: lists, URLs and paths, taken apart and put together. `UrlExplode` has
  the caller's record as an argument, since `url_explode()` leaves what is not in
  the URL as it was; `PartsComeBack` begins with an empty one, as a `url` is
  declared.
- `CacheDirectory`: see section 3. `XmlBase`: see section 6.

| Property | Module | Question and inputs |
|---|---|---|
| `GridsAreConsistent`, `LikeItsPredecessor` | `NcDds` | Are Grids, arrays and scalars those of the file, and of the predecessor? Files of three variables of every type with up to two dimensions, named after dimensions and not |
| `VariablesHaveTheirAttributes`, `GoodFileDescribed` | `NcDas` | Does every variable get each of its attributes, with all values in order, and does only what is undescribable throw? Up to two attributes of every class of type, with names that clash with the fields of compounds and with those the code makes up |
| `ReadsWhatWasSelected` | `NcRead` | Every hyperslab of one to three dimensions; compounds nested three deep and in arrays, compared byte for byte |
| `GridReadIsComplete`, `HandlesAccounted` | `NcRead` | Grids with any of their parts sent; one failure (`MaxFailures`) at any call and a new try, files replaced at any time |
| `BaseOfContextSent` | `XmlBase` | Start tags whose bytes resemble the attribute; values longer and shorter than the old one; contexts that come and go |
| `PartsComeBack` | `BESUtil` | Lists of up to three values with quotes, escapes and delimiters; URLs with and without each part; paths of up to five characters |
| `DirectoryInPlace` | `CacheDirectory` | Two processes, eight spellings of nested directories, files in the way |

All of them are in run `Algorithms_inputs`; `GridsAreConsistent`,
`GridReadIsComplete`, `HandlesAccounted`, `BaseOfContextSent` and
`DirectoryInPlace` are also proved (section 12).

## 8. NCRequestHandler

The handler answers one request at a time, from four memory caches that do not
look at the time of the file. An object is the pair of versions that its
variables and its attributes were read from. `BuildDas`, `BuildDds`, `BuildData`,
`BuildDmr` and `AddAttributes` look into the caches; `ReadVariables` and
`ReadAttributes` read the file, and it may be replaced (`Modify`) between them, or
the reading fail (`Fail`). A cache is ObjMemCache seen from outside: `Add` may
throw out any other entries, as `ImplementsLeastRecentlyUsedStore` allows. With
`NC.UseMDS` the attributes for data come from the metadata store, which may be
told of any earlier version.

| Run | Question | Bounds, and why they are enough |
|---|---|---|
| `NCRequestHandler_caches` | Is what is cached whole, does a cached DAS keep up with the DDS, does a client ever get an older response than before? | Two data sets, so that one throws out the entries of the other; two versions of the first; `NC.CacheEntries` zero (no caches) and one |

`CachesAgree` and `NeverGoesBack` hold without the metadata store only, and are
stated so; a DMR may go back, because it is made from a cached DDS. There is
nothing to wait for: one request follows the other.

## 9. Disagreements that no run keeps

Each of these properties states what a comment, a test or an assertion of the
source says, and TLC finds a counterexample to it in a variant of a run. The
variant replaces the properties of the run by the one named and changes the
constants named.

| Property | Variant of | What the code does |
|---|---|---|
| `ClearZeroesInfo` | `FileCache_accounting`; `Ops = {"put", "clear"}` | clear() empties the directory and leaves the recorded size (FileCache.h:642 "Zero the cache info file."), so that the next purge removes files the cache has room for |
| `PutStoresTheData` | `FileCache_accounting`; `Ops = {"put", "get"}`, `Faults = {"read"}` | a read error ends the copy in put() as the end of the source does, and put() returns true (FileCache.h:448) |
| `PurgeSanityCheck` | `FileCache_accounting`; `Ops = {"put", "put_item", "purge"}`, `MaxCacheSize = 1` | the sanity check of FileCache.h:714 counts the file of an open PutItem, which is not in the recorded size yet |
| `PurgeLeavesPurgeSize` | `FileCache_accounting`; `Ops = {"put", "purge"}` | purge() removes `purge_size` bytes; FileCache.h:410 says that it removes until as many remain |
| `AccountingExact` | `FileCache_accounting`; `InitialInfo <- NoInfo`, `Ops = {"put"}` | two processes start on a new directory, and the creator's zero, written without the lock, overwrites the size of a put() by the other |
| `FailedPutLeavesNothing` | `FileCache_accounting`; `Ops = {"put", "get"}`, `Faults = {"write"}` | a put() that fails returns false and leaves its file, which is under its key and not in the recorded size (FileCache.h:448 "false otherwise"); `NoPartialGet` fails too: get() serves the half that was written |
| `MutualExclusion` | `FileCache_faults`; `InstanceOf <- SharedInstance`, no symmetry | two threads with one FileCache object are inside together, since a flock belongs to the open file description (FileCache.h:158 "It is thread-safe") |
| `DmrOfOneFile` | `DmrService_served` | get_dmr() opens the file twice; replaced in between, the DMR has the variables of one file and the attributes of another (DataAccessNetCDF.h:22) |
| `DmrHasHeaders` | `DmrService_served` | nothing calls set_dmr_response_headers(); test_handler.cpp:135 expects eight headers |
| `Invariant` | `MemoryCache_fifo` | initialize() lowers the limit of a cache that holds more |
| `NothingUndefined` | `MemoryCache_faults` | initialize(1, 3) is accepted (MemoryCache.h:113-115 ask for more than zero), and the next purge pops an empty deque |
| `QueueMatchesMap` | `MemoryCache_faults` | a put() that throws leaves an entry outside of the queue, where no purge finds it |
| `AtMostThreshold` | `ObjMemCache_lru`; `PurgeThreshold <- Fifth` | the threshold is compared before the new entry is inserted, and 0.2 of a few entries is none (ObjMemCache.h:102 "no more than this num of entries") |
| `SizesAgree` | `ObjMemCache_lru`; `AddTwice = TRUE` | a key that is added again has a second entry in one map and the old age in the other, and the assertion of size() fails |
| `NoAssertFails` | `ObjMemCache_lru`; `AddTwice = TRUE`, no symmetry | the same: the program stops |
| `WrittenUnderLock` | `GlobalMetadataStore_store` | the response is opened by name after its item was locked; removed or purged in between, it is written to a file nobody has locked (GlobalMetadataStore.cc:582 "directed at the locked cache file"). Its last bytes leave the stream when it is destroyed, after the unlock |
| `GetReturnsItsKey` | `ObjMemCache_lru`; `PurgeThreshold <- Fifth`, `Fractions <- NoFraction`, `W = 4`, `MaxAge = 4` (4 for 2^32) | a new age meets an old entry, which stays, and get() returns the object of another key (ObjMemCache.h:75-81 say that the cache evens itself out) |

Four properties hold of the inputs that the bounds and the properties name, and
not of all:

- `BaseOfContextSent` without `TagFits`: a start tag that ends behind the buffer
  of 1024 bytes is scanned past what was read, and bytes are lost
  (GlobalMetadataStore.cc:169).
- `PartsComeBack` without the restriction on `Quoted`: an escaped quote after an
  escaped backslash ends the value (BESUtil.cc:564). Without the exclusion of the
  empty list: explode() makes two values of the empty string. Without `Run`:
  normalize_path() leaves two separators of three, although BESUtil.cc:939 says
  "Removes duplicate separators".
- `DirectoryInPlace` without its last exception: "This directory is made if it
  does not exist" (FileCache.h:407) is not so when another process makes a part
  of it at the same time.

## 10. What is not modelled

In FileCache: `hash_key`, logging; the numbers of descriptors (`set_fd` and the
double close through `close(item.get_fd())`), and the file offset that threads
sharing an object share. Crashes of the whole machine are not modelled: the
model's crash is the death of a process, after which the file system is as the
last system call left it.

In DmrService: what the DDS, the DAS and the DMR contain (`NcDds` and `NcDas`
have that), the search for an ancillary DAS file and its text (libdap's: the model
has its failure only), the unlocked use of the netCDF library by several threads (the
library is not in the repository), and `DataAccess::get_dmr_file()`, which
nothing calls. In ObjMemCache: what a caller does with a pointer whose entry was
purged.

In GlobalMetadataStore: the configuration, `get_instance()` and the digest of
names; purge_file() that fails to get its lock at once; the text of the ledger, which is never written, because `initialize()`
opens a local stream of the member's name (GlobalMetadataStore.cc:378).
`transfer_bytes()` is one action, though another process may append to the file
meanwhile only in the race that `WrittenUnderLock` describes.

In the builders and readers: `transfer_attributes()` of the reader classes,
copies (`NCGrid::operator=` calls itself for ever, NCGrid.cc:84), `NCSequence` and
`NCUrl`, which read nothing, arrays of strings inside compounds (NCArray.cc:301
uses what it has not set), the text of numbers. The branches for
`NC.PromoteByteToShort` are out of reach: the flag is a private static member that
is initialized to false (DataAccessNetCDF.cpp:20) and that nothing sets; the
request handler keeps the key in a flag of its own, which no reader asks for. Values of the wrong type of
which the readers do not check are `Garbage`.

In BESUtil: escapes of XML and of hexadecimal characters, dates, MIME headers,
time-outs, copies of files, `check_path`. In BESContextManager: the conversions
to integers, which nothing in the repository calls, and the dump. In the request
handler: help and version responses and the parsing of configuration keys.

Not at all: logging, debugging and timing, which is output only; the teapot
endpoint; cpp-httplib, which is vendored.

## 11. Conventions

`PROJECT.json` lists the runs, the findings, the hazards with the properties
that watch them, and the lines of the source behind each definition. Definitions
whose comment begins with "Mutant" are slips a programmer could make in the
definition that follows; put in its place, each breaks the property that
`PROJECT.json` names with it. Runs that end in a counterexample each check one
property, which states what a comment, a test or an assertion of the source says.

## 12. Proofs

Every theorem is for all values of the constants that satisfy the module's
assumption, and names what else it assumes.

`FileCacheProofs`, with every failure and crash:

- `TypeCorrect`: `Spec => []TypeOK`. `TypeOK` also says that a call is where its
  operation goes (`StageOK`), without which the key of a call could be `None`
  where the directory is indexed by it; so the two are proved together.
- `CacheMutualExclusion`: if no two threads of control share a FileCache object
  then `Spec => []MutualExclusion`. The inductive invariant is `InsideLocked`,
  whoever is inside holds the lock of its own object; the condition is needed
  when another takes or gives up the lock; section 9 has the counterexample
  without it.
- `LockedFilesAreSpared`: under the same condition, `Spec => LockedFileSpared`.
  The invariant adds `FlockExclusive` (an exclusive flock is alone on its inode)
  and `HandleOpen` (the name that `del` and `purge` remove is still the name of
  the file they locked). `HandleOpen` holds because only the one process that is
  inside changes the directory, so mutual exclusion carries the proof.
- `PurgeIsBounded`: without any condition. The invariant is that calls, files and
  entries of a listing have sizes of `Sizes`, and that a purge which is about to
  remove a file has removed no more than `PurgeSize` yet (`RemovedFits`).
- `PurgeRemovesOldestFirst`: under the condition of the first two. A listing may be
  out of date, but a use only makes a file more recent, since none is later than the
  clock (`UsedBefore`), and no file comes into the directory while a purge is
  inside, so that what is oldest in the listing is
  at most as recent as what is still to be tried (`PurgeListing`).
- `StoredDataAreFinal`: under the same condition. The invariant `FilesInv` adds to
  the flocks who holds which file for what (`Holdings`) and what may still be
  written to (`Contents`): a file that is complete has no writer, an inode has one
  name, and an unused inode is blank.

`FileCacheStoreProofs`, with a FileCache object to each thread of control, no
failure and no clear() (`NothingFails`):

- `CacheIsSharedStore`: `Spec => ImplementsSharedStore`. On top of `FilesInv`,
  `StoreInv` says that a file that is not complete has a writer who is at it, and
  that who owns an Item owns a file that has a name. With these, each system call
  is shown to be a step of `SharedStore` (the end of the copy and the beginning of
  `~PutItem` store, a shared flock pins, its release unpins, an unlink removes) or
  to leave `Stored` and `Pinned` as they were.
- `CounterIsExact`: `Spec => []AccountingExact`, if moreover the cache began empty
  with a size of zero (`FreshInfo`; section 9 has the race of two processes that
  start on a new directory) and `Keys` is finite. `Books` is the inductive
  invariant: outside of all calls the recorded size is the total, and inside, it
  is the total less what the call has still to add, or more what it has still to
  subtract (`Owed`), modulo `W`. Sums over the files are those of `SumFunction`; the
  lemmas before it show, by cutting a finite set in two, how a sum changes with one
  value.

`DmrProofs`, of `DmrService`:

- `TypeCorrect`: `handles` stays between zero and `HandleLimit`. The lower bound
  needs `Leaked >= 0`, that at least the passes under way have a handle; the
  lemmas on each step count them, and show that a step keeps the difference
  (`Kept`) or, in the second pass only, adds to it (`Lost`).
- `HandlesAreReturned`: without `BadAttrs` and `MayThrow` the difference stays
  zero. Run `DmrService_leak` shows what becomes of the conclusion without the
  first condition.
- `AnswersHaveReasons`: with `HandleLimit >= Cardinality(Workers)`. The inductive
  invariant is `Learnt`, what a worker knows of the file's history by where it
  is: after `Access` the history holds a readable file, so a file that is gone
  when the next call looks for it has changed. `NoHandleLeft` is the counting
  argument: a worker that is refused a handle is in no pass, so there are fewer
  passes than handles, and the others are lost.
  What a build fails at is in the ancillary file, since it comes after both passes.
- `GoodDataSetsAreServed` follows from the two before, for the paths whose ancillary
  file is in order.

`DmrProofs`, of `XmlBase`, for any buffer, literal, contexts and values:

- `ContextsBaseIsSent`: of any responses of the kind that other code stores
  (`Expected`: the first `>` ends the prolog; neither a `>` nor the literal comes
  before the attribute, or anywhere in a tag without it; the byte before the
  attribute is none of the literal's; a value has no quotes in it).
  `Algorithms_inputs` checks that its responses are of that kind
  (`StoredResponsesExpected`). The inductive invariant `XmlInv` says, for a tag that
  fits into the buffer, where `insert_xml_base()` stands. During the scan the `j`
  bytes before `i` begin the literal, and from the attribute on `j` counts them
  from there (`Matched`). The loop starts again from nothing after a mismatch, with
  the byte after the one that did not match, so it could miss an attribute that
  begins within a false start; that it does not rests on the byte before the
  attribute, which ends every false start. A match can then only be the attribute
  itself (`MatchIsTheAttribute`), and the loop passes neither it nor the end of the
  tag (`ScanGoesOn`). In the last stage, what was sent and the part of the response
  from `i` on make up what is wanted. The lemmas before these are about strings:
  where a part stands in a concatenation (`At`), and which parts a `Document` has.

`MemoryCacheProofs`:

- `QueueAndMapAgree`: if no put() throws. `QueueMatchesMap` is inductive with
  `TypeOK` (`QueueInv`): a purge takes a prefix of the queue, whose keys are
  distinct, so that the rest of the queue is the rest of the map.
- `InvariantHolds`: if, moreover, initialize() is not called again. From the
  agreement, and `Len(fifo) <= maxItems`, by counting.
- `ImplementsFirstInFirstOutStore`: if no limit purges more than it admits
  (`SettingsFit`; otherwise the purge pops an empty queue). A purge maps to a
  `Put` of the store whose dropped keys are those of the popped prefix, which is
  closed under "older than".
- `TypeCorrect` and `QueueAlwaysLeadsToEntries`: also when put() throws. The two
  are inductive together (`LeadsInv`): `PutThrows` leaves an entry outside of the
  queue, never a key of the queue without its entry.
- `LimitIsKept`: if no put() throws; an action property, from the agreement of
  queue and map, so that the size of one is the size of the other.

`ObjMemCacheProofs`, with `~AddTwice` and `MaxAge < W` for the first two:

- `TwoMapsAgree`: `MapsAgree` and `NoAssertFails` together, with the fact that no
  entry is older than the counter says (`IInv`): a new age is then a new key of
  the map, which is where the wrap-around breaks the proof, and the program.
- `ImplementsLeastRecentlyUsedStore`: a purge drops the first entries in order of
  age, and these are closed under "older than".
- `ThresholdHolds`: if a purge of a cache that is one over the threshold drops at
  least one entry (`PurgesSome`; section 9 has `AtMostThreshold` with a fraction
  that does not). It needs neither discipline nor fresh ages, as it counts the
  entries of one map.

`GlobalMetadataStoreProofs`, with every failure and crash, if each operation that
is used has a response to work on (`OpsAssumption`):

- `LocksAreGivenUp`: the inductive invariant says of each process where it may
  hold which lock (`LocksOf`): between the steps of a call that of its caller and,
  in the stages of `Holding`, that of its item; before the stream is open an
  exclusive one, which is what `OpenFails` leaves. It needs that a process that
  works has an item (`Shapes`), which the advance from response to response has
  to keep. A lookup begins without any lock, because the caller has none and
  `Call` is not made while a lock is left; so the lock that it hands over is the
  only one.
- `TypeCorrect`: the invariant `Types` adds to `TypeOK` that the last part of a
  response is in the buffer while its stream is open, and that a reader has the
  file it reads locked.
- `ServedIsNotOlder`: `Fresh` says it of the file that has the name now, and of the
  one a reader has open. The lemmas `Effects` and `FilesAge` sum up what a step may
  do to names and files, so that the proof is about these effects and not about
  twenty actions: the file of a name is replaced by a newer one only, since a new
  file has the time of the clock, and what was checked is no newer than that.
- `OneResponseInAFile`: `Written` says that a file has one name, and, while nothing
  was unlinked under a writer (`~raced`), that a file has one writer, holds what
  that writer has sent, and that who is about to open a stream has an empty file to
  itself.

`NCRequestHandlerProofs`, for any number of data sets, versions and entries:

- `WholeSafe`: the inductive invariant `Inv` is `CachedIsWhole` with the types and
  what the step of a build implies of `response` (`BuiltInOrder`): before the
  attributes are read for a DDS or a DMR, its variables were. `AddKeeps` is the
  lemma on ObjMemCache: whatever add() throws out, what is left was there or is
  what was added.
- `AgreeSafe` and `NeverGoesBackSafe`: the invariant `Order` holds without the
  metadata store only. It relates the caches, the answers a client has had and
  the file: what a cache holds is no newer than the file, the attributes of a
  cached DDS are no newer than the cached DAS, and an answer that was given is no
  newer than what would be built now, in the cache or from the file.

`AlgorithmProofs`, for any number of parts, variables and dimensions, and for any
number of processes that open caches:

- `ReadGridIsComplete` and `HandlesAreAccounted`: for variables whose parts are of
  the classes that have a `read()` (`Readable`), any number of failures and later
  tries, and files that are replaced at any time. The calls that are left of a
  `read()` are the end of a list that opens first, gets its data last or, where it
  closes, next to last, and closes at the end (`Rest`). `ReadInv` relates them to
  the flags: a part gets its data only when it has none, the parts before the
  present one have theirs, and a file is open for the present `read()` exactly
  between its first call and its last (`InFile`); so that what is open beyond that
  was left by a failure or a string.
- `DeclaredGridsAreConsistent`: for files in which names are unique and variables
  have dimensions of the file, and whose variables of user-defined types are refused
  (`Accepted`). That `build_user_defined()` refuses every user-defined type is an
  induction over the nesting of types, and `Algorithms_inputs` checks it on those of
  its instance. Which variables are `lost` does not matter. The invariant is that
  each declaration is one that `Declare` makes of a variable of the file; the rest is a lemma about each way to declare a variable. A
  Grid is no Map of itself because the coordinate variable that was found for a
  dimension is another variable, which has another name.
- `DirectoriesInPlace`: for any processes, files in the way, and spellings of paths
  along which `mkdir_p()` walks (`Walked`): its arguments lead to ancestors of the
  directory, and each has a shorter way to go than the one before, unless separators
  follow each other or a system call fails (`Sure`). How a path is taken apart is a recursion, so that a spelling has
  this property is checked by TLC (`SpellingsWalked`, for those of the run). The
  theorem is about the interleavings. `DirectoryInv` says of the calls in progress
  that the outermost is for the directory of the cache, that what a call has found
  missing is still missing or was made by another process, and that places get
  shorter from call to call: therefore the directory that mkdir() makes is not one
  that an outer call is still to make, and a process that finds its directory made
  was overtaken. A step of one process adds directories and files only (`Grows`), so
  that what excuses another stays (`ExcuseStays`).

Checked by TLC only: liveness (`EveryCallReturns` of both stores,
`EveryRequestIsAnswered`), which needs fairness and ENABLED; and, of
`Algorithms_inputs`, `LikeItsPredecessor`, `VariablesHaveTheirAttributes`,
`GoodFileDescribed`, `ReadsWhatWasSelected` and `PartsComeBack`. The modules behind these are built on folds and selections over
sequences, and what they say is about every file, string or path: induction over
data, which the provers do not do.
