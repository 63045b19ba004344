--------------------------- MODULE CacheDirectory ---------------------------
(* bes_utils/FileCache.h: initialize() finds or makes the directory of the  *)
(* cache.  Processes do so at the same time, each with its own spelling of  *)
(* the path, and mkdir_p() of bes_utils/BESUtil.cc makes one directory      *)
(* after the other.  A place in the file system is the sequence of the      *)
(* names that lead to it from the root.                                     *)
EXTENDS BESUtil, Functions

CONSTANTS
    Processes,
    Cwd             \* the place of the working directory

VARIABLES
    cacheDir,       \* cache_dir of each process
    madeBy,         \* the directories, with the processes that made them
    files,          \* the places of files
    dirPc,
    paths,          \* p in each call of mkdir_p() in progress, outermost first
    faulted         \* a system call failed for the process

dirVars == <<cacheDir, madeBy, files, dirPc, paths, faulted>>

CacheInfo == <<"i">>      \* CACHE_INFO_FILE_NAME
Nobody == "nobody"

ASSUME CacheDirectoryAssumption == Nobody \notin Processes

\* External: the place that the kernel finds for a path.
Place(path) ==
    (IF Begins(path) THEN <<>> ELSE Cwd) \o SelectSeq(Tokenize(path, "/"), LAMBDA n : n # <<".">>)

IsDirectory(path) == path # <<>> /\ Place(path) \in DOMAIN madeBy
Exists(path) == IsDirectory(path) \/ (Place(path) \in files /\ ~Ends(path))

GetDirName(path) ==
    LET pos == Max({k \in DOMAIN path : path[k] = "/"} \cup {0})
    IN  CASE pos = 0 -> <<".">>
          [] pos = 1 -> <<"/">>
          [] OTHER -> SubSeq(path, 1, pos - 1)

\* One separator at the end is removed.
Trim(path) == IF Ends(path) THEN Front(path) ELSE path

-----------------------------------------------------------------------------

DirInit(spellings, filesThere) ==
    /\ cacheDir \in [Processes -> spellings]
    /\ \E there \in {{}, {<<<<"a">>>>}} :
          madeBy = [d \in {<<>>, Cwd} \cup there |-> Nobody]
    /\ files \in filesThere
    /\ \A f \in files : Front(f) \in DOMAIN madeBy /\ f \notin DOMAIN madeBy
    /\ dirPc = [p \in Processes |-> "stat"]
    /\ paths = [p \in Processes |-> <<>>]
    /\ faulted = {}

DirGoto(p, where) == dirPc' = [dirPc EXCEPT ![p] = where]

\* stat() of what is not there, or a stat() that fails.  Bound: only the first
\* failure of a process may be a stat() of what is there.
NotFound(p, there) ==
    /\ there => p \notin faulted
    /\ faulted' = IF there THEN faulted \cup {p} ELSE faulted

Stat(p) ==
    /\ dirPc[p] = "stat"
    /\ \/ /\ Exists(cacheDir[p])
          /\ DirGoto(p, "open")
          /\ UNCHANGED <<paths, faulted>>
       \/ /\ NotFound(p, Exists(cacheDir[p]))
          /\ DirGoto(p, "mkdir_p")
          /\ paths' = [paths EXCEPT ![p] = <<cacheDir[p]>>]
    /\ UNCHANGED <<cacheDir, madeBy, files>>

\* Mutant: the directory is not made once its parent is there.
SucceedForAll(p) ==
    /\ paths' = [paths EXCEPT ![p] = <<>>]
    /\ DirGoto(p, "restat")

\* The innermost mkdir_p() returned 0.
Succeed(p) ==
    LET rest == Front(paths[p])
    IN  /\ paths' = [paths EXCEPT ![p] = rest]
        /\ DirGoto(p, IF rest = <<>> THEN "restat" ELSE "mkdir")

\* mkdir_p() up to its call of itself.
MkdirP(p) ==
    LET path == Trim(Last(paths[p]))
    IN  /\ dirPc[p] = "mkdir_p"
        /\ \/ /\ path = <<>> \/ IsDirectory(path)
              /\ Succeed(p)
              /\ UNCHANGED faulted
           \/ /\ path # <<>>
              /\ NotFound(p, IsDirectory(path))
              /\ paths' = [paths EXCEPT ![p] = Front(@) \o <<path, GetDirName(path)>>]
              /\ UNCHANGED dirPc
        /\ UNCHANGED <<cacheDir, madeBy, files>>

\* The parent was there or was made.  After an error every call returns -1.
Mkdir(p) ==
    LET place == Place(Last(paths[p]))
    IN  /\ dirPc[p] = "mkdir"
        /\ \/ /\ place \notin DOMAIN madeBy \cup files
              /\ Front(place) \in DOMAIN madeBy
              /\ madeBy' = [d \in DOMAIN madeBy \cup {place} |->
                              IF d = place THEN p ELSE madeBy[d]]
              /\ Succeed(p)
              /\ UNCHANGED faulted
           \/ /\ faulted' = IF place \in DOMAIN madeBy \cup files THEN faulted
                            ELSE faulted \cup {p}
              /\ DirGoto(p, "restat")
              /\ paths' = [paths EXCEPT ![p] = <<>>]
              /\ UNCHANGED madeBy
        /\ UNCHANGED <<cacheDir, files>>

\* What mkdir_p() returned is not looked at.
Restat(p) ==
    /\ dirPc[p] = "restat"
    /\ \/ Exists(cacheDir[p]) /\ DirGoto(p, "open") /\ UNCHANGED faulted
       \/ NotFound(p, Exists(cacheDir[p])) /\ DirGoto(p, "failed")
    /\ UNCHANGED <<cacheDir, madeBy, files, paths>>

InfoPath(p) == PathConcat(cacheDir[p], CacheInfo)

\* open_cache_info(): create cache_info and write to it, or open it.
OpenCacheInfo(p) ==
    LET info == Place(InfoPath(p))
    IN  /\ dirPc[p] = "open"
        /\ \/ /\ Front(info) \in DOMAIN madeBy
              /\ files' = files \cup {info}
              /\ DirGoto(p, "ready")
              /\ UNCHANGED faulted
           \/ /\ files' = files \/ (Front(info) \in DOMAIN madeBy /\ files' = files \cup {info})
              /\ faulted' = IF Front(info) \in files THEN faulted ELSE faulted \cup {p}
              /\ DirGoto(p, "failed")
        /\ UNCHANGED <<cacheDir, madeBy, paths>>

DirNext ==
    \E p \in Processes :
        Stat(p) \/ MkdirP(p) \/ Mkdir(p) \/ Restat(p) \/ OpenCacheInfo(p)

-----------------------------------------------------------------------------
(* Properties                                                              *)

Ancestors(place) == {SubSeq(place, 1, n) : n \in 0..Len(place)}

\* mkdir_p(path) calls itself with arguments among args, which lead to ancestors
\* of its place; each has a shorter way to go, unless it is the working directory
\* or separators follow each other.  A place is made of names.
Walked(path, args, names) ==
    /\ path \in args /\ <<>> \notin args
    /\ \A a \in args :
          /\ Place(a) \in Seq(names) \cap Ancestors(Place(path))
          /\ IF Trim(a) = <<>> THEN Place(a) = <<>>
             ELSE /\ {Trim(a), GetDirName(Trim(a))} \subseteq args
                  /\ Place(Trim(a)) = Place(a)
                  /\ Place(a) # Cwd /\ ~Run(path) =>
                        Len(Place(GetDirName(Trim(a)))) < Len(Place(a))

\* cache_info stands in the directory, or in the working directory for "/",
\* and has not the name of the latter.
InfoStands(path, names) ==
    LET place == Place(path)
        info == Place(PathConcat(path, CacheInfo))
    IN  /\ info # Cwd /\ CacheInfo \in names /\ Cwd \in Seq(names)
        /\ info = (IF place = <<>> THEN Cwd ELSE place) \o <<CacheInfo>>

\* A process that is ready has its directory, with cache_info in it (the root
\* directory excepted, where pathConcat() leaves a relative path), and made
\* nothing but directories on its path.  A process fails only when a system
\* call failed, a file is in the way, the path has three separators in a row,
\* or another process made one of its directories under its hands.
DirectoryInPlace ==
    \A p \in Processes :
        LET place == Place(cacheDir[p])
        IN  /\ dirPc[p] = "ready" =>
                  /\ place \in DOMAIN madeBy
                  /\ place # <<>> => place \o <<CacheInfo>> \in files
            /\ \A d \in DOMAIN madeBy : madeBy[d] = p => d \in Ancestors(place)
            /\ dirPc[p] = "failed" =>
                  \/ p \in faulted
                  \/ Ancestors(place) \cap files # {}
                  \/ Run(cacheDir[p])
                  \/ \E d \in Ancestors(place) \cap DOMAIN madeBy : madeBy[d] \notin {p, Nobody}

=============================================================================
