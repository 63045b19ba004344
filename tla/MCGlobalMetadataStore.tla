----------------------- MODULE MCGlobalMetadataStore -----------------------
(* Instances of GlobalMetadataStore for TLC.                               *)
EXTENDS GlobalMetadataStore

CONSTANTS p1, p2, n1

TwoProcs == {p1, p2}
OneName == {n1}

\* Enough inodes for an item: the linked one, and unlinked ones that are open.
InodePool == [it \in Items |-> IF it[2] = "dds_r" THEN 1..3 ELSE 4..6]

\* One process stores and removes responses, the other stores and reads them.
TheirOps == [p \in Procs |->
    IF p = p1 THEN {"add_dds", "remove"}
    ELSE {"add_dds", "get_dds", "dds_available"}]

\* The first process fails in every way but one, the second one to get the time
\* of the data; and it dies.
TheirFaults == [p \in Procs |->
    IF p = p1 THEN {"open", "writer", "purge"} ELSE {"lmt", "crash"}]

\* A process reads the configuration when it starts: the second one before the
\* store was given a limit.
NoLimit == {p2}
=============================================================================
