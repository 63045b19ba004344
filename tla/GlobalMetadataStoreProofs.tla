--------------------- MODULE GlobalMetadataStoreProofs ---------------------
(* Proofs about GlobalMetadataStore, for any processes, data sets and       *)
(* operations, with every failure: the locks of a process, types, the age   *)
(* of what is served, and the writers of a file.                            *)
EXTENDS GlobalMetadataStore, SequenceTheorems, TLAPS

Labels ==
    {"idle", "dead", "ledger", "ledger_write", "create", "probe", "open", "write", "purge",
     "unlock", "close", "undo", "undo_purge", "remove", "lookup", "get_lmt",
     "get_cache_lmt", "fetch", "transfer", "release"}

\* Where a process may hold a lock besides that of its caller.
Holding == {"open", "write", "purge", "unlock", "undo", "undo_purge", "transfer", "release"}

\* The four variables are functions, and their values records.
Functions ==
    /\ pc \in [Procs -> Labels]
    /\ call = [p \in Procs |-> call[p]]
    /\ held = [p \in Procs |-> held[p]]
    /\ locks = [p \in Procs |-> locks[p]]

IsCall(c) ==
    c = [op |-> c.op, name |-> c.name, todo |-> c.todo,
         got |-> c.got, fd |-> c.fd, lmt |-> c.lmt]
IsHeld(h) == h = [item |-> h.item, lmt |-> h.lmt]
IsLock(l) == l = [item |-> l.item, ino |-> l.ino, mode |-> l.mode] /\ l.item \in Items

\* A process at work has an item to work on.
Shapes(p) ==
    /\ IsCall(call[p])
    /\ IsHeld(held[p])
    /\ \A l \in locks[p] : IsLock(l)
    /\ call[p].todo \in Seq(Suffixes)
    /\ pc[p] \notin {"idle", "dead", "ledger", "ledger_write"} =>
           call[p].name \in Names /\ call[p].todo # <<>>

\* The locks of p: that of its caller, and while it works on an item that of
\* the item; an exclusive one only if a response could not be opened.
LocksOf(p) ==
    /\ pc[p] = "idle" =>
          \A l \in locks[p] : l.item = held[p].item
                              \/ ("open" \in Faults[p] /\ l.mode = "ex")
    /\ pc[p] \notin {"idle", "dead"} =>
          \A l \in locks[p] : l.item = held[p].item
                              \/ (pc[p] \in Holding /\ l.item = Item(p))
    /\ pc[p] = "open" => \A l \in locks[p] : l.item = held[p].item \/ l.mode = "ex"
    /\ pc[p] = "lookup" => held[p] = NotHeld

Inv == Functions /\ \A p \in Procs : Shapes(p) /\ LocksOf(p)

Same(q) ==
    /\ pc'[q] = pc[q] /\ call'[q] = call[q]
    /\ held'[q] = held[q] /\ locks'[q] = locks[q]

\* The item of a process at work is an item.
LEMMA ItemType ==
    ASSUME Inv, NEW p \in Procs, pc[p] \notin {"idle", "dead", "ledger", "ledger_write"}
    PROVE  Item(p) \in Items
  BY DEF Inv, Shapes, Item, Items

\* What a step of p does to p is all that matters.
LEMMA OneProcess ==
    ASSUME Inv, NEW p \in Procs, Functions', \A q \in Procs \ {p} : Same(q),
           Shapes(p)', LocksOf(p)'
    PROVE  Inv'
  <1> SUFFICES ASSUME NEW q \in Procs \ {p}
               PROVE  Shapes(q)' /\ LocksOf(q)'
    BY DEF Inv
  <1>1. Shapes(q) /\ LocksOf(q) /\ Same(q)
    BY DEF Inv
  <1>2. Shapes(q)'
    BY <1>1 DEF Shapes, Same
  <1>3. LocksOf(q)'
    BY <1>1 DEF LocksOf, Same, Item
  <1>4. QED
    BY <1>2, <1>3

LEMMA InitInv == Init => Inv
  <1> SUFFICES ASSUME Init PROVE Inv
    OBVIOUS
  <1>1. Functions
    BY DEF Init, Functions, Labels
  <1>2. ASSUME NEW p \in Procs PROVE Shapes(p) /\ LocksOf(p)
    <2>1. /\ call[p] = [op |-> None, name |-> None, todo |-> <<>>,
                        got |-> <<>>, fd |-> None, lmt |-> 0]
          /\ held[p] = [item |-> None, lmt |-> 0]
          /\ locks[p] = {} /\ pc[p] = "idle"
      BY DEF Init, NoCall, NotHeld
    <2>2. <<>> \in Seq(Suffixes)
      OBVIOUS
    <2>3. Shapes(p)
      BY <2>1, <2>2 DEF Shapes, IsCall, IsHeld
    <2>4. LocksOf(p)
      BY <2>1 DEF LocksOf
    <2>5. QED
      BY <2>3, <2>4
  <1>3. QED
    BY <1>1, <1>2 DEF Inv

\* The caller begins a call, or lets its lock go.
LEMMA CallerKeepsInv ==
    ASSUME Inv, NEW p \in Procs, Call(p) \/ DropLock(p)
    PROVE  Inv'
  <1>1. CASE Call(p)
    <2>1. PICK op \in Ops[p], n \in Names :
              /\ held[p] # NotHeld => EntryOf(op) = "fetch"
              /\ call' = [call EXCEPT ![p] =
                             [NoCall EXCEPT !.op = op, !.name = n, !.todo = ToDo(op)]]
              /\ pc' = [pc EXCEPT ![p] = EntryOf(op)]
      BY <1>1 DEF Call, Goto
    <2>2. EntryOf(op) \in {"create", "remove", "lookup", "fetch"}
      BY DEF EntryOf
    <2>3. Functions' /\ \A q \in Procs \ {p} : Same(q)
      BY <1>1, <2>1, <2>2 DEF Call, Inv, Functions, Same, Labels
    <2>4. call'[p] = [op |-> op, name |-> n, todo |-> ToDo(op), got |-> <<>>, fd |-> None, lmt |-> 0]
      BY <2>1 DEF Inv, Functions, NoCall
    <2>5. pc[p] = "idle" /\ pc'[p] = EntryOf(op) /\ UNCHANGED <<locks, held>>
      BY <1>1, <2>1 DEF Call, Inv, Functions
    <2>6. Shapes(p)'
      <3>1. ToDo(op) \in Seq(Suffixes) /\ ToDo(op) # <<>>
        BY OpsAssumption
      <3>2. Shapes(p)
        BY DEF Inv
      <3>3. QED
        BY <2>4, <2>5, <3>1, <3>2 DEF Shapes, IsCall
    <2>7. \A l \in locks[p] : l.item = held[p].item
      BY <1>1, <2>5 DEF Call, Inv, LocksOf
    <2>8. LocksOf(p)'
      BY <2>1, <2>2, <2>5, <2>7 DEF LocksOf
    <2>9. QED
      BY <2>3, <2>6, <2>8, OneProcess
  <1>2. CASE DropLock(p)
    <2>1. Functions' /\ \A q \in Procs \ {p} : Same(q)
      BY <1>2 DEF DropLock, ClearLock, Inv, Functions, Same
    <2>2. /\ pc[p] = "idle" /\ pc'[p] = "idle" /\ call'[p] = call[p]
          /\ held'[p] = NotHeld /\ locks'[p] = Unlocked(p, held[p].item)
      BY <1>2 DEF DropLock, ClearLock, Inv, Functions
    <2>3. Shapes(p)'
      BY <2>2 DEF Inv, Shapes, IsHeld, NotHeld, Unlocked
    <2>4. LocksOf(p)'
      BY <2>2 DEF Inv, LocksOf, Unlocked
    <2>5. QED
      BY <2>1, <2>3, <2>4, OneProcess
  <1>3. QED
    BY <1>1, <1>2

-----------------------------------------------------------------------------
(* The steps of a call.                                                    *)

\* What the end of a call, and the way to the next response, do to pc and call.
Moved(p, to) ==
    /\ pc' \in [Procs -> Labels] /\ call' = [q \in Procs |-> call'[q]]
    /\ \A q \in Procs \ {p} : pc'[q] = pc[q] /\ call'[q] = call[q]
    /\ pc'[p] \in to
    /\ IsCall(call'[p]) /\ call'[p].todo \in Seq(Suffixes)
    /\ pc'[p] \notin {"idle", "dead", "ledger", "ledger_write"} =>
           call'[p].name \in Names /\ call'[p].todo # <<>>

LEMMA GotoMoves ==
    ASSUME Inv, NEW p \in Procs, NEW to \in Labels, Goto(p, to), UNCHANGED call,
           pc[p] \notin {"idle", "dead", "ledger", "ledger_write"}
    PROVE  Moved(p, {to}) /\ Item(p)' = Item(p)
  BY DEF Inv, Functions, Shapes, Goto, Moved, Item

LEMMA EndMoves ==
    ASSUME Inv, NEW p \in Procs, NEW to \in {"idle", "dead"}, Goto(p, to),
           call' = [call EXCEPT ![p] = NoCall]
    PROVE  Moved(p, {to})
  <1>1. call'[p] = [op |-> None, name |-> None, todo |-> <<>>, got |-> <<>>, fd |-> None, lmt |-> 0]
    BY DEF Inv, Functions, NoCall
  <1>2. <<>> \in Seq(Suffixes)
    OBVIOUS
  <1>3. IsCall(call'[p]) /\ call'[p].todo = <<>>
    BY <1>1 DEF IsCall
  <1>4. /\ pc' \in [Procs -> Labels] /\ pc'[p] = to
        /\ call' = [q \in Procs |-> call'[q]]
        /\ \A q \in Procs \ {p} : pc'[q] = pc[q] /\ call'[q] = call[q]
    BY DEF Inv, Functions, Goto, Labels
  <1>5. QED
    BY <1>2, <1>3, <1>4 DEF Moved

LEMMA FinishMoves ==
    ASSUME Inv, NEW p \in Procs, Finish(p)
    PROVE  Moved(p, {"idle"})
  BY EndMoves DEF Finish

LEMMA TailOfMany ==
    ASSUME NEW s \in Seq(Suffixes), s # <<>>
    PROVE  Tail(s) \in Seq(Suffixes) /\ (Len(s) # 1 => Tail(s) # <<>>)
  <1> DEFINE t == Tail(s)
             n == Len(s)
             m == Len(t)
  <1>1. t \in Seq(Suffixes) /\ m = n - 1
    BY HeadTailProperties
  <1>2. n \in Nat /\ (t = <<>> => m = 0)
    BY EmptySeq
  <1> HIDE DEF n, m
  <1>3. t = <<>> => n = 1
    BY <1>1, <1>2
  <1>4. QED
    BY <1>1, <1>3 DEF n

LEMMA AdvanceMoves ==
    ASSUME Inv, NEW p \in Procs, pc[p] \notin {"idle", "dead", "ledger", "ledger_write"},
           NEW c, IsCall(c), c.name = call[p].name, c.todo = call[p].todo,
           NEW first \in Labels, NEW last \in {"idle", "ledger"},
           Advance(p, c, first, last)
    PROVE  Moved(p, {first, last})
  <1>1. c.todo \in Seq(Suffixes) /\ c.todo # <<>> /\ c.name \in Names
    BY DEF Inv, Shapes
  <1>2. Tail(c.todo) \in Seq(Suffixes) /\ (Len(c.todo) # 1 => Tail(c.todo) # <<>>)
    BY <1>1, TailOfMany
  <1>3. CASE Len(c.todo) = 1 /\ last = "idle"
    BY <1>3, EndMoves DEF Advance, Moved
  <1>4. CASE ~(Len(c.todo) = 1 /\ last = "idle")
    <2>1. call' = [call EXCEPT ![p] = [c EXCEPT !.todo = Tail(@)]]
      BY <1>4 DEF Advance
    <2>2. call'[p] = [op |-> c.op, name |-> c.name, todo |-> Tail(c.todo),
                      got |-> c.got, fd |-> c.fd, lmt |-> c.lmt]
      BY <2>1 DEF Inv, Functions, IsCall
    <2>3. /\ pc' = [pc EXCEPT ![p] = IF Len(c.todo) = 1 THEN last ELSE first]
          /\ last \in Labels
      BY DEF Advance, Goto, Labels
    <2>4. /\ pc' \in [Procs -> Labels] /\ call' = [q \in Procs |-> call'[q]]
          /\ \A q \in Procs \ {p} : pc'[q] = pc[q] /\ call'[q] = call[q]
          /\ pc'[p] = IF Len(c.todo) = 1 THEN last ELSE first
      BY <2>1, <2>3 DEF Inv, Functions
    <2>5. IsCall(call'[p]) /\ call'[p].todo = Tail(c.todo) /\ call'[p].name = c.name
      BY <2>2 DEF IsCall
    <2>6. QED
      BY <1>1, <1>2, <1>4, <2>4, <2>5 DEF Moved
  <1>5. QED
    BY <1>3, <1>4

\* A step that notes something of the response goes on with the same item.
LEMMA CallFields ==
    ASSUME NEW c, IsCall(c), NEW v, NEW d \in {[c EXCEPT !.fd = v], [c EXCEPT !.got = v],
                                                [c EXCEPT !.lmt = v]}
    PROVE  IsCall(d) /\ d.name = c.name /\ d.todo = c.todo
  <1>1. d \in {[op |-> c.op, name |-> c.name, todo |-> c.todo, got |-> c.got, fd |-> v, lmt |-> c.lmt],
               [op |-> c.op, name |-> c.name, todo |-> c.todo, got |-> v, fd |-> c.fd, lmt |-> c.lmt],
               [op |-> c.op, name |-> c.name, todo |-> c.todo, got |-> c.got, fd |-> c.fd, lmt |-> v]}
    BY DEF IsCall
  <1>2. QED
    BY <1>1 DEF IsCall

LEMMA FieldMoves ==
    ASSUME Inv, NEW p \in Procs, pc[p] \notin {"idle", "dead", "ledger", "ledger_write"},
           NEW c, IsCall(c), c.name = call[p].name, c.todo = call[p].todo,
           call' = [call EXCEPT ![p] = c], NEW to \in Labels, Goto(p, to)
    PROVE  Moved(p, {to}) /\ Item(p)' = Item(p)
  <1>1. call'[p] = c
    BY DEF Inv, Functions
  <1>2. QED
    BY <1>1 DEF Inv, Functions, Shapes, Goto, Moved, Item

\* What the step of a call does to the locks: held and locks change for p only.
LEMMA MovedKeepsInv ==
    ASSUME Inv, NEW p \in Procs, NEW to, Moved(p, to),
           NEW h, NEW ls,
           held' = [held EXCEPT ![p] = h], locks' = [locks EXCEPT ![p] = ls],
           IsHeld(h), \A l \in ls : IsLock(l), LocksOf(p)'
    PROVE  Inv'
  <1>1. Functions' /\ \A q \in Procs \ {p} : Same(q)
    BY DEF Inv, Functions, Same, Moved
  <1>2. held'[p] = h /\ locks'[p] = ls
    BY DEF Inv, Functions
  <1>3. Shapes(p)'
    BY <1>2 DEF Shapes, Moved
  <1>4. QED
    BY <1>1, <1>3, OneProcess

\* And what it does when they do not change.
LEMMA MovedOnly ==
    ASSUME Inv, NEW p \in Procs, NEW to, Moved(p, to), UNCHANGED <<locks, held>>,
           LocksOf(p)'
    PROVE  Inv'
  <1>1. /\ held' = [held EXCEPT ![p] = held[p]]
        /\ locks' = [locks EXCEPT ![p] = locks[p]]
        /\ IsHeld(held[p]) /\ \A l \in locks[p] : IsLock(l)
    BY DEF Inv, Functions, Shapes
  <1>2. QED
    BY <1>1, MovedKeepsInv

-----------------------------------------------------------------------------
(* The steps, by what they do to the locks.                                *)

\* Steps that leave the locks as they are and go on within the call.
LEMMA GoOnKeepsInv ==
    ASSUME Inv, NEW p \in Procs,
           CreateFails(p) \/ OpenResponse(p) \/ WriterUnlimited(p) \/ WriterFails(p)
           \/ Purge(p) \/ PurgeFails(p)
    PROVE  Inv'
  <1> DEFINE Onto(to) == Goto(p, to) /\ UNCHANGED <<call, locks, held>>
  <1>1. \/ pc[p] = "create" /\ Onto("probe")
        \/ pc[p] = "open" /\ Onto("write")
        \/ pc[p] = "write" /\ (Onto("unlock") \/ Onto("undo"))
        \/ pc[p] = "purge" /\ (Onto("unlock") \/ Onto("undo_purge"))
    BY DEF CreateFails, OpenResponse, WriterUnlimited, WriterFails, Stream, Purge, PurgeFails
  <1>2. PICK to \in {"probe", "write", "undo", "undo_purge", "unlock"} :
            /\ Onto(to) /\ pc[p] \in {"create", "open", "write", "purge"}
            /\ pc[p] = "create" <=> to = "probe"
    BY <1>1
  <1>3. Moved(p, {to}) /\ Item(p)' = Item(p)
    BY <1>2, GotoMoves DEF Labels
  <1>4. LocksOf(p)'
    BY <1>2, <1>3 DEF Inv, LocksOf, Moved, Holding
  <1>5. QED
    BY <1>2, <1>3, <1>4, MovedOnly

\* Steps that end a call or go on to the next response without a lock.
LEMMA OthersKeepInv ==
    ASSUME Inv, NEW p \in Procs,
           OpenFails(p) \/ CloseResponse(p) \/ LockLedger(p) \/ LockLedgerFails(p)
           \/ WriteLedger(p) \/ RemoveResponse(p)
    PROVE  Inv'
  <1>0. Shapes(p) /\ LocksOf(p)
    BY DEF Inv
  <1>1. CASE OpenFails(p)
    <2>1. Moved(p, {"idle"}) /\ UNCHANGED <<locks, held>>
      BY <1>1, FinishMoves DEF OpenFails, Throw
    <2>2. pc[p] = "open" /\ "open" \in Faults[p]
      BY <1>1 DEF OpenFails
    <2>3. LocksOf(p)'
      BY <1>0, <2>1, <2>2 DEF LocksOf, Moved
    <2>4. QED
      BY <2>1, <2>3, MovedOnly
  <1>2. CASE CloseResponse(p)
    <2>1. /\ pc[p] = "close" /\ UNCHANGED <<locks, held>>
          /\ Advance(p, call[p], "create", "ledger")
      BY <1>2 DEF CloseResponse
    <2>2. Moved(p, {"create", "ledger"})
      BY <1>0, <2>1, AdvanceMoves DEF Labels, Shapes
    <2>3. LocksOf(p)'
      BY <1>0, <2>1, <2>2 DEF LocksOf, Moved, Holding
    <2>4. QED
      BY <2>1, <2>2, <2>3, MovedOnly
  <1>3. CASE LockLedgerFails(p) \/ WriteLedger(p)
    <2>1. /\ Moved(p, {"idle"}) /\ UNCHANGED <<locks, held>>
          /\ pc[p] \in {"ledger", "ledger_write"}
      BY <1>3, FinishMoves DEF LockLedgerFails, WriteLedger, Throw
    <2>2. LocksOf(p)'
      BY <1>0, <2>1 DEF LocksOf, Moved, Holding
    <2>3. QED
      BY <2>1, <2>2, MovedOnly
  <1>4. CASE RemoveResponse(p)
    <2>1. /\ pc[p] = "remove" /\ UNCHANGED <<locks, held>>
          /\ Advance(p, call[p], "remove", "ledger")
      BY <1>4 DEF RemoveResponse
    <2>2. Moved(p, {"remove", "ledger"})
      BY <1>0, <2>1, AdvanceMoves DEF Labels, Shapes
    <2>3. LocksOf(p)'
      BY <1>0, <2>1, <2>2 DEF LocksOf, Moved, Holding
    <2>4. QED
      BY <2>1, <2>2, <2>3, MovedOnly
  <1>5. CASE LockLedger(p)
    <2>1. /\ pc[p] = "ledger" /\ pc' = [pc EXCEPT ![p] = "ledger_write"]
          /\ UNCHANGED <<call, locks, held>>
      BY <1>5 DEF LockLedger, Goto
    <2>2. Moved(p, {"ledger_write"})
      BY <1>0, <2>1 DEF Inv, Functions, Shapes, Moved, Labels
    <2>3. LocksOf(p)'
      BY <1>0, <2>1, <2>2 DEF LocksOf, Moved, Holding
    <2>4. QED
      BY <2>1, <2>2, <2>3, MovedOnly
  <1>6. QED
    BY <1>1, <1>2, <1>3, <1>4, <1>5

\* Steps that take the lock of an item, or change it.
LEMMA LockingKeepsInv ==
    ASSUME Inv, NEW p \in Procs, CreateAndLock(p) \/ Writer(p) \/ Fetch(p) \/ Lookup(p)
    PROVE  Inv'
  <1>0. Shapes(p) /\ LocksOf(p)
    BY DEF Inv
  <1>1. CASE CreateAndLock(p)
    <2>1. PICK i \in Inodes : locks' = [locks EXCEPT ![p] = Locked(p, Item(p), i, "ex")]
      BY <1>1 DEF CreateAndLock
    <2>2. /\ pc[p] = "create" /\ Moved(p, {"open"}) /\ Item(p)' = Item(p)
          /\ Item(p) \in Items
          /\ held' = held
      BY <1>1, GotoMoves, ItemType DEF CreateAndLock, Labels
    <2>3. held' = [held EXCEPT ![p] = held[p]] /\ IsHeld(held[p])
      BY <1>0, <2>2 DEF Inv, Functions, Shapes
    <2>4. \A l \in Locked(p, Item(p), i, "ex") : IsLock(l)
      BY <1>0, <2>2 DEF Locked, IsLock, Shapes
    <2>5. LocksOf(p)'
      <3>1. locks'[p] = Locked(p, Item(p), i, "ex")
        BY <2>1 DEF Inv, Functions
      <3>2. \A l \in locks'[p] : l.item = held[p].item \/ (l.item = Item(p) /\ l.mode = "ex")
        BY <1>0, <2>2, <3>1 DEF LocksOf, Locked, Holding
      <3>3. QED
        BY <2>2, <3>2 DEF LocksOf, Moved, Holding
    <2>6. QED
      BY <2>1, <2>2, <2>3, <2>4, <2>5, MovedKeepsInv
  <1>2. CASE Writer(p)
    <2> DEFINE ls == {IF l.item = Item(p) THEN [l EXCEPT !.mode = "sh"] ELSE l : l \in locks[p]}
    <2>1. locks' = [locks EXCEPT ![p] = ls] /\ held' = held
      BY <1>2 DEF Writer, Stream, Inv, Functions
    <2>2. pc[p] = "write" /\ Moved(p, {"purge"}) /\ Item(p)' = Item(p)
      BY <1>2, GotoMoves DEF Writer, Stream, Labels
    <2>3. held' = [held EXCEPT ![p] = held[p]] /\ IsHeld(held[p])
      BY <1>0, <2>1 DEF Inv, Functions, Shapes
    <2>4. ASSUME NEW l \in ls
          PROVE  IsLock(l) /\ \E k \in locks[p] : l.item = k.item
      <3>1. PICK k \in locks[p] : l = IF k.item = Item(p) THEN [k EXCEPT !.mode = "sh"] ELSE k
        OBVIOUS
      <3>2. k = [item |-> k.item, ino |-> k.ino, mode |-> k.mode] /\ k.item \in Items
        BY <1>0 DEF Shapes, IsLock
      <3>3. l \in {k, [item |-> k.item, ino |-> k.ino, mode |-> "sh"]}
        BY <3>1, <3>2
      <3>4. QED
        BY <3>2, <3>3 DEF IsLock
    <2>5. LocksOf(p)'
      <3>1. locks'[p] = ls
        BY <2>1 DEF Inv, Functions
      <3> HIDE DEF ls
      <3>2. \A l \in ls : l.item = held[p].item \/ l.item = Item(p)
        BY <1>0, <2>2, <2>4 DEF LocksOf
      <3>3. QED
        BY <2>1, <2>2, <3>1, <3>2 DEF LocksOf, Moved, Holding
    <2>6. QED
      BY <2>1, <2>2, <2>3, <2>4, <2>5, MovedKeepsInv
  <1>3. CASE Fetch(p)
    <2>1. pc[p] = "fetch" /\ UNCHANGED held /\ Item(p) \in Items
      BY <1>3, ItemType DEF Fetch
    <2>2. CASE Throw(p) /\ UNCHANGED locks
      <3>1. Moved(p, {"idle"})
        BY <2>2, FinishMoves DEF Throw
      <3>2. LocksOf(p)'
        BY <1>0, <2>1, <2>2, <3>1 DEF LocksOf, Moved, Holding
      <3>3. QED
        BY <2>1, <2>2, <3>1, <3>2, MovedOnly
    <2>3. CASE /\ locks' = [locks EXCEPT ![p] = Locked(p, Item(p), dir[Item(p)], "sh")]
               /\ call' = [call EXCEPT ![p].fd = dir[Item(p)]]
               /\ Goto(p, "transfer")
      <3> DEFINE c == [call[p] EXCEPT !.fd = dir[Item(p)]]
      <3>1. IsCall(c) /\ c.name = call[p].name /\ c.todo = call[p].todo
        BY <1>0, CallFields DEF Shapes
      <3>2. Moved(p, {"transfer"}) /\ Item(p)' = Item(p)
        BY <2>1, <2>3, <3>1, FieldMoves DEF Labels
      <3>3. held' = [held EXCEPT ![p] = held[p]] /\ IsHeld(held[p])
        BY <1>0, <2>1 DEF Inv, Functions, Shapes
      <3>4. \A l \in Locked(p, Item(p), dir[Item(p)], "sh") : IsLock(l)
        BY <1>0, <2>1 DEF Locked, IsLock, Shapes
      <3>5. LocksOf(p)'
        <4>1. locks'[p] = Locked(p, Item(p), dir[Item(p)], "sh")
          BY <2>3 DEF Inv, Functions
        <4>2. \A l \in locks'[p] : l.item = held[p].item \/ l.item = Item(p)
          BY <1>0, <2>1, <4>1 DEF LocksOf, Locked, Holding
        <4>3. QED
          BY <2>1, <3>2, <4>2 DEF LocksOf, Moved, Holding
      <3>6. QED
        BY <2>3, <3>2, <3>3, <3>4, <3>5, MovedKeepsInv
    <2>4. QED
      BY <1>3, <2>2, <2>3 DEF Fetch
  <1>4. CASE Lookup(p)
    <2>1. pc[p] = "lookup" /\ Item(p) \in Items
      BY <1>4, ItemType DEF Lookup
    <2>2. locks[p] = {}
      BY <1>0, <2>1, OpsAssumption DEF LocksOf, Shapes, IsLock, NotHeld, Holding
    <2>3. CASE Finish(p) /\ UNCHANGED <<locks, held>>
      <3>1. Moved(p, {"idle"})
        BY <2>3, FinishMoves
      <3>2. LocksOf(p)'
        BY <2>2, <2>3, <3>1 DEF LocksOf, Moved
      <3>3. QED
        BY <2>3, <3>1, <3>2, MovedOnly
    <2>4. CASE /\ locks' = [locks EXCEPT ![p] = Locked(p, Item(p), dir[Item(p)], "sh")]
               /\ held' = [held EXCEPT ![p] = [item |-> Item(p), lmt |-> 0]]
               /\ IF TakesContainer(call[p].op) THEN Goto(p, "get_lmt") /\ UNCHANGED call
                  ELSE Finish(p)
      <3>1. Moved(p, {"get_lmt", "idle"})
        BY <2>1, <2>4, GotoMoves, FinishMoves DEF Labels, Moved
      <3>2. /\ IsHeld([item |-> Item(p), lmt |-> 0])
            /\ \A l \in Locked(p, Item(p), dir[Item(p)], "sh") : IsLock(l) /\ l.item = Item(p)
        BY <2>1, <2>2 DEF IsHeld, IsLock, Locked
      <3>3. LocksOf(p)'
        <4>1. /\ locks'[p] = Locked(p, Item(p), dir[Item(p)], "sh")
              /\ held'[p].item = Item(p)
          BY <2>4 DEF Inv, Functions
        <4>2. QED
          BY <3>1, <3>2, <4>1 DEF LocksOf, Moved
      <3>4. QED
        BY <2>4, <3>1, <3>2, <3>3, MovedKeepsInv
    <2>5. QED
      BY <1>4, <2>3, <2>4 DEF Lookup
  <1>5. QED
    BY <1>1, <1>2, <1>3, <1>4

\* Steps that note what they found, and the check of the times.
LEMMA NotingKeepsInv ==
    ASSUME Inv, NEW p \in Procs,
           GetLmt(p) \/ GetLmtFails(p) \/ Transfer(p) \/ GetCacheLmt(p)
    PROVE  Inv'
  <1>0. Shapes(p) /\ LocksOf(p)
    BY DEF Inv
  <1>1. CASE GetLmt(p)
    <2> DEFINE c == [call[p] EXCEPT !.lmt = data[call[p].name]]
    <2>1. IsCall(c) /\ c.name = call[p].name /\ c.todo = call[p].todo
      BY <1>0, CallFields DEF Shapes
    <2>2. /\ pc[p] = "get_lmt" /\ Goto(p, "get_cache_lmt") /\ UNCHANGED <<locks, held>>
          /\ call' = [call EXCEPT ![p] = c]
      BY <1>1 DEF GetLmt
    <2>3. Moved(p, {"get_cache_lmt"})
      BY <2>1, <2>2, FieldMoves DEF Labels
    <2>4. LocksOf(p)'
      BY <1>0, <2>2, <2>3 DEF LocksOf, Moved, Holding
    <2>5. QED
      BY <2>2, <2>3, <2>4, MovedOnly
  <1>2. CASE Transfer(p)
    <2> DEFINE body == IF Source(p) = None THEN <<>> ELSE file[Source(p)].body
               c == [call[p] EXCEPT !.got = body]
    <2>1. /\ pc[p] = "transfer" /\ Goto(p, "release") /\ UNCHANGED <<locks, held>>
          /\ call' = [call EXCEPT ![p] = c]
      BY <1>2 DEF Transfer
    <2> HIDE DEF body
    <2>2. IsCall(c) /\ c.name = call[p].name /\ c.todo = call[p].todo
      BY <1>0, CallFields DEF Shapes
    <2>3. Moved(p, {"release"}) /\ Item(p)' = Item(p)
      BY <2>1, <2>2, FieldMoves DEF Labels
    <2>4. LocksOf(p)'
      BY <1>0, <2>1, <2>3 DEF LocksOf, Moved, Holding
    <2>5. QED
      BY <2>1, <2>3, <2>4, MovedOnly
  <1>3. CASE GetLmtFails(p) \/ GetCacheLmt(p)
    <2>1. pc[p] \in {"get_lmt", "get_cache_lmt"} /\ Finish(p)
      BY <1>3 DEF GetLmtFails, GetCacheLmt, Throw
    <2>2. Moved(p, {"idle"})
      BY <2>1, FinishMoves
    <2>3. CASE ClearLock(p)
      <3>1. /\ locks' = [locks EXCEPT ![p] = Unlocked(p, held[p].item)]
            /\ held' = [held EXCEPT ![p] = NotHeld]
        BY <2>3 DEF ClearLock
      <3>2. Unlocked(p, held[p].item) = {} /\ IsHeld(NotHeld)
        BY <1>0, <2>1 DEF LocksOf, Unlocked, Holding, IsHeld, NotHeld
      <3>3. LocksOf(p)'
        BY <2>2, <3>1, <3>2 DEF LocksOf, Moved, Inv, Functions
      <3>4. QED
        BY <2>2, <3>1, <3>2, <3>3, MovedKeepsInv
    <2>4. CASE held' = [held EXCEPT ![p].lmt = call[p].lmt] /\ UNCHANGED locks
      <3> DEFINE h == [item |-> held[p].item, lmt |-> call[p].lmt]
      <3>1. [held[p] EXCEPT !.lmt = call[p].lmt] = h
        BY <1>0 DEF Shapes, IsHeld
      <3>2. held' = [held EXCEPT ![p] = h]
        BY <2>4, <3>1
      <3>3. /\ locks' = [locks EXCEPT ![p] = locks[p]]
            /\ IsHeld(h) /\ \A l \in locks[p] : IsLock(l)
        BY <1>0, <2>4 DEF Inv, Functions, Shapes, IsHeld
      <3>4. LocksOf(p)'
        <4>1. held'[p].item = held[p].item
          BY <3>2 DEF Inv, Functions
        <4>2. QED
          BY <1>0, <2>1, <2>2, <2>4, <4>1 DEF LocksOf, Moved, Holding
      <3>5. QED
        BY <2>2, <3>2, <3>3, <3>4, MovedKeepsInv
    <2>5. QED
      BY <1>3, <2>3, <2>4 DEF GetLmtFails, GetCacheLmt
  <1>4. QED
    BY <1>1, <1>2, <1>3

\* Steps that give up the locks of the item.
LEMMA UnlockingKeepsInv ==
    ASSUME Inv, NEW p \in Procs, Probe(p) \/ Unlock(p) \/ Undo(p) \/ Release(p)
    PROVE  Inv'
  <1> DEFINE ls == Unlocked(p, Item(p))
  <1>1. Shapes(p) /\ LocksOf(p)
    BY DEF Inv
  <1>2. /\ pc[p] \in {"probe", "unlock", "undo", "undo_purge", "release"} /\ UNCHANGED held
        /\ held' = [held EXCEPT ![p] = held[p]] /\ IsHeld(held[p])
    BY <1>1 DEF Probe, Unlock, Undo, Release, Inv, Functions, Shapes
  <1>3. \A l \in ls : IsLock(l) /\ l.item = held[p].item
    BY <1>1, <1>2 DEF Shapes, LocksOf, Unlocked
  <1>4. PICK to : Moved(p, to) /\ to \in {{"idle"}, {"create", "ledger"}, {"close"}, {"fetch", "idle"}}
    <2>1. CASE Probe(p)
      BY <1>1, <1>2, <2>1, FinishMoves, AdvanceMoves DEF Probe, Throw, Labels, Shapes
    <2>2. CASE Unlock(p)
      BY <1>2, <2>2, GotoMoves DEF Unlock, Labels
    <2>3. CASE Undo(p)
      BY <2>3, FinishMoves DEF Undo, Throw
    <2>4. CASE Release(p)
      <3> DEFINE b == [call[p] EXCEPT !.fd = None]
                 c == [call[p] EXCEPT !.fd = None, !.got = <<>>]
      <3>1. IsCall(c) /\ c.name = call[p].name /\ c.todo = call[p].todo
        <4>1. IsCall(b) /\ b.name = call[p].name /\ b.todo = call[p].todo
          BY <1>1, CallFields DEF Shapes
        <4>2. c = [b EXCEPT !.got = <<>>]
          OBVIOUS
        <4> HIDE DEF b
        <4>3. IsCall([b EXCEPT !.got = <<>>])
              /\ [b EXCEPT !.got = <<>>].name = b.name /\ [b EXCEPT !.got = <<>>].todo = b.todo
          BY <4>1, CallFields
        <4>4. QED
          BY <4>1, <4>2, <4>3
      <3>2. Finish(p) \/ Advance(p, c, "fetch", "idle")
        BY <2>4 DEF Release, Throw
      <3> HIDE DEF c
      <3>3. QED
        BY <1>2, <3>1, <3>2, FinishMoves, AdvanceMoves DEF Labels
    <2>5. QED
      BY <2>1, <2>2, <2>3, <2>4
  <1>5. \/ locks' = [locks EXCEPT ![p] = ls]
        \/ UNCHANGED locks /\ pc[p] = "probe"
    BY DEF Probe, Unlock, Undo, Release
  <1> HIDE DEF ls
  <1>6. CASE locks' = [locks EXCEPT ![p] = ls]
    <2>1. LocksOf(p)'
      <3>1. locks'[p] = ls
        BY <1>6 DEF Inv, Functions
      <3>2. QED
        BY <1>2, <1>3, <1>4, <3>1 DEF LocksOf, Moved
    <2>2. QED
      BY <1>2, <1>3, <1>4, <1>6, <2>1, MovedKeepsInv
  <1>7. CASE UNCHANGED locks /\ pc[p] = "probe"
    <2>1. LocksOf(p)'
      BY <1>1, <1>2, <1>4, <1>7 DEF LocksOf, Moved, Holding
    <2>2. QED
      BY <1>2, <1>4, <1>7, <2>1, MovedOnly
  <1>8. QED
    BY <1>5, <1>6, <1>7

LEMMA CrashKeepsInv ==
    ASSUME Inv, NEW p \in Procs, Crash(p)
    PROVE  Inv'
  <1> DEFINE none == {}
  <1>1. /\ Moved(p, {"dead"})
        /\ locks' = [locks EXCEPT ![p] = none] /\ held' = [held EXCEPT ![p] = NotHeld]
    BY EndMoves DEF Crash
  <1>2. LocksOf(p)'
    <2>1. pc'[p] = "dead"
      BY <1>1 DEF Moved
    <2>2. QED
      BY <2>1 DEF LocksOf
  <1>3. IsHeld(NotHeld) /\ \A l \in none : IsLock(l)
    BY DEF IsHeld, NotHeld
  <1> HIDE DEF none
  <1>4. QED
    BY <1>1, <1>2, <1>3, MovedKeepsInv

LEMMA NextInv == Inv /\ [Next]_vars => Inv'
  <1> SUFFICES ASSUME Inv, [Next]_vars PROVE Inv'
    OBVIOUS
  <1>1. ASSUME NEW p \in Procs, Step(p) PROVE Inv'
    BY <1>1, GoOnKeepsInv, OthersKeepInv, LockingKeepsInv, NotingKeepsInv, UnlockingKeepsInv
       DEF Step, Waiting
  <1>2. CASE UNCHANGED <<locks, held, pc, call>>
    BY <1>2 DEF Inv, Functions, Shapes, LocksOf, Item
  <1>3. ASSUME NEW n \in Names, Modify(n) PROVE Inv'
    BY <1>2, <1>3 DEF Modify
  <1>4. CASE Tick
    BY <1>2, <1>4 DEF Tick
  <1>5. CASE UNCHANGED vars
    BY <1>2, <1>5 DEF vars
  <1>6. QED
    BY <1>1, <1>3, <1>4, <1>5, CallerKeepsInv, CrashKeepsInv DEF Next

\* store_dap_response(), get_read_lock() and the others: when a call of any of
\* them ends, with an answer or with an exception, no lock is left but that of
\* the caller's MDSReadLock, and that of a response that could not be opened.
THEOREM LocksAreGivenUp == Spec => []NoLockLeftBehind
  <1>1. Inv => NoLockLeftBehind
    BY DEF Inv, LocksOf, NoLockLeftBehind
  <1>2. QED
    BY InitInv, NextInv, <1>1, PTL DEF Spec
-----------------------------------------------------------------------------
(* Types.                                                                  *)

\* Where the stream of a response is open.
Storing == {"write", "purge", "unlock", "close", "undo", "undo_purge"}

IsFile(f) == f = [body |-> f.body, mtime |-> f.mtime]

WorldTypes ==
    /\ clock \in 0..MaxClock
    /\ data \in [Names -> 0..clock]

DirTypes == dir \in [Items -> Inodes \cup {None}]

FileTypes ==
    /\ file = [i \in Inodes |-> file[i]]
    /\ \A i \in Inodes : IsFile(file[i]) /\ file[i].mtime \in 0..clock

\* The end of a response is in the buffer from the opening of the stream on.
OutOf(p) ==
    /\ pc[p] \notin Storing => out[p] = Closed
    /\ pc[p] \in Storing =>
          /\ out[p] = [ino |-> out[p].ino, left |-> out[p].left]
          /\ out[p].ino \in Inodes /\ out[p].left \in 1..2
    /\ pc[p] = "write" => out[p].left = 2

LockTypesOf(p) == \A l \in locks[p] : l.ino \in Inodes /\ l.mode \in {"sh", "ex"}

\* A reader has the file it reads locked.
CallOf(p) ==
    /\ call[p].lmt \in 0..clock
    /\ pc[p] \in {"idle", "dead"} => call[p] = NoCall
    /\ pc[p] \notin {"idle", "dead"} => call[p].name \in Names
    /\ pc[p] \in {"transfer", "release"} =>
          /\ call[p].fd \in Inodes
          /\ \E l \in locks[p] : l.ino = call[p].fd

HeldOf(p) ==
    /\ held[p] = NotHeld \/ held[p].item \in Items
    /\ held[p].lmt \in 0..clock
    /\ pc[p] \in {"get_lmt", "get_cache_lmt"} => held[p].item = Item(p)

OutTypes == out = [p \in Procs |-> out[p]] /\ \A p \in Procs : OutOf(p)

Types ==
    /\ raced \in BOOLEAN
    /\ WorldTypes /\ DirTypes /\ FileTypes /\ OutTypes
    /\ \A p \in Procs : LockTypesOf(p) /\ CallOf(p) /\ HeldOf(p)

Acts(p) == Call(p) \/ Step(p) \/ DropLock(p) \/ Crash(p)

\* A step of p is about p.
LEMMA Frame ==
    ASSUME Inv, OutTypes, NEW p \in Procs, Acts(p), NEW q \in Procs \ {p}
    PROVE  Same(q) /\ out'[q] = out[q]
  <1> USE DEF Inv, Functions, OutTypes, Same, Goto
  <1>1. CASE Call(p)
    BY <1>1 DEF Call
  <1>2. CASE DropLock(p)
    BY <1>2 DEF DropLock, ClearLock
  <1>3. CASE Crash(p)
    BY <1>3 DEF Crash
  <1>4. CASE CreateAndLock(p) \/ CreateFails(p) \/ OpenResponse(p) \/ OpenFails(p)
    BY <1>4 DEF CreateAndLock, CreateFails, OpenResponse, OpenFails, Throw, Finish
  <1>5. CASE Writer(p) \/ WriterUnlimited(p) \/ WriterFails(p) \/ Purge(p) \/ PurgeFails(p)
             \/ Unlock(p)
    BY <1>5 DEF Writer, WriterUnlimited, WriterFails, Stream, Purge, PurgeFails, Unlock
  <1>6. CASE CloseResponse(p) \/ Undo(p) \/ LockLedger(p) \/ LockLedgerFails(p)
             \/ WriteLedger(p) \/ RemoveResponse(p)
    BY <1>6 DEF CloseResponse, Undo, LockLedger, LockLedgerFails, WriteLedger, RemoveResponse,
                Throw, Finish, Advance
  <1>7. CASE GetLmt(p) \/ GetLmtFails(p) \/ GetCacheLmt(p) \/ Transfer(p)
    BY <1>7 DEF GetLmt, GetLmtFails, GetCacheLmt, Transfer, ClearLock, Throw, Finish
  <1>8. CASE Release(p)
    BY <1>8 DEF Release, Throw, Finish, Advance
  <1>9. CASE Probe(p) \/ Lookup(p) \/ Fetch(p)
    BY <1>9 DEF Probe, Lookup, Fetch, Throw, Finish, Advance
  <1>10. QED
    BY <1>1, <1>2, <1>3, <1>4, <1>5, <1>6, <1>7, <1>8, <1>9 DEF Acts, Step, Waiting

-----------------------------------------------------------------------------
(* What a step of p does to the files.                                     *)

\* Names go, never that of a file that is to be opened, or it is noted.
Shrunk ==
    /\ dir' = [it \in Items |-> dir'[it]]
    /\ \A it \in Items : dir'[it] \in {dir[it], None}
    /\ raced' \in BOOLEAN /\ (raced => raced')
    /\ \A q \in Procs : pc[q] = "open" /\ dir'[Item(q)] # dir[Item(q)] => raced'

\* Files that nobody uses may go.
Cleans(f) == file' = f \/ file' = Collected(f, dir', locks', out')

Keeps(p) ==
    /\ Shrunk
    /\ Cleans(file)
    /\ out' = out \/ out' = [out EXCEPT ![p] = Closed]

Adds(p) ==
    /\ pc[p] = "write"
    /\ UNCHANGED <<dir, raced>>
    /\ \E n \in 0..1 :
        /\ file' = Appended(p, n)
        /\ out' = [out EXCEPT ![p].left = @ - n]

Closes(p) ==
    /\ pc[p] \in {"close", "undo", "undo_purge"}
    /\ Shrunk
    /\ out' = [out EXCEPT ![p] = Closed]
    /\ \E n \in 0..2 : n <= out[p].left /\ Cleans(Appended(p, n))

Makes(p) ==
    /\ dir[Item(p)] = None /\ Item(p) \in Items
    /\ UNCHANGED raced
    /\ \E i \in Inodes :
        /\ IsFree(Item(p), i)
        /\ MakeFile(Item(p), i)
        /\ \/ pc[p] = "create" /\ out' = out
           \/ pc[p] = "open" /\ out' = [out EXCEPT ![p] = [ino |-> i, left |-> 2]]

Opens(p) ==
    /\ pc[p] = "open"
    /\ dir[Item(p)] \in Inodes
    /\ UNCHANGED <<dir, file, raced>>
    /\ out' = [out EXCEPT ![p] = [ino |-> dir[Item(p)], left |-> 2]]

LEMMA UnlinkShrinks ==
    ASSUME Inv, raced \in BOOLEAN, DirTypes, NEW p \in Procs, pc[p] # "open",
           NEW its, Unlink(its, p)
    PROVE  Shrunk
  <1>1. /\ dir' = [it \in Items |-> dir'[it]]
        /\ \A it \in Items : dir'[it] \in {dir[it], None}
        /\ \A it \in Items : dir'[it] # dir[it] => it \in its
    BY DEF Unlink, DirTypes
  <1>2. raced' \in BOOLEAN /\ (raced => raced')
    BY Zenon DEF Unlink
  <1>3. ASSUME NEW q \in Procs, pc[q] = "open", dir'[Item(q)] # dir[Item(q)]
        PROVE  raced'
    <2>1. q \in Procs \ {p} /\ Item(q) \in its
      BY <1>1, <1>3, ItemType
    <2>2. QED
      BY <1>3, <2>1, Zenon DEF Unlink
  <1>4. QED
    BY <1>1, <1>2, <1>3 DEF Shrunk

LEMMA SameNames ==
    ASSUME raced \in BOOLEAN, DirTypes, UNCHANGED <<dir, raced>>
    PROVE  Shrunk
  BY DEF Shrunk, DirTypes

LEMMA Effects ==
    ASSUME Inv, Types, NEW p \in Procs, Acts(p)
    PROVE  Keeps(p) \/ Adds(p) \/ Closes(p) \/ Makes(p) \/ Opens(p)
  <1>0. raced \in BOOLEAN /\ DirTypes /\ OutTypes
    BY DEF Types
  <1>1. CASE Call(p) \/ CreateFails(p) \/ OpenFails(p)
             \/ LockLedger(p) \/ LockLedgerFails(p) \/ WriteLedger(p)
             \/ GetLmt(p) \/ Fetch(p) \/ Lookup(p) \/ Transfer(p)
    <2>1. UNCHANGED <<dir, file, raced, out>>
      BY <1>1 DEF Call, CreateFails, OpenFails, LockLedger, LockLedgerFails, WriteLedger,
                  GetLmt, Fetch, Lookup, Transfer, store
    <2>2. QED
      BY <1>0, <2>1, SameNames DEF Keeps, Cleans
  <1>2. CASE Probe(p) \/ Unlock(p) \/ GetLmtFails(p) \/ GetCacheLmt(p) \/ DropLock(p)
             \/ Release(p)
    <2>1. /\ UNCHANGED <<dir, raced, out>>
          /\ file' = file \/ file' = Collected(file, dir, locks', out)
      BY <1>2 DEF Probe, Unlock, GetLmtFails, GetCacheLmt, DropLock, Release, ClearLock, store
    <2>2. QED
      BY <1>0, <2>1, SameNames DEF Keeps, Cleans
  <1>3. CASE Crash(p)
    <2>1. /\ UNCHANGED <<dir, raced>> /\ out' = [out EXCEPT ![p] = Closed]
          /\ file' = Collected(file, dir, locks', out')
      BY <1>3 DEF Crash
    <2>2. QED
      BY <1>0, <2>1, SameNames DEF Keeps, Cleans
  <1>4. CASE Purge(p) \/ PurgeFails(p)
    <2>1. PICK its \in SUBSET Victims(p) :
              /\ Unlink(its, p)
              /\ file' = Collected(file, dir', locks, out)
      BY <1>4 DEF Purge, PurgeFails
    <2>2. UNCHANGED <<locks, out>> /\ pc[p] # "open"
      BY <1>4 DEF Purge, PurgeFails
    <2>3. QED
      BY <1>0, <2>1, <2>2, UnlinkShrinks DEF Keeps, Cleans
  <1>5. CASE RemoveResponse(p)
    BY <1>0, <1>5, UnlinkShrinks DEF RemoveResponse, Keeps, Cleans
  <1>6. CASE Writer(p) \/ WriterUnlimited(p) \/ WriterFails(p)
    BY <1>6 DEF Writer, WriterUnlimited, WriterFails, Stream, Adds
  <1>7. CASE CloseResponse(p)
    <2>1. out[p].left \in 0..2
      BY <1>0, <1>7 DEF CloseResponse, OutTypes, OutOf, Storing
    <2>2. /\ pc[p] = "close" /\ UNCHANGED <<dir, raced, locks>>
          /\ out' = [out EXCEPT ![p] = Closed]
          /\ file' = Collected(Appended(p, out[p].left), dir, locks, out')
      BY <1>7 DEF CloseResponse
    <2>3. Cleans(Appended(p, out[p].left)) /\ out[p].left <= out[p].left
      BY <2>1, <2>2 DEF Cleans
    <2>4. QED
      BY <1>0, <2>1, <2>2, <2>3, SameNames DEF Closes
  <1>8. CASE Undo(p)
    <2>1. out[p].left \in 1..2
      BY <1>0, <1>8 DEF Undo, OutTypes, OutOf, Storing
    <2>2. /\ pc[p] \in {"undo", "undo_purge"} /\ Unlink({Item(p)}, p)
          /\ out' = [out EXCEPT ![p] = Closed]
      BY <1>8 DEF Undo
    <2>3. PICK n \in Buffered(p) : file' = Collected(Appended(p, n), dir', locks', out')
      BY <1>8 DEF Undo
    <2>4. n \in 0..2 /\ n <= out[p].left
      <3>1. n = out[p].left \/ n \in 0..1
        BY DEF Buffered
      <3>2. QED
        BY <2>1, <3>1
    <2>5. Cleans(Appended(p, n))
      BY <2>3 DEF Cleans
    <2>6. QED
      BY <1>0, <2>2, <2>4, <2>5, UnlinkShrinks DEF Closes
  <1>9. CASE CreateAndLock(p)
    BY <1>9, ItemType DEF CreateAndLock, Makes
  <1>10. CASE OpenResponse(p)
    <2>1. PICK i \in Inodes :
              /\ \/ dir[Item(p)] = i /\ UNCHANGED <<dir, file>>
                 \/ dir[Item(p)] = None /\ IsFree(Item(p), i) /\ MakeFile(Item(p), i)
              /\ out' = [out EXCEPT ![p] = [ino |-> i, left |-> 2]]
      BY <1>10 DEF OpenResponse
    <2>2. pc[p] = "open" /\ UNCHANGED raced /\ Item(p) \in Items
      BY <1>10, ItemType DEF OpenResponse
    <2>3. CASE dir[Item(p)] = i /\ UNCHANGED <<dir, file>>
      BY <2>1, <2>2, <2>3 DEF Opens
    <2>4. CASE dir[Item(p)] = None /\ IsFree(Item(p), i) /\ MakeFile(Item(p), i)
      BY <2>1, <2>2, <2>4 DEF Makes
    <2>5. QED
      BY <2>1, <2>3, <2>4
  <1>11. QED
    <2>1. \/ Call(p) \/ CreateFails(p) \/ OpenFails(p)
          \/ LockLedger(p) \/ LockLedgerFails(p) \/ WriteLedger(p)
          \/ GetLmt(p) \/ Fetch(p) \/ Lookup(p) \/ Transfer(p)
          \/ Probe(p) \/ Unlock(p) \/ GetLmtFails(p) \/ GetCacheLmt(p) \/ DropLock(p)
          \/ Release(p) \/ Crash(p) \/ Purge(p) \/ PurgeFails(p) \/ RemoveResponse(p)
          \/ Writer(p) \/ WriterUnlimited(p) \/ WriterFails(p)
          \/ CloseResponse(p) \/ Undo(p) \/ CreateAndLock(p) \/ OpenResponse(p)
      BY Zenon DEF Acts, Step, Waiting
    <2>2. QED
      BY <2>1, <1>1, <1>2, <1>3, <1>4, <1>5, <1>6, <1>7, <1>8, <1>9, <1>10, Zenon

\* An inode that is in use has a name, a stream or a lock.
LEMMA CollectedKeeps ==
    ASSUME NEW f, NEW d, NEW ls, NEW o, NEW i \in Inodes
    PROVE  /\ Collected(f, d, ls, o) = [j \in Inodes |-> Collected(f, d, ls, o)[j]]
           /\ Collected(f, d, ls, o)[i] \in {f[i], NoFile}
           /\ InUse(i, d, ls, o) => Collected(f, d, ls, o)[i] = f[i]
  BY DEF Collected

LEMMA CleansKeeps ==
    ASSUME NEW f, f = [j \in Inodes |-> f[j]], Cleans(f), NEW i \in Inodes
    PROVE  /\ file' = [j \in Inodes |-> file'[j]]
           /\ file'[i] \in {f[i], NoFile}
           /\ InUse(i, dir', locks', out') => file'[i] = f[i]
  <1>1. CASE file' = f
    BY <1>1
  <1>2. CASE file' = Collected(f, dir', locks', out')
    <2>1. ASSUME NEW g, NEW d, NEW ls, NEW o, g = Collected(f, d, ls, o)
          PROVE  /\ g = [j \in Inodes |-> g[j]]
                 /\ g[i] \in {f[i], NoFile}
                 /\ InUse(i, d, ls, o) => g[i] = f[i]
      BY <2>1, CollectedKeeps
    <2>2. QED
      BY <1>2, <2>1, Zenon
  <1>3. QED
    BY <1>1, <1>2 DEF Cleans

\* Parts that leave the buffer make the file as new as the clock.
LEMMA AppendedKeeps ==
    ASSUME FileTypes, NEW p \in Procs, out[p].ino \in Inodes, NEW n, NEW i \in Inodes
    PROVE  /\ Appended(p, n) = [j \in Inodes |-> Appended(p, n)[j]]
           /\ IsFile(Appended(p, n)[i])
           /\ Appended(p, n)[i].mtime \in {file[i].mtime, clock}
           /\ i # out[p].ino => Appended(p, n)[i] = file[i]
           /\ Appended(p, n)[out[p].ino].body =
                 file[out[p].ino].body \o SubSeq(Whole, 3 - out[p].left, 2 - out[p].left + n)
  <1> DEFINE parts == SubSeq(Whole, 3 - out[p].left, 2 - out[p].left + n)
             old == file[out[p].ino]
             new == [body |-> old.body \o parts, mtime |-> IF n > 0 THEN clock ELSE old.mtime]
  <1>1. Appended(p, n) = [file EXCEPT ![out[p].ino] = new]
    BY DEF Appended
  <1>2. IsFile(new) /\ new.mtime \in {old.mtime, clock} /\ new.body = old.body \o parts
    BY DEF IsFile
  <1> HIDE DEF new, parts
  <1>3. /\ Appended(p, n) = [j \in Inodes |-> Appended(p, n)[j]]
        /\ Appended(p, n)[out[p].ino] = new
        /\ i # out[p].ino => Appended(p, n)[i] = file[i]
    BY <1>1 DEF FileTypes
  <1>4. IsFile(Appended(p, n)[i])
    <2>1. IsFile(file[i])
      BY DEF FileTypes
    <2>2. QED
      BY <1>2, <1>3, <2>1, Zenon
  <1>5. Appended(p, n)[i].mtime \in {file[i].mtime, clock}
    BY <1>2, <1>3, Zenon
  <1>6. Appended(p, n)[out[p].ino].body =
           file[out[p].ino].body \o SubSeq(Whole, 3 - out[p].left, 2 - out[p].left + n)
    BY <1>2, <1>3, Zenon DEF parts
  <1>7. QED
    BY <1>3, <1>4, <1>5, <1>6, Zenon

\* A file that is in use keeps its time or has that of the clock.
LEMMA FilesAge ==
    ASSUME Inv, Types, NEW p \in Procs, Acts(p)
    PROVE  /\ file' = [i \in Inodes |-> file'[i]]
           /\ \A i \in Inodes :
                 /\ IsFile(file'[i])
                 /\ file'[i].mtime \in {file[i].mtime, clock, 0}
                 /\ InUse(i, dir', locks', out') => file'[i].mtime \in {file[i].mtime, clock}
           /\ dir' \in [Items -> Inodes \cup {None}]
           /\ \A it \in Items : \/ dir'[it] \in {None, dir[it]}
                                \/ file'[dir'[it]].mtime = clock
  <1>0. FileTypes /\ DirTypes /\ OutTypes /\ clock \in Nat
    BY StoreAssumption DEF Types, WorldTypes
  <1>1. IsFile(NoFile) /\ NoFile.mtime = 0
    BY DEF IsFile, NoFile
  <1>2. CASE Keeps(p)
    <2>1. /\ Shrunk /\ Cleans(file)
      BY <1>2 DEF Keeps
    <2>2. /\ dir' \in [Items -> Inodes \cup {None}]
          /\ \A it \in Items : dir'[it] \in {None, dir[it]}
      BY <1>0, <2>1 DEF Shrunk, DirTypes
    <2>3. \A i \in Inodes : /\ file' = [j \in Inodes |-> file'[j]]
                            /\ file'[i] \in {file[i], NoFile}
                            /\ InUse(i, dir', locks', out') => file'[i] = file[i]
      BY <1>0, <2>1, CleansKeeps DEF FileTypes
    <2>4. file' = [j \in Inodes |-> file'[j]]
      BY <1>0, <2>1 DEF FileTypes, Cleans, Collected
    <2>5. QED
      BY <1>0, <1>1, <2>2, <2>3, <2>4 DEF FileTypes
  <1>3. CASE Adds(p)
    <2>1. PICK n \in 0..1 : file' = Appended(p, n)
      BY <1>3 DEF Adds
    <2>2. out[p].ino \in Inodes /\ UNCHANGED dir
      BY <1>0, <1>3 DEF Adds, OutTypes, OutOf, Storing
    <2>3. \A i \in Inodes : /\ Appended(p, n) = [j \in Inodes |-> Appended(p, n)[j]]
                            /\ IsFile(Appended(p, n)[i])
                            /\ Appended(p, n)[i].mtime \in {file[i].mtime, clock}
      BY <1>0, <2>2, AppendedKeeps
    <2>4. file' = [j \in Inodes |-> file'[j]]
      BY <2>1, <2>2, <2>3
    <2>5. QED
      BY <1>0, <2>1, <2>2, <2>3, <2>4 DEF DirTypes
  <1>4. CASE Closes(p)
    <2>1. PICK n \in 0..2 : Cleans(Appended(p, n))
      BY <1>4 DEF Closes
    <2>2. out[p].ino \in Inodes /\ Shrunk
      BY <1>0, <1>4 DEF Closes, OutTypes, OutOf, Storing
    <2>3. /\ dir' \in [Items -> Inodes \cup {None}]
          /\ \A it \in Items : dir'[it] \in {None, dir[it]}
      BY <1>0, <2>2 DEF Shrunk, DirTypes
    <2> DEFINE f == Appended(p, n)
    <2>4. \A i \in Inodes : /\ f = [j \in Inodes |-> f[j]]
                            /\ IsFile(f[i])
                            /\ f[i].mtime \in {file[i].mtime, clock}
      BY <1>0, <2>2, AppendedKeeps
    <2> HIDE DEF f
    <2>5. f = [j \in Inodes |-> f[j]]
      BY <2>2, <2>4
    <2>6. \A i \in Inodes : /\ file' = [j \in Inodes |-> file'[j]]
                            /\ file'[i] \in {f[i], NoFile}
                            /\ InUse(i, dir', locks', out') => file'[i] = f[i]
      BY <2>1, <2>5, CleansKeeps DEF f
    <2>7. file' = [j \in Inodes |-> file'[j]]
      BY <2>2, <2>6
    <2>8. QED
      BY <1>0, <1>1, <2>3, <2>4, <2>6, <2>7
  <1>5. CASE Makes(p)
    <2>1. PICK i \in Inodes : MakeFile(Item(p), i)
      BY <1>5 DEF Makes
    <2> DEFINE new == [NoFile EXCEPT !.mtime = clock]
    <2>2. new = [body |-> <<>>, mtime |-> clock]
      BY DEF NoFile
    <2>3. IsFile(new) /\ new.mtime = clock
      BY <2>2 DEF IsFile
    <2>4. /\ dir' = [dir EXCEPT ![Item(p)] = i]
          /\ file' = [file EXCEPT ![i] = new]
      BY <2>1 DEF MakeFile
    <2> HIDE DEF new
    <2>5. QED
      BY <1>0, <1>5, <2>3, <2>4 DEF FileTypes, DirTypes, Makes
  <1>6. CASE Opens(p)
    BY <1>0, <1>6 DEF Opens, FileTypes, DirTypes
  <1>7. QED
    BY <1>2, <1>3, <1>4, <1>5, <1>6, Effects

-----------------------------------------------------------------------------
(* What a step of p does to p.                                             *)

LEMMA WorldStays ==
    ASSUME NEW p \in Procs, Acts(p)
    PROVE  UNCHANGED <<clock, data>>
  BY DEF Acts, Step, Waiting, Call, DropLock, Crash, CreateAndLock, CreateFails, OpenResponse,
         OpenFails, Writer, WriterUnlimited, WriterFails, Stream, Purge, PurgeFails, Unlock,
         CloseResponse, Undo, LockLedger, LockLedgerFails, WriteLedger, RemoveResponse, GetLmt,
         GetLmtFails, GetCacheLmt, Transfer, Release, Probe, Lookup, Fetch, world

LEMMA OutKeeps ==
    ASSUME Inv, OutTypes, NEW p \in Procs, Acts(p)
    PROVE  OutTypes'
  <1>0. OutOf(p)
    BY DEF OutTypes
  <1> USE DEF Inv, Functions, OutTypes, Goto
  <1>1. out' = [q \in Procs |-> out'[q]] /\ OutOf(p)'
    <2>1. CASE Call(p)
      <3>1. pc[p] = "idle" /\ UNCHANGED out /\ pc'[p] \in {"create", "remove", "lookup", "fetch"}
        BY <2>1 DEF Call, EntryOf
      <3>2. QED
        BY <1>0, <3>1 DEF OutOf, Storing
    <2>2. CASE DropLock(p) \/ CreateAndLock(p) \/ CreateFails(p) \/ OpenFails(p)
               \/ LockLedger(p) \/ LockLedgerFails(p) \/ WriteLedger(p)
               \/ GetLmt(p) \/ GetLmtFails(p) \/ GetCacheLmt(p) \/ Transfer(p)
      <3>1. pc[p] \notin Storing /\ pc'[p] \notin Storing /\ UNCHANGED out
        BY <2>2 DEF DropLock, CreateAndLock, CreateFails, OpenFails, LockLedger,
                    LockLedgerFails, WriteLedger, GetLmt, GetLmtFails, GetCacheLmt, Transfer, Throw, Finish, Storing
      <3>2. QED
        BY <1>0, <3>1 DEF OutOf, Storing
    <2>3. CASE RemoveResponse(p) \/ Release(p) \/ Probe(p) \/ Lookup(p) \/ Fetch(p)
      <3>1. pc[p] \notin Storing /\ pc'[p] \notin Storing /\ UNCHANGED out
        BY <2>3 DEF RemoveResponse, Release, Probe, Lookup, Fetch, Throw, Finish, Advance, Storing
      <3>2. QED
        BY <1>0, <3>1 DEF OutOf, Storing
    <2>4. CASE OpenResponse(p)
      <3>1. PICK i \in Inodes : out' = [out EXCEPT ![p] = [ino |-> i, left |-> 2]]
        BY <2>4 DEF OpenResponse
      <3>2. pc'[p] = "write"
        BY <2>4 DEF OpenResponse
      <3>3. QED
        BY <3>1, <3>2 DEF OutOf, Storing
    <2>5. CASE Writer(p) \/ WriterUnlimited(p) \/ WriterFails(p)
      <3>1. PICK n \in 0..1 : out' = [out EXCEPT ![p].left = @ - n]
        BY <2>5 DEF Writer, WriterUnlimited, WriterFails, Stream
      <3>2. pc[p] = "write" /\ pc'[p] \in {"purge", "unlock", "undo"}
        BY <2>5 DEF Writer, WriterUnlimited, WriterFails, Stream
      <3>3. /\ out[p] = [ino |-> out[p].ino, left |-> 2]
            /\ out[p].ino \in Inodes
        BY <1>0, <3>2 DEF OutOf, Storing
      <3>4. out'[p] = [out[p] EXCEPT !.left = @ - n]
        BY <3>1
      <3>5. out'[p] = [ino |-> out[p].ino, left |-> 2 - n]
        BY <3>3, <3>4
      <3>6. QED
        BY <3>1, <3>2, <3>3, <3>5 DEF OutOf, Storing
    <2>6. CASE Purge(p) \/ PurgeFails(p) \/ Unlock(p)
      <3>1. /\ pc[p] \in {"purge", "unlock"} /\ pc'[p] \in {"unlock", "undo_purge", "close"}
            /\ UNCHANGED out
        BY <2>6 DEF Purge, PurgeFails, Unlock
      <3>2. QED
        BY <1>0, <3>1 DEF OutOf, Storing
    <2>7. CASE CloseResponse(p) \/ Undo(p) \/ Crash(p)
      <3>1. pc'[p] \notin Storing /\ out' = [out EXCEPT ![p] = Closed]
        BY <2>7 DEF CloseResponse, Undo, Crash, Throw, Finish, Advance, Storing
      <3>2. QED
        BY <3>1 DEF OutOf, Storing
    <2>8. QED
      BY <2>1, <2>2, <2>3, <2>4, <2>5, <2>6, <2>7 DEF Acts, Step, Waiting
  <1>2. ASSUME NEW q \in Procs \ {p} PROVE OutOf(q)'
    BY Frame DEF OutOf, Same
  <1>3. QED
    BY <1>1, <1>2

LEMMA LockTypesKeep ==
    ASSUME Inv, Types, NEW p \in Procs, Acts(p)
    PROVE  LockTypesOf(p)'
  <1>0. LockTypesOf(p) /\ DirTypes
    BY DEF Types
  <1> USE DEF Inv, Functions
  <1>1. CASE UNCHANGED locks
    BY <1>0, <1>1 DEF LockTypesOf
  <1>2. CASE \E it : locks' = [locks EXCEPT ![p] = Unlocked(p, it)]
    BY <1>0, <1>2 DEF LockTypesOf, Unlocked
  <1>3. CASE CreateAndLock(p)
    <2>1. PICK i \in Inodes : locks' = [locks EXCEPT ![p] = Locked(p, Item(p), i, "ex")]
      BY <1>3 DEF CreateAndLock
    <2>2. QED
      BY <1>0, <2>1 DEF LockTypesOf, Locked
  <1>4. CASE /\ locks' = [locks EXCEPT ![p] = Locked(p, Item(p), dir[Item(p)], "sh")]
             /\ dir[Item(p)] # None /\ pc[p] \in {"lookup", "fetch"}
    <2>1. dir[Item(p)] \in Inodes
      BY <1>0, <1>4, ItemType DEF DirTypes
    <2>2. QED
      BY <1>0, <1>4, <2>1 DEF LockTypesOf, Locked
  <1>5. CASE Writer(p)
    <2>1. locks'[p] = {IF l.item = Item(p) THEN [l EXCEPT !.mode = "sh"] ELSE l : l \in locks[p]}
      BY <1>5 DEF Writer, Stream
    <2>2. ASSUME NEW l \in locks'[p] PROVE l.ino \in Inodes /\ l.mode \in {"sh", "ex"}
      <3>1. PICK k \in locks[p] : l = IF k.item = Item(p) THEN [k EXCEPT !.mode = "sh"] ELSE k
        BY <2>1
      <3>2. k = [item |-> k.item, ino |-> k.ino, mode |-> k.mode]
        BY DEF Shapes, IsLock
      <3>3. l \in {k, [item |-> k.item, ino |-> k.ino, mode |-> "sh"]}
        BY <3>1, <3>2
      <3>4. QED
        BY <1>0, <3>3 DEF LockTypesOf
    <2>3. QED
      BY <2>2 DEF LockTypesOf
  <1>6. CASE Crash(p)
    BY <1>6 DEF Crash, LockTypesOf
  <1>7. CASE Call(p) \/ CreateFails(p) \/ OpenResponse(p) \/ OpenFails(p)
             \/ WriterUnlimited(p) \/ WriterFails(p) \/ Purge(p) \/ PurgeFails(p)
             \/ CloseResponse(p) \/ LockLedger(p) \/ LockLedgerFails(p) \/ WriteLedger(p)
             \/ RemoveResponse(p) \/ GetLmt(p) \/ Transfer(p)
    <2>1. UNCHANGED locks
      BY <1>7 DEF Call, CreateFails, OpenResponse, OpenFails, WriterUnlimited, WriterFails,
                  Purge, PurgeFails, CloseResponse, LockLedger, LockLedgerFails, WriteLedger,
                  RemoveResponse, GetLmt, Transfer
    <2>2. QED
      BY <1>1, <2>1
  <1>8. CASE DropLock(p) \/ GetLmtFails(p) \/ GetCacheLmt(p)
    <2>1. UNCHANGED locks \/ locks' = [locks EXCEPT ![p] = Unlocked(p, held[p].item)]
      BY <1>8 DEF DropLock, GetLmtFails, GetCacheLmt, ClearLock
    <2>2. QED
      BY <1>1, <1>2, <2>1
  <1>9. CASE Probe(p) \/ Unlock(p) \/ Undo(p) \/ Release(p)
    <2>1. UNCHANGED locks \/ locks' = [locks EXCEPT ![p] = Unlocked(p, Item(p))]
      BY <1>9 DEF Probe, Unlock, Undo, Release
    <2>2. QED
      BY <1>1, <1>2, <2>1
  <1>10. CASE Lookup(p) \/ Fetch(p)
    <2>1. \/ UNCHANGED locks
          \/ /\ locks' = [locks EXCEPT ![p] = Locked(p, Item(p), dir[Item(p)], "sh")]
             /\ dir[Item(p)] # None /\ pc[p] \in {"lookup", "fetch"}
      BY <1>10 DEF Lookup, Fetch
    <2>2. QED
      BY <1>1, <1>4, <2>1
  <1>11. QED
    BY <1>3, <1>5, <1>6, <1>7, <1>8, <1>9, <1>10 DEF Acts, Step, Waiting

\* The way to the next response.
LEMMA AdvanceCall ==
    ASSUME Inv, Types, NEW p \in Procs, pc[p] \notin {"idle", "dead", "ledger", "ledger_write"},
           NEW c, IsCall(c), c.name = call[p].name, c.lmt \in 0..clock, UNCHANGED clock,
           NEW first \in {"create", "remove", "fetch"}, NEW last \in {"idle", "ledger"},
           Advance(p, c, first, last)
    PROVE  CallOf(p)'
  <1>1. c.name \in Names
    BY DEF Types, CallOf
  <1>2. clock \in Nat
    BY StoreAssumption DEF Types, WorldTypes
  <1>3. CASE Len(c.todo) = 1 /\ last = "idle"
    <2>1. pc'[p] = "idle" /\ call'[p] = NoCall
      BY <1>3 DEF Advance, Goto, Inv, Functions
    <2>2. QED
      BY <1>2, <2>1 DEF CallOf, NoCall
  <1>4. CASE ~(Len(c.todo) = 1 /\ last = "idle")
    <2>1. call'[p] = [c EXCEPT !.todo = Tail(@)]
      BY <1>4 DEF Advance, Inv, Functions
    <2>2. call'[p] = [op |-> c.op, name |-> c.name, todo |-> Tail(c.todo),
                      got |-> c.got, fd |-> c.fd, lmt |-> c.lmt]
      BY <2>1 DEF IsCall
    <2>3. pc'[p] \in {first, "ledger"}
      BY <1>4 DEF Advance, Goto, Inv, Functions
    <2>4. QED
      BY <1>1, <2>2, <2>3 DEF CallOf
  <1>5. QED
    BY <1>3, <1>4

LEMMA FinishCall ==
    ASSUME Inv, Types, NEW p \in Procs, NEW to \in {"idle", "dead"}, Goto(p, to),
           call' = [call EXCEPT ![p] = NoCall], UNCHANGED clock
    PROVE  CallOf(p)'
  <1>1. pc'[p] \in {"idle", "dead"} /\ call'[p] = NoCall
    BY DEF Goto, Inv, Functions
  <1>2. clock \in Nat
    BY StoreAssumption DEF Types, WorldTypes
  <1>3. QED
    BY <1>1, <1>2 DEF CallOf, NoCall

LEMMA CallKeeps ==
    ASSUME Inv, Types, NEW p \in Procs, Acts(p)
    PROVE  CallOf(p)'
  <1>0. /\ CallOf(p) /\ Shapes(p) /\ DirTypes /\ UNCHANGED <<clock, data>>
        /\ data \in [Names -> 0..clock] /\ clock \in Nat
    BY WorldStays, StoreAssumption DEF Types, Inv, WorldTypes
  <1>1. CASE Call(p)
    <2>1. PICK op \in Ops[p], n \in Names :
              /\ call' = [call EXCEPT ![p] =
                             [NoCall EXCEPT !.op = op, !.name = n, !.todo = ToDo(op)]]
              /\ pc' = [pc EXCEPT ![p] = EntryOf(op)]
      BY <1>1 DEF Call, Goto
    <2>2. call'[p].name = n /\ call'[p].lmt = 0
      BY <2>1 DEF Inv, Functions, NoCall
    <2>3. pc'[p] \in {"create", "remove", "lookup", "fetch"}
      BY <2>1 DEF Inv, Functions, EntryOf
    <2>4. QED
      BY <1>0, <2>2, <2>3 DEF CallOf
  <1>2. CASE CreateAndLock(p) \/ CreateFails(p) \/ OpenResponse(p) \/ Writer(p)
             \/ WriterUnlimited(p) \/ WriterFails(p) \/ Purge(p) \/ PurgeFails(p) \/ Unlock(p)
             \/ LockLedger(p)
    <2>1. /\ UNCHANGED call /\ pc[p] \notin {"idle", "dead"}
          /\ pc'[p] \in Storing \cup {"open", "probe", "ledger_write"}
      BY <1>2 DEF CreateAndLock, CreateFails, OpenResponse, Writer, WriterUnlimited, WriterFails,
                  Stream, Purge, PurgeFails, Unlock, LockLedger, Goto, Inv, Functions, Storing
    <2>2. QED
      BY <1>0, <2>1 DEF CallOf, Storing
  <1>3. CASE DropLock(p)
    <2>1. UNCHANGED <<call, pc>> /\ pc[p] = "idle"
      BY <1>3 DEF DropLock
    <2>2. QED
      BY <1>0, <2>1 DEF CallOf
  <1>4. CASE Finish(p)
    BY <1>0, <1>4, FinishCall DEF Finish
  <1>5. CASE Crash(p)
    BY <1>0, <1>5, FinishCall DEF Crash
  <1>6. CASE OpenFails(p) \/ LockLedgerFails(p) \/ WriteLedger(p) \/ Undo(p)
             \/ GetLmtFails(p) \/ GetCacheLmt(p)
    BY <1>4, <1>6 DEF OpenFails, LockLedgerFails, WriteLedger, Undo, GetLmtFails, GetCacheLmt,
                      Throw
  <1>7. CASE CloseResponse(p) \/ RemoveResponse(p) \/ Probe(p)
    <2>1. /\ pc[p] \in {"close", "remove", "probe"}
          /\ \/ Finish(p)
             \/ Advance(p, call[p], "create", "ledger")
             \/ Advance(p, call[p], "remove", "ledger")
      BY <1>7 DEF CloseResponse, RemoveResponse, Probe, Throw
    <2>2. IsCall(call[p]) /\ call[p].lmt \in 0..clock
      BY <1>0 DEF Shapes, CallOf
    <2>3. QED
      BY <1>0, <1>4, <2>1, <2>2, AdvanceCall
  <1>8. CASE GetLmt(p)
    <2>1. pc[p] = "get_lmt" /\ pc'[p] = "get_cache_lmt"
      BY <1>8 DEF GetLmt, Goto, Inv, Functions
    <2>2. call'[p] = [call[p] EXCEPT !.lmt = data[call[p].name]]
      BY <1>8 DEF GetLmt, Inv, Functions
    <2>3. call'[p].name = call[p].name /\ call'[p].lmt = data[call[p].name]
      BY <1>0, <2>2 DEF Shapes, IsCall
    <2>4. QED
      BY <1>0, <2>1, <2>3 DEF CallOf
  <1>9. CASE Transfer(p)
    <2> DEFINE body == IF Source(p) = None THEN <<>> ELSE file[Source(p)].body
    <2>1. pc[p] = "transfer" /\ pc'[p] = "release" /\ UNCHANGED locks
      BY <1>9 DEF Transfer, Goto, Inv, Functions
    <2>2. call'[p] = [call[p] EXCEPT !.got = body]
      BY <1>9 DEF Transfer, Inv, Functions
    <2> HIDE DEF body
    <2>3. call'[p].name = call[p].name /\ call'[p].lmt = call[p].lmt /\ call'[p].fd = call[p].fd
      BY <1>0, <2>2 DEF Shapes, IsCall
    <2>4. QED
      BY <1>0, <2>1, <2>3 DEF CallOf
  <1>10. CASE Release(p)
    <2> DEFINE b == [call[p] EXCEPT !.fd = None]
               c == [call[p] EXCEPT !.fd = None, !.got = <<>>]
    <2>1. /\ pc[p] = "release"
          /\ Finish(p) \/ Advance(p, c, "fetch", "idle")
      BY <1>10 DEF Release, Throw
    <2>2. c = [op |-> call[p].op, name |-> call[p].name, todo |-> call[p].todo,
               got |-> <<>>, fd |-> None, lmt |-> call[p].lmt]
      <3>1. b = [op |-> call[p].op, name |-> call[p].name, todo |-> call[p].todo,
                 got |-> call[p].got, fd |-> None, lmt |-> call[p].lmt]
        BY <1>0 DEF Shapes, IsCall
      <3>2. c = [b EXCEPT !.got = <<>>]
        OBVIOUS
      <3> HIDE DEF b, c
      <3>3. QED
        BY <3>1, <3>2
    <2>3. IsCall(c) /\ c.name = call[p].name /\ c.lmt \in 0..clock
      BY <1>0, <2>2 DEF IsCall, CallOf
    <2> HIDE DEF c
    <2>4. QED
      BY <1>0, <1>4, <2>1, <2>3, AdvanceCall
  <1>11. CASE Lookup(p)
    <2>1. \/ Finish(p)
          \/ pc[p] = "lookup" /\ pc'[p] = "get_lmt" /\ UNCHANGED call
      BY <1>11 DEF Lookup, Goto, Inv, Functions
    <2>2. QED
      BY <1>0, <1>4, <2>1 DEF CallOf
  <1>12. CASE Fetch(p)
    <2>1. CASE /\ dir[Item(p)] # None /\ pc[p] = "fetch"
               /\ locks' = [locks EXCEPT ![p] = Locked(p, Item(p), dir[Item(p)], "sh")]
               /\ call' = [call EXCEPT ![p].fd = dir[Item(p)]]
               /\ Goto(p, "transfer")
      <3>1. dir[Item(p)] \in Inodes
        BY <1>0, <2>1, ItemType DEF DirTypes
      <3>2. call'[p] = [call[p] EXCEPT !.fd = dir[Item(p)]] /\ pc'[p] = "transfer"
        BY <2>1 DEF Goto, Inv, Functions
      <3>3. /\ call'[p].name = call[p].name /\ call'[p].lmt = call[p].lmt
            /\ call'[p].fd = dir[Item(p)]
        BY <1>0, <3>2 DEF Shapes, IsCall
      <3>4. \E l \in locks'[p] : l.ino = dir[Item(p)]
        <4> DEFINE k == [item |-> Item(p), ino |-> dir[Item(p)], mode |-> "sh"]
        <4>1. locks'[p] = Locked(p, Item(p), dir[Item(p)], "sh")
          BY <2>1 DEF Inv, Functions
        <4>2. k \in locks'[p] /\ k.ino = dir[Item(p)]
          BY <4>1 DEF Locked
        <4>3. QED
          BY <4>2
      <3>5. QED
        BY <1>0, <2>1, <3>1, <3>2, <3>3, <3>4 DEF CallOf
    <2>2. QED
      BY <1>4, <1>12, <2>1 DEF Fetch, Throw
  <1>13. QED
    BY <1>1, <1>2, <1>3, <1>5, <1>6, <1>7, <1>8, <1>9, <1>10, <1>11, <1>12 DEF Acts, Step, Waiting

LEMMA HeldKeeps ==
    ASSUME Inv, Types, NEW p \in Procs, Acts(p)
    PROVE  HeldOf(p)'
  <1>0. /\ HeldOf(p) /\ CallOf(p) /\ Shapes(p) /\ UNCHANGED clock /\ clock \in Nat
    BY WorldStays, StoreAssumption DEF Types, Inv, WorldTypes
  <1> USE DEF Inv, Functions, Goto
  <1>1. CASE Call(p)
    <2>1. UNCHANGED held /\ pc'[p] \in {"create", "remove", "lookup", "fetch"}
      BY <1>1 DEF Call, EntryOf
    <2>2. QED
      BY <1>0, <2>1 DEF HeldOf
  <1>2. CASE CreateAndLock(p) \/ CreateFails(p) \/ OpenResponse(p) \/ OpenFails(p) \/ Writer(p)
             \/ WriterUnlimited(p) \/ WriterFails(p) \/ Purge(p) \/ PurgeFails(p) \/ Unlock(p)
             \/ LockLedger(p) \/ LockLedgerFails(p) \/ WriteLedger(p) \/ Transfer(p)
    <2>1. UNCHANGED held /\ pc'[p] \notin {"get_lmt", "get_cache_lmt"}
      BY <1>2 DEF CreateAndLock, CreateFails, OpenResponse, OpenFails, Writer, WriterUnlimited,
                  WriterFails, Stream, Purge, PurgeFails, Unlock, LockLedger, LockLedgerFails,
                  WriteLedger, Transfer, Throw, Finish
    <2>2. QED
      BY <1>0, <2>1 DEF HeldOf
  <1>3. CASE CloseResponse(p) \/ Undo(p) \/ RemoveResponse(p) \/ Release(p) \/ Probe(p) \/ Fetch(p)
    <2>1. UNCHANGED held /\ pc'[p] \notin {"get_lmt", "get_cache_lmt"}
      BY <1>3 DEF CloseResponse, Undo, RemoveResponse, Release, Probe, Fetch, Throw, Finish, Advance
    <2>2. QED
      BY <1>0, <2>1 DEF HeldOf
  <1>4. CASE held'[p] = NotHeld /\ pc'[p] \in {"idle", "dead"}
    BY <1>0, <1>4 DEF HeldOf, NotHeld
  <1>5. CASE DropLock(p) \/ GetLmtFails(p) \/ Crash(p)
    BY <1>4, <1>5 DEF DropLock, GetLmtFails, ClearLock, Throw, Finish, Crash
  <1>6. CASE Lookup(p)
    <2>1. pc[p] = "lookup" /\ Item(p) \in Items
      BY <1>6, ItemType DEF Lookup
    <2>2. CASE Finish(p) /\ UNCHANGED <<locks, held>>
      BY <1>0, <2>2 DEF HeldOf, Finish
    <2>3. CASE /\ held' = [held EXCEPT ![p] = [item |-> Item(p), lmt |-> 0]]
               /\ IF TakesContainer(call[p].op) THEN Goto(p, "get_lmt") /\ UNCHANGED call
                  ELSE Finish(p)
      <3>1. held'[p].item = Item(p) /\ held'[p].lmt = 0
        BY <2>3
      <3>2. \/ pc'[p] = "idle"
            \/ UNCHANGED call
        BY <2>3 DEF Finish
      <3>3. QED
        BY <1>0, <2>1, <3>1, <3>2 DEF HeldOf, Item
    <2>4. QED
      BY <1>6, <2>2, <2>3 DEF Lookup
  <1>7. CASE GetLmt(p)
    <2>1. UNCHANGED held /\ pc[p] = "get_lmt"
      BY <1>7 DEF GetLmt
    <2>2. call'[p] = [call[p] EXCEPT !.lmt = data[call[p].name]]
      BY <1>7 DEF GetLmt
    <2>3. call'[p].name = call[p].name /\ call'[p].todo = call[p].todo
      BY <1>0, <2>2 DEF Shapes, IsCall
    <2>4. QED
      BY <1>0, <2>1, <2>3 DEF HeldOf, Item
  <1>8. CASE GetCacheLmt(p)
    <2>1. pc'[p] = "idle"
      BY <1>8 DEF GetCacheLmt, Throw, Finish
    <2>2. \/ held'[p] = NotHeld
          \/ held'[p] = [held[p] EXCEPT !.lmt = call[p].lmt]
      BY <1>8 DEF GetCacheLmt, ClearLock
    <2>3. CASE held'[p] = [held[p] EXCEPT !.lmt = call[p].lmt]
      <3>1. held'[p].item = held[p].item /\ held'[p].lmt = call[p].lmt
        BY <1>0, <2>3 DEF Shapes, IsHeld
      <3>2. pc[p] = "get_cache_lmt" /\ held[p].item \in Items
        BY <1>0, <1>8, ItemType DEF GetCacheLmt, HeldOf
      <3>3. QED
        BY <1>0, <2>1, <3>1, <3>2 DEF HeldOf, CallOf
    <2>4. QED
      BY <1>4, <2>1, <2>2, <2>3
  <1>9. QED
    BY <1>1, <1>2, <1>3, <1>5, <1>6, <1>7, <1>8 DEF Acts, Step, Waiting

\* What a step of p does to the types of the others: nothing.
LEMMA OthersKeepTypes ==
    ASSUME Inv, Types, NEW p \in Procs, Acts(p), NEW q \in Procs \ {p}
    PROVE  LockTypesOf(q)' /\ CallOf(q)' /\ HeldOf(q)'
  <1>1. Same(q) /\ UNCHANGED clock /\ LockTypesOf(q) /\ CallOf(q) /\ HeldOf(q)
    BY Frame, WorldStays DEF Types
  <1>2. QED
    BY <1>1 DEF Same, LockTypesOf, CallOf, HeldOf, Item

LEMMA ActsKeepTypes ==
    ASSUME Inv, Types, NEW p \in Procs, Acts(p)
    PROVE  Types'
  <1>1. UNCHANGED <<clock, data>> /\ clock \in Nat
    BY WorldStays, StoreAssumption DEF Types, WorldTypes
  <1>2. WorldTypes'
    BY <1>1 DEF Types, WorldTypes
  <1>3. DirTypes' /\ FileTypes'
    <2>1. \A i \in Inodes : file[i].mtime \in 0..clock
      BY DEF Types, FileTypes
    <2>2. QED
      BY <1>1, <2>1, FilesAge DEF DirTypes, FileTypes
  <1>4. OutTypes'
    BY OutKeeps DEF Types
  <1>5. \A q \in Procs : LockTypesOf(q)' /\ CallOf(q)' /\ HeldOf(q)'
    BY LockTypesKeep, CallKeeps, HeldKeeps, OthersKeepTypes
  <1>6. raced' \in BOOLEAN
    BY Effects DEF Types, Keeps, Adds, Closes, Makes, Opens, Shrunk
  <1>7. QED
    BY <1>2, <1>3, <1>4, <1>5, <1>6 DEF Types

LEMMA InitTypes == Init => Types
  <1> SUFFICES ASSUME Init PROVE Types
    OBVIOUS
  <1>1. WorldTypes /\ DirTypes /\ raced \in BOOLEAN
    <2>1. clock = 0 /\ data = [n \in Names |-> 0] /\ dir = [it \in Items |-> None]
      BY DEF Init
    <2>2. raced \in BOOLEAN
      BY Zenon DEF Init
    <2>3. WorldTypes
      BY <2>1, StoreAssumption DEF WorldTypes
    <2>4. DirTypes
      BY <2>1 DEF DirTypes
    <2>5. QED
      BY <2>2, <2>3, <2>4
  <1>2. FileTypes
    BY StoreAssumption DEF Init, FileTypes, IsFile, NoFile
  <1>3. OutTypes
    BY DEF Init, OutTypes, OutOf, Storing
  <1>4. ASSUME NEW p \in Procs PROVE LockTypesOf(p) /\ CallOf(p) /\ HeldOf(p)
    <2>1. /\ locks[p] = {} /\ call[p] = NoCall /\ held[p] = NotHeld
          /\ pc[p] = "idle" /\ clock = 0
      BY DEF Init
    <2>2. NoCall.lmt = 0 /\ NotHeld.lmt = 0
      BY DEF NoCall, NotHeld
    <2>3. QED
      BY <2>1, <2>2 DEF LockTypesOf, CallOf, HeldOf
  <1>5. QED
    BY <1>1, <1>2, <1>3, <1>4 DEF Types

\* The world goes on without the store.
LEMMA WorldKeepsTypes ==
    ASSUME Types, Tick \/ \E n \in Names : Modify(n)
    PROVE  Types'
  <1>1. UNCHANGED <<dir, file, raced, locks, out, held, pc, call>>
    BY DEF Tick, Modify, store
  <1>2. clock \in Nat /\ clock' \in Nat /\ clock <= clock'
    BY StoreAssumption DEF Types, WorldTypes, Tick, Modify
  <1>3. WorldTypes'
    BY <1>2, StoreAssumption DEF Types, WorldTypes, Tick, Modify
  <1>4. DirTypes' /\ OutTypes' /\ raced' \in BOOLEAN
    BY <1>1 DEF Types, DirTypes, OutTypes, OutOf
  <1>5. FileTypes'
    BY <1>1, <1>2 DEF Types, FileTypes
  <1>6. ASSUME NEW p \in Procs PROVE LockTypesOf(p)' /\ CallOf(p)' /\ HeldOf(p)'
    <2>1. LockTypesOf(p) /\ CallOf(p) /\ HeldOf(p)
      BY DEF Types
    <2>2. LockTypesOf(p)' /\ CallOf(p)'
      BY <1>1, <1>2, <2>1 DEF LockTypesOf, CallOf
    <2>3. HeldOf(p)'
      BY <1>1, <1>2, <2>1 DEF HeldOf, Item
    <2>4. QED
      BY <2>2, <2>3
  <1>7. QED
    BY <1>3, <1>4, <1>5, <1>6 DEF Types

LEMMA NextTypes == Inv /\ Types /\ [Next]_vars => Types'
  <1> SUFFICES ASSUME Inv, Types, [Next]_vars PROVE Types'
    OBVIOUS
  <1>1. ASSUME NEW p \in Procs, Acts(p) PROVE Types'
    BY <1>1, ActsKeepTypes
  <1>2. CASE UNCHANGED vars
    BY <1>2 DEF vars, store, world, Types, WorldTypes, DirTypes, FileTypes, OutTypes, OutOf,
                LockTypesOf, CallOf, HeldOf, Item
  <1>3. QED
    BY <1>1, <1>2, WorldKeepsTypes DEF Next, Acts

\* Types: a process has a stream open exactly while it stores a response, it
\* has a call exactly while it is in one, and no file is newer than the clock.
THEOREM TypeCorrect == Spec => []TypeOK
  <1>1. Inv /\ Types => TypeOK
    <2> SUFFICES ASSUME Inv, Types PROVE TypeOK
      OBVIOUS
    <2>1. /\ clock \in 0..MaxClock /\ data \in [Names -> 0..clock]
          /\ dir \in [Items -> Inodes \cup {None}]
          /\ \A i \in Inodes : file[i].mtime \in 0..clock
      BY DEF Types, WorldTypes, DirTypes, FileTypes
    <2>2. data \in [Names -> 0..MaxClock]
      BY <2>1, StoreAssumption
    <2>3. ASSUME NEW p \in Procs
          PROVE  /\ \A l \in locks[p] : l.item \in Items /\ l.ino \in Inodes
                                        /\ l.mode \in {"sh", "ex"}
                 /\ held[p] = NotHeld \/ held[p].item \in Items
      BY DEF Inv, Shapes, IsLock, Types, LockTypesOf, HeldOf
    <2>4. ASSUME NEW p \in Procs
          PROVE  /\ out[p].left \in 0..2
                 /\ out[p] # Closed <=>
                        pc[p] \in {"write", "purge", "unlock", "close", "undo", "undo_purge"}
      <3>1. OutOf(p)
        BY DEF Types, OutTypes
      <3>2. Closed.left = 0 /\ Closed.ino = None
        BY DEF Closed
      <3>3. QED
        BY <3>1, <3>2, StoreAssumption DEF OutOf, Storing
    <2>5. ASSUME NEW p \in Procs
          PROVE  pc[p] \in {"idle", "dead"} <=> call[p] = NoCall
      <3>1. CallOf(p) /\ NoCall.name = None
        BY DEF Types, NoCall
      <3>2. QED
        BY <3>1, StoreAssumption DEF CallOf
    <2>6. QED
      BY <2>1, <2>2, <2>3, <2>4, <2>5 DEF TypeOK
  <1>2. QED
    BY InitInv, NextInv, InitTypes, NextTypes, <1>1, PTL DEF Spec

-----------------------------------------------------------------------------
(* The age of what is served.                                              *)

\* The file that has the name of a checked response, now, is as new as the
\* check said, and so is the one a reader of it has open.
Fresh(p) ==
    /\ held[p].item \in Items /\ dir[held[p].item] # None =>
           file[dir[held[p].item]].mtime >= held[p].lmt
    /\ pc[p] \in {"transfer", "release"} /\ held[p].item = Item(p) =>
           file[call[p].fd].mtime >= held[p].lmt

\* Times only go up: those of files in use, and those that have the name.
LEMMA StillFresh ==
    ASSUME Inv, Types, NEW p \in Procs, Acts(p),
           NEW m \in 0..clock,
           NEW i \in Inodes, InUse(i, dir', locks', out'), file[i].mtime >= m
    PROVE  file'[i].mtime >= m
  <1>1. file'[i].mtime \in {file[i].mtime, clock}
    BY FilesAge
  <1>2. clock \in Nat /\ file[i].mtime \in Nat
    BY StoreAssumption DEF Types, WorldTypes, FileTypes
  <1>3. QED
    BY <1>1, <1>2

LEMMA NameStaysFresh ==
    ASSUME Inv, Types, NEW p \in Procs, Acts(p), NEW m \in 0..clock,
           NEW it \in Items, dir[it] # None => file[dir[it]].mtime >= m
    PROVE  dir'[it] # None => file'[dir'[it]].mtime >= m
  <1> SUFFICES ASSUME dir'[it] # None PROVE file'[dir'[it]].mtime >= m
    OBVIOUS
  <1>1. clock \in Nat
    BY StoreAssumption DEF Types, WorldTypes
  <1>2. dir'[it] \in Inodes
    BY FilesAge
  <1>3. CASE file'[dir'[it]].mtime = clock
    BY <1>1, <1>3
  <1>4. CASE dir'[it] = dir[it]
    <2>1. InUse(dir[it], dir', locks', out')
      BY <1>4 DEF InUse
    <2>2. QED
      BY <1>2, <1>4, <2>1, StillFresh
  <1>5. QED
    BY <1>3, <1>4, FilesAge

\* The lock of a reader keeps its file.
LEMMA ReadStaysFresh ==
    ASSUME Inv, Types, NEW p \in Procs, Acts(p), NEW m \in 0..clock,
           NEW q \in Procs, NEW i \in Inodes, \E l \in locks'[q] : l.ino = i,
           file[i].mtime >= m
    PROVE  file'[i].mtime >= m
  <1>1. InUse(i, dir', locks', out')
    BY DEF InUse
  <1>2. QED
    BY <1>1, StillFresh

LEMMA OthersStayFresh ==
    ASSUME Inv, Types, NEW p \in Procs, Acts(p), NEW q \in Procs,
           Same(q), Fresh(q)
    PROVE  Fresh(q)'
  <1>1. HeldOf(q) /\ CallOf(q)
    BY DEF Types
  <1>2. ASSUME held[q].item \in Items, dir'[held[q].item] # None
        PROVE  file'[dir'[held[q].item]].mtime >= held[q].lmt
    <2>1. dir[held[q].item] # None => file[dir[held[q].item]].mtime >= held[q].lmt
      BY <1>2 DEF Fresh
    <2>2. QED
      BY <1>1, <1>2, <2>1, NameStaysFresh DEF HeldOf
  <1>3. ASSUME pc[q] \in {"transfer", "release"}, held[q].item = Item(q)
        PROVE  file'[call[q].fd].mtime >= held[q].lmt
    BY <1>1, <1>3, ReadStaysFresh DEF Fresh, HeldOf, CallOf, Same
  <1>4. QED
    BY <1>2, <1>3 DEF Fresh, Same, Item

\* Steps of p after which no reader has a file, under the same MDSReadLock.
LEMMA NoReaderStaysFresh ==
    ASSUME Inv, Types, NEW p \in Procs, Acts(p), Fresh(p),
           held'[p] = held[p], pc'[p] \notin {"transfer", "release"}
    PROVE  Fresh(p)'
  <1>1. HeldOf(p)
    BY DEF Types
  <1>2. ASSUME held[p].item \in Items, dir'[held[p].item] # None
        PROVE  file'[dir'[held[p].item]].mtime >= held[p].lmt
    <2>1. dir[held[p].item] # None => file[dir[held[p].item]].mtime >= held[p].lmt
      BY <1>2 DEF Fresh
    <2>2. QED
      BY <1>1, <1>2, <2>1, NameStaysFresh DEF HeldOf
  <1>3. QED
    BY <1>2 DEF Fresh

\* Under a lock that says nothing of the data, or none, everything is new enough.
LEMMA AnythingIsFresh ==
    ASSUME Types', NEW p \in Procs, held'[p].lmt = 0, pc'[p] \notin {"transfer", "release"}
    PROVE  Fresh(p)'
  <1>1. \A i \in Inodes : file'[i].mtime >= 0
    BY DEF Types, FileTypes
  <1>2. \A it \in Items : dir'[it] # None => dir'[it] \in Inodes
    BY DEF Types, DirTypes
  <1>3. QED
    BY <1>1, <1>2 DEF Fresh

LEMMA ActsKeepFresh ==
    ASSUME Inv, Types, Types', NEW p \in Procs, Acts(p), Fresh(p)
    PROVE  Fresh(p)'
  <1>0. HeldOf(p) /\ CallOf(p) /\ Shapes(p) /\ DirTypes
    BY DEF Types, Inv
  <1> USE DEF Inv, Functions, Goto
  <1>1. CASE Call(p)
    <2>1. held'[p] = held[p] /\ pc'[p] \in {"create", "remove", "lookup", "fetch"}
      BY <1>1 DEF Call, EntryOf
    <2>2. QED
      BY <2>1, NoReaderStaysFresh
  <1>2. CASE CreateAndLock(p) \/ CreateFails(p) \/ OpenResponse(p) \/ OpenFails(p) \/ Writer(p)
             \/ WriterUnlimited(p) \/ WriterFails(p) \/ Purge(p) \/ PurgeFails(p) \/ Unlock(p)
             \/ LockLedger(p) \/ LockLedgerFails(p) \/ WriteLedger(p) \/ GetLmt(p)
    <2>1. held'[p] = held[p] /\ pc'[p] \notin {"transfer", "release"}
      BY <1>2 DEF CreateAndLock, CreateFails, OpenResponse, OpenFails, Writer, WriterUnlimited,
                  WriterFails, Stream, Purge, PurgeFails, Unlock, LockLedger, LockLedgerFails,
                  WriteLedger, GetLmt, Throw, Finish
    <2>2. QED
      BY <2>1, NoReaderStaysFresh
  <1>3. CASE CloseResponse(p) \/ Undo(p) \/ RemoveResponse(p) \/ Release(p) \/ Probe(p)
    <2>1. held'[p] = held[p] /\ pc'[p] \notin {"transfer", "release"}
      BY <1>3 DEF CloseResponse, Undo, RemoveResponse, Release, Probe, Throw, Finish, Advance
    <2>2. QED
      BY <2>1, NoReaderStaysFresh
  <1>4. CASE DropLock(p) \/ GetLmtFails(p) \/ Crash(p)
    <2>1. held'[p] = NotHeld /\ pc'[p] \in {"idle", "dead"}
      BY <1>4 DEF DropLock, GetLmtFails, ClearLock, Throw, Finish, Crash
    <2>2. QED
      BY <2>1, AnythingIsFresh DEF NotHeld
  <1>5. CASE Lookup(p)
    <2>1. held'[p] = held[p] \/ held'[p].lmt = 0
      BY <1>5 DEF Lookup
    <2>2. pc'[p] \notin {"transfer", "release"}
      BY <1>5 DEF Lookup, Finish
    <2>3. QED
      BY <2>1, <2>2, NoReaderStaysFresh, AnythingIsFresh
  <1>6. CASE GetCacheLmt(p)
    <2>1. pc'[p] = "idle" /\ pc[p] = "get_cache_lmt"
      BY <1>6 DEF GetCacheLmt, Throw, Finish
    <2>2. CASE ClearLock(p)
      <3>1. held'[p] = NotHeld
        BY <2>2 DEF ClearLock
      <3>2. QED
        BY <2>1, <3>1, AnythingIsFresh DEF NotHeld
    <2>3. CASE /\ dir[Item(p)] # None /\ ~Reload(p)
               /\ held' = [held EXCEPT ![p].lmt = call[p].lmt]
      <3>1. held'[p] = [held[p] EXCEPT !.lmt = call[p].lmt]
        BY <2>3
      <3>2. held'[p].item = held[p].item /\ held'[p].lmt = call[p].lmt
        BY <1>0, <3>1 DEF Shapes, IsHeld
      <3>3. held[p].item = Item(p) /\ Item(p) \in Items
        BY <1>0, <2>1, ItemType DEF HeldOf
      <3>4. dir[Item(p)] \in Inodes
        BY <1>0, <2>3, <3>3 DEF DirTypes
      <3>5. file[dir[Item(p)]].mtime >= call[p].lmt
        <4>1. ~(call[p].lmt > file[dir[Item(p)]].mtime)
          BY <2>3 DEF Reload
        <4>2. file[dir[Item(p)]].mtime \in 0..clock /\ call[p].lmt \in 0..clock /\ clock \in Nat
          BY <1>0, <3>4, StoreAssumption DEF Types, FileTypes, WorldTypes, CallOf
        <4>3. QED
          BY <4>1, <4>2
      <3>6. dir'[Item(p)] # None => file'[dir'[Item(p)]].mtime >= call[p].lmt
        BY <1>0, <3>3, <3>5, NameStaysFresh DEF CallOf
      <3>7. QED
        BY <2>1, <3>2, <3>3, <3>6 DEF Fresh
    <2>4. QED
      BY <1>6, <2>2, <2>3 DEF GetCacheLmt
  <1>7. CASE Fetch(p)
    <2>1. pc[p] = "fetch" /\ held'[p] = held[p] /\ Item(p) \in Items
      BY <1>7, ItemType DEF Fetch
    <2>2. CASE Throw(p)
      <3>1. pc'[p] = "idle"
        BY <2>2 DEF Throw, Finish
      <3>2. QED
        BY <2>1, <3>1, NoReaderStaysFresh
    <2>3. CASE dir[Item(p)] # None /\ call' = [call EXCEPT ![p].fd = dir[Item(p)]]
      <3>1. call'[p] = [call[p] EXCEPT !.fd = dir[Item(p)]]
        BY <2>3
      <3>2. /\ call'[p].fd = dir[Item(p)]
            /\ call'[p].name = call[p].name /\ call'[p].todo = call[p].todo
        BY <1>0, <3>1 DEF Shapes, IsCall
      <3>3. UNCHANGED <<dir, file>>
        BY <1>7 DEF Fetch, store
      <3>4. QED
        BY <2>1, <2>3, <3>2, <3>3 DEF Fresh, Item
    <2>4. QED
      BY <1>7, <2>2, <2>3 DEF Fetch
  <1>8. CASE Transfer(p)
    <2> DEFINE body == IF Source(p) = None THEN <<>> ELSE file[Source(p)].body
    <2>1. pc[p] = "transfer" /\ held'[p] = held[p] /\ UNCHANGED <<dir, file>>
      BY <1>8 DEF Transfer, store
    <2>2. call'[p] = [call[p] EXCEPT !.got = body]
      BY <1>8 DEF Transfer
    <2> HIDE DEF body
    <2>3. /\ call'[p].name = call[p].name /\ call'[p].todo = call[p].todo
          /\ call'[p].fd = call[p].fd
      BY <1>0, <2>2 DEF Shapes, IsCall
    <2>4. QED
      BY <2>1, <2>3 DEF Fresh, Item
  <1>9. QED
    BY <1>1, <1>2, <1>3, <1>4, <1>5, <1>6, <1>7, <1>8 DEF Acts, Step, Waiting

\* The inductive invariant of all that follows.
Base == Inv /\ Types

LEMMA BaseHolds == Spec => []Base
  <1>1. Init => Base
    BY InitInv, InitTypes DEF Base
  <1>2. Base /\ [Next]_vars => Base'
    BY NextInv, NextTypes DEF Base
  <1>3. QED
    BY <1>1, <1>2, PTL DEF Spec

LEMMA NextFresh ==
    Base /\ Base' /\ (\A p \in Procs : Fresh(p)) /\ [Next]_vars => (\A p \in Procs : Fresh(p))'
  <1> SUFFICES ASSUME Base, Base', \A p \in Procs : Fresh(p), [Next]_vars,
                      NEW q \in Procs
               PROVE  Fresh(q)'
    OBVIOUS
  <1> USE DEF Base
  <1>1. ASSUME NEW p \in Procs, Acts(p) PROVE Fresh(q)'
    <2>1. CASE q = p
      BY <1>1, <2>1, ActsKeepFresh
    <2>2. CASE q # p
      <3>1. Same(q)
        BY <1>1, <2>2, Frame DEF Types
      <3>2. QED
        BY <1>1, <3>1, OthersStayFresh
    <2>3. QED
      BY <2>1, <2>2
  <1>2. CASE UNCHANGED <<dir, file, held, pc, call>>
    BY <1>2 DEF Fresh, Item
  <1>3. ASSUME NEW n \in Names, Modify(n) PROVE Fresh(q)'
    BY <1>2, <1>3 DEF Modify, store
  <1>4. CASE Tick
    BY <1>2, <1>4 DEF Tick, store
  <1>5. CASE UNCHANGED vars
    BY <1>2, <1>5 DEF vars, store
  <1>6. QED
    BY <1>1, <1>3, <1>4, <1>5 DEF Next, Acts

\* is_dds_available(container) and the reads after it go by name, and the file
\* with the name may be another one each time; what is read under the
\* MDSReadLock is, all the same, no older than the data were when it was checked.
THEOREM ServedIsNotOlder == Spec => []ServedNotOlder
  <1> DEFINE AllFresh == \A p \in Procs : Fresh(p)
  <1>1. Init => AllFresh
    <2> SUFFICES ASSUME Init, NEW p \in Procs PROVE Fresh(p)
      OBVIOUS
    <2>1. pc[p] = "idle" /\ dir = [it \in Items |-> None]
      BY DEF Init
    <2>2. QED
      BY <2>1 DEF Fresh
  <1>2. AllFresh => ServedNotOlder
    BY DEF Fresh, ServedNotOlder
  <1>3. Base /\ Base' /\ AllFresh /\ [Next]_vars => AllFresh'
    BY NextFresh
  <1> HIDE DEF AllFresh
  <1>4. QED
    BY BaseHolds, <1>1, <1>2, <1>3, PTL DEF Spec

-----------------------------------------------------------------------------
(* The writers of a file.                                                  *)

\* What has left the buffer of a stream with n parts in it.
Sent(n) == IF n = 2 THEN <<>> ELSE IF n = 1 THEN <<1>> ELSE Whole

Bodies == {<<>>, <<1>>, Whole}

\* A file has one name.
FilesHaveOneName == \A it, jt \in Items : dir[it] = dir[jt] /\ dir[it] # None => it = jt

\* A file has one writer, and holds what that writer has sent.
OneWriter ==
    /\ \A p, q \in Procs : out[p].ino = out[q].ino /\ out[p].ino # None => p = q
    /\ \A p \in Procs : out[p].ino # None => file[out[p].ino].body = Sent(out[p].left)
    /\ \A i \in Inodes : file[i].body \in Bodies

\* A process that is about to open its stream has an empty file to itself.
OwnFile ==
    /\ \A p \in Procs : pc[p] = "open" =>
          /\ dir[Item(p)] # None
          /\ file[dir[Item(p)]].body = <<>>
          /\ \A q \in Procs : out[q].ino # dir[Item(p)]
    /\ \A p, q \in Procs : pc[p] = "open" /\ pc[q] = "open" /\ Item(p) = Item(q) => p = q

Written == FilesHaveOneName /\ (~raced => OneWriter /\ OwnFile)

LEMMA WholeParts ==
    /\ Whole \in Seq({1, 2}) /\ Len(Whole) = 2 /\ Whole[1] = 1 /\ Whole[2] = 2
    /\ SubSeq(Whole, 1, 1) = <<1>> /\ SubSeq(Whole, 2, 2) = <<2>>
    /\ SubSeq(Whole, 1, 2) = Whole /\ <<1>> \o <<2>> = Whole
  <1>1. Whole \in Seq({1, 2}) /\ Len(Whole) = 2 /\ Whole[1] = 1 /\ Whole[2] = 2
    BY DEF Whole
  <1>2. ASSUME NEW k \in {1, 2} PROVE SubSeq(Whole, k, k) = <<k>>
    <2> DEFINE s == SubSeq(Whole, k, k)
               t == <<k>>
    <2>1. s \in Seq({1, 2}) /\ Len(s) = 1 /\ s[1] = k
      BY <1>1, SubSeqProperties
    <2>2. t \in Seq({1, 2}) /\ Len(t) = 1 /\ t[1] = k
      OBVIOUS
    <2> HIDE DEF s, t
    <2>3. \A i \in 1..Len(s) : s[i] = t[i]
      BY <2>1, <2>2
    <2>4. s = t
      BY <2>1, <2>2, <2>3, SeqEqual
    <2>5. QED
      BY <2>4 DEF s, t
  <1>3. SubSeq(Whole, 1, 2) = Whole
    BY <1>1, SubSeqFull
  <1>4. <<1>> \o <<2>> = Whole
    <2> DEFINE s == <<1>> \o <<2>>
    <2>1. s \in Seq({1, 2}) /\ Len(s) = 2 /\ s[1] = 1 /\ s[2] = 2
      OBVIOUS
    <2> HIDE DEF s
    <2>2. \A i \in 1..Len(s) : s[i] = Whole[i]
      BY <1>1, <2>1
    <2>3. s = Whole
      BY <1>1, <2>1, <2>2, SeqEqual
    <2>4. QED
      BY <2>3 DEF s
  <1>5. QED
    BY <1>1, <1>2, <1>3, <1>4

\* Parts are sent in order, and once.
LEMMA SentParts ==
    ASSUME NEW m \in 0..2, NEW n \in 0..2, n <= m
    PROVE  Sent(m) \o SubSeq(Whole, 3 - m, 2 - m + n) = Sent(m - n)
  <1>1. /\ SubSeq(Whole, 3, 2) = <<>> /\ SubSeq(Whole, 2, 1) = <<>> /\ SubSeq(Whole, 1, 0) = <<>>
    BY WholeParts, SubSeqEmpty
  <1>2. /\ Whole \o <<>> = Whole /\ <<1>> \o <<>> = <<1>> /\ <<>> \o Whole = Whole
        /\ <<>> \o <<1>> = <<1>> /\ <<>> \o <<>> = <<>>
    BY WholeParts
  <1>3. PICK a \in 1..3, b \in 0..2 : a = 3 - m /\ b = 2 - m + n
    OBVIOUS
  <1>4. /\ Sent(2) = <<>> /\ Sent(1) = <<1>> /\ Sent(0) = Whole
    BY DEF Sent
  <1>5. \/ m = 0 /\ n = 0 /\ a = 3 /\ b = 2
        \/ m = 1 /\ n = 0 /\ a = 2 /\ b = 1
        \/ m = 1 /\ n = 1 /\ a = 2 /\ b = 2
        \/ m = 2 /\ n = 0 /\ a = 1 /\ b = 0
        \/ m = 2 /\ n = 1 /\ a = 1 /\ b = 1
        \/ m = 2 /\ n = 2 /\ a = 1 /\ b = 2
    BY <1>3
  <1>6. Sent(m) \o SubSeq(Whole, a, b) = Sent(m - n)
    <2> DEFINE k == m - n
    <2>1. \/ m = 0 /\ k = 0 /\ a = 3 /\ b = 2
          \/ m = 1 /\ k = 1 /\ a = 2 /\ b = 1
          \/ m = 1 /\ k = 0 /\ a = 2 /\ b = 2
          \/ m = 2 /\ k = 2 /\ a = 1 /\ b = 0
          \/ m = 2 /\ k = 1 /\ a = 1 /\ b = 1
          \/ m = 2 /\ k = 0 /\ a = 1 /\ b = 2
      BY <1>5
    <2> HIDE DEF k
    <2>2. Sent(m) \o SubSeq(Whole, a, b) = Sent(k)
      BY <1>1, <1>2, <1>4, <2>1, WholeParts, Zenon
    <2>3. QED
      BY <2>2 DEF k
  <1>7. QED
    BY <1>3, <1>6

\* Only create_and_lock() leads to the opening of a stream.
LEMMA StillOpening ==
    ASSUME Inv, OutTypes, NEW p \in Procs, Acts(p), NEW q \in Procs, pc'[q] = "open"
    PROVE  /\ Item(q)' = Item(q)
           /\ IF q = p THEN CreateAndLock(p) ELSE pc[q] = "open"
  <1>1. CASE q # p
    BY <1>1, Frame DEF Same, Item
  <1>2. CASE q = p
    <2> USE DEF Inv, Functions, Goto
    <2>1. CASE CreateAndLock(p)
      BY <1>2, <2>1 DEF CreateAndLock, Item
    <2>2. CASE Call(p)
      BY <1>2, <2>2 DEF Call, EntryOf
    <2>3. CASE DropLock(p) \/ Crash(p) \/ CreateFails(p) \/ OpenResponse(p) \/ OpenFails(p)
               \/ Writer(p) \/ WriterUnlimited(p) \/ WriterFails(p) \/ Purge(p) \/ PurgeFails(p)
               \/ Unlock(p)
      BY <1>2, <2>3 DEF DropLock, Crash, CreateFails, OpenResponse, OpenFails, Writer,
                        WriterUnlimited, WriterFails, Stream, Purge, PurgeFails, Unlock, Throw,
                        Finish
    <2>4. CASE CloseResponse(p) \/ Undo(p) \/ LockLedger(p) \/ LockLedgerFails(p)
               \/ WriteLedger(p) \/ RemoveResponse(p) \/ Release(p)
      BY <1>2, <2>4 DEF CloseResponse, Undo, LockLedger, LockLedgerFails, WriteLedger,
                        RemoveResponse, Release, Throw, Finish, Advance
    <2>5. CASE GetLmt(p) \/ GetLmtFails(p) \/ GetCacheLmt(p) \/ Transfer(p) \/ Probe(p)
               \/ Lookup(p) \/ Fetch(p)
      BY <1>2, <2>5 DEF GetLmt, GetLmtFails, GetCacheLmt, Transfer, Probe, Lookup, Fetch, Throw, Finish, Advance
    <2>6. QED
      BY <2>1, <2>2, <2>3, <2>4, <2>5 DEF Acts, Step, Waiting
  <1>3. QED
    BY <1>1, <1>2

LEMMA NotCreating ==
    ASSUME Inv, Types, NEW p \in Procs, Acts(p), Keeps(p) \/ Adds(p) \/ Closes(p) \/ Opens(p),
           NEW q \in Procs, pc'[q] = "open"
    PROVE  q # p /\ pc[q] = "open" /\ Item(q)' = Item(q) /\ Item(q) \in Items
  <1>1. ASSUME CreateAndLock(p) PROVE FALSE
    <2>1. /\ pc[p] = "create" /\ dir[Item(p)] = None /\ Item(p) \in Items
          /\ \E i \in Inodes : dir' = [dir EXCEPT ![Item(p)] = i]
      BY <1>1, ItemType DEF CreateAndLock, MakeFile
    <2>2. dir'[Item(p)] # None
      BY <2>1, StoreAssumption DEF Types, DirTypes
    <2>3. Keeps(p)
      BY <2>1 DEF Adds, Closes, Opens
    <2>4. QED
      BY <2>1, <2>2, <2>3 DEF Keeps, Shrunk
  <1>2. OutTypes
    BY DEF Types
  <1>3. q # p /\ pc[q] = "open" /\ Item(q)' = Item(q)
    BY <1>1, <1>2, StillOpening
  <1>4. QED
    BY <1>3, ItemType

\* A new inode is nobody's.
LEMMA FreeIsNew ==
    ASSUME NEW it, NEW i \in Inodes, IsFree(it, i)
    PROVE  /\ \A jt \in Items : dir[jt] # i
           /\ \A q \in Procs : out[q].ino # i
  BY DEF IsFree, InUse

LEMMA NamesStayOne ==
    ASSUME Inv, Types, NEW p \in Procs, Acts(p), FilesHaveOneName
    PROVE  FilesHaveOneName'
  <1>1. CASE \A it \in Items : dir'[it] \in {dir[it], None}
    BY <1>1 DEF FilesHaveOneName
  <1>2. CASE Keeps(p) \/ Adds(p) \/ Closes(p) \/ Opens(p)
    BY <1>1, <1>2 DEF Keeps, Adds, Closes, Opens, Shrunk
  <1>3. CASE Makes(p)
    <2>1. PICK i \in Inodes : IsFree(Item(p), i) /\ dir' = [dir EXCEPT ![Item(p)] = i]
      BY <1>3 DEF Makes, MakeFile
    <2>2. \A jt \in Items : dir[jt] # i
      BY <2>1, FreeIsNew
    <2>3. QED
      BY <2>1, <2>2 DEF FilesHaveOneName, Types, DirTypes
  <1>4. QED
    BY <1>2, <1>3, Effects

\* Files that go, and those that keep what they hold.
LEMMA KeepsWritten ==
    ASSUME Inv, Types, NEW p \in Procs, Acts(p), Keeps(p), OneWriter, OwnFile, ~raced'
    PROVE  OneWriter' /\ OwnFile'
  <1>1. /\ Shrunk /\ OutTypes /\ DirTypes
        /\ \A q \in Procs : out'[q] = out[q] \/ out'[q] = Closed
    BY DEF Keeps, Types, OutTypes
  <1>2. \A i \in Inodes : /\ file'[i] \in {file[i], NoFile}
                          /\ InUse(i, dir', locks', out') => file'[i] = file[i]
    BY CleansKeeps DEF Keeps, Types, FileTypes
  <1>3. Closed.ino = None /\ NoFile.body = <<>>
    BY DEF Closed, NoFile
  <1>4. ASSUME NEW q \in Procs, out'[q].ino # None
        PROVE  /\ out'[q] = out[q] /\ out[q].ino \in Inodes
               /\ file'[out[q].ino] = file[out[q].ino]
    <2>1. out'[q] = out[q]
      BY <1>1, <1>3, <1>4
    <2>2. out[q].ino \in Inodes
      BY <1>1, <1>3, <1>4, <2>1 DEF OutTypes, OutOf
    <2>3. InUse(out[q].ino, dir', locks', out')
      BY <2>1 DEF InUse
    <2>4. QED
      BY <1>2, <2>1, <2>2, <2>3
  <1>5. OneWriter'
    <2>1. \A q, r \in Procs : out'[q].ino = out'[r].ino /\ out'[q].ino # None => q = r
      BY <1>4 DEF OneWriter
    <2>2. \A q \in Procs : out'[q].ino # None => file'[out'[q].ino].body = Sent(out'[q].left)
      BY <1>4 DEF OneWriter
    <2>3. \A i \in Inodes : file'[i].body \in Bodies
      BY <1>2, <1>3 DEF OneWriter, Bodies
    <2>4. QED
      BY <2>1, <2>2, <2>3 DEF OneWriter
  <1>6. ASSUME NEW q \in Procs, pc'[q] = "open"
        PROVE  /\ dir'[Item(q)'] # None
               /\ file'[dir'[Item(q)']].body = <<>>
               /\ \A r \in Procs : out'[r].ino # dir'[Item(q)']
    <2>1. pc[q] = "open" /\ Item(q)' = Item(q) /\ Item(q) \in Items
      BY <1>6, NotCreating
    <2>2. dir'[Item(q)] = dir[Item(q)]
      BY <1>1, <2>1, Zenon DEF Shrunk
    <2>3. dir[Item(q)] # None /\ dir[Item(q)] \in Inodes
      BY <1>1, <2>1 DEF OwnFile, DirTypes
    <2>4. file'[dir[Item(q)]] = file[dir[Item(q)]]
      BY <1>2, <2>1, <2>2, <2>3 DEF InUse
    <2>5. \A r \in Procs : out'[r].ino # dir[Item(q)]
      BY <1>1, <1>3, <2>1, <2>3 DEF OwnFile
    <2>6. QED
      BY <2>1, <2>2, <2>3, <2>4, <2>5 DEF OwnFile
  <1>7. \A q, r \in Procs : pc'[q] = "open" /\ pc'[r] = "open" /\ Item(q)' = Item(r)' => q = r
    BY NotCreating DEF OwnFile
  <1>8. OwnFile'
    BY <1>6, <1>7, Zenon DEF OwnFile
  <1>9. QED
    BY <1>5, <1>8

\* What p sends goes to its own file, after what it has sent.
LEMMA AppendedWritten ==
    ASSUME Types, OneWriter, NEW p \in Procs, out[p].ino \in Inodes, out[p].left \in 0..2,
           NEW n \in 0..2, n <= out[p].left
    PROVE  /\ Appended(p, n)[out[p].ino].body = Sent(out[p].left - n)
           /\ \A i \in Inodes : Appended(p, n)[i].body \in Bodies
           /\ \A i \in Inodes : i # out[p].ino => Appended(p, n)[i] = file[i]
  <1> DEFINE f == Appended(p, n)
             j == out[p].ino
             m == out[p].left
  <1>1. /\ f[j].body = file[j].body \o SubSeq(Whole, 3 - m, 2 - m + n)
        /\ \A i \in Inodes : i # j => f[i] = file[i]
    <2>1. FileTypes
      BY DEF Types
    <2>2. \A i \in Inodes : i # j => f[i] = file[i]
      BY <2>1, AppendedKeeps, Zenon
    <2>3. f[j].body = file[j].body \o SubSeq(Whole, 3 - m, 2 - m + n)
      BY <2>1, AppendedKeeps, Zenon
    <2>4. QED
      BY <2>2, <2>3, Zenon
  <1>2. j # None
    BY StoreAssumption
  <1>3. file[j].body = Sent(m) /\ \A i \in Inodes : file[i].body \in Bodies
    BY <1>2, Zenon DEF OneWriter
  <1> HIDE DEF f, j, m
  <1>4. f[j].body = Sent(m - n)
    <2>1. m \in 0..2 /\ n <= m
      BY DEF m
    <2>2. QED
      BY <1>1, <1>3, <2>1, SentParts
  <1>5. Sent(m - n) \in Bodies
    BY DEF Sent, Bodies
  <1>6. \A i \in Inodes : f[i].body \in Bodies
    BY <1>1, <1>3, <1>4, <1>5
  <1>7. QED
    BY <1>1, <1>4, <1>6, Zenon DEF f, j, m

LEMMA AddsWritten ==
    ASSUME Inv, Types, NEW p \in Procs, Acts(p), Adds(p), OneWriter, OwnFile
    PROVE  OneWriter' /\ OwnFile'
  <1>1. PICK n \in 0..1 : file' = Appended(p, n) /\ out' = [out EXCEPT ![p].left = @ - n]
    BY DEF Adds
  <1>2. /\ out = [q \in Procs |-> out[q]] /\ OutOf(p) /\ pc[p] = "write"
        /\ UNCHANGED dir /\ DirTypes
    BY DEF Types, OutTypes, Adds
  <1>3. /\ out[p] = [ino |-> out[p].ino, left |-> 2]
        /\ out[p].ino \in Inodes
    BY <1>2 DEF OutOf, Storing
  <1>4. /\ out'[p] = [ino |-> out[p].ino, left |-> 2 - n]
        /\ \A q \in Procs \ {p} : out'[q] = out[q]
    <2>1. out'[p] = [out[p] EXCEPT !.left = @ - n] /\ \A q \in Procs \ {p} : out'[q] = out[q]
      BY <1>1, <1>2
    <2>2. QED
      BY <1>3, <2>1
  <1>5. \A q \in Procs : out'[q].ino = out[q].ino
    BY <1>3, <1>4
  <1>6. /\ file'[out[p].ino].body = Sent(2 - n)
        /\ \A i \in Inodes : file'[i].body \in Bodies
        /\ \A i \in Inodes : i # out[p].ino => file'[i] = file[i]
    <2>1. out[p].left = 2 /\ out[p].left \in 0..2 /\ n \in 0..2 /\ n <= out[p].left
      BY <1>3
    <2>2. QED
      BY <1>1, <1>3, <2>1, AppendedWritten
  <1>7. ASSUME NEW q \in Procs, out'[q].ino # None
        PROVE  file'[out'[q].ino].body = Sent(out'[q].left)
    <2>1. CASE q = p
      BY <1>4, <1>6, <2>1
    <2>2. CASE q # p
      <3>1. out[q].ino # out[p].ino /\ out[q].ino # None
        BY <1>5, <1>7, <2>2 DEF OneWriter
      <3>2. out[q].ino \in Inodes
        <4>1. OutOf(q) /\ Closed.ino = None
          BY DEF Types, OutTypes, Closed
        <4>2. QED
          BY <3>1, <4>1 DEF OutOf
      <3>3. QED
        BY <1>4, <1>6, <2>2, <3>1, <3>2 DEF OneWriter
    <2>3. QED
      BY <2>1, <2>2
  <1>8. OneWriter'
    <2>1. \A q, r \in Procs : out'[q].ino = out'[r].ino /\ out'[q].ino # None => q = r
      BY <1>5 DEF OneWriter
    <2>2. QED
      BY <1>6, <1>7, <2>1 DEF OneWriter
  <1>9. ASSUME NEW q \in Procs, pc'[q] = "open"
        PROVE  /\ dir'[Item(q)'] # None
               /\ file'[dir'[Item(q)']].body = <<>>
               /\ \A r \in Procs : out'[r].ino # dir'[Item(q)']
    <2>1. pc[q] = "open" /\ Item(q)' = Item(q) /\ Item(q) \in Items
      BY <1>9, NotCreating
    <2>2. /\ dir[Item(q)] # None /\ dir[Item(q)] \in Inodes /\ out[p].ino # dir[Item(q)]
          /\ file[dir[Item(q)]].body = <<>>
      BY <1>2, <2>1 DEF OwnFile, DirTypes
    <2>3. QED
      BY <1>2, <1>5, <1>6, <2>1, <2>2 DEF OwnFile
  <1>10. \A q, r \in Procs : pc'[q] = "open" /\ pc'[r] = "open" /\ Item(q)' = Item(r)' => q = r
    BY NotCreating DEF OwnFile
  <1>11. QED
    BY <1>8, <1>9, <1>10 DEF OwnFile

LEMMA ClosesWritten ==
    ASSUME Inv, Types, NEW p \in Procs, Acts(p), Closes(p), OneWriter, OwnFile, ~raced'
    PROVE  OneWriter' /\ OwnFile'
  <1>1. PICK n \in 0..2 : n <= out[p].left /\ Cleans(Appended(p, n))
    BY DEF Closes
  <1>2. /\ out = [q \in Procs |-> out[q]] /\ OutOf(p) /\ pc[p] \in {"close", "undo", "undo_purge"}
        /\ Shrunk /\ DirTypes /\ out' = [out EXCEPT ![p] = Closed]
    BY DEF Types, OutTypes, Closes
  <1>3. out[p].ino \in Inodes /\ out[p].left \in 0..2
    BY <1>2 DEF OutOf, Storing
  <1>4. out'[p] = Closed /\ \A q \in Procs \ {p} : out'[q] = out[q]
    BY <1>2
  <1>5. Closed.ino = None /\ NoFile.body = <<>>
    BY DEF Closed, NoFile
  <1> DEFINE f == Appended(p, n)
  <1>6. /\ \A i \in Inodes : f[i].body \in Bodies
        /\ \A i \in Inodes : i # out[p].ino => f[i] = file[i]
    BY <1>1, <1>3, AppendedWritten
  <1>7. f = [i \in Inodes |-> f[i]]
    BY <1>3, AppendedKeeps DEF Types
  <1>8. \A i \in Inodes : /\ file'[i] \in {f[i], NoFile}
                          /\ InUse(i, dir', locks', out') => file'[i] = f[i]
    BY <1>1, <1>7, CleansKeeps
  <1> HIDE DEF f
  <1>9. ASSUME NEW q \in Procs, out'[q].ino # None
        PROVE  /\ q # p /\ out'[q] = out[q] /\ out[q].ino \in Inodes
               /\ file'[out[q].ino] = file[out[q].ino]
    <2>1. q # p /\ out'[q] = out[q]
      BY <1>4, <1>5, <1>9
    <2>2. out[q].ino \in Inodes
      <3>1. OutOf(q)
        BY DEF Types, OutTypes
      <3>2. QED
        BY <1>5, <1>9, <2>1, <3>1 DEF OutOf
    <2>3. out[q].ino # out[p].ino
      BY <1>9, <2>1 DEF OneWriter
    <2>4. InUse(out[q].ino, dir', locks', out')
      BY <2>1 DEF InUse
    <2>5. QED
      BY <1>6, <1>8, <2>1, <2>2, <2>3, <2>4
  <1>10. OneWriter'
    <2>1. \A q, r \in Procs : out'[q].ino = out'[r].ino /\ out'[q].ino # None => q = r
      BY <1>9 DEF OneWriter
    <2>2. \A q \in Procs : out'[q].ino # None => file'[out'[q].ino].body = Sent(out'[q].left)
      BY <1>9 DEF OneWriter
    <2>3. \A i \in Inodes : file'[i].body \in Bodies
      BY <1>5, <1>6, <1>8 DEF Bodies
    <2>4. QED
      BY <2>1, <2>2, <2>3 DEF OneWriter
  <1>11. ASSUME NEW q \in Procs, pc'[q] = "open"
         PROVE  /\ dir'[Item(q)'] # None
                /\ file'[dir'[Item(q)']].body = <<>>
                /\ \A r \in Procs : out'[r].ino # dir'[Item(q)']
    <2>1. pc[q] = "open" /\ Item(q)' = Item(q) /\ Item(q) \in Items
      BY <1>11, NotCreating
    <2>2. dir'[Item(q)] = dir[Item(q)]
      BY <1>2, <2>1, Zenon DEF Shrunk
    <2>3. /\ dir[Item(q)] # None /\ dir[Item(q)] \in Inodes
          /\ out[p].ino # dir[Item(q)]
      BY <1>2, <2>1 DEF OwnFile, DirTypes
    <2>4. file'[dir[Item(q)]] = file[dir[Item(q)]]
      BY <1>6, <1>8, <2>1, <2>2, <2>3 DEF InUse
    <2>5. \A r \in Procs : out'[r].ino # dir[Item(q)]
      BY <1>4, <1>5, <2>1, <2>3 DEF OwnFile
    <2>6. QED
      BY <2>1, <2>2, <2>3, <2>4, <2>5 DEF OwnFile
  <1>12. \A q, r \in Procs : pc'[q] = "open" /\ pc'[r] = "open" /\ Item(q)' = Item(r)' => q = r
    BY NotCreating DEF OwnFile
  <1>13. QED
    BY <1>10, <1>11, <1>12 DEF OwnFile

\* A new file is empty, and that of its creator.
LEMMA MakesWritten ==
    ASSUME Inv, Types, NEW p \in Procs, Acts(p), Makes(p), OneWriter, OwnFile
    PROVE  OneWriter' /\ OwnFile'
  <1>1. /\ dir[Item(p)] = None /\ Item(p) \in Items /\ DirTypes /\ FileTypes /\ OutTypes
    BY DEF Makes, Types
  <1>2. pc[p] = "create"
    BY <1>1 DEF Makes, OwnFile
  <1>3. PICK i \in Inodes : IsFree(Item(p), i) /\ MakeFile(Item(p), i) /\ out' = out
    BY <1>2 DEF Makes
  <1>4. /\ \A jt \in Items : dir[jt] # i
        /\ \A q \in Procs : out[q].ino # i
    BY <1>3, FreeIsNew
  <1>5. /\ dir'[Item(p)] = i
        /\ \A it \in Items : it # Item(p) => dir'[it] = dir[it]
    BY <1>1, <1>3 DEF MakeFile, DirTypes
  <1>6. /\ file'[i].body = <<>>
        /\ \A j \in Inodes : j # i => file'[j] = file[j]
    <2> DEFINE new == [NoFile EXCEPT !.mtime = clock]
    <2>1. new.body = <<>>
      BY DEF NoFile
    <2>2. file' = [file EXCEPT ![i] = new]
      BY <1>3 DEF MakeFile
    <2> HIDE DEF new
    <2>3. QED
      BY <1>1, <2>1, <2>2 DEF FileTypes
  <1>7. OneWriter'
    <2>1. ASSUME NEW q \in Procs, out[q].ino # None
          PROVE  file'[out[q].ino] = file[out[q].ino]
      <3>1. OutOf(q) /\ Closed.ino = None
        BY <1>1 DEF OutTypes, Closed
      <3>2. QED
        BY <1>4, <1>6, <2>1, <3>1 DEF OutOf
    <2>2. \A j \in Inodes : file'[j].body \in Bodies
      BY <1>6 DEF OneWriter, Bodies
    <2>3. QED
      BY <1>3, <2>1, <2>2 DEF OneWriter
  <1>8. ASSUME NEW q \in Procs, pc'[q] = "open"
        PROVE  /\ Item(q)' = Item(q) /\ Item(q) \in Items
               /\ q # p => pc[q] = "open" /\ Item(q) # Item(p)
    <2>1. Item(q)' = Item(q) /\ (q # p => pc[q] = "open")
      BY <1>1, <1>8, StillOpening
    <2>2. QED
      BY <1>1, <2>1, ItemType DEF OwnFile
  <1>9. ASSUME NEW q \in Procs, pc'[q] = "open"
        PROVE  /\ dir'[Item(q)'] # None
               /\ file'[dir'[Item(q)']].body = <<>>
               /\ \A r \in Procs : out'[r].ino # dir'[Item(q)']
    <2>1. CASE q = p
      BY <1>3, <1>4, <1>5, <1>6, <1>8, <1>9, <2>1, StoreAssumption
    <2>2. CASE q # p
      <3>1. pc[q] = "open" /\ Item(q) # Item(p) /\ Item(q) \in Items /\ Item(q)' = Item(q)
        BY <1>8, <1>9, <2>2
      <3>2. dir'[Item(q)] = dir[Item(q)]
        BY <1>5, <3>1
      <3>3. dir[Item(q)] # None /\ dir[Item(q)] \in Inodes \ {i}
        BY <1>1, <1>4, <3>1 DEF OwnFile, DirTypes
      <3>4. QED
        BY <1>3, <1>6, <3>1, <3>2, <3>3 DEF OwnFile
    <2>3. QED
      BY <2>1, <2>2
  <1>10. ASSUME NEW q \in Procs, NEW r \in Procs, pc'[q] = "open", pc'[r] = "open",
                Item(q)' = Item(r)'
         PROVE  q = r
    <2>1. Item(q) = Item(r)
      BY <1>8, <1>10
    <2>2. CASE q = p \/ r = p
      BY <1>8, <1>10, <2>1, <2>2
    <2>3. CASE q # p /\ r # p
      BY <1>8, <1>10, <2>1, <2>3 DEF OwnFile
    <2>4. QED
      BY <2>2, <2>3
  <1>11. QED
    BY <1>7, <1>9, <1>10 DEF OwnFile

\* The stream is opened on the file that was created for it.
LEMMA OpensWritten ==
    ASSUME Inv, Types, NEW p \in Procs, Acts(p), Opens(p), FilesHaveOneName, OneWriter, OwnFile
    PROVE  OneWriter' /\ OwnFile'
  <1> DEFINE i == dir[Item(p)]
  <1>1. /\ pc[p] = "open" /\ i \in Inodes /\ i # None /\ Item(p) \in Items
        /\ UNCHANGED <<dir, file>> /\ OutTypes
    BY ItemType, StoreAssumption DEF Opens, Types
  <1>2. /\ out'[p] = [ino |-> i, left |-> 2]
        /\ \A q \in Procs \ {p} : out'[q] = out[q]
    BY <1>1 DEF Opens, OutTypes
  <1>3. file[i].body = <<>> /\ \A q \in Procs : out[q].ino # i
    BY <1>1 DEF OwnFile
  <1> HIDE DEF i
  <1>4. OneWriter'
    <2>1. \A q, r \in Procs : out'[q].ino = out'[r].ino /\ out'[q].ino # None => q = r
      BY <1>2, <1>3 DEF OneWriter
    <2>2. \A q \in Procs : out'[q].ino # None => file[out'[q].ino].body = Sent(out'[q].left)
      BY <1>2, <1>3 DEF OneWriter, Sent
    <2>3. QED
      BY <1>1, <2>1, <2>2 DEF OneWriter
  <1>5. ASSUME NEW q \in Procs, pc'[q] = "open"
        PROVE  /\ dir'[Item(q)'] # None
               /\ file'[dir'[Item(q)']].body = <<>>
               /\ \A r \in Procs : out'[r].ino # dir'[Item(q)']
    <2>1. q # p /\ pc[q] = "open" /\ Item(q)' = Item(q) /\ Item(q) \in Items
      BY <1>5, NotCreating
    <2>2. Item(q) # Item(p)
      BY <1>1, <2>1 DEF OwnFile
    <2>3. dir[Item(q)] # i
      BY <1>1, <2>1, <2>2 DEF FilesHaveOneName, i
    <2>4. QED
      BY <1>1, <1>2, <2>1, <2>3 DEF OwnFile
  <1>6. \A q, r \in Procs : pc'[q] = "open" /\ pc'[r] = "open" /\ Item(q)' = Item(r)' => q = r
    BY NotCreating DEF OwnFile
  <1>7. QED
    BY <1>4, <1>5, <1>6 DEF OwnFile

LEMMA ActsKeepWritten ==
    ASSUME Inv, Types, NEW p \in Procs, Acts(p), Written
    PROVE  Written'
  <1>1. FilesHaveOneName'
    BY NamesStayOne DEF Written
  <1>2. ASSUME ~raced' PROVE OneWriter' /\ OwnFile'
    <2>1. ~raced
      BY <1>2, Effects DEF Keeps, Adds, Closes, Makes, Opens, Shrunk
    <2>2. FilesHaveOneName /\ OneWriter /\ OwnFile
      BY <2>1 DEF Written
    <2>3. QED
      BY <1>2, <2>2, Effects, KeepsWritten, AddsWritten, ClosesWritten, MakesWritten, OpensWritten
  <1>3. QED
    BY <1>1, <1>2 DEF Written

LEMMA NextWritten == Base /\ Written /\ [Next]_vars => Written'
  <1> SUFFICES ASSUME Base, Written, [Next]_vars PROVE Written'
    OBVIOUS
  <1>1. ASSUME NEW p \in Procs, Acts(p) PROVE Written'
    BY <1>1, ActsKeepWritten DEF Base
  <1>2. CASE UNCHANGED <<dir, file, raced, out, pc, call>>
    BY <1>2 DEF Written, FilesHaveOneName, OneWriter, OwnFile, Item
  <1>3. ASSUME NEW n \in Names, Modify(n) PROVE Written'
    BY <1>2, <1>3 DEF Modify, store
  <1>4. CASE Tick
    BY <1>2, <1>4 DEF Tick, store
  <1>5. CASE UNCHANGED vars
    BY <1>2, <1>5 DEF vars, store
  <1>6. QED
    BY <1>1, <1>3, <1>4, <1>5 DEF Next, Acts

\* create_and_lock() makes one process the writer of a response: as long as no
\* file was unlinked before its writer had opened it by name, no file ever
\* holds more than one response, whatever fails or dies.
THEOREM OneResponseInAFile == Spec => []FileHoldsOneResponse
  <1>1. Init => Written
    <2> SUFFICES ASSUME Init PROVE Written
      OBVIOUS
    <2>1. /\ dir = [it \in Items |-> None] /\ out = [p \in Procs |-> Closed]
          /\ file = [i \in Inodes |-> NoFile] /\ pc = [p \in Procs |-> "idle"]
      BY DEF Init
    <2>2. Closed.ino = None /\ NoFile.body = <<>>
      BY DEF Closed, NoFile
    <2>3. FilesHaveOneName
      BY <2>1 DEF FilesHaveOneName
    <2>4. OneWriter
      BY <2>1, <2>2 DEF OneWriter, Bodies
    <2>5. OwnFile
      BY <2>1 DEF OwnFile
    <2>6. QED
      BY <2>3, <2>4, <2>5 DEF Written
  <1>2. Written => FileHoldsOneResponse
    BY DEF Written, OneWriter, Bodies, FileHoldsOneResponse
  <1>3. QED
    BY BaseHolds, NextWritten, <1>1, <1>2, PTL DEF Spec
=============================================================================
