--------------------------------- MODULE Engine ---------------------------------
(***************************************************************************)
(* The storage engine under the graph (storage.go, tx.go, compaction.go,        *)
(* snapshot.go, Open and Close of graphdb.go): single operations behind the       *)
(* write semaphore, user transactions that hold the bbolt writer lock of one      *)
(* shard after the other, snapshots that pin shards, compaction that swaps a       *)
(* shard's file under all of them, crashes and clean restarts.                  *)
(*                                                                         *)
(* A shard's data is the set of its node IDs.  bbolt, which is external, gives a   *)
(* shard one writer at a time; its Close waits for the writer, keeps every new      *)
(* transaction out, and then waits for the open read transactions.                *)
(***************************************************************************)
EXTENDS Integers, FiniteSets

CONSTANTS
    NumShards,         \* Options.ShardCount
    QueueSize,         \* Options.WriteQueueSize
    Writers, Txs,      \* goroutines with single operations, with transactions
    Compactor, Nobody, \* other holders of a shard's writer lock
    MaxWrites, MaxFaults, MaxCompacts  \* bounds

ASSUME EngineAssumption ==
    /\ NumShards \in Nat \ {0} /\ QueueSize \in Nat \ {0}
    /\ Writers \cap Txs = {} /\ {Compactor, Nobody} \cap (Writers \cup Txs) = {}
    /\ Compactor # Nobody
    /\ MaxWrites \in Nat /\ IsFiniteSet(Writers)

Ids    == 1..MaxWrites
Shards == 0..NumShards - 1
shardFor(id) == id % NumShards

VARIABLES
    db,            \* shard -> the nodes in its file
    meta,          \* shard -> [next, count], the meta bucket
    nextNodeID,    \* of the primary shard, 0
    nodeCount,     \* shard -> its counter
    handle,        \* shard -> its bolt.DB is "open" or "closed"
    lock, sem,     \* shard -> who holds bbolt's writer lock, slots in use
    writer,        \* writer -> [pc, op, id]
    tx,            \* transaction -> [st, adds, dels, held, op, want]
    pinned,        \* shards whose read transaction the snapshot holds
    snapping,      \* the snapshot is "none", being "taken", or "held"
    compact,       \* [pc, shard, copy, meta] of the one Compact call
    committed, ever,  \* history: nodes that should be there, that ever were
    exposed,       \* history: nodes written or allocated while a file was swapped
    since,         \* history: nodes written since the compactor's copy
    miscounted,    \* history: shards whose counter went its own way
    writes, faults, compacts

fileVars == <<db, meta>>
memVars  == <<nextNodeID, nodeCount>>
histVars == <<committed, ever, exposed, since, miscounted>>
snapVars == <<pinned, snapping>>
boundVars == <<writes, faults, compacts>>
vars == <<fileVars, memVars, handle, lock, sem, writer, tx, snapVars, compact, histVars, boundVars>>

NoWrite == [pc |-> "idle", op |-> "add", id |-> 0]
NoTx    == [st |-> "none", adds |-> {}, dels |-> {}, held |-> {}, op |-> "add", want |-> 0]

(***************************************************************************)
(* Files and counters.                                                      *)
(***************************************************************************)
Max0(S) == IF S = {} THEN 0 ELSE CHOOSE n \in S : \A m \in S : m <= n

\* Mutant: the persisted allocator is taken as it is.
loadNext_trusting(m, ids) == m.next

\* loadCounters: the persisted allocator, or one past the highest key of the shard.
loadNext(m, ids) == IF ids # {} /\ Max0(ids) >= m.next THEN Max0(ids) + 1 ELSE m.next

\* Mutant: the persisted count is taken as it is.
loadCount_trusting(m, ids) == m.count

\* loadCounters: the persisted count, healed upwards.
loadCount(m, ids) == IF Cardinality(ids) > m.count THEN Cardinality(ids) ELSE m.count

persistCounters(s) == [next |-> IF s = 0 THEN nextNodeID ELSE meta[s].next, count |-> nodeCount[s]]

\* One more write, of the bounded number.
CountedWrite == writes < MaxWrites /\ writes' = writes + 1

\* allocNodeID: always the primary shard's.
allocNodeID(id) == id = nextNodeID + 1 /\ id \in Ids /\ nextNodeID' = id

InShard(s, S) == {id \in S : shardFor(id) = s}

\* A transaction on shard s becomes part of its file.
Apply(s, A, D) ==
    /\ db' = [db EXCEPT ![s] = (@ \cup A) \ D]
    /\ committed' = (committed \cup A) \ D
    /\ ever' = ever \cup A
    /\ since' = IF compact.pc \in {"copied", "closing"} /\ compact.shard = s THEN since \cup A \cup D ELSE since

(***************************************************************************)
(* A single write: writeUpdate around one bbolt Batch.                       *)
(***************************************************************************)
WriteBegin(w) ==
    /\ writer[w].pc = "idle" /\ CountedWrite
    /\ \/ \E id \in Ids :
            /\ allocNodeID(id)
            /\ writer' = [writer EXCEPT ![w] = [pc |-> "queue", op |-> "add", id |-> id]]
       \/ \E id \in UNION {db[s] : s \in Shards} :
            /\ writer' = [writer EXCEPT ![w] = [pc |-> "queue", op |-> "delete", id |-> id]]
            /\ UNCHANGED nextNodeID
    /\ UNCHANGED <<fileVars, nodeCount, handle, lock, sem, tx, snapVars, compact, histVars, faults, compacts>>

ShardOf(w) == shardFor(writer[w].id)

\* acquireWrite: a slot, or the timeout when there is none.
acquireWrite(w) ==
    /\ writer[w].pc = "queue"
    /\ IF sem[ShardOf(w)] < QueueSize
       THEN /\ sem' = [sem EXCEPT ![ShardOf(w)] = @ + 1]
            /\ writer' = [writer EXCEPT ![w].pc = "batch"]
       ELSE /\ writer' = [writer EXCEPT ![w] = NoWrite]   \* ErrWriteQueueFull
            /\ UNCHANGED sem
    /\ UNCHANGED <<fileVars, memVars, handle, lock, tx, snapVars, compact, histVars, boundVars>>

releaseWrite(s) == sem' = [sem EXCEPT ![s] = @ - 1]

\* The Batch runs when bbolt's lock is free; a closed handle or a node that is gone
\* is an error.
Batch(w) ==
    LET s  == ShardOf(w)
        id == writer[w].id
    IN /\ writer[w].pc = "batch"
       /\ \/ /\ handle[s] = "open" /\ lock[s] = Nobody
             /\ writer[w].op = "delete" => id \in db[s]
             /\ Apply(s, IF writer[w].op = "add" THEN {id} ELSE {}, IF writer[w].op = "delete" THEN {id} ELSE {})
             /\ writer' = [writer EXCEPT ![w].pc = "count"]
             /\ UNCHANGED sem
          \/ /\ handle[s] = "closed" \/ (lock[s] = Nobody /\ writer[w].op = "delete" /\ id \notin db[s])
             /\ writer' = [writer EXCEPT ![w] = NoWrite]
             /\ releaseWrite(s)
             /\ UNCHANGED <<db, committed, ever, since>>
       /\ UNCHANGED <<meta, memVars, handle, lock, tx, snapVars, compact, exposed, miscounted, boundVars>>

\* The counter, after the commit.
Count(w) ==
    /\ writer[w].pc = "count"
    /\ nodeCount' = [nodeCount EXCEPT ![ShardOf(w)] = IF writer[w].op = "add" THEN @ + 1 ELSE @ - 1]
    /\ releaseWrite(ShardOf(w))
    /\ writer' = [writer EXCEPT ![w] = NoWrite]
    /\ UNCHANGED <<fileVars, nextNodeID, handle, lock, tx, snapVars, compact, histVars, boundVars>>

WriterStep(w) == acquireWrite(w) \/ Batch(w) \/ Count(w)

(***************************************************************************)
(* Transactions.                                                            *)
(***************************************************************************)
TxOnly == UNCHANGED <<fileVars, handle, sem, writer, snapVars, compact, histVars, faults, compacts>>

\* Begin opens nothing yet.
TxBegin(t) ==
    /\ tx[t].st = "none"
    /\ tx' = [tx EXCEPT ![t].st = "active"]
    /\ UNCHANGED <<memVars, lock, writes>> /\ TxOnly

\* The call's first half: AddNode and AddNodeWithLabels allocate, UpdateNode and
\* DeleteNode are given a node.  Then shardTx may have to wait for the shard's lock.
TxAddNode(t) ==
    /\ tx[t].st = "active" /\ tx[t].want = 0 /\ CountedWrite
    /\ \E id \in Ids : allocNodeID(id) /\ tx' = [tx EXCEPT ![t].op = "add", ![t].want = id]
    /\ UNCHANGED <<nodeCount, lock>> /\ TxOnly

TxDeleteNode(t) ==
    /\ tx[t].st = "active" /\ tx[t].want = 0 /\ CountedWrite
    /\ \E id \in 1..nextNodeID \cap Ids : tx' = [tx EXCEPT ![t].op = "delete", ![t].want = id]
    /\ UNCHANGED <<memVars, lock>> /\ TxOnly

\* What the transaction sees in shard s: its own writes too, once it holds the lock.
Visible(t, s) == (db[s] \cup InShard(s, tx[t].adds)) \ tx[t].dels

\* shardTx returns and the call does its work.  The counter moves before the commit.
shardTx(t) ==
    LET c  == tx[t]
        id == c.want
        s  == shardFor(id)
        Done(A, D) == [c EXCEPT !.held = c.held \cup {s}, !.want = 0, !.adds = A, !.dels = D]
    IN /\ id # 0
       /\ s \in c.held \/ (lock[s] = Nobody /\ handle[s] = "open")
       /\ lock' = [lock EXCEPT ![s] = t]
       /\ IF c.op = "add"
          THEN /\ tx' = [tx EXCEPT ![t] = Done(c.adds \cup {id}, c.dels)]
               /\ nodeCount' = [nodeCount EXCEPT ![s] = @ + 1]
          ELSE IF id \in Visible(t, s)
          THEN /\ tx' = [tx EXCEPT ![t] = Done(c.adds \ {id}, c.dels \cup ({id} \cap db[s]))]
               /\ nodeCount' = [nodeCount EXCEPT ![s] = @ - 1]
          ELSE tx' = [tx EXCEPT ![t] = Done(c.adds, c.dels)] /\ UNCHANGED nodeCount
       /\ UNCHANGED <<nextNodeID, writes>> /\ TxOnly

\* The shard's handle is closed: the call fails.
shardTxFails(t) ==
    LET s == shardFor(tx[t].want)
    IN /\ tx[t].want # 0 /\ s \notin tx[t].held /\ handle[s] = "closed"
       /\ tx' = [tx EXCEPT ![t].want = 0]
       /\ UNCHANGED <<memVars, lock, writes>> /\ TxOnly

\* Commit marks the transaction done and goes through its shards in map order.
TxCommit(t) ==
    /\ tx[t].st = "active" /\ tx[t].want = 0
    /\ tx' = [tx EXCEPT ![t].st = "committing"]
    /\ UNCHANGED <<memVars, lock, writes>> /\ TxOnly

\* One shard: persistCounters and the bbolt commit, which may fail; the loop goes on.
TxCommitShard(t) ==
    /\ tx[t].st = "committing"
    /\ \E s \in tx[t].held :
         /\ lock' = [lock EXCEPT ![s] = Nobody]
         /\ \/ /\ Apply(s, InShard(s, tx[t].adds), InShard(s, tx[t].dels))
               /\ meta' = [meta EXCEPT ![s] = persistCounters(s)]
               /\ tx' = [tx EXCEPT ![t].held = @ \ {s}]
               /\ UNCHANGED <<faults, miscounted>>
            \/ /\ faults < MaxFaults
               /\ faults' = faults + 1
               /\ tx' = [tx EXCEPT ![t].held = @ \ {s}, ![t].adds = @ \ InShard(s, tx[t].adds),
                                     ![t].dels = @ \ InShard(s, tx[t].dels)]
               /\ miscounted' = miscounted \cup {s}
               /\ UNCHANGED <<db, meta, committed, ever, since>>
    /\ UNCHANGED <<memVars, handle, sem, writer, snapVars, compact, exposed, writes, compacts>>

TxCommitted(t) ==
    /\ tx[t].st = "committing" /\ tx[t].held = {}
    /\ tx' = [tx EXCEPT ![t].st = "committed"]
    /\ UNCHANGED <<memVars, lock, writes>> /\ TxOnly

\* Mutant: the shard transactions are committed, as Rollback's loop would with the
\* wrong call.
TxRollback_commits(t) ==
    /\ tx[t].st = "active" /\ tx[t].want = 0
    /\ tx' = [tx EXCEPT ![t].st = "rolledback", ![t].held = {}]
    /\ lock' = [s \in Shards |-> IF s \in tx[t].held THEN Nobody ELSE lock[s]]
    /\ db' = [s \in Shards |-> IF s \in tx[t].held THEN db[s] \cup InShard(s, tx[t].adds) ELSE db[s]]
    /\ committed' = committed \cup tx[t].adds /\ ever' = ever \cup tx[t].adds
    /\ miscounted' = miscounted \cup tx[t].held
    /\ UNCHANGED <<meta, memVars, writes, handle, sem, writer, snapVars, compact, exposed, since, faults, compacts>>

\* Rollback.  History: the counters keep what the transaction did to them.
TxRollback(t) ==
    /\ tx[t].st = "active" /\ tx[t].want = 0
    /\ tx' = [tx EXCEPT ![t].st = "rolledback", ![t].held = {}]
    /\ lock' = [s \in Shards |-> IF s \in tx[t].held THEN Nobody ELSE lock[s]]
    /\ miscounted' = miscounted \cup tx[t].held
    /\ UNCHANGED <<memVars, writes, fileVars, handle, sem, writer, snapVars, compact,
                   committed, ever, exposed, since, faults, compacts>>

\* What a caller owes a transaction once it has begun.
TxEnd(t) == shardTx(t) \/ shardTxFails(t) \/ TxCommit(t) \/ TxRollback(t) \/ TxCommitShard(t) \/ TxCommitted(t)

(***************************************************************************)
(* Snapshots: a read transaction on each shard, one after the other.         *)
(***************************************************************************)
SnapOnly == UNCHANGED <<fileVars, memVars, handle, lock, sem, writer, tx, compact, histVars, writes, faults, compacts>>

Snapshot ==
    /\ snapping = "none"
    /\ snapping' = "taken"
    /\ UNCHANGED pinned /\ SnapOnly

\* Begin(false) on the next shard; a Close in progress keeps it waiting, and an
\* error releases the shards so far.
SnapshotShard ==
    LET s == Cardinality(pinned)
    IN /\ snapping = "taken" /\ s \in Shards /\ lock[s] # Compactor
       /\ IF handle[s] = "open"
          THEN /\ pinned' = pinned \cup {s}
               /\ snapping' = IF s = NumShards - 1 THEN "held" ELSE "taken"
          ELSE pinned' = {} /\ snapping' = "none"
       /\ SnapOnly

\* Mutant: the first shard's read transaction is left open.
Release_leaks ==
    /\ snapping = "held"
    /\ pinned' = {0} /\ snapping' = "none"
    /\ SnapOnly

Release ==
    /\ snapping = "held"
    /\ pinned' = {} /\ snapping' = "none"
    /\ SnapOnly

(***************************************************************************)
(* Compaction.  The write semaphore is not part of it.                       *)
(***************************************************************************)
NoCompact == [pc |-> "idle", shard |-> 0, copy |-> {}, meta |-> [next |-> 0, count |-> 0]]
CompactOnly == UNCHANGED <<sem, writer, tx, snapVars, writes>>

Compact ==
    /\ compact.pc = "idle" /\ compacts < MaxCompacts
    /\ compacts' = compacts + 1
    /\ compact' = [NoCompact EXCEPT !.pc = "copy"]
    /\ UNCHANGED <<fileVars, memVars, handle, lock, histVars, faults>> /\ CompactOnly

\* Mutant: the error of WriteTo is dropped, and the copy is what was written.
CompactCopy_cut ==
    LET s == compact.shard
    IN /\ compact.pc = "copy"
       /\ handle[s] = "open"
       /\ \E C \in SUBSET db[s] : compact' = [compact EXCEPT !.pc = "copied", !.copy = C, !.meta = meta[s]]
       /\ since' = {}
       /\ UNCHANGED <<fileVars, memVars, handle, lock, committed, ever, exposed, miscounted, faults, compacts>>
       /\ CompactOnly

\* View and WriteTo: the shard as it is now, in a file of its own.
CompactCopy ==
    LET s == compact.shard
    IN /\ compact.pc = "copy"
       /\ compact' = IF handle[s] = "open"
                     THEN [compact EXCEPT !.pc = "copied", !.copy = db[s], !.meta = meta[s]]
                     ELSE NoCompact
       /\ since' = {}
       /\ UNCHANGED <<fileVars, memVars, handle, lock, committed, ever, exposed, miscounted, faults, compacts>>
       /\ CompactOnly

\* db.Close: the writer lock first, then the end of every read transaction.
CompactLock ==
    /\ compact.pc = "copied" /\ lock[compact.shard] = Nobody
    /\ lock' = [lock EXCEPT ![compact.shard] = Compactor]
    /\ compact' = [compact EXCEPT !.pc = "closing"]
    /\ UNCHANGED <<fileVars, memVars, handle, histVars, faults, compacts>> /\ CompactOnly

CompactClose ==
    LET s == compact.shard
    IN /\ compact.pc = "closing" /\ s \notin pinned
       /\ handle' = [handle EXCEPT ![s] = "closed"]
       /\ lock' = [lock EXCEPT ![s] = Nobody]
       /\ compact' = [compact EXCEPT !.pc = "closed"]
       /\ UNCHANGED <<fileVars, memVars, histVars, faults, compacts>> /\ CompactOnly

\* The rename and bolt.Open of the compacted file.  When the rename fails the original
\* is opened again; when the opening fails the shard stays closed; both end Compact.
\* History: what was written since the copy is at its mercy.
CompactSwap ==
    LET s == compact.shard
    IN /\ compact.pc = "closed"
       /\ \E renamed, opened \in BOOLEAN :
            /\ (renamed /\ opened) \/ faults < MaxFaults
            /\ renamed \/ opened
            /\ faults' = IF renamed /\ opened THEN faults ELSE faults + 1
            /\ IF renamed
               THEN /\ db' = [db EXCEPT ![s] = compact.copy]
                    /\ meta' = [meta EXCEPT ![s] = compact.meta]
                    /\ exposed' = exposed \cup since
               ELSE UNCHANGED <<fileVars, exposed>>
            /\ handle' = [handle EXCEPT ![s] = IF opened THEN "open" ELSE "closed"]
            /\ compact' = IF renamed /\ opened THEN [compact EXCEPT !.pc = "load", !.copy = {}] ELSE NoCompact
       /\ since' = {}
       /\ UNCHANGED <<memVars, lock, committed, ever, miscounted, compacts>> /\ CompactOnly

InFlight ==
    {writer[w].id : w \in {v \in Writers : writer[v].pc # "idle"}}
        \cup UNION {tx[t].adds \cup {tx[t].want} : t \in Txs}

\* History: IDs above the allocator that somebody has.  It is healed from the
\* primary shard's keys only.
HandedOutAbove(next, ids) == {id \in ids : id > next /\ ~(shardFor(id) = 0 /\ id \in db[0])}

Busy(s) ==
    \/ \E w \in Writers : writer[w].pc = "count" /\ ShardOf(w) = s
    \/ \E t \in Txs : s \in tx[t].held

\* loadCounters of the shard, and on to the next one.
CompactLoad ==
    LET s == compact.shard
        next == loadNext(meta[s], db[s])
    IN /\ compact.pc = "load"
       /\ nextNodeID' = IF s = 0 THEN next ELSE nextNodeID
       /\ nodeCount' = [nodeCount EXCEPT ![s] = loadCount(meta[s], db[s])]
       /\ miscounted' = IF Busy(s) THEN miscounted \cup {s} ELSE miscounted \ {s}
       /\ exposed' = exposed \cup HandedOutAbove(nextNodeID', ever \cup InFlight)
       /\ compact' = IF s = NumShards - 1 THEN NoCompact ELSE [NoCompact EXCEPT !.pc = "copy", !.shard = s + 1]
       /\ UNCHANGED <<fileVars, handle, lock, committed, ever, since, faults, compacts>> /\ CompactOnly

CompactStep ==
    CompactCopy \/ CompactLock \/ CompactClose \/ CompactSwap \/ CompactLoad

(***************************************************************************)
(* The process ends and Open runs.                                           *)
(***************************************************************************)
Open(m) ==
    /\ faults < MaxFaults
    /\ faults' = faults + 1
    /\ meta' = m
    /\ nextNodeID' = loadNext(m[0], db[0])
    /\ nodeCount' = [s \in Shards |-> loadCount(m[s], db[s])]
    /\ handle' = [s \in Shards |-> "open"]
    /\ lock' = [s \in Shards |-> Nobody]
    /\ sem' = [s \in Shards |-> 0]
    /\ writer' = [w \in Writers |-> NoWrite]
    /\ tx' = [t \in Txs |-> NoTx]
    /\ pinned' = {} /\ snapping' = "none"
    /\ compact' = NoCompact
    /\ exposed' = exposed \cup HandedOutAbove(nextNodeID', ever)
    /\ miscounted' = {}
    /\ UNCHANGED <<db, committed, ever, since, writes, compacts>>

Crash == Open(meta)

\* DB.Close, once the callers have ended their transactions and snapshots.
Close ==
    /\ \A s \in Shards : lock[s] = Nobody /\ handle[s] = "open"
    /\ pinned = {} /\ compact.pc = "idle"
    /\ Open([s \in Shards |-> persistCounters(s)])

Init ==
    /\ db = [s \in Shards |-> {}]
    /\ meta = [s \in Shards |-> [next |-> 0, count |-> 0]]
    /\ nextNodeID = 0 /\ nodeCount = [s \in Shards |-> 0]
    /\ handle = [s \in Shards |-> "open"]
    /\ lock = [s \in Shards |-> Nobody] /\ sem = [s \in Shards |-> 0]
    /\ writer = [w \in Writers |-> NoWrite]
    /\ tx = [t \in Txs |-> NoTx]
    /\ pinned = {} /\ snapping = "none"
    /\ compact = NoCompact
    /\ committed = {} /\ ever = {} /\ exposed = {} /\ since = {} /\ miscounted = {}
    /\ writes = 0 /\ faults = 0 /\ compacts = 0

Next ==
    \/ \E w \in Writers : WriteBegin(w) \/ WriterStep(w)
    \/ \E t \in Txs : TxBegin(t) \/ TxAddNode(t) \/ TxDeleteNode(t) \/ TxEnd(t)
    \/ Snapshot \/ SnapshotShard \/ Release
    \/ Compact \/ CompactStep
    \/ Crash \/ Close

\* Goroutines run; callers end the transactions and release the snapshots they have
\* opened, as Begin and Snapshot demand of them.
Fairness ==
    /\ \A w \in Writers : WF_vars(WriterStep(w))
    /\ \A t \in Txs : WF_vars(TxEnd(t))
    /\ WF_vars(SnapshotShard) /\ WF_vars(Release)
    /\ WF_vars(CompactStep)

Spec == Init /\ [][Next]_vars /\ Fairness

(***************************************************************************)
(* Properties.                                                             *)
(***************************************************************************)

\* What was committed is in the files and what was deleted is not, through every
\* crash, failed rename and failed reopening, but for what was written between a
\* compactor's copy and its rename (compaction.go says writes are blocked then).
FilesKeep ==
    \A id \in Ids \ exposed : id \in committed <=> id \in db[shardFor(id)]

\* "so that IDs don't collide" (storage.go:187): no node of the primary shard has an
\* ID the allocator has yet to hand out, after any restart or compaction.  Of the
\* nodes in other shards, and of the ones a compactor overtook, it is not true.
PrimaryAhead == \A id \in db[0] \ exposed : id <= nextNodeID

\* A transaction's nodes are nobody's to see before Commit, none of them after
\* Rollback, and all of them after a Commit that met no error.
TxAtomic ==
    \A t \in Txs :
        LET A == tx[t].adds \ exposed
        IN /\ tx[t].st \in {"active", "rolledback"} => A \cap ever = {}
           /\ tx[t].st = "committed" => A \subseteq ever

\* "and counts are accurate" (storage.go:187): at rest a shard's counter is never
\* below its nodes, however often it was persisted, healed and reloaded; but a
\* rolled-back or failed transaction and a compaction beside a write leave it off.
CountNotBelow ==
    \A s \in Shards \ miscounted :
        handle[s] = "open" /\ ~Busy(s) /\ ~(compact.pc = "load" /\ compact.shard = s)
            => nodeCount[s] >= Cardinality(db[s])

\* Two transactions that each wait for a shard of the other's.
TxCycle ==
    \E t, u \in Txs :
        /\ t # u /\ tx[t].want # 0 /\ tx[u].want # 0
        /\ lock[shardFor(tx[t].want)] = u /\ lock[shardFor(tx[u].want)] = t

\* A single write returns, whoever holds the shard: transactions, snapshots and
\* compaction only delay it, unless two transactions block each other for good.
WriterReturns ==
    []~TxCycle => \A w \in Writers : writer[w].pc # "idle" ~> writer[w].pc = "idle"
================================================================================
