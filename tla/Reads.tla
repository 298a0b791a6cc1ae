---------------------------------- MODULE Reads ----------------------------------
(***************************************************************************)
(* The read side of one node: the worker pool that runs callers' reads           *)
(* (pool.go, ExecuteFunc and ConcurrentQuery of query.go), the hot-node cache in   *)
(* front of the node bucket (node_cache.go, getNode), and the Bloom filter in       *)
(* front of the adjacency index (bloom.go, HasEdge), all beside the writers.         *)
(*                                                                         *)
(* A node is the number of its version, 0 when it is not there; an edge is its       *)
(* pair of endpoints.  A node's size in the cache is its version: properties are     *)
(* merged and nodes grow.                                                       *)
(***************************************************************************)
EXTENDS Integers, Sequences, FiniteSets, SequencesExt

CONSTANTS
    Ids, Pairs,        \* nodes and edges
    Stored,            \* the nodes of the file that is opened
    Hash,              \* pair -> the bits of its k hashes
    Budget,            \* bytes of a cache shard
    Writers,           \* goroutines with writes
    PoolWorkers,       \* goroutines of the pool
    QueueFactor,       \* slots of the task channel per worker; 4 in the code
    TaskLists,         \* what callers run: sequences of [kind, arg]
    MaxVersion, MaxWrites, MaxCalls, MaxStops   \* bounds

ASSUME ReadsAssumption ==
    /\ Budget \in Nat \ {0} /\ QueueFactor \in Nat \ {0}
    /\ Stored \subseteq Ids
    /\ DOMAIN Hash = Pairs /\ \A p \in Pairs : Hash[p] # {}
    /\ TaskLists \subseteq Seq([kind : {"get"}, arg : Ids] \cup [kind : {"has"}, arg : Pairs])

VARIABLES
    nodes,         \* id -> version, the node bucket
    edges,         \* adj_out
    lru,           \* the cache's list of [id, ver], most recently used first
    totalBytes,
    bits,          \* of the Bloom filter
    writer,        \* writer -> [pc, arg]: what is left to do after the commit
    tasks,         \* the task channel: [call, idx, task]
    stopped,       \* the pool's quit and task channels are closed
    worker,        \* worker -> [pc, call, idx, task, ver]
    call,          \* [pc, n, list, next, submitted, got, results] of ExecuteConcurrent
    resultCh,      \* the channel of the present call
    ctxDone,
    exposed,       \* history: committed between a read and its Put, or by the applier
    writes, stops

storeVars == <<nodes, edges>>
cacheVars == <<lru, totalBytes>>
poolVars  == <<tasks, stopped, worker, call, resultCh, ctxDone, stops>>
vars == <<storeVars, cacheVars, bits, writer, poolVars, exposed, writes>>

NoWrite == [pc |-> "idle", arg |-> 0]
Idle    == [pc |-> "idle", call |-> 0, idx |-> 0, task |-> 0, ver |-> 0]
Blank   == [st |-> "none", call |-> 0, idx |-> 0, val |-> 0]   \* taskResult{}
NoCall(n) == [pc |-> "idle", n |-> n, list |-> <<>>, next |-> 1, submitted |-> 0, got |-> 0, results |-> <<>>]

(***************************************************************************)
(* The node cache: each operation is atomic under its shard's mutex.          *)
(***************************************************************************)
\* The entry of id in the list, by way of the map items.
Holds(list, id) == \E i \in 1..Len(list) : list[i].id = id
PosOf(list, id) == CHOOSE i \in 1..Len(list) : list[i].id = id
Cached(id)    == Holds(lru, id)
CachedVer(id) == lru[PosOf(lru, id)].ver

\* removeEntry.
Without(list, id) == IF Holds(list, id) THEN RemoveAt(list, PosOf(list, id)) ELSE list

moveToFront(id) == <<[id |-> id, ver |-> CachedVer(id)]>> \o Without(lru, id)

\* The bytes of the entries of a list.
Size(list) ==
    LET sum[k \in 0..Len(list)] == IF k = 0 THEN 0 ELSE sum[k - 1] + list[k].ver
    IN sum[Len(list)]

\* The count after all but the first k entries of a list of so many bytes are evicted.
Left(list, bytes, k) == bytes - Size(SubSeq(list, k + 1, Len(list)))

\* evictUntilBudget: from the tail while the count is above the budget, until nothing
\* is left; the entry just put is not spared.
evictUntilBudget(list, bytes) ==
    LET keep == Max({k \in 0..Len(list) : k = 0 \/ Left(list, bytes, k) <= Budget})
    IN lru' = SubSeq(list, 1, keep) /\ totalBytes' = Left(list, bytes, keep)

\* An entry is new, or updated and its size adjusted.
Put(id, v) ==
    evictUntilBudget(<<[id |-> id, ver |-> v]>> \o Without(lru, id),
                     totalBytes + v - (IF Cached(id) THEN CachedVer(id) ELSE 0))

Invalidate(id) ==
    /\ lru' = Without(lru, id)
    /\ totalBytes' = IF Cached(id) THEN totalBytes - CachedVer(id) ELSE totalBytes

(***************************************************************************)
(* The Bloom filter.                                                        *)
(***************************************************************************)
BloomTest(p) == Hash[p] \subseteq bits
BloomAdd(p)  == bits' = bits \cup Hash[p]

\* Mutant: the filter starts empty.
initBloomFilter_empty(E) == {}

\* initBloomFilter: from adj_out.
initBloomFilter(E) == UNION {Hash[p] : p \in E}

(***************************************************************************)
(* The writers: a commit, and then what follows it outside the transaction.    *)
(***************************************************************************)
\* A copy of id read before the commit of its next version, and yet to be Put.
Overlaps(id) ==
    \/ \E w \in PoolWorkers : worker[w].pc = "put" /\ worker[w].task.arg = id
    \/ \E w \in Writers : writer[w].pc = "put" /\ writer[w].arg = id

\* w's transaction is committed, and rest is what it goes on with.
Commits(w, rest, arg) ==
    /\ writer[w].pc = "idle" /\ writes < MaxWrites
    /\ writes' = writes + 1
    /\ writer' = [writer EXCEPT ![w] = IF rest = "idle" THEN NoWrite ELSE [pc |-> rest, arg |-> arg]]
    /\ UNCHANGED <<cacheVars, bits, poolVars>>

\* AddNode and AddNodeWithLabels.
AddNode(w, id) ==
    /\ nodes[id] = 0
    /\ nodes' = [nodes EXCEPT ![id] = 1]
    /\ Commits(w, "put", id)
    /\ UNCHANGED <<edges, exposed>>

\* A new version, or none, of a node that is there.
Overwrites(id, v) ==
    /\ nodes[id] > 0
    /\ nodes' = [nodes EXCEPT ![id] = v]
    /\ exposed' = IF Overlaps(id) THEN exposed \cup {id} ELSE exposed
    /\ UNCHANGED edges

\* Mutant: the cache is not told.
UpdateNode_keepsCached(w, id) ==
    nodes[id] < MaxVersion /\ Overwrites(id, nodes[id] + 1) /\ Commits(w, "idle", id)

\* UpdateNode, SetNodeProps, AddLabel, RemoveLabel.
UpdateNode(w, id) ==
    nodes[id] < MaxVersion /\ Overwrites(id, nodes[id] + 1) /\ Commits(w, "invalidate", id)

DeleteNode(w, id) == Overwrites(id, 0) /\ Commits(w, "invalidate", id)

AddEdge(w, p) ==
    /\ p \notin edges
    /\ edges' = edges \cup {p}
    /\ Commits(w, "bloom", p)
    /\ UNCHANGED <<nodes, exposed>>

\* DeleteEdge: nothing is taken out of the filter.
DeleteEdge(w, p) ==
    /\ p \in edges
    /\ edges' = edges \ {p}
    /\ Commits(w, "idle", p)
    /\ UNCHANGED <<nodes, exposed>>

\* The end of a write, after walAppend.
WriteEnds(w) ==
    /\ \/ writer[w].pc = "put" /\ Put(writer[w].arg, 1) /\ UNCHANGED bits
       \/ writer[w].pc = "invalidate" /\ Invalidate(writer[w].arg) /\ UNCHANGED bits
       \/ writer[w].pc = "bloom" /\ BloomAdd(writer[w].arg) /\ UNCHANGED cacheVars
    /\ writer' = [writer EXCEPT ![w] = NoWrite]
    /\ UNCHANGED <<storeVars, poolVars, exposed, writes>>

\* While the node follows, the applier commits and leaves cache and filter alone.
ApplyNode(w, id) ==
    /\ nodes[id] < MaxVersion
    /\ nodes' = [nodes EXCEPT ![id] = @ + 1]
    /\ Commits(w, "idle", id)
    /\ exposed' = exposed \cup {id}
    /\ UNCHANGED edges

ApplyEdge(w, p) ==
    /\ p \notin edges
    /\ edges' = edges \cup {p}
    /\ Commits(w, "idle", p)
    /\ exposed' = exposed \cup {p}
    /\ UNCHANGED nodes

Write(w) ==
    \/ \E id \in Ids : AddNode(w, id) \/ UpdateNode(w, id) \/ DeleteNode(w, id) \/ ApplyNode(w, id)
    \/ \E p \in Pairs : AddEdge(w, p) \/ DeleteEdge(w, p) \/ ApplyEdge(w, p)
    \/ WriteEnds(w)

(***************************************************************************)
(* ExecuteConcurrent.                                                       *)
(***************************************************************************)
QueueCap == QueueFactor * Cardinality(PoolWorkers)
CallOnly == UNCHANGED <<storeVars, cacheVars, bits, writer, worker, stopped, exposed, writes, stops>>

ExecuteConcurrent ==
    /\ call.pc \in {"idle", "done"} /\ call.n < MaxCalls
    /\ \E list \in TaskLists :
         call' = [NoCall(call.n + 1) EXCEPT !.pc = "submit", !.list = list,
                                            !.results = [i \in DOMAIN list |-> Blank]]
    /\ resultCh' = <<>>
    /\ ctxDone' = FALSE
    /\ UNCHANGED tasks /\ CallOnly

\* The loop over the tasks: the break leaves only the select, so that every task is
\* tried, and none is submitted once the context is done.  A send on the closed
\* channel panics.
Submit ==
    /\ call.pc = "submit"
    /\ IF call.next > Len(call.list)
       THEN call' = [call EXCEPT !.pc = "collect"] /\ UNCHANGED tasks
       ELSE \/ /\ ctxDone
               /\ call' = [call EXCEPT !.next = @ + 1]
               /\ UNCHANGED tasks
            \/ /\ ~ctxDone /\ stopped
               /\ call' = [call EXCEPT !.pc = "panic"]
               /\ UNCHANGED tasks
            \/ /\ ~ctxDone /\ ~stopped /\ Len(tasks) < QueueCap
               /\ tasks' = Append(tasks, [call |-> call.n, idx |-> call.next, task |-> call.list[call.next]])
               /\ call' = [call EXCEPT !.next = @ + 1, !.submitted = @ + 1]
    /\ UNCHANGED <<resultCh, ctxDone>> /\ CallOnly

\* One result, or the end of the context: the slots from the number received so far
\* get its error, whatever results are in them and wherever the others are missing.
Collect ==
    /\ call.pc = "collect"
    /\ \/ /\ call.got = call.submitted
          /\ call' = [call EXCEPT !.pc = "done"]
          /\ UNCHANGED resultCh
       \/ /\ call.got < call.submitted /\ resultCh # <<>>
          /\ call' = [call EXCEPT !.got = @ + 1, !.results[Head(resultCh).idx] = Head(resultCh)]
          /\ resultCh' = Tail(resultCh)
       \/ /\ call.got < call.submitted /\ ctxDone
          /\ call' = [call EXCEPT !.pc = "done",
                        !.results = [i \in DOMAIN @ |-> IF i \in call.got + 1..call.submitted
                                                        THEN [Blank EXCEPT !.st = "err"] ELSE @[i]]]
          /\ UNCHANGED resultCh
    /\ UNCHANGED <<tasks, ctxDone>> /\ CallOnly

CtxCancel ==
    /\ call.pc \in {"submit", "collect"} /\ ~ctxDone
    /\ ctxDone' = TRUE
    /\ UNCHANGED <<tasks, call, resultCh>> /\ CallOnly

(***************************************************************************)
(* The workers.                                                             *)
(***************************************************************************)
WorkerOnly == UNCHANGED <<storeVars, bits, writer, stopped, call, ctxDone, exposed, writes, stops>>

\* The select of worker(): a task, or quit.  Closing the task channel does not empty it.
Take(w) ==
    /\ worker[w].pc = "idle"
    /\ \/ /\ tasks # <<>>
          /\ LET t == Head(tasks)
             IN worker' = [worker EXCEPT ![w] = [Idle EXCEPT !.pc = t.task.kind, !.call = t.call, !.idx = t.idx, !.task = t.task]]
          /\ tasks' = Tail(tasks)
       \/ /\ stopped
          /\ worker' = [worker EXCEPT ![w].pc = "exit"]
          /\ UNCHANGED tasks
    /\ UNCHANGED <<cacheVars, resultCh>> /\ WorkerOnly

\* Mutant: a task that returns an error sends nothing.
Answer_onlyGood(w, v) ==
    /\ resultCh' = IF worker[w].call = call.n /\ v # 0
                   THEN Append(resultCh, [st |-> "ok", call |-> call.n, idx |-> worker[w].idx, val |-> v])
                   ELSE resultCh
    /\ worker' = [worker EXCEPT ![w] = Idle]

\* Mutant: one result channel for all calls.
Answer_sharedChannel(w, v) ==
    /\ resultCh' = Append(resultCh, [st |-> "ok", call |-> worker[w].call, idx |-> worker[w].idx, val |-> v])
    /\ worker' = [worker EXCEPT ![w] = Idle]

\* task.result <- taskResult, into the channel of the task's own call.
Answer(w, v) ==
    /\ resultCh' = IF worker[w].call = call.n
                   THEN Append(resultCh, [st |-> "ok", call |-> call.n, idx |-> worker[w].idx, val |-> v])
                   ELSE resultCh
    /\ worker' = [worker EXCEPT ![w] = Idle]

\* getNode: the cache, ...
GetCached(w) ==
    LET id == worker[w].task.arg
    IN /\ worker[w].pc = "get"
       /\ IF Cached(id)
          THEN lru' = moveToFront(id) /\ Answer(w, CachedVer(id))
          ELSE worker' = [worker EXCEPT ![w].pc = "view"] /\ UNCHANGED <<lru, resultCh>>
       /\ UNCHANGED <<totalBytes, tasks>> /\ WorkerOnly

\* ... a read transaction, which may not find the node, ...
GetView(w) ==
    LET v == nodes[worker[w].task.arg]
    IN /\ worker[w].pc = "view"
       /\ IF v = 0
          THEN Answer(w, 0)
          ELSE worker' = [worker EXCEPT ![w].pc = "put", ![w].ver = v] /\ UNCHANGED resultCh
       /\ UNCHANGED <<cacheVars, tasks>> /\ WorkerOnly

\* ... and the cache again.
GetPut(w) ==
    /\ worker[w].pc = "put"
    /\ Put(worker[w].task.arg, worker[w].ver)
    /\ Answer(w, worker[w].ver)
    /\ UNCHANGED tasks /\ WorkerOnly

\* HasEdge: the filter, and the adjacency only when it may be there.
HasTest(w) ==
    /\ worker[w].pc = "has"
    /\ IF BloomTest(worker[w].task.arg)
       THEN worker' = [worker EXCEPT ![w].pc = "scan"] /\ UNCHANGED resultCh
       ELSE Answer(w, 0)
    /\ UNCHANGED <<cacheVars, tasks>> /\ WorkerOnly

HasScan(w) ==
    /\ worker[w].pc = "scan"
    /\ Answer(w, IF worker[w].task.arg \in edges THEN 1 ELSE 0)
    /\ UNCHANGED <<cacheVars, tasks>> /\ WorkerOnly

WorkerStep(w) == Take(w) \/ GetCached(w) \/ GetView(w) \/ GetPut(w) \/ HasTest(w) \/ HasScan(w)

(***************************************************************************)
(* Closing and opening.                                                     *)
(***************************************************************************)
\* pool.stop closes both channels; Close goes on when the workers have left.
Stop ==
    /\ ~stopped /\ stops < MaxStops
    /\ stopped' = TRUE
    /\ stops' = stops + 1
    /\ UNCHANGED <<storeVars, cacheVars, bits, writer, tasks, worker, call, resultCh, ctxDone, exposed, writes>>

\* The process has ended, and Open begins with an empty cache and a filter made anew.
Reopen ==
    /\ stopped /\ \A w \in PoolWorkers : worker[w].pc = "exit"
    /\ lru' = <<>> /\ totalBytes' = 0
    /\ bits' = initBloomFilter(edges)
    /\ writer' = [w \in Writers |-> NoWrite]
    /\ worker' = [w \in PoolWorkers |-> Idle]
    /\ tasks' = <<>> /\ resultCh' = <<>> /\ ctxDone' = FALSE /\ stopped' = FALSE
    /\ call' = NoCall(call.n)
    /\ exposed' = {}
    /\ UNCHANGED <<storeVars, writes, stops>>

Init ==
    /\ nodes = [id \in Ids |-> IF id \in Stored THEN 1 ELSE 0] /\ edges = {}
    /\ lru = <<>> /\ totalBytes = 0 /\ bits = initBloomFilter(edges)
    /\ writer = [w \in Writers |-> NoWrite]
    /\ tasks = <<>> /\ stopped = FALSE /\ stops = 0
    /\ worker = [w \in PoolWorkers |-> Idle]
    /\ call = NoCall(0) /\ resultCh = <<>> /\ ctxDone = FALSE
    /\ exposed = {} /\ writes = 0

Next ==
    \/ \E w \in Writers : Write(w)
    \/ ExecuteConcurrent \/ Submit \/ Collect \/ CtxCancel
    \/ \E w \in PoolWorkers : WorkerStep(w)
    \/ Stop \/ Reopen

\* Goroutines run; a reader's context need not be cancelled.
Fairness ==
    /\ WF_vars(Submit) /\ WF_vars(Collect)
    /\ \A w \in PoolWorkers : WF_vars(WorkerStep(w))

Spec == Init /\ [][Next]_vars /\ Fairness

(***************************************************************************)
(* Properties.                                                             *)
(***************************************************************************)

\* The cache holds a node once, counts its bytes exactly and within the budget, and
\* holds what the bucket holds, but for a node whose invalidation is about to come
\* and one that was committed while a copy of it was on its way into the cache, or by
\* the applier: no hit, eviction, replacement or restart makes an entry stale.
CacheSound ==
    /\ totalBytes = Size(lru) /\ totalBytes <= Budget
    /\ \A i, j \in 1..Len(lru) : lru[i].id = lru[j].id => i = j
    /\ \A i \in 1..Len(lru) :
         \/ lru[i].ver = nodes[lru[i].id]
         \/ lru[i].id \in exposed
         \/ \E w \in Writers : writer[w] = [pc |-> "invalidate", arg |-> lru[i].id]

\* HasEdge finds every edge whose AddEdge has returned on this node, whatever was
\* deleted, collides or was reopened; of the applier's edges that is not true before
\* the next Open.
NoFalseNegatives ==
    \A p \in edges \ exposed :
        BloomTest(p) \/ \E w \in Writers : writer[w] = [pc |-> "bloom", arg |-> p]

\* "returns all results in order" (pool.go:84): without a cancelled context, each slot
\* has the result of its own task of this call, also when workers still finish the
\* tasks of a call that was given up.
ResultsInOrder ==
    call.pc = "done" /\ ~ctxDone =>
        \A i \in DOMAIN call.results :
            call.results[i].st = "ok" /\ call.results[i].call = call.n /\ call.results[i].idx = i

\* ExecuteConcurrent returns unless the pool is stopped under it, and a stopped pool
\* ends all its workers.
PoolEnds ==
    /\ call.pc \in {"submit", "collect"} ~> (call.pc = "done" \/ stopped)
    /\ stopped ~> \A w \in PoolWorkers : worker[w].pc = "exit"
================================================================================
