------------------------------- MODULE ReadsProofs -------------------------------
(***************************************************************************)
(* Theorems about Reads, for every set of nodes, edges, writers and workers,     *)
(* every hash, budget and list of tasks: HasEdge has no false negatives,           *)
(* ExecuteConcurrent returns every result in the slot of its task, and the node      *)
(* cache counts its bytes and holds what it may hold.                             *)
(***************************************************************************)
EXTENDS Reads, FiniteSetTheorems, OrderFacts, TLAPS

-----------------------------------------------------------------------------------
(***************************************************************************)
(* The Bloom filter.                                                        *)
(***************************************************************************)

\* NoFalseNegatives, and that every writer is there to be changed.
BloomInv ==
    /\ DOMAIN writer = Writers
    /\ NoFalseNegatives

\* Initially there are no edges.
LEMMA BloomInitially == Init => BloomInv
BY DEF Init, BloomInv, NoFalseNegatives

\* A commit takes the place of an idle writer only: a writer on its way to the filter
\* stays so.
LEMMA CommitsKeepBloom ==
    ASSUME NEW w \in Writers, NEW rest, NEW arg, BloomInv, Commits(w, rest, arg)
    PROVE  /\ DOMAIN writer' = Writers
           /\ bits' = bits
           /\ \A p : (\E v \in Writers : writer[v] = [pc |-> "bloom", arg |-> p]) =>
                        \E v \in Writers : writer'[v] = [pc |-> "bloom", arg |-> p]
<1>1. DOMAIN writer' = Writers /\ bits' = bits
  BY DEF Commits, BloomInv
<1>2. ASSUME NEW p, NEW v \in Writers, writer[v] = [pc |-> "bloom", arg |-> p]
      PROVE  writer'[v] = [pc |-> "bloom", arg |-> p]
  <2>1. writer[v].pc = "bloom"
    BY <1>2
  <2>2. v # w
    BY <2>1 DEF Commits
  <2>. QED  BY <1>2, <2>2 DEF Commits, BloomInv
<1>. QED  BY <1>1, <1>2

\* The steps of writers, pool and process keep BloomInv.
LEMMA BloomStep == BloomInv /\ [Next]_vars => BloomInv'
<1>. SUFFICES ASSUME BloomInv, [Next]_vars
              PROVE  BloomInv'
  OBVIOUS
<1>1. ASSUME edges' = edges, exposed \subseteq exposed', bits' = bits, DOMAIN writer' = Writers,
             \A p : (\E v \in Writers : writer[v] = [pc |-> "bloom", arg |-> p]) =>
                        \E v \in Writers : writer'[v] = [pc |-> "bloom", arg |-> p]
      PROVE  BloomInv'
  BY <1>1 DEF BloomInv, NoFalseNegatives, BloomTest
<1>2. ASSUME UNCHANGED <<edges, exposed, bits, writer>>
      PROVE  BloomInv'
  BY <1>2 DEF BloomInv, NoFalseNegatives, BloomTest
<1>3. ASSUME NEW w \in Writers, NEW id \in Ids,
             AddNode(w, id) \/ UpdateNode(w, id) \/ DeleteNode(w, id) \/ ApplyNode(w, id)
      PROVE  BloomInv'
  <2>1. PICK rest : Commits(w, rest, id)
    BY <1>3 DEF AddNode, UpdateNode, DeleteNode, ApplyNode
  <2>2. edges' = edges /\ exposed \subseteq exposed'
    BY <1>3 DEF AddNode, UpdateNode, DeleteNode, ApplyNode, Overwrites
  <2>. QED  BY <2>1, <2>2, <1>1, CommitsKeepBloom
<1>4. ASSUME NEW w \in Writers, NEW p \in Pairs, AddEdge(w, p)
      PROVE  BloomInv'
  <2>1. Commits(w, "bloom", p) /\ edges' = edges \cup {p} /\ exposed' = exposed
    BY <1>4 DEF AddEdge
  <2>2. writer'[w] = [pc |-> "bloom", arg |-> p]
    BY <2>1 DEF Commits, BloomInv
  <2>3. /\ DOMAIN writer' = Writers
        /\ bits' = bits
        /\ \A q : (\E v \in Writers : writer[v] = [pc |-> "bloom", arg |-> q]) =>
                     \E v \in Writers : writer'[v] = [pc |-> "bloom", arg |-> q]
    BY <2>1, CommitsKeepBloom
  <2>. QED  BY <2>1, <2>2, <2>3 DEF BloomInv, NoFalseNegatives, BloomTest
<1>5. ASSUME NEW w \in Writers, NEW p \in Pairs, DeleteEdge(w, p) \/ ApplyEdge(w, p)
      PROVE  BloomInv'
  <2>1. Commits(w, "idle", p) /\ edges' \ exposed' \subseteq edges \ exposed
    BY <1>5 DEF DeleteEdge, ApplyEdge
  <2>2. /\ DOMAIN writer' = Writers
        /\ bits' = bits
        /\ \A q : (\E v \in Writers : writer[v] = [pc |-> "bloom", arg |-> q]) =>
                     \E v \in Writers : writer'[v] = [pc |-> "bloom", arg |-> q]
    BY <2>1, CommitsKeepBloom
  <2>. QED  BY <2>1, <2>2 DEF BloomInv, NoFalseNegatives, BloomTest
<1>6. ASSUME NEW w \in Writers, WriteEnds(w)
      PROVE  BloomInv'
  <2>1. /\ DOMAIN writer' = Writers /\ edges' = edges /\ exposed' = exposed
        /\ \A v \in Writers : v # w => writer'[v] = writer[v]
    BY <1>6 DEF WriteEnds, storeVars, BloomInv
  <2>2. ASSUME NEW p \in edges \ exposed
        PROVE  Hash[p] \subseteq bits' \/ \E v \in Writers : writer'[v] = [pc |-> "bloom", arg |-> p]
    <3>1. bits \subseteq bits'
      BY <1>6 DEF WriteEnds, BloomAdd
    <3>2. CASE Hash[p] \subseteq bits
      BY <3>1, <3>2
    <3>3. CASE writer[w] = [pc |-> "bloom", arg |-> p]
      <4>1. writer[w].pc = "bloom" /\ writer[w].arg = p
        BY <3>3
      <4>. QED  BY <4>1, <1>6 DEF WriteEnds, BloomAdd
    <3>. QED  BY <2>1, <3>2, <3>3 DEF BloomInv, NoFalseNegatives, BloomTest
  <2>. QED  BY <2>1, <2>2 DEF BloomInv, NoFalseNegatives, BloomTest
<1>7. ASSUME Reopen
      PROVE  BloomInv'
  BY <1>7 DEF Reopen, initBloomFilter, storeVars, BloomInv, NoFalseNegatives, BloomTest
<1>8. CASE ExecuteConcurrent \/ Submit \/ Collect \/ CtxCancel \/ Stop
  BY <1>8, <1>2 DEF ExecuteConcurrent, Submit, Collect, CtxCancel, Stop, CallOnly, storeVars
<1>9. CASE \E w \in PoolWorkers : WorkerStep(w)
  BY <1>9, <1>2 DEF WorkerStep, Take, GetCached, GetView, GetPut, HasTest, HasScan, WorkerOnly, storeVars
<1>10. CASE UNCHANGED vars
  BY <1>10, <1>2 DEF vars, storeVars
<1>. QED
  BY <1>3, <1>4, <1>5, <1>6, <1>7, <1>8, <1>9, <1>10 DEF Next, Write

\* HasEdge finds every edge whose AddEdge has returned on this node: each bit of each
\* such edge is set, or its writer is about to set it (bloom.go, edge.go).
THEOREM EdgesAreFound == Spec => []NoFalseNegatives
<1>1. BloomInv => NoFalseNegatives
  BY DEF BloomInv
<1>. QED  BY <1>1, BloomInitially, BloomStep, PTL DEF Spec

-----------------------------------------------------------------------------------
(***************************************************************************)
(* The pool.  A call's slot is in one place: it is still to be submitted, its    *)
(* task is queued, a worker has it, its result is in the channel, or it is good.   *)
(***************************************************************************)

WorkerFields == {"pc", "call", "idx", "task", "ver"}
CallFields   == {"pc", "n", "list", "next", "submitted", "got", "results"}
Tasks        == [kind : {"get"}, arg : Ids] \cup [kind : {"has"}, arg : Pairs]
QueuedTasks  == [call : Nat, idx : Nat, task : Tasks]

\* A sequence, of whatever it holds.
IsSeq(s) == \E S : s \in Seq(S)

\* What the steps of pool and callers need of the types; the values read are free.
Shapes ==
    /\ DOMAIN worker = PoolWorkers
    /\ \A w \in PoolWorkers : DOMAIN worker[w] = WorkerFields /\ worker[w].call \in Nat
    /\ tasks \in Seq(QueuedTasks)
    /\ IsSeq(resultCh)
    /\ DOMAIN call = CallFields
    /\ call.pc \in {"idle", "submit", "collect", "done", "panic"}
    /\ call.n \in Nat /\ call.next \in Nat \ {0} /\ call.submitted \in Nat /\ call.got \in Nat
    /\ call.list \in Seq(Tasks)
    /\ DOMAIN call.results = 1..Len(call.list)
    /\ ctxDone \in BOOLEAN

\* A worker inside a task of the present call, and a queued one.
Runs(w)   == w \in PoolWorkers /\ worker[w].pc \notin {"idle", "exit"} /\ worker[w].call = call.n
Queued(k) == k \in 1..Len(tasks) /\ tasks[k].call = call.n

\* The slots that hold the result of their own task.
Good == {i \in DOMAIN call.results :
            call.results[i].st = "ok" /\ call.results[i].call = call.n /\ call.results[i].idx = i}

\* Nothing comes from a later call, and of the present one only what was submitted.
Submitted ==
    /\ call.next <= Len(call.list) + 1
    /\ \A k \in 1..Len(tasks) : tasks[k].call <= call.n
    /\ \A w \in PoolWorkers : worker[w].pc \notin {"idle", "exit"} => worker[w].call <= call.n
    /\ \A k : Queued(k) => tasks[k].idx \in 1..call.next - 1
    /\ \A w : Runs(w) => worker[w].idx \in 1..call.next - 1
    /\ \A k \in 1..Len(resultCh) :
         /\ resultCh[k].st = "ok" /\ resultCh[k].call = call.n
         /\ resultCh[k].idx \in 1..call.next - 1
    /\ \A i \in Good : i \in 1..call.next - 1

\* No slot is in two places.
Apart ==
    /\ \A k, l : Queued(k) /\ Queued(l) /\ tasks[k].idx = tasks[l].idx => k = l
    /\ \A v, w : Runs(v) /\ Runs(w) /\ worker[v].idx = worker[w].idx => v = w
    /\ \A k, l \in 1..Len(resultCh) : resultCh[k].idx = resultCh[l].idx => k = l
    /\ \A k, w : Queued(k) /\ Runs(w) => tasks[k].idx # worker[w].idx
    /\ \A k : \A l \in 1..Len(resultCh) : Queued(k) => tasks[k].idx # resultCh[l].idx
    /\ \A w : \A l \in 1..Len(resultCh) : Runs(w) => worker[w].idx # resultCh[l].idx
    /\ \A k : Queued(k) => tasks[k].idx \notin Good
    /\ \A w : Runs(w) => worker[w].idx \notin Good
    /\ \A l \in 1..Len(resultCh) : resultCh[l].idx \notin Good

\* Without a cancelled context every task tried was submitted, and the results
\* received are the good slots.
Counted ==
    ~ctxDone =>
        /\ call.submitted = call.next - 1
        /\ call.got = Cardinality(Good)
        /\ call.pc \in {"collect", "done"} => call.next = Len(call.list) + 1
        /\ call.pc = "done" => call.got = call.submitted

OrderInv == Shapes /\ Submitted /\ Apart /\ Counted

\* Append to a sequence whose elements have no common type.
LEMMA Appended ==
    ASSUME NEW s, NEW e, IsSeq(s)
    PROVE  /\ IsSeq(Append(s, e)) /\ Len(Append(s, e)) = Len(s) + 1 /\ Len(s) \in Nat
           /\ \A k \in 1..Len(s) : Append(s, e)[k] = s[k]
           /\ Append(s, e)[Len(s) + 1] = e
<1>1. PICK S : s \in Seq(S)
  BY DEF IsSeq
<1>2. PICK t : t = Append(s, e)
  OBVIOUS
<1>3. /\ t \in Seq(S \cup {e}) /\ Len(t) = Len(s) + 1 /\ Len(s) \in Nat
      /\ \A k \in 1..Len(s) : t[k] = s[k]
      /\ t[Len(s) + 1] = e
  BY <1>1, <1>2
<1>4. IsSeq(t)
  BY <1>3 DEF IsSeq
<1>. QED  BY <1>2, <1>3, <1>4

\* Tail: the second element comes first.
LEMMA Tailed ==
    ASSUME NEW s, IsSeq(s), s # <<>>
    PROVE  /\ IsSeq(Tail(s)) /\ Len(Tail(s)) = Len(s) - 1 /\ Len(s) \in Nat \ {0}
           /\ \A k \in 1..Len(s) - 1 : Tail(s)[k] = s[k + 1]
           /\ Head(s) = s[1]
<1>1. PICK S : s \in Seq(S)
  BY DEF IsSeq
<1>2. PICK t : t = Tail(s)
  OBVIOUS
<1>3. /\ t \in Seq(S) /\ Len(t) = Len(s) - 1 /\ Len(s) \in Nat \ {0}
      /\ \A k \in 1..Len(s) - 1 : t[k] = s[k + 1]
      /\ Head(s) = s[1]
  BY <1>1, <1>2
<1>4. IsSeq(t)
  BY <1>3 DEF IsSeq
<1>. QED  BY <1>2, <1>3, <1>4

\* The empty sequence is one.
LEMMA EmptyIsSeq == IsSeq(<<>>) /\ Len(<<>>) = 0 /\ DOMAIN <<>> = 1..0 /\ \A S : <<>> \in Seq(S)
BY DEF IsSeq

\* A pool just made, with nothing queued and no call.
Opened ==
    /\ worker = [w \in PoolWorkers |-> Idle]
    /\ tasks = <<>> /\ resultCh = <<>> /\ ctxDone = FALSE
    /\ \E n \in Nat : call = NoCall(n)

\* Such a pool is in order.
LEMMA OpenedInOrder == Opened => OrderInv
<1>. SUFFICES ASSUME Opened
              PROVE  OrderInv
  OBVIOUS
<1>0. PICK n \in Nat : call = NoCall(n)
  BY DEF Opened
<1>1. PICK c : c = NoCall(n) /\ c = call
  BY <1>0
<1>2. /\ DOMAIN c = CallFields /\ c.pc = "idle" /\ c.n = n /\ c.list = <<>> /\ c.next = 1
      /\ c.submitted = 0 /\ c.got = 0 /\ c.results = <<>>
  BY <1>1 DEF NoCall, CallFields
<1>3. PICK i : i = Idle
  OBVIOUS
<1>4. DOMAIN i = WorkerFields /\ i.pc = "idle" /\ i.call = 0
  BY <1>3 DEF Idle, WorkerFields
<1>5. worker = [w \in PoolWorkers |-> i] /\ call = c /\ tasks = <<>> /\ resultCh = <<>> /\ ctxDone = FALSE
  BY <1>1, <1>3 DEF Opened
<1>6. Shapes
  <2>1. tasks \in Seq(QueuedTasks) /\ call.list \in Seq(Tasks) /\ IsSeq(resultCh)
    BY <1>2, <1>5, EmptyIsSeq
  <2>2. DOMAIN call.results = 1..Len(call.list)
    BY <1>2, <1>5
  <2>3. DOMAIN worker = PoolWorkers /\ \A w \in PoolWorkers : DOMAIN worker[w] = WorkerFields /\ worker[w].call \in Nat
    BY <1>4, <1>5
  <2>4. ctxDone \in BOOLEAN /\ DOMAIN call = CallFields
    BY <1>2, <1>5
  <2>5. call.pc \in {"idle", "submit", "collect", "done", "panic"}
    BY <1>2, <1>5
  <2>6. call.n \in Nat /\ call.next \in Nat \ {0} /\ call.submitted \in Nat /\ call.got \in Nat
    BY <1>2, <1>5
  <2>. QED  BY <2>1, <2>2, <2>3, <2>4, <2>5, <2>6 DEF Shapes
<1>7. Good = {}
  BY <1>2, <1>5 DEF Good
<1>8. Cardinality({}) = 0
  BY FS_EmptySet
<1>9. Submitted /\ Apart
  BY <1>2, <1>4, <1>5, <1>7 DEF Submitted, Apart, Queued, Runs
<1>. QED  BY <1>2, <1>5, <1>6, <1>7, <1>8, <1>9 DEF OrderInv, Counted

\* A worker goes on with its task, or an idle one leaves: the slots stay where they are.
LEMMA WorkerMoves ==
    ASSUME OrderInv, NEW w \in PoolWorkers,
           UNCHANGED <<tasks, resultCh, call, ctxDone>>,
           DOMAIN worker' = PoolWorkers, DOMAIN worker'[w] = WorkerFields,
           \A v \in PoolWorkers : v # w => worker'[v] = worker[v],
           worker'[w].call = worker[w].call, worker'[w].idx = worker[w].idx,
           worker'[w].pc \notin {"idle", "exit"} => worker[w].pc \notin {"idle", "exit"}
    PROVE  OrderInv'
<1>1. Shapes'
  BY DEF OrderInv, Shapes
<1>2. /\ \A v : Runs(v)' => Runs(v) /\ worker'[v].idx = worker[v].idx
      /\ \A k : Queued(k)' <=> Queued(k)
      /\ Good' = Good
  BY DEF Runs, Queued, Good
<1>3. Submitted' /\ Apart'
  BY <1>2 DEF OrderInv, Submitted, Apart
<1>4. Counted'
  BY <1>2 DEF OrderInv, Counted
<1>. QED  BY <1>1, <1>3, <1>4 DEF OrderInv

\* The result of a task goes to the channel of its call, or nowhere when that is over.
LEMMA AnswerKeeps ==
    ASSUME OrderInv, NEW w \in PoolWorkers, NEW v, worker[w].pc \notin {"idle", "exit"},
           Answer(w, v), UNCHANGED <<tasks, call, ctxDone>>
    PROVE  OrderInv'
<1>1. PICK i : i = Idle
  OBVIOUS
<1>2. DOMAIN i = WorkerFields /\ i.pc = "idle" /\ i.call = 0
  BY <1>1 DEF Idle, WorkerFields
<1>3. /\ DOMAIN worker' = PoolWorkers /\ worker'[w] = i
      /\ \A u \in PoolWorkers : u # w => worker'[u] = worker[u]
  BY <1>1 DEF Answer, OrderInv, Shapes
<1>4. /\ \A u : Runs(u)' => Runs(u) /\ u # w /\ worker'[u] = worker[u]
      /\ \A k : Queued(k)' <=> Queued(k)
      /\ Good' = Good
  BY <1>2, <1>3 DEF Runs, Queued, Good
<1>5. Counted'
  BY <1>4 DEF OrderInv, Counted
<1>6. CASE worker[w].call = call.n
  <2>1. PICK e : e = [st |-> "ok", call |-> call.n, idx |-> worker[w].idx, val |-> v]
    OBVIOUS
  <2>2. e.st = "ok" /\ e.call = call.n /\ e.idx = worker[w].idx
    BY <2>1
  <2>3. resultCh' = Append(resultCh, e)
    BY <1>6, <2>1 DEF Answer
  <2>4. /\ IsSeq(resultCh') /\ Len(resultCh') = Len(resultCh) + 1 /\ Len(resultCh) \in Nat
        /\ \A k \in 1..Len(resultCh) : resultCh'[k] = resultCh[k]
        /\ resultCh'[Len(resultCh) + 1] = e
    BY <2>3, Appended DEF OrderInv, Shapes
  <2>5. Runs(w)
    BY <1>6 DEF Runs
  <2>6. Shapes'
    BY <1>2, <1>3, <2>4 DEF OrderInv, Shapes
  <2>7. \A k \in 1..Len(resultCh') : k \in 1..Len(resultCh) \/ (k = Len(resultCh) + 1 /\ resultCh'[k] = e)
    BY <2>4
  <2>8. Submitted'
    <3>1. \A k \in 1..Len(resultCh') :
            /\ resultCh'[k].st = "ok" /\ resultCh'[k].call = call.n
            /\ resultCh'[k].idx \in 1..call.next - 1
      BY <2>2, <2>4, <2>5, <2>7 DEF OrderInv, Submitted
    <3>2. \A u \in PoolWorkers : worker'[u].pc \notin {"idle", "exit"} => worker'[u].call <= call.n
      BY <1>2, <1>3 DEF OrderInv, Submitted
    <3>. QED  BY <1>4, <3>1, <3>2 DEF OrderInv, Submitted
  <2>9. Apart'
    <3>1. \A k \in 1..Len(resultCh') :
            \/ k \in 1..Len(resultCh) /\ resultCh'[k].idx = resultCh[k].idx
            \/ k = Len(resultCh) + 1 /\ resultCh'[k].idx = worker[w].idx
      BY <2>2, <2>4, <2>7
    <3>2. \A k, l \in 1..Len(resultCh') : resultCh'[k].idx = resultCh'[l].idx => k = l
      BY <2>5, <3>1 DEF OrderInv, Apart
    <3>3. \A k : \A l \in 1..Len(resultCh') : Queued(k) => tasks[k].idx # resultCh'[l].idx
      BY <2>5, <3>1 DEF OrderInv, Apart
    <3>4. \A u : \A l \in 1..Len(resultCh') : Runs(u) /\ u # w => worker[u].idx # resultCh'[l].idx
      BY <2>5, <3>1 DEF OrderInv, Apart
    <3>5. \A l \in 1..Len(resultCh') : resultCh'[l].idx \notin Good
      BY <2>5, <3>1 DEF OrderInv, Apart
    <3>. QED  BY <1>4, <3>2, <3>3, <3>4, <3>5 DEF OrderInv, Apart
  <2>. QED  BY <1>5, <2>6, <2>8, <2>9 DEF OrderInv
<1>7. CASE worker[w].call # call.n
  <2>1. resultCh' = resultCh
    BY <1>7 DEF Answer
  <2>2. Shapes'
    BY <1>2, <1>3, <2>1 DEF OrderInv, Shapes
  <2>3. Submitted'
    BY <1>2, <1>3, <1>4, <2>1 DEF OrderInv, Submitted
  <2>4. Apart'
    BY <1>4, <2>1 DEF OrderInv, Apart
  <2>. QED  BY <1>5, <2>2, <2>3, <2>4 DEF OrderInv
<1>. QED  BY <1>6, <1>7

\* The beginning makes such a pool, ...
LEMMA OrderInitially == Init => OrderInv
<1>1. Init => Opened
  BY DEF Init, Opened
<1>. QED  BY <1>1, OpenedInOrder

\* ... and so does every Open.
LEMMA ReopenKeeps == OrderInv /\ Reopen => OrderInv'
<1>1. OrderInv /\ Reopen => Opened'
  BY DEF OrderInv, Shapes, Reopen, Opened
<1>2. Opened' => OrderInv'
  BY OpenedInOrder, PTL
<1>. QED  BY <1>1, <1>2

\* A task leaves the queue and a worker has it.
LEMMA TakeKeeps ==
    ASSUME OrderInv, NEW w \in PoolWorkers, Take(w)
    PROVE  OrderInv'
<1>1. UNCHANGED <<resultCh, call, ctxDone>> /\ worker[w].pc = "idle"
  BY DEF Take, WorkerOnly
<1>2. DOMAIN worker = PoolWorkers /\ DOMAIN worker[w] = WorkerFields
  BY DEF OrderInv, Shapes
<1>3. CASE tasks # <<>> /\ tasks' = Tail(tasks) /\
           worker' = [worker EXCEPT ![w] = [Idle EXCEPT !.pc = Head(tasks).task.kind, !.call = Head(tasks).call,
                                                        !.idx = Head(tasks).idx, !.task = Head(tasks).task]]
  <2>1. PICK t : t = Head(tasks)
    OBVIOUS
  <2>2. PICK r : r = [Idle EXCEPT !.pc = t.task.kind, !.call = t.call, !.idx = t.idx, !.task = t.task]
    OBVIOUS
  <2>3. DOMAIN r = WorkerFields /\ r.pc = t.task.kind /\ r.call = t.call /\ r.idx = t.idx
    BY <2>2 DEF Idle, WorkerFields
  <2>4. /\ DOMAIN worker' = PoolWorkers /\ worker'[w] = r
        /\ \A v \in PoolWorkers : v # w => worker'[v] = worker[v]
    BY <1>2, <1>3, <2>1, <2>2
  <2>5. /\ tasks' \in Seq(QueuedTasks) /\ Len(tasks') = Len(tasks) - 1
        /\ Len(tasks) \in Nat \ {0} /\ t = tasks[1]
        /\ \A k \in 1..Len(tasks) - 1 : tasks'[k] = tasks[k + 1]
    BY <1>3, <2>1 DEF OrderInv, Shapes
  <2>6. t \in QueuedTasks
    BY <2>5 DEF OrderInv, Shapes
  <2>7. t.task.kind \notin {"idle", "exit"}
    BY <2>6 DEF QueuedTasks, Tasks
  <2>8. Shapes'
    <3>1. t.call \in Nat
      BY <2>6 DEF QueuedTasks
    <3>. QED  BY <1>1, <2>3, <2>4, <2>5, <3>1 DEF OrderInv, Shapes
  <2>9. /\ Good' = Good
        /\ \A k : Queued(k)' => k \in 1..Len(tasks) - 1 /\ tasks'[k] = tasks[k + 1] /\ Queued(k + 1)
        /\ \A v : v # w => (Runs(v)' => Runs(v) /\ worker'[v] = worker[v])
        /\ Runs(w)' => Queued(1) /\ worker'[w].idx = tasks[1].idx
        /\ ~Runs(w)
    <3>1. Good' = Good /\ ~Runs(w)
      BY <1>1 DEF Good, Runs
    <3>2. \A k : Queued(k)' => k \in 1..Len(tasks) - 1 /\ tasks'[k] = tasks[k + 1] /\ Queued(k + 1)
      BY <1>1, <2>5 DEF Queued
    <3>3. \A v : v # w => (Runs(v)' => Runs(v) /\ worker'[v] = worker[v])
      BY <1>1, <2>4 DEF Runs
    <3>4. Runs(w)' => Queued(1) /\ worker'[w].idx = tasks[1].idx
      BY <1>1, <2>3, <2>4, <2>5 DEF Queued, Runs
    <3>. QED  BY <3>1, <3>2, <3>3, <3>4
  <2>10. Submitted'
    <3>1. /\ 1 \in 1..Len(tasks)
          /\ \A k \in 1..Len(tasks') : k + 1 \in 1..Len(tasks) /\ tasks'[k] = tasks[k + 1]
      BY <2>5
    <3>2. t.call <= call.n /\ \A k \in 1..Len(tasks') : tasks'[k].call <= call.n
      BY <2>5, <3>1 DEF OrderInv, Submitted
    <3>3. \A v \in PoolWorkers : worker'[v].pc \notin {"idle", "exit"} => worker'[v].call <= call.n
      BY <2>3, <2>4, <3>2 DEF OrderInv, Submitted
    <3>4. \A k : Queued(k)' => tasks'[k].idx \in 1..call.next - 1
      BY <2>9 DEF OrderInv, Submitted
    <3>5. \A v : Runs(v)' => worker'[v].idx \in 1..call.next - 1
      BY <2>9 DEF OrderInv, Submitted
    <3>. QED  BY <1>1, <2>9, <3>2, <3>3, <3>4, <3>5 DEF OrderInv, Submitted
  <2>11. Apart'
    <3>1. \A k, l : Queued(k)' /\ Queued(l)' /\ tasks'[k].idx = tasks'[l].idx => k = l
      <4>1. \A k, l : Queued(k)' /\ Queued(l)' /\ tasks'[k].idx = tasks'[l].idx =>
              k + 1 = l + 1 /\ k \in Int /\ l \in Int
        BY <2>9 DEF OrderInv, Apart
      <4>. QED  BY <4>1
    <3>2. \A u, v : Runs(u)' /\ Runs(v)' /\ worker'[u].idx = worker'[v].idx => u = v
      BY <2>9 DEF OrderInv, Apart
    <3>3. \A k, v : Queued(k)' /\ Runs(v)' => tasks'[k].idx # worker'[v].idx
      <4>1. ASSUME NEW k, Queued(k)', Runs(w)' PROVE tasks'[k].idx # worker'[w].idx
        <5>1. k + 1 # 1 /\ Queued(k + 1) /\ Queued(1)
          BY <2>9, <4>1
        <5>. QED  BY <2>9, <4>1, <5>1 DEF OrderInv, Apart
      <4>2. ASSUME NEW k, NEW v, v # w, Queued(k)', Runs(v)' PROVE tasks'[k].idx # worker'[v].idx
        BY <2>9, <4>2 DEF OrderInv, Apart
      <4>. QED  BY <4>1, <4>2
    <3>4. /\ \A k : \A l \in 1..Len(resultCh) : Queued(k)' => tasks'[k].idx # resultCh[l].idx
          /\ \A v : \A l \in 1..Len(resultCh) : Runs(v)' => worker'[v].idx # resultCh[l].idx
      BY <2>9 DEF OrderInv, Apart
    <3>5. /\ \A k : Queued(k)' => tasks'[k].idx \notin Good
          /\ \A v : Runs(v)' => worker'[v].idx \notin Good
      BY <2>9 DEF OrderInv, Apart
    <3>. QED  BY <1>1, <2>9, <3>1, <3>2, <3>3, <3>4, <3>5 DEF OrderInv, Apart
  <2>12. Counted'
    BY <1>1, <2>9 DEF OrderInv, Counted
  <2>. QED  BY <2>8, <2>10, <2>11, <2>12 DEF OrderInv
<1>4. CASE tasks' = tasks /\ worker' = [worker EXCEPT ![w].pc = "exit"]
  <2>1. /\ DOMAIN worker' = PoolWorkers /\ DOMAIN worker'[w] = WorkerFields
        /\ \A v \in PoolWorkers : v # w => worker'[v] = worker[v]
        /\ worker'[w].call = worker[w].call /\ worker'[w].idx = worker[w].idx /\ worker'[w].pc = "exit"
    BY <1>2, <1>4 DEF WorkerFields
  <2>. QED  BY <1>1, <1>4, <2>1, WorkerMoves
<1>. QED  BY <1>3, <1>4 DEF Take

\* The caller goes on and neither queue nor results change.
LEMMA CallMoves ==
    ASSUME OrderInv, UNCHANGED <<worker, tasks, resultCh>>, ctxDone' \in BOOLEAN,
           DOMAIN call' = CallFields, call'.pc \in {"idle", "submit", "collect", "done", "panic"},
           call'.n = call.n, call'.list = call.list, call'.results = call.results,
           call'.next \in Nat, call.next <= call'.next, call'.next <= Len(call.list) + 1,
           call'.submitted \in Nat, call'.got \in Nat
    PROVE  Shapes' /\ Submitted' /\ Apart' /\ Good' = Good
<1>1. call.next \in Nat \ {0} /\ Len(call.list) \in Nat
  BY DEF OrderInv, Shapes
<1>2. Shapes'
  BY <1>1 DEF OrderInv, Shapes
<1>3. Good' = Good
  BY DEF Good
<1>4. /\ \A k : Queued(k)' <=> Queued(k)
      /\ \A w : Runs(w)' <=> Runs(w)
  BY DEF Queued, Runs
<1>5. \A i \in 1..call.next - 1 : i \in 1..call'.next - 1
  BY <1>1
<1>6. Submitted'
  BY <1>3, <1>4, <1>5 DEF OrderInv, Submitted
<1>7. Apart'
  BY <1>3, <1>4 DEF OrderInv, Apart
<1>. QED  BY <1>2, <1>3, <1>6, <1>7

\* The loop over the tasks: the slot submitted is new to the queue.
LEMMA SubmitKeeps == OrderInv /\ Submit => OrderInv'
<1>. SUFFICES ASSUME OrderInv, Submit
              PROVE  OrderInv'
  OBVIOUS
<1>1. UNCHANGED <<worker, resultCh, ctxDone>> /\ call.pc = "submit"
  BY DEF Submit, CallOnly
<1>2. /\ DOMAIN call = CallFields /\ call.next \in Nat \ {0} /\ Len(call.list) \in Nat
      /\ call.submitted \in Nat /\ call.got \in Nat /\ call.n \in Nat /\ ctxDone' \in BOOLEAN
      /\ call.next <= Len(call.list) + 1
  BY <1>1 DEF OrderInv, Shapes, Submitted
<1>3. CASE call.next > Len(call.list) /\ call' = [call EXCEPT !.pc = "collect"] /\ tasks' = tasks
  <2>1. /\ DOMAIN call' = CallFields /\ call'.pc = "collect" /\ call'.n = call.n /\ call'.list = call.list
        /\ call'.results = call.results /\ call'.next = call.next /\ call'.submitted = call.submitted
        /\ call'.got = call.got
    BY <1>2, <1>3 DEF CallFields
  <2>2. call'.next = Len(call.list) + 1
    BY <1>2, <1>3, <2>1
  <2>3. Shapes' /\ Submitted' /\ Apart' /\ Good' = Good
    BY <1>1, <1>2, <1>3, <2>1, CallMoves
  <2>4. Counted'
    BY <1>1, <2>1, <2>2, <2>3 DEF OrderInv, Counted
  <2>. QED  BY <2>3, <2>4 DEF OrderInv
<1>4. CASE ~(call.next > Len(call.list)) /\ ctxDone /\ call' = [call EXCEPT !.next = @ + 1] /\ tasks' = tasks
  <2>1. /\ DOMAIN call' = CallFields /\ call'.pc = "submit" /\ call'.n = call.n /\ call'.list = call.list
        /\ call'.results = call.results /\ call'.next = call.next + 1 /\ call'.submitted = call.submitted
        /\ call'.got = call.got
    BY <1>1, <1>2, <1>4 DEF CallFields
  <2>2. call'.next \in Nat /\ call.next <= call'.next /\ call'.next <= Len(call.list) + 1
    BY <1>2, <1>4, <2>1
  <2>3. Shapes' /\ Submitted' /\ Apart'
    BY <1>1, <1>2, <1>4, <2>1, <2>2, CallMoves
  <2>4. Counted'
    BY <1>1, <1>4 DEF Counted
  <2>. QED  BY <2>3, <2>4 DEF OrderInv
<1>5. CASE call' = [call EXCEPT !.pc = "panic"] /\ tasks' = tasks
  <2>1. /\ DOMAIN call' = CallFields /\ call'.pc = "panic" /\ call'.n = call.n /\ call'.list = call.list
        /\ call'.results = call.results /\ call'.next = call.next /\ call'.submitted = call.submitted
        /\ call'.got = call.got
    BY <1>2, <1>5 DEF CallFields
  <2>2. Shapes' /\ Submitted' /\ Apart' /\ Good' = Good
    BY <1>1, <1>2, <1>5, <2>1, CallMoves
  <2>3. Counted'
    BY <1>1, <2>1, <2>2 DEF OrderInv, Counted
  <2>. QED  BY <2>2, <2>3 DEF OrderInv
<1>6. CASE /\ ~(call.next > Len(call.list))
           /\ tasks' = Append(tasks, [call |-> call.n, idx |-> call.next, task |-> call.list[call.next]])
           /\ call' = [call EXCEPT !.next = @ + 1, !.submitted = @ + 1]
  <2>1. /\ DOMAIN call' = CallFields /\ call'.pc = "submit" /\ call'.n = call.n /\ call'.list = call.list
        /\ call'.results = call.results /\ call'.next = call.next + 1 /\ call'.submitted = call.submitted + 1
        /\ call'.got = call.got
    BY <1>1, <1>2, <1>6 DEF CallFields
  <2>2. PICK t : t = [call |-> call.n, idx |-> call.next, task |-> call.list[call.next]]
    OBVIOUS
  <2>3. t \in QueuedTasks /\ t.call = call.n /\ t.idx = call.next
    <3>1. call.list[call.next] \in Tasks
      BY <1>2, <1>6 DEF OrderInv, Shapes
    <3>. QED  BY <1>2, <2>2, <3>1 DEF QueuedTasks
  <2>4. /\ tasks' \in Seq(QueuedTasks) /\ Len(tasks') = Len(tasks) + 1 /\ Len(tasks) \in Nat
        /\ \A k \in 1..Len(tasks) : tasks'[k] = tasks[k]
        /\ tasks'[Len(tasks) + 1] = t
    BY <1>6, <2>2, <2>3 DEF OrderInv, Shapes
  <2>5. Shapes'
    BY <1>1, <1>2, <2>1, <2>4 DEF OrderInv, Shapes
  <2>6. /\ Good' = Good
        /\ \A w : Runs(w)' <=> Runs(w)
        /\ \A k : Queued(k)' => \/ Queued(k) /\ tasks'[k] = tasks[k]
                                \/ k = Len(tasks) + 1 /\ tasks'[k].idx = call.next
    <3>1. Good' = Good
      BY <2>1 DEF Good
    <3>2. \A w : Runs(w)' <=> Runs(w)
      BY <1>1, <2>1 DEF Runs
    <3>3. \A k \in 1..Len(tasks') : k \in 1..Len(tasks) \/ k = Len(tasks) + 1
      BY <2>4
    <3>. QED  BY <2>1, <2>3, <2>4, <3>1, <3>2, <3>3 DEF Queued
  <2>7. /\ \A i \in 1..call.next - 1 : i \in 1..call'.next - 1 /\ i # call.next
        /\ call.next \in 1..call'.next - 1
    BY <1>2, <2>1
  <2>8. Submitted'
    <3>1. \A k \in 1..Len(tasks') : tasks'[k].call <= call'.n
      <4>1. \A k \in 1..Len(tasks') : k \in 1..Len(tasks) \/ k = Len(tasks) + 1
        BY <2>4
      <4>. QED  BY <1>2, <2>1, <2>3, <2>4, <4>1 DEF OrderInv, Submitted
    <3>2. call'.next <= Len(call'.list) + 1
      BY <1>2, <1>6, <2>1
    <3>. QED  BY <1>1, <2>1, <2>6, <2>7, <3>1, <3>2 DEF OrderInv, Submitted
  <2>9. call.next \notin Good
    BY <2>7 DEF OrderInv, Submitted
  <2>10. Apart'
    BY <1>1, <2>6, <2>7, <2>9 DEF OrderInv, Submitted, Apart
  <2>11. Counted'
    BY <1>1, <1>2, <2>1, <2>6 DEF OrderInv, Counted
  <2>. QED  BY <2>5, <2>8, <2>10, <2>11 DEF OrderInv
<1>. QED  BY <1>3, <1>4, <1>5, <1>6 DEF Submit

\* A call begins: what is queued or running is of the calls before it.
LEMMA ExecuteKeeps == OrderInv /\ ExecuteConcurrent => OrderInv'
<1>. SUFFICES ASSUME OrderInv, ExecuteConcurrent
              PROVE  OrderInv'
  OBVIOUS
<1>1. UNCHANGED <<worker, tasks>> /\ resultCh' = <<>> /\ ctxDone' = FALSE
  BY DEF ExecuteConcurrent, CallOnly
<1>2. PICK list \in TaskLists :
        call' = [NoCall(call.n + 1) EXCEPT !.pc = "submit", !.list = list,
                                           !.results = [i \in DOMAIN list |-> Blank]]
  BY DEF ExecuteConcurrent
<1>3. /\ DOMAIN call' = CallFields /\ call'.pc = "submit" /\ call'.n = call.n + 1 /\ call'.list = list
      /\ call'.next = 1 /\ call'.submitted = 0 /\ call'.got = 0
      /\ call'.results = [i \in DOMAIN list |-> Blank]
  BY <1>2 DEF NoCall, CallFields
<1>4. list \in Seq(Tasks) /\ DOMAIN list = 1..Len(list) /\ Len(list) \in Nat
  <2>1. list \in Seq(Tasks)
    BY ReadsAssumption DEF ReadsAssumption, Tasks
  <2>. QED  BY <2>1
<1>5. call.n \in Nat /\ \A w \in PoolWorkers : DOMAIN worker[w] = WorkerFields
  BY DEF OrderInv, Shapes
<1>6. IsSeq(resultCh') /\ Len(resultCh') = 0
  BY <1>1, EmptyIsSeq
<1>7. Shapes'
  <2>1. DOMAIN call'.results = 1..Len(call'.list)
    BY <1>3, <1>4
  <2>2. /\ call'.n \in Nat /\ call'.next \in Nat \ {0} /\ call'.submitted \in Nat /\ call'.got \in Nat
        /\ call'.list \in Seq(Tasks)
    BY <1>3, <1>4, <1>5
  <2>3. ctxDone' \in BOOLEAN
    BY <1>1
  <2>. QED  BY <1>1, <1>3, <1>6, <2>1, <2>2, <2>3 DEF OrderInv, Shapes
<1>8. Good' = {}
  <2>1. Blank.st = "none"
    BY DEF Blank
  <2>2. \A i \in DOMAIN call'.results : call'.results[i].st = "none"
    BY <1>3, <2>1
  <2>. QED  BY <2>2 DEF Good
<1>9. Cardinality({}) = 0
  BY FS_EmptySet
<1>10. /\ \A k \in 1..Len(tasks) : tasks[k].call <= call.n
       /\ \A w \in PoolWorkers : worker[w].pc \notin {"idle", "exit"} => worker[w].call <= call.n
  BY DEF OrderInv, Submitted
<1>11. /\ \A k \in 1..Len(tasks) : tasks[k].call \in Nat
       /\ \A w \in PoolWorkers : worker[w].call \in Nat
  <2>1. \A k \in 1..Len(tasks) : tasks[k] \in QueuedTasks
    BY DEF OrderInv, Shapes
  <2>. QED  BY <2>1 DEF OrderInv, Shapes, QueuedTasks
<1>12. (\A k : ~Queued(k)') /\ \A w : ~Runs(w)'
  BY <1>1, <1>3, <1>5, <1>10, <1>11 DEF Queued, Runs
<1>13. Submitted'
  BY <1>1, <1>3, <1>4, <1>5, <1>6, <1>8, <1>10, <1>11, <1>12 DEF Submitted
<1>14. Apart'
  BY <1>6, <1>12 DEF Apart
<1>15. Counted'
  BY <1>3, <1>8, <1>9 DEF Counted
<1>. QED  BY <1>7, <1>13, <1>14, <1>15 DEF OrderInv

\* A result takes its slot out of the channel; the end of the context spoils slots,
\* and the call is over.
LEMMA CollectKeeps == OrderInv /\ Collect => OrderInv'
<1>. SUFFICES ASSUME OrderInv, Collect
              PROVE  OrderInv'
  OBVIOUS
<1>1. UNCHANGED <<worker, tasks, ctxDone>> /\ call.pc = "collect"
  BY DEF Collect, CallOnly
<1>2. /\ DOMAIN call = CallFields /\ call.next \in Nat \ {0} /\ Len(call.list) \in Nat
      /\ call.submitted \in Nat /\ call.got \in Nat /\ call.n \in Nat /\ ctxDone' \in BOOLEAN
      /\ call.next <= Len(call.list) + 1 /\ DOMAIN call.results = 1..Len(call.list)
  BY <1>1 DEF OrderInv, Shapes, Submitted
<1>3. CASE call.got = call.submitted /\ call' = [call EXCEPT !.pc = "done"] /\ resultCh' = resultCh
  <2>1. /\ DOMAIN call' = CallFields /\ call'.pc = "done" /\ call'.n = call.n /\ call'.list = call.list
        /\ call'.results = call.results /\ call'.next = call.next /\ call'.submitted = call.submitted
        /\ call'.got = call.got
    BY <1>2, <1>3 DEF CallFields
  <2>2. Shapes' /\ Submitted' /\ Apart' /\ Good' = Good
    BY <1>1, <1>2, <1>3, <2>1, CallMoves
  <2>3. Counted'
    BY <1>1, <1>3, <2>1, <2>2 DEF OrderInv, Counted
  <2>. QED  BY <2>2, <2>3 DEF OrderInv
<1>4. CASE /\ call.got < call.submitted /\ resultCh # <<>>
           /\ call' = [call EXCEPT !.got = @ + 1, !.results[Head(resultCh).idx] = Head(resultCh)]
           /\ resultCh' = Tail(resultCh)
  <2>1. PICK e : e = Head(resultCh)
    OBVIOUS
  <2>2. /\ IsSeq(resultCh') /\ Len(resultCh') = Len(resultCh) - 1 /\ Len(resultCh) \in Nat \ {0}
        /\ \A k \in 1..Len(resultCh) - 1 : resultCh'[k] = resultCh[k + 1]
        /\ e = resultCh[1]
    BY <1>4, <2>1, Tailed DEF OrderInv, Shapes
  <2>3. e.st = "ok" /\ e.call = call.n /\ e.idx \in 1..call.next - 1 /\ e.idx \notin Good
    BY <2>2 DEF OrderInv, Submitted, Apart
  <2>4. /\ DOMAIN call' = CallFields /\ call'.pc = "collect" /\ call'.n = call.n /\ call'.list = call.list
        /\ call'.results = [call.results EXCEPT ![e.idx] = e]
        /\ call'.next = call.next /\ call'.submitted = call.submitted /\ call'.got = call.got + 1
    BY <1>1, <1>2, <1>4, <2>1 DEF CallFields
  <2>5. e.idx \in DOMAIN call.results
    BY <1>2, <2>3
  <2>6. /\ DOMAIN call'.results = DOMAIN call.results /\ call'.results[e.idx] = e
        /\ \A i \in DOMAIN call.results : i # e.idx => call'.results[i] = call.results[i]
    BY <2>4, <2>5
  <2>7. Good' = Good \cup {e.idx}
    BY <2>3, <2>4, <2>5, <2>6 DEF Good
  <2>8. Cardinality(Good') = Cardinality(Good) + 1
    <3>1. IsFiniteSet(DOMAIN call.results)
      BY <1>2, FS_Interval
    <3>2. Good \subseteq DOMAIN call.results
      BY DEF Good
    <3>3. IsFiniteSet(Good)
      BY <3>1, <3>2, FS_Subset
    <3>. QED  BY <2>3, <2>7, <3>3, FS_AddElement
  <2>9. Shapes'
    BY <1>1, <1>2, <2>2, <2>4, <2>6 DEF OrderInv, Shapes
  <2>10. /\ \A k : Queued(k)' <=> Queued(k)
         /\ \A w : Runs(w)' <=> Runs(w)
         /\ \A k \in 1..Len(resultCh') : k + 1 \in 1..Len(resultCh) /\ k + 1 # 1 /\ resultCh'[k] = resultCh[k + 1]
    <3>1. \A k \in 1..Len(resultCh') : k + 1 \in 1..Len(resultCh) /\ k + 1 # 1 /\ k \in 1..Len(resultCh) - 1
      BY <2>2
    <3>. QED  BY <1>1, <2>2, <2>4, <3>1 DEF Queued, Runs
  <2>11. Submitted'
    BY <1>1, <2>3, <2>4, <2>7, <2>10 DEF OrderInv, Submitted
  <2>12. Apart'
    <3>1. 1 \in 1..Len(resultCh)
      BY <2>2
    <3>2. \A k \in 1..Len(resultCh') : resultCh'[k].idx # e.idx
      BY <2>2, <2>10, <3>1 DEF OrderInv, Apart
    <3>3. \A k, l \in 1..Len(resultCh') : resultCh'[k].idx = resultCh'[l].idx => k = l
      <4>1. \A k, l \in 1..Len(resultCh') : resultCh'[k].idx = resultCh'[l].idx => k + 1 = l + 1
        BY <2>10 DEF OrderInv, Apart
      <4>. QED  BY <4>1
    <3>4. /\ \A k : Queued(k) => tasks[k].idx # e.idx
          /\ \A w : Runs(w) => worker[w].idx # e.idx
      BY <2>2, <3>1 DEF OrderInv, Apart
    <3>. QED  BY <1>1, <2>7, <2>10, <3>2, <3>3, <3>4 DEF OrderInv, Apart
  <2>13. Counted'
    BY <1>1, <1>2, <2>4, <2>8 DEF OrderInv, Counted
  <2>. QED  BY <2>9, <2>11, <2>12, <2>13 DEF OrderInv
<1>5. CASE /\ ctxDone /\ resultCh' = resultCh
           /\ call' = [call EXCEPT !.pc = "done",
                         !.results = [i \in DOMAIN @ |-> IF i \in call.got + 1..call.submitted
                                                         THEN [Blank EXCEPT !.st = "err"] ELSE @[i]]]
  <2>1. PICK bad : bad = [Blank EXCEPT !.st = "err"]
    OBVIOUS
  <2>2. bad.st = "err"
    BY <2>1 DEF Blank
  <2>3. /\ DOMAIN call' = CallFields /\ call'.pc = "done" /\ call'.n = call.n /\ call'.list = call.list
        /\ call'.results = [i \in DOMAIN call.results |-> IF i \in call.got + 1..call.submitted
                                                          THEN bad ELSE call.results[i]]
        /\ call'.next = call.next /\ call'.submitted = call.submitted /\ call'.got = call.got
    BY <1>2, <1>5, <2>1 DEF CallFields
  <2>4. /\ DOMAIN call'.results = DOMAIN call.results
        /\ \A i \in DOMAIN call.results : call'.results[i] = call.results[i] \/ call'.results[i] = bad
    BY <2>3
  <2>5. \A i \in Good' : i \in Good
    BY <2>2, <2>3, <2>4 DEF Good
  <2>6. Shapes'
    BY <1>1, <1>2, <1>5, <2>3, <2>4 DEF OrderInv, Shapes
  <2>7. /\ \A k : Queued(k)' <=> Queued(k)
        /\ \A w : Runs(w)' <=> Runs(w)
    BY <1>1, <2>3 DEF Queued, Runs
  <2>8. Submitted'
    BY <1>1, <1>5, <2>3, <2>5, <2>7 DEF OrderInv, Submitted
  <2>9. Apart'
    BY <1>1, <1>5, <2>5, <2>7 DEF OrderInv, Apart
  <2>10. Counted'
    BY <1>1, <1>5 DEF Counted
  <2>. QED  BY <2>6, <2>8, <2>9, <2>10 DEF OrderInv
<1>. QED  BY <1>3, <1>4, <1>5 DEF Collect

\* Every step of pool and callers keeps the slots in order.
LEMMA OrderStep == OrderInv /\ [Next]_vars => OrderInv'
<1>. SUFFICES ASSUME OrderInv, [Next]_vars
              PROVE  OrderInv'
  OBVIOUS
<1>1. ASSUME UNCHANGED <<tasks, worker, call, resultCh, ctxDone>>
      PROVE  OrderInv'
  <2>1. Shapes'
    BY <1>1 DEF OrderInv, Shapes
  <2>2. Good' = Good /\ (\A k : Queued(k)' <=> Queued(k)) /\ (\A w : Runs(w)' <=> Runs(w))
    BY <1>1 DEF Queued, Runs, Good
  <2>3. Submitted' /\ Apart'
    BY <1>1, <2>2 DEF OrderInv, Submitted, Apart
  <2>4. Counted'
    BY <1>1, <2>2 DEF OrderInv, Counted
  <2>. QED  BY <2>1, <2>3, <2>4 DEF OrderInv
<1>2. ASSUME NEW w \in Writers, Write(w)
      PROVE  OrderInv'
  BY <1>1, <1>2 DEF Write, AddNode, UpdateNode, DeleteNode, Overwrites, ApplyNode, AddEdge, DeleteEdge,
                    ApplyEdge, WriteEnds, Commits, poolVars
<1>3. CASE ExecuteConcurrent \/ Submit \/ Collect \/ Reopen
  BY <1>3, ExecuteKeeps, SubmitKeeps, CollectKeeps, ReopenKeeps
<1>4. CASE CtxCancel
  <2>1. UNCHANGED <<tasks, worker, call, resultCh>> /\ ctxDone' = TRUE
    BY <1>4 DEF CtxCancel, CallOnly
  <2>2. Shapes' /\ Submitted' /\ Apart'
    BY <2>1 DEF OrderInv, Shapes, Submitted, Apart, Queued, Runs, Good
  <2>3. Counted'
    BY <2>1 DEF Counted
  <2>. QED  BY <2>2, <2>3 DEF OrderInv
<1>5. CASE Stop
  BY <1>1, <1>5 DEF Stop
<1>6. ASSUME NEW w \in PoolWorkers, WorkerStep(w)
      PROVE  OrderInv'
  <2>1. DOMAIN worker = PoolWorkers /\ DOMAIN worker[w] = WorkerFields
    BY DEF OrderInv, Shapes
  <2>2. CASE Take(w)
    BY <2>2, TakeKeeps
  <2>3. ASSUME NEW v, worker[w].pc \notin {"idle", "exit"}, Answer(w, v), UNCHANGED tasks, WorkerOnly
        PROVE  OrderInv'
    BY <2>3, AnswerKeeps DEF WorkerOnly
  <2>4. ASSUME NEW pc, NEW ver, worker[w].pc \notin {"idle", "exit"},
               \/ worker' = [worker EXCEPT ![w].pc = pc]
               \/ worker' = [worker EXCEPT ![w].pc = pc, ![w].ver = ver],
               UNCHANGED <<tasks, resultCh>>, WorkerOnly
        PROVE  OrderInv'
    <3>1. /\ DOMAIN worker' = PoolWorkers /\ DOMAIN worker'[w] = WorkerFields
          /\ \A v \in PoolWorkers : v # w => worker'[v] = worker[v]
          /\ worker'[w].call = worker[w].call /\ worker'[w].idx = worker[w].idx
      BY <2>1, <2>4 DEF WorkerFields
    <3>. QED  BY <2>4, <3>1, WorkerMoves DEF WorkerOnly
  <2>5. CASE GetCached(w)
    BY <2>3, <2>4, <2>5 DEF GetCached
  <2>6. CASE GetView(w)
    BY <2>3, <2>4, <2>6 DEF GetView
  <2>7. CASE GetPut(w)
    BY <2>3, <2>7 DEF GetPut
  <2>8. CASE HasTest(w)
    BY <2>3, <2>4, <2>8 DEF HasTest
  <2>9. CASE HasScan(w)
    BY <2>3, <2>9 DEF HasScan
  <2>. QED  BY <1>6, <2>2, <2>5, <2>6, <2>7, <2>8, <2>9 DEF WorkerStep
<1>7. CASE UNCHANGED vars
  BY <1>1, <1>7 DEF vars, poolVars
<1>. QED  BY <1>2, <1>3, <1>4, <1>5, <1>6, <1>7 DEF Next

\* As many good slots as there are slots: each is good.
LEMMA AllGood == OrderInv => ResultsInOrder
<1>. SUFFICES ASSUME OrderInv, call.pc = "done", ~ctxDone
              PROVE  \A i \in DOMAIN call.results : i \in Good
  BY DEF ResultsInOrder, Good
<1>1. DOMAIN call.results = 1..Len(call.list) /\ Len(call.list) \in Nat
  BY DEF OrderInv, Shapes
<1>2. Cardinality(Good) = Len(call.list)
  BY <1>1 DEF OrderInv, Counted, Shapes
<1>3. PICK D : D = 1..Len(call.list)
  OBVIOUS
<1>4. IsFiniteSet(D) /\ Cardinality(D) = Len(call.list)
  BY <1>1, <1>3, FS_Interval
<1>5. Good \subseteq D
  BY <1>1, <1>3 DEF Good
<1>6. Good = D
  BY <1>2, <1>4, <1>5, FS_Subset
<1>. QED  BY <1>1, <1>3, <1>6

\* The inductive invariant of the pool holds of every call of every length, with any
\* number of workers and whatever earlier calls have left behind (pool.go).
THEOREM PoolInvariance == Spec => []OrderInv
BY OrderInitially, OrderStep, PTL DEF Spec

\* ExecuteConcurrent that returns without a cancelled context has in each slot the
\* result of its own task of this call (pool.go:84).
THEOREM ResultsAreInOrder == Spec => []ResultsInOrder
BY PoolInvariance, AllGood, PTL

-----------------------------------------------------------------------------------
(***************************************************************************)
(* The node cache: sizes of lists.                                            *)
(***************************************************************************)

Entries == [id : Ids, ver : Nat \ {0}]

\* f is the sums of the first n entries of a list.
Sums(f, list, n) == f = [k \in 0..n |-> IF k = 0 THEN 0 ELSE f[k - 1] + list[k].ver]

\* There are such sums, ...
LEMMA SumsExist ==
    ASSUME NEW list, NEW n \in Nat
    PROVE  \E f : Sums(f, list, n)
<1> DEFINE Bad == {k \in Nat : ~\E f : Sums(f, list, k)}
<1>1. SUFFICES ASSUME Bad # {} PROVE FALSE
  OBVIOUS
<1>2. Bad \subseteq Nat
  OBVIOUS
<1>3. PICK b \in Bad : \A y \in Bad : b <= y
  BY <1>1, <1>2, NatLeast
<1>4. b # 0
  <2>1. Sums([k \in 0..0 |-> 0], list, 0)
    BY DEF Sums
  <2>. QED  BY <1>3, <2>1
<1>5. PICK f : Sums(f, list, b - 1)
  BY <1>3, <1>4
<1> DEFINE h == [k \in 0..b |-> IF k = b THEN f[b - 1] + list[b].ver ELSE f[k]]
<1>6. Sums(h, list, b)
  <2>1. \A k \in 0..b - 1 : h[k] = f[k]
    BY <1>3
  <2>2. ASSUME NEW k \in 0..b PROVE h[k] = IF k = 0 THEN 0 ELSE h[k - 1] + list[k].ver
    <3>1. CASE k = 0
      BY <1>4, <1>5, <2>1, <3>1 DEF Sums
    <3>2. CASE k # 0 /\ k # b
      <4>1. k \in 0..b - 1 /\ k - 1 \in 0..b - 1
        BY <1>3, <3>2
      <4>2. f[k] = f[k - 1] + list[k].ver
        BY <1>5, <3>2, <4>1 DEF Sums
      <4>. QED  BY <2>1, <3>2, <4>1, <4>2
    <3>3. CASE k = b
      BY <1>3, <1>4, <2>1, <3>3
    <3>. QED  BY <3>1, <3>2, <3>3
  <2> HIDE DEF h
  <2>3. h = [k \in 0..b |-> h[k]]
    BY DEF h
  <2>. QED  BY <2>2, <2>3 DEF Sums
<1>. QED  BY <1>3, <1>6

\* ... they are numbers, ...
LEMMA SumsNat ==
    ASSUME NEW list, NEW n \in Nat, NEW f, Sums(f, list, n), \A k \in 1..n : list[k].ver \in Nat
    PROVE  \A k \in 0..n : f[k] \in Nat
<1> DEFINE Bad == {k \in 0..n : f[k] \notin Nat}
<1>1. SUFFICES ASSUME Bad # {} PROVE FALSE
  OBVIOUS
<1>2. Bad \subseteq Nat
  OBVIOUS
<1>3. PICK b \in Bad : \A y \in Bad : b <= y
  BY <1>1, <1>2, NatLeast
<1>4. b # 0
  BY <1>3 DEF Sums
<1>5. b - 1 \in 0..n /\ b - 1 \notin Bad
  BY <1>3, <1>4
<1>6. f[b] = f[b - 1] + list[b].ver /\ b \in 1..n
  BY <1>3, <1>4 DEF Sums
<1>. QED  BY <1>3, <1>5, <1>6

\* The sums of sizes that are numbers.
Summed(f, list, n) == n \in Nat /\ Sums(f, list, n) /\ \A k \in 1..n : list[k].ver \in Nat

\* The c entries of t after the first a and of s after the first b are of the same sizes.
Alike(t, m, a, s, n, b, c) ==
    /\ {a, b, c} \subseteq Nat /\ a + c <= m /\ b + c <= n
    /\ \A d \in 1..c : t[a + d].ver = s[b + d].ver

\* Sums grow alike there.
Grow(h, a, f, b, c) == h[a + c] - h[a] = f[b + c] - f[b]

\* Over entries of the same sizes.
LEMMA SumsAlike ==
    ASSUME NEW f, NEW s, NEW n, Summed(f, s, n), NEW h, NEW t, NEW m, Summed(h, t, m),
           NEW a, NEW b, NEW c, Alike(t, m, a, s, n, b, c)
    PROVE  Grow(h, a, f, b, c)
<1> USE DEF Summed, Alike, Grow
<1>0. (\A k \in 0..n : f[k] \in Nat) /\ \A k \in 0..m : h[k] \in Nat
  BY SumsNat
<1>a. c \in 0..c /\ a \in Nat /\ b \in Nat /\ c \in Nat
  OBVIOUS
<1> DEFINE Bad == {d \in 0..c : h[a + d] - h[a] # f[b + d] - f[b]}
<1>1. SUFFICES ASSUME Bad # {} PROVE FALSE
  BY <1>a
<1>2. Bad \subseteq Nat
  OBVIOUS
<1>3. PICK e \in Bad : \A y \in Bad : e <= y
  BY <1>1, <1>2, NatLeast
<1>4. e \in Nat /\ e <= c
  BY <1>a, <1>3
<1>5. e # 0
  <2>1. h[a] - h[a] = f[b] - f[b] /\ a + 0 = a /\ b + 0 = b
    <3>1. a \in 0..m /\ b \in 0..n
      OBVIOUS
    <3>2. h[a] \in Nat /\ f[b] \in Nat
      BY <1>0, <3>1
    <3>. QED  BY <3>2
  <2>. QED  BY <1>3, <2>1
<1>6. e - 1 \in 0..c /\ e - 1 \notin Bad
  BY <1>3, <1>4, <1>5
<1>7. PICK i \in Nat, j \in Nat : i = a + e /\ j = b + e
  BY <1>a, <1>4
<1>8. /\ i \in 1..m /\ j \in 1..n /\ i - 1 = a + (e - 1) /\ j - 1 = b + (e - 1)
      /\ i \in 0..m /\ j \in 0..n /\ i - 1 \in 0..m /\ j - 1 \in 0..n /\ a \in 0..m /\ b \in 0..n
  BY <1>4, <1>5, <1>7
<1>9. h[i] = h[i - 1] + t[i].ver /\ f[j] = f[j - 1] + s[j].ver
  BY <1>8 DEF Sums
<1>10. t[i].ver = s[j].ver /\ s[j].ver \in Nat
  BY <1>4, <1>5, <1>7, <1>8
<1>11. h[i - 1] - h[a] = f[j - 1] - f[b]
  BY <1>6, <1>8
<1>12. h[i - 1] \in Nat /\ h[a] \in Nat /\ f[j - 1] \in Nat /\ f[b] \in Nat
  BY <1>0, <1>8
<1>13. h[i] - h[a] = f[j] - f[b]
  BY <1>9, <1>10, <1>11, <1>12
<1>. QED  BY <1>3, <1>7, <1>13

\* A list of entries and its sums.
LEMMA SizeSums ==
    ASSUME NEW s \in Seq(Entries)
    PROVE  Size(s) \in Nat /\ \E f : Summed(f, s, Len(s)) /\ Size(s) = f[Len(s)]
<1> DEFINE f == CHOOSE f : Sums(f, s, Len(s))
<1>1. Len(s) \in Nat
  OBVIOUS
<1>2. \A k \in 1..Len(s) : s[k].ver \in Nat
  <2>1. \A k \in 1..Len(s) : s[k] \in Entries
    OBVIOUS
  <2>. QED  BY <2>1 DEF Entries
<1>3. Sums(f, s, Len(s))
  BY <1>1, SumsExist
<1>4. Size(s) = f[Len(s)]
  BY DEF Size, Sums
<1>5. f[Len(s)] \in Nat
  BY <1>1, <1>2, <1>3, SumsNat
<1> HIDE DEF f
<1>. QED  BY <1>1, <1>2, <1>3, <1>4, <1>5 DEF Summed

\* An entry more at the front.
LEMMA SizeFront ==
    ASSUME NEW s \in Seq(Entries), NEW e \in Entries
    PROVE  Size(<<e>> \o s) = e.ver + Size(s)
<1>1. PICK t : t = <<e>> \o s
  OBVIOUS
<1>2. PICK n \in Nat : n = Len(s)
  OBVIOUS
<1>3. t \in Seq(Entries) /\ Len(t) = n + 1 /\ t[1] = e /\ \A d \in 1..n : t[1 + d] = s[d]
  BY <1>1, <1>2
<1>4. PICK f : Summed(f, s, n) /\ Size(s) = f[n] /\ f[n] \in Nat
  BY <1>2, SizeSums
<1>5. PICK h : Summed(h, t, n + 1) /\ Size(t) = h[n + 1] /\ h[n + 1] \in Nat
  BY <1>3, SizeSums
<1>6. Alike(t, n + 1, 1, s, n, 0, n)
  BY <1>3 DEF Alike
<1>7. Grow(h, 1, f, 0, n)
  BY <1>4, <1>5, <1>6, SumsAlike
<1>8. h[0] = 0 /\ h[1] = h[0] + t[1].ver /\ f[0] = 0
  <2>1. 0 \in 0..n + 1 /\ 1 \in 0..n + 1 /\ 0 \in 0..n /\ 1 - 1 = 0
    OBVIOUS
  <2>. QED  BY <1>4, <1>5, <2>1 DEF Summed, Sums
<1>9. e.ver \in Nat
  BY DEF Entries
<1>10. h[n + 1] = e.ver + f[n]
  BY <1>3, <1>4, <1>5, <1>7, <1>8, <1>9 DEF Grow
<1>. QED  BY <1>1, <1>4, <1>5, <1>10

\* A list in two parts.
LEMMA SizeParts ==
    ASSUME NEW s \in Seq(Entries), NEW k \in 0..Len(s)
    PROVE  /\ SubSeq(s, 1, k) \in Seq(Entries) /\ SubSeq(s, k + 1, Len(s)) \in Seq(Entries)
           /\ Size(s) = Size(SubSeq(s, 1, k)) + Size(SubSeq(s, k + 1, Len(s)))
<1>1. PICK n \in Nat : n = Len(s)
  OBVIOUS
<1>2. PICK t, u : t = SubSeq(s, 1, k) /\ u = SubSeq(s, k + 1, n)
  OBVIOUS
<1>3. k \in Nat /\ k <= n
  BY <1>1
<1>4. PICK m \in Nat : m = n - k
  BY <1>3
<1>5. t \in Seq(Entries) /\ Len(t) = k /\ \A d \in 1..k : t[d] = s[d]
  BY <1>1, <1>2, <1>3
<1>6. u \in Seq(Entries) /\ Len(u) = m /\ \A d \in 1..m : u[d] = s[k + d]
  BY <1>1, <1>2, <1>3, <1>4
<1>7. PICK f : Summed(f, s, n) /\ Size(s) = f[n] /\ f[n] \in Nat
  BY <1>1, SizeSums
<1>8. PICK h : Summed(h, t, k) /\ Size(t) = h[k] /\ h[k] \in Nat
  BY <1>5, SizeSums
<1>9. PICK l : Summed(l, u, m) /\ Size(u) = l[m] /\ l[m] \in Nat
  BY <1>6, SizeSums
<1>10. Alike(t, k, 0, s, n, 0, k)
  BY <1>3, <1>5 DEF Alike
<1>11. Alike(u, m, 0, s, n, k, m)
  BY <1>3, <1>4, <1>6 DEF Alike
<1>12. Grow(h, 0, f, 0, k) /\ Grow(l, 0, f, k, m)
  BY <1>7, <1>8, <1>9, <1>10, <1>11, SumsAlike
<1>13. h[0] = 0 /\ l[0] = 0 /\ f[0] = 0
  <2>1. 0 \in 0..k /\ 0 \in 0..m /\ 0 \in 0..n
    BY <1>3
  <2>. QED  BY <1>7, <1>8, <1>9, <2>1 DEF Summed, Sums
<1>14. f[k] \in Nat
  <2>1. k \in 0..n
    BY <1>3
  <2>. QED  BY <1>7, <2>1, SumsNat DEF Summed
<1>15. 0 + k = k /\ 0 + m = m /\ k + m = n
  BY <1>3, <1>4
<1>16. h[k] = f[k] /\ l[m] = f[n] - f[k]
  BY <1>7, <1>8, <1>9, <1>12, <1>13, <1>14, <1>15 DEF Grow
<1>17. f[n] = h[k] + l[m]
  BY <1>7, <1>14, <1>16
<1>. QED  BY <1>1, <1>2, <1>5, <1>6, <1>7, <1>8, <1>9, <1>17

\* A list without one entry.
LEMMA SizeRemoved ==
    ASSUME NEW s \in Seq(Entries), NEW i \in 1..Len(s)
    PROVE  /\ RemoveAt(s, i) \in Seq(Entries) /\ Len(RemoveAt(s, i)) = Len(s) - 1
           /\ \A d \in 1..Len(s) - 1 : RemoveAt(s, i)[d] = IF d < i THEN s[d] ELSE s[d + 1]
           /\ Size(RemoveAt(s, i)) = Size(s) - s[i].ver
<1>1. PICK n \in Nat : n = Len(s)
  OBVIOUS
<1>2. i \in Nat \ {0} /\ i <= n
  BY <1>1
<1>3. PICK t, u : t = SubSeq(s, 1, i - 1) /\ u = SubSeq(s, i + 1, n)
  OBVIOUS
<1>4. t \in Seq(Entries) /\ Len(t) = i - 1 /\ \A d \in 1..i - 1 : t[d] = s[d]
  BY <1>1, <1>2, <1>3
<1>5. u \in Seq(Entries) /\ Len(u) = n - i /\ \A d \in 1..n - i : u[d] = s[i + d]
  BY <1>1, <1>2, <1>3
<1>6. PICK r : r = t \o u
  OBVIOUS
<1>7. RemoveAt(s, i) = r
  BY <1>1, <1>3, <1>6 DEF RemoveAt
<1>8. r \in Seq(Entries) /\ Len(r) = n - 1
  <2>0. t \in Seq(Entries) /\ u \in Seq(Entries)
    BY <1>4, <1>5
  <2>1. r \in Seq(Entries) /\ Len(r) = Len(t) + Len(u)
    BY <1>6, <2>0
  <2>. QED  BY <1>2, <1>4, <1>5, <2>1
<1>9. \A d \in 1..n - 1 : r[d] = IF d < i THEN s[d] ELSE s[d + 1]
  <2>1. TAKE d \in 1..n - 1
  <2>2. CASE d < i
    <3>1. d \in 1..i - 1
      BY <1>2, <2>2
    <3>2. r[d] = t[d]
      BY <1>2, <1>4, <1>5, <1>6, <2>2
    <3>. QED  BY <1>4, <2>2, <3>1, <3>2
  <2>3. CASE ~(d < i)
    <3>1. PICK j \in 1..n - i : j = d - (i - 1)
      BY <1>2, <2>3
    <3>2. r[d] = u[j] /\ i + j = d + 1
      BY <1>2, <1>4, <1>5, <1>6, <2>3, <3>1
    <3>. QED  BY <1>5, <2>3, <3>2
  <2>. QED  BY <2>2, <2>3
<1>10. PICK f : Summed(f, s, n) /\ Size(s) = f[n] /\ f[n] \in Nat
  BY <1>1, SizeSums
<1>11. PICK h : Summed(h, r, n - 1) /\ Size(r) = h[n - 1] /\ h[n - 1] \in Nat
  BY <1>8, SizeSums
<1>12. Alike(r, n - 1, 0, s, n, 0, i - 1)
  BY <1>2, <1>9 DEF Alike
<1>13. Alike(r, n - 1, i - 1, s, n, i, n - i)
  <2>1. ASSUME NEW d \in 1..n - i
        PROVE  r[i - 1 + d] = s[i + d]
    <3>1. PICK j \in 1..n - 1 : j = i - 1 + d
      BY <1>2
    <3>2. ~(j < i) /\ j + 1 = i + d
      BY <1>2, <3>1
    <3>. QED  BY <1>9, <3>1, <3>2
  <2>. QED  BY <1>2, <2>1 DEF Alike
<1>14. Grow(h, 0, f, 0, i - 1) /\ Grow(h, i - 1, f, i, n - i)
  BY <1>10, <1>11, <1>12, <1>13, SumsAlike
<1>15. h[0] = 0 /\ f[0] = 0 /\ f[i] = f[i - 1] + s[i].ver /\ s[i].ver \in Nat
  <2>1. 0 \in 0..n - 1 /\ 0 \in 0..n /\ i \in 0..n /\ i \in 1..n /\ i # 0
    BY <1>2
  <2>. QED  BY <1>10, <1>11, <2>1 DEF Summed, Sums
<1>16. f[i - 1] \in Nat /\ h[i - 1] \in Nat
  <2>1. i - 1 \in 0..n /\ i - 1 \in 0..n - 1
    BY <1>2
  <2>. QED  BY <1>10, <1>11, <2>1, SumsNat DEF Summed
<1>17. 0 + (i - 1) = i - 1 /\ (i - 1) + (n - i) = n - 1 /\ i + (n - i) = n
  BY <1>2
<1>18. h[i - 1] = f[i - 1] /\ h[n - 1] - h[i - 1] = f[n] - f[i]
  BY <1>14, <1>15, <1>16, <1>17 DEF Grow
<1>19. h[n - 1] = f[n] - s[i].ver
  <2>1. PICK x \in Nat, y \in Nat, z \in Nat, v \in Nat :
          x = f[n] /\ y = h[n - 1] /\ z = f[i - 1] /\ v = s[i].ver
    BY <1>10, <1>11, <1>15, <1>16
  <2>2. y - z = x - (z + v)
    BY <1>15, <1>18, <2>1
  <2>3. y = x - v
    BY <2>2
  <2>. QED  BY <2>1, <2>3
<1>. QED  BY <1>1, <1>7, <1>8, <1>9, <1>10, <1>11, <1>19

-----------------------------------------------------------------------------------
(***************************************************************************)
(* The node cache: what its operations do.                                    *)
(***************************************************************************)

\* A node is in a list once; the entries of a list.
Unique(list)  == \A i, j \in 1..Len(list) : list[i].id = list[j].id => i = j
IsCache(list) == list \in Seq(Entries) /\ Unique(list)
Held(list)    == {list[i] : i \in 1..Len(list)}

\* Its entry is found.
LEMMA Found ==
    ASSUME NEW list, NEW id, Holds(list, id)
    PROVE  PosOf(list, id) \in 1..Len(list) /\ list[PosOf(list, id)].id = id
BY DEF Holds, PosOf

\* Removal takes out the one entry of the node, with its bytes.
LEMMA WithoutFacts ==
    ASSUME NEW list, IsCache(list), NEW id
    PROVE  /\ IsCache(Without(list, id)) /\ ~Holds(Without(list, id), id)
           /\ Held(Without(list, id)) \subseteq {e \in Held(list) : e.id # id}
           /\ Holds(list, id) => Size(Without(list, id)) = Size(list) - list[PosOf(list, id)].ver
           /\ ~Holds(list, id) => Without(list, id) = list
<1>1. CASE ~Holds(list, id)
  <2>1. Without(list, id) = list
    BY <1>1 DEF Without
  <2>2. Held(list) \subseteq {e \in Held(list) : e.id # id}
    BY <1>1 DEF Held, Holds
  <2>. QED  BY <1>1, <2>1, <2>2
<1>2. CASE Holds(list, id)
  <2>1. PICK i \in 1..Len(list) : i = PosOf(list, id) /\ list[i].id = id
    BY <1>2, Found
  <2>2. PICK r : r = RemoveAt(list, i) /\ r = Without(list, id)
    BY <1>2, <2>1 DEF Without
  <2>3. PICK n \in Nat : n = Len(list)
    BY DEF IsCache
  <2>4. /\ r \in Seq(Entries) /\ Len(r) = n - 1
        /\ \A d \in 1..n - 1 : r[d] = IF d < i THEN list[d] ELSE list[d + 1]
        /\ Size(r) = Size(list) - list[i].ver
    BY <2>1, <2>2, <2>3, SizeRemoved DEF IsCache
  <2>5. ASSUME NEW d \in 1..n - 1
        PROVE  \E k \in 1..n : k # i /\ r[d] = list[k] /\ k = IF d < i THEN d ELSE d + 1
    <3>1. CASE d < i
      BY <2>3, <2>4, <3>1
    <3>2. CASE ~(d < i)
      <4>1. d + 1 \in 1..n /\ d + 1 # i
        BY <2>1, <2>3, <3>2
      <4>. QED  BY <2>4, <3>2, <4>1
    <3>. QED  BY <3>1, <3>2
  <2>6. ASSUME NEW d \in 1..n - 1, NEW c \in 1..n - 1, r[d].id = r[c].id
        PROVE  d = c
    <3>1. PICK k \in 1..n : r[d] = list[k] /\ k = IF d < i THEN d ELSE d + 1
      BY <2>5
    <3>2. PICK l \in 1..n : r[c] = list[l] /\ l = IF c < i THEN c ELSE c + 1
      BY <2>5
    <3>3. k = l
      BY <2>3, <2>6, <3>1, <3>2 DEF IsCache, Unique
    <3>. QED  BY <2>1, <2>3, <3>1, <3>2, <3>3
  <2>7. \A d \in 1..n - 1 : r[d] \in Held(list) /\ r[d].id # id
    <3>1. \A k \in 1..n : list[k] \in Held(list) /\ (k # i => list[k].id # id)
      BY <2>1, <2>3 DEF IsCache, Unique, Held
    <3>. QED  BY <2>5, <3>1
  <2>8. Unique(r)
    BY <2>4, <2>6 DEF Unique
  <2>9. ~Holds(r, id) /\ Held(r) \subseteq {e \in Held(list) : e.id # id}
    BY <2>4, <2>7 DEF Holds, Held
  <2>. QED  BY <1>2, <2>1, <2>2, <2>4, <2>8, <2>9 DEF IsCache
<1>. QED  BY <1>1, <1>2

\* An entry of a node that is not in the list comes to its front.
LEMMA FrontFacts ==
    ASSUME NEW list, IsCache(list), NEW e \in Entries, ~Holds(list, e.id)
    PROVE  /\ IsCache(<<e>> \o list) /\ Held(<<e>> \o list) \subseteq {e} \cup Held(list)
           /\ Size(<<e>> \o list) = e.ver + Size(list)
<1>1. PICK n \in Nat : n = Len(list)
  BY DEF IsCache
<1>2. PICK t : t = <<e>> \o list
  OBVIOUS
<1>3. t \in Seq(Entries) /\ Len(t) = n + 1 /\ t[1] = e /\ \A d \in 1..n : t[1 + d] = list[d]
  BY <1>1, <1>2 DEF IsCache
<1>4. \A k \in 1..n + 1 : k = 1 \/ (k - 1 \in 1..n /\ t[k] = list[k - 1])
  <2>1. TAKE k \in 1..n + 1
  <2>2. CASE k # 1
    <3>1. PICK d \in 1..n : d = k - 1 /\ k = 1 + d
      BY <2>2
    <3>. QED  BY <1>3, <3>1
  <2>. QED  BY <2>2
<1>5. \A d \in 1..n : list[d].id # e.id
  BY <1>1 DEF Holds
<1>6. Unique(t)
  <2>1. ASSUME NEW k \in 1..n + 1, NEW l \in 1..n + 1, t[k].id = t[l].id
        PROVE  k = l
    <3>1. CASE k # 1 /\ l # 1
      <4>1. k - 1 \in 1..n /\ l - 1 \in 1..n /\ list[k - 1].id = list[l - 1].id
        BY <1>4, <2>1, <3>1
      <4>2. k - 1 = l - 1
        BY <1>1, <4>1 DEF IsCache, Unique
      <4>. QED  BY <4>2
    <3>. QED  BY <1>3, <1>4, <1>5, <2>1, <3>1
  <2>. QED  BY <1>3, <2>1 DEF Unique
<1>7. Held(t) \subseteq {e} \cup Held(list)
  <2>1. \A k \in 1..n + 1 : t[k] = e \/ t[k] \in Held(list)
    BY <1>1, <1>3, <1>4 DEF Held
  <2>. QED  BY <1>3, <2>1 DEF Held
<1>8. Size(t) = e.ver + Size(list)
  BY <1>2, SizeFront DEF IsCache
<1>. QED  BY <1>2, <1>3, <1>6, <1>7, <1>8 DEF IsCache

\* Eviction leaves entries of the list and counts them: it ends within the budget,
\* since a list of which nothing is left has no bytes.
LEMMA EvictFacts ==
    ASSUME NEW list, IsCache(list), evictUntilBudget(list, Size(list))
    PROVE  /\ IsCache(lru') /\ Held(lru') \subseteq Held(list)
           /\ totalBytes' = Size(lru') /\ totalBytes' <= Budget
<1>1. PICK n \in Nat : n = Len(list)
  BY DEF IsCache
<1>2. PICK b : b = Size(list)
  OBVIOUS
<1> DEFINE K == {k \in 0..n : k = 0 \/ Left(list, b, k) <= Budget}
<1>3. Max(K) \in K
  <2>1. K \subseteq Nat /\ K \subseteq 0..n /\ K # {}
    OBVIOUS
  <2>2. IsFiniteSet(0..n)
    BY FS_Interval
  <2>3. IsFiniteSet(K)
    BY <2>1, <2>2, FS_Subset
  <2> HIDE DEF K
  <2>4. PICK m \in K : \A k \in K : k <= m
    BY <2>1, <2>3, FiniteMax DEF HasMax
  <2>5. m \in K /\ \A k \in K : m >= k
    BY <2>1, <2>4
  <2>. QED  BY <2>5 DEF Max
<1>4. PICK k \in K : k = Max(K)
  BY <1>3
<1>5. lru' = SubSeq(list, 1, k) /\ totalBytes' = Left(list, b, k)
  BY <1>1, <1>2, <1>4 DEF evictUntilBudget
<1>6. k \in 0..n /\ (k = 0 \/ Left(list, b, k) <= Budget)
  BY <1>4
<1> HIDE DEF K
<1>7. PICK t, u : t = SubSeq(list, 1, k) /\ u = SubSeq(list, k + 1, Len(list))
  OBVIOUS
<1>8. t \in Seq(Entries) /\ u \in Seq(Entries) /\ b = Size(t) + Size(u)
  BY <1>1, <1>2, <1>6, <1>7, SizeParts DEF IsCache
<1>9. Size(t) \in Nat /\ Size(u) \in Nat
  BY <1>8, SizeSums
<1>10. totalBytes' = Size(t)
  BY <1>5, <1>7, <1>8, <1>9 DEF Left
<1>11. Len(t) = k /\ \A d \in 1..k : t[d] = list[d] /\ d \in 1..n
  BY <1>1, <1>6, <1>7 DEF IsCache
<1>12. totalBytes' <= Budget
  <2>1. CASE k = 0
    <3>1. PICK f : Summed(f, t, Len(t)) /\ Size(t) = f[Len(t)]
      BY <1>8, SizeSums
    <3>2. Summed(f, t, 0) /\ Size(t) = f[0]
      BY <1>11, <2>1, <3>1
    <3>3. Size(t) = 0
      BY <3>2 DEF Summed, Sums
    <3>. QED  BY <1>10, <3>3, ReadsAssumption
  <2>2. CASE k # 0
    BY <1>5, <1>6, <2>2
  <2>. QED  BY <2>1, <2>2
<1>13. Unique(t) /\ Held(t) \subseteq Held(list)
  BY <1>1, <1>11 DEF IsCache, Unique, Held
<1>. QED  BY <1>5, <1>7, <1>8, <1>10, <1>12, <1>13 DEF IsCache

\* What the bytes are.
Exact == IsCache(lru) /\ totalBytes = Size(lru) /\ totalBytes <= Budget

\* Put counts the difference, and all that may be new is the entry put.
LEMMA PutFacts ==
    ASSUME Exact, NEW id \in Ids, NEW v \in Nat \ {0}, Put(id, v)
    PROVE  Exact' /\ Held(lru') \subseteq {[id |-> id, ver |-> v]} \cup Held(lru)
<1>1. PICK e : e = [id |-> id, ver |-> v]
  OBVIOUS
<1>2. e \in Entries /\ e.id = id /\ e.ver = v
  BY <1>1 DEF Entries
<1>3. PICK s : s = Without(lru, id)
  OBVIOUS
<1>4. /\ IsCache(s) /\ ~Holds(s, id) /\ Held(s) \subseteq {x \in Held(lru) : x.id # id}
      /\ Holds(lru, id) => Size(s) = Size(lru) - lru[PosOf(lru, id)].ver
      /\ ~Holds(lru, id) => s = lru
  BY <1>3, WithoutFacts DEF Exact
<1>5. PICK t : t = <<e>> \o s
  OBVIOUS
<1>6. IsCache(t) /\ Held(t) \subseteq {e} \cup Held(s) /\ Size(t) = v + Size(s)
  BY <1>2, <1>4, <1>5, FrontFacts
<1>7. Size(lru) \in Nat /\ Size(s) \in Nat
  BY <1>4, SizeSums DEF Exact, IsCache
<1>8. totalBytes + v - (IF Cached(id) THEN CachedVer(id) ELSE 0) = Size(t)
  <2>1. CASE Cached(id)
    <3>1. PICK i \in 1..Len(lru) : i = PosOf(lru, id)
      BY <2>1, Found DEF Cached
    <3>2. lru[i].ver \in Nat
      <4>1. lru[i] \in Entries
        BY DEF Exact, IsCache
      <4>. QED  BY <4>1 DEF Entries
    <3>3. Size(s) = totalBytes - lru[i].ver /\ CachedVer(id) = lru[i].ver
      BY <1>4, <2>1, <3>1 DEF Cached, CachedVer, Exact
    <3>. QED  BY <1>6, <1>7, <2>1, <3>2, <3>3 DEF Exact
  <2>2. CASE ~Cached(id)
    <3>1. s = lru
      BY <1>4, <2>2 DEF Cached
    <3>. QED  BY <1>6, <1>7, <2>2, <3>1 DEF Exact
  <2>. QED  BY <2>1, <2>2
<1>9. evictUntilBudget(t, Size(t))
  BY <1>1, <1>3, <1>5, <1>8 DEF Put
<1>10. /\ IsCache(lru') /\ Held(lru') \subseteq Held(t)
       /\ totalBytes' = Size(lru') /\ totalBytes' <= Budget
  BY <1>6, <1>9, EvictFacts
<1>. QED  BY <1>1, <1>4, <1>6, <1>10 DEF Exact

\* Invalidate leaves no entry of the node.
LEMMA InvalidateFacts ==
    ASSUME Exact, NEW id, Invalidate(id)
    PROVE  Exact' /\ Held(lru') \subseteq {e \in Held(lru) : e.id # id}
<1>1. PICK s : s = Without(lru, id)
  OBVIOUS
<1>2. /\ IsCache(s) /\ Held(s) \subseteq {x \in Held(lru) : x.id # id}
      /\ Holds(lru, id) => Size(s) = Size(lru) - lru[PosOf(lru, id)].ver
      /\ ~Holds(lru, id) => s = lru
  BY <1>1, WithoutFacts DEF Exact
<1>3. lru' = s /\ totalBytes' = IF Cached(id) THEN totalBytes - CachedVer(id) ELSE totalBytes
  BY <1>1 DEF Invalidate
<1>4. Size(lru) \in Nat /\ Budget \in Nat
  BY SizeSums, ReadsAssumption DEF Exact, IsCache
<1>5. CASE Cached(id)
  <2>1. PICK i \in 1..Len(lru) : i = PosOf(lru, id)
    BY <1>5, Found DEF Cached
  <2>2. lru[i].ver \in Nat
    <3>1. lru[i] \in Entries
      BY DEF Exact, IsCache
    <3>. QED  BY <3>1 DEF Entries
  <2>3. Size(s) = Size(lru) - lru[i].ver /\ CachedVer(id) = lru[i].ver
    BY <1>2, <1>5, <2>1 DEF Cached, CachedVer
  <2>4. totalBytes' = Size(s) /\ totalBytes' <= Budget
    BY <1>3, <1>4, <1>5, <2>2, <2>3 DEF Exact
  <2>. QED  BY <1>2, <1>3, <2>4 DEF Exact
<1>6. CASE ~Cached(id)
  BY <1>2, <1>3, <1>6 DEF Cached, Exact
<1>. QED  BY <1>5, <1>6

\* A hit reorders the list.
LEMMA MoveToFrontFacts ==
    ASSUME Exact, NEW id, Cached(id), lru' = moveToFront(id), totalBytes' = totalBytes
    PROVE  Exact' /\ Held(lru') \subseteq Held(lru)
<1>1. PICK i \in 1..Len(lru) : i = PosOf(lru, id) /\ lru[i].id = id
  BY Found DEF Cached
<1>2. PICK e : e = lru[i]
  OBVIOUS
<1>3. e \in Entries /\ e \in Held(lru) /\ e.id = id /\ e.ver = CachedVer(id)
  BY <1>1, <1>2 DEF Exact, IsCache, Held, CachedVer
<1>4. e = [id |-> id, ver |-> CachedVer(id)]
  BY <1>3 DEF Entries
<1>5. PICK s : s = Without(lru, id)
  OBVIOUS
<1>6. /\ IsCache(s) /\ ~Holds(s, id) /\ Held(s) \subseteq {x \in Held(lru) : x.id # id}
      /\ Size(s) = Size(lru) - e.ver
  BY <1>1, <1>2, <1>5, WithoutFacts DEF Exact, Cached
<1>7. lru' = <<e>> \o s
  BY <1>4, <1>5 DEF moveToFront
<1>8. IsCache(lru') /\ Held(lru') \subseteq {e} \cup Held(s) /\ Size(lru') = e.ver + Size(s)
  BY <1>3, <1>6, <1>7, FrontFacts
<1>9. Size(lru) \in Nat /\ e.ver \in Nat
  BY <1>3, SizeSums DEF Exact, IsCache, Entries
<1>10. Size(lru') = Size(lru)
  BY <1>6, <1>8, <1>9
<1>. QED  BY <1>3, <1>6, <1>8, <1>10 DEF Exact

-----------------------------------------------------------------------------------
(***************************************************************************)
(* The node cache: what it holds.                                             *)
(***************************************************************************)

\* A copy of a node is what the bucket holds, or the node was committed while such a
\* copy was on its way.
Fresh(id, v) == v = nodes[id] \/ id \in exposed

\* The node's invalidation is about to come.
Dropping(id) == \E w \in Writers : writer[w] = [pc |-> "invalidate", arg |-> id]

CacheTypes ==
    /\ nodes \in [Ids -> Nat] /\ DOMAIN writer = Writers
    /\ \A w \in Writers : writer[w].pc \in {"put", "invalidate"} => writer[w].arg \in Ids
    /\ \A w \in PoolWorkers : worker[w].pc \in {"get", "view", "put"} => worker[w].task.arg \in Ids

\* The entries, ...
EntriesFresh == \A e \in Held(lru) : Fresh(e.id, e.ver) \/ Dropping(e.id)

\* ... the copies readers are about to put, ...
CopiesFresh ==
    \A w \in PoolWorkers :
        worker[w].pc = "put" => worker[w].ver \in Nat \ {0} /\ Fresh(worker[w].task.arg, worker[w].ver)

\* ... and those of the writers of new nodes.
AddsFresh == \A w \in Writers : writer[w].pc = "put" => Fresh(writer[w].arg, 1)

CacheInv == CacheTypes /\ Exact /\ EntriesFresh /\ CopiesFresh /\ AddsFresh

\* An opened cache is empty.
LEMMA EmptyIsExact ==
    ASSUME NEW list, list = <<>>
    PROVE  IsCache(list) /\ Size(list) = 0 /\ Held(list) = {} /\ Budget \in Nat
<1>1. Len(list) = 0 /\ list \in Seq(Entries)
  BY EmptyIsSeq
<1>2. IsCache(list) /\ Held(list) = {}
  BY <1>1 DEF IsCache, Unique, Held
<1>3. PICK f : Summed(f, list, Len(list)) /\ Size(list) = f[Len(list)]
  BY <1>1, SizeSums
<1>4. f[0] = 0
  BY <1>1, <1>3 DEF Summed, Sums
<1>. QED  BY <1>1, <1>2, <1>3, <1>4, ReadsAssumption

\* So is what is on its way into it.
LEMMA OpenedIsSound ==
    ASSUME nodes \in [Ids -> Nat], lru = <<>>, totalBytes = 0,
           writer = [w \in Writers |-> NoWrite], worker = [w \in PoolWorkers |-> Idle]
    PROVE  CacheInv
<1>1. Exact /\ EntriesFresh
  <2>1. IsCache(lru) /\ Size(lru) = 0 /\ Held(lru) = {} /\ Budget \in Nat
    BY EmptyIsExact
  <2>. QED  BY <2>1 DEF Exact, EntriesFresh
<1>2. /\ \A w \in Writers : writer[w].pc = "idle"
      /\ \A w \in PoolWorkers : worker[w].pc = "idle"
  BY DEF NoWrite, Idle
<1>3. CacheTypes /\ CopiesFresh /\ AddsFresh
  BY <1>2 DEF CacheTypes, CopiesFresh, AddsFresh
<1>. QED  BY <1>1, <1>3 DEF CacheInv

\* The process begins opened.
LEMMA CacheInitially == Init => CacheInv
<1>. SUFFICES ASSUME Init PROVE CacheInv
  OBVIOUS
<1>1. nodes \in [Ids -> Nat]
  BY DEF Init
<1>. QED  BY <1>1, OpenedIsSound DEF Init

\* It is opened again.
LEMMA ReopenIsSound == CacheInv /\ Reopen => CacheInv'
<1>. SUFFICES ASSUME CacheInv, Reopen PROVE CacheInv'
  OBVIOUS
<1>1. /\ nodes' \in [Ids -> Nat] /\ lru' = <<>> /\ totalBytes' = 0
      /\ writer' = [w \in Writers |-> NoWrite] /\ worker' = [w \in PoolWorkers |-> Idle]
  BY DEF Reopen, storeVars, CacheInv, CacheTypes
<1>2. Exact' /\ EntriesFresh'
  <2>1. IsCache(lru') /\ Size(lru') = 0 /\ Held(lru') = {} /\ Budget \in Nat
    BY <1>1, EmptyIsExact
  <2>. QED  BY <1>1, <2>1 DEF Exact, EntriesFresh
<1>3. /\ \A w \in Writers : writer'[w].pc = "idle"
      /\ \A w \in PoolWorkers : worker'[w].pc = "idle"
  BY <1>1 DEF NoWrite, Idle
<1>4. CacheTypes' /\ CopiesFresh' /\ AddsFresh'
  BY <1>1, <1>3 DEF CacheTypes, CopiesFresh, AddsFresh
<1>. QED  BY <1>2, <1>4 DEF CacheInv

\* A commit of a version of id, or of none, that leaves the cache to what follows it:
\* it needs that an entry of id is to be dropped or no news, that a copy on its way
\* exposes id, and that only a new node is put.
LEMMA NodeCommits ==
    ASSUME CacheInv, NEW w \in Writers, NEW id \in Ids, NEW rest \in {"idle", "put", "invalidate"},
           Commits(w, rest, id),
           NEW n \in Nat, nodes' = [nodes EXCEPT ![id] = n], exposed \subseteq exposed',
           nodes[id] = 0 \/ id \in exposed' \/ rest = "invalidate",
           nodes[id] = 0 \/ id \in exposed' \/ ~Overlaps(id),
           rest = "put" => n = 1
    PROVE  CacheInv'
<1>1. /\ nodes \in [Ids -> Nat] /\ DOMAIN writer = Writers
      /\ UNCHANGED <<lru, totalBytes, worker>>
      /\ writer[w].pc = "idle"
  BY DEF CacheInv, CacheTypes, Commits, cacheVars, poolVars
<1>2. /\ nodes' \in [Ids -> Nat] /\ nodes'[id] = n
      /\ \A x \in Ids : x # id => nodes'[x] = nodes[x]
  BY <1>1
<1>3. PICK r : r = IF rest = "idle" THEN NoWrite ELSE [pc |-> rest, arg |-> id]
  OBVIOUS
<1>4. /\ DOMAIN writer' = Writers /\ writer'[w] = r
      /\ \A u \in Writers : u # w => writer'[u] = writer[u]
  BY <1>1, <1>3 DEF Commits
<1>5. /\ r.pc = rest /\ (rest # "idle" => r.arg = id)
      /\ rest = "invalidate" => r = [pc |-> "invalidate", arg |-> id]
  BY <1>3 DEF NoWrite
<1>6. \A x : Dropping(x) => Dropping(x)'
  <2>1. ASSUME NEW x, NEW u \in Writers, writer[u] = [pc |-> "invalidate", arg |-> x]
        PROVE  writer'[u] = [pc |-> "invalidate", arg |-> x]
    <3>1. writer[u].pc = "invalidate"
      BY <2>1
    <3>. QED  BY <1>1, <1>4, <2>1, <3>1
  <2>. QED  BY <2>1 DEF Dropping
<1>7. rest = "invalidate" => Dropping(id)'
  BY <1>4, <1>5 DEF Dropping
<1>8. ASSUME NEW x \in Ids, NEW v \in Nat \ {0}, Fresh(x, v), x # id \/ nodes[id] = 0 \/ id \in exposed'
      PROVE  Fresh(x, v)'
  BY <1>2, <1>8 DEF Fresh
<1>9. CacheTypes'
  BY <1>1, <1>2, <1>4, <1>5 DEF CacheInv, CacheTypes
<1>10. Exact'
  BY <1>1 DEF CacheInv, Exact
<1>11. EntriesFresh'
  <2>. SUFFICES ASSUME NEW e \in Held(lru) PROVE Fresh(e.id, e.ver)' \/ Dropping(e.id)'
    BY <1>1 DEF EntriesFresh
  <2>1. e.id \in Ids /\ e.ver \in Nat \ {0}
    <3>1. e \in Entries
      BY DEF CacheInv, Exact, IsCache, Held
    <3>. QED  BY <3>1 DEF Entries
  <2>2. CASE Dropping(e.id)
    BY <1>6, <2>2
  <2>3. CASE Fresh(e.id, e.ver)
    <3>1. e.id # id \/ nodes[id] = 0 \/ id \in exposed' \/ Dropping(e.id)'
      BY <1>7
    <3>. QED  BY <1>8, <2>1, <2>3, <3>1
  <2>. QED  BY <2>2, <2>3 DEF CacheInv, EntriesFresh
<1>12. CopiesFresh'
  <2>. SUFFICES ASSUME NEW u \in PoolWorkers, worker[u].pc = "put", NEW x, x = worker[u].task.arg,
                       NEW v, v = worker[u].ver
                PROVE  v \in Nat \ {0} /\ Fresh(x, v)'
    BY <1>1 DEF CopiesFresh, Fresh
  <2>1. v \in Nat \ {0} /\ x \in Ids /\ Fresh(x, v)
    BY DEF CacheInv, CopiesFresh, CacheTypes
  <2>2. x # id \/ nodes[id] = 0 \/ id \in exposed'
    BY DEF Overlaps
  <2>. QED  BY <1>8, <2>1, <2>2
<1>13. AddsFresh'
  <2>. SUFFICES ASSUME NEW u \in Writers, writer'[u].pc = "put", NEW x, x = writer'[u].arg
                PROVE  Fresh(x, 1)'
    BY DEF AddsFresh, Fresh
  <2>1. CASE u = w
    BY <1>2, <1>4, <1>5, <2>1 DEF Fresh
  <2>2. CASE u # w
    <3>1. writer[u].pc = "put" /\ writer[u].arg = x
      BY <1>4, <2>2
    <3>2. x \in Ids /\ Fresh(x, 1)
      BY <3>1 DEF CacheInv, AddsFresh, CacheTypes
    <3>3. x # id \/ nodes[id] = 0 \/ id \in exposed'
      BY <3>1 DEF Overlaps
    <3>. QED  BY <1>8, <3>2, <3>3
  <2>. QED  BY <2>1, <2>2
<1>. QED  BY <1>9, <1>10, <1>11, <1>12, <1>13 DEF CacheInv

\* A commit that is not about nodes.
LEMMA OtherCommits ==
    ASSUME CacheInv, NEW w \in Writers, NEW rest \in {"idle", "bloom"}, NEW arg, Commits(w, rest, arg),
           nodes' = nodes, exposed \subseteq exposed'
    PROVE  CacheInv'
<1>1. /\ DOMAIN writer = Writers /\ UNCHANGED <<lru, totalBytes, worker>>
      /\ writer[w].pc = "idle"
  BY DEF CacheInv, CacheTypes, Commits, cacheVars, poolVars
<1>2. PICK r : r = IF rest = "idle" THEN NoWrite ELSE [pc |-> rest, arg |-> arg]
  OBVIOUS
<1>3. /\ DOMAIN writer' = Writers /\ writer'[w] = r /\ r.pc = rest
      /\ \A u \in Writers : u # w => writer'[u] = writer[u]
  BY <1>1, <1>2 DEF Commits, NoWrite
<1>4. ASSUME NEW x, Dropping(x)
      PROVE  Dropping(x)'
  <2>1. PICK u \in Writers : writer[u] = [pc |-> "invalidate", arg |-> x]
    BY <1>4 DEF Dropping
  <2>2. writer[u].pc = "invalidate"
    BY <2>1
  <2>. QED  BY <1>1, <1>3, <2>1, <2>2 DEF Dropping
<1>5. \A x, v : Fresh(x, v) => Fresh(x, v)'
  BY DEF Fresh
<1>6. CacheTypes' /\ Exact'
  BY <1>1, <1>3 DEF CacheInv, CacheTypes, Exact
<1>7. EntriesFresh' /\ CopiesFresh'
  BY <1>1, <1>4, <1>5 DEF CacheInv, EntriesFresh, CopiesFresh
<1>8. AddsFresh'
  BY <1>3, <1>5 DEF CacheInv, AddsFresh
<1>. QED  BY <1>6, <1>7, <1>8 DEF CacheInv

\* What follows a commit: the new node is put, the old one is dropped, or the filter
\* learns the edge.
LEMMA EndsAreSound ==
    ASSUME CacheInv, NEW w \in Writers, WriteEnds(w)
    PROVE  CacheInv'
<1>1. /\ DOMAIN writer = Writers /\ UNCHANGED <<nodes, worker, exposed>>
      /\ writer' = [writer EXCEPT ![w] = NoWrite]
  BY DEF CacheInv, CacheTypes, WriteEnds, storeVars, poolVars
<1>2. /\ DOMAIN writer' = Writers /\ writer'[w].pc = "idle"
      /\ \A u \in Writers : u # w => writer'[u] = writer[u]
  BY <1>1 DEF NoWrite
<1>3. \A x, v : Fresh(x, v)' <=> Fresh(x, v)
  BY <1>1 DEF Fresh
<1>4. CacheTypes'
  BY <1>1, <1>2 DEF CacheInv, CacheTypes
<1>5. CopiesFresh'
  BY <1>1 DEF CacheInv, CopiesFresh, Fresh
<1>6. AddsFresh'
  BY <1>2, <1>3 DEF CacheInv, AddsFresh
<1>7. \A x : Dropping(x) /\ writer[w] # [pc |-> "invalidate", arg |-> x] => Dropping(x)'
  BY <1>2 DEF Dropping
<1>8. CASE writer[w].pc = "put" /\ Put(writer[w].arg, 1)
  <2>1. PICK id \in Ids : id = writer[w].arg
    BY <1>8 DEF CacheInv, CacheTypes
  <2>2. Fresh(id, 1)
    BY <1>8, <2>1 DEF CacheInv, AddsFresh
  <2>3. PICK e : e = [id |-> id, ver |-> 1]
    OBVIOUS
  <2>4. Exact' /\ Held(lru') \subseteq {e} \cup Held(lru)
    <3>1. 1 \in Nat \ {0} /\ Put(id, 1)
      BY <1>8, <2>1
    <3>. QED  BY <2>3, <3>1, PutFacts DEF CacheInv
  <2>5. e.id = id /\ e.ver = 1
    BY <2>3
  <2>6. \A x : Dropping(x) => Dropping(x)'
    <3>1. \A x : writer[w] # [pc |-> "invalidate", arg |-> x]
      BY <1>8
    <3>. QED  BY <1>7, <3>1
  <2>7. EntriesFresh'
    BY <1>3, <2>2, <2>4, <2>5, <2>6 DEF CacheInv, EntriesFresh
  <2>. QED  BY <1>4, <1>5, <1>6, <2>4, <2>7 DEF CacheInv
<1>9. CASE writer[w].pc = "invalidate" /\ Invalidate(writer[w].arg)
  <2>1. PICK id : id = writer[w].arg
    OBVIOUS
  <2>2. Exact' /\ Held(lru') \subseteq {e \in Held(lru) : e.id # id}
    BY <1>9, <2>1, InvalidateFacts DEF CacheInv
  <2>3. ASSUME NEW x, x # id, Dropping(x)
        PROVE  Dropping(x)'
    <3>1. writer[w] # [pc |-> "invalidate", arg |-> x]
      BY <2>1, <2>3
    <3>. QED  BY <1>7, <2>3, <3>1
  <2>4. EntriesFresh'
    BY <1>3, <2>2, <2>3 DEF CacheInv, EntriesFresh
  <2>. QED  BY <1>4, <1>5, <1>6, <2>2, <2>4 DEF CacheInv
<1>10. CASE writer[w].pc = "bloom" /\ UNCHANGED cacheVars
  <2>1. lru' = lru /\ totalBytes' = totalBytes
    BY <1>10 DEF cacheVars
  <2>2. Exact'
    BY <2>1 DEF CacheInv, Exact
  <2>3. \A x : Dropping(x) => Dropping(x)'
    <3>1. \A x : writer[w] # [pc |-> "invalidate", arg |-> x]
      BY <1>10
    <3>. QED  BY <1>7, <3>1
  <2>4. EntriesFresh'
    BY <1>3, <2>1, <2>3 DEF CacheInv, EntriesFresh
  <2>. QED  BY <1>4, <1>5, <1>6, <2>2, <2>4 DEF CacheInv
<1>. QED  BY <1>8, <1>9, <1>10 DEF WriteEnds

\* The writers.
LEMMA WriteIsSound ==
    ASSUME CacheInv, NEW w \in Writers, Write(w)
    PROVE  CacheInv'
<1>1. ASSUME NEW id \in Ids, AddNode(w, id)
      PROVE  CacheInv'
  <2>1. /\ nodes[id] = 0 /\ nodes' = [nodes EXCEPT ![id] = 1]
        /\ Commits(w, "put", id) /\ exposed' = exposed
    BY <1>1 DEF AddNode
  <2>2. 1 \in Nat /\ "put" \in {"idle", "put", "invalidate"}
    OBVIOUS
  <2>. QED  BY <2>1, <2>2, NodeCommits
<1>2. ASSUME NEW id \in Ids, NEW n \in Nat, Overwrites(id, n), Commits(w, "invalidate", id)
      PROVE  CacheInv'
  <2>1. /\ nodes' = [nodes EXCEPT ![id] = n] /\ exposed \subseteq exposed'
        /\ id \in exposed' \/ ~Overlaps(id)
    BY <1>2 DEF Overwrites
  <2>2. "invalidate" \in {"idle", "put", "invalidate"}
    OBVIOUS
  <2>. QED  BY <1>2, <2>1, <2>2, NodeCommits
<1>3. \A id \in Ids : nodes[id] + 1 \in Nat
  <2>1. \A id \in Ids : nodes[id] \in Nat
    BY DEF CacheInv, CacheTypes
  <2>. QED  BY <2>1
<1>4. ASSUME NEW id \in Ids, UpdateNode(w, id) \/ DeleteNode(w, id)
      PROVE  CacheInv'
  <2>1. 0 \in Nat /\ nodes[id] + 1 \in Nat
    BY <1>3
  <2>. QED  BY <1>2, <1>4, <2>1 DEF UpdateNode, DeleteNode
<1>5. ASSUME NEW id \in Ids, ApplyNode(w, id)
      PROVE  CacheInv'
  <2>1. PICK n \in Nat : n = nodes[id] + 1
    BY <1>3
  <2>2. /\ nodes' = [nodes EXCEPT ![id] = n]
        /\ Commits(w, "idle", id) /\ exposed \subseteq exposed' /\ id \in exposed'
    BY <1>5, <2>1 DEF ApplyNode
  <2>3. "idle" \in {"idle", "put", "invalidate"}
    OBVIOUS
  <2>. QED  BY <2>2, <2>3, NodeCommits
<1>6. ASSUME NEW p \in Pairs, AddEdge(w, p) \/ DeleteEdge(w, p) \/ ApplyEdge(w, p)
      PROVE  CacheInv'
  <2>1. PICK rest \in {"idle", "bloom"} : Commits(w, rest, p)
    BY <1>6 DEF AddEdge, DeleteEdge, ApplyEdge
  <2>2. nodes' = nodes /\ exposed \subseteq exposed'
    BY <1>6 DEF AddEdge, DeleteEdge, ApplyEdge
  <2>. QED  BY <2>1, <2>2, OtherCommits
<1>7. CASE WriteEnds(w)
  BY <1>7, EndsAreSound
<1>. QED  BY <1>1, <1>4, <1>5, <1>6, <1>7 DEF Write

\* A step of one worker, which may put or reorder entries.
LEMMA WorkerIsSound ==
    ASSUME CacheInv, NEW w \in PoolWorkers, UNCHANGED <<nodes, writer, exposed>>,
           Exact', \A e \in Held(lru') : e \in Held(lru) \/ Fresh(e.id, e.ver),
           \A u \in PoolWorkers : u # w => worker'[u] = worker[u],
           worker'[w].pc \in {"get", "view", "put"} => worker'[w].task.arg \in Ids,
           worker'[w].pc = "put" =>
               worker'[w].ver \in Nat \ {0} /\ worker'[w].ver = nodes[worker'[w].task.arg]
    PROVE  CacheInv'
<1>1. \A x, v : Fresh(x, v)' <=> Fresh(x, v)
  BY DEF Fresh
<1>2. \A x : Dropping(x)' <=> Dropping(x)
  BY DEF Dropping
<1>3. CacheTypes' /\ AddsFresh'
  BY <1>1 DEF CacheInv, CacheTypes, AddsFresh
<1>4. EntriesFresh'
  BY <1>1, <1>2 DEF CacheInv, EntriesFresh
<1>5. CopiesFresh'
  <2>. SUFFICES ASSUME NEW u \in PoolWorkers, worker'[u].pc = "put", NEW x, x = worker'[u].task.arg,
                       NEW v, v = worker'[u].ver
                PROVE  v \in Nat \ {0} /\ Fresh(x, v)
    BY <1>1 DEF CopiesFresh, Fresh
  <2>1. CASE u = w
    BY <2>1 DEF Fresh
  <2>2. CASE u # w
    <3>1. worker[u].pc = "put" /\ worker[u].task.arg = x /\ worker[u].ver = v
      BY <2>2
    <3>. QED  BY <3>1 DEF CacheInv, CopiesFresh
  <2>. QED  BY <2>1, <2>2
<1>. QED  BY <1>3, <1>4, <1>5 DEF CacheInv

\* The workers: a hit reorders, a miss takes a copy, and the copy is put.
LEMMA ReadsAreSound ==
    ASSUME OrderInv, CacheInv, NEW w \in PoolWorkers, WorkerStep(w)
    PROVE  CacheInv'
<1>1. DOMAIN worker = PoolWorkers /\ DOMAIN worker[w] = WorkerFields /\ tasks \in Seq(QueuedTasks)
  BY DEF OrderInv, Shapes
<1>2. UNCHANGED <<nodes, writer, exposed>>
  BY DEF WorkerStep, Take, GetCached, GetView, GetPut, HasTest, HasScan, WorkerOnly, storeVars
<1>3. ASSUME UNCHANGED <<lru, totalBytes>>
      PROVE  Exact' /\ \A e \in Held(lru') : e \in Held(lru) \/ Fresh(e.id, e.ver)
  BY <1>3 DEF CacheInv, Exact
<1>4. ASSUME NEW v, Answer(w, v)
      PROVE  (\A u \in PoolWorkers : u # w => worker'[u] = worker[u]) /\ worker'[w].pc = "idle"
  BY <1>1, <1>4 DEF Answer, Idle
<1>5. ASSUME NEW v, Answer(w, v), Exact', \A e \in Held(lru') : e \in Held(lru) \/ Fresh(e.id, e.ver)
      PROVE  CacheInv'
  BY <1>2, <1>4, <1>5, WorkerIsSound
<1>6. ASSUME NEW pc \in {"view", "scan", "exit"}, worker' = [worker EXCEPT ![w].pc = pc],
             pc = "view" => worker[w].task.arg \in Ids, UNCHANGED <<lru, totalBytes>>
      PROVE  CacheInv'
  <2>1. /\ \A u \in PoolWorkers : u # w => worker'[u] = worker[u]
        /\ worker'[w].pc = pc /\ worker'[w].task = worker[w].task
    BY <1>1, <1>6 DEF WorkerFields
  <2>2. /\ worker'[w].pc \in {"get", "view", "put"} => worker'[w].task.arg \in Ids
        /\ worker'[w].pc # "put"
    BY <1>6, <2>1
  <2>. QED  BY <1>2, <1>3, <1>6, <2>1, <2>2, WorkerIsSound
<1>7. CASE Take(w)
  <2>1. UNCHANGED <<lru, totalBytes>>
    BY <1>7 DEF Take, cacheVars
  <2>2. CASE worker' = [worker EXCEPT ![w].pc = "exit"]
    BY <1>6, <2>1, <2>2
  <2>3. CASE tasks # <<>> /\
             worker' = [worker EXCEPT ![w] = [Idle EXCEPT !.pc = Head(tasks).task.kind, !.call = Head(tasks).call,
                                                          !.idx = Head(tasks).idx, !.task = Head(tasks).task]]
    <3>1. PICK t \in QueuedTasks : t = Head(tasks)
      BY <1>1, <2>3
    <3>2. PICK r : r = [Idle EXCEPT !.pc = t.task.kind, !.call = t.call, !.idx = t.idx, !.task = t.task]
      OBVIOUS
    <3>3. r.pc = t.task.kind /\ r.task = t.task
      BY <3>2 DEF Idle
    <3>4. worker'[w] = r /\ \A u \in PoolWorkers : u # w => worker'[u] = worker[u]
      BY <1>1, <2>3, <3>1, <3>2
    <3>5. t.task \in Tasks
      BY DEF QueuedTasks
    <3>6. t.task.kind \in {"get", "has"} /\ (t.task.kind = "get" => t.task.arg \in Ids)
      BY <3>5 DEF Tasks
    <3>7. /\ worker'[w].pc \in {"get", "view", "put"} => worker'[w].task.arg \in Ids
          /\ worker'[w].pc # "put"
      BY <3>3, <3>4, <3>6
    <3>. QED  BY <1>2, <1>3, <2>1, <3>4, <3>7, WorkerIsSound
  <2>. QED  BY <1>7, <2>2, <2>3 DEF Take
<1>8. CASE GetCached(w)
  <2>1. PICK id \in Ids : id = worker[w].task.arg
    BY <1>8 DEF GetCached, CacheInv, CacheTypes
  <2>2. totalBytes' = totalBytes
    BY <1>8 DEF GetCached
  <2>3. CASE Cached(id)
    <3>1. lru' = moveToFront(id) /\ Answer(w, CachedVer(id))
      BY <1>8, <2>1, <2>3 DEF GetCached
    <3>2. Exact' /\ Held(lru') \subseteq Held(lru)
      BY <2>2, <2>3, <3>1, MoveToFrontFacts DEF CacheInv
    <3>. QED  BY <1>5, <3>1, <3>2
  <2>4. CASE ~Cached(id)
    <3>1. worker' = [worker EXCEPT ![w].pc = "view"] /\ lru' = lru
      BY <1>8, <2>1, <2>4 DEF GetCached
    <3>. QED  BY <1>6, <2>1, <2>2, <3>1
  <2>. QED  BY <2>3, <2>4
<1>9. CASE GetView(w)
  <2>1. PICK id \in Ids : id = worker[w].task.arg
    BY <1>9 DEF GetView, CacheInv, CacheTypes
  <2>2. PICK v \in Nat : v = nodes[id]
    BY DEF CacheInv, CacheTypes
  <2>3. UNCHANGED <<lru, totalBytes>>
    BY <1>9 DEF GetView, cacheVars
  <2>4. CASE v = 0
    <3>1. Answer(w, 0)
      BY <1>9, <2>1, <2>2, <2>4 DEF GetView
    <3>. QED  BY <1>3, <1>5, <2>3, <3>1
  <2>5. CASE v # 0
    <3>1. worker' = [worker EXCEPT ![w].pc = "put", ![w].ver = v]
      BY <1>9, <2>1, <2>2, <2>5 DEF GetView
    <3>2. /\ \A u \in PoolWorkers : u # w => worker'[u] = worker[u]
          /\ worker'[w].pc = "put" /\ worker'[w].ver = v /\ worker'[w].task = worker[w].task
      BY <1>1, <3>1 DEF WorkerFields
    <3>. QED  BY <1>2, <1>3, <2>1, <2>2, <2>3, <2>5, <3>2, WorkerIsSound
  <2>. QED  BY <2>4, <2>5
<1>10. CASE GetPut(w)
  <2>1. PICK id, v : id = worker[w].task.arg /\ v = worker[w].ver
    OBVIOUS
  <2>2. id \in Ids /\ v \in Nat \ {0} /\ Fresh(id, v) /\ Put(id, v) /\ Answer(w, v)
    BY <1>10, <2>1 DEF GetPut, CacheInv, CacheTypes, CopiesFresh
  <2>3. PICK e : e = [id |-> id, ver |-> v]
    OBVIOUS
  <2>4. e.id = id /\ e.ver = v
    BY <2>3
  <2>5. Exact' /\ Held(lru') \subseteq {e} \cup Held(lru)
    BY <2>2, <2>3, PutFacts DEF CacheInv
  <2>6. \A x \in Held(lru') : x \in Held(lru) \/ Fresh(x.id, x.ver)
    BY <2>2, <2>4, <2>5
  <2>. QED  BY <1>5, <2>2, <2>5, <2>6
<1>11. CASE HasTest(w)
  <2>1. UNCHANGED <<lru, totalBytes>>
    BY <1>11 DEF HasTest, cacheVars
  <2>2. worker' = [worker EXCEPT ![w].pc = "scan"] \/ Answer(w, 0)
    BY <1>11 DEF HasTest
  <2>. QED  BY <1>3, <1>5, <1>6, <2>1, <2>2
<1>12. CASE HasScan(w)
  <2>1. UNCHANGED <<lru, totalBytes>>
    BY <1>12 DEF HasScan, cacheVars
  <2>2. PICK v : Answer(w, v)
    BY <1>12 DEF HasScan
  <2>. QED  BY <1>3, <1>5, <2>1, <2>2
<1>. QED  BY <1>7, <1>8, <1>9, <1>10, <1>11, <1>12 DEF WorkerStep

\* Writers, readers and the process keep CacheInv.
LEMMA CacheStep == OrderInv /\ CacheInv /\ [Next]_vars => CacheInv'
<1>. SUFFICES ASSUME OrderInv, CacheInv, [Next]_vars
              PROVE  CacheInv'
  OBVIOUS
<1>1. ASSUME UNCHANGED <<nodes, lru, totalBytes, writer, worker, exposed>>
      PROVE  CacheInv'
  <2>1. CacheTypes' /\ Exact'
    BY <1>1 DEF CacheInv, CacheTypes, Exact
  <2>2. EntriesFresh' /\ CopiesFresh' /\ AddsFresh'
    BY <1>1 DEF CacheInv, EntriesFresh, CopiesFresh, AddsFresh, Fresh, Dropping
  <2>. QED  BY <2>1, <2>2 DEF CacheInv
<1>2. CASE \E w \in Writers : Write(w)
  BY <1>2, WriteIsSound
<1>3. CASE \E w \in PoolWorkers : WorkerStep(w)
  BY <1>3, ReadsAreSound
<1>4. CASE ExecuteConcurrent \/ Submit \/ Collect \/ CtxCancel \/ Stop
  BY <1>1, <1>4 DEF ExecuteConcurrent, Submit, Collect, CtxCancel, Stop, CallOnly, storeVars, cacheVars
<1>5. CASE Reopen
  BY <1>5, ReopenIsSound
<1>6. CASE UNCHANGED vars
  BY <1>1, <1>6 DEF vars, storeVars, cacheVars, poolVars
<1>. QED  BY <1>2, <1>3, <1>4, <1>5, <1>6 DEF Next

\* CacheSound, by positions.
LEMMA CacheIsAsStated == CacheInv => CacheSound
<1>. SUFFICES ASSUME CacheInv PROVE CacheSound
  OBVIOUS
<1>1. \A i \in 1..Len(lru) : Fresh(lru[i].id, lru[i].ver) \/ Dropping(lru[i].id)
  BY DEF CacheInv, EntriesFresh, Held
<1>. QED  BY <1>1 DEF CacheInv, Exact, IsCache, Unique, Fresh, Dropping, CacheSound

\* The inductive invariant of the cache: entries, copies on their way into the cache and
\* new nodes about to be put are what the bucket holds, or the node was committed while
\* such a copy was on its way; and the bytes are counted exactly, whatever the sizes,
\* the budget and the number of readers and writers (node_cache.go, getNode).
THEOREM CacheInvariance == Spec => []CacheInv
BY CacheInitially, CacheStep, PoolInvariance, PTL DEF Spec

\* The cache is within its budget and its count is exact, and a hit is the node that was
\* committed last, but for what CacheSound lists (node_cache.go, node.go).
THEOREM CacheIsSound == Spec => []CacheSound
BY CacheInvariance, CacheIsAsStated, PTL
================================================================================
