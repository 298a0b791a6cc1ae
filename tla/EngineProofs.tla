------------------------------ MODULE EngineProofs ------------------------------
(***************************************************************************)
(* Proofs about Engine for any number of shards, writers, transactions and nodes:   *)
(* what the files keep, the allocator of the primary shard, the atomicity of         *)
(* transactions and the counters.                                                *)
(*                                                                         *)
(* The properties speak of the states a caller sees; the invariant says what holds   *)
(* in between: who holds a shard's writer lock, what the compactor's copy may be      *)
(* short of, which IDs are out, and how far a counter is from its file.              *)
(***************************************************************************)
EXTENDS Engine, FiniteSetTheorems, OrderFacts

--------------------------------------------------------------------------------
(* The invariant.                                                           *)

Meta == [next : Nat, count : Int]

WriterState == [pc : {"idle", "queue", "batch", "count"}, op : {"add", "delete"}, id : Ids \cup {0}]

TxState ==
    [st : {"none", "active", "committing", "committed", "rolledback"}, adds : SUBSET Ids, dels : SUBSET Ids,
     held : SUBSET Shards, op : {"add", "delete"}, want : Ids \cup {0}]

CompactState ==
    [pc : {"idle", "copy", "copied", "closing", "closed", "load"}, shard : Shards,
     copy : SUBSET Ids, meta : Meta]

TypeOK ==
    /\ db \in [Shards -> SUBSET Ids] /\ meta \in [Shards -> Meta]
    /\ nextNodeID \in Nat /\ nodeCount \in [Shards -> Int]
    /\ handle \in [Shards -> {"open", "closed"}]
    /\ lock \in [Shards -> Txs \cup {Compactor, Nobody}]
    /\ writer \in [Writers -> WriterState] /\ \A w \in Writers : writer[w].pc # "idle" => writer[w].id \in Ids
    /\ tx \in [Txs -> TxState]
    /\ compact \in CompactState
    /\ committed \subseteq Ids /\ ever \subseteq Ids

\* A node is in the file of its shard, and in no other.
Placed ==
    /\ \A s \in Shards : \A id \in db[s] : shardFor(id) = s /\ id \in ever
    /\ \A id \in compact.copy : shardFor(id) = compact.shard /\ id \in ever

\* A shard has the writer that says so, and the compactor keeps everybody out.
Locked ==
    /\ \A t \in Txs : \A s \in tx[t].held : lock[s] = t
    /\ compact.pc = "closing" => lock[compact.shard] = Compactor
    /\ compact.pc = "closed" => handle[compact.shard] = "closed" /\ lock[compact.shard] = Nobody

\* The copy is the file, but for what was written since.
CopyTrue ==
    compact.pc \in {"copied", "closing", "closed"} =>
        \A id \in Ids \ since :
            shardFor(id) = compact.shard => (id \in compact.copy <=> id \in db[compact.shard])

\* Every ID that is out is behind the allocator, or known to be exposed.
Behind == \A id \in (ever \cup InFlight) \ exposed : id <= nextNodeID

\* The nodes a transaction is adding.
Own(t) == tx[t].adds \cup (IF tx[t].op = "add" THEN {tx[t].want} \ {0} ELSE {})

\* A new node belongs to one caller only, until its file has it.
Disjoint ==
    /\ \A t, u \in Txs : t # u => Own(t) \cap Own(u) \subseteq exposed
    /\ \A t \in Txs, w \in Writers :
         writer[w].op = "add" /\ writer[w].pc \in {"queue", "batch"} /\ writer[w].id \in Own(t)
            => writer[w].id \in exposed

\* What the phase of a transaction says about its nodes.
Phases ==
    \A t \in Txs :
        /\ tx[t].st \notin {"committing", "committed"} => Own(t) \cap ever \subseteq exposed
        /\ tx[t].st # "rolledback" => \A id \in tx[t].adds : shardFor(id) \in tx[t].held \/ (tx[t].st \in {"committing", "committed"} /\ id \in ever)
        /\ tx[t].st = "committed" => tx[t].held = {}
        /\ tx[t].want # 0 => tx[t].st = "active"

EngineInv == TypeOK /\ Placed /\ Locked /\ FilesKeep /\ CopyTrue /\ Behind /\ Disjoint /\ Phases

\* Writers that have changed the file of shard s and not yet its counter.
Counting(s, op) == {w \in Writers : writer[w].pc = "count" /\ ShardOf(w) = s /\ writer[w].op = op}

\* The counter of shard s, when everybody has counted what the file has already.
Settled(s) == nodeCount[s] + Cardinality(Counting(s, "add")) - Cardinality(Counting(s, "delete"))

\* The counter stands for the file as it is.
Counts(s) ==
    /\ s \notin miscounted /\ ~(compact.pc = "load" /\ compact.shard = s)
    /\ handle[s] = "open" \/ (compact.pc = "closed" /\ compact.shard = s)

\* With the transaction that has moved it ahead of its commit taken into account.
Balanced(s) ==
    Counts(s) =>
        /\ (\A t \in Txs : s \notin tx[t].held) => Settled(s) >= Cardinality(db[s])
        /\ \A t \in Txs : s \in tx[t].held =>
             Settled(s) - Cardinality(InShard(s, tx[t].adds)) + Cardinality(InShard(s, tx[t].dels))
               >= Cardinality(db[s])

\* A transaction deletes what is in the file of a shard that it holds.
DelsHeld ==
    \A t \in Txs :
        /\ \A s \in tx[t].held : InShard(s, tx[t].dels) \subseteq db[s]
        /\ tx[t].st \in {"none", "active"} => \A id \in tx[t].dels : shardFor(id) \in tx[t].held

\* A shard is open while it is copied, until the compactor closes it.
CopyOpen == compact.pc \in {"copied", "closing"} => handle[compact.shard] = "open"

CountInv == DelsHeld /\ CopyOpen /\ \A s \in Shards : Balanced(s)

--------------------------------------------------------------------------------
(* Facts about the operators.                                               *)

\* A node's shard is one of the shards.
LEMMA ShardType == \A id \in Ids : id \in Nat /\ shardFor(id) \in Shards
BY EngineAssumption DEF Ids, Shards, shardFor

\* The IDs that callers have.
LEMMA InFlightFacts ==
    ASSUME TypeOK
    PROVE  /\ \A w \in Writers : writer[w].pc # "idle" => writer[w].id \in InFlight
           /\ \A t \in Txs : Own(t) \subseteq InFlight /\ tx[t].adds \subseteq InFlight /\ tx[t].want \in InFlight
           /\ \A id \in InFlight : \/ \E w \in Writers : writer[w].pc # "idle" /\ id = writer[w].id
                                   \/ \E t \in Txs : id \in tx[t].adds \/ id = tx[t].want
           /\ \A id \in InFlight : id \in Nat
<1>1. \A id : id \in InFlight <=> \/ \E w \in Writers : writer[w].pc # "idle" /\ id = writer[w].id
                                  \/ \E t \in Txs : id \in tx[t].adds \/ id = tx[t].want
  BY DEF InFlight
<1>2. \A id \in Ids \cup {0} : id \in Nat BY ShardType
<1>3. \A w \in Writers : writer[w].id \in Ids \cup {0} BY DEF TypeOK, WriterState
<1>4. \A t \in Txs : tx[t].adds \subseteq Ids /\ tx[t].want \in Ids \cup {0} BY DEF TypeOK, TxState
<1>5. \A t \in Txs : Own(t) \subseteq tx[t].adds \cup {tx[t].want} BY DEF Own
<1>6. QED BY <1>1, <1>2, <1>3, <1>4, <1>5

\* The next ID is nobody's, unless it is known to be exposed.
LEMMA NextIsNew ==
    ASSUME EngineInv, nextNodeID + 1 \notin exposed
    PROVE  nextNodeID + 1 \notin ever \cup InFlight
<1>1. nextNodeID \in Nat BY DEF EngineInv, TypeOK
<1>2. SUFFICES ASSUME nextNodeID + 1 \in ever \cup InFlight PROVE FALSE OBVIOUS
<1>3. nextNodeID + 1 <= nextNodeID BY <1>2 DEF EngineInv, Behind
<1>4. QED BY <1>1, <1>3

\* Steps that leave the files alone.
LEMMA FilesSame ==
    ASSUME EngineInv, UNCHANGED <<db, committed, ever, since, compact>>, exposed \subseteq exposed'
    PROVE  Placed' /\ FilesKeep' /\ CopyTrue'
BY DEF EngineInv, Placed, FilesKeep, CopyTrue

\* The allocator goes up, and whoever gets an ID has it from the allocator.
LEMMA BehindKept ==
    ASSUME EngineInv, TypeOK', nextNodeID <= nextNodeID', exposed \subseteq exposed',
           \A id \in ever' \cup InFlight' : id \in ever \cup InFlight \/ id <= nextNodeID'
    PROVE  Behind'
<1>1. SUFFICES ASSUME NEW id \in (ever' \cup InFlight') \ exposed', id \in ever \cup InFlight PROVE id <= nextNodeID'
  BY DEF Behind
<1>2. id <= nextNodeID BY <1>1 DEF EngineInv, Behind
<1>3. id \in Nat /\ nextNodeID \in Nat /\ nextNodeID' \in Nat
  BY <1>1, InFlightFacts, ShardType DEF EngineInv, TypeOK
<1>4. QED BY <1>2, <1>3

\* A transaction on shard s becomes part of the file: of what the compactor has
\* copied, that is known to differ.
LEMMA ApplyFiles ==
    ASSUME EngineInv, NEW s \in Shards, NEW A, A \subseteq InShard(s, Ids), NEW D, D \subseteq InShard(s, Ids),
           Apply(s, A, D), UNCHANGED <<compact, exposed>>, ~(compact.pc = "closed" /\ compact.shard = s)
    PROVE  /\ db' \in [Shards -> SUBSET Ids] /\ committed' \subseteq Ids /\ ever' \subseteq Ids
           /\ Placed' /\ FilesKeep' /\ CopyTrue'
<1> USE DEF EngineInv
<1>1. /\ db' = [db EXCEPT ![s] = (db[s] \cup A) \ D]
      /\ committed' = (committed \cup A) \ D /\ ever' = ever \cup A
      /\ since' = IF compact.pc \in {"copied", "closing"} /\ compact.shard = s THEN since \cup A \cup D ELSE since
  BY DEF Apply
<1>2. A \subseteq Ids /\ D \subseteq Ids /\ \A id \in A \cup D : shardFor(id) = s BY DEF InShard
<1>3. db \in [Shards -> SUBSET Ids] BY DEF TypeOK
<1>4. db'[s] = (db[s] \cup A) \ D /\ \A r \in Shards \ {s} : db'[r] = db[r] BY <1>1, <1>3
<1>5. db' \in [Shards -> SUBSET Ids] BY <1>1, <1>2, <1>3
<1>6. committed' \subseteq Ids /\ ever' \subseteq Ids BY <1>1, <1>2 DEF TypeOK
<1>7. Placed' BY <1>1, <1>2, <1>4 DEF Placed
<1>8. FilesKeep'
  <2>1. SUFFICES ASSUME NEW id \in Ids \ exposed PROVE id \in committed' <=> id \in db'[shardFor(id)]
    BY DEF FilesKeep
  <2>2. id \in committed <=> id \in db[shardFor(id)] BY DEF FilesKeep
  <2>3. shardFor(id) \in Shards BY ShardType
  <2>4. CASE shardFor(id) = s BY <1>1, <1>4, <2>2, <2>4
  <2>5. CASE shardFor(id) # s BY <1>1, <1>2, <1>4, <2>2, <2>3, <2>5
  <2>6. QED BY <2>4, <2>5
<1>9. CopyTrue'
  <2>1. SUFFICES ASSUME compact.pc \in {"copied", "closing", "closed"}, NEW id \in Ids \ since', shardFor(id) = compact.shard
                 PROVE  id \in compact.copy <=> id \in db'[compact.shard]
    BY DEF CopyTrue
  <2>2. id \notin since BY <1>1, <2>1
  <2>3. id \in compact.copy <=> id \in db[compact.shard] BY <2>1, <2>2 DEF CopyTrue
  <2>4. compact.shard \in Shards BY DEF TypeOK, CompactState
  <2>5. CASE compact.shard = s
    <3>1. id \notin A \cup D BY <1>1, <2>1, <2>5
    <3>2. QED BY <1>4, <2>3, <2>5, <3>1
  <2>6. CASE compact.shard # s BY <1>4, <2>3, <2>4, <2>6
  <2>7. QED BY <2>5, <2>6
<1>10. QED BY <1>5, <1>6, <1>7, <1>8, <1>9

--------------------------------------------------------------------------------
(* Single writes.                                                           *)

\* A writer goes on without touching a file: with the ID it has, one that is in a
\* file, or the allocator's next.
LEMMA WriterMoves ==
    ASSUME EngineInv, NEW w \in Writers, NEW c \in WriterState, c.pc # "idle" => c.id \in Ids,
           writer' = [writer EXCEPT ![w] = c],
           UNCHANGED <<db, meta, handle, lock, tx, compact, committed, ever, since, exposed>>,
           nodeCount' \in [Shards -> Int],
           nextNodeID' = nextNodeID \/ (nextNodeID' = nextNodeID + 1 /\ c.id = nextNodeID'),
           c.pc # "idle" => \/ c.id = writer[w].id /\ writer[w].pc # "idle"
                            \/ c.id \in ever \/ c.id = nextNodeID',
           c.op = "add" /\ c.pc \in {"queue", "batch"} =>
               \/ writer[w].op = "add" /\ writer[w].pc \in {"queue", "batch"} /\ c.id = writer[w].id
               \/ c.id = nextNodeID + 1
    PROVE  EngineInv'
<1> USE DEF EngineInv
<1>1. nextNodeID \in Nat /\ nextNodeID' \in Nat /\ nextNodeID <= nextNodeID' BY DEF TypeOK
<1>2. /\ writer \in [Writers -> WriterState]
      /\ writer' \in [Writers -> WriterState] /\ writer'[w] = c
      /\ \A v \in Writers \ {w} : writer'[v] = writer[v]
  BY DEF TypeOK
<1>3. \A v \in Writers : writer'[v].pc # "idle" => writer'[v].id \in Ids BY <1>2 DEF TypeOK
<1>4. TypeOK' BY <1>1, <1>2, <1>3 DEF TypeOK
<1>5. Placed' /\ FilesKeep' /\ CopyTrue' BY FilesSame
<1>6. Locked' BY DEF Locked
<1>7. Behind'
  <2>1. SUFFICES ASSUME NEW id \in InFlight' PROVE id \in ever \cup InFlight \/ id <= nextNodeID'
    BY <1>1, <1>4, BehindKept
  <2>2. CASE \E v \in Writers : writer'[v].pc # "idle" /\ id = writer'[v].id
    <3>1. PICK v \in Writers : writer'[v].pc # "idle" /\ id = writer'[v].id BY <2>2
    <3>2. CASE v = w
      <4>1. id = c.id /\ c.pc # "idle" BY <1>2, <3>1, <3>2
      <4>2. CASE id = writer[w].id /\ writer[w].pc # "idle" BY <4>2, InFlightFacts
      <4>3. CASE id \in ever BY <4>3
      <4>4. CASE id = nextNodeID' BY <1>1, <4>4
      <4>5. QED BY <4>1, <4>2, <4>3, <4>4
    <3>3. CASE v # w BY <1>2, <3>1, <3>3, InFlightFacts
    <3>4. QED BY <3>2, <3>3
  <2>3. CASE \E t \in Txs : id \in tx[t].adds \/ id = tx[t].want BY <2>3, InFlightFacts
  <2>4. QED BY <2>1, <2>2, <2>3, <1>4, InFlightFacts DEF InFlight
<1>8. \A t \in Txs : Own(t)' = Own(t) BY DEF Own
<1>9. Phases' BY <1>8 DEF Phases
<1>10. Disjoint'
  <2>1. \A t, u \in Txs : t # u => Own(t)' \cap Own(u)' \subseteq exposed' BY <1>8 DEF Disjoint
  <2>2. ASSUME NEW t \in Txs, NEW v \in Writers, writer'[v].op = "add", writer'[v].pc \in {"queue", "batch"},
               writer'[v].id \in Own(t)
        PROVE  writer'[v].id \in exposed
    <3>1. CASE v # w BY <1>2, <2>2, <3>1 DEF Disjoint
    <3>2. CASE v = w /\ c.id = nextNodeID + 1
      <4>1. nextNodeID + 1 \in Own(t) BY <1>2, <2>2, <3>2
      <4>2. nextNodeID + 1 \in InFlight BY <4>1, InFlightFacts
      <4>3. QED BY <1>2, <3>2, <4>2, NextIsNew
    <3>3. CASE v = w /\ writer[w].op = "add" /\ writer[w].pc \in {"queue", "batch"} /\ c.id = writer[w].id
      BY <1>2, <2>2, <3>3 DEF Disjoint
    <3>4. QED BY <1>2, <2>2, <3>1, <3>2, <3>3
  <2>3. QED BY <1>8, <2>1, <2>2 DEF Disjoint
<1>11. QED BY <1>4, <1>5, <1>6, <1>7, <1>9, <1>10

\* NoWrite is a state of a writer.
LEMMA NoWriteFacts == NoWrite \in WriterState /\ NoWrite.pc = "idle"
BY DEF NoWrite, WriterState

\* AddNode takes the next ID, DeleteNode one that is in a file.
LEMMA WriteBeginKeeps == ASSUME EngineInv, NEW w \in Writers, WriteBegin(w) PROVE EngineInv'
<1> USE DEF EngineInv
<1>1. UNCHANGED <<db, meta, handle, lock, tx, compact, committed, ever, since, exposed>> /\ nodeCount' \in [Shards -> Int]
  BY DEF WriteBegin, fileVars, histVars, TypeOK
<1>2. CASE \E id \in Ids : /\ allocNodeID(id)
                           /\ writer' = [writer EXCEPT ![w] = [pc |-> "queue", op |-> "add", id |-> id]]
  <2>1. PICK id \in Ids : /\ allocNodeID(id)
                          /\ writer' = [writer EXCEPT ![w] = [pc |-> "queue", op |-> "add", id |-> id]]
    BY <1>2
  <2> DEFINE c == [pc |-> "queue", op |-> "add", id |-> id]
  <2>2. c \in WriterState /\ c.pc = "queue" /\ c.id = id BY DEF WriterState
  <2>3. nextNodeID' = nextNodeID + 1 /\ id = nextNodeID' BY <2>1 DEF allocNodeID
  <2>4. writer' = [writer EXCEPT ![w] = c] BY <2>1
  <2> HIDE DEF c
  <2>5. QED BY <1>1, <2>2, <2>3, <2>4, WriterMoves
<1>3. CASE \E id \in UNION {db[s] : s \in Shards} :
             /\ writer' = [writer EXCEPT ![w] = [pc |-> "queue", op |-> "delete", id |-> id]]
             /\ UNCHANGED nextNodeID
  <2>1. PICK id \in UNION {db[s] : s \in Shards} :
             /\ writer' = [writer EXCEPT ![w] = [pc |-> "queue", op |-> "delete", id |-> id]]
             /\ UNCHANGED nextNodeID
    BY <1>3
  <2> DEFINE c == [pc |-> "queue", op |-> "delete", id |-> id]
  <2>2. id \in Ids /\ id \in ever BY DEF TypeOK, Placed
  <2>3. c \in WriterState /\ c.pc = "queue" /\ c.op = "delete" /\ c.id = id BY <2>2 DEF WriterState
  <2>4. writer' = [writer EXCEPT ![w] = c] BY <2>1
  <2> HIDE DEF c
  <2>5. QED BY <1>1, <2>1, <2>2, <2>3, <2>4, WriterMoves
<1>4. QED BY <1>2, <1>3 DEF WriteBegin

\* A slot of the write queue, or its timeout.
LEMMA acquireWriteKeeps == ASSUME EngineInv, NEW w \in Writers, acquireWrite(w) PROVE EngineInv'
<1> USE DEF EngineInv
<1>1. /\ writer[w].pc = "queue"
      /\ UNCHANGED <<db, meta, handle, lock, tx, compact, committed, ever, since, exposed, nextNodeID>>
      /\ nodeCount' \in [Shards -> Int]
  BY DEF acquireWrite, fileVars, histVars, memVars, TypeOK
<1>2. writer[w] \in WriterState /\ writer[w].id \in Ids BY <1>1 DEF TypeOK
<1>3. CASE writer' = [writer EXCEPT ![w].pc = "batch"]
  <2> DEFINE c == [writer[w] EXCEPT !.pc = "batch"]
  <2>1. writer' = [writer EXCEPT ![w] = c] BY <1>3
  <2>2. c \in WriterState /\ c.pc = "batch" /\ c.id = writer[w].id /\ c.op = writer[w].op
    BY <1>2 DEF WriterState
  <2> HIDE DEF c
  <2>3. QED BY <1>1, <1>2, <2>1, <2>2, WriterMoves
<1>4. CASE writer' = [writer EXCEPT ![w] = NoWrite]
  BY <1>1, <1>4, NoWriteFacts, WriterMoves
<1>5. QED BY <1>3, <1>4 DEF acquireWrite

\* The counter is moved after the Batch.
LEMMA CountKeeps == ASSUME EngineInv, NEW w \in Writers, Count(w) PROVE EngineInv'
<1> USE DEF EngineInv
<1>1. /\ writer' = [writer EXCEPT ![w] = NoWrite]
      /\ UNCHANGED <<db, meta, handle, lock, tx, compact, committed, ever, since, exposed, nextNodeID>>
  BY DEF Count, fileVars, histVars
<1>2. nodeCount' \in [Shards -> Int]
  <2> DEFINE n == IF writer[w].op = "add" THEN nodeCount[ShardOf(w)] + 1 ELSE nodeCount[ShardOf(w)] - 1
  <2>1. writer[w].id \in Ids BY DEF Count, TypeOK
  <2>2. ShardOf(w) \in Shards BY <2>1, ShardType DEF ShardOf
  <2>3. nodeCount' = [nodeCount EXCEPT ![ShardOf(w)] = n] BY DEF Count
  <2>4. n \in Int BY <2>2 DEF TypeOK
  <2> HIDE DEF n
  <2>5. QED BY <2>2, <2>3, <2>4 DEF TypeOK
<1>3. QED BY <1>1, <1>2, NoWriteFacts, WriterMoves

\* The Batch: the node of an add is in nobody's transaction.
LEMMA BatchKeeps == ASSUME EngineInv, NEW w \in Writers, Batch(w) PROVE EngineInv'
<1> USE DEF EngineInv
<1> DEFINE s == ShardOf(w)
           id == writer[w].id
           A == IF writer[w].op = "add" THEN {id} ELSE {}
           D == IF writer[w].op = "delete" THEN {id} ELSE {}
<1>1. /\ writer[w].pc = "batch"
      /\ UNCHANGED <<meta, handle, lock, tx, compact, exposed, nextNodeID, nodeCount>>
  BY DEF Batch, memVars
<1>2. writer[w] \in WriterState /\ id \in Ids /\ s \in Shards /\ shardFor(id) = s
  BY <1>1, ShardType DEF TypeOK, ShardOf
<1>3. CASE /\ handle[s] = "open" /\ lock[s] = Nobody
           /\ Apply(s, A, D) /\ writer' = [writer EXCEPT ![w].pc = "count"]
  <2> DEFINE c == [writer[w] EXCEPT !.pc = "count"]
  <2>1. writer' = [writer EXCEPT ![w] = c] BY <1>3
  <2>2. c \in WriterState /\ c.pc = "count" /\ c.id = id /\ c.op = writer[w].op BY <1>2 DEF WriterState
  <2> HIDE DEF c
  <2>3. A \subseteq InShard(s, Ids) /\ D \subseteq InShard(s, Ids) BY <1>2 DEF InShard
  <2>4. ~(compact.pc = "closed" /\ compact.shard = s) BY <1>3 DEF Locked
  <2> HIDE DEF s, D
  <2>5. /\ db' \in [Shards -> SUBSET Ids] /\ committed' \subseteq Ids /\ ever' \subseteq Ids
        /\ Placed' /\ FilesKeep' /\ CopyTrue'
    BY <1>1, <1>2, <1>3, <2>3, <2>4, ApplyFiles
  <2>6. ever' = ever \cup A BY <1>3 DEF Apply
  <2>7. /\ writer \in [Writers -> WriterState]
        /\ writer' \in [Writers -> WriterState] /\ writer'[w] = c
        /\ \A v \in Writers \ {w} : writer'[v] = writer[v]
    BY <2>1, <2>2 DEF TypeOK
  <2>8. \A v \in Writers : writer'[v].pc # "idle" => writer'[v].id \in Ids BY <1>2, <2>2, <2>7 DEF TypeOK
  <2>9. TypeOK' BY <1>1, <2>5, <2>7, <2>8 DEF TypeOK
  <2>10. Locked' BY <1>1 DEF Locked
  <2>11. Behind'
    <3>1. \A v \in Writers : writer'[v].pc # "idle" => writer[v].pc # "idle" /\ writer'[v].id = writer[v].id
      BY <1>1, <2>2, <2>7
    <3>2. \A i \in InFlight' : i \in InFlight BY <1>1, <2>9, <3>1, InFlightFacts DEF InFlight
    <3>3. id \in InFlight BY <1>1, InFlightFacts
    <3>4. nextNodeID <= nextNodeID' BY <1>1 DEF TypeOK
    <3>5. QED BY <1>1, <2>6, <2>9, <3>2, <3>3, <3>4, BehindKept
  <2>12. \A t \in Txs : Own(t)' = Own(t) BY <1>1 DEF Own
  <2>13. \A t \in Txs : Own(t) \cap A \subseteq exposed BY <1>1, <1>2 DEF Disjoint, A
  <2>14. Phases' BY <1>1, <2>6, <2>12, <2>13 DEF Phases
  <2>15. Disjoint' BY <1>1, <2>2, <2>7, <2>12 DEF Disjoint
  <2>16. QED BY <2>5, <2>9, <2>10, <2>11, <2>14, <2>15
<1>4. CASE writer' = [writer EXCEPT ![w] = NoWrite] /\ UNCHANGED <<db, committed, ever, since>>
  <2>1. nodeCount' \in [Shards -> Int] BY <1>1 DEF TypeOK
  <2>2. QED BY <1>1, <1>4, <2>1, NoWriteFacts, WriterMoves
<1>5. QED BY <1>3, <1>4 DEF Batch

--------------------------------------------------------------------------------
(* Transactions.                                                            *)

\* The locks of the others and of the compactor stay, when a transaction takes free
\* ones of open shards and releases its own.
LEMMA LocksKept ==
    ASSUME EngineInv, NEW t \in Txs, NEW c \in TxState, tx' = [tx EXCEPT ![t] = c],
           UNCHANGED <<handle, compact>>,
           \A s \in Shards : lock'[s] = lock[s] \/ lock[s] = t \/ (lock[s] = Nobody /\ handle[s] = "open"),
           \A s \in c.held : lock'[s] = t
    PROVE  Locked'
<1> USE DEF EngineInv
<1>1. t # Nobody /\ t # Compactor BY EngineAssumption
<1>2. tx'[t] = c /\ \A u \in Txs \ {t} : tx'[u] = tx[u] BY DEF TypeOK
<1>3. ASSUME NEW u \in Txs, NEW s \in tx'[u].held PROVE lock'[s] = u
  <2>1. CASE u = t BY <1>2, <1>3, <2>1
  <2>2. CASE u # t
    <3>1. s \in tx[u].held /\ lock[s] = u BY <1>2, <1>3, <2>2 DEF Locked
    <3>2. s \in Shards BY <3>1 DEF TypeOK, TxState
    <3>3. u # Nobody BY EngineAssumption
    <3>4. QED BY <2>2, <3>1, <3>2, <3>3
  <2>3. QED BY <2>1, <2>2
<1>4. compact.shard \in Shards BY DEF TypeOK, CompactState
<1>5. compact.pc = "closing" => lock'[compact.shard] = Compactor
  BY <1>1, <1>4, EngineAssumption DEF Locked
<1>6. compact.pc = "closed" => handle[compact.shard] = "closed" /\ lock'[compact.shard] = Nobody
  BY <1>1, <1>4 DEF Locked
<1>7. QED BY <1>3, <1>5, <1>6 DEF Locked

\* A transaction goes on without touching a file.
LEMMA TxMoves ==
    ASSUME EngineInv, NEW t \in Txs, NEW c \in TxState, tx' = [tx EXCEPT ![t] = c],
           UNCHANGED <<db, meta, handle, writer, compact, committed, ever, since, exposed>>,
           nodeCount' \in [Shards -> Int], lock' \in [Shards -> Txs \cup {Compactor, Nobody}],
           \A s \in Shards : lock'[s] = lock[s] \/ lock[s] = t \/ (lock[s] = Nobody /\ handle[s] = "open"),
           \A s \in c.held : lock'[s] = t,
           nextNodeID' \in {nextNodeID, nextNodeID + 1},
           c.adds \subseteq tx[t].adds \cup {tx[t].want},
           c.want \in {0, tx[t].want} \/ c.want <= nextNodeID',
           \A id \in c.adds \cup (IF c.op = "add" THEN {c.want} \ {0} ELSE {}) :
               id \in Own(t) \/ id = nextNodeID + 1,
           c.st \notin {"committing", "committed"} => tx[t].st \notin {"committing", "committed"},
           c.st # "rolledback" => \A id \in c.adds : shardFor(id) \in c.held \/ (c.st \in {"committing", "committed"} /\ id \in ever),
           c.st = "committed" => c.held = {},
           c.want # 0 => c.st = "active"
    PROVE  EngineInv'
<1> USE DEF EngineInv
<1>1. nextNodeID \in Nat /\ nextNodeID' \in Nat /\ nextNodeID <= nextNodeID' BY DEF TypeOK
<1>2. tx' \in [Txs -> TxState] /\ tx'[t] = c /\ \A u \in Txs \ {t} : tx'[u] = tx[u] BY DEF TypeOK
<1>3. TypeOK' BY <1>1, <1>2 DEF TypeOK
<1>4. Placed' /\ FilesKeep' /\ CopyTrue' BY FilesSame
<1>5. Locked' BY LocksKept
<1>6. Behind'
  <2>1. SUFFICES ASSUME NEW id \in InFlight' PROVE id \in InFlight \/ id <= nextNodeID'
    BY <1>1, <1>3, BehindKept
  <2>2. CASE \E w \in Writers : writer[w].pc # "idle" /\ id = writer[w].id BY <2>2, InFlightFacts
  <2>3. CASE \E u \in Txs \ {t} : id \in tx[u].adds \/ id = tx[u].want BY <2>3, InFlightFacts
  <2>4. CASE id \in c.adds BY <2>4, InFlightFacts
  <2>5. CASE id = c.want
    <3>1. CASE c.want = 0 BY <1>1, <2>5, <3>1
    <3>2. CASE c.want = tx[t].want BY <2>5, <3>2, InFlightFacts
    <3>3. CASE c.want <= nextNodeID' BY <2>5, <3>3
    <3>4. QED BY <3>1, <3>2, <3>3
  <2>6. \/ \E w \in Writers : writer[w].pc # "idle" /\ id = writer[w].id
        \/ \E u \in Txs : id \in tx'[u].adds \/ id = tx'[u].want
    BY <2>1 DEF InFlight
  <2>7. QED BY <1>2, <2>2, <2>3, <2>4, <2>5, <2>6
<1>7. Own(t)' = c.adds \cup (IF c.op = "add" THEN {c.want} \ {0} ELSE {}) /\ \A u \in Txs \ {t} : Own(u)' = Own(u)
  BY <1>2 DEF Own
<1>8. \A id \in Own(t)' : id \notin exposed => id \in Own(t) \/ (id = nextNodeID + 1 /\ id \notin ever \cup InFlight)
  BY <1>7, NextIsNew
<1>9. Phases'
  <2>1. ASSUME NEW u \in Txs
        PROVE  /\ tx'[u].st \notin {"committing", "committed"} => Own(u)' \cap ever \subseteq exposed
               /\ tx'[u].st # "rolledback" => \A id \in tx'[u].adds : shardFor(id) \in tx'[u].held
                                                  \/ (tx'[u].st \in {"committing", "committed"} /\ id \in ever)
               /\ tx'[u].st = "committed" => tx'[u].held = {}
               /\ tx'[u].want # 0 => tx'[u].st = "active"
    <3>1. CASE u = t BY <1>2, <1>8, <3>1 DEF Phases
    <3>2. CASE u # t BY <1>2, <1>7, <3>2 DEF Phases
    <3>3. QED BY <3>1, <3>2
  <2>2. QED BY <2>1 DEF Phases
<1>10. Disjoint'
  <2>1. ASSUME NEW u \in Txs \ {t} PROVE Own(t)' \cap Own(u) \subseteq exposed
    BY <1>8, InFlightFacts DEF Disjoint
  <2>2. \A u, v \in Txs : u # v => Own(u)' \cap Own(v)' \subseteq exposed BY <1>7, <2>1 DEF Disjoint
  <2>3. ASSUME NEW u \in Txs, NEW w \in Writers, writer[w].op = "add", writer[w].pc \in {"queue", "batch"},
               writer[w].id \in Own(u)'
        PROVE  writer[w].id \in exposed
    <3>1. writer[w].id \in InFlight BY <2>3, InFlightFacts
    <3>2. CASE u = t BY <1>8, <2>3, <3>1, <3>2 DEF Disjoint
    <3>3. CASE u # t BY <1>7, <2>3, <3>3 DEF Disjoint
    <3>4. QED BY <3>2, <3>3
  <2>4. QED BY <2>2, <2>3 DEF Disjoint
<1>11. QED BY <1>3, <1>4, <1>5, <1>6, <1>9, <1>10

\* What most steps of a transaction leave alone.
LEMMA TxOnlyFacts ==
    ASSUME TxOnly
    PROVE  UNCHANGED <<db, meta, handle, writer, compact, committed, ever, since, exposed>>
BY DEF TxOnly, fileVars, histVars

\* Steps that keep the counters, the allocator and the locks.
LEMMA TxQuiet ==
    ASSUME EngineInv, NEW t \in Txs,
           TxBegin(t) \/ TxDeleteNode(t) \/ shardTxFails(t) \/ TxCommit(t) \/ TxCommitted(t)
    PROVE  EngineInv'
<1> USE DEF EngineInv
<1>1. UNCHANGED <<db, meta, handle, writer, compact, committed, ever, since, exposed, nextNodeID, nodeCount, lock>>
  BY TxOnlyFacts DEF TxBegin, TxDeleteNode, shardTxFails, TxCommit, TxCommitted, memVars
<1>2. tx[t] \in TxState /\ tx \in [Txs -> TxState] BY DEF TypeOK
<1>3. \A s \in tx[t].held : lock[s] = t BY DEF Locked
<1>4. lock' \in [Shards -> Txs \cup {Compactor, Nobody}] /\ nodeCount' \in [Shards -> Int] /\ nextNodeID \in Nat
  BY <1>1 DEF TypeOK
<1>5. /\ tx[t].st # "rolledback" => \A id \in tx[t].adds : shardFor(id) \in tx[t].held
                                      \/ (tx[t].st \in {"committing", "committed"} /\ id \in ever)
      /\ tx[t].st = "committed" => tx[t].held = {}
      /\ tx[t].want # 0 => tx[t].st = "active"
  BY DEF Phases
<1>6. CASE TxBegin(t)
  <2> DEFINE c == [tx[t] EXCEPT !.st = "active"]
  <2>1. tx[t].st = "none" /\ tx' = [tx EXCEPT ![t] = c] BY <1>6 DEF TxBegin
  <2>2. /\ c \in TxState /\ c.st = "active" /\ c.adds = tx[t].adds /\ c.held = tx[t].held
        /\ c.op = tx[t].op /\ c.want = tx[t].want
    BY <1>2 DEF TxState
  <2> HIDE DEF c
  <2>3. QED BY <1>1, <1>3, <1>4, <1>5, <2>1, <2>2, TxMoves DEF Own
<1>7. CASE TxDeleteNode(t)
  <2>1. PICK id \in 1..nextNodeID \cap Ids : tx' = [tx EXCEPT ![t].op = "delete", ![t].want = id]
    BY <1>7 DEF TxDeleteNode
  <2> DEFINE c == [tx[t] EXCEPT !.op = "delete", !.want = id]
  <2>2. tx[t].st = "active" /\ tx' = [tx EXCEPT ![t] = c] BY <1>2, <1>7, <2>1 DEF TxDeleteNode
  <2>3. /\ c \in TxState /\ c.st = "active" /\ c.adds = tx[t].adds /\ c.held = tx[t].held
        /\ c.op = "delete" /\ c.want = id
    BY <1>2, <2>2 DEF TxState
  <2>4. id <= nextNodeID BY <1>4
  <2> HIDE DEF c
  <2>5. QED BY <1>1, <1>3, <1>4, <1>5, <2>2, <2>3, <2>4, TxMoves DEF Own
<1>8. CASE shardTxFails(t)
  <2> DEFINE c == [tx[t] EXCEPT !.want = 0]
  <2>1. tx' = [tx EXCEPT ![t] = c] BY <1>8 DEF shardTxFails
  <2>2. /\ c \in TxState /\ c.st = tx[t].st /\ c.adds = tx[t].adds /\ c.held = tx[t].held
        /\ c.op = tx[t].op /\ c.want = 0
    BY <1>2 DEF TxState
  <2> HIDE DEF c
  <2>3. QED BY <1>1, <1>3, <1>4, <1>5, <2>1, <2>2, TxMoves DEF Own
<1>9. CASE TxCommit(t)
  <2> DEFINE c == [tx[t] EXCEPT !.st = "committing"]
  <2>1. tx[t].st = "active" /\ tx[t].want = 0 /\ tx' = [tx EXCEPT ![t] = c] BY <1>9 DEF TxCommit
  <2>2. /\ c \in TxState /\ c.st = "committing" /\ c.adds = tx[t].adds /\ c.held = tx[t].held
        /\ c.op = tx[t].op /\ c.want = 0
    BY <1>2, <2>1 DEF TxState
  <2> HIDE DEF c
  <2>3. QED BY <1>1, <1>3, <1>4, <1>5, <2>1, <2>2, TxMoves DEF Own
<1>10. CASE TxCommitted(t)
  <2> DEFINE c == [tx[t] EXCEPT !.st = "committed"]
  <2>1. tx[t].st = "committing" /\ tx[t].held = {} /\ tx' = [tx EXCEPT ![t] = c] BY <1>10 DEF TxCommitted
  <2>2. /\ c \in TxState /\ c.st = "committed" /\ c.adds = tx[t].adds /\ c.held = tx[t].held
        /\ c.op = tx[t].op /\ c.want = tx[t].want
    BY <1>2 DEF TxState
  <2> HIDE DEF c
  <2>3. QED BY <1>1, <1>3, <1>4, <1>5, <2>1, <2>2, TxMoves DEF Own
<1>11. QED BY <1>6, <1>7, <1>8, <1>9, <1>10

\* The first half of AddNode: the allocator's next ID.
LEMMA TxAddNodeKeeps == ASSUME EngineInv, NEW t \in Txs, TxAddNode(t) PROVE EngineInv'
<1> USE DEF EngineInv
<1>1. UNCHANGED <<db, meta, handle, writer, compact, committed, ever, since, exposed, nodeCount, lock>>
  BY TxOnlyFacts DEF TxAddNode
<1>2. tx[t] \in TxState /\ tx \in [Txs -> TxState] BY DEF TypeOK
<1>3. \A s \in tx[t].held : lock[s] = t BY DEF Locked
<1>4. lock' \in [Shards -> Txs \cup {Compactor, Nobody}] /\ nodeCount' \in [Shards -> Int] /\ nextNodeID \in Nat
  BY <1>1 DEF TypeOK
<1>5. PICK id \in Ids : allocNodeID(id) /\ tx' = [tx EXCEPT ![t].op = "add", ![t].want = id]
  BY DEF TxAddNode
<1> DEFINE c == [tx[t] EXCEPT !.op = "add", !.want = id]
<1>6. tx[t].st = "active" /\ tx' = [tx EXCEPT ![t] = c] BY <1>2, <1>5 DEF TxAddNode
<1>7. /\ c \in TxState /\ c.st = "active" /\ c.adds = tx[t].adds /\ c.held = tx[t].held
      /\ c.op = "add" /\ c.want = id
  BY <1>2, <1>6 DEF TxState
<1>8. id = nextNodeID + 1 /\ nextNodeID' = id /\ id <= nextNodeID' BY <1>4, <1>5 DEF allocNodeID
<1>9. \A i \in c.adds : shardFor(i) \in c.held BY <1>6, <1>7 DEF Phases
<1> HIDE DEF c
<1>10. QED BY <1>1, <1>3, <1>4, <1>6, <1>7, <1>8, <1>9, TxMoves DEF Own

\* The second half of a call, with the shard's lock.
LEMMA shardTxKeeps == ASSUME EngineInv, NEW t \in Txs, shardTx(t) PROVE EngineInv'
<1> USE DEF EngineInv
<1> DEFINE id == tx[t].want
           s == shardFor(id)
           Done(A, D) == [tx[t] EXCEPT !.held = tx[t].held \cup {s}, !.want = 0, !.adds = A, !.dels = D]
<1>1. /\ UNCHANGED <<db, meta, handle, writer, compact, committed, ever, since, exposed, nextNodeID>>
      /\ s \in tx[t].held \/ (lock[s] = Nobody /\ handle[s] = "open")
      /\ lock' = [lock EXCEPT ![s] = t]
  BY TxOnlyFacts DEF shardTx
<1>2. tx[t] \in TxState /\ tx \in [Txs -> TxState] BY DEF TypeOK
<1>3. id # 0 BY DEF shardTx
<1>4. id \in Ids /\ s \in Shards BY <1>2, <1>3, ShardType DEF TxState
<1>5. tx[t].st = "active" BY <1>3 DEF Phases
<1>6. ASSUME NEW A, NEW D, D \subseteq Ids, A \subseteq tx[t].adds \cup (IF tx[t].op = "add" THEN {id} ELSE {}),
             tx' = [tx EXCEPT ![t] = Done(A, D)], nodeCount' \in [Shards -> Int]
      PROVE  EngineInv'
  <2> DEFINE c == Done(A, D)
  <2>1. A \subseteq Ids BY <1>2, <1>4, <1>6 DEF TxState
  <2>2. /\ c \in TxState /\ c.st = "active" /\ c.adds = A /\ c.held = tx[t].held \cup {s}
        /\ c.op = tx[t].op /\ c.want = 0
    BY <1>2, <1>4, <1>5, <1>6, <2>1 DEF TxState
  <2>3. tx' = [tx EXCEPT ![t] = c] BY <1>6
  <2> HIDE DEF c
  <2>4. /\ lock' \in [Shards -> Txs \cup {Compactor, Nobody}]
        /\ lock'[s] = t /\ \A r \in Shards \ {s} : lock'[r] = lock[r]
    BY <1>1, <1>4 DEF TypeOK
  <2>5. \A r \in tx[t].held : lock[r] = t /\ r \in Shards BY <1>2 DEF Locked, TxState
  <2>6. \A r \in c.held : lock'[r] = t BY <2>2, <2>4, <2>5
  <2>7. \A r \in Shards : lock'[r] = lock[r] \/ lock[r] = t \/ (lock[r] = Nobody /\ handle[r] = "open")
    BY <1>1, <2>4, <2>5
  <2>8. \A i \in c.adds : shardFor(i) \in c.held
    <3>1. \A i \in tx[t].adds : shardFor(i) \in tx[t].held BY <1>5 DEF Phases
    <3>2. QED BY <1>6, <2>2, <3>1
  <2>9. c.adds \subseteq tx[t].adds \cup {tx[t].want} BY <1>6, <2>2
  <2>10. \A i \in c.adds : i \in Own(t) BY <1>3, <1>6, <2>2 DEF Own
  <2>11. \A i \in c.adds \cup (IF c.op = "add" THEN {c.want} \ {0} ELSE {}) : i \in Own(t) \/ i = nextNodeID + 1
    BY <2>2, <2>10
  <2>12. nextNodeID' \in {nextNodeID, nextNodeID + 1} BY <1>1
  <2>13. QED BY <1>1, <1>5, <1>6, <2>2, <2>3, <2>4, <2>6, <2>7, <2>8, <2>9, <2>11, <2>12, TxMoves
<1>7. nodeCount' \in [Shards -> Int]
  <2>1. nodeCount[s] \in Int BY <1>4 DEF TypeOK
  <2>2. nodeCount[s] + 1 \in Int /\ nodeCount[s] - 1 \in Int BY <2>1
  <2>3. \/ nodeCount' = nodeCount
        \/ nodeCount' = [nodeCount EXCEPT ![s] = nodeCount[s] + 1]
        \/ nodeCount' = [nodeCount EXCEPT ![s] = nodeCount[s] - 1]
    BY DEF shardTx
  <2>4. QED BY <1>4, <2>2, <2>3 DEF TypeOK
<1>8. \/ tx[t].op = "add" /\ tx' = [tx EXCEPT ![t] = Done(tx[t].adds \cup {id}, tx[t].dels)]
      \/ tx' = [tx EXCEPT ![t] = Done(tx[t].adds \ {id}, tx[t].dels \cup ({id} \cap db[s]))]
      \/ tx' = [tx EXCEPT ![t] = Done(tx[t].adds, tx[t].dels)]
  BY DEF shardTx
<1>9. tx[t].dels \subseteq Ids /\ tx[t].dels \cup ({id} \cap db[s]) \subseteq Ids BY <1>2, <1>4 DEF TxState
<1> HIDE DEF Done, s, id
<1>10. QED BY <1>6, <1>7, <1>8, <1>9

\* Rollback gives up its locks and its nodes stay nobody's.
LEMMA TxRollbackKeeps == ASSUME EngineInv, NEW t \in Txs, TxRollback(t) PROVE EngineInv'
<1> USE DEF EngineInv
<1> DEFINE c == [tx[t] EXCEPT !.st = "rolledback", !.held = {}]
<1>1. /\ UNCHANGED <<db, meta, handle, writer, compact, committed, ever, since, exposed, nextNodeID, nodeCount>>
      /\ tx[t].st = "active" /\ tx[t].want = 0
      /\ lock' = [s \in Shards |-> IF s \in tx[t].held THEN Nobody ELSE lock[s]]
  BY DEF TxRollback, memVars, fileVars
<1>2. tx[t] \in TxState /\ tx \in [Txs -> TxState] BY DEF TypeOK
<1>3. tx' = [tx EXCEPT ![t] = c] BY <1>2 DEF TxRollback
<1>4. /\ c \in TxState /\ c.st = "rolledback" /\ c.adds = tx[t].adds /\ c.held = {}
      /\ c.op = tx[t].op /\ c.want = 0
  BY <1>1, <1>2 DEF TxState
<1> HIDE DEF c
<1>5. lock' \in [Shards -> Txs \cup {Compactor, Nobody}] /\ nodeCount' \in [Shards -> Int]
  BY <1>1 DEF TypeOK
<1>6. \A s \in Shards : lock'[s] = lock[s] \/ lock[s] = t BY <1>1 DEF Locked
<1>7. QED BY <1>1, <1>3, <1>4, <1>5, <1>6, TxMoves DEF Own

\* One shard of a Commit, with its error or without.
LEMMA TxCommitShardKeeps == ASSUME EngineInv, NEW t \in Txs, TxCommitShard(t) PROVE EngineInv'
<1> USE DEF EngineInv
<1>1. /\ tx[t].st = "committing"
      /\ UNCHANGED <<handle, writer, compact, exposed, nextNodeID, nodeCount>>
  BY DEF TxCommitShard, memVars
<1>2. tx[t] \in TxState /\ tx \in [Txs -> TxState] BY DEF TypeOK
<1>3. PICK s \in tx[t].held :
         /\ lock' = [lock EXCEPT ![s] = Nobody]
         /\ \/ /\ Apply(s, InShard(s, tx[t].adds), InShard(s, tx[t].dels))
               /\ meta' = [meta EXCEPT ![s] = persistCounters(s)]
               /\ tx' = [tx EXCEPT ![t].held = @ \ {s}]
            \/ /\ tx' = [tx EXCEPT ![t].held = @ \ {s}, ![t].adds = @ \ InShard(s, tx[t].adds),
                                   ![t].dels = @ \ InShard(s, tx[t].dels)]
               /\ UNCHANGED <<db, meta, committed, ever, since>>
  BY DEF TxCommitShard
<1>4. s \in Shards /\ lock[s] = t BY <1>2, <1>3 DEF TxState, Locked
<1>5. /\ lock' \in [Shards -> Txs \cup {Compactor, Nobody}]
      /\ lock'[s] = Nobody /\ \A r \in Shards \ {s} : lock'[r] = lock[r]
  BY <1>3, <1>4 DEF TypeOK
<1>6. \A r \in tx[t].held \ {s} : lock'[r] = t BY <1>2, <1>5 DEF Locked, TxState
<1>7. \A r \in Shards : lock'[r] = lock[r] \/ lock[r] = t BY <1>4, <1>5
<1>8. /\ \A i \in tx[t].adds : shardFor(i) \in tx[t].held \/ i \in ever
      /\ tx[t].want = 0
  BY <1>1 DEF Phases
<1> DEFINE A == InShard(s, tx[t].adds)
           D == InShard(s, tx[t].dels)
<1>9. A \subseteq InShard(s, Ids) /\ D \subseteq InShard(s, Ids) /\ A \subseteq tx[t].adds BY <1>2 DEF InShard, TxState
<1>10. CASE /\ Apply(s, A, D) /\ meta' = [meta EXCEPT ![s] = persistCounters(s)]
            /\ tx' = [tx EXCEPT ![t].held = @ \ {s}]
  <2> DEFINE c == [tx[t] EXCEPT !.held = tx[t].held \ {s}]
  <2>1. tx' = [tx EXCEPT ![t] = c] BY <1>10
  <2>2. /\ c \in TxState /\ c.st = "committing" /\ c.adds = tx[t].adds /\ c.held = tx[t].held \ {s}
        /\ c.op = tx[t].op /\ c.want = 0
    BY <1>1, <1>2, <1>8 DEF TxState
  <2> HIDE DEF c
  <2>3. ~(compact.pc = "closed" /\ compact.shard = s) BY <1>4, EngineAssumption DEF Locked
  <2>4. /\ db' \in [Shards -> SUBSET Ids] /\ committed' \subseteq Ids /\ ever' \subseteq Ids
        /\ Placed' /\ FilesKeep' /\ CopyTrue'
    <3> HIDE DEF A, D
    <3>1. QED BY <1>1, <1>4, <1>9, <1>10, <2>3, ApplyFiles
  <2>5. ever' = ever \cup A BY <1>10 DEF Apply
  <2>6. \A i \in tx[t].adds : shardFor(i) = s => i \in A BY DEF InShard
  <2> HIDE DEF A, D
  <2>7. tx' \in [Txs -> TxState] /\ tx'[t] = c /\ \A u \in Txs \ {t} : tx'[u] = tx[u] BY <1>2, <2>1, <2>2
  <2>8. persistCounters(s) \in Meta
    BY <1>4 DEF TypeOK, Meta, persistCounters
  <2>9. meta' \in [Shards -> Meta] BY <1>10, <2>8 DEF TypeOK
  <2>10. TypeOK' BY <1>1, <1>5, <2>4, <2>7, <2>9 DEF TypeOK
  <2>11. Locked' BY <1>1, <1>6, <1>7, <2>1, <2>2, LocksKept
  <2>12. Behind'
    <3>1. \A u \in Txs : tx'[u].adds = tx[u].adds /\ tx'[u].want = tx[u].want BY <1>8, <2>2, <2>7
    <3>2. \A i \in InFlight' : i \in InFlight BY <1>1, <2>10, <3>1, InFlightFacts DEF InFlight
    <3>3. A \subseteq InFlight BY <1>9, InFlightFacts
    <3>4. nextNodeID <= nextNodeID' BY <1>1 DEF TypeOK
    <3>5. QED BY <1>1, <2>5, <2>10, <3>2, <3>3, <3>4, BehindKept
  <2>13. \A u \in Txs : Own(u)' = Own(u) BY <1>8, <2>2, <2>7 DEF Own
  <2>14. Disjoint' BY <1>1, <2>13 DEF Disjoint
  <2>15. \A u \in Txs \ {t} : Own(u) \cap A \subseteq exposed BY <1>9 DEF Disjoint, Own
  <2>16. \A i \in c.adds : shardFor(i) \in c.held \/ i \in ever' BY <1>8, <2>2, <2>5, <2>6
  <2>17. Phases'
    <3>1. ASSUME NEW u \in Txs
          PROVE  /\ tx'[u].st \notin {"committing", "committed"} => Own(u)' \cap ever' \subseteq exposed
                 /\ tx'[u].st # "rolledback" => \A id \in tx'[u].adds : shardFor(id) \in tx'[u].held
                                                    \/ (tx'[u].st \in {"committing", "committed"} /\ id \in ever')
                 /\ tx'[u].st = "committed" => tx'[u].held = {}
                 /\ tx'[u].want # 0 => tx'[u].st = "active"
      <4>1. CASE u = t BY <2>2, <2>7, <2>16, <4>1
      <4>2. CASE u # t BY <2>5, <2>7, <2>13, <2>15, <4>2 DEF Phases
      <4>3. QED BY <4>1, <4>2
    <3>2. QED BY <1>1, <3>1 DEF Phases
  <2>18. QED BY <2>4, <2>10, <2>11, <2>12, <2>14, <2>17
<1>11. CASE /\ tx' = [tx EXCEPT ![t].held = @ \ {s}, ![t].adds = @ \ A, ![t].dels = @ \ D]
            /\ UNCHANGED <<db, meta, committed, ever, since>>
  <2> DEFINE c == [tx[t] EXCEPT !.held = tx[t].held \ {s}, !.adds = tx[t].adds \ A, !.dels = tx[t].dels \ D]
  <2>1. tx' = [tx EXCEPT ![t] = c] BY <1>2, <1>11 DEF TxState
  <2>2. /\ c \in TxState /\ c.st = "committing" /\ c.adds = tx[t].adds \ A /\ c.held = tx[t].held \ {s}
        /\ c.op = tx[t].op /\ c.want = 0
    BY <1>1, <1>2, <1>8 DEF TxState
  <2>3. \A i \in c.adds : shardFor(i) \in c.held \/ i \in ever BY <1>8, <2>2 DEF InShard
  <2> HIDE DEF c, A, D
  <2>4. nodeCount' \in [Shards -> Int] BY <1>1 DEF TypeOK
  <2>5. \A i \in c.adds \cup (IF c.op = "add" THEN {c.want} \ {0} ELSE {}) : i \in Own(t) \/ i = nextNodeID + 1
    BY <2>2 DEF Own
  <2>6. QED BY <1>1, <1>5, <1>6, <1>7, <1>11, <2>1, <2>2, <2>3, <2>4, <2>5, TxMoves
<1>12. QED BY <1>3, <1>10, <1>11

--------------------------------------------------------------------------------
(* Compaction, snapshots and restarts.                                      *)

\* The callers go on as they were; more may be known to be exposed.
LEMMA CallersSame ==
    ASSUME EngineInv, UNCHANGED <<tx, writer, ever>>, exposed \subseteq exposed'
    PROVE  Disjoint' /\ Phases' /\ InFlight' = InFlight
<1>1. \A t \in Txs : Own(t)' = Own(t) BY DEF Own
<1>2. QED BY <1>1 DEF EngineInv, Disjoint, Phases, InFlight

\* loadCounters leaves the allocator at or above every key of the shard.
LEMMA LoadNextAhead ==
    ASSUME NEW m \in Meta, NEW S, S \subseteq Ids
    PROVE  loadNext(m, S) \in Nat /\ \A id \in S : id <= loadNext(m, S)
<1>1. m.next \in Nat BY DEF Meta
<1>2. CASE S = {} BY <1>1, <1>2 DEF loadNext
<1>3. CASE S # {}
  <2>1. S \subseteq Nat BY ShardType
  <2>2. IsFiniteSet(Ids) BY FS_Interval, EngineAssumption DEF Ids
  <2>3. IsFiniteSet(S) BY <2>2, FS_Subset
  <2>4. \E n \in S : \A k \in S : k <= n BY <1>3, <2>1, <2>3, FiniteMax DEF HasMax
  <2>5. Max0(S) \in S /\ \A k \in S : k <= Max0(S)
    <3>1. Max0(S) = CHOOSE n \in S : \A k \in S : k <= n BY <1>3 DEF Max0
    <3>2. QED BY <2>4, <3>1
  <2> DEFINE x == Max0(S)
  <2>6. loadNext(m, S) = IF x >= m.next THEN x + 1 ELSE m.next BY <1>3 DEF loadNext
  <2>7. x \in Nat BY <2>1, <2>5
  <2> HIDE DEF x
  <2>8. \A k \in S : k \in Nat /\ k <= x BY <2>1, <2>5 DEF x
  <2>9. QED BY <1>1, <2>6, <2>7, <2>8
<1>4. QED BY <1>2, <1>3

\* After the load, what is neither behind the allocator nor in the primary shard's
\* file is known to be exposed.
LEMMA LoadBehind ==
    ASSUME EngineInv, NEW next \in Nat, \A id \in db[0] : id <= next, NEW ids,
           NEW id \in ids \ HandedOutAbove(next, ids), id \in Nat
    PROVE  id <= next
<1>1. ~(id > next) \/ id \in db[0] BY DEF HandedOutAbove
<1>2. QED BY <1>1

\* The steps of Compact up to the rename touch no file.
LEMMA CompactKeeps ==
    ASSUME EngineInv, Compact \/ CompactCopy \/ CompactLock \/ CompactClose
    PROVE  EngineInv'
<1> USE DEF EngineInv
<1>1. UNCHANGED <<db, meta, nextNodeID, nodeCount, tx, writer, committed, ever, exposed>>
  BY DEF Compact, CompactCopy, CompactLock, CompactClose, CompactOnly, fileVars, memVars, histVars
<1>2. Disjoint' /\ Phases' /\ InFlight' = InFlight BY <1>1, CallersSame
<1>3. Behind' BY <1>1, <1>2 DEF Behind
<1>4. compact \in CompactState BY DEF TypeOK
<1> DEFINE s == compact.shard
<1>5. s \in Shards BY <1>4 DEF CompactState
<1>6. FilesKeep' BY <1>1 DEF FilesKeep
<1>7. 0 \in Shards /\ NoCompact \in CompactState /\ NoCompact.pc = "idle" /\ NoCompact.copy = {}
  BY EngineAssumption DEF Shards, NoCompact, CompactState, Meta
<1>8. CASE Compact
  <2> DEFINE c == [NoCompact EXCEPT !.pc = "copy"]
  <2>1. compact' = c /\ UNCHANGED <<handle, lock>> BY <1>8 DEF Compact
  <2>2. c \in CompactState /\ c.pc = "copy" /\ c.copy = {} BY <1>7 DEF NoCompact, CompactState, Meta
  <2> HIDE DEF c
  <2>3. TypeOK' BY <1>1, <2>1, <2>2 DEF TypeOK
  <2>4. Placed' /\ CopyTrue' BY <1>1, <2>1, <2>2 DEF Placed, CopyTrue
  <2>5. Locked' BY <1>1, <2>1, <2>2 DEF Locked
  <2>6. QED BY <1>2, <1>3, <1>6, <2>3, <2>4, <2>5
<1>9. CASE CompactCopy
  <2> DEFINE c == IF handle[s] = "open" THEN [compact EXCEPT !.pc = "copied", !.copy = db[s], !.meta = meta[s]]
                  ELSE NoCompact
  <2>1. compact' = c /\ UNCHANGED <<handle, lock>> BY <1>9 DEF CompactCopy
  <2>2. db[s] \subseteq Ids /\ meta[s] \in Meta BY <1>5 DEF TypeOK
  <2>3. /\ c \in CompactState
        /\ \/ c.pc = "copied" /\ c.copy = db[s] /\ c.shard = s
           \/ c.pc = "idle" /\ c.copy = {}
    <3>1. CASE handle[s] = "open" BY <1>4, <2>2, <3>1 DEF CompactState
    <3>2. CASE handle[s] # "open" BY <1>7, <3>2
    <3>3. QED BY <3>1, <3>2
  <2> HIDE DEF c
  <2>4. TypeOK' BY <1>1, <2>1, <2>3 DEF TypeOK
  <2>5. Placed' BY <1>1, <1>5, <2>1, <2>3 DEF Placed
  <2>6. CopyTrue' BY <1>1, <2>1, <2>3 DEF CopyTrue
  <2>7. Locked' BY <1>1, <2>1, <2>3 DEF Locked
  <2>8. QED BY <1>2, <1>3, <1>6, <2>4, <2>5, <2>6, <2>7
<1>10. CASE CompactLock
  <2> DEFINE c == [compact EXCEPT !.pc = "closing"]
  <2>1. /\ compact.pc = "copied" /\ lock[s] = Nobody /\ compact' = c
        /\ lock' = [lock EXCEPT ![s] = Compactor] /\ UNCHANGED <<handle, since>>
    BY <1>10 DEF CompactLock, histVars
  <2>2. c \in CompactState /\ c.pc = "closing" /\ c.copy = compact.copy /\ c.shard = s
    BY <1>4 DEF CompactState
  <2> HIDE DEF c
  <2>3. /\ lock' \in [Shards -> Txs \cup {Compactor, Nobody}]
        /\ lock'[s] = Compactor /\ \A r \in Shards \ {s} : lock'[r] = lock[r]
    BY <1>5, <2>1 DEF TypeOK
  <2>4. TypeOK' BY <1>1, <2>1, <2>2, <2>3 DEF TypeOK
  <2>5. Placed' /\ CopyTrue' BY <1>1, <2>1, <2>2 DEF Placed, CopyTrue
  <2>6. ASSUME NEW t \in Txs, NEW r \in tx[t].held PROVE lock'[r] = t
    <3>1. lock[r] = t /\ r \in Shards /\ t # Nobody BY EngineAssumption DEF Locked, TypeOK, TxState
    <3>2. QED BY <2>1, <2>3, <3>1
  <2>7. Locked' BY <1>1, <2>1, <2>2, <2>3, <2>6 DEF Locked
  <2>8. QED BY <1>2, <1>3, <1>6, <2>4, <2>5, <2>7
<1>11. CASE CompactClose
  <2> DEFINE c == [compact EXCEPT !.pc = "closed"]
  <2>1. /\ compact.pc = "closing" /\ compact' = c /\ UNCHANGED since
        /\ lock' = [lock EXCEPT ![s] = Nobody] /\ handle' = [handle EXCEPT ![s] = "closed"]
    BY <1>11 DEF CompactClose, histVars
  <2>2. c \in CompactState /\ c.pc = "closed" /\ c.copy = compact.copy /\ c.shard = s
    BY <1>4 DEF CompactState
  <2> HIDE DEF c
  <2>3. /\ lock' \in [Shards -> Txs \cup {Compactor, Nobody}]
        /\ lock'[s] = Nobody /\ \A r \in Shards \ {s} : lock'[r] = lock[r]
    BY <1>5, <2>1 DEF TypeOK
  <2>4. handle' \in [Shards -> {"open", "closed"}] /\ handle'[s] = "closed" BY <1>5, <2>1 DEF TypeOK
  <2>5. TypeOK' BY <1>1, <2>1, <2>2, <2>3, <2>4 DEF TypeOK
  <2>6. Placed' /\ CopyTrue' BY <1>1, <2>1, <2>2 DEF Placed, CopyTrue
  <2>7. ASSUME NEW t \in Txs, NEW r \in tx[t].held PROVE lock'[r] = t
    <3>1. lock[r] = t /\ r \in Shards /\ t # Compactor BY EngineAssumption DEF Locked, TypeOK, TxState
    <3>2. lock[s] = Compactor BY <2>1 DEF Locked
    <3>3. QED BY <2>3, <3>1, <3>2
  <2>8. Locked' BY <1>1, <2>1, <2>2, <2>3, <2>4, <2>7 DEF Locked
  <2>9. QED BY <1>2, <1>3, <1>6, <2>5, <2>6, <2>8
<1>12. QED BY <1>8, <1>9, <1>10, <1>11

\* The rename: what differs from the copy is exposed from now on.
LEMMA CompactSwapKeeps == ASSUME EngineInv, CompactSwap PROVE EngineInv'
<1> USE DEF EngineInv
<1> DEFINE s == compact.shard
<1>1. compact.pc = "closed" /\ UNCHANGED <<nextNodeID, nodeCount, tx, writer, committed, ever, lock>>
  BY DEF CompactSwap, CompactOnly, memVars
<1>2. PICK renamed \in BOOLEAN, opened \in BOOLEAN :
         /\ IF renamed
            THEN /\ db' = [db EXCEPT ![s] = compact.copy]
                 /\ meta' = [meta EXCEPT ![s] = compact.meta]
                 /\ exposed' = exposed \cup since
            ELSE UNCHANGED <<fileVars, exposed>>
         /\ handle' = [handle EXCEPT ![s] = IF opened THEN "open" ELSE "closed"]
         /\ compact' = IF renamed /\ opened THEN [compact EXCEPT !.pc = "load", !.copy = {}] ELSE NoCompact
  BY DEF CompactSwap
<1>3. compact \in CompactState /\ s \in Shards /\ compact.copy \subseteq Ids /\ compact.meta \in Meta
  BY DEF TypeOK, CompactState
<1>4. exposed \subseteq exposed' BY <1>2
<1>5. Disjoint' /\ Phases' /\ InFlight' = InFlight BY <1>1, <1>4, CallersSame
<1>6. Behind' BY <1>1, <1>4, <1>5 DEF Behind
<1>7. db' \in [Shards -> SUBSET Ids] /\ meta' \in [Shards -> Meta] BY <1>2, <1>3 DEF TypeOK, fileVars
<1>8. handle' \in [Shards -> {"open", "closed"}] BY <1>2, <1>3 DEF TypeOK
<1>9. compact' \in CompactState /\ compact'.pc \in {"load", "idle"} /\ compact'.copy = {}
  <2>1. NoCompact \in CompactState /\ NoCompact.pc = "idle" /\ NoCompact.copy = {}
    BY EngineAssumption DEF Shards, NoCompact, CompactState, Meta
  <2>2. CASE renamed /\ opened
    <3>1. compact' = [compact EXCEPT !.pc = "load", !.copy = {}] BY <1>2, <2>2
    <3>2. QED BY <1>3, <3>1 DEF CompactState
  <2>3. CASE ~(renamed /\ opened) BY <1>2, <2>1, <2>3
  <2>4. QED BY <2>2, <2>3
<1>10. TypeOK' BY <1>1, <1>7, <1>8, <1>9 DEF TypeOK
<1>11. Locked' BY <1>1, <1>9 DEF Locked
<1>12. CopyTrue' BY <1>9 DEF CopyTrue
<1>13. CASE renamed
  <2>1. db'[s] = compact.copy /\ \A r \in Shards \ {s} : db'[r] = db[r] BY <1>2, <1>3, <1>13 DEF TypeOK
  <2>2. Placed' BY <1>1, <1>9, <2>1 DEF Placed
  <2>3. ASSUME NEW id \in Ids \ exposed' PROVE id \in committed <=> id \in db'[shardFor(id)]
    <3>1. id \notin exposed /\ id \notin since BY <1>2, <1>13, <2>3
    <3>2. id \in committed <=> id \in db[shardFor(id)] BY <3>1 DEF FilesKeep
    <3>3. CASE shardFor(id) = s BY <1>1, <2>1, <3>1, <3>2, <3>3 DEF CopyTrue
    <3>4. CASE shardFor(id) # s BY <2>1, <3>2, <3>4, ShardType
    <3>5. QED BY <3>3, <3>4
  <2>4. FilesKeep' BY <1>1, <2>3 DEF FilesKeep
  <2>5. QED BY <1>5, <1>6, <1>10, <1>11, <1>12, <2>2, <2>4
<1>14. CASE ~renamed
  <2>1. UNCHANGED <<db, exposed>> BY <1>2, <1>14 DEF fileVars
  <2>2. Placed' /\ FilesKeep' BY <1>1, <1>9, <2>1 DEF Placed, FilesKeep
  <2>3. QED BY <1>5, <1>6, <1>10, <1>11, <1>12, <2>2
<1>15. QED BY <1>13, <1>14

\* loadCounters beside the callers.
LEMMA CompactLoadKeeps == ASSUME EngineInv, CompactLoad PROVE EngineInv'
<1> USE DEF EngineInv
<1> DEFINE s == compact.shard
           next == loadNext(meta[s], db[s])
<1>1. /\ nextNodeID' = IF s = 0 THEN next ELSE nextNodeID
      /\ nodeCount' = [nodeCount EXCEPT ![s] = loadCount(meta[s], db[s])]
      /\ exposed' = exposed \cup HandedOutAbove(nextNodeID', ever \cup InFlight)
      /\ compact' = IF s = NumShards - 1 THEN NoCompact ELSE [NoCompact EXCEPT !.pc = "copy", !.shard = s + 1]
      /\ UNCHANGED <<db, meta, tx, writer, handle, lock, committed, ever, since>>
  BY DEF CompactLoad, CompactOnly, fileVars
<1>2. s \in Shards /\ meta[s] \in Meta /\ db[s] \subseteq Ids BY DEF TypeOK, CompactState
<1>3. next \in Nat /\ \A id \in db[s] : id <= next BY <1>2, LoadNextAhead
<1> HIDE DEF next
<1>4. nextNodeID' \in Nat BY <1>1, <1>3 DEF TypeOK
<1>5. loadCount(meta[s], db[s]) \in Int
  <2>1. IsFiniteSet(Ids) BY FS_Interval, EngineAssumption DEF Ids
  <2>2. IsFiniteSet(db[s]) BY <1>2, <2>1, FS_Subset
  <2>3. Cardinality(db[s]) \in Nat BY <2>2, FS_CardinalityType
  <2>4. QED BY <1>2, <2>3 DEF loadCount, Meta
<1>6. nodeCount' \in [Shards -> Int] BY <1>1, <1>5 DEF TypeOK
<1>7. compact' \in CompactState /\ compact'.pc \in {"copy", "idle"} /\ compact'.copy = {}
  <2>1. NoCompact \in CompactState /\ NoCompact.pc = "idle" /\ NoCompact.copy = {}
    BY EngineAssumption DEF Shards, NoCompact, CompactState, Meta
  <2>2. CASE s = NumShards - 1 BY <1>1, <2>1, <2>2
  <2>3. CASE s # NumShards - 1
    <3>1. compact' = [NoCompact EXCEPT !.pc = "copy", !.shard = s + 1] BY <1>1, <2>3
    <3>2. s + 1 \in Shards BY <1>2, <2>3, EngineAssumption DEF Shards
    <3>3. QED BY <2>1, <3>1, <3>2 DEF CompactState
  <2>4. QED BY <2>2, <2>3
<1>8. TypeOK' BY <1>1, <1>4, <1>6, <1>7 DEF TypeOK
<1>9. exposed \subseteq exposed' BY <1>1
<1>10. Disjoint' /\ Phases' /\ InFlight' = InFlight BY <1>1, <1>9, CallersSame
<1>11. Placed' /\ FilesKeep' /\ CopyTrue' BY <1>1, <1>7, <1>9 DEF Placed, FilesKeep, CopyTrue
<1>12. Locked' BY <1>1, <1>7 DEF Locked
<1>13. Behind'
  <2>1. SUFFICES ASSUME NEW id \in (ever \cup InFlight) \ exposed' PROVE id <= nextNodeID'
    BY <1>1, <1>10 DEF Behind
  <2>2. id \in Nat BY InFlightFacts, ShardType DEF TypeOK
  <2>3. CASE s = 0 BY <1>1, <1>3, <1>4, <2>1, <2>2, <2>3, LoadBehind
  <2>4. CASE s # 0 BY <1>1, <1>9, <2>1, <2>4 DEF Behind
  <2>5. QED BY <2>3, <2>4
<1>14. QED BY <1>8, <1>10, <1>11, <1>12, <1>13

\* Steps of the snapshot, and stuttering, change nothing the invariant speaks of.
LEMMA SnapshotKeeps ==
    ASSUME EngineInv, Snapshot \/ SnapshotShard \/ Release \/ UNCHANGED vars
    PROVE  EngineInv'
<1>1. UNCHANGED <<db, meta, nextNodeID, nodeCount, handle, lock, writer, tx, compact, committed, ever, exposed, since>>
  BY DEF Snapshot, SnapshotShard, Release, SnapOnly, vars, fileVars, memVars, histVars
<1>2. Disjoint' /\ Phases' /\ InFlight' = InFlight BY <1>1, CallersSame
<1>3. Placed' /\ FilesKeep' /\ CopyTrue' BY <1>1, FilesSame
<1>4. TypeOK' BY <1>1 DEF EngineInv, TypeOK
<1>5. Locked' /\ Behind' BY <1>1, <1>2 DEF EngineInv, Locked, Behind
<1>6. QED BY <1>2, <1>3, <1>4, <1>5 DEF EngineInv

\* What Open and the first start leave in memory.
LEMMA FreshStart ==
    /\ NoTx \in TxState /\ NoTx.st = "none" /\ NoTx.adds = {} /\ NoTx.dels = {} /\ NoTx.held = {} /\ NoTx.want = 0
    /\ NoCompact \in CompactState /\ NoCompact.pc = "idle" /\ NoCompact.copy = {}
BY EngineAssumption DEF NoTx, TxState, NoCompact, CompactState, Shards, Meta

\* The counter that loadCounters finds is a number.
LEMMA LoadCountType ==
    ASSUME NEW m \in Meta, NEW S, S \subseteq Ids
    PROVE  /\ IsFiniteSet(S) /\ Cardinality(S) \in Nat
           /\ loadCount(m, S) \in Int /\ loadCount(m, S) >= Cardinality(S)
<1>1. IsFiniteSet(Ids) BY FS_Interval, EngineAssumption DEF Ids
<1>2. IsFiniteSet(S) BY <1>1, FS_Subset
<1>3. Cardinality(S) \in Nat BY <1>2, FS_CardinalityType
<1>4. QED BY <1>2, <1>3 DEF loadCount, Meta

\* Nobody is in the middle of anything.
LEMMA QuietCallers ==
    ASSUME writer' = [w \in Writers |-> NoWrite], tx' = [t \in Txs |-> NoTx], compact' = NoCompact
    PROVE  /\ writer' \in [Writers -> WriterState] /\ \A w \in Writers : writer'[w].pc = "idle"
           /\ tx' \in [Txs -> TxState] /\ compact' \in CompactState
           /\ \A id \in InFlight' : id = 0
           /\ Disjoint' /\ Phases' /\ Locked' /\ CopyTrue'
<1>1. writer' \in [Writers -> WriterState] /\ \A w \in Writers : writer'[w].pc = "idle" BY NoWriteFacts
<1>2. tx' \in [Txs -> TxState] /\ \A t \in Txs : tx'[t] = NoTx BY FreshStart
<1>3. \A id \in InFlight' : id = 0 BY <1>1, <1>2, FreshStart DEF InFlight
<1>4. \A t \in Txs : Own(t)' = {} BY <1>2, FreshStart DEF Own
<1>5. Disjoint' BY <1>1, <1>4 DEF Disjoint
<1>6. Phases' BY <1>2, <1>4, FreshStart DEF Phases
<1>7. Locked' /\ CopyTrue' BY <1>2, FreshStart DEF Locked, CopyTrue
<1>8. QED BY <1>1, <1>2, <1>3, <1>5, <1>6, <1>7, FreshStart

\* A restart: the allocator is loaded from the primary shard's file.
LEMMA OpenKeeps ==
    ASSUME EngineInv, NEW m \in [Shards -> Meta], Open(m)
    PROVE  EngineInv'
<1> USE DEF EngineInv
<1>1. /\ meta' = m /\ nextNodeID' = loadNext(m[0], db[0])
      /\ nodeCount' = [s \in Shards |-> loadCount(m[s], db[s])]
      /\ handle' = [s \in Shards |-> "open"] /\ lock' = [s \in Shards |-> Nobody]
      /\ exposed' = exposed \cup HandedOutAbove(nextNodeID', ever)
      /\ UNCHANGED <<db, committed, ever, since>> /\ compact' = NoCompact
  BY DEF Open
<1>2. /\ writer' \in [Writers -> WriterState] /\ \A w \in Writers : writer'[w].pc = "idle"
      /\ tx' \in [Txs -> TxState] /\ compact' \in CompactState
      /\ \A id \in InFlight' : id = 0
      /\ Disjoint' /\ Phases' /\ Locked' /\ CopyTrue'
  BY QuietCallers DEF Open
<1>3. 0 \in Shards BY EngineAssumption DEF Shards
<1>4. \A s \in Shards : m[s] \in Meta /\ db[s] \subseteq Ids BY DEF TypeOK
<1>5. nextNodeID' \in Nat /\ \A id \in db[0] : id <= nextNodeID' BY <1>1, <1>3, <1>4, LoadNextAhead
<1>6. nodeCount' \in [Shards -> Int]
  <2>1. \A s \in Shards : loadCount(m[s], db[s]) \in Int BY <1>4, LoadCountType
  <2>2. QED BY <1>1, <2>1
<1>7. handle' \in [Shards -> {"open", "closed"}] /\ lock' \in [Shards -> Txs \cup {Compactor, Nobody}] BY <1>1
<1>8. TypeOK' BY <1>1, <1>2, <1>5, <1>6, <1>7 DEF TypeOK
<1>9. Placed' BY <1>1, FreshStart DEF Placed
<1>10. FilesKeep' BY <1>1 DEF FilesKeep
<1>11. Behind'
  <2>1. ASSUME NEW id \in ever \ exposed' PROVE id <= nextNodeID'
    <3>1. id \in Nat BY ShardType DEF TypeOK
    <3>2. id \in ever \ HandedOutAbove(nextNodeID', ever) BY <1>1
    <3>3. QED BY <1>5, <3>1, <3>2, LoadBehind
  <2>2. QED BY <1>1, <1>2, <1>5, <2>1 DEF Behind
<1>12. QED BY <1>2, <1>8, <1>9, <1>10, <1>11

\* Crash finds the counters as they were persisted, Close persists them first.
LEMMA RestartKeeps == ASSUME EngineInv, Crash \/ Close PROVE EngineInv'
<1>1. CASE Crash
  <2>1. meta \in [Shards -> Meta] BY DEF EngineInv, TypeOK
  <2>2. QED BY <1>1, <2>1, OpenKeeps DEF Crash
<1>2. CASE Close
  <2> DEFINE m == [s \in Shards |-> persistCounters(s)]
  <2>1. \A s \in Shards : persistCounters(s) \in Meta
    BY DEF EngineInv, TypeOK, persistCounters, Meta
  <2>2. m \in [Shards -> Meta] BY <2>1
  <2>3. Open(m) BY <1>2 DEF Close
  <2> HIDE DEF m
  <2>4. QED BY <2>2, <2>3, OpenKeeps
<1>3. QED BY <1>1, <1>2

\* An empty database.
LEMMA EngineInit == Init => EngineInv
<1> SUFFICES ASSUME Init PROVE EngineInv OBVIOUS
<1>1. writer \in [Writers -> WriterState] /\ \A w \in Writers : writer[w].pc = "idle" BY NoWriteFacts DEF Init
<1>2. tx \in [Txs -> TxState] /\ \A t \in Txs : tx[t] = NoTx BY FreshStart DEF Init
<1>3. \A id \in InFlight : id = 0 BY <1>1, <1>2, FreshStart DEF InFlight
<1>4. \A t \in Txs : Own(t) = {} BY <1>2, FreshStart DEF Own
<1>5. Disjoint BY <1>1, <1>4 DEF Disjoint
<1>6. Phases BY <1>2, <1>4, FreshStart DEF Phases
<1>7. Locked /\ CopyTrue BY <1>2, FreshStart DEF Init, Locked, CopyTrue
<1>8. Placed /\ FilesKeep BY ShardType, FreshStart DEF Init, Placed, FilesKeep
<1>9. Behind BY <1>3 DEF Init, Behind
<1>10. [next |-> 0, count |-> 0] \in Meta BY DEF Meta
<1>11. TypeOK BY <1>1, <1>2, <1>10, FreshStart DEF Init, TypeOK
<1>12. QED BY <1>5, <1>6, <1>7, <1>8, <1>9, <1>11 DEF EngineInv

\* Every step keeps the invariant.
LEMMA EngineStep == EngineInv /\ [Next]_vars => EngineInv'
<1> SUFFICES ASSUME EngineInv, [Next]_vars PROVE EngineInv' OBVIOUS
<1>1. ASSUME NEW w \in Writers, WriteBegin(w) \/ WriterStep(w) PROVE EngineInv'
  BY <1>1, WriteBeginKeeps, acquireWriteKeeps, BatchKeeps, CountKeeps DEF WriterStep
<1>2. ASSUME NEW t \in Txs, TxBegin(t) \/ TxAddNode(t) \/ TxDeleteNode(t) \/ TxEnd(t) PROVE EngineInv'
  BY <1>2, TxQuiet, TxAddNodeKeeps, shardTxKeeps, TxRollbackKeeps, TxCommitShardKeeps DEF TxEnd
<1>3. CASE Snapshot \/ SnapshotShard \/ Release \/ UNCHANGED vars BY <1>3, SnapshotKeeps
<1>4. CASE Compact \/ CompactStep
  BY <1>4, CompactKeeps, CompactSwapKeeps, CompactLoadKeeps DEF CompactStep
<1>5. CASE Crash \/ Close BY <1>5, RestartKeeps
<1>6. QED BY <1>1, <1>2, <1>3, <1>4, <1>5 DEF Next

\* The storage engine's invariant: writer locks, the compactor's copy, the placement
\* of nodes, the IDs that are out and the phases of transactions, in every
\* interleaving of writers, transactions, compaction, crashes and restarts.
THEOREM EngineInvariance == Spec => []EngineInv
<1>1. QED BY EngineInit, EngineStep, PTL DEF Spec

\* What was committed stays in the files through every crash, failed rename and
\* failed reopening, but for what a compactor overtook.
THEOREM FilesAreKept == Spec => []FilesKeep
<1>1. EngineInv => FilesKeep BY DEF EngineInv
<1>2. QED BY <1>1, EngineInvariance, PTL

\* loadCounters of storage.go keeps the allocator at or above the primary shard's
\* nodes.
THEOREM PrimaryStaysAhead == Spec => []PrimaryAhead
<1>1. EngineInv => PrimaryAhead
  <2>1. 0 \in Shards BY EngineAssumption DEF Shards
  <2>2. QED BY <2>1 DEF EngineInv, Placed, Behind, PrimaryAhead
<1>2. QED BY <1>1, EngineInvariance, PTL

\* A transaction of tx.go is invisible before Commit and after Rollback, and complete
\* after a Commit without an error.
THEOREM TransactionsAreAtomic == Spec => []TxAtomic
<1>1. EngineInv => TxAtomic
  <2>1. SUFFICES ASSUME EngineInv, NEW t \in Txs
                 PROVE  /\ tx[t].st \in {"active", "rolledback"} => (tx[t].adds \ exposed) \cap ever = {}
                        /\ tx[t].st = "committed" => tx[t].adds \ exposed \subseteq ever
    BY DEF TxAtomic
  <2>2. tx[t].adds \subseteq Own(t) BY DEF Own
  <2>3. tx[t].st \in {"active", "rolledback"} => Own(t) \cap ever \subseteq exposed BY <2>1 DEF EngineInv, Phases
  <2>4. tx[t].st = "committed" => tx[t].adds \subseteq ever BY <2>1 DEF EngineInv, Phases
  <2>5. QED BY <2>2, <2>3, <2>4
<1>2. QED BY <1>1, EngineInvariance, PTL

--------------------------------------------------------------------------------
(* The counters.                                                            *)

\* Writers are finitely many, and so are the ones that have yet to count.
LEMMA CountingFinite ==
    ASSUME NEW s, NEW op
    PROVE  IsFiniteSet(Counting(s, op)) /\ Cardinality(Counting(s, op)) \in Nat
<1>1. Counting(s, op) \subseteq Writers BY DEF Counting
<1>2. QED BY <1>1, EngineAssumption, FS_Subset, FS_CardinalityType

\* A shard that a step does not concern.
LEMMA ShardSame ==
    ASSUME NEW r \in Shards, Balanced(r), Counts(r)' => Counts(r),
           db'[r] = db[r], nodeCount'[r] = nodeCount[r],
           \A op \in {"add", "delete"} : Counting(r, op)' = Counting(r, op),
           \A t \in Txs : r \in tx'[t].held <=> r \in tx[t].held,
           \A t \in Txs : r \in tx[t].held => /\ InShard(r, tx'[t].adds) = InShard(r, tx[t].adds)
                                              /\ InShard(r, tx'[t].dels) = InShard(r, tx[t].dels)
    PROVE  Balanced(r)'
<1>1. Settled(r)' = Settled(r) BY DEF Settled
<1>2. SUFFICES ASSUME Counts(r)
               PROVE  /\ (\A t \in Txs : r \notin tx'[t].held) => Settled(r) >= Cardinality(db[r])
                      /\ \A t \in Txs : r \in tx'[t].held =>
                           Settled(r) - Cardinality(InShard(r, tx'[t].adds)) + Cardinality(InShard(r, tx'[t].dels))
                             >= Cardinality(db[r])
  BY <1>1 DEF Balanced
<1>3. (\A t \in Txs : r \notin tx[t].held) => Settled(r) >= Cardinality(db[r]) BY <1>2 DEF Balanced
<1>4. ASSUME NEW t \in Txs, r \in tx[t].held
      PROVE  Settled(r) - Cardinality(InShard(r, tx[t].adds)) + Cardinality(InShard(r, tx[t].dels))
               >= Cardinality(db[r])
  BY <1>2, <1>4 DEF Balanced
<1>5. QED BY <1>3, <1>4

\* Steps that concern no shard's counter.
LEMMA QuietCounts ==
    ASSUME CountInv, CopyOpen', UNCHANGED <<db, nodeCount>>, \A s \in Shards : Counts(s)' => Counts(s),
           \A s \in Shards : \A op \in {"add", "delete"} : Counting(s, op)' = Counting(s, op),
           \A t \in Txs : /\ tx'[t].held = tx[t].held /\ tx'[t].adds = tx[t].adds /\ tx'[t].dels = tx[t].dels
                          /\ tx'[t].st \in {"none", "active"} => tx[t].st \in {"none", "active"}
    PROVE  CountInv'
<1>1. ASSUME NEW s \in Shards PROVE Balanced(s)'
  BY <1>1, ShardSame DEF CountInv
<1>2. DelsHeld' BY DEF CountInv, DelsHeld
<1>3. QED BY <1>1, <1>2 DEF CountInv

\* A writer that has nothing to count, before or after.
LEMMA CountingSame ==
    ASSUME TypeOK, NEW w \in Writers, NEW c, writer' = [writer EXCEPT ![w] = c],
           writer[w].pc # "count", c.pc # "count", NEW s, NEW op
    PROVE  Counting(s, op)' = Counting(s, op)
<1>1. writer'[w] = c /\ \A v \in Writers \ {w} : writer'[v] = writer[v] BY DEF TypeOK
<1>2. \A v \in Writers :
        (writer'[v].pc = "count" /\ shardFor(writer'[v].id) = s /\ writer'[v].op = op)
          <=> (writer[v].pc = "count" /\ shardFor(writer[v].id) = s /\ writer[v].op = op)
  BY <1>1
<1>3. QED BY <1>2 DEF Counting, ShardOf

\* A writer takes its ID and its slot, or fails.
LEMMA WriterCounts ==
    ASSUME EngineInv, CountInv, NEW w \in Writers, NEW c, writer' = [writer EXCEPT ![w] = c],
           writer[w].pc # "count", c.pc # "count",
           UNCHANGED <<db, nodeCount, handle, tx, compact, miscounted>>
    PROVE  CountInv'
<1>1. \A s, op : Counting(s, op)' = Counting(s, op) BY CountingSame DEF EngineInv
<1>2. CopyOpen' BY DEF CountInv, CopyOpen
<1>3. \A s \in Shards : Counts(s)' => Counts(s) BY DEF Counts
<1>4. QED BY <1>1, <1>2, <1>3, QuietCounts

\* A step of a transaction that only moves it on.
LEMMA TxPhaseCounts ==
    ASSUME EngineInv, CountInv, NEW t \in Txs, NEW c, tx' = [tx EXCEPT ![t] = c],
           c.held = tx[t].held, c.adds = tx[t].adds, c.dels = tx[t].dels,
           c.st \in {"none", "active"} => tx[t].st \in {"none", "active"},
           UNCHANGED <<db, nodeCount, handle, writer, compact, miscounted>>
    PROVE  CountInv'
<1>1. tx'[t] = c /\ \A u \in Txs \ {t} : tx'[u] = tx[u] BY DEF EngineInv, TypeOK
<1>2. \A u \in Txs : /\ tx'[u].held = tx[u].held /\ tx'[u].adds = tx[u].adds /\ tx'[u].dels = tx[u].dels
                     /\ tx'[u].st \in {"none", "active"} => tx[u].st \in {"none", "active"}
  BY <1>1
<1>3. \A s, op : Counting(s, op)' = Counting(s, op) BY DEF Counting, ShardOf
<1>4. CopyOpen' BY DEF CountInv, CopyOpen
<1>5. \A s \in Shards : Counts(s)' => Counts(s) BY DEF Counts
<1>6. QED BY <1>2, <1>3, <1>4, <1>5, QuietCounts

\* The steps that leave files and counters alone.
LEMMA EasyCounts ==
    ASSUME EngineInv, CountInv
    PROVE  /\ \A w \in Writers : WriteBegin(w) \/ acquireWrite(w) => CountInv'
           /\ \A t \in Txs : TxBegin(t) \/ TxAddNode(t) \/ TxDeleteNode(t) \/ shardTxFails(t)
                               \/ TxCommit(t) \/ TxCommitted(t) => CountInv'
           /\ Snapshot \/ SnapshotShard \/ Release \/ UNCHANGED vars => CountInv'
           /\ Compact \/ CompactCopy \/ CompactLock \/ CompactClose => CountInv'
<1>1. ASSUME NEW w \in Writers, WriteBegin(w) PROVE CountInv'
  <2>1. UNCHANGED <<db, nodeCount, handle, tx, compact, miscounted>> /\ writer[w].pc = "idle"
    BY <1>1 DEF WriteBegin, fileVars, histVars
  <2>2. \E op, id : writer' = [writer EXCEPT ![w] = [pc |-> "queue", op |-> op, id |-> id]] BY <1>1 DEF WriteBegin
  <2>3. PICK op, id : writer' = [writer EXCEPT ![w] = [pc |-> "queue", op |-> op, id |-> id]] BY <2>2
  <2> DEFINE c == [pc |-> "queue", op |-> op, id |-> id]
  <2>4. c.pc = "queue" /\ writer' = [writer EXCEPT ![w] = c] BY <2>3
  <2> HIDE DEF c
  <2>5. QED BY <2>1, <2>4, WriterCounts
<1>2. ASSUME NEW w \in Writers, acquireWrite(w) PROVE CountInv'
  <2>1. UNCHANGED <<db, nodeCount, handle, tx, compact, miscounted>> /\ writer[w].pc = "queue"
    BY <1>2 DEF acquireWrite, fileVars, memVars, histVars
  <2> DEFINE c == [writer[w] EXCEPT !.pc = "batch"]
  <2>2. c.pc = "batch" BY DEF EngineInv, TypeOK, WriterState
  <2>3. writer' = [writer EXCEPT ![w] = c] \/ writer' = [writer EXCEPT ![w] = NoWrite]
    BY <1>2 DEF acquireWrite
  <2> HIDE DEF c
  <2>4. QED BY <2>1, <2>2, <2>3, NoWriteFacts, WriterCounts
<1>3. ASSUME NEW t \in Txs, TxBegin(t) \/ TxAddNode(t) \/ TxDeleteNode(t) \/ shardTxFails(t)
                              \/ TxCommit(t) \/ TxCommitted(t)
      PROVE  CountInv'
  <2>1. UNCHANGED <<db, nodeCount, handle, writer, compact, miscounted>>
    BY <1>3 DEF TxBegin, TxAddNode, TxDeleteNode, shardTxFails, TxCommit, TxCommitted, TxOnly, fileVars, memVars, histVars
  <2>2. tx[t] \in TxState /\ tx \in [Txs -> TxState] BY DEF EngineInv, TypeOK
  <2>3. ASSUME NEW st, st \in {"none", "active"} => tx[t].st \in {"none", "active"}, NEW op, NEW want,
               tx' = [tx EXCEPT ![t] = [tx[t] EXCEPT !.st = st, !.op = op, !.want = want]]
        PROVE  CountInv'
    <3> DEFINE c == [tx[t] EXCEPT !.st = st, !.op = op, !.want = want]
    <3>1. /\ c.held = tx[t].held /\ c.adds = tx[t].adds /\ c.dels = tx[t].dels /\ c.st = st
          /\ tx' = [tx EXCEPT ![t] = c]
      BY <2>2, <2>3 DEF TxState
    <3> HIDE DEF c
    <3>2. QED BY <2>1, <2>3, <3>1, TxPhaseCounts
  <2>4. CASE TxBegin(t)
    <3>1. tx' = [tx EXCEPT ![t] = [tx[t] EXCEPT !.st = "active", !.op = tx[t].op, !.want = tx[t].want]]
      BY <2>2, <2>4 DEF TxBegin, TxState
    <3>2. tx[t].st = "none" BY <2>4 DEF TxBegin
    <3>3. QED BY <2>3, <3>1, <3>2
  <2>5. CASE TxAddNode(t)
    <3>1. PICK id : tx' = [tx EXCEPT ![t].op = "add", ![t].want = id] BY <2>5 DEF TxAddNode
    <3>2. tx[t].st = "active" BY <2>5 DEF TxAddNode
    <3>3. tx' = [tx EXCEPT ![t] = [tx[t] EXCEPT !.op = "add", !.want = id]] BY <2>2, <3>1
    <3>4. tx' = [tx EXCEPT ![t] = [tx[t] EXCEPT !.st = "active", !.op = "add", !.want = id]]
      BY <2>2, <3>2, <3>3 DEF TxState
    <3>5. QED BY <2>3, <3>2, <3>4
  <2>6. CASE TxDeleteNode(t)
    <3>1. PICK id : tx' = [tx EXCEPT ![t].op = "delete", ![t].want = id] BY <2>6 DEF TxDeleteNode
    <3>2. tx[t].st = "active" BY <2>6 DEF TxDeleteNode
    <3>3. tx' = [tx EXCEPT ![t] = [tx[t] EXCEPT !.op = "delete", !.want = id]] BY <2>2, <3>1
    <3>4. tx' = [tx EXCEPT ![t] = [tx[t] EXCEPT !.st = "active", !.op = "delete", !.want = id]]
      BY <2>2, <3>2, <3>3 DEF TxState
    <3>5. QED BY <2>3, <3>2, <3>4
  <2>7. CASE shardTxFails(t)
    <3>1. tx' = [tx EXCEPT ![t] = [tx[t] EXCEPT !.st = tx[t].st, !.op = tx[t].op, !.want = 0]]
      BY <2>2, <2>7 DEF shardTxFails, TxState
    <3>2. QED BY <2>3, <3>1
  <2>8. CASE TxCommit(t)
    <3>1. tx' = [tx EXCEPT ![t] = [tx[t] EXCEPT !.st = "committing", !.op = tx[t].op, !.want = tx[t].want]]
      BY <2>2, <2>8 DEF TxCommit, TxState
    <3>2. QED BY <2>3, <3>1
  <2>9. CASE TxCommitted(t)
    <3>1. tx' = [tx EXCEPT ![t] = [tx[t] EXCEPT !.st = "committed", !.op = tx[t].op, !.want = tx[t].want]]
      BY <2>2, <2>9 DEF TxCommitted, TxState
    <3>2. QED BY <2>3, <3>1
  <2>10. QED BY <1>3, <2>4, <2>5, <2>6, <2>7, <2>8, <2>9
<1>4. ASSUME UNCHANGED <<db, nodeCount, writer, tx, miscounted>>, CopyOpen', \A s \in Shards : Counts(s)' => Counts(s)
      PROVE  CountInv'
  <2>1. \A s, op : Counting(s, op)' = Counting(s, op) BY <1>4 DEF Counting, ShardOf
  <2>2. QED BY <1>4, <2>1, QuietCounts
<1>5. ASSUME Snapshot \/ SnapshotShard \/ Release \/ UNCHANGED vars PROVE CountInv'
  <2>1. UNCHANGED <<db, nodeCount, writer, tx, miscounted, handle, compact>>
    BY <1>5 DEF Snapshot, SnapshotShard, Release, SnapOnly, vars, fileVars, memVars, histVars
  <2>2. QED BY <1>4, <2>1 DEF CountInv, CopyOpen, Counts
<1>6. ASSUME Compact \/ CompactCopy \/ CompactLock \/ CompactClose PROVE CountInv'
  <2>1. UNCHANGED <<db, nodeCount, writer, tx, miscounted>>
    BY <1>6 DEF Compact, CompactCopy, CompactLock, CompactClose, CompactOnly, fileVars, memVars, histVars
  <2>2. compact \in CompactState /\ handle \in [Shards -> {"open", "closed"}] BY DEF EngineInv, TypeOK
  <2>3. CASE Compact
    <3>1. UNCHANGED handle /\ compact'.pc = "copy" /\ compact.pc = "idle" BY <2>3, FreshStart DEF Compact, NoCompact
    <3>2. QED BY <1>4, <2>1, <3>1 DEF CopyOpen, Counts
  <2>4. CASE CompactCopy
    <3>1. UNCHANGED handle /\ compact.pc = "copy" BY <2>4 DEF CompactCopy
    <3>2. CASE handle[compact.shard] = "open"
      <4>1. compact'.pc = "copied" /\ compact'.shard = compact.shard BY <2>2, <2>4, <3>2 DEF CompactCopy, CompactState
      <4>2. QED BY <1>4, <2>1, <3>1, <3>2, <4>1 DEF CopyOpen, Counts
    <3>3. CASE handle[compact.shard] # "open"
      <4>1. compact'.pc = "idle" BY <2>4, <3>3, FreshStart DEF CompactCopy
      <4>2. QED BY <1>4, <2>1, <3>1, <4>1 DEF CopyOpen, Counts
    <3>4. QED BY <3>2, <3>3
  <2>5. CASE CompactLock
    <3>1. /\ UNCHANGED handle /\ compact.pc = "copied" /\ compact'.pc = "closing"
          /\ compact'.shard = compact.shard
      BY <2>2, <2>5 DEF CompactLock, CompactState
    <3>2. QED BY <1>4, <2>1, <3>1 DEF CountInv, CopyOpen, Counts
  <2>6. CASE CompactClose
    <3>1. /\ handle' = [handle EXCEPT ![compact.shard] = "closed"] /\ compact.pc = "closing" /\ compact'.pc = "closed"
          /\ compact'.shard = compact.shard
      BY <2>2, <2>6 DEF CompactClose, CompactState
    <3>2. handle[compact.shard] = "open" BY <3>1 DEF CountInv, CopyOpen
    <3>3. \A s \in Shards : Counts(s)' => Counts(s) BY <2>1, <2>2, <3>1, <3>2 DEF Counts
    <3>4. CopyOpen' BY <3>1 DEF CopyOpen
    <3>5. QED BY <1>4, <2>1, <3>3, <3>4
  <2>7. QED BY <1>6, <2>3, <2>4, <2>5, <2>6
<1>7. QED BY <1>1, <1>2, <1>3, <1>5, <1>6

\* A writer joins the ones that have yet to count.
LEMMA CountingJoins ==
    ASSUME NEW w \in Writers, \A v \in Writers \ {w} : writer'[v] = writer[v], NEW s, s = ShardOf(w),
           writer[w].pc # "count", writer'[w].pc = "count", writer'[w].id = writer[w].id, NEW op
    PROVE  /\ Counting(s, op)' = Counting(s, op) \cup (IF op = writer'[w].op THEN {w} ELSE {})
           /\ w \notin Counting(s, op)
           /\ \A r : r # s => Counting(r, op)' = Counting(r, op)
<1>1. \A v \in Writers \ {w} : writer'[v] = writer[v] OBVIOUS
<1>2. s = shardFor(writer[w].id) BY DEF ShardOf
<1>3. \A r : Counting(r, op) = {v \in Writers : writer[v].pc = "count" /\ shardFor(writer[v].id) = r /\ writer[v].op = op}
  BY DEF Counting, ShardOf
<1>4. \A r : Counting(r, op)' = {v \in Writers : writer'[v].pc = "count" /\ shardFor(writer'[v].id) = r /\ writer'[v].op = op}
  BY DEF Counting, ShardOf
<1>5. \A v \in Writers : (writer'[v].pc = "count" /\ shardFor(writer'[v].id) = s /\ writer'[v].op = op)
        <=> \/ writer[v].pc = "count" /\ shardFor(writer[v].id) = s /\ writer[v].op = op
            \/ v = w /\ op = writer'[w].op
  BY <1>1, <1>2
<1>6. Counting(s, op)' = Counting(s, op) \cup (IF op = writer'[w].op THEN {w} ELSE {}) BY <1>3, <1>4, <1>5
<1>7. \A r : r # s => Counting(r, op)' = Counting(r, op) BY <1>1, <1>2, <1>3, <1>4
<1>8. QED BY <1>3, <1>6, <1>7

\* A writer has counted.
LEMMA CountingLeaves ==
    ASSUME NEW w \in Writers, \A v \in Writers \ {w} : writer'[v] = writer[v], NEW s, s = ShardOf(w),
           writer[w].pc = "count", writer'[w].pc # "count", NEW op
    PROVE  /\ Counting(s, op)' = Counting(s, op) \ {w}
           /\ w \in Counting(s, op) <=> op = writer[w].op
           /\ \A r : r # s => Counting(r, op)' = Counting(r, op)
<1>1. \A v \in Writers \ {w} : writer'[v] = writer[v] OBVIOUS
<1>2. s = shardFor(writer[w].id) BY DEF ShardOf
<1>3. \A r : Counting(r, op) = {v \in Writers : writer[v].pc = "count" /\ shardFor(writer[v].id) = r /\ writer[v].op = op}
  BY DEF Counting, ShardOf
<1>4. \A r : Counting(r, op)' = {v \in Writers : writer'[v].pc = "count" /\ shardFor(writer'[v].id) = r /\ writer'[v].op = op}
  BY DEF Counting, ShardOf
<1>5. \A v \in Writers : (writer'[v].pc = "count" /\ shardFor(writer'[v].id) = s /\ writer'[v].op = op)
        <=> v # w /\ writer[v].pc = "count" /\ shardFor(writer[v].id) = s /\ writer[v].op = op
  BY <1>1
<1>6. Counting(s, op)' = Counting(s, op) \ {w} BY <1>3, <1>4, <1>5
<1>7. \A r : r # s => Counting(r, op)' = Counting(r, op) BY <1>1, <1>2, <1>3, <1>4
<1>8. QED BY <1>2, <1>3, <1>6, <1>7

\* The sets of a shard are finite.
LEMMA ShardFinite ==
    ASSUME TypeOK, NEW s \in Shards
    PROVE  /\ IsFiniteSet(db[s]) /\ Cardinality(db[s]) \in Nat /\ db[s] \subseteq Ids /\ nodeCount[s] \in Int
           /\ Settled(s) \in Int
           /\ \A t \in Txs : /\ IsFiniteSet(InShard(s, tx[t].adds)) /\ Cardinality(InShard(s, tx[t].adds)) \in Nat
                             /\ IsFiniteSet(InShard(s, tx[t].dels)) /\ Cardinality(InShard(s, tx[t].dels)) \in Nat
                             /\ InShard(s, tx[t].adds) \subseteq Ids /\ InShard(s, tx[t].dels) \subseteq Ids
<1>1. IsFiniteSet(Ids) BY FS_Interval, EngineAssumption DEF Ids
<1>2. \A S \in SUBSET Ids : IsFiniteSet(S) /\ Cardinality(S) \in Nat BY <1>1, FS_Subset, FS_CardinalityType
<1>3. db[s] \subseteq Ids /\ nodeCount[s] \in Int BY DEF TypeOK
<1>4. \A t \in Txs : InShard(s, tx[t].adds) \subseteq Ids /\ InShard(s, tx[t].dels) \subseteq Ids
  BY DEF TypeOK, TxState, InShard
<1>5. Cardinality(Counting(s, "add")) \in Nat /\ Cardinality(Counting(s, "delete")) \in Nat BY CountingFinite
<1>6. Settled(s) \in Int BY <1>3, <1>5 DEF Settled
<1>7. QED BY <1>2, <1>3, <1>4, <1>6

\* The counter moves after the commit: the sum stays.
LEMMA CountCounts == ASSUME EngineInv, CountInv, NEW w \in Writers, Count(w) PROVE CountInv'
<1>0. PICK s : s = ShardOf(w) OBVIOUS
<1> DEFINE n == IF writer[w].op = "add" THEN nodeCount[s] + 1 ELSE nodeCount[s] - 1
<1>1. /\ writer[w].pc = "count" /\ writer' = [writer EXCEPT ![w] = NoWrite]
      /\ nodeCount' = [nodeCount EXCEPT ![s] = n]
      /\ UNCHANGED <<db, handle, tx, compact, miscounted>>
  BY <1>0 DEF Count, fileVars, histVars
<1>2. TypeOK BY DEF EngineInv
<1>3. s \in Shards /\ writer[w].op \in {"add", "delete"}
  BY <1>0, <1>1, <1>2, ShardType DEF TypeOK, ShardOf, WriterState
<1>4. nodeCount[s] \in Int BY <1>2, <1>3, ShardFinite
<1>5. nodeCount'[s] = n /\ \A r \in Shards \ {s} : nodeCount'[r] = nodeCount[r] BY <1>1, <1>2, <1>3 DEF TypeOK
<1>6. ASSUME NEW op
      PROVE  /\ Counting(s, op)' = Counting(s, op) \ {w}
             /\ w \in Counting(s, op) <=> op = writer[w].op
             /\ \A r : r # s => Counting(r, op)' = Counting(r, op)
  <2>1. writer'[w].pc # "count" /\ \A v \in Writers \ {w} : writer'[v] = writer[v]
    BY <1>1, <1>2, NoWriteFacts DEF TypeOK
  <2>2. QED BY <1>0, <1>1, <2>1, CountingLeaves
<1>7. ASSUME NEW op
      PROVE  Cardinality(Counting(s, op)') = IF op = writer[w].op THEN Cardinality(Counting(s, op)) - 1
                                             ELSE Cardinality(Counting(s, op))
  BY <1>6, CountingFinite, FS_RemoveElement
<1>8. Settled(s)' = Settled(s)
  <2>1. Cardinality(Counting(s, "add")) \in Nat /\ Cardinality(Counting(s, "delete")) \in Nat BY CountingFinite
  <2>2. Settled(s)' = nodeCount'[s] + Cardinality(Counting(s, "add")') - Cardinality(Counting(s, "delete")')
    BY DEF Settled
  <2>3. CASE writer[w].op = "add" BY <1>4, <1>5, <1>7, <2>1, <2>2, <2>3 DEF Settled
  <2>4. CASE writer[w].op = "delete" BY <1>4, <1>5, <1>7, <2>1, <2>2, <2>4 DEF Settled
  <2>5. QED BY <1>3, <2>3, <2>4
<1>9. \A r \in Shards : Counts(r)' <=> Counts(r) BY <1>1 DEF Counts
<1>10. Balanced(s)' BY <1>1, <1>3, <1>8, <1>9 DEF CountInv, Balanced
<1>11. ASSUME NEW r \in Shards \ {s} PROVE Balanced(r)'
  BY <1>1, <1>5, <1>6, <1>9, ShardSame DEF CountInv
<1>12. DelsHeld' /\ CopyOpen' BY <1>1 DEF CountInv, DelsHeld, CopyOpen
<1>13. QED BY <1>10, <1>11, <1>12 DEF CountInv

\* A shard has one transaction at most, and none when its lock is free.
LEMMA OneHolder ==
    ASSUME EngineInv, NEW s
    PROVE  /\ \A t, u \in Txs : s \in tx[t].held /\ s \in tx[u].held => t = u
           /\ lock[s] = Nobody => \A t \in Txs : s \notin tx[t].held
           /\ \A t \in Txs : s \in tx[t].held => s \in Shards
BY EngineAssumption DEF EngineInv, Locked, TypeOK, TxState

\* The file of shard s grows by A and shrinks by D, which it had.
LEMMA FileGrows ==
    ASSUME NEW S \in SUBSET Ids, NEW A \in SUBSET Ids, NEW D \in SUBSET S
    PROVE  /\ Cardinality((S \cup A) \ D) \in Nat
           /\ Cardinality((S \cup A) \ D) <= Cardinality(S) + Cardinality(A) - Cardinality(D)
<1>1. IsFiniteSet(Ids) BY FS_Interval, EngineAssumption DEF Ids
<1>2. IsFiniteSet(S) /\ IsFiniteSet(A) /\ IsFiniteSet(D) /\ IsFiniteSet(S \cap A) BY <1>1, FS_Subset
<1>3. Cardinality(S) \in Nat /\ Cardinality(A) \in Nat /\ Cardinality(D) \in Nat /\ Cardinality(S \cap A) \in Nat
  BY <1>2, FS_CardinalityType
<1>4. IsFiniteSet(S \cup A) /\ Cardinality(S \cup A) = Cardinality(S) + Cardinality(A) - Cardinality(S \cap A)
  BY <1>2, FS_Union
<1>5. Cardinality((S \cup A) \ D) = Cardinality(S \cup A) - Cardinality(D)
  <2> DEFINE T == S \cup A
  <2>1. T \cap D = D /\ IsFiniteSet(T) BY <1>4
  <2> HIDE DEF T
  <2>2. Cardinality(T \ D) = Cardinality(T) - Cardinality(T \cap D) BY <2>1, FS_Difference
  <2>3. QED BY <2>1, <2>2 DEF T
<1>6. IsFiniteSet((S \cup A) \ D) BY <1>4, FS_Difference
<1>7. Cardinality((S \cup A) \ D) \in Nat BY <1>6, FS_CardinalityType
<1>8. QED BY <1>3, <1>4, <1>5, <1>7

\* A Batch: the file and the ones that have yet to count it move together.
LEMMA BatchCounts == ASSUME EngineInv, CountInv, NEW w \in Writers, Batch(w) PROVE CountInv'
<1>0. PICK s : s = ShardOf(w) OBVIOUS
<1> DEFINE A == IF writer[w].op = "add" THEN {writer[w].id} ELSE {}
           D == IF writer[w].op = "delete" THEN {writer[w].id} ELSE {}
<1>1. writer[w].pc = "batch" /\ UNCHANGED <<nodeCount, handle, lock, tx, compact, miscounted>>
  BY DEF Batch, memVars
<1>2. TypeOK BY DEF EngineInv
<1>3. /\ s \in Shards /\ writer[w].op \in {"add", "delete"} /\ writer[w].id \in Ids /\ shardFor(writer[w].id) = s
      /\ db \in [Shards -> SUBSET Ids] /\ db[s] \subseteq Ids
  BY <1>0, <1>1, <1>2, ShardType DEF TypeOK, ShardOf, WriterState
<1>4. CASE /\ lock[s] = Nobody /\ D \subseteq db[s] /\ Apply(s, A, D)
           /\ writer' = [writer EXCEPT ![w].pc = "count"]
  <2>1. db' = [db EXCEPT ![s] = (db[s] \cup A) \ D] BY <1>4 DEF Apply
  <2>2. db'[s] = (db[s] \cup A) \ D /\ \A r \in Shards \ {s} : db'[r] = db[r] BY <1>3, <2>1
  <2>3. /\ writer'[w].pc = "count" /\ writer'[w].id = writer[w].id /\ writer'[w].op = writer[w].op
        /\ \A v \in Writers \ {w} : writer'[v] = writer[v]
    BY <1>2, <1>4 DEF TypeOK, WriterState
  <2>4. \A t \in Txs : s \notin tx[t].held BY <1>4, OneHolder
  <2>5. A \in SUBSET Ids /\ D \in SUBSET db[s] /\ db[s] \in SUBSET Ids BY <1>3, <1>4
  <2>6. /\ Cardinality(A) = IF writer[w].op = "add" THEN 1 ELSE 0
        /\ Cardinality(D) = IF writer[w].op = "delete" THEN 1 ELSE 0
    BY FS_EmptySet, FS_Singleton
  <2>7. Cardinality(db'[s]) <= Cardinality(db[s]) + Cardinality(A) - Cardinality(D) /\ Cardinality(db'[s]) \in Nat
    <3> HIDE DEF A, D
    <3>1. QED BY <2>2, <2>5, FileGrows
  <2> HIDE DEF A, D
  <2>8. ASSUME NEW op
        PROVE  /\ Counting(s, op)' = Counting(s, op) \cup (IF op = writer[w].op THEN {w} ELSE {})
               /\ w \notin Counting(s, op)
               /\ \A r : r # s => Counting(r, op)' = Counting(r, op)
    BY <1>0, <1>1, <2>3, CountingJoins
  <2>9. ASSUME NEW op
        PROVE  Cardinality(Counting(s, op)') = IF op = writer[w].op THEN Cardinality(Counting(s, op)) + 1
                                               ELSE Cardinality(Counting(s, op))
    <3>1. CASE op = writer[w].op BY <2>8, <3>1, CountingFinite, FS_AddElement
    <3>2. CASE op # writer[w].op BY <2>8, <3>2
    <3>3. QED BY <3>1, <3>2
  <2>10. Settled(s)' = IF writer[w].op = "add" THEN Settled(s) + 1 ELSE Settled(s) - 1
    <3>1. Cardinality(Counting(s, "add")) \in Nat /\ Cardinality(Counting(s, "delete")) \in Nat BY CountingFinite
    <3>2. Settled(s)' = nodeCount[s] + Cardinality(Counting(s, "add")') - Cardinality(Counting(s, "delete")')
      BY <1>1 DEF Settled
    <3>3. nodeCount[s] \in Int BY <1>2, <1>3 DEF TypeOK
    <3>4. CASE writer[w].op = "add" BY <2>9, <3>1, <3>2, <3>3, <3>4 DEF Settled
    <3>5. CASE writer[w].op = "delete" BY <2>9, <3>1, <3>2, <3>3, <3>5 DEF Settled
    <3>6. QED BY <1>3, <3>4, <3>5
  <2>11. \A r \in Shards : Counts(r)' <=> Counts(r) BY <1>1 DEF Counts
  <2>12. Balanced(s)'
    <3>1. SUFFICES ASSUME Counts(s) PROVE Settled(s)' >= Cardinality(db'[s])
      BY <1>1, <1>3, <2>4, <2>11 DEF Balanced
    <3>2. Settled(s) >= Cardinality(db[s]) BY <1>3, <2>4, <3>1 DEF CountInv, Balanced
    <3>3. Settled(s) \in Int /\ Cardinality(db[s]) \in Nat BY <1>2, <1>3, ShardFinite
    <3>4. CASE writer[w].op = "add" BY <2>6, <2>7, <2>10, <3>2, <3>3, <3>4
    <3>5. CASE writer[w].op = "delete" BY <2>6, <2>7, <2>10, <3>2, <3>3, <3>5
    <3>6. QED BY <1>3, <3>4, <3>5
  <2>13. ASSUME NEW r \in Shards \ {s} PROVE Balanced(r)'
    BY <1>1, <2>2, <2>8, <2>11, ShardSame DEF CountInv
  <2>14. DelsHeld'
    <3>1. \A t \in Txs : \A r \in tx[t].held : r \in Shards \ {s} BY <2>4, OneHolder
    <3>2. QED BY <1>1, <2>2, <3>1 DEF CountInv, DelsHeld
  <2>15. CopyOpen' BY <1>1 DEF CountInv, CopyOpen
  <2>16. QED BY <2>12, <2>13, <2>14, <2>15 DEF CountInv
<1>5. CASE writer' = [writer EXCEPT ![w] = NoWrite] /\ UNCHANGED db
  <2>1. NoWrite.pc # "count" BY NoWriteFacts
  <2>2. QED BY <1>1, <1>5, <2>1, WriterCounts
<1>6. QED BY <1>0, <1>3, <1>4, <1>5 DEF Batch

\* Rollback leaves the counters of the transaction's shards off, and says so.
LEMMA RollbackCounts == ASSUME EngineInv, CountInv, NEW t \in Txs, TxRollback(t) PROVE CountInv'
<1>1. /\ tx' = [tx EXCEPT ![t].st = "rolledback", ![t].held = {}]
      /\ miscounted' = miscounted \cup tx[t].held
      /\ UNCHANGED <<db, nodeCount, handle, writer, compact>>
  BY DEF TxRollback, memVars, fileVars
<1>2. tx \in [Txs -> TxState] /\ tx[t] \in TxState BY DEF EngineInv, TypeOK
<1>3. /\ tx'[t].held = {} /\ tx'[t].st = "rolledback" /\ \A u \in Txs \ {t} : tx'[u] = tx[u]
  BY <1>1, <1>2 DEF TxState
<1>4. ASSUME NEW r, NEW op PROVE Counting(r, op)' = Counting(r, op) BY <1>1 DEF Counting, ShardOf
<1>5. \A r \in Shards : Counts(r)' => Counts(r) BY <1>1 DEF Counts
<1>6. ASSUME NEW r \in Shards PROVE Balanced(r)'
  <2>1. CASE r \in tx[t].held
    <3>1. ~Counts(r)' BY <1>1, <2>1 DEF Counts
    <3>2. QED BY <3>1 DEF Balanced
  <2>2. CASE r \notin tx[t].held
    <3>1. \A u \in Txs : r \in tx'[u].held <=> r \in tx[u].held BY <1>3, <2>2
    <3>2. \A u \in Txs : r \in tx[u].held => tx'[u] = tx[u] BY <1>3, <2>2
    <3>3. QED BY <1>1, <1>4, <1>5, <3>1, <3>2, ShardSame DEF CountInv
  <2>3. QED BY <2>1, <2>2
<1>7. DelsHeld' BY <1>1, <1>3 DEF CountInv, DelsHeld
<1>8. CopyOpen' BY <1>1 DEF CountInv, CopyOpen
<1>9. QED BY <1>6, <1>7, <1>8 DEF CountInv

\* One shard of a Commit: the file gets what the counter has had already, or the
\* shard is known to be miscounted.
LEMMA CommitCounts == ASSUME EngineInv, CountInv, NEW t \in Txs, TxCommitShard(t) PROVE CountInv'
<1>1. tx[t].st = "committing" /\ UNCHANGED <<nodeCount, handle, writer, compact>> BY DEF TxCommitShard, memVars
<1>2. tx \in [Txs -> TxState] /\ tx[t] \in TxState /\ db \in [Shards -> SUBSET Ids] BY DEF EngineInv, TypeOK
<1>3. PICK s \in tx[t].held :
         \/ /\ Apply(s, InShard(s, tx[t].adds), InShard(s, tx[t].dels))
            /\ tx' = [tx EXCEPT ![t].held = @ \ {s}] /\ UNCHANGED miscounted
         \/ /\ tx' = [tx EXCEPT ![t].held = @ \ {s}, ![t].adds = @ \ InShard(s, tx[t].adds),
                                ![t].dels = @ \ InShard(s, tx[t].dels)]
            /\ miscounted' = miscounted \cup {s} /\ UNCHANGED db
  BY DEF TxCommitShard
<1>4. s \in Shards /\ TypeOK BY <1>2, <1>3 DEF TxState, EngineInv
<1>5. /\ \A u \in Txs \ {t} : tx'[u] = tx[u] /\ s \notin tx[u].held
      /\ tx'[t].held = tx[t].held \ {s} /\ tx'[t].st = "committing"
      /\ \A r \in Shards \ {s} : InShard(r, tx'[t].adds) = InShard(r, tx[t].adds)
      /\ \A r \in Shards \ {s} : InShard(r, tx'[t].dels) = InShard(r, tx[t].dels)
  <2>1. \A u \in Txs \ {t} : s \notin tx[u].held BY <1>3, OneHolder
  <2>2. \A u \in Txs \ {t} : tx'[u] = tx[u] BY <1>2, <1>3
  <2>3. tx'[t].held = tx[t].held \ {s} /\ tx'[t].st = "committing" BY <1>1, <1>2, <1>3 DEF TxState
  <2>4. /\ tx'[t].adds \in {tx[t].adds, tx[t].adds \ InShard(s, tx[t].adds)}
        /\ tx'[t].dels \in {tx[t].dels, tx[t].dels \ InShard(s, tx[t].dels)}
    BY <1>2, <1>3 DEF TxState
  <2>5. \A S : \A r \in Shards \ {s} : InShard(r, S \ InShard(s, S)) = InShard(r, S) BY DEF InShard
  <2>6. QED BY <2>1, <2>2, <2>3, <2>4, <2>5
<1>6. ASSUME NEW r, NEW op PROVE Counting(r, op)' = Counting(r, op) BY <1>1 DEF Counting, ShardOf
<1>7. \A r \in Shards : Counts(r)' => Counts(r) BY <1>1, <1>3 DEF Counts
<1>8. \A r \in Shards \ {s} : db'[r] = db[r] BY <1>2, <1>3, <1>4 DEF Apply
<1>9. ASSUME NEW r \in Shards \ {s} PROVE Balanced(r)'
  <2>1. \A u \in Txs : r \in tx'[u].held <=> r \in tx[u].held BY <1>5
  <2>2. \A u \in Txs : /\ InShard(r, tx'[u].adds) = InShard(r, tx[u].adds)
                       /\ InShard(r, tx'[u].dels) = InShard(r, tx[u].dels)
    BY <1>5
  <2>3. Balanced(r) /\ db'[r] = db[r] /\ nodeCount'[r] = nodeCount[r] BY <1>1, <1>8 DEF CountInv
  <2>4. QED BY <1>6, <1>7, <2>1, <2>2, <2>3, ShardSame
<1>10. Balanced(s)'
  <2>1. \A u \in Txs : s \notin tx'[u].held BY <1>5
  <2>2. SUFFICES ASSUME Counts(s)' PROVE Settled(s)' >= Cardinality(db'[s]) BY <2>1 DEF Balanced
  <2>3. s \notin miscounted' BY <2>2 DEF Counts
  <2>4. Apply(s, InShard(s, tx[t].adds), InShard(s, tx[t].dels)) BY <1>3, <2>3
  <2> DEFINE A == InShard(s, tx[t].adds)
             D == InShard(s, tx[t].dels)
  <2>5. db'[s] = (db[s] \cup A) \ D BY <1>2, <1>4, <2>4 DEF Apply
  <2>6. db[s] \in SUBSET Ids /\ A \in SUBSET Ids /\ D \in SUBSET db[s]
    BY <1>2, <1>3, <1>4 DEF TxState, InShard, CountInv, DelsHeld
  <2>7. Cardinality(A) \in Nat /\ Cardinality(D) \in Nat /\ Cardinality(db[s]) \in Nat /\ Settled(s) \in Int
    BY <1>4, ShardFinite
  <2>8. Settled(s) - Cardinality(A) + Cardinality(D) >= Cardinality(db[s])
    BY <1>3, <1>4, <1>7, <2>2 DEF CountInv, Balanced
  <2>9. Settled(s)' = Settled(s) BY <1>1, <1>6 DEF Settled
  <2> HIDE DEF A, D
  <2>10. /\ Cardinality(db'[s]) <= Cardinality(db[s]) + Cardinality(A) - Cardinality(D)
         /\ Cardinality(db'[s]) \in Nat
    BY <2>5, <2>6, FileGrows
  <2>11. QED BY <2>7, <2>8, <2>9, <2>10
<1>11. DelsHeld'
  <2>1. ASSUME NEW u \in Txs, NEW r \in tx'[u].held PROVE InShard(r, tx'[u].dels) \subseteq db'[r]
    <3>1. r \in tx[u].held /\ r \in Shards \ {s} BY <1>5, <2>1, OneHolder
    <3>2. InShard(r, tx'[u].dels) = InShard(r, tx[u].dels) BY <1>5, <3>1
    <3>3. QED BY <1>8, <3>1, <3>2 DEF CountInv, DelsHeld
  <2>2. \A u \in Txs : tx'[u].st \in {"none", "active"} => \A id \in tx'[u].dels : shardFor(id) \in tx'[u].held
    BY <1>5 DEF CountInv, DelsHeld
  <2>3. QED BY <2>1, <2>2 DEF DelsHeld
<1>12. CopyOpen' BY <1>1 DEF CountInv, CopyOpen
<1>13. QED BY <1>9, <1>10, <1>11, <1>12 DEF CountInv

\* The rename happens to a shard that nobody holds and whose counter does not count
\* for it until it is loaded.
LEMMA SwapCounts == ASSUME EngineInv, CountInv, CompactSwap PROVE CountInv'
<1>0. PICK s : s = compact.shard OBVIOUS
<1>1. compact.pc = "closed" /\ UNCHANGED <<nodeCount, tx, writer, miscounted>>
  BY DEF CompactSwap, CompactOnly, memVars
<1>2. PICK renamed \in BOOLEAN, opened \in BOOLEAN :
         /\ IF renamed THEN db' = [db EXCEPT ![s] = compact.copy] ELSE UNCHANGED fileVars
         /\ handle' = [handle EXCEPT ![s] = IF opened THEN "open" ELSE "closed"]
         /\ compact' = IF renamed /\ opened THEN [compact EXCEPT !.pc = "load", !.copy = {}] ELSE NoCompact
  BY <1>0 DEF CompactSwap
<1>3. /\ compact \in CompactState /\ s \in Shards /\ handle \in [Shards -> {"open", "closed"}]
      /\ db \in [Shards -> SUBSET Ids]
  BY <1>0 DEF EngineInv, TypeOK, CompactState
<1>4. /\ compact'.pc \in {"load", "idle"}
      /\ renamed /\ opened => compact'.pc = "load" /\ compact'.shard = s
  BY <1>0, <1>2, <1>3, FreshStart DEF CompactState
<1>5. handle'[s] = (IF opened THEN "open" ELSE "closed") /\ \A r \in Shards \ {s} : handle'[r] = handle[r] BY <1>2, <1>3
<1>6. \A r \in Shards \ {s} : db'[r] = db[r] BY <1>2, <1>3 DEF fileVars
<1>7. \A t \in Txs : s \notin tx[t].held
  <2>1. lock[s] = Nobody BY <1>0, <1>1 DEF EngineInv, Locked
  <2>2. QED BY <2>1, OneHolder
<1>8. ASSUME NEW r, NEW op PROVE Counting(r, op)' = Counting(r, op) BY <1>1 DEF Counting, ShardOf
<1>9. ASSUME NEW r \in Shards \ {s} PROVE Balanced(r)'
  <2>1. Counts(r)' => Counts(r) BY <1>0, <1>1, <1>4, <1>5 DEF Counts
  <2>2. QED BY <1>1, <1>6, <1>8, <2>1, ShardSame DEF CountInv
<1>10. Balanced(s)'
  <2>1. CASE Counts(s)'
    <3>1. handle'[s] = "open" /\ ~(compact'.pc = "load" /\ compact'.shard = s) /\ s \notin miscounted
      BY <1>1, <1>4, <2>1 DEF Counts
    <3>2. opened /\ ~renamed BY <1>4, <1>5, <3>1
    <3>3. db' = db BY <1>2, <3>2 DEF fileVars
    <3>4. Counts(s) BY <1>0, <1>1, <3>1 DEF Counts
    <3>5. QED BY <1>1, <1>3, <1>8, <3>3, <3>4, ShardSame DEF CountInv
  <2>2. CASE ~Counts(s)' BY <2>2 DEF Balanced
  <2>3. QED BY <2>1, <2>2
<1>11. DelsHeld'
  <2>1. \A t \in Txs : \A r \in tx[t].held : r \in Shards \ {s} BY <1>7, OneHolder
  <2>2. QED BY <1>1, <1>6, <2>1 DEF CountInv, DelsHeld
<1>12. CopyOpen' BY <1>4 DEF CopyOpen
<1>13. QED BY <1>9, <1>10, <1>11, <1>12 DEF CountInv

\* Nobody has anything to count in a shard that is not busy.
LEMMA NotBusy ==
    ASSUME NEW s, ~Busy(s)
    PROVE  /\ \A t \in Txs : s \notin tx[t].held
           /\ \A op : Cardinality(Counting(s, op)) = 0
<1>1. \A op : Counting(s, op) = {} BY DEF Busy, Counting
<1>2. QED BY <1>1, FS_EmptySet DEF Busy

\* loadCounters of a shard at rest; of a busy one the counter is known to be off.
LEMMA LoadCounts == ASSUME EngineInv, CountInv, CompactLoad PROVE CountInv'
<1>0. PICK s : s = compact.shard OBVIOUS
<1> DEFINE n == loadCount(meta[s], db[s])
<1>1. /\ compact.pc = "load" /\ nodeCount' = [nodeCount EXCEPT ![s] = n]
      /\ miscounted' = IF Busy(s) THEN miscounted \cup {s} ELSE miscounted \ {s}
      /\ compact' = IF s = NumShards - 1 THEN NoCompact ELSE [NoCompact EXCEPT !.pc = "copy", !.shard = s + 1]
      /\ UNCHANGED <<db, tx, writer, handle>>
  BY <1>0 DEF CompactLoad, CompactOnly, fileVars
<1>2. /\ s \in Shards /\ meta[s] \in Meta /\ db[s] \subseteq Ids /\ nodeCount \in [Shards -> Int]
  BY <1>0 DEF EngineInv, TypeOK, CompactState
<1>3. n \in Int /\ n >= Cardinality(db[s]) /\ Cardinality(db[s]) \in Nat BY <1>2, LoadCountType
<1> HIDE DEF n
<1>4. nodeCount'[s] = n /\ \A r \in Shards \ {s} : nodeCount'[r] = nodeCount[r] BY <1>1, <1>2
<1>5. compact'.pc \in {"idle", "copy"} BY <1>1, FreshStart DEF NoCompact
<1>6. ASSUME NEW r, NEW op PROVE Counting(r, op)' = Counting(r, op) BY <1>1 DEF Counting, ShardOf
<1>7. ASSUME NEW r \in Shards \ {s} PROVE Balanced(r)'
  <2>1. Counts(r)' => Counts(r) BY <1>0, <1>1, <1>5 DEF Counts
  <2>2. QED BY <1>1, <1>4, <1>6, <2>1, ShardSame DEF CountInv
<1>8. Balanced(s)'
  <2>1. CASE Busy(s)
    <3>1. ~Counts(s)' BY <1>1, <2>1 DEF Counts
    <3>2. QED BY <3>1 DEF Balanced
  <2>2. CASE ~Busy(s)
    <3>1. \A t \in Txs : s \notin tx[t].held BY <2>2, NotBusy
    <3>2. Cardinality(Counting(s, "add")) = 0 /\ Cardinality(Counting(s, "delete")) = 0 BY <2>2, NotBusy
    <3>3. Settled(s)' = n BY <1>3, <1>4, <1>6, <3>2 DEF Settled
    <3>4. QED BY <1>1, <1>3, <3>1, <3>3 DEF Balanced
  <2>3. QED BY <2>1, <2>2
<1>9. DelsHeld' BY <1>1 DEF CountInv, DelsHeld
<1>10. CopyOpen' BY <1>5 DEF CopyOpen
<1>11. QED BY <1>7, <1>8, <1>9, <1>10 DEF CountInv

\* The call's work in its shard: the counter moves as the transaction's own nodes do.
LEMMA shardTxCounts == ASSUME EngineInv, CountInv, NEW t \in Txs, shardTx(t) PROVE CountInv'
<1>0. PICK id : id = tx[t].want OBVIOUS
<1>00. PICK s : s = shardFor(id) OBVIOUS
<1> DEFINE Done(A, D) == [tx[t] EXCEPT !.held = tx[t].held \cup {s}, !.want = 0, !.adds = A, !.dels = D]
<1>1. /\ UNCHANGED <<db, handle, writer, compact, miscounted>>
      /\ id # 0 /\ (s \in tx[t].held \/ lock[s] = Nobody)
  BY <1>0, <1>00 DEF shardTx, TxOnly, fileVars, histVars
<1>2. /\ tx[t] \in TxState /\ tx \in [Txs -> TxState] /\ db \in [Shards -> SUBSET Ids]
      /\ nodeCount \in [Shards -> Int] /\ TypeOK
  BY DEF EngineInv, TypeOK
<1>3. id \in Ids /\ s \in Shards BY <1>0, <1>00, <1>1, <1>2, ShardType DEF TxState
<1>4. tx[t].st = "active" BY <1>0, <1>1 DEF EngineInv, Phases
<1>5. \A u \in Txs \ {t} : s \notin tx[u].held
  <2>1. CASE s \in tx[t].held BY <2>1, OneHolder
  <2>2. CASE lock[s] = Nobody BY <2>2, OneHolder
  <2>3. QED BY <1>1, <2>1, <2>2
<1> DEFINE A0 == InShard(s, tx[t].adds)
           D0 == InShard(s, tx[t].dels)
<1>6. /\ IsFiniteSet(A0) /\ Cardinality(A0) \in Nat /\ IsFiniteSet(D0) /\ Cardinality(D0) \in Nat
      /\ Settled(s) \in Int /\ Cardinality(db[s]) \in Nat /\ nodeCount[s] \in Int
  BY <1>2, <1>3, ShardFinite
<1>7. s \notin tx[t].held => A0 = {} /\ D0 = {}
  BY <1>4 DEF EngineInv, Phases, CountInv, DelsHeld, InShard
<1>8. D0 \subseteq db[s] BY <1>7 DEF CountInv, DelsHeld
<1>9. Counts(s) => Settled(s) - Cardinality(A0) + Cardinality(D0) >= Cardinality(db[s])
  <2>1. CASE s \in tx[t].held BY <1>3, <2>1 DEF CountInv, Balanced
  <2>2. CASE s \notin tx[t].held
    <3>1. \A u \in Txs : s \notin tx[u].held BY <1>5, <2>2
    <3>2. Counts(s) => Settled(s) >= Cardinality(db[s]) BY <1>3, <3>1 DEF CountInv, Balanced
    <3>3. Cardinality(A0) = 0 /\ Cardinality(D0) = 0 BY <1>7, <2>2, FS_EmptySet
    <3> HIDE DEF A0, D0
    <3>4. QED BY <1>6, <3>2, <3>3
  <2>3. QED BY <2>1, <2>2
<1>10. ASSUME NEW r, NEW op PROVE Counting(r, op)' = Counting(r, op) BY <1>1 DEF Counting, ShardOf
<1>11. \A r \in Shards : Counts(r)' <=> Counts(r) BY <1>1 DEF Counts
<1>12. ASSUME NEW A, NEW D, NEW k \in Int, tx' = [tx EXCEPT ![t] = Done(A, D)],
              nodeCount' = [nodeCount EXCEPT ![s] = nodeCount[s] + k],
              \A r \in Shards \ {s} : InShard(r, A) = InShard(r, tx[t].adds) /\ InShard(r, D) = InShard(r, tx[t].dels),
              D \subseteq tx[t].dels \cup ({id} \cap db[s]),
              Cardinality(InShard(s, A)) \in Nat, Cardinality(InShard(s, D)) \in Nat,
              k - Cardinality(InShard(s, A)) + Cardinality(InShard(s, D)) >= Cardinality(D0) - Cardinality(A0)
       PROVE  CountInv'
  <2>1. /\ tx'[t].held = tx[t].held \cup {s} /\ tx'[t].adds = A /\ tx'[t].dels = D /\ tx'[t].st = "active"
        /\ \A u \in Txs \ {t} : tx'[u] = tx[u]
    BY <1>2, <1>4, <1>12 DEF TxState
  <2> HIDE DEF Done
  <2>2. nodeCount'[s] = nodeCount[s] + k /\ \A r \in Shards \ {s} : nodeCount'[r] = nodeCount[r]
    BY <1>2, <1>3, <1>12
  <2>3. ASSUME NEW r \in Shards \ {s} PROVE Balanced(r)'
    <3>1. \A u \in Txs : r \in tx'[u].held <=> r \in tx[u].held BY <2>1
    <3>2. \A u \in Txs : /\ InShard(r, tx'[u].adds) = InShard(r, tx[u].adds)
                         /\ InShard(r, tx'[u].dels) = InShard(r, tx[u].dels)
      BY <1>12, <2>1
    <3>3. Balanced(r) /\ db'[r] = db[r] /\ nodeCount'[r] = nodeCount[r] BY <1>1, <2>2 DEF CountInv
    <3>4. QED BY <1>10, <1>11, <3>1, <3>2, <3>3, ShardSame
  <2>4. Balanced(s)'
    <3>1. s \in tx'[t].held /\ \A u \in Txs \ {t} : s \notin tx'[u].held BY <1>5, <2>1
    <3>2. Settled(s)' = Settled(s) + k
      <4>1. Cardinality(Counting(s, "add")) \in Nat /\ Cardinality(Counting(s, "delete")) \in Nat BY CountingFinite
      <4>2. Settled(s)' = nodeCount'[s] + Cardinality(Counting(s, "add")) - Cardinality(Counting(s, "delete"))
        BY <1>10 DEF Settled
      <4>3. QED BY <1>6, <2>2, <4>1, <4>2 DEF Settled
    <3>3. Counts(s) => Settled(s)' - Cardinality(InShard(s, A)) + Cardinality(InShard(s, D)) >= Cardinality(db[s])
      <4> HIDE DEF A0, D0
      <4>1. QED BY <1>6, <1>9, <1>12, <3>2
    <3>4. QED BY <1>1, <1>3, <1>11, <2>1, <3>1, <3>3 DEF Balanced
  <2>5. DelsHeld'
    <3>1. ASSUME NEW u \in Txs, NEW r \in tx'[u].held PROVE InShard(r, tx'[u].dels) \subseteq db'[r]
      <4>1. CASE u # t BY <1>1, <2>1, <3>1, <4>1 DEF CountInv, DelsHeld
      <4>2. CASE u = t /\ r # s
        <5>1. r \in tx[t].held /\ r \in Shards BY <2>1, <3>1, <4>2, OneHolder
        <5>2. QED BY <1>1, <1>12, <2>1, <4>2, <5>1 DEF CountInv, DelsHeld
      <4>3. CASE u = t /\ r = s
        <5>1. InShard(s, D) \subseteq D0 \cup db[s] BY <1>12 DEF InShard
        <5>2. QED BY <1>1, <1>8, <2>1, <4>3, <5>1
      <4>4. QED BY <4>1, <4>2, <4>3
    <3>2. \A i \in D : shardFor(i) \in tx'[t].held
      BY <1>00, <1>4, <1>12, <2>1 DEF CountInv, DelsHeld
    <3>3. QED BY <2>1, <3>1, <3>2 DEF CountInv, DelsHeld
  <2>6. CopyOpen' BY <1>1 DEF CountInv, CopyOpen
  <2>7. QED BY <2>3, <2>4, <2>5, <2>6 DEF CountInv
<1>13. CASE /\ tx' = [tx EXCEPT ![t] = Done(tx[t].adds \cup {id}, tx[t].dels)]
            /\ nodeCount' = [nodeCount EXCEPT ![s] = nodeCount[s] + 1]
  <2>1. InShard(s, tx[t].adds \cup {id}) = A0 \cup {id} BY <1>00 DEF InShard
  <2>2. \A r \in Shards \ {s} : InShard(r, tx[t].adds \cup {id}) = InShard(r, tx[t].adds) BY <1>00 DEF InShard
  <2> HIDE DEF Done
  <2>4. Cardinality(A0 \cup {id}) \in Nat /\ Cardinality(A0 \cup {id}) <= Cardinality(A0) + 1
    <3> HIDE DEF A0
    <3>1. Cardinality(A0 \cup {id}) = IF id \in A0 THEN Cardinality(A0) ELSE Cardinality(A0) + 1
      BY <1>6, FS_AddElement
    <3>2. Cardinality(A0 \cup {id}) = Cardinality(A0) \/ Cardinality(A0 \cup {id}) = Cardinality(A0) + 1 BY <3>1
    <3>3. Cardinality(A0) \in Nat BY <1>6
    <3>4. QED BY <3>2, <3>3
  <2>5. 1 - Cardinality(A0 \cup {id}) + Cardinality(D0) >= Cardinality(D0) - Cardinality(A0)
    <3> HIDE DEF A0, D0
    <3>1. QED BY <1>6, <2>4
  <2> DEFINE A == tx[t].adds \cup {id}
             D == tx[t].dels
  <2>6. tx' = [tx EXCEPT ![t] = Done(A, D)] BY <1>13
  <2>7. InShard(s, A) = A0 \cup {id} /\ InShard(s, D) = D0 BY <2>1
  <2>8. \A r \in Shards \ {s} : InShard(r, A) = InShard(r, tx[t].adds) /\ InShard(r, D) = InShard(r, tx[t].dels)
    BY <2>2
  <2>9. D \subseteq tx[t].dels \cup ({id} \cap db[s]) /\ 1 \in Int OBVIOUS
  <2> HIDE DEF A, D, A0, D0
  <2>10. QED BY <1>6, <1>12, <1>13, <2>4, <2>5, <2>6, <2>7, <2>8, <2>9
<1>14. CASE /\ id \in Visible(t, s)
            /\ tx' = [tx EXCEPT ![t] = Done(tx[t].adds \ {id}, tx[t].dels \cup ({id} \cap db[s]))]
            /\ nodeCount' = [nodeCount EXCEPT ![s] = nodeCount[s] - 1]
  <2> DEFINE A == tx[t].adds \ {id}
             D == tx[t].dels \cup ({id} \cap db[s])
  <2>1. InShard(s, A) = A0 \ {id} /\ InShard(s, D) = D0 \cup ({id} \cap db[s]) BY <1>00 DEF InShard
  <2>2. \A r \in Shards \ {s} : InShard(r, A) = InShard(r, tx[t].adds) /\ InShard(r, D) = InShard(r, tx[t].dels)
    BY <1>00 DEF InShard
  <2>3. id \notin D0 /\ (id \in db[s] \/ id \in A0) BY <1>14 DEF Visible, InShard
  <2>4. nodeCount' = [nodeCount EXCEPT ![s] = nodeCount[s] + (-1)]
    <3>1. nodeCount[s] - 1 = nodeCount[s] + (-1) BY <1>6
    <3>2. QED BY <1>14, <3>1
  <2> HIDE DEF Done
  <2>5. /\ Cardinality(A0 \ {id}) \in Nat /\ Cardinality(D0 \cup ({id} \cap db[s])) \in Nat
        /\ (-1) - Cardinality(A0 \ {id}) + Cardinality(D0 \cup ({id} \cap db[s])) >= Cardinality(D0) - Cardinality(A0)
    <3> HIDE DEF A0, D0
    <3>1. /\ Cardinality(A0 \ {id}) \in Nat
          /\ Cardinality(A0 \ {id}) = IF id \in A0 THEN Cardinality(A0) - 1 ELSE Cardinality(A0)
      BY <1>6, FS_RemoveElement, FS_CardinalityType
    <3>2. CASE id \in db[s]
      <4>1. D0 \cup ({id} \cap db[s]) = D0 \cup {id} BY <3>2
      <4>2. Cardinality(D0 \cup {id}) = Cardinality(D0) + 1 BY <1>6, <2>3, FS_AddElement
      <4>3. Cardinality(D0 \cup ({id} \cap db[s])) = Cardinality(D0) + 1 BY <4>1, <4>2
      <4>4. Cardinality(A0 \ {id}) \in Nat /\ Cardinality(A0 \ {id}) <= Cardinality(A0) BY <1>6, <3>1
      <4>5. QED BY <1>6, <4>3, <4>4
    <3>3. CASE id \notin db[s]
      <4>1. D0 \cup ({id} \cap db[s]) = D0 /\ id \in A0 BY <2>3, <3>3
      <4>2. Cardinality(D0 \cup ({id} \cap db[s])) = Cardinality(D0) BY <4>1
      <4>3. Cardinality(A0 \ {id}) \in Nat /\ Cardinality(A0 \ {id}) = Cardinality(A0) - 1 BY <3>1, <4>1
      <4>4. QED BY <1>6, <4>2, <4>3
    <3>4. QED BY <3>2, <3>3
  <2>6. tx' = [tx EXCEPT ![t] = Done(A, D)] BY <1>14
  <2>7. D \subseteq tx[t].dels \cup ({id} \cap db[s]) /\ -1 \in Int OBVIOUS
  <2> HIDE DEF A, D, A0, D0
  <2>8. QED BY <1>12, <2>1, <2>2, <2>4, <2>5, <2>6, <2>7
<1>15. CASE tx' = [tx EXCEPT ![t] = Done(tx[t].adds, tx[t].dels)] /\ UNCHANGED nodeCount
  <2>1. nodeCount' = [nodeCount EXCEPT ![s] = nodeCount[s] + 0] BY <1>2, <1>3, <1>6, <1>15
  <2>2. 0 - Cardinality(A0) + Cardinality(D0) >= Cardinality(D0) - Cardinality(A0)
    <3> HIDE DEF A0, D0
    <3>1. QED BY <1>6
  <2> DEFINE A == tx[t].adds
             D == tx[t].dels
  <2>3. tx' = [tx EXCEPT ![t] = Done(A, D)] /\ InShard(s, A) = A0 /\ InShard(s, D) = D0 BY <1>15
  <2> HIDE DEF Done
  <2>4. \A r \in Shards \ {s} : InShard(r, A) = InShard(r, tx[t].adds) /\ InShard(r, D) = InShard(r, tx[t].dels)
    OBVIOUS
  <2>5. D \subseteq tx[t].dels \cup ({id} \cap db[s]) /\ 0 \in Int OBVIOUS
  <2> HIDE DEF A, D, A0, D0
  <2>6. QED BY <1>6, <1>12, <2>1, <2>2, <2>3, <2>4, <2>5
<1>16. QED BY <1>0, <1>00, <1>13, <1>14, <1>15 DEF shardTx

\* A restart loads every counter, healed upwards, and nobody is busy.
LEMMA OpenCounts ==
    ASSUME EngineInv, NEW m \in [Shards -> Meta], Open(m)
    PROVE  CountInv'
<1>1. /\ nodeCount' = [s \in Shards |-> loadCount(m[s], db[s])]
      /\ tx' = [t \in Txs |-> NoTx] /\ compact' = NoCompact /\ UNCHANGED db
  BY DEF Open
<1>2. \A w \in Writers : writer'[w].pc = "idle" BY NoWriteFacts DEF Open
<1>3. ASSUME NEW s \in Shards PROVE Balanced(s)'
  <2>1. db[s] \subseteq Ids BY DEF EngineInv, TypeOK
  <2>2. /\ loadCount(m[s], db[s]) \in Int /\ loadCount(m[s], db[s]) >= Cardinality(db[s])
    BY <2>1, LoadCountType
  <2>3. nodeCount'[s] = loadCount(m[s], db[s]) BY <1>1
  <2>4. Counting(s, "add")' = {} /\ Counting(s, "delete")' = {} BY <1>2 DEF Counting
  <2>5. Settled(s)' = nodeCount'[s] + 0 - 0 BY <2>4, FS_EmptySet DEF Settled
  <2>6. Settled(s)' >= Cardinality(db'[s]) BY <1>1, <2>2, <2>3, <2>5
  <2>7. \A t \in Txs : s \notin tx'[t].held BY <1>1, FreshStart
  <2>8. QED BY <2>6, <2>7 DEF Balanced
<1>4. DelsHeld' /\ CopyOpen' BY <1>1, FreshStart DEF DelsHeld, CopyOpen
<1>5. QED BY <1>3, <1>4 DEF CountInv

\* The empty database has nothing to count.
LEMMA CountInit == Init => CountInv
<1> SUFFICES ASSUME Init PROVE CountInv OBVIOUS
<1>1. \A w \in Writers : writer[w].pc = "idle" BY NoWriteFacts DEF Init
<1>2. ASSUME NEW s \in Shards PROVE Balanced(s)
  <2>1. Counting(s, "add") = {} /\ Counting(s, "delete") = {} BY <1>1 DEF Counting
  <2>2. nodeCount[s] = 0 /\ db[s] = {} BY DEF Init
  <2>3. Settled(s) = 0 /\ Cardinality(db[s]) = 0 BY <2>1, <2>2, FS_EmptySet DEF Settled
  <2>4. \A t \in Txs : s \notin tx[t].held BY FreshStart DEF Init
  <2>5. QED BY <2>3, <2>4 DEF Balanced
<1>3. DelsHeld /\ CopyOpen BY FreshStart DEF Init, DelsHeld, CopyOpen
<1>4. QED BY <1>2, <1>3 DEF CountInv

\* Every step keeps the counters in balance.
LEMMA CountStep == EngineInv /\ CountInv /\ [Next]_vars => CountInv'
<1> SUFFICES ASSUME EngineInv, CountInv, [Next]_vars PROVE CountInv' OBVIOUS
<1>1. ASSUME NEW w \in Writers, WriteBegin(w) \/ WriterStep(w) PROVE CountInv'
  BY <1>1, EasyCounts, BatchCounts, CountCounts DEF WriterStep
<1>2. ASSUME NEW t \in Txs, TxBegin(t) \/ TxAddNode(t) \/ TxDeleteNode(t) \/ TxEnd(t) PROVE CountInv'
  BY <1>2, EasyCounts, shardTxCounts, RollbackCounts, CommitCounts DEF TxEnd
<1>3. CASE Snapshot \/ SnapshotShard \/ Release \/ UNCHANGED vars BY <1>3, EasyCounts
<1>4. CASE Compact \/ CompactStep BY <1>4, EasyCounts, SwapCounts, LoadCounts DEF CompactStep
<1>5. CASE Crash
  <2>1. meta \in [Shards -> Meta] BY DEF EngineInv, TypeOK
  <2>2. QED BY <1>5, <2>1, OpenCounts DEF Crash
<1>6. CASE Close
  <2> DEFINE m == [s \in Shards |-> persistCounters(s)]
  <2>1. \A s \in Shards : persistCounters(s) \in Meta BY DEF EngineInv, TypeOK, persistCounters, Meta
  <2>2. m \in [Shards -> Meta] BY <2>1
  <2>3. Open(m) BY <1>6 DEF Close
  <2> HIDE DEF m
  <2>4. QED BY <2>2, <2>3, OpenCounts
<1>7. QED BY <1>1, <1>2, <1>3, <1>4, <1>5, <1>6 DEF Next

\* "and counts are accurate" (storage.go): at rest the counter of a shard that no
\* rollback, failed commit or compaction beside a write has put off is never below
\* its nodes.
THEOREM CountsNotBelow == Spec => []CountNotBelow
<1>1. EngineInv /\ CountInv => CountNotBelow
  <2>1. SUFFICES ASSUME EngineInv, CountInv, NEW s \in Shards \ miscounted, handle[s] = "open", ~Busy(s),
                        ~(compact.pc = "load" /\ compact.shard = s)
                 PROVE  nodeCount[s] >= Cardinality(db[s])
    BY DEF CountNotBelow
  <2>2. Counts(s) BY <2>1 DEF Counts
  <2>3. /\ \A t \in Txs : s \notin tx[t].held
        /\ Cardinality(Counting(s, "add")) = 0 /\ Cardinality(Counting(s, "delete")) = 0
    BY <2>1, NotBusy
  <2>4. Settled(s) >= Cardinality(db[s]) BY <2>1, <2>2, <2>3 DEF CountInv, Balanced
  <2>5. nodeCount[s] \in Int BY <2>1, ShardFinite DEF EngineInv
  <2>6. QED BY <2>3, <2>4, <2>5 DEF Settled
<1>2. QED BY <1>1, CountInit, CountStep, EngineInvariance, PTL DEF Spec
================================================================================
