--------------------------------- MODULE Index ---------------------------------
(***************************************************************************)
(* The secondary indexes of the database (index.go, composite_index.go,      *)
(* constraint.go): what the node operations do to them inside their own        *)
(* transactions, how CREATE and DROP build and remove them one shard at a time    *)
(* beside those operations, and which of them a reopened database finds again.    *)
(*                                                                         *)
(* An index is named by the set of properties it is on: one property is a       *)
(* secondary index in idx_prop, more are a composite index in idx_composite.     *)
(* An entry lives in the shard of its node.  The unique constraint is on one      *)
(* label and one property; its index maps, in each shard, a value to a node.       *)
(***************************************************************************)
EXTENDS Integers, FiniteSets

CONSTANTS
    PropNames, Values, Absent,  \* properties of nodes and their formatted values
    Defs,        \* the indexes somebody may create: sets of property names
    Lead,        \* of a composite index: its first property name in sorted order
    NameLike,    \* the values that read like a property name
    UniqueProp,  \* the property of the unique constraint; its label is "the label"
    NumShards,   \* Options.ShardCount
    Admins,      \* goroutines that create and drop indexes
    None,        \* no node
    Payloads,    \* the properties callers send
    Preloaded,   \* the nodes that are there before the first index
    MaxNodes, MaxWrites, MaxDdl, MaxFaults  \* bounds: nodes, their changes, calls of
                                            \* CREATE and DROP, failures

ASSUME IndexAssumption ==
    /\ Defs \subseteq (SUBSET PropNames) \ {{}}
    /\ \A D \in Defs : Cardinality(D) > 1 => Lead[D] \in D
    /\ NameLike \subseteq Values /\ Absent \notin Values
    /\ None \notin 1..MaxNodes /\ None \notin [PropNames -> Values \cup {Absent}]
    /\ UniqueProp \in PropNames
    /\ Payloads \subseteq [PropNames -> Values \cup {Absent}]
    /\ NumShards \in Nat \ {0}
    /\ MaxNodes \in Nat /\ Preloaded \in 0..MaxNodes

Ids       == 1..MaxNodes
Shards    == 0..NumShards - 1
shardFor(id) == id % NumShards
Entry     == UNION {[def : {D}, id : Ids, vals : [D -> Values]] : D \in Defs}

VARIABLES
    node, labelled,     \* the nodes bucket, and the nodes with the label
    idx,                \* idx_prop and idx_composite: their entries
    idxUnique,          \* idx_unique: shard -> value -> node
    uniqueMeta,         \* unique_meta has the constraint
    indexed, unique,    \* indexedProps and compositeIndexes, uniqueConstraints
    ddl,                \* admin -> what it is doing
    missing, stale,     \* history: indexes some write passed by, see Passed
    nextID, writes, calls, faults

dataVars == <<node, labelled>>
idxVars  == <<idx, idxUnique, uniqueMeta>>
regVars  == <<indexed, unique>>
histVars == <<missing, stale>>
vars == <<dataVars, idxVars, regVars, ddl, histVars, nextID, writes, calls, faults>>

(***************************************************************************)
(* Entries of a node.                                                       *)
(***************************************************************************)

\* The key of a node in index D, if it has all of D's properties.
buildCompositeKey(D, id, props) ==
    IF \A p \in D : props[p] # Absent
    THEN {[def |-> D, id |-> id, vals |-> [p \in D |-> props[p]]]}
    ELSE {}

\* Entries of the registered indexes, put and deleted with the node.
indexNodeProps(E, id, props) ==
    E \cup UNION {buildCompositeKey(D, id, props) : D \in indexed}

\* Mutant: the composite indexes are not touched on the way out.
unindexNodeProps_singleOnly(E, id, props) ==
    E \ UNION {buildCompositeKey(D, id, props) : D \in {I \in indexed : Cardinality(I) = 1}}

unindexNodeProps(E, id, props) ==
    E \ UNION {buildCompositeKey(D, id, props) : D \in indexed}

Constrained(hasLabel, props) == unique /\ hasLabel /\ props[UniqueProp] # Absent

\* Nobody else in this shard owns the value.
checkUniqueConstraintsInTx(U, id, hasLabel, props) ==
    Constrained(hasLabel, props) => U[shardFor(id)][props[UniqueProp]] \in {None, id}

indexUniqueConstraints(U, id, hasLabel, props) ==
    IF Constrained(hasLabel, props)
    THEN [U EXCEPT ![shardFor(id)][props[UniqueProp]] = id]
    ELSE U

\* Mutant: whoever owns the entry, it goes.
unindexUnique_anyOwner(U, id, hasLabel, props) ==
    IF Constrained(hasLabel, props)
    THEN [U EXCEPT ![shardFor(id)][props[UniqueProp]] = None]
    ELSE U

\* Only the owner's entry goes.
unindexUniqueConstraints(U, id, hasLabel, props) ==
    IF Constrained(hasLabel, props) /\ U[shardFor(id)][props[UniqueProp]] = id
    THEN [U EXCEPT ![shardFor(id)][props[UniqueProp]] = None]
    ELSE U

(***************************************************************************)
(* CREATE and DROP of an index, as far as a node write can meet them.        *)
(***************************************************************************)
Idle == [op |-> "idle", def |-> {}, next |-> 0, clean |-> TRUE, seen |-> {}]

Builds == {"create", "collect", "put", "meta", "register"}
Drops  == {"drop", "redrop", "dropUnique", "dropMeta"}

Building(a) == ddl[a].op \in Builds
Dropping(D) == \E a \in Admins : ddl[a].op \in Drops /\ ddl[a].def = D

\* History.  A write to the node left the indexes in P as they were: their entries
\* of it are stale from now on, and whoever is building one of them and has
\* already read the node's shard is building from old data.
Passed(id, P, U) ==
    /\ stale' = stale \cup {D \in P : \E e \in idx : e.def = D /\ e.id = id}
    /\ missing' = missing \cup (P \cap indexed)
    /\ ddl' = [a \in Admins |->
                 IF /\ Building(a)
                    /\ ddl[a].def \in P \/ (U /\ ddl[a].def = {})
                    /\ shardFor(id) < ddl[a].next
                 THEN [ddl[a] EXCEPT !.clean = FALSE]
                 ELSE ddl[a]]

Maintained(id) == Passed(id, Defs \ indexed, ~unique)

Write ==
    /\ writes < MaxWrites
    /\ writes' = writes + 1
    /\ UNCHANGED <<uniqueMeta, regVars, calls, faults>>

(***************************************************************************)
(* The node operations.                                                     *)
(***************************************************************************)

\* A new node takes the next ID.
Alloc(id) == id = nextID /\ nextID' = nextID + 1

\* AddNode, and AddNodeWithLabels, which checks the constraint first.
AddNode(id, props, hasLabel) ==
    /\ Write /\ Alloc(id)
    /\ checkUniqueConstraintsInTx(idxUnique, id, hasLabel, props)
    /\ node' = [node EXCEPT ![id] = props]
    /\ labelled' = IF hasLabel THEN labelled \cup {id} ELSE labelled
    /\ idx' = indexNodeProps(idx, id, props)
    /\ idxUnique' = indexUniqueConstraints(idxUnique, id, hasLabel, props)
    /\ Maintained(id)

\* AddNodeBatch leaves every index to a later CreateIndex.
AddNodeBatch(id, props) ==
    /\ Write /\ Alloc(id)
    /\ node' = [node EXCEPT ![id] = props]
    /\ Passed(id, Defs, TRUE)
    /\ UNCHANGED <<labelled, idx, idxUnique>>

\* What UpdateNode and SetNodeProps share, given the properties they take out of
\* the unique index.
PutProps(id, new, unindexed) ==
    LET has == id \in labelled
        U   == unindexUniqueConstraints(idxUnique, id, has, unindexed)
    IN /\ Write
       /\ node[id] # None
       /\ checkUniqueConstraintsInTx(U, id, has, new)
       /\ node' = [node EXCEPT ![id] = new]
       /\ idx' = indexNodeProps(unindexNodeProps(idx, id, node[id]), id, new)
       /\ idxUnique' = indexUniqueConstraints(U, id, has, new)
       /\ Maintained(id)
       /\ UNCHANGED <<labelled, nextID>>

\* UpdateNode has merged the new values into oldProps by the time it removes
\* "old unique values" with it: the entry of the value that was there stays.
UpdateNode(id, p, v) ==
    LET merged == [node[id] EXCEPT ![p] = v]
    IN PutProps(id, merged, merged)

SetNodeProps(id, props) == PutProps(id, props, node[id])

DeleteNode(id) ==
    /\ Write
    /\ node[id] # None
    /\ idx' = unindexNodeProps(idx, id, node[id])
    /\ idxUnique' = unindexUniqueConstraints(idxUnique, id, id \in labelled, node[id])
    /\ node' = [node EXCEPT ![id] = None]
    /\ labelled' = labelled \ {id}
    /\ Maintained(id)
    /\ UNCHANGED nextID

AddLabel(id) ==
    /\ Write
    /\ node[id] # None /\ id \notin labelled
    /\ checkUniqueConstraintsInTx(idxUnique, id, TRUE, node[id])
    /\ labelled' = labelled \cup {id}
    /\ idxUnique' = indexUniqueConstraints(idxUnique, id, TRUE, node[id])
    /\ Passed(id, {}, ~unique)
    /\ UNCHANGED <<node, idx, nextID>>

\* The entry in the unique index stays.
RemoveLabel(id) ==
    /\ Write
    /\ id \in labelled
    /\ labelled' = labelled \ {id}
    /\ Passed(id, {}, ~unique)
    /\ UNCHANGED <<node, idx, idxUnique, nextID>>

NodeWrite(id) ==
    \/ \E props \in Payloads :
         \/ \E hasLabel \in BOOLEAN : AddNode(id, props, hasLabel)
         \/ AddNodeBatch(id, props)
         \/ SetNodeProps(id, props)
    \/ \E p \in PropNames, v \in Values : node[id] # None /\ UpdateNode(id, p, v)
    \/ DeleteNode(id) \/ AddLabel(id) \/ RemoveLabel(id)

(***************************************************************************)
(* CREATE and DROP: every shard is a transaction of its own.                 *)
(***************************************************************************)
ShardEntries(s, D) == {e \in idx : e.def = D /\ shardFor(e.id) = s}
Ddl == UNCHANGED <<dataVars, nextID, writes, calls, faults>>

\* History: two on one index at a time void each other's work.
Start(a, op, D) ==
    /\ ddl[a].op = "idle" /\ calls < MaxDdl
    /\ calls' = calls + 1
    /\ LET alone == \A b \in Admins : ddl[b].op = "idle" \/ ddl[b].def # D
       IN ddl' = [b \in Admins |->
            IF b = a THEN [Idle EXCEPT !.op = op, !.def = D, !.clean = alone]
            ELSE IF ddl[b].def = D THEN [ddl[b] EXCEPT !.clean = FALSE] ELSE ddl[b]]
    /\ UNCHANGED <<idxVars, regVars, histVars, dataVars, nextID, writes, faults>>

\* The properties are registered only after the last shard.
CreateIndexStart(a, D) == Start(a, "create", D)

CreateIndexShard(a) ==
    /\ ddl[a].op = "create" /\ ddl[a].next \in Shards
    /\ LET D == ddl[a].def
           S == {id \in Ids : node[id] # None /\ shardFor(id) = ddl[a].next}
       IN idx' = idx \cup UNION {buildCompositeKey(D, id, node[id]) : id \in S}
    /\ ddl' = [ddl EXCEPT ![a].next = @ + 1]
    /\ UNCHANGED <<idxUnique, uniqueMeta, regVars, histVars>> /\ Ddl

\* Mutant: the index is registered although a shard is still to be read.
CreateIndexRegister_early(a) ==
    /\ ddl[a].op = "create" /\ ddl[a].next >= NumShards - 1
    /\ indexed' = indexed \cup {ddl[a].def}
    /\ missing' = IF ddl[a].clean THEN missing \ {ddl[a].def} ELSE missing \cup {ddl[a].def}
    /\ ddl' = [ddl EXCEPT ![a] = Idle]
    /\ UNCHANGED <<idxVars, unique, stale>> /\ Ddl

CreateIndexRegister(a) ==
    /\ ddl[a].op = "create" /\ ddl[a].next = NumShards
    /\ indexed' = indexed \cup {ddl[a].def}
    /\ missing' = IF ddl[a].clean THEN missing \ {ddl[a].def} ELSE missing \cup {ddl[a].def}
    /\ ddl' = [ddl EXCEPT ![a] = Idle]
    /\ UNCHANGED <<idxVars, unique, stale>> /\ Ddl

\* DropIndex, and ReIndex, which is DropIndex and then CreateIndex.
DropIndexStart(a, D) == Start(a, "drop", D)
ReIndexStart(a, D)   == Cardinality(D) = 1 /\ Start(a, "redrop", D)

DropIndexShard(a) ==
    /\ ddl[a].op \in {"drop", "redrop"} /\ ddl[a].next \in Shards
    /\ idx' = idx \ ShardEntries(ddl[a].next, ddl[a].def)
    /\ ddl' = [ddl EXCEPT ![a].next = @ + 1]
    /\ UNCHANGED <<idxUnique, uniqueMeta, regVars, histVars>> /\ Ddl

DropIndexUnregister(a) ==
    LET D == ddl[a].def
        gone == \A e \in idx : e.def # D
    IN /\ ddl[a].op \in {"drop", "redrop"} /\ ddl[a].next = NumShards
       /\ indexed' = indexed \ {D}
       /\ missing' = IF gone THEN missing \ {D} ELSE missing
       /\ stale' = IF gone THEN stale \ {D} ELSE stale
       /\ ddl' = [ddl EXCEPT ![a] = IF @.op = "drop" THEN Idle
                                    ELSE [Idle EXCEPT !.op = "create", !.def = D, !.clean = ddl[a].clean]]
       /\ UNCHANGED <<idxVars, unique>> /\ Ddl

\* CreateUniqueConstraint: phase 1 reads the shards, one View each, and fails on a
\* value it has seen.
CreateUniqueStart(a) == ~unique /\ Start(a, "collect", {})

Duplicated(seen, S) ==
    \/ \E i, j \in S : i # j /\ node[i][UniqueProp] = node[j][UniqueProp]
    \/ \E i \in S, q \in seen : q[1] = node[i][UniqueProp]

CreateUniqueCollect(a) ==
    /\ ddl[a].op = "collect" /\ ddl[a].next \in Shards
    /\ LET c == ddl[a]
           S == {id \in labelled : shardFor(id) = c.next /\ node[id][UniqueProp] # Absent}
           last == c.next = NumShards - 1
       IN ddl' = [ddl EXCEPT ![a] =
                    IF Duplicated(c.seen, S) THEN Idle
                    ELSE [c EXCEPT !.op = IF last THEN "put" ELSE "collect",
                                   !.next = c.next + 1,
                                   !.seen = c.seen \cup {<<node[id][UniqueProp], id>> : id \in S}]]
    /\ UNCHANGED <<idxVars, regVars, histVars>> /\ Ddl

\* Phase 2: a transaction for every value, in the order of a Go map.
CreateUniquePut(a) ==
    /\ ddl[a].op = "put"
    /\ \/ \E q \in ddl[a].seen :
            /\ idxUnique' = [idxUnique EXCEPT ![shardFor(q[2])][q[1]] = q[2]]
            /\ ddl' = [ddl EXCEPT ![a].seen = @ \ {q}]
       \/ /\ ddl[a].seen = {}
          /\ ddl' = [ddl EXCEPT ![a].op = "meta"]
          /\ UNCHANGED idxUnique
    /\ UNCHANGED <<idx, uniqueMeta, regVars, histVars>> /\ Ddl

\* Phase 3: the metadata, then the registry.
CreateUniqueMeta(a) ==
    /\ ddl[a].op = "meta"
    /\ uniqueMeta' = TRUE
    /\ ddl' = [ddl EXCEPT ![a].op = "register"]
    /\ UNCHANGED <<idx, idxUnique, regVars, histVars>> /\ Ddl

CreateUniqueRegister(a) ==
    /\ ddl[a].op = "register"
    /\ unique' = TRUE
    /\ missing' = IF ddl[a].clean THEN missing \ {{}} ELSE missing \cup {{}}
    /\ ddl' = [ddl EXCEPT ![a] = Idle]
    /\ UNCHANGED <<idxVars, indexed, stale>> /\ Ddl

DropUniqueStart(a) == unique /\ Start(a, "dropUnique", {})

DropUniqueShard(a) ==
    /\ ddl[a].op = "dropUnique" /\ ddl[a].next \in Shards
    /\ idxUnique' = [idxUnique EXCEPT ![ddl[a].next] = [v \in Values |-> None]]
    /\ LET c == ddl[a]
       IN ddl' = [ddl EXCEPT ![a] = [c EXCEPT !.next = c.next + 1,
                                              !.op = IF c.next = NumShards - 1 THEN "dropMeta" ELSE "dropUnique"]]
    /\ UNCHANGED <<idx, uniqueMeta, regVars, histVars>> /\ Ddl

DropUniqueMeta(a) ==
    /\ ddl[a].op = "dropMeta" /\ uniqueMeta
    /\ uniqueMeta' = FALSE
    /\ UNCHANGED <<idx, idxUnique, regVars, histVars, ddl>> /\ Ddl

DropUniqueUnregister(a) ==
    /\ ddl[a].op = "dropMeta" /\ ~uniqueMeta
    /\ unique' = FALSE
    /\ ddl' = [ddl EXCEPT ![a] = Idle]
    /\ UNCHANGED <<idxVars, indexed, histVars>> /\ Ddl

\* The call has a transaction before it; the registry, which comes last, is memory.
InTransaction(a) ==
    \/ ddl[a].op \in {"create", "drop", "redrop", "collect", "dropUnique"} /\ ddl[a].next \in Shards
    \/ ddl[a].op \in {"put", "meta"}
    \/ ddl[a].op = "dropMeta" /\ uniqueMeta

\* A shard's transaction fails (write queue full, disk): the call returns its error
\* and leaves what it has done.
DdlFails(a) ==
    /\ InTransaction(a) /\ faults < MaxFaults
    /\ faults' = faults + 1
    /\ missing' = missing \cup (IF ddl[a].op \in Drops THEN {ddl[a].def} ELSE {})
    /\ ddl' = [ddl EXCEPT ![a] = Idle]
    /\ UNCHANGED <<dataVars, idxVars, regVars, stale, nextID, writes, calls>>

(***************************************************************************)
(* Reopening.                                                               *)
(***************************************************************************)

\* A property with an entry has an index.  The definition of a composite index is
\* read off its keys: values that look like names are taken for more properties.
discoverIndexes ==
    {D \in Defs : \E e \in idx : e.def = D /\ (Cardinality(D) > 1 => e.vals[Lead[D]] \notin NameLike)}

discoverUniqueConstraints == uniqueMeta

\* The process ends, at any point of a CREATE or a DROP, and Open runs.  History: an
\* index half built, half dropped or dropped beside a write comes back as one.
Reopen ==
    /\ faults < MaxFaults
    /\ faults' = faults + 1
    /\ indexed' = discoverIndexes
    /\ unique' = discoverUniqueConstraints
    /\ missing' = missing \cup {D \in discoverIndexes : D \notin indexed \/ Dropping(D)}
                          \cup (IF Dropping({}) \/ \E a \in Admins : Building(a) /\ ddl[a].def = {} /\ ~ddl[a].clean
                                THEN {{}} ELSE {})
    /\ ddl' = [a \in Admins |-> Idle]
    /\ UNCHANGED <<dataVars, idxVars, stale, nextID, writes, calls>>

(***************************************************************************)
(* Lookups.                                                                *)
(***************************************************************************)
Scan(D, vals) == {id \in Ids : node[id] # None /\ \A p \in D : node[id][p] = vals[p]}

\* FindByProperty and FindByCompositeIndex: a registered index is trusted, except
\* for the nodes that are gone.
Find(D, vals) ==
    IF D \in indexed
    THEN {id \in Ids : node[id] # None /\ [def |-> D, id |-> id, vals |-> vals] \in idx}
    ELSE Scan(D, vals)

\* The first shard that has an entry.
lookupUniqueIndex(v) ==
    LET S == {s \in Shards : idxUnique[s][v] # None}
    IN IF S = {} THEN None ELSE idxUnique[CHOOSE s \in S : \A t \in S : s <= t][v]

\* Open of a database that has nodes and no index.
Init ==
    /\ \E f \in [1..Preloaded -> Payloads] :
         node = [id \in Ids |-> IF id <= Preloaded THEN f[id] ELSE None]
    /\ labelled \in SUBSET (1..Preloaded)
    /\ nextID = Preloaded + 1
    /\ idx = {} /\ uniqueMeta = FALSE
    /\ idxUnique = [s \in Shards |-> [v \in Values |-> None]]
    /\ indexed = {} /\ unique = FALSE
    /\ ddl = [a \in Admins |-> Idle]
    /\ missing = {} /\ stale = {}
    /\ writes = 0 /\ calls = 0 /\ faults = 0

Admin(a) ==
    \/ \E D \in Defs : CreateIndexStart(a, D) \/ DropIndexStart(a, D) \/ ReIndexStart(a, D)
    \/ CreateIndexShard(a) \/ CreateIndexRegister(a)
    \/ DropIndexShard(a) \/ DropIndexUnregister(a)
    \/ CreateUniqueStart(a) \/ CreateUniqueCollect(a) \/ CreateUniquePut(a)
    \/ CreateUniqueMeta(a) \/ CreateUniqueRegister(a)
    \/ DropUniqueStart(a) \/ DropUniqueShard(a) \/ DropUniqueMeta(a) \/ DropUniqueUnregister(a)
    \/ DdlFails(a)

Next == (\E id \in Ids : NodeWrite(id)) \/ (\E a \in Admins : Admin(a)) \/ Reopen

Spec == Init /\ [][Next]_vars

(***************************************************************************)
(* Properties.                                                             *)
(***************************************************************************)

\* "Trust the index" (index.go:101): a lookup finds every node a full scan finds,
\* through every sequence of node operations, creations, drops, failures and
\* reopenings, unless a write passed the index by while it was built, AddNodeBatch
\* did, or an unfinished CREATE or DROP was left behind.
LookupComplete ==
    \A D \in Defs \ missing : \A vals \in [D -> Values] :
        ~Dropping(D) => Scan(D, vals) \subseteq Find(D, vals)

\* A lookup finds nothing else, unless a node that has an entry was changed while
\* the index was not registered.
LookupSound ==
    \A D \in Defs \ stale : \A vals \in [D -> Values] : Find(D, vals) \subseteq Scan(D, vals)

\* "Single-shard: fully serialized by bbolt's writer lock" (constraint.go:41): each
\* node with the label owns the entry of its value, so no other node of its shard
\* has that value, and the constraint lookup MERGE makes never comes back empty.
UniqueHeld ==
    unique /\ {} \notin missing /\ ~Dropping({}) =>
        \A id \in labelled :
            LET v == node[id][UniqueProp]
            IN v # Absent => idxUnique[shardFor(id)][v] = id /\ lookupUniqueIndex(v) # None
================================================================================
