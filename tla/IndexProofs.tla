------------------------------- MODULE IndexProofs -------------------------------
(***************************************************************************)
(* Proofs about Index for any properties, values, indexes, nodes, shards and      *)
(* administrators: what a lookup in a registered index finds, and who owns the     *)
(* entries of the unique constraint.                                             *)
(*                                                                         *)
(* None of the three properties is inductive: each needs what a CREATE under way   *)
(* has read so far and has to find unchanged when it registers the index, and that   *)
(* only a CREATE with the index to itself may count on that.                        *)
(***************************************************************************)
EXTENDS Index, OrderFacts

Props        == [PropNames -> Values \cup {Absent}]
IndexOps     == {"create", "drop", "redrop"}
UniqueBuilds == {"collect", "put", "meta", "register"}

--------------------------------------------------------------------------------
(* Facts about the operators.                                               *)

\* A node's shard is one of the shards.
LEMMA ShardType == \A id \in Ids : id \in Nat /\ shardFor(id) \in Shards /\ shardFor(id) \in Nat
BY IndexAssumption DEF Ids, Shards, shardFor

\* An entry is determined by its index, its node and its values.
LEMMA EntryFields ==
    ASSUME NEW e \in Entry
    PROVE  /\ e.def \in Defs /\ e.id \in Ids /\ e.vals \in [e.def -> Values]
           /\ e = [def |-> e.def, id |-> e.id, vals |-> e.vals]
<1>1. PICK D \in Defs : e \in [def : {D}, id : Ids, vals : [D -> Values]] BY DEF Entry
<1>2. QED BY <1>1

\* The key of a node is an entry of that node, with its values.
LEMMA KeyType ==
    ASSUME NEW D \in Defs, NEW id \in Ids, NEW props \in Props, NEW e \in buildCompositeKey(D, id, props)
    PROVE  e \in Entry /\ e.def = D /\ e.id = id /\ \A p \in D : e.vals[p] = props[p]
<1>1. (\A p \in D : props[p] # Absent) /\ e = [def |-> D, id |-> id, vals |-> [p \in D |-> props[p]]]
  BY DEF buildCompositeKey
<1>2. D \subseteq PropNames BY IndexAssumption
<1>3. \A p \in D : props[p] \in Values BY <1>1, <1>2 DEF Props
<1>4. [p \in D |-> props[p]] \in [D -> Values] BY <1>3
<1>5. e \in [def : {D}, id : Ids, vals : [D -> Values]] BY <1>1, <1>4
<1>6. e \in Entry BY <1>5 DEF Entry
<1>7. QED BY <1>1, <1>6

\* The entry of a node that has the values of an index is its key.
LEMMA KeyOf ==
    ASSUME NEW D \in Defs, NEW id \in Ids, NEW props, NEW vals \in [D -> Values],
           \A p \in D : props[p] = vals[p]
    PROVE  buildCompositeKey(D, id, props) = {[def |-> D, id |-> id, vals |-> vals]}
<1>1. \A p \in D : props[p] # Absent BY IndexAssumption
<1>2. [p \in D |-> props[p]] = vals OBVIOUS
<1>3. QED BY <1>1, <1>2 DEF buildCompositeKey

\* Owner of the entries of the unique index.
Owners == [Shards -> [Values -> Ids \cup {None}]]

\* What a change of the unique index for one node may do to the entries of others.
KeepsOthers(U, V, id) ==
    \A s \in Shards, v \in Values : U[s][v] \in Ids \ {id} => V[s][v] = U[s][v]

\* Putting a node's entry, after the check.
LEMMA IndexUniqueFacts ==
    ASSUME NEW U \in Owners, NEW id \in Ids, NEW has \in BOOLEAN, NEW props \in Props,
           checkUniqueConstraintsInTx(U, id, has, props)
    PROVE  LET V == indexUniqueConstraints(U, id, has, props)
           IN /\ V \in Owners /\ KeepsOthers(U, V, id)
              /\ ~unique => V = U
              /\ Constrained(has, props) => V[shardFor(id)][props[UniqueProp]] = id
<1> DEFINE V == indexUniqueConstraints(U, id, has, props)
<1>1. CASE Constrained(has, props)
  <2> DEFINE s == shardFor(id)
             v == props[UniqueProp]
  <2>1. s \in Shards BY ShardType
  <2>2. v \in Values BY <1>1, IndexAssumption DEF Constrained, Props
  <2>3. V = [U EXCEPT ![s][v] = id] BY <1>1 DEF indexUniqueConstraints
  <2>4. U[s][v] \in {None, id} BY <1>1 DEF checkUniqueConstraintsInTx
  <2>5. unique BY <1>1 DEF Constrained
  <2> HIDE DEF s, v, V
  <2>6. V \in Owners /\ V[s][v] = id BY <2>1, <2>2, <2>3 DEF Owners
  <2>7. ASSUME NEW t \in Shards, NEW x \in Values, U[t][x] \in Ids \ {id} PROVE V[t][x] = U[t][x]
    <3>1. ~(t = s /\ x = v) BY <2>4, <2>7, IndexAssumption DEF Ids
    <3>2. QED BY <2>1, <2>2, <2>3, <3>1 DEF Owners
  <2>8. KeepsOthers(U, V, id) BY <2>7 DEF KeepsOthers
  <2>9. QED BY <2>5, <2>6, <2>8 DEF s, v, V
<1>2. CASE ~Constrained(has, props)
  BY <1>2 DEF indexUniqueConstraints, KeepsOthers
<1>3. QED BY <1>1, <1>2

\* Taking a node's own entry out.
LEMMA UnindexUniqueFacts ==
    ASSUME NEW U \in Owners, NEW id \in Ids, NEW has \in BOOLEAN, NEW props \in Props
    PROVE  LET V == unindexUniqueConstraints(U, id, has, props)
           IN V \in Owners /\ KeepsOthers(U, V, id) /\ (~unique => V = U)
<1> DEFINE V == unindexUniqueConstraints(U, id, has, props)
           s == shardFor(id)
           v == props[UniqueProp]
<1>1. CASE Constrained(has, props) /\ U[s][v] = id
  <2>1. s \in Shards BY ShardType
  <2>2. v \in Values BY <1>1, IndexAssumption DEF Constrained, Props
  <2>3. V = [U EXCEPT ![s][v] = None] BY <1>1 DEF unindexUniqueConstraints
  <2>4. unique /\ U[s][v] = id BY <1>1 DEF Constrained
  <2> HIDE DEF s, v, V
  <2>5. V \in Owners BY <2>1, <2>2, <2>3 DEF Owners
  <2>6. ASSUME NEW t \in Shards, NEW x \in Values, U[t][x] \in Ids \ {id} PROVE V[t][x] = U[t][x]
    <3>1. ~(t = s /\ x = v) BY <2>4, <2>6
    <3>2. QED BY <2>1, <2>2, <2>3, <3>1 DEF Owners
  <2>7. KeepsOthers(U, V, id) BY <2>6 DEF KeepsOthers
  <2>8. QED BY <2>4, <2>5, <2>7 DEF s, v, V
<1>2. CASE ~(Constrained(has, props) /\ U[s][v] = id)
  BY <1>2 DEF unindexUniqueConstraints, KeepsOthers
<1>3. QED BY <1>1, <1>2

--------------------------------------------------------------------------------
(* The invariant.                                                           *)

\* A call of CREATE or DROP under way.
Call ==
    [op : {"idle"} \cup Builds \cup Drops, def : Defs \cup {{}}, next : 0..NumShards,
     clean : BOOLEAN, seen : SUBSET (Values \X Ids)]

\* What a call has in hand in each of its phases.
CallOK(c) ==
    /\ c.op \in IndexOps => c.def \in Defs
    /\ c.op \notin IndexOps => c.def = {}
    /\ c.op \in {"put", "meta", "register"} => c.next = NumShards
    /\ c.op = "collect" => c.next \in Shards
    /\ c.op \in {"meta", "register"} => c.seen = {}

\* Values of the variables.
TypeOK ==
    /\ node \in [Ids -> Props \cup {None}]
    /\ labelled \subseteq {id \in Ids : node[id] # None}
    /\ idx \subseteq Entry
    /\ idxUnique \in Owners
    /\ uniqueMeta \in BOOLEAN /\ unique \in BOOLEAN
    /\ indexed \subseteq Defs
    /\ ddl \in [Admins -> Call] /\ \A a \in Admins : CallOK(ddl[a])
    /\ nextID \in Nat

\* IDs that were not handed out have neither node nor entry.
Fresh ==
    /\ \A id \in Ids : id >= nextID => node[id] = None
    /\ \A e \in idx : e.id < nextID

\* A call that is clean is the only one on its index.
Alone ==
    \A a, b \in Admins :
        a # b /\ ddl[a].op # "idle" /\ ddl[a].clean =>
            ddl[b].op = "idle" \/ ddl[b].def # ddl[a].def

\* Entry e says what its node says.
Matches(e) == node[e.id] # None => \A p \in e.def : e.vals[p] = node[e.id][p]

\* LookupSound, of indexes that are not registered too.
EntriesTrue == \A e \in idx : e.def \notin stale => Matches(e)

\* The node has its entry in index D.
HasEntry(D, id) == node[id] # None => buildCompositeKey(D, id, node[id]) \subseteq idx

\* LookupComplete: a registered index has every node's entry, ...
Full ==
    \A D \in indexed \ missing : ~Dropping(D) => \A id \in Ids : HasEntry(D, id)

\* ... because a clean CREATE has the entries of the shards it is done with.
BuiltSoFar ==
    \A a \in Admins : ddl[a].op = "create" /\ ddl[a].clean =>
        \A id \in Ids : shardFor(id) < ddl[a].next => HasEntry(ddl[a].def, id)

\* The node owns the entry of its value.
Val(id)   == node[id][UniqueProp]
Owned(id) == Val(id) # Absent => idxUnique[shardFor(id)][Val(id)] = id

\* UniqueHeld without the lookup.
AllOwned ==
    unique /\ {} \notin missing /\ ~Dropping({}) => \A id \in labelled : Owned(id)

\* The nodes a CreateUniqueConstraint has read.
ReadBy(a) == {id \in labelled : shardFor(id) < ddl[a].next /\ Val(id) # Absent}

\* While the call is clean, they have the values it has seen, no two the same, and
\* each is yet to be put or owns its entry.
Collected ==
    \A a \in Admins : ddl[a].op \in UniqueBuilds /\ ddl[a].clean =>
        /\ ~unique
        /\ \A q \in ddl[a].seen : q[2] \in ReadBy(a) /\ q[1] = Val(q[2])
        /\ \A id \in ReadBy(a) : <<Val(id), id>> \in ddl[a].seen \/ (ddl[a].op # "collect" /\ Owned(id))
        /\ \A i, j \in ReadBy(a) : Val(i) = Val(j) => i = j

\* A call that goes on while the constraint is registered was not alone.
LateBuild ==
    unique /\ (\E a \in Admins : ddl[a].op \in UniqueBuilds) => {} \in missing

\* The metadata is ahead of the registry only between the last two steps of a call.
MetaAhead ==
    uniqueMeta /\ ~unique => {} \in missing \/ \E a \in Admins : ddl[a].op = "register"

IndexInv ==
    /\ TypeOK /\ Fresh /\ Alone
    /\ EntriesTrue /\ Full /\ BuiltSoFar
    /\ AllOwned /\ Collected /\ LateBuild /\ MetaAhead

--------------------------------------------------------------------------------
(* Node operations.                                                         *)

\* A call changes in one way when a write passes it by: it may not be clean any more.
LEMMA PassedFacts ==
    ASSUME TypeOK, NEW id \in Ids, NEW P, NEW U \in BOOLEAN, Passed(id, P, U)
    PROVE  /\ missing' = missing \cup (P \cap indexed)
           /\ stale' = stale \cup {D \in P : \E e \in idx : e.def = D /\ e.id = id}
           /\ ddl' \in [Admins -> Call] /\ \A a \in Admins : CallOK(ddl'[a])
           /\ \A a \in Admins :
                /\ ddl'[a].op = ddl[a].op /\ ddl'[a].def = ddl[a].def
                /\ ddl'[a].next = ddl[a].next /\ ddl'[a].seen = ddl[a].seen
                /\ ddl'[a].clean => ddl[a].clean
                /\ ddl'[a].clean /\ Building(a) /\ (ddl[a].def \in P \/ (U /\ ddl[a].def = {}))
                     => ~(shardFor(id) < ddl[a].next)
<1> DEFINE hit(a) == /\ Building(a)
                     /\ ddl[a].def \in P \/ (U /\ ddl[a].def = {})
                     /\ shardFor(id) < ddl[a].next
<1>1. ddl' = [a \in Admins |-> IF hit(a) THEN [ddl[a] EXCEPT !.clean = FALSE] ELSE ddl[a]]
  BY DEF Passed
<1>2. ASSUME NEW a \in Admins
      PROVE  /\ ddl'[a] \in Call /\ CallOK(ddl'[a])
             /\ ddl'[a].op = ddl[a].op /\ ddl'[a].def = ddl[a].def
             /\ ddl'[a].next = ddl[a].next /\ ddl'[a].seen = ddl[a].seen
             /\ ddl'[a].clean => ddl[a].clean
             /\ ddl'[a].clean => ~hit(a)
  <2>1. ddl[a] \in Call /\ CallOK(ddl[a]) BY DEF TypeOK
  <2>2. CASE hit(a)
    <3>1. ddl'[a] = [ddl[a] EXCEPT !.clean = FALSE] BY <1>1, <2>2
    <3>2. /\ ddl'[a] \in Call /\ ddl'[a].clean = FALSE
          /\ ddl'[a].op = ddl[a].op /\ ddl'[a].def = ddl[a].def
          /\ ddl'[a].next = ddl[a].next /\ ddl'[a].seen = ddl[a].seen
      BY <2>1, <3>1 DEF Call
    <3>3. QED BY <2>1, <3>2 DEF CallOK
  <2>3. CASE ~hit(a)
    <3>1. ddl'[a] = ddl[a] BY <1>1, <2>3
    <3>2. QED BY <2>1, <2>3, <3>1
  <2>4. QED BY <2>2, <2>3
<1>3. ddl' \in [Admins -> Call] BY <1>1, <1>2
<1>4. missing' = missing \cup (P \cap indexed)
      /\ stale' = stale \cup {D \in P : \E e \in idx : e.def = D /\ e.id = id}
  BY DEF Passed
<1>5. QED BY <1>2, <1>3, <1>4

\* What a node operation is to the indexes: it changes one node, the entries of that
\* node, and keeps the ones of the indexes it does not pass by.
WriteOf(id, P) ==
    /\ \E U \in BOOLEAN : Passed(id, P, U) /\ (~unique => U)
    /\ UNCHANGED <<uniqueMeta, regVars>>
    /\ \A j \in Ids \ {id} : node'[j] = node[j] /\ (j \in labelled' <=> j \in labelled)
    /\ \A e \in Entry : e.id # id => (e \in idx' <=> e \in idx)
    /\ \A D \in Defs \ P : HasEntry(D, id) => HasEntry(D, id)'
    /\ \A e \in idx' : e.id = id /\ e.def \notin stale' => Matches(e)'
    /\ KeepsOthers(idxUnique, idxUnique', id)
    /\ unique /\ id \in labelled' /\ (Owned(id) \/ id \notin labelled) => Owned(id)'
    /\ ~unique => idxUnique' = idxUnique
    /\ nextID <= nextID' /\ id < nextID'

WriteTypes ==
    /\ node' \in [Ids -> Props \cup {None}]
    /\ labelled' \subseteq {j \in Ids : node'[j] # None}
    /\ idx' \subseteq Entry
    /\ idxUnique' \in Owners
    /\ nextID' \in Nat

\* Such an operation keeps the invariant.
LEMMA WriteKeeps ==
    ASSUME IndexInv, NEW id \in Ids, NEW P, WriteOf(id, P), WriteTypes
    PROVE  IndexInv'
<1> USE DEF IndexInv
<1>1. PICK U \in BOOLEAN : Passed(id, P, U) /\ (~unique => U) BY DEF WriteOf
<1>2. UNCHANGED <<uniqueMeta, indexed, unique>> BY DEF WriteOf, regVars
<1>3. /\ missing' = missing \cup (P \cap indexed)
      /\ stale \subseteq stale'
      /\ ddl' \in [Admins -> Call] /\ \A a \in Admins : CallOK(ddl'[a])
      /\ \A a \in Admins :
           /\ ddl'[a].op = ddl[a].op /\ ddl'[a].def = ddl[a].def
           /\ ddl'[a].next = ddl[a].next /\ ddl'[a].seen = ddl[a].seen
           /\ ddl'[a].clean => ddl[a].clean
           /\ ddl'[a].clean /\ Building(a) /\ (ddl[a].def \in P \/ (U /\ ddl[a].def = {}))
                => ~(shardFor(id) < ddl[a].next)
  BY <1>1, PassedFacts
<1>4. \A D : Dropping(D)' <=> Dropping(D) BY <1>3 DEF Dropping
<1>5. TypeOK' BY <1>2, <1>3 DEF TypeOK, WriteTypes
<1>6. Fresh'
  <2>1. ASSUME NEW j \in Ids, j >= nextID' PROVE node'[j] = None
    <3>1. j \in Nat /\ id \in Nat /\ nextID \in Nat /\ nextID' \in Nat
      BY ShardType DEF TypeOK, WriteTypes
    <3>2. j # id /\ j >= nextID BY <2>1, <3>1 DEF WriteOf
    <3>3. QED BY <3>2 DEF WriteOf, Fresh
  <2>2. ASSUME NEW e \in idx' PROVE e.id < nextID'
    <3>1. e \in Entry /\ e.id \in Ids BY EntryFields DEF WriteTypes
    <3>2. CASE e.id = id BY <3>2 DEF WriteOf
    <3>3. CASE e.id # id
      <4>1. e.id < nextID BY <2>2, <3>1, <3>3 DEF WriteOf, Fresh
      <4>2. e.id \in Nat /\ nextID \in Nat /\ nextID' \in Nat /\ nextID <= nextID'
        BY <3>1, ShardType DEF TypeOK, WriteTypes, WriteOf
      <4>3. QED BY <4>1, <4>2
    <3>4. QED BY <3>2, <3>3
  <2>3. QED BY <2>1, <2>2 DEF Fresh
<1>7. Alone' BY <1>3 DEF Alone
<1>8. EntriesTrue'
  <2>1. SUFFICES ASSUME NEW e \in idx', e.def \notin stale' PROVE Matches(e)'
    BY DEF EntriesTrue
  <2>2. e \in Entry /\ e.id \in Ids BY EntryFields DEF WriteTypes
  <2>3. CASE e.id = id BY <2>1, <2>3 DEF WriteOf
  <2>4. CASE e.id # id
    <3>1. e \in idx /\ node'[e.id] = node[e.id] BY <2>1, <2>2, <2>4 DEF WriteOf
    <3>2. Matches(e) BY <1>3, <2>1, <3>1 DEF EntriesTrue
    <3>3. QED BY <3>1, <3>2 DEF Matches
  <2>5. QED BY <2>3, <2>4
<1>9. ASSUME NEW D \in Defs, NEW j \in Ids \ {id}, HasEntry(D, j) PROVE HasEntry(D, j)'
  <2>1. node'[j] = node[j] BY DEF WriteOf
  <2>2. SUFFICES ASSUME node[j] # None, NEW e \in buildCompositeKey(D, j, node[j]) PROVE e \in idx'
    BY <2>1 DEF HasEntry
  <2>3. node[j] \in Props BY <2>2 DEF TypeOK
  <2>4. e \in Entry /\ e.id = j BY <2>3, KeyType
  <2>5. e \in idx BY <1>9, <2>2 DEF HasEntry
  <2>6. QED BY <2>4, <2>5 DEF WriteOf
<1>10. Full'
  <2>1. SUFFICES ASSUME NEW D \in indexed \ missing', ~Dropping(D), NEW j \in Ids PROVE HasEntry(D, j)'
    BY <1>2, <1>4 DEF Full
  <2>2. D \in Defs \ P /\ D \notin missing BY <1>3, <2>1 DEF TypeOK
  <2>3. HasEntry(D, j) BY <2>1, <2>2 DEF Full
  <2>4. CASE j = id BY <2>2, <2>3, <2>4 DEF WriteOf
  <2>5. CASE j # id BY <1>9, <2>2, <2>3, <2>5
  <2>6. QED BY <2>4, <2>5
<1>11. BuiltSoFar'
  <2>1. SUFFICES ASSUME NEW a \in Admins, ddl[a].op = "create", ddl'[a].clean,
                        NEW j \in Ids, shardFor(j) < ddl[a].next, NEW D, D = ddl[a].def
                 PROVE  HasEntry(D, j)'
    BY <1>3 DEF BuiltSoFar
  <2>2. ddl[a].clean /\ D \in Defs BY <1>3, <2>1 DEF TypeOK, CallOK, IndexOps
  <2>3. HasEntry(D, j) BY <2>1, <2>2 DEF BuiltSoFar
  <2>4. CASE j # id BY <1>9, <2>2, <2>3, <2>4
  <2>5. CASE j = id
    <3>1. Building(a) BY <2>1 DEF Building, Builds
    <3>2. D \notin P BY <1>3, <2>1, <2>5, <3>1
    <3>3. QED BY <2>2, <2>3, <2>5, <3>2 DEF WriteOf
  <2>6. QED BY <2>4, <2>5
<1>12. ASSUME NEW j \in Ids \ {id}, j \in labelled', Owned(j) PROVE Owned(j)'
  <2>1. node'[j] = node[j] /\ j \in labelled BY <1>12 DEF WriteOf
  <2>2. node[j] \in Props BY <2>1 DEF TypeOK
  <2>3. CASE Val(j) = Absent BY <2>1, <2>3 DEF Owned, Val
  <2>4. CASE Val(j) # Absent
    <3>1. Val(j) \in Values BY <2>2, <2>4, IndexAssumption DEF Val, Props
    <3>2. idxUnique[shardFor(j)][Val(j)] = j BY <1>12, <2>4 DEF Owned
    <3>3. idxUnique'[shardFor(j)][Val(j)] = j BY <3>1, <3>2, ShardType DEF WriteOf, KeepsOthers
    <3>4. QED BY <2>1, <3>3 DEF Owned, Val
  <2>5. QED BY <2>3, <2>4
<1>13. AllOwned'
  <2>1. SUFFICES ASSUME unique, {} \notin missing, ~Dropping({}), NEW j \in labelled' PROVE Owned(j)'
    BY <1>2, <1>3, <1>4 DEF AllOwned
  <2>2. j \in Ids /\ (j \in labelled => Owned(j)) BY <2>1 DEF AllOwned, WriteTypes
  <2>3. CASE j = id BY <2>1, <2>2, <2>3 DEF WriteOf
  <2>4. CASE j # id
    <3>1. j \in labelled BY <2>1, <2>2, <2>4 DEF WriteOf
    <3>2. QED BY <1>12, <2>1, <2>2, <2>4, <3>1
  <2>5. QED BY <2>3, <2>4
<1>14. Collected'
  <2>1. SUFFICES ASSUME NEW a \in Admins, ddl[a].op \in UniqueBuilds, ddl'[a].clean
                 PROVE  /\ ~unique
                        /\ \A q \in ddl[a].seen : q[2] \in ReadBy(a)' /\ q[1] = Val(q[2])'
                        /\ \A j \in ReadBy(a)' : <<Val(j)', j>> \in ddl[a].seen \/ (ddl[a].op # "collect" /\ Owned(j)')
                        /\ \A i, j \in ReadBy(a)' : Val(i)' = Val(j)' => i = j
    BY <1>2, <1>3 DEF Collected
  <2>2. /\ ~unique
        /\ \A q \in ddl[a].seen : q[2] \in ReadBy(a) /\ q[1] = Val(q[2])
        /\ \A j \in ReadBy(a) : <<Val(j), j>> \in ddl[a].seen \/ (ddl[a].op # "collect" /\ Owned(j))
        /\ \A i, j \in ReadBy(a) : Val(i) = Val(j) => i = j
    BY <1>3, <2>1 DEF Collected
  <2>3. U /\ Building(a) /\ ddl[a].def = {}
    BY <1>1, <2>1, <2>2 DEF Building, Builds, UniqueBuilds, TypeOK, CallOK, IndexOps
  <2>4. ~(shardFor(id) < ddl[a].next) BY <1>3, <2>1, <2>3
  <2>5. idxUnique' = idxUnique /\ ddl'[a].next = ddl[a].next BY <1>3, <2>2 DEF WriteOf
  <2>6. \A j \in Ids \ {id} : Val(j)' = Val(j) /\ (Owned(j)' <=> Owned(j))
    BY <2>5 DEF WriteOf, Val, Owned
  <2>7. labelled \subseteq Ids /\ labelled' \subseteq Ids BY DEF TypeOK, WriteTypes
  <2>8. \A j : j \in ReadBy(a)' <=> j \in ReadBy(a)
    BY <2>4, <2>5, <2>6, <2>7 DEF ReadBy, WriteOf
  <2>9. \A j \in ReadBy(a) : j \in Ids \ {id} BY <2>4, <2>7 DEF ReadBy
  <2>10. QED BY <2>2, <2>6, <2>8, <2>9
<1>15. LateBuild' /\ MetaAhead' BY <1>2, <1>3 DEF LateBuild, MetaAhead
<1>16. QED BY <1>5, <1>6, <1>7, <1>8, <1>10, <1>11, <1>13, <1>14, <1>15

\* Putting a node's entries in the registered indexes.
LEMMA IndexNodeFacts ==
    ASSUME TypeOK, NEW E, E \subseteq Entry, NEW id \in Ids, NEW props \in Props
    PROVE  LET F == indexNodeProps(E, id, props)
           IN /\ F \subseteq Entry
              /\ \A e : e.id # id => (e \in F <=> e \in E)
              /\ \A D \in indexed : buildCompositeKey(D, id, props) \subseteq F
              /\ \A e \in F \ E : e.id = id /\ \A p \in e.def : e.vals[p] = props[p]
<1> DEFINE K == UNION {buildCompositeKey(D, id, props) : D \in indexed}
<1>1. ASSUME NEW e \in K
      PROVE  e \in Entry /\ e.id = id /\ \A p \in e.def : e.vals[p] = props[p]
  <2>1. PICK D \in indexed : e \in buildCompositeKey(D, id, props) OBVIOUS
  <2>2. D \in Defs BY DEF TypeOK
  <2>3. QED BY <2>1, <2>2, KeyType
<1>2. indexNodeProps(E, id, props) = E \cup K BY DEF indexNodeProps
<1>3. \A D \in indexed : buildCompositeKey(D, id, props) \subseteq K OBVIOUS
<1> HIDE DEF K
<1>4. QED BY <1>1, <1>2, <1>3

\* Taking a node's entries out of them.
LEMMA UnindexNodeFacts ==
    ASSUME TypeOK, NEW E, E \subseteq Entry, NEW id \in Ids, NEW props \in Props
    PROVE  LET F == unindexNodeProps(E, id, props)
           IN /\ F \subseteq E
              /\ \A e \in E : e.id # id => e \in F
              /\ \A e \in F, D \in indexed : e \notin buildCompositeKey(D, id, props)
<1> DEFINE K == UNION {buildCompositeKey(D, id, props) : D \in indexed}
<1>1. ASSUME NEW e \in K PROVE e.id = id
  <2>1. PICK D \in indexed : e \in buildCompositeKey(D, id, props) OBVIOUS
  <2>2. D \in Defs BY DEF TypeOK
  <2>3. QED BY <2>1, <2>2, KeyType
<1>2. unindexNodeProps(E, id, props) = E \ K BY DEF unindexNodeProps
<1>3. \A D \in indexed : buildCompositeKey(D, id, props) \subseteq K OBVIOUS
<1> HIDE DEF K
<1>4. QED BY <1>1, <1>2, <1>3

\* An entry that says what its node says is the one the operations take out.
LEMMA TrueEntryIsKey ==
    ASSUME TypeOK, NEW e \in idx, node[e.id] # None, Matches(e)
    PROVE  e \in buildCompositeKey(e.def, e.id, node[e.id])
<1>1. /\ e.def \in Defs /\ e.id \in Ids /\ e.vals \in [e.def -> Values]
      /\ e = [def |-> e.def, id |-> e.id, vals |-> e.vals]
  BY EntryFields DEF TypeOK
<1>2. \A p \in e.def : node[e.id][p] = e.vals[p] BY DEF Matches
<1>3. buildCompositeKey(e.def, e.id, node[e.id]) = {[def |-> e.def, id |-> e.id, vals |-> e.vals]}
  BY <1>1, <1>2, KeyOf
<1>4. QED BY <1>1, <1>3

\* A new node has no entry.
LEMMA AllocFacts ==
    ASSUME IndexInv, NEW id \in Ids, Alloc(id)
    PROVE  /\ nextID' \in Nat /\ nextID <= nextID' /\ id < nextID'
           /\ node[id] = None /\ id \notin labelled /\ \A e \in idx : e.id # id
BY DEF IndexInv, TypeOK, Fresh, Alloc

\* AddNode and AddNodeWithLabels put the entries of a node that had none.
LEMMA AddNodeKeeps ==
    ASSUME IndexInv, NEW id \in Ids, NEW props \in Payloads, NEW has \in BOOLEAN, AddNode(id, props, has)
    PROVE  IndexInv'
<1> USE DEF IndexInv
<1>1. props \in Props BY IndexAssumption DEF Props
<1>2. /\ nextID' \in Nat /\ nextID <= nextID' /\ id < nextID'
      /\ node[id] = None /\ id \notin labelled /\ \A e \in idx : e.id # id
  BY AllocFacts DEF AddNode
<1>3. /\ node' = [node EXCEPT ![id] = props]
      /\ labelled' = IF has THEN labelled \cup {id} ELSE labelled
      /\ idx' = indexNodeProps(idx, id, props)
      /\ idxUnique' = indexUniqueConstraints(idxUnique, id, has, props)
      /\ checkUniqueConstraintsInTx(idxUnique, id, has, props)
      /\ Passed(id, Defs \ indexed, ~unique) /\ UNCHANGED <<uniqueMeta, regVars>>
  BY DEF AddNode, Maintained, Write
<1>4. node' \in [Ids -> Props \cup {None}] /\ node'[id] = props /\ props # None
      /\ \A j \in Ids \ {id} : node'[j] = node[j]
  BY <1>1, <1>3, IndexAssumption DEF TypeOK, Props
<1>5. /\ idx' \subseteq Entry
      /\ \A e : e.id # id => (e \in idx' <=> e \in idx)
      /\ \A D \in indexed : buildCompositeKey(D, id, props) \subseteq idx'
      /\ \A e \in idx' \ idx : e.id = id /\ \A p \in e.def : e.vals[p] = props[p]
  BY <1>1, <1>3, IndexNodeFacts DEF TypeOK
<1>6. /\ idxUnique' \in Owners /\ KeepsOthers(idxUnique, idxUnique', id)
      /\ ~unique => idxUnique' = idxUnique
      /\ Constrained(has, props) => idxUnique'[shardFor(id)][props[UniqueProp]] = id
  BY <1>1, <1>3, IndexUniqueFacts DEF TypeOK
<1>7. labelled' \subseteq {j \in Ids : node'[j] # None} BY <1>3, <1>4 DEF TypeOK
<1>8. \A e \in idx' : e.id = id => Matches(e)'
  BY <1>2, <1>4, <1>5 DEF Matches
<1>9. \A D \in indexed : HasEntry(D, id)' BY <1>4, <1>5 DEF HasEntry
<1>10. unique /\ id \in labelled' => Owned(id)'
  BY <1>2, <1>3, <1>4, <1>6 DEF Owned, Val, Constrained
<1>11. WriteTypes BY <1>2, <1>4, <1>5, <1>6, <1>7 DEF WriteTypes
<1>12. (~unique) \in BOOLEAN BY DEF TypeOK
<1>13. \A j \in Ids \ {id} : j \in labelled' <=> j \in labelled BY <1>3
<1>14. WriteOf(id, Defs \ indexed)
  BY <1>2, <1>3, <1>4, <1>5, <1>6, <1>8, <1>9, <1>10, <1>12, <1>13 DEF WriteOf
<1>15. QED BY <1>11, <1>14, WriteKeeps

\* AddNodeBatch passes every index by.
LEMMA AddNodeBatchKeeps ==
    ASSUME IndexInv, NEW id \in Ids, NEW props \in Payloads, AddNodeBatch(id, props)
    PROVE  IndexInv'
<1> USE DEF IndexInv
<1>1. props \in Props BY IndexAssumption DEF Props
<1>2. /\ nextID' \in Nat /\ nextID <= nextID' /\ id < nextID'
      /\ node[id] = None /\ id \notin labelled /\ \A e \in idx : e.id # id
  BY AllocFacts DEF AddNodeBatch
<1>3. /\ node' = [node EXCEPT ![id] = props] /\ Passed(id, Defs, TRUE)
      /\ UNCHANGED <<labelled, idx, idxUnique, uniqueMeta, regVars>>
  BY DEF AddNodeBatch, Write
<1>4. node' \in [Ids -> Props \cup {None}] /\ node'[id] = props /\ props # None
      /\ \A j \in Ids \ {id} : node'[j] = node[j]
  BY <1>1, <1>3, IndexAssumption DEF TypeOK, Props
<1>5. labelled' \subseteq {j \in Ids : node'[j] # None} BY <1>2, <1>3, <1>4 DEF TypeOK
<1>6. WriteTypes BY <1>2, <1>3, <1>4, <1>5 DEF WriteTypes, TypeOK
<1>7. KeepsOthers(idxUnique, idxUnique', id) BY <1>3 DEF KeepsOthers
<1>8. WriteOf(id, Defs) BY <1>2, <1>3, <1>4, <1>7 DEF WriteOf
<1>9. QED BY <1>6, <1>8, WriteKeeps

\* UpdateNode and SetNodeProps, whatever they take out of the unique index.
LEMMA PutPropsKeeps ==
    ASSUME IndexInv, NEW id \in Ids, NEW new \in Props, NEW unindexed \in Props,
           PutProps(id, new, unindexed)
    PROVE  IndexInv'
<1> USE DEF IndexInv
<1> DEFINE has == id \in labelled
           U == unindexUniqueConstraints(idxUnique, id, has, unindexed)
           old == node[id]
           E == unindexNodeProps(idx, id, old)
<1>1. old # None /\ old \in Props BY DEF PutProps, TypeOK
<1>2. /\ node' = [node EXCEPT ![id] = new] /\ labelled' = labelled /\ nextID' = nextID
      /\ idx' = indexNodeProps(E, id, new)
      /\ idxUnique' = indexUniqueConstraints(U, id, has, new)
      /\ checkUniqueConstraintsInTx(U, id, has, new)
      /\ Passed(id, Defs \ indexed, ~unique) /\ UNCHANGED <<uniqueMeta, regVars>>
  BY DEF PutProps, Maintained, Write
<1>3. nextID \in Nat /\ id < nextID BY <1>1, ShardType DEF TypeOK, Fresh
<1>4. node' \in [Ids -> Props \cup {None}] /\ node'[id] = new /\ new # None
      /\ \A j \in Ids \ {id} : node'[j] = node[j]
  BY <1>2, IndexAssumption DEF TypeOK, Props
<1>21. has \in BOOLEAN /\ (has <=> id \in labelled) OBVIOUS
<1> HIDE DEF has
<1>5. U \in Owners /\ KeepsOthers(idxUnique, U, id) /\ (~unique => U = idxUnique)
  BY <1>21, UnindexUniqueFacts DEF TypeOK
<1> HIDE DEF U
<1>6. /\ idxUnique' \in Owners /\ KeepsOthers(U, idxUnique', id)
      /\ ~unique => idxUnique' = U
      /\ Constrained(has, new) => idxUnique'[shardFor(id)][new[UniqueProp]] = id
  BY <1>2, <1>5, <1>21, IndexUniqueFacts
<1>7. KeepsOthers(idxUnique, idxUnique', id)
  BY <1>5, <1>6 DEF KeepsOthers
<1>8. /\ E \subseteq idx /\ \A e \in idx : e.id # id => e \in E
      /\ \A e \in E, D \in indexed : e \notin buildCompositeKey(D, id, old)
  BY <1>1, UnindexNodeFacts DEF TypeOK
<1> HIDE DEF E
<1>9. E \subseteq Entry BY <1>8 DEF TypeOK
<1>10. /\ idx' \subseteq Entry
       /\ \A e : e.id # id => (e \in idx' <=> e \in E)
       /\ \A D \in indexed : buildCompositeKey(D, id, new) \subseteq idx'
       /\ \A e \in idx' \ E : e.id = id /\ \A p \in e.def : e.vals[p] = new[p]
  BY <1>2, <1>9, IndexNodeFacts
<1>11. ASSUME NEW e \in idx', e.id = id, e.def \notin stale' PROVE Matches(e)'
  <2>1. CASE e \notin E BY <1>4, <1>10, <1>11, <2>1 DEF Matches
  <2>2. CASE e \in E
    <3>1. e \in idx /\ e.def \in Defs BY <1>8, <1>9, <2>2, EntryFields
    <3>2. e.def \in indexed /\ e.def \notin stale
      <4>1. stale' = stale \cup {D \in Defs \ indexed : \E f \in idx : f.def = D /\ f.id = id}
        BY <1>2 DEF Passed
      <4>2. QED BY <1>11, <3>1, <4>1
    <3>3. Matches(e) BY <3>1, <3>2 DEF EntriesTrue
    <3>4. e \in buildCompositeKey(e.def, id, old) BY <1>1, <1>11, <3>1, <3>3, TrueEntryIsKey
    <3>5. QED BY <1>8, <2>2, <3>2, <3>4
  <2>3. QED BY <2>1, <2>2
<1>12. \A D \in indexed : HasEntry(D, id)' BY <1>4, <1>10 DEF HasEntry
<1>13. unique /\ id \in labelled' => Owned(id)'
  BY <1>2, <1>4, <1>6, <1>21 DEF Owned, Val, Constrained
<1>14. WriteTypes BY <1>2, <1>3, <1>4, <1>6, <1>10 DEF WriteTypes, TypeOK
<1>15. (~unique) \in BOOLEAN BY DEF TypeOK
<1>16. \A e \in Entry : e.id # id => (e \in idx' <=> e \in idx) BY <1>8, <1>10
<1>17. nextID <= nextID' /\ id < nextID' /\ (~unique => idxUnique' = idxUnique)
  BY <1>2, <1>3, <1>5, <1>6
<1>22. \E W \in BOOLEAN : Passed(id, Defs \ indexed, W) /\ (~unique => W) BY <1>2, <1>15
<1>19. WriteOf(id, Defs \ indexed)
  BY <1>2, <1>4, <1>7, <1>11, <1>12, <1>13, <1>16, <1>17, <1>22 DEF WriteOf
<1>20. QED BY <1>14, <1>19, WriteKeeps

\* DeleteNode: the node's true entries go, and one that is left matches no node.
LEMMA DeleteNodeKeeps ==
    ASSUME IndexInv, NEW id \in Ids, DeleteNode(id)
    PROVE  IndexInv'
<1> USE DEF IndexInv
<1> DEFINE has == id \in labelled
           old == node[id]
<1>1. old # None /\ old \in Props BY DEF DeleteNode, TypeOK
<1>2. /\ node' = [node EXCEPT ![id] = None] /\ labelled' = labelled \ {id} /\ nextID' = nextID
      /\ idx' = unindexNodeProps(idx, id, old)
      /\ idxUnique' = unindexUniqueConstraints(idxUnique, id, has, old)
      /\ Passed(id, Defs \ indexed, ~unique) /\ UNCHANGED <<uniqueMeta, regVars>>
  BY DEF DeleteNode, Maintained, Write
<1>3. has \in BOOLEAN OBVIOUS
<1> HIDE DEF has, old
<1>4. nextID \in Nat /\ id < nextID BY <1>1, ShardType DEF TypeOK, Fresh, old
<1>5. node' \in [Ids -> Props \cup {None}] /\ node'[id] = None
      /\ \A j \in Ids \ {id} : node'[j] = node[j]
  BY <1>2 DEF TypeOK
<1>6. idxUnique' \in Owners /\ KeepsOthers(idxUnique, idxUnique', id) /\ (~unique => idxUnique' = idxUnique)
  BY <1>1, <1>2, <1>3, UnindexUniqueFacts DEF TypeOK
<1>7. idx' \subseteq idx /\ \A e \in idx : e.id # id => e \in idx'
  BY <1>1, <1>2, UnindexNodeFacts DEF TypeOK
<1>8. labelled' \subseteq {j \in Ids : node'[j] # None} BY <1>2, <1>5 DEF TypeOK
<1>9. WriteTypes BY <1>2, <1>4, <1>5, <1>6, <1>7, <1>8 DEF WriteTypes, TypeOK
<1>10. \A D : HasEntry(D, id)' BY <1>5 DEF HasEntry
<1>11. \A e \in idx' : e.id = id => Matches(e)' BY <1>5 DEF Matches
<1>12. (~unique) \in BOOLEAN BY DEF TypeOK
<1>13. \E U \in BOOLEAN : Passed(id, Defs \ indexed, U) /\ (~unique => U) BY <1>2, <1>12
<1>14. nextID <= nextID' /\ id < nextID' /\ id \notin labelled' BY <1>2, <1>4
<1>15. WriteOf(id, Defs \ indexed)
  BY <1>2, <1>5, <1>6, <1>7, <1>10, <1>11, <1>13, <1>14 DEF WriteOf
<1>16. QED BY <1>9, <1>15, WriteKeeps

\* AddLabel and RemoveLabel touch the unique index at most.
LEMMA LabelKeeps ==
    ASSUME IndexInv, NEW id \in Ids, AddLabel(id) \/ RemoveLabel(id)
    PROVE  IndexInv'
<1> USE DEF IndexInv
<1>1. /\ node' = node /\ idx' = idx /\ nextID' = nextID
      /\ Passed(id, {}, ~unique) /\ UNCHANGED <<uniqueMeta, regVars>>
  BY DEF AddLabel, RemoveLabel, Write
<1>2. node[id] # None /\ node[id] \in Props BY DEF AddLabel, RemoveLabel, TypeOK
<1>3. nextID \in Nat /\ id < nextID BY <1>2, ShardType DEF TypeOK, Fresh
<1>4. /\ idxUnique' \in Owners /\ KeepsOthers(idxUnique, idxUnique', id)
      /\ ~unique => idxUnique' = idxUnique
      /\ unique /\ id \in labelled' => Owned(id)'
      /\ labelled' \subseteq labelled \cup {id} /\ labelled \ {id} \subseteq labelled'
  <2>1. CASE AddLabel(id)
    <3>1. /\ labelled' = labelled \cup {id}
          /\ checkUniqueConstraintsInTx(idxUnique, id, TRUE, node[id])
          /\ idxUnique' = indexUniqueConstraints(idxUnique, id, TRUE, node[id])
      BY <2>1 DEF AddLabel
    <3>2. /\ idxUnique' \in Owners /\ KeepsOthers(idxUnique, idxUnique', id)
          /\ ~unique => idxUnique' = idxUnique
          /\ Constrained(TRUE, node[id]) => idxUnique'[shardFor(id)][node[id][UniqueProp]] = id
      BY <1>2, <3>1, IndexUniqueFacts DEF TypeOK
    <3>3. unique => Owned(id)' BY <1>1, <3>2 DEF Owned, Val, Constrained
    <3>4. QED BY <3>1, <3>2, <3>3
  <2>2. CASE RemoveLabel(id)
    <3>1. labelled' = labelled \ {id} /\ idxUnique' = idxUnique BY <2>2 DEF RemoveLabel
    <3>2. QED BY <3>1 DEF KeepsOthers, TypeOK
  <2>3. QED BY <2>1, <2>2
<1>5. labelled' \subseteq {j \in Ids : node'[j] # None} BY <1>1, <1>2, <1>4 DEF TypeOK
<1>6. WriteTypes BY <1>1, <1>4, <1>5 DEF WriteTypes, TypeOK
<1>7. \A D : HasEntry(D, id) => HasEntry(D, id)' BY <1>1 DEF HasEntry
<1>8. ASSUME NEW e \in idx', e.def \notin stale' PROVE Matches(e)'
  <2>1. e \in idx /\ e.def \notin stale BY <1>1, <1>8 DEF Passed
  <2>2. Matches(e) BY <2>1 DEF EntriesTrue
  <2>3. QED BY <1>1, <2>2 DEF Matches
<1>9. (~unique) \in BOOLEAN BY DEF TypeOK
<1>10. \E U \in BOOLEAN : Passed(id, {}, U) /\ (~unique => U) BY <1>1, <1>9
<1>11. nextID <= nextID' /\ id < nextID' BY <1>1, <1>3
<1>12. WriteOf(id, {})
  BY <1>1, <1>4, <1>7, <1>8, <1>10, <1>11 DEF WriteOf
<1>13. QED BY <1>6, <1>12, WriteKeeps

\* Every node operation keeps the invariant.
LEMMA NodeWriteKeeps ==
    ASSUME IndexInv, NEW id \in Ids, NodeWrite(id)
    PROVE  IndexInv'
<1>1. CASE \E props \in Payloads, has \in BOOLEAN : AddNode(id, props, has)
  BY <1>1, AddNodeKeeps
<1>2. CASE \E props \in Payloads : AddNodeBatch(id, props)
  BY <1>2, AddNodeBatchKeeps
<1>3. CASE \E props \in Payloads : SetNodeProps(id, props)
  <2>1. PICK props \in Payloads : PutProps(id, props, node[id]) BY <1>3 DEF SetNodeProps
  <2>2. props \in Props /\ node[id] \in Props
    BY <2>1, IndexAssumption DEF PutProps, IndexInv, TypeOK, Props
  <2>3. QED BY <2>1, <2>2, PutPropsKeeps
<1>4. CASE \E p \in PropNames, v \in Values : node[id] # None /\ UpdateNode(id, p, v)
  <2>1. PICK p \in PropNames, v \in Values : node[id] # None /\ UpdateNode(id, p, v) BY <1>4
  <2> DEFINE merged == [node[id] EXCEPT ![p] = v]
  <2>2. merged \in Props BY <2>1 DEF IndexInv, TypeOK, Props
  <2>3. PutProps(id, merged, merged) BY <2>1 DEF UpdateNode
  <2> HIDE DEF merged
  <2>4. QED BY <2>2, <2>3, PutPropsKeeps
<1>5. CASE DeleteNode(id) BY <1>5, DeleteNodeKeeps
<1>6. CASE AddLabel(id) \/ RemoveLabel(id) BY <1>6, LabelKeeps
<1>7. QED BY <1>1, <1>2, <1>3, <1>4, <1>5, <1>6 DEF NodeWrite

--------------------------------------------------------------------------------
(* CREATE, DROP and reopening.                                              *)

\* A step of one call, which stays on its index or ends.
LEMMA OneCall ==
    ASSUME IndexInv, NEW a \in Admins, NEW c \in Call, CallOK(c), ddl' = [ddl EXCEPT ![a] = c],
           c.op = "idle" \/ (ddl[a].op # "idle" /\ c.def = ddl[a].def /\ (c.clean => ddl[a].clean))
    PROVE  /\ ddl' \in [Admins -> Call] /\ \A b \in Admins : CallOK(ddl'[b])
           /\ ddl'[a] = c /\ \A b \in Admins \ {a} : ddl'[b] = ddl[b]
           /\ Alone'
<1>1. ddl \in [Admins -> Call] /\ \A b \in Admins : CallOK(ddl[b]) BY DEF IndexInv, TypeOK
<1>2. ddl' \in [Admins -> Call] /\ ddl'[a] = c /\ \A b \in Admins \ {a} : ddl'[b] = ddl[b]
  BY <1>1
<1>3. \A b \in Admins : CallOK(ddl'[b]) BY <1>1, <1>2
<1>4. Alone' BY <1>2 DEF IndexInv, Alone
<1>5. QED BY <1>2, <1>3, <1>4

\* Steps that leave the entries and the registry of the secondary indexes alone.
LEMMA IndexSideKept ==
    ASSUME IndexInv, UNCHANGED <<node, nextID, idx, indexed, stale>>,
           \A D \in Defs : D \in missing => D \in missing',
           \A D \in Defs : Dropping(D) => Dropping(D)' \/ D \in missing',
           \A b \in Admins : ddl'[b].op = "create" =>
               \/ /\ ddl[b].op = "create" /\ ddl'[b].def = ddl[b].def /\ ddl'[b].next = ddl[b].next
                  /\ ddl'[b].clean => ddl[b].clean
               \/ ddl'[b].next = 0
    PROVE  Fresh' /\ EntriesTrue' /\ Full' /\ BuiltSoFar'
<1> USE DEF IndexInv
<1>1. Fresh' /\ EntriesTrue' BY DEF Fresh, EntriesTrue, Matches
<1>2. \A D : \A id \in Ids : HasEntry(D, id) => HasEntry(D, id)' BY DEF HasEntry
<1>3. Full' BY <1>2 DEF Full, TypeOK
<1>4. BuiltSoFar'
  <2>1. SUFFICES ASSUME NEW b \in Admins, ddl'[b].op = "create", ddl'[b].clean,
                        NEW j \in Ids, shardFor(j) < ddl'[b].next, NEW D, D = ddl'[b].def
                 PROVE  HasEntry(D, j)'
    BY DEF BuiltSoFar
  <2>2. ddl'[b].next # 0 BY <2>1, ShardType
  <2>3. HasEntry(D, j) BY <2>1, <2>2 DEF BuiltSoFar
  <2>4. QED BY <1>2, <2>3
<1>5. QED BY <1>1, <1>3, <1>4

\* Steps that leave the unique index and its registry alone.
LEMMA UniqueSideKept ==
    ASSUME IndexInv, UNCHANGED <<node, labelled, idxUnique, uniqueMeta, unique>>,
           {} \in missing => {} \in missing',
           Dropping({}) => Dropping({})' \/ {} \in missing',
           \A b \in Admins : ddl[b].op = "register" => ddl'[b].op = "register",
           \A b \in Admins : ddl'[b].op \in UniqueBuilds =>
               \/ /\ ddl[b].op = ddl'[b].op /\ ddl'[b].seen = ddl[b].seen /\ ddl'[b].next = ddl[b].next
                  /\ ddl'[b].clean => ddl[b].clean
               \/ ddl'[b].op = "collect" /\ ddl'[b].next = 0 /\ ddl'[b].seen = {} /\ ~unique
    PROVE  AllOwned' /\ Collected' /\ LateBuild' /\ MetaAhead'
<1> USE DEF IndexInv
<1>1. AllOwned' BY DEF AllOwned, Owned, Val
<1>2. LateBuild' /\ MetaAhead' BY DEF LateBuild, MetaAhead
<1>3. Collected'
  <2>1. SUFFICES ASSUME NEW a \in Admins, ddl'[a].op \in UniqueBuilds, ddl'[a].clean
                 PROVE  /\ ~unique
                        /\ \A q \in ddl'[a].seen : q[2] \in ReadBy(a)' /\ q[1] = Val(q[2])
                        /\ \A j \in ReadBy(a)' : <<Val(j), j>> \in ddl'[a].seen \/ (ddl'[a].op # "collect" /\ Owned(j))
                        /\ \A i, j \in ReadBy(a)' : Val(i) = Val(j) => i = j
    BY DEF Collected, Owned, Val
  <2>2. CASE ddl'[a].next = 0 /\ ddl'[a].seen = {} /\ ~unique
    <3>1. ReadBy(a)' = {} BY <2>2, ShardType DEF ReadBy, TypeOK
    <3>2. QED BY <2>2, <3>1
  <2>3. CASE /\ ddl[a].op = ddl'[a].op /\ ddl'[a].seen = ddl[a].seen /\ ddl'[a].next = ddl[a].next
             /\ ddl'[a].clean => ddl[a].clean
    <3>1. ReadBy(a)' = ReadBy(a) BY <2>3 DEF ReadBy, Val
    <3>2. QED BY <2>1, <2>3, <3>1 DEF Collected
  <2>4. QED BY <2>1, <2>2, <2>3
<1>4. QED BY <1>1, <1>2, <1>3

\* What is common to the steps of calls: the nodes are as they were.
LEMMA DdlTypes ==
    ASSUME TypeOK, UNCHANGED <<node, labelled, nextID>>, idx' \subseteq Entry, idxUnique' \in Owners,
           uniqueMeta' \in BOOLEAN, unique' \in BOOLEAN, indexed' \subseteq Defs,
           ddl' \in [Admins -> Call], \A b \in Admins : CallOK(ddl'[b])
    PROVE  TypeOK'
BY DEF TypeOK

\* A call begins: the ones on the same index are not clean any more.
LEMMA StartKeeps ==
    ASSUME IndexInv, NEW a \in Admins, NEW op, NEW D, Start(a, op, D),
           \/ op \in IndexOps /\ D \in Defs
           \/ op = "collect" /\ D = {} /\ ~unique
           \/ op = "dropUnique" /\ D = {}
    PROVE  IndexInv'
<1> USE DEF IndexInv
<1> DEFINE alone == \A b \in Admins : ddl[b].op = "idle" \/ ddl[b].def # D
           c == [Idle EXCEPT !.op = op, !.def = D, !.clean = alone]
<1>1. /\ ddl[a].op = "idle"
      /\ ddl' = [b \in Admins |-> IF b = a THEN c
                                  ELSE IF ddl[b].def = D THEN [ddl[b] EXCEPT !.clean = FALSE] ELSE ddl[b]]
      /\ UNCHANGED <<node, labelled, nextID, idx, idxUnique, uniqueMeta, indexed, unique, missing, stale>>
  BY DEF Start, idxVars, regVars, histVars, dataVars
<1>2. alone \in BOOLEAN /\ (alone => \A b \in Admins : ddl[b].op = "idle" \/ ddl[b].def # D) OBVIOUS
<1> HIDE DEF alone
<1>3. c.op = op /\ c.def = D /\ c.next = 0 /\ c.seen = {} /\ c.clean = alone BY DEF Idle
<1>4. 0 \in 0..NumShards /\ 0 \in Shards BY IndexAssumption DEF Shards
<1>5. c \in Call BY <1>2, <1>4 DEF Call, Idle, IndexOps, Builds, Drops
<1>6. CallOK(c) BY <1>3, <1>4 DEF CallOK, IndexOps
<1> HIDE DEF c
<1>7. ASSUME NEW b \in Admins \ {a}
      PROVE  /\ ddl'[b] \in Call /\ CallOK(ddl'[b])
             /\ ddl'[b].op = ddl[b].op /\ ddl'[b].def = ddl[b].def
             /\ ddl'[b].next = ddl[b].next /\ ddl'[b].seen = ddl[b].seen
             /\ ddl'[b].clean => ddl[b].clean /\ ddl[b].def # D
  <2>1. ddl[b] \in Call /\ CallOK(ddl[b]) BY DEF TypeOK
  <2>2. CASE ddl[b].def = D
    <3>1. ddl'[b] = [ddl[b] EXCEPT !.clean = FALSE] BY <1>1, <2>2
    <3>2. QED BY <2>1, <3>1 DEF Call, CallOK
  <2>3. CASE ddl[b].def # D
    <3>1. ddl'[b] = ddl[b] BY <1>1, <2>3
    <3>2. QED BY <2>1, <2>3, <3>1
  <2>4. QED BY <2>2, <2>3
<1>8. ddl'[a] = c BY <1>1
<1>9. ddl' \in [Admins -> Call] BY <1>1, <1>5, <1>7, <1>8
<1>10. \A b \in Admins : CallOK(ddl'[b]) BY <1>6, <1>7, <1>8
<1>11. TypeOK' BY <1>1, <1>9, <1>10, DdlTypes DEF TypeOK
<1>12. Alone'
  <2>1. SUFFICES ASSUME NEW b \in Admins, NEW d \in Admins, b # d, ddl'[b].op # "idle", ddl'[b].clean
                 PROVE  ddl'[d].op = "idle" \/ ddl'[d].def # ddl'[b].def
    BY DEF Alone
  <2>2. CASE b = a BY <1>2, <1>3, <1>7, <1>8, <2>1, <2>2
  <2>3. CASE b # a /\ d = a BY <1>3, <1>7, <1>8, <2>1, <2>3
  <2>4. CASE b # a /\ d # a BY <1>7, <2>1, <2>4 DEF Alone
  <2>5. QED BY <2>2, <2>3, <2>4
<1>13. \A E : Dropping(E) => Dropping(E)' BY <1>1, <1>7 DEF Dropping, Drops
<1>14. Fresh' /\ EntriesTrue' /\ Full' /\ BuiltSoFar'
  <2>1. \A b \in Admins : ddl'[b].op = "create" =>
          \/ /\ ddl[b].op = "create" /\ ddl'[b].def = ddl[b].def /\ ddl'[b].next = ddl[b].next
             /\ ddl'[b].clean => ddl[b].clean
          \/ ddl'[b].next = 0
    BY <1>3, <1>7, <1>8
  <2>2. QED BY <1>1, <1>13, <2>1, IndexSideKept
<1>15. AllOwned' /\ Collected' /\ LateBuild' /\ MetaAhead'
  <2>1. \A b \in Admins : ddl'[b].op \in UniqueBuilds =>
          \/ /\ ddl[b].op = ddl'[b].op /\ ddl'[b].seen = ddl[b].seen /\ ddl'[b].next = ddl[b].next
             /\ ddl'[b].clean => ddl[b].clean
          \/ ddl'[b].op = "collect" /\ ddl'[b].next = 0 /\ ddl'[b].seen = {} /\ ~unique
    BY <1>3, <1>7, <1>8 DEF UniqueBuilds, IndexOps
  <2>2. \A b \in Admins : ddl[b].op = "register" => ddl'[b].op = "register" BY <1>1, <1>7
  <2>3. QED BY <1>1, <1>13, <2>1, <2>2, UniqueSideKept
<1>16. QED BY <1>11, <1>12, <1>14, <1>15

\* A step of a CREATE or DROP of a secondary index leaves the unique side alone.
LEMMA IndexCallUnique ==
    ASSUME IndexInv, NEW a \in Admins, ddl[a].op \in IndexOps, ddl'[a].op \in IndexOps \cup {"idle"},
           \A b \in Admins \ {a} : ddl'[b] = ddl[b],
           UNCHANGED <<node, labelled, idxUnique, uniqueMeta, unique>>,
           {} \in missing => {} \in missing'
    PROVE  AllOwned' /\ Collected' /\ LateBuild' /\ MetaAhead'
<1>1. ddl[a].def # {} BY IndexAssumption DEF IndexInv, TypeOK, CallOK
<1>2. Dropping({}) => Dropping({})' BY <1>1 DEF Dropping
<1>3. \A b \in Admins : ddl[b].op = "register" => ddl'[b].op = "register" BY DEF IndexOps
<1>4. \A b \in Admins : ddl'[b].op \in UniqueBuilds => ddl'[b] = ddl[b] BY DEF IndexOps, UniqueBuilds
<1>5. QED BY <1>2, <1>3, <1>4, UniqueSideKept

\* CreateIndex reads a shard.
LEMMA CreateIndexShardKeeps ==
    ASSUME IndexInv, NEW a \in Admins, CreateIndexShard(a)
    PROVE  IndexInv'
<1> USE DEF IndexInv
<1> DEFINE D == ddl[a].def
           n == ddl[a].next
           S == {id \in Ids : node[id] # None /\ shardFor(id) = n}
           K == UNION {buildCompositeKey(D, id, node[id]) : id \in S}
           c == [ddl[a] EXCEPT !.next = n + 1]
<1>1. /\ ddl[a].op = "create" /\ n \in Shards
      /\ idx' = idx \cup K /\ ddl' = [ddl EXCEPT ![a] = c]
      /\ UNCHANGED <<node, labelled, nextID, idxUnique, uniqueMeta, indexed, unique, missing, stale>>
  BY DEF CreateIndexShard, Ddl, dataVars, regVars, histVars
<1>2. ddl[a] \in Call /\ CallOK(ddl[a]) /\ D \in Defs BY <1>1 DEF TypeOK, CallOK, IndexOps
<1>3. n \in Nat /\ n + 1 \in 0..NumShards BY <1>1, IndexAssumption DEF Shards
<1>4. c \in Call /\ c.op = "create" /\ c.def = D /\ c.next = n + 1 /\ c.clean = ddl[a].clean
  BY <1>1, <1>2, <1>3 DEF Call
<1>5. CallOK(c) BY <1>2, <1>4 DEF CallOK, IndexOps
<1>6. ASSUME NEW e \in K
      PROVE  e \in Entry /\ e.def = D /\ e.id \in Ids /\ node[e.id] # None
             /\ \A p \in D : e.vals[p] = node[e.id][p]
  <2>1. PICK id \in S : e \in buildCompositeKey(D, id, node[id]) OBVIOUS
  <2>2. id \in Ids /\ node[id] # None /\ node[id] \in Props BY DEF TypeOK
  <2>3. QED BY <1>2, <2>1, <2>2, KeyType
<1>7. \A id \in Ids : node[id] # None /\ shardFor(id) = n => buildCompositeKey(D, id, node[id]) \subseteq K
  OBVIOUS
<1> HIDE DEF K, S, c, D, n
<1>8. /\ ddl' \in [Admins -> Call] /\ \A b \in Admins : CallOK(ddl'[b])
      /\ ddl'[a] = c /\ \A b \in Admins \ {a} : ddl'[b] = ddl[b]
      /\ Alone'
  BY <1>1, <1>4, <1>5, OneCall DEF D
<1>9. idx' \subseteq Entry BY <1>1, <1>6 DEF TypeOK
<1>10. TypeOK' BY <1>1, <1>8, <1>9, DdlTypes DEF TypeOK
<1>11. Fresh'
  <2>1. ASSUME NEW e \in idx' PROVE e.id < nextID
    <3>1. CASE e \in idx BY <3>1 DEF Fresh
    <3>2. CASE e \in K
      <4>1. e.id \in Nat /\ nextID \in Nat BY <1>6, <3>2, ShardType DEF TypeOK
      <4>2. QED BY <1>6, <3>2, <4>1 DEF Fresh
    <3>3. QED BY <1>1, <3>1, <3>2
  <2>2. QED BY <1>1, <2>1 DEF Fresh
<1>12. EntriesTrue' BY <1>1, <1>6 DEF EntriesTrue, Matches
<1>13. \A E : \A id \in Ids : HasEntry(E, id) => HasEntry(E, id)' BY <1>1 DEF HasEntry
<1>14. \A E : Dropping(E) => Dropping(E)' BY <1>1, <1>8 DEF Dropping, Drops
<1>15. Full' BY <1>1, <1>13, <1>14 DEF Full
<1>16. BuiltSoFar'
  <2>1. SUFFICES ASSUME NEW b \in Admins, ddl'[b].op = "create", ddl'[b].clean,
                        NEW j \in Ids, shardFor(j) < ddl'[b].next, NEW E, E = ddl'[b].def
                 PROVE  HasEntry(E, j)'
    BY DEF BuiltSoFar
  <2>2. CASE b # a
    <3>1. HasEntry(E, j) BY <1>8, <2>1, <2>2 DEF BuiltSoFar
    <3>2. QED BY <1>13, <3>1
  <2>3. CASE b = a
    <3>1. E = D /\ ddl[a].clean /\ shardFor(j) < n + 1 BY <1>4, <1>8, <2>1, <2>3
    <3>2. shardFor(j) < n \/ shardFor(j) = n BY <1>3, <3>1, ShardType
    <3>3. CASE shardFor(j) < n
      <4>1. HasEntry(E, j) BY <1>1, <3>1, <3>3 DEF BuiltSoFar, D, n
      <4>2. QED BY <1>13, <4>1
    <3>4. CASE shardFor(j) = n BY <1>1, <1>7, <3>1, <3>4 DEF HasEntry
    <3>5. QED BY <3>2, <3>3, <3>4
  <2>4. QED BY <2>2, <2>3
<1>17. AllOwned' /\ Collected' /\ LateBuild' /\ MetaAhead'
  BY <1>1, <1>4, <1>8, IndexCallUnique DEF IndexOps
<1>18. QED BY <1>8, <1>10, <1>11, <1>12, <1>15, <1>16, <1>17

\* The call that has the index to itself has built all of it.
LEMMA CreateIndexRegisterKeeps ==
    ASSUME IndexInv, NEW a \in Admins, CreateIndexRegister(a)
    PROVE  IndexInv'
<1> USE DEF IndexInv
<1> DEFINE D == ddl[a].def
<1>1. /\ ddl[a].op = "create" /\ ddl[a].next = NumShards
      /\ indexed' = indexed \cup {D} /\ ddl' = [ddl EXCEPT ![a] = Idle]
      /\ missing' = IF ddl[a].clean THEN missing \ {D} ELSE missing \cup {D}
      /\ UNCHANGED <<node, labelled, nextID, idx, idxUnique, uniqueMeta, unique, stale>>
  BY DEF CreateIndexRegister, Ddl, dataVars, idxVars
<1>2. D \in Defs /\ D # {} BY <1>1, IndexAssumption DEF TypeOK, CallOK, IndexOps
<1> HIDE DEF D
<1>3. Idle \in Call /\ CallOK(Idle) /\ Idle.op = "idle"
  BY IndexAssumption DEF Idle, Call, CallOK, IndexOps
<1>4. /\ ddl' \in [Admins -> Call] /\ \A b \in Admins : CallOK(ddl'[b])
      /\ ddl'[a] = Idle /\ \A b \in Admins \ {a} : ddl'[b] = ddl[b]
      /\ Alone'
  BY <1>1, <1>3, OneCall
<1>5. TypeOK' BY <1>1, <1>2, <1>4, DdlTypes DEF TypeOK
<1>6. Fresh' /\ EntriesTrue' BY <1>1 DEF Fresh, EntriesTrue, Matches
<1>7. \A E : \A id \in Ids : HasEntry(E, id) => HasEntry(E, id)' BY <1>1 DEF HasEntry
<1>8. \A E : Dropping(E) => Dropping(E)' BY <1>1, <1>4 DEF Dropping, Drops
<1>9. Full'
  <2>1. SUFFICES ASSUME NEW E \in indexed', E \notin missing', ~Dropping(E)', NEW j \in Ids
                 PROVE  HasEntry(E, j)
    BY <1>7 DEF Full
  <2>2. CASE E # D BY <1>1, <1>8, <2>1, <2>2 DEF Full
  <2>3. CASE E = D
    <3>1. ddl[a].clean BY <1>1, <2>1, <2>3
    <3>2. shardFor(j) < NumShards BY ShardType, IndexAssumption DEF Shards
    <3>3. QED BY <1>1, <2>3, <3>1, <3>2 DEF BuiltSoFar, D
  <2>4. QED BY <2>2, <2>3
<1>10. BuiltSoFar'
  <2>1. SUFFICES ASSUME NEW b \in Admins, ddl'[b].op = "create", ddl'[b].clean,
                        NEW j \in Ids, shardFor(j) < ddl'[b].next, NEW E, E = ddl'[b].def
                 PROVE  HasEntry(E, j)
    BY <1>7 DEF BuiltSoFar
  <2>2. b # a BY <1>3, <1>4, <2>1
  <2>3. QED BY <1>4, <2>1, <2>2 DEF BuiltSoFar
<1>11. {} \in missing => {} \in missing' BY <1>1, <1>2
<1>12. AllOwned' /\ Collected' /\ LateBuild' /\ MetaAhead'
  BY <1>1, <1>3, <1>4, <1>11, IndexCallUnique DEF IndexOps
<1>13. QED BY <1>4, <1>5, <1>6, <1>9, <1>10, <1>12

\* DropIndex empties a shard: nobody beside it is building the index cleanly.
LEMMA DropIndexShardKeeps ==
    ASSUME IndexInv, NEW a \in Admins, DropIndexShard(a)
    PROVE  IndexInv'
<1> USE DEF IndexInv
<1> DEFINE D == ddl[a].def
           n == ddl[a].next
           c == [ddl[a] EXCEPT !.next = n + 1]
<1>1. /\ ddl[a].op \in {"drop", "redrop"} /\ n \in Shards
      /\ idx' = idx \ ShardEntries(n, D) /\ ddl' = [ddl EXCEPT ![a] = c]
      /\ UNCHANGED <<node, labelled, nextID, idxUnique, uniqueMeta, indexed, unique, missing, stale>>
  BY DEF DropIndexShard, Ddl, dataVars, regVars, histVars
<1>2. ddl[a] \in Call /\ CallOK(ddl[a]) /\ D \in Defs BY <1>1 DEF TypeOK, CallOK, IndexOps
<1>3. n \in Nat /\ n + 1 \in 0..NumShards BY <1>1, IndexAssumption DEF Shards
<1>4. c \in Call /\ c.op = ddl[a].op /\ c.def = D /\ c.clean = ddl[a].clean
  BY <1>1, <1>2, <1>3 DEF Call
<1>5. CallOK(c) BY <1>1, <1>2, <1>4 DEF CallOK, IndexOps
<1>6. idx' \subseteq idx /\ \A e \in idx : e.def # D => e \in idx' BY <1>1 DEF ShardEntries
<1> HIDE DEF c, D, n
<1>7. /\ ddl' \in [Admins -> Call] /\ \A b \in Admins : CallOK(ddl'[b])
      /\ ddl'[a] = c /\ \A b \in Admins \ {a} : ddl'[b] = ddl[b]
      /\ Alone'
  BY <1>1, <1>4, <1>5, OneCall DEF D
<1>8. TypeOK' BY <1>1, <1>6, <1>7, DdlTypes DEF TypeOK
<1>9. Fresh' /\ EntriesTrue' BY <1>1, <1>6 DEF Fresh, EntriesTrue, Matches
<1>10. ASSUME NEW E \in Defs \ {D}, NEW j \in Ids, HasEntry(E, j) PROVE HasEntry(E, j)'
  <2>1. SUFFICES ASSUME node[j] # None, NEW e \in buildCompositeKey(E, j, node[j]) PROVE e \in idx'
    BY <1>1 DEF HasEntry
  <2>2. node[j] \in Props BY <2>1 DEF TypeOK
  <2>3. e.def = E BY <2>2, KeyType
  <2>4. e \in idx BY <1>10, <2>1 DEF HasEntry
  <2>5. QED BY <1>6, <2>3, <2>4
<1>11. \A E : Dropping(E) => Dropping(E)' BY <1>4, <1>7 DEF Dropping, D
<1>12. \A E : E = D => Dropping(E)' BY <1>1, <1>4, <1>7 DEF Dropping, Drops
<1>13. Full' BY <1>1, <1>10, <1>11, <1>12 DEF Full, TypeOK
<1>14. BuiltSoFar'
  <2>1. SUFFICES ASSUME NEW b \in Admins, ddl'[b].op = "create", ddl'[b].clean,
                        NEW j \in Ids, shardFor(j) < ddl'[b].next, NEW E, E = ddl'[b].def
                 PROVE  HasEntry(E, j)'
    BY DEF BuiltSoFar
  <2>2. b # a BY <1>1, <1>4, <1>7, <2>1
  <2>3. ddl[b] = ddl'[b] /\ HasEntry(E, j) BY <1>7, <2>1, <2>2 DEF BuiltSoFar
  <2>4. E \in Defs BY <2>1, <2>3 DEF TypeOK, CallOK, IndexOps
  <2>5. E # D BY <1>1, <2>1, <2>2, <2>3 DEF Alone, D
  <2>6. QED BY <1>10, <2>3, <2>4, <2>5
<1>15. AllOwned' /\ Collected' /\ LateBuild' /\ MetaAhead'
  BY <1>1, <1>4, <1>7, IndexCallUnique DEF IndexOps
<1>16. QED BY <1>7, <1>8, <1>9, <1>13, <1>14, <1>15

\* DropIndex ends, or ReIndex goes on to CreateIndex.
LEMMA DropIndexUnregisterKeeps ==
    ASSUME IndexInv, NEW a \in Admins, DropIndexUnregister(a)
    PROVE  IndexInv'
<1> USE DEF IndexInv
<1> DEFINE D == ddl[a].def
           gone == \A e \in idx : e.def # D
           c == IF ddl[a].op = "drop" THEN Idle
                ELSE [Idle EXCEPT !.op = "create", !.def = D, !.clean = ddl[a].clean]
<1>1. /\ ddl[a].op \in {"drop", "redrop"}
      /\ indexed' = indexed \ {D} /\ ddl' = [ddl EXCEPT ![a] = c]
      /\ missing' = IF gone THEN missing \ {D} ELSE missing
      /\ stale' = IF gone THEN stale \ {D} ELSE stale
      /\ UNCHANGED <<node, labelled, nextID, idx, idxUnique, uniqueMeta, unique>>
  BY DEF DropIndexUnregister, Ddl, dataVars, idxVars
<1>2. D \in Defs /\ D # {} /\ ddl[a] \in Call BY <1>1, IndexAssumption DEF TypeOK, CallOK, IndexOps
<1>3. ddl[a].clean \in BOOLEAN BY <1>2 DEF Call
<1>4. c \in Call /\ (c.op = "idle" \/ (c.op = "create" /\ c.def = D /\ c.clean = ddl[a].clean)) /\ c.next = 0
  <2>1. 0 \in 0..NumShards BY IndexAssumption
  <2>2. CASE ddl[a].op = "drop" BY <2>1, <2>2 DEF Idle, Call
  <2>3. CASE ddl[a].op # "drop" BY <1>2, <1>3, <2>1, <2>3 DEF Idle, Call, Builds
  <2>4. QED BY <2>2, <2>3
<1>5. CallOK(c) BY <1>2 DEF CallOK, Idle, IndexOps
<1>6. \A e \in idx : e.def \in stale /\ e.def \notin stale' => FALSE BY <1>1
<1> HIDE DEF c, D, gone
<1>7. /\ ddl' \in [Admins -> Call] /\ \A b \in Admins : CallOK(ddl'[b])
      /\ ddl'[a] = c /\ \A b \in Admins \ {a} : ddl'[b] = ddl[b]
      /\ Alone'
  BY <1>1, <1>4, <1>5, OneCall DEF D
<1>8. TypeOK' BY <1>1, <1>7, DdlTypes DEF TypeOK
<1>9. Fresh' /\ EntriesTrue' BY <1>1, <1>6 DEF Fresh, EntriesTrue, Matches
<1>10. \A E : \A id \in Ids : HasEntry(E, id) => HasEntry(E, id)' BY <1>1 DEF HasEntry
<1>11. \A E : E # D /\ Dropping(E) => Dropping(E)' BY <1>7 DEF Dropping, D
<1>12. Full' BY <1>1, <1>10, <1>11 DEF Full
<1>13. BuiltSoFar'
  <2>1. SUFFICES ASSUME NEW b \in Admins, ddl'[b].op = "create", ddl'[b].clean,
                        NEW j \in Ids, shardFor(j) < ddl'[b].next, NEW E, E = ddl'[b].def
                 PROVE  HasEntry(E, j)
    BY <1>10 DEF BuiltSoFar
  <2>2. b # a BY <1>4, <1>7, <2>1, ShardType
  <2>3. QED BY <1>7, <2>1, <2>2 DEF BuiltSoFar
<1>14. {} \in missing => {} \in missing' BY <1>1, <1>2
<1>15. AllOwned' /\ Collected' /\ LateBuild' /\ MetaAhead'
  BY <1>1, <1>4, <1>7, <1>14, IndexCallUnique DEF IndexOps
<1>16. QED BY <1>7, <1>8, <1>9, <1>12, <1>13, <1>15

\* A step of a call on the constraint leaves the secondary indexes alone.
LEMMA UniqueCallIndex ==
    ASSUME IndexInv, NEW a \in Admins, ddl[a].op \notin IndexOps, ddl'[a].op \notin IndexOps,
           \A b \in Admins \ {a} : ddl'[b] = ddl[b],
           UNCHANGED <<node, nextID, idx, indexed, stale>>,
           \A D \in Defs : D \in missing => D \in missing'
    PROVE  Fresh' /\ EntriesTrue' /\ Full' /\ BuiltSoFar'
<1>1. ddl[a].def = {} BY DEF IndexInv, TypeOK, CallOK
<1>2. \A D \in Defs : Dropping(D) => Dropping(D)' BY <1>1, IndexAssumption DEF Dropping
<1>3. \A b \in Admins : ddl'[b].op = "create" => ddl'[b] = ddl[b] BY DEF IndexOps
<1>4. QED BY <1>2, <1>3, IndexSideKept

\* A clean call on the constraint is the only call on it.
LEMMA OnlyCall ==
    ASSUME IndexInv, NEW a \in Admins, ddl[a].op \notin IndexOps \cup {"idle"},
           NEW b \in Admins \ {a}, ddl[b].op \notin IndexOps \cup {"idle"}
    PROVE  ~ddl[a].clean /\ ~ddl[b].clean
<1>1. ddl[a].def = {} /\ ddl[b].def = {} BY DEF IndexInv, TypeOK, CallOK
<1>2. QED BY <1>1 DEF IndexInv, Alone

\* CreateUniqueConstraint reads a shard and finds every value for the first time.
LEMMA CreateUniqueCollectKeeps ==
    ASSUME IndexInv, NEW a \in Admins, CreateUniqueCollect(a)
    PROVE  IndexInv'
<1> USE DEF IndexInv
<1> DEFINE n == ddl[a].next
           S == {id \in labelled : shardFor(id) = n /\ node[id][UniqueProp] # Absent}
           last == n = NumShards - 1
           old == ddl[a]
           new == {<<node[id][UniqueProp], id>> : id \in S}
           more == [old EXCEPT !.op = IF last THEN "put" ELSE "collect", !.next = old.next + 1, !.seen = old.seen \cup new]
           c == IF Duplicated(old.seen, S) THEN Idle ELSE more
<1>1. /\ ddl[a].op = "collect" /\ n \in Shards /\ ddl' = [ddl EXCEPT ![a] = c]
      /\ UNCHANGED <<node, labelled, nextID, idx, idxUnique, uniqueMeta, indexed, unique, missing, stale>>
  BY DEF CreateUniqueCollect, Ddl, dataVars, idxVars, regVars, histVars
<1>2. old \in Call /\ CallOK(old) /\ old.def = {} BY <1>1 DEF TypeOK, CallOK, IndexOps
<1>3. n \in Nat /\ n + 1 \in 0..NumShards /\ (last => n + 1 = NumShards) /\ (~last => n + 1 \in Shards)
  BY <1>1, IndexAssumption DEF Shards
<1>4. \A id \in S : id \in Ids /\ id \in labelled /\ shardFor(id) = n /\ Val(id) # Absent /\ Val(id) \in Values
  BY IndexAssumption DEF TypeOK, Props, Val
<1>5. new \subseteq Values \X Ids
  <2>1. ASSUME NEW q \in new PROVE q \in Values \X Ids
    <3>1. PICK id \in S : q = <<node[id][UniqueProp], id>> OBVIOUS
    <3>2. QED BY <1>4, <3>1 DEF Val
  <2>2. QED BY <2>1
<1>6. old.seen \cup new \subseteq Values \X Ids BY <1>2, <1>5 DEF Call
<1>7. /\ more.op = IF last THEN "put" ELSE "collect"
      /\ more.next = n + 1 /\ more.seen = old.seen \cup new /\ more.def = {} /\ more.clean = old.clean
  BY <1>1, <1>2 DEF Call
<1>8. more \in Call
  <2> DEFINE op2 == IF last THEN "put" ELSE "collect"
             seen2 == old.seen \cup new
  <2>1. more = [old EXCEPT !.op = op2, !.next = n + 1, !.seen = seen2] OBVIOUS
  <2>2. op2 \in {"idle"} \cup Builds \cup Drops BY DEF Builds
  <2>3. seen2 \in SUBSET (Values \X Ids) BY <1>6
  <2> HIDE DEF op2, seen2, n, old, more
  <2>4. QED BY <1>2, <1>3, <2>1, <2>2, <2>3 DEF Call
<1>9. CallOK(more) BY <1>3, <1>7 DEF CallOK, IndexOps
<1>10. Idle \in Call /\ CallOK(Idle) /\ Idle.op = "idle"
  BY IndexAssumption DEF Idle, Call, CallOK, IndexOps
<1>11. \A q \in new : \E id \in S : q[2] = id /\ q[1] = Val(id) BY DEF Val
<1>12. \A id \in S : <<Val(id), id>> \in new BY DEF Val
<1>13. \A id \in labelled : shardFor(id) = n /\ Val(id) # Absent => id \in S BY DEF Val
<1> HIDE DEF new, S, more, last
<1>14. c \in Call /\ CallOK(c) /\ (c.op = "idle" \/ (c.def = old.def /\ (c.clean => old.clean)))
  BY <1>2, <1>7, <1>8, <1>9, <1>10
<1>15. c.op = "idle" \/ c = more BY <1>10
<1> HIDE DEF c
<1>16. /\ ddl' \in [Admins -> Call] /\ \A b \in Admins : CallOK(ddl'[b])
       /\ ddl'[a] = c /\ \A b \in Admins \ {a} : ddl'[b] = ddl[b]
       /\ Alone'
  BY <1>1, <1>14, OneCall
<1>17. TypeOK' BY <1>1, <1>16, DdlTypes DEF TypeOK
<1>18. c.op \in {"idle", "put", "collect"} BY <1>7, <1>15
<1>19. Fresh' /\ EntriesTrue' /\ Full' /\ BuiltSoFar'
  BY <1>1, <1>16, <1>18, UniqueCallIndex DEF IndexOps
<1>20. AllOwned' BY <1>1, <1>16, <1>18 DEF AllOwned, Dropping, Drops, Owned, Val
<1>21. LateBuild' /\ MetaAhead' BY <1>1, <1>16 DEF LateBuild, MetaAhead, UniqueBuilds
<1>22. Collected'
  <2>1. SUFFICES ASSUME NEW b \in Admins, ddl'[b].op \in UniqueBuilds, ddl'[b].clean
                 PROVE  /\ ~unique
                        /\ \A q \in ddl'[b].seen : q[2] \in ReadBy(b)' /\ q[1] = Val(q[2])
                        /\ \A j \in ReadBy(b)' : <<Val(j), j>> \in ddl'[b].seen \/ (ddl'[b].op # "collect" /\ Owned(j))
                        /\ \A i, j \in ReadBy(b)' : Val(i) = Val(j) => i = j
    BY <1>1 DEF Collected, Owned, Val
  <2>2. CASE b # a
    <3>1. ddl'[b] = ddl[b] /\ ReadBy(b)' = ReadBy(b) BY <1>1, <1>16, <2>2 DEF ReadBy, Val
    <3>2. QED BY <2>1, <3>1 DEF Collected
  <2>3. CASE b = a
    <3>1. c = more /\ ddl'[a] = more BY <1>15, <1>16, <2>1, <2>3 DEF UniqueBuilds
    <3>2. ~Duplicated(old.seen, S) BY <1>7, <1>10, <3>1 DEF c
    <3>3. /\ ~unique
          /\ \A q \in old.seen : q[2] \in ReadBy(a) /\ q[1] = Val(q[2])
          /\ \A id \in ReadBy(a) : <<Val(id), id>> \in old.seen
          /\ \A i, j \in ReadBy(a) : Val(i) = Val(j) => i = j
      BY <1>1, <1>7, <2>1, <2>3, <3>1 DEF Collected, UniqueBuilds
    <3>4. \A i : i \in ReadBy(a)' <=> i \in ReadBy(a) \/ i \in S
      <4>1. \A i \in labelled : shardFor(i) < n + 1 <=> shardFor(i) < n \/ shardFor(i) = n
        BY <1>3, ShardType DEF TypeOK
      <4>2. ReadBy(a)' = {i \in labelled : shardFor(i) < n + 1 /\ Val(i) # Absent}
        BY <1>1, <1>7, <3>1 DEF ReadBy, Val
      <4>3. QED BY <1>4, <1>13, <4>1, <4>2 DEF ReadBy
    <3>5. \A q \in more.seen : q[2] \in ReadBy(a)' /\ q[1] = Val(q[2])
      BY <1>7, <1>11, <3>3, <3>4
    <3>6. \A j \in ReadBy(a)' : <<Val(j), j>> \in more.seen BY <1>7, <1>12, <3>3, <3>4
    <3>7. ASSUME NEW i \in S, NEW j \in ReadBy(a) PROVE Val(i) # Val(j)
      <4>1. <<Val(j), j>> \in old.seen BY <3>3
      <4>2. <<Val(j), j>>[1] # Val(i) BY <3>2, <4>1 DEF Duplicated, Val
      <4>3. QED BY <4>2
    <3>8. \A i, j \in S : Val(i) = Val(j) => i = j BY <3>2 DEF Duplicated, Val
    <3>9. \A i, j \in ReadBy(a)' : Val(i) = Val(j) => i = j BY <3>3, <3>4, <3>7, <3>8
    <3>10. QED BY <2>3, <3>1, <3>3, <3>5, <3>6, <3>9
  <2>4. QED BY <2>2, <2>3
<1>23. QED BY <1>16, <1>17, <1>19, <1>20, <1>21, <1>22

\* Steps of CreateUniqueConstraint after its last shard.
LEMMA CreateUniquePutKeeps ==
    ASSUME IndexInv, NEW a \in Admins, CreateUniquePut(a)
    PROVE  IndexInv'
<1> USE DEF IndexInv
<1>1. /\ ddl[a].op = "put"
      /\ UNCHANGED <<node, labelled, nextID, idx, uniqueMeta, indexed, unique, missing, stale>>
  BY DEF CreateUniquePut, Ddl, dataVars, regVars, histVars
<1>2. ddl[a] \in Call /\ CallOK(ddl[a]) /\ ddl[a].def = {} BY <1>1 DEF TypeOK, CallOK, IndexOps
<1>3. unique => {} \in missing BY <1>1 DEF LateBuild, UniqueBuilds
<1>4. ASSUME NEW c \in Call, CallOK(c), ddl' = [ddl EXCEPT ![a] = c],
             c.op \in {"put", "meta"}, c.def = {}, c.clean = ddl[a].clean, c.next = ddl[a].next,
             idxUnique' \in Owners,
             ddl[a].clean =>
               /\ \A q \in c.seen : q[2] \in ReadBy(a) /\ q[1] = Val(q[2])
               /\ \A j \in ReadBy(a) : <<Val(j), j>> \in c.seen \/ Owned(j)'
      PROVE  IndexInv'
  <2>1. /\ ddl' \in [Admins -> Call] /\ \A b \in Admins : CallOK(ddl'[b])
        /\ ddl'[a] = c /\ \A b \in Admins \ {a} : ddl'[b] = ddl[b]
        /\ Alone'
    BY <1>1, <1>2, <1>4, OneCall
  <2>2. TypeOK' BY <1>1, <1>4, <2>1, DdlTypes DEF TypeOK
  <2>3. Fresh' /\ EntriesTrue' /\ Full' /\ BuiltSoFar'
    BY <1>1, <1>4, <2>1, UniqueCallIndex DEF IndexOps
  <2>4. AllOwned' BY <1>1, <1>3 DEF AllOwned
  <2>5. LateBuild' BY <1>1, <1>3 DEF LateBuild
  <2>6. MetaAhead' BY <1>1, <2>1 DEF MetaAhead
  <2>7. Collected'
    <3>1. SUFFICES ASSUME NEW b \in Admins, ddl'[b].op \in UniqueBuilds, ddl'[b].clean
                   PROVE  /\ ~unique
                          /\ \A q \in ddl'[b].seen : q[2] \in ReadBy(b)' /\ q[1] = Val(q[2])
                          /\ \A j \in ReadBy(b)' : <<Val(j), j>> \in ddl'[b].seen \/ (ddl'[b].op # "collect" /\ Owned(j)')
                          /\ \A i, j \in ReadBy(b)' : Val(i) = Val(j) => i = j
      BY <1>1 DEF Collected, Val
    <3>2. b = a
      <4>1. SUFFICES ASSUME b # a PROVE FALSE OBVIOUS
      <4>2. ddl'[b] = ddl[b] BY <2>1, <4>1
      <4>3. QED BY <1>1, <3>1, <4>1, <4>2, OnlyCall DEF IndexOps, UniqueBuilds
    <3>3. ddl'[a] = c /\ ddl[a].clean /\ ReadBy(a)' = ReadBy(a)
      BY <1>1, <1>4, <2>1, <3>1, <3>2 DEF ReadBy, Val
    <3>4. ~unique /\ \A i, j \in ReadBy(a) : Val(i) = Val(j) => i = j
      BY <1>1, <3>3 DEF Collected, UniqueBuilds
    <3>5. c.op # "collect" BY <1>4
    <3>6. QED BY <1>4, <3>2, <3>3, <3>4, <3>5
  <2>8. QED BY <2>1, <2>2, <2>3, <2>4, <2>5, <2>6, <2>7
<1>5. CASE \E q \in ddl[a].seen : /\ idxUnique' = [idxUnique EXCEPT ![shardFor(q[2])][q[1]] = q[2]]
                                  /\ ddl' = [ddl EXCEPT ![a].seen = @ \ {q}]
  <2>1. PICK q \in ddl[a].seen : /\ idxUnique' = [idxUnique EXCEPT ![shardFor(q[2])][q[1]] = q[2]]
                                 /\ ddl' = [ddl EXCEPT ![a].seen = @ \ {q}]
    BY <1>5
  <2> DEFINE c == [ddl[a] EXCEPT !.seen = ddl[a].seen \ {q}]
  <2>2. ddl' = [ddl EXCEPT ![a] = c] BY <2>1
  <2>3. ddl[a].seen \subseteq Values \X Ids BY <1>2 DEF Call
  <2>4. /\ c \in Call /\ c.seen = ddl[a].seen \ {q} /\ c.def = {} /\ c.op = "put"
        /\ c.next = ddl[a].next /\ c.clean = ddl[a].clean
    BY <1>1, <1>2, <2>3 DEF Call
  <2>5. CallOK(c) BY <1>1, <1>2, <2>4 DEF CallOK, IndexOps
  <2>6. q[1] \in Values /\ q[2] \in Ids /\ q = <<q[1], q[2]>> BY <2>3
  <2>7. shardFor(q[2]) \in Shards BY <2>6, ShardType
  <2> HIDE DEF c
  <2>8. /\ idxUnique' \in Owners /\ idxUnique'[shardFor(q[2])][q[1]] = q[2]
        /\ \A s \in Shards, v \in Values : v # q[1] => idxUnique'[s][v] = idxUnique[s][v]
    BY <2>1, <2>6, <2>7 DEF TypeOK, Owners
  <2>9. ASSUME ddl[a].clean
        PROVE  /\ \A r \in c.seen : r[2] \in ReadBy(a) /\ r[1] = Val(r[2])
               /\ \A j \in ReadBy(a) : <<Val(j), j>> \in c.seen \/ Owned(j)'
    <3>1. /\ \A r \in ddl[a].seen : r[2] \in ReadBy(a) /\ r[1] = Val(r[2])
          /\ \A j \in ReadBy(a) : <<Val(j), j>> \in ddl[a].seen \/ Owned(j)
          /\ \A i, j \in ReadBy(a) : Val(i) = Val(j) => i = j
      BY <1>1, <2>9 DEF Collected, UniqueBuilds
    <3>2. q[2] \in ReadBy(a) /\ q[1] = Val(q[2]) BY <3>1
    <3>3. ASSUME NEW j \in ReadBy(a), <<Val(j), j>> \notin c.seen PROVE Owned(j)'
      <4>1. CASE j = q[2] BY <1>1, <2>8, <3>2, <4>1 DEF Owned, Val
      <4>2. CASE j # q[2]
        <5>1. <<Val(j), j>> # q BY <2>6, <4>2
        <5>2. Owned(j) BY <2>4, <3>1, <3>3, <5>1
        <5>3. Val(j) # q[1] BY <3>1, <3>2, <4>2
        <5>4. j \in Ids /\ Val(j) \in Values BY IndexAssumption DEF ReadBy, TypeOK, Props, Val
        <5>5. idxUnique'[shardFor(j)][Val(j)] = j
          BY <2>8, <5>2, <5>3, <5>4, ShardType, IndexAssumption DEF Owned
        <5>6. QED BY <1>1, <5>5 DEF Owned, Val
      <4>3. QED BY <4>1, <4>2
    <3>4. QED BY <2>4, <3>1, <3>3
  <2>10. QED BY <1>4, <2>2, <2>4, <2>5, <2>8, <2>9
<1>6. CASE ddl[a].seen = {} /\ ddl' = [ddl EXCEPT ![a].op = "meta"] /\ UNCHANGED idxUnique
  <2> DEFINE c == [ddl[a] EXCEPT !.op = "meta"]
  <2>1. ddl' = [ddl EXCEPT ![a] = c] BY <1>6
  <2>2. /\ c \in Call /\ c.seen = ddl[a].seen /\ c.def = {} /\ c.op = "meta"
        /\ c.next = ddl[a].next /\ c.clean = ddl[a].clean
    BY <1>1, <1>2 DEF Call, Builds
  <2>3. CallOK(c) BY <1>1, <1>2, <1>6, <2>2 DEF CallOK, IndexOps
  <2> HIDE DEF c
  <2>4. ASSUME ddl[a].clean
        PROVE  /\ \A r \in c.seen : r[2] \in ReadBy(a) /\ r[1] = Val(r[2])
               /\ \A j \in ReadBy(a) : <<Val(j), j>> \in c.seen \/ Owned(j)'
    <3>1. \A j \in ReadBy(a) : <<Val(j), j>> \in ddl[a].seen \/ Owned(j)
      BY <1>1, <2>4 DEF Collected, UniqueBuilds
    <3>2. \A j \in ReadBy(a) : Owned(j)' BY <1>1, <1>6, <3>1 DEF Owned, Val
    <3>3. QED BY <1>6, <2>2, <3>2
  <2>5. idxUnique' \in Owners BY <1>6 DEF TypeOK
  <2>6. QED BY <1>4, <2>1, <2>2, <2>3, <2>4, <2>5
<1>7. QED BY <1>5, <1>6 DEF CreateUniquePut

\* The metadata of the constraint is on disk before the registry has it.
LEMMA CreateUniqueMetaKeeps ==
    ASSUME IndexInv, NEW a \in Admins, CreateUniqueMeta(a)
    PROVE  IndexInv'
<1> USE DEF IndexInv
<1> DEFINE c == [ddl[a] EXCEPT !.op = "register"]
<1>1. /\ ddl[a].op = "meta" /\ uniqueMeta' = TRUE /\ ddl' = [ddl EXCEPT ![a] = c]
      /\ UNCHANGED <<node, labelled, nextID, idx, idxUnique, indexed, unique, missing, stale>>
  BY DEF CreateUniqueMeta, Ddl, dataVars, regVars, histVars
<1>2. ddl[a] \in Call /\ CallOK(ddl[a]) /\ ddl[a].def = {} BY <1>1 DEF TypeOK, CallOK, IndexOps
<1>3. /\ c \in Call /\ c.op = "register" /\ c.def = {}
      /\ c.seen = ddl[a].seen /\ c.next = ddl[a].next /\ c.clean = ddl[a].clean
  BY <1>2 DEF Call, Builds
<1>4. CallOK(c) BY <1>1, <1>2, <1>3 DEF CallOK, IndexOps
<1> HIDE DEF c
<1>5. /\ ddl' \in [Admins -> Call] /\ \A b \in Admins : CallOK(ddl'[b])
      /\ ddl'[a] = c /\ \A b \in Admins \ {a} : ddl'[b] = ddl[b]
      /\ Alone'
  BY <1>1, <1>2, <1>3, <1>4, OneCall
<1>6. TypeOK' BY <1>1, <1>5, DdlTypes DEF TypeOK
<1>7. Fresh' /\ EntriesTrue' /\ Full' /\ BuiltSoFar'
  BY <1>1, <1>3, <1>5, UniqueCallIndex DEF IndexOps
<1>8. unique => {} \in missing BY <1>1 DEF LateBuild, UniqueBuilds
<1>9. AllOwned' /\ LateBuild' BY <1>1, <1>8 DEF AllOwned, LateBuild
<1>10. MetaAhead' BY <1>3, <1>5 DEF MetaAhead
<1>11. Collected'
  <2>1. \A b \in Admins : /\ ddl'[b].seen = ddl[b].seen /\ ddl'[b].next = ddl[b].next
                          /\ ddl'[b].clean = ddl[b].clean
                          /\ ddl'[b].op \in UniqueBuilds => ddl[b].op \in UniqueBuilds
                          /\ ddl[b].op # "collect" => ddl'[b].op # "collect"
    BY <1>1, <1>3, <1>5 DEF UniqueBuilds
  <2>2. \A b \in Admins : ReadBy(b)' = ReadBy(b) BY <1>1, <2>1 DEF ReadBy, Val
  <2>3. QED BY <1>1, <2>1, <2>2 DEF Collected, Owned, Val
<1>12. QED BY <1>5, <1>6, <1>7, <1>9, <1>10, <1>11

\* The call that had the constraint to itself has put every node's entry.
LEMMA CreateUniqueRegisterKeeps ==
    ASSUME IndexInv, NEW a \in Admins, CreateUniqueRegister(a)
    PROVE  IndexInv'
<1> USE DEF IndexInv
<1>1. /\ ddl[a].op = "register" /\ unique' = TRUE /\ ddl' = [ddl EXCEPT ![a] = Idle]
      /\ missing' = IF ddl[a].clean THEN missing \ {{}} ELSE missing \cup {{}}
      /\ UNCHANGED <<node, labelled, nextID, idx, idxUnique, uniqueMeta, indexed, stale>>
  BY DEF CreateUniqueRegister, Ddl, dataVars, idxVars
<1>2. Idle \in Call /\ CallOK(Idle) /\ Idle.op = "idle"
  BY IndexAssumption DEF Idle, Call, CallOK, IndexOps
<1>3. /\ ddl' \in [Admins -> Call] /\ \A b \in Admins : CallOK(ddl'[b])
      /\ ddl'[a] = Idle /\ \A b \in Admins \ {a} : ddl'[b] = ddl[b]
      /\ Alone'
  BY <1>1, <1>2, OneCall
<1>4. TypeOK' BY <1>1, <1>3, DdlTypes DEF TypeOK
<1>5. {} \notin Defs BY IndexAssumption
<1>6. \A D \in Defs : D \in missing => D \in missing' BY <1>1, <1>5
<1>7. Fresh' /\ EntriesTrue' /\ Full' /\ BuiltSoFar'
  BY <1>1, <1>2, <1>3, <1>6, UniqueCallIndex DEF IndexOps
<1>8. \A b \in Admins : ddl'[b].op \in UniqueBuilds => b # a /\ ddl[b].op \in UniqueBuilds
  BY <1>2, <1>3 DEF UniqueBuilds
<1>9. \A b \in Admins : ddl'[b].op \in UniqueBuilds => ~ddl[a].clean /\ ~ddl'[b].clean
  BY <1>1, <1>3, <1>8, OnlyCall DEF IndexOps, UniqueBuilds
<1>10. Collected' BY <1>9 DEF Collected
<1>11. LateBuild' BY <1>1, <1>9 DEF LateBuild
<1>12. MetaAhead' BY <1>1 DEF MetaAhead
<1>13. AllOwned'
  <2>1. SUFFICES ASSUME {} \notin missing', NEW j \in labelled PROVE Owned(j)
    BY <1>1 DEF AllOwned, Owned, Val
  <2>2. ddl[a].clean BY <1>1, <2>1
  <2>3. ddl[a].next = NumShards /\ ddl[a].seen = {} BY <1>1 DEF TypeOK, CallOK
  <2>4. CASE Val(j) = Absent BY <2>4 DEF Owned
  <2>5. CASE Val(j) # Absent
    <3>1. j \in Ids BY DEF TypeOK
    <3>2. shardFor(j) < NumShards BY <3>1, ShardType, IndexAssumption DEF Shards
    <3>3. j \in ReadBy(a) BY <2>3, <2>5, <3>2 DEF ReadBy
    <3>4. QED BY <1>1, <2>2, <2>3, <3>3 DEF Collected, UniqueBuilds
  <2>6. QED BY <2>4, <2>5
<1>14. QED BY <1>3, <1>4, <1>7, <1>10, <1>11, <1>12, <1>13

\* Steps of DropUniqueConstraint up to the registry.
LEMMA DropUniqueKeeps ==
    ASSUME IndexInv, NEW a \in Admins,
           DropUniqueShard(a) \/ DropUniqueMeta(a) \/ DropUniqueUnregister(a)
    PROVE  IndexInv'
<1> USE DEF IndexInv
<1>1. /\ ddl[a].op \in {"dropUnique", "dropMeta"}
      /\ UNCHANGED <<node, labelled, nextID, idx, indexed, missing, stale>>
  BY DEF DropUniqueShard, DropUniqueMeta, DropUniqueUnregister, Ddl, dataVars, regVars, histVars, idxVars
<1>2. ddl[a] \in Call /\ CallOK(ddl[a]) /\ ddl[a].def = {} BY <1>1 DEF TypeOK, CallOK, IndexOps
<1>3. Dropping({}) BY <1>1, <1>2 DEF Dropping, Drops
<1>4. \A b \in Admins : ddl[b].op \in UniqueBuilds => ~ddl[b].clean
  BY <1>1, OnlyCall DEF IndexOps, UniqueBuilds
<1>5. ASSUME NEW c \in Call, CallOK(c), ddl' = [ddl EXCEPT ![a] = c],
             c.op = "idle" \/ (c.op \in {"dropUnique", "dropMeta"} /\ c.def = {} /\ c.clean = ddl[a].clean),
             idxUnique' \in Owners, uniqueMeta' \in BOOLEAN, unique' \in BOOLEAN,
             unique' => c.op # "idle", unique' => unique,
             uniqueMeta' => uniqueMeta /\ (unique => unique')
      PROVE  IndexInv'
  <2>1. /\ ddl' \in [Admins -> Call] /\ \A b \in Admins : CallOK(ddl'[b])
        /\ ddl'[a] = c /\ \A b \in Admins \ {a} : ddl'[b] = ddl[b]
        /\ Alone'
    BY <1>1, <1>2, <1>5, OneCall
  <2>2. TypeOK' BY <1>1, <1>5, <2>1, DdlTypes DEF TypeOK
  <2>3. Fresh' /\ EntriesTrue' /\ Full' /\ BuiltSoFar'
    BY <1>1, <1>5, <2>1, UniqueCallIndex DEF IndexOps
  <2>4. unique' => Dropping({})' BY <1>5, <2>1 DEF Dropping, Drops
  <2>5. AllOwned' BY <2>4 DEF AllOwned
  <2>6. \A b \in Admins : ddl'[b].op \in UniqueBuilds => ddl'[b] = ddl[b]
    BY <1>5, <2>1 DEF UniqueBuilds
  <2>7. Collected' BY <1>4, <2>6 DEF Collected
  <2>8. LateBuild' BY <1>1, <1>5, <2>6 DEF LateBuild
  <2>9. \A b \in Admins : ddl[b].op = "register" => ddl'[b].op = "register" BY <1>1, <2>1
  <2>10. MetaAhead' BY <1>1, <1>5, <2>9 DEF MetaAhead
  <2>11. QED BY <2>1, <2>2, <2>3, <2>5, <2>7, <2>8, <2>10
<1>6. uniqueMeta \in BOOLEAN /\ unique \in BOOLEAN /\ idxUnique \in Owners BY DEF TypeOK
<1>7. CASE DropUniqueShard(a)
  <2> DEFINE n == ddl[a].next
             op2 == IF n = NumShards - 1 THEN "dropMeta" ELSE "dropUnique"
             c == [ddl[a] EXCEPT !.next = n + 1, !.op = op2]
  <2>1. /\ n \in Shards /\ ddl' = [ddl EXCEPT ![a] = c]
        /\ idxUnique' = [idxUnique EXCEPT ![n] = [v \in Values |-> None]]
        /\ UNCHANGED <<uniqueMeta, unique>>
    BY <1>7 DEF DropUniqueShard, regVars
  <2>2. n + 1 \in 0..NumShards BY <2>1, IndexAssumption DEF Shards
  <2>3. op2 \in {"dropUnique", "dropMeta"} OBVIOUS
  <2> HIDE DEF op2, n
  <2>4. c \in Call /\ c.op = op2 /\ c.def = {} /\ c.clean = ddl[a].clean
    BY <1>2, <2>2, <2>3 DEF Call, Drops
  <2>5. CallOK(c) BY <2>3, <2>4 DEF CallOK, IndexOps
  <2>6. c.op # "idle" BY <2>3, <2>4
  <2> HIDE DEF c
  <2>7. idxUnique' \in Owners BY <1>6, <2>1 DEF Owners
  <2>8. QED BY <1>5, <1>6, <2>1, <2>3, <2>4, <2>5, <2>6, <2>7
<1>8. CASE DropUniqueMeta(a)
  <2>1. ddl[a].op = "dropMeta" /\ uniqueMeta' = FALSE /\ UNCHANGED <<idxUnique, unique, ddl>>
    BY <1>8 DEF DropUniqueMeta, regVars
  <2>2. ddl' = [ddl EXCEPT ![a] = ddl[a]] BY <2>1 DEF TypeOK
  <2>3. QED BY <1>2, <1>5, <1>6, <2>1, <2>2
<1>9. CASE DropUniqueUnregister(a)
  <2>1. ~uniqueMeta /\ unique' = FALSE /\ ddl' = [ddl EXCEPT ![a] = Idle] /\ UNCHANGED <<idxUnique, uniqueMeta>>
    BY <1>9 DEF DropUniqueUnregister, idxVars
  <2>2. Idle \in Call /\ CallOK(Idle) /\ Idle.op = "idle"
    BY IndexAssumption DEF Idle, Call, CallOK, IndexOps
  <2>3. QED BY <1>5, <1>6, <2>1, <2>2
<1>10. QED BY <1>7, <1>8, <1>9

\* A failed transaction: an index half dropped counts as one that misses entries.
LEMMA DdlFailsKeeps ==
    ASSUME IndexInv, NEW a \in Admins, DdlFails(a)
    PROVE  IndexInv'
<1> USE DEF IndexInv
<1>1. /\ InTransaction(a) /\ ddl' = [ddl EXCEPT ![a] = Idle]
      /\ missing' = missing \cup (IF ddl[a].op \in Drops THEN {ddl[a].def} ELSE {})
      /\ UNCHANGED <<node, labelled, nextID, idx, idxUnique, uniqueMeta, indexed, unique, stale>>
  BY DEF DdlFails, dataVars, idxVars, regVars
<1>2. Idle \in Call /\ CallOK(Idle) /\ Idle.op = "idle"
  BY IndexAssumption DEF Idle, Call, CallOK, IndexOps
<1>3. /\ ddl' \in [Admins -> Call] /\ \A b \in Admins : CallOK(ddl'[b])
      /\ ddl'[a] = Idle /\ \A b \in Admins \ {a} : ddl'[b] = ddl[b]
      /\ Alone'
  BY <1>1, <1>2, OneCall
<1>4. TypeOK' BY <1>1, <1>3, DdlTypes DEF TypeOK
<1>5. \A D : Dropping(D) => Dropping(D)' \/ D \in missing' BY <1>1, <1>3 DEF Dropping
<1>6. \A b \in Admins : ddl'[b].op # "idle" => ddl'[b] = ddl[b] BY <1>2, <1>3
<1>7. Fresh' /\ EntriesTrue' /\ Full' /\ BuiltSoFar'
  BY <1>1, <1>5, <1>6, IndexSideKept
<1>8. \A b \in Admins : ddl[b].op = "register" => ddl'[b].op = "register"
  BY <1>1, <1>3 DEF InTransaction
<1>9. AllOwned' /\ Collected' /\ LateBuild' /\ MetaAhead'
  BY <1>1, <1>5, <1>6, <1>8, UniqueSideKept DEF UniqueBuilds
<1>10. QED BY <1>3, <1>4, <1>7, <1>9

\* Open finds an index that nobody was dropping as it was, and the constraint as its
\* registry had it or was about to have it.
LEMMA ReopenKeeps ==
    ASSUME IndexInv, Reopen
    PROVE  IndexInv'
<1> USE DEF IndexInv
<1> DEFINE half == Dropping({}) \/ \E a \in Admins : Building(a) /\ ddl[a].def = {} /\ ~ddl[a].clean
<1>1. /\ indexed' = discoverIndexes /\ unique' = uniqueMeta
      /\ missing' = missing \cup {D \in discoverIndexes : D \notin indexed \/ Dropping(D)}
                            \cup (IF half THEN {{}} ELSE {})
      /\ ddl' = [a \in Admins |-> Idle]
      /\ UNCHANGED <<node, labelled, nextID, idx, idxUnique, uniqueMeta, stale>>
  BY DEF Reopen, discoverUniqueConstraints, dataVars, idxVars
<1>2. Idle \in Call /\ CallOK(Idle) /\ Idle.op = "idle"
  BY IndexAssumption DEF Idle, Call, CallOK, IndexOps
<1>3. discoverIndexes \subseteq Defs BY DEF discoverIndexes
<1>4. /\ ddl' \in [Admins -> Call] /\ \A b \in Admins : CallOK(ddl'[b])
      /\ \A b \in Admins : ddl'[b].op = "idle"
  BY <1>1, <1>2
<1>5. TypeOK' BY <1>1, <1>3, <1>4, DdlTypes DEF TypeOK
<1>6. Alone' /\ BuiltSoFar' /\ Collected' /\ LateBuild'
  BY <1>4 DEF Alone, BuiltSoFar, Collected, LateBuild, UniqueBuilds
<1>7. Fresh' /\ EntriesTrue' BY <1>1 DEF Fresh, EntriesTrue, Matches
<1>8. MetaAhead' BY <1>1 DEF MetaAhead
<1>9. Full'
  <2>1. SUFFICES ASSUME NEW D \in discoverIndexes, D \notin missing', NEW j \in Ids PROVE HasEntry(D, j)
    BY <1>1 DEF Full, HasEntry
  <2>2. D \in indexed /\ D \notin missing /\ ~Dropping(D) BY <1>1, <2>1
  <2>3. QED BY <2>2 DEF Full
<1>10. AllOwned'
  <2>1. SUFFICES ASSUME uniqueMeta, {} \notin missing', NEW j \in labelled PROVE Owned(j)
    BY <1>1 DEF AllOwned, Owned, Val
  <2>2. {} \notin missing /\ ~half BY <1>1, <2>1
  <2>3. CASE unique BY <2>2, <2>3 DEF AllOwned
  <2>4. CASE ~unique
    <3>1. PICK a \in Admins : ddl[a].op = "register" BY <2>1, <2>2, <2>4 DEF MetaAhead
    <3>2. /\ ddl[a] \in Call /\ ddl[a].def = {} /\ ddl[a].next = NumShards /\ ddl[a].seen = {}
          /\ Building(a)
      BY <3>1 DEF TypeOK, CallOK, IndexOps, Building, Builds
    <3>3. ddl[a].clean BY <2>2, <3>2
    <3>4. CASE Val(j) = Absent BY <3>4 DEF Owned
    <3>5. CASE Val(j) # Absent
      <4>1. j \in Ids BY DEF TypeOK
      <4>2. shardFor(j) < NumShards BY <4>1, ShardType, IndexAssumption DEF Shards
      <4>3. j \in ReadBy(a) BY <3>2, <3>5, <4>2 DEF ReadBy
      <4>4. QED BY <3>1, <3>2, <3>3, <4>3 DEF Collected, UniqueBuilds
    <3>6. QED BY <3>4, <3>5
  <2>5. QED BY <2>3, <2>4
<1>11. QED BY <1>5, <1>6, <1>7, <1>8, <1>9, <1>10

\* Every step of CREATE, DROP and ReIndex keeps the invariant.
LEMMA AdminKeeps ==
    ASSUME IndexInv, NEW a \in Admins, Admin(a)
    PROVE  IndexInv'
<1>1. CASE \E D \in Defs : CreateIndexStart(a, D) \/ DropIndexStart(a, D) \/ ReIndexStart(a, D)
  BY <1>1, StartKeeps DEF CreateIndexStart, DropIndexStart, ReIndexStart, IndexOps
<1>2. CASE CreateUniqueStart(a) \/ DropUniqueStart(a)
  BY <1>2, StartKeeps DEF CreateUniqueStart, DropUniqueStart
<1>3. CASE CreateIndexShard(a) \/ CreateIndexRegister(a)
  BY <1>3, CreateIndexShardKeeps, CreateIndexRegisterKeeps
<1>4. CASE DropIndexShard(a) \/ DropIndexUnregister(a)
  BY <1>4, DropIndexShardKeeps, DropIndexUnregisterKeeps
<1>5. CASE CreateUniqueCollect(a) \/ CreateUniquePut(a)
  BY <1>5, CreateUniqueCollectKeeps, CreateUniquePutKeeps
<1>6. CASE CreateUniqueMeta(a) \/ CreateUniqueRegister(a)
  BY <1>6, CreateUniqueMetaKeeps, CreateUniqueRegisterKeeps
<1>7. CASE DropUniqueShard(a) \/ DropUniqueMeta(a) \/ DropUniqueUnregister(a)
  BY <1>7, DropUniqueKeeps
<1>8. CASE DdlFails(a) BY <1>8, DdlFailsKeeps
<1>9. QED BY <1>1, <1>2, <1>3, <1>4, <1>5, <1>6, <1>7, <1>8 DEF Admin

\* A database without indexes satisfies it.
LEMMA InitIndexInv == Init => IndexInv
<1> SUFFICES ASSUME Init PROVE IndexInv OBVIOUS
<1>1. PICK f \in [1..Preloaded -> Payloads] :
        node = [id \in Ids |-> IF id <= Preloaded THEN f[id] ELSE None]
  BY DEF Init
<1>2. /\ labelled \subseteq 1..Preloaded /\ nextID = Preloaded + 1 /\ idx = {} /\ uniqueMeta = FALSE
      /\ idxUnique = [s \in Shards |-> [v \in Values |-> None]]
      /\ indexed = {} /\ unique = FALSE /\ ddl = [a \in Admins |-> Idle]
  BY DEF Init
<1>3. Preloaded \in Nat /\ MaxNodes \in Nat /\ Preloaded <= MaxNodes BY IndexAssumption
<1>4. Payloads \subseteq Props /\ None \notin Props BY IndexAssumption DEF Props
<1>5. \A id \in Ids : id <= Preloaded => node[id] \in Props /\ node[id] # None
  BY <1>1, <1>3, <1>4 DEF Ids
<1>6. \A id \in Ids : ~(id <= Preloaded) => node[id] = None BY <1>1
<1>7. node \in [Ids -> Props \cup {None}]
  <2>1. \A id \in Ids : node[id] \in Props \cup {None} BY <1>5, <1>6
  <2>2. QED BY <1>1, <2>1
<1>8. labelled \subseteq {id \in Ids : node[id] # None} BY <1>2, <1>3, <1>5 DEF Ids
<1>9. Idle \in Call /\ CallOK(Idle) /\ Idle.op = "idle"
  BY IndexAssumption DEF Idle, Call, CallOK, IndexOps
<1>10. idxUnique \in Owners BY <1>2 DEF Owners
<1>11. ddl \in [Admins -> Call] /\ \A a \in Admins : CallOK(ddl[a]) /\ ddl[a].op = "idle" BY <1>2, <1>9
<1>12. TypeOK
  <2>1. nextID \in Nat BY <1>2, <1>3
  <2>2. idx \subseteq Entry /\ indexed \subseteq Defs BY <1>2
  <2>3. uniqueMeta \in BOOLEAN /\ unique \in BOOLEAN BY <1>2
  <2>4. QED BY <1>7, <1>8, <1>10, <1>11, <2>1, <2>2, <2>3 DEF TypeOK
<1>13. Fresh BY <1>2, <1>3, <1>6, ShardType DEF Fresh
<1>14. Alone /\ BuiltSoFar /\ Collected /\ LateBuild
  BY <1>11 DEF Alone, BuiltSoFar, Collected, LateBuild, UniqueBuilds
<1>15. EntriesTrue /\ Full /\ AllOwned /\ MetaAhead BY <1>2 DEF EntriesTrue, Full, AllOwned, MetaAhead
<1>16. QED BY <1>12, <1>13, <1>14, <1>15 DEF IndexInv

\* So does a step that changes nothing.
LEMMA StutterIndexInv == ASSUME IndexInv, UNCHANGED vars PROVE IndexInv'
<1>1. /\ UNCHANGED <<node, labelled, nextID, idx, idxUnique, uniqueMeta, indexed, unique, missing, stale>>
      /\ ddl' = ddl
  BY DEF vars, dataVars, idxVars, regVars, histVars
<1>2. TypeOK' /\ Alone' BY <1>1 DEF IndexInv, TypeOK, Alone
<1>3. \A D : Dropping(D) => Dropping(D)' BY <1>1 DEF Dropping
<1>4. Fresh' /\ EntriesTrue' /\ Full' /\ BuiltSoFar' BY <1>1, <1>3, IndexSideKept
<1>5. AllOwned' /\ Collected' /\ LateBuild' /\ MetaAhead' BY <1>1, <1>3, UniqueSideKept
<1>6. QED BY <1>2, <1>4, <1>5 DEF IndexInv

--------------------------------------------------------------------------------
(* Theorems.                                                                *)

\* The invariant holds in every reachable state.
THEOREM IndexInvariance == Spec => []IndexInv
<1>1. Init => IndexInv BY InitIndexInv
<1>2. IndexInv /\ [Next]_vars => IndexInv'
  BY NodeWriteKeeps, AdminKeeps, ReopenKeeps, StutterIndexInv DEF Next
<1>3. QED BY <1>1, <1>2, PTL DEF Spec

\* FindByProperty and FindByCompositeIndex find every node a scan finds, for any
\* number of nodes, shards, indexes and administrators.
THEOREM LookupsComplete == Spec => []LookupComplete
<1>1. ASSUME IndexInv PROVE LookupComplete
  <2>1. SUFFICES ASSUME NEW D \in Defs \ missing, NEW vals \in [D -> Values], ~Dropping(D),
                        NEW id \in Scan(D, vals), D \in indexed
                 PROVE  [def |-> D, id |-> id, vals |-> vals] \in idx /\ id \in Ids /\ node[id] # None
    BY DEF LookupComplete, Find
  <2>2. id \in Ids /\ node[id] # None /\ \A p \in D : node[id][p] = vals[p] BY DEF Scan
  <2>3. HasEntry(D, id) BY <1>1, <2>1, <2>2 DEF IndexInv, Full
  <2>4. buildCompositeKey(D, id, node[id]) = {[def |-> D, id |-> id, vals |-> vals]}
    BY <2>2, KeyOf
  <2>5. QED BY <2>2, <2>3, <2>4 DEF HasEntry
<1>2. QED BY <1>1, IndexInvariance, PTL

\* They find nothing else.
THEOREM LookupsSound == Spec => []LookupSound
<1>1. ASSUME IndexInv PROVE LookupSound
  <2>1. SUFFICES ASSUME NEW D \in Defs \ stale, NEW vals \in [D -> Values], NEW id \in Find(D, vals)
                 PROVE  id \in Scan(D, vals)
    BY DEF LookupSound
  <2>2. CASE D \notin indexed BY <2>1, <2>2 DEF Find
  <2>3. CASE D \in indexed
    <3> DEFINE e == [def |-> D, id |-> id, vals |-> vals]
    <3>1. id \in Ids /\ node[id] # None /\ e \in idx BY <2>1, <2>3 DEF Find
    <3>2. e.def = D /\ e.id = id /\ e.vals = vals OBVIOUS
    <3> HIDE DEF e
    <3>3. Matches(e) BY <1>1, <2>1, <3>1, <3>2 DEF IndexInv, EntriesTrue
    <3>4. QED BY <3>1, <3>2, <3>3 DEF Matches, Scan
  <2>4. QED BY <2>2, <2>3
<1>2. QED BY <1>1, IndexInvariance, PTL

\* Every node with the label owns the entry of its value while the constraint is
\* registered, and the lookup of the value finds an owner.
THEOREM UniqueIsHeld == Spec => []UniqueHeld
<1>1. ASSUME IndexInv PROVE UniqueHeld
  <2>1. SUFFICES ASSUME unique, {} \notin missing, ~Dropping({}), NEW id \in labelled, Val(id) # Absent
                 PROVE  idxUnique[shardFor(id)][Val(id)] = id /\ lookupUniqueIndex(Val(id)) # None
    BY DEF UniqueHeld, Val
  <2> DEFINE v == Val(id)
             S == {s \in Shards : idxUnique[s][v] # None}
  <2>2. idxUnique[shardFor(id)][v] = id BY <1>1, <2>1 DEF IndexInv, AllOwned, Owned
  <2>3. id \in Ids /\ shardFor(id) \in Shards BY <1>1, ShardType DEF IndexInv, TypeOK
  <2>4. id # None BY <2>3, IndexAssumption DEF Ids
  <2>5. shardFor(id) \in S /\ S \subseteq Nat BY <2>2, <2>3, <2>4, IndexAssumption DEF Shards
  <2>6. \E s \in S : \A t \in S : s <= t
    <3> HIDE DEF S
    <3>1. QED BY <2>5, NatLeast
  <2>7. (CHOOSE s \in S : \A t \in S : s <= t) \in S BY <2>6
  <2>8. lookupUniqueIndex(v) # None BY <2>5, <2>7 DEF lookupUniqueIndex
  <2>9. QED BY <2>2, <2>8
<1>2. QED BY <1>1, IndexInvariance, PTL
================================================================================
