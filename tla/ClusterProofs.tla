------------------------------ MODULE ClusterProofs ------------------------------
(***************************************************************************)
(* For any set of nodes and any bounds: a node's role, client, router and server *)
(* agree with raft whenever its watcher has nothing to do, and a leader never     *)
(* runs a replication client.  The same under the data of Failover, whose        *)
(* allocators fall behind their data only by replication.                        *)
(***************************************************************************)
EXTENDS Failover, OrderFacts

Leaders == Nodes \cup {NoOne}

\* Every variable of node m but those of raft and the channel is as it was.
SameNode(m) ==
    /\ wasLeader'[m] = wasLeader[m] /\ lastLeaderID'[m] = lastLeaderID[m] /\ pc'[m] = pc[m]
    /\ role'[m] = role[m] /\ router'[m] = router[m] /\ client'[m] = client[m]
    /\ serving'[m] = serving[m] /\ closed'[m] = closed[m]

SameRaft(m) ==
    view'[m] = view[m] /\ observerCh'[m] = observerCh[m] /\ dropped'[m] = dropped[m]

\* What IInv says of one node.
NodeInv(n) ==
    /\ Chained(n)
    /\ WatcherSound(n)
    /\ pc[n] = "select" /\ observerCh[n] = << >> /\ ~dropped[n] /\ ~closed[n]
         => Agrees(n, view[n])
    /\ role[n] = "leader" => client[n] = NoOne

\* The invariant, node by node, before a step and after it.
LEMMA IInvByNode ==
    /\ IInv <=> TypeOK /\ \A n \in Nodes : NodeInv(n)
    /\ IInv' <=> TypeOK' /\ \A n \in Nodes : NodeInv(n)'
BY DEF IInv, NodeInv, Settled, LeaderDoesNotReplicate

\* A node no step touches keeps its part of the invariant.
LEMMA Untouched ==
    ASSUME NEW m \in Nodes, NodeInv(m), SameNode(m), SameRaft(m)
    PROVE  NodeInv(m)'
BY DEF NodeInv, SameNode, SameRaft, Chained, WatcherSound, Agrees

\* SetLeader on a change: the channel gains the new leader, or is marked dropped,
\* and stays a chain of changes.
LEMMA PushChained ==
    ASSUME NEW n \in Nodes, NEW l \in Leaders, TypeOK, Chained(n), l # view[n],
           SetLeader(n, l), lastLeaderID' = lastLeaderID
    PROVE  /\ view' \in [Nodes -> Leaders]
           /\ observerCh' \in [Nodes -> Seq(Leaders)]
           /\ dropped' \in [Nodes -> BOOLEAN]
           /\ Chained(n)'
           /\ observerCh'[n] # << >> \/ dropped'[n]
           /\ \A m \in Nodes \ {n} : SameRaft(m)
<1> USE DEF Leaders
<1>1. view' \in [Nodes -> Leaders] /\ view'[n] = l
  BY DEF TypeOK, SetLeader
<1>2. CASE Len(observerCh[n]) < ObserverCap
  <2>1. observerCh' = [observerCh EXCEPT ![n] = Append(@, l)] /\ dropped' = dropped
    BY <1>2 DEF SetLeader
  <2> DEFINE q == observerCh[n]
  <2>2. q \in Seq(Leaders) /\ observerCh'[n] = Append(q, l)
    BY <2>1 DEF TypeOK
  <2>3. observerCh' \in [Nodes -> Seq(Leaders)] /\ dropped' \in [Nodes -> BOOLEAN]
    BY <2>1, <2>2 DEF TypeOK
  <2>4. /\ Len(Append(q, l)) = Len(q) + 1 /\ Append(q, l) # << >>
        /\ Append(q, l)[Len(q) + 1] = l
        /\ \A i \in 1 .. Len(q) : Append(q, l)[i] = q[i]
    BY <2>2
  <2>5. Chained(n)'
    <3> SUFFICES ASSUME ~dropped[n]
                 PROVE  /\ Append(q, l)[1] # lastLeaderID[n]
                        /\ Append(q, l)[Len(q) + 1] = l
                        /\ \A i \in 1 .. Len(q) : Append(q, l)[i] # Append(q, l)[i + 1]
      BY <1>1, <2>1, <2>2, <2>4 DEF Chained
    <3>1. Append(q, l)[1] # lastLeaderID[n]
      <4>1. CASE q = << >>
        BY <2>4, <4>1 DEF Chained
      <4>2. CASE q # << >>
        <5>1. Len(q) \in Nat /\ Len(q) >= 1
          BY <2>2, <4>2
        <5> QED BY <2>4, <4>2, <5>1 DEF Chained
      <4> QED BY <4>1, <4>2
    <3>2. ASSUME NEW i \in 1 .. Len(q) PROVE Append(q, l)[i] # Append(q, l)[i + 1]
      <4>0. Len(q) \in Nat /\ q # << >>
        BY <2>2
      <4>1. CASE i = Len(q)
        BY <2>4, <4>0, <4>1 DEF Chained
      <4>2. CASE i < Len(q)
        <5>1. i \in 1 .. Len(q) - 1 /\ i + 1 \in 1 .. Len(q)
          BY <4>0, <4>2
        <5> QED BY <2>4, <5>1 DEF Chained
      <4> QED BY <4>0, <4>1, <4>2
    <3> QED BY <2>4, <3>1, <3>2
  <2>6. observerCh'[n] # << >>
    BY <2>2, <2>4
  <2>7. \A m \in Nodes \ {n} : SameRaft(m)
    BY <2>1 DEF SameRaft, SetLeader, TypeOK
  <2> QED BY <1>1, <2>3, <2>5, <2>6, <2>7
<1>3. CASE ~(Len(observerCh[n]) < ObserverCap)
  <2>1. dropped' = [dropped EXCEPT ![n] = TRUE] /\ observerCh' = observerCh
    BY <1>3 DEF SetLeader
  <2>2. dropped'[n] /\ dropped' \in [Nodes -> BOOLEAN]
    BY <2>1 DEF TypeOK
  <2>3. \A m \in Nodes \ {n} : SameRaft(m)
    BY <2>1 DEF SameRaft, SetLeader, TypeOK
  <2> QED BY <1>1, <2>1, <2>2, <2>3 DEF Chained, TypeOK
<1> QED BY <1>2, <1>3

\* Raft's steps: the node's view changes and nothing else of it does.
LEMMA RaftStep ==
    ASSUME NEW n \in Nodes, IInv, Raft(n)
    PROVE  IInv'
<1> USE DEF Leaders
<1>1. PICK l \in Leaders : l # view[n] /\ SetLeader(n, l)
  <2>1. CASE Elect(n)
    BY <2>1, ClusterAssumption DEF Elect
  <2>2. CASE Learn(n)
    <3>1. leaderOf \in Seq(Nodes)
      BY DEF IInv, TypeOK
    <3> QED BY <2>2, <3>1 DEF Learn
  <2>3. CASE Lose(n)
    BY <2>3 DEF Lose
  <2> QED BY <2>1, <2>2, <2>3 DEF Raft
<1>2. UNCHANGED <<watchVars, nodeVars, closeVars, listenFaults>>
  BY DEF Raft, Elect, Learn, Lose
<1>3. \A m \in Nodes : SameNode(m)
  BY <1>2 DEF watchVars, nodeVars, closeVars, SameNode
<1>4. /\ view' \in [Nodes -> Leaders]
      /\ observerCh' \in [Nodes -> Seq(Leaders)]
      /\ dropped' \in [Nodes -> BOOLEAN]
      /\ Chained(n)'
      /\ observerCh'[n] # << >> \/ dropped'[n]
      /\ \A m \in Nodes \ {n} : SameRaft(m)
  BY <1>1, <1>2, PushChained DEF IInv, watchVars
<1>5. leaderOf' \in Seq(Nodes) /\ seen' \in [Nodes -> Nat] /\ losses' \in Nat
  <2>1. leaderOf \in Seq(Nodes) /\ seen \in [Nodes -> Nat] /\ losses \in Nat
    BY DEF IInv, TypeOK
  <2>2. CASE Elect(n)
    BY <2>1, <2>2 DEF Elect
  <2>3. CASE Learn(n)
    BY <2>1, <2>3 DEF Learn
  <2>4. CASE Lose(n)
    BY <2>1, <2>4 DEF Lose
  <2> QED BY <2>2, <2>3, <2>4 DEF Raft
<1>6. TypeOK'
  BY <1>2, <1>4, <1>5 DEF IInv, TypeOK, watchVars, nodeVars, closeVars
<1>7. ASSUME NEW m \in Nodes PROVE NodeInv(m)'
  <2>1. NodeInv(m)
    BY IInvByNode
  <2>2. CASE m # n
    BY <1>3, <1>4, <2>1, <2>2, Untouched
  <2>3. CASE m = n
    <3>1. SameNode(n)
      BY <1>3
    <3> QED BY <1>4, <2>1, <2>3, <3>1 DEF NodeInv, SameNode, WatcherSound
  <2> QED BY <2>2, <2>3
<1> QED BY <1>6, <1>7, IInvByNode

\* An observation taken: without drops it is a change, so a callback starts.
LEMMA ObserveStep ==
    ASSUME NEW n \in Nodes, IInv, Observe(n)
    PROVE  IInv'
<1> USE DEF Leaders
<1> DEFINE q == observerCh[n]
           l == Head(q)
<1>1. /\ pc[n] = "select" /\ q # << >>
      /\ observerCh' = [observerCh EXCEPT ![n] = Tail(q)]
      /\ UNCHANGED <<raftVars, dropped, nodeVars, closeVars, listenFaults>>
  BY DEF Observe
<1>2. q \in Seq(Leaders) /\ l \in Leaders /\ l = q[1] /\ Tail(q) \in Seq(Leaders)
  <2>1. q \in Seq(Leaders)
    BY DEF IInv, TypeOK
  <2> QED BY <1>1, <2>1
<1>3. observerCh' \in [Nodes -> Seq(Leaders)] /\ observerCh'[n] = Tail(q)
  BY <1>1, <1>2 DEF IInv, TypeOK
<1>4. \A m \in Nodes \ {n} : SameNode(m) /\ SameRaft(m)
  BY <1>1 DEF Observe, IInv, TypeOK, SameNode, SameRaft, raftVars, nodeVars, watchVars, closeVars
<1>5. NodeInv(n)
  BY IInvByNode
<1>6. /\ Len(Tail(q)) = Len(q) - 1 /\ Len(q) \in Nat /\ Len(q) >= 1
      /\ \A i \in 1 .. Len(q) - 1 : Tail(q)[i] = q[i + 1]
      /\ Tail(q) = << >> => Len(Tail(q)) = 0
      /\ Tail(q) # << >> => Len(Tail(q)) >= 1
  <2>1. Len(Tail(q)) = Len(q) - 1 /\ Len(q) \in Nat /\ Len(q) >= 1
    BY <1>1, <1>2
  <2>2. \A i \in 1 .. Len(q) - 1 : Tail(q)[i] = q[i + 1]
    BY <1>1, <1>2
  <2>3. Tail(q) = << >> => Len(Tail(q)) = 0
    <3>1. Len(<< >>) = 0
      OBVIOUS
    <3> QED BY <3>1, Zenon
  <2>4. Tail(q) # << >> => Len(Tail(q)) >= 1
    BY <1>2
  <2> QED BY <2>1, <2>2, <2>3, <2>4
<1>7. CASE Changed(n, l)
  <2>1. /\ wasLeader' = [wasLeader EXCEPT ![n] = (l = n)]
        /\ lastLeaderID' = [lastLeaderID EXCEPT ![n] = l]
        /\ pc' = [pc EXCEPT ![n] = IF l = n THEN "stopClient" ELSE "demote"]
    BY <1>7 DEF Observe
  <2>2. wasLeader' \in [Nodes -> BOOLEAN] /\ wasLeader'[n] = (l = n)
    BY <2>1 DEF IInv, TypeOK
  <2>3. /\ lastLeaderID' \in [Nodes -> Leaders] /\ lastLeaderID'[n] = l
        /\ pc'[n] = IF l = n THEN "stopClient" ELSE "demote"
        /\ pc' \in [Nodes -> {"select", "stopClient", "promote", "serve", "demote",
                              "stopAll", "discover", "ended"}]
    BY <1>2, <2>1 DEF IInv, TypeOK
  <2>4. TypeOK'
    BY <1>1, <1>3, <2>2, <2>3 DEF IInv, TypeOK, raftVars, nodeVars, closeVars
  <2>5. Chained(n)'
    <3> SUFFICES ASSUME ~dropped[n]
                 PROVE  /\ Tail(q) = << >> => l = view[n]
                        /\ Tail(q) # << >> => /\ Tail(q)[1] # l
                                              /\ Tail(q)[Len(Tail(q))] = view[n]
                        /\ \A i \in 1 .. Len(Tail(q)) - 1 : Tail(q)[i] # Tail(q)[i + 1]
      BY <1>1, <1>3, <2>3 DEF Chained, raftVars
    <3>1. /\ q[Len(q)] = view[n]
          /\ \A i \in 1 .. Len(q) - 1 : q[i] # q[i + 1]
      BY <1>1, <1>5 DEF NodeInv, Chained
    <3>2. CASE Tail(q) = << >>
      <4>1. Len(q) = 1 /\ Len(Tail(q)) = 0
        BY <1>6, <3>2
      <4> QED BY <1>2, <3>1, <3>2, <4>1
    <3>3. CASE Tail(q) # << >>
      <4>1. Tail(q)[1] # l
        <5>1. 1 \in 1 .. Len(q) - 1
          BY <1>6, <3>3
        <5> QED BY <1>2, <1>6, <3>1, <5>1
      <4>2. Tail(q)[Len(Tail(q))] = view[n]
        <5>1. Len(q) - 1 \in 1 .. Len(q) - 1
          BY <1>6, <3>3
        <5> QED BY <1>6, <3>1, <5>1
      <4>3. ASSUME NEW i \in 1 .. Len(Tail(q)) - 1 PROVE Tail(q)[i] # Tail(q)[i + 1]
        <5>1. i \in 1 .. Len(q) - 1 /\ i + 1 \in 1 .. Len(q) - 1
          BY <1>6
        <5> QED BY <1>6, <3>1, <5>1
      <4> QED BY <3>3, <4>1, <4>2, <4>3
    <3> QED BY <3>2, <3>3
  <2>6. role' = role /\ client' = client /\ (l = n => lastLeaderID[n] # n)
    BY <1>1, <1>5, <1>7 DEF nodeVars, Changed, NodeInv, WatcherSound
  <2>7. WatcherSound(n)'
    BY <1>1, <1>5, <2>2, <2>3, <2>6 DEF NodeInv, WatcherSound
  <2>8. NodeInv(n)'
    BY <1>5, <2>3, <2>5, <2>6, <2>7 DEF NodeInv
  <2>9. ASSUME NEW m \in Nodes PROVE NodeInv(m)'
    BY <1>4, <2>8, IInvByNode, Untouched
  <2> QED BY <2>4, <2>9, IInvByNode
<1>8. CASE ~Changed(n, l)
  <2>1. UNCHANGED watchVars /\ l = lastLeaderID[n] /\ dropped[n]
    <3>1. UNCHANGED watchVars
      BY <1>8 DEF Observe
    <3>2. l = lastLeaderID[n]
      BY <1>8 DEF Changed
    <3>3. dropped[n]
      BY <1>1, <1>2, <1>5, <3>2 DEF NodeInv, Chained
    <3> QED BY <3>1, <3>2, <3>3
  <2>2. TypeOK'
    BY <1>1, <1>3, <2>1 DEF IInv, TypeOK, raftVars, nodeVars, closeVars, watchVars
  <2>3. NodeInv(n)'
    BY <1>1, <1>5, <2>1 DEF NodeInv, Chained, WatcherSound, raftVars, nodeVars, closeVars, watchVars
  <2>4. ASSUME NEW m \in Nodes PROVE NodeInv(m)'
    BY <1>4, <2>3, IInvByNode, Untouched
  <2> QED BY <2>2, <2>4, IInvByNode
<1> QED BY <1>7, <1>8

\* A step of a callback, or WatchEnds: the node's own state changes, raft's does
\* not, and no other node's does.
CallbackFrame(n) ==
    /\ UNCHANGED <<raftVars, observerCh, dropped, wasLeader, lastLeaderID, closeVars>>
    /\ \A m \in Nodes \ {n} : SameNode(m) /\ SameRaft(m)

\* Such a step keeps the invariant if it keeps the types and the node's own part.
LEMMA CallbackKeeps ==
    ASSUME NEW n \in Nodes, IInv, CallbackFrame(n), TypeOK', WatcherSound(n)',
           pc'[n] = "select" /\ observerCh[n] = << >> /\ ~dropped[n] /\ ~closed[n]
             => Agrees(n, view[n])',
           role'[n] = "leader" => client'[n] = NoOne
    PROVE  IInv'
<1>1. NodeInv(n)
  BY IInvByNode
<1>2. Chained(n)'
  BY <1>1 DEF NodeInv, Chained, CallbackFrame, raftVars
<1>3. NodeInv(n)'
  BY <1>2 DEF NodeInv, CallbackFrame, closeVars
<1>4. ASSUME NEW m \in Nodes PROVE NodeInv(m)'
  BY <1>3, IInvByNode, Untouched DEF CallbackFrame
<1> QED BY <1>4, IInvByNode

\* becomeLeader stops the client before the role changes.
LEMMA StopClientStep ==
    ASSUME NEW n \in Nodes, IInv, StopClient(n)
    PROVE  IInv'
<1>1. NodeInv(n)
  BY IInvByNode
<1>2. TypeOK'
  BY DEF IInv, TypeOK, StopClient, raftVars, closeVars, nodeVars
<1>3. CallbackFrame(n)
  BY DEF CallbackFrame, SameNode, SameRaft, IInv, TypeOK, StopClient, raftVars, closeVars, nodeVars
<1>4. WatcherSound(n)'
  BY <1>1 DEF NodeInv, WatcherSound, IInv, TypeOK, StopClient, raftVars, closeVars, nodeVars
<1>5. role'[n] = "leader" => client'[n] = NoOne
  BY <1>1 DEF NodeInv, WatcherSound, IInv, TypeOK, StopClient, nodeVars
<1>6. pc'[n] # "select"
  BY DEF IInv, TypeOK, StopClient
<1> QED BY <1>2, <1>3, <1>4, <1>5, <1>6, CallbackKeeps

\* becomeLeader switches the role of a node without a client.
LEMMA PromoteStep ==
    ASSUME NEW n \in Nodes, IInv, Promote(n)
    PROVE  IInv'
<1>1. NodeInv(n)
  BY IInvByNode
<1>2. TypeOK'
  BY DEF IInv, TypeOK, Promote, raftVars, closeVars, nodeVars
<1>3. CallbackFrame(n)
  BY DEF CallbackFrame, SameNode, SameRaft, IInv, TypeOK, Promote, raftVars, closeVars, nodeVars
<1>4. WatcherSound(n)'
  BY <1>1 DEF NodeInv, WatcherSound, IInv, TypeOK, Promote, raftVars, closeVars, nodeVars
<1>5. role'[n] = "leader" => client'[n] = NoOne
  BY <1>1 DEF NodeInv, WatcherSound, IInv, TypeOK, Promote, nodeVars
<1>6. pc'[n] # "select"
  BY DEF IInv, TypeOK, Promote
<1> QED BY <1>2, <1>3, <1>4, <1>5, <1>6, CallbackKeeps

\* becomeLeader ends: with an empty channel, raft still names this node.
LEMMA ServeStep ==
    ASSUME NEW n \in Nodes, IInv, Serve(n)
    PROVE  IInv'
<1>1. NodeInv(n)
  BY IInvByNode
<1>2. TypeOK'
  <2>1. listenFaults' \in Nat
    BY DEF IInv, TypeOK, Serve
  <2>2. serving' \in [Nodes -> BOOLEAN]
    BY DEF IInv, TypeOK, Serve
  <2>3. pc' \in [Nodes -> {"select", "stopClient", "promote", "serve", "demote", "stopAll",
                           "discover", "ended"}]
    BY DEF IInv, TypeOK, Serve
  <2> QED BY <2>1, <2>2, <2>3 DEF IInv, TypeOK, Serve, raftVars, closeVars
<1>3. CallbackFrame(n)
  BY DEF CallbackFrame, SameNode, SameRaft, IInv, TypeOK, Serve, raftVars, closeVars, nodeVars
<1>4. WatcherSound(n)'
  BY <1>1 DEF NodeInv, WatcherSound, IInv, TypeOK, Serve, raftVars, closeVars, nodeVars
<1>5. role'[n] = "leader" => client'[n] = NoOne
  BY <1>1 DEF NodeInv, WatcherSound, IInv, TypeOK, Serve, nodeVars
<1>6. observerCh[n] = << >> /\ ~dropped[n] => lastLeaderID[n] = view[n]
  BY <1>1 DEF NodeInv, Chained
<1>7. observerCh[n] = << >> /\ ~dropped[n] => Agrees(n, view[n])'
  BY <1>1, <1>6, ClusterAssumption
     DEF NodeInv, WatcherSound, Agrees, IInv, TypeOK, Serve, raftVars
<1> QED BY <1>2, <1>3, <1>4, <1>5, <1>7, CallbackKeeps

\* becomeFollower takes the role away first.
LEMMA DemoteStep ==
    ASSUME NEW n \in Nodes, IInv, Demote(n)
    PROVE  IInv'
<1>1. NodeInv(n)
  BY IInvByNode
<1>2. TypeOK'
  BY DEF IInv, TypeOK, Demote, raftVars, closeVars, nodeVars
<1>3. CallbackFrame(n)
  BY DEF CallbackFrame, SameNode, SameRaft, IInv, TypeOK, Demote, raftVars, closeVars, nodeVars
<1>4. WatcherSound(n)'
  BY <1>1 DEF NodeInv, WatcherSound, IInv, TypeOK, Demote, raftVars, closeVars, nodeVars
<1>5. role'[n] = "leader" => client'[n] = NoOne
  BY <1>1 DEF NodeInv, WatcherSound, IInv, TypeOK, Demote, nodeVars
<1>6. pc'[n] # "select"
  BY DEF IInv, TypeOK, Demote
<1> QED BY <1>2, <1>3, <1>4, <1>5, <1>6, CallbackKeeps

\* becomeFollower stops the server and the client.
LEMMA StopAllStep ==
    ASSUME NEW n \in Nodes, IInv, StopAll(n)
    PROVE  IInv'
<1>1. NodeInv(n)
  BY IInvByNode
<1>2. TypeOK'
  BY DEF IInv, TypeOK, StopAll, raftVars, closeVars, nodeVars
<1>3. CallbackFrame(n)
  BY DEF CallbackFrame, SameNode, SameRaft, IInv, TypeOK, StopAll, raftVars, closeVars, nodeVars
<1>4. WatcherSound(n)'
  BY <1>1 DEF NodeInv, WatcherSound, IInv, TypeOK, StopAll, raftVars, closeVars, nodeVars
<1>5. role'[n] = "leader" => client'[n] = NoOne
  BY <1>1 DEF NodeInv, WatcherSound, IInv, TypeOK, StopAll, nodeVars
<1>6. pc'[n] # "select"
  BY DEF IInv, TypeOK, StopAll
<1> QED BY <1>2, <1>3, <1>4, <1>5, <1>6, CallbackKeeps

\* becomeFollower ends: with an empty channel, the leader it asks raft for is the one
\* the observation named, and it is not the node itself.
LEMMA DiscoverStep ==
    ASSUME NEW n \in Nodes, IInv, Discover(n)
    PROVE  IInv'
<1>1. NodeInv(n)
  BY IInvByNode
<1>2. TypeOK'
  BY DEF IInv, TypeOK, Discover, raftVars, closeVars, nodeVars
<1>3. CallbackFrame(n)
  BY DEF CallbackFrame, SameNode, SameRaft, IInv, TypeOK, Discover, raftVars, closeVars, nodeVars
<1>4. WatcherSound(n)'
  BY <1>1 DEF NodeInv, WatcherSound, IInv, TypeOK, Discover, raftVars, closeVars, nodeVars
<1>5. role'[n] = "leader" => client'[n] = NoOne
  BY <1>1 DEF NodeInv, WatcherSound, IInv, TypeOK, Discover, nodeVars
<1>6. observerCh[n] = << >> /\ ~dropped[n] => lastLeaderID[n] = view[n]
  BY <1>1 DEF NodeInv, Chained
<1>7. observerCh[n] = << >> /\ ~dropped[n] => Agrees(n, view[n])'
  BY <1>1, <1>6, ClusterAssumption
     DEF NodeInv, WatcherSound, Agrees, IInv, TypeOK, Discover, raftVars
<1> QED BY <1>2, <1>3, <1>4, <1>5, <1>7, CallbackKeeps

\* The watcher of a closed node returns.
LEMMA WatchEndsStep ==
    ASSUME NEW n \in Nodes, IInv, WatchEnds(n)
    PROVE  IInv'
<1>1. NodeInv(n)
  BY IInvByNode
<1>2. TypeOK'
  BY DEF IInv, TypeOK, WatchEnds, raftVars, closeVars, nodeVars
<1>3. CallbackFrame(n)
  BY DEF CallbackFrame, SameNode, SameRaft, IInv, TypeOK, WatchEnds, raftVars, closeVars, nodeVars
<1>4. WatcherSound(n)'
  BY <1>1 DEF NodeInv, WatcherSound, IInv, TypeOK, WatchEnds, raftVars, closeVars, nodeVars
<1>5. role'[n] = "leader" => client'[n] = NoOne
  BY <1>1 DEF NodeInv, WatcherSound, IInv, TypeOK, WatchEnds, nodeVars
<1>6. pc'[n] # "select"
  BY DEF IInv, TypeOK, WatchEnds
<1> QED BY <1>2, <1>3, <1>4, <1>5, <1>6, CallbackKeeps

\* Close stops the client and the server of a node that is then exempt from Settled.
LEMMA CloseStep ==
    ASSUME NEW n \in Nodes, IInv, Close(n)
    PROVE  IInv'
<1> USE DEF Leaders
<1>1. NodeInv(n)
  BY IInvByNode
<1>2. UNCHANGED <<leaderOf, seen, losses, wasLeader, lastLeaderID, pc, role, router,
                  restarts, listenFaults>>
  BY DEF Close, watchVars
<1>3. /\ closed' \in [Nodes -> BOOLEAN] /\ client' \in [Nodes -> Leaders]
      /\ serving' \in [Nodes -> BOOLEAN] /\ closes' \in Nat
      /\ closed'[n] /\ client'[n] = NoOne /\ ~serving'[n]
      /\ pc[n] \in {"select", "stopClient", "demote"}
  BY DEF Close, IInv, TypeOK
<1>4. /\ view' \in [Nodes -> Leaders]
      /\ observerCh' \in [Nodes -> Seq(Leaders)]
      /\ dropped' \in [Nodes -> BOOLEAN]
      /\ Chained(n)'
      /\ \A m \in Nodes \ {n} : SameRaft(m)
  <2>1. CASE view[n] = NoOne
    <3>1. UNCHANGED <<view, observerCh, dropped>>
      BY <2>1 DEF Close
    <3> QED BY <1>1, <1>2, <3>1 DEF NodeInv, Chained, SameRaft, IInv, TypeOK
  <2>2. CASE view[n] # NoOne
    <3>1. SetLeader(n, NoOne)
      BY <2>2 DEF Close
    <3> QED BY <1>1, <1>2, <2>2, <3>1, PushChained DEF NodeInv, IInv
  <2> QED BY <2>1, <2>2
<1>5. TypeOK'
  BY <1>2, <1>3, <1>4 DEF IInv, TypeOK
<1>6. WatcherSound(n)'
  BY <1>1, <1>2, <1>3 DEF NodeInv, WatcherSound
<1>7. NodeInv(n)'
  BY <1>3, <1>4, <1>6 DEF NodeInv
<1>8. \A m \in Nodes \ {n} : SameNode(m)
  BY DEF Close, SameNode, IInv, TypeOK, watchVars
<1>9. ASSUME NEW m \in Nodes PROVE NodeInv(m)'
  BY <1>4, <1>7, <1>8, IInvByNode, Untouched
<1> QED BY <1>5, <1>9, IInvByNode

\* A restarted node is a follower without a leader, and so is raft's view.
LEMMA RestartStep ==
    ASSUME NEW n \in Nodes, IInv, Restart(n)
    PROVE  IInv'
<1>1. TypeOK'
  BY DEF IInv, TypeOK, Restart
<1>2. \A m \in Nodes \ {n} : SameNode(m) /\ SameRaft(m)
  BY DEF Restart, SameNode, SameRaft, IInv, TypeOK
<1>3. /\ view'[n] = NoOne /\ observerCh'[n] = << >> /\ wasLeader'[n] = FALSE
      /\ lastLeaderID'[n] = NoOne /\ pc'[n] = "select" /\ role'[n] = "follower"
      /\ router'[n] = NoOne /\ client'[n] = NoOne /\ ~serving'[n]
  BY DEF Restart, IInv, TypeOK
<1>4. NoOne # n /\ 1 .. Len(<< >>) - 1 = {}
  BY ClusterAssumption
<1>5. NodeInv(n)'
  <2>1. Chained(n)'
    BY <1>3, <1>4 DEF Chained
  <2>2. WatcherSound(n)'
    BY <1>3, <1>4 DEF WatcherSound
  <2> QED BY <1>3, <1>4, <2>1, <2>2 DEF NodeInv, Agrees
<1>6. ASSUME NEW m \in Nodes PROVE NodeInv(m)'
  BY <1>2, <1>5, IInvByNode, Untouched
<1> QED BY <1>1, <1>6, IInvByNode

\* StartCluster's state satisfies the invariant.
LEMMA InitIInv == Init => IInv
<1> SUFFICES ASSUME Init PROVE IInv
  OBVIOUS
<1>1. TypeOK
  BY DEF Init, TypeOK
<1>2. ASSUME NEW n \in Nodes PROVE NodeInv(n)
  <2>1. NoOne # n /\ 1 .. Len(<< >>) - 1 = {}
    BY ClusterAssumption
  <2> QED BY <2>1 DEF Init, NodeInv, Chained, WatcherSound, Agrees
<1> QED BY <1>1, <1>2, IInvByNode

\* Every step keeps it.
LEMMA NextIInv == IInv /\ [Next]_vars => IInv'
<1> SUFFICES ASSUME IInv, [Next]_vars PROVE IInv'
  OBVIOUS
<1>1. ASSUME NEW n \in Nodes, Raft(n) PROVE IInv'
  BY <1>1, RaftStep
<1>2. ASSUME NEW n \in Nodes, Watcher(n) PROVE IInv'
  <2>1. CASE Observe(n)
    BY <2>1, ObserveStep
  <2>2. CASE Callback(n)
    BY <2>2, StopClientStep, PromoteStep, ServeStep, DemoteStep, StopAllStep, DiscoverStep
       DEF Callback
  <2>3. CASE WatchEnds(n)
    BY <2>3, WatchEndsStep
  <2> QED BY <1>2, <2>1, <2>2, <2>3 DEF Watcher
<1>3. ASSUME NEW n \in Nodes, Close(n) PROVE IInv'
  BY <1>3, CloseStep
<1>4. ASSUME NEW n \in Nodes, Restart(n) PROVE IInv'
  BY <1>4, RestartStep
<1>5. CASE UNCHANGED vars
  <2>1. UNCHANGED <<leaderOf, seen, view, losses, observerCh, dropped, wasLeader, lastLeaderID,
                    pc, role, router, client, serving, closed, closes, restarts, listenFaults>>
    BY <1>5 DEF vars, raftVars, watchVars, nodeVars, closeVars
  <2>2. TypeOK'
    BY <2>1 DEF IInv, TypeOK
  <2>3. \A m \in Nodes : SameNode(m) /\ SameRaft(m)
    BY <2>1 DEF SameNode, SameRaft
  <2>4. ASSUME NEW m \in Nodes PROVE NodeInv(m)'
    BY <2>3, IInvByNode, Untouched
  <2> QED BY <2>2, <2>4, IInvByNode
<1> QED BY <1>1, <1>2, <1>3, <1>4, <1>5 DEF Next

\* The inductive invariant: the observation channel is the path from the leader the
\* watcher knows to the one raft knows, and each callback step finds the node as the
\* step before it left it.
THEOREM Invariance == Spec => []IInv
BY InitIInv, NextIInv, PTL DEF Spec

\* Every variable keeps its type.
THEOREM TypeCorrect == Spec => []TypeOK
<1>1. IInv => TypeOK
  BY DEF IInv
<1> QED BY <1>1, Invariance, PTL

\* A node whose watcher waits on an empty channel, with no observation dropped, plays
\* the part raft gives it (cluster.go:222-310, election.go:264-311).
THEOREM NodesSettle == Spec => []Settled
<1>1. IInv => Settled
  BY DEF IInv
<1> QED BY <1>1, Invariance, PTL

\* A node with the leader's role never runs a replication client (cluster.go:234-316).
THEOREM LeadersDoNotReplicate == Spec => []LeaderDoesNotReplicate
<1>1. IInv => LeaderDoesNotReplicate
  BY DEF IInv
<1> QED BY <1>1, Invariance, PTL

--------------------------------------------------------------------------------
(* Failover: the roles under the data.                                       *)

\* A step of Failover is a step of Cluster, or touches no role.
LEMMA FailoverSteps == ASSUME [FNext]_allVars PROVE [Next]_vars
<1>1. CASE UNCHANGED allVars BY <1>1 DEF allVars
<1>2. ASSUME NEW n \in Nodes, RoleStep(n) PROVE Next
  BY <1>2 DEF RoleStep, Next, Watcher, Callback
<1>3. ASSUME NEW n \in Nodes, Rediscover(n) PROVE Next
  BY <1>3 DEF Rediscover, Next, Watcher, Callback
<1>4. ASSUME NEW n \in Nodes, Reopen(n) PROVE Next
  BY <1>4 DEF Reopen, Next
<1>5. ASSUME NEW n \in Nodes, AddNode(n) \/ Commit(n) \/ Apply(n) PROVE UNCHANGED vars
  BY <1>5 DEF AddNode, Commit, Apply
<1> QED BY <1>1, <1>2, <1>3, <1>4, <1>5 DEF FNext

\* The role management keeps its invariant when databases, writers and appliers run
\* beside it (cluster.go: nothing in them switches a role).
THEOREM FailoverInvariance == FSpec => []IInv
<1>1. FInit => IInv BY InitIInv DEF FInit
<1>2. IInv /\ [FNext]_allVars => IInv' BY FailoverSteps, NextIInv
<1> QED BY <1>1, <1>2, PTL DEF FSpec

\* A key and a value.
Writes == [id : Nat, val : Nat]

\* Values of the data variables AllocatorAhead depends on.
DataTypeOK ==
    /\ DOMAIN db = Nodes
    /\ \A n \in Nodes : DOMAIN db[n] \subseteq Nat /\ IsFiniteSet(DOMAIN db[n])
    /\ nextNodeID \in [Nodes -> Nat]
    /\ wal \in [Nodes -> Seq(Writes)]
    /\ appliedLSN \in [Nodes -> Nat]
    /\ writer \in [Nodes -> Writes]
    /\ writes \in Nat

\* An ID was allocated before it is written, and an allocator that saw every write
\* is at or above every key.
Allocated ==
    \A n \in Nodes :
        /\ writer[n] # NoWrite => writer[n].id <= nextNodeID[n]
        /\ n \notin replicated => \A k \in DOMAIN db[n] : k <= nextNodeID[n]

DataInv == DataTypeOK /\ Allocated

\* LastKey is the largest key.
LEMMA LastKeyBounds ==
    ASSUME NEW b, DOMAIN b \subseteq Nat, IsFiniteSet(DOMAIN b)
    PROVE  /\ LastKey(b) \in Nat /\ LastKey(b) \in DOMAIN b \cup {0}
           /\ \A k \in DOMAIN b : k <= LastKey(b)
<1> DEFINE S == DOMAIN b
<1>1. \E m \in S \cup {0} : \A k \in S : k <= m
  <2>1. CASE S = {} BY <2>1
  <2>2. CASE S # {} BY <2>2, FiniteMax DEF HasMax
  <2> QED BY <2>1, <2>2
<1>2. LastKey(b) \in S \cup {0} /\ \A k \in S : k <= LastKey(b) BY <1>1 DEF LastKey
<1>3. S \cup {0} \subseteq Nat OBVIOUS
<1> QED BY <1>2, <1>3

\* loadCounters gives an allocator that no key exceeds.
LEMMA LoadCountersAhead ==
    ASSUME NEW p \in Nat, NEW b, DOMAIN b \subseteq Nat, IsFiniteSet(DOMAIN b)
    PROVE  loadCounters(p, b) \in Nat /\ \A k \in DOMAIN b : k <= loadCounters(p, b)
<1>1. LastKey(b) \in Nat /\ \A k \in DOMAIN b : k \in Nat /\ k <= LastKey(b)
  BY LastKeyBounds
<1>2. CASE DOMAIN b # {} /\ LastKey(b) >= p BY <1>1, <1>2 DEF loadCounters
<1>3. CASE ~(DOMAIN b # {} /\ LastKey(b) >= p) BY <1>1, <1>3 DEF loadCounters
<1> QED BY <1>2, <1>3

\* A bucket that takes an entry gains its key.
LEMMA PutKeys ==
    ASSUME NEW b, DOMAIN b \subseteq Nat, IsFiniteSet(DOMAIN b), NEW e \in Writes
    PROVE  /\ DOMAIN Put(b, e) = DOMAIN b \cup {e.id}
           /\ DOMAIN Put(b, e) \subseteq Nat /\ IsFiniteSet(DOMAIN Put(b, e))
<1>1. e.id \in Nat BY DEF Writes
<1>2. DOMAIN Put(b, e) = DOMAIN b \cup {e.id} BY DEF Put
<1>3. IsFiniteSet(DOMAIN b \cup {e.id}) BY FS_AddElement
<1> QED BY <1>1, <1>2, <1>3

\* No step lets an allocator fall behind the data of a node that has not replicated.
LEMMA NextDataInv == DataInv /\ IInv /\ [FNext]_allVars => DataInv'
<1> SUFFICES ASSUME DataInv, IInv, [FNext]_allVars PROVE DataInv'
    OBVIOUS
<1> USE DEF dataVars
<1>1. CASE UNCHANGED dataVars BY <1>1 DEF DataInv, DataTypeOK, Allocated
<1>2. ASSUME NEW n \in Nodes, Rediscover(n) PROVE DataInv'
  <2>1. appliedLSN' \in [Nodes -> Nat] BY <1>2 DEF Rediscover, ResetLSN, DataInv, DataTypeOK
  <2>2. UNCHANGED <<db, nextNodeID, wal, writer, writes, replicated>> BY <1>2 DEF Rediscover
  <2> QED BY <2>1, <2>2 DEF DataInv, DataTypeOK, Allocated
<1>3. ASSUME NEW n \in Nodes, Reopen(n) PROVE DataInv'
  <2>1. PICK p \in 0..nextNodeID[n] :
          nextNodeID' = [nextNodeID EXCEPT ![n] = loadCounters(p, db[n])]
    BY <1>3 DEF Reopen
  <2>2. p \in Nat BY DEF DataInv, DataTypeOK
  <2>3. /\ loadCounters(p, db[n]) \in Nat
        /\ \A k \in DOMAIN db[n] : k <= loadCounters(p, db[n])
    BY <2>2, LoadCountersAhead DEF DataInv, DataTypeOK
  <2>4. /\ UNCHANGED <<db, wal, writes>> /\ appliedLSN' = [appliedLSN EXCEPT ![n] = 0]
        /\ writer' = [writer EXCEPT ![n] = NoWrite] /\ replicated' = replicated \ {n}
    BY <1>3 DEF Reopen
  <2>5. NoWrite \in Writes BY DEF NoWrite, Writes
  <2>6. DataTypeOK' BY <2>1, <2>3, <2>4, <2>5 DEF DataInv, DataTypeOK
  <2>7. ASSUME NEW m \in Nodes
        PROVE  /\ writer'[m] # NoWrite => writer'[m].id <= nextNodeID'[m]
               /\ m \notin replicated' => \A k \in DOMAIN db[m] : k <= nextNodeID'[m]
    <3>1. CASE m = n BY <2>1, <2>3, <2>4, <3>1 DEF DataInv, DataTypeOK
    <3>2. CASE m # n BY <2>1, <2>4, <3>2 DEF DataInv, DataTypeOK, Allocated
    <3> QED BY <3>1, <3>2
  <2> QED BY <2>4, <2>6, <2>7 DEF DataInv, Allocated
<1>4. ASSUME NEW n \in Nodes, AddNode(n) PROVE DataInv'
  <2>1. /\ UNCHANGED <<db, wal, appliedLSN, replicated>> /\ writes' = writes + 1
        /\ nextNodeID' = [nextNodeID EXCEPT ![n] = nextNodeID[n] + 1]
        /\ writer' = [writer EXCEPT ![n] = [id |-> nextNodeID'[n], val |-> writes']]
    BY <1>4 DEF AddNode
  <2>2. /\ nextNodeID' \in [Nodes -> Nat] /\ nextNodeID'[n] = nextNodeID[n] + 1
        /\ writes' \in Nat
    BY <2>1 DEF DataInv, DataTypeOK
  <2>3. [id |-> nextNodeID'[n], val |-> writes'] \in Writes BY <2>2 DEF Writes
  <2>4. DataTypeOK' BY <2>1, <2>2, <2>3 DEF DataInv, DataTypeOK
  <2>5. ASSUME NEW m \in Nodes
        PROVE  /\ writer'[m] # NoWrite => writer'[m].id <= nextNodeID'[m]
               /\ m \notin replicated => \A k \in DOMAIN db[m] : k <= nextNodeID'[m]
    <3>1. CASE m = n
      <4>1. writer'[m].id = nextNodeID'[m] /\ nextNodeID'[m] \in Nat
        BY <2>1, <2>2, <3>1 DEF DataInv, DataTypeOK
      <4>2. \A k \in DOMAIN db[m] : k \in Nat /\ (m \notin replicated => k <= nextNodeID[m])
        BY DEF DataInv, DataTypeOK, Allocated
      <4>3. nextNodeID[m] \in Nat /\ nextNodeID'[m] = nextNodeID[m] + 1
        BY <2>2, <3>1 DEF DataInv, DataTypeOK
      <4> QED BY <4>1, <4>2, <4>3
    <3>2. CASE m # n BY <2>1, <3>2 DEF DataInv, DataTypeOK, Allocated
    <3> QED BY <3>1, <3>2
  <2> QED BY <2>1, <2>4, <2>5 DEF DataInv, Allocated
<1>5. ASSUME NEW n \in Nodes, NEW e \in Writes, db' = [db EXCEPT ![n] = Put(db[n], e)],
             UNCHANGED <<nextNodeID, writes>>, wal' \in [Nodes -> Seq(Writes)],
             appliedLSN' \in [Nodes -> Nat], writer' \in [Nodes -> Writes],
             \A m \in Nodes : writer'[m] \in {writer[m], NoWrite},
             \/ e.id <= nextNodeID[n] /\ replicated' = replicated
             \/ replicated' = replicated \cup {n}
      PROVE DataInv'
  <2>1. /\ DOMAIN Put(db[n], e) = DOMAIN db[n] \cup {e.id}
        /\ DOMAIN Put(db[n], e) \subseteq Nat /\ IsFiniteSet(DOMAIN Put(db[n], e))
    BY PutKeys DEF DataInv, DataTypeOK
  <2>2. /\ db'[n] = Put(db[n], e) /\ DOMAIN db' = Nodes
        /\ \A m \in Nodes \ {n} : db'[m] = db[m]
    BY <1>5 DEF DataInv, DataTypeOK
  <2>3. \A m \in Nodes : DOMAIN db'[m] \subseteq Nat /\ IsFiniteSet(DOMAIN db'[m])
    BY <2>1, <2>2 DEF DataInv, DataTypeOK
  <2>4. DataTypeOK' BY <1>5, <2>2, <2>3 DEF DataInv, DataTypeOK
  <2>5. ASSUME NEW m \in Nodes, m \notin replicated', NEW k \in DOMAIN db'[m]
        PROVE  k <= nextNodeID[m]
    <3>1. CASE m = n BY <1>5, <2>1, <2>2, <2>5, <3>1 DEF DataInv, Allocated
    <3>2. CASE m # n BY <1>5, <2>2, <2>5, <3>2 DEF DataInv, Allocated
    <3> QED BY <3>1, <3>2
  <2>6. ASSUME NEW m \in Nodes, writer'[m] # NoWrite PROVE writer'[m].id <= nextNodeID[m]
    BY <1>5, <2>6 DEF DataInv, Allocated
  <2> QED BY <1>5, <2>4, <2>5, <2>6 DEF DataInv, Allocated
<1>6. ASSUME NEW n \in Nodes, Commit(n) PROVE DataInv'
  <2>1. /\ writer[n] # NoWrite /\ db' = [db EXCEPT ![n] = Put(db[n], writer[n])]
        /\ wal' = [wal EXCEPT ![n] = Append(wal[n], writer[n])]
        /\ writer' = [writer EXCEPT ![n] = NoWrite]
        /\ UNCHANGED <<nextNodeID, appliedLSN, writes, replicated>>
    BY <1>6 DEF Commit
  <2>2. writer[n] \in Writes /\ writer[n].id <= nextNodeID[n] /\ wal[n] \in Seq(Writes)
    BY <2>1 DEF DataInv, DataTypeOK, Allocated
  <2>3. Append(wal[n], writer[n]) \in Seq(Writes) BY <2>2
  <2>4. wal' \in [Nodes -> Seq(Writes)] BY <2>1, <2>3 DEF DataInv, DataTypeOK
  <2>5. NoWrite \in Writes BY DEF NoWrite, Writes
  <2>6. writer' \in [Nodes -> Writes] /\ \A m \in Nodes : writer'[m] \in {writer[m], NoWrite}
    BY <2>1, <2>5 DEF DataInv, DataTypeOK
  <2>7. appliedLSN' \in [Nodes -> Nat] BY <2>1 DEF DataInv, DataTypeOK
  <2> QED BY <1>5, <2>1, <2>2, <2>4, <2>6, <2>7
<1>7. ASSUME NEW n \in Nodes, Apply(n) PROVE DataInv'
  <2> DEFINE e == wal[client[n]][appliedLSN[n] + 1]
  <2>1. client[n] \in Nodes BY <1>7 DEF Apply, IInv, TypeOK
  <2>2. /\ appliedLSN[n] < Len(wal[client[n]]) /\ db' = [db EXCEPT ![n] = Put(db[n], e)]
        /\ appliedLSN' = [appliedLSN EXCEPT ![n] = appliedLSN[n] + 1]
        /\ replicated' = replicated \cup {n}
        /\ UNCHANGED <<nextNodeID, wal, writer, writes>>
    BY <1>7 DEF Apply
  <2>3. wal[client[n]] \in Seq(Writes) /\ appliedLSN[n] \in Nat
    BY <2>1 DEF DataInv, DataTypeOK
  <2>4. e \in Writes BY <2>2, <2>3
  <2>5. appliedLSN' \in [Nodes -> Nat] /\ wal' \in [Nodes -> Seq(Writes)]
        /\ writer' \in [Nodes -> Writes]
    BY <2>2, <2>3 DEF DataInv, DataTypeOK
  <2> HIDE DEF e
  <2> QED BY <1>5, <2>2, <2>4, <2>5
<1> QED
  BY <1>1, <1>2, <1>3, <1>4, <1>6, <1>7 DEF FNext, RoleStep, allVars

\* Only replication leaves an allocator behind its data (storage.go, loadCounters and
\* allocNodeID; replication/applier.go never tells the allocator).
THEOREM AllocatorsStayAhead == FSpec => []AllocatorAhead
<1>1. FInit => DataInv
  <2> SUFFICES ASSUME FInit PROVE DataInv
      OBVIOUS
  <2>1. ASSUME NEW n \in Nodes PROVE DOMAIN db[n] = {}
    <3>1. db[n] = << >> BY DEF FInit
    <3> QED BY <3>1
  <2>2. IsFiniteSet({}) BY FS_EmptySet
  <2>3. << >> \in Seq(Writes) OBVIOUS
  <2>4. wal \in [Nodes -> Seq(Writes)] BY <2>3 DEF FInit
  <2>5. writer \in [Nodes -> Writes] BY DEF FInit, NoWrite, Writes
  <2>6. DOMAIN db = Nodes /\ nextNodeID \in [Nodes -> Nat] /\ appliedLSN \in [Nodes -> Nat]
        /\ writes \in Nat
    BY DEF FInit
  <2>7. DataTypeOK BY <2>1, <2>2, <2>4, <2>5, <2>6 DEF DataTypeOK
  <2>8. Allocated BY <2>1 DEF FInit, Allocated
  <2> QED BY <2>7, <2>8 DEF DataInv
<1>2. DataInv => AllocatorAhead
  <2> SUFFICES ASSUME DataInv, NEW n \in Nodes \ replicated PROVE LastKey(db[n]) <= nextNodeID[n]
      BY DEF AllocatorAhead
  <2>1. LastKey(db[n]) \in DOMAIN db[n] \cup {0} BY LastKeyBounds DEF DataInv, DataTypeOK
  <2>2. nextNodeID[n] \in Nat BY DEF DataInv, DataTypeOK
  <2> QED BY <2>1, <2>2 DEF DataInv, Allocated
<1> QED BY <1>1, <1>2, NextDataInv, FailoverInvariance, PTL DEF FSpec
================================================================================
