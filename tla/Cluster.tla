-------------------------------- MODULE Cluster --------------------------------
(***************************************************************************)
(* Role management of a cluster node (replication/cluster.go, election.go):    *)
(* raft's leader observations go through a bounded channel to watchLeadership,  *)
(* which calls becomeLeader or becomeFollower; these switch the database's role, *)
(* the router's forwarding address, the replication client and the gRPC server,  *)
(* one after the other, while raft moves on, until Close.                        *)
(*                                                                         *)
(* hashicorp/raft is external: each node has a view of who leads, terms have    *)
(* one leader each, and a view changes to the leader of a term that is not      *)
(* older, or to nobody.                                                      *)
(***************************************************************************)
EXTENDS Integers, Sequences

CONSTANTS
    Nodes,
    NoOne,          \* the empty leader ID
    ObserverCap,    \* capacity of observerCh, 16 in election.go
    MaxTerms,       \* bound: elections
    MaxLosses,      \* bound: times a node loses sight of the leader
    MaxRestarts,    \* bound: node restarts
    MaxCloses,      \* bound: calls of ClusterManager.Close
    MaxListenFaults \* bound: failures to listen on the gRPC address

ASSUME ClusterAssumption ==
    /\ NoOne \notin Nodes
    /\ ObserverCap \in Nat \ {0}
    /\ {MaxTerms, MaxLosses, MaxRestarts, MaxCloses, MaxListenFaults} \subseteq Nat

VARIABLES
    leaderOf, seen, view,          \* raft: term -> leader; a node's term and leader
    observerCh, dropped,           \* its observations; whether one was dropped
    wasLeader, lastLeaderID, pc,   \* watchLeadership, and the callback it is in
    role, router, client, serving, \* DB role, leaderHTTPAddr, replClient, gRPC server
    closed,                        \* Close has run: stopCh is closed, raft shut down
    losses, restarts, closes, listenFaults

raftVars  == <<leaderOf, seen, view, losses>>
watchVars == <<wasLeader, lastLeaderID, pc>>
nodeVars  == <<role, router, client, serving>>
closeVars == <<closed, closes, restarts>>
vars == <<raftVars, observerCh, dropped, watchVars, nodeVars, closeVars, listenFaults>>

(***************************************************************************)
(* Raft.                                                                   *)
(***************************************************************************)

\* setLeader, and the observation it sends without blocking: a full channel
\* drops it.
SetLeader(n, l) ==
    /\ view' = [view EXCEPT ![n] = l]
    /\ IF Len(observerCh[n]) < ObserverCap
       THEN /\ observerCh' = [observerCh EXCEPT ![n] = Append(@, l)]
            /\ UNCHANGED dropped
       ELSE /\ dropped' = [dropped EXCEPT ![n] = TRUE]
            /\ UNCHANGED observerCh

\* A candidate, which follows nobody, wins a new term.
Elect(n) ==
    /\ ~closed[n] /\ view[n] = NoOne
    /\ Len(leaderOf) < MaxTerms
    /\ leaderOf' = Append(leaderOf, n)
    /\ seen' = [seen EXCEPT ![n] = Len(leaderOf) + 1]
    /\ SetLeader(n, n)
    /\ UNCHANGED <<losses, watchVars, nodeVars, closeVars, listenFaults>>

\* A node hears from another that leads its term, or a newer one.
Learn(n) ==
    /\ ~closed[n]
    /\ \E t \in 1 .. Len(leaderOf) :
         /\ t > seen[n] \/ (t = seen[n] /\ view[n] = NoOne)
         /\ leaderOf[t] # n /\ leaderOf[t] # view[n]
         /\ seen' = [seen EXCEPT ![n] = t]
         /\ SetLeader(n, leaderOf[t])
    /\ UNCHANGED <<leaderOf, losses, watchVars, nodeVars, closeVars, listenFaults>>

\* A heartbeat timeout, or a leader's lease running out.
Lose(n) ==
    /\ ~closed[n] /\ view[n] # NoOne
    /\ losses < MaxLosses
    /\ losses' = losses + 1
    /\ SetLeader(n, NoOne)
    /\ UNCHANGED <<leaderOf, seen, watchVars, nodeVars, closeVars, listenFaults>>

(***************************************************************************)
(* watchLeadership and the callbacks.                                        *)
(***************************************************************************)

\* Mutant: the callback fires on a change of the node's own role only.
Changed_roleOnly(n, l) == (l = n) # wasLeader[n]

\* roleChanged || leaderChanged
Changed(n, l) == (l = n) # wasLeader[n] \/ l # lastLeaderID[n]

\* An observation is taken from the channel; a change calls onRoleChange.
Observe(n) ==
    /\ pc[n] = "select" /\ observerCh[n] # << >>
    /\ LET l == Head(observerCh[n])
       IN IF Changed(n, l)
          THEN /\ wasLeader' = [wasLeader EXCEPT ![n] = (l = n)]
               /\ lastLeaderID' = [lastLeaderID EXCEPT ![n] = l]
               /\ pc' = [pc EXCEPT ![n] = IF l = n THEN "stopClient" ELSE "demote"]
          ELSE UNCHANGED watchVars
    /\ observerCh' = [observerCh EXCEPT ![n] = Tail(@)]
    /\ UNCHANGED <<raftVars, dropped, nodeVars, closeVars, listenFaults>>

\* Mutant: the client of the follower's time is forgotten.
StopClient_skipped(n) ==
    /\ pc[n] = "stopClient"
    /\ pc' = [pc EXCEPT ![n] = "promote"]
    /\ UNCHANGED <<raftVars, observerCh, dropped, wasLeader, lastLeaderID, nodeVars,
                   closeVars, listenFaults>>

\* onRoleChange takes cm.mu.  becomeLeader: the replication client first, and Stop
\* waits for it ...
StopClient(n) ==
    /\ pc[n] = "stopClient"
    /\ client' = [client EXCEPT ![n] = NoOne]
    /\ pc' = [pc EXCEPT ![n] = "promote"]
    /\ UNCHANGED <<raftVars, observerCh, dropped, wasLeader, lastLeaderID, role, router,
                   serving, closeVars, listenFaults>>

\* ... then the role and the router ...
Promote(n) ==
    /\ pc[n] = "promote"
    /\ role' = [role EXCEPT ![n] = "leader"]
    /\ router' = [router EXCEPT ![n] = NoOne]
    /\ pc' = [pc EXCEPT ![n] = "serve"]
    /\ UNCHANGED <<raftVars, observerCh, dropped, wasLeader, lastLeaderID, client,
                   serving, closeVars, listenFaults>>

\* ... and the gRPC server; a failure to listen is logged and left at that.
Serve(n) ==
    /\ pc[n] = "serve"
    /\ \/ /\ serving' = [serving EXCEPT ![n] = TRUE]
          /\ UNCHANGED listenFaults
       \/ /\ ~serving[n] /\ listenFaults < MaxListenFaults
          /\ listenFaults' = listenFaults + 1
          /\ UNCHANGED serving
    /\ pc' = [pc EXCEPT ![n] = "select"]
    /\ UNCHANGED <<raftVars, observerCh, dropped, wasLeader, lastLeaderID, role, router,
                   client, closeVars>>

\* onRoleChange takes cm.mu.  becomeFollower: the role first ...
Demote(n) ==
    /\ pc[n] = "demote"
    /\ role' = [role EXCEPT ![n] = "follower"]
    /\ pc' = [pc EXCEPT ![n] = "stopAll"]
    /\ UNCHANGED <<raftVars, observerCh, dropped, wasLeader, lastLeaderID, router, client,
                   serving, closeVars, listenFaults>>

\* ... then the gRPC server and the client ...
StopAll(n) ==
    /\ pc[n] = "stopAll"
    /\ serving' = [serving EXCEPT ![n] = FALSE]
    /\ client' = [client EXCEPT ![n] = NoOne]
    /\ pc' = [pc EXCEPT ![n] = "discover"]
    /\ UNCHANGED <<raftVars, observerCh, dropped, wasLeader, lastLeaderID, role, router,
                   closeVars, listenFaults>>

\* ... then raft is asked who leads now, which need not be whom the observation
\* named.  With no leader the router keeps the address it has.
Discover(n) ==
    /\ pc[n] = "discover"
    /\ IF view[n] = NoOne
       THEN UNCHANGED <<router, client>>
       ELSE /\ router' = [router EXCEPT ![n] = view[n]]
            /\ client' = [client EXCEPT ![n] = view[n]]
    /\ pc' = [pc EXCEPT ![n] = "select"]
    /\ UNCHANGED <<raftVars, observerCh, dropped, wasLeader, lastLeaderID, role, serving,
                   closeVars, listenFaults>>

\* ClusterManager.Close, under cm.mu, so not in the middle of a callback: stops the
\* client, the server and raft, which forgets its leader.
Close(n) ==
    /\ ~closed[n] /\ pc[n] \in {"select", "stopClient", "demote"}
    /\ closes < MaxCloses
    /\ closes' = closes + 1
    /\ closed' = [closed EXCEPT ![n] = TRUE]
    /\ client' = [client EXCEPT ![n] = NoOne]
    /\ serving' = [serving EXCEPT ![n] = FALSE]
    /\ IF view[n] = NoOne THEN UNCHANGED <<view, observerCh, dropped>>
                          ELSE SetLeader(n, NoOne)
    /\ UNCHANGED <<leaderOf, seen, losses, watchVars, role, router, restarts, listenFaults>>

\* stopCh is closed: watchLeadership returns, unless it takes an observation.
WatchEnds(n) ==
    /\ closed[n] /\ pc[n] = "select"
    /\ pc' = [pc EXCEPT ![n] = "ended"]
    /\ UNCHANGED <<raftVars, observerCh, dropped, wasLeader, lastLeaderID, nodeVars,
                   closeVars, listenFaults>>

\* The process ends, closed or not, and StartCluster runs again.  Raft keeps its
\* term.
Restart(n) ==
    /\ restarts < MaxRestarts
    /\ restarts' = restarts + 1
    /\ closed' = [closed EXCEPT ![n] = FALSE]
    /\ view' = [view EXCEPT ![n] = NoOne]
    /\ observerCh' = [observerCh EXCEPT ![n] = << >>]
    /\ dropped' = [dropped EXCEPT ![n] = FALSE]
    /\ wasLeader' = [wasLeader EXCEPT ![n] = FALSE]
    /\ lastLeaderID' = [lastLeaderID EXCEPT ![n] = NoOne]
    /\ pc' = [pc EXCEPT ![n] = "select"]
    /\ role' = [role EXCEPT ![n] = "follower"]
    /\ router' = [router EXCEPT ![n] = NoOne]
    /\ client' = [client EXCEPT ![n] = NoOne]
    /\ serving' = [serving EXCEPT ![n] = FALSE]
    /\ UNCHANGED <<leaderOf, seen, losses, closes, listenFaults>>

Init ==
    /\ leaderOf = << >>
    /\ seen = [n \in Nodes |-> 0]
    /\ view = [n \in Nodes |-> NoOne]
    /\ observerCh = [n \in Nodes |-> << >>]
    /\ dropped = [n \in Nodes |-> FALSE]
    /\ wasLeader = [n \in Nodes |-> FALSE]
    /\ lastLeaderID = [n \in Nodes |-> NoOne]
    /\ pc = [n \in Nodes |-> "select"]
    /\ role = [n \in Nodes |-> "follower"]
    /\ router = [n \in Nodes |-> NoOne]
    /\ client = [n \in Nodes |-> NoOne]
    /\ serving = [n \in Nodes |-> FALSE]
    /\ closed = [n \in Nodes |-> FALSE]
    /\ losses = 0 /\ restarts = 0 /\ closes = 0 /\ listenFaults = 0

Callback(n) == StopClient(n) \/ Promote(n) \/ Serve(n) \/ Demote(n) \/ StopAll(n) \/ Discover(n)
Watcher(n)  == Observe(n) \/ Callback(n) \/ WatchEnds(n)
Raft(n)     == Elect(n) \/ Learn(n) \/ Lose(n)

Next == \E n \in Nodes : Raft(n) \/ Watcher(n) \/ Close(n) \/ Restart(n)

\* watchLeadership is a goroutine of its own, and its callbacks return.
Fairness == \A n \in Nodes : WF_vars(Watcher(n))

Spec == Init /\ [][Next]_vars /\ Fairness

(***************************************************************************)
(* Properties.                                                             *)
(***************************************************************************)

\* Values of the variables.
TypeOK ==
    /\ leaderOf \in Seq(Nodes)
    /\ seen \in [Nodes -> Nat]
    /\ view \in [Nodes -> Nodes \cup {NoOne}]
    /\ observerCh \in [Nodes -> Seq(Nodes \cup {NoOne})]
    /\ dropped \in [Nodes -> BOOLEAN]
    /\ wasLeader \in [Nodes -> BOOLEAN]
    /\ lastLeaderID \in [Nodes -> Nodes \cup {NoOne}]
    /\ pc \in [Nodes -> {"select", "stopClient", "promote", "serve", "demote", "stopAll",
                         "discover", "ended"}]
    /\ role \in [Nodes -> {"leader", "follower"}]
    /\ router \in [Nodes -> Nodes \cup {NoOne}]
    /\ client \in [Nodes -> Nodes \cup {NoOne}]
    /\ serving \in [Nodes -> BOOLEAN] /\ closed \in [Nodes -> BOOLEAN]
    /\ {losses, restarts, closes, listenFaults} \subseteq Nat

\* A node's role, client and router are those of leader l's follower, or of l.
Agrees(n, l) ==
    /\ role[n] = (IF l = n THEN "leader" ELSE "follower")
    /\ client[n] = (IF l = n THEN NoOne ELSE l)
    /\ l = n => router[n] = NoOne
    /\ l \notin {n, NoOne} => router[n] = l
    /\ serving[n] => l = n

\* When the watcher is waiting on an empty channel, the node plays the part raft
\* gives it: a write-accepting leader exactly when raft says so, replicating from
\* and forwarding to the leader raft knows, whatever raft did while the callbacks
\* ran (cluster.go:20-29).  Only a dropped observation can break this.
Settled ==
    \A n \in Nodes :
        pc[n] = "select" /\ observerCh[n] = << >> /\ ~dropped[n] /\ ~closed[n]
          => Agrees(n, view[n])

\* Two replication clients, or a client and a leader's role, never coexist: the
\* only thing that writes to a leader's database is its callers (cluster.go:238).
LeaderDoesNotReplicate ==
    \A n \in Nodes : role[n] = "leader" => client[n] = NoOne

\* Without drops the channel is the path from the leader the watcher knows to the
\* one raft knows, one change at a time.
Chained(n) ==
    LET q == observerCh[n]
    IN ~dropped[n] =>
         /\ q = << >> => lastLeaderID[n] = view[n]
         /\ q # << >> => q[1] # lastLeaderID[n] /\ q[Len(q)] = view[n]
         /\ \A i \in 1 .. Len(q) - 1 : q[i] # q[i + 1]

\* What holds of the watcher's memory, and at each step of a callback.
WatcherSound(n) ==
    /\ wasLeader[n] = (lastLeaderID[n] = n)
    /\ pc[n] \in {"stopClient", "promote", "serve"} => lastLeaderID[n] = n
    /\ pc[n] \in {"demote", "stopAll", "discover"} => lastLeaderID[n] # n
    /\ pc[n] \in {"stopClient", "promote", "stopAll", "discover"} => role[n] = "follower"
    /\ pc[n] \in {"promote", "serve", "discover"} => client[n] = NoOne
    /\ pc[n] = "serve" => role[n] = "leader" /\ router[n] = NoOne
    /\ pc[n] = "discover" => ~serving[n]
    /\ pc[n] = "select" =>
         /\ role[n] = (IF lastLeaderID[n] = n THEN "leader" ELSE "follower")
         /\ lastLeaderID[n] = n => router[n] = NoOne
         /\ lastLeaderID[n] # n => ~serving[n]

\* The inductive invariant behind Settled and LeaderDoesNotReplicate.
IInv ==
    /\ TypeOK
    /\ \A n \in Nodes : Chained(n) /\ WatcherSound(n)
    /\ Settled
    /\ LeaderDoesNotReplicate

\* Once raft keeps its view of the leader, so does the node.
EventuallySettled ==
    \A n \in Nodes : <>[](dropped[n] \/ closed[n] \/ Agrees(n, view[n]))
================================================================================
