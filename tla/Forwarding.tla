------------------------------ MODULE Forwarding ------------------------------
(***************************************************************************)
(* One write on its way through the routers of a cluster (replication/router.go, *)
(* and the handlers of server/server.go that receive what they forward).       *)
(*                                                                         *)
(* A Cypher write is forwarded to the leader's /api/cypher, whose handler asks   *)
(* the router of its own node again; any other write goes to /api/write, whose    *)
(* handler calls the database.  Every node forwards over HTTP and waits for the   *)
(* answer, so the nodes on the way stay part of the request.                    *)
(***************************************************************************)
EXTENDS Cluster

CONSTANT Kinds    \* of writes: a subset of {"cypher", "op"}

ASSUME ForwardingAssumption == Kinds \subseteq {"cypher", "op"}

VARIABLES
    request,  \* "none", or its kind while it travels, or how it ended
    at, path  \* the node that has it, and the nodes it came through

reqVars == <<request, at, path>>
allVars == <<vars, reqVars>>

\* The answer goes back along the path.
Answered(how) == request' = how /\ at' = NoOne /\ path' = {}

End(how) == Answered(how) /\ UNCHANGED vars

\* A caller sends the write to some node.
Submit(n) ==
    /\ request = "none"
    /\ request' \in Kinds
    /\ at' = n
    /\ path' = {}
    /\ UNCHANGED vars

\* The database of the node takes it: it is no follower.
Execute ==
    /\ request \in Kinds
    /\ role[at] # "follower"
    /\ End("executed")

\* handleForwardedWrite on a follower: the database's error is the answer.
Refuse ==
    /\ request = "op" /\ path # {}
    /\ role[at] = "follower"
    /\ End("ErrReadOnlyReplica")

\* Mutant: /api/write asks the router again.
Routed_again == request \in Kinds

\* A node whose router has the write in hand: the caller's node, and every node
\* for a Cypher write.
Routed == request = "cypher" \/ (request = "op" /\ path = {})

\* leaderAddr without an address.
NoLeader ==
    /\ Routed /\ role[at] = "follower" /\ router[at] = NoOne
    /\ End("ErrNoLeader")

\* ErrReadOnlyReplica from the local database: POST to the address the router has.
\* It may be this node's own, or that of a node that does not lead.
CanForward == Routed /\ role[at] = "follower" /\ router[at] # NoOne

Forward ==
    /\ CanForward
    /\ at' = router[at]
    /\ path' = path \cup {at}
    /\ UNCHANGED <<request, vars>>

\* The timeout of the router's HTTP client, at any node on the way.
TimedOut ==
    /\ request \in Kinds /\ path # {}
    /\ End("ErrForwardFailed")

\* A node on the way goes down, and the request with it.
Lost(n) ==
    /\ Restart(n)
    /\ IF request \in Kinds /\ n \in path \cup {at}
       THEN Answered("ErrForwardFailed")
       ELSE UNCHANGED reqVars

FInit == Init /\ request = "none" /\ at = NoOne /\ path = {}

RoleStep(n) == (Raft(n) \/ Watcher(n) \/ Close(n)) /\ UNCHANGED reqVars

Handler == Execute \/ Refuse \/ NoLeader \/ Forward \/ TimedOut

FNext == Handler \/ \E n \in Nodes : RoleStep(n) \/ Lost(n) \/ Submit(n)

\* As in Cluster: the watcher is a goroutine of its own.
FFairness == \A n \in Nodes : WF_allVars(Watcher(n) /\ UNCHANGED reqVars)

FSpec == FInit /\ [][FNext]_allVars /\ FFairness

(***************************************************************************)
(* Properties.                                                             *)
(***************************************************************************)

\* server.go:1334-1337, "the landing zone for writes that a follower's Router
\* forwarded to the leader. This avoids any re-routing loops": a node that has
\* forwarded the write never has it in hand to forward again, however the routers
\* disagree.  True of what goes to /api/write; false of Cypher writes, which the
\* Router forwards to /api/cypher.
NoReroutingLoop == CanForward => at \notin path
================================================================================
