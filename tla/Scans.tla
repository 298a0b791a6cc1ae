---------------------------------- MODULE Scans ----------------------------------
(***************************************************************************)
(* The streaming iterator over nodes (iterator.go) and cursor pagination              *)
(* (pagination.go), and the queries of a node put together: its one caller runs a       *)
(* traversal, a Cypher query, a stream or a listing at a time, beside the writers.       *)
(***************************************************************************)
EXTENDS Cypher

CONSTANTS
    Streams,       \* queries for CypherStream, of one node and without an order
    Listings       \* [kind, limit] for ListNodes, ListEdges and ListNodesByLabel

VARIABLES
    stream,        \* the iterator
    page           \* the listing

vars == <<tvars, cyvars, stream, page>>

NoScan == [pc |-> "idle"]

\* The caller may begin another call, and drops the answer of the last one.
CallerIdle == {walk.pc, cy.pc, stream.pc, page.pc} \subseteq {"idle", "done"}

\* A bound: traversals, streams and listings, which neither write nor see the query
\* cache, are called before the first query; other callers' writes come at any time.
NoQueryYet == CallerIdle /\ cy.n = 0

(***************************************************************************)
(* The stream.                                                             *)
(***************************************************************************)
\* resolveNodeCandidates, whose result is nil when it is empty.
resolveNodeCandidates(q) ==
    IF FullScan(q) THEN <<>>
    ELSE IF q.a.labels # {} THEN findCandidates(q.a)
    ELSE IF Composite(q) THEN FindByCompositeIndex(q.a.props)
    ELSE IF IndexedIn(q.a) # {} THEN findCandidates(q.a)
    ELSE LET t == CHOOSE t \in Equality(q) : TRUE IN FindByProperty(t.prop, t.val)

\* newNodeScanIterator: candidates from an index are an error to the caller; otherwise
\* a read transaction is open until Close.
StreamOpen ==
    /\ NoQueryYet
    /\ \E q \in Streams :
         stream' = [pc   |-> IF resolveNodeCandidates(q) = <<>> THEN "next" ELSE "error",
                    q    |-> q, view |-> forEachNode, pos |-> 0, out |-> <<>>]
    /\ walk' = NoWalk /\ page' = NoScan
    /\ UNCHANGED <<graphVars, quiet, writes, cyvars>>

Exhausted(s) == s.q.limit > 0 /\ Len(s.out) >= s.q.limit

\* Next, for one key.  As long as nothing is emitted the cursor goes to the first key,
\* also after a first node that did not match.
StreamNext ==
    LET pos  == IF stream.out = <<>> THEN 1 ELSE stream.pos + 1
        n    == stream.view[pos]
        fits == Matches(n, stream.q.a) /\ evalBool(stream.q.where, Row(n, NoEdge, NoNode))
    IN /\ stream.pc = "next"
       /\ stream' = IF Exhausted(stream) \/ pos > Len(stream.view) THEN [stream EXCEPT !.pc = "done"]
                    ELSE [stream EXCEPT !.pos = pos, !.out = IF fits THEN Append(@, n) ELSE @]
       /\ UNCHANGED <<tvars, cyvars, page>>

\* Close, at any time.
StreamClose ==
    /\ stream.pc \in {"next", "error", "done"}
    /\ stream' = NoScan
    /\ UNCHANGED <<tvars, cyvars, page>>

(***************************************************************************)
(* The listing: a page is one transaction.                                     *)
(***************************************************************************)
Keys(kind, N, E) ==
    CASE kind = "nodes" -> DOMAIN N
      [] kind = "edges" -> {e.id : e \in E}
      [] kind = "label" -> {n \in DOMAIN N : "L" \in N[n].labels}

\* Mutant: the key after the cursor is passed over.
After_skips(S, cursor) == IF cursor = 0 THEN S ELSE {k \in S : k > cursor + 1}

After(S, cursor) == {k \in S : k > cursor}

ListStart ==
    /\ NoQueryYet
    /\ \E l \in Listings :
         page' = [pc |-> "list", kind |-> l.kind, limit |-> l.limit, cursor |-> 0, out |-> <<>>,
                  stay |-> Keys(l.kind, nodes, edges)]
    /\ walk' = NoWalk /\ stream' = NoScan
    /\ UNCHANGED <<graphVars, quiet, writes, cyvars>>

\* One more than the limit is read, to see whether there is more.
ListPage ==
    LET rest == InOrder(After(Keys(page.kind, nodes, edges), page.cursor), <)
        got  == SubSeq(rest, 1, Min({Len(rest), page.limit}))
    IN /\ page.pc = "list"
       /\ page' = [page EXCEPT !.out = @ \o got, !.cursor = IF got = <<>> THEN 0 ELSE Last(got),
                               !.pc = IF Len(rest) > page.limit THEN @ ELSE "done"]
       /\ UNCHANGED <<tvars, cyvars, stream>>

(***************************************************************************)
(* The whole.                                                              *)
(***************************************************************************)
Caller ==
    \/ WalkStart /\ NoQueryYet /\ stream' = NoScan /\ page' = NoScan /\ UNCHANGED cyvars
    \/ WalkStep /\ UNCHANGED <<cyvars, stream, page>>
    \/ Call /\ CallerIdle /\ stream' = NoScan /\ page' = NoScan
    \/ Execute /\ UNCHANGED <<stream, page>>
    \/ StreamOpen \/ StreamNext \/ StreamClose
    \/ ListStart \/ ListPage

\* Another caller's write.  Answers that were given are forgotten.
Write ==
    /\ OtherWrites
    /\ walk' = IF walk.pc = "done" /\ cy.pc # "walk" THEN NoWalk ELSE walk
    /\ cy' = IF cy.pc = "done" THEN Idle(cy.n) ELSE cy
    /\ page' = IF page.pc = "list" THEN [page EXCEPT !.stay = @ \cap Keys(page.kind, nodes', edges')] ELSE NoScan
    /\ UNCHANGED <<indexed, cache, stream>>

Init ==
    /\ TInit
    /\ indexed \in IndexSets
    /\ cache = <<>> /\ cy = Idle(0) /\ stream = NoScan /\ page = NoScan

Next == Caller \/ Write

Spec == Init /\ [][Next]_vars

(***************************************************************************)
(* Properties.                                                             *)
(***************************************************************************)

\* A stream gives the rows of the database as it was when the stream was opened, in
\* order and up to the limit, and a listing gives, once and in order, everything that
\* stays there from its first page to its last, whatever others write meanwhile.
ScansComplete ==
    /\ stream.pc \in {"next", "done"} =>
         LET q == stream.q
             rows == SelectSeq(stream.view, LAMBDA n : Matches(n, q.a) /\ evalBool(q.where, Row(n, NoEdge, NoNode)))
         IN /\ IsPrefix(stream.out, Cut(q, rows))
            /\ stream.pc = "done" => stream.out = Cut(q, rows)
    /\ page.pc # "idle" =>
         /\ \A i, j \in DOMAIN page.out : i < j => page.out[i] < page.out[j]
         /\ {k \in page.stay : page.pc = "done" \/ k <= page.cursor} \subseteq ToSet(page.out)
================================================================================
