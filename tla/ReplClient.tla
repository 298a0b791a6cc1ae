------------------------------- MODULE ReplClient -------------------------------
(***************************************************************************)
(* The follower's replication client (replication/client.go): a receiver     *)
(* reads the leader's WAL stream into a bounded channel, apply workers take   *)
(* entries from it and apply them concurrently, and an lsnTracker turns the  *)
(* LSNs they finish, in whatever order, into the applier's appliedLSN.  The   *)
(* loop of Client.run reconnects when a stream ends; the cluster manager      *)
(* stops the client and resets the LSN when the leader changes.              *)
(*                                                                         *)
(* The database is a partial function from keys (node and edge IDs) to       *)
(* values with its node counter; an entry adds, merges into or deletes one    *)
(* key, the three ways the applyXxx handlers of applier.go treat it.  gRPC     *)
(* delivers the leader's entries in LSN order until the stream breaks.        *)
(***************************************************************************)
EXTENDS Integers, Sequences, FiniteSets

CONSTANTS
    Workers,     \* applierWorkers goroutines
    ChBuffer,    \* applierChBuffer
    Log,         \* LSN -> [op, key, val]: what the leader will have logged
    MaxBreaks,   \* bound: streams that end while the client is running
    MaxErrors,   \* bound: apply errors that are not the entry's fault
    MaxResets    \* bound: leader changes and follower restarts

LSNs == DOMAIN Log
Keys == {Log[l].key : l \in LSNs}

ASSUME ClientAssumption ==
    /\ LSNs \subseteq Nat \ {0}
    /\ ChBuffer \in Nat \ {0}
    /\ {MaxBreaks, MaxErrors, MaxResets} \subseteq Nat
    /\ \A l \in LSNs : Log[l].op \in {"add", "merge", "delete"}

VARIABLES
    logged,                    \* LSNs in the leader's WAL so far
    store, count,              \* the follower's database and nodeCount
    applied,                   \* history: LSNs whose entry has been applied
    appliedLSN,                \* Applier.appliedLSN
    pc, cursor, held,          \* the receiver: streamOnce, inside Client.run
    ctxDone, cancelled,        \* ctx of Client.Start, pipeCtx of streamOnce
    entryCh,                   \* the channel; closed once the receiver drains
    baseline, done,            \* lsnTracker
    wpc, wentry, wcontig,      \* the workers
    breaks, errors, resets

dbVars      == <<store, count, applied>>
recvVars    == <<pc, cursor, held>>
trackerVars == <<baseline, done>>
workerVars  == <<wpc, wentry, wcontig>>
boundVars   == <<breaks, errors, resets>>
vars == <<logged, dbVars, appliedLSN, recvVars, ctxDone, cancelled, entryCh,
          trackerVars, workerVars, boundVars>>

(***************************************************************************)
(* Applying an entry.                                                       *)
(***************************************************************************)

\* applyUpdateNode, applyUpdateEdge and applyAddLabel fail on a missing key;
\* the Put and Delete handlers do not look.
ApplyFails(l) == Log[l].op = "merge" /\ Log[l].key \notin DOMAIN store

\* The database after the entry.  The counter moves on every add and delete,
\* whether or not the key was there.
ApplyOp(l) ==
    LET e == Log[l]
        k == e.key
    IN CASE e.op = "add" ->
              /\ store' = [x \in DOMAIN store \cup {k} |-> IF x = k THEN e.val ELSE store[x]]
              /\ count' = count + 1
         [] e.op = "merge" ->
              /\ store' = [store EXCEPT ![k] = e.val]
              /\ count' = count
         [] e.op = "delete" ->
              /\ store' = [x \in DOMAIN store \ {k} |-> store[x]]
              /\ count' = count - 1

(***************************************************************************)
(* The leader appends, in LSN order.                                         *)
(***************************************************************************)
LeaderAppend ==
    /\ \E l \in LSNs \ logged :
         /\ \A k \in LSNs \ logged : l <= k
         /\ logged' = logged \cup {l}
    /\ UNCHANGED <<dbVars, appliedLSN, recvVars, ctxDone, cancelled, entryCh,
                   trackerVars, workerVars, boundVars>>

(***************************************************************************)
(* The receiver.                                                            *)
(***************************************************************************)

\* Mutant: a new stream goes on after the last entry received, applied or not.
Connect_afterReceived ==
    /\ pc = "idle" /\ ~ctxDone
    /\ pc' = "recv"
    /\ cursor' = IF cursor > appliedLSN THEN cursor ELSE appliedLSN + 1
    /\ baseline' = appliedLSN
    /\ done' = {}
    /\ entryCh' = << >>
    /\ cancelled' = FALSE
    /\ wpc' = [w \in Workers |-> "range"]
    /\ UNCHANGED <<logged, dbVars, appliedLSN, held, ctxDone, wentry, wcontig, boundVars>>

\* streamOnce up to the receive loop: resume above the applied LSN, with a
\* fresh channel, tracker and set of workers.
Connect ==
    /\ pc = "idle" /\ ~ctxDone
    /\ pc' = "recv"
    /\ cursor' = appliedLSN + 1
    /\ baseline' = appliedLSN
    /\ done' = {}
    /\ entryCh' = << >>
    /\ cancelled' = FALSE
    /\ wpc' = [w \in Workers |-> "range"]
    /\ UNCHANGED <<logged, dbVars, appliedLSN, held, ctxDone, wentry, wcontig, boundVars>>

\* Mutant: at-or-below becomes strictly-below, and the next one after it is
\* skipped too.
AlreadyApplied_offByOne(l) == l <= appliedLSN + 1

\* The receiver drops an entry the applied LSN already covers.
AlreadyApplied(l) == l <= appliedLSN

\* stream.Recv: the next entry of the leader's WAL from the cursor on.
Recv ==
    /\ pc = "recv"
    /\ \E l \in logged :
         /\ l >= cursor
         /\ \A k \in logged : k >= cursor => l <= k
         /\ cursor' = l + 1
         /\ IF AlreadyApplied(l)
            THEN UNCHANGED <<pc, held>>
            ELSE pc' = "push" /\ held' = l
    /\ UNCHANGED <<logged, dbVars, appliedLSN, ctxDone, cancelled, entryCh,
                   trackerVars, workerVars, boundVars>>

\* The select: send on the channel, or notice that the pipe is cancelled.
\* Either way a cancelled pipe ends the loop.
Push ==
    /\ pc = "push"
    /\ \/ /\ Len(entryCh) < ChBuffer
          /\ entryCh' = Append(entryCh, held)
          /\ pc' = IF cancelled THEN "drain" ELSE "recv"
       \/ /\ cancelled
          /\ entryCh' = entryCh
          /\ pc' = "drain"
    /\ UNCHANGED <<logged, dbVars, appliedLSN, cursor, held, ctxDone, cancelled,
                   trackerVars, workerVars, boundVars>>

\* stream.Recv fails: the leader closed the stream, the network broke, or ctx
\* is cancelled (the stream runs under ctx, not under pipeCtx).
StreamEnds ==
    /\ pc = "recv"
    /\ \/ ctxDone /\ UNCHANGED breaks
       \/ breaks < MaxBreaks /\ breaks' = breaks + 1
    /\ pc' = "drain"
    /\ UNCHANGED <<logged, dbVars, appliedLSN, cursor, held, ctxDone, cancelled,
                   entryCh, trackerVars, workerVars, errors, resets>>

\* workerWg.Wait returns; Client.run goes back to connect, or returns.
Finish ==
    /\ pc = "drain"
    /\ \A w \in Workers : wpc[w] = "exit"
    /\ pc' = IF ctxDone THEN "stopped" ELSE "idle"
    /\ entryCh' = << >>
    /\ UNCHANGED <<logged, dbVars, appliedLSN, cursor, held, ctxDone, cancelled,
                   trackerVars, workerVars, boundVars>>

(***************************************************************************)
(* A worker.                                                                *)
(***************************************************************************)

\* Take an entry; a worker that finds the pipe cancelled returns with it.
Take(w) ==
    /\ wpc[w] = "range" /\ pc \in {"recv", "push", "drain"}
    /\ entryCh # << >>
    /\ entryCh' = Tail(entryCh)
    /\ wentry' = [wentry EXCEPT ![w] = Head(entryCh)]
    /\ wpc' = [wpc EXCEPT ![w] = IF cancelled THEN "exit" ELSE "apply"]
    /\ UNCHANGED <<logged, dbVars, appliedLSN, recvVars, ctxDone, cancelled,
                   trackerVars, wcontig, boundVars>>

\* The channel is closed and drained.
RangeEnds(w) ==
    /\ wpc[w] = "range" /\ pc = "drain" /\ entryCh = << >>
    /\ wpc' = [wpc EXCEPT ![w] = "exit"]
    /\ UNCHANGED <<logged, dbVars, appliedLSN, recvVars, ctxDone, cancelled,
                   entryCh, trackerVars, wentry, wcontig, boundVars>>

\* Applier.ApplyOp succeeds.
ApplyOK(w) ==
    /\ wpc[w] = "apply"
    /\ ~ApplyFails(wentry[w])
    /\ ApplyOp(wentry[w])
    /\ applied' = applied \cup {wentry[w]}
    /\ wpc' = [wpc EXCEPT ![w] = "mark"]
    /\ UNCHANGED <<logged, appliedLSN, recvVars, ctxDone, cancelled, entryCh,
                   trackerVars, wentry, wcontig, boundVars>>

\* Mutant: the error is logged and the worker carries on to MarkDone.
ApplyError_ignored(w) ==
    /\ wpc[w] = "apply"
    /\ \/ ApplyFails(wentry[w]) /\ UNCHANGED errors
       \/ errors < MaxErrors /\ errors' = errors + 1
    /\ wpc' = [wpc EXCEPT ![w] = "mark"]
    /\ UNCHANGED <<logged, dbVars, appliedLSN, recvVars, ctxDone, cancelled, entryCh,
                   trackerVars, wentry, wcontig, breaks, resets>>

\* Applier.ApplyOp fails, on the entry or on the write itself: the pipe is
\* cancelled and the worker returns.
ApplyError(w) ==
    /\ wpc[w] = "apply"
    /\ \/ ApplyFails(wentry[w]) /\ UNCHANGED errors
       \/ errors < MaxErrors /\ errors' = errors + 1
    /\ cancelled' = TRUE
    /\ wpc' = [wpc EXCEPT ![w] = "exit"]
    /\ UNCHANGED <<logged, dbVars, appliedLSN, recvVars, ctxDone, entryCh,
                   trackerVars, wentry, wcontig, breaks, resets>>

\* The loop of lsnTracker.MarkDone takes the watermark from b to c.
Watermark(b, D, c) == c >= b /\ (b + 1)..c \subseteq D /\ c + 1 \notin D

\* lsnTracker.MarkDone, under the tracker's own mutex.
MarkDone(w) ==
    /\ wpc[w] = "mark"
    /\ LET D == done \cup {wentry[w]}
       IN \E c \in {baseline} \cup D :
            /\ Watermark(baseline, D, c)
            /\ baseline' = c
            /\ done' = D \ ((baseline + 1)..c)
            /\ wcontig' = [wcontig EXCEPT ![w] = c]
    /\ wpc' = [wpc EXCEPT ![w] = "set"]
    /\ UNCHANGED <<logged, dbVars, appliedLSN, recvVars, ctxDone, cancelled,
                   entryCh, wentry, boundVars>>

\* Applier.SetAppliedLSN, a store of its own after the mutex is released.
SetAppliedLSN(w) ==
    /\ wpc[w] = "set"
    /\ appliedLSN' = wcontig[w]
    /\ wpc' = [wpc EXCEPT ![w] = "range"]
    /\ UNCHANGED <<logged, dbVars, recvVars, ctxDone, cancelled, entryCh,
                   trackerVars, wentry, wcontig, boundVars>>

(***************************************************************************)
(* Stop, leader change, restart.                                             *)
(***************************************************************************)

\* Client.Stop cancels ctx, and with it pipeCtx.
Stop ==
    /\ ~ctxDone /\ pc # "stopped" /\ resets < MaxResets
    /\ ctxDone' = TRUE
    /\ cancelled' = TRUE
    /\ pc' = IF pc = "idle" THEN "stopped" ELSE pc
    /\ UNCHANGED <<logged, dbVars, appliedLSN, cursor, held, entryCh, trackerVars,
                   workerVars, boundVars>>

\* Mutant: the new client inherits the LSN of the old leader's log.
Restart_keepsLSN ==
    /\ pc = "stopped"
    /\ resets' = resets + 1
    /\ applied' = {}
    /\ ctxDone' = FALSE
    /\ pc' = "idle"
    /\ UNCHANGED <<logged, store, count, appliedLSN, cursor, held, cancelled, entryCh,
                   trackerVars, workerVars, breaks, errors>>

\* becomeFollower, once Stop has returned: ResetLSN and a new client.  The new
\* leader numbers its own log, so nothing of that log has been applied yet.
Restart ==
    /\ pc = "stopped"
    /\ resets' = resets + 1
    /\ appliedLSN' = 0
    /\ applied' = {}
    /\ ctxDone' = FALSE
    /\ pc' = "idle"
    /\ UNCHANGED <<logged, store, count, cursor, held, cancelled, entryCh,
                   trackerVars, workerVars, breaks, errors>>

\* The follower process dies.  Its database survives, its appliedLSN does not.
Crash ==
    /\ resets < MaxResets
    /\ resets' = resets + 1
    /\ appliedLSN' = 0
    /\ ctxDone' = FALSE
    /\ pc' = "idle"
    /\ entryCh' = << >>
    /\ wpc' = [w \in Workers |-> "exit"]
    /\ UNCHANGED <<logged, dbVars, cursor, held, cancelled, trackerVars, wentry,
                   wcontig, breaks, errors>>

(***************************************************************************)
(* The specification.                                                       *)
(***************************************************************************)
Init ==
    /\ logged = {}
    /\ store = << >> /\ count = 0 /\ applied = {}
    /\ appliedLSN = 0
    /\ pc = "idle" /\ cursor = 0 /\ held = 0
    /\ ctxDone = FALSE /\ cancelled = FALSE
    /\ entryCh = << >>
    /\ baseline = 0 /\ done = {}
    /\ wpc = [w \in Workers |-> "exit"]
    /\ wentry = [w \in Workers |-> 0]
    /\ wcontig = [w \in Workers |-> 0]
    /\ breaks = 0 /\ errors = 0 /\ resets = 0

Receiver == Connect \/ Recv \/ Push \/ StreamEnds \/ Finish
Worker(w) == Take(w) \/ RangeEnds(w) \/ ApplyOK(w) \/ ApplyError(w) \/ MarkDone(w) \/ SetAppliedLSN(w)

Next ==
    \/ LeaderAppend \/ Receiver \/ Stop \/ Restart \/ Crash
    \/ \E w \in Workers : Worker(w)

\* The goroutines are scheduled; a worker whose ApplyOp can succeed does not
\* fail for ever, because the errors that are not the entry's own are bounded.
Fairness ==
    /\ WF_vars(LeaderAppend)
    /\ WF_vars(Connect) /\ WF_vars(Recv) /\ WF_vars(Push) /\ WF_vars(Finish)
    /\ WF_vars(StreamEnds /\ ctxDone) /\ WF_vars(Restart)
    /\ \A w \in Workers : WF_vars(Worker(w))

Spec == Init /\ [][Next]_vars /\ Fairness

(***************************************************************************)
(* Properties.                                                              *)
(***************************************************************************)

\* Values of the client's, the tracker's and the workers' variables.
TypeOK ==
    /\ logged \subseteq LSNs /\ applied \subseteq LSNs
    /\ count \in Int
    /\ appliedLSN \in Nat
    /\ pc \in {"idle", "recv", "push", "drain", "stopped"}
    /\ cursor \in Nat /\ held \in LSNs \cup {0}
    /\ ctxDone \in BOOLEAN /\ cancelled \in BOOLEAN
    /\ entryCh \in Seq(LSNs)
    /\ baseline \in Nat /\ done \subseteq LSNs
    /\ wpc \in [Workers -> {"range", "apply", "mark", "set", "exit"}]
    /\ wentry \in [Workers -> LSNs \cup {0}]
    /\ wcontig \in [Workers -> Nat]
    /\ {breaks, errors, resets} \subseteq Nat

\* The applied LSN is safe to resume from (client.go:206-211): every entry at
\* or below it has been applied, however the workers were interleaved, and
\* whatever errors, broken streams, leader changes and restarts came between.
WatermarkSound == 1..appliedLSN \subseteq applied

Streaming == pc \in {"recv", "push", "drain"}

\* What a worker carries: a finished entry it is about to mark, or a watermark
\* it is about to store.
WorkerSound(w) ==
    /\ wpc[w] \in {"apply", "mark"} => wentry[w] \in LSNs
    /\ wpc[w] = "mark" => wentry[w] \in applied
    /\ wpc[w] = "set" => 1..wcontig[w] \subseteq applied

\* What the tracker holds.
TrackerSound == 1..baseline \subseteq applied /\ done \subseteq applied

\* The inductive form of WatermarkSound: a stale watermark in a worker's hands is
\* still sound, and no worker outlives the stream whose tracker it uses
\* (workerWg.Wait before streamOnce returns).
IInv ==
    /\ TypeOK
    /\ WatermarkSound
    /\ pc = "push" => held \in LSNs
    /\ Streaming => TrackerSound /\ \A w \in Workers : WorkerSound(w)
    /\ ~Streaming => \A w \in Workers : wpc[w] = "exit"

\* The entries on their way from the stream to the database.
InFlight ==
    {entryCh[i] : i \in 1..Len(entryCh)}
        \cup {wentry[w] : w \in {v \in Workers : wpc[v] \in {"apply", "mark"}}}
        \cup (IF pc = "push" THEN {held} ELSE {})

\* On a healthy stream no received entry is lost between the receiver, the
\* channel, the workers and the tracker: the watermark is not stuck behind an
\* entry that nobody is going to apply.
NothingLost ==
    pc \in {"recv", "push"} /\ ~cancelled =>
        \A l \in logged : baseline < l /\ l < cursor => l \in done \cup InFlight

\* The database the leader has after its first n LSNs.
ReplayTo[n \in Nat] ==
    IF n = 0 THEN << >>
    ELSE IF n \notin LSNs THEN ReplayTo[n - 1]
    ELSE LET s == ReplayTo[n - 1]
             e == Log[n]
         IN IF e.op = "delete" THEN [x \in DOMAIN s \ {e.key} |-> s[x]]
            ELSE [x \in DOMAIN s \cup {e.key} |-> IF x = e.key THEN e.val ELSE s[x]]

LastLSN == CHOOSE n \in LSNs : \A l \in LSNs : l <= n

\* The abstract follower.
Prefix == INSTANCE AppliedPrefix WITH mark <- appliedLSN

\* The client implements it: the applied LSN moves only to places below which
\* nothing is missing.
RefinesAppliedPrefix == Prefix!Spec

\* A follower ends up with the leader's data and keeps it, over a log whose
\* entries commute: broken streams, leader changes and restarts only delay it.
\* An apply error does more than that: it cancels the pipe under a receiver that
\* waits in stream.Recv, which runs under ctx, so a quiet leader leaves the stream
\* up with nobody to apply from it.  The claim is of streams no such error hit.
StoreConverges ==
    [](Streaming /\ cancelled => ctxDone) => <>[](store = ReplayTo[LastLSN])
================================================================================
