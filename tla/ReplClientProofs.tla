---------------------------- MODULE ReplClientProofs ----------------------------
(***************************************************************************)
(* Proofs about ReplClient for every number of workers, every channel size,  *)
(* every log (with or without gaps) and every bound: the types, the           *)
(* soundness of the applied LSN, that no entry is lost on a healthy stream,     *)
(* and that the client implements AppliedPrefix.                             *)
(*                                                                         *)
(* WatermarkSound is not inductive: SetAppliedLSN stores a value a worker     *)
(* computed earlier from the tracker.  IInv adds what the tracker and the     *)
(* workers carry while a stream is open, and that no worker outlives it.      *)
(* NothingLost needs besides it that the log has no gaps and that the tracker   *)
(* is never behind the applied LSN (LossInv).                                *)
(***************************************************************************)
EXTENDS ReplClient, TLAPS

--------------------------------------------------------------------------------
(* Facts about the operators.                                               *)

\* The watermark MarkDone reaches covers nothing that is neither below the old
\* one nor done.
LEMMA WatermarkCovers ==
    ASSUME NEW b \in Nat, NEW D, NEW c \in Nat, Watermark(b, D, c)
    PROVE  \A i \in 1..c : i \in 1..b \/ i \in D
<1> TAKE i \in 1..c
<1>1. CASE i <= b BY <1>1
<1>2. CASE i > b
  <2>1. i \in (b + 1)..c BY <1>2
  <2>2. QED BY <2>1 DEF Watermark
<1>3. QED BY <1>1, <1>2

\* Nothing lies at or below LSN 0.
LEMMA NoneBelowZero == \A S : 1..0 \subseteq S
OBVIOUS

\* LSNs are positive.
LEMMA LSNsPositive == LSNs \subseteq Nat \ {0}
BY ClientAssumption

\* ApplyOp moves the counter by one at most.
LEMMA ApplyOpCount ==
    ASSUME NEW l \in LSNs, count \in Int, ApplyOp(l)
    PROVE  count' \in Int
<1>1. Log[l].op \in {"add", "merge", "delete"} BY ClientAssumption
<1>2. CASE Log[l].op = "add" BY <1>2 DEF ApplyOp
<1>3. CASE Log[l].op = "merge" BY <1>3 DEF ApplyOp
<1>4. CASE Log[l].op = "delete" BY <1>4 DEF ApplyOp
<1>5. QED BY <1>1, <1>2, <1>3, <1>4

\* The channel's contents stay a sequence of LSNs.
LEMMA ChannelFacts ==
    /\ << >> \in Seq(LSNs)
    /\ \A s \in Seq(LSNs), l \in LSNs : Append(s, l) \in Seq(LSNs)
    /\ \A s \in Seq(LSNs) : s # << >> => Head(s) \in LSNs /\ Tail(s) \in Seq(LSNs)
<1>1. << >> \in Seq(LSNs) OBVIOUS
<1>2. \A s \in Seq(LSNs), l \in LSNs : Append(s, l) \in Seq(LSNs) OBVIOUS
<1>3. \A s \in Seq(LSNs) : s # << >> => Head(s) \in LSNs /\ Tail(s) \in Seq(LSNs) OBVIOUS
<1>4. QED BY <1>1, <1>2, <1>3

--------------------------------------------------------------------------------
(* The invariant.                                                           *)

\* The initial state satisfies it: no stream, no worker, nothing applied.
LEMMA InitIInv == Init => IInv
<1> SUFFICES ASSUME Init PROVE IInv
    OBVIOUS
<1>1. entryCh \in Seq(LSNs) BY ChannelFacts DEF Init
<1>2. wpc \in [Workers -> {"range", "apply", "mark", "set", "exit"}]
  BY DEF Init
<1>3. wentry \in [Workers -> LSNs \cup {0}] BY DEF Init
<1>4. wcontig \in [Workers -> Nat] BY DEF Init
<1>5. TypeOK
  <2>1. ctxDone \in BOOLEAN /\ cancelled \in BOOLEAN BY DEF Init
  <2>2. logged \subseteq LSNs /\ applied \subseteq LSNs /\ done \subseteq LSNs BY DEF Init
  <2>3. count \in Int /\ appliedLSN \in Nat /\ cursor \in Nat /\ baseline \in Nat
    BY DEF Init
  <2>4. held \in LSNs \cup {0} BY DEF Init
  <2>5. pc \in {"idle", "recv", "push", "drain", "stopped"} BY DEF Init
  <2>6. {breaks, errors, resets} \subseteq Nat BY DEF Init
  <2>7. QED BY <1>1, <1>2, <1>3, <1>4, <2>1, <2>2, <2>3, <2>4, <2>5, <2>6 DEF TypeOK
<1>6. WatermarkSound BY NoneBelowZero DEF Init, WatermarkSound
<1>7. ~Streaming /\ \A w \in Workers : wpc[w] = "exit" BY DEF Init, Streaming
<1>8. pc # "push" BY DEF Init
<1>9. QED BY <1>5, <1>6, <1>7, <1>8 DEF IInv

\* Every step of the receiver, the workers, the leader and the cluster manager
\* preserves it.
LEMMA NextIInv == IInv /\ [Next]_vars => IInv'
<1> SUFFICES ASSUME IInv, [Next]_vars PROVE IInv'
    OBVIOUS
<1> USE LSNsPositive
<1>1. CASE LeaderAppend
  BY <1>1 DEF LeaderAppend, IInv, TypeOK, WatermarkSound, Streaming, TrackerSound,
              WorkerSound, dbVars, recvVars, trackerVars, workerVars, boundVars
<1>2. CASE Connect
  <2>1. entryCh' \in Seq(LSNs) BY <1>2, ChannelFacts DEF Connect
  <2>2. wpc' \in [Workers -> {"range", "apply", "mark", "set", "exit"}]
    BY <1>2 DEF Connect
  <2>3. TypeOK'
    <3>1. ctxDone' \in BOOLEAN /\ cancelled' \in BOOLEAN BY <1>2 DEF Connect, IInv, TypeOK
    <3>2. cursor' \in Nat /\ baseline' \in Nat /\ done' \subseteq LSNs
      BY <1>2 DEF Connect, IInv, TypeOK
    <3>3. QED
      BY <1>2, <2>1, <2>2, <3>1, <3>2 DEF Connect, IInv, TypeOK, dbVars, boundVars
  <2>4. WatermarkSound' /\ TrackerSound'
    BY <1>2 DEF Connect, IInv, WatermarkSound, TrackerSound, dbVars
  <2>5. \A w \in Workers : WorkerSound(w)'
    BY <1>2 DEF Connect, WorkerSound
  <2>6. QED BY <1>2, <2>3, <2>4, <2>5 DEF Connect, IInv, Streaming
<1>3. CASE Recv
  BY <1>3 DEF Recv, IInv, TypeOK, WatermarkSound, Streaming, TrackerSound,
              WorkerSound, dbVars, recvVars, trackerVars, workerVars, boundVars
<1>4. CASE Push
  <2>1. entryCh' \in Seq(LSNs) BY <1>4, ChannelFacts DEF Push, IInv, TypeOK
  <2>2. QED
    BY <1>4, <2>1 DEF Push, IInv, TypeOK, WatermarkSound, Streaming, TrackerSound,
              WorkerSound, dbVars, recvVars, trackerVars, workerVars, boundVars
<1>5. CASE StreamEnds
  BY <1>5 DEF StreamEnds, IInv, TypeOK, WatermarkSound, Streaming, TrackerSound,
              WorkerSound, dbVars, recvVars, trackerVars, workerVars, boundVars
<1>6. CASE Finish
  BY <1>6 DEF Finish, IInv, TypeOK, WatermarkSound, Streaming, TrackerSound,
              WorkerSound, dbVars, recvVars, trackerVars, workerVars, boundVars
<1>7. CASE Stop
  BY <1>7 DEF Stop, IInv, TypeOK, WatermarkSound, Streaming, TrackerSound,
              WorkerSound, dbVars, recvVars, trackerVars, workerVars, boundVars
<1>8. CASE Restart
  <2>1. TypeOK'
    <3>1. ctxDone' \in BOOLEAN /\ cancelled' \in BOOLEAN BY <1>8 DEF Restart, IInv, TypeOK
    <3>2. pc' \in {"idle", "recv", "push", "drain", "stopped"} /\ appliedLSN' \in Nat
      BY <1>8 DEF Restart
    <3>3. {breaks, errors, resets}' \subseteq Nat BY <1>8 DEF Restart, IInv, TypeOK
    <3>4. QED
      BY <1>8, <3>1, <3>2, <3>3 DEF Restart, IInv, TypeOK, trackerVars, workerVars
  <2>2. WatermarkSound' BY <1>8, NoneBelowZero DEF Restart, WatermarkSound
  <2>3. \A w \in Workers : wpc'[w] = "exit"
    BY <1>8 DEF Restart, IInv, Streaming, workerVars
  <2>4. QED BY <1>8, <2>1, <2>2, <2>3 DEF Restart, IInv, Streaming
<1>9. CASE Crash
  <2>1. entryCh' \in Seq(LSNs) BY <1>9, ChannelFacts DEF Crash
  <2>2. wpc' \in [Workers -> {"range", "apply", "mark", "set", "exit"}]
    BY <1>9 DEF Crash
  <2>3. TypeOK'
    <3>1. ctxDone' \in BOOLEAN /\ cancelled' \in BOOLEAN BY <1>9 DEF Crash, IInv, TypeOK
    <3>2. pc' \in {"idle", "recv", "push", "drain", "stopped"} /\ appliedLSN' \in Nat
      BY <1>9 DEF Crash
    <3>3. {breaks, errors, resets}' \subseteq Nat BY <1>9 DEF Crash, IInv, TypeOK
    <3>4. QED
      BY <1>9, <2>1, <2>2, <3>1, <3>2, <3>3 DEF Crash, IInv, TypeOK, dbVars, trackerVars
  <2>4. WatermarkSound' BY <1>9, NoneBelowZero DEF Crash, WatermarkSound
  <2>5. \A w \in Workers : wpc'[w] = "exit" BY <1>9 DEF Crash
  <2>6. QED BY <1>9, <2>3, <2>4, <2>5 DEF Crash, IInv, Streaming
<1>10. ASSUME NEW w \in Workers, Take(w) PROVE IInv'
  <2>1. entryCh' \in Seq(LSNs) /\ Head(entryCh) \in LSNs
    BY <1>10, ChannelFacts DEF Take, IInv, TypeOK
  <2>2. QED
    BY <1>10, <2>1 DEF Take, IInv, TypeOK, WatermarkSound, Streaming, TrackerSound,
              WorkerSound, dbVars, recvVars, trackerVars, workerVars, boundVars
<1>11. ASSUME NEW w \in Workers, RangeEnds(w) PROVE IInv'
  BY <1>11 DEF RangeEnds, IInv, TypeOK, WatermarkSound, Streaming, TrackerSound,
              WorkerSound, dbVars, recvVars, trackerVars, workerVars, boundVars
<1>12. ASSUME NEW w \in Workers, ApplyOK(w) PROVE IInv'
  <2>1. Streaming /\ wentry[w] \in LSNs
    BY <1>12 DEF ApplyOK, IInv, TypeOK, Streaming, WorkerSound
  <2>2. count' \in Int
    BY <1>12, <2>1, ApplyOpCount DEF ApplyOK, IInv, TypeOK
  <2>3. QED
    BY <1>12, <2>1, <2>2 DEF ApplyOK, IInv, TypeOK, WatermarkSound, Streaming,
       TrackerSound, WorkerSound, recvVars, trackerVars, boundVars
<1>13. ASSUME NEW w \in Workers, ApplyError(w) PROVE IInv'
  BY <1>13 DEF ApplyError, IInv, TypeOK, WatermarkSound, Streaming, TrackerSound,
              WorkerSound, dbVars, recvVars, trackerVars, workerVars, boundVars
<1>14. ASSUME NEW w \in Workers, MarkDone(w) PROVE IInv'
  <2> DEFINE D == done \cup {wentry[w]}
  <2>1. Streaming /\ wentry[w] \in applied /\ wentry[w] \in LSNs
    BY <1>14 DEF MarkDone, IInv, TypeOK, Streaming, WorkerSound
  <2>2. baseline \in Nat /\ D \subseteq applied /\ D \subseteq LSNs
    BY <2>1 DEF IInv, TypeOK, TrackerSound
  <2>3. PICK c \in Nat : /\ Watermark(baseline, D, c)
                         /\ baseline' = c
                         /\ done' = D \ ((baseline + 1)..c)
                         /\ wcontig' = [wcontig EXCEPT ![w] = c]
    BY <1>14, <2>2 DEF MarkDone
  <2>4. 1..c \subseteq applied
    <3>1. baseline \in Nat /\ 1..baseline \subseteq applied
      BY <2>1 DEF IInv, TypeOK, TrackerSound
    <3>2. \A i \in 1..c : i \in 1..baseline \/ i \in D
      BY <2>3, <3>1, WatermarkCovers
    <3>3. QED BY <2>2, <3>1, <3>2
  <2>5. QED
    BY <1>14, <2>1, <2>2, <2>3, <2>4 DEF MarkDone, IInv, TypeOK, WatermarkSound,
       Streaming, TrackerSound, WorkerSound, dbVars, recvVars, boundVars
<1>15. ASSUME NEW w \in Workers, SetAppliedLSN(w) PROVE IInv'
  <2>1. Streaming /\ 1..wcontig[w] \subseteq applied /\ wcontig[w] \in Nat
    BY <1>15 DEF SetAppliedLSN, IInv, TypeOK, Streaming, WorkerSound
  <2>2. QED
    BY <1>15, <2>1 DEF SetAppliedLSN, IInv, TypeOK, WatermarkSound, Streaming,
       TrackerSound, WorkerSound, dbVars, recvVars, trackerVars, boundVars
<1>16. CASE UNCHANGED vars
  BY <1>16 DEF vars, IInv, TypeOK, WatermarkSound, Streaming, TrackerSound,
              WorkerSound, dbVars, recvVars, trackerVars, workerVars, boundVars
<1>17. QED
  BY <1>1, <1>2, <1>3, <1>4, <1>5, <1>6, <1>7, <1>8, <1>9, <1>10, <1>11, <1>12,
     <1>13, <1>14, <1>15, <1>16 DEF Next, Receiver, Worker

\* The inductive invariant holds of every behaviour of the client.
THEOREM Invariance == Spec => []IInv
<1>1. QED BY InitIInv, NextIInv, PTL DEF Spec

\* Type correctness of the replication client.
THEOREM TypeCorrect == Spec => []TypeOK
<1>1. IInv => TypeOK BY DEF IInv
<1>2. QED BY Invariance, <1>1, PTL

\* The applied LSN never stands above an entry that has not been applied.
THEOREM WatermarkIsSound == Spec => []WatermarkSound
<1>1. IInv => WatermarkSound BY DEF IInv
<1>2. QED BY Invariance, <1>1, PTL

--------------------------------------------------------------------------------
(* Nothing is lost on a healthy stream.                                     *)

\* The leader's log grows without gaps in LSNs.
InOrder == \A l \in logged, k \in LSNs : k <= l => k \in logged

\* While a stream is open its tracker is never behind the applied LSN, nor behind a
\* watermark a worker is about to store: what the receiver drops is below the baseline.
Behind ==
    Streaming => /\ appliedLSN <= baseline
                 /\ \A w \in Workers : wpc[w] = "set" => wcontig[w] <= baseline

\* NothingLost of every LSN below the cursor, logged or not.
Kept ==
    pc \in {"recv", "push"} /\ ~cancelled =>
        \A l \in LSNs : baseline < l /\ l < cursor => l \in done \cup InFlight

LossInv == InOrder /\ Behind /\ Kept

\* What a step that touches neither the log, the receiver nor the tracker has to keep:
\* the entries on their way.
LEMMA SamePipe ==
    ASSUME Kept, pc' = pc, cancelled' = cancelled, baseline' = baseline, cursor' = cursor,
           done \subseteq done', InFlight \subseteq InFlight'
    PROVE  Kept'
BY DEF Kept

\* Every step keeps it.
LEMMA NextLossInv == IInv /\ IInv' /\ LossInv /\ [Next]_vars => LossInv'
<1> SUFFICES ASSUME IInv, IInv', LossInv, [Next]_vars PROVE LossInv'
    OBVIOUS
<1> USE LSNsPositive DEF dbVars, recvVars, trackerVars, workerVars, boundVars
<1>1. CASE LeaderAppend
  <2>1. PICK l \in LSNs \ logged : (\A k \in LSNs \ logged : l <= k) /\ logged' = logged \cup {l}
    BY <1>1 DEF LeaderAppend
  <2>2. InOrder' BY <2>1 DEF LossInv, InOrder, IInv, TypeOK
  <2>3. Behind' BY <1>1 DEF LeaderAppend, LossInv, Behind, Streaming
  <2>4. InFlight' = InFlight BY <1>1 DEF LeaderAppend, InFlight
  <2>5. Kept' BY <1>1, <2>4, SamePipe DEF LeaderAppend, LossInv
  <2>6. QED BY <2>2, <2>3, <2>5 DEF LossInv
<1>2. ASSUME logged' = logged PROVE InOrder' BY <1>2 DEF LossInv, InOrder
<1>3. CASE Connect
  <2>1. Behind' BY <1>3 DEF Connect, Behind, IInv, TypeOK
  <2>2. \A l \in LSNs : ~(baseline' < l /\ l < cursor') BY <1>3 DEF Connect, IInv, TypeOK
  <2>3. Kept' BY <2>2 DEF Kept
  <2>4. QED BY <1>2, <1>3, <2>1, <2>3 DEF LossInv, Connect
<1>4. CASE Recv
  <2>1. PICK l \in logged : /\ l >= cursor
                            /\ \A k \in logged : k >= cursor => l <= k
                            /\ cursor' = l + 1
                            /\ IF AlreadyApplied(l) THEN UNCHANGED <<pc, held>>
                               ELSE pc' = "push" /\ held' = l
    BY <1>4 DEF Recv
  <2>2. Behind' BY <1>4, <2>1 DEF Recv, LossInv, Behind, Streaming
  <2>3. ASSUME ~cancelled, NEW k \in LSNs, baseline < k, k < l + 1
        PROVE  k \in done \cup InFlight'
    <3>1. l \in LSNs /\ l \in Nat /\ k \in Nat /\ cursor \in Nat /\ baseline \in Nat /\ appliedLSN \in Nat
      BY DEF IInv, TypeOK
    <3>2. k \in logged BY <2>3, <3>1 DEF LossInv, InOrder
    <3>3. CASE k < cursor
      <4>1. k \in done \cup InFlight BY <1>4, <2>3, <3>3 DEF LossInv, Kept, Recv
      <4>2. InFlight \subseteq InFlight' BY <1>4, <2>1 DEF Recv, InFlight
      <4>3. QED BY <4>1, <4>2
    <3>4. CASE k >= cursor
      <4>1. k = l BY <2>1, <2>3, <3>1, <3>2, <3>4
      <4>2. appliedLSN <= baseline BY <1>4 DEF Recv, LossInv, Behind, Streaming
      <4>3. ~AlreadyApplied(l) BY <2>3, <3>1, <4>1, <4>2 DEF AlreadyApplied
      <4>4. pc' = "push" /\ held' = l BY <2>1, <4>3
      <4>5. QED BY <4>1, <4>4 DEF InFlight
    <3>5. QED BY <3>1, <3>3, <3>4
  <2>4. Kept' BY <1>4, <2>1, <2>3 DEF Recv, Kept
  <2>5. QED BY <1>2, <1>4, <2>2, <2>4 DEF LossInv, Recv
<1>5. CASE Push
  <2>1. Behind' BY <1>5 DEF Push, LossInv, Behind, Streaming
  <2>2. Kept'
    <3>1. SUFFICES ASSUME pc' = "recv" PROVE Kept'
      BY <1>5 DEF Push, Kept
    <3>2. entryCh' = Append(entryCh, held) /\ pc = "push"
      BY <1>5, <3>1 DEF Push
    <3>3. held \in LSNs /\ entryCh \in Seq(LSNs) BY <3>2 DEF IInv, TypeOK
    <3>4. /\ Len(entryCh') = Len(entryCh) + 1 /\ entryCh'[Len(entryCh) + 1] = held
          /\ \A i \in 1..Len(entryCh) : entryCh'[i] = entryCh[i]
      BY <3>2, <3>3
    <3>5. ASSUME NEW x \in InFlight PROVE x \in InFlight'
      <4>1. CASE x \in {entryCh[i] : i \in 1..Len(entryCh)}
        <5>1. x \in {entryCh'[i] : i \in 1..Len(entryCh')} BY <3>3, <3>4, <4>1
        <5>2. QED BY <5>1 DEF InFlight
      <4>2. CASE x \in {wentry[w] : w \in {v \in Workers : wpc[v] \in {"apply", "mark"}}}
        BY <1>5, <4>2 DEF Push, InFlight
      <4>3. CASE x = held
        <5>1. x \in {entryCh'[i] : i \in 1..Len(entryCh')} BY <3>3, <3>4, <4>3
        <5>2. QED BY <5>1 DEF InFlight
      <4>4. QED BY <3>2, <3>5, <4>1, <4>2, <4>3 DEF InFlight
    <3>6. QED BY <1>5, <3>2, <3>5 DEF Push, LossInv, Kept
  <2>3. QED BY <1>2, <1>5, <2>1, <2>2 DEF LossInv, Push
<1>6. CASE StreamEnds \/ Finish
  <2>1. Behind' /\ Kept'
    BY <1>6 DEF StreamEnds, Finish, LossInv, Behind, Kept, Streaming
  <2>2. QED BY <1>2, <1>6, <2>1 DEF LossInv, StreamEnds, Finish
<1>7. CASE Stop
  <2>1. Behind' BY <1>7 DEF Stop, LossInv, Behind, Streaming
  <2>2. Kept' BY <1>7 DEF Stop, Kept
  <2>3. QED BY <1>2, <1>7, <2>1, <2>2 DEF LossInv, Stop
<1>8. CASE Restart \/ Crash
  <2>1. pc' = "idle" /\ logged' = logged BY <1>8 DEF Restart, Crash
  <2>2. QED BY <1>2, <2>1 DEF LossInv, Behind, Kept, Streaming
<1>9. ASSUME NEW w \in Workers, Take(w) PROVE LossInv'
  <2>1. Behind' BY <1>9 DEF Take, LossInv, Behind, Streaming, IInv, TypeOK
  <2>2. CASE cancelled BY <1>2, <1>9, <2>1, <2>2 DEF Take, LossInv, Kept
  <2>3. CASE ~cancelled
    <3>1. /\ entryCh \in Seq(LSNs) /\ entryCh # << >> /\ entryCh' = Tail(entryCh)
          /\ wentry' = [wentry EXCEPT ![w] = Head(entryCh)]
          /\ wpc' = [wpc EXCEPT ![w] = "apply"] /\ wpc[w] = "range"
          /\ wpc \in [Workers -> {"range", "apply", "mark", "set", "exit"}]
          /\ wentry \in [Workers -> LSNs \cup {0}]
      BY <1>9, <2>3 DEF Take, IInv, TypeOK
    <3>2. ASSUME NEW x \in InFlight PROVE x \in InFlight'
      <4>1. CASE x \in {entryCh[i] : i \in 1..Len(entryCh)}
        <5>1. PICK i \in 1..Len(entryCh) : x = entryCh[i] BY <4>1
        <5>2. CASE i = 1
          <6>1. x = wentry'[w] /\ wpc'[w] = "apply" BY <3>1, <5>1, <5>2
          <6>2. QED BY <6>1 DEF InFlight
        <5>3. CASE i # 1
          <6>1. i - 1 \in 1..Len(entryCh') /\ entryCh'[i - 1] = x BY <3>1, <5>1, <5>3
          <6>2. QED BY <6>1 DEF InFlight
        <5>4. QED BY <5>2, <5>3
      <4>2. CASE x \in {wentry[v] : v \in {u \in Workers : wpc[u] \in {"apply", "mark"}}}
        <5>1. PICK v \in Workers : wpc[v] \in {"apply", "mark"} /\ x = wentry[v] BY <4>2
        <5>2. v # w BY <3>1, <5>1
        <5>3. wpc'[v] = wpc[v] /\ wentry'[v] = wentry[v] BY <3>1, <5>2
        <5>4. QED BY <5>1, <5>3 DEF InFlight
      <4>3. CASE pc = "push" /\ x = held BY <1>9, <4>3 DEF Take, InFlight
      <4>4. QED BY <3>2, <4>1, <4>2, <4>3 DEF InFlight
    <3>3. Kept' BY <1>9, <3>2, SamePipe DEF Take, LossInv
    <3>4. QED BY <1>2, <1>9, <2>1, <3>3 DEF Take, LossInv
  <2>4. QED BY <2>2, <2>3
<1>10. ASSUME NEW w \in Workers, RangeEnds(w) PROVE LossInv'
  <2>1. Behind' BY <1>10 DEF RangeEnds, LossInv, Behind, Streaming, IInv, TypeOK
  <2>2. Kept' BY <1>10 DEF RangeEnds, Kept
  <2>3. QED BY <1>2, <1>10, <2>1, <2>2 DEF LossInv, RangeEnds
<1>11. ASSUME NEW w \in Workers, ApplyOK(w) PROVE LossInv'
  <2>1. wpc' = [wpc EXCEPT ![w] = "mark"] /\ wpc[w] = "apply"
        /\ UNCHANGED <<logged, appliedLSN, pc, cursor, held, cancelled, entryCh, baseline, done, wentry, wcontig>>
    BY <1>11 DEF ApplyOK
  <2>2. \A v \in Workers : wpc'[v] = wpc[v] \/ (v = w /\ wpc'[v] = "mark")
    BY <2>1 DEF IInv, TypeOK
  <2>3. Behind' BY <2>1, <2>2 DEF LossInv, Behind, Streaming
  <2>4. InFlight \subseteq InFlight' BY <2>1, <2>2 DEF InFlight
  <2>5. Kept' BY <2>1, <2>4, SamePipe DEF LossInv
  <2>6. QED BY <1>2, <2>1, <2>3, <2>5 DEF LossInv
<1>12. ASSUME NEW w \in Workers, ApplyError(w) PROVE LossInv'
  <2>1. Behind' BY <1>12 DEF ApplyError, LossInv, Behind, Streaming, IInv, TypeOK
  <2>2. Kept' BY <1>12 DEF ApplyError, Kept
  <2>3. QED BY <1>2, <1>12, <2>1, <2>2 DEF LossInv, ApplyError
<1>13. ASSUME NEW w \in Workers, MarkDone(w) PROVE LossInv'
  <2> DEFINE D == done \cup {wentry[w]}
  <2>1. Streaming /\ wentry[w] \in LSNs /\ baseline \in Nat /\ D \subseteq LSNs
    BY <1>13 DEF MarkDone, IInv, TypeOK, Streaming, WorkerSound
  <2>2. PICK c \in Nat : /\ Watermark(baseline, D, c)
                         /\ baseline' = c
                         /\ done' = D \ ((baseline + 1)..c)
                         /\ wcontig' = [wcontig EXCEPT ![w] = c]
    BY <1>13, <2>1 DEF MarkDone
  <2>3. wpc' = [wpc EXCEPT ![w] = "set"] /\ wpc[w] = "mark"
        /\ UNCHANGED <<logged, appliedLSN, pc, cursor, held, cancelled, entryCh, wentry>>
    BY <1>13 DEF MarkDone
  <2>4. baseline <= c BY <2>2 DEF Watermark
  <2>5. Behind'
    <3>1. \A v \in Workers : \/ wpc'[v] = wpc[v] /\ wcontig'[v] = wcontig[v]
                             \/ v = w /\ wcontig'[v] = c
      BY <2>2, <2>3 DEF IInv, TypeOK
    <3>2. appliedLSN \in Nat /\ \A v \in Workers : wcontig[v] \in Nat BY DEF IInv, TypeOK
    <3>3. QED BY <2>1, <2>2, <2>3, <2>4, <3>1, <3>2 DEF LossInv, Behind, Streaming
  <2>6. Kept'
    <3>1. SUFFICES ASSUME pc \in {"recv", "push"}, ~cancelled,
                          NEW l \in LSNs, c < l, l < cursor
                   PROVE  l \in done' \cup InFlight'
      BY <2>2, <2>3 DEF Kept
    <3>2. baseline < l BY <2>1, <2>4, <3>1
    <3>3. l \in done \cup InFlight BY <3>1, <3>2 DEF LossInv, Kept
    <3>4. CASE l \in D BY <2>1, <2>2, <3>1, <3>4
    <3>5. CASE l \in InFlight /\ l # wentry[w]
      <4>1. \A v \in Workers : v # w => wpc'[v] = wpc[v] BY <2>3 DEF IInv, TypeOK
      <4>2. QED BY <2>3, <3>5, <4>1 DEF InFlight
    <3>6. QED BY <3>3, <3>4, <3>5
  <2>7. QED BY <1>2, <2>3, <2>5, <2>6 DEF LossInv
<1>14. ASSUME NEW w \in Workers, SetAppliedLSN(w) PROVE LossInv'
  <2>1. /\ appliedLSN' = wcontig[w] /\ wpc[w] = "set" /\ wpc' = [wpc EXCEPT ![w] = "range"]
        /\ UNCHANGED <<logged, pc, cursor, held, cancelled, entryCh, baseline, done, wentry, wcontig>>
    BY <1>14 DEF SetAppliedLSN
  <2>2. \A v \in Workers : wpc'[v] = wpc[v] \/ (v = w /\ wpc'[v] = "range")
    BY <2>1 DEF IInv, TypeOK
  <2>3. Behind' BY <2>1, <2>2 DEF LossInv, Behind, Streaming
  <2>4. InFlight \subseteq InFlight'
    <3>1. \A v \in Workers : wpc[v] \in {"apply", "mark"} => wpc'[v] = wpc[v] BY <2>1, <2>2
    <3>2. QED BY <2>1, <3>1 DEF InFlight
  <2>5. Kept' BY <2>1, <2>4, SamePipe DEF LossInv
  <2>6. QED BY <1>2, <2>1, <2>3, <2>5 DEF LossInv
<1>15. CASE UNCHANGED vars
  BY <1>15 DEF vars, LossInv, InOrder, Behind, Kept, Streaming, InFlight
<1>16. QED
  BY <1>1, <1>3, <1>4, <1>5, <1>6, <1>7, <1>8, <1>9, <1>10, <1>11, <1>12, <1>13, <1>14, <1>15
     DEF Next, Receiver, Worker

\* On a healthy stream every received entry above the watermark is marked or on its way
\* to be (client.go: receiver, channel, workers, lsnTracker).
THEOREM NothingIsLost == Spec => []NothingLost
<1>1. Init => LossInv
  BY DEF Init, LossInv, InOrder, Behind, Kept, Streaming
<1>2. IInv /\ LossInv => NothingLost BY DEF IInv, TypeOK, LossInv, Kept, NothingLost
<1>3. QED BY <1>1, <1>2, NextLossInv, Invariance, PTL DEF Spec

--------------------------------------------------------------------------------
(* Refinement.                                                              *)

\* The client, seen through its applied set and applied LSN, is AppliedPrefix.
THEOREM Refinement == Spec => RefinesAppliedPrefix
<1>1. Init => Prefix!Init
  BY DEF Init, Prefix!Init
<1>2. IInv /\ IInv' /\ [Next]_vars => [Prefix!Next]_<<applied, appliedLSN>>
  <2> SUFFICES ASSUME IInv, IInv', [Next]_vars
               PROVE  [Prefix!Next]_<<applied, appliedLSN>>
    OBVIOUS
  <2>1. ASSUME applied' = applied PROVE Prefix!SetMark
    BY <2>1 DEF Prefix!SetMark, IInv, TypeOK, WatermarkSound
  <2>2. CASE applied' = applied
    BY <2>1, <2>2 DEF Prefix!Next
  <2>3. CASE Restart
    BY <2>3 DEF Restart, Prefix!Next, Prefix!NewLog
  <2>4. ASSUME NEW w \in Workers, ApplyOK(w) PROVE Prefix!ApplyEntry
    <3>1. wentry[w] \in LSNs
      BY <2>4 DEF ApplyOK, IInv, TypeOK, Streaming, WorkerSound
    <3>2. QED BY <2>4, <3>1 DEF ApplyOK, Prefix!ApplyEntry
  <2>5. applied' = applied \/ Restart \/ \E w \in Workers : ApplyOK(w)
    BY DEF Next, Receiver, Worker, vars, LeaderAppend, Connect, Recv, Push,
       StreamEnds, Finish, Stop, Crash, Take, RangeEnds, ApplyError, MarkDone,
       SetAppliedLSN, dbVars
  <2>6. QED BY <2>2, <2>3, <2>4, <2>5 DEF Prefix!Next
<1>3. QED BY <1>1, <1>2, Invariance, PTL DEF Spec, RefinesAppliedPrefix, Prefix!Spec
================================================================================
