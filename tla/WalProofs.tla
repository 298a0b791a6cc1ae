------------------------------- MODULE WalProofs -------------------------------
(***************************************************************************)
(* Proofs about Wal for every segment size, every number of entries, restarts    *)
(* and faults, and every fromLSN and minLSN.                                  *)
(***************************************************************************)
EXTENDS Wal, OrderFacts

--------------------------------------------------------------------------------
(* Facts about the operators.                                               *)

\* The values of a sequence at finitely many places are finitely many.
LEMMA FiniteValues ==
    ASSUME NEW f \in Seq(Nat), NEW P, P \subseteq 1..Len(f)
    PROVE  IsFiniteSet({f[i] : i \in P}) /\ {f[i] : i \in P} \subseteq Nat
<1> DEFINE V == {f[i] : i \in P}
<1> DEFINE h == [i \in P |-> f[i]]
<1>1. Len(f) \in Nat /\ \A i \in 1..Len(f) : f[i] \in Nat OBVIOUS
<1>2. IsFiniteSet(1..Len(f)) BY <1>1, FS_Interval
<1>3. IsFiniteSet(P) BY <1>2, FS_Subset
<1>4. h \in Surjection(P, V) BY DEF Surjection
<1>5. IsFiniteSet(V) BY <1>3, <1>4, FS_Surjection
<1>6. QED BY <1>1, <1>5

\* MaxOf finds an upper bound that is 0 or in the set.
LEMMA MaxOfBounds ==
    ASSUME NEW S, S \subseteq Nat, IsFiniteSet(S)
    PROVE  /\ MaxOf(S) \in Nat /\ MaxOf(S) \in S \cup {0}
           /\ \A n \in S : n <= MaxOf(S)
<1>1. \E m \in S \cup {0} : \A n \in S : n <= m
  <2>1. CASE S = {} BY <2>1
  <2>2. CASE S # {} BY <2>2, FiniteMax DEF HasMax
  <2>3. QED BY <2>1, <2>2
<1>2. MaxOf(S) \in S \cup {0} /\ \A n \in S : n <= MaxOf(S) BY <1>1 DEF MaxOf
<1>3. S \cup {0} \subseteq Nat OBVIOUS
<1>4. MaxOf(S) \in Nat BY <1>2, <1>3
<1>5. QED BY <1>2, <1>4

\* The scan of a segment finds an LSN no entry it can parse exceeds.
LEMMA ScanBounds ==
    ASSUME NEW n \in SegNs, files[n] \in Seq(Nat)
    PROVE  /\ scanSegmentForLastLSN(n) \in Nat
           /\ \A i \in Parsable(files[n]) : files[n][i] <= scanSegmentForLastLSN(n)
<1> DEFINE V == {files[n][i] : i \in Parsable(files[n])}
<1>1. Parsable(files[n]) \subseteq 1..Len(files[n]) BY DEF Parsable
<1>2. IsFiniteSet(V) /\ V \subseteq Nat BY <1>1, FiniteValues
<1>3. MaxOf(V) \in Nat /\ \A v \in V : v <= MaxOf(V) BY <1>2, MaxOfBounds
<1>4. QED BY <1>3 DEF scanSegmentForLastLSN

\* The directory listing is the segments in increasing order.
LEMMA ListIsSorted ==
    ASSUME listed \subseteq Nat, IsFiniteSet(listed)
    PROVE  /\ listSegments \in Seq(listed)
           /\ Len(listSegments) = Cardinality(listed)
           /\ Increasing(listSegments, Len(listSegments))
           /\ \A n \in listed : \E i \in 1..Len(listSegments) : listSegments[i] = n
<1> DEFINE c == Cardinality(listed)
<1>1. c \in Nat BY FS_CardinalityType
<1>2. PICK f \in [1..c -> listed] : Increasing(f, c) BY SortedExists
<1>3. f \in SetToSeqs(listed)
  <2>1. \A i, j \in 1..c : i # j => f[i] # f[j]
    <3> TAKE i, j \in 1..c
    <3>1. f[i] \in Nat /\ f[j] \in Nat BY <1>2
    <3>2. i < j => f[i] < f[j] BY <1>2 DEF Increasing
    <3>3. j < i => f[j] < f[i] BY <1>2 DEF Increasing
    <3>4. QED BY <1>1, <3>1, <3>2, <3>3
  <2>2. QED BY <2>1 DEF SetToSeqs
<1>4. DOMAIN f = 1..c BY <1>2
<1>5. \E s \in SetToSeqs(listed) : \A i, j \in DOMAIN s : i < j => s[i] < s[j]
  BY <1>2, <1>3, <1>4 DEF Increasing
<1>6. /\ listSegments \in SetToSeqs(listed)
      /\ \A i, j \in DOMAIN listSegments : i < j => listSegments[i] < listSegments[j]
  BY <1>5 DEF listSegments
<1> DEFINE s == listSegments
<1> HIDE DEF s
<1>7. s \in [1..c -> listed] /\ \A i, j \in 1..c : i # j => s[i] # s[j]
  BY <1>6 DEF SetToSeqs, s
<1>8. s \in Seq(listed) /\ Len(s) = c BY <1>1, <1>7
<1>9. Increasing(s, c) BY <1>6, <1>7 DEF Increasing, s
<1>10. ASSUME NEW n \in listed PROVE \E i \in 1..c : s[i] = n
  <2>1. s \in Injection(1..c, listed) BY <1>7 DEF Injection, IsInjective
  <2>2. IsFiniteSet(1..c) /\ Cardinality(1..c) = c BY <1>1, FS_Interval
  <2>3. s \in Surjection(1..c, listed) BY <2>1, <2>2, FS_Injection
  <2>4. QED BY <2>3 DEF Surjection
<1>11. QED BY <1>8, <1>9, <1>10 DEF s

--------------------------------------------------------------------------------
(* The files and the group commit.                                          *)

\* Values of the variables, the reader's aside.
TypeOK ==
    /\ SegNs \subseteq Nat /\ files \in [SegNs -> Seq(Nat)] /\ synced \in [SegNs -> Nat]
    /\ listed \subseteq SegNs /\ IsFiniteSet(listed)
    /\ running \in BOOLEAN /\ segOpen \in BOOLEAN /\ closed \in BOOLEAN
    /\ currentSegN \in Nat /\ currentSize \in Nat /\ nextLSN \in Nat \ {0}
    /\ dirty \in BOOLEAN /\ stopCh \in BOOLEAN
    /\ syncPc \in {"select", "grab", "fsync", "exited"}
    /\ syncSeg \in Nat /\ syncLen \in Nat
    /\ restarts \in Nat /\ faults \in Nat /\ pruneMark \in Nat

\* The active segment is the last one, a process that is down has left only the
\* files of the directory, and the open file is the active segment's.
Placed ==
    /\ running => \A n \in SegNs : n <= currentSegN
    /\ ~running => SegNs = listed
    /\ segOpen => running /\ ~closed /\ currentSegN \in listed

\* The fsync under way covers entry i of segment n.
Covered(n, i) ==
    /\ syncPc = "fsync"
    /\ n = syncSeg /\ n = currentSegN /\ segOpen /\ i <= syncLen

\* GroupCommit in inductive form: with the flag clear, what is not yet synced is
\* what the goroutine, once it is past the flag, is going to sync.
Committing ==
    running /\ ~closed /\ ~dirty /\ syncPc # "grab" =>
        \A n \in listed : \A i \in 1..Len(files[n]) :
            EntryAt(n, i) => i <= synced[n] \/ Covered(n, i)

DiskInv == TypeOK /\ Placed /\ SealedDurable /\ Committing

\* A log that was never opened has no files.
LEMMA InitDisk == Init => DiskInv
<1> SUFFICES ASSUME Init PROVE DiskInv
    OBVIOUS
<1>1. SegNs = {} BY DEF Init, SegNs
<1>2. TypeOK
  <2>1. files \in [SegNs -> Seq(Nat)] /\ synced \in [SegNs -> Nat] BY <1>1 DEF Init
  <2>2. IsFiniteSet(listed) /\ listed \subseteq SegNs BY FS_EmptySet DEF Init
  <2>3. /\ running \in BOOLEAN /\ segOpen \in BOOLEAN /\ closed \in BOOLEAN
        /\ dirty \in BOOLEAN /\ stopCh \in BOOLEAN
        /\ syncPc \in {"select", "grab", "fsync", "exited"}
    BY Zenon DEF Init
  <2>4. /\ currentSegN \in Nat /\ currentSize \in Nat /\ nextLSN \in Nat \ {0}
        /\ syncSeg \in Nat /\ syncLen \in Nat
        /\ restarts \in Nat /\ faults \in Nat /\ pruneMark \in Nat
    BY DEF Init
  <2>5. SegNs \subseteq Nat BY <1>1
  <2>6. QED BY <2>1, <2>2, <2>3, <2>4, <2>5 DEF TypeOK
<1>3. Placed BY <1>1 DEF Init, Placed
<1>4. SealedDurable /\ Committing BY DEF Init, SealedDurable, Committing
<1>5. QED BY <1>2, <1>3, <1>4 DEF DiskInv

\* The steps of the reader, and of anybody else who touches neither disk nor log.
LEMMA ReaderKeepsDisk ==
    ASSUME DiskInv, UNCHANGED <<diskVars, walVars, syncVars, envVars>>
    PROVE  DiskInv'
BY DEF DiskInv, TypeOK, Placed, SealedDurable, Committing, Covered, EntryAt, SegNs,
       diskVars, walVars, syncVars, envVars

\* OpenWAL finds files in which every entry is durable.
LEMMA OpenKeepsDisk == ASSUME DiskInv, OpenWAL PROVE DiskInv'
<1> DEFINE segs == listSegments
<1> DEFINE n == IF segs = << >> THEN 0 ELSE Last(segs)
<1>1. listed \subseteq Nat /\ IsFiniteSet(listed) /\ SegNs = listed /\ ~running /\ ~segOpen
  BY DEF DiskInv, TypeOK, Placed, OpenWAL
<1>2. /\ segs \in Seq(listed) /\ Len(segs) = Cardinality(listed)
      /\ Increasing(segs, Len(segs))
      /\ \A m \in listed : \E i \in 1..Len(segs) : segs[i] = m
  BY <1>1, ListIsSorted
<1> HIDE DEF segs
<1>3. CASE segs = << >>
  <2>1. listed = {} /\ n = 0 BY <1>2, <1>3
  <2>2. files' = Put(files, 0, << >>) /\ synced' = Put(synced, 0, 0) /\ listed' = {0}
    BY <1>1, <2>1, <1>3 DEF OpenWAL, segs, SegNs
  <2>3. SegNs' = {0} /\ files'[0] = << >> /\ synced'[0] = 0
    BY <1>1, <2>1, <2>2 DEF Put, SegNs
  <2>4. currentSegN' = 0 /\ nextLSN' = 1 /\ currentSize' = 0
    BY <1>3, <2>1, <2>3 DEF OpenWAL, segs, RecoverNextLSN
  <2>5. TypeOK'
    <3>1. files' \in [SegNs' -> Seq(Nat)] /\ synced' \in [SegNs' -> Nat]
      BY <1>1, <2>1, <2>2, <2>3 DEF Put, SegNs
    <3>2. IsFiniteSet(listed') BY <2>2, FS_Singleton
    <3>3. QED BY <2>2, <2>3, <2>4, <3>1, <3>2 DEF OpenWAL, DiskInv, TypeOK, envVars
  <2>6. Placed' BY <2>2, <2>3, <2>4 DEF OpenWAL, Placed
  <2>7. SealedDurable' /\ Committing' BY <2>2, <2>3 DEF SealedDurable, Committing, EntryAt
  <2>8. QED BY <2>5, <2>6, <2>7 DEF DiskInv
<1>4. CASE segs # << >>
  <2>1. Len(segs) \in Nat \ {0} /\ n = segs[Len(segs)] BY <1>2, <1>4 DEF Last
  <2>2. n \in listed /\ \A m \in listed : m <= n
    <3>1. n \in listed BY <1>2, <2>1
    <3>2. ASSUME NEW m \in listed PROVE m <= n
      <4>1. PICK i \in 1..Len(segs) : segs[i] = m BY <1>2
      <4>2. m \in Nat /\ n \in Nat BY <1>1, <3>1
      <4>3. CASE i = Len(segs) BY <2>1, <4>1, <4>2, <4>3
      <4>4. CASE i # Len(segs)
        <5>1. i < Len(segs) /\ Len(segs) \in 1..Len(segs) BY <2>1, <4>4
        <5>2. segs[i] < segs[Len(segs)] BY <1>2, <5>1 DEF Increasing
        <5>3. QED BY <2>1, <4>1, <4>2, <5>2
      <4>5. QED BY <4>3, <4>4
    <3>3. QED BY <3>1, <3>2
  <2>3. n \in SegNs /\ files' = files /\ synced' = synced /\ listed' = listed
    BY <1>1, <2>2, <1>4 DEF OpenWAL, segs, SegNs
  <2>4. currentSegN' = n /\ nextLSN' = scanSegmentForLastLSN(n) + 1 /\ currentSize' = Len(files[n])
    BY <1>4, <2>3 DEF OpenWAL, segs, RecoverNextLSN
  <2>5. files[n] \in Seq(Nat) BY <2>3 DEF DiskInv, TypeOK
  <2>6. scanSegmentForLastLSN(n) \in Nat BY <2>3, <2>5, ScanBounds
  <2>7. nextLSN' \in Nat \ {0} /\ currentSize' \in Nat /\ currentSegN' \in Nat
    BY <1>1, <2>2, <2>4, <2>5, <2>6
  <2>8. TypeOK' BY <2>3, <2>7 DEF OpenWAL, DiskInv, TypeOK, envVars, SegNs
  <2>9. Placed' BY <1>1, <2>2, <2>3, <2>4 DEF OpenWAL, Placed, SegNs
  <2>10. \A m \in listed : \A i \in 1..Len(files[m]) : EntryAt(m, i) => i <= synced[m]
    BY <1>1 DEF DiskInv, TypeOK, SealedDurable
  <2>11. SealedDurable' /\ Committing'
    BY <1>1, <2>3, <2>10 DEF DiskInv, TypeOK, SealedDurable, Committing, EntryAt
  <2>12. QED BY <2>8, <2>9, <2>11 DEF DiskInv
<1>5. QED BY <1>3, <1>4

\* An append leaves unsynced entries only in the segment it wrote to, and a rotation
\* none at all.
LEMMA AppendKeepsDisk == ASSUME DiskInv, AppendOK PROVE DiskInv'
<1> DEFINE c == currentSegN
<1> DEFINE f == Append(files[c], nextLSN)
<1>1. /\ c \in Nat /\ c \in listed /\ c \in SegNs /\ segOpen /\ running /\ ~closed
      /\ files[c] \in Seq(Nat) /\ nextLSN \in Nat \ {0}
  BY DEF DiskInv, TypeOK, Placed, AppendOK
<1>2. f \in Seq(Nat) /\ Len(f) \in Nat BY <1>1
<1>3. /\ running' = running /\ closed' = closed /\ dirty' = TRUE /\ stopCh' = stopCh
      /\ syncPc' = syncPc /\ syncSeg' = syncSeg /\ syncLen' = syncLen
      /\ restarts' = restarts /\ pruneMark' = pruneMark /\ nextLSN' \in Nat \ {0}
  BY <1>1 DEF AppendOK
<1>4. Committing' BY <1>3 DEF Committing
<1>5. \A n \in listed : n # c => \A i \in 1..Len(files[n]) : EntryAt(n, i) => i <= synced[n]
  BY DEF DiskInv, TypeOK, SealedDurable
<1>6. CASE Rotated(f)
  <2>1. /\ SegNs' = SegNs \cup {c + 1} /\ DOMAIN synced' = SegNs \cup {c + 1}
        /\ files'[c] = f /\ files'[c + 1] = << >>
        /\ synced'[c] = Len(f) /\ synced'[c + 1] = 0
        /\ \A n \in SegNs \ {c, c + 1} : files'[n] = files[n] /\ synced'[n] = synced[n]
    BY <1>1, <1>6 DEF Rotated, Put, SegNs, DiskInv, TypeOK
  <2>2. listed' = listed \cup {c + 1} /\ currentSegN' = c + 1 /\ currentSize' = 0
        /\ segOpen' = segOpen /\ faults' = faults
    BY <1>6 DEF Rotated
  <2>3. files' \in [SegNs' -> Seq(Nat)] /\ synced' \in [SegNs' -> Nat]
    <3>1. ASSUME NEW n \in SegNs' PROVE files'[n] \in Seq(Nat) /\ synced'[n] \in Nat
      <4>1. CASE n = c BY <1>2, <2>1, <4>1
      <4>2. CASE n = c + 1
        <5>1. << >> \in Seq(Nat) OBVIOUS
        <5>2. files'[n] = << >> /\ synced'[n] = 0 BY <2>1, <4>2
        <5>3. QED BY <5>1, <5>2
      <4>3. CASE n \notin {c, c + 1} BY <2>1, <3>1, <4>3 DEF DiskInv, TypeOK
      <4>4. QED BY <4>1, <4>2, <4>3
    <3>2. files' = [n \in SegNs' |-> files'[n]] /\ synced' = [n \in SegNs' |-> synced'[n]]
      BY <1>6, <2>1 DEF Rotated, Put, SegNs
    <3>3. QED BY <3>1, <3>2
  <2>4. IsFiniteSet(listed') BY <2>2, FS_AddElement DEF DiskInv, TypeOK
  <2>5. TypeOK' BY <1>1, <1>3, <2>1, <2>2, <2>3, <2>4 DEF DiskInv, TypeOK
  <2>6. \A n \in SegNs : n \in Nat /\ n <= c BY <1>1 DEF DiskInv, TypeOK, Placed
  <2>7. Placed' BY <1>1, <1>3, <2>1, <2>2, <2>6 DEF Placed
  <2>8. ASSUME NEW n \in listed', NEW i \in 1..Len(files'[n]), files'[n][i] # Torn
        PROVE  i <= synced'[n]
    <3>1. CASE n = c BY <1>2, <2>1, <2>8, <3>1
    <3>2. CASE n = c + 1 BY <2>1, <2>8, <3>2
    <3>3. CASE n \notin {c, c + 1}
      <4>1. n \in listed /\ n \in SegNs \ {c, c + 1} BY <2>2, <3>3 DEF DiskInv, TypeOK
      <4>2. EntryAt(n, i) BY <2>1, <2>8, <4>1 DEF EntryAt
      <4>3. QED BY <1>5, <2>1, <2>8, <4>1, <4>2
    <3>4. QED BY <3>1, <3>2, <3>3
  <2>9. \A n \in listed' : synced'[n] \in Nat BY <2>5 DEF TypeOK
  <2>10. SealedDurable' BY <2>8, <2>9 DEF SealedDurable, EntryAt
  <2>11. QED BY <1>4, <2>5, <2>7, <2>10 DEF DiskInv
<1>7. CASE RotateFailed(f)
  <2>1. /\ files' = [files EXCEPT ![c] = f] /\ synced' = [synced EXCEPT ![c] = Len(f)]
        /\ listed' = listed /\ currentSegN' = c + 1 /\ currentSize' = 0 /\ segOpen' = FALSE
        /\ faults' = faults + 1
    BY <1>7 DEF RotateFailed
  <2>2. SegNs' = SegNs BY <2>1 DEF SegNs
  <2>3. TypeOK'
    <3>1. files' \in [SegNs' -> Seq(Nat)] /\ synced' \in [SegNs' -> Nat]
      BY <1>1, <1>2, <2>1, <2>2 DEF DiskInv, TypeOK
    <3>2. /\ running' \in BOOLEAN /\ segOpen' \in BOOLEAN /\ closed' \in BOOLEAN
          /\ dirty' \in BOOLEAN /\ stopCh' \in BOOLEAN
      BY <1>3, <2>1 DEF DiskInv, TypeOK
    <3>3. currentSegN' \in Nat /\ currentSize' \in Nat /\ faults' \in Nat
      BY <1>1, <2>1 DEF DiskInv, TypeOK
    <3>4. QED BY <1>3, <2>1, <2>2, <3>1, <3>2, <3>3 DEF DiskInv, TypeOK
  <2>4. \A n \in SegNs : n \in Nat /\ n <= c BY <1>1 DEF DiskInv, TypeOK, Placed
  <2>5. Placed' BY <1>1, <1>3, <2>1, <2>2, <2>4 DEF Placed
  <2>6. ASSUME NEW n \in listed, NEW i \in 1..Len(files'[n]), files'[n][i] # Torn
        PROVE  i <= synced'[n]
    <3>1. CASE n = c BY <1>1, <1>2, <2>1, <2>6, <3>1 DEF DiskInv, TypeOK
    <3>2. CASE n # c BY <1>5, <2>1, <2>6, <3>2 DEF DiskInv, TypeOK, EntryAt
    <3>3. QED BY <3>1, <3>2
  <2>7. \A n \in listed' : synced'[n] \in Nat BY <2>3 DEF TypeOK
  <2>8. SealedDurable' BY <2>1, <2>6, <2>7 DEF SealedDurable, EntryAt
  <2>9. QED BY <1>4, <2>3, <2>5, <2>8 DEF DiskInv
<1>8. ASSUME files' = [files EXCEPT ![c] = f], currentSize' = currentSize + 1,
             faults' \in Nat, UNCHANGED <<listed, synced, currentSegN, segOpen>>
      PROVE  DiskInv'
  <2>1. SegNs' = SegNs BY <1>8 DEF SegNs
  <2>2. TypeOK' BY <1>1, <1>2, <1>3, <1>8, <2>1 DEF DiskInv, TypeOK
  <2>3. Placed' BY <1>1, <1>3, <1>8, <2>1 DEF DiskInv, Placed
  <2>4. ASSUME NEW n \in listed, n # c PROVE files'[n] = files[n]
    BY <1>8, <2>4 DEF DiskInv, TypeOK
  <2>5. SealedDurable' BY <1>1, <1>5, <1>8, <2>4 DEF SealedDurable, EntryAt, DiskInv, TypeOK
  <2>6. QED BY <1>4, <2>2, <2>3, <2>5 DEF DiskInv
<1>9. faults \in Nat BY DEF DiskInv, TypeOK
<1>10. CASE RotateSyncFailed(f)
  BY <1>8, <1>9, <1>10 DEF RotateSyncFailed
<1>11. QED
  <2>1. \/ Rotated(f) \/ RotateFailed(f) \/ RotateSyncFailed(f)
        \/ /\ files' = [files EXCEPT ![c] = f] /\ currentSize' = currentSize + 1
           /\ UNCHANGED <<listed, synced, currentSegN, segOpen, faults>>
    BY DEF AppendOK, AppendFrame
  <2>2. QED BY <1>6, <1>7, <1>8, <1>9, <1>10, <2>1

\* A failed write leaves no entry behind.
LEMMA AppendErrorKeepsDisk == ASSUME DiskInv, AppendError PROVE DiskInv'
<1> DEFINE c == currentSegN
<1>1. /\ UNCHANGED <<listed, synced, running, currentSegN, currentSize, segOpen, closed,
                     dirty, stopCh, syncPc, syncSeg, syncLen, restarts, pruneMark>>
      /\ nextLSN' \in Nat \ {0} /\ faults' \in Nat
  BY DEF AppendError, syncVars, DiskInv, TypeOK
<1>2. CASE files' = files
  <2>1. SegNs' = SegNs BY <1>2 DEF SegNs
  <2>2. QED BY <1>1, <1>2, <2>1
        DEF DiskInv, TypeOK, Placed, SealedDurable, Committing, Covered, EntryAt
<1>3. CASE segOpen /\ files' = [files EXCEPT ![c] = Append(@, Torn)]
  <2>1. SegNs' = SegNs BY <1>3 DEF SegNs
  <2>2. c \in listed /\ c \in SegNs /\ files[c] \in Seq(Nat) BY <1>3 DEF DiskInv, TypeOK, Placed
  <2>3. Append(files[c], Torn) \in Seq(Nat) BY <2>2 DEF Torn
  <2>4. TypeOK' BY <1>1, <1>3, <2>1, <2>2, <2>3 DEF DiskInv, TypeOK
  <2>5. Placed' BY <1>1, <2>1 DEF DiskInv, Placed
  <2>6. ASSUME NEW n \in listed, NEW i, EntryAt(n, i)' PROVE EntryAt(n, i)
    <3>1. CASE n # c BY <1>3, <2>6, <3>1 DEF EntryAt, DiskInv, TypeOK
    <3>2. CASE n = c BY <1>3, <2>2, <2>6, <3>2 DEF EntryAt, DiskInv, TypeOK
    <3>3. QED BY <3>1, <3>2
  <2>7. SealedDurable'
    BY <1>1, <2>6 DEF DiskInv, SealedDurable, EntryAt
  <2>8. Committing'
    BY <1>1, <2>6 DEF DiskInv, Committing, Covered, EntryAt
  <2>9. QED BY <2>4, <2>5, <2>7, <2>8 DEF DiskInv
<1>4. QED BY <1>2, <1>3 DEF AppendError

\* FinalSync syncs the active segment, which is all that may be unsynced.
LEMMA FinalSyncFacts ==
    ASSUME DiskInv
    PROVE  /\ FinalSync \in [SegNs -> Nat]
           /\ \A n \in listed : \A i \in 1..Len(files[n]) : EntryAt(n, i) => i <= FinalSync[n]
<1> DEFINE c == currentSegN
<1>1. \A n \in listed : n \in SegNs /\ files[n] \in Seq(Nat) /\ synced[n] \in Nat
  BY DEF DiskInv, TypeOK
<1>2. CASE segOpen
  <2>1. c \in listed /\ FinalSync = [synced EXCEPT ![c] = Len(files[c])]
    BY <1>2 DEF DiskInv, Placed, FinalSync
  <2>2. FinalSync \in [SegNs -> Nat] BY <1>1, <2>1 DEF DiskInv, TypeOK
  <2>3. ASSUME NEW n \in listed, NEW i \in 1..Len(files[n]), EntryAt(n, i)
        PROVE  i <= FinalSync[n]
    <3>1. CASE n = c BY <1>1, <2>1, <3>1 DEF DiskInv, TypeOK
    <3>2. CASE n # c BY <1>1, <2>1, <2>3, <3>2 DEF DiskInv, TypeOK, SealedDurable
    <3>3. QED BY <3>1, <3>2
  <2>4. QED BY <2>2, <2>3
<1>3. CASE ~segOpen BY <1>1, <1>3 DEF FinalSync, DiskInv, TypeOK, SealedDurable
<1>4. QED BY <1>2, <1>3

\* The goroutine: the flag is cleared before the segment is looked up.
LEMMA SyncKeepsDisk == ASSUME DiskInv, SyncLoop \/ CloseBegin PROVE DiskInv'
<1> USE DEF diskVars, walVars, envVars, syncVars
<1>1. CASE CloseBegin
  <2>1. SegNs' = SegNs BY <1>1 DEF CloseBegin, SegNs
  <2>2. QED BY <1>1, <2>1 DEF CloseBegin, DiskInv, TypeOK, Placed, SealedDurable, Committing,
                              Covered, EntryAt
<1>2. CASE SyncTick
  <2>1. SegNs' = SegNs BY <1>2 DEF SyncTick, SegNs
  <2>2. TypeOK' /\ Placed' BY <1>2, <2>1 DEF SyncTick, DiskInv, TypeOK, Placed
  <2>3. SealedDurable' BY <1>2 DEF SyncTick, DiskInv, SealedDurable, EntryAt
  <2>4. Committing' BY <1>2 DEF SyncTick, Committing
  <2>5. QED BY <2>2, <2>3, <2>4 DEF DiskInv
<1>3. CASE SyncGrab
  <2>1. SegNs' = SegNs BY <1>3 DEF SyncGrab, SegNs
  <2>2. syncLen' \in Nat /\ syncSeg' \in Nat /\ syncPc' \in {"select", "fsync"}
    <3>1. segOpen => files[currentSegN] \in Seq(Nat) BY DEF DiskInv, TypeOK, Placed
    <3>2. syncLen' \in Nat BY <1>3, <3>1 DEF SyncGrab
    <3>3. QED BY <1>3, <3>2 DEF SyncGrab, DiskInv, TypeOK
  <2>3. TypeOK' BY <1>3, <2>1, <2>2 DEF SyncGrab, DiskInv, TypeOK
  <2>4. Placed' BY <1>3, <2>1 DEF SyncGrab, DiskInv, Placed
  <2>5. SealedDurable' BY <1>3 DEF SyncGrab, DiskInv, SealedDurable, EntryAt
  <2>6. ASSUME ~closed, NEW n \in listed, NEW i \in 1..Len(files[n]), EntryAt(n, i)
        PROVE  i <= synced[n] \/ Covered(n, i)'
    <3>1. CASE i <= synced[n] BY <3>1
    <3>2. CASE i > synced[n]
      <4>1. n = currentSegN /\ segOpen BY <2>6, <3>2 DEF DiskInv, SealedDurable
      <4>2. syncPc' = "fsync" /\ syncSeg' = n /\ syncLen' = Len(files[n])
        BY <1>3, <2>6, <4>1 DEF SyncGrab
      <4>3. i <= syncLen' /\ currentSegN' = currentSegN /\ segOpen'
        BY <1>3, <4>1, <4>2 DEF SyncGrab
      <4>4. QED BY <4>1, <4>2, <4>3 DEF Covered
    <3>3. synced[n] \in Nat BY DEF DiskInv, TypeOK
    <3>4. QED BY <3>1, <3>2, <3>3
  <2>7. UNCHANGED <<closed, listed, files, synced>> BY <1>3 DEF SyncGrab
  <2>8. Committing' BY <2>6, <2>7 DEF Committing, EntryAt
  <2>9. QED BY <2>3, <2>4, <2>5, <2>8 DEF DiskInv
<1>4. CASE SyncFsync
  <2> DEFINE hit == syncSeg = currentSegN /\ segOpen
  <2>1. SegNs' = SegNs BY <1>4 DEF SyncFsync, SegNs
  <2>2. hit => syncSeg \in listed BY DEF DiskInv, Placed
  <2>3. /\ synced' \in [SegNs -> Nat]
        /\ \A n \in listed : synced[n] <= synced'[n]
        /\ hit => syncLen <= synced'[syncSeg]
    <3>1. CASE hit
      <4>1. synced' = [synced EXCEPT ![syncSeg] = IF synced[syncSeg] < syncLen THEN syncLen ELSE synced[syncSeg]]
        BY <1>4, <3>1 DEF SyncFsync
      <4>2. QED BY <2>2, <3>1, <4>1 DEF DiskInv, TypeOK
    <3>2. CASE ~hit
      <4>1. synced' = synced BY <1>4, <3>2 DEF SyncFsync
      <4>2. QED BY <3>2, <4>1 DEF DiskInv, TypeOK
    <3>3. QED BY <3>1, <3>2
  <2>4. UNCHANGED <<files, listed, running, currentSegN, currentSize, nextLSN, segOpen, closed,
                    dirty, stopCh, syncSeg, syncLen, restarts, faults, pruneMark>>
        /\ syncPc' = "select" /\ syncPc = "fsync"
    BY <1>4 DEF SyncFsync
  <2>5. TypeOK' BY <2>1, <2>3, <2>4 DEF DiskInv, TypeOK
  <2>6. Placed' BY <2>1, <2>4 DEF DiskInv, Placed
  <2>7. ASSUME NEW n \in listed PROVE synced[n] \in Nat /\ synced'[n] \in Nat /\ synced[n] <= synced'[n]
    BY <2>3 DEF DiskInv, TypeOK
  <2>8. SealedDurable'
    <3>1. SUFFICES ASSUME NEW n \in listed, NEW i \in 1..Len(files[n]), EntryAt(n, i), i > synced'[n]
                   PROVE  n = currentSegN /\ segOpen
      BY <2>4 DEF SealedDurable, EntryAt
    <3>2. i > synced[n] BY <2>7, <3>1
    <3>3. QED BY <3>1, <3>2 DEF DiskInv, SealedDurable
  <2>9. Committing'
    <3>1. SUFFICES ASSUME running, ~closed, ~dirty, NEW n \in listed, NEW i \in 1..Len(files[n]),
                          EntryAt(n, i)
                   PROVE  i <= synced'[n]
      BY <2>4 DEF Committing, EntryAt
    <3>2. i <= synced[n] \/ Covered(n, i) BY <2>4, <3>1 DEF DiskInv, Committing
    <3>3. CASE i <= synced[n] BY <2>7, <3>3
    <3>4. CASE Covered(n, i)
      <4>1. n = syncSeg /\ hit /\ i <= syncLen BY <3>4 DEF Covered
      <4>2. syncLen \in Nat BY DEF DiskInv, TypeOK
      <4>3. QED BY <2>3, <2>7, <4>1, <4>2
    <3>5. QED BY <3>2, <3>3, <3>4
  <2>10. QED BY <2>5, <2>6, <2>8, <2>9 DEF DiskInv
<1>5. CASE SyncStop
  <2>1. SegNs' = SegNs BY <1>5 DEF SyncStop, SegNs
  <2>2. UNCHANGED <<files, listed, running, currentSegN, currentSize, nextLSN, segOpen, closed,
                    stopCh, syncSeg, syncLen, restarts, faults, pruneMark>>
        /\ syncPc' = "exited" /\ syncPc = "select"
    BY <1>5 DEF SyncStop
  <2>3. CASE dirty /\ ~closed
    <3>1. synced' = FinalSync /\ dirty' = FALSE BY <1>5, <2>3 DEF SyncStop
    <3>2. TypeOK' BY <2>1, <2>2, <3>1, FinalSyncFacts DEF DiskInv, TypeOK
    <3>3. Placed' BY <2>1, <2>2 DEF DiskInv, Placed
    <3>4. \A n \in listed : \A i \in 1..Len(files[n]) : EntryAt(n, i)' => i <= synced'[n]
      BY <2>2, <3>1, FinalSyncFacts DEF EntryAt
    <3>5. \A n \in listed : synced'[n] \in Nat BY <2>1, <3>2, <2>2 DEF TypeOK
    <3>6. SealedDurable' /\ Committing' BY <2>2, <3>4, <3>5 DEF SealedDurable, Committing, EntryAt
    <3>7. QED BY <3>2, <3>3, <3>6 DEF DiskInv
  <2>4. CASE ~(dirty /\ ~closed)
    <3>1. synced' = synced /\ dirty' = dirty BY <1>5, <2>4 DEF SyncStop
    <3>2. TypeOK' /\ Placed' BY <2>1, <2>2, <3>1 DEF DiskInv, TypeOK, Placed
    <3>3. SealedDurable' BY <2>2, <3>1 DEF DiskInv, SealedDurable, EntryAt
    <3>4. Committing' BY <2>2, <3>1 DEF DiskInv, Committing, EntryAt, Covered
    <3>5. QED BY <3>2, <3>3, <3>4 DEF DiskInv
  <2>5. QED BY <2>3, <2>4
<1>6. QED BY <1>1, <1>2, <1>3, <1>4, <1>5 DEF SyncLoop

\* Close: nothing is left unsynced.
LEMMA CloseKeepsDisk == ASSUME DiskInv, CloseEnd PROVE DiskInv'
<1>1. SegNs' = SegNs BY DEF CloseEnd, SegNs
<1>2. UNCHANGED <<files, listed, running, currentSegN, currentSize, nextLSN, dirty, stopCh,
                  syncPc, syncSeg, syncLen, restarts, faults, pruneMark>>
      /\ closed' = TRUE /\ segOpen' = FALSE /\ synced' = FinalSync
  BY DEF CloseEnd, syncVars, envVars
<1>3. TypeOK' BY <1>1, <1>2, FinalSyncFacts DEF DiskInv, TypeOK
<1>4. Placed' BY <1>1, <1>2 DEF DiskInv, Placed
<1>5. \A n \in listed : \A i \in 1..Len(files[n]) : EntryAt(n, i)' => i <= synced'[n]
  BY <1>2, FinalSyncFacts DEF EntryAt
<1>6. \A n \in listed : synced'[n] \in Nat BY <1>1, <1>2, <1>3 DEF TypeOK
<1>7. SealedDurable' BY <1>2, <1>5, <1>6 DEF SealedDurable, EntryAt
<1>8. Committing' BY <1>2 DEF Committing
<1>9. QED BY <1>3, <1>4, <1>7, <1>8 DEF DiskInv

\* A prune takes names out of the directory and never the active segment's.
LEMMA PruneKeepsDisk ==
    ASSUME DiskInv, NEW m \in PruneLSNs, PruneSegmentsBefore(m) PROVE DiskInv'
<1> USE DEF walVars, syncVars
<1>1. SegNs' = SegNs BY DEF PruneSegmentsBefore, SegNs
<1>2. UNCHANGED <<files, synced, running, currentSegN, currentSize, nextLSN, segOpen, closed,
                  dirty, stopCh, syncPc, syncSeg, syncLen, restarts, faults>>
      /\ listed' = {n \in listed : ~Prunable(n, m)} /\ running
  BY DEF PruneSegmentsBefore
<1>3. pruneMark' \in Nat BY WalAssumption DEF PruneSegmentsBefore, DiskInv, TypeOK
<1>4. listed' \subseteq listed /\ IsFiniteSet(listed') BY <1>2, FS_Subset DEF DiskInv, TypeOK
<1>5. TypeOK' BY <1>1, <1>2, <1>3, <1>4 DEF DiskInv, TypeOK
<1>6. ~Prunable(currentSegN, m) BY DEF Prunable, DiskInv, TypeOK
<1>7. Placed' BY <1>1, <1>2, <1>6 DEF DiskInv, Placed
<1>8. SealedDurable' BY <1>2, <1>4 DEF DiskInv, SealedDurable, EntryAt
<1>9. Committing' BY <1>2, <1>4 DEF DiskInv, Committing, EntryAt, Covered
<1>10. QED BY <1>5, <1>7, <1>8, <1>9 DEF DiskInv

\* What a crash leaves is on disk.
LEMMA CrashKeepsDisk == ASSUME DiskInv, Crash PROVE DiskInv'
<1>1. /\ restarts' \in Nat /\ running' = FALSE /\ segOpen' = FALSE /\ currentSize' = 0
      /\ dirty' = FALSE /\ stopCh' = FALSE /\ syncPc' = "exited" /\ closed' = FALSE
      /\ UNCHANGED <<currentSegN, nextLSN, syncSeg, syncLen, faults, pruneMark>>
  BY DEF Crash, Down, DiskInv, TypeOK
<1>2. PICK cut \in [listed -> 0..MaxOf({Len(files[n]) : n \in listed})],
           torn \in SUBSET listed, gone \in SUBSET listed :
         /\ \A n \in listed : cut[n] \in synced[n]..Len(files[n])
         /\ listed' = listed \ gone
         /\ files' = [n \in listed \ gone |->
                        SubSeq(files[n], 1, cut[n]) \o (IF n \in torn THEN <<Torn>> ELSE << >>)]
         /\ synced' = [n \in listed \ gone |-> Len(files'[n])]
  BY DEF Crash
<1>3. ASSUME NEW n \in listed \ gone PROVE files'[n] \in Seq(Nat) /\ Len(files'[n]) \in Nat
  <2>1. files[n] \in Seq(Nat) /\ synced[n] \in Nat BY DEF DiskInv, TypeOK
  <2>2. cut[n] \in 0..Len(files[n]) BY <1>2, <2>1
  <2>3. SubSeq(files[n], 1, cut[n]) \in Seq(Nat) BY <2>1, <2>2
  <2>4. (IF n \in torn THEN <<Torn>> ELSE << >>) \in Seq(Nat)
    <3>1. <<Torn>> \in Seq(Nat) BY DEF Torn
    <3>2. << >> \in Seq(Nat) OBVIOUS
    <3>3. QED BY <3>1, <3>2
  <2>5. SubSeq(files[n], 1, cut[n]) \o (IF n \in torn THEN <<Torn>> ELSE << >>) \in Seq(Nat)
    BY <2>3, <2>4
  <2>6. files'[n] \in Seq(Nat) BY <1>2, <2>5
  <2>7. QED BY <2>6
<1>4. SegNs' = listed \ gone BY <1>2 DEF SegNs
<1>5. files' \in [SegNs' -> Seq(Nat)] /\ synced' \in [SegNs' -> Nat] BY <1>2, <1>3, <1>4
<1>6. IsFiniteSet(listed') /\ SegNs' \subseteq Nat BY <1>2, <1>4, FS_Subset DEF DiskInv, TypeOK
<1>7. TypeOK' BY <1>1, <1>2, <1>4, <1>5, <1>6 DEF DiskInv, TypeOK
<1>8. Placed' BY <1>1, <1>2, <1>4 DEF Placed
<1>9. Committing' BY <1>1 DEF Committing
<1>10. \A n \in listed' : synced'[n] = Len(files'[n]) /\ Len(files'[n]) \in Nat BY <1>2, <1>3
<1>11. SealedDurable' BY <1>10 DEF SealedDurable
<1>12. QED BY <1>7, <1>8, <1>9, <1>11 DEF DiskInv

\* A clean exit leaves what Close has synced.
LEMMA ExitKeepsDisk == ASSUME DiskInv, Exit PROVE DiskInv'
<1>1. /\ restarts' \in Nat /\ running' = FALSE /\ segOpen' = FALSE /\ currentSize' = 0
      /\ dirty' = FALSE /\ stopCh' = FALSE /\ syncPc' = "exited"
      /\ UNCHANGED <<currentSegN, nextLSN, syncSeg, syncLen, faults, pruneMark, closed, listed>>
      /\ closed
  BY DEF Exit, Down, DiskInv, TypeOK
<1>2. files' = [n \in listed |-> files[n]] /\ synced' = [n \in listed |-> synced[n]]
  BY DEF Exit
<1>3. SegNs' = listed BY <1>2 DEF SegNs
<1>4. files' \in [SegNs' -> Seq(Nat)] /\ synced' \in [SegNs' -> Nat]
  BY <1>2, <1>3 DEF DiskInv, TypeOK
<1>5. TypeOK' BY <1>1, <1>3, <1>4 DEF DiskInv, TypeOK
<1>6. Placed' BY <1>1, <1>3 DEF Placed
<1>7. Committing' BY <1>1 DEF Committing
<1>8. ~segOpen BY <1>1 DEF DiskInv, Placed
<1>9. SealedDurable' BY <1>1, <1>2, <1>8 DEF DiskInv, SealedDurable, EntryAt
<1>10. QED BY <1>5, <1>6, <1>7, <1>9 DEF DiskInv

\* Every step keeps the invariant.
LEMMA NextDisk == ASSUME DiskInv, [Next]_vars PROVE DiskInv'
<1>1. CASE UNCHANGED vars BY <1>1, ReaderKeepsDisk DEF vars
<1>2. CASE OpenWAL BY <1>2, OpenKeepsDisk
<1>3. CASE AppendOK BY <1>3, AppendKeepsDisk
<1>4. CASE AppendError BY <1>4, AppendErrorKeepsDisk
<1>5. CASE CloseEnd BY <1>5, CloseKeepsDisk
<1>6. CASE SyncLoop \/ CloseBegin BY <1>6, SyncKeepsDisk
<1>7. CASE Pruner BY <1>7, PruneKeepsDisk DEF Pruner
<1>8. CASE Reader
  <2>1. UNCHANGED <<diskVars, walVars, syncVars, envVars>>
    BY <1>8, Zenon DEF Reader, NewReader, ReaderOpen, ReaderFrame, ReaderTorn, ReaderEOF,
                       ReaderList, ReaderClose
  <2>2. QED BY <2>1, ReaderKeepsDisk
<1>9. CASE Crash BY <1>9, CrashKeepsDisk
<1>10. CASE Exit BY <1>10, ExitKeepsDisk
<1>11. QED
  BY <1>1, <1>2, <1>3, <1>4, <1>5, <1>6, <1>7, <1>8, <1>9, <1>10 DEF Next, Writer

\* The inductive invariant of the files and the group commit.
THEOREM DiskInvariance == Spec => []DiskInv
<1>1. DiskInv /\ [Next]_vars => DiskInv' BY NextDisk
<1>2. QED BY InitDisk, <1>1, PTL DEF Spec

\* Type correctness of the log (wal.go, type WAL).
THEOREM TypeCorrect == Spec => []TypeOK
<1>1. DiskInv => TypeOK BY DEF DiskInv
<1>2. QED BY <1>1, DiskInvariance, PTL

\* Rotation (wal.go, rotateSegment) and Close leave no unsynced entry behind: only the
\* open active segment may lose one in a crash.
THEOREM SealedIsDurable == Spec => []SealedDurable
<1>1. DiskInv => SealedDurable BY DEF DiskInv
<1>2. QED BY <1>1, DiskInvariance, PTL

\* Group commit (wal.go, syncLoop): with the flag clear and the goroutine back in its
\* select, every entry in the directory has been synced.
THEOREM GroupCommitHolds == Spec => []GroupCommit
<1>1. DiskInv => GroupCommit
  <2> SUFFICES ASSUME DiskInv, running, ~closed, ~dirty, syncPc \in {"select", "exited"},
                      NEW n \in listed, NEW i \in 1..Len(files[n]), EntryAt(n, i)
               PROVE  i <= synced[n]
    BY DEF GroupCommit
  <2>1. i <= synced[n] \/ Covered(n, i) BY DEF DiskInv, Committing
  <2>2. ~Covered(n, i) BY DEF Covered
  <2>3. QED BY <2>1, <2>2
<1>2. QED BY <1>1, DiskInvariance, PTL

--------------------------------------------------------------------------------
(* Pruning.                                                                 *)

\* The frames of a segment that grows keep their places, and what was parsable
\* stays parsable.
LEMMA ParsableGrows ==
    ASSUME NEW f \in Seq(Nat), NEW x \in Nat, NEW i \in Parsable(f)
    PROVE  i \in Parsable(Append(f, x)) /\ Append(f, x)[i] = f[i]
BY DEF Parsable

\* Outside a restart the only step that takes an entry out of the readable log is a
\* prune, and each entry it takes is below its minLSN.
LEMMA StepKeepsUnacked ==
    ASSUME DiskInv, [Next]_vars, NEW l \in ReadableLSNs, l \notin ReadableLSNs'
    PROVE  restarts' # restarts \/ l < pruneMark'
<1>0. PICK n \in listed : l \in {files[n][i] : i \in Parsable(files[n])} BY DEF ReadableLSNs
<1>1. PICK i \in Parsable(files[n]) : l = files[n][i] BY <1>0
<1>2. n \in SegNs /\ n \in Nat /\ files[n] \in Seq(Nat) BY DEF DiskInv, TypeOK
<1>3. ~(n \in listed' /\ i \in Parsable(files'[n]) /\ files'[n][i] = l)
  BY DEF ReadableLSNs
<1>4. ASSUME listed \subseteq listed', files'[n] = files[n] PROVE FALSE
  BY <1>1, <1>3, <1>4
<1>5. ASSUME listed \subseteq listed', NEW x \in Nat, files'[n] = Append(files[n], x)
      PROVE FALSE
  BY <1>1, <1>2, <1>3, <1>5, ParsableGrows
<1>6. CASE UNCHANGED <<files, listed>> BY <1>4, <1>6
<1>7. CASE OpenWAL
  <2>1. listed \subseteq listed' BY <1>7 DEF OpenWAL
  <2>2. files'[n] = files[n]
    <3> DEFINE segs == listSegments
    <3> DEFINE m == IF segs = << >> THEN 0 ELSE Last(segs)
    <3>1. files' = IF m \in SegNs THEN files ELSE Put(files, m, << >>) BY <1>7 DEF OpenWAL
    <3> HIDE DEF m
    <3>2. QED BY <1>2, <3>1 DEF Put, SegNs
  <2>3. QED BY <1>4, <2>1, <2>2
<1>8. CASE AppendOK
  <2>1. listed \subseteq listed'
    BY <1>8 DEF AppendOK, AppendFrame, Rotated, RotateFailed, RotateSyncFailed
  <2> DEFINE f == Append(files[currentSegN], nextLSN)
  <2>2. nextLSN \in Nat /\ currentSegN \in Nat /\ \A k \in SegNs : k <= currentSegN
    BY <1>8 DEF DiskInv, TypeOK, Placed, AppendOK
  <2>3. n # currentSegN + 1 BY <1>2, <2>2
  <2>4. \/ files' = [files EXCEPT ![currentSegN] = f]
        \/ files' = Put(Put(files, currentSegN, f), currentSegN + 1, << >>)
    BY <1>8 DEF AppendOK, AppendFrame, Rotated, RotateFailed, RotateSyncFailed
  <2>5. files'[n] = IF n = currentSegN THEN f ELSE files[n]
    BY <1>2, <2>3, <2>4 DEF Put, SegNs
  <2>6. QED BY <1>4, <1>5, <2>1, <2>2, <2>5
<1>9. CASE AppendError
  <2>1. listed' = listed BY <1>9 DEF AppendError
  <2>2. files'[n] = files[n] \/ files'[n] = Append(files[n], Torn)
    BY <1>2, <1>9 DEF AppendError, SegNs
  <2>3. QED BY <1>4, <1>5, <2>1, <2>2 DEF Torn
<1>10. CASE Pruner
  <2>1. PICK m \in PruneLSNs : PruneSegmentsBefore(m) BY <1>10 DEF Pruner
  <2>2. files' = files /\ listed' = {k \in listed : ~Prunable(k, m)}
    BY <2>1 DEF PruneSegmentsBefore
  <2>3. Prunable(n, m) BY <1>1, <1>3, <2>2
  <2>4. files[n][i] <= scanSegmentForLastLSN(n) /\ scanSegmentForLastLSN(n) \in Nat
    BY <1>1, <1>2, ScanBounds
  <2>5. l \in Nat /\ l < m BY <1>1, <1>2, <2>3, <2>4, WalAssumption DEF Prunable, Parsable
  <2>6. m \in Nat /\ pruneMark \in Nat BY WalAssumption DEF DiskInv, TypeOK
  <2>7. m <= pruneMark' /\ pruneMark' \in Nat BY <2>1, <2>6 DEF PruneSegmentsBefore
  <2>8. QED BY <2>5, <2>6, <2>7
<1>11. CASE Crash \/ Exit
  BY <1>11 DEF Crash, Exit, Down, DiskInv, TypeOK
<1>12. CASE CloseBegin \/ CloseEnd \/ SyncLoop \/ Reader \/ UNCHANGED vars
  <2>1. UNCHANGED <<files, listed>>
    BY <1>12, Zenon DEF CloseBegin, CloseEnd, SyncLoop, SyncTick, SyncGrab, SyncFsync, SyncStop,
                 Reader, NewReader, ReaderOpen, ReaderFrame, ReaderTorn, ReaderEOF,
                 ReaderList, ReaderClose, vars, diskVars
  <2>2. QED BY <1>6, <2>1
<1>13. QED
  BY <1>7, <1>8, <1>9, <1>10, <1>11, <1>12 DEF Next, Writer

\* PruneSegmentsBefore (wal.go) never takes what a follower may still ask for, and no
\* other step of a running process takes anything.
THEOREM PruningKeepsUnacked == Spec => PruneKeepsUnacked
<1>1. DiskInv /\ [Next]_vars =>
        [\A l \in ReadableLSNs \ ReadableLSNs' : restarts' # restarts \/ l < pruneMark']_vars
  BY StepKeepsUnacked
<1>2. QED BY <1>1, DiskInvariance, PTL DEF Spec, PruneKeepsUnacked

--------------------------------------------------------------------------------
(* The reader, in a log that is opened once.  (A crash after a rotation may let  *)
(* the LSNs start again, and then no reader can be in order.)                     *)

\* The process is started once.
OneLife == MaxRestarts = 0

\* Frame j of segment n comes after frame i of segment m.
After(n, j, m, i) == m < n \/ (m = n /\ i < j)

\* Every entry exceeds all that was written before it.
LogOrdered ==
    /\ restarts = 0
    /\ ~running => SegNs = {} /\ nextLSN = 1 /\ ~reader.open
    /\ \A n \in SegNs : \A i \in 1..Len(files[n]) : files[n][i] < nextLSN
    /\ \A m, n \in SegNs : \A i \in 1..Len(files[m]), j \in 1..Len(files[n]) :
         After(n, j, m, i) /\ files[n][j] # Torn => files[m][i] < files[n][j]

ReaderFields ==
    {"open", "segments", "segIdx", "file", "pos", "fromLSN", "pc", "eof", "out"}

\* The values of an open reader.  What is listed and does not exceed a segment of its
\* list is in the list before that segment: a list may be old, but the directory has
\* lost names since and gained larger ones only.
ReaderTypeOK ==
    /\ DOMAIN reader = ReaderFields /\ reader.out \in Seq(Nat)
    /\ reader.segIdx \in Nat \ {0} /\ reader.pos \in Nat /\ reader.fromLSN \in Nat
    /\ reader.pc \in {"next", "list"} /\ reader.file \in SegNs \cup {NoFile}
    /\ reader.pc = "list" => reader.file # NoFile
    /\ reader.segments \in Seq(SegNs) /\ Increasing(reader.segments, Len(reader.segments))
    /\ \A i \in 1..Len(reader.segments) : \A n \in listed :
         n <= reader.segments[i] => \E j \in 1..i : reader.segments[j] = n

\* All that was sent is below the entries of segment n from frame i on.
SentBelow(n, i) ==
    \A j \in i..Len(files[n]) :
        files[n][j] # Torn => \A k \in 1..Len(reader.out) : reader.out[k] < files[n][j]

\* All that was sent is below the entries of the segments after h, and those to come.
Passed(h) ==
    /\ \A k \in 1..Len(reader.out) : reader.out[k] < nextLSN
    /\ \A n \in SegNs : h < n => SentBelow(n, 1)

\* The listed segments up to h, and that they are fewer than c: whichever list is
\* taken, its entry number c lies beyond h.
UpTo(h)       == {n \in listed : n <= h}
Beyond(h, c) ==
    /\ Cardinality(UpTo(h)) < c
    /\ \A i \in 1..Len(reader.segments) : c <= i => reader.segments[i] > h

\* The reader never goes back: in a segment, or between the last one it was in and the
\* one its index points to.
Forward ==
    \/ /\ reader.file # NoFile
       /\ Passed(reader.file) /\ SentBelow(reader.file, reader.pos + 1)
       /\ Beyond(reader.file, reader.segIdx + 1)
    \/ /\ reader.file = NoFile
       /\ \E h \in SegNs \cup {NoFile} : Passed(h) /\ Beyond(h, reader.segIdx)

ReaderInv == LogOrdered /\ (reader.open => ReaderTypeOK /\ Forward /\ ReaderOrdered)

\* In an increasing list of L, an index above the number of elements up to h is beyond h.
LEMMA ListBeyond ==
    ASSUME NEW L, L \subseteq Nat, IsFiniteSet(L), NEW s \in Seq(L), Increasing(s, Len(s)),
           NEW h \in Int, NEW c \in Nat, Cardinality({n \in L : n <= h}) < c,
           NEW i \in 1..Len(s), c <= i
    PROVE  s[i] > h
<1> DEFINE T == {n \in L : n <= h}
<1> DEFINE f == [j \in 1..i |-> s[j]]
<1>1. SUFFICES ASSUME s[i] <= h PROVE FALSE
  <2>1. s[i] \in L OBVIOUS
  <2>2. s[i] \in Nat BY <2>1, Zenon
  <2>3. s[i] > h \/ s[i] <= h BY <2>2
  <2>4. QED BY <2>3
<1>2. i \in Nat /\ \A j \in 1..i : j \in 1..Len(s) /\ s[j] \in L /\ s[j] \in Nat
  <2>1. Len(s) \in Nat /\ \A j \in 1..Len(s) : s[j] \in L OBVIOUS
  <2>2. i \in Nat /\ \A j \in 1..i : j \in 1..Len(s) BY <2>1
  <2>3. QED BY <2>1, <2>2
<1>3. \A j, k \in 1..i : j < k => s[j] < s[k] BY <1>2 DEF Increasing
<1>4. \A j \in 1..i : s[j] <= s[i] BY <1>2, <1>3
<1>5. f \in [1..i -> T] BY <1>1, <1>2, <1>4
<1>6. f \in Injection(1..i, T)
  <2>1. \A j, k \in 1..i : f[j] = f[k] => j = k BY <1>2, <1>3
  <2>2. QED BY <1>5, <2>1 DEF Injection, IsInjective
<1>7. IsFiniteSet(T) /\ Cardinality(T) \in Nat
  <2>1. IsFiniteSet(T) BY FS_Subset
  <2>2. QED BY <2>1, FS_CardinalityType
<1>8. Cardinality(1..i) = i BY <1>2, FS_Interval
<1>9. Cardinality(1..i) <= Cardinality(T) BY <1>6, <1>7, FS_Injection
<1>10. QED BY <1>2, <1>7, <1>8, <1>9

\* What stands in the first i places of a list is at most i.
LEMMA ListWithin ==
    ASSUME NEW T, NEW s, NEW i \in Nat, \A n \in T : \E j \in 1..i : s[j] = n
    PROVE  IsFiniteSet(T) /\ Cardinality(T) \in Nat /\ Cardinality(T) <= i
<1> DEFINE V == {s[j] : j \in 1..i}
<1> DEFINE f == [j \in 1..i |-> s[j]]
<1>1. f \in Surjection(1..i, V) BY DEF Surjection
<1>2. IsFiniteSet(1..i) /\ Cardinality(1..i) = i BY FS_Interval
<1>3. IsFiniteSet(V) /\ Cardinality(V) <= i BY <1>1, <1>2, FS_Surjection
<1>4. T \in SUBSET V OBVIOUS
<1> HIDE DEF V
<1>5. IsFiniteSet(T) /\ Cardinality(T) <= Cardinality(V) BY <1>3, <1>4, FS_Subset
<1>6. Cardinality(T) \in Nat /\ Cardinality(V) \in Nat BY <1>3, <1>5, FS_CardinalityType
<1>7. QED BY <1>3, <1>5, <1>6

\* A step of the log: frames are only added, at the end of the last file that has any,
\* an entry with the next LSN; names appear for new, larger files only.
Grown ==
    /\ SegNs \subseteq SegNs' /\ nextLSN <= nextLSN'
    /\ \A n \in listed' : n \in listed \/ \A m \in SegNs : m < n
    /\ \A n \in SegNs' : \A j \in 1..Len(files'[n]) :
         \/ n \in SegNs /\ j \in 1..Len(files[n]) /\ files'[n][j] = files[n][j]
         \/ /\ \A m \in SegNs' : \A i \in 1..Len(files'[m]) : ~After(m, i, n, j)
            /\ files'[n][j] = Torn \/ (files'[n][j] = nextLSN /\ nextLSN < nextLSN')

\* Such a step keeps the order of the log and of what was sent.
LEMMA GrownKeeps ==
    ASSUME DiskInv, DiskInv', ReaderInv, Grown, reader' = reader, restarts' = restarts, running'
    PROVE  ReaderInv'
<1>1. /\ nextLSN \in Nat \ {0} /\ nextLSN' \in Nat \ {0} /\ nextLSN <= nextLSN'
      /\ SegNs \subseteq SegNs' /\ SegNs' \subseteq Nat /\ listed' \subseteq Nat
      /\ \A n \in listed' : n \in listed \/ \A m \in SegNs : m < n
      /\ \A n \in SegNs : \A j \in 1..Len(files[n]) : files[n][j] \in Nat
  <2>1. /\ nextLSN \in Nat \ {0} /\ nextLSN' \in Nat \ {0} /\ SegNs' \subseteq Nat /\ listed' \subseteq SegNs'
        /\ files \in [SegNs -> Seq(Nat)]
    BY DEF DiskInv, TypeOK
  <2>2. \A n \in SegNs : files[n] \in Seq(Nat) BY <2>1
  <2>3. \A n \in SegNs : \A j \in 1..Len(files[n]) : files[n][j] \in Nat BY <2>2
  <2>4. QED BY <2>1, <2>3 DEF Grown
<1>2. LogOrdered'
  <2>1. ASSUME NEW n \in SegNs', NEW i \in 1..Len(files'[n]) PROVE files'[n][i] < nextLSN'
    <3>1. \/ n \in SegNs /\ i \in 1..Len(files[n]) /\ files'[n][i] = files[n][i]
          \/ files'[n][i] = Torn \/ (files'[n][i] = nextLSN /\ nextLSN < nextLSN')
      BY DEF Grown
    <3>2. CASE n \in SegNs /\ i \in 1..Len(files[n]) /\ files'[n][i] = files[n][i]
      <4>1. files[n][i] \in Nat /\ files[n][i] < nextLSN BY <1>1, <3>2 DEF ReaderInv, LogOrdered
      <4>2. QED BY <1>1, <3>2, <4>1
    <3>3. CASE files'[n][i] = Torn BY <1>1, <3>3 DEF Torn
    <3>4. QED BY <3>1, <3>2, <3>3
  <2>2. ASSUME NEW m \in SegNs', NEW n \in SegNs', NEW i \in 1..Len(files'[m]), NEW j \in 1..Len(files'[n]),
               After(n, j, m, i), files'[n][j] # Torn
        PROVE  files'[m][i] < files'[n][j]
    <3>1. m \in SegNs /\ i \in 1..Len(files[m]) /\ files'[m][i] = files[m][i]
      BY <2>2 DEF Grown
    <3>2. CASE n \in SegNs /\ j \in 1..Len(files[n]) /\ files'[n][j] = files[n][j]
      BY <2>2, <3>1, <3>2 DEF ReaderInv, LogOrdered
    <3>3. CASE files'[n][j] = nextLSN
      BY <3>1, <3>3 DEF ReaderInv, LogOrdered
    <3>4. QED BY <2>2, <3>2, <3>3 DEF Grown
  <2>3. QED BY <2>1, <2>2 DEF ReaderInv, LogOrdered, After
<1>3. ASSUME reader.open PROVE ReaderTypeOK' /\ Forward' /\ ReaderOrdered'
  <2>1. ReaderTypeOK /\ Forward /\ ReaderOrdered BY <1>3 DEF ReaderInv
  <2>2. /\ reader.segments \in Seq(SegNs) /\ Len(reader.segments) \in Nat
        /\ \A i \in 1..Len(reader.segments) : reader.segments[i] \in SegNs
        /\ reader.out \in Seq(Nat) /\ \A k \in 1..Len(reader.out) : reader.out[k] \in Nat
    BY <2>1 DEF ReaderTypeOK
  <2>3. ReaderTypeOK'
    <3>1. reader.segments \in Seq(SegNs')
      <4>1. PICK s : s = reader.segments OBVIOUS
      <4>2. s \in [1..Len(s) -> SegNs] /\ Len(s) \in Nat BY <2>2, <4>1
      <4>3. s \in [1..Len(s) -> SegNs'] BY <1>1, <4>2
      <4>4. s \in Seq(SegNs') BY <4>2, <4>3
      <4>5. QED BY <4>1, <4>4
    <3>2. ASSUME NEW i \in 1..Len(reader.segments), NEW n \in listed', n <= reader.segments[i]
          PROVE  n \in listed
      <4>1. reader.segments[i] \in SegNs /\ reader.segments[i] \in Nat /\ n \in Nat BY <1>1, <2>2
      <4>2. ~(reader.segments[i] < n) BY <3>2, <4>1
      <4>3. QED BY <1>1, <4>1, <4>2
    <3>3. QED BY <1>1, <2>1, <3>1, <3>2 DEF ReaderTypeOK
  <2>4. ASSUME NEW n \in SegNs', NEW i \in Nat \ {0},
               \A k \in 1..Len(reader.out) : reader.out[k] < nextLSN,
               n \in SegNs => SentBelow(n, i)
        PROVE  SentBelow(n, i)'
    <3>1. ASSUME NEW j \in i..Len(files'[n]), files'[n][j] # Torn, NEW k \in 1..Len(reader.out)
          PROVE  reader.out[k] < files'[n][j]
      <4>1. j \in 1..Len(files'[n]) OBVIOUS
      <4>2. CASE n \in SegNs /\ j \in 1..Len(files[n]) /\ files'[n][j] = files[n][j]
        <5>1. j \in i..Len(files[n]) BY <4>2
        <5>2. QED BY <2>4, <3>1, <4>2, <5>1 DEF SentBelow
      <4>3. CASE files'[n][j] = nextLSN BY <2>4, <4>3
      <4>4. QED BY <3>1, <4>1, <4>2, <4>3 DEF Grown
    <3>2. QED BY <3>1 DEF SentBelow
  <2>5. ASSUME NEW h \in SegNs \cup {NoFile}, Passed(h) PROVE Passed(h)'
    <3>1. \A k \in 1..Len(reader.out) : reader.out[k] < nextLSN /\ reader.out[k] < nextLSN'
      BY <1>1, <2>2, <2>5 DEF Passed
    <3>2. \A n \in SegNs' : h < n => SentBelow(n, 1)'
      BY <2>4, <2>5, <3>1 DEF Passed
    <3>3. QED BY <3>1, <3>2 DEF Passed
  <2>6. ASSUME NEW h \in SegNs \cup {NoFile}, NEW c \in Nat, Beyond(h, c) PROVE Beyond(h, c)'
    <3>1. UpTo(h)' \subseteq UpTo(h)
      <4>1. ASSUME NEW n \in listed', n <= h PROVE n \in listed
        <5>1. n \in Nat BY <1>1
        <5>2. h \in SegNs BY <2>6, <4>1, <5>1 DEF NoFile
        <5>3. h \in Nat BY <1>1, <5>2, Zenon
        <5>4. ~(h < n) BY <4>1, <5>1, <5>3
        <5>5. QED BY <1>1, <5>2, <5>4, Zenon
      <4>2. QED BY <4>1 DEF UpTo
    <3>2. IsFiniteSet(UpTo(h))
      <4>1. UpTo(h) \in SUBSET listed /\ IsFiniteSet(listed) BY DEF UpTo, DiskInv, TypeOK
      <4>2. QED BY <4>1, FS_Subset
    <3>3. Cardinality(UpTo(h)') <= Cardinality(UpTo(h)) /\ IsFiniteSet(UpTo(h)')
      BY <3>1, <3>2, FS_Subset
    <3>4. Cardinality(UpTo(h)') \in Nat /\ Cardinality(UpTo(h)) \in Nat
      BY <3>2, <3>3, FS_CardinalityType
    <3>5. Cardinality(UpTo(h)') < c BY <2>6, <3>3, <3>4 DEF Beyond
    <3>6. QED BY <2>6, <3>5 DEF Beyond
  <2>7. Forward'
    <3>1. CASE reader.file # NoFile
      <4>1. /\ reader.file \in SegNs /\ reader.pos + 1 \in Nat \ {0} /\ reader.segIdx + 1 \in Nat
        BY <2>1, <3>1 DEF ReaderTypeOK
      <4>2. /\ Passed(reader.file) /\ SentBelow(reader.file, reader.pos + 1)
            /\ Beyond(reader.file, reader.segIdx + 1)
        BY <2>1, <3>1 DEF Forward
      <4>3. SentBelow(reader.file, reader.pos + 1)'
        BY <1>1, <2>4, <4>1, <4>2 DEF Passed
      <4>4. QED BY <2>5, <2>6, <3>1, <4>1, <4>2, <4>3 DEF Forward
    <3>2. CASE reader.file = NoFile
      <4>1. PICK h \in SegNs \cup {NoFile} : Passed(h) /\ Beyond(h, reader.segIdx)
        BY <2>1, <3>2 DEF Forward
      <4>2. reader.segIdx \in Nat BY <2>1 DEF ReaderTypeOK
      <4>3. Passed(h)' /\ Beyond(h, reader.segIdx)' /\ h \in SegNs' \cup {NoFile}
        BY <1>1, <2>5, <2>6, <4>1, <4>2
      <4>4. QED BY <3>2, <4>3 DEF Forward
    <3>3. QED BY <3>1, <3>2
  <2>8. ReaderOrdered' BY <2>1 DEF ReaderOrdered
  <2>9. QED BY <2>3, <2>7, <2>8
<1>4. QED BY <1>2, <1>3 DEF ReaderInv

\* The list a reader holds and the directory's: each names files in increasing order,
\* and its part up to any of its segments has all that is listed up to there.
Lists(segs) ==
    /\ segs \in Seq(SegNs) /\ Increasing(segs, Len(segs))
    /\ \A i \in 1..Len(segs) : \A n \in listed : n <= segs[i] => \E j \in 1..i : segs[j] = n

\* The directory's list is one.
LEMMA FreshList ==
    ASSUME DiskInv
    PROVE  /\ Lists(listSegments) /\ listSegments \in Seq(listed)
           /\ listed \subseteq Nat /\ IsFiniteSet(listed)
<1>1. listed \subseteq Nat /\ IsFiniteSet(listed) /\ listed \subseteq SegNs BY DEF DiskInv, TypeOK
<1>2. PICK s : s = listSegments OBVIOUS
<1>3. /\ s \in Seq(listed) /\ Increasing(s, Len(s))
      /\ \A n \in listed : \E i \in 1..Len(s) : s[i] = n
  BY <1>1, <1>2, ListIsSorted
<1>4. Len(s) \in Nat /\ s \in [1..Len(s) -> listed] BY <1>3
<1>5. s \in Seq(SegNs)
  <2>1. s \in [1..Len(s) -> SegNs] BY <1>1, <1>4
  <2>2. QED BY <1>4, <2>1
<1>6. ASSUME NEW i \in 1..Len(s), NEW n \in listed, n <= s[i] PROVE \E j \in 1..i : s[j] = n
  <2>1. PICK j \in 1..Len(s) : s[j] = n BY <1>3
  <2>2. s[i] \in Nat /\ s[j] \in Nat BY <1>1, <1>4
  <2>3. ~(i < j)
    <3>1. i < j => s[i] < s[j] BY <1>3 DEF Increasing
    <3>2. QED BY <1>6, <2>1, <2>2, <3>1
  <2>4. j \in 1..i BY <1>4, <2>3
  <2>5. QED BY <2>1, <2>4
<1>7. QED BY <1>1, <1>2, <1>3, <1>5, <1>6 DEF Lists

\* Up to place i of a list there are at most i listed segments, and the rest of the
\* list lies beyond.
LEMMA ListPlaces ==
    ASSUME DiskInv, NEW segs, Lists(segs), NEW i \in 1..Len(segs)
    PROVE  /\ Cardinality(UpTo(segs[i])) < i + 1
           /\ \A j \in 1..Len(segs) : i + 1 <= j => segs[j] > segs[i]
<1>1. Len(segs) \in Nat /\ i \in Nat /\ \A j \in 1..Len(segs) : segs[j] \in Nat
  <2>1. SegNs \subseteq Nat BY DEF DiskInv, TypeOK
  <2>2. Len(segs) \in Nat /\ \A j \in 1..Len(segs) : segs[j] \in SegNs BY DEF Lists
  <2>3. \A j \in 1..Len(segs) : segs[j] \in Nat BY <2>1, <2>2, Zenon
  <2>4. QED BY <2>2, <2>3
<1>2. \A n \in UpTo(segs[i]) : \E j \in 1..i : segs[j] = n BY DEF UpTo, Lists
<1>3. Cardinality(UpTo(segs[i])) \in Nat /\ Cardinality(UpTo(segs[i])) <= i
  BY <1>1, <1>2, ListWithin
<1>4. \A j \in 1..Len(segs) : i + 1 <= j => segs[i] < segs[j] BY <1>1 DEF Lists, Increasing
<1>5. QED BY <1>1, <1>3, <1>4

\* The steps of the reader.
LEMMA ReaderKeeps ==
    ASSUME DiskInv, ReaderInv, Reader
    PROVE  ReaderInv'
<1>1. UNCHANGED <<files, listed, nextLSN, running, restarts>> /\ SegNs' = SegNs
  <2>1. UNCHANGED <<diskVars, walVars, syncVars, envVars>>
    BY Zenon DEF Reader, NewReader, ReaderOpen, ReaderFrame, ReaderTorn, ReaderEOF,
                 ReaderList, ReaderClose
  <2>2. QED BY <2>1 DEF diskVars, walVars, envVars, SegNs
<1>2. /\ SegNs \subseteq Nat /\ listed \subseteq SegNs /\ nextLSN \in Nat \ {0}
      /\ \A n \in SegNs : files[n] \in Seq(Nat) /\ Len(files[n]) \in Nat
      /\ \A n \in SegNs : \A j \in 1..Len(files[n]) : files[n][j] \in Nat
  <2>1. SegNs \subseteq Nat /\ listed \subseteq SegNs /\ nextLSN \in Nat \ {0} /\ files \in [SegNs -> Seq(Nat)]
    BY DEF DiskInv, TypeOK
  <2>2. \A n \in SegNs : files[n] \in Seq(Nat) BY <2>1
  <2>3. QED BY <2>1, <2>2
<1>3. LogOrdered BY DEF ReaderInv
<1>4. ASSUME running PROVE LogOrdered' BY <1>1, <1>3, <1>4 DEF LogOrdered
<1>5. ASSUME reader' = NoReader PROVE ReaderInv'
  <2>1. reader'.open = FALSE BY <1>5 DEF NoReader
  <2>2. LogOrdered' BY <1>1, <1>3, <2>1 DEF LogOrdered
  <2>3. QED BY <2>1, <2>2 DEF ReaderInv
\* A reader between segments, with a list.
<1>6. ASSUME NEW segs, NEW idx \in Nat \ {0}, NEW h \in SegNs \cup {NoFile}, running,
             Lists(segs), DOMAIN reader' = ReaderFields, reader'.segments = segs,
             reader'.segIdx = idx, reader'.file = NoFile, reader'.pc = "next",
             reader'.pos \in Nat, reader'.fromLSN \in Nat, reader'.out \in Seq(Nat),
             ReaderOrdered', Passed(h)', Cardinality(UpTo(h)) < idx,
             \A i \in 1..Len(segs) : idx <= i => segs[i] > h
      PROVE  ReaderInv'
  <2>1. ReaderTypeOK' BY <1>1, <1>6 DEF ReaderTypeOK, Lists
  <2>2. Beyond(h, idx)' BY <1>1, <1>6 DEF Beyond, UpTo
  <2>3. Forward' BY <1>1, <1>6, <2>2 DEF Forward
  <2>4. QED BY <1>4, <1>6, <2>1, <2>3 DEF ReaderInv
\* A reader in a segment of its list.
<1>7. ASSUME running, ReaderTypeOK', reader'.file \in SegNs, Passed(reader.file)',
             SentBelow(reader.file, reader.pos + 1)', Beyond(reader.file, reader.segIdx + 1)',
             ReaderOrdered'
      PROVE  ReaderInv'
  <2>1. reader'.file # NoFile BY <1>2, <1>7 DEF NoFile
  <2>2. Forward' BY <1>7, <2>1 DEF Forward
  <2>3. QED BY <1>4, <1>7, <2>2 DEF ReaderInv
<1>8. CASE ReaderClose BY <1>5, <1>8 DEF ReaderClose
<1>9. CASE \E l \in FromLSNs : NewReader(l)
  <2>1. PICK l \in FromLSNs : NewReader(l) BY <1>9
  <2>2. /\ running /\ DOMAIN reader' = ReaderFields /\ reader'.segments = listSegments
        /\ reader'.segIdx = 1 /\ reader'.file = NoFile /\ reader'.pc = "next" /\ reader'.pos = 0
        /\ reader'.fromLSN = l /\ reader'.out = << >>
    BY <2>1 DEF NewReader, ReaderFields
  <2>3. l \in Nat BY WalAssumption
  <2>4. Lists(listSegments) BY FreshList
  <2>5. ReaderOrdered' /\ Passed(NoFile)' BY <2>2 DEF ReaderOrdered, Passed, SentBelow
  <2>6. UpTo(NoFile) = {}
    <3>1. \A n \in listed : n \in Nat BY <1>2, Zenon
    <3>2. QED BY <3>1 DEF UpTo, NoFile
  <2>7. Cardinality(UpTo(NoFile)) = 0 BY <2>6, FS_EmptySet
  <2>8. \A i \in 1..Len(listSegments) : listSegments[i] > NoFile
    <3>1. \A i \in 1..Len(listSegments) : listSegments[i] \in SegNs BY <2>4 DEF Lists
    <3>2. \A i \in 1..Len(listSegments) : listSegments[i] \in Nat BY <1>2, <3>1, Zenon
    <3>3. QED BY <3>2 DEF NoFile
  <2>9. << >> \in Seq(Nat) OBVIOUS
  <2>10. QED BY <1>6, <2>2, <2>3, <2>4, <2>5, <2>7, <2>8, <2>9
<1>10. ASSUME reader.open, reader.pc = "next" \/ reader.pc = "list"
       PROVE  /\ ReaderTypeOK /\ Forward /\ ReaderOrdered /\ Lists(reader.segments)
              /\ DOMAIN reader = ReaderFields /\ reader.segIdx \in Nat \ {0} /\ reader.pos \in Nat
              /\ reader.fromLSN \in Nat /\ reader.out \in Seq(Nat) /\ reader.file \in SegNs \cup {NoFile}
              /\ \A k \in 1..Len(reader.out) : reader.out[k] \in Nat
  <2>1. ReaderTypeOK /\ Forward /\ ReaderOrdered BY <1>3, <1>10 DEF ReaderInv
  <2>2. reader.out \in Seq(Nat) BY <2>1 DEF ReaderTypeOK
  <2>3. \A k \in 1..Len(reader.out) : reader.out[k] \in Nat BY <2>2
  <2>4. QED BY <2>1, <2>3 DEF ReaderTypeOK, Lists
<1>11. ASSUME reader'.out = reader.out, reader'.fromLSN = reader.fromLSN, reader'.open = reader.open
       PROVE  /\ ReaderOrdered => ReaderOrdered'
              /\ \A h : Passed(h) => Passed(h)'
              /\ \A n, i : SentBelow(n, i) => SentBelow(n, i)'
  BY <1>1, <1>11 DEF ReaderOrdered, Passed, SentBelow
\* Whichever list is taken, it is beyond h at the index.
<1>12. ASSUME NEW h \in SegNs \cup {NoFile}, NEW c \in Nat, Beyond(h, c), Lists(reader.segments),
              NEW segs, segs = reader.segments \/ segs = listSegments
       PROVE  Lists(segs) /\ \A i \in 1..Len(segs) : c <= i => segs[i] > h
  <2>1. CASE segs = reader.segments BY <1>12, <2>1 DEF Beyond
  <2>2. CASE segs = listSegments
    <3>1. /\ Lists(segs) /\ segs \in Seq(listed) /\ listed \subseteq Nat /\ IsFiniteSet(listed)
          /\ Increasing(segs, Len(segs))
      BY <2>2, FreshList DEF Lists
    <3>2. h \in Int
      <4>1. h \in Nat \/ h = NoFile BY <1>2, Zenon
      <4>2. QED BY <4>1 DEF NoFile
    <3>3. Cardinality({n \in listed : n <= h}) < c BY <1>12 DEF Beyond, UpTo
    <3>4. QED BY <3>1, <3>2, <3>3, ListBeyond
  <2>3. QED BY <1>12, <2>1, <2>2
\* The next segment of a list, after the one it is in.
<1>13. ASSUME running, reader.open, reader.pc = "next" \/ reader.pc = "list", reader.file # NoFile,
              NEW segs, segs = reader.segments \/ segs = listSegments,
              reader' = NextSegment(segs)
       PROVE  ReaderInv'
  <2>1. reader.file \in SegNs /\ reader.segIdx + 1 \in Nat \ {0} /\ reader.segIdx + 1 \in Nat BY <1>10, <1>13
  <2>2. Passed(reader.file) /\ Beyond(reader.file, reader.segIdx + 1) BY <1>10, <1>13 DEF Forward
  <2>3. /\ DOMAIN reader' = ReaderFields /\ reader'.segments = segs /\ reader'.segIdx = reader.segIdx + 1
        /\ reader'.file = NoFile /\ reader'.pc = "next" /\ reader'.pos = reader.pos
        /\ reader'.fromLSN = reader.fromLSN /\ reader'.out = reader.out /\ reader'.open = reader.open
    BY <1>10, <1>13 DEF NextSegment, ReaderFields
  <2>4. PICK h \in SegNs : h = reader.file BY <2>1
  <2>5. PICK c \in Nat \ {0} : c = reader.segIdx + 1 BY <2>1
  <2>6. Lists(segs) /\ \A i \in 1..Len(segs) : c <= i => segs[i] > h
    BY <1>10, <1>12, <1>13, <2>2, <2>4, <2>5
  <2>7. Cardinality(UpTo(h)) < c BY <2>2, <2>4, <2>5 DEF Beyond
  <2>8. ReaderOrdered' /\ Passed(h)' BY <1>10, <1>11, <1>13, <2>2, <2>3, <2>4
  <2>9. /\ reader'.pos \in Nat /\ reader'.fromLSN \in Nat /\ reader'.out \in Seq(Nat) /\ reader'.segIdx = c
    BY <1>10, <1>13, <2>3, <2>5
  <2>10. QED BY <1>6, <1>13, <2>3, <2>6, <2>7, <2>8, <2>9
\* A reader that stays in its segment, and has sent no more.
<1>14. ASSUME running, reader.open, reader.pc = "next" \/ reader.pc = "list", reader.file # NoFile,
              DOMAIN reader' = ReaderFields, reader'.segments = reader.segments,
              reader'.segIdx = reader.segIdx, reader'.file = reader.file, reader'.pc \in {"next", "list"},
              reader'.pos \in Nat, reader.pos <= reader'.pos,
              reader'.fromLSN = reader.fromLSN, reader'.out = reader.out, reader'.open = reader.open
       PROVE  ReaderInv'
  <2>1. reader.file \in SegNs BY <1>10, <1>14
  <2>2. /\ Passed(reader.file) /\ SentBelow(reader.file, reader.pos + 1)
        /\ Beyond(reader.file, reader.segIdx + 1)
    BY <1>10, <1>14 DEF Forward
  <2>3. ReaderTypeOK' BY <1>1, <1>10, <1>14 DEF ReaderTypeOK
  <2>4. ReaderOrdered' /\ Passed(reader.file)' BY <1>10, <1>11, <1>14, <2>2
  <2>5. SentBelow(reader.file, reader.pos + 1)'
    <3>1. \A j \in reader'.pos + 1..Len(files[reader.file]) : j \in reader.pos + 1..Len(files[reader.file])
      BY <1>2, <1>10, <1>14, <2>1
    <3>2. QED BY <1>1, <1>14, <2>2, <3>1 DEF SentBelow
  <2>6. Beyond(reader.file, reader.segIdx + 1)' BY <1>1, <1>14, <2>2 DEF Beyond, UpTo
  <2>7. QED BY <1>7, <1>14, <2>1, <2>3, <2>4, <2>5, <2>6
<1>15. CASE ReaderEOF
  <2>1. /\ running /\ reader.open /\ reader.pc = "next" /\ reader.file # NoFile
        /\ reader' = [reader EXCEPT !.pc = "list"]
    BY <1>15 DEF ReaderEOF
  <2>2. DOMAIN reader = ReaderFields /\ reader.pos \in Nat BY <1>10, <2>1
  <2>3. /\ DOMAIN reader' = ReaderFields /\ reader'.segments = reader.segments
        /\ reader'.segIdx = reader.segIdx /\ reader'.file = reader.file /\ reader'.pc = "list"
        /\ reader'.pos = reader.pos
        /\ reader'.fromLSN = reader.fromLSN /\ reader'.out = reader.out /\ reader'.open = reader.open
    BY <2>1, <2>2 DEF ReaderFields
  <2>4. QED BY <1>14, <2>1, <2>2, <2>3
<1>16. CASE ReaderList
  <2>1. running /\ reader.open /\ reader.pc = "list" BY <1>16 DEF ReaderList
  <2>2. reader.file # NoFile BY <1>10, <2>1 DEF ReaderTypeOK
  <2>3. CASE reader' = NextSegment(listSegments) BY <1>13, <2>1, <2>2, <2>3
  <2>4. CASE reader' = [reader EXCEPT !.pc = "next", !.eof = TRUE]
    <3>1. DOMAIN reader = ReaderFields /\ reader.pos \in Nat BY <1>10, <2>1
    <3>2. /\ DOMAIN reader' = ReaderFields /\ reader'.segments = reader.segments
          /\ reader'.segIdx = reader.segIdx /\ reader'.file = reader.file /\ reader'.pc = "next"
          /\ reader'.pos = reader.pos
          /\ reader'.fromLSN = reader.fromLSN /\ reader'.out = reader.out /\ reader'.open = reader.open
      BY <2>4, <3>1 DEF ReaderFields
    <3>3. QED BY <1>14, <2>1, <2>2, <3>1, <3>2
  <2>5. QED BY <1>16, <2>3, <2>4 DEF ReaderList
<1>17. CASE ReaderTorn
  <2>1. running /\ reader.open /\ reader.pc = "next" /\ reader.file # NoFile /\ reader.pos < Len(Frames)
    BY <1>17 DEF ReaderTorn
  <2>2. CASE reader' = NextSegment(reader.segments) BY <1>13, <2>1, <2>2
  <2>3. CASE reader' = [reader EXCEPT !.pos = Len(Frames), !.pc = "list"]
    <3>1. DOMAIN reader = ReaderFields /\ reader.pos \in Nat /\ reader.file \in SegNs BY <1>10, <2>1
    <3>2. /\ DOMAIN reader' = ReaderFields /\ reader'.segments = reader.segments
          /\ reader'.segIdx = reader.segIdx /\ reader'.file = reader.file /\ reader'.pc = "list"
          /\ reader'.pos = Len(Frames)
          /\ reader'.fromLSN = reader.fromLSN /\ reader'.out = reader.out /\ reader'.open = reader.open
      BY <2>3, <3>1 DEF ReaderFields
    <3>3. Len(Frames) \in Nat BY <1>2, <3>1 DEF Frames
    <3>4. reader'.pos \in Nat /\ reader.pos <= reader'.pos BY <2>1, <3>1, <3>2, <3>3
    <3>5. QED BY <1>14, <2>1, <3>2, <3>4
  <2>4. QED BY <1>17, <2>2, <2>3 DEF ReaderTorn
<1>18. CASE ReaderFrame
  <2>1. /\ running /\ reader.open /\ reader.pc = "next" /\ reader.file # NoFile
        /\ reader.pos < Len(Frames) /\ Frames[reader.pos + 1] # Torn
    BY <1>18 DEF ReaderFrame
  <2>2. /\ DOMAIN reader = ReaderFields /\ reader.pos \in Nat /\ reader.file \in SegNs
        /\ reader.out \in Seq(Nat) /\ reader.fromLSN \in Nat
        /\ \A k \in 1..Len(reader.out) : reader.out[k] \in Nat
    BY <1>10, <2>1
  <2>3. PICK f \in SegNs, p \in Nat : f = reader.file /\ p = reader.pos + 1 BY <2>2
  <2>4. p \in 1..Len(files[f]) /\ files[f][p] # Torn BY <1>2, <2>1, <2>2, <2>3 DEF Frames
  <2>5. PICK l \in Nat : l = files[f][p] BY <1>2, <2>4
  <2>6. /\ Passed(f) /\ SentBelow(f, p) /\ Beyond(f, reader.segIdx + 1) BY <1>10, <2>1, <2>3 DEF Forward
  <2>7. PICK out : out = IF l < reader.fromLSN THEN reader.out ELSE Append(reader.out, l) OBVIOUS
  <2>8. /\ DOMAIN reader' = ReaderFields /\ reader'.segments = reader.segments
        /\ reader'.segIdx = reader.segIdx /\ reader'.file = f /\ reader'.pc = "next"
        /\ reader'.pos = p /\ reader'.fromLSN = reader.fromLSN /\ reader'.out = out /\ reader'.open = reader.open
    <3>1. reader' = [reader EXCEPT !.pos = @ + 1, !.eof = FALSE, !.out = out]
      BY <1>18, <2>3, <2>5, <2>7 DEF ReaderFrame, Frames
    <3>2. QED BY <2>1, <2>2, <2>3, <3>1 DEF ReaderFields
  <2>9. /\ out \in Seq(Nat) /\ Len(reader.out) \in Nat
        /\ \A k \in 1..Len(out) : \/ k \in 1..Len(reader.out) /\ out[k] = reader.out[k]
                                  \/ k = Len(reader.out) + 1 /\ out[k] = l /\ reader.fromLSN <= l
    BY <2>2, <2>5, <2>7
  <2>10. /\ \A k \in 1..Len(reader.out) : reader.out[k] < l
    <3>1. p \in p..Len(files[f]) BY <1>2, <2>3, <2>4
    <3>2. QED BY <2>4, <2>5, <2>6, <3>1 DEF SentBelow
  <2>11. l < nextLSN BY <1>3, <2>4, <2>5 DEF LogOrdered
  <2>12. \A n \in SegNs : \A j \in 1..Len(files[n]) : After(n, j, f, p) /\ files[n][j] # Torn => l < files[n][j]
    BY <1>3, <2>4, <2>5 DEF LogOrdered
  <2>13. SentBelow(f, p + 1)'
    <3>1. ASSUME NEW j \in p + 1..Len(files[f]), files[f][j] # Torn, NEW k \in 1..Len(out)
          PROVE  out[k] < files[f][j]
      <4>1. j \in 1..Len(files[f]) /\ j \in p..Len(files[f]) /\ p < j BY <1>2, <2>3
      <4>2. l < files[f][j] BY <2>12, <3>1, <4>1 DEF After
      <4>3. \A i \in 1..Len(reader.out) : reader.out[i] < files[f][j] BY <2>6, <3>1, <4>1 DEF SentBelow
      <4>4. QED BY <2>9, <4>2, <4>3
    <3>2. QED BY <1>1, <2>8, <3>1 DEF SentBelow
  <2>14. Passed(f)'
    <3>1. \A k \in 1..Len(out) : out[k] < nextLSN BY <2>6, <2>9, <2>11 DEF Passed
    <3>2. ASSUME NEW n \in SegNs, f < n, NEW j \in 1..Len(files[n]), files[n][j] # Torn, NEW k \in 1..Len(out)
          PROVE  out[k] < files[n][j]
      <4>1. l < files[n][j] BY <2>12, <3>2 DEF After
      <4>2. \A i \in 1..Len(reader.out) : reader.out[i] < files[n][j] BY <2>6, <3>2 DEF Passed, SentBelow
      <4>3. QED BY <2>9, <4>1, <4>2
    <3>3. QED BY <1>1, <2>8, <3>1, <3>2 DEF Passed, SentBelow
  <2>15. Beyond(f, reader.segIdx + 1)' BY <1>1, <2>6, <2>8 DEF Beyond, UpTo
  <2>16. ReaderTypeOK' BY <1>1, <1>10, <2>1, <2>3, <2>8, <2>9 DEF ReaderTypeOK
  <2>17. ReaderOrdered'
    <3>1. ReaderOrdered /\ reader.open BY <1>10, <2>1
    <3>2. \A k \in 1..Len(out) : out[k] >= reader.fromLSN
      BY <2>2, <2>5, <2>9, <3>1 DEF ReaderOrdered
    <3>3. \A i, j \in 1..Len(out) : i < j => out[i] < out[j]
      BY <2>9, <2>10, <3>1 DEF ReaderOrdered
    <3>4. QED BY <2>8, <3>2, <3>3 DEF ReaderOrdered
  <2>18. Passed(reader.file)' /\ SentBelow(reader.file, reader.pos + 1)' /\ Beyond(reader.file, reader.segIdx + 1)'
    BY <2>8, <2>13, <2>14, <2>15
  <2>19. QED BY <1>7, <2>1, <2>8, <2>16, <2>17, <2>18
<1>19. CASE ReaderOpen
  <2>1. running /\ reader.open /\ reader.pc = "next" /\ reader.file = NoFile BY <1>19 DEF ReaderOpen
  <2>2. PICK segs : segs = IF reader.segIdx > Len(reader.segments) THEN listSegments ELSE reader.segments
    OBVIOUS
  <2>3. PICK h \in SegNs \cup {NoFile} : Passed(h) /\ Beyond(h, reader.segIdx) BY <1>10, <2>1 DEF Forward
  <2>4. PICK c \in Nat \ {0} : c = reader.segIdx BY <1>10, <2>1
  <2>5. Lists(segs) /\ \A i \in 1..Len(segs) : c <= i => segs[i] > h
    BY <1>10, <1>12, <2>1, <2>2, <2>3, <2>4
  <2>6. /\ DOMAIN reader = ReaderFields /\ reader.pos \in Nat /\ reader.fromLSN \in Nat
        /\ reader.out \in Seq(Nat) /\ ReaderOrdered
    BY <1>10, <2>1
  <2>7. CASE reader' = [reader EXCEPT !.segments = segs, !.eof = TRUE]
    <3>1. /\ DOMAIN reader' = ReaderFields /\ reader'.segments = segs /\ reader'.segIdx = c
          /\ reader'.file = NoFile /\ reader'.pc = "next" /\ reader'.pos = reader.pos
          /\ reader'.fromLSN = reader.fromLSN /\ reader'.out = reader.out /\ reader'.open = reader.open
      BY <2>1, <2>4, <2>6, <2>7 DEF ReaderFields
    <3>2. ReaderOrdered' /\ Passed(h)' BY <1>11, <2>3, <2>6, <3>1
    <3>3. Cardinality(UpTo(h)) < c BY <2>3, <2>4 DEF Beyond
    <3>4. QED BY <1>6, <2>1, <2>5, <2>6, <3>1, <3>2, <3>3
  <2>8. CASE /\ ~(c > Len(segs))
             /\ reader' = [reader EXCEPT !.segments = segs, !.pos = 0, !.file = segs[c], !.eof = FALSE]
    <3>1. Len(segs) \in Nat /\ segs \in Seq(SegNs) BY <2>5 DEF Lists
    <3>2. c \in 1..Len(segs) BY <2>8, <3>1
    <3>3. PICK f \in SegNs : f = segs[c] BY <3>1, <3>2
    <3>4. f > h /\ f \in Nat /\ f # NoFile BY <1>2, <2>5, <3>2, <3>3 DEF NoFile
    <3>5. /\ DOMAIN reader' = ReaderFields /\ reader'.segments = segs /\ reader'.segIdx = c
          /\ reader'.file = f /\ reader'.pc = "next" /\ reader'.pos = 0
          /\ reader'.fromLSN = reader.fromLSN /\ reader'.out = reader.out /\ reader'.open = reader.open
      BY <2>1, <2>4, <2>6, <2>8, <3>3 DEF ReaderFields
    <3>6. h \in Int
      <4>1. h \in Nat \/ h = NoFile BY <1>2, Zenon
      <4>2. QED BY <4>1 DEF NoFile
    <3>7. Passed(f) /\ SentBelow(f, 1) BY <1>2, <2>3, <3>4, <3>6 DEF Passed
    <3>8. ReaderOrdered' /\ Passed(f)' /\ SentBelow(f, 1)' BY <1>11, <2>6, <3>5, <3>7
    <3>9. Cardinality(UpTo(f)) < c + 1 /\ \A j \in 1..Len(segs) : c + 1 <= j => segs[j] > f
      BY <2>5, <3>2, <3>3, ListPlaces
    <3>10. Beyond(f, c + 1)' BY <1>1, <3>5, <3>9 DEF Beyond, UpTo
    <3>11. ReaderTypeOK' BY <1>1, <2>5, <2>6, <3>4, <3>5 DEF ReaderTypeOK, Lists
    <3>12. Passed(reader.file)' /\ SentBelow(reader.file, reader.pos + 1)' /\ Beyond(reader.file, reader.segIdx + 1)'
      BY <3>5, <3>8, <3>10
    <3>13. QED BY <1>7, <2>1, <3>5, <3>8, <3>11, <3>12
  <2>9. QED BY <1>5, <1>19, <2>2, <2>4, <2>7, <2>8 DEF ReaderOpen
<1>20. QED BY <1>8, <1>9, <1>15, <1>16, <1>17, <1>18, <1>19 DEF Reader

\* An append to the active segment grows the log, whether or not a new one is begun.
LEMMA AppendGrows ==
    ASSUME DiskInv, running, NEW c \in SegNs, c = currentSegN, NEW x \in Nat, x = Torn \/ x = nextLSN,
           nextLSN' = nextLSN + 1, files'[c] = Append(files[c], x),
           \A n \in SegNs : n # c => files'[n] = files[n],
           SegNs' = SegNs \/ (SegNs' = SegNs \cup {c + 1} /\ files'[c + 1] = << >>),
           listed' \subseteq listed \cup {c + 1}
    PROVE  Grown
<1>1. /\ nextLSN \in Nat \ {0} /\ c \in Nat /\ files[c] \in Seq(Nat)
      /\ \A n \in SegNs : n \in Nat /\ n <= c
      /\ \A n \in SegNs : files[n] \in Seq(Nat)
  BY DEF DiskInv, TypeOK, Placed
<1>2. \A n \in listed' : n \in listed \/ \A m \in SegNs : m < n
  <2>1. ASSUME NEW m \in SegNs PROVE m < c + 1
    <3>1. m \in Nat /\ m <= c /\ c \in Nat BY <1>1, Zenon
    <3>2. QED BY <3>1
  <2>2. \A n \in listed' : n \in listed \/ n = c + 1 BY Zenon
  <2>3. QED BY <2>1, <2>2, Zenon
<1>3. PICK len \in Nat : len = Len(files[c]) BY <1>1
<1>4. /\ Len(files'[c]) = len + 1 /\ files'[c][len + 1] = x
      /\ \A j \in 1..len : files'[c][j] = files[c][j]
  BY <1>1, <1>3
<1>5. \A n \in SegNs' : n \in SegNs \/ (n = c + 1 /\ Len(files'[n]) = 0) OBVIOUS
<1>6. ASSUME NEW m \in SegNs', NEW i \in 1..Len(files'[m]) PROVE ~After(m, i, c, len + 1)
  <2>1. m \in SegNs BY <1>5, <1>6
  <2>2. m \in Nat /\ m <= c BY <1>1, <2>1
  <2>3. m = c => i <= len + 1 BY <1>3, <1>4
  <2>4. i \in Int OBVIOUS
  <2>5. QED BY <1>1, <1>3, <2>2, <2>3, <2>4 DEF After
<1>7. ASSUME NEW n \in SegNs', NEW j \in 1..Len(files'[n])
      PROVE  \/ n \in SegNs /\ j \in 1..Len(files[n]) /\ files'[n][j] = files[n][j]
             \/ n = c /\ j = len + 1
  <2>1. n \in SegNs BY <1>5, <1>7
  <2>2. CASE n # c BY <2>1, <2>2
  <2>3. CASE n = c
    <3>1. j \in 1..len \/ j = len + 1 BY <1>3, <1>4, <2>3
    <3>2. QED BY <1>3, <1>4, <2>1, <2>3, <3>1
  <2>4. QED BY <2>2, <2>3
<1>8. SegNs \subseteq SegNs' /\ nextLSN <= nextLSN' /\ nextLSN < nextLSN' BY <1>1
<1>9. QED BY <1>2, <1>4, <1>6, <1>7, <1>8 DEF Grown

\* The steps of the log grow it, and leave the reader alone.
LEMMA LogGrows ==
    ASSUME DiskInv, LogOrdered, Writer \/ SyncLoop \/ Pruner
    PROVE  Grown /\ reader' = reader /\ restarts' = restarts /\ running'
<1>1. ASSUME UNCHANGED files, UNCHANGED nextLSN, listed' \subseteq listed PROVE Grown
  <2>1. SegNs' = SegNs /\ nextLSN \in Nat BY <1>1 DEF SegNs, DiskInv, TypeOK
  <2>2. QED BY <1>1, <2>1 DEF Grown
<1>2. CASE OpenWAL
  <2>1. SegNs = {} /\ listed = {} /\ nextLSN = 1 /\ ~running BY <1>2 DEF OpenWAL, LogOrdered, DiskInv, TypeOK
  <2>2. listSegments = << >>
    <3>1. listSegments \in Seq(listed) BY FreshList
    <3>2. PICK s : s = listSegments OBVIOUS
    <3>3. s \in Seq({}) BY <2>1, <3>1, <3>2
    <3>4. s = << >> BY <3>3
    <3>5. QED BY <3>2, <3>4
  <2>3. /\ files' = Put(files, 0, << >>) /\ listed' = listed \cup {0} /\ nextLSN' = 1
        /\ reader' = reader /\ restarts' = restarts /\ running' = TRUE
    BY <1>2, <2>1, <2>2 DEF OpenWAL, RecoverNextLSN, envVars
  <2>4. SegNs' = {0} /\ files'[0] = << >> BY <2>1, <2>3 DEF Put, SegNs
  <2>5. Len(files'[0]) = 0 BY <2>4
  <2>6. QED BY <2>1, <2>3, <2>4, <2>5 DEF Grown
<1>3. CASE AppendOK
  <2>1. /\ currentSegN \in SegNs /\ currentSegN \in Nat /\ running /\ nextLSN \in Nat
        /\ \A n \in SegNs : n <= currentSegN
    BY <1>3 DEF AppendOK, DiskInv, TypeOK, Placed
  <2>2. PICK c \in SegNs : c = currentSegN BY <2>1
  <2>3. PICK f : f = Append(files[c], nextLSN) OBVIOUS
  <2>4. \/ files' = [files EXCEPT ![c] = f] /\ listed' = listed
        \/ files' = Put(Put(files, c, f), c + 1, << >>) /\ listed' = listed \cup {c + 1}
    BY <1>3, <2>2, <2>3 DEF AppendOK, AppendFrame, Rotated, RotateFailed, RotateSyncFailed
  <2>5. c \in Nat /\ c # c + 1 BY <2>1, <2>2
  <2>6. c + 1 \notin SegNs
    <3>1. \A n \in SegNs : n \in Nat BY DEF DiskInv, TypeOK
    <3>2. QED BY <2>1, <2>2, <2>5, <3>1
  <2>7. /\ files'[c] = f /\ \A n \in SegNs : n # c => files'[n] = files[n]
        /\ SegNs' = SegNs \/ (SegNs' = SegNs \cup {c + 1} /\ files'[c + 1] = << >>)
        /\ listed' \subseteq listed \cup {c + 1}
    BY <2>2, <2>4, <2>5, <2>6 DEF Put, SegNs
  <2>8. nextLSN' = nextLSN + 1 BY <1>3 DEF AppendOK
  <2>9. Grown BY <2>1, <2>2, <2>3, <2>7, <2>8, AppendGrows
  <2>10. QED BY <1>3, <2>9 DEF AppendOK
<1>4. CASE AppendError
  <2>1. /\ nextLSN' = nextLSN + 1 /\ listed' = listed /\ reader' = reader /\ restarts' = restarts
        /\ running' /\ running
    BY <1>4 DEF AppendError
  <2>2. nextLSN \in Nat \ {0} BY DEF DiskInv, TypeOK
  <2>3. CASE files' = files
    <3>1. SegNs' = SegNs BY <2>3 DEF SegNs
    <3>2. QED BY <2>1, <2>2, <2>3, <3>1 DEF Grown
  <2>4. CASE segOpen /\ files' = [files EXCEPT ![currentSegN] = Append(@, Torn)]
    <3>1. PICK c \in SegNs : c = currentSegN BY <2>4 DEF DiskInv, Placed, TypeOK
    <3>2. /\ SegNs' = SegNs /\ files'[c] = Append(files[c], Torn)
          /\ \A n \in SegNs : n # c => files'[n] = files[n]
      BY <2>4, <3>1 DEF SegNs
    <3>3. Torn \in Nat BY DEF Torn
    <3>4. PICK x \in Nat : x = Torn BY <3>3
    <3>5. Grown BY <2>1, <3>1, <3>2, <3>4, AppendGrows
    <3>6. QED BY <2>1, <3>5
  <2>5. QED BY <1>4, <2>3, <2>4 DEF AppendError
<1>5. CASE CloseBegin \/ CloseEnd \/ SyncLoop
  <2>1. UNCHANGED <<files, listed, nextLSN, reader, restarts, running>> /\ running
    BY <1>5, Zenon DEF CloseBegin, CloseEnd, SyncLoop, SyncTick, SyncGrab, SyncFsync, SyncStop,
                       diskVars, walVars, envVars
  <2>2. QED BY <1>1, <2>1
<1>6. CASE Pruner
  <2>1. PICK m \in PruneLSNs : PruneSegmentsBefore(m) BY <1>6 DEF Pruner
  <2>2. UNCHANGED <<files, nextLSN, reader, restarts, running>> /\ running /\ listed' \subseteq listed
    BY <2>1 DEF PruneSegmentsBefore, walVars
  <2>3. QED BY <1>1, <2>2
<1>7. QED BY <1>2, <1>3, <1>4, <1>5, <1>6 DEF Writer

\* A log that was never opened is in order.
LEMMA InitReader == Init => ReaderInv
<1> SUFFICES ASSUME Init PROVE ReaderInv
    OBVIOUS
<1>1. SegNs = {} BY DEF Init, SegNs
<1>2. reader.open = FALSE BY DEF Init, NoReader
<1>3. QED BY <1>1, <1>2 DEF Init, ReaderInv, LogOrdered

\* Every step of a process that is started once keeps the reader in order.
LEMMA NextReader ==
    ASSUME OneLife, DiskInv, DiskInv', ReaderInv, [Next]_vars
    PROVE  ReaderInv'
<1>1. CASE Writer \/ SyncLoop \/ Pruner
  <2>1. LogOrdered BY DEF ReaderInv
  <2>2. Grown /\ reader' = reader /\ restarts' = restarts /\ running' BY <1>1, <2>1, LogGrows
  <2>3. QED BY <2>2, GrownKeeps
<1>2. CASE Reader BY <1>2, ReaderKeeps
<1>3. CASE Crash \/ Exit
  <2>1. restarts < MaxRestarts /\ restarts = 0 /\ MaxRestarts = 0
    BY <1>3 DEF Crash, Exit, Down, OneLife, ReaderInv, LogOrdered
  <2>2. QED BY <2>1
<1>4. CASE UNCHANGED vars
  <2>1. UNCHANGED <<files, listed, nextLSN, running, restarts, reader>>
    BY <1>4 DEF vars, diskVars, walVars, envVars
  <2>2. SegNs' = SegNs BY <2>1 DEF SegNs
  <2>3. LogOrdered' BY <2>1, <2>2 DEF ReaderInv, LogOrdered
  <2>4. ReaderTypeOK' = ReaderTypeOK BY <2>1, <2>2 DEF ReaderTypeOK
  <2>5. ReaderOrdered' = ReaderOrdered BY <2>1 DEF ReaderOrdered
  <2>6. Forward' = Forward BY <2>1, <2>2 DEF Forward, Passed, SentBelow, Beyond, UpTo
  <2>7. QED BY <2>1, <2>3, <2>4, <2>5, <2>6 DEF ReaderInv
<1>5. QED BY <1>1, <1>2, <1>3, <1>4 DEF Next

\* The inductive invariant of log order and reader position.
THEOREM ReaderInvariance ==
    ASSUME OneLife
    PROVE  Spec => []ReaderInv
<1>1. DiskInv /\ DiskInv' /\ ReaderInv /\ [Next]_vars => ReaderInv' BY NextReader
<1>2. QED BY InitReader, <1>1, DiskInvariance, PTL DEF Spec

\* What a WALReader (wal.go, Next) sends a follower in one life of the process is
\* increasing and not below the LSN it asked for, through every rotation, prune, torn
\* frame and failed append and however old its list of segments is.
THEOREM ReaderIsOrdered ==
    ASSUME OneLife
    PROVE  Spec => []ReaderOrdered
<1>1. ReaderInv => ReaderOrdered BY DEF ReaderInv, ReaderOrdered
<1>2. QED BY <1>1, ReaderInvariance, PTL
================================================================================
