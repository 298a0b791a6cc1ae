---------------------------------- MODULE Wal ----------------------------------
(***************************************************************************)
(* The write-ahead log of wal.go: an append-only log cut into segment       *)
(* files, the group-commit goroutine that fsyncs it, recovery of the next   *)
(* LSN when the log is opened, pruning, and one tailing WALReader (the one   *)
(* StreamWAL in replication/server.go drives for a follower).               *)
(*                                                                         *)
(* A frame on disk is the LSN of a whole entry, or Torn for the bytes an     *)
(* interrupted write leaves behind.  Sizes are counted in frames.  What the  *)
(* process holds is lost in a crash; of the files, every frame covered by an *)
(* fsync survives.                                                          *)
(***************************************************************************)
EXTENDS Integers, Sequences, FiniteSets, SequencesExt

CONSTANTS
    SegmentMaxSize,  \* walSegmentMaxSize, in frames
    MaxLSN,          \* bound: LSNs the log may hand out
    MaxRestarts,     \* bound: times the process may go down and come back
    MaxFaults,       \* bound: failed writes and failed segment creations
    PruneLSNs,       \* the minLSN arguments PruneSegmentsBefore is called with
    FromLSNs         \* the fromLSN arguments NewReader is called with

ASSUME WalAssumption ==
    /\ SegmentMaxSize \in Nat \ {0}
    /\ {MaxLSN, MaxRestarts, MaxFaults} \subseteq Nat
    /\ PruneLSNs \subseteq Nat
    /\ FromLSNs \subseteq Nat

VARIABLES
    files,        \* segment number -> its frames; unlinked files stay readable
    listed,       \* segment numbers with a directory entry
    synced,       \* segment number -> frames covered by an fsync
    running,      \* the process is up and OpenWAL has returned
    currentSegN, currentSize, nextLSN, segOpen, closed,  \* type WAL
    dirty, stopCh, syncPc, syncSeg, syncLen,             \* group commit
    reader,       \* the WALReader, or NoReader
    restarts, faults,
    pruneMark     \* history: the largest minLSN a prune has been called with

diskVars == <<files, listed, synced>>
walVars  == <<running, currentSegN, currentSize, nextLSN, segOpen, closed>>
syncVars == <<dirty, stopCh, syncPc, syncSeg, syncLen>>
envVars  == <<restarts, faults, pruneMark>>
vars     == <<diskVars, walVars, syncVars, reader, envVars>>

Torn     == 0
NoReader == [open |-> FALSE]
NoFile   == -1
SegNs    == DOMAIN files

(***************************************************************************)
(* Helpers of wal.go.                                                       *)
(***************************************************************************)

\* The largest element of a set of naturals, 0 for the empty one.
MaxOf(S) == CHOOSE m \in S \cup {0} : \A n \in S : n <= m

\* listSegments: the directory's segment numbers in sorted order.
listSegments ==
    CHOOSE s \in SetToSeqs(listed) : \A i, j \in DOMAIN s : i < j => s[i] < s[j]

\* The frames a scan from the start of the file can parse: those before the
\* first torn one.  The scan stops there, whatever follows.
Parsable(frames) ==
    {i \in 1..Len(frames) : \A j \in 1..i : frames[j] # Torn}

\* scanSegmentForLastLSN: the highest LSN among the parsable frames, 0 if none.
scanSegmentForLastLSN(segN) ==
    MaxOf({files[segN][i] : i \in Parsable(files[segN])})

\* The next LSN OpenWAL recovers.  Only the last segment is scanned.
RecoverNextLSN(segs) ==
    IF segs = << >> THEN 1 ELSE scanSegmentForLastLSN(Last(segs)) + 1

\* Function f with n mapped to v.
Put(f, n, v) == [x \in DOMAIN f \cup {n} |-> IF x = n THEN v ELSE f[x]]

(***************************************************************************)
(* Opening, appending, closing.                                             *)
(***************************************************************************)

\* OpenWAL: recover the next LSN, open (or create) the last segment for
\* appending, start the group-commit goroutine.
OpenWAL ==
    /\ ~running
    /\ LET segs == listSegments
           n    == IF segs = << >> THEN 0 ELSE Last(segs)
       IN /\ currentSegN' = n
          /\ nextLSN' = RecoverNextLSN(segs)
          /\ listed' = listed \cup {n}
          /\ files' = IF n \in SegNs THEN files ELSE Put(files, n, << >>)
          /\ synced' = IF n \in SegNs THEN synced ELSE Put(synced, n, 0)
          /\ currentSize' = Len(files'[n])
    /\ running' = TRUE
    /\ segOpen' = TRUE
    /\ closed' = FALSE
    /\ dirty' = FALSE
    /\ stopCh' = FALSE
    /\ syncPc' = "select"
    /\ UNCHANGED <<syncSeg, syncLen, reader, envVars>>

\* rotateSegment after a write has left the segment as f: sync and close it,
\* then create the next one.
Rotated(f) ==
    /\ files' = Put(Put(files, currentSegN, f), currentSegN + 1, << >>)
    /\ synced' = Put(Put(synced, currentSegN, Len(f)), currentSegN + 1, 0)
    /\ listed' = listed \cup {currentSegN + 1}
    /\ currentSegN' = currentSegN + 1
    /\ currentSize' = 0
    /\ UNCHANGED <<segOpen, faults>>

\* rotateSegment whose OpenFile fails: the old segment is closed and the
\* number has moved on, but there is no new file behind currentSeg.
RotateFailed(f) ==
    /\ faults < MaxFaults
    /\ faults' = faults + 1
    /\ files' = [files EXCEPT ![currentSegN] = f]
    /\ synced' = [synced EXCEPT ![currentSegN] = Len(f)]
    /\ currentSegN' = currentSegN + 1
    /\ currentSize' = 0
    /\ segOpen' = FALSE
    /\ UNCHANGED listed

\* rotateSegment whose Sync fails: the segment stays open, and over-full.
RotateSyncFailed(f) ==
    /\ faults < MaxFaults
    /\ faults' = faults + 1
    /\ files' = [files EXCEPT ![currentSegN] = f]
    /\ currentSize' = currentSize + 1
    /\ UNCHANGED <<listed, synced, currentSegN, segOpen>>

\* Append: assign the LSN, write the frame to the page cache, mark the log
\* dirty, rotate when the segment is full.
AppendFrame(lsn) ==
    LET f == Append(files[currentSegN], lsn)
    IN IF currentSize + 1 >= SegmentMaxSize
       THEN Rotated(f) \/ RotateFailed(f) \/ RotateSyncFailed(f)
       ELSE /\ files' = [files EXCEPT ![currentSegN] = f]
            /\ currentSize' = currentSize + 1
            /\ UNCHANGED <<listed, synced, currentSegN, segOpen, faults>>

AppendOK ==
    /\ running /\ ~closed /\ segOpen
    /\ nextLSN <= MaxLSN
    /\ nextLSN' = nextLSN + 1
    /\ dirty' = TRUE
    /\ AppendFrame(nextLSN)
    /\ UNCHANGED <<running, closed, stopCh, syncPc, syncSeg, syncLen, reader, restarts, pruneMark>>

\* Append whose Write fails: the LSN is already taken.  An open segment may
\* be left with part of the frame; a closed one takes nothing.
AppendError ==
    /\ running /\ ~closed
    /\ nextLSN <= MaxLSN
    /\ nextLSN' = nextLSN + 1
    /\ IF segOpen
       THEN /\ faults < MaxFaults
            /\ faults' = faults + 1
            /\ \/ files' = [files EXCEPT ![currentSegN] = Append(@, Torn)]
               \/ UNCHANGED files
       ELSE UNCHANGED <<files, faults>>
    /\ UNCHANGED <<listed, synced, running, currentSegN, currentSize, segOpen,
                   closed, syncVars, reader, restarts, pruneMark>>

\* Close, first half: close(stopCh), then wait for the goroutine to exit.
CloseBegin ==
    /\ running /\ ~closed /\ ~stopCh
    /\ stopCh' = TRUE
    /\ UNCHANGED <<diskVars, walVars, dirty, syncPc, syncSeg, syncLen, reader, envVars>>

\* Mutant: no fsync on the way out.
FinalSync_missing == synced

\* The final fsync of syncLoop and of Close.
FinalSync ==
    IF segOpen THEN [synced EXCEPT ![currentSegN] = Len(files[currentSegN])] ELSE synced

\* Close, second half: mark closed, fsync and close the segment.
CloseEnd ==
    /\ running /\ stopCh /\ syncPc = "exited" /\ ~closed
    /\ closed' = TRUE
    /\ synced' = FinalSync
    /\ segOpen' = FALSE
    /\ UNCHANGED <<files, listed, running, currentSegN, currentSize, nextLSN,
                   syncVars, reader, envVars>>

(***************************************************************************)
(* Group commit.                                                            *)
(***************************************************************************)

\* A tick: CompareAndSwap(dirty, true, false).  With stopCh closed as well, the
\* select takes either.
SyncTick ==
    /\ running /\ syncPc = "select" /\ dirty
    /\ dirty' = FALSE
    /\ syncPc' = "grab"
    /\ UNCHANGED <<diskVars, walVars, stopCh, syncSeg, syncLen, reader, envVars>>

\* Take the segment reference under the lock.  The fsync that follows covers
\* at least what the segment holds now.
SyncGrab ==
    /\ running /\ syncPc = "grab"
    /\ syncSeg' = currentSegN
    /\ syncLen' = IF segOpen THEN Len(files[currentSegN]) ELSE 0
    /\ syncPc' = IF closed THEN "select" ELSE "fsync"
    /\ UNCHANGED <<diskVars, walVars, dirty, stopCh, reader, envVars>>

\* Mutant: the flag is cleared once the fsync is done, not before it.
SyncFsync_clearsLate ==
    /\ running /\ syncPc = "fsync"
    /\ synced' = IF syncSeg = currentSegN /\ segOpen
                 THEN [synced EXCEPT ![syncSeg] = IF @ < syncLen THEN syncLen ELSE @]
                 ELSE synced
    /\ dirty' = FALSE
    /\ syncPc' = "select"
    /\ UNCHANGED <<files, listed, walVars, stopCh, syncSeg, syncLen, reader, envVars>>

\* fsync outside the lock; on a segment rotated away meanwhile it returns an
\* error that is ignored.
SyncFsync ==
    /\ running /\ syncPc = "fsync"
    /\ synced' = IF syncSeg = currentSegN /\ segOpen
                 THEN [synced EXCEPT ![syncSeg] = IF @ < syncLen THEN syncLen ELSE @]
                 ELSE synced
    /\ syncPc' = "select"
    /\ UNCHANGED <<files, listed, walVars, dirty, stopCh, syncSeg, syncLen, reader, envVars>>

\* stopCh is closed: final sync under the lock, then exit.
SyncStop ==
    /\ running /\ syncPc = "select" /\ stopCh
    /\ IF dirty /\ ~closed
       THEN /\ synced' = FinalSync
            /\ dirty' = FALSE
       ELSE UNCHANGED <<synced, dirty>>
    /\ syncPc' = "exited"
    /\ UNCHANGED <<files, listed, walVars, stopCh, syncSeg, syncLen, reader, envVars>>

(***************************************************************************)
(* Pruning.                                                                 *)
(***************************************************************************)

\* Mutant: a segment that ends with minLSN itself goes too.
Prunable_offByOne(segN, minLSN) ==
    /\ segN < currentSegN
    /\ scanSegmentForLastLSN(segN) # 0
    /\ scanSegmentForLastLSN(segN) <= minLSN

\* PruneSegmentsBefore's choice of segments: inactive, readable, and with no
\* parsable entry at or above minLSN.
Prunable(segN, minLSN) ==
    /\ segN < currentSegN
    /\ scanSegmentForLastLSN(segN) # 0
    /\ scanSegmentForLastLSN(segN) < minLSN

PruneSegmentsBefore(minLSN) ==
    /\ running
    /\ listed' = {n \in listed : ~Prunable(n, minLSN)}
    /\ listed' # listed
    /\ pruneMark' = IF minLSN > pruneMark THEN minLSN ELSE pruneMark
    /\ UNCHANGED <<files, synced, walVars, syncVars, reader, restarts, faults>>

(***************************************************************************)
(* The reader.  Next is a loop; each action below is one turn of it, cut    *)
(* where another goroutine can come between a read and the directory         *)
(* listing that follows it.                                                 *)
(***************************************************************************)

NewReader(fromLSN) ==
    /\ running /\ ~reader.open
    /\ reader' = [open |-> TRUE, segments |-> listSegments, segIdx |-> 1,
                  file |-> NoFile, pos |-> 0, fromLSN |-> fromLSN,
                  pc |-> "next", eof |-> FALSE, out |-> << >>]
    /\ UNCHANGED <<diskVars, walVars, syncVars, envVars>>

\* No file open: refresh the list if it is exhausted, open the segment.  An
\* open of a pruned segment fails and StreamWAL ends the stream with it.
ReaderOpen ==
    /\ running /\ reader.open /\ reader.pc = "next" /\ reader.file = NoFile
    /\ LET segs == IF reader.segIdx > Len(reader.segments)
                   THEN listSegments ELSE reader.segments
       IN reader' =
            IF reader.segIdx > Len(segs)
            THEN [reader EXCEPT !.segments = segs, !.eof = TRUE]
            ELSE IF segs[reader.segIdx] \in listed
                 THEN [reader EXCEPT !.segments = segs, !.pos = 0,
                                     !.file = segs[reader.segIdx], !.eof = FALSE]
                 ELSE NoReader
    /\ UNCHANGED <<diskVars, walVars, syncVars, envVars>>

Frames == files[reader.file]

\* Mutant: the index stays, so the same segment is opened again.
NextSegment_sameIndex(segs) ==
    [reader EXCEPT !.file = NoFile, !.segments = segs, !.pc = "next"]

\* Give up on this file and go to the next segment of the list.
NextSegment(segs) ==
    [reader EXCEPT !.file = NoFile, !.segments = segs, !.segIdx = @ + 1, !.pc = "next"]

\* A whole frame: returned when its LSN is at least fromLSN, else skipped.
ReaderFrame ==
    /\ running /\ reader.open /\ reader.pc = "next" /\ reader.file # NoFile
    /\ reader.pos < Len(Frames)
    /\ Frames[reader.pos + 1] # Torn
    /\ LET lsn == Frames[reader.pos + 1]
       IN reader' = [reader EXCEPT !.pos = @ + 1, !.eof = FALSE,
                                   !.out = IF lsn < reader.fromLSN THEN @ ELSE Append(@, lsn)]
    /\ UNCHANGED <<diskVars, walVars, syncVars, envVars>>

\* A torn frame with frames behind it: the length of the torn header runs over
\* the bytes that follow.  Either the checksum fails and the rest of the
\* segment is skipped, or the read is short and has consumed the file.
ReaderTorn ==
    /\ running /\ reader.open /\ reader.pc = "next" /\ reader.file # NoFile
    /\ reader.pos < Len(Frames)
    /\ Frames[reader.pos + 1] = Torn
    /\ \/ /\ reader.pos + 1 < Len(Frames)
          /\ reader' = NextSegment(reader.segments)
       \/ reader' = [reader EXCEPT !.pos = Len(Frames), !.pc = "list"]
    /\ UNCHANGED <<diskVars, walVars, syncVars, envVars>>

\* The read hits the end of the file.
ReaderEOF ==
    /\ running /\ reader.open /\ reader.pc = "next" /\ reader.file # NoFile
    /\ reader.pos = Len(Frames)
    /\ reader' = [reader EXCEPT !.pc = "list"]
    /\ UNCHANGED <<diskVars, walVars, syncVars, envVars>>

\* The list that follows: a longer list than the one held means the segment
\* is complete and the next one is taken, otherwise Next returns io.EOF.
ReaderList ==
    /\ running /\ reader.open /\ reader.pc = "list"
    /\ reader' = IF Len(listSegments) > Len(reader.segments)
                 THEN NextSegment(listSegments)
                 ELSE [reader EXCEPT !.pc = "next", !.eof = TRUE]
    /\ UNCHANGED <<diskVars, walVars, syncVars, envVars>>

\* The follower disconnects, or an error ends the stream: WALReader.Close.
ReaderClose ==
    /\ reader.open
    /\ reader' = NoReader
    /\ UNCHANGED <<diskVars, walVars, syncVars, envVars>>

(***************************************************************************)
(* Going down.                                                              *)
(***************************************************************************)

\* The process is gone: its memory, goroutines and readers with it.
Down ==
    /\ running /\ restarts < MaxRestarts
    /\ restarts' = restarts + 1
    /\ running' = FALSE
    /\ segOpen' = FALSE
    /\ currentSize' = 0
    /\ dirty' = FALSE /\ stopCh' = FALSE /\ syncPc' = "exited"
    /\ reader' = NoReader
    /\ UNCHANGED <<currentSegN, nextLSN, syncSeg, syncLen, faults, pruneMark>>

\* A crash.  Every segment keeps its fsynced frames, some of the others, and
\* possibly the torn start of the first one lost; a segment created and never
\* fsynced may lose its directory entry.
Crash ==
    /\ Down
    /\ closed' = FALSE
    /\ \E cut \in [listed -> 0..MaxOf({Len(files[n]) : n \in listed})], torn, gone \in SUBSET listed :
         /\ \A n \in listed : cut[n] \in synced[n]..Len(files[n])
         /\ \A n \in torn : cut[n] < Len(files[n])
         /\ \A n \in gone : synced[n] = 0 /\ cut[n] = 0 /\ n \notin torn
         /\ listed' = listed \ gone
         /\ files' = [n \in listed \ gone |->
                        SubSeq(files[n], 1, cut[n]) \o (IF n \in torn THEN <<Torn>> ELSE << >>)]
         /\ synced' = [n \in listed \ gone |-> Len(files'[n])]

\* A clean exit after Close has returned.
Exit ==
    /\ Down
    /\ closed
    /\ files' = [n \in listed |-> files[n]]
    /\ synced' = [n \in listed |-> synced[n]]
    /\ UNCHANGED <<listed, closed>>

(***************************************************************************)
(* The specification.                                                       *)
(***************************************************************************)

Init ==
    /\ files = << >> /\ listed = {} /\ synced = << >>
    /\ running = FALSE /\ currentSegN = 0 /\ currentSize = 0
    /\ nextLSN = 1 /\ segOpen = FALSE /\ closed = FALSE
    /\ dirty = FALSE /\ stopCh = FALSE /\ syncPc = "exited" /\ syncSeg = 0 /\ syncLen = 0
    /\ reader = NoReader
    /\ restarts = 0 /\ faults = 0 /\ pruneMark = 0

Writer   == OpenWAL \/ AppendOK \/ AppendError \/ CloseBegin \/ CloseEnd
SyncLoop == SyncTick \/ SyncGrab \/ SyncFsync \/ SyncStop
Pruner   == \E m \in PruneLSNs : PruneSegmentsBefore(m)
Reader   == \/ \E l \in FromLSNs : NewReader(l)
            \/ ReaderOpen \/ ReaderFrame \/ ReaderTorn
            \/ ReaderEOF \/ ReaderList \/ ReaderClose

Next == Writer \/ SyncLoop \/ Pruner \/ Reader \/ Crash \/ Exit

\* The goroutine of syncLoop is scheduled and its ticker keeps ticking; a
\* caller inside Close goes on once the goroutine has exited.
Fairness ==
    /\ WF_vars(SyncTick) /\ WF_vars(SyncGrab) /\ WF_vars(SyncFsync) /\ WF_vars(SyncStop)
    /\ WF_vars(CloseEnd)

Spec == Init /\ [][Next]_vars /\ Fairness

(***************************************************************************)
(* Properties.                                                              *)
(***************************************************************************)

\* Frame i of segment n is an entry.
EntryAt(n, i) == i \in 1..Len(files[n]) /\ files[n][i] # Torn

\* Group commit (wal.go:78-82): whenever the goroutine has nothing to do, no
\* entry in the page cache is waiting for an fsync.  The flag is cleared
\* before the segment is looked up, and the segment may be rotated away before
\* it is synced; neither may leave an entry behind.
GroupCommit ==
    running /\ ~closed /\ ~dirty /\ syncPc \in {"select", "exited"} =>
        \A n \in listed : \A i \in 1..Len(files[n]) : EntryAt(n, i) => i <= synced[n]

\* Only the active segment may hold entries a crash can take: rotation and
\* Close sync what they leave behind, so a log closed cleanly loses nothing.
SealedDurable ==
    \A n \in listed : \A i \in 1..Len(files[n]) :
        EntryAt(n, i) /\ i > synced[n] => n = currentSegN /\ segOpen

\* What a follower is sent: increasing LSNs, none below the one it asked for,
\* through rotation, pruning, torn frames and failed appends.
ReaderOrdered ==
    reader.open =>
        /\ \A i \in 1..Len(reader.out) : reader.out[i] >= reader.fromLSN
        /\ \A i, j \in 1..Len(reader.out) : i < j => reader.out[i] < reader.out[j]

\* The entries a new reader of the directory could parse, and all of them.
ReadableLSNs == UNION {{files[n][i] : i \in Parsable(files[n])} : n \in listed}
LoggedLSNs   == UNION {Range(files[n]) : n \in listed} \ {Torn}

\* An entry leaves the readable log only in a crash or by a prune whose minLSN
\* is above it: what some follower may still ask for is kept (wal.go:561-563).
PruneKeepsUnacked ==
    [][\A l \in ReadableLSNs \ ReadableLSNs' : restarts' # restarts \/ l < pruneMark']_vars

\* Frames covered by an fsync.
DurableLSNs == UNION {{files[n][i] : i \in 1..synced[n]} : n \in listed} \ {Torn}

\* An entry is on stable storage after a bounded delay, unless the process
\* goes down first: no lost wake-up of the group-commit goroutine.
EventuallyDurable ==
    \A l \in 1..MaxLSN :
        (running /\ l \in LoggedLSNs) ~> (l \in DurableLSNs \/ ~running \/ l \notin LoggedLSNs)
================================================================================
