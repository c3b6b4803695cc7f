----------------------------- MODULE DiskBuffer -----------------------------
(***************************************************************************)
(* The disk backlog of a session (internal/replica/diskbuffer.go): a       *)
(* directory of segment files, and the handle through which consume        *)
(* appends and Release reads.  With keep (buffer_fsync=durable) segments   *)
(* are retained until Release has finished and adopted by the next process.*)
(*                                                                         *)
(* Records are numbered in stream order.  A segment file is the sequence   *)
(* of the records in it, possibly followed by a torn frame; ro counts the  *)
(* records read from the first listed segment (the code's rs is always 0). *)
(* Process crashes are modelled, power loss is not: with fsync off the     *)
(* page cache is the disk.                                                 *)
(***************************************************************************)
EXTENDS Integers, Sequences, FiniteSets, FiniteSetsExt

CONSTANTS
  Records,   \* records the stream carries
  Size,      \* bytes of each record's frame
  SegBytes,  \* segment size
  High,      \* buffered bytes at which appends block
  Capacity,  \* bytes the file system holds before the reserve is touched
  Batch,     \* records one next returns at most
  MaxSegs,   \* bound on the segment files of one backlog
  Faults     \* subset of {"crash", "write"}

ASSUME SizeAssumption == Records \in Nat /\ Size \in [1 .. Records -> 1 .. SegBytes]
ASSUME LimitAssumption ==
  /\ MaxSegs \in Nat \ {0} /\ SegBytes \in Nat \ {0} /\ High \in Nat \ {0} /\ Batch \in Nat \ {0}
  /\ Capacity \in Nat /\ SegBytes <= Capacity

VARIABLES
  keep,      \* configuration: retain drained segments, adopt them at restart
  dir,       \* the directory: file by ordinal
  up,        \* process: down, up, released, refused
  handle,    \* r.buf: none or open
  segs,      \* ordinals of the listed segments, oldest first
  ro, written, drainedB, appended, drainedC, created, adopted, blocked, err,
  lock,      \* b.mu: free, writer, reader
  got,       \* records the running next has returned
  wpc,       \* consume: idle, append
  first, nextRec,  \* where this backlog begins, and the stream's next record
  readPos    \* last record Release was given (history)

countVars == <<written, drainedB, appended, drainedC, created, adopted>>
streamVars == <<first, nextRec, readPos>>
vars == <<keep, dir, up, handle, segs, ro, countVars, blocked, err, lock, got,
          wpc, streamVars>>

Names == 0 .. (MaxSegs - 1)
NoFile == [there |-> FALSE, start |-> 0, recs |-> <<>>, torn |-> FALSE]
NewFile(r) == [there |-> TRUE, start |-> r, recs |-> <<>>, torn |-> FALSE]

Present == {n \in Names : dir[n].there}

BytesOf(s) == MapThenSumSet(LAMBDA i : Size[s[i]], 1 .. Len(s))
DirBytes == MapThenSumSet(LAMBDA n : BytesOf(dir[n].recs), Present)

\* The files of the directory in the order of their names (sort.Strings).
Listed(S) ==
  [i \in 1 .. Cardinality(S) |-> CHOOSE n \in S : Cardinality({m \in S : m < n}) = i - 1]

Head1 == dir[segs[1]]            \* the segment being read
LastSeg == segs[Len(segs)]       \* the segment open for writes

Pending  == appended - drainedC
Buffered == written - drainedB

Init ==
  /\ keep \in BOOLEAN /\ dir = [n \in Names |-> NoFile]
  /\ up = "up" /\ handle = "none" /\ segs = <<>> /\ ro = 0
  /\ written = 0 /\ drainedB = 0 /\ appended = 0 /\ drainedC = 0
  /\ created = 0 /\ adopted = FALSE /\ blocked = FALSE /\ err = FALSE
  /\ lock = "free" /\ got = 0 /\ wpc = "idle"
  /\ first = 1 /\ nextRec = 1 /\ readPos = 0

-----------------------------------------------------------------------------
(* consume and append *)

\* Altered form: adopt does not count the files it finds.
AdoptUncounted ==
  /\ segs' = Listed(Present) /\ written' = DirBytes
  /\ created' = 0 /\ adopted' = (Present # {})
  /\ UNCHANGED dir

\* newDiskBuffer with keep: every segment in the directory is listed again.
Adopt ==
  /\ segs' = Listed(Present) /\ written' = DirBytes
  /\ created' = Cardinality(Present) /\ adopted' = (Present # {})
  /\ UNCHANGED dir

\* newDiskBuffer without keep: what a crashed run left is removed.
StartEmpty ==
  /\ dir' = [n \in Names |-> NoFile] /\ segs' = <<>>
  /\ written' = 0 /\ created' = 0 /\ adopted' = FALSE

\* consume claims a slot and, for a session's first buffered entry, opens the
\* buffer (newBufferLocked).
AppendBegin ==
  /\ up = "up" /\ wpc = "idle" /\ ~err /\ nextRec <= Records
  /\ wpc' = "append"
  /\ IF handle = "open"
     THEN UNCHANGED <<handle, dir, segs, ro, countVars>>
     ELSE /\ handle' = "open" /\ (IF keep THEN Adopt ELSE StartEmpty)
          /\ ro' = 0 /\ drainedB' = 0 /\ appended' = 0 /\ drainedC' = 0
  /\ UNCHANGED <<keep, up, blocked, err, lock, got, streamVars>>

\* The watermark: engaged at High, released below half of it; and the reserve.
Watermark == Buffered >= High \/ (blocked /\ Buffered >= High \div 2)
FsHasRoom == DirBytes <= Capacity

AppendWait ==
  /\ wpc = "append" /\ lock = "free" /\ ~err /\ Watermark /\ ~blocked
  /\ blocked' = TRUE
  /\ UNCHANGED <<keep, dir, up, handle, segs, ro, countVars, err, lock, got, wpc,
                 streamVars>>

MustRotate ==
  segs # <<>> =>
    /\ dir[LastSeg].recs # <<>>
    /\ BytesOf(dir[LastSeg].recs) + Size[nextRec] > SegBytes

MayWrite == wpc = "append" /\ lock = "free" /\ ~err /\ ~Watermark /\ FsHasRoom

\* rotateLocked: a file of the next ordinal is created, or truncated.
AppendRotate ==
  /\ MayWrite /\ MustRotate /\ created < MaxSegs
  /\ lock' = "writer" /\ blocked' = FALSE
  /\ dir' = [dir EXCEPT ![created] = NewFile(nextRec)]
  /\ segs' = Append(segs, created) /\ created' = created + 1
  /\ UNCHANGED <<keep, up, handle, ro, written, drainedB, appended, drainedC,
                 adopted, err, got, wpc, streamVars>>

WriteTurn == lock = "writer" \/ (MayWrite /\ ~MustRotate)

\* writeLocked: the frame goes to the end of the last segment.
AppendWrite ==
  /\ WriteTurn
  /\ dir' = [dir EXCEPT ![LastSeg].recs = Append(@, nextRec)]
  /\ written' = written + Size[nextRec] /\ appended' = appended + 1
  /\ nextRec' = nextRec + 1
  /\ lock' = "free" /\ blocked' = FALSE /\ wpc' = "idle"
  /\ UNCHANGED <<keep, up, handle, segs, ro, drainedB, drainedC, created, adopted,
                 err, got, first, readPos>>

\* The write fails, with part of the frame behind the segment's last record.
AppendTorn ==
  /\ WriteTurn /\ "write" \in Faults
  /\ dir' = [dir EXCEPT ![LastSeg].torn = TRUE]
  /\ err' = TRUE /\ lock' = "free" /\ blocked' = FALSE /\ wpc' = "idle"
  /\ UNCHANGED <<keep, up, handle, segs, ro, countVars, got, streamVars>>

-----------------------------------------------------------------------------
(* Release and next; b.mu is held from NextBegin to NextEnd *)

NextBegin ==
  /\ up = "up" /\ handle = "open" /\ lock = "free" /\ ~err
  /\ Pending > 0 \/ wpc = "append"
  /\ lock' = "reader" /\ got' = 0
  /\ UNCHANGED <<keep, dir, up, handle, segs, ro, countVars, blocked, err, wpc,
                 streamVars>>

\* Altered forms: the offset is not reset; the file is not removed.
NextDropKeepsOffset ==
  /\ lock = "reader" /\ got < Batch /\ segs # <<>>
  /\ ro >= Len(Head1.recs) /\ (Len(segs) > 1 \/ Head1.recs = <<>>)
  /\ dir' = IF keep THEN dir ELSE [dir EXCEPT ![segs[1]] = NoFile]
  /\ segs' = Tail(segs)
  /\ UNCHANGED <<keep, up, handle, ro, countVars, blocked, err, lock, got, wpc,
                 streamVars>>
NextDropKeepsFile ==
  /\ lock = "reader" /\ got < Batch /\ segs # <<>>
  /\ ro >= Len(Head1.recs) /\ (Len(segs) > 1 \/ Head1.recs = <<>>)
  /\ segs' = Tail(segs) /\ ro' = 0
  /\ UNCHANGED <<keep, dir, up, handle, countVars, blocked, err, lock, got, wpc,
                 streamVars>>

\* A segment that is read to its end leaves the list, unless it is the one being
\* written; without keep its file goes too.
NextDrop ==
  /\ lock = "reader" /\ got < Batch /\ segs # <<>>
  /\ ro >= Len(Head1.recs) /\ (Len(segs) > 1 \/ Head1.recs = <<>>)
  /\ dir' = IF keep THEN dir ELSE [dir EXCEPT ![segs[1]] = NoFile]
  /\ segs' = Tail(segs) /\ ro' = 0
  /\ UNCHANGED <<keep, up, handle, countVars, blocked, err, lock, got, wpc,
                 streamVars>>

\* Altered form: the record is not counted as drained.
NextReadUncounted ==
  /\ lock = "reader" /\ got < Batch /\ segs # <<>> /\ ro < Len(Head1.recs)
  /\ readPos' = Head1.recs[ro + 1]
  /\ drainedB' = drainedB + Size[readPos']
  /\ ro' = ro + 1 /\ got' = got + 1
  /\ UNCHANGED <<keep, dir, up, handle, segs, written, appended, drainedC, created,
                 adopted, blocked, err, lock, wpc, first, nextRec>>

NextRead ==
  /\ lock = "reader" /\ got < Batch /\ segs # <<>> /\ ro < Len(Head1.recs)
  /\ readPos' = Head1.recs[ro + 1]
  /\ drainedB' = drainedB + Size[readPos'] /\ drainedC' = drainedC + 1
  /\ ro' = ro + 1 /\ got' = got + 1
  /\ UNCHANGED <<keep, dir, up, handle, segs, written, appended, created, adopted,
                 blocked, err, lock, wpc, first, nextRec>>

NextEnd ==
  /\ lock = "reader"
  /\ got < Batch /\ segs # <<>> =>
       ro >= Len(Head1.recs) /\ Len(segs) = 1 /\ Head1.recs # <<>>
  /\ lock' = "free"
  /\ UNCHANGED <<keep, dir, up, handle, segs, ro, countVars, blocked, err, got, wpc,
                 streamVars>>

\* Release finds nothing pending and no append in flight, opens the gate and
\* discards the buffer with its directory; without a buffer there is nothing
\* to discard.
Discard ==
  /\ up = "up" /\ wpc = "idle" /\ lock = "free"
  /\ handle = "open" => Pending <= 0
  /\ up' = "released" /\ handle' = "none"
  /\ dir' = IF handle = "open" THEN [n \in Names |-> NoFile] ELSE dir
  /\ segs' = <<>> /\ ro' = 0
  /\ UNCHANGED <<keep, countVars, blocked, err, lock, got, wpc, streamVars>>

-----------------------------------------------------------------------------
(* The end of a process and the start of the next one *)

\* The process dies, or ends because append or next reported the sticky error.
\* Files stay; the handle is gone.
Crash ==
  /\ up \in {"up", "released"} /\ ("crash" \in Faults \/ err)
  /\ up' = "down" /\ handle' = "none" /\ segs' = <<>> /\ ro' = 0
  /\ written' = 0 /\ drainedB' = 0 /\ appended' = 0 /\ drainedC' = 0
  /\ created' = 0 /\ adopted' = FALSE
  /\ blocked' = FALSE /\ err' = FALSE /\ lock' = "free" /\ got' = 0 /\ wpc' = "idle"
  /\ readPos' = first - 1
  /\ UNCHANGED <<keep, dir, first, nextRec>>

\* Altered form: the last record of the first segment.
TailFirstSegment ==
  Max({0} \cup {dir[n].recs[Len(dir[n].recs)] :
                  n \in {m \in Present : m = 0 /\ dir[m].recs # <<>>}})

\* tail: the last record a scan of the listed segments ends at, 0 if there is none.
TailRecord ==
  Max({0} \cup {dir[n].recs[Len(dir[n].recs)] :
                  n \in {m \in Present : dir[m].recs # <<>>}})

\* PrepareBacklog and Shutdown of the probe: the stream attaches behind the tail,
\* or at the anchor if the backlog is empty.  A torn frame makes tail fail, and
\* the process ends with that error.
Resume ==
  /\ up = "down" /\ keep
  /\ IF \E n \in Present : dir[n].torn
     THEN up' = "refused" /\ nextRec' = nextRec
     ELSE up' = "up" /\ nextRec' = IF TailRecord = 0 THEN first ELSE TailRecord + 1
  /\ UNCHANGED <<keep, dir, handle, segs, ro, countVars, blocked, err, lock, got, wpc,
                 first, readPos>>

\* A full re-scan: a new backlog begins; with keep the directory is wiped now
\* (WipeBacklog), without it when the buffer is opened.
Rescan ==
  /\ up = "down" /\ up' = "up"
  /\ dir' = IF keep THEN [n \in Names |-> NoFile] ELSE dir
  /\ first' = nextRec /\ readPos' = nextRec - 1
  /\ UNCHANGED <<keep, handle, segs, ro, countVars, blocked, err, lock, got, wpc,
                 nextRec>>

-----------------------------------------------------------------------------
AppendCall == AppendWait \/ AppendRotate \/ AppendWrite \/ AppendTorn
NextCall == NextDrop \/ NextRead \/ NextEnd

Next ==
  \/ AppendBegin \/ AppendCall \/ NextBegin \/ NextCall \/ Discard
  \/ Crash \/ Resume \/ Rescan

Spec == Init /\ [][Next]_vars

\* A call of append goes on and Release keeps reading what is pending, although
\* both need b.mu (a sync.Mutex does not starve a waiter); a process whose buffer
\* failed ends.
FairSpec ==
  /\ Spec /\ SF_vars(AppendCall) /\ WF_vars(NextCall) /\ SF_vars(NextBegin)
  /\ WF_vars(err /\ Crash)

-----------------------------------------------------------------------------
\* The backlog keeps the order the session relies on: every read returns the
\* record behind the last one read, through rotation, deletion and adoption, and
\* a restart neither skips nor repeats a record of the stream.
Queue == INSTANCE BacklogQueue WITH last <- nextRec - 1, cursor <- readPos
KeepsOrder == Queue!Spec

\* With keep the directory holds, in the order of the names, all the backlog's
\* records and no other, whatever has been read, until Release has finished: the
\* "whole backlog must stay replayable for crash-resume" (newBufferLocked).
Replayable ==
  keep /\ up # "released" /\ Present # {} =>
    /\ Present = 0 .. (Cardinality(Present) - 1)
    /\ dir[0].start = first
    /\ \A n \in Present :
         /\ \A i \in 1 .. Len(dir[n].recs) : dir[n].recs[i] = dir[n].start + i - 1
         /\ dir[n].start + Len(dir[n].recs) =
              IF n + 1 \in Present THEN dir[n + 1].start ELSE nextRec

\* The count Release decides on is the number of records it has not been given,
\* unless the buffer was adopted (adopt does not count the records it finds):
\* the gate opens neither early nor never.
PendingExact ==
  handle = "open" /\ ~adopted => Pending = nextRec - 1 - readPos

\* "adopt the retained backlog, ... finish emission and drain" (runDbsyncResume):
\* when Release opens the gate it has been given every record of the backlog,
\* those a crashed process left behind included.
ReleaseDrains == up = "released" => readPos = nextRec - 1

\* Without keep a blocked append goes on once Release reads: neither the
\* watermark nor the reserve waits for room that reading does not free.
AppendResumes == ~keep /\ wpc = "append" ~> wpc = "idle"

\* Every variable stays in its range; the handle lists files of the directory.
TypeOK ==
  /\ keep \in BOOLEAN
  /\ dir \in [Names -> [there : BOOLEAN, start : 0 .. Records + 1,
                        recs : Seq(1 .. Records), torn : BOOLEAN]]
  /\ up \in {"down", "up", "released", "refused"} /\ handle \in {"none", "open"}
  /\ segs \in Seq(Names) /\ ro \in Nat /\ created \in 0 .. MaxSegs
  /\ appended \in Nat /\ drainedC \in Nat
  /\ adopted \in BOOLEAN /\ blocked \in BOOLEAN /\ err \in BOOLEAN
  /\ lock \in {"free", "writer", "reader"} /\ got \in 0 .. Batch
  /\ wpc \in {"idle", "append"}
  /\ first \in 1 .. Records + 1 /\ nextRec \in first .. Records + 1
  /\ readPos \in (first - 1) .. (nextRec - 1)
  /\ \A i \in 1 .. Len(segs) : dir[segs[i]].there

=============================================================================
