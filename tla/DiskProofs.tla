----------------------------- MODULE DiskProofs -----------------------------
(***************************************************************************)
(* Proofs about DiskBuffer: for every stream, segment size, watermark and  *)
(* number of crashes, the backlog on disk is the part of the stream it     *)
(* should be, and Release reads it in order.                               *)
(***************************************************************************)
EXTENDS DiskBuffer, FiniteSetTheorems, TLAPS

\* Unless a step says otherwise: Z3, then Zenon, then Z3 with more time.
USE SMTT(10), ZenonT(20), Z3T(30)

SegmentFiles == [there : BOOLEAN, start : Nat, recs : Seq(Nat), torn : BOOLEAN]

Types ==
  /\ dir \in [Names -> SegmentFiles] /\ segs \in Seq(Names)
  /\ ro \in Nat /\ created \in Nat /\ appended \in Nat /\ drainedC \in Nat
  /\ first \in Nat \ {0} /\ nextRec \in Nat /\ readPos \in Nat /\ first <= nextRec

\* The record behind the last one of file n.
Ends(n) == dir[n].start + Len(dir[n].recs)

ControlInv ==
  /\ wpc = "append" \/ lock # "free" => handle = "open"
  /\ lock = "writer" => segs # <<>>
  /\ handle = "open" => up = "up"
  /\ handle \in {"none", "open"}
  /\ up = "down" => readPos = first - 1
  /\ up = "up" /\ handle = "none" =>
       readPos = IF keep THEN first - 1 ELSE nextRec - 1
  /\ keep /\ up = "up" /\ Present = {} => nextRec = first

\* Files hold consecutive records, each file goes on where the one before it
\* ends, and the last one ends where the stream is.
FileInv(n) ==
  /\ \A i \in 1 .. Len(dir[n].recs) : dir[n].recs[i] = dir[n].start + i - 1
  /\ dir[n].start >= first /\ Ends(n) <= nextRec
  /\ Ends(n) = IF n + 1 \in Present THEN dir[n + 1].start ELSE nextRec

DirInv == keep \/ handle = "open" => \A n \in Present : FileInv(n)

\* Retained files are numbered from 0 and begin with the backlog's first record.
KeepInv ==
  keep =>
    /\ \E k \in 0 .. MaxSegs : Present = 0 .. (k - 1)
    /\ Present # {} => dir[0].start = first
    /\ Present # {} /\ nextRec > first =>
         \E n \in Present : dir[n].recs # <<>> /\ Ends(n) = nextRec

\* The listed segments are the newest files, the read offset is in the first one.
SegInv ==
  handle = "open" =>
    /\ Len(segs) <= created /\ created <= MaxSegs
    /\ \A i \in 1 .. Len(segs) : segs[i] = created - Len(segs) + i - 1
    /\ Present = (IF keep THEN 0 ELSE created - Len(segs)) .. (created - 1)
    /\ segs # <<>> => dir[segs[1]].start + ro = readPos + 1 /\ ro <= Len(dir[segs[1]].recs)
    /\ segs = <<>> => readPos + 1 = nextRec /\ ro = 0

DiskInv == Types /\ ControlInv /\ DirInv /\ KeepInv /\ SegInv /\ PendingExact

LEMMA NameFacts == MaxSegs \in Nat \ {0} /\ \A n : n \in Names <=> n \in 0 .. (MaxSegs - 1)
BY LimitAssumption DEF Names

LEMMA InitInv == Init => DiskInv
<1> SUFFICES ASSUME Init PROVE DiskInv
  OBVIOUS
<1> USE NameFacts DEF Init
<1>1. NoFile \in SegmentFiles /\ NoFile.there = FALSE
  BY DEF NoFile, SegmentFiles
<1>2. Types
  BY <1>1 DEF Types
<1>3. Present = {}
  BY <1>1 DEF Present
<1>4. KeepInv
  <2>1. 0 \in 0 .. MaxSegs /\ 0 .. (0 - 1) = {}
    OBVIOUS
  <2> QED
    BY <1>3, <2>1 DEF KeepInv
<1>5. ControlInv /\ DirInv /\ SegInv /\ PendingExact
  BY <1>3 DEF ControlInv, DirInv, SegInv, PendingExact
<1> QED
  BY <1>2, <1>4, <1>5 DEF DiskInv

\* A step that leaves records, list and stream alone keeps what is said of them.
LEMMA FilesKept ==
  ASSUME Types, DirInv, KeepInv, SegInv, handle' = handle,
         \A n \in Names : /\ dir'[n].there = dir[n].there /\ dir'[n].start = dir[n].start
                          /\ dir'[n].recs = dir[n].recs,
         UNCHANGED <<keep, segs, ro, created, first, nextRec, readPos>>
  PROVE  DirInv' /\ KeepInv' /\ SegInv' /\ Present' = Present
<1>1. Present' = Present /\ Present \subseteq Names
  BY DEF Present
<1>2. \A n \in Present : dir'[n].start = dir[n].start /\ dir'[n].recs = dir[n].recs
  BY <1>1
<1>3. \A n \in Present : Ends(n)' = Ends(n) /\ (FileInv(n)' <=> FileInv(n))
  BY <1>1, <1>2 DEF Ends, FileInv
<1>4. DirInv'
  BY <1>1, <1>3 DEF DirInv
<1>5. KeepInv'
  <2>1. keep /\ Present # {} => 0 \in Present
    BY DEF KeepInv
  <2> QED
    BY <1>1, <1>2, <1>3, <2>1 DEF KeepInv
<1>6. SegInv'
  <2>1. segs # <<>> => segs[1] \in Names
    BY DEF Types
  <2> QED
    BY <1>1, <2>1 DEF SegInv
<1> QED
  BY <1>1, <1>4, <1>5, <1>6

\* What the listed segments say of the files.
LEMMA SegFacts ==
  ASSUME Types, DirInv, SegInv, handle = "open"
  PROVE  /\ Len(segs) \in Nat
         /\ \A i \in 1 .. Len(segs) : segs[i] \in Present /\ FileInv(segs[i])
         /\ segs # <<>> => /\ LastSeg = created - 1 /\ LastSeg \in Present
                           /\ Ends(LastSeg) = nextRec /\ Len(segs) > 0
         /\ created \notin Present
<1>1. Len(segs) \in Nat /\ created \in Nat
  BY DEF Types
<1>2. created \notin Present
  BY <1>1 DEF SegInv
<1>3. \A i \in 1 .. Len(segs) : segs[i] \in Present /\ FileInv(segs[i])
  <2> TAKE i \in 1 .. Len(segs)
  <2>1. segs[i] = created - Len(segs) + i - 1 /\ Len(segs) <= created
    BY DEF SegInv
  <2>2. segs[i] \in (created - Len(segs)) .. (created - 1) /\ created - Len(segs) >= 0
    BY <1>1, <2>1
  <2>3. segs[i] \in Present
    BY <1>1, <2>2 DEF SegInv
  <2> QED
    BY <2>3 DEF DirInv
<1>4. ASSUME segs # <<>>
      PROVE  /\ LastSeg = created - 1 /\ LastSeg \in Present
             /\ Ends(LastSeg) = nextRec /\ Len(segs) > 0
  <2>1. Len(segs) \in 1 .. Len(segs)
    BY <1>1, <1>4 DEF Types
  <2>2. LastSeg = created - 1 /\ LastSeg + 1 = created
    BY <1>1, <2>1 DEF SegInv, LastSeg
  <2>3. LastSeg \in Present /\ FileInv(LastSeg)
    BY <1>3, <2>1 DEF LastSeg
  <2>4. Ends(LastSeg) = nextRec
    BY <1>2, <2>2, <2>3 DEF FileInv
  <2> QED
    BY <1>1, <2>1, <2>2, <2>3, <2>4
<1> QED
  BY <1>1, <1>2, <1>3, <1>4

\* Files numbered from 0 are listed in the order of their numbers.
LEMMA ListedInterval ==
  ASSUME NEW k \in Nat
  PROVE  /\ Cardinality(0 .. (k - 1)) = k
         /\ Listed(0 .. (k - 1)) = [i \in 1 .. k |-> i - 1]
<1>1. ASSUME NEW n \in Nat PROVE Cardinality(0 .. (n - 1)) = n
  <2>1. 0 \in Int /\ n - 1 \in Int
    OBVIOUS
  <2>2. Cardinality(0 .. (n - 1)) = IF 0 > n - 1 THEN 0 ELSE (n - 1) - 0 + 1
    BY <2>1, FS_Interval, Zenon
  <2> QED
    BY <2>2
<1> DEFINE S == 0 .. (k - 1)
<1>2. ASSUME NEW i \in 1 .. k
      PROVE  (CHOOSE n \in S : Cardinality({m \in S : m < n}) = i - 1) = i - 1
  <2>1. ASSUME NEW n \in S PROVE Cardinality({m \in S : m < n}) = n
    <3>1. {m \in S : m < n} = 0 .. (n - 1) /\ n \in Nat
      OBVIOUS
    <3> QED
      BY <1>1, <3>1, Zenon
  <2>2. i - 1 \in S
    OBVIOUS
  <2> HIDE DEF S
  <2> QED
    BY <2>1, <2>2
<1>3. Cardinality(S) = k
  BY <1>1
<1> HIDE DEF S
<1>4. Listed(S) = [i \in 1 .. k |-> i - 1]
  BY <1>2, <1>3, Zenon DEF Listed
<1> QED
  BY <1>3, <1>4 DEF S

\* The record a scan of the retained files ends at is the last one of the stream.
LEMMA TailFacts ==
  ASSUME Types, DirInv, KeepInv, keep, Present # {}
  PROVE  (IF TailRecord = 0 THEN first ELSE TailRecord + 1) = nextRec
<1> DEFINE full == {m \in Present : dir[m].recs # <<>>}
           last(n) == dir[n].recs[Len(dir[n].recs)]
           tails == {0} \cup {last(n) : n \in full}
<1>0. nextRec \in Nat /\ first \in Nat \ {0} /\ first <= nextRec
  BY DEF Types
<1>1. ASSUME NEW n \in full
      PROVE  last(n) = Ends(n) - 1 /\ Ends(n) \in Nat /\ first < Ends(n) /\ Ends(n) <= nextRec
  <2>1. dir[n].recs \in Seq(Nat) /\ dir[n].recs # <<>> /\ dir[n].start \in Nat /\ FileInv(n)
    BY DEF Types, Present, SegmentFiles, DirInv
  <2>2. Len(dir[n].recs) \in Nat \ {0}
    BY <2>1
  <2>3. Len(dir[n].recs) \in 1 .. Len(dir[n].recs)
    BY <2>2
  <2>4. last(n) = dir[n].start + Len(dir[n].recs) - 1
    BY <2>1, <2>3, Zenon DEF FileInv
  <2>5. dir[n].start >= first /\ Ends(n) <= nextRec
    BY <2>1 DEF FileInv
  <2> DEFINE begin == dir[n].start
             size == Len(dir[n].recs)
  <2>6. begin \in Nat /\ size \in Nat \ {0} /\ last(n) = begin + size - 1 /\ begin >= first
    BY <2>1, <2>2, <2>4, <2>5
  <2>7. Ends(n) = begin + size
    BY DEF Ends
  <2> HIDE DEF last, begin, size
  <2> QED
    BY <1>0, <2>5, <2>6, <2>7
<1>2. TailRecord = Max(tails)
  BY DEF TailRecord
<1>3. \A t \in tails : t \in Nat /\ t <= nextRec - 1
  BY <1>0, <1>1
<1>4. CASE nextRec > first
  <2>1. PICK n \in Present : dir[n].recs # <<>> /\ Ends(n) = nextRec
    BY <1>4 DEF KeepInv
  <2>2. n \in full /\ last(n) = nextRec - 1
    BY <1>1, <2>1
  <2>3. nextRec - 1 \in tails
    BY <2>2
  <2> HIDE DEF tails
  <2>4. Max(tails) = nextRec - 1
    BY <1>0, <1>3, <2>3 DEF Max
  <2> QED
    BY <1>0, <1>2, <1>4, <2>4
<1>5. CASE nextRec = first
  <2>1. full = {}
    BY <1>0, <1>1, <1>5
  <2>2. tails = {0}
    BY <2>1
  <2> HIDE DEF tails
  <2>3. Max(tails) = 0
    BY <2>2 DEF Max
  <2> QED
    BY <1>2, <1>5, <2>3
<1> QED
  BY <1>0, <1>4, <1>5

-----------------------------------------------------------------------------
(* append *)

\* Opening the buffer, with the files a crashed process left or with none.
LEMMA OpenStep == ASSUME DiskInv, AppendBegin PROVE DiskInv'
<1> USE NameFacts
<1>0. Types /\ ControlInv /\ DirInv /\ KeepInv /\ SegInv /\ PendingExact
  BY DEF DiskInv
<1>1. /\ UNCHANGED <<keep, up, lock, first, nextRec, readPos>> /\ wpc' = "append" /\ up = "up"
      /\ handle' = "open"
  BY DEF AppendBegin, streamVars
<1>2. CASE handle = "open"
  <2>1. UNCHANGED <<dir, segs, ro, created, appended, drainedC, adopted>>
    BY <1>2 DEF AppendBegin, countVars
  <2>2. DirInv' /\ KeepInv' /\ SegInv' /\ Present' = Present
    BY <1>0, <1>1, <1>2, <2>1, FilesKept
  <2>3. Types'
    BY <1>0, <1>1, <2>1 DEF Types
  <2>4. ControlInv'
    BY <1>0, <1>1, <1>2, <2>1, <2>2 DEF ControlInv
  <2>5. PendingExact'
    BY <1>0, <1>1, <1>2, <2>1 DEF PendingExact, Pending
  <2> QED
    BY <2>2, <2>3, <2>4, <2>5 DEF DiskInv
<1>3. CASE handle # "open" /\ keep
  <2>1. /\ dir' = dir /\ segs' = Listed(Present) /\ created' = Cardinality(Present)
        /\ adopted' = (Present # {}) /\ ro' = 0 /\ appended' = 0 /\ drainedC' = 0
    BY <1>3 DEF AppendBegin, Adopt
  <2>2. PICK k \in 0 .. MaxSegs : Present = 0 .. (k - 1)
    BY <1>0, <1>3 DEF KeepInv
  <2>3. created' = k /\ segs' = [i \in 1 .. k |-> i - 1] /\ k \in Nat
    BY <2>1, <2>2, ListedInterval
  <2>4. segs' \in Seq(Names) /\ Len(segs') = k
    BY <2>2, <2>3
  <2>5. Present' = Present
    BY <2>1 DEF Present
  <2>6. readPos = first - 1 /\ (Present = {} => nextRec = first)
    BY <1>0, <1>1, <1>3 DEF ControlInv
  <2>7. Types'
    BY <1>0, <1>1, <2>1, <2>3, <2>4 DEF Types
  <2>8. ControlInv'
    <3>1. lock = "writer" => segs' # <<>>
      BY <1>0, <1>3 DEF ControlInv
    <3> QED
      BY <1>0, <1>1, <1>3, <2>5, <2>6, <3>1 DEF ControlInv
  <2>9. \A n : Ends(n)' = Ends(n) /\ (FileInv(n)' <=> FileInv(n))
    BY <1>1, <2>1, <2>5 DEF Ends, FileInv
  <2>10. DirInv' /\ KeepInv'
    BY <1>0, <1>1, <1>3, <2>1, <2>5, <2>9 DEF DirInv, KeepInv
  <2>11. SegInv'
    <3>1. \A i \in 1 .. Len(segs') : segs'[i] = created' - Len(segs') + i - 1
      BY <2>3, <2>4
    <3>2. Present' = 0 .. (created' - 1)
      BY <2>2, <2>3, <2>5
    <3>3. ASSUME segs' # <<>>
          PROVE  dir'[segs'[1]].start + ro' = readPos' + 1 /\ ro' <= Len(dir'[segs'[1]].recs)
      <4>1. k > 0 /\ segs'[1] = 0 /\ 0 \in Present /\ 0 \in Names
        BY <2>2, <2>3, <2>4, <3>3
      <4>2. dir[0].start = first /\ Len(dir[0].recs) \in Nat
        BY <1>0, <1>3, <4>1 DEF KeepInv, Types, SegmentFiles
      <4> QED
        BY <1>0, <1>1, <2>1, <2>6, <4>1, <4>2 DEF Types
    <3>4. segs' = <<>> => readPos' + 1 = nextRec'
      <4>1. segs' = <<>> => Present = {}
        BY <2>2, <2>4
      <4> QED
        BY <1>0, <1>1, <2>6, <4>1 DEF Types
    <3> QED
      BY <1>1, <1>3, <2>1, <2>2, <2>3, <2>4, <3>1, <3>2, <3>3, <3>4 DEF SegInv
  <2>12. PendingExact'
    <3>1. ~adopted' => Present = {}
      BY <2>1, Zenon
    <3> QED
      BY <1>0, <1>1, <2>1, <2>6, <3>1 DEF PendingExact, Pending, Types
  <2> QED
    BY <2>7, <2>8, <2>10, <2>11, <2>12 DEF DiskInv
<1>4. CASE handle # "open" /\ ~keep
  <2>1. /\ dir' = [n \in Names |-> NoFile] /\ segs' = <<>> /\ created' = 0
        /\ ro' = 0 /\ appended' = 0 /\ drainedC' = 0
    BY <1>4 DEF AppendBegin, StartEmpty
  <2>2. readPos = nextRec - 1
    BY <1>0, <1>1, <1>4 DEF ControlInv
  <2>3. NoFile \in SegmentFiles /\ NoFile.there = FALSE
    BY DEF NoFile, SegmentFiles
  <2>4. Present' = {}
    BY <2>1, <2>3 DEF Present
  <2>5. Types'
    BY <1>0, <1>1, <2>1, <2>3 DEF Types
  <2>6. lock = "free"
    BY <1>0, <1>4 DEF ControlInv
  <2>7. ControlInv'
    BY <1>1, <1>4, <2>6 DEF ControlInv
  <2>8. DirInv' /\ KeepInv'
    BY <1>1, <1>4, <2>4 DEF DirInv, KeepInv
  <2>9. SegInv'
    BY <1>0, <1>1, <1>4, <2>1, <2>2, <2>4 DEF SegInv, Types
  <2>10. PendingExact'
    BY <1>0, <1>1, <2>1, <2>2 DEF PendingExact, Pending, Types
  <2> QED
    BY <2>5, <2>7, <2>8, <2>9, <2>10 DEF DiskInv
<1> QED
  BY <1>2, <1>3, <1>4

\* A new segment begins with the record that is to be written.
LEMMA RotateStep == ASSUME DiskInv, AppendRotate PROVE DiskInv'
<1> USE NameFacts
<1>0. Types /\ ControlInv /\ DirInv /\ KeepInv /\ SegInv /\ PendingExact
  BY DEF DiskInv
<1>1. /\ UNCHANGED <<keep, up, handle, ro, appended, drainedC, adopted, wpc, first, nextRec,
                     readPos>>
      /\ created < MaxSegs /\ wpc = "append" /\ lock' = "writer"
      /\ dir' = [dir EXCEPT ![created] = NewFile(nextRec)]
      /\ segs' = Append(segs, created) /\ created' = created + 1
  BY DEF AppendRotate, MayWrite, streamVars
<1>2. handle = "open" /\ created \in Names /\ segs \in Seq(Names) /\ created \in Nat
  BY <1>0, <1>1 DEF ControlInv, Types
<1>3. /\ Len(segs) \in Nat /\ \A i \in 1 .. Len(segs) : segs[i] \in Present
      /\ created \notin Present
  BY <1>0, <1>2, SegFacts
<1> DEFINE new == NewFile(nextRec)
<1>4. /\ new \in SegmentFiles /\ new.there = TRUE /\ new.start = nextRec /\ new.recs = <<>>
      /\ Len(new.recs) = 0
  BY <1>0 DEF NewFile, SegmentFiles, Types
<1> HIDE DEF new
<1>5. dir'[created] = new /\ \A n \in Names : n # created => dir'[n] = dir[n]
  BY <1>0, <1>1, <1>2 DEF Types, new
<1>6. Present' = Present \cup {created} /\ Present \subseteq Names
  BY <1>2, <1>4, <1>5 DEF Present
<1>7. /\ segs' \in Seq(Names) /\ Len(segs') = Len(segs) + 1 /\ segs'[Len(segs) + 1] = created
      /\ \A i \in 1 .. Len(segs) : segs'[i] = segs[i]
  BY <1>1, <1>2
<1>8. Types'
  <2>1. dir' \in [Names -> SegmentFiles]
    BY <1>0, <1>1, <1>2, <1>4 DEF Types, new
  <2> QED
    BY <1>0, <1>1, <1>7, <2>1 DEF Types
<1>9. ControlInv'
  BY <1>0, <1>1, <1>2, <1>6, <1>7 DEF ControlInv
<1>10. \A n \in Present : dir'[n] = dir[n] /\ Ends(n)' = Ends(n) /\ FileInv(n)
  BY <1>0, <1>2, <1>3, <1>5, <1>6 DEF Ends, DirInv
<1>11. DirInv'
  <2>1. ASSUME NEW n, n = created PROVE FileInv(n)'
    <3>1. n + 1 \notin Present'
      BY <1>0, <1>2, <1>6, <2>1 DEF SegInv, Types
    <3>2. dir'[n].start = nextRec /\ dir'[n].recs = <<>> /\ Len(dir'[n].recs) = 0
      BY <1>4, <1>5, <2>1
    <3>3. Ends(n)' = nextRec /\ nextRec >= first
      BY <1>0, <3>2 DEF Ends, Types
    <3>4. \A i \in 1 .. Len(dir'[n].recs) : dir'[n].recs[i] = dir'[n].start + i - 1
      BY <3>2
    <3>5. dir'[n].start >= first' /\ Ends(n)' <= nextRec' /\ nextRec' = nextRec
      BY <1>0, <1>1, <3>2, <3>3 DEF Types
    <3> QED
      BY <3>1, <3>3, <3>4, <3>5 DEF FileInv
  <2>2. ASSUME NEW n \in Present PROVE FileInv(n)'
    <3>1. CASE n + 1 = created
      <4>1. n + 1 \notin Present /\ Ends(n) = nextRec
        BY <1>3, <1>10, <3>1 DEF FileInv
      <4>2. n + 1 \in Present' /\ dir'[n + 1].start = nextRec
        BY <1>4, <1>5, <1>6, <3>1
      <4> QED
        BY <1>1, <1>10, <4>1, <4>2 DEF FileInv
    <3>2. CASE n + 1 # created
      <4>1. n + 1 \in Present' <=> n + 1 \in Present
        BY <1>6, <3>2
      <4>2. n + 1 \in Present => dir'[n + 1] = dir[n + 1]
        BY <1>10
      <4> QED
        BY <1>1, <1>10, <4>1, <4>2 DEF FileInv
    <3> QED
      BY <3>1, <3>2
  <2> QED
    BY <1>6, <2>1, <2>2 DEF DirInv
<1>12. KeepInv'
  <2> SUFFICES ASSUME keep
               PROVE  /\ \E k \in 0 .. MaxSegs : Present' = 0 .. (k - 1)
                      /\ dir'[0].start = first
                      /\ nextRec > first =>
                           \E n \in Present' : dir'[n].recs # <<>> /\ Ends(n)' = nextRec
    BY <1>1 DEF KeepInv
  <2>1. Present = 0 .. (created - 1)
    BY <1>0, <1>2 DEF SegInv
  <2>2. created + 1 \in 0 .. MaxSegs /\ Present' = 0 .. ((created + 1) - 1)
    BY <1>1, <1>2, <1>6, <2>1
  <2>3. dir'[0].start = first
    <3>1. CASE created = 0
      <4>1. Present = {} /\ up = "up"
        BY <1>0, <1>2, <2>1, <3>1 DEF ControlInv
      <4> QED
        BY <1>0, <1>4, <1>5, <3>1, <4>1 DEF ControlInv
    <3>2. CASE created # 0
      <4>1. 0 \in Present
        BY <1>2, <2>1, <3>2
      <4> QED
        BY <1>0, <1>10, <4>1 DEF KeepInv
    <3> QED
      BY <3>1, <3>2
  <2>4. ASSUME nextRec > first
        PROVE  \E n \in Present' : dir'[n].recs # <<>> /\ Ends(n)' = nextRec
    <3>1. Present # {}
      BY <1>0, <1>2, <2>4 DEF ControlInv, Types
    <3>2. PICK n \in Present : dir[n].recs # <<>> /\ Ends(n) = nextRec
      BY <1>0, <2>4, <3>1 DEF KeepInv
    <3> QED
      BY <1>6, <1>10, <3>2
  <2> QED
    BY <2>2, <2>3, <2>4
<1>13. SegInv'
  <2>1. Len(segs') <= created' /\ created' <= MaxSegs
    BY <1>0, <1>1, <1>2, <1>3, <1>7 DEF SegInv
  <2>2. \A i \in 1 .. Len(segs') : segs'[i] = created' - Len(segs') + i - 1
    <3> TAKE i \in 1 .. Len(segs')
    <3>1. CASE i = Len(segs) + 1
      BY <1>1, <1>2, <1>3, <1>7, <3>1
    <3>2. CASE i \in 1 .. Len(segs)
      BY <1>0, <1>1, <1>2, <1>3, <1>7, <3>2 DEF SegInv
    <3> QED
      BY <1>3, <1>7, <3>1, <3>2
  <2>3. Present' = (IF keep' THEN 0 ELSE created' - Len(segs')) .. (created' - 1)
    BY <1>0, <1>1, <1>2, <1>3, <1>6, <1>7 DEF SegInv
  <2>4. dir'[segs'[1]].start + ro' = readPos' + 1 /\ ro' <= Len(dir'[segs'[1]].recs)
    <3>1. CASE segs = <<>>
      <4>1. readPos + 1 = nextRec /\ ro = 0
        BY <1>0, <1>2, <3>1 DEF SegInv
      <4>2. dir'[segs'[1]] = new
        BY <1>5, <1>7, <3>1
      <4>3. ro' = 0 /\ readPos' = readPos /\ readPos \in Nat /\ nextRec \in Nat
        BY <1>0, <1>1, <4>1 DEF Types
      <4>4. dir'[segs'[1]].start = nextRec /\ Len(dir'[segs'[1]].recs) = 0
        BY <1>4, <4>2
      <4> QED
        BY <4>1, <4>3, <4>4
    <3>2. CASE segs # <<>>
      <4>1. 1 \in 1 .. Len(segs)
        BY <1>2, <3>2
      <4>2. segs'[1] = segs[1] /\ dir'[segs[1]] = dir[segs[1]]
        BY <1>3, <1>7, <1>10, <4>1
      <4> QED
        BY <1>0, <1>1, <1>2, <3>2, <4>2 DEF SegInv
    <3> QED
      BY <3>1, <3>2
  <2>5. segs' # <<>>
    BY <1>3, <1>7
  <2> QED
    BY <2>1, <2>2, <2>3, <2>4, <2>5 DEF SegInv
<1>14. PendingExact'
  BY <1>0, <1>1 DEF PendingExact, Pending
<1> QED
  BY <1>8, <1>9, <1>11, <1>12, <1>13, <1>14 DEF DiskInv

\* A record is written behind the last one of the newest file.
LEMMA WriteStep == ASSUME DiskInv, AppendWrite PROVE DiskInv'
<1> USE NameFacts
<1>0. Types /\ ControlInv /\ DirInv /\ KeepInv /\ SegInv /\ PendingExact
  BY DEF DiskInv
<1>1. /\ UNCHANGED <<keep, up, handle, segs, ro, drainedC, created, adopted, first, readPos>>
      /\ dir' = [dir EXCEPT ![LastSeg].recs = Append(@, nextRec)]
      /\ appended' = appended + 1 /\ nextRec' = nextRec + 1 /\ lock' = "free" /\ wpc' = "idle"
  BY DEF AppendWrite
<1>2. handle = "open" /\ segs # <<>>
  BY <1>0 DEF AppendWrite, WriteTurn, MayWrite, MustRotate, ControlInv
<1>3. PICK l \in Present : /\ l = LastSeg /\ l = created - 1 /\ Ends(l) = nextRec /\ FileInv(l)
  BY <1>0, <1>2, SegFacts DEF DirInv
<1>4. /\ l \in Names /\ dir[l] \in SegmentFiles /\ created \in Nat /\ nextRec \in Nat
      /\ first \in Nat /\ first <= nextRec /\ created \notin Present
  BY <1>0, <1>2, SegFacts DEF Present, Types
<1> DEFINE recs == Append(dir[l].recs, nextRec)
<1>5. dir[l].recs \in Seq(Nat) /\ Len(dir[l].recs) \in Nat /\ dir[l].start \in Nat
  BY <1>4 DEF SegmentFiles
<1>6. /\ recs \in Seq(Nat) /\ Len(recs) = Len(dir[l].recs) + 1 /\ recs # <<>>
      /\ recs[Len(dir[l].recs) + 1] = nextRec
      /\ \A i \in 1 .. Len(dir[l].recs) : recs[i] = dir[l].recs[i]
  <2> HIDE DEF recs
  <2>1. PICK old \in Seq(Nat) : old = dir[l].recs
    BY <1>5
  <2>2. recs = Append(old, nextRec)
    BY <2>1 DEF recs
  <2>3. /\ Append(old, nextRec) \in Seq(Nat) /\ Len(Append(old, nextRec)) = Len(old) + 1
        /\ Append(old, nextRec)[Len(old) + 1] = nextRec
        /\ \A i \in 1 .. Len(old) : Append(old, nextRec)[i] = old[i]
    BY <1>4
  <2>4. recs # <<>>
    BY <2>2, <2>3
  <2> QED
    BY <2>1, <2>2, <2>3, <2>4
<1> HIDE DEF recs
<1>7. dir' = [dir EXCEPT ![l] = [dir[l] EXCEPT !.recs = recs]]
  BY <1>1, <1>3 DEF recs
<1>8. /\ dir'[l].recs = recs /\ dir'[l].start = dir[l].start /\ dir'[l].there = dir[l].there
      /\ dir'[l] \in SegmentFiles /\ \A n \in Names : n # l => dir'[n] = dir[n]
      /\ dir' \in [Names -> SegmentFiles]
  BY <1>0, <1>4, <1>6, <1>7, Zenon DEF Types, SegmentFiles
<1>9. Present' = Present /\ Present \subseteq Names
  BY <1>8 DEF Present
<1>10. Types'
  BY <1>0, <1>1, <1>8 DEF Types
<1>11. ControlInv'
  BY <1>0, <1>1, <1>2, <1>3, <1>9 DEF ControlInv
<1>12. Ends(l)' = nextRec'
  BY <1>1, <1>3, <1>5, <1>6, <1>8 DEF Ends
<1>13. \A n \in Present : dir'[n].start = dir[n].start /\ (n # l => dir'[n] = dir[n])
  BY <1>8, <1>9
<1>14. DirInv'
  <2>1. FileInv(l)'
    <3>1. ASSUME NEW i \in 1 .. Len(recs) PROVE recs[i] = dir[l].start + i - 1
      <4>1. CASE i = Len(dir[l].recs) + 1
        BY <1>3, <1>5, <1>6, <4>1 DEF Ends
      <4>2. CASE i \in 1 .. Len(dir[l].recs)
        BY <1>3, <1>6, <4>2, Zenon DEF FileInv
      <4>3. i \in 1 .. (Len(dir[l].recs) + 1)
        BY <1>6
      <4> QED
        BY <1>5, <4>1, <4>2, <4>3
    <3>2. l + 1 = created /\ l + 1 \notin Present'
      BY <1>3, <1>4, <1>9
    <3>3. dir'[l].start >= first' /\ Ends(l)' <= nextRec'
      BY <1>1, <1>3, <1>4, <1>8, <1>12 DEF FileInv
    <3> QED
      BY <1>8, <1>12, <3>1, <3>2, <3>3 DEF FileInv
  <2>2. ASSUME NEW n \in Present, n # l PROVE FileInv(n)'
    <3>1. FileInv(n) /\ dir'[n] = dir[n] /\ Ends(n)' = Ends(n) /\ n \in Nat
      BY <1>0, <1>2, <1>9, <1>13, <2>2 DEF DirInv, Ends
    <3>2. n + 1 \in Present
      <4>1. n \in (IF keep THEN 0 ELSE created - Len(segs)) .. (created - 1)
        BY <1>0, <1>2 DEF SegInv
      <4> QED
        BY <1>0, <1>2, <1>3, <1>4, <2>2, <3>1, <4>1 DEF SegInv, Types
    <3>3. dir'[n + 1].start = dir[n + 1].start /\ n + 1 \in Present'
      BY <1>9, <1>13, <3>2
    <3>4. Ends(n) <= nextRec'
      <4>1. Ends(n) \in Nat
        BY <1>0, <1>9 DEF Ends, Types, SegmentFiles
      <4> QED
        BY <1>1, <1>4, <3>1, <4>1 DEF FileInv
    <3> QED
      BY <1>1, <3>1, <3>2, <3>3, <3>4, Zenon DEF FileInv
  <2> QED
    BY <1>9, <2>1, <2>2 DEF DirInv
<1>15. KeepInv'
  <2>1. keep => 0 \in Present
    BY <1>0, <1>3 DEF KeepInv
  <2>2. dir'[l].recs # <<>> /\ Ends(l)' = nextRec' /\ l \in Present'
    BY <1>6, <1>8, <1>9, <1>12
  <2> QED
    BY <1>0, <1>1, <1>3, <1>9, <1>13, <2>1, <2>2 DEF KeepInv
<1>16. SegInv'
  <2>1. segs[1] \in Present /\ segs[1] \in Names
    BY <1>0, <1>2, <1>9, SegFacts
  <2>2. dir'[segs[1]].start = dir[segs[1]].start
    BY <1>13, <2>1
  <2>3. Len(dir'[segs[1]].recs) >= Len(dir[segs[1]].recs)
    <3>1. CASE segs[1] = l
      BY <1>5, <1>6, <1>8, <3>1
    <3>2. CASE segs[1] # l
      <4>1. dir'[segs[1]] = dir[segs[1]]
        BY <1>13, <2>1, <3>2
      <4>2. Len(dir[segs[1]].recs) \in Nat
        BY <1>0, <2>1 DEF Types, SegmentFiles
      <4> QED
        BY <4>1, <4>2
    <3> QED
      BY <3>1, <3>2, Zenon
  <2>4. /\ Len(dir'[segs[1]].recs) \in Nat /\ Len(dir[segs[1]].recs) \in Nat /\ ro \in Nat
        /\ ro <= Len(dir[segs[1]].recs)
    <3>1. dir[segs[1]] \in SegmentFiles /\ dir'[segs[1]] \in SegmentFiles /\ ro \in Nat
      BY <1>0, <1>8, <2>1 DEF Types
    <3> QED
      BY <1>0, <1>2, <3>1 DEF SegmentFiles, SegInv
  <2>5. ro <= Len(dir'[segs[1]].recs)
    BY <2>3, <2>4
  <2> QED
    BY <1>0, <1>1, <1>2, <1>9, <2>2, <2>5 DEF SegInv
<1>17. PendingExact'
  BY <1>0, <1>1 DEF PendingExact, Pending, Types
<1> QED
  BY <1>10, <1>11, <1>14, <1>15, <1>16, <1>17 DEF DiskInv

-----------------------------------------------------------------------------
(* next *)

\* A segment read to its end leaves the list; the next one goes on behind it.
LEMMA DropStep == ASSUME DiskInv, NextDrop PROVE DiskInv'
<1> USE NameFacts
<1>0. Types /\ ControlInv /\ DirInv /\ KeepInv /\ SegInv /\ PendingExact
  BY DEF DiskInv
<1>1. /\ UNCHANGED <<keep, up, handle, created, appended, drainedC, adopted, lock, wpc, first,
                     nextRec, readPos>>
      /\ lock = "reader" /\ segs # <<>> /\ ro >= Len(Head1.recs)
      /\ Len(segs) > 1 \/ Head1.recs = <<>>
      /\ dir' = IF keep THEN dir ELSE [dir EXCEPT ![segs[1]] = NoFile]
      /\ segs' = Tail(segs) /\ ro' = 0
  BY DEF NextDrop, countVars, streamVars
<1>2. handle = "open" /\ segs \in Seq(Names) /\ Len(segs) \in Nat \ {0} /\ created \in Nat
  BY <1>0, <1>1 DEF ControlInv, Types
<1>3. PICK h \in Present : h = segs[1] /\ h = created - Len(segs) /\ FileInv(h) /\ h \in Names
  <2>1. 1 \in 1 .. Len(segs)
    BY <1>2
  <2>2. segs[1] \in Present /\ FileInv(segs[1])
    BY <1>0, <1>2, <2>1, SegFacts
  <2>3. segs[1] = created - Len(segs)
    BY <1>0, <1>2, <2>1 DEF SegInv
  <2> QED
    BY <2>2, <2>3 DEF Present
<1>4. /\ dir[h] \in SegmentFiles /\ dir[h].start \in Nat /\ Len(dir[h].recs) \in Nat
      /\ ro \in Nat /\ readPos \in Nat /\ nextRec \in Nat
  BY <1>0, <1>3 DEF Types, SegmentFiles
<1>5. readPos + 1 = Ends(h)
  <2>1. dir[h].start + ro = readPos + 1 /\ ro <= Len(dir[h].recs) /\ ro >= Len(dir[h].recs)
    BY <1>0, <1>1, <1>2, <1>3 DEF SegInv, Head1
  <2> QED
    BY <1>4, <2>1 DEF Ends
<1>6. /\ segs' \in Seq(Names) /\ Len(segs') = Len(segs) - 1
      /\ \A i \in 1 .. Len(segs') : segs'[i] = segs[i + 1]
  BY <1>1, <1>2
<1>7. NoFile \in SegmentFiles /\ NoFile.there = FALSE
  BY DEF NoFile, SegmentFiles
<1>8. \A n \in Names : n # h => dir'[n] = dir[n]
  BY <1>0, <1>1, <1>3 DEF Types
<1>9. /\ keep => Present' = Present /\ dir' = dir
      /\ ~keep => Present' = Present \ {h}
      /\ Present \subseteq Names /\ Present' \subseteq Present
  <2>1. CASE keep
    BY <1>1, <2>1 DEF Present
  <2>2. CASE ~keep
    <3>1. dir'[h] = NoFile
      BY <1>0, <1>1, <1>3, <2>2 DEF Types
    <3> QED
      BY <1>3, <1>7, <1>8, <2>2, <3>1, Zenon DEF Present
  <2> QED
    BY <2>1, <2>2
<1>10. Types'
  BY <1>0, <1>1, <1>6, <1>7 DEF Types
<1>11. ControlInv'
  BY <1>0, <1>1, <1>9 DEF ControlInv
<1>12. \A n \in Present' : dir'[n] = dir[n]
  BY <1>8, <1>9, Zenon
<1>13. DirInv'
  <2> SUFFICES ASSUME NEW n \in Present' PROVE FileInv(n)'
    BY DEF DirInv
  <2>1. FileInv(n) /\ dir'[n] = dir[n] /\ Ends(n)' = Ends(n) /\ n \in Present
    BY <1>0, <1>2, <1>9, <1>12 DEF DirInv, Ends
  <2>2. n + 1 \in Present' <=> n + 1 \in Present
    <3>1. ASSUME ~keep PROVE n + 1 # h
      BY <1>0, <1>2, <1>3, <2>1, <3>1 DEF SegInv
    <3> QED
      BY <1>9, <3>1
  <2>3. n + 1 \in Present' => dir'[n + 1] = dir[n + 1]
    BY <1>12
  <2> QED
    BY <1>1, <2>1, <2>2, <2>3 DEF FileInv
<1>14. KeepInv'
  <2>1. \A n : keep => Ends(n)' = Ends(n)
    BY <1>9 DEF Ends
  <2> QED
    BY <1>0, <1>1, <1>9, <2>1 DEF KeepInv
<1>15. SegInv'
  <2>1. Len(segs') <= created'
    BY <1>0, <1>1, <1>2, <1>6 DEF SegInv
  <2>2. \A i \in 1 .. Len(segs') : segs'[i] = created' - Len(segs') + i - 1
    BY <1>0, <1>1, <1>2, <1>6 DEF SegInv
  <2>3. Present' = (IF keep' THEN 0 ELSE created' - Len(segs')) .. (created' - 1)
    <3>1. CASE keep
      BY <1>0, <1>1, <1>2, <1>9, <3>1 DEF SegInv
    <3>2. CASE ~keep
      <4>1. Present = h .. (created - 1) /\ created - Len(segs') = h + 1 /\ h \in Nat
        BY <1>0, <1>2, <1>3, <1>6, <3>2 DEF SegInv
      <4>2. (h .. (created - 1)) \ {h} = (h + 1) .. (created - 1)
        BY <1>2, <4>1
      <4> QED
        BY <1>1, <1>9, <3>2, <4>1, <4>2, Zenon
    <3> QED
      BY <3>1, <3>2, Zenon
  <2>4. ASSUME segs' # <<>>
        PROVE  dir'[segs'[1]].start + ro' = readPos' + 1 /\ ro' <= Len(dir'[segs'[1]].recs)
    <3>1. 1 \in 1 .. Len(segs') /\ 2 \in 1 .. Len(segs)
      BY <1>2, <1>6, <2>4
    <3>2. segs'[1] = segs[2] /\ segs[2] = h + 1
      BY <1>0, <1>2, <1>3, <1>6, <3>1 DEF SegInv
    <3>3. segs[2] \in Present
      BY <1>0, <1>2, <3>1, SegFacts, Zenon
    <3>4. Ends(h) = dir[h + 1].start
      BY <1>3, <3>2, <3>3 DEF FileInv
    <3>5. dir'[h + 1] = dir[h + 1] /\ dir[h + 1] \in SegmentFiles
      BY <1>0, <1>2, <1>3, <1>8, <1>9, <3>2, <3>3 DEF Types
    <3>6. dir[h + 1].start \in Nat /\ Len(dir[h + 1].recs) \in Nat
      BY <3>5 DEF SegmentFiles
    <3>7. dir'[segs'[1]] = dir[h + 1] /\ ro' = 0 /\ readPos' + 1 = dir[h + 1].start
      BY <1>1, <1>5, <3>2, <3>4, <3>5, Zenon
    <3> QED
      BY <3>6, <3>7
  <2>5. ASSUME segs' = <<>> PROVE readPos' + 1 = nextRec'
    <3>0. Len(segs') = 0
      BY <2>5
    <3>1. Len(segs) = 1 /\ h + 1 = created
      <4>1. Len(segs') = Len(segs) - 1 /\ Len(segs) \in Nat /\ created \in Nat
        BY <1>2, <1>6
      <4>2. Len(segs) = 1
        BY <3>0, <4>1
      <4> QED
        BY <1>3, <4>1, <4>2
    <3>2. h + 1 \notin Present
      BY <1>0, <1>2, <3>1, SegFacts
    <3> QED
      BY <1>1, <1>3, <1>5, <3>2 DEF FileInv
  <2>6. created' <= MaxSegs /\ ro' = 0
    BY <1>0, <1>1, <1>2 DEF SegInv
  <2> QED
    BY <2>1, <2>2, <2>3, <2>4, <2>5, <2>6, Zenon DEF SegInv
<1>16. PendingExact'
  BY <1>0, <1>1 DEF PendingExact, Pending
<1> QED
  BY <1>10, <1>11, <1>13, <1>14, <1>15, <1>16 DEF DiskInv

\* The record that is read is the one behind the last one read.
LEMMA ReadNext ==
  ASSUME DiskInv, NextRead
  PROVE  readPos' = readPos + 1 /\ readPos < nextRec - 1 /\ handle = "open"
<1>0. Types /\ ControlInv /\ DirInv /\ KeepInv /\ SegInv
  BY DEF DiskInv
<1>1. handle = "open" /\ segs # <<>> /\ ro < Len(Head1.recs) /\ readPos' = Head1.recs[ro + 1]
  BY <1>0 DEF NextRead, ControlInv
<1>2. segs[1] \in Present /\ FileInv(segs[1]) /\ segs[1] \in Names
  <2>1. 1 \in 1 .. Len(segs)
    BY <1>0, <1>1 DEF Types
  <2> QED
    BY <1>0, <1>1, <2>1, SegFacts DEF Present
<1>3. dir[segs[1]] \in SegmentFiles /\ ro \in Nat /\ readPos \in Nat /\ nextRec \in Nat
  BY <1>0, <1>2 DEF Types
<1>4. dir[segs[1]].start \in Nat /\ Len(dir[segs[1]].recs) \in Nat
  BY <1>3 DEF SegmentFiles
<1>5. ro + 1 \in 1 .. Len(dir[segs[1]].recs)
  BY <1>1, <1>3, <1>4 DEF Head1
<1>6. readPos' = dir[segs[1]].start + (ro + 1) - 1
  BY <1>1, <1>2, <1>5 DEF Head1, FileInv
<1>7. dir[segs[1]].start + ro = readPos + 1
  BY <1>0, <1>1, Zenon DEF SegInv
<1>8. dir[segs[1]].start + Len(dir[segs[1]].recs) <= nextRec
  BY <1>2 DEF FileInv, Ends
<1> DEFINE begin == dir[segs[1]].start
           size == Len(dir[segs[1]].recs)
<1>9. /\ begin \in Nat /\ size \in Nat /\ ro + 1 \in 1 .. size /\ begin + size <= nextRec
      /\ begin + ro = readPos + 1 /\ readPos' = begin + (ro + 1) - 1
  BY <1>4, <1>5, <1>6, <1>7, <1>8
<1> HIDE DEF begin, size
<1>10. readPos' = readPos + 1 /\ readPos < nextRec - 1
  BY <1>3, <1>9
<1> QED
  BY <1>1, <1>10

LEMMA ReadStep == ASSUME DiskInv, NextRead PROVE DiskInv'
<1> USE NameFacts
<1>0. Types /\ ControlInv /\ DirInv /\ KeepInv /\ SegInv /\ PendingExact
  BY DEF DiskInv
<1>1. /\ UNCHANGED <<keep, dir, up, handle, segs, appended, created, adopted, lock, wpc, first,
                     nextRec>>
      /\ segs # <<>> /\ ro < Len(Head1.recs) /\ ro' = ro + 1 /\ drainedC' = drainedC + 1
  BY DEF NextRead
<1>2. readPos' = readPos + 1 /\ handle = "open"
  BY ReadNext, Zenon
<1>3. Present' = Present /\ \A n : Ends(n)' = Ends(n) /\ (FileInv(n)' <=> FileInv(n))
  BY <1>1 DEF Present, Ends, FileInv
<1>4. Types'
  BY <1>0, <1>1, <1>2 DEF Types
<1>5. ControlInv'
  BY <1>0, <1>1, <1>2, <1>3, Zenon DEF ControlInv
<1>6. DirInv' /\ KeepInv'
  BY <1>0, <1>1, <1>3, Zenon DEF DirInv, KeepInv
<1>7. SegInv'
  <2>1. segs[1] \in Names
    BY <1>0, <1>1 DEF Types
  <2>2. dir[segs[1]] \in SegmentFiles /\ ro \in Nat /\ readPos \in Nat
    BY <1>0, <2>1 DEF Types
  <2>3. dir[segs[1]].start \in Nat /\ Len(dir[segs[1]].recs) \in Nat
    BY <2>2 DEF SegmentFiles
  <2>4. dir[segs[1]].start + ro = readPos + 1
    BY <1>0, <1>1, <1>2 DEF SegInv
  <2>5. ro < Len(dir[segs[1]].recs)
    BY <1>1 DEF Head1
  <2>6. dir[segs[1]].start + ro' = readPos' + 1 /\ ro' <= Len(dir[segs[1]].recs)
    <3> DEFINE begin == dir[segs[1]].start
               size == Len(dir[segs[1]].recs)
    <3>1. /\ begin \in Nat /\ size \in Nat /\ ro \in Nat /\ readPos \in Nat
          /\ begin + ro = readPos + 1 /\ ro < size
      BY <2>2, <2>3, <2>4, <2>5
    <3>2. ro' = ro + 1 /\ readPos' = readPos + 1
      BY <1>1, <1>2
    <3> HIDE DEF begin, size
    <3>3. begin + ro' = readPos' + 1 /\ ro' <= size
      BY <3>1, <3>2
    <3> QED
      BY <3>3 DEF begin, size
  <2> QED
    BY <1>0, <1>1, <1>2, <1>3, <2>6 DEF SegInv
<1>8. PendingExact'
  BY <1>0, <1>1, <1>2 DEF PendingExact, Pending, Types
<1> QED
  BY <1>4, <1>5, <1>6, <1>7, <1>8 DEF DiskInv

\* What waits, locks, unlocks or fails changes no record.
LEMMA OtherSteps ==
  ASSUME DiskInv, AppendWait \/ AppendTorn \/ NextBegin \/ NextEnd
  PROVE  DiskInv' /\ UNCHANGED <<first, nextRec, readPos>>
<1> USE NameFacts
<1>0. Types /\ ControlInv /\ DirInv /\ KeepInv /\ SegInv /\ PendingExact
  BY DEF DiskInv
<1>1. /\ UNCHANGED <<keep, up, handle, segs, ro, created, appended, drainedC, adopted, first,
                     nextRec, readPos>>
      /\ wpc' = "append" \/ lock' # "free" => handle = "open"
      /\ lock' = "writer" => segs # <<>>
  BY <1>0
  DEF AppendWait, AppendTorn, NextBegin, NextEnd, countVars, streamVars, ControlInv
<1>2. /\ dir' \in [Names -> SegmentFiles]
      /\ \A n \in Names : /\ dir'[n].there = dir[n].there /\ dir'[n].start = dir[n].start
                           /\ dir'[n].recs = dir[n].recs
  <2>1. CASE AppendTorn
    <3>1. dir' = [dir EXCEPT ![LastSeg].torn = TRUE]
      BY <2>1 DEF AppendTorn
    <3>2. \A f \in SegmentFiles :
            /\ [f EXCEPT !.torn = TRUE] \in SegmentFiles
            /\ [f EXCEPT !.torn = TRUE].there = f.there
            /\ [f EXCEPT !.torn = TRUE].start = f.start
            /\ [f EXCEPT !.torn = TRUE].recs = f.recs
      BY Zenon DEF SegmentFiles
    <3> QED
      BY <1>0, <3>1, <3>2, Zenon DEF Types
  <2>2. CASE AppendWait \/ NextBegin \/ NextEnd
    <3>1. dir' = dir
      BY <2>2, Zenon DEF AppendWait, NextBegin, NextEnd
    <3> QED
      BY <1>0, <3>1, Zenon DEF Types
  <2> QED
    BY <2>1, <2>2
<1>3. DirInv' /\ KeepInv' /\ SegInv' /\ Present' = Present
  BY <1>0, <1>1, <1>2, FilesKept, Zenon
<1>4. Types'
  BY <1>0, <1>1, <1>2 DEF Types
<1>5. ControlInv'
  BY <1>0, <1>1, <1>3 DEF ControlInv
<1>6. PendingExact'
  BY <1>0, <1>1, Zenon DEF PendingExact, Pending
<1> QED
  BY <1>1, <1>3, <1>4, <1>5, <1>6 DEF DiskInv

-----------------------------------------------------------------------------
(* The end of a backlog, of a process, and the start of the next one *)

\* An emptied directory satisfies everything that is said of files.
LEMMA EmptyDir ==
  ASSUME dir' = [n \in Names |-> NoFile]
  PROVE  dir' \in [Names -> SegmentFiles] /\ Present' = {} /\ DirInv' /\ KeepInv'
<1>1. NoFile \in SegmentFiles /\ NoFile.there = FALSE
  BY DEF NoFile, SegmentFiles
<1>2. dir' \in [Names -> SegmentFiles] /\ Present' = {}
  BY <1>1 DEF Present
<1>3. 0 \in 0 .. MaxSegs /\ 0 .. (0 - 1) = {}
  BY NameFacts
<1> QED
  BY <1>2, <1>3, Zenon DEF DirInv, KeepInv

LEMMA DiscardStep == ASSUME DiskInv, Discard PROVE DiskInv'
<1>0. Types /\ ControlInv /\ DirInv /\ KeepInv /\ SegInv /\ PendingExact
  BY DEF DiskInv
<1>1. /\ UNCHANGED <<keep, created, appended, drainedC, lock, wpc, first, nextRec, readPos>>
      /\ up' = "released" /\ handle' = "none" /\ wpc = "idle" /\ lock = "free"
      /\ dir' = (IF handle = "open" THEN [n \in Names |-> NoFile] ELSE dir)
      /\ segs' = <<>> /\ ro' = 0
  BY DEF Discard, countVars, streamVars
<1>2. dir' \in [Names -> SegmentFiles] /\ DirInv' /\ KeepInv'
  <2>1. CASE handle = "open"
    BY <1>1, <2>1, EmptyDir, Zenon
  <2>2. CASE handle # "open"
    <3>1. dir' = dir /\ Present' = Present /\ handle' # "open"
      BY <1>1, <2>2, Zenon DEF Present
    <3>2. \A n : Ends(n)' = Ends(n) /\ (FileInv(n)' <=> FileInv(n))
      BY <1>1, <3>1 DEF Ends, FileInv
    <3> QED
      BY <1>0, <1>1, <3>1, <3>2 DEF DirInv, KeepInv, Types
  <2> QED
    BY <2>1, <2>2
<1>3. Types'
  BY <1>0, <1>1, <1>2 DEF Types
<1>4. ControlInv' /\ SegInv' /\ PendingExact'
  BY <1>1 DEF ControlInv, SegInv, PendingExact
<1> QED
  BY <1>2, <1>3, <1>4 DEF DiskInv

LEMMA CrashStep == ASSUME DiskInv, Crash PROVE DiskInv'
<1>0. Types /\ ControlInv /\ DirInv /\ KeepInv /\ SegInv /\ PendingExact
  BY DEF DiskInv
<1>1. /\ UNCHANGED <<keep, dir, first, nextRec>> /\ up' = "down" /\ handle' = "none"
      /\ segs' = <<>> /\ ro' = 0 /\ appended' = 0 /\ drainedC' = 0 /\ created' = 0
      /\ lock' = "free" /\ wpc' = "idle" /\ readPos' = first - 1
  BY DEF Crash
<1>2. Present' = Present /\ \A n : Ends(n)' = Ends(n) /\ (FileInv(n)' <=> FileInv(n))
  BY <1>1 DEF Present, Ends, FileInv
<1>3. Types'
  BY <1>0, <1>1 DEF Types
<1>4. DirInv' /\ KeepInv'
  BY <1>0, <1>1, <1>2, Zenon DEF DirInv, KeepInv
<1>5. ControlInv' /\ SegInv' /\ PendingExact'
  BY <1>1 DEF ControlInv, SegInv, PendingExact
<1> QED
  BY <1>3, <1>4, <1>5 DEF DiskInv

\* Attaching behind the retained tail goes on where the stream was; with nothing
\* retained it begins again at the anchor.
LEMMA ResumeStep ==
  ASSUME DiskInv, Resume
  PROVE  /\ DiskInv' /\ first' = first /\ readPos' = readPos /\ readPos = first - 1
         /\ nextRec' = nextRec \/ nextRec' = first
<1>0. Types /\ ControlInv /\ DirInv /\ KeepInv /\ SegInv /\ PendingExact
  BY DEF DiskInv
<1>1. /\ UNCHANGED <<keep, dir, handle, segs, ro, appended, drainedC, created, adopted, lock, wpc,
                     first, readPos>>
      /\ up = "down" /\ keep /\ up' \in {"up", "refused"}
      /\ \/ nextRec' = nextRec /\ up' = "refused"
         \/ nextRec' = (IF TailRecord = 0 THEN first ELSE TailRecord + 1)
  BY DEF Resume, countVars
<1>2. handle = "none" /\ readPos = first - 1
  BY <1>0, <1>1 DEF ControlInv
<1>3. Present' = Present
  BY <1>1 DEF Present
<1>4. Present # {} => nextRec' = nextRec
  BY <1>0, <1>1, TailFacts
<1>5. ASSUME Present = {} PROVE nextRec' = first \/ (nextRec' = nextRec /\ up' = "refused")
  <2>1. TailRecord = Max({0})
    BY <1>5 DEF TailRecord
  <2>2. Max({0}) = 0
    BY DEF Max
  <2> QED
    BY <1>1, <2>1, <2>2
<1>6. Types'
  BY <1>0, <1>1, <1>4, <1>5 DEF Types
<1>7. ControlInv'
  BY <1>0, <1>1, <1>2, <1>3, <1>4, <1>5 DEF ControlInv
<1>8. DirInv' /\ KeepInv'
  <2>1. CASE Present = {}
    BY <1>0, <1>1, <1>3, <2>1, Zenon DEF DirInv, KeepInv
  <2>2. CASE Present # {}
    <3>1. \A n : Ends(n)' = Ends(n) /\ (FileInv(n)' <=> FileInv(n))
      BY <1>1, <1>3, <1>4, <2>2, Zenon DEF Ends, FileInv
    <3> QED
      BY <1>0, <1>1, <1>3, <1>4, <2>2, <3>1, Zenon DEF DirInv, KeepInv
  <2> QED
    BY <2>1, <2>2, Zenon
<1>9. SegInv' /\ PendingExact'
  BY <1>1, <1>2 DEF SegInv, PendingExact
<1> QED
  BY <1>1, <1>2, <1>4, <1>5, <1>6, <1>7, <1>8, <1>9 DEF DiskInv

LEMMA RescanStep == ASSUME DiskInv, Rescan PROVE DiskInv'
<1>0. Types /\ ControlInv /\ DirInv /\ KeepInv /\ SegInv /\ PendingExact
  BY DEF DiskInv
<1>1. /\ UNCHANGED <<keep, handle, segs, ro, appended, drainedC, created, lock, wpc, nextRec>>
      /\ up = "down" /\ up' = "up" /\ first' = nextRec /\ readPos' = nextRec - 1
      /\ dir' = (IF keep THEN [n \in Names |-> NoFile] ELSE dir)
  BY DEF Rescan, countVars
<1>2. handle = "none" /\ wpc # "append" /\ lock = "free"
  BY <1>0, <1>1 DEF ControlInv
<1>3. dir' \in [Names -> SegmentFiles] /\ DirInv' /\ KeepInv'
  <2>1. CASE keep
    BY <1>1, <2>1, EmptyDir, Zenon
  <2>2. CASE ~keep
    BY <1>0, <1>1, <1>2, <2>2 DEF Types, DirInv, KeepInv
  <2> QED
    BY <2>1, <2>2
<1>4. Types'
  BY <1>0, <1>1, <1>3 DEF Types
<1>5. ControlInv' /\ SegInv' /\ PendingExact'
  BY <1>1, <1>2 DEF ControlInv, SegInv, PendingExact
<1> QED
  BY <1>3, <1>4, <1>5 DEF DiskInv

-----------------------------------------------------------------------------
LEMMA DiskStep == DiskInv /\ [Next]_vars => DiskInv'
<1> SUFFICES ASSUME DiskInv, [Next]_vars PROVE DiskInv'
  OBVIOUS
<1>1. CASE UNCHANGED vars
  <2>1. UNCHANGED <<keep, dir, up, handle, segs, ro, appended, drainedC, created, adopted, lock,
                    wpc, first, nextRec, readPos>>
    BY <1>1 DEF vars, countVars, streamVars
  <2>2. Types /\ ControlInv /\ DirInv /\ KeepInv /\ SegInv /\ PendingExact
    BY DEF DiskInv
  <2>3. DirInv' /\ KeepInv' /\ SegInv' /\ Present' = Present
    BY <2>1, <2>2, FilesKept, Zenon
  <2>4. Types' /\ ControlInv' /\ PendingExact'
    BY <2>1, <2>2, <2>3 DEF Types, ControlInv, PendingExact, Pending
  <2> QED
    BY <2>3, <2>4 DEF DiskInv
<1>2. CASE AppendBegin
  BY <1>2, OpenStep
<1>3. CASE AppendRotate
  BY <1>3, RotateStep
<1>4. CASE AppendWrite
  BY <1>4, WriteStep
<1>5. CASE AppendWait \/ AppendTorn \/ NextBegin \/ NextEnd
  BY <1>5, OtherSteps
<1>6. CASE NextDrop
  BY <1>6, DropStep
<1>7. CASE NextRead
  BY <1>7, ReadStep
<1>8. CASE Discard
  BY <1>8, DiscardStep
<1>9. CASE Crash
  BY <1>9, CrashStep
<1>10. CASE Resume
  BY <1>10, ResumeStep
<1>11. CASE Rescan
  BY <1>11, RescanStep
<1> QED
  BY <1>1, <1>2, <1>3, <1>4, <1>5, <1>6, <1>7, <1>8, <1>9, <1>10, <1>11
  DEF Next, AppendCall, NextCall

LEMMA DiskAlways == Spec => []DiskInv
BY InitInv, DiskStep, PTL DEF Spec

\* The count Release decides on (pending) is the number of records it has not
\* been given, in every buffer that was not adopted.
THEOREM CountExact == Spec => []PendingExact
<1>1. DiskInv => PendingExact
  BY DEF DiskInv
<1> QED
  BY <1>1, DiskAlways, PTL

\* With buffer_fsync=durable the files on disk are, at every moment a crash can
\* strike, the whole backlog in order: what Adopt lists can be replayed.
THEOREM BacklogReplayable == Spec => []Replayable
<1>1. ASSUME DiskInv PROVE Replayable
  <2> SUFFICES ASSUME keep, Present # {}
      PROVE  /\ Present = 0 .. (Cardinality(Present) - 1)
             /\ dir[0].start = first
             /\ \A n \in Present :
                  /\ \A i \in 1 .. Len(dir[n].recs) : dir[n].recs[i] = dir[n].start + i - 1
                  /\ dir[n].start + Len(dir[n].recs) =
                       IF n + 1 \in Present THEN dir[n + 1].start ELSE nextRec
    BY DEF Replayable
  <2>1. DirInv /\ KeepInv
    BY <1>1 DEF DiskInv
  <2>2. PICK k \in 0 .. MaxSegs : Present = 0 .. (k - 1)
    BY <2>1 DEF KeepInv
  <2>3. Cardinality(Present) = k
    <3>1. k \in Nat
      BY <2>2, NameFacts
    <3>2. Cardinality(0 .. (k - 1)) = k
      BY <3>1, ListedInterval, Zenon
    <3> QED
      BY <2>2, <3>2
  <2>4. \A n \in Present : FileInv(n)
    BY <2>1 DEF DirInv
  <2> QED
    BY <2>1, <2>2, <2>3, <2>4, Zenon DEF KeepInv, FileInv, Ends
<1> QED
  BY <1>1, DiskAlways, PTL

-----------------------------------------------------------------------------
LEMMA QueueStep == DiskInv /\ [Next]_vars => [Queue!Next]_(Queue!vars)
<1> SUFFICES ASSUME DiskInv, [Next]_vars PROVE [Queue!Next]_(Queue!vars)
  OBVIOUS
<1> USE DEF Queue!vars
<1>0. Types
  BY DEF DiskInv
<1>1. CASE UNCHANGED <<first, nextRec, readPos>>
  BY <1>1
<1>2. CASE AppendWrite
  <2>1. nextRec' = nextRec + 1 /\ first' = first /\ readPos' = readPos
    BY <1>2 DEF AppendWrite
  <2>2. Queue!Append
    BY <1>0, <2>1 DEF Queue!Append, Types
  <2> QED
    BY <2>2 DEF Queue!Next
<1>3. CASE NextRead
  <2>1. first' = first /\ nextRec' = nextRec
    BY <1>3 DEF NextRead
  <2>2. Queue!Take
    BY <1>3, <2>1, ReadNext DEF Queue!Take
  <2> QED
    BY <2>2 DEF Queue!Next
<1>4. CASE Crash
  <2>1. Queue!Rewind
    BY <1>4 DEF Crash, Queue!Rewind
  <2> QED
    BY <2>1 DEF Queue!Next
<1>5. CASE Resume
  <2>1. /\ first' = first /\ readPos' = readPos /\ readPos = first - 1
        /\ nextRec' = nextRec \/ nextRec' = first
    BY <1>5, ResumeStep
  <2>2. CASE nextRec' = first
    <3>1. Queue!Renew
      BY <1>0, <2>1, <2>2 DEF Queue!Renew, Types
    <3> QED
      BY <3>1 DEF Queue!Next
  <2> QED
    BY <1>1, <2>1, <2>2
<1>6. CASE Rescan
  <2>1. first' = nextRec /\ nextRec' = nextRec /\ readPos' = nextRec - 1
    BY <1>6 DEF Rescan
  <2>2. Queue!Renew
    BY <1>0, <2>1 DEF Queue!Renew, Types
  <2> QED
    BY <2>2 DEF Queue!Next
<1>7. CASE UNCHANGED vars \/ AppendBegin \/ AppendWait \/ AppendRotate \/ AppendTorn
           \/ NextBegin \/ NextDrop \/ NextEnd \/ Discard
  <2>1. UNCHANGED <<first, nextRec, readPos>>
    BY <1>7 DEF vars, AppendBegin, AppendWait, AppendRotate, AppendTorn, NextBegin, NextDrop,
                NextEnd, Discard, streamVars
  <2> QED
    BY <1>1, <2>1, Zenon
<1> QED
  BY <1>2, <1>3, <1>4, <1>5, <1>6, <1>7 DEF Next, AppendCall, NextCall

\* Through rotation, deletion, crashes and adoption the segment files implement
\* the queue the session relies on: no record is skipped or read out of order.
THEOREM BacklogInOrder == Spec => KeepsOrder
<1>1. Init => Queue!Init
  BY DEF Init, Queue!Init
<1>2. DiskInv /\ [Next]_vars => [Queue!Next]_(Queue!vars)
  BY QueueStep
<1> QED
  BY <1>1, <1>2, DiskAlways, PTL DEF Spec, KeepsOrder, Queue!Spec

-----------------------------------------------------------------------------
(* The bounds: no record beyond the stream, no read ahead of the append *)

BoundedFiles == [there : BOOLEAN, start : 0 .. Records + 1, recs : Seq(1 .. Records),
                 torn : BOOLEAN]

\* An append in progress has a record of the stream to write, and b.mu is the
\* writer's only during one.
RangeInv ==
  /\ lock \in {"free", "writer", "reader"} /\ wpc \in {"idle", "append"}
  /\ dir \in [Names -> BoundedFiles] /\ created \in 0 .. MaxSegs /\ got \in 0 .. Batch
  /\ nextRec <= Records + 1 /\ (wpc = "append" => nextRec <= Records)
  /\ lock = "writer" => wpc = "append"
  /\ first - 1 <= readPos /\ readPos <= nextRec - 1
  /\ handle = "none" => segs = <<>>

FlagInv ==
  /\ keep \in BOOLEAN /\ adopted \in BOOLEAN /\ blocked \in BOOLEAN /\ err \in BOOLEAN
  /\ up \in {"down", "up", "released", "refused"}

LEMMA FlagStep == FlagInv /\ [Next]_vars => FlagInv'
<1> SUFFICES ASSUME FlagInv, [Next]_vars PROVE FlagInv'
  OBVIOUS
<1> USE DEF FlagInv
<1>1. CASE UNCHANGED vars
  BY <1>1, Zenon DEF vars, countVars
<1>2. CASE AppendBegin
  <2>1. UNCHANGED <<keep, up, blocked, err>>
    BY <1>2, Zenon DEF AppendBegin
  <2>2. adopted' = adopted \/ adopted' = FALSE \/ adopted' = (Present # {})
    BY <1>2, Zenon DEF AppendBegin, Adopt, StartEmpty, countVars
  <2> QED
    BY <2>1, <2>2, Zenon
<1>3. CASE AppendWait \/ AppendRotate \/ AppendWrite \/ AppendTorn
  BY <1>3, Zenon DEF AppendWait, AppendRotate, AppendWrite, AppendTorn, countVars
<1>4. CASE NextBegin \/ NextDrop \/ NextRead \/ NextEnd
  BY <1>4, Zenon DEF NextBegin, NextDrop, NextRead, NextEnd, countVars
<1>5. CASE Discard \/ Crash \/ Rescan
  BY <1>5, Zenon DEF Discard, Crash, Rescan, countVars
<1>6. CASE Resume
  <2>1. UNCHANGED <<keep, adopted, blocked, err>> /\ (up' = "refused" \/ up' = "up")
    BY <1>6, Zenon DEF Resume, countVars
  <2> QED
    BY <2>1, Zenon
<1> QED
  BY <1>1, <1>2, <1>3, <1>4, <1>5, <1>6, Zenon DEF Next, AppendCall, NextCall

LEMMA RangeFiles ==
  /\ Records \in Nat /\ Batch \in Nat \ {0} /\ MaxSegs \in Nat \ {0}
  /\ NoFile \in BoundedFiles
  /\ \A r \in 0 .. Records + 1 : NewFile(r) \in BoundedFiles
  /\ [n \in Names |-> NoFile] \in [Names -> BoundedFiles]
<1>1. Records \in Nat /\ Batch \in Nat \ {0} /\ MaxSegs \in Nat \ {0}
  BY SizeAssumption, LimitAssumption
<1>2. NoFile \in BoundedFiles
  BY <1>1 DEF NoFile, BoundedFiles
<1>3. \A r \in 0 .. Records + 1 : NewFile(r) \in BoundedFiles
  BY <1>1 DEF NewFile, BoundedFiles
<1> QED
  BY <1>1, <1>2, <1>3

\* The step of append that changes a file: a new one, a record more, a torn frame.
LEMMA RangeWrite ==
  ASSUME DiskInv, RangeInv, AppendRotate \/ AppendWrite \/ AppendTorn
  PROVE  /\ dir' \in [Names -> BoundedFiles] /\ nextRec \in 1 .. Records
         /\ created' \in 0 .. MaxSegs
<1>1. wpc = "append"
  BY DEF AppendRotate, AppendWrite, AppendTorn, WriteTurn, MayWrite, RangeInv
<1>2. nextRec \in 1 .. Records
  BY <1>1, RangeFiles DEF RangeInv, DiskInv, Types
<1>3. CASE AppendRotate
  <2>1. /\ dir' = [dir EXCEPT ![created] = NewFile(nextRec)] /\ created < MaxSegs
        /\ created' = created + 1
    BY <1>3 DEF AppendRotate
  <2>2. NewFile(nextRec) \in BoundedFiles
    BY <1>2, RangeFiles
  <2>3. dir \in [Names -> BoundedFiles] /\ created \in 0 .. MaxSegs
    BY DEF RangeInv
  <2>4. dir' \in [Names -> BoundedFiles]
    BY <2>1, <2>2, <2>3, Zenon
  <2>5. created' \in 0 .. MaxSegs
    BY <2>1, <2>3, RangeFiles
  <2> QED
    BY <1>2, <2>4, <2>5, Zenon
<1>4. CASE AppendWrite \/ AppendTorn
  <2>1. created' = created /\ created \in 0 .. MaxSegs
    BY <1>4 DEF AppendWrite, AppendTorn, countVars, RangeInv
  <2>2. ASSUME NEW f \in BoundedFiles
        PROVE  /\ [f EXCEPT !.recs = Append(@, nextRec)] \in BoundedFiles
               /\ [f EXCEPT !.torn = TRUE] \in BoundedFiles
    <3>1. Append(f.recs, nextRec) \in Seq(1 .. Records)
      BY <1>2, <2>2 DEF BoundedFiles
    <3> QED
      BY <2>2, <3>1, Zenon DEF BoundedFiles
  <2>3. dir \in [Names -> BoundedFiles]
    BY DEF RangeInv
  <2>4. \/ dir' = [dir EXCEPT ![LastSeg].recs = Append(@, nextRec)]
        \/ dir' = [dir EXCEPT ![LastSeg].torn = TRUE]
    BY <1>4 DEF AppendWrite, AppendTorn
  <2>5. dir' \in [Names -> BoundedFiles]
    BY <2>2, <2>3, <2>4, Zenon
  <2> QED
    BY <1>2, <2>1, <2>5
<1> QED
  BY <1>3, <1>4

LEMMA RangeStep == DiskInv /\ RangeInv /\ [Next]_vars => RangeInv'
<1> SUFFICES ASSUME DiskInv, RangeInv, [Next]_vars PROVE RangeInv'
  OBVIOUS
<1>0. /\ Types /\ ControlInv /\ DirInv /\ KeepInv /\ SegInv
      /\ first \in Nat \ {0} /\ nextRec \in Nat /\ readPos \in Nat /\ first <= nextRec
      /\ created \in Nat
  BY DEF DiskInv, Types
<1> USE RangeFiles
<1>1. CASE UNCHANGED vars
  BY <1>1, Zenon DEF vars, countVars, streamVars, RangeInv
<1>2. CASE AppendBegin
  <2>1. /\ UNCHANGED <<lock, got, first, nextRec, readPos>>
        /\ wpc = "idle" /\ wpc' = "append" /\ nextRec <= Records /\ handle' = "open"
    BY <1>2 DEF AppendBegin, streamVars
  <2>2. /\ dir' \in [Names -> BoundedFiles] /\ created' \in 0 .. MaxSegs
    <3>1. CASE handle = "open"
      BY <1>2, <3>1 DEF AppendBegin, countVars, RangeInv
    <3>2. CASE handle # "open" /\ keep
      <4>1. dir' = dir /\ created' = Cardinality(Present)
        BY <1>2, <3>2, Zenon DEF AppendBegin, Adopt
      <4>2. PICK k \in 0 .. MaxSegs : Present = 0 .. (k - 1)
        BY <1>0, <3>2 DEF KeepInv
      <4>3. k \in Nat
        BY <4>2
      <4>4. Cardinality(0 .. (k - 1)) = k
        BY <4>3, ListedInterval, Zenon
      <4> QED
        BY <4>1, <4>2, <4>4, Zenon DEF RangeInv
    <3>3. CASE handle # "open" /\ ~keep
      BY <1>2, <3>3 DEF AppendBegin, StartEmpty
    <3> QED
      BY <3>1, <3>2, <3>3, Zenon
  <2> QED
    BY <1>0, <2>1, <2>2, Zenon DEF RangeInv
<1>3. CASE AppendRotate
  <2>1. /\ UNCHANGED <<handle, got, wpc, first, nextRec, readPos>>
        /\ lock' = "writer" /\ wpc = "append"
    BY <1>3 DEF AppendRotate, MayWrite, streamVars
  <2>2. handle = "open"
    BY <1>0, <2>1, Zenon DEF ControlInv
  <2> QED
    BY <1>3, <2>1, <2>2, RangeWrite, Zenon DEF RangeInv
<1>4. CASE AppendWrite
  <2>1. /\ UNCHANGED <<handle, segs, got, first, readPos>>
        /\ lock' = "free" /\ wpc' = "idle" /\ nextRec' = nextRec + 1
    BY <1>4, Zenon DEF AppendWrite
  <2> QED
    BY <1>0, <1>4, <2>1, RangeWrite DEF RangeInv
<1>5. CASE AppendTorn
  <2>1. /\ UNCHANGED <<handle, segs, got, first, nextRec, readPos>>
        /\ lock' = "free" /\ wpc' = "idle"
    BY <1>5, Zenon DEF AppendTorn, countVars, streamVars
  <2> QED
    BY <1>5, <2>1, RangeWrite DEF RangeInv
<1>6. CASE AppendWait \/ NextBegin \/ NextEnd
  <2>1. UNCHANGED <<handle, segs, dir, created, wpc, first, nextRec, readPos>>
    BY <1>6, Zenon DEF AppendWait, NextBegin, NextEnd, countVars, streamVars
  <2>2. UNCHANGED <<lock, got>> \/ (lock' = "reader" /\ got' = 0) \/ (lock' = "free" /\ got' = got)
    BY <1>6, Zenon DEF AppendWait, NextBegin, NextEnd
  <2>3. lock' \in {"free", "writer", "reader"} /\ got' \in 0 .. Batch
        /\ (lock' = "writer" => lock = "writer")
    BY <2>2, LimitAssumption DEF RangeInv
  <2> QED
    BY <2>1, <2>3 DEF RangeInv
<1>7. CASE NextDrop
  <2>1. /\ UNCHANGED <<handle, created, lock, got, wpc, first, nextRec, readPos>>
        /\ lock = "reader" /\ dir' \in {dir, [dir EXCEPT ![segs[1]] = NoFile]}
    BY <1>7 DEF NextDrop, countVars, streamVars
  <2>2. handle = "open"
    BY <1>0, <2>1 DEF ControlInv
  <2>3. dir' \in [Names -> BoundedFiles]
    BY <2>1, Zenon DEF RangeInv
  <2> QED
    BY <2>1, <2>2, <2>3, Zenon DEF RangeInv
<1>8. CASE NextRead
  <2>1. /\ UNCHANGED <<dir, handle, segs, created, lock, wpc, first, nextRec>>
        /\ lock = "reader" /\ got < Batch /\ got' = got + 1
    BY <1>8, Zenon DEF NextRead
  <2>2. readPos' = readPos + 1 /\ readPos < nextRec - 1
    BY <1>8, ReadNext
  <2>3. got' \in 0 .. Batch
    BY <2>1 DEF RangeInv
  <2> QED
    BY <1>0, <2>1, <2>2, <2>3 DEF RangeInv
<1>9. CASE Discard
  <2>1. /\ UNCHANGED <<created, lock, got, wpc, first, nextRec, readPos>>
        /\ segs' = <<>> /\ dir' \in {dir, [n \in Names |-> NoFile]}
    BY <1>9, Zenon DEF Discard, countVars, streamVars
  <2> QED
    BY <2>1, Zenon DEF RangeInv
<1>10. CASE Crash
  <2>1. /\ UNCHANGED <<dir, first, nextRec>>
        /\ segs' = <<>> /\ created' = 0 /\ lock' = "free" /\ got' = 0 /\ wpc' = "idle"
        /\ readPos' = first - 1
    BY <1>10, Zenon DEF Crash
  <2> QED
    BY <1>0, <2>1 DEF RangeInv
<1>11. CASE Resume
  <2>1. /\ UNCHANGED <<dir, handle, segs, created, lock, got, wpc>>
        /\ up = "down"
    BY <1>11 DEF Resume, countVars
  <2>2. /\ first' = first /\ readPos' = readPos /\ readPos = first - 1
        /\ nextRec' = nextRec \/ nextRec' = first
    BY <1>11, ResumeStep
  <2>3. wpc # "append"
    BY <1>0, <2>1, Zenon DEF ControlInv
  <2> QED
    BY <1>0, <2>1, <2>2, <2>3 DEF RangeInv
<1>12. CASE Rescan
  <2>1. /\ UNCHANGED <<handle, segs, created, lock, got, wpc, nextRec>>
        /\ dir' \in {dir, [n \in Names |-> NoFile]}
        /\ first' = nextRec /\ readPos' = nextRec - 1
    BY <1>12 DEF Rescan, countVars
  <2> QED
    BY <1>0, <2>1 DEF RangeInv
<1> QED
  BY <1>1, <1>2, <1>3, <1>4, <1>5, <1>6, <1>7, <1>8, <1>9, <1>10, <1>11, <1>12
  DEF Next, AppendCall, NextCall

LEMMA RangeInit == Init => RangeInv
<1> SUFFICES ASSUME Init PROVE RangeInv
  OBVIOUS
<1>1. dir \in [Names -> BoundedFiles]
  BY RangeFiles DEF Init
<1>2. /\ lock = "free" /\ wpc = "idle" /\ created = 0 /\ got = 0 /\ nextRec = 1 /\ first = 1
      /\ readPos = 0 /\ segs = <<>>
  BY DEF Init
<1> QED
  BY <1>1, <1>2, RangeFiles DEF RangeInv

\* Every variable stays in its range: no file holds a record the stream does not
\* have, a buffer makes no more files than it may, Release is never ahead of the
\* stream, and the handle lists only files that are in the directory.
THEOREM TypeCorrect == Spec => []TypeOK
<1>1. ASSUME DiskInv, RangeInv, FlagInv PROVE TypeOK
  <2>1. Types /\ ControlInv /\ DirInv /\ SegInv
    BY <1>1 DEF DiskInv
  <2>2. \A i \in 1 .. Len(segs) : dir[segs[i]].there
    <3>1. CASE handle = "open"
      BY <2>1, <3>1, SegFacts DEF Present
    <3>2. CASE handle = "none"
      <4>1. Len(segs) = 0
        BY <1>1, <3>2 DEF RangeInv
      <4> QED
        BY <4>1
    <3> QED
      BY <2>1, <3>1, <3>2 DEF ControlInv
  <2>3. first \in 1 .. Records + 1 /\ nextRec \in first .. Records + 1
        /\ readPos \in (first - 1) .. (nextRec - 1)
    BY <1>1, <2>1, RangeFiles DEF RangeInv, Types
  <2>4. handle \in {"none", "open"}
    BY <2>1 DEF ControlInv
  <2>5. segs \in Seq(Names) /\ ro \in Nat /\ appended \in Nat /\ drainedC \in Nat
    BY <2>1 DEF Types
  <2> QED
    BY <1>1, <2>2, <2>3, <2>4, <2>5, Zenon DEF TypeOK, RangeInv, FlagInv, BoundedFiles
<1>2. Spec => []RangeInv
  BY RangeInit, RangeStep, DiskAlways, PTL DEF Spec
<1>3. Init => FlagInv
  BY Zenon DEF Init, FlagInv
<1>4. Spec => []FlagInv
  BY <1>3, FlagStep, PTL DEF Spec
<1> QED
  BY <1>1, <1>2, <1>4, DiskAlways, PTL

=============================================================================
