--------------------------- MODULE SnapshotProofs ---------------------------
(***************************************************************************)
(* Proofs about Snapshot: for every dump, rule set, buffer size and number *)
(* of faults, nothing is emitted from an incomplete or mixed transfer, no  *)
(* slot key reaches a consumer, the reader and the SQL sink keep to the    *)
(* bounds of their channels, and no key is lost where a dump is resumed.   *)
(***************************************************************************)
EXTENDS Snapshot, OrderProofs

\* Unless a step says otherwise: Z3, then Zenon, then Z3 with more time.
USE SMTT(10), ZenonT(20), Z3T(30)

-----------------------------------------------------------------------------

\* The master's snapshots are numbered as they are taken.
Versions == uuid \in 1 .. MaxBgsaves + 1 /\ want \in 0 .. uuid

\* The dump is opened behind the transfer.
OpenedAfter == rpc # "open" \/ emitted # <<>> => fpc = "ok"

\* At most one row is under way, in the queue, with a flusher or answered, and
\* then the emit loop waits for it or has given it up.
OneRow ==
  /\ epc \in {"idle", "waiting", "failed", "ended"} /\ ctxDone \in BOOLEAN /\ spc \in {"open", "flushing", "closed"}
  /\ DOMAIN taken = Flushers /\ taken = [f \in Flushers |-> taken[f]]
  /\ epc = "idle" => queue = <<>> /\ done = <<>> /\ \A f \in Flushers : taken[f] = <<>>
  /\ queue # <<>> => Len(queue) = 1 /\ done = <<>> /\ \A f \in Flushers : taken[f] = <<>>
  /\ \A f \in Flushers : taken[f] # <<>> =>
       queue = <<>> /\ done = <<>> /\ \A g \in Flushers : g # f => taken[g] = <<>>

\* Emit confirms events that exist; incremental ones follow a finished dump.
Confirmed ==
  /\ IsSeq(emitted) /\ IsSeq(inc) /\ acked \in Nat
  /\ acked <= Len(emitted) + Len(inc)
  /\ epc = "waiting" => acked < Len(emitted) + Len(inc)
  /\ inc # <<>> => rpc = "done"

SnapInv == FetchInv /\ Versions /\ OpenedAfter /\ ReadTypes /\ OneRow /\ Confirmed

-----------------------------------------------------------------------------
(* A step is one of the transfer, the reader or the sink, or of all *)

FetchPart == (FetchStep \/ NewBgsave) /\ UNCHANGED <<readVars, sinkVars, inc>>

ReadPart ==
  /\ (fpc = "ok" /\ ReadStep) \/ ReadFault \/ EmitRecord \/ EmitStops
  /\ UNCHANGED <<fetchVars, sinkVars, inc>>

SinkPart ==
  /\ SinkStep \/ CloseBegin \/ Cancel \/ (acked < Len(Stream) /\ Emit(Stream[acked + 1]))
  /\ UNCHANGED <<fetchVars, readVars, inc>>

\* A step of Snapshot is one of a part, or a crash, a restart, a command of the master.
LEMMA Parts ==
  ASSUME [Next]_vars
  PROVE  \/ FetchPart \/ ReadPart \/ SinkPart \/ CrashAll \/ RestartTail \/ MasterWrite
         \/ UNCHANGED <<fetchVars, readVars, sinkVars, inc>>
<1>1. UNCHANGED snapVars => UNCHANGED inc
  BY DEF snapVars
<1>2. CASE Step
  BY Zenon, <1>1, <1>2 DEF Step, Inject, SinkEmit, ReadCancelled, SessionEnds, SinkClose,
                              FetchPart, ReadPart, SinkPart
<1>3. CASE Fault
  BY Zenon, <1>3 DEF Fault, Interrupt, FetchPart, ReadPart, SinkPart
<1>4. CASE MasterWrite \/ StartAgain
  BY Zenon, <1>4 DEF StartAgain
<1>5. CASE UNCHANGED vars
  BY <1>1, <1>5 DEF vars
<1> QED
  BY <1>2, <1>3, <1>4, <1>5 DEF Next

\* The transfer under the composed steps.
LEMMA FetchLemma ==
  ASSUME SnapInv, [Next]_vars
  PROVE  FetchInv' /\ Versions' /\ OpenedAfter'
<1>0. FetchInv /\ Versions /\ OpenedAfter
  BY DEF SnapInv
<1>1. CASE UNCHANGED fetchVars /\ (fpc = "ok" \/ UNCHANGED <<rpc, emitted>>)
  <2>1. FetchInv'
    BY <1>0, <1>1, FetchStepInv
  <2>2. Versions' /\ OpenedAfter'
    BY <1>0, <1>1 DEF Versions, OpenedAfter, fetchVars
  <2> QED
    BY <2>1, <2>2
<1>2. CASE FetchPart
  <2>1. FetchInv'
    BY <1>0, <1>2, FetchStepInv, Zenon DEF FetchPart
  <2>2. Versions'
    BY <1>0, <1>2, FilesAssumption
    DEF FetchPart, Versions, FetchStep, NewBgsave, FetchMeta, FetchInfo, RestDone, WorkerTake,
        WorkerStop, WorkerFetch
  <2>3. fpc # "ok"
    <3>1. ASSUME NEW w \in Workers, fpc = "ok" PROVE job[w] \notin FileNames
      BY <1>0, <3>1, WorkFacts DEF FetchInv, Taken
    <3> QED
      BY <1>2, <3>1 DEF FetchPart, FetchStep, NewBgsave, FetchMeta, FetchInfo, RestDone,
                        WorkerTake, WorkerStop, WorkerFetch
  <2>4. UNCHANGED <<rpc, emitted>>
    BY <1>2 DEF FetchPart, readVars
  <2> QED
    BY <1>0, <2>1, <2>2, <2>3, <2>4 DEF OpenedAfter
<1>3. CASE ReadPart
  <2>1. CASE fpc = "ok"
    BY <1>1, <1>3, <2>1, Zenon DEF ReadPart
  <2>2. CASE fpc # "ok"
    <3>1. rpc = "open"
      BY <1>0, <2>2, Zenon DEF OpenedAfter
    <3>2. UNCHANGED <<rpc, emitted>>
      BY <1>3, <2>2, <3>1, Zenon
      DEF ReadPart, ReadFault, ScanFails, DumperDies, ExpireKey, EmitFails, EmitStops,
                              EmitRecord, emitVars
    <3> QED
      BY <1>1, <1>3, <3>2 DEF ReadPart
  <2> QED
    BY <2>1, <2>2
<1>4. CASE SinkPart
  BY <1>1, <1>4 DEF SinkPart, readVars
<1>5. CASE CrashAll \/ RestartTail
  <2>1. rpc # "open" /\ UNCHANGED fetchVars
    BY <1>5, Zenon DEF CrashAll, Crash, RestartTail
  <2> QED
    BY <1>0, <1>1, <2>1, Zenon DEF OpenedAfter
<1>6. CASE MasterWrite \/ UNCHANGED <<fetchVars, readVars, sinkVars, inc>>
  BY <1>1, <1>6, Zenon DEF MasterWrite, readVars
<1> QED
  BY <1>2, <1>3, <1>4, <1>5, <1>6, Parts

\* The shape of the reader under the composed steps.
LEMMA ReadLemma ==
  ASSUME SnapInv, [Next]_vars
  PROVE  ReadTypes'
<1>0. ReadTypes
  BY Zenon DEF SnapInv
<1>1. CASE UNCHANGED <<rpc, dpc, feeder, quit, it, out, reply, batch>>
  BY <1>0, <1>1, Zenon DEF ReadTypes, IsSeq
<1>2. CASE ReadPart
  BY <1>0, <1>2, ReadShape, Zenon DEF ReadPart, Reads
<1>3. CASE CrashAll
  BY <1>3, CrashShape, Zenon DEF CrashAll
<1>4. CASE RestartTail
  BY <1>1, <1>4, Zenon DEF RestartTail, dumperVars, feederVars, emitVars
<1>5. CASE FetchPart \/ SinkPart \/ MasterWrite \/ UNCHANGED <<fetchVars, readVars, sinkVars, inc>>
  BY <1>1, <1>5, Zenon DEF FetchPart, SinkPart, MasterWrite, readVars
<1> QED
  BY <1>2, <1>3, <1>4, <1>5, Parts, Zenon

-----------------------------------------------------------------------------
(* The SQL sink *)

\* Emit skips an event without a row, fails, or queues one row.
LEMMA EmitFacts ==
  ASSUME NEW e, Emit(e)
  PROVE  /\ epc = "idle" /\ UNCHANGED <<taken, done, spc, ctxDone>>
         /\ \/ acked' = acked + 1 /\ UNCHANGED <<epc, queue>>
            \/ epc' = "failed" /\ UNCHANGED <<acked, queue>>
            \/ epc' = "waiting" /\ acked' = acked /\ \E x : queue' = Append(queue, x)
<1> DEFINE r == RowForEvent(e)
<1>0. epc = "idle" /\ UNCHANGED <<taken, done, spc, ctxDone>>
  BY DEF Emit
<1>1. CASE r.kind = "nomatch"
  BY Zenon, <1>0, <1>1 DEF Emit
<1>2. CASE r.kind # "nomatch" /\ (r.kind = "error" \/ spc # "open")
  BY <1>0, <1>2 DEF Emit
<1>3. CASE ~(r.kind = "nomatch") /\ ~(r.kind = "error" \/ spc # "open")
  BY <1>0, <1>3 DEF Emit
<1> QED
  BY <1>1, <1>2, <1>3

\* The one row under way.
LEMMA OneRowLemma ==
  ASSUME SnapInv, [Next]_vars
  PROVE  OneRow'
<1>0. OneRow
  BY Zenon DEF SnapInv
<1>1. CASE UNCHANGED <<epc, queue, taken, done, spc, ctxDone>>
  BY <1>0, <1>1, Zenon DEF OneRow
<1>2. CASE SinkPart
  <2>1. CASE \E e : Emit(e)
    <3>1. PICK e : Emit(e)
      BY <2>1, Zenon
    <3>2. /\ epc = "idle" /\ UNCHANGED <<taken, done, spc, ctxDone>>
          /\ queue = <<>> /\ done = <<>> /\ \A f \in Flushers : taken[f] = <<>>
      BY <1>0, <3>1, EmitFacts, Zenon DEF OneRow
    <3>3. CASE epc' # "waiting"
      BY <1>0, <3>1, <3>2, <3>3, EmitFacts, Zenon DEF OneRow
    <3>4. CASE epc' = "waiting"
      <4>1. PICK x : queue' = Append(queue, x)
        BY <3>1, <3>2, <3>4, EmitFacts, Zenon
      <4>2. Len(queue') = 1
        <5>1. Len(Append(<<>>, x)) = Len(<<>>) + 1
          BY SeqAppend, SeqEmpty, Zenon
        <5> QED
          BY <3>2, <4>1, <5>1, SeqEmpty
      <4> QED
        BY <1>0, <3>2, <3>4, <4>2, Zenon DEF OneRow
    <3> QED
      BY <3>3, <3>4
  <2>2. CASE EmitReturns
    <3>1. /\ epc = "waiting" /\ done # <<>> /\ done' = <<>> /\ UNCHANGED <<queue, taken, spc, ctxDone>>
          /\ epc' \in {"idle", "failed"}
      BY <2>2, SeqEmpty, Zenon DEF EmitReturns
    <3> QED
      BY <1>0, <3>1, Zenon DEF OneRow
  <2>3. CASE CloseBegin \/ CloseEnd \/ Cancel \/ EmitCancelled \/ EmitLoopEnds
    BY <1>0, <2>3, Zenon DEF CloseBegin, CloseEnd, Cancel, EmitCancelled, EmitLoopEnds, OneRow
  <2>4. ASSUME NEW f \in Flushers, FlushTake(f)
        PROVE  OneRow'
    <3>1. /\ queue # <<>> /\ queue' = <<>> /\ UNCHANGED <<epc, done, spc, ctxDone>>
          /\ taken' = [taken EXCEPT ![f] = Coalesce(queue)]
      BY <2>4, Zenon DEF FlushTake
    <3>2. done = <<>> /\ epc # "idle" /\ \A g \in Flushers : taken[g] = <<>>
      BY <1>0, <3>1, Zenon DEF OneRow
    <3>3. /\ DOMAIN taken' = Flushers /\ taken' = [g \in Flushers |-> taken'[g]]
          /\ \A g \in Flushers : g # f => taken'[g] = <<>>
      BY <1>0, <3>1, <3>2, Zenon DEF OneRow
    <3> QED
      BY <1>0, <3>1, <3>2, <3>3, Zenon DEF OneRow
  <2>5. ASSUME NEW f \in Flushers, commit(f)
        PROVE  OneRow'
    <3>1. /\ taken[f] # <<>> /\ taken' = [taken EXCEPT ![f] = <<>>]
          /\ UNCHANGED <<epc, queue, spc, ctxDone>>
      BY <2>5, Zenon DEF commit
    <3>2. queue = <<>> /\ epc # "idle" /\ \A g \in Flushers : g # f => taken[g] = <<>>
      BY <1>0, <3>1, Zenon DEF OneRow
    <3>3. /\ DOMAIN taken' = Flushers /\ taken' = [g \in Flushers |-> taken'[g]]
          /\ \A g \in Flushers : taken'[g] = <<>>
      BY <1>0, <3>1, <3>2, Zenon DEF OneRow
    <3> QED
      BY <1>0, <3>1, <3>2, <3>3 DEF OneRow
  <2> QED
    BY <1>2, <2>1, <2>2, <2>3, <2>4, <2>5, Zenon DEF SinkPart, SinkStep
<1>3. CASE CrashAll \/ RestartTail
  <2>1. /\ epc' = "idle" /\ queue' = <<>> /\ done' = <<>> /\ spc' = "open" /\ ctxDone' = FALSE
        /\ taken' = [f \in Flushers |-> <<>>]
    BY <1>3, Zenon DEF CrashAll, RestartTail, NewSink
  <2>2. /\ DOMAIN taken' = Flushers /\ taken' = [f \in Flushers |-> taken'[f]]
        /\ \A f \in Flushers : taken'[f] = <<>>
    BY <2>1, Zenon
  <2> QED
    BY <2>1, <2>2, Zenon DEF OneRow
<1>4. CASE FetchPart \/ ReadPart \/ MasterWrite \/ UNCHANGED <<fetchVars, readVars, sinkVars, inc>>
  BY <1>1, <1>4 DEF FetchPart, ReadPart, MasterWrite, sinkVars
<1> QED
  BY <1>2, <1>3, <1>4, Parts

\* Confirmations never run ahead of the events.
LEMMA ConfirmedLemma ==
  ASSUME SnapInv, [Next]_vars
  PROVE  Confirmed'
<1>0. /\ Confirmed /\ IsSeq(emitted) /\ IsSeq(inc) /\ Len(emitted) \in Nat /\ Len(inc) \in Nat
      /\ Len(Stream) = Len(emitted) + Len(inc) /\ acked \in Nat
      /\ acked <= Len(emitted) + Len(inc)
  BY SeqJoin DEF SnapInv, Confirmed, Stream
<1>1. CASE UNCHANGED <<emitted, inc, acked, epc>> /\ (rpc = "done" => rpc' = "done")
  BY <1>0, <1>1 DEF Confirmed, IsSeq
<1>2. CASE SinkPart
  <2>1. UNCHANGED <<emitted, inc, rpc>>
    BY <1>2 DEF SinkPart, readVars
  <2>2. /\ acked' \in Nat /\ acked' <= Len(emitted) + Len(inc)
        /\ epc' = "waiting" => acked' < Len(emitted) + Len(inc)
    <3>1. CASE acked < Len(Stream) /\ Emit(Stream[acked + 1])
      BY <1>0, <3>1, EmitFacts
    <3>2. CASE EmitReturns
      <4>1. /\ epc = "waiting" /\ epc' \in {"idle", "failed"}
            /\ acked' = acked \/ acked' = acked + 1
        BY <3>2 DEF EmitReturns
      <4> QED
        BY <1>0, <4>1 DEF Confirmed
    <3>3. CASE \/ CloseBegin \/ CloseEnd \/ Cancel \/ EmitCancelled \/ EmitLoopEnds
               \/ \E f \in Flushers : FlushTake(f) \/ commit(f)
      <4>1. UNCHANGED acked /\ (epc' = "waiting" => epc = "waiting")
        BY <3>3, Zenon DEF CloseBegin, CloseEnd, Cancel, EmitCancelled, EmitLoopEnds, FlushTake, commit
      <4> QED
        BY <1>0, <4>1 DEF Confirmed
    <3> QED
      BY <1>2, <3>1, <3>2, <3>3, Zenon DEF SinkPart, SinkStep
  <2> QED
    BY <1>0, <2>1, <2>2 DEF Confirmed, IsSeq
<1>3. CASE ReadPart
  <2>1. UNCHANGED <<inc, acked, epc>>
    BY <1>3 DEF ReadPart, sinkVars
  <2>2. CASE EmitRecord
    <3>1. rpc = "run" /\ UNCHANGED rpc /\ \E x : emitted' = Append(emitted, x)
      BY Zenon, <2>2 DEF EmitRecord
    <3>2. IsSeq(emitted') /\ Len(emitted') = Len(emitted) + 1
      BY <1>0, <3>1, SeqAppend, Zenon
    <3>3. inc = <<>>
      BY <1>0, <3>1 DEF Confirmed
    <3>4. /\ acked' <= Len(emitted') + Len(inc')
          /\ epc' = "waiting" => acked' < Len(emitted') + Len(inc')
      BY <1>0, <2>1, <3>2 DEF Confirmed
    <3>5. IsSeq(emitted)' /\ IsSeq(inc)' /\ acked' \in Nat
      BY <1>0, <2>1, <3>2 DEF IsSeq
    <3> QED
      BY <2>1, <3>3, <3>4, <3>5 DEF Confirmed
  <2>3. CASE (fpc = "ok" /\ ReadStep) \/ ReadFault \/ EmitStops
    <3>1. UNCHANGED emitted /\ (rpc = "done" => rpc' = "done")
      BY <2>3 DEF ReadStep, ReadFault, Open, NextBatch, NextEnd, CloseIterator, ExpireKey,
                  EmitFails, EmitStops, emitVars, Closing
    <3> QED
      BY <1>1, <2>1, <3>1, Zenon
  <2> QED
    BY <1>3, <2>2, <2>3 DEF ReadPart
<1>4. CASE CrashAll
  <2>1. /\ rpc # "done" /\ epc' = "idle" /\ emitted' = SubSeq(emitted, 1, acked)
        /\ UNCHANGED <<acked, inc>>
    BY <1>4, Zenon DEF CrashAll, Crash, NewSink
  <2>2. inc = <<>> /\ Len(inc) = 0
    BY <1>0, <2>1, SeqEmpty, Zenon DEF Confirmed
  <2>3. IsSeq(emitted') /\ Len(emitted') = acked
    BY <1>0, <2>1, <2>2, SeqCut
  <2> QED
    BY <1>0, <2>1, <2>2, <2>3 DEF Confirmed, IsSeq
<1>5. CASE RestartTail
  <2>1. /\ epc' = "idle" /\ acked' \in Len(emitted) .. acked /\ UNCHANGED <<emitted, inc, rpc>>
    BY <1>5, Zenon DEF RestartTail, NewSink, emitVars
  <2>2. acked' \in Nat /\ acked' <= Len(emitted) + Len(inc)
    BY <1>0, <2>1
  <2> QED
    BY <1>0, <2>1, <2>2, Zenon DEF Confirmed, IsSeq
<1>6. CASE MasterWrite
  <2>1. rpc = "done" /\ UNCHANGED <<rpc, emitted, acked, epc>> /\ \E x : inc' = Append(inc, x)
    BY <1>6 DEF MasterWrite, readVars, sinkVars
  <2>2. IsSeq(inc') /\ Len(inc') = Len(inc) + 1
    BY <1>0, <2>1, SeqAppend
  <2>3. IsSeq(emitted)' /\ IsSeq(inc)'
    BY <1>0, <2>1, <2>2, Zenon DEF IsSeq
  <2>4. /\ acked' \in Nat /\ acked' <= Len(emitted') + Len(inc')
        /\ epc' = "waiting" => acked' < Len(emitted') + Len(inc')
    BY <1>0, <2>1, <2>2 DEF Confirmed
  <2> QED
    BY <2>1, <2>3, <2>4, Zenon DEF Confirmed
<1>7. CASE FetchPart \/ UNCHANGED <<fetchVars, readVars, sinkVars, inc>>
  BY <1>1, <1>7 DEF FetchPart, readVars, sinkVars
<1> QED
  BY <1>2, <1>3, <1>4, <1>5, <1>6, <1>7, Parts, Zenon

-----------------------------------------------------------------------------
\* SnapInv holds at the start.
LEMMA SnapInit == Init => SnapInv
<1> SUFFICES ASSUME Init PROVE SnapInv
  OBVIOUS
<1>1. FetchInv
  BY FetchInitInv DEF Init
<1>2. Versions /\ OpenedAfter
  BY FilesAssumption DEF Init, FetchInit, ReadInit, Versions, OpenedAfter
<1>3. ReadTypes
  <2>1. IsSeq(out) /\ Len(out) = 0 /\ Len(reply) = 0 /\ IsSeq(batch) /\ Len(batch) = 0
    BY SeqEmpty, Zenon DEF Init, ReadInit
  <2>2. /\ DOMAIN it = DOMAIN FreshIter /\ it = [fd \in DOMAIN it |-> it[fd]]
        /\ it.stage \in 1 .. Done
    BY DEF Init, ReadInit, FreshIter, Done, Stages
  <2>3. KBatch \in Nat /\ PrefetchDepth \in Nat
    BY ReaderAssumption
  <2>4. rpc = "open" /\ dpc = "none" /\ feeder = "none" /\ quit \in BOOLEAN
    BY Zenon DEF Init, ReadInit
  <2>5. Len(out) <= KBatch /\ Len(reply) <= 1 /\ Len(batch) <= PrefetchDepth
    BY <2>1, <2>3
  <2> QED
    BY <2>1, <2>2, <2>4, <2>5, Zenon DEF ReadTypes
<1>4. OneRow
  BY DEF Init, SinkInit, OneRow
<1>5. Confirmed
  BY SeqEmpty DEF Init, SinkInit, ReadInit, Confirmed
<1> QED
  BY <1>1, <1>2, <1>3, <1>4, <1>5 DEF SnapInv

\* SnapInv always holds.
LEMMA SnapAlways == Spec => []SnapInv
<1>1. SnapInv /\ [Next]_vars => SnapInv'
  BY FetchLemma, ReadLemma, OneRowLemma, ConfirmedLemma DEF SnapInv
<1> QED
  BY <1>1, SnapInit, PTL DEF Spec

\* Whatever the master, the connections and the workers do, no event is emitted
\* from a folder that is incomplete or mixes two snapshots, and the folder stays
\* that way through crashes and restarts (Rest, fetchFile and runDbsync).
THEOREM DumpOfOneSnapshot == Spec => []FetchExact
<1>1. SnapInv => FetchExact
  BY FetchInvExact DEF SnapInv, OpenedAfter, FetchExact
<1> QED
  BY <1>1, SnapAlways, PTL

\* The dumper's reply, the pipe, the prefetch channel and the sink's queue never
\* hold more than KBatch records, one reply, PrefetchDepth batches and one row, and
\* the sink confirms no event that does not exist, through crashes and restarts.
THEOREM SnapshotTypes == Spec => []TypeOK
<1>1. SnapInv => TypeOK
  <2> SUFFICES ASSUME SnapInv PROVE TypeOK
    OBVIOUS
  <2>1. /\ want \in 0 .. MaxBgsaves + 1 /\ next \in 1 .. Len(Work) + 1
        /\ fpc \in {"meta", "info", "rest", "ok", "failed"} /\ firstE \in BOOLEAN
    <3>1. next \in Nat \ {0} /\ next <= Len(Work) + 1 /\ Len(Work) \in Nat
      BY WorkFacts DEF SnapInv, FetchInv, FetchTypes, Taken
    <3>2. want \in 0 .. MaxBgsaves + 1
      BY FilesAssumption DEF SnapInv, Versions
    <3> QED
      BY <3>1, <3>2 DEF SnapInv, FetchInv, FetchTypes
  <2>2. acked \in 0 .. Len(Stream)
    <3>1. IsSeq(emitted) /\ IsSeq(inc) /\ acked \in Nat /\ acked <= Len(emitted) + Len(inc)
      BY DEF SnapInv, Confirmed
    <3>2. Len(Stream) = Len(emitted) + Len(inc) /\ Len(emitted) \in Nat /\ Len(inc) \in Nat
      BY <3>1, SeqJoin DEF Stream
    <3> QED
      BY <3>1, <3>2
  <2>3. Len(queue) <= 1
    <3>1. queue # <<>> => Len(queue) = 1
      BY Zenon DEF SnapInv, OneRow
    <3>2. Len(<<>>) = 0
      BY SeqEmpty
    <3>3. CASE queue = <<>>
      BY <3>2, <3>3
    <3>4. CASE queue # <<>>
      BY <3>1, <3>4
    <3> QED
      BY <3>3, <3>4
  <2>4. \A f \in Flushers : taken[f] # <<>> =>
          queue = <<>> /\ \A g \in Flushers : taken[g] # <<>> => g = f
    BY Zenon DEF SnapInv, OneRow
  <2>5. /\ epc \in {"idle", "waiting", "failed", "ended"} /\ ctxDone \in BOOLEAN
        /\ spc \in {"open", "flushing", "closed"}
    BY Zenon DEF SnapInv, OneRow
  <2>6. ReadTypes
    BY Zenon DEF SnapInv
  <2> QED
    BY <2>1, <2>2, <2>3, <2>4, <2>5, <2>6, Zenon DEF ReadTypes, TypeOK
<1> QED
  BY <1>1, SnapAlways, PTL

-----------------------------------------------------------------------------
(* Slot keys *)

\* A crash happens before there are incremental events.
LEMMA CrashedDump ==
  ASSUME SnapInv, CrashAll
  PROVE  /\ IsSeq(emitted) /\ acked \in Nat /\ acked <= Len(emitted)
         /\ Crash /\ emitted' = SubSeq(emitted, 1, acked) /\ UNCHANGED acked
<1>1. rpc # "done" /\ Crash /\ emitted' = SubSeq(emitted, 1, acked) /\ UNCHANGED acked
  BY Zenon DEF CrashAll, Crash
<1>2. inc = <<>> /\ IsSeq(emitted) /\ acked \in Nat /\ acked <= Len(emitted) + Len(inc)
  BY <1>1, Zenon DEF SnapInv, Confirmed
<1>3. Len(emitted) \in Nat /\ Len(inc) = 0
  BY <1>2, SeqEmpty, SeqAppend
<1>4. acked <= Len(emitted)
  BY <1>2, <1>3
<1> QED
  BY <1>1, <1>2, <1>4, Zenon

\* No step of Snapshot brings a slot key to a consumer.
LEMMA CleanStep ==
  ASSUME SnapInv, CleanPath, [Next]_vars
  PROVE  CleanPath'
<1>0. ReadTypes
  BY Zenon DEF SnapInv
<1>1. CASE UNCHANGED <<it, out, reply, held, batch, buf, emitted>>
  BY <1>1, CleanAfter, Zenon DEF CleanPath
<1>2. CASE ReadPart
  BY <1>0, <1>2, CleanRead, Zenon DEF ReadPart, Reads
<1>3. CASE CrashAll
  BY <1>3, CrashedDump, CleanCrash, Zenon
<1>4. CASE RestartTail
  BY <1>1, <1>4, Zenon DEF RestartTail, dumperVars, feederVars, emitVars
<1>5. CASE FetchPart \/ SinkPart \/ MasterWrite \/ UNCHANGED <<fetchVars, readVars, sinkVars, inc>>
  BY <1>1, <1>5, Zenon DEF FetchPart, SinkPart, MasterWrite, readVars
<1> QED
  BY <1>2, <1>3, <1>4, <1>5, Parts, Zenon

\* No record of a slot key gets past the walk (ShouldSkipKey of the drivers),
\* whatever is skipped, resumed, replayed after a crash or cut off by an error.
THEOREM SlotKeysStay == Spec => []NoSlotKey
<1>1. Init => CleanPath
  BY CleanEmpty, SeqEmpty DEF Init, ReadInit, FreshIter, CleanPath, CleanBatch
<1>2. SnapInv /\ CleanPath /\ [Next]_vars => CleanPath'
  BY CleanStep, Zenon
<1>3. CleanPath => NoSlotKey
  BY DEF CleanPath, Clean, NoSlotKey
<1> QED
  BY <1>1, <1>2, <1>3, SnapAlways, PTL DEF Spec

-----------------------------------------------------------------------------
(* Resuming *)

DumpInv == Turns /\ (~skipped => OrderInv(acked))

\* Only a crash may skip what was not confirmed.
LEMMA SkippedStays ==
  ASSUME [Next]_vars
  PROVE  CrashAll \/ UNCHANGED skipped
BY Zenon DEF Next, Step, Fault, Inject, SinkEmit, ReadCancelled, SessionEnds, SinkClose, StartAgain,
             MasterWrite, RestartTail, snapVars, vars

\* What the sink has confirmed stays confirmed.
LEMMA AckedGrows ==
  ASSUME SinkPart, acked \in Nat
  PROVE  acked' \in Nat /\ acked <= acked'
<1>1. CASE \E e : Emit(e)
  BY <1>1, EmitFacts
<1>2. CASE EmitReturns
  BY <1>2 DEF EmitReturns
<1>3. CASE \/ CloseBegin \/ CloseEnd \/ Cancel \/ EmitCancelled \/ EmitLoopEnds
           \/ \E f \in Flushers : FlushTake(f) \/ commit(f)
  <2>1. UNCHANGED acked
    BY <1>3, Zenon DEF CloseBegin, CloseEnd, Cancel, EmitCancelled, EmitLoopEnds, FlushTake, commit
  <2> QED
    BY <2>1
<1> QED
  BY <1>1, <1>2, <1>3, Zenon DEF SinkPart, SinkStep

\* Steps that leave the reader alone, but for the number of its runs.
LEMMA DumpKeeps ==
  ASSUME DumpInv, IsSeq(emitted), acked \in Nat, ~skipped' => ~skipped,
         UNCHANGED <<rpc, dirs, gone, resume, it, dpc, out, reply, feeder, held, batch, quit, buf, emitted>>,
         acked' \in Nat, acked <= acked' \/ Len(emitted) <= acked'
  PROVE  DumpInv'
<1>1. Turns'
  BY Zenon DEF DumpInv, Turns
<1>2. ASSUME ~skipped' PROVE OrderInv(acked)'
  <2>1. OrderInv(acked')
    BY <1>2, OrderMore, Zenon DEF DumpInv
  <2>2. Dump' = Dump /\ Dead' = Dead /\ Emitted' = Emitted
    BY DEF Dump, Dead, Emitted, Stored, DirOf, sniffLayout
  <2> QED
    BY <2>1, <2>2, Zenon DEF OrderInv
<1> QED
  BY <1>1, <1>2, Zenon DEF DumpInv

\* Every step keeps the turns and the order.
LEMMA DumpStep ==
  ASSUME SnapInv, DumpInv, [Next]_vars
  PROVE  DumpInv'
<1>0. /\ Turns /\ ReadTypes /\ IsSeq(emitted) /\ acked \in Nat
      /\ ~skipped => OrderInv(acked)
  BY Zenon DEF DumpInv, SnapInv, Confirmed
<1>1. ~skipped' => ~skipped
  BY SkippedStays, Zenon DEF CrashAll
<1>2. CASE ReadPart
  <2>1. Reads /\ UNCHANGED acked
    BY <1>2, Zenon DEF ReadPart, Reads, sinkVars
  <2>2. Turns'
    BY <1>0, <2>1, TurnsRead, Zenon
  <2>3. ASSUME ~skipped PROVE OrderInv(acked)'
    <3>1. ASSUME NEW a \in Nat, a = acked PROVE OrderInv(a)'
      BY <1>0, <2>1, <2>3, <3>1, OrderRead, Zenon
    <3> QED
      BY <1>0, <2>1, <3>1, Zenon DEF OrderInv
  <2> QED
    BY <1>1, <2>2, <2>3, Zenon DEF DumpInv
<1>3. CASE CrashAll
  <2>1. Turns'
    <3>1. /\ rpc' = "open" /\ dpc' = "none" /\ out' = <<>> /\ reply' = <<>> /\ feeder' = "none"
          /\ held' = <<>> /\ batch' = <<>> /\ quit' = FALSE /\ buf' = <<>>
      BY <1>3, Zenon DEF CrashAll, Crash
    <3> QED
      BY <3>1 DEF Turns
  <2>2. ASSUME ~skipped' PROVE OrderInv(acked)'
    <3>1. \/ resume' = resume
          \/ \E i \in 1 .. acked : [type |-> emitted[i].type, key |-> emitted[i].key] = resume'
      BY <1>3, <2>2, Zenon DEF CrashAll
    <3>2. ASSUME NEW a \in Nat, a = acked PROVE OrderInv(a)'
      <4>1. a <= Len(emitted) /\ Crash /\ emitted' = SubSeq(emitted, 1, a)
        BY <1>3, <3>2, CrashedDump, Zenon
      <4> QED
        BY <1>0, <1>1, <2>2, <3>1, <3>2, <4>1, OrderCrash, Zenon
    <3> QED
      BY <1>0, <1>3, <3>2, CrashedDump, Zenon DEF OrderInv
  <2> QED
    BY <2>1, <2>2, Zenon DEF DumpInv
<1>4. CASE SinkPart
  <2>1. acked' \in Nat /\ acked <= acked'
    BY <1>0, <1>4, AckedGrows, Zenon
  <2> QED
    BY <1>0, <1>1, <1>4, <2>1, DumpKeeps, Zenon DEF SinkPart, readVars
<1>5. CASE RestartTail
  <2>1. acked' \in Len(emitted) .. acked /\ Len(emitted) \in Nat
    BY <1>0, <1>5, SeqAppend, Zenon DEF RestartTail
  <2>2. acked' \in Nat /\ Len(emitted) <= acked'
    BY <1>0, <2>1
  <2> QED
    BY <1>0, <1>1, <1>5, <2>2, DumpKeeps, Zenon DEF RestartTail, dumperVars, feederVars, emitVars
<1>6. CASE FetchPart \/ MasterWrite \/ UNCHANGED <<fetchVars, readVars, sinkVars, inc>>
  <2>1. UNCHANGED readVars /\ UNCHANGED acked
    BY <1>6, Zenon DEF FetchPart, MasterWrite, sinkVars
  <2>2. acked' \in Nat /\ acked <= acked'
    BY <1>0, <2>1
  <2> QED
    BY <1>0, <1>1, <2>1, <2>2, DumpKeeps, Zenon DEF readVars
<1> QED
  BY <1>2, <1>3, <1>4, <1>5, <1>6, Parts, Zenon

\* Wherever the dump is resumed, and however often, no key is lost: at any event
\* all keys before its own have been emitted completely, and at the end all keys
\* have (the scans, the replies, the prefetch channel and emit, for every dump,
\* batch size and interleaving, through crashes and restarts).
THEOREM ResumeLosesNothing == Spec => []ResumeSafe
<1>1. Init => DumpInv
  BY OrderInit, Zenon DEF Init, DumpInv
<1>2. SnapInv /\ DumpInv /\ [Next]_vars => DumpInv'
  BY DumpStep, Zenon
<1>3. SnapInv /\ DumpInv => ResumeSafe
  BY OrderSafe, Zenon DEF SnapInv, Confirmed, DumpInv, ResumeSafe
<1> QED
  BY <1>1, <1>2, <1>3, SnapAlways, PTL DEF Spec

=============================================================================
