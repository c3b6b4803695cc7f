----------------------------- MODULE DorisProofs -----------------------------
(***************************************************************************)
(* Proofs about DorisSink: for every queue bound and every interleaving of *)
(* Emit, commitLoop and Close, with failing loads, slots neither leak nor  *)
(* run out.                                                                *)
(***************************************************************************)
EXTENDS DorisSink, TLAPS

\* Unless a step says otherwise: Z3, then Zenon, then Z3 with more time.
USE SMTT(10), ZenonT(20), Z3T(30)

SlotInv == TypeOK /\ RoomExact /\ RowInv

\* Lengths are naturals, so the sum of slots is one.
LEMMA Lengths ==
  ASSUME TypeOK
  PROVE  /\ Len(queue) \in Nat /\ InHand \in 0 .. 1 /\ room \in Nat /\ next \in Nat
         /\ \A f \in Flushers : Len(batch[f]) \in Nat /\ Taken(f) \in Nat
         /\ Taken("loop") \in Nat /\ Taken("close") \in Nat
<1>1. Len(queue) \in Nat /\ InHand \in 0 .. 1 /\ room \in Nat /\ next \in Nat
  BY EventsAssumption, RoomAssumption DEF TypeOK, InHand
<1>2. ASSUME NEW f \in Flushers PROVE Len(batch[f]) \in Nat /\ Taken(f) \in Nat
  BY DEF TypeOK, Taken
<1> QED
  BY <1>1, <1>2 DEF Flushers

\* Queueing a row adds one row and one slot.
LEMMA QueueRow ==
  ASSUME TypeOK, RowInv, next < Events
  PROVE  /\ Append(queue, next + 1) \in Seq(1 .. Events)
         /\ Len(Append(queue, next + 1)) = Len(queue) + 1
         /\ Rows(Append(queue, next + 1)) \subseteq 1 .. (next + 1)
<1>1. next + 1 \in 1 .. Events /\ queue \in Seq(1 .. Events) /\ Len(queue) \in Nat
  BY EventsAssumption DEF TypeOK
<1>2. \A i \in 1 .. Len(queue) : queue[i] \in 1 .. next
  BY DEF RowInv, Rows
<1>3. ASSUME NEW i \in 1 .. (Len(queue) + 1)
      PROVE  Append(queue, next + 1)[i] \in 1 .. (next + 1)
  <2>1. CASE i = Len(queue) + 1
    BY <1>1, <2>1
  <2>2. CASE i # Len(queue) + 1
    <3>1. i \in 1 .. Len(queue)
      BY <1>1, <2>2
    <3>2. Append(queue, next + 1)[i] = queue[i]
      BY <1>1, <3>1
    <3>3. queue[i] \in 1 .. next
      BY <1>2, <3>1
    <3>4. 1 .. next \subseteq 1 .. (next + 1)
      BY Lengths
    <3> QED
      BY <3>2, <3>3, <3>4
  <2> QED
    BY <2>1, <2>2
<1> QED
  BY <1>1, <1>3 DEF Rows

\* One step keeps types, slots and rows.
LEMMA SlotStep == SlotInv /\ [Next]_vars => SlotInv'
<1> SUFFICES ASSUME SlotInv, [Next]_vars PROVE SlotInv'
  OBVIOUS
<1> USE EventsAssumption, RoomAssumption
<1>0. TypeOK /\ RoomExact /\ RowInv
  BY DEF SlotInv
<1>1. CASE EmitRoom
  <2>1. TypeOK'
    BY <1>0, <1>1 DEF EmitRoom, TypeOK, flushVars
  <2>2. RoomExact'
    <3>1. room' = room + 1 /\ InHand = 0 /\ InHand' = 1
      BY <1>1 DEF EmitRoom, InHand
    <3>2. queue' = queue /\ Taken("loop")' = Taken("loop") /\ Taken("close")' = Taken("close")
      BY <1>1 DEF EmitRoom, flushVars, Taken
    <3> QED
      BY <1>0, <3>1, <3>2, Lengths DEF RoomExact
  <2>3. RowInv'
    BY <1>0, <1>1 DEF EmitRoom, RowInv, flushVars, Rows
  <2> QED
    BY <2>1, <2>2, <2>3 DEF SlotInv
<1>2. CASE EmitAbort
  <2>1. TypeOK'
    BY <1>0, <1>2 DEF EmitAbort, TypeOK, flushVars
  <2>2. RoomExact'
    BY <1>0, <1>2 DEF EmitAbort, RoomExact, flushVars, InHand, Taken
  <2>3. RowInv'
    BY <1>0, <1>2 DEF EmitAbort, RowInv, flushVars, Rows
  <2> QED
    BY <2>1, <2>2, <2>3 DEF SlotInv
<1>3. CASE EmitQueue
  <2>0. UNCHANGED <<room, fpc, batch, todo, durable, reported, termErr, cpc, cancelled>>
        /\ epc = "locked"
    BY <1>3 DEF EmitQueue, flushVars
  <2>1. CASE cpc # "open" \/ termErr
    <3>0. epc' = "giveback" /\ UNCHANGED <<next, queue>>
      BY <1>3, <2>1 DEF EmitQueue
    <3>1. TypeOK'
      BY <1>0, <2>0, <3>0 DEF TypeOK
    <3>2. RoomExact'
      BY <1>0, <2>0, <3>0 DEF RoomExact, InHand, Taken
    <3>3. RowInv'
      BY <1>0, <2>0, <3>0 DEF RowInv, Rows
    <3> QED
      BY <3>1, <3>2, <3>3 DEF SlotInv
  <2>2. CASE ~(cpc # "open" \/ termErr)
    <3>0. /\ epc' = "idle" /\ next' = next + 1 /\ queue' = Append(queue, next + 1)
          /\ next < Events
      BY <1>0, <1>3, <2>0, <2>2 DEF EmitQueue, RowInv
    <3>1. /\ queue' \in Seq(1 .. Events) /\ Len(queue') = Len(queue) + 1
          /\ Rows(queue') \subseteq 1 .. next'
      BY <1>0, <3>0, QueueRow
    <3>2a. InHand = 1 /\ InHand' = 0
      BY <2>0, <3>0 DEF InHand
    <3>2b. room' = room /\ Taken("loop")' = Taken("loop") /\ Taken("close")' = Taken("close")
      BY <2>0 DEF Taken
    <3>2. RoomExact'
      BY <1>0, <3>1, <3>2a, <3>2b, Lengths DEF RoomExact
    <3>3. Len(queue') <= MaxQueueRows
      <4>1. room <= MaxQueueRows
        BY <1>0 DEF TypeOK
      <4> QED
        BY <1>0, <3>1, <3>2a, <4>1, Lengths DEF RoomExact
    <3>4. next' \in 0 .. Events /\ durable' \subseteq 1 .. next'
      BY <1>0, <2>0, <3>0 DEF TypeOK
    <3>5. TypeOK'
      BY <1>0, <2>0, <3>0, <3>1, <3>3, <3>4 DEF TypeOK
    <3>6. RowInv'
      <4>1. \A f \in Flushers : Rows(batch[f]) \subseteq 1 .. (next + 1)
        <5>1. 1 .. next \subseteq 1 .. (next + 1)
          BY <1>0, Lengths
        <5> QED
          BY <1>0, <5>1 DEF RowInv
      <4> QED
        BY <2>0, <3>0, <3>1, <4>1 DEF RowInv
    <3> QED
      BY <3>2, <3>5, <3>6 DEF SlotInv
  <2> QED
    BY <2>1, <2>2
<1>4. CASE EmitGiveBack
  <2>1. TypeOK'
    BY <1>0, <1>4 DEF EmitGiveBack, TypeOK, flushVars
  <2>2. RoomExact'
    <3>1. room' = room - 1 /\ InHand = 1 /\ InHand' = 0
      BY <1>4 DEF EmitGiveBack, InHand
    <3>2. queue' = queue /\ Taken("loop")' = Taken("loop") /\ Taken("close")' = Taken("close")
      BY <1>4 DEF EmitGiveBack, flushVars, Taken
    <3> QED
      BY <1>0, <3>1, <3>2, Lengths DEF RoomExact
  <2>3. RowInv'
    BY <1>0, <1>4 DEF EmitGiveBack, RowInv, flushVars, Rows
  <2> QED
    BY <2>1, <2>2, <2>3 DEF SlotInv
<1>5. CASE CloseBegin \/ CloseCancel \/ CloseReturn \/ UNCHANGED vars
  <2>0. /\ UNCHANGED <<epc, next, room, queue, fpc, batch, todo, durable, reported, termErr>>
        /\ cpc' \in {cpc, "drain", "wait", "closed"} /\ cancelled' \in {cancelled, TRUE}
    BY Zenon, <1>5 DEF CloseBegin, CloseCancel, CloseReturn, vars, flushVars
  <2>1. TypeOK'
    BY Zenon, <1>0, <2>0 DEF TypeOK
  <2>2. RoomExact' /\ RowInv'
    BY <1>0, <2>0 DEF RoomExact, RowInv, Rows, InHand, Taken
  <2> QED
    BY <2>1, <2>2 DEF SlotInv
<1>6. CASE LoopExit
  <2>1. TypeOK'
    BY <1>0, <1>6 DEF LoopExit, TypeOK, Flushers
  <2>2. RoomExact'
    BY Zenon, <1>0, <1>6 DEF LoopExit, RoomExact, TypeOK, Flushers, InHand, Taken
  <2>3. RowInv'
    BY <1>0, <1>6 DEF LoopExit, RowInv, Rows
  <2> QED
    BY <2>1, <2>2, <2>3 DEF SlotInv
<1>7. ASSUME NEW f \in Flushers, Flush(f) PROVE SlotInv'
  <2>0. f = "loop" \/ f = "close"
    BY DEF Flushers
  <2>1. CASE FlushTake(f)
    <3>0. /\ UNCHANGED <<epc, next, room, todo, durable, reported, termErr, cpc, cancelled>>
          /\ queue' = <<>> /\ batch' = [batch EXCEPT ![f] = queue]
          /\ fpc' = [fpc EXCEPT ![f] = "room"] /\ fpc[f] = "idle"
      BY <2>1 DEF FlushTake
    <3>1. queue' \in Seq(1 .. Events) /\ Len(queue') = 0 /\ Rows(queue') = {}
      BY <3>0 DEF Rows
    <3>2. TypeOK'
      BY <1>0, <3>0, <3>1 DEF TypeOK
    <3>3. RoomExact'
      <4>1. Taken(f) = 0 /\ Taken(f)' = Len(queue)
        BY <1>0, <3>0 DEF Taken, TypeOK
      <4>2. \A g \in Flushers : g # f => Taken(g)' = Taken(g)
        BY <1>0, <3>0 DEF Taken, TypeOK
      <4>3. room' = room /\ InHand' = InHand
        BY <3>0 DEF InHand
      <4> QED
        BY <1>0, <2>0, <3>1, <4>1, <4>2, <4>3, Lengths DEF RoomExact, Flushers
    <3>4. RowInv'
      <4>1. \A g \in Flushers : Rows(batch'[g]) \subseteq 1 .. next
        BY <1>0, <3>0 DEF RowInv, TypeOK
      <4> QED
        BY <1>0, <3>0, <3>1, <4>1 DEF RowInv
    <3> QED
      BY <3>2, <3>3, <3>4 DEF SlotInv
  <2>2. CASE FlushRoom(f)
    <3>0. /\ UNCHANGED <<epc, next, queue, batch, durable, reported, termErr, cpc, cancelled>>
          /\ fpc' = [fpc EXCEPT ![f] = "load"] /\ fpc[f] = "room"
          /\ room' = IF room >= Len(batch[f]) THEN room - Len(batch[f]) ELSE 0
      BY <2>2 DEF FlushRoom
    <3>1. RoomExact' /\ room' \in 0 .. room
      <4>1. Taken(f) = Len(batch[f]) /\ Taken(f)' = 0
        BY <1>0, <3>0 DEF Taken, TypeOK
      <4>2. \A g \in Flushers : g # f => Taken(g)' = Taken(g)
        BY <1>0, <3>0 DEF Taken, TypeOK
      <4>3. queue' = queue /\ InHand' = InHand
        BY <3>0 DEF InHand
      <4>4. room >= Taken(f)
        BY <1>0, <2>0, Lengths DEF RoomExact
      <4>5. room' = room - Taken(f)
        BY <3>0, <4>1, <4>4
      <4>6. room \in Nat /\ Taken(f) \in Nat /\ Len(queue) \in Nat /\ InHand \in 0 .. 1
        BY <1>0, <2>0, Lengths
      <4>7. Taken("loop") \in Nat /\ Taken("close") \in Nat
        BY <1>0, Lengths
      <4>8. CASE f = "loop"
        <5>1. Taken("close")' = Taken("close")
          BY <4>2, <4>8 DEF Flushers
        <5>2. Taken("loop")' = 0 /\ room' = room - Taken("loop")
          BY <4>1, <4>5, <4>8
        <5>3. room = Len(queue) + InHand + Taken("loop") + Taken("close")
          BY <1>0 DEF RoomExact
        <5>4. room >= Taken("loop")
          BY <4>4, <4>8
        <5>5. /\ room - Taken("loop") = Len(queue) + InHand + 0 + Taken("close")
              /\ room - Taken("loop") \in 0 .. room
          BY <4>6, <4>7, <5>3, <5>4
        <5>6. room' = Len(queue) + InHand + 0 + Taken("close") /\ room' \in 0 .. room
          BY <5>2, <5>5
        <5> QED
          BY <4>3, <5>1, <5>2, <5>6, Zenon DEF RoomExact
      <4>9. CASE f = "close"
        <5>1. Taken("loop")' = Taken("loop")
          BY <4>2, <4>9 DEF Flushers
        <5>2. Taken("close")' = 0 /\ room' = room - Taken("close")
          BY <4>1, <4>5, <4>9
        <5>3. room = Len(queue) + InHand + Taken("loop") + Taken("close")
          BY <1>0 DEF RoomExact
        <5>4. room >= Taken("close")
          BY <4>4, <4>9
        <5>5. /\ room - Taken("close") = Len(queue) + InHand + Taken("loop") + 0
              /\ room - Taken("close") \in 0 .. room
          BY <4>6, <4>7, <5>3, <5>4
        <5>6. room' = Len(queue) + InHand + Taken("loop") + 0 /\ room' \in 0 .. room
          BY <5>2, <5>5
        <5> QED
          BY <4>3, <5>1, <5>2, <5>6, Zenon DEF RoomExact
      <4> QED
        BY <2>0, <4>8, <4>9 DEF Flushers
    <3>1a. todo' \in [Flushers -> SUBSET Nat]
      <4>1. {Table[e] : e \in Rows(batch[f])} \subseteq Nat
        BY <1>0, EventsAssumption DEF RowInv, TypeOK
      <4> QED
        BY <1>0, <2>2, <4>1 DEF FlushRoom, TypeOK
    <3>2. TypeOK'
      <4>1. room' \in 0 .. MaxQueueRows
        BY <1>0, <3>1, RoomAssumption DEF TypeOK
      <4>2. fpc' \in [Flushers -> {"idle", "room", "load", "report", "done"}]
        BY <1>0, <3>0 DEF TypeOK
      <4> QED
        BY <1>0, <3>0, <3>1a, <4>1, <4>2, Zenon DEF TypeOK
    <3>3. RowInv'
      BY <1>0, <3>0 DEF RowInv, Rows
    <3> QED
      BY <3>1, <3>2, <3>3 DEF SlotInv
  <2>3. CASE LoadOk(f)
    <3>0. /\ UNCHANGED <<epc, next, room, queue, batch, reported, termErr, cpc, cancelled>>
          /\ fpc[f] = "load" /\ durable' \subseteq durable \cup Rows(batch[f])
      BY <2>3 DEF LoadOk
    <3>1. \E x \in {"load", "report"} : fpc' = [fpc EXCEPT ![f] = x]
      BY Zenon, <2>3 DEF LoadOk
    <3>1a. todo' \in [Flushers -> SUBSET Nat]
      BY <1>0, <2>3 DEF LoadOk, TypeOK
    <3>2. TypeOK'
      BY Zenon, <1>0, <3>0, <3>1, <3>1a DEF TypeOK, RowInv
    <3>3. RoomExact'
      BY Zenon, <1>0, <2>0, <3>0, <3>1 DEF RoomExact, TypeOK, Flushers, InHand, Taken
    <3>4. RowInv'
      BY <1>0, <3>0 DEF RowInv, Rows
    <3> QED
      BY <3>2, <3>3, <3>4 DEF SlotInv
  <2>4. CASE LoadFail(f) \/ FlushReport(f)
    <3>0. /\ UNCHANGED <<epc, next, room, queue, cpc, cancelled>>
          /\ fpc[f] \in {"load", "report"} /\ fpc' = [fpc EXCEPT ![f] = "idle"]
          /\ batch' = [batch EXCEPT ![f] = <<>>]
      BY Zenon, <2>4 DEF LoadFail, FlushReport
    <3>0a. durable' \subseteq 1 .. next'
      <4>1. durable' \subseteq durable \cup Rows(batch[f])
        BY Zenon, <2>4 DEF LoadFail, FlushReport
      <4> QED
        BY <1>0, <3>0, <4>1 DEF TypeOK, RowInv
    <3>1. termErr' \in {termErr, TRUE}
      BY Zenon, <2>4 DEF LoadFail, FlushReport
    <3>2. reported' \in Nat
      <4>1. CASE LoadFail(f)
        BY <1>0, <4>1 DEF LoadFail, TypeOK
      <4>2. CASE FlushReport(f)
        <5>1. PICK e \in Rows(batch[f]) : reported' = IF Pos[e] > reported THEN Pos[e] ELSE reported
          BY <4>2 DEF FlushReport
        <5>2. e \in 1 .. Events
          BY <1>0 DEF RowInv, TypeOK
        <5> QED
          BY <1>0, <5>1, <5>2 DEF TypeOK
      <4> QED
        BY <2>4, <4>1, <4>2
    <3>3. <<>> \in Seq(1 .. Events) /\ Rows(<<>>) = {}
      BY DEF Rows
    <3>3a. todo' \in [Flushers -> SUBSET Nat]
      BY Zenon, <1>0, <2>4 DEF LoadFail, FlushReport, TypeOK
    <3>4. TypeOK'
      BY Zenon, <1>0, <3>0, <3>0a, <3>1, <3>2, <3>3, <3>3a DEF TypeOK
    <3>5. RoomExact'
      BY Zenon, <1>0, <2>0, <3>0 DEF RoomExact, TypeOK, Flushers, InHand, Taken
    <3>6. RowInv'
      BY <1>0, <3>0, <3>3 DEF RowInv, TypeOK
    <3> QED
      BY <3>4, <3>5, <3>6 DEF SlotInv
  <2> QED
    BY <1>7, <2>1, <2>2, <2>3, <2>4 DEF Flush
<1> QED
  BY <1>1, <1>2, <1>3, <1>4, <1>5, <1>6, <1>7 DEF Next, Emit, Close

\* The slot invariant holds in every reachable state.
THEOREM SlotInvariant == Spec => []SlotInv
<1>1. Init => SlotInv
  <2> SUFFICES ASSUME Init PROVE SlotInv
    OBVIOUS
  <2> USE EventsAssumption, RoomAssumption
  <2>1. <<>> \in Seq(1 .. Events) /\ Len(<<>>) = 0 /\ Rows(<<>>) = {}
    BY DEF Rows
  <2>2. termErr \in BOOLEAN /\ cancelled \in BOOLEAN
    BY Zenon DEF Init
  <2>3. /\ epc \in {"idle", "locked", "giveback", "failed"} /\ next \in 0 .. Events
        /\ room \in 0 .. MaxQueueRows /\ queue \in Seq(1 .. Events) /\ Len(queue) <= MaxQueueRows
        /\ fpc \in [Flushers -> {"idle", "room", "load", "report", "done"}]
        /\ batch \in [Flushers -> Seq(1 .. Events)] /\ durable \subseteq 1 .. next
        /\ todo \in [Flushers -> SUBSET Nat]
        /\ reported \in Nat /\ cpc \in {"open", "drain", "wait", "closed"}
    BY <2>1 DEF Init
  <2>4. TypeOK
    BY <2>2, <2>3 DEF TypeOK
  <2>5. RoomExact
    BY <2>1 DEF Init, RoomExact, Flushers, InHand, Taken
  <2>6. RowInv
    BY <2>1 DEF Init, RowInv
  <2> QED
    BY <2>4, <2>5, <2>6 DEF SlotInv
<1> QED
  BY <1>1, SlotStep, PTL DEF Spec

\* The queue never exceeds MaxQueueRows, whatever Emit, the two flushers and
\* Close do (the comment on Emit's backpressure).
THEOREM QueueBounded == Spec => []TypeOK
BY SlotInvariant, PTL DEF SlotInv

\* The room channel counts the rows Emit and flush account for, exactly: the
\* bound on the queue holds, and neither a blocked Emit nor a refused one waits
\* for a slot nobody owes it.
THEOREM SlotsExact == Spec => []RoomExact
BY SlotInvariant, PTL DEF SlotInv

-----------------------------------------------------------------------------
(* The contract of an asynchronous sink *)

\* A failed batch or a Close is never undone.
LEMMA StaysSpoiled == TypeOK /\ [Next]_vars /\ Spoiled => Spoiled'
<1> SUFFICES ASSUME TypeOK, [Next]_vars, Spoiled PROVE Spoiled'
  OBVIOUS
<1>1. CASE Emit \/ LoopExit \/ UNCHANGED vars
  <2>1. UNCHANGED <<termErr, cpc>>
    BY Zenon, <1>1 DEF Emit, EmitRoom, EmitAbort, EmitQueue, EmitGiveBack, LoopExit, vars
  <2> QED
    BY <2>1 DEF Spoiled
<1>2. CASE Close
  BY <1>2 DEF Close, CloseBegin, CloseCancel, CloseReturn, Spoiled
<1>3. ASSUME NEW f \in Flushers, Flush(f) PROVE Spoiled'
  <2>1. cpc' = cpc /\ termErr' \in {termErr, TRUE}
    BY Zenon, <1>3 DEF Flush, FlushTake, FlushRoom, LoadOk, LoadFail, FlushReport
  <2> QED
    BY <2>1 DEF Spoiled
<1> QED
  BY <1>1, <1>2, <1>3 DEF Next

\* The steps of a sink that stays open and has no error: Emit, and commitLoop.
Steady ==
  \/ EmitRoom \/ EmitAbort \/ EmitQueue \/ EmitGiveBack \/ LoopExit
  \/ FlushTake("loop") \/ FlushRoom("loop") \/ LoadOk("loop") \/ FlushReport("loop")
  \/ UNCHANGED vars

LEMMA SteadyStep ==
  ASSUME TypeOK, InOrder, ~Spoiled, ~Spoiled', [Next]_vars
  PROVE  Steady
<1>1. ~Close
  BY DEF Close, CloseBegin, CloseCancel, CloseReturn, Spoiled
<1>2. ASSUME NEW f \in Flushers, Flush(f)
      PROVE  f = "loop" /\ ~LoadFail(f)
  <2>1. ~LoadFail(f)
    BY DEF LoadFail, Spoiled
  <2>2. f # "close"
    BY <1>2 DEF Flush, FlushTake, FlushRoom, LoadOk, LoadFail, FlushReport, InOrder, Spoiled
  <2> QED
    BY <2>1, <2>2 DEF Flushers
<1> QED
  BY <1>1, <1>2 DEF Next, Emit, Flush, Steady

\* The rows of commitLoop's batch are the ones between Settled and Unqueued.
LEMMA BatchRows ==
  ASSUME TypeOK, InOrder
  PROVE  /\ Unqueued \in 0 .. next /\ Settled \in 0 .. Unqueued
         /\ \A e : e \in Rows(batch["loop"]) <=> e \in (Settled + 1) .. Unqueued
<1>1. next \in Nat /\ Len(queue) \in Nat /\ Len(batch["loop"]) \in Nat
  BY Lengths DEF Flushers
<1>2. Settled >= 0 /\ \A i \in 1 .. Len(batch["loop"]) : batch["loop"][i] = Settled + i
  BY DEF InOrder
<1>3. Unqueued \in 0 .. next /\ Settled \in 0 .. Unqueued /\ Unqueued = Settled + Len(batch["loop"])
  BY <1>1, <1>2 DEF Unqueued, Settled
<1>4. ASSUME NEW e \in Rows(batch["loop"]) PROVE e \in (Settled + 1) .. Unqueued
  <2>1. PICK i \in 1 .. Len(batch["loop"]) : e = Settled + i
    BY <1>2 DEF Rows
  <2> QED
    BY <1>1, <1>3, <2>1
<1>5. ASSUME NEW e \in (Settled + 1) .. Unqueued PROVE e \in Rows(batch["loop"])
  <2>1. e - Settled \in 1 .. Len(batch["loop"]) /\ e = Settled + (e - Settled)
    BY <1>1, <1>3
  <2>2. batch["loop"][e - Settled] = e
    BY <1>2, <2>1
  <2> QED
    BY <2>1, <2>2 DEF Rows
<1> QED
  BY <1>3, <1>4, <1>5

\* When commitLoop reports, everything up to the end of its batch is committed.
LEMMA LoadedAll ==
  ASSUME TypeOK, InOrder, fpc["loop"] = "report"
  PROVE  1 .. Unqueued \subseteq durable /\ Unqueued \in 0 .. next
<1>1. ASSUME NEW e \in 1 .. Unqueued PROVE e \in durable
  <2>0. Unqueued \in Nat /\ Settled \in Nat
    BY BatchRows, Lengths
  <2>1. CASE e <= Settled
    BY <2>0, <2>1 DEF InOrder
  <2>2. CASE ~(e <= Settled)
    <3>1. e \in Rows(batch["loop"])
      BY <2>0, <2>2, BatchRows
    <3> QED
      BY <3>1 DEF InOrder
  <2> QED
    BY <2>1, <2>2
<1> QED
  BY <1>1, BatchRows

\* Rows stay in order from Emit through the queue and commitLoop's batch.
LEMMA CommitStep == SlotInv /\ SlotInv' /\ CommitInv /\ [Next]_vars => CommitInv'
<1> SUFFICES ASSUME SlotInv, SlotInv', CommitInv, [Next]_vars, ~Spoiled'
             PROVE  InOrder'
  BY DEF CommitInv
<1>0. TypeOK /\ RowInv /\ ~Spoiled
  BY StaysSpoiled DEF SlotInv
<1>1. InOrder /\ Steady
  BY <1>0, SteadyStep DEF CommitInv
<1>2. /\ next \in Nat /\ Len(queue) \in Nat /\ Len(batch["loop"]) \in Nat
      /\ queue \in Seq(1 .. Events) /\ batch["loop"] \in Seq(1 .. Events)
      /\ "loop" \in Flushers /\ "close" \in Flushers
  BY <1>0, Lengths DEF Flushers, TypeOK
<1>3. Unqueued \in Int /\ Settled \in Int
  BY <1>2 DEF Unqueued, Settled
<1>4. CASE EmitRoom \/ EmitAbort \/ EmitGiveBack \/ UNCHANGED vars
  <2>1. UNCHANGED <<next, queue, fpc, batch, todo, durable>>
    BY Zenon, <1>4 DEF EmitRoom, EmitAbort, EmitGiveBack, vars, flushVars
  <2> QED
    BY <1>1, <2>1 DEF InOrder, Unqueued, Settled, Rows
<1>5. CASE LoopExit
  <2>1. /\ UNCHANGED <<next, queue, batch, todo, durable>>
        /\ fpc' = [fpc EXCEPT !["loop"] = "done"] /\ fpc["loop"] = "idle"
    BY <1>5 DEF LoopExit
  <2>2. fpc'["loop"] = "done" /\ fpc'["close"] = fpc["close"]
    BY <1>0, <1>2, <2>1 DEF TypeOK
  <2> QED
    BY <1>1, <2>1, <2>2 DEF InOrder, Unqueued, Settled, Rows
<1>6. CASE EmitQueue
  <2>1. UNCHANGED <<fpc, batch, todo, durable>>
    BY <1>6 DEF EmitQueue, flushVars
  <2>2. CASE UNCHANGED <<next, queue>>
    BY <1>1, <2>1, <2>2 DEF InOrder, Unqueued, Settled, Rows
  <2>3. CASE next' = next + 1 /\ queue' = Append(queue, next + 1)
    <3>1. /\ Len(queue') = Len(queue) + 1 /\ queue'[Len(queue) + 1] = next + 1
          /\ \A i \in 1 .. Len(queue) : queue'[i] = queue[i]
      <4>1. next + 1 \in 1 .. Events
        BY <1>0, <1>2, <1>6, EventsAssumption DEF EmitQueue, RowInv
      <4> QED
        BY <1>2, <2>3, <4>1
    <3>2. Unqueued' = Unqueued /\ Settled' = Settled
      BY <1>2, <2>1, <2>3, <3>1 DEF Unqueued, Settled
    <3>3. \A i \in 1 .. Len(queue') : queue'[i] = Unqueued + i
      <4>1. next + 1 = Unqueued + (Len(queue) + 1)
        BY <1>2 DEF Unqueued
      <4> QED
        BY <1>1, <1>2, <3>1, <4>1 DEF InOrder
    <3> QED
      BY <1>1, <2>1, <3>2, <3>3 DEF InOrder, Rows
  <2> QED
    BY <1>6, <2>2, <2>3 DEF EmitQueue
<1>7. CASE FlushTake("loop")
  <2>1. /\ UNCHANGED <<next, todo, durable>> /\ queue' = <<>>
        /\ batch' = [batch EXCEPT !["loop"] = queue]
        /\ fpc' = [fpc EXCEPT !["loop"] = "room"] /\ fpc["loop"] = "idle"
    BY <1>7 DEF FlushTake
  <2>2. fpc'["loop"] = "room" /\ fpc'["close"] = fpc["close"] /\ batch'["loop"] = queue
    BY <1>0, <1>2, <2>1 DEF TypeOK
  <2>3. Len(batch["loop"]) = 0
    BY <1>1, <2>1 DEF InOrder
  <2>4. Unqueued' = next /\ Settled' = Unqueued /\ Settled = Unqueued
    BY <1>2, <2>1, <2>2, <2>3 DEF Unqueued, Settled
  <2> QED
    BY <1>1, <2>1, <2>2, <2>4 DEF InOrder
<1>8. CASE FlushRoom("loop")
  <2>1. /\ UNCHANGED <<next, queue, batch, durable>>
        /\ todo' = [todo EXCEPT !["loop"] = {Table[e] : e \in Rows(batch["loop"])}]
        /\ fpc' = [fpc EXCEPT !["loop"] = "load"]
    BY <1>8 DEF FlushRoom
  <2>2. /\ fpc'["loop"] = "load" /\ fpc'["close"] = fpc["close"]
        /\ todo'["loop"] = {Table[e] : e \in Rows(batch["loop"])}
    BY <1>0, <1>2, <2>1 DEF TypeOK
  <2>3. \A e \in Rows(batch["loop"]) : Table[e] \in todo'["loop"]
    BY <2>2
  <2>4. Unqueued' = Unqueued /\ Settled' = Settled
    BY <2>1 DEF Unqueued, Settled
  <2> QED
    BY <1>1, <2>1, <2>2, <2>3, <2>4 DEF InOrder
<1>9. CASE LoadOk("loop")
  <2>0. fpc["loop"] = "load" /\ UNCHANGED <<next, queue, batch>>
        /\ fpc' = [fpc EXCEPT !["loop"] = IF todo'["loop"] = {} THEN "report" ELSE "load"]
    BY <1>9 DEF LoadOk
  <2>1. PICK t \in todo["loop"] :
          /\ durable' = durable \cup {e \in Rows(batch["loop"]) : Table[e] = t}
          /\ todo' = [todo EXCEPT !["loop"] = @ \ {t}]
    BY <1>9 DEF LoadOk
  <2>2. todo'["loop"] = todo["loop"] \ {t}
    BY <1>0, <1>2, <2>1 DEF TypeOK
  <2>3. fpc'["close"] = fpc["close"]
        /\ fpc'["loop"] = IF todo'["loop"] = {} THEN "report" ELSE "load"
    BY <1>0, <1>2, <2>0 DEF TypeOK
  <2>4. \A e \in Rows(batch["loop"]) : e \in durable' \/ Table[e] \in todo'["loop"]
    BY <1>1, <2>0, <2>1, <2>2 DEF InOrder
  <2>5. Unqueued' = Unqueued /\ Settled' = Settled /\ durable \subseteq durable'
    BY <2>0, <2>1 DEF Unqueued, Settled
  <2> QED
    BY <1>1, <2>0, <2>3, <2>4, <2>5 DEF InOrder
<1>10. CASE FlushReport("loop")
  <2>1. /\ UNCHANGED <<next, queue, todo, durable>> /\ fpc["loop"] = "report"
        /\ batch' = [batch EXCEPT !["loop"] = <<>>] /\ fpc' = [fpc EXCEPT !["loop"] = "idle"]
    BY <1>10 DEF FlushReport
  <2>2. batch'["loop"] = <<>> /\ fpc'["loop"] = "idle" /\ fpc'["close"] = fpc["close"]
    BY <1>0, <1>2, <2>1 DEF TypeOK
  <2>3. Unqueued' = Unqueued /\ Settled' = Unqueued
    BY <1>2, <2>1, <2>2 DEF Unqueued, Settled
  <2>4. Settled >= 0 /\ Unqueued = Settled + Len(batch["loop"])
    BY <1>1, <1>2, <1>3 DEF InOrder, Settled, Unqueued
  <2>5. 1 .. Unqueued \subseteq durable
    BY <1>0, <1>1, <2>1, LoadedAll
  <2>6. Unqueued >= 0 /\ Len(batch'["loop"]) = 0
    BY <1>2, <1>3, <2>2, <2>4
  <2>7. \A i \in 1 .. Len(batch'["loop"]) : batch'["loop"][i] = Settled' + i
    BY <2>6
  <2>8. \A i \in 1 .. Len(queue') : queue'[i] = Unqueued' + i
    BY <1>1, <2>1, <2>3 DEF InOrder
  <2>9. fpc'["close"] = "idle"
    BY <1>1, <2>2 DEF InOrder
  <2> QED
    BY <2>1, <2>2, <2>3, <2>5, <2>6, <2>7, <2>8, <2>9, Zenon DEF InOrder
<1> QED
  BY <1>1, <1>4, <1>5, <1>6, <1>7, <1>8, <1>9, <1>10 DEF Steady

\* Until a batch fails or Close begins, the sink implements the contract the
\* runner relies on: queueing a row accepts it, a stream load settles its rows,
\* and a report is for a row whose whole prefix is committed.
THEOREM KeepsContractUntilSpoiled == Spec => KeepsContract
<1>1. Init => Contract!Init /\ CommitInv
  <2> SUFFICES ASSUME Init PROVE Contract!Init /\ CommitInv
    OBVIOUS
  <2>2. fpc["close"] = "idle" /\ fpc["loop"] = "idle" /\ batch["loop"] = <<>>
    BY DEF Init, Flushers
  <2>1. Unqueued = 0 /\ Settled = 0
    <3>1. Len(queue) = 0 /\ Len(batch["loop"]) = 0 /\ next = 0
      BY <2>2 DEF Init
    <3> QED
      BY <3>1 DEF Unqueued, Settled
  <2>3. 1 .. 0 = {} /\ Len(<<>>) = 0 /\ queue = <<>> /\ durable = {}
    BY DEF Init
  <2>4. InOrder
    BY <2>1, <2>2, <2>3 DEF InOrder
  <2> QED
    BY <2>4 DEF Init, Contract!Init, CommitInv
<1>2. SlotInv /\ SlotInv' /\ CommitInv /\ [Next]_vars
        => [Spoiled' \/ Contract!Next]_(Contract!vars)
  <2> SUFFICES ASSUME SlotInv, SlotInv', CommitInv, [Next]_vars, ~Spoiled'
               PROVE  Contract!Next \/ UNCHANGED <<next, durable, reported>>
    BY DEF Contract!vars
  <2>0. TypeOK /\ InOrder /\ Steady
    BY StaysSpoiled, SteadyStep DEF SlotInv, CommitInv
  <2>1. CASE EmitQueue
    BY <2>1 DEF SlotInv, RowInv, EmitQueue, flushVars, Contract!Next, Contract!Accept
  <2>2. CASE LoadOk("loop")
    <3>1. durable \subseteq durable' /\ UNCHANGED <<next, reported>>
      BY <2>2 DEF LoadOk
    <3>2. durable' \subseteq 1 .. next
      BY <3>1 DEF SlotInv, TypeOK
    <3> QED
      BY <3>1, <3>2 DEF Contract!Next, Contract!Settle
  <2>3. CASE FlushReport("loop")
    <3>1. PICK e \in Rows(batch["loop"]) :
            reported' = IF Pos[e] > reported THEN Pos[e] ELSE reported
      BY <2>3 DEF FlushReport
    <3>2. fpc["loop"] = "report" /\ UNCHANGED <<next, durable>>
      BY <2>3 DEF FlushReport
    <3>3. 1 .. Unqueued \subseteq durable /\ Unqueued \in 0 .. next
      BY <2>0, <3>2, LoadedAll
    <3>4. e \in 1 .. Unqueued
      <4>1. e \in (Settled + 1) .. Unqueued /\ Settled \in 0 .. Unqueued
        BY <2>0, BatchRows
      <4> QED
        BY <2>0, <3>3, <4>1, Lengths
    <3>5. e \in 1 .. next /\ 1 .. e \subseteq durable
      <4>1. next \in Nat
        BY <2>0, Lengths
      <4> QED
        BY <3>3, <3>4, <4>1
    <3> QED
      BY <3>1, <3>2, <3>5 DEF Contract!Next, Contract!Report
  <2>4. CASE \/ EmitRoom \/ EmitAbort \/ EmitGiveBack \/ LoopExit \/ UNCHANGED vars
             \/ FlushTake("loop") \/ FlushRoom("loop")
    BY Zenon, <2>4 DEF EmitRoom, EmitAbort, EmitGiveBack, LoopExit, vars, FlushTake, FlushRoom
  <2> QED
    BY <2>0, <2>1, <2>2, <2>3, <2>4 DEF Steady
<1> QED
  BY <1>1, <1>2, CommitStep, SlotInvariant, PTL DEF Spec, KeepsContract

=============================================================================
