----------------------------- MODULE KafkaProofs -----------------------------
(***************************************************************************)
(* Proofs about KafkaSink, for every number of events, queues and workers, *)
(* every queue depth and batch size, and every assignment of keys and      *)
(* positions.                                                              *)
(***************************************************************************)
EXTENDS KafkaSink, TLAPS

\* Unless a step says otherwise: Z3, then Zenon, then Z3 with more time.
USE SMTT(10), ZenonT(20), Z3T(30)

-----------------------------------------------------------------------------
(* Sequences *)

\* Appending to a queue or a batch adds exactly the new element.
LEMMA RangeAppend ==
  ASSUME NEW S, NEW s \in Seq(S), NEW x \in S
  PROVE  /\ Append(s, x) \in Seq(S)
         /\ Range(Append(s, x)) = Range(s) \cup {x}
<1>1. Append(s, x) \in Seq(S) /\ Len(Append(s, x)) = Len(s) + 1
  OBVIOUS
<1>2. \A i \in 1 .. Len(s) : Append(s, x)[i] = s[i]
  OBVIOUS
<1>3. Append(s, x)[Len(s) + 1] = x
  OBVIOUS
<1>4. Len(s) \in Nat
  OBVIOUS
<1>5. Range(Append(s, x)) \subseteq Range(s) \cup {x}
  <2>1. SUFFICES ASSUME NEW i \in 1 .. (Len(s) + 1)
                 PROVE  Append(s, x)[i] \in Range(s) \cup {x}
    BY <1>1 DEF Range
  <2>2. i \in 1 .. Len(s) \/ i = Len(s) + 1
    BY <1>4
  <2> QED
    BY <1>2, <1>3, <2>2 DEF Range
<1>6. Range(s) \cup {x} \subseteq Range(Append(s, x))
  <2>1. Len(s) + 1 \in 1 .. (Len(s) + 1)
    BY <1>4
  <2>2. \A i \in 1 .. Len(s) : i \in 1 .. (Len(s) + 1)
    BY <1>4
  <2> QED
    BY <1>1, <1>2, <1>3, <2>1, <2>2 DEF Range
<1> QED
  BY <1>1, <1>5, <1>6

\* Taking the head of a non-empty queue or batch removes at most that element.
LEMMA RangeTail ==
  ASSUME NEW S, NEW s \in Seq(S), s # <<>>
  PROVE  /\ Head(s) \in S /\ Tail(s) \in Seq(S)
         /\ Range(s) = Range(Tail(s)) \cup {Head(s)}
         /\ Len(s) <= 1 => Tail(s) = <<>>
         /\ Len(s) > 1 => Tail(s) # <<>>
<1>1. Len(s) \in Nat /\ Len(s) >= 1
  OBVIOUS
<1>2. Head(s) = s[1] /\ Head(s) \in S
  BY <1>1
<1>3. Tail(s) \in Seq(S) /\ Len(Tail(s)) = Len(s) - 1
  BY <1>1
<1>4. \A i \in 1 .. (Len(s) - 1) : Tail(s)[i] = s[i + 1]
  BY <1>1
<1>5. Range(s) \subseteq Range(Tail(s)) \cup {Head(s)}
  <2>1. SUFFICES ASSUME NEW i \in 1 .. Len(s)
                 PROVE  s[i] \in Range(Tail(s)) \cup {Head(s)}
    BY DEF Range
  <2>2. CASE i = 1
    BY <1>2, <2>2
  <2>3. CASE i # 1
    <3>1. i - 1 \in 1 .. (Len(s) - 1) /\ (i - 1) + 1 = i
      BY <1>1, <2>3
    <3>2. Tail(s)[i - 1] = s[i]
      BY <1>4, <3>1
    <3> QED
      BY <1>3, <3>1, <3>2 DEF Range
  <2> QED
    BY <2>2, <2>3
<1>6. Range(Tail(s)) \cup {Head(s)} \subseteq Range(s)
  <2>1. \A i \in 1 .. (Len(s) - 1) : i + 1 \in 1 .. Len(s)
    BY <1>1
  <2>2. 1 \in 1 .. Len(s)
    BY <1>1
  <2> QED
    BY <1>2, <1>3, <1>4, <2>1, <2>2 DEF Range
<1>7. Len(s) <= 1 => Tail(s) = <<>>
  BY <1>1, <1>3
<1>8. Len(s) > 1 => Tail(s) # <<>>
  <2>1. ASSUME NEW t, t = <<>> PROVE Len(t) = 0
    BY <2>1
  <2>2. Tail(s) = <<>> => Len(Tail(s)) = 0
    BY Zenon, <2>1
  <2>3. Len(s) > 1 => Len(Tail(s)) # 0
    BY <1>1, <1>3
  <2> QED
    BY <2>2, <2>3, Zenon
<1> QED
  BY <1>2, <1>3, <1>5, <1>6, <1>7, <1>8

\* Range is the set of elements WriteOk records.
LEMMA RangeIs ==
  ASSUME NEW S, NEW s \in Seq(S)
  PROVE  Range(s) \subseteq S /\ {s[i] : i \in 1 .. Len(s)} = Range(s)
BY DEF Range

\* What arrives of a batch are elements of the batch.
LEMMA SomeOfType ==
  ASSUME NEW S, NEW s \in Seq(S), NEW b \in SomeOf(s)
  PROVE  /\ b \in Seq(S) /\ Range(b) \subseteq Range(s)
         /\ \A n \in Nat : DOMAIN b = 1 .. n => Len(b) = n
<1>0. PICK n \in 0 .. Len(s) : \E f \in [1 .. n -> 1 .. Len(s)] :
        b = [i \in 1 .. n |-> s[f[i]]]
  BY Zenon DEF SomeOf
<1>1. PICK f \in [1 .. n -> 1 .. Len(s)] : b = [i \in 1 .. n |-> s[f[i]]]
  BY <1>0
<1>2. n \in Nat /\ \A i \in 1 .. n : f[i] \in 1 .. Len(s) /\ b[i] = s[f[i]] /\ b[i] \in S
  BY <1>1
<1>3. b \in Seq(S) /\ Len(b) = n
  BY <1>1, <1>2
<1> QED
  BY <1>2, <1>3 DEF Range

\* An empty queue or batch holds nothing; appending leaves it non-empty.
LEMMA RangeEmpty ==
  /\ Range(<<>>) = {}
  /\ \A s, x : x \in Range(s) => s # <<>>
BY DEF Range

-----------------------------------------------------------------------------
(* Type correctness *)

\* The type of the queue, batch and topic variables is kept by every step.
LEMMA TypeStep ==
  ASSUME TypeOK, RingInv, DrainInv, [Next]_vars
  PROVE  TypeOK'
<1> USE EventsAssumption
<1>1. CASE EmitClaim
  BY <1>1 DEF EmitClaim, TypeOK, workVars, notifyVars
<1>2. CASE EmitPut
  <2> DEFINE q == QueueFor(next)
  <2>1. next \in 1 .. Events /\ q \in Queues
    BY <1>2, KeyAssumption DEF EmitPut, TypeOK, DrainInv, QueueFor
  <2>2. Append(queue[q], next) \in Seq(1 .. Events)
    BY <2>1, RangeAppend DEF TypeOK
  <2>3. queue' \in [Queues -> Seq(1 .. Events)]
    BY <1>2, <2>1, <2>2 DEF EmitPut, TypeOK
  <2> QED
    BY <1>2, <2>3 DEF EmitPut, TypeOK, workVars, notifyVars
<1>3. CASE EmitAbort
  BY <1>3 DEF EmitAbort, TypeOK, workVars, notifyVars
<1>4. CASE Advance
  <2>1. base' \in 0 .. next /\ notePos' \in Nat
        /\ npc' \in {"wait", "report", "last", "lastReport", "done"}
    <3>1. PICK k \in (base + 1) .. Events : Prefix(k) /\ base' = k
      BY <1>4 DEF Advance
    <3>2. result[k] = "ok"
      BY <3>1 DEF Prefix, TypeOK
    <3>3. k \in 1 .. next
      BY <3>2 DEF RingInv, TypeOK
    <3> QED
      BY <1>4, <3>1, <3>3 DEF Advance, TypeOK
  <2> QED
    BY <1>4, <2>1 DEF Advance, TypeOK, emitVars, workVars
<1>5. CASE Report
  BY <1>5 DEF Report, TypeOK, emitVars, workVars
<1>6. CASE NotifyStop
  BY <1>6 DEF NotifyStop, TypeOK, emitVars, workVars
<1>7. CASE Close
  <2>1. owed' \subseteq 1 .. next
    BY <1>7 DEF Close, TypeOK
  <2> QED
    BY <1>7, <2>1 DEF Close, TypeOK, emitVars, workVars, notifyVars
<1>8. ASSUME NEW w \in Workers, Worker(w)
      PROVE  TypeOK'
  <2>1. w[1] \in Queues
    BY DEF Workers
  <2>2. CASE WorkerTake(w)
    <3>1. /\ Head(queue[w[1]]) \in 1 .. Events
          /\ Tail(queue[w[1]]) \in Seq(1 .. Events)
      BY Zenon, <2>1, <2>2, RangeTail DEF WorkerTake, TypeOK
    <3>2. Append(batch[w], Head(queue[w[1]])) \in Seq(1 .. Events)
      BY <3>1, RangeAppend DEF TypeOK
    <3>3. queue' \in [Queues -> Seq(1 .. Events)]
      BY <2>1, <2>2, <3>1 DEF WorkerTake, TypeOK
    <3>4. batch' \in [Workers -> Seq(1 .. Events)]
      BY <2>2, <3>2 DEF WorkerTake, TypeOK
    <3>5. wpc' \in [Workers -> {"take", "flush", "settle", "lastFlush", "lastSettle", "done"}]
      BY <2>2 DEF WorkerTake, TypeOK
    <3> QED
      BY Zenon, <2>2, <3>3, <3>4, <3>5 DEF WorkerTake, TypeOK, emitVars, notifyVars
  <2>3. CASE FlushPartial(w)
    BY <2>3 DEF FlushPartial, TypeOK, emitVars, notifyVars
  <2>4. CASE WriteOk(w)
    <3>1. topic' \in Seq(1 .. Events)
      BY <2>4 DEF WriteOk, TypeOK
    <3>2. written' \subseteq 1 .. next
      <4>1. Range(batch[w]) \subseteq 1 .. next
        BY DEF DrainInv
      <4>2. written' = written \cup Range(batch[w])
        BY <2>4 DEF WriteOk, Range
      <4> QED
        BY Zenon, <4>1, <4>2 DEF TypeOK
    <3>3. /\ wpc' \in [Workers -> {"take", "flush", "settle", "lastFlush", "lastSettle", "done"}]
          /\ wok' \in [Workers -> BOOLEAN]
      BY <2>4 DEF WriteOk, TypeOK
    <3> QED
      BY <2>4, <3>1, <3>2, <3>3 DEF WriteOk, TypeOK, emitVars, notifyVars
  <2>5. CASE WriteFail(w)
    <3>1. topic' \in Seq(1 .. Events)
      <4>1. PICK s \in SomeOf(batch[w]) : topic' = topic \o s
        BY Zenon, <2>5 DEF WriteFail
      <4>2. s \in Seq(1 .. Events)
        BY SomeOfType, Zenon DEF TypeOK
      <4> QED
        BY <4>1, <4>2 DEF TypeOK
    <3>2. /\ wpc' \in [Workers -> {"take", "flush", "settle", "lastFlush", "lastSettle", "done"}]
          /\ wok' \in [Workers -> BOOLEAN] /\ err' \in BOOLEAN
      BY <2>5, Zenon DEF WriteFail, TypeOK
    <3> QED
      BY <2>5, <3>1, <3>2 DEF WriteFail, TypeOK, emitVars, notifyVars
  <2>6. CASE Settle(w)
    <3>1. batch[w] # <<>>
      BY <2>6 DEF Settle, DrainInv
    <3>2. Tail(batch[w]) \in Seq(1 .. Events)
      BY <3>1, RangeTail DEF TypeOK
    <3>3. batch' \in [Workers -> Seq(1 .. Events)]
      BY <2>6, <3>2 DEF Settle, TypeOK
    <3>4. result' \in [1 .. Events -> {"none", "ok", "err"}]
      BY Zenon, <2>6 DEF Settle, TypeOK, Outcome
    <3>5. wpc' \in [Workers -> {"take", "flush", "settle", "lastFlush", "lastSettle", "done"}]
      BY <2>6, Zenon DEF Settle, TypeOK
    <3> QED
      BY <2>6, <3>3, <3>4, <3>5 DEF Settle, TypeOK, emitVars, notifyVars
  <2>7. CASE WorkerStop(w)
    BY <2>7 DEF WorkerStop, TypeOK, emitVars, notifyVars
  <2> QED
    BY <1>8, <2>2, <2>3, <2>4, <2>5, <2>6, <2>7 DEF Worker
<1>9. CASE UNCHANGED vars
  BY <1>9 DEF vars, emitVars, workVars, notifyVars, TypeOK
<1> QED
  BY <1>1, <1>2, <1>3, <1>4, <1>5, <1>6, <1>7, <1>8, <1>9 DEF Next, Emit, NotifyLoop

-----------------------------------------------------------------------------
(* The ring: what it holds as done, and what notifyLoop takes from it *)

\* No step withdraws an acknowledgement or an ordinal.
LEMMA Grows ==
  ASSUME TypeOK, DrainInv, [Next]_vars
  PROVE  written \subseteq written' /\ next <= next' /\ (err => err')
<1>1. CASE EmitClaim
  BY <1>1 DEF EmitClaim, TypeOK, workVars
<1>2. CASE EmitPut \/ EmitAbort \/ Advance \/ Report \/ NotifyStop \/ Close
  BY <1>2 DEF EmitPut, EmitAbort, Advance, Report, NotifyStop, Close, TypeOK,
              emitVars, workVars
<1>3. ASSUME NEW w \in Workers, Worker(w)
      PROVE  written \subseteq written' /\ next <= next' /\ (err => err')
  BY <1>3 DEF Worker, WorkerTake, FlushPartial, WriteOk, WriteFail, Settle, WorkerStop,
              TypeOK, emitVars
<1>4. CASE UNCHANGED vars
  BY <1>4 DEF vars, emitVars, workVars, TypeOK
<1> QED
  BY <1>1, <1>2, <1>3, <1>4 DEF Next, Emit, NotifyLoop

\* The ring's results and the pending report stay backed by acknowledgements.
LEMMA RingStep ==
  ASSUME TypeOK, RingInv, DrainInv, [Next]_vars
  PROVE  RingInv'
<1> USE EventsAssumption
<1> DEFINE Settled(w) == wpc[w] \in {"settle", "lastSettle"} =>
             IF wok[w] THEN Range(batch[w]) \subseteq written ELSE err
           Noted == npc \in {"report", "lastReport"} => \E k \in 1 .. base : Pos[k] = notePos
<1>1. CASE EmitClaim \/ EmitPut \/ EmitAbort \/ Close
  BY <1>1 DEF EmitClaim, EmitPut, EmitAbort, Close, RingInv, workVars, notifyVars, Range
<1>2. CASE Advance
  <2>1. PICK k \in (base + 1) .. Events :
          /\ Prefix(k) /\ base' = k
          /\ \/ /\ \A e \in (base + 1) .. k : Pos[e] = 0
                /\ UNCHANGED <<npc, notePos>>
             \/ \E e \in (base + 1) .. k :
                  /\ Pos[e] # 0 /\ \A f \in (e + 1) .. k : Pos[f] = 0
                  /\ notePos' = Pos[e]
                  /\ npc' = IF npc = "wait" THEN "report" ELSE "lastReport"
    BY <1>2 DEF Advance
  <2>2. 1 .. k \subseteq written
    <3>1. SUFFICES ASSUME NEW e \in 1 .. k PROVE e \in written
      OBVIOUS
    <3>2. CASE e <= base
      BY <3>2 DEF RingInv, TypeOK
    <3>3. CASE e > base
      BY <2>1, <3>3 DEF RingInv, TypeOK, Prefix
    <3> QED
      BY <3>2, <3>3 DEF TypeOK
  <2>3. Noted'
    BY <1>2, <2>1 DEF Advance, TypeOK
  <2>4. UNCHANGED <<result, written, batch, wpc, wok, err>>
    BY <1>2 DEF Advance, workVars
  <2> QED
    BY <2>1, <2>2, <2>3, <2>4 DEF RingInv, Range
<1>3. CASE Report \/ NotifyStop
  BY <1>3 DEF Report, NotifyStop, RingInv, workVars, Range
<1>4. ASSUME NEW w \in Workers, Worker(w)
      PROVE  RingInv'
  <2>0. /\ UNCHANGED <<base, npc, notePos>>
        /\ written \subseteq written' /\ (err => err')
    BY Zenon, <1>4, Grows DEF Worker, WorkerTake, FlushPartial, WriteOk, WriteFail, Settle,
                       WorkerStop, notifyVars, Next
  <2>1. (1 .. base \subseteq written)' /\ Noted'
    BY <2>0 DEF RingInv
  <2>2. \A v \in Workers \ {w} : Settled(v)'
    <3>1. \A v \in Workers \ {w} : UNCHANGED <<batch[v], wpc[v], wok[v]>>
      BY <1>4, Zenon DEF Worker, WorkerTake, FlushPartial, WriteOk, WriteFail, Settle,
                  WorkerStop, TypeOK
    <3> QED
      BY ZenonT(30), <2>0, <3>1 DEF RingInv, Range
  <2>3. CASE WorkerTake(w) \/ FlushPartial(w) \/ WorkerStop(w)
    <3>1. Settled(w)'
      BY <2>3, Zenon DEF WorkerTake, FlushPartial, WorkerStop, TypeOK
    <3>2. result' = result
      BY Zenon, <2>3 DEF WorkerTake, FlushPartial, WorkerStop
    <3> QED
      BY <2>0, <2>1, <2>2, <3>1, <3>2 DEF RingInv
  <2>4. CASE WriteOk(w) \/ WriteFail(w)
    <3>1. Settled(w)'
      BY <2>4 DEF WriteOk, WriteFail, TypeOK, Range
    <3>2. result' = result
      BY <2>4 DEF WriteOk, WriteFail
    <3> QED
      BY <2>0, <2>1, <2>2, <3>1, <3>2 DEF RingInv
  <2>5. CASE Settle(w)
    <3>1. batch[w] # <<>>
      BY <2>5 DEF Settle, DrainInv
    <3>2. /\ Range(batch[w]) = Range(Tail(batch[w])) \cup {Head(batch[w])}
          /\ Head(batch[w]) \in 1 .. Events
      BY <3>1, RangeTail DEF TypeOK
    <3>3. Settled(w)'
      BY <2>5, <3>2, Zenon DEF Settle, TypeOK, RingInv
    <3>4. \A e \in 1 .. Events : result'[e] = "ok" => e \in written
      <4>1. TAKE e \in 1 .. Events
      <4>2. CASE e = Head(batch[w])
        BY <2>5, <3>2, <4>2 DEF Settle, TypeOK, RingInv, Outcome
      <4>3. CASE e # Head(batch[w])
        BY <2>5, <4>3 DEF Settle, TypeOK, RingInv
      <4> QED
        BY <4>2, <4>3
    <3> QED
      BY <2>0, <2>1, <2>2, <3>3, <3>4 DEF RingInv
  <2> QED
    BY <1>4, <2>3, <2>4, <2>5 DEF Worker
<1>5. CASE UNCHANGED vars
  BY <1>5 DEF vars, workVars, notifyVars, RingInv, Range
<1> QED
  BY <1>1, <1>2, <1>3, <1>4, <1>5, Zenon DEF Next, Emit, NotifyLoop

\* A report names an event of the consumed prefix; other steps report nothing.
LEMMA HonestStep ==
  ASSUME TypeOK, RingInv, DrainInv, ReportHonest, [Next]_vars
  PROVE  ReportHonest'
<1> USE EventsAssumption
<1>1. CASE Report
  <2>1. PICK k \in 1 .. base : Pos[k] = notePos
    BY <1>1 DEF Report, RingInv
  <2>2. k \in 1 .. next /\ 1 .. k \subseteq written
    BY DEF TypeOK, RingInv
  <2>3. UNCHANGED <<next, written>>
    BY <1>1 DEF Report, emitVars, workVars
  <2>4. reported' = reported \/ reported' = notePos
    BY <1>1 DEF Report
  <2> QED
    BY <2>1, <2>2, <2>3, <2>4 DEF ReportHonest
<1>2. CASE ~Report
  <2>1. reported' = reported
    BY <1>2 DEF Next, Emit, NotifyLoop, Worker, vars, EmitClaim, EmitPut, EmitAbort, Advance,
                NotifyStop, Close, WorkerTake, FlushPartial, WriteOk, WriteFail, Settle,
                WorkerStop, notifyVars
  <2>2. written \subseteq written' /\ next <= next' /\ next \in Nat /\ next' \in Nat
    BY Grows, TypeStep DEF TypeOK
  <2> QED
    BY <2>1, <2>2 DEF ReportHonest
<1> QED
  BY <1>1, <1>2

-----------------------------------------------------------------------------
(* Draining: no accepted event falls between a queue, a batch and the topic *)

\* An event stays accounted for when its place only grows, or it is settled.
LEMMA DrainStep ==
  ASSUME TypeOK, RingInv, DrainInv, [Next]_vars
  PROVE  DrainInv'
<1> USE EventsAssumption
<1> DEFINE Held(e) == \/ e \in written \/ err
                      \/ \E q \in Queues : e \in Range(queue[q])
                      \/ \E w \in Workers : e \in Range(batch[w])
<1>0. next \in Nat /\ next' \in Nat /\ next <= next' /\ owed \subseteq 1 .. next
  BY Grows, TypeStep DEF TypeOK
<1>1. CASE EmitClaim
  <2>1. UNCHANGED <<queue, batch, wpc, written, err, stop, owed>>
    BY <1>1 DEF EmitClaim, workVars
  <2>2. \A q \in Queues : Range(queue[q]) \subseteq 1 .. next'
    BY <1>0 DEF DrainInv
  <2>3. \A w \in Workers : Range(batch[w]) \subseteq 1 .. next'
    BY <1>0 DEF DrainInv
  <2>4. epc' \in {"put", "aborted"} => next' >= 1 /\ next' \notin owed
    BY <1>0, <1>1 DEF EmitClaim
  <2>5. Accepted' = Accepted
    BY <1>0, <1>1, <2>1 DEF EmitClaim, Accepted
  <2> QED
    BY <2>1, <2>2, <2>3, <2>4, <2>5 DEF DrainInv, Range
<1>2. CASE EmitPut
  <2> DEFINE q == QueueFor(next)
  <2>0. next >= 1 /\ next \notin owed
    BY <1>2 DEF EmitPut, DrainInv
  <2>1. next \in 1 .. Events /\ q \in Queues /\ next \notin owed
    BY <2>0, KeyAssumption DEF TypeOK, QueueFor
  <2>2. Range(Append(queue[q], next)) = Range(queue[q]) \cup {next}
    <3>1. queue[q] \in Seq(1 .. Events)
      BY <2>1 DEF TypeOK
    <3> HIDE DEF q
    <3> QED
      BY <2>1, <3>1, RangeAppend
  <2>3. \A p \in Queues : Range(queue'[p]) = IF p = q THEN Range(queue[p]) \cup {next}
                                                   ELSE Range(queue[p])
    BY Zenon, <1>2, <2>1, <2>2 DEF EmitPut, TypeOK
  <2>4. UNCHANGED <<next, batch, wpc, written, err, stop, owed>> /\ epc' = "idle"
    BY <1>2 DEF EmitPut, workVars
  <2>5. Accepted' \subseteq Accepted \cup {next}
    BY <1>0, <1>2, <2>4 DEF EmitPut, Accepted
  <2>6. \A p \in Queues : Range(queue'[p]) \subseteq 1 .. next
    <3>1. \A p \in Queues : Range(queue[p]) \subseteq 1 .. next
      BY DEF DrainInv
    <3>2. next \in 1 .. next
      BY <1>0, <2>0
    <3> QED
      BY Zenon, <2>3, <3>1, <3>2
  <2>7. \A e \in Accepted' : Held(e)'
    <3>1. TAKE e \in Accepted'
    <3>2. CASE e = next
      BY Zenon, <2>1, <2>3, <3>2
    <3>3. CASE e \in Accepted
      <4>1. Held(e)
        BY <3>3 DEF DrainInv
      <4>2. \A w \in Workers : Range(batch'[w]) = Range(batch[w])
        BY <2>4
      <4> QED
        BY Zenon, <2>3, <2>4, <4>1, <4>2
    <3> QED
      BY <2>5, <3>2, <3>3
  <2>8. \A w \in Workers : wpc[w] \in {"lastFlush", "lastSettle", "done"} =>
          stop /\ Range(queue'[w[1]]) \cap owed = {}
    <3>1. \A w \in Workers : w[1] \in Queues
      BY DEF Workers
    <3> QED
      BY Zenon, <2>1, <2>3, <3>1 DEF DrainInv
  <2> QED
    BY <2>4, <2>6, <2>7, <2>8, Zenon DEF DrainInv, Range
<1>3. CASE EmitAbort
  <2>1. UNCHANGED <<next, queue, batch, wpc, written, err, stop, owed>>
        /\ epc = "put" /\ epc' = "aborted"
    BY <1>3 DEF EmitAbort, workVars
  <2>2. Accepted' = Accepted
    BY <2>1 DEF Accepted
  <2> QED
    BY <2>1, <2>2 DEF DrainInv, Range
<1>4. CASE Advance \/ Report \/ NotifyStop \/ UNCHANGED vars
  <2>1. UNCHANGED <<epc, next, queue, batch, wpc, written, err, stop, owed>>
    BY <1>4 DEF Advance, Report, NotifyStop, vars, emitVars, workVars
  <2>2. Accepted' = Accepted
    BY <2>1 DEF Accepted
  <2> QED
    BY <2>1, <2>2 DEF DrainInv, Range
<1>5. CASE Close
  <2>1. UNCHANGED <<epc, next, queue, batch, wpc, written, err>> /\ ~stop /\ stop'
    BY <1>5 DEF Close, emitVars, workVars
  <2>2. Accepted' = Accepted /\ owed' = Accepted
    BY <1>5, <2>1 DEF Close, Accepted
  <2>3. epc \in {"put", "aborted"} => next >= 1 /\ next \notin owed'
    BY <1>0, <1>5 DEF Close, DrainInv
  <2> QED
    BY <2>1, <2>2, <2>3 DEF DrainInv, Range
<1>6. ASSUME NEW w \in Workers, Worker(w)
      PROVE  DrainInv'
  <2>0. w[1] \in Queues /\ \A v \in Workers : v[1] \in Queues
    BY Zenon DEF Workers
  <2>1. UNCHANGED <<epc, next, stop, owed>> /\ Accepted' = Accepted
    BY <1>6 DEF Worker, WorkerTake, FlushPartial, WriteOk, WriteFail, Settle, WorkerStop,
                emitVars, Accepted
  <2>2. CASE WorkerTake(w)
    <3> DEFINE x == Head(queue[w[1]])
    <3>1. /\ x \in 1 .. Events
          /\ Range(queue[w[1]]) = Range(Tail(queue[w[1]])) \cup {x}
      BY <2>0, <2>2, RangeTail, Zenon DEF WorkerTake, TypeOK
    <3>2. /\ Range(Append(batch[w], x)) = Range(batch[w]) \cup {x}
          /\ Append(batch[w], x) # <<>>
      <4>1. batch[w] \in Seq(1 .. Events)
        BY DEF TypeOK
      <4> HIDE DEF x
      <4>2. Range(Append(batch[w], x)) = Range(batch[w]) \cup {x}
        BY <3>1, <4>1, RangeAppend
      <4>3. x \in Range(Append(batch[w], x))
        BY <4>2
      <4> QED
        BY Zenon, <4>2, <4>3, RangeEmpty
    <3>3. \A v \in Workers : Range(batch'[v]) = IF v = w THEN Range(batch[v]) \cup {x}
                                                     ELSE Range(batch[v])
      BY Zenon, <2>2, <3>2 DEF WorkerTake, TypeOK
    <3>4. \A q \in Queues : /\ Range(queue'[q]) \subseteq Range(queue[q])
                             /\ Range(queue[q]) \subseteq Range(queue'[q]) \cup {x}
      BY <2>0, <2>2, <3>1, Zenon DEF WorkerTake, TypeOK
    <3>5. \A v \in Workers : v # w => UNCHANGED <<batch[v], wpc[v]>>
      BY <2>2 DEF WorkerTake, TypeOK
    <3>6. batch'[w] # <<>> /\ wpc'[w] \in {"take", "flush"}
      BY <2>2, <3>2 DEF WorkerTake, TypeOK
    <3>7. UNCHANGED <<written, err>>
      BY <2>2 DEF WorkerTake
    <3>8. x \in 1 .. next
      BY <2>0, <3>1 DEF DrainInv
    <3>9. \A v \in Workers : Range(batch'[v]) \subseteq 1 .. next
      BY Zenon, <3>3, <3>8 DEF DrainInv
    <3>10. \A e \in Accepted : Held(e)'
      BY Zenon, <3>3, <3>4, <3>7 DEF DrainInv
    <3>11. \A q \in Queues : Range(queue'[q]) \subseteq 1 .. next
      BY <3>4 DEF DrainInv
    <3>12. \A v \in Workers : wpc'[v] \in {"lastFlush", "lastSettle", "done"} =>
             stop /\ Range(queue'[v[1]]) \cap owed = {}
      BY Zenon, <2>0, <3>4, <3>5, <3>6 DEF DrainInv
    <3>13. \A v \in Workers :
             /\ wpc'[v] \in {"flush", "settle", "lastFlush", "lastSettle"} => batch'[v] # <<>>
             /\ wpc'[v] = "done" => batch'[v] = <<>>
      BY <3>5, <3>6, Zenon DEF DrainInv
    <3> QED
      BY <2>1, <3>9, <3>10, <3>11, <3>12, <3>13 DEF DrainInv
  <2>3. CASE FlushPartial(w) \/ WorkerStop(w)
    <3>1. UNCHANGED <<queue, batch, written, err>>
      BY <2>3 DEF FlushPartial, WorkerStop
    <3>2. \A v \in Workers : v # w => wpc'[v] = wpc[v]
      BY <2>3 DEF FlushPartial, WorkerStop, TypeOK
    <3>3. \/ wpc'[w] = "flush" /\ batch[w] # <<>>
          \/ wpc'[w] = "lastFlush" /\ batch[w] # <<>> /\ stop /\ queue[w[1]] = <<>>
          \/ wpc'[w] = "done" /\ batch[w] = <<>> /\ stop /\ queue[w[1]] = <<>>
      BY <2>3 DEF FlushPartial, WorkerStop, TypeOK
    <3>4. queue[w[1]] = <<>> => Range(queue[w[1]]) \cap owed = {}
      BY RangeEmpty, Zenon
    <3>5. \A v \in Workers : wpc'[v] \in {"lastFlush", "lastSettle", "done"} =>
            stop /\ Range(queue[v[1]]) \cap owed = {}
      BY <3>2, <3>3, <3>4, Zenon DEF DrainInv
    <3>6. \A v \in Workers :
            /\ wpc'[v] \in {"flush", "settle", "lastFlush", "lastSettle"} => batch[v] # <<>>
            /\ wpc'[v] = "done" => batch[v] = <<>>
      BY <3>2, <3>3, Zenon DEF DrainInv
    <3> QED
      BY <2>1, <3>1, <3>5, <3>6 DEF DrainInv
  <2>4. CASE WriteOk(w) \/ WriteFail(w)
    <3>1. UNCHANGED <<queue, batch>> /\ written \subseteq written' /\ (err => err')
      BY <2>4 DEF WriteOk, WriteFail
    <3>2. \A v \in Workers : v # w => wpc'[v] = wpc[v]
      BY <2>4 DEF WriteOk, WriteFail, TypeOK
    <3>3. \/ wpc[w] = "flush" /\ wpc'[w] = "settle"
          \/ wpc[w] = "lastFlush" /\ wpc'[w] = "lastSettle"
      BY <2>4, Zenon DEF WriteOk, WriteFail, TypeOK
    <3> QED
      BY <2>1, <3>1, <3>2, <3>3 DEF DrainInv, Range
  <2>5. CASE Settle(w)
    <3> DEFINE x == Head(batch[w])
    <3>1. batch[w] # <<>> /\ wpc[w] \in {"settle", "lastSettle"}
      BY <2>5 DEF Settle, DrainInv
    <3>2. /\ Range(batch[w]) = Range(Tail(batch[w])) \cup {x}
          /\ Len(batch[w]) <= 1 => Tail(batch[w]) = <<>>
          /\ Len(batch[w]) > 1 => Tail(batch[w]) # <<>>
      BY Zenon, <3>1, RangeTail DEF TypeOK
    <3>3. UNCHANGED <<queue, written, err>> /\ batch'[w] = Tail(batch[w])
      BY <2>5 DEF Settle, TypeOK
    <3>4. \A v \in Workers : v # w => UNCHANGED <<batch[v], wpc[v]>>
      BY <2>5 DEF Settle, TypeOK
    <3>5. x \in written \/ err
      BY <3>1, <3>2, Zenon DEF RingInv
    <3>6. \/ wpc'[w] = wpc[w] /\ batch'[w] # <<>>
          \/ wpc[w] = "settle" /\ wpc'[w] = "take"
          \/ wpc[w] = "lastSettle" /\ wpc'[w] = "done" /\ batch'[w] = <<>>
      <4>1. Len(batch[w]) > 1 \/ Len(batch[w]) <= 1
        BY DEF TypeOK
      <4>2. wpc'[w] = IF Len(batch[w]) > 1 THEN wpc[w]
                      ELSE IF wpc[w] = "settle" THEN "take" ELSE "done"
        BY <2>5 DEF Settle, TypeOK
      <4> QED
        BY <3>1, <3>2, <3>3, <4>1, <4>2
    <3>7. \A v \in Workers : /\ Range(batch'[v]) \subseteq Range(batch[v])
                              /\ Range(batch[v]) \subseteq Range(batch'[v]) \cup {x}
      <4>1. TAKE v \in Workers
      <4>2. CASE v = w
        BY <3>2, <3>3, <4>2
      <4>3. CASE v # w
        BY <3>4, <4>3
      <4> QED
        BY <4>2, <4>3, Zenon
    <3>8. \A e \in Accepted : Held(e)'
      <4>1. TAKE e \in Accepted
      <4>2. Held(e)
        BY DEF DrainInv
      <4>3. \A q \in Queues : Range(queue'[q]) = Range(queue[q])
        BY <3>3
      <4> QED
        BY <3>3, <3>5, <3>7, <4>2, <4>3
    <3>9. \A v \in Workers : Range(batch'[v]) \subseteq 1 .. next
      BY <3>7, Zenon DEF DrainInv
    <3>10. \A v \in Workers :
             /\ wpc'[v] \in {"flush", "settle", "lastFlush", "lastSettle"} => batch'[v] # <<>>
             /\ wpc'[v] = "done" => batch'[v] = <<>>
             /\ wpc'[v] \in {"lastFlush", "lastSettle", "done"} =>
                  stop /\ Range(queue[v[1]]) \cap owed = {}
      BY <3>1, <3>4, <3>6 DEF DrainInv
    <3> QED
      BY <2>1, <3>3, <3>8, <3>9, <3>10, Zenon DEF DrainInv
  <2> QED
    BY <1>6, <2>2, <2>3, <2>4, <2>5 DEF Worker
<1> QED
  BY <1>1, <1>2, <1>3, <1>4, <1>5, <1>6 DEF Next, Emit, NotifyLoop

-----------------------------------------------------------------------------
(* Order: one goroutine per queue *)

\* Appending an event adds it to what a queue or batch holds.
LEMMA EventAppend ==
  ASSUME NEW s \in Seq(1 .. Events), NEW x \in 1 .. Events
  PROVE  Range(Append(s, x)) = Range(s) \cup {x}
<1> DEFINE S == 1 .. Events
<1>1. s \in Seq(S) /\ x \in S
  OBVIOUS
<1> HIDE DEF S
<1> QED
  BY <1>1, RangeAppend

\* A rising batch stays rising when a later event joins it.
LEMMA RisingAppend ==
  ASSUME NEW s \in Seq(1 .. Events), NEW x \in 1 .. Events, Rising(s), Before(Range(s), {x})
  PROVE  Rising(Append(s, x))
<1>1. Len(Append(s, x)) = Len(s) + 1 /\ Append(s, x)[Len(s) + 1] = x /\ Len(s) \in Nat
  OBVIOUS
<1>2. \A i \in 1 .. Len(s) : Append(s, x)[i] = s[i]
  OBVIOUS
<1>3. ASSUME NEW i \in 1 .. Len(s) + 1, NEW j \in 1 .. Len(s) + 1, i < j
      PROVE  Append(s, x)[i] < Append(s, x)[j]
  <2>1. i \in 1 .. Len(s)
    BY <1>1, <1>3
  <2>2. CASE j = Len(s) + 1
    BY <1>1, <1>2, <2>1, <2>2 DEF Before, Range
  <2>3. CASE j # Len(s) + 1
    <3>1. j \in 1 .. Len(s)
      BY <1>1, <2>3
    <3> QED
      BY <1>2, <1>3, <2>1, <3>1 DEF Rising
  <2> QED
    BY <2>2, <2>3
<1> QED
  BY <1>1, <1>3 DEF Rising

\* The head of a rising queue is before its tail, which is rising.
LEMMA RisingTail ==
  ASSUME NEW s \in Seq(1 .. Events), s # <<>>, Rising(s)
  PROVE  Rising(Tail(s)) /\ Before({Head(s)}, Range(Tail(s)))
<1>1. Len(s) \in Nat /\ Len(s) >= 1 /\ Head(s) = s[1] /\ Len(Tail(s)) = Len(s) - 1
  OBVIOUS
<1>2. \A i \in 1 .. (Len(s) - 1) : Tail(s)[i] = s[i + 1] /\ i + 1 \in 1 .. Len(s)
  BY <1>1
<1>3. ASSUME NEW i \in 1 .. (Len(s) - 1) PROVE Head(s) < Tail(s)[i]
  <2>1. 1 \in 1 .. Len(s) /\ 1 < i + 1
    BY <1>1
  <2> QED
    BY <1>1, <1>2, <2>1 DEF Rising
<1>4. ASSUME NEW i \in 1 .. (Len(s) - 1), NEW j \in 1 .. (Len(s) - 1), i < j
      PROVE  Tail(s)[i] < Tail(s)[j]
  <2>1. i + 1 < j + 1
    BY <1>1, <1>4
  <2> QED
    BY <1>2, <2>1 DEF Rising
<1> QED
  BY <1>1, <1>3, <1>4 DEF Rising, Before, Range

\* What arrives of a batch whose produce fails keeps the batch's order.
LEMMA SomeOfRising ==
  ASSUME NEW s \in Seq(1 .. Events), Rising(s), NEW b \in SomeOf(s)
  PROVE  Rising(b)
<1>0. PICK n \in 0 .. Len(s) : \E f \in [1 .. n -> 1 .. Len(s)] :
        /\ \A i, j \in 1 .. n : i < j => f[i] < f[j]
        /\ b = [i \in 1 .. n |-> s[f[i]]]
  BY Zenon DEF SomeOf
<1>1. PICK f \in [1 .. n -> 1 .. Len(s)] :
        /\ \A i, j \in 1 .. n : i < j => f[i] < f[j]
        /\ b = [i \in 1 .. n |-> s[f[i]]]
  BY <1>0
<1>2. n \in Nat /\ Len(b) = n
  <2>1. n \in Nat /\ DOMAIN b = 1 .. n
    BY <1>1
  <2> QED
    BY <2>1, SomeOfType, Zenon
<1> SUFFICES ASSUME NEW i \in 1 .. n, NEW j \in 1 .. n, i < j
             PROVE  b[i] < b[j]
  BY <1>2, Zenon DEF Rising
<1>3. f[i] \in 1 .. Len(s) /\ f[j] \in 1 .. Len(s) /\ f[i] < f[j]
  BY <1>1, Zenon
<1> QED
  BY <1>1, <1>3, Zenon DEF Rising

\* A batch goes to the end of the topic: the order per queue is kept if the topic
\* holds nothing of the batch's queue that belongs behind it.
LEMMA Produce ==
  ASSUME NEW t \in Seq(1 .. Events), NEW b \in Seq(1 .. Events), Rising(b),
         \A i, j \in 1 .. Len(t) :
           i < j /\ QueueFor(t[i]) = QueueFor(t[j]) => t[i] < t[j],
         \A e \in Range(t), f \in Range(b) : QueueFor(e) = QueueFor(f) => e < f
  PROVE  /\ t \o b \in Seq(1 .. Events) /\ Range(t \o b) = Range(t) \cup Range(b)
         /\ \A i, j \in 1 .. Len(t \o b) :
              i < j /\ QueueFor((t \o b)[i]) = QueueFor((t \o b)[j]) => (t \o b)[i] < (t \o b)[j]
<1> DEFINE c == t \o b
<1>1. Len(t) \in Nat /\ Len(b) \in Nat /\ c \in Seq(1 .. Events) /\ Len(c) = Len(t) + Len(b)
  OBVIOUS
<1>2. \A i \in 1 .. Len(t) : c[i] = t[i]
  OBVIOUS
<1>3. \A i \in 1 .. Len(b) : c[Len(t) + i] = b[i]
  OBVIOUS
<1> HIDE DEF c
<1>4. ASSUME NEW i \in 1 .. Len(c)
      PROVE  \/ i \in 1 .. Len(t) /\ c[i] = t[i]
             \/ \E k \in 1 .. Len(b) : i = Len(t) + k /\ c[i] = b[k]
  <2>1. CASE i <= Len(t)
    BY <1>1, <1>2, <2>1
  <2>2. CASE ~(i <= Len(t))
    <3>1. i - Len(t) \in 1 .. Len(b) /\ i = Len(t) + (i - Len(t))
      BY <1>1, <2>2
    <3> QED
      BY <1>3, <3>1, Zenon
  <2> QED
    BY <2>1, <2>2
<1>5. Range(c) \subseteq Range(t) \cup Range(b)
  BY <1>4 DEF Range
<1>6. Range(t) \cup Range(b) \subseteq Range(c)
  <2>1. \A i \in 1 .. Len(t) : i \in 1 .. Len(c)
    BY <1>1
  <2>2. \A i \in 1 .. Len(b) : Len(t) + i \in 1 .. Len(c)
    BY <1>1
  <2> QED
    BY <1>2, <1>3, <2>1, <2>2, Zenon DEF Range
<1>7. ASSUME NEW i \in 1 .. Len(c), NEW j \in 1 .. Len(c), i < j, QueueFor(c[i]) = QueueFor(c[j])
      PROVE  c[i] < c[j]
  <2>1. CASE i \in 1 .. Len(t) /\ j \in 1 .. Len(t)
    BY <1>2, <1>7, <2>1
  <2>2. ASSUME NEW k \in 1 .. Len(b), j = Len(t) + k, c[j] = b[k]
        PROVE  c[i] < c[j]
    <3>1. CASE i \in 1 .. Len(t)
      BY <1>2, <1>7, <2>2, <3>1, Zenon DEF Range
    <3>2. ASSUME NEW l \in 1 .. Len(b), i = Len(t) + l, c[i] = b[l]
          PROVE  c[i] < c[j]
      <4>1. l < k
        BY <1>1, <1>7, <2>2, <3>2
      <4> QED
        BY <2>2, <3>2, <4>1 DEF Rising
    <3> QED
      BY <1>4, <3>1, <3>2
  <2>3. CASE j \in 1 .. Len(t)
    BY <1>1, <1>7, <2>1, <2>3
  <2> QED
    BY <1>4, <2>2, <2>3
<1> QED
  BY <1>1, <1>5, <1>6, <1>7, Zenon DEF c

\* A worker's lane is kept by a step that leaves its parts alone.
LEMMA LaneKept ==
  ASSUME NEW v \in Workers, Lane(v),
         queue'[v[1]] = queue[v[1]], batch'[v] = batch[v], Produced(v[1])' = Produced(v[1]),
         wpc'[v] \in {"take", "flush", "lastFlush"} => wpc[v] \in {"take", "flush", "lastFlush"},
         epc' = "put" => epc = "put" /\ next' = next
  PROVE  Lane(v)'
BY Zenon DEF Lane

\* Every step keeps the events of a queue in order, from Emit to the topic.
LEMMA OrderStep ==
  ASSUME WorkersPerPart = 1, SinkInv, SinkInv', OrderInv, [Next]_vars
  PROVE  OrderInv'
<1>1. \A v, w \in Workers : v[1] \in Queues /\ (v[1] = w[1] => v = w)
  BY DEF Workers
<1>2. /\ TypeOK /\ DrainInv /\ next \in Nat /\ next' \in Nat /\ next <= next'
      /\ topic \in Seq(1 .. Events) /\ Range(topic) \subseteq 1 .. next
      /\ \A w \in Workers : Lane(w)
  <2>1. TypeOK /\ DrainInv /\ TypeOK'
    BY DEF SinkInv
  <2> QED
    BY <2>1, Grows, EventsAssumption DEF TypeOK, OrderInv
<1>3. ASSUME topic' = topic, \A v \in Workers : Lane(v)'
      PROVE  OrderInv'
  <2>1. Range(topic) \subseteq 1 .. next'
    BY <1>2
  <2> QED
    BY <1>3, <2>1 DEF OrderInv
<1>4. ASSUME UNCHANGED <<topic, queue, batch>>,
             \A v \in Workers : wpc'[v] \in {"take", "flush", "lastFlush"}
                                  => wpc[v] \in {"take", "flush", "lastFlush"},
             epc' = "put" => epc = "put" /\ next' = next
      PROVE  OrderInv'
  <2>1. \A v \in Workers : Produced(v[1])' = Produced(v[1])
    BY <1>4 DEF Produced, Range, Routed, QueueFor
  <2> QED
    BY <1>2, <1>3, <1>4, <2>1, LaneKept
<1>5. CASE EmitClaim
  <2>1. UNCHANGED <<topic, queue, batch, wpc>>
    BY <1>5 DEF EmitClaim, workVars
  <2>2. CASE epc' = "put"
    <3>1. next' = next + 1
      BY <1>5, <2>2 DEF EmitClaim
    <3>2. ASSUME NEW v \in Workers PROVE Lane(v)'
      <4>1. Produced(v[1])' = Produced(v[1]) /\ Produced(v[1]) \subseteq 1 .. next
        BY <1>2, <2>1, Zenon DEF Produced, Range, Routed, QueueFor
      <4>2. Range(queue[v[1]]) \subseteq 1 .. next /\ Range(batch[v]) \subseteq 1 .. next
        BY <1>1, <1>2, Zenon DEF DrainInv
      <4>3. Before(Range(queue[v[1]]) \cup Range(batch[v]) \cup Produced(v[1]), {next + 1})
        BY <1>2, <4>1, <4>2 DEF Before
      <4> QED
        BY Zenon, <1>2, <2>1, <3>1, <4>1, <4>3 DEF Lane
    <3> QED
      BY <1>3, <2>1, <3>2
  <2>3. CASE epc' # "put"
    BY <1>4, <2>1, <2>3
  <2> QED
    BY <2>2, <2>3
<1>6. CASE EmitPut
  <2> DEFINE q == QueueFor(next)
  <2>1. /\ UNCHANGED <<topic, batch, wpc, next>> /\ epc = "put" /\ epc' = "idle"
        /\ queue' = [queue EXCEPT ![q] = Append(queue[q], next)]
    BY <1>6, Zenon DEF EmitPut, workVars
  <2>2. next \in 1 .. Events /\ q \in Queues /\ next \in Routed(q)
    BY <1>2, <2>1, KeyAssumption DEF DrainInv, TypeOK, QueueFor, Routed
  <2>3. queue[q] \in Seq(1 .. Events)
    BY <1>2, <2>2 DEF TypeOK
  <2> HIDE DEF q
  <2>4. ASSUME NEW v \in Workers PROVE Lane(v)'
    <3>1. Produced(v[1])' = Produced(v[1])
      BY <2>1, Zenon DEF Produced, Range, Routed, QueueFor
    <3>2. CASE v[1] # q
      <4>1. queue'[v[1]] = queue[v[1]]
        BY <1>1, <1>2, <2>1, <3>2 DEF TypeOK
      <4> QED
        BY <1>2, <2>1, <3>1, <4>1, LaneKept
    <3>3. CASE v[1] = q
      <4>1. queue'[q] = Append(queue[q], next)
        BY <1>2, <2>1, <2>2, Zenon DEF TypeOK
      <4>2. Lane(v) /\ Before(Range(queue[q]) \cup Range(batch[v]) \cup Produced(q), {next})
        BY <1>2, <2>1, <3>3, Zenon DEF Lane
      <4>3. Rising(queue[q])
        BY <3>3, <4>2 DEF Lane
      <4>4. Rising(queue'[q])
        BY <2>2, <2>3, <4>1, <4>2, <4>3, RisingAppend, Zenon DEF Before
      <4>5. Range(queue'[q]) = Range(queue[q]) \cup {next}
        <5>0. next \in 1 .. Events
          BY <2>2
        <5>1. Range(Append(queue[q], next)) = Range(queue[q]) \cup {next}
          BY <2>3, <5>0, EventAppend, Zenon
        <5> QED
          BY <4>1, <5>1
      <4>6. /\ Before(Produced(q), Range(queue'[q])) /\ Before(Range(batch[v]), Range(queue'[q]))
            /\ Range(queue'[q]) \subseteq Routed(q)
        BY <2>2, <3>3, <4>2, <4>5, Zenon DEF Lane, Before
      <4>7. Routed(v[1])' = Routed(v[1])
        BY DEF Routed, QueueFor
      <4> QED
        BY Zenon, <2>1, <3>1, <3>3, <4>2, <4>4, <4>6, <4>7 DEF Lane
    <3> QED
      BY <3>2, <3>3
  <2> QED
    BY <1>3, <2>1, <2>4
<1>7. CASE EmitAbort \/ Advance \/ Report \/ NotifyStop \/ Close \/ UNCHANGED vars
  <2>1. UNCHANGED <<topic, queue, batch, wpc, next>> /\ (epc' = "put" => epc = "put")
    BY <1>7 DEF EmitAbort, Advance, Report, NotifyStop, Close, vars, emitVars, workVars
  <2> QED
    BY <1>4, <2>1, Zenon
<1>8. ASSUME NEW w \in Workers, FlushPartial(w) \/ WorkerStop(w)
      PROVE  OrderInv'
  <2>1. UNCHANGED <<topic, queue, batch, next, epc>> /\ wpc[w] = "take"
    BY <1>8 DEF FlushPartial, WorkerStop, emitVars
  <2>2. \A v \in Workers : v # w => wpc'[v] = wpc[v]
    BY <1>2, <1>8 DEF FlushPartial, WorkerStop, TypeOK
  <2> QED
    BY <1>4, <2>1, <2>2, Zenon
<1>9. ASSUME NEW w \in Workers, WorkerTake(w)
      PROVE  OrderInv'
  <2> DEFINE q == w[1]
             h == Head(queue[q])
  <2>1. /\ UNCHANGED <<topic, next, epc>> /\ wpc[w] = "take" /\ queue[q] # <<>>
        /\ queue' = [queue EXCEPT ![q] = Tail(queue[q])]
        /\ batch' = [batch EXCEPT ![w] = Append(batch[w], h)]
    BY <1>9 DEF WorkerTake, emitVars
  <2>2. q \in Queues /\ queue[q] \in Seq(1 .. Events) /\ batch[w] \in Seq(1 .. Events)
    BY <1>1, <1>2, Zenon DEF TypeOK
  <2>3. ASSUME NEW v \in Workers, v # w PROVE Lane(v)'
    <3>1. v[1] # q
      BY <1>1, <2>3, Zenon
    <3>2. queue'[v[1]] = queue[v[1]] /\ batch'[v] = batch[v]
      BY <1>1, <1>2, <2>1, <2>3, <3>1, Zenon DEF TypeOK
    <3>3. wpc'[v] = wpc[v]
      BY <1>2, <1>9, <2>3 DEF WorkerTake, TypeOK
    <3>4. Produced(v[1])' = Produced(v[1])
      BY <2>1, Zenon DEF Produced, Range, Routed, QueueFor
    <3> QED
      BY <1>2, <2>1, <3>2, <3>3, <3>4, LaneKept
  <2>4. queue'[q] = Tail(queue[q]) /\ batch'[w] = Append(batch[w], h)
    BY <1>2, <2>1, <2>2, Zenon DEF TypeOK
  <2>5. Produced(q)' = Produced(q) /\ Routed(q)' = Routed(q)
    BY <2>1, Zenon DEF Produced, Range, Routed, QueueFor
  <2>6. /\ h \in 1 .. Events /\ Range(queue[q]) = Range(queue'[q]) \cup {h}
        /\ Rising(queue'[q]) /\ Before({h}, Range(queue'[q]))
    BY <1>2, <2>1, <2>2, <2>4, RangeTail, RisingTail, Zenon DEF Lane
  <2>7. Before(Range(batch[w]), {h}) /\ Before(Produced(q), {h})
    BY <1>2, <2>6 DEF Lane, Before
  <2>8. Rising(batch'[w]) /\ Range(batch'[w]) = Range(batch[w]) \cup {h}
    <3>1. Rising(batch[w]) /\ h \in 1 .. Events /\ Before(Range(batch[w]), {h})
      BY <1>2, <2>6, <2>7, Zenon DEF Lane
    <3> HIDE DEF h
    <3>2. Rising(Append(batch[w], h))
      BY <2>2, <3>1, RisingAppend
    <3>2a. batch[w] \in Seq(1 .. Events) /\ h \in 1 .. Events
      BY <2>2, <3>1
    <3>3. Range(Append(batch[w], h)) = Range(batch[w]) \cup {h}
      BY <3>2a, EventAppend
    <3> QED
      BY <2>4, <3>2, <3>3
  <2> HIDE DEF q, h
  <2>9. /\ Range(queue'[q]) \subseteq Routed(q) /\ Range(batch'[w]) \subseteq Routed(q)
        /\ Before(Produced(q), Range(queue'[q])) /\ Before(Range(batch'[w]), Range(queue'[q]))
        /\ Before(Produced(q), Range(batch'[w]))
        /\ epc = "put" => Before(Range(queue'[q]) \cup Range(batch'[w]) \cup Produced(q), {next})
    BY <1>2, <2>1, <2>6, <2>7, <2>8, Zenon DEF Lane, Before, q
  <2>10. Lane(w)'
    BY Zenon, <2>1, <2>5, <2>6, <2>8, <2>9 DEF Lane, q
  <2> QED
    BY <1>3, <2>1, <2>3, <2>10, Zenon
<1>10. ASSUME NEW w \in Workers, WriteOk(w) \/ WriteFail(w)
       PROVE  OrderInv'
  <2>1. /\ UNCHANGED <<queue, batch, next, epc>> /\ wpc[w] \in {"flush", "lastFlush"}
        /\ wpc' = [wpc EXCEPT ![w] = IF @ = "flush" THEN "settle" ELSE "lastSettle"]
    BY Zenon, <1>10 DEF WriteOk, WriteFail, emitVars
  <2>2. batch[w] \in Seq(1 .. Events) /\ Lane(w)
    BY <1>2 DEF TypeOK
  <2>3. PICK b \in Seq(1 .. Events) :
          topic' = topic \o b /\ Rising(b) /\ Range(b) \subseteq Range(batch[w])
    <3>1. CASE WriteOk(w)
      BY <2>2, <3>1, Zenon DEF WriteOk, Lane
    <3>2. CASE WriteFail(w)
      <4>1. PICK s \in SomeOf(batch[w]) : topic' = topic \o s
        BY Zenon, <3>2 DEF WriteFail
      <4>2. s \in Seq(1 .. Events) /\ Range(s) \subseteq Range(batch[w])
        BY <2>2, SomeOfType, Zenon
      <4> QED
        BY <2>2, <4>1, <4>2, SomeOfRising, Zenon DEF Lane
    <3> QED
      BY <1>10, <3>1, <3>2
  <2>4. Range(b) \subseteq Routed(w[1]) /\ Before(Produced(w[1]), Range(b))
    BY <2>1, <2>2, <2>3 DEF Lane, Before
  <2>5. \A e \in Range(topic), f \in Range(b) : QueueFor(e) = QueueFor(f) => e < f
    <3>1. Range(topic) \subseteq 1 .. Events
      BY <1>2, RangeIs, Zenon
    <3> QED
      BY <2>4, <3>1 DEF Produced, Routed, Before
  <2>6. /\ Range(topic') = Range(topic) \cup Range(b)
        /\ \A i, j \in 1 .. Len(topic') :
             i < j /\ QueueFor(topic'[i]) = QueueFor(topic'[j]) => topic'[i] < topic'[j]
    BY <1>2, <2>3, <2>5, Produce, Zenon DEF OrderInv
  <2>7. Range(topic') \subseteq 1 .. next'
    BY <1>2, <2>1, <2>3, <2>6 DEF DrainInv
  <2>8. ASSUME NEW v \in Workers, v # w PROVE Lane(v)'
    <3>1. Range(b) \cap Routed(v[1]) = {}
      BY <1>1, <2>4, <2>8, Zenon DEF Routed
    <3>2. Produced(v[1])' = Produced(v[1])
      <4>1. Routed(v[1])' = Routed(v[1]) /\ Range(topic)' = Range(topic')
        BY Zenon DEF Routed, QueueFor, Range
      <4> QED
        BY <2>6, <3>1, <4>1, Zenon DEF Produced
    <3>3. wpc'[v] = wpc[v]
      BY <1>2, <2>1, <2>8 DEF TypeOK
    <3> QED
      BY <1>2, <2>1, <3>2, <3>3, LaneKept
  <2>9. Lane(w)'
    <3>1. Produced(w[1])' \subseteq Produced(w[1]) \cup Range(batch[w])
      <4>1. Routed(w[1])' = Routed(w[1]) /\ Range(topic)' = Range(topic')
        BY Zenon DEF Routed, QueueFor, Range
      <4> QED
        BY <2>3, <2>6, <4>1 DEF Produced
    <3>2. wpc'[w] \notin {"take", "flush", "lastFlush"}
      BY <1>2, <2>1, Zenon DEF TypeOK
    <3>3. Before(Produced(w[1])', Range(queue[w[1]]))
      BY <2>2, <3>1, Zenon DEF Lane, Before
    <3>4. epc = "put" => Before(Range(queue[w[1]]) \cup Range(batch[w]) \cup Produced(w[1])', {next})
      BY <2>2, <3>1 DEF Lane, Before
    <3>5. Routed(w[1])' = Routed(w[1])
      BY DEF Routed, QueueFor
    <3> QED
      BY Zenon, <2>1, <2>2, <3>2, <3>3, <3>4, <3>5 DEF Lane
  <2> QED
    BY <2>6, <2>7, <2>8, <2>9 DEF OrderInv
<1>11. ASSUME NEW w \in Workers, Settle(w)
       PROVE  OrderInv'
  <2>1. /\ UNCHANGED <<topic, queue, next, epc>> /\ wpc[w] \in {"settle", "lastSettle"}
        /\ batch' = [batch EXCEPT ![w] = Tail(batch[w])]
        /\ wpc' = [wpc EXCEPT ![w] = IF Len(batch[w]) > 1 THEN @
                                     ELSE IF @ = "settle" THEN "take" ELSE "done"]
    BY <1>11, Zenon DEF Settle, emitVars
  <2>2. batch[w] # <<>> /\ batch[w] \in Seq(1 .. Events) /\ Lane(w)
    BY <1>2, <2>1, Zenon DEF DrainInv, TypeOK
  <2>3. batch'[w] = Tail(batch[w])
    BY <1>2, <2>1 DEF TypeOK
  <2>4. ASSUME NEW v \in Workers PROVE Produced(v[1])' = Produced(v[1]) /\ Routed(v[1])' = Routed(v[1])
    BY <2>1, Zenon DEF Produced, Range, Routed, QueueFor
  <2>5. ASSUME NEW v \in Workers, v # w PROVE Lane(v)'
    <3>1. batch'[v] = batch[v] /\ wpc'[v] = wpc[v]
      BY <1>2, <2>1, <2>5 DEF TypeOK
    <3> QED
      BY <1>2, <2>1, <2>4, <3>1, LaneKept, Zenon
  <2>6. Lane(w)'
    <3>1. Rising(batch'[w]) /\ Range(batch'[w]) \subseteq Range(batch[w])
      BY <2>2, <2>3, RangeTail, RisingTail, Zenon DEF Lane
    <3>2. wpc'[w] \in {"take", "flush", "lastFlush"} => Range(batch'[w]) = {}
      <4>1. wpc'[w] = IF Len(batch[w]) > 1 THEN wpc[w]
                      ELSE IF wpc[w] = "settle" THEN "take" ELSE "done"
        BY <1>2, <2>1 DEF TypeOK
      <4>2. Len(batch[w]) \in Nat /\ (Len(batch[w]) <= 1 => batch'[w] = <<>>)
        BY <2>2, <2>3, RangeTail
      <4>3. CASE Len(batch[w]) > 1
        BY <2>1, <4>1, <4>3
      <4>4. CASE Len(batch[w]) <= 1
        BY <4>2, <4>4, RangeEmpty, Zenon
      <4> QED
        BY <4>2, <4>3, <4>4
    <3>3. /\ Range(batch'[w]) \subseteq Routed(w[1]) /\ Before(Range(batch'[w]), Range(queue[w[1]]))
          /\ epc = "put" => Before(Range(queue[w[1]]) \cup Range(batch'[w]) \cup Produced(w[1]), {next})
      BY <2>2, <3>1 DEF Lane, Before
    <3>4. wpc'[w] \in {"take", "flush", "lastFlush"} => Before(Produced(w[1]), Range(batch'[w]))
      BY <3>2 DEF Before
    <3> QED
      BY Zenon, <2>1, <2>2, <2>4, <3>1, <3>3, <3>4 DEF Lane
  <2> QED
    BY <1>3, <2>1, <2>5, <2>6, Zenon
<1> QED
  BY <1>5, <1>6, <1>7, <1>8, <1>9, <1>10, <1>11 DEF Next, Emit, NotifyLoop, Worker

-----------------------------------------------------------------------------
(* Theorems *)

\* The inductive invariant: types, the ring, reports and draining together.
THEOREM SinkInvariant == Spec => []SinkInv
<1>1. Init => SinkInv
  <2> SUFFICES ASSUME Init PROVE SinkInv
    OBVIOUS
  <2> USE EventsAssumption
  <2>1. \A S : <<>> \in Seq(S)
    OBVIOUS
  <2>2. TypeOK
    <3>1. stop \in BOOLEAN /\ err \in BOOLEAN /\ wok \in [Workers -> BOOLEAN]
      BY Zenon DEF Init
    <3>2. /\ queue \in [Queues -> Seq(1 .. Events)] /\ batch \in [Workers -> Seq(1 .. Events)]
          /\ topic \in Seq(1 .. Events)
      BY <2>1 DEF Init
    <3>3. /\ wpc \in [Workers -> {"take", "flush", "settle", "lastFlush", "lastSettle", "done"}]
          /\ result \in [1 .. Events -> {"none", "ok", "err"}]
      BY DEF Init
    <3>4. /\ next \in 0 .. Events /\ base \in 0 .. next /\ notePos \in Nat /\ reported \in Nat
          /\ written \subseteq 1 .. next /\ owed \subseteq 1 .. next
          /\ epc \in {"idle", "put", "failed", "aborted"}
          /\ npc \in {"wait", "report", "last", "lastReport", "done"}
      BY DEF Init
    <3> QED
      BY <3>1, <3>2, <3>3, <3>4 DEF TypeOK
  <2>3. RingInv /\ ReportHonest
    BY DEF Init, RingInv, ReportHonest
  <2>4. DrainInv
    <3>1. \A q \in Queues : Range(queue[q]) = {}
      BY RangeEmpty DEF Init
    <3>2. \A w \in Workers : Range(batch[w]) = {} /\ wpc[w] = "take"
      BY RangeEmpty DEF Init
    <3>3. Accepted = {} /\ epc = "idle"
      BY DEF Init, Accepted
    <3> QED
      BY Zenon, <3>1, <3>2, <3>3 DEF DrainInv
  <2> QED
    BY <2>2, <2>3, <2>4 DEF SinkInv
<1>2. SinkInv /\ [Next]_vars => SinkInv'
  BY TypeStep, RingStep, HonestStep, DrainStep DEF SinkInv
<1> QED
  BY <1>1, <1>2, PTL DEF Spec

\* Every reported position has its whole prefix acknowledged, whatever order the
\* workers' batches complete or fail in.
THEOREM HonestReports == Spec => []ReportHonest
<1>1. SinkInv => ReportHonest
  BY DEF SinkInv
<1> QED
  BY <1>1, SinkInvariant, PTL

\* Close flushes everything accepted before it was called.
THEOREM FlushedOnClose == Spec => []CloseFlushes
<1>1. SinkInv => CloseFlushes
  <2> SUFFICES ASSUME SinkInv, Closed, ~err, NEW e \in owed PROVE e \in written
    BY DEF CloseFlushes
  <2>1. Accepted = owed
    BY Zenon DEF Closed, Accepted
  <2>2. ASSUME NEW q \in Queues, e \in Range(queue[q]) PROVE FALSE
    <3>1. <<q, 1>> \in Workers /\ <<q, 1>>[1] = q
      BY WorkerAssumption DEF Workers
    <3> QED
      BY <2>2, <3>1 DEF Closed, SinkInv, DrainInv
  <2>3. ASSUME NEW w \in Workers, e \in Range(batch[w]) PROVE FALSE
    BY <2>3, RangeEmpty DEF Closed, SinkInv, DrainInv
  <2> QED
    BY <2>1, <2>2, <2>3 DEF SinkInv, DrainInv
<1> QED
  BY <1>1, SinkInvariant, PTL

\* The sink implements the contract of an asynchronous sink: claiming an ordinal
\* accepts an event, an acknowledged batch settles its events, a report reports.
THEOREM ImplementsContract == Spec => KeepsContract
<1>1. Init => Contract!Init
  BY DEF Init, Contract!Init
<1>2. SinkInv /\ SinkInv' /\ [Next]_vars => [Contract!Next]_Contract!vars
  <2> SUFFICES ASSUME SinkInv, SinkInv', [Next]_vars
               PROVE  Contract!Next \/ UNCHANGED <<next, written, reported>>
    BY DEF Contract!vars
  <2>1. CASE EmitClaim
    BY <2>1 DEF EmitClaim, workVars, notifyVars, Contract!Next, Contract!Accept
  <2>2. CASE Report
    <3>1. PICK k \in 1 .. base : Pos[k] = notePos
      BY <2>2, Zenon DEF Report, SinkInv, RingInv
    <3>2. k \in 1 .. next /\ 1 .. k \subseteq written
      BY DEF SinkInv, TypeOK, RingInv
    <3> QED
      BY <2>2, <3>1, <3>2, Zenon DEF Report, emitVars, workVars, Contract!Next, Contract!Report
  <2>3. CASE \E w \in Workers : WriteOk(w)
    <3>1. written \subseteq written' /\ UNCHANGED <<next, reported>>
      BY <2>3, Zenon DEF WriteOk, emitVars, notifyVars
    <3>2. written' \subseteq 1 .. next
      BY <3>1 DEF SinkInv, TypeOK
    <3> QED
      BY <3>1, <3>2 DEF Contract!Next, Contract!Settle
  <2>4. CASE ~EmitClaim /\ ~Report /\ ~\E w \in Workers : WriteOk(w)
    BY <2>4 DEF Next, Emit, NotifyLoop, Worker, vars, EmitPut, EmitAbort, Advance,
                NotifyStop, Close, WorkerTake, FlushPartial, WriteFail, Settle,
                WorkerStop, emitVars, workVars, notifyVars
  <2> QED
    BY <2>1, <2>2, <2>3, <2>4
<1> QED
  BY <1>1, <1>2, SinkInvariant, PTL DEF Spec, KeepsContract, Contract!Spec

\* With one goroutine per queue (workers_per_partition: 1) the events of one key on
\* one partition stand there in the order Emit accepted them, however the writer
\* spreads the messages, also when produces fail, batches are cut short or Close
\* drains the queues.  The hypothesis is needed: with two, the default, the run on
\* KafkaKeyOrder.cfg shows the order broken.
THEOREM KeysInOrder == WorkersPerPart = 1 => (Spec => []PartitionOrder)
<1> SUFFICES ASSUME WorkersPerPart = 1 PROVE Spec => []PartitionOrder
  OBVIOUS
<1>1. Init => OrderInv
  <2> SUFFICES ASSUME Init PROVE OrderInv
    OBVIOUS
  <2>1. topic = <<>> /\ Len(<<>>) = 0 /\ Range(topic) = {} /\ epc = "idle"
    BY RangeEmpty, Zenon DEF Init
  <2>2. ASSUME NEW w \in Workers PROVE Lane(w)
    <3>1. queue[w[1]] = <<>> /\ batch[w] = <<>>
      BY DEF Init, Workers
    <3>2. Rising(<<>>) /\ Range(<<>>) = {} /\ Produced(w[1]) = {}
      BY <2>1, RangeEmpty DEF Rising, Produced
    <3> QED
      BY <2>1, <3>1, <3>2 DEF Lane, Before
  <2> QED
    BY <2>1, <2>2 DEF OrderInv
<1>2. SinkInv /\ SinkInv' /\ OrderInv /\ [Next]_vars => OrderInv'
  BY OrderStep
<1>3. SinkInv /\ OrderInv => PartitionOrder
  <2> SUFFICES ASSUME SinkInv, OrderInv, NEW i \in 1 .. Len(topic), NEW j \in 1 .. Len(topic),
                      i < j, Key[topic[i]] = Key[topic[j]]
               PROVE  topic[i] < topic[j]
    BY DEF PartitionOrder
  <2>1. QueueFor(topic[i]) = QueueFor(topic[j])
    BY DEF QueueFor
  <2> QED
    BY <2>1 DEF OrderInv
<1> QED
  BY <1>1, <1>2, <1>3, SinkInvariant, PTL DEF Spec

\* Every variable keeps its type, and the ring never passes a claimed ordinal
\* (seqRing's base and next).
THEOREM TypeCorrect == Spec => []TypeOK
BY SinkInvariant, PTL DEF SinkInv

=============================================================================
