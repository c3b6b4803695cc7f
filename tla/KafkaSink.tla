------------------------------ MODULE KafkaSink ------------------------------
(***************************************************************************)
(* The asynchronous Kafka sink (internal/sink): Emit claims an ordinal in  *)
(* the sequence ring and queues the event; workers batch and produce;      *)
(* notifyLoop reports the contiguous acknowledged prefix; Close drains.    *)
(*                                                                         *)
(* Events are numbered 1 .. Events in the order of their ordinals (ring    *)
(* ordinals are 0-based: event e has ordinal e - 1, and base here counts   *)
(* the consumed ordinals).  Heartbeats that IncludeHeartbeats leaves out   *)
(* return from Emit without an ordinal and are not events here.            *)
(*                                                                         *)
(* Which partition a message lands on is the kafka-go writer's choice, and *)
(* not a function of its key: NewKafkaSink sets no Balancer and the writer *)
(* takes no notice of the Partition that Emit puts into the message.       *)
(* Nothing in the sink reads the choice back, so topic is one sequence,    *)
(* the messages in the order they arrived on whichever partition, and a    *)
(* property of the partitions quantifies over every way to spread them.    *)
(* The retries inside WriteMessages are the library's and left out.        *)
(***************************************************************************)
EXTENDS Integers, Sequences, FiniteSets

CONSTANTS
  Events,         \* number of events offered to Emit
  Pos,            \* position each event carries, 0 for none
  Key,            \* entity key of each event
  Queues,         \* the worker queues
  QueueOf,        \* queue a key hashes to
  Partitions,     \* the topic's partitions
  WorkersPerPart, \* goroutines serving one queue
  QueueDepth, BatchSize,
  Faults          \* subset of {"produce", "cancel"}

ASSUME EventsAssumption == Events \in Nat /\ Pos \in [1 .. Events -> Nat]
ASSUME KeyAssumption == \A e \in 1 .. Events : QueueOf[Key[e]] \in Queues
ASSUME WorkerAssumption ==
  WorkersPerPart \in Nat \ {0} /\ QueueDepth \in Nat \ {0} /\ BatchSize \in Nat \ {0}

Workers == Queues \X (1 .. WorkersPerPart)

VARIABLES
  epc,       \* the emit loop: idle, put (at a queue), failed, aborted
  next,      \* ordinals claimed so far
  queue, batch,
  wpc, wok,  \* each worker's place, and whether its last produce succeeded
  topic,     \* what arrived on the topic's partitions, in the order it did
  written,   \* events the broker acknowledged
  result,    \* the ring's items
  base,      \* ordinals consumed from the ring
  npc, notePos, reported,
  err, stop,
  owed       \* events whose Emit had returned nil when Close was called

emitVars   == <<epc, next>>
workVars   == <<batch, wpc, wok, topic, written, err>>
notifyVars == <<base, npc, notePos, reported>>
vars == <<emitVars, queue, workVars, result, notifyVars, stop, owed>>

Init ==
  /\ epc = "idle" /\ next = 0
  /\ queue = [q \in Queues |-> <<>>] /\ batch = [w \in Workers |-> <<>>]
  /\ wpc = [w \in Workers |-> "take"] /\ wok = [w \in Workers |-> TRUE]
  /\ topic = <<>> /\ written = {} /\ result = [e \in 1 .. Events |-> "none"]
  /\ base = 0 /\ npc = "wait" /\ notePos = 0 /\ reported = 0
  /\ err = FALSE /\ stop = FALSE /\ owed = {}

-----------------------------------------------------------------------------
(* Emit, called by the runner's single emit loop *)

EmitClaim ==
  /\ epc = "idle" /\ next < Events
  /\ IF err THEN epc' = "failed" /\ next' = next
            ELSE epc' = "put" /\ next' = next + 1
  /\ UNCHANGED <<queue, workVars, result, notifyVars, stop, owed>>

\* Altered form: events are spread over the queues whatever their key.
QueueRoundRobin(e) == (e % Cardinality(Queues)) + 1

\* The worker queue an event's key hashes to.
QueueFor(e) == QueueOf[Key[e]]

EmitPut ==
  /\ epc = "put"
  /\ LET q == QueueFor(next) IN
     /\ Len(queue[q]) < QueueDepth
     /\ queue' = [queue EXCEPT ![q] = Append(@, next)]
  /\ epc' = "idle"
  /\ UNCHANGED <<next, workVars, result, notifyVars, stop, owed>>

\* The context is cancelled, or Close has begun, while Emit is at the queue: the
\* ordinal stays claimed and is never settled.
EmitAbort ==
  /\ epc = "put" /\ ("cancel" \in Faults \/ stop)
  /\ epc' = "aborted"
  /\ UNCHANGED <<next, queue, workVars, result, notifyVars, stop, owed>>

-----------------------------------------------------------------------------
(* worker and flush *)

WorkerTake(w) ==
  /\ wpc[w] = "take" /\ queue[w[1]] # <<>>
  /\ batch' = [batch EXCEPT ![w] = Append(@, Head(queue[w[1]]))]
  /\ queue' = [queue EXCEPT ![w[1]] = Tail(@)]
  /\ wpc' = [wpc EXCEPT ![w] = IF Len(batch'[w]) >= BatchSize THEN "flush" ELSE "take"]
  /\ UNCHANGED <<emitVars, wok, topic, written, err, result, notifyVars, stop, owed>>

\* Altered form: the timer only flushes full batches.
FlushFull(w) ==
  /\ wpc[w] = "take" /\ Len(batch[w]) >= BatchSize
  /\ wpc' = [wpc EXCEPT ![w] = "flush"]
  /\ UNCHANGED <<emitVars, queue, batch, wok, topic, written, err, result,
                 notifyVars, stop, owed>>

\* BatchTimeout expires.
FlushPartial(w) ==
  /\ wpc[w] = "take" /\ batch[w] # <<>>
  /\ wpc' = [wpc EXCEPT ![w] = "flush"]
  /\ UNCHANGED <<emitVars, queue, batch, wok, topic, written, err, result,
                 notifyVars, stop, owed>>

\* WriteMessages returns: everything was acknowledged, each message by the
\* partition the writer chose for it, and a partition keeps the batch's order ...
WriteOk(w) ==
  /\ wpc[w] \in {"flush", "lastFlush"}
  /\ topic' = topic \o batch[w]
  /\ written' = written \cup {batch[w][i] : i \in 1 .. Len(batch[w])}
  /\ wpc' = [wpc EXCEPT ![w] = IF @ = "flush" THEN "settle" ELSE "lastSettle"]
  /\ wok' = [wok EXCEPT ![w] = TRUE]
  /\ UNCHANGED <<emitVars, queue, batch, err, result, notifyVars, stop, owed>>

\* Any of a batch's messages, in the batch's order.
SomeOf(s) ==
  UNION {{[i \in 1 .. n |-> s[f[i]]] :
            f \in {g \in [1 .. n -> 1 .. Len(s)] :
                     \A i, j \in 1 .. n : i < j => g[i] < g[j]}} : n \in 0 .. Len(s)}

\* ... or it failed: every partition took its share of the batch or did not, and
\* any of the messages may have arrived.
WriteFail(w) ==
  /\ wpc[w] \in {"flush", "lastFlush"} /\ "produce" \in Faults
  /\ \E s \in SomeOf(batch[w]) : topic' = topic \o s
  /\ err' = TRUE
  /\ wpc' = [wpc EXCEPT ![w] = IF @ = "flush" THEN "settle" ELSE "lastSettle"]
  /\ wok' = [wok EXCEPT ![w] = FALSE]
  /\ UNCHANGED <<emitVars, queue, batch, written, result, notifyVars, stop, owed>>

\* Altered form: the outcome of a failed produce is recorded as a success.
OutcomeIgnoresError(w) == "ok"

\* The result a batch's items are given.
Outcome(w) == IF wok[w] THEN "ok" ELSE "err"

\* ring.Done, once per item of the batch.
Settle(w) ==
  /\ wpc[w] \in {"settle", "lastSettle"}
  /\ result' = [result EXCEPT ![Head(batch[w])] = Outcome(w)]
  /\ batch' = [batch EXCEPT ![w] = Tail(@)]
  /\ wpc' = [wpc EXCEPT ![w] = IF Len(batch[w]) > 1 THEN @
                               ELSE IF @ = "settle" THEN "take" ELSE "done"]
  /\ UNCHANGED <<emitVars, queue, wok, topic, written, err, notifyVars, stop, owed>>

\* Altered form: a worker leaves on Close without draining its queue.
WorkerStopEarly(w) ==
  /\ wpc[w] = "take" /\ stop
  /\ wpc' = [wpc EXCEPT ![w] = IF batch[w] = <<>> THEN "done" ELSE "lastFlush"]
  /\ UNCHANGED <<emitVars, queue, batch, wok, topic, written, err, result,
                 notifyVars, stop, owed>>

\* After Close, with its queue drained, a worker flushes what it holds and
\* returns; it does not look at the queue again.
WorkerStop(w) ==
  /\ wpc[w] = "take" /\ stop /\ queue[w[1]] = <<>>
  /\ wpc' = [wpc EXCEPT ![w] = IF batch[w] = <<>> THEN "done" ELSE "lastFlush"]
  /\ UNCHANGED <<emitVars, queue, batch, wok, topic, written, err, result,
                 notifyVars, stop, owed>>

-----------------------------------------------------------------------------
(* notifyLoop, drainPrefix and seqRing.Advance *)

\* Altered forms: the first item that is not done is consumed with the prefix; the
\* highest done item counts, whatever is before it.
PrefixOneMore(k) ==
  /\ \A e \in (base + 1) .. (k - 1) : result[e] = "ok"
  /\ result[k] # "ok"
PrefixHighest(k) ==
  /\ result[k] = "ok"
  /\ \A e \in (k + 1) .. Events : result[e] # "ok"

\* k is the end of the contiguous completed prefix: neither an item that is not
\* done nor one that failed is passed.
Prefix(k) ==
  /\ \A e \in (base + 1) .. k : result[e] = "ok"
  /\ k < Events => result[k + 1] # "ok"

\* Advance, under the ring's mutex; the last non-zero position of what it
\* consumed is reported.  A poke, the ticker or Close wakes the loop.
Advance ==
  /\ npc \in {"wait", "last"}
  /\ \E k \in (base + 1) .. Events :
       /\ Prefix(k) /\ base' = k
       /\ \/ /\ \A e \in (base + 1) .. k : Pos[e] = 0
             /\ UNCHANGED <<npc, notePos>>
          \/ \E e \in (base + 1) .. k :
               /\ Pos[e] # 0 /\ \A f \in (e + 1) .. k : Pos[f] = 0
               /\ notePos' = Pos[e]
               /\ npc' = IF npc = "wait" THEN "report" ELSE "lastReport"
  /\ UNCHANGED <<emitVars, queue, workVars, result, reported, stop, owed>>

\* The runner's notifier keeps the highest position.
Report ==
  /\ npc \in {"report", "lastReport"}
  /\ reported' = IF notePos > reported THEN notePos ELSE reported
  /\ npc' = IF npc = "report" THEN "wait" ELSE "last"
  /\ UNCHANGED <<emitVars, queue, workVars, result, base, notePos, stop, owed>>

\* Altered form: the last drainPrefix waits for every claimed ordinal.
NotifyStopAfterAll ==
  /\ stop
  /\ \/ npc = "wait" /\ npc' = "last"
     \/ npc = "last" /\ npc' = "done" /\ base = next
  /\ UNCHANGED <<emitVars, queue, workVars, result, base, notePos, reported, stop, owed>>

\* After Close: one last drainPrefix, then the loop returns.
NotifyStop ==
  /\ stop
  /\ \/ npc = "wait" /\ npc' = "last"
     \/ npc = "last" /\ npc' = "done" /\ ~\E k \in (base + 1) .. Events : Prefix(k)
  /\ UNCHANGED <<emitVars, queue, workVars, result, base, notePos, reported, stop, owed>>

\* Close may be called while the emit loop still runs: the application returns
\* on a cancelled context, and closes the sink, without waiting for the session.
Close ==
  /\ ~stop /\ stop' = TRUE
  /\ owed' = 1 .. (IF epc \in {"put", "aborted"} THEN next - 1 ELSE next)
  /\ UNCHANGED <<emitVars, queue, workVars, result, notifyVars>>

Closed == stop /\ npc = "done" /\ \A w \in Workers : wpc[w] = "done"

-----------------------------------------------------------------------------
Worker(w) ==
  \/ WorkerTake(w) \/ FlushPartial(w) \/ WriteOk(w) \/ WriteFail(w)
  \/ Settle(w) \/ WorkerStop(w)

Emit == EmitClaim \/ EmitPut \/ EmitAbort
NotifyLoop == Advance \/ Report \/ NotifyStop

Next == Emit \/ NotifyLoop \/ Close \/ \E w \in Workers : Worker(w)

Spec == Init /\ [][Next]_vars

Fairness ==
  /\ WF_vars(EmitClaim) /\ WF_vars(EmitPut) /\ WF_vars(NotifyLoop)
  /\ \A w \in Workers : WF_vars(Worker(w))

FairSpec == Spec /\ Fairness

-----------------------------------------------------------------------------
Range(s) == {s[i] : i \in 1 .. Len(s)}

\* Every variable stays in its range; the ring never passes a claimed ordinal.
TypeOK ==
  /\ epc \in {"idle", "put", "failed", "aborted"} /\ next \in 0 .. Events
  /\ queue \in [Queues -> Seq(1 .. Events)] /\ batch \in [Workers -> Seq(1 .. Events)]
  /\ wpc \in [Workers -> {"take", "flush", "settle", "lastFlush", "lastSettle", "done"}]
  /\ wok \in [Workers -> BOOLEAN] /\ err \in BOOLEAN /\ stop \in BOOLEAN
  /\ topic \in Seq(1 .. Events) /\ written \subseteq 1 .. next
  /\ result \in [1 .. Events -> {"none", "ok", "err"}]
  /\ base \in 0 .. next /\ notePos \in Nat /\ reported \in Nat
  /\ npc \in {"wait", "report", "last", "lastReport", "done"}
  /\ owed \subseteq 1 .. next

\* A reported position is the position of an event whose whole prefix, in the
\* order Emit accepted it, has been acknowledged by the broker: a batch that is
\* late on another worker, failed, or abandoned holds the checkpoint back.
ReportHonest ==
  reported # 0 =>
    \E k \in 1 .. next : Pos[k] = reported /\ 1 .. k \subseteq written

\* What notifyLoop has consumed from the ring, or is about to report, is
\* acknowledged; so is every item the ring holds as done without an error.
RingInv ==
  /\ 1 .. base \subseteq written
  /\ \A e \in 1 .. Events : result[e] = "ok" => e \in written
  /\ \A w \in Workers : wpc[w] \in {"settle", "lastSettle"} =>
       IF wok[w] THEN Range(batch[w]) \subseteq written ELSE err
  /\ npc \in {"report", "lastReport"} => \E k \in 1 .. base : Pos[k] = notePos

\* Events whose Emit has returned nil; after Close only those it owes.
Accepted ==
  IF stop THEN owed ELSE 1 .. (IF epc \in {"put", "aborted"} THEN next - 1 ELSE next)

\* An accepted event is acknowledged, failed, or still in a queue or a batch;
\* a worker that is leaving has left nothing owed behind in its queue.
DrainInv ==
  /\ \A q \in Queues : Range(queue[q]) \subseteq 1 .. next
  /\ \A w \in Workers : Range(batch[w]) \subseteq 1 .. next
  /\ epc \in {"put", "aborted"} => next >= 1 /\ next \notin owed
  /\ \A w \in Workers : wpc[w] \in {"flush", "settle", "lastFlush", "lastSettle"}
                          => batch[w] # <<>>
  /\ \A w \in Workers : wpc[w] = "done" => batch[w] = <<>>
  /\ \A w \in Workers : wpc[w] \in {"lastFlush", "lastSettle", "done"} =>
       stop /\ Range(queue[w[1]]) \cap owed = {}
  /\ \A e \in Accepted :
       \/ e \in written \/ err
       \/ \E q \in Queues : e \in Range(queue[q])
       \/ \E w \in Workers : e \in Range(batch[w])

\* The inductive invariant behind the theorems of KafkaProofs.
SinkInv == TypeOK /\ RingInv /\ ReportHonest /\ DrainInv

\* The sink keeps the contract the runner relies on for its checkpoint
\* (replica.AsyncSink): ordinals claimed by Emit are the accepted events, the
\* acknowledged ones the durable events.
Contract == INSTANCE AsyncSink WITH accepted <- next, durable <- written
KeepsContract == Contract!Spec

\* However the writer spreads the messages, the events of one key that are on the
\* same partition stand there in the order Emit accepted them: the comment on
\* KafkaSink, "Ordering per partition is preserved because each partition has
\* dedicated ordered workers".  It does not say that a key has one partition.
PartitionOrder ==
  \A to \in [1 .. Events -> Partitions] : \A i, j \in 1 .. Len(topic) :
    /\ i < j
    /\ to[topic[i]] = to[topic[j]] /\ Key[topic[i]] = Key[topic[j]]
    => topic[i] < topic[j]

\* What makes it inductive when one goroutine serves each queue: the events of a
\* queue stand in the order of their ordinals in the topic, then in the worker's
\* batch (which is in the topic already while it is being settled), then in the
\* queue, then in Emit's hand.
Routed(q) == {e \in 1 .. Events : QueueFor(e) = q}
Rising(s) == \A i, j \in 1 .. Len(s) : i < j => s[i] < s[j]
Before(S, T) == \A e \in S, f \in T : e < f

Produced(q) == Range(topic) \cap Routed(q)
Lane(w) ==
  /\ Rising(queue[w[1]]) /\ Rising(batch[w])
  /\ Range(queue[w[1]]) \subseteq Routed(w[1]) /\ Range(batch[w]) \subseteq Routed(w[1])
  /\ Before(Produced(w[1]), Range(queue[w[1]])) /\ Before(Range(batch[w]), Range(queue[w[1]]))
  /\ wpc[w] \in {"take", "flush", "lastFlush"} => Before(Produced(w[1]), Range(batch[w]))
  /\ epc = "put" => Before(Range(queue[w[1]]) \cup Range(batch[w]) \cup Produced(w[1]), {next})

OrderInv ==
  /\ \A i, j \in 1 .. Len(topic) :
       i < j /\ QueueFor(topic[i]) = QueueFor(topic[j]) => topic[i] < topic[j]
  /\ Range(topic) \subseteq 1 .. next
  /\ \A w \in Workers : Lane(w)

\* Once Close has returned, what Emit had accepted before Close was called has
\* been acknowledged, unless a produce failed.
CloseFlushes == Closed /\ ~err => owed \subseteq written

\* While no produce fails and no Emit is cancelled every event is reported,
\* although workers finish their batches in any order, unless the sink is closed
\* first.
AllReported ==
  [](~err /\ epc # "aborted") =>
    <>(stop \/ \A e \in 1 .. Events : Pos[e] <= reported)

\* Close returns: workers and notifyLoop all see it and leave, even when batches
\* fail and the emit loop keeps calling Emit.
CloseReturns == stop ~> Closed

=============================================================================
