------------------------------ MODULE DorisSink ------------------------------
(***************************************************************************)
(* The Doris sink (internal/dorissink): Emit takes a slot of the bounded   *)
(* room channel and queues a row; commitLoop, and Close on its own         *)
(* goroutine, take the whole queue as a batch, load it table by table and  *)
(* report the batch's highest position.                                    *)
(*                                                                         *)
(* Rows are numbered in the order Emit queues them; heartbeats and events  *)
(* no rule matches return from Emit without a row and are not events here. *)
(***************************************************************************)
EXTENDS Integers, Sequences, FiniteSets

CONSTANTS
  Events,        \* number of rows offered to Emit
  Pos,           \* position each row's event carries
  Table,         \* the group (table and shape) each row is loaded with
  MaxQueueRows,
  Closing,       \* whether Close is called
  Faults         \* subset of {"load", "cancel"}

ASSUME EventsAssumption ==
  Events \in Nat /\ Pos \in [1 .. Events -> Nat] /\ Table \in [1 .. Events -> Nat]
ASSUME RoomAssumption == MaxQueueRows \in Nat \ {0} /\ Closing \in BOOLEAN

Flushers == {"loop", "close"}

VARIABLES
  epc,       \* the emit loop: idle, locked (holds a slot), giveback, failed
  next,      \* rows queued so far
  room,      \* slots taken
  queue,
  fpc, batch, todo,  \* each flusher's place, batch and groups still to load
  durable,   \* rows a stream load has committed
  reported, termErr,
  cpc,       \* Close: open, drain, wait, closed
  cancelled  \* cctx

flushVars == <<fpc, batch, todo>>
vars == <<epc, next, room, queue, flushVars, durable, reported, termErr, cpc, cancelled>>

Rows(s) == {s[i] : i \in 1 .. Len(s)}

Init ==
  /\ epc = "idle" /\ next = 0 /\ room = 0 /\ queue = <<>>
  /\ fpc = [f \in Flushers |-> "idle"] /\ batch = [f \in Flushers |-> <<>>]
  /\ todo = [f \in Flushers |-> {}]
  /\ durable = {} /\ reported = 0 /\ termErr = FALSE
  /\ cpc = "open" /\ cancelled = FALSE

-----------------------------------------------------------------------------
(* Emit *)

\* Altered form: Emit never waits for room.
EmitRoomUnbounded ==
  /\ epc = "idle" /\ next < Events
  /\ room' = room + 1 /\ epc' = "locked"
  /\ UNCHANGED <<next, queue, flushVars, durable, reported, termErr, cpc, cancelled>>

EmitRoom ==
  /\ epc = "idle" /\ next < Events /\ room < MaxQueueRows
  /\ room' = room + 1 /\ epc' = "locked"
  /\ UNCHANGED <<next, queue, flushVars, durable, reported, termErr, cpc, cancelled>>

\* A row that cannot be mapped, or a caller cancelled while it waits for room.
EmitAbort ==
  /\ epc = "idle" /\ next < Events /\ "cancel" \in Faults
  /\ epc' = "failed"
  /\ UNCHANGED <<next, room, queue, flushVars, durable, reported, termErr, cpc, cancelled>>

\* Under mu: a closed or failed sink refuses the row, otherwise it is queued.
EmitQueue ==
  /\ epc = "locked"
  /\ IF cpc # "open" \/ termErr
     THEN epc' = "giveback" /\ UNCHANGED <<next, queue>>
     ELSE epc' = "idle" /\ next' = next + 1 /\ queue' = Append(queue, next + 1)
  /\ UNCHANGED <<room, flushVars, durable, reported, termErr, cpc, cancelled>>

\* A refused Emit receives its slot back; it blocks when there is none.
EmitGiveBack ==
  /\ epc = "giveback" /\ room > 0
  /\ room' = room - 1 /\ epc' = "failed"
  /\ UNCHANGED <<next, queue, flushVars, durable, reported, termErr, cpc, cancelled>>

-----------------------------------------------------------------------------
(* flush, by commitLoop (until cctx is cancelled) and by Close *)

FlushTake(f) ==
  /\ fpc[f] = "idle" /\ queue # <<>> /\ (f = "close" => cpc = "drain")
  /\ batch' = [batch EXCEPT ![f] = queue] /\ queue' = <<>>
  /\ fpc' = [fpc EXCEPT ![f] = "room"]
  /\ UNCHANGED <<epc, next, room, todo, durable, reported, termErr, cpc, cancelled>>

\* Altered form: the slots of the rows that were taken are not freed.
FlushRoomKeeps(f) ==
  /\ fpc[f] = "room"
  /\ fpc' = [fpc EXCEPT ![f] = "load"]
  /\ todo' = [todo EXCEPT ![f] = {Table[e] : e \in Rows(batch[f])}]
  /\ UNCHANGED <<epc, next, room, queue, batch, durable, reported, termErr, cpc, cancelled>>

\* A slot is received for each row of the batch; a receive that would block is
\* skipped.
FlushRoom(f) ==
  /\ fpc[f] = "room"
  /\ room' = IF room >= Len(batch[f]) THEN room - Len(batch[f]) ELSE 0
  /\ fpc' = [fpc EXCEPT ![f] = "load"]
  /\ todo' = [todo EXCEPT ![f] = {Table[e] : e \in Rows(batch[f])}]
  /\ UNCHANGED <<epc, next, queue, batch, durable, reported, termErr, cpc, cancelled>>

\* Altered form: the position is reported after the batch's first load.
LoadOkReports(f) ==
  /\ fpc[f] = "load"
  /\ \E t \in todo[f] :
       /\ \A u \in todo[f] : t <= u
       /\ durable' = durable \cup {e \in Rows(batch[f]) : Table[e] = t}
       /\ todo' = [todo EXCEPT ![f] = @ \ {t}]
  /\ fpc' = [fpc EXCEPT ![f] = "report"]
  /\ UNCHANGED <<epc, next, room, queue, batch, reported, termErr, cpc, cancelled>>

\* One stream load per group, in the groups' order.
LoadOk(f) ==
  /\ fpc[f] = "load"
  /\ \E t \in todo[f] :
       /\ \A u \in todo[f] : t <= u
       /\ durable' = durable \cup {e \in Rows(batch[f]) : Table[e] = t}
       /\ todo' = [todo EXCEPT ![f] = @ \ {t}]
  /\ fpc' = [fpc EXCEPT ![f] = IF todo'[f] = {} THEN "report" ELSE "load"]
  /\ UNCHANGED <<epc, next, room, queue, batch, reported, termErr, cpc, cancelled>>

\* A load fails, or its context is cancelled: the rest of the batch is dropped.
\* The cluster may have committed the group although its answer is lost.
LoadFail(f) ==
  /\ fpc[f] = "load" /\ ("load" \in Faults \/ cancelled)
  /\ \E t \in todo[f] :
       /\ \A u \in todo[f] : t <= u
       /\ durable' \in {durable, durable \cup {e \in Rows(batch[f]) : Table[e] = t}}
  /\ termErr' = TRUE
  /\ fpc' = [fpc EXCEPT ![f] = "idle"] /\ batch' = [batch EXCEPT ![f] = <<>>]
  /\ todo' = [todo EXCEPT ![f] = {}]
  /\ UNCHANGED <<epc, next, room, queue, reported, cpc, cancelled>>

\* The whole batch is loaded: its highest position, unless it is zero, goes to
\* the notifier, which keeps the highest it was given and returns an error once
\* its caller is cancelled.
FlushReport(f) ==
  /\ fpc[f] = "report"
  /\ \E e \in Rows(batch[f]) :
       /\ \A d \in Rows(batch[f]) : Pos[d] <= Pos[e]
       /\ reported' = IF Pos[e] > reported THEN Pos[e] ELSE reported
       /\ termErr' \in {termErr} \cup {b \in {TRUE} : "cancel" \in Faults /\ Pos[e] > 0}
  /\ fpc' = [fpc EXCEPT ![f] = "idle"] /\ batch' = [batch EXCEPT ![f] = <<>>]
  /\ UNCHANGED <<epc, next, room, queue, todo, durable, cpc, cancelled>>

LoopExit ==
  /\ cancelled /\ fpc["loop"] = "idle"
  /\ fpc' = [fpc EXCEPT !["loop"] = "done"]
  /\ UNCHANGED <<epc, next, room, queue, batch, todo, durable, reported, termErr,
                 cpc, cancelled>>

-----------------------------------------------------------------------------
(* Close *)

CloseBegin ==
  /\ Closing /\ cpc = "open" /\ cpc' = "drain"
  /\ UNCHANGED <<epc, next, room, queue, flushVars, durable, reported, termErr, cancelled>>

\* Altered form: cctx is cancelled by the signal handler only.
CloseCancelNever ==
  /\ cpc = "drain" /\ queue = <<>> /\ fpc["close"] = "idle"
  /\ cpc' = "wait"
  /\ UNCHANGED <<epc, next, room, queue, flushVars, durable, reported, termErr, cancelled>>

\* The queue is empty; commitLoop may still be loading a batch.
CloseCancel ==
  /\ cpc = "drain" /\ queue = <<>> /\ fpc["close"] = "idle"
  /\ cpc' = "wait" /\ cancelled' = TRUE
  /\ UNCHANGED <<epc, next, room, queue, flushVars, durable, reported, termErr>>

CloseReturn ==
  /\ cpc = "wait" /\ fpc["loop"] = "done" /\ cpc' = "closed"
  /\ UNCHANGED <<epc, next, room, queue, flushVars, durable, reported, termErr, cancelled>>

-----------------------------------------------------------------------------
Emit == EmitRoom \/ EmitAbort \/ EmitQueue \/ EmitGiveBack
Flush(f) == FlushTake(f) \/ FlushRoom(f) \/ LoadOk(f) \/ LoadFail(f) \/ FlushReport(f)
Close == CloseBegin \/ CloseCancel \/ CloseReturn

Next == Emit \/ Close \/ LoopExit \/ \E f \in Flushers : Flush(f)

Spec == Init /\ [][Next]_vars

Fairness ==
  /\ WF_vars(EmitRoom) /\ WF_vars(EmitQueue \/ EmitGiveBack)
  /\ \A f \in Flushers : WF_vars(Flush(f))
  /\ WF_vars(LoopExit) /\ WF_vars(CloseCancel) /\ WF_vars(CloseReturn)

FairSpec == Spec /\ Fairness

-----------------------------------------------------------------------------
\* Every variable stays in its range; the queue never exceeds its bound, so
\* memory stays bounded (the comment on Emit's backpressure).
TypeOK ==
  /\ epc \in {"idle", "locked", "giveback", "failed"} /\ next \in 0 .. Events
  /\ room \in 0 .. MaxQueueRows /\ queue \in Seq(1 .. Events) /\ Len(queue) <= MaxQueueRows
  /\ fpc \in [Flushers -> {"idle", "room", "load", "report", "done"}]
  /\ batch \in [Flushers -> Seq(1 .. Events)] /\ todo \in [Flushers -> SUBSET Nat]
  /\ durable \subseteq 1 .. next
  /\ reported \in Nat /\ termErr \in BOOLEAN /\ cancelled \in BOOLEAN
  /\ cpc \in {"open", "drain", "wait", "closed"}

\* Slots of the row Emit holds, and of rows a flusher took but has not freed.
InHand   == IF epc \in {"locked", "giveback"} THEN 1 ELSE 0
Taken(f) == IF fpc[f] = "room" THEN Len(batch[f]) ELSE 0

\* A slot is taken for each row in the queue, each row a flusher has taken but
\* not yet freed, and the row Emit is about to queue or to refuse: slots never
\* leak, a refused Emit always finds its slot, and flush frees all it owes.
RoomExact == room = Len(queue) + InHand + Taken("loop") + Taken("close")

\* What makes both inductive: only rows that were queued are taken or loaded,
\* and Emit holds a slot only for a row it may still queue.
RowInv ==
  /\ epc = "locked" => next < Events
  /\ Rows(queue) \subseteq 1 .. next
  /\ \A f \in Flushers : Rows(batch[f]) \subseteq 1 .. next

\* A batch has failed, or Close flushes beside commitLoop: from here on reports
\* may pass rows that are not committed (see ReportHonest).
Spoiled == termErr \/ cpc # "open"

\* Until then the sink keeps the contract the runner relies on for its
\* checkpoint (replica.AsyncSink): a position is reported only when its row and
\* all rows before it are committed.
Contract == INSTANCE AsyncSink WITH accepted <- next
KeepsContract == Contract!Init /\ [][Spoiled' \/ Contract!Next]_(Contract!vars)

\* What the contract rests on: until then commitLoop alone flushes, and the rows
\* are, in the order Emit queued them, those of earlier batches, all committed, the
\* batch in hand, committed but for the groups still to load, and the queue.
Unqueued == next - Len(queue)
Settled  == Unqueued - Len(batch["loop"])
InOrder ==
  /\ fpc["close"] = "idle" /\ Settled >= 0
  /\ \A i \in 1 .. Len(queue) : queue[i] = Unqueued + i
  /\ \A i \in 1 .. Len(batch["loop"]) : batch["loop"][i] = Settled + i
  /\ 1 .. Settled \subseteq durable
  /\ fpc["loop"] \in {"idle", "done"} => batch["loop"] = <<>>
  /\ fpc["loop"] \in {"load", "report"} =>
       \A e \in Rows(batch["loop"]) : e \in durable \/ Table[e] \in todo["loop"]
  /\ fpc["loop"] = "report" => todo["loop"] = {}
CommitInv == ~Spoiled => InOrder

\* A reported position has every earlier row committed, as the comment on Sink
\* says: "nothing after the failed point is acknowledged".
ReportHonest ==
  \A e \in 1 .. next : Pos[e] < reported => e \in durable

\* Close returns, although Emit, commitLoop and failing loads go on beside it.
CloseReturns == cpc = "drain" ~> cpc = "closed"

\* While nothing fails and the sink is open every row is committed and reported:
\* slots freed by flush let a blocked Emit go on.
AllReported ==
  [](~Spoiled /\ epc # "failed") =>
    <>[](next = Events /\ \A e \in 1 .. Events : e \in durable /\ Pos[e] <= reported)

=============================================================================
