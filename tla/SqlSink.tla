------------------------------ MODULE SqlSink ------------------------------
(***************************************************************************)
(* The SQL sink (internal/sqlsink/sink.go): Emit queues a row and waits    *)
(* until the group it was committed with is durable; the committer and     *)
(* Close take the queue, coalesce it and commit it in one transaction.     *)
(* One goroutine emits, the runner's emit loop.  Its context ends when the *)
(* process is told to stop or the snapshot has failed; the function that   *)
(* owns the sink then closes it without waiting for the emit loop.         *)
(***************************************************************************)
EXTENDS SqlMapping

CONSTANT SqlFaults  \* subset of {"commit"}

ASSUME SqlAssumption == SqlFaults \subseteq {"commit"}

VARIABLES
  epc,      \* the emit loop: idle, waiting (in Emit), failed, ended
  who,      \* the number of the current Emit
  queue,    \* rows waiting, [row, who]
  taken,    \* the batch each flusher commits: loop, close
  done,     \* answers in Done channels: Emit -> BOOLEAN (committed)
  table,    \* the target database
  acked,    \* events Emit has returned nil for
  spc,      \* the sink: open, flushing (Close called), closed
  ctxDone   \* the emit loop's context has ended

sinkVars == <<epc, who, queue, taken, done, table, acked, spc, ctxDone>>

Flushers == {"loop", "close"}

SinkInit ==
  /\ epc = "idle" /\ who = 0 /\ queue = <<>> /\ taken = [f \in Flushers |-> <<>>]
  /\ done = <<>> /\ table = <<>> /\ acked = 0 /\ spc = "open" /\ ctxDone = FALSE

\* Emit of the event: no row, a row that fails to map, or a row to wait for.
Emit(e) ==
  /\ epc = "idle"
  /\ LET r == RowForEvent(e) IN
     CASE r.kind = "nomatch" -> acked' = acked + 1 /\ UNCHANGED <<epc, who, queue>>
       [] r.kind = "error" \/ spc # "open" -> epc' = "failed" /\ UNCHANGED <<acked, who, queue>>
       [] OTHER -> /\ epc' = "waiting" /\ who' = who + 1 /\ acked' = acked
                   /\ queue' = Append(queue, [row |-> r, who |-> who + 1])
  /\ UNCHANGED <<taken, done, table, spc, ctxDone>>

\* Done answers.
EmitReturns ==
  /\ epc = "waiting" /\ who \in DOMAIN done
  /\ IF done[who] THEN epc' = "idle" /\ acked' = acked + 1
                  ELSE epc' = "failed" /\ acked' = acked
  /\ done' = <<>> /\ UNCHANGED <<who, queue, taken, table, spc, ctxDone>>

\* ctx.Done is chosen: Emit returns an error and its row stays where it is, in the
\* queue, with a flusher, or committed.
EmitCancelled ==
  /\ epc = "waiting" /\ ctxDone /\ epc' = "failed"
  /\ UNCHANGED <<who, queue, taken, done, table, acked, spc, ctxDone>>

\* The emit loop sees the end of its context between two events.
EmitLoopEnds ==
  /\ epc = "idle" /\ ctxDone /\ epc' = "ended"
  /\ UNCHANGED <<who, queue, taken, done, table, acked, spc, ctxDone>>

Cancel ==
  /\ ~ctxDone /\ ctxDone' = TRUE
  /\ UNCHANGED <<epc, who, queue, taken, done, table, acked, spc>>

\* flushBatch takes the queue.
FlushTake(f) ==
  /\ taken[f] = <<>> /\ queue # <<>>
  /\ IF f = "loop" THEN spc # "closed" ELSE spc = "flushing"
  /\ taken' = [taken EXCEPT ![f] = Coalesce(queue)] /\ queue' = <<>>
  /\ UNCHANGED <<epc, who, done, table, acked, spc, ctxDone>>

\* Every row of the batch is answered with the outcome of the transaction.
Answers(f, ok) == [w \in {taken[f][i].who : i \in DOMAIN taken[f]} |-> ok] @@ done

commit(f) ==
  /\ taken[f] # <<>> /\ taken' = [taken EXCEPT ![f] = <<>>]
  /\ \/ /\ table' = FoldLeft(LAMBDA t, p : execRow(t, p.row), table, taken[f])
        /\ done' = Answers(f, TRUE)
     \/ /\ "commit" \in SqlFaults /\ table' = table /\ done' = Answers(f, FALSE)
  /\ UNCHANGED <<epc, who, queue, acked, spc, ctxDone>>

\* Close: no more rows, what is queued is flushed, then the committer is waited for.
\* An Emit may still be waiting.
CloseBegin ==
  /\ spc = "open" /\ spc' = "flushing"
  /\ UNCHANGED <<epc, who, queue, taken, done, table, acked, ctxDone>>

CloseEnd ==
  /\ spc = "flushing" /\ queue = <<>> /\ \A f \in Flushers : taken[f] = <<>>
  /\ spc' = "closed"
  /\ UNCHANGED <<epc, who, queue, taken, done, table, acked, ctxDone>>

SinkStep ==
  \/ EmitReturns \/ EmitCancelled \/ EmitLoopEnds \/ CloseEnd
  \/ \E f \in Flushers : FlushTake(f) \/ commit(f)

=============================================================================
