------------------------------- MODULE Runner -------------------------------
(***************************************************************************)
(* One replication session of internal/replica: the receive loop (Run and  *)
(* consume), the gate, the emit loop, and the application goroutine that   *)
(* injects the dump and releases the backlog.                              *)
(*                                                                         *)
(* A binlog position is a number: entry p ENDS at p (the "PB-end" space of *)
(* gate, ack and lastPos) and STARTS at p - 1 (the event's own position).  *)
(* 0 is the zero Offset.  The session starts at Start, so the master sends *)
(* the entries Start+1 .. LastEntry in this order.                         *)
(*                                                                         *)
(* The two queues are append-only sequences with a read cursor: emitCh     *)
(* holds sent[taken+1..], the backlog holds backlog[drainedC+1..] and the  *)
(* records Release took but has not pushed are backlog[flushed+1..drainedC].*)
(***************************************************************************)
EXTENDS Integers, Sequences, FiniteSets

CONSTANTS
  Gated,       \* TRUE: snapshot handoff (a gate is attached); FALSE: pure tail
  Async,       \* TRUE: the sink is an AsyncSink and owns the checkpoint
  Start,       \* session start position
  Anchor,      \* H, the bgsave position of the dump (= Start when not Gated)
  LastEntry,   \* last entry the master has
  Bad,         \* entries that cannot be decoded
  DumpEvents,  \* number of snapshot events the dump yields
  EmitCap,     \* capacity of emitCh
  Batch,       \* records one buf.next returns at most
  High,        \* records at which the backlog blocks its writer
  StallEpsilon,\* lag the stall probe tolerates
  MaxPings,    \* bound on the heartbeats of a behaviour
  Faults       \* which of the faults below the environment may inject

FaultKinds ==
  {"connect", "conn", "stall", "sink", "fetch", "disk", "cancel", "stuck"}

ASSUME ModeAssumption == Gated \in BOOLEAN /\ Async \in BOOLEAN
ASSUME PositionAssumption ==
  /\ Start \in Nat \ {0} /\ Anchor \in Nat /\ LastEntry \in Nat
  /\ Start <= Anchor /\ Anchor <= LastEntry
  /\ ~Gated => Anchor = Start
ASSUME BadAssumption == Bad \subseteq (Start + 1) .. LastEntry
ASSUME BoundAssumption ==
  /\ DumpEvents \in Nat /\ MaxPings \in Nat /\ StallEpsilon \in Nat
  /\ EmitCap \in Nat \ {0} /\ Batch \in Nat \ {0} /\ High \in Nat \ {0, 1}
ASSUME FaultAssumption == Faults \subseteq FaultKinds

VARIABLES
  \* goroutines
  rpc,          \* Run: where the receive goroutine is
  epc,          \* emitLoop
  apc,          \* the application: WaitReady, RequestOpenAt, Inject, Release
  ctxDone,      \* the context of the session is cancelled
  ready,        \* r.ready is closed
  \* the receive loop
  recvd,        \* last entry read from the connection
  lastPos, firstUnacked, aheadStreak,
  ackedTo,      \* end of the last range acked (history)
  \* the gate and the backlog
  hSet, gateOpen, bufOpen, bufInflight, bufBlocked, backlog, drainedC, flushed,
  \* the emit queue and the sink
  injected, sent, taken, emitted, sinkErr,
  acked,        \* items the sink has made durable: the first acked of sent
  failAt,       \* async sink: index of the item whose delivery failed, or 0
  delivered, stored

recvVars == <<recvd, lastPos, firstUnacked, aheadStreak, ackedTo>>
gateVars == <<hSet, gateOpen>>
bufVars  == <<bufOpen, bufInflight, bufBlocked, backlog, drainedC, flushed>>
sinkVars == <<emitted, sinkErr, acked, failAt, delivered, stored>>
vars == <<rpc, epc, apc, ctxDone, ready, recvVars, gateVars, bufVars,
          injected, sent, taken, sinkVars>>

\* An item of emitCh.  pos is the PB-end of an incremental entry, the ordinal
\* of a snapshot event, the last received position of a heartbeat.
Item(k, p) == [kind |-> k, pos |-> p]

\* The position an event carries (Event.Source), which async sinks report.
SourcePos(it) == CASE it.kind = "inc"  -> it.pos - 1
                   [] it.kind = "snap" -> Anchor
                   [] it.kind = "ping" -> it.pos

Later(p, q) == IF p > q THEN p ELSE q

Room    == Len(sent) - taken < EmitCap
Pending == Len(backlog) - drainedC

\* The watermark of the backlog: engaged at High, released below half of it.
Watermark == Pending >= High \/ (bufBlocked /\ Pending >= High \div 2)

\* What the sink has been handed; the last item may still be inside Emit.
Accepted == IF epc = "emit" THEN taken ELSE emitted

RunDone == rpc = "done"

\* Altered form: the anchor entry itself is no longer dropped.
DropBelowAnchor(p) == hSet /\ p < Anchor

\* gate.go: Drop and ShouldEmitNow
Drop(p)          == hSet /\ ~(p > Anchor)
ShouldEmitNow(p) == gateOpen /\ p > Anchor

Init ==
  /\ rpc = "init" /\ epc = "off" /\ ctxDone = FALSE /\ ready = FALSE
  /\ apc = IF Gated THEN "wait" ELSE "none"
  /\ recvd = Start /\ lastPos = 0 /\ firstUnacked = 0 /\ aheadStreak = 0
  /\ ackedTo = 0
  /\ hSet = FALSE /\ gateOpen = FALSE
  /\ bufOpen = FALSE /\ bufInflight = 0 /\ bufBlocked = FALSE
  /\ backlog = <<>> /\ drainedC = 0 /\ flushed = 0
  /\ injected = 0 /\ sent = <<>> /\ taken = 0 /\ emitted = 0
  /\ sinkErr = FALSE /\ acked = 0 /\ failAt = 0 /\ delivered = 0
  /\ stored \in IF Gated THEN {0} ELSE {0, Start}   \* no checkpoint yet, or Start is it

-----------------------------------------------------------------------------
(* The receive goroutine: Run *)

\* establish succeeds, the first ack [start, start] is sent, emitLoop starts.
Establish ==
  /\ rpc = "init"
  /\ rpc' = "top" /\ epc' = "select" /\ ready' = TRUE /\ ackedTo' = Start
  /\ UNCHANGED <<apc, ctxDone, recvd, lastPos, firstUnacked, aheadStreak,
                 gateVars, bufVars, injected, sent, taken, sinkVars>>

\* No session (refused, purged, unreachable), or the first ack fails after
\* ready was closed; emitLoop was not started.
EstablishFail ==
  /\ rpc = "init" /\ "connect" \in Faults
  /\ rpc' = "return" /\ ready' \in BOOLEAN
  /\ UNCHANGED <<epc, apc, ctxDone, recvVars, gateVars, bufVars, injected,
                 sent, taken, sinkVars>>

\* Top of the loop: stop when the context is cancelled, else block in Recv.
LoopTop ==
  /\ rpc = "top"
  /\ rpc' = IF ctxDone THEN "return" ELSE "recv"
  /\ UNCHANGED <<epc, apc, ctxDone, ready, recvVars, gateVars, bufVars,
                 injected, sent, taken, sinkVars>>

\* Altered form: firstUnacked is not re-armed after the ack.
AckRangeKeepsFrom ==
  /\ ackedTo' = IF firstUnacked = 0 THEN ackedTo ELSE lastPos
  /\ firstUnacked' = firstUnacked

\* maybeAckRange: ack [firstUnacked, lastPos] once; without a new entry the
\* ack is an all-zero ping.
AckRange ==
  /\ ackedTo' = IF firstUnacked = 0 THEN ackedTo ELSE lastPos
  /\ firstUnacked' = 0

\* masterAhead: the master is past the last position this session received.
MasterAhead == lastPos # 0 /\ LastEntry > lastPos + StallEpsilon

\* Recv times out: a heartbeat when the gate is open and the queue has room,
\* then the keepalive and the ack (either may fail), and on some ticks the
\* stall probe, which finds the master ahead or not (or fails).
RecvTimeout ==
  /\ rpc = "recv"
  /\ \E beat \in BOOLEAN :
       /\ beat => /\ Gated /\ gateOpen
                  /\ Room
                  /\ Cardinality({i \in 1 .. Len(sent) : sent[i].kind = "ping"}) < MaxPings
       /\ sent' = IF beat THEN Append(sent, Item("ping", lastPos)) ELSE sent
  /\ \/ /\ AckRange
        /\ \/ rpc' = "top" /\ aheadStreak' \in {aheadStreak, 0}
           \/ /\ "stall" \in Faults /\ MasterAhead
              /\ aheadStreak' = aheadStreak + 1
              /\ rpc' = IF aheadStreak' = 2 THEN "return" ELSE "top"
     \/ /\ "conn" \in Faults
        /\ rpc' = "return" /\ UNCHANGED <<firstUnacked, ackedTo, aheadStreak>>
  /\ UNCHANGED <<epc, apc, ctxDone, ready, recvd, lastPos, gateVars, bufVars,
                 injected, taken, sinkVars>>

\* A read or write on the connection fails.
ConnFail ==
  /\ rpc \in {"recv", "msg"} /\ "conn" \in Faults
  /\ rpc' = "return"
  /\ UNCHANGED <<epc, apc, ctxDone, ready, recvVars, gateVars, bufVars,
                 injected, sent, taken, sinkVars>>

\* A message arrives.  A sink failure is noticed here and only here: the
\* runner's own sinkErr, or the terminal error of an async sink.
RecvMsg ==
  /\ rpc = "recv"
  /\ recvd < LastEntry
  /\ aheadStreak' = 0
  /\ rpc' = IF sinkErr \/ failAt # 0 THEN "return" ELSE "entry"
  /\ UNCHANGED <<epc, apc, ctxDone, ready, recvd, lastPos, firstUnacked,
                 ackedTo, gateVars, bufVars, injected, sent, taken, sinkVars>>

\* The master's keepalive, a message with an empty binlog payload (or entries of
\* another session), or a message of another type, which is not even acked.
RecvKeepalive ==
  /\ rpc = "recv"
  /\ aheadStreak' = 0
  /\ rpc' \in IF sinkErr \/ failAt # 0 THEN {"return"} ELSE {"msg", "top"}
  /\ UNCHANGED <<epc, apc, ctxDone, ready, recvd, lastPos, firstUnacked,
                 ackedTo, gateVars, bufVars, injected, sent, taken, sinkVars>>

\* Altered form: an entry that cannot be decoded ends the message.
ConsumeBadBreaks ==
  /\ rpc = "entry" /\ recvd + 1 \in Bad
  /\ recvd' \in (recvd + 1) .. LastEntry /\ rpc' = "msg"
  /\ UNCHANGED <<epc, apc, ctxDone, ready, lastPos, firstUnacked, aheadStreak,
                 ackedTo, gateVars, bufVars, injected, sent, taken, sinkVars>>

\* consume, first part: the gate decides about the next entry under r.mu.
ConsumeBad ==
  /\ rpc = "entry" /\ recvd + 1 \in Bad
  /\ recvd' = recvd + 1 /\ rpc' = "msg"
  /\ UNCHANGED <<epc, apc, ctxDone, ready, lastPos, firstUnacked, aheadStreak,
                 ackedTo, gateVars, bufVars, injected, sent, taken, sinkVars>>

Consume ==
  /\ rpc = "entry" /\ recvd + 1 \notin Bad
  /\ LET p == recvd + 1 IN
     /\ recvd' = p /\ lastPos' = p
     /\ firstUnacked' = IF firstUnacked = 0 THEN p ELSE firstUnacked
     /\ \/ /\ Gated /\ Drop(p)
           /\ rpc' = "msg" /\ UNCHANGED bufVars
        \/ /\ ~Gated \/ (~Drop(p) /\ ShouldEmitNow(p))
           /\ rpc' = "send" /\ UNCHANGED bufVars
        \/ /\ Gated /\ ~Drop(p) /\ ~ShouldEmitNow(p)
           /\ rpc' = "append" /\ bufOpen' = TRUE
           /\ bufInflight' = bufInflight + 1
           /\ UNCHANGED <<bufBlocked, backlog, drainedC, flushed>>
        \/ /\ Gated /\ ~Drop(p) /\ ~ShouldEmitNow(p)
           /\ ~bufOpen /\ "disk" \in Faults    \* newBufferLocked fails
           /\ rpc' = "return" /\ UNCHANGED bufVars
  /\ UNCHANGED <<epc, apc, ctxDone, ready, aheadStreak, ackedTo, gateVars,
                 injected, sent, taken, sinkVars>>

\* buf.append outside r.mu; it waits while the watermark is engaged.
AppendBlock ==
  /\ rpc = "append" /\ bufOpen /\ Watermark /\ ~bufBlocked
  /\ bufBlocked' = TRUE
  /\ UNCHANGED <<rpc, epc, apc, ctxDone, ready, recvVars, gateVars, bufOpen, bufInflight,
                 backlog, drainedC, flushed, injected, sent, taken, sinkVars>>

AppendEntry ==
  /\ rpc = "append" /\ bufOpen /\ ~Watermark
  /\ backlog' = Append(backlog, recvd) /\ bufBlocked' = FALSE /\ rpc' = "unclaim"
  /\ UNCHANGED <<epc, apc, ctxDone, ready, recvVars, gateVars, bufOpen,
                 bufInflight, drainedC, flushed, injected, sent, taken, sinkVars>>

\* buf.append reports an error: closed buffer, cancellation while waiting, I/O.
AppendFail ==
  /\ rpc = "append"
  /\ ~bufOpen \/ (ctxDone /\ Watermark) \/ "disk" \in Faults
  /\ rpc' = "unclaimErr"
  /\ UNCHANGED <<epc, apc, ctxDone, ready, recvVars, gateVars, bufVars,
                 injected, sent, taken, sinkVars>>

\* Altered form: the claim is not given back.
UnclaimLeaks ==
  /\ rpc \in {"unclaim", "unclaimErr"}
  /\ bufInflight' = bufInflight
  /\ rpc' = IF rpc = "unclaim" THEN "msg" ELSE "return"
  /\ UNCHANGED <<epc, apc, ctxDone, ready, recvVars, gateVars, bufOpen, bufBlocked,
                 backlog, drainedC, flushed, injected, sent, taken, sinkVars>>

Unclaim ==
  /\ rpc \in {"unclaim", "unclaimErr"}
  /\ bufInflight' = bufInflight - 1
  /\ rpc' = IF rpc = "unclaim" THEN "msg" ELSE "return"
  /\ UNCHANGED <<epc, apc, ctxDone, ready, recvVars, gateVars, bufOpen, bufBlocked,
                 backlog, drainedC, flushed, injected, sent, taken, sinkVars>>

\* consume, direct path: select on emitCh and the context (runDone is closed
\* by this goroutine itself and cannot wake it).
SendEntry ==
  /\ rpc = "send" /\ Room
  /\ sent' = Append(sent, Item("inc", recvd)) /\ rpc' = "msg"
  /\ UNCHANGED <<epc, apc, ctxDone, ready, recvVars, gateVars, bufVars,
                 injected, taken, sinkVars>>

\* Altered form: a cancelled context does not wake the blocked sender.
SendAbortNever == rpc = "send" /\ FALSE /\ UNCHANGED vars

SendAbort ==
  /\ rpc = "send" /\ ctxDone
  /\ rpc' = "return"
  /\ UNCHANGED <<epc, apc, ctxDone, ready, recvVars, gateVars, bufVars,
                 injected, sent, taken, sinkVars>>

\* After an entry: the message holds another one, or it is acked.
NextEntry ==
  /\ rpc = "msg" /\ recvd < LastEntry
  /\ rpc' = "entry"
  /\ UNCHANGED <<epc, apc, ctxDone, ready, recvVars, gateVars, bufVars,
                 injected, sent, taken, sinkVars>>

AckMsg ==
  /\ rpc = "msg"
  /\ AckRange /\ rpc' = "top"
  /\ UNCHANGED <<epc, apc, ctxDone, ready, recvd, lastPos, aheadStreak,
                 gateVars, bufVars, injected, sent, taken, sinkVars>>

\* Run's deferred calls, last first: wait for emitLoop, then close runDone.
RunReturn ==
  /\ rpc = "return" /\ epc \in {"off", "done"}
  /\ rpc' = "done"
  /\ UNCHANGED <<epc, apc, ctxDone, ready, recvVars, gateVars, bufVars,
                 injected, sent, taken, sinkVars>>

-----------------------------------------------------------------------------
(* emitLoop and the sink *)

EmitTake ==
  /\ epc = "select" /\ taken < Len(sent)
  /\ taken' = taken + 1 /\ epc' = "emit"
  /\ UNCHANGED <<rpc, apc, ctxDone, ready, recvVars, gateVars, bufVars,
                 injected, sent, sinkVars>>

\* Sink.Emit succeeds, then markEmitted: a sync sink has made the event
\* durable and the position of an incremental event is the new checkpoint.
EmitOk ==
  /\ epc = "emit" /\ failAt = 0
  /\ epc' = "select" /\ emitted' = taken
  /\ IF Async THEN UNCHANGED <<acked, delivered, stored>>
     ELSE /\ acked' = taken
          /\ IF sent[taken].kind = "inc"
             THEN /\ delivered' = sent[taken].pos
                  /\ stored' = Later(stored, sent[taken].pos)
             ELSE UNCHANGED <<delivered, stored>>
  /\ UNCHANGED <<rpc, apc, ctxDone, ready, recvVars, gateVars, bufVars,
                 injected, sent, taken, sinkErr, failAt>>

\* Sink.Emit fails (or gives up because the context is cancelled).
EmitErr ==
  /\ epc = "emit"
  /\ ctxDone \/ failAt # 0 \/ (~Async /\ "sink" \in Faults)
  /\ sinkErr' = TRUE /\ epc' = "done"
  /\ UNCHANGED <<rpc, apc, ctxDone, ready, recvVars, gateVars, bufVars,
                 injected, sent, taken, emitted, acked, failAt, delivered, stored>>

EmitStop ==
  /\ epc = "select" /\ ctxDone
  /\ epc' = "done"
  /\ UNCHANGED <<rpc, apc, ctxDone, ready, recvVars, gateVars, bufVars,
                 injected, sent, taken, sinkVars>>

\* Altered form: the position of the last accepted event is reported, durable
\* or not.
NotifyAccepted ==
  /\ Async
  /\ \E k \in (acked + 1) .. (IF failAt = 0 THEN Accepted ELSE failAt - 1) :
       LET pos == SourcePos(sent[Accepted]) IN
       /\ acked' = k
       /\ delivered' = Later(delivered, pos)
       /\ stored' = IF pos > delivered THEN Later(stored, pos) ELSE stored
  /\ UNCHANGED <<rpc, epc, apc, ctxDone, ready, recvVars, gateVars, bufVars,
                 injected, sent, taken, emitted, sinkErr, failAt>>

\* An async sink reports a longer durable prefix through the notifier.
Notify ==
  /\ Async
  /\ \E k \in (acked + 1) .. (IF failAt = 0 THEN Accepted ELSE failAt - 1) :
       LET pos == SourcePos(sent[k]) IN
       /\ acked' = k
       /\ delivered' = Later(delivered, pos)
       /\ stored' = IF pos > delivered THEN Later(stored, pos) ELSE stored
  /\ UNCHANGED <<rpc, epc, apc, ctxDone, ready, recvVars, gateVars, bufVars,
                 injected, sent, taken, emitted, sinkErr, failAt>>

\* An async sink fails to deliver one of the items it accepted.
AsyncFail ==
  /\ Async /\ "sink" \in Faults /\ failAt = 0
  /\ failAt' \in (acked + 1) .. Accepted
  /\ UNCHANGED <<rpc, epc, apc, ctxDone, ready, recvVars, gateVars, bufVars,
                 injected, sent, taken, emitted, sinkErr, acked, delivered, stored>>

-----------------------------------------------------------------------------
(* The application goroutine: startSession, emitDumpAndRelease, Release *)

\* WaitReady
AppReady ==
  /\ apc = "wait" /\ ready
  /\ apc' = "anchor"
  /\ UNCHANGED <<rpc, epc, ctxDone, ready, recvVars, gateVars, bufVars,
                 injected, sent, taken, sinkVars>>

\* SetDelivered(anchor) on a reset store, then RequestOpenAt(anchor).
AppAnchor ==
  /\ apc = "anchor"
  /\ apc' = "inject" /\ hSet' = TRUE /\ stored' = Later(stored, Anchor)
  /\ UNCHANGED <<rpc, epc, ctxDone, ready, recvVars, gateOpen, bufVars,
                 injected, sent, taken, emitted, sinkErr, acked, failAt, delivered>>

Inject ==
  /\ apc = "inject" /\ injected < DumpEvents /\ Room
  /\ injected' = injected + 1 /\ sent' = Append(sent, Item("snap", injected'))
  /\ UNCHANGED <<rpc, epc, apc, ctxDone, ready, recvVars, gateVars, bufVars,
                 taken, sinkVars>>

InjectDone ==
  /\ apc = "inject" /\ injected = DumpEvents
  /\ apc' = "check"
  /\ UNCHANGED <<rpc, epc, ctxDone, ready, recvVars, gateVars, bufVars,
                 injected, sent, taken, sinkVars>>

\* Altered forms of ReleaseCheck: the gate opens before the backlog is drained;
\* an append in flight is ignored; the gate is not opened at all.
ReleaseCheckFirst ==
  /\ apc = "check"
  /\ gateOpen' = TRUE
  /\ apc' = IF Pending <= 0 /\ bufInflight = 0 THEN "discard" ELSE "next"
  /\ UNCHANGED <<rpc, epc, ctxDone, ready, recvVars, hSet, bufVars, injected,
                 sent, taken, sinkVars>>

ReleaseCheckNoClaim ==
  /\ apc = "check"
  /\ IF Pending <= 0
     THEN gateOpen' = TRUE /\ apc' = "discard"
     ELSE gateOpen' = gateOpen /\ apc' = "next"
  /\ UNCHANGED <<rpc, epc, ctxDone, ready, recvVars, hSet, bufVars, injected,
                 sent, taken, sinkVars>>

ReleaseCheckNoOpen ==
  /\ apc = "check"
  /\ apc' = IF Pending <= 0 /\ bufInflight = 0 THEN "discard" ELSE "next"
  /\ UNCHANGED <<rpc, epc, ctxDone, ready, recvVars, gateVars, bufVars, injected,
                 sent, taken, sinkVars>>

\* Release, under r.mu: open only when nothing is buffered or being appended.
ReleaseCheck ==
  /\ apc = "check"
  /\ IF Pending <= 0 /\ bufInflight = 0
     THEN gateOpen' = TRUE /\ apc' = "discard"
     ELSE gateOpen' = gateOpen /\ apc' = "next"
  /\ UNCHANGED <<rpc, epc, ctxDone, ready, recvVars, hSet, bufVars, injected,
                 sent, taken, sinkVars>>

\* buf.next; nothing readable yet means sleep and look again.
ReleaseNext ==
  /\ apc = "next"
  /\ drainedC' = drainedC + (IF Pending < Batch THEN Pending ELSE Batch)
  /\ apc' = IF Pending = 0 THEN "check" ELSE "push"
  /\ UNCHANGED <<rpc, epc, ctxDone, ready, recvVars, gateVars, bufOpen,
                 bufInflight, bufBlocked, backlog, flushed, injected, sent, taken, sinkVars>>

\* One record of the batch: dropped when the dump contains it, else pushed.
ReleasePush ==
  /\ apc = "push"
  /\ IF Drop(backlog[flushed + 1])
     THEN UNCHANGED sent
     ELSE Room /\ sent' = Append(sent, Item("inc", backlog[flushed + 1]))
  /\ flushed' = flushed + 1
  /\ apc' = IF flushed' = drainedC THEN "check" ELSE "push"
  /\ UNCHANGED <<rpc, epc, ctxDone, ready, recvVars, gateVars, bufOpen,
                 bufInflight, bufBlocked, backlog, drainedC, injected, taken, sinkVars>>

\* buf.discard and r.buf = nil, after r.mu was given up.
ReleaseDiscard ==
  /\ apc = "discard"
  /\ bufOpen' = FALSE /\ apc' = "done"
  /\ UNCHANGED <<rpc, epc, ctxDone, ready, recvVars, gateVars, bufInflight, bufBlocked,
                 backlog, drainedC, flushed, injected, sent, taken, sinkVars>>

\* The dump could not be fetched or read, the session ended or was cancelled, or
\* a push waited for 60 seconds; the caller returns, and its cancel ends the
\* session's context.
AppFail ==
  /\ \/ apc \in {"wait", "inject"} /\ (RunDone \/ ctxDone)
     \/ apc = "anchor" /\ (ctxDone \/ "fetch" \in Faults)
     \/ apc \in {"inject", "next"} /\ "disk" \in Faults
     \/ apc = "push" /\ (RunDone \/ ("stuck" \in Faults /\ ~Room))
  /\ apc' = "failed" /\ ctxDone' = TRUE
  /\ UNCHANGED <<rpc, epc, ready, recvVars, gateVars, bufVars, injected, sent,
                 taken, sinkVars>>

\* The operator stops the process (SIGINT, SIGTERM).
Cancel ==
  /\ "cancel" \in Faults /\ ~ctxDone
  /\ ctxDone' = TRUE
  /\ UNCHANGED <<rpc, epc, apc, ready, recvVars, gateVars, bufVars, injected,
                 sent, taken, sinkVars>>

-----------------------------------------------------------------------------
Receiver ==
  \/ Establish \/ EstablishFail \/ LoopTop \/ RecvTimeout \/ ConnFail
  \/ RecvMsg \/ RecvKeepalive \/ ConsumeBad \/ Consume
  \/ AppendBlock \/ AppendEntry \/ AppendFail \/ Unclaim
  \/ SendEntry \/ SendAbort \/ NextEntry \/ AckMsg \/ RunReturn

Emitter == EmitTake \/ EmitOk \/ EmitErr \/ EmitStop

Application ==
  \/ AppReady \/ AppAnchor \/ Inject \/ InjectDone \/ ReleaseCheck
  \/ ReleaseNext \/ ReleasePush \/ ReleaseDiscard \/ AppFail

Next == Receiver \/ Emitter \/ Application \/ Notify \/ AsyncFail \/ Cancel

Spec == Init /\ [][Next]_vars

\* Every goroutine that can move eventually does; a master with entries to send
\* does not stay silent for ever; an async sink eventually reports what it has
\* made durable.
Fairness ==
  /\ WF_vars(Receiver) /\ WF_vars(Emitter) /\ WF_vars(Application)
  /\ SF_vars(RecvMsg) /\ WF_vars(Notify)

FairSpec == Spec /\ Fairness

-----------------------------------------------------------------------------
(* Properties *)

Entry(q) == Item("inc", q)

\* Entries of lo+1 .. hi that can be decoded, hence emitted.
Decodable(lo, hi) == ((lo + 1) .. hi) \ Bad

\* Every variable stays in its range and no cursor passes another: what is
\* emitted was taken, what is taken was queued, what is acknowledged was taken.
TypeOK ==
  /\ rpc \in {"init", "top", "recv", "entry", "append", "unclaim", "unclaimErr",
              "send", "msg", "return", "done"}
  /\ epc \in {"off", "select", "emit", "done"}
  /\ apc \in {"none", "wait", "anchor", "inject", "check", "next", "push",
              "discard", "done", "failed"}
  /\ ctxDone \in BOOLEAN /\ ready \in BOOLEAN /\ hSet \in BOOLEAN
  /\ gateOpen \in BOOLEAN /\ bufOpen \in BOOLEAN /\ bufBlocked \in BOOLEAN /\ sinkErr \in BOOLEAN
  /\ recvd \in Start .. LastEntry
  /\ lastPos \in 0 .. LastEntry /\ firstUnacked \in 0 .. LastEntry
  /\ ackedTo \in 0 .. LastEntry /\ aheadStreak \in 0 .. 2
  /\ bufInflight \in 0 .. 1
  /\ backlog \in Seq((Start + 1) .. LastEntry)
  /\ drainedC \in 0 .. Len(backlog) /\ flushed \in 0 .. drainedC
  /\ injected \in 0 .. DumpEvents
  /\ sent \in Seq([kind : {"inc", "snap", "ping"}, pos : Nat])
  /\ taken \in 0 .. Len(sent) /\ emitted \in 0 .. taken
  /\ acked \in 0 .. taken /\ failAt \in 0 .. taken
  /\ delivered \in 0 .. LastEntry /\ stored \in 0 .. LastEntry

\* The emit queue carries all snapshot events, then the entries beyond the
\* anchor in binlog order, none twice; no entry at or below the anchor is
\* emitted (design.md, "The consistency contract").
BinlogOrder ==
  \A i \in 1 .. Len(sent) : sent[i].kind = "inc" =>
    /\ sent[i].pos > Anchor
    /\ \A j \in (i + 1) .. Len(sent) :
         sent[j].kind = "ping" \/ (sent[j].kind = "inc" /\ sent[j].pos > sent[i].pos)

\* An entry is queued only behind every decodable entry between the anchor and
\* it, and a heartbeat only behind every entry up to the position it reports.
NoGap ==
  \A i \in 1 .. Len(sent) : sent[i].kind # "snap" =>
    \A q \in Decodable(Anchor, sent[i].pos) : \E j \in 1 .. i : sent[j] = Entry(q)

\* Once the gate is open nothing stays behind in the backlog: every entry the
\* receive loop is done with is in the emit queue (the "claim the slot under
\* mu" protocol between consume and Release).
NothingStranded ==
  gateOpen /\ rpc \in {"top", "recv", "entry", "unclaim", "msg"} =>
    \A q \in Decodable(Anchor, recvd) : \E i \in 1 .. Len(sent) : sent[i] = Entry(q)

\* The checkpoint never covers an event the sink has not made durable: not an
\* entry, and beyond the anchor not a snapshot event either.
CheckpointHonest ==
  /\ \A q \in Decodable(Anchor, stored) : \E i \in 1 .. acked : sent[i] = Entry(q)
  /\ stored > Anchor /\ Gated =>
       \A k \in 1 .. DumpEvents : \E i \in 1 .. acked : sent[i] = Item("snap", k)

\* What makes these inductive.  Control: how the three goroutines' places, the
\* claim, the gate and the cursors go together.
ControlInv ==
  /\ bufInflight = IF rpc \in {"append", "unclaim", "unclaimErr"} THEN 1 ELSE 0
  /\ rpc = "init" => epc = "off"
  /\ rpc = "entry" => recvd < LastEntry
  /\ rpc \in {"append", "send"} => recvd > Start
  /\ aheadStreak = 2 => rpc \in {"return", "done"}
  /\ epc = "emit" => taken = emitted + 1
  /\ epc \in {"off", "select"} => taken = emitted
  /\ apc = "none" <=> ~Gated
  /\ apc \in {"none", "wait", "anchor", "inject"} => drainedC = 0
  /\ apc \in {"inject", "check", "next", "push", "discard", "done"} => hSet
  /\ apc \in {"none", "wait", "anchor"} => ~hSet /\ injected = 0
  /\ apc \in {"check", "next", "push", "discard", "done"} => injected = DumpEvents
  /\ apc \in {"check", "next", "discard", "done"} => flushed = drainedC
  /\ apc = "push" => flushed < drainedC
  /\ gateOpen <=> apc \in {"discard", "done"}
  /\ gateOpen => flushed = Len(backlog) /\ bufInflight = 0
  /\ ~Gated => backlog = <<>>
  /\ bufInflight = 1 => Gated

\* The backlog is increasing and behind the entry being appended.
BacklogInv ==
  /\ \A i \in 1 .. Len(backlog) : backlog[i] \notin Bad /\ backlog[i] <= recvd
  /\ lastPos <= recvd
  /\ \A i, j \in 1 .. Len(backlog) : i < j => backlog[i] < backlog[j]
  /\ rpc \in {"append", "send"} => recvd \notin Bad
  /\ rpc = "append" => \A i \in 1 .. Len(backlog) : backlog[i] < recvd
  /\ rpc = "send" => recvd > Anchor /\ (Gated => gateOpen)

\* The emit queue is behind the rest of the backlog and the entry in hand.
QueueInv ==
  /\ \A i \in 1 .. Len(sent) :
       /\ sent[i].kind = "inc" =>
            /\ sent[i].pos \in Decodable(Anchor, recvd)
            /\ \A j \in (flushed + 1) .. Len(backlog) : sent[i].pos < backlog[j]
            /\ rpc \in {"append", "send"} => sent[i].pos < recvd
       /\ sent[i].kind = "ping" => sent[i].pos <= recvd /\ gateOpen
       /\ sent[i].kind # "snap" /\ Gated => apc \notin {"wait", "anchor", "inject"}

\* Every entry beyond the anchor is queued, in the backlog, or the entry in the
\* receive goroutine's hand (which a failing session gives up).
CoverageInv ==
  \A q \in Decodable(Anchor, recvd) :
    \/ \E i \in 1 .. Len(sent) : sent[i] = Entry(q)
    \/ \E j \in (flushed + 1) .. Len(backlog) : backlog[j] = q
    \/ q = recvd /\ rpc \in {"append", "send", "unclaimErr", "return", "done"}

\* The snapshot events are in the queue, ahead of everything else.
SnapshotInv ==
  /\ \A k \in 1 .. injected : \E i \in 1 .. Len(sent) : sent[i] = Item("snap", k)
  /\ Gated => \A i \in 1 .. Len(sent) : sent[i].kind # "snap" =>
       \A k \in 1 .. DumpEvents : \E j \in 1 .. i : sent[j] = Item("snap", k)

\* The inductive invariant behind the theorems of RunnerProofs.
HandoffInv ==
  /\ TypeOK /\ ControlInv /\ BacklogInv /\ QueueInv /\ CoverageInv
  /\ SnapshotInv /\ BinlogOrder /\ NoGap /\ CheckpointHonest

\* The next ack covers exactly the entries received since the last ack: an
\* acked range is never sent again, no received entry is skipped, and both
\* ends are real entries (maybeAckRange).
AckRangeExact ==
  ready =>
    {q \in Decodable(Start, recvd) : q > ackedTo} =
    IF firstUnacked = 0 THEN {} ELSE Decodable(firstUnacked - 1, lastPos)

\* What makes it inductive, before the session is ready too: every entry behind
\* the last one consumed was undecodable, and a range that is open began after
\* Start, so that its acknowledgement leaves nothing out.
AckInv ==
  /\ {q \in Decodable(Start, recvd) : q > ackedTo} =
       IF firstUnacked = 0 THEN {} ELSE Decodable(firstUnacked - 1, lastPos)
  /\ ackedTo <= recvd /\ lastPos <= recvd
  /\ firstUnacked # 0 => Start < firstUnacked /\ firstUnacked <= lastPos
  /\ \A q \in Decodable(Start, recvd) : q <= lastPos
  /\ rpc = "init" => recvd = Start /\ firstUnacked = 0

\* Something ended the session or will: it left its loop, its context is
\* cancelled, the sink failed, or the application gave up.
Disturbed ==
  \/ ctxDone \/ sinkErr \/ failAt # 0 \/ apc = "failed"
  \/ rpc \in {"unclaimErr", "return", "done"}

\* While nothing disturbs the session, the whole dump and every entry beyond the
\* anchor become durable: no lost wake-up between Release, the blocked appender
\* and the emit loop.
AllDelivered ==
  [](~Disturbed) =>
    <>[](/\ Gated => gateOpen
         /\ \A k \in 1 .. (IF Gated THEN DumpEvents ELSE 0) :
              \E i \in 1 .. acked : sent[i] = Item("snap", k)
         /\ \A q \in Decodable(Anchor, LastEntry) : \E i \in 1 .. acked : sent[i] = Entry(q))

\* A session that ended (stalled, connection lost, sink failure) returns, so
\* that the caller can reconnect from the checkpoint.
EndedRunReturns == rpc = "return" ~> RunDone

\* Cancelling the context ends the session, wherever its goroutines are.
CancelStopsRun == ctxDone ~> RunDone
=============================================================================
