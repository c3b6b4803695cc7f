------------------------------ MODULE Snapshot ------------------------------
(***************************************************************************)
(* A snapshot from the master's files to a consumer: the transfer          *)
(* (RsyncFetch), the reading of the dump (DumpReader), the SQL sink that   *)
(* the events go to (SqlSink) and the replay that verifykafka makes of the *)
(* same events (VerifyKafka).  After the dump the master's later commands  *)
(* follow as incremental events.  What lies between, the gate and the emit *)
(* loop, is Runner's subject: here emitted events wait in a buffer.        *)
(***************************************************************************)
EXTENDS RsyncFetch, DumpReader, SqlSink

CONSTANTS
  Keys,      \* the user keys
  Commands,  \* what clients of the master may write: a sequence of [cmd, key, args]
  MaxInc,    \* bound on incremental events
  EmitCap,   \* events buffered before the sink
  MaxFaults, \* bound on what goes wrong in one behaviour
  Target     \* the row a key's value belongs to: [id, fields] or [id, column]

ASSUME SnapshotAssumption == {MaxInc, MaxFaults} \subseteq Nat /\ EmitCap \in Nat \ {0}

VARIABLES
  inc,      \* the incremental events so far
  again,    \* the incremental events a restart delivered again
  source,   \* pika's own value of every key
  faults,   \* what has gone wrong so far
  skipped   \* a resume coordinate lay past an event the sink had not confirmed

snapVars == <<inc, again, source, skipped, faults>>
vars == <<fetchVars, readVars, sinkVars, snapVars>>

Stream == emitted \o inc

AsMap(ps) == [x \in {ps[i][1] : i \in DOMAIN ps} |->
                (CHOOSE p \in Elems(ps) : p[1] = x)[2]]

\* The value of a dump entry, as pika's clients read it.
ValueOf(t, v) == [typ |-> t, val |-> CASE t \in {"hash", "zset"} -> AsMap(v)
                                       [] t = "set" -> Elems(v) [] OTHER -> v]

\* What pika held when it took the snapshot.  It exports a type that was never
\* written as an empty directory; an absent one has lost what it held, which the
\* reader, bootstrapping it, cannot tell.
Exported(t) == IF dirs[DirOf(t)] = "empty" THEN <<>> ELSE Db[t]

InitialSource ==
  [k \in Keys |->
     LET ts == {t \in DOMAIN Db : \E i \in DOMAIN Exported(t) : Exported(t)[i].key = k} IN
     IF ts = {} THEN None
     ELSE LET t == CHOOSE t \in ts : TRUE
          IN ValueOf(t, (CHOOSE e \in Elems(Exported(t)) : e.key = k).content)]

Init ==
  /\ FetchInit /\ ReadInit /\ SinkInit
  /\ inc = <<>> /\ again = {} /\ source = InitialSource /\ skipped = FALSE /\ faults = 0

-----------------------------------------------------------------------------
\* What a client's command does to pika's value, external; the guard keeps to the
\* commands pika logs, those that change something.
Effect(v, c) ==
  CASE c.cmd = "SET" -> [typ |-> "string", val |-> c.args[1]]
    [] c.cmd = "DEL" -> None
    [] c.cmd = "HMSET" -> [typ |-> "hash", val |-> AsMap(c.args) @@ v.val]
    [] c.cmd = "RPUSH" -> [typ |-> "list", val |-> v.val \o c.args]
    [] c.cmd = "LPOP" -> IF Len(v.val) = 1 THEN None ELSE [v EXCEPT !.val = Tail(@)]
    [] c.cmd = "RPOP" ->
         IF Len(v.val) = 1 THEN None ELSE [v EXCEPT !.val = SubSeq(@, 1, Len(@) - 1)]
    [] c.cmd = "SADD" ->
         [typ |-> "set", val |-> Elems(c.args) \cup IF v.typ = "set" THEN v.val ELSE {}]
    [] c.cmd = "SREM" -> IF v.val \subseteq Elems(c.args) THEN None
                         ELSE [v EXCEPT !.val = @ \ Elems(c.args)]
    [] c.cmd = "ZADD" -> [typ |-> "zset", val |-> (c.args[1][2] :> c.args[1][1].units) @@ v.val]
    [] c.cmd = "ZREM" -> IF DOMAIN v.val \subseteq Elems(c.args) THEN None
                         ELSE [v EXCEPT !.val = [x \in DOMAIN @ \ Elems(c.args) |-> @[x]]]
    [] c.cmd = "EXPIRE" -> v

CommandDataType(cmd) ==
  CASE cmd \in {"SET", "SETEX", "PSETEX", "SETNX", "APPEND", "INCR", "DECR", "MSET", "MSETNX",
               "INCRBY", "DECRBY", "GETSET"} -> "string"
    [] cmd \in {"HSET", "HMSET", "HDEL", "HINCRBY", "HINCRBYFLOAT"} -> "hash"
    [] cmd \in {"LPUSH", "RPUSH", "LPOP", "RPOP", "LTRIM", "LSET", "LINSERT", "RPOPLPUSH"} -> "list"
    [] cmd \in {"SADD", "SREM", "SPOP", "SINTERSTORE", "SUNIONSTORE", "SDIFFSTORE"} -> "set"
    [] cmd \in {"ZADD", "ZREM", "ZINCRBY", "ZREMRANGEBYRANK", "ZREMRANGEBYSCORE"} -> "zset"
    [] OTHER -> "unknown"

Logged(v, c) ==
  CASE c.cmd \in {"DEL", "EXPIRE"} -> v.typ # "none"
    [] c.cmd \in {"LPOP", "RPOP", "SREM", "ZREM"} -> v.typ = CommandDataType(c.cmd)
    [] c.cmd = "SET" -> v.typ \in {"none", "string"}
    [] OTHER -> v.typ \in {"none", CommandDataType(c.cmd)}

\* entryEvent: a command of the master becomes an incremental event.
MasterWrite ==
  /\ rpc = "done" /\ Len(inc) < MaxInc /\ Len(Stream) - acked < EmitCap
  /\ \E n \in DOMAIN Commands : LET c == Commands[n] IN
       /\ c.key \notin gone /\ Logged(source[c.key], c)
       /\ source' = [source EXCEPT ![c.key] = Effect(@, c)]
       /\ inc' = Append(inc, [rank |-> 1, pos |-> Len(inc) + 1, seq |-> 0, run |-> restarts,
                              cmd |-> c.cmd, type |-> CommandDataType(c.cmd), key |-> c.key,
                              args |-> c.args])
  /\ UNCHANGED <<again, skipped, faults, fetchVars, readVars, sinkVars>>

Inject == EmitRecord /\ Len(emitted) - acked < EmitCap /\ UNCHANGED <<fetchVars, sinkVars, snapVars>>

SinkEmit == acked < Len(Stream) /\ Emit(Stream[acked + 1]) /\ UNCHANGED <<fetchVars, readVars, snapVars>>

\* Emit of the engine and Inject see the end of the context.
ReadCancelled == ctxDone /\ EmitStops /\ UNCHANGED <<fetchVars, sinkVars, snapVars>>

\* runDbsync returns, its deferred cancel ends the emit loop's context; the sink is
\* closed after it.
SessionEnds ==
  /\ fpc = "failed" \/ rpc = "failed" \/ (rpc = "done" /\ epc = "failed")
  /\ Cancel /\ UNCHANGED <<fetchVars, readVars, snapVars>>

SinkClose ==
  /\ ctxDone /\ (fpc = "failed" \/ rpc \in {"done", "failed"})
  /\ CloseBegin /\ UNCHANGED <<fetchVars, readVars, snapVars>>

\* The sink of a new process.
NewSink ==
  /\ epc' = "idle" /\ queue' = <<>> /\ taken' = [f \in Flushers |-> <<>>] /\ done' = <<>>
  /\ spc' = "open" /\ ctxDone' = FALSE /\ UNCHANGED <<who, table>>

\* A crash takes the sink's queue and the events it had not confirmed with it.
CrashAll ==
  /\ Crash /\ emitted' = SubSeq(emitted, 1, acked)
  /\ skipped' = (skipped \/ (/\ resume' # resume
                             /\ \A i \in 1 .. acked :
                                  [type |-> emitted[i].type, key |-> emitted[i].key] # resume'))
  /\ NewSink /\ UNCHANGED <<acked, inc, again, source, fetchVars>>

\* The process ends behind the dump and resumes the tail from the checkpoint file,
\* which may be older than the last confirmed event.  A consumer of the topic gets
\* again what lies behind the checkpoint and had reached it, confirmed or not.
RestartTail ==
  /\ rpc = "done" /\ acked >= Len(emitted) /\ restarts < MaxRestarts
  /\ restarts' = restarts + 1 /\ acked' \in Len(emitted) .. acked
  /\ \E n \in acked - Len(emitted) .. Len(inc) :
       again' = again \cup (acked' - Len(emitted) + 1 .. n)
  /\ NewSink /\ UNCHANGED <<inc, source, skipped, fetchVars, dumperVars, feederVars, emitVars,
                            dirs, gone, resume>>

\* A process that stopped in order is started again.
StartAgain == spc = "closed" /\ (CrashAll \/ RestartTail) /\ UNCHANGED faults

\* The steps of the code; the dump is opened once the transfer has succeeded.
Step ==
  \/ FetchStep /\ UNCHANGED <<readVars, sinkVars, snapVars>>
  \/ fpc = "ok" /\ ReadStep /\ UNCHANGED <<fetchVars, sinkVars, snapVars>>
  \/ SinkStep /\ UNCHANGED <<fetchVars, readVars, snapVars>>
  \/ Inject \/ SinkEmit \/ ReadCancelled \/ SessionEnds \/ SinkClose

\* The process is told to stop.  During the transfer that is the end of a
\* connection, one of FetchFaults.
Interrupt == fpc = "ok" /\ Cancel

\* What goes wrong.
Fault ==
  /\ faults < MaxFaults /\ faults' = faults + 1
  /\ \/ NewBgsave /\ UNCHANGED <<readVars, sinkVars, inc, again, source, skipped>>
     \/ ReadFault /\ UNCHANGED <<fetchVars, sinkVars, inc, again, source, skipped>>
     \/ Interrupt /\ UNCHANGED <<fetchVars, readVars, inc, again, source, skipped>>
     \/ CrashAll \/ RestartTail

Next == Step \/ Fault \/ MasterWrite \/ StartAgain

Fairness ==
  /\ WF_fetchVars(FetchStep)
  /\ WF_dumperVars(Walk) /\ WF_<<dumperVars, feederVars>>(Feed)
  /\ WF_readVars(fpc = "ok" /\ (Open \/ NextBatch \/ NextEnd \/ CloseIterator))
  /\ WF_emitVars(EmitRecord /\ Len(emitted) - acked < EmitCap)
  /\ WF_sinkVars((acked < Len(Stream) /\ Emit(Stream[acked + 1])) \/ EmitLoopEnds)
  /\ WF_sinkVars(EmitReturns \/ EmitCancelled)
  /\ \A f \in Flushers : WF_sinkVars(FlushTake(f) \/ commit(f))
  /\ WF_vars(ReadCancelled) /\ WF_vars(SessionEnds) /\ WF_vars(SinkClose) /\ WF_sinkVars(CloseEnd)

Spec == Init /\ [][Next]_vars
FairSpec == Spec /\ Fairness

-----------------------------------------------------------------------------
\* TypeOK: every variable keeps its shape; one reply, PrefetchDepth batches and one
\* row are the most that is in flight.
TypeOK ==
  /\ want \in 0 .. MaxBgsaves + 1 /\ next \in 1 .. Len(Work) + 1
  /\ fpc \in {"meta", "info", "rest", "ok", "failed"} /\ firstE \in BOOLEAN
  /\ rpc \in {"open", "run", "done", "failed"} \cup Closing
  /\ dpc \in {"none", "idle", "next", "exited"} /\ it.stage \in 1 .. Done
  /\ feeder \in {"none", "ask", "read", "push", "ended"} /\ quit \in BOOLEAN
  /\ Len(out) <= KBatch /\ Len(reply) <= 1 /\ Len(batch) <= PrefetchDepth
  /\ epc \in {"idle", "waiting", "failed", "ended"} /\ spc \in {"open", "flushing", "closed"}
  /\ acked \in 0 .. Len(Stream) /\ Len(queue) <= 1 /\ ctxDone \in BOOLEAN
  /\ \A f \in Flushers : taken[f] # <<>> =>
       queue = <<>> /\ \A g \in Flushers : taken[g] # <<>> => g = f

\* FetchExact: no transfer succeeds and no event is emitted unless every file of the
\* dump is complete and every chunk came from the snapshot the file list, and with
\* it the anchor, came from (Rest and fetchFile, with several workers and a master
\* that may take a new snapshot at any time).
FetchExact == fpc = "ok" \/ emitted # <<>> => OneSnapshot

\* The commands of key k that run r has emitted.
Seen(k, r) ==
  LET mine == SelectSeq(emitted, LAMBDA e : e.key = k /\ e.run = r)
  IN [i \in DOMAIN mine |-> <<mine[i].cmd, mine[i].args>>]

\* No event carries one of pika's own slot keys (ShouldSkipKey).
NoSlotKey == \A i \in DOMAIN emitted : emitted[i].key \notin SlotKeys

\* DumpExact: in every run the commands of a key come whole, once and in order;
\* when the dump has been emitted, every key that has not expired was emitted
\* completely by the last run or by one it resumed from, and no slot key ever was.
\* The exception is a resume coordinate past what the sink had confirmed.
DumpExact ==
  /\ NoSlotKey
  /\ \A t \in DOMAIN Db : \A e \in Elems(Exported(t)) :
       e.key \notin SlotKeys =>
         /\ \A r \in 0 .. restarts : IsPrefix(Seen(e.key, r), Image(t, e))
         /\ (rpc = "done" /\ ~skipped /\ e.key \notin gone) =>
              \E r \in 0 .. restarts : Seen(e.key, r) = Image(t, e)

\* ResumeSafe: an event is a safe place to resume from: at the first event of a
\* key every key the walk returns before it, of its type or of an earlier one, has
\* been emitted completely, by this run or by those it resumed from, through the
\* reply, the pipe, the prefetch channel, crashes and restarts; and at the end of
\* the dump every key has.  Slot keys, keys that expired and a resume coordinate
\* past what the sink had confirmed are the exceptions.
ResumeSafe == ~skipped => Resumable

\* A consumer gets a list's commands twice, from two runs of the dump or from a
\* restart behind it: neither pushes nor pops are idempotent.
ListTwice(k) ==
  \/ \E i, j \in DOMAIN emitted : /\ emitted[i].key = k /\ emitted[j].key = k
                                  /\ emitted[i].cmd = "RPUSH" /\ emitted[j].cmd = "RPUSH"
                                  /\ emitted[i].run < emitted[j].run
  \/ \E i \in again : inc[i].key = k /\ CommandDataType(inc[i].cmd) = "list"

\* What a consumer finds on the topic: at least once, so some events twice.
Delivered == Stream \o SelectSeq(inc, LAMBDA e : e.pos \in again)

\* Pika's value, but a score that only the dump has told has the six decimals it
\* was printed with there.
Told(k) ==
  LET v == pikaCanonical(source[k])
      ByZadd(x) == \E i \in DOMAIN inc : /\ inc[i].key = k /\ inc[i].cmd = "ZADD"
                                         /\ \E p \in Elems(inc[i].args) : p[2] = x
  IN IF v.typ # "zset" THEN v
     ELSE [v EXCEPT !.val = [x \in DOMAIN @ |-> IF ByZadd(x) THEN @[x] ELSE normScore(Fixed6(@[x]))]]

\* ReplayAgrees: a consumer that sorts the events of a key by phase, position and
\* ordinal and replays them, duplicates included, gets exactly pika's value at any
\* point after the dump, zset scores as the dump prints them; lists of which it
\* gets commands twice are the exception.
ReplayAgrees ==
  (rpc = "done" /\ ~skipped) =>
    \A k \in Keys \ gone : ~ListTwice(k) => canonical(Replay(Delivered, k)) = Told(k)

\* TableMatches: when the SQL sink has confirmed every event, the target table has
\* exactly the rows of the keys that exist, with the columns of their value, also
\* when restarts made it apply commands again.
TableMatches ==
  (rpc = "done" /\ ~skipped /\ acked = Len(Stream)) =>
    \A k \in DOMAIN Target \ gone :
      LET id == Target[k].id
          v == source[k]
      IN IF v.typ = "none" THEN id \notin DOMAIN table
         ELSE /\ id \in DOMAIN table
              /\ \A c \in DOMAIN Target[k].cols :
                   LET f == Target[k].cols[c]
                       x == IF v.typ = "hash" THEN (IF f \in DOMAIN v.val THEN {v.val[f]} ELSE {})
                            ELSE {v.val}
                   IN (IF c \in DOMAIN table[id] THEN {table[id][c]} ELSE {}) = x

\* NothingHangs: the transfer and the reading of the dump come to an end and the
\* feeder retires, whatever fails on the way, unless the sink refuses an event
\* while its context lasts (then nobody empties the buffer the dump is emitted
\* into); every Emit of the SQL sink returns; and once the context has ended the
\* process closes the sink, also under a waiting Emit, unless it crashes first.
NothingHangs ==
  /\ [](epc = "failed" => ctxDone) =>
       <>[](fpc = "failed" \/ (rpc \in {"done", "failed"} /\ feeder \in {"none", "ended"}))
  /\ epc = "waiting" ~> epc # "waiting"
  /\ ctxDone ~> spc = "closed" \/ ~ctxDone

=============================================================================
