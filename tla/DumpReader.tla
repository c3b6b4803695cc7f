----------------------------- MODULE DumpReader -----------------------------
(***************************************************************************)
(* Reading a dump: the dumper process walks the storage engines and        *)
(* flattens every key into commands (drivers/v35/driver.cc and             *)
(* drivers/v40/driver.cc behind drivers/common/dumper_main.cc), the feeder *)
(* goroutine asks it for batches and prefetches them over a pipe           *)
(* (internal/dbsync/cgoadapter/loader.go), and the engine turns records    *)
(* into events (internal/dbsync/engine.go).                                *)
(*                                                                         *)
(* Db gives the keys of each type in the order the storage scans them,     *)
(* each [key, content, ttl], ttl = 0 for none; content is a value for a    *)
(* string and otherwise the sequence of elements, (field, value) pairs of  *)
(* a hash, (member, score) pairs of a zset.                                *)
(***************************************************************************)
EXTENDS VerifyKafka

CONSTANTS
  Db, SlotKeys,   \* the dump; pika's own slot keys, not user data
  BatchNum,       \* elements per populate command (512)
  ScanBatch,      \* keys per scan (4096)
  KBatch,         \* records per reply (2048)
  PrefetchDepth,  \* batches buffered (4)
  Layouts,        \* the states of the dump folder's engine directories
  MaxRestarts,    \* bound on crashes of the process
  ReadFaults      \* subset of {"scan", "dumper", "emit", "expire"}

ASSUME ReaderAssumption ==
  /\ {BatchNum, ScanBatch, KBatch, PrefetchDepth} \subseteq Nat \ {0}
  /\ MaxRestarts \in Nat /\ ReadFaults \subseteq {"scan", "dumper", "emit", "expire"}

\* The storage returns every key of a type once.
ASSUME DbAssumption ==
  /\ DOMAIN Db = {"string", "list", "hash", "set", "zset"}
  /\ \A t \in DOMAIN Db :
       /\ Db[t] \in Seq(Elems(Db[t]))
       /\ \A i, j \in DOMAIN Db[t] : Db[t][i].key = Db[t][j].key => i = j
       /\ t # "string" => \A i \in DOMAIN Db[t] : Db[t][i].content \in Seq(Elems(Db[t][i].content))

VARIABLES
  rpc,       \* open, run, closeOk, closeErr, done, failed: the goroutine that emits
  dirs,      \* the dump folder
  gone,      \* keys whose time to live has run out
  resume,    \* the coordinate to read from, [type, key], or NoCoord
  it,        \* SnapshotIter in the dumper
  dpc,       \* the dumper: none, idle, next, exited
  out,       \* records collected for the reply
  reply,     \* the reply in the pipe: a sequence of batches, at most one
  feeder,    \* ask, read, push, ended
  held,      \* the batch the feeder holds, or Broken
  batch,     \* the channel
  quit,      \* iterator abandoned
  buf,       \* Next's current batch
  seq,       \* ordinal of the last event of this run
  emitted,   \* the events handed to emit, of every run
  restarts   \* crashes so far

readVars == <<rpc, dirs, gone, resume, it, dpc, out, reply, feeder, held, batch, quit,
              buf, seq, emitted, restarts>>

dumperVars == <<it, dpc, out, reply>>
feederVars == <<feeder, held, batch>>
emitVars == <<rpc, quit, buf, seq, emitted>>
runVars == <<dirs, gone, resume, restarts>>

Closing == {"closeOk", "closeErr"}
NoCoord == [type |-> "", key |-> ""]
Broken == <<[cmd |-> "broken"]>>

\* Stage order of the walk.
Stages == <<"string", "list", "hash", "set", "zset">>
Done == Len(Stages) + 1

FreshIter == [stage |-> 1, from |-> 1, keys |-> <<>>, scanDone |-> FALSE,
              cur |-> <<>>, pos |-> 0, pending |-> FALSE]

ReadInit ==
  /\ rpc = "open" /\ dirs \in Layouts /\ gone = {} /\ resume = NoCoord /\ it = FreshIter
  /\ dpc = "none" /\ out = <<>> /\ reply = <<>> /\ feeder = "none" /\ held = <<>>
  /\ batch = <<>> /\ quit = FALSE /\ buf = <<>> /\ seq = 0 /\ emitted = <<>>
  /\ restarts = 0

-----------------------------------------------------------------------------
(* Opening.  A directory is absent, empty, has files but no CURRENT, or is *)
(* a rocksdb.                                                              *)

Engines(v) == IF v = "v40" THEN {"0", "1", "2"}
              ELSE {"strings", "hashes", "lists", "zsets", "sets", "streams"}

sniffLayout == IF dirs["0"] # "absent" THEN "v40" ELSE "v35"

\* An engine with files but no CURRENT is refused; an absent or empty one is
\* bootstrapped as an empty database.
Intact(v) == \A e \in Engines(v) : dirs[e] \in {"absent", "empty", "db"}

OpenV35 == ~(dirs["strings"] = "absent" /\ dirs["0"] = "db") /\ Intact("v35")
OpenV40 == ~(dirs["0"] = "absent" /\ dirs["strings"] # "absent") /\ Intact("v40")

snapshot_open == IF sniffLayout = "v40" THEN OpenV40 ELSE OpenV35

Open ==
  /\ rpc = "open"
  /\ IF snapshot_open
     THEN /\ rpc' = "run" /\ dpc' = "idle" /\ feeder' = "ask"
          /\ it' = [FreshIter EXCEPT !.pending = resume # NoCoord]
     ELSE rpc' = "failed" /\ UNCHANGED <<dpc, feeder, it>>
  /\ UNCHANGED <<out, reply, held, batch, quit, buf, seq, emitted>> /\ UNCHANGED runVars

-----------------------------------------------------------------------------
(* The dumper serving one 'N': next_record, called until the reply is full *)
(* or the walk ends.                                                       *)

\* What the opened storage holds: nothing in an engine that was bootstrapped.
EngineOf == [string |-> "strings", list |-> "lists", hash |-> "hashes",
             set |-> "sets", zset |-> "zsets"]
DirOf(t) == IF sniffLayout = "v40" THEN "0" ELSE EngineOf[t]
Stored(t) == IF dirs[DirOf(t)] = "db" THEN Db[t] ELSE <<>>

\* n elements of s from the a-th on, or as many as there are.
Slice(s, a, n) == SubSeq(s, a, IF a + n - 1 < Len(s) THEN a + n - 1 ELSE Len(s))

Walking == dpc = "next" /\ it.stage < Done /\ Len(out) < KBatch
Type == Stages[it.stage]
NextStage == [it EXCEPT !.stage = @ + 1, !.from = 1, !.keys = <<>>, !.scanDone = FALSE]

\* A stage before the resume coordinate is skipped; its own stage is scanned
\* from the key on.
SkipStage ==
  /\ Walking /\ it.pending /\ Type # resume.type /\ it' = NextStage
  /\ UNCHANGED <<dpc, out, reply>>

\* Altered form: the scan starts after the resume key.
EngageAfter ==
  /\ Walking /\ it.pending /\ Type = resume.type
  /\ \E i \in DOMAIN Stored(Type) :
       /\ Stored(Type)[i].key = resume.key
       /\ it' = [it EXCEPT !.pending = FALSE, !.from = i + 1]
  /\ UNCHANGED <<dpc, out, reply>>

Engage ==
  /\ Walking /\ it.pending /\ Type = resume.type
  /\ \E i \in DOMAIN Stored(Type) :
       /\ Stored(Type)[i].key = resume.key
       /\ it' = [it EXCEPT !.pending = FALSE, !.from = i]
  /\ UNCHANGED <<dpc, out, reply>>

BetweenKeys == Walking /\ ~it.pending /\ it.cur = <<>>

load_keys ==
  /\ BetweenKeys /\ it.keys = <<>> /\ ~it.scanDone
  /\ it' = [it EXCEPT !.keys = Slice(Stored(Type), it.from, ScanBatch),
                      !.from = @ + ScanBatch,
                      !.scanDone = it.from + ScanBatch > Len(Stored(Type))]
  /\ UNCHANGED <<dpc, out, reply>>

\* The scan fails: snapshot_next_batch drops what it collected, the process exits.
ScanFails ==
  /\ BetweenKeys /\ it.keys = <<>> /\ ~it.scanDone /\ "scan" \in ReadFaults
  /\ dpc' = "exited" /\ out' = <<>> /\ UNCHANGED <<it, reply>>

EndStage ==
  /\ BetweenKeys /\ it.keys = <<>> /\ it.scanDone /\ it' = NextStage
  /\ UNCHANGED <<dpc, out, reply>>

\* reset_key_state and the next key, unless ShouldSkipKey.
TakeKey ==
  /\ BetweenKeys /\ it.keys # <<>>
  /\ it' = [it EXCEPT !.keys = Tail(@), !.pos = 0,
                      !.cur = IF Head(it.keys).key \in SlotKeys THEN <<>> ELSE <<Head(it.keys)>>]
  /\ UNCHANGED <<dpc, out, reply>>

Record(cmd, args) == [type |-> Type, key |-> it.cur[1].key, cmd |-> cmd, args |-> args]

\* The storage no longer finds the key.  Lists and zsets are read a chunk at a
\* time, the others once, when the key is taken.
KeyGone == it.cur[1].key \in gone /\ (it.pos = 0 \/ Type \in {"list", "zset"})

\* A key that is gone is left as far as it was read, without an error.
LeaveKey ==
  /\ Walking /\ it.cur # <<>> /\ KeyGone /\ it' = [it EXCEPT !.cur = <<>>]
  /\ UNCHANGED <<dpc, out, reply>>

AtKey(t) == Walking /\ it.cur # <<>> /\ Type = t /\ ~KeyGone /\ UNCHANGED <<dpc, reply>>

\* SET, with EX when the key has a time to live.
StringRecord ==
  /\ AtKey("string") /\ it' = [it EXCEPT !.cur = <<>>]
  /\ out' = Append(out, Record("SET", <<it.cur[1].content>>
                     \o IF it.cur[1].ttl > 0 THEN <<"EX", it.cur[1].ttl>> ELSE <<>>))

\* The elements in commands of BatchNum, then EXPIRE when the key has a time to
\* live, then the next key.
Populate(cmd, elements) ==
  LET chunk == Slice(elements, it.pos + 1, BatchNum) IN
  IF chunk # <<>>
  THEN /\ out' = Append(out, Record(cmd, chunk))
       /\ it' = [it EXCEPT !.pos = @ + BatchNum]
  ELSE /\ out' = IF it.cur[1].ttl > 0 /\ it.cur[1].key \notin gone
                 THEN Append(out, Record("EXPIRE", <<it.cur[1].ttl>>)) ELSE out
       /\ it' = [it EXCEPT !.cur = <<>>]

\* A zset's (member, score) pairs as ZADD has them, scores with six decimals.
Scored(ms) == [i \in DOMAIN ms |-> <<Fixed6(ms[i][2]), ms[i][1]>>]

ListRecord == AtKey("list") /\ Populate("RPUSH", it.cur[1].content)
HashRecord == AtKey("hash") /\ Populate("HMSET", it.cur[1].content)
SetRecord == AtKey("set") /\ Populate("SADD", it.cur[1].content)
ZSetRecord == AtKey("zset") /\ Populate("ZADD", Scored(it.cur[1].content))

\* The reply goes out when it is full or the walk has ended; an empty one means
\* the end.
WriteReply ==
  /\ dpc = "next" /\ (Len(out) = KBatch \/ it.stage = Done)
  /\ reply' = <<out>> /\ out' = <<>> /\ dpc' = "idle" /\ it' = it

\* The process aborts (a LOG(FATAL) of the storage, the OOM killer).
DumperDies ==
  /\ dpc \in {"idle", "next"} /\ "dumper" \in ReadFaults
  /\ dpc' = "exited" /\ UNCHANGED <<it, out, reply>>

\* 'C', or stdin closed: read once the request in hand is answered.
DumperExits ==
  /\ dpc = "idle" /\ rpc \in Closing
  /\ dpc' = "exited" /\ UNCHANGED <<it, out, reply>>

Walk == \/ SkipStage \/ Engage \/ load_keys \/ EndStage \/ TakeKey \/ LeaveKey
        \/ StringRecord \/ ListRecord \/ HashRecord \/ SetRecord \/ ZSetRecord \/ WriteReply \/ DumperExits

\* Time passes: a key's time to live runs out.
ExpireKey ==
  /\ "expire" \in ReadFaults /\ rpc = "run"
  /\ \E t \in DOMAIN Db : \E i \in DOMAIN Db[t] :
       Db[t][i].ttl > 0 /\ Db[t][i].key \notin gone /\ gone' = gone \cup {Db[t][i].key}
  /\ UNCHANGED <<dirs, resume, restarts>> /\ UNCHANGED <<dumperVars, feederVars, emitVars>>

-----------------------------------------------------------------------------
(* The feeder: one request at a time, the reply pushed into the channel.   *)

\* A request, unless the iterator was abandoned; a dead dumper's pipe refuses it.
FeederAsk ==
  /\ feeder = "ask"
  /\ \/ quit /\ feeder' = "ended" /\ UNCHANGED <<held, dpc>>
     \/ ~quit /\ dpc = "idle" /\ dpc' = "next" /\ feeder' = "read" /\ held' = held
     \/ ~quit /\ dpc = "exited" /\ feeder' = "push" /\ held' = Broken /\ dpc' = dpc
  /\ UNCHANGED <<batch, it, out, reply>>

\* Altered form: the end of a dead dumper's output is taken for the end of the dump.
FeederReadEnds ==
  /\ feeder = "read" /\ feeder' = "push"
  /\ \/ reply # <<>> /\ held' = reply[1] /\ reply' = <<>>
     \/ dpc = "exited" /\ (reply = <<>> \/ quit) /\ held' = <<>> /\ reply' = reply
  /\ UNCHANGED <<batch, it, out, dpc>>

\* readBatch: the reply, or the end of a dead dumper's output; Wait closes the
\* pipe whether or not the reply was read.
FeederRead ==
  /\ feeder = "read" /\ feeder' = "push"
  /\ \/ reply # <<>> /\ held' = reply[1] /\ reply' = <<>>
     \/ dpc = "exited" /\ (reply = <<>> \/ quit) /\ held' = Broken /\ reply' = reply
  /\ UNCHANGED <<batch, it, out, dpc>>

\* Altered form: a batch is handed over without watching quit.
FeederPushAlways ==
  /\ feeder = "push" /\ Len(batch) < PrefetchDepth /\ batch' = Append(batch, held)
  /\ feeder' = IF held \in {Broken, <<>>} THEN "ended" ELSE "ask"
  /\ held' = <<>> /\ UNCHANGED dumperVars

\* Altered form: the channel has no bound.
FeederPushUnbounded ==
  /\ feeder = "push" /\ batch' = Append(batch, held)
  /\ feeder' = IF held \in {Broken, <<>>} THEN "ended" ELSE "ask"
  /\ held' = <<>> /\ UNCHANGED dumperVars

\* push, then the end on an error or an empty batch.
FeederPush ==
  /\ feeder = "push"
  /\ \/ Len(batch) < PrefetchDepth /\ batch' = Append(batch, held)
     \/ quit /\ batch' = batch
  /\ feeder' = IF held \in {Broken, <<>>} THEN "ended" ELSE "ask"
  /\ held' = <<>> /\ UNCHANGED dumperVars

Feed == FeederAsk \/ FeederRead \/ FeederPush

-----------------------------------------------------------------------------
(* Next and Emit, in the goroutine that emits the dump.                    *)

\* Next receives a batch; a broken one aborts the iterator.
NextBatch ==
  /\ rpc = "run" /\ buf = <<>> /\ batch # <<>> /\ batch' = Tail(batch)
  /\ IF Head(batch) = Broken
     THEN rpc' = "closeErr" /\ quit' = TRUE /\ buf' = buf
     ELSE buf' = Head(batch) /\ UNCHANGED <<rpc, quit>>
  /\ UNCHANGED <<feeder, held, seq, emitted>> /\ UNCHANGED <<dumperVars, runVars>>

\* The channel is closed and empty: the end of the dump, Emit returns.
NextEnd ==
  /\ rpc = "run" /\ buf = <<>> /\ batch = <<>> /\ feeder = "ended"
  /\ rpc' = "closeOk" /\ quit' = TRUE
  /\ UNCHANGED <<buf, seq, emitted>> /\ UNCHANGED <<dumperVars, feederVars, runVars>>

\* One record becomes one snapshot event at the anchor.
EmitRecord ==
  /\ rpc = "run" /\ buf # <<>> /\ buf' = Tail(buf) /\ seq' = seq + 1
  /\ emitted' = Append(emitted, [rank |-> 0, pos |-> 0, seq |-> seq + 1, run |-> restarts,
                                 cmd |-> Head(buf).cmd, type |-> Head(buf).type,
                                 key |-> Head(buf).key, args |-> Head(buf).args])
  /\ UNCHANGED <<rpc, quit>> /\ UNCHANGED <<dumperVars, feederVars, runVars>>

\* emit returns an error, or the context has ended: the iterator is closed early.
EmitStops ==
  /\ rpc = "run" /\ rpc' = "closeErr" /\ quit' = TRUE
  /\ UNCHANGED <<buf, seq, emitted>> /\ UNCHANGED <<dumperVars, feederVars, runVars>>

EmitFails == "emit" \in ReadFaults /\ EmitStops

\* Close waits for the process.
CloseIterator ==
  /\ rpc \in Closing /\ dpc = "exited"
  /\ rpc' = IF rpc = "closeOk" THEN "done" ELSE "failed"
  /\ UNCHANGED <<quit, buf, seq, emitted>> /\ UNCHANGED <<dumperVars, feederVars, runVars>>

\* A crash, or the end of a run that failed, and a restart that resumes from the
\* last persisted coordinate: that of some event of this run, or the one this run
\* started from.  Which of the emitted
\* events survive is for the sink to say.
Crash ==
  /\ rpc \in {"run", "failed"} /\ restarts < MaxRestarts /\ restarts' = restarts + 1
  /\ \/ resume' = resume
     \/ \E i \in DOMAIN emitted :
          /\ emitted[i].run = restarts
          /\ resume' = [type |-> emitted[i].type, key |-> emitted[i].key]
  /\ rpc' = "open" /\ it' = FreshIter /\ dpc' = "none" /\ out' = <<>> /\ reply' = <<>>
  /\ feeder' = "none" /\ held' = <<>> /\ batch' = <<>> /\ quit' = FALSE /\ buf' = <<>>
  /\ seq' = 0 /\ UNCHANGED <<dirs, gone>>

\* The steps the code takes, and the faults.
ReadStep ==
  \/ Walk /\ UNCHANGED <<feederVars, emitVars, runVars>>
  \/ Feed /\ UNCHANGED <<emitVars, runVars>>
  \/ Open \/ NextBatch \/ NextEnd \/ CloseIterator

ReadFault ==
  \/ (ScanFails \/ DumperDies) /\ UNCHANGED <<feederVars, emitVars, runVars>>
  \/ ExpireKey \/ EmitFails

-----------------------------------------------------------------------------
(* What the events must say *)

Chunked(s, F(_)) ==
  [n \in 1 .. (Len(s) + BatchNum - 1) \div BatchNum |->
     [i \in 1 .. IF n * BatchNum <= Len(s) THEN BatchNum ELSE Len(s) % BatchNum |->
        F(s[(n - 1) * BatchNum + i])]]

\* The commands a key of the dump stands for.
Image(t, e) ==
  LET cmd == [list |-> "RPUSH", hash |-> "HMSET", set |-> "SADD", zset |-> "ZADD"]
      Whole(s) == Chunked(s, LAMBDA x : IF t = "zset" THEN <<Fixed6(x[2]), x[1]>> ELSE x)
      Parts == [n \in DOMAIN Whole(e.content) |-> <<cmd[t], Whole(e.content)[n]>>]
  IN IF t = "string"
     THEN <<<<"SET", IF e.ttl > 0 THEN <<e.content, "EX", e.ttl>> ELSE <<e.content>>>>>>
     ELSE Parts \o IF e.ttl > 0 THEN <<<<"EXPIRE", <<e.ttl>>>>>> ELSE <<>>

\* The keys the walk returns after the i-th of stage s.
Behind(s, i) ==
  UNION {{<<Stages[u], Stored(Stages[u])[k].key>> :
            k \in {k \in DOMAIN Stored(Stages[u]) : s < u \/ (s = u /\ i < k)}} : u \in DOMAIN Stages}

\* The commands cs of key k are all among the first m events.
AllAmong(cs, t, k, m) ==
  \A n \in DOMAIN cs : \E j \in DOMAIN emitted :
    /\ j <= m /\ emitted[j].type = t /\ emitted[j].key = k
    /\ <<emitted[j].cmd, emitted[j].args>> = cs[n]

\* At every event the keys before its own have been emitted completely, and at the
\* end of the dump every key has.
Resumable ==
  \A s \in DOMAIN Stages : \A i \in DOMAIN Stored(Stages[s]) :
    LET e == Stored(Stages[s])[i]
        cs == Image(Stages[s], e)
        after == Behind(s, i)
    IN e.key \notin SlotKeys \cup gone =>
         /\ \A m \in DOMAIN emitted :
              <<emitted[m].type, emitted[m].key>> \in after => AllAmong(cs, Stages[s], e.key, m - 1)
         /\ rpc = "done" => AllAmong(cs, Stages[s], e.key, Len(emitted))

=============================================================================
