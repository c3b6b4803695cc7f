---------------------------- MODULE OrderProofs -----------------------------
(***************************************************************************)
(* Proofs about DumpReader: every step of the dumper, the feeder and the   *)
(* emitting goroutine, and a crash that resumes at a confirmed event, keep *)
(* the order that makes each event a safe place to resume from.            *)
(* SnapshotProofs composes these steps with those of the transfer and the  *)
(* sink.                                                                   *)
(***************************************************************************)
EXTENDS ReaderProofs

\* Unless a step says otherwise: Z3, then Zenon, then Z3 with more time.
USE SMTT(10), ZenonT(20), Z3T(30)

-----------------------------------------------------------------------------
(* The records the iterator makes *)

\* A record of the key in hand comes after those of the keys before it.
LEMMA IterFollows ==
  ASSUME NEW D, NEW G, NEW W, NEW rs, NEW i, NEW dp, IterOk(D, G, W, rs, i, dp), IsIter(i), Shape(D),
         dp # "exited", i.stage # 6, i.cur # <<>>, NEW cmd, NEW args
  PROVE  Follows(D, G, W, Rec(i.stage, i.cur[1], cmd, args))
<1> DEFINE s == i.stage
           n == Scanned(D[s], i.from, i.keys)
<1>1. ~i.pending /\ s \in 1 .. 5
  <2>1. ~i.pending
    BY Zenon DEF IterOk
  <2> QED
    BY <2>1 DEF IsIter
<1>2. Cover(D, G, W, s, n) /\ n \in DOMAIN D[s] /\ i.cur[1] = D[s][n]
  BY <1>1, IterAt
<1> HIDE DEF s, n
<1>3. Follows(D, G, W, Rec(s, D[s][n], cmd, args))
  BY <1>1, <1>2, FollowsHere, Zenon
<1> QED
  BY <1>2, <1>3, Zenon DEF s

\* The next elements of the key in hand are read.
LEMMA IterChunk ==
  ASSUME NEW D, NEW G, NEW W, NEW rs, NEW i, NEW dp, IterOk(D, G, W, rs, i, dp), IsIter(i), Shape(D),
         dp # "exited", i.stage \in 2 .. 5, i.cur # <<>>,
         NEW e, e = i.cur[1], NEW s, s = i.stage,
         NEW chunk, chunk = Slice(ElementsOf(s, e), i.pos + 1, BatchNum)
  PROVE  /\ chunk = <<>> /\ e.key \notin G => Populated(s, e, Len(ElementsOf(s, e))) \subseteq W
         /\ \A j, V : /\ j = [i EXCEPT !.pos = @ + BatchNum]
                      /\ V = W \cup {Rec(s, e, Populates[s], chunk)}
                      => IterOk(D, G, V, rs, j, dp)
<1> DEFINE q == D[s]
           n == Scanned(q, i.from, i.keys)
<1>1. ~i.pending /\ s \in 1 .. 5 /\ i.stage # 6 /\ s # 1 /\ s # 6 /\ s \in 2 .. 5
  <2>1. ~i.pending
    BY Zenon DEF IterOk
  <2> QED
    BY <2>1
<1>2. /\ Cover(D, G, W, s, n) /\ n \in DOMAIN q /\ e = q[n] /\ i.cur = <<q[n]>>
      /\ \E m \in Nat : i.pos = m * BatchNum
      /\ e.key \notin G => Populated(s, e, i.pos) \subseteq W
      /\ ScanOk(q, i.from, i.keys, i.scanDone, i.cur, i.pos)
  BY <1>1, IterAt
<1>3. PICK m \in Nat : i.pos = m * BatchNum
  BY <1>2, Zenon
<1>4. /\ BatchNum \in Nat \ {0} /\ i.pos \in Nat /\ i.pos + 1 \in Nat \ {0}
      /\ i.pos + BatchNum = (m + 1) * BatchNum /\ m + 1 \in Nat
  <2>1. BatchNum \in Nat \ {0}
    BY ReaderAssumption
  <2>2. m * BatchNum \in Nat /\ (m + 1) * BatchNum = m * BatchNum + BatchNum
    BY <2>1, Multiples, Zenon
  <2> QED
    BY <1>3, <2>1, <2>2
<1>5. IsSeq(ElementsOf(s, e))
  <2>1. IsSeq(e.content)
    BY <1>1, <1>2, Zenon DEF Shape
  <2> QED
    BY <1>1, <2>1, ElementsSeq
<1>6. (chunk = <<>> <=> i.pos + 1 > Len(ElementsOf(s, e))) /\ Len(ElementsOf(s, e)) \in Nat
  BY <1>4, <1>5, SliceFacts
<1>7. ASSUME chunk = <<>>, e.key \notin G PROVE Populated(s, e, Len(ElementsOf(s, e))) \subseteq W
  <2>1. Len(ElementsOf(s, e)) <= i.pos
    BY <1>4, <1>6, <1>7
  <2>2. Populated(s, e, Len(ElementsOf(s, e))) \subseteq Populated(s, e, i.pos)
    BY <1>4, <1>6, <2>1, PopulateMono, Zenon
  <2> QED
    BY <1>2, <1>7, <2>2, Zenon
<1>8. ASSUME NEW j, j = [i EXCEPT !.pos = @ + BatchNum], NEW V, V = W \cup {Rec(s, e, Populates[s], chunk)}
      PROVE  IterOk(D, G, V, rs, j, dp)
  <2> DEFINE p == i.pos + BatchNum
  <2>1. /\ j.stage = s /\ j.from = i.from /\ j.keys = i.keys /\ j.scanDone = i.scanDone
        /\ j.cur = i.cur /\ j.pending = i.pending /\ j.pos = p
    BY <1>8 DEF IsIter
  <2>2. Populated(s, e, p) = Populated(s, e, i.pos) \cup {Rec(s, e, Populates[s], chunk)}
    BY <1>3, PopulateMore
  <2>3. e.key \notin G => Populated(s, e, p) \subseteq V
    BY <1>2, <1>8, <2>2, Zenon
  <2>4. Cover(D, G, V, s, n)
    <3>1. W \subseteq V
      BY <1>8, Zenon
    <3> HIDE DEF n
    <3> QED
      BY <1>2, <3>1, CoverMono, Zenon
  <2>5. Walked(D, G, V, s, i.from, i.keys, i.cur, p)
    BY <1>1, <2>3, <2>4, Zenon DEF Walked
  <2>6. ScanOk(q, i.from, i.keys, i.scanDone, i.cur, p)
    BY <1>2, <1>4, Zenon DEF ScanOk
  <2> QED
    BY <1>1, <2>1, <2>5, <2>6, Zenon DEF IterOk
<1> QED
  BY <1>7, <1>8, Zenon

-----------------------------------------------------------------------------
(* The dumper *)

\* The iterator has all its fields.
LEMMA IterShape ==
  ASSUME ReadTypes
  PROVE  IsIter(it)
BY StageNames DEF ReadTypes, FreshIter, IsIter

\* Where the walk is, and what it owes there.
LEMMA WalkAt ==
  ASSUME ReadTypes, Walking
  PROVE  /\ IsIter(it) /\ Shape(Dump) /\ dpc = "next" /\ dpc # "exited" /\ it.stage # 6 /\ it.stage \in 1 .. 5
         /\ Type = Stages[it.stage] /\ Stored(Type) = Dump[it.stage]
         /\ \A t \in 1 .. 5 : Type = Stages[t] => it.stage = t
         /\ SlotKeys \subseteq Dead /\ gone \subseteq Dead
<1>1. IsIter(it) /\ Shape(Dump)
  BY IterShape, DumpShape
<1>2. dpc = "next" /\ dpc # "exited" /\ it.stage # 6 /\ it.stage \in 1 .. 5
  BY <1>1, StageNames DEF Walking, IsIter
<1>3. Type = Stages[it.stage]
  BY DEF Type
<1>4. Stored(Type) = Dump[it.stage]
  BY <1>2, <1>3 DEF Dump
<1>5. \A t \in 1 .. 5 : Type = Stages[t] => it.stage = t
  BY <1>2, <1>3, StageNames, Zenon
<1>6. SlotKeys \subseteq Dead /\ gone \subseteq Dead
  BY Zenon DEF Dead
<1> QED
  BY <1>1, <1>2, <1>3, <1>4, <1>5, <1>6, Zenon

\* The steps in which only the iterator moves.
LEMMA WalkMoves ==
  ASSUME ReadTypes, SkipStage \/ Engage \/ load_keys \/ EndStage \/ TakeKey \/ LeaveKey,
         NEW W, NEW A, A \subseteq W, Base(Dump, Dead, A, resume),
         IterOk(Dump, Dead, W, resume, it, dpc)
  PROVE  IterOk(Dump, Dead, W, resume, it', dpc') /\ UNCHANGED <<out, reply>>
<1>1. Walking /\ UNCHANGED <<dpc, out, reply>>
  BY Zenon DEF SkipStage, Engage, load_keys, EndStage, TakeKey, LeaveKey, BetweenKeys
<1>2. /\ IsIter(it) /\ Shape(Dump) /\ dpc # "exited" /\ it.stage # 6 /\ it.stage \in 1 .. 5
      /\ Type = Stages[it.stage] /\ Stored(Type) = Dump[it.stage] /\ SlotKeys \subseteq Dead /\ gone \subseteq Dead
  BY <1>1, WalkAt, Zenon
<1>3. CASE SkipStage
  <2>1. /\ it.pending /\ Stages[it.stage] # resume.type
        /\ it' = [it EXCEPT !.stage = @ + 1, !.from = 1, !.keys = <<>>, !.scanDone = FALSE]
    BY <1>2, <1>3, Zenon DEF SkipStage, NextStage
  <2>2. IterOk(Dump, Dead, W, resume, it', dpc)
    BY <1>2, <2>1, IterSkip, Zenon
  <2> QED
    BY <1>1, <2>2
<1>4. CASE Engage
  <2>1. /\ it.pending /\ Type = resume.type
        /\ \E k \in DOMAIN Stored(Type) : /\ Stored(Type)[k].key = resume.key
                                         /\ it' = [it EXCEPT !.pending = FALSE, !.from = k]
    BY <1>4, Zenon DEF Engage
  <2>2. PICK k \in DOMAIN Dump[it.stage] : /\ Dump[it.stage][k].key = resume.key
                                        /\ it' = [it EXCEPT !.pending = FALSE, !.from = k]
    BY <1>2, <2>1, Zenon
  <2>3. IterOk(Dump, Dead, W, resume, it', dpc)
    BY <1>2, <2>1, <2>2, IterEngage, Zenon
  <2> QED
    BY <1>1, <2>3, Zenon
<1>5. CASE load_keys
  <2> DEFINE q == Dump[it.stage]
  <2>1. /\ it.keys = <<>> /\ it.cur = <<>> /\ ~it.pending
        /\ it' = [it EXCEPT !.keys = Slice(q, it.from, ScanBatch), !.from = @ + ScanBatch,
                            !.scanDone = it.from + ScanBatch > Len(q)]
    BY <1>2, <1>5, Zenon DEF load_keys, BetweenKeys
  <2>2. IterOk(Dump, Dead, W, resume, it', dpc)
    BY <1>2, <2>1, IterLoad, Zenon
  <2> QED
    BY <1>1, <2>2
<1>6. CASE EndStage
  <2>1. /\ it.keys = <<>> /\ it.cur = <<>> /\ ~it.pending /\ it.scanDone
        /\ it' = [it EXCEPT !.stage = @ + 1, !.from = 1, !.keys = <<>>, !.scanDone = FALSE]
    BY <1>6, Zenon DEF EndStage, BetweenKeys, NextStage
  <2>2. IterOk(Dump, Dead, W, resume, it', dpc)
    BY <1>2, <2>1, IterEnd, Zenon
  <2> QED
    BY <1>1, <2>2
<1>7. CASE TakeKey
  <2> DEFINE h == Head(it.keys)
             c == IF h.key \in SlotKeys THEN <<>> ELSE <<h>>
  <2>1. /\ it.keys # <<>> /\ it.cur = <<>> /\ ~it.pending
        /\ it' = [it EXCEPT !.keys = Tail(@), !.pos = 0, !.cur = c]
    BY <1>7, Zenon DEF TakeKey, BetweenKeys
  <2>2. IterOk(Dump, Dead, W, resume, it', dpc)
    BY <1>2, <2>1, IterTake, Zenon
  <2> QED
    BY <1>1, <2>2
<1>8. CASE LeaveKey
  <2>1. it.cur # <<>> /\ it.cur[1].key \in Dead /\ it' = [it EXCEPT !.cur = <<>>]
    BY <1>2, <1>8 DEF LeaveKey, KeyGone
  <2>2. IterOk(Dump, Dead, W, resume, it', dpc)
    BY <1>2, <2>1, IterLeave
  <2> QED
    BY <1>1, <2>2
<1> QED
  BY <1>3, <1>4, <1>5, <1>6, <1>7, <1>8, Zenon

\* A record of the key in hand is added to the reply.
LEMMA WalkRecord ==
  ASSUME ReadTypes, Walking, it.cur # <<>>, NEW E,
         PathOrder(Dump, Dead, E, buf, batch, held, reply, out),
         IterOk(Dump, Dead, Whole(E, buf, batch, held, reply, out), resume, it, dpc),
         NEW cmd, NEW args, out' = Append(out, Record(cmd, args)), UNCHANGED reply
  PROVE  /\ PathOrder(Dump, Dead, E, buf, batch, held, reply', out')
         /\ Whole(E, buf, batch, held, reply', out')
              = Whole(E, buf, batch, held, reply, out) \cup {Rec(it.stage, it.cur[1], cmd, args)}
<1> DEFINE W == Whole(E, buf, batch, held, reply, out)
           x == Rec(it.stage, it.cur[1], cmd, args)
<1>1. IsIter(it) /\ Shape(Dump) /\ dpc # "exited" /\ it.stage # 6
  BY WalkAt, Zenon
<1>2. Follows(Dump, Dead, W, x)
  BY <1>1, IterFollows, Zenon
<1>3. Record(cmd, args) = x
  BY DEF Record, Rec, Type
<1> HIDE DEF x
<1>4. /\ PathOrder(Dump, Dead, E, buf, batch, held, reply, Append(out, x))
      /\ Whole(E, buf, batch, held, reply, Append(out, x)) = W \cup {x}
  BY <1>2, MoveRecord
<1> QED
  BY <1>3, <1>4, Zenon DEF x

\* The steps that read a string.
LEMMA WalkString ==
  ASSUME ReadTypes, StringRecord, NEW E,
         PathOrder(Dump, Dead, E, buf, batch, held, reply, out),
         IterOk(Dump, Dead, Whole(E, buf, batch, held, reply, out), resume, it, dpc)
  PROVE  /\ PathOrder(Dump, Dead, E, buf, batch, held, reply', out') /\ UNCHANGED reply
         /\ IterOk(Dump, Dead, Whole(E, buf, batch, held, reply', out'), resume, it', dpc')
<1> DEFINE e == it.cur[1]
           args == <<e.content>> \o IF e.ttl > 0 THEN <<"EX", e.ttl>> ELSE <<>>
           W == Whole(E, buf, batch, held, reply, out)
           V == Whole(E, buf, batch, held, reply', out')
<1>1. /\ Walking /\ it.cur # <<>> /\ it' = [it EXCEPT !.cur = <<>>] /\ UNCHANGED <<reply, dpc>>
      /\ Type = Stages[1] /\ 1 \in 1 .. 5
  BY StageNames DEF StringRecord, AtKey
<1>2. out' = Append(out, Record("SET", args))
  BY DEF StringRecord
<1>3. /\ IsIter(it) /\ Shape(Dump) /\ dpc # "exited" /\ it.stage # 6 /\ it.stage = 1
  BY <1>1, WalkAt, Zenon
<1>4. Records(1, e) = {Rec(1, e, "SET", args)}
  BY Zenon DEF Records
<1> HIDE DEF args, e
<1>5. PathOrder(Dump, Dead, E, buf, batch, held, reply', out') /\ V = W \cup {Rec(it.stage, e, "SET", args)}
  BY <1>1, <1>2, WalkRecord, Zenon DEF e
<1>6. W \subseteq V /\ Records(it.stage, e) \subseteq V
  BY <1>3, <1>4, <1>5, Zenon
<1> HIDE DEF V
<1>7. IterOk(Dump, Dead, V, resume, it', dpc)
  BY <1>1, <1>3, <1>6, IterLeave DEF e
<1> QED
  BY <1>1, <1>5, <1>7, Zenon DEF V

\* The steps that read a list, a hash, a set or a zset.
LEMMA WalkPopulate ==
  ASSUME ReadTypes, NEW u \in 2 .. 5, AtKey(Stages[u]), Populate(Populates[u], ElementsOf(u, it.cur[1])),
         NEW E, PathOrder(Dump, Dead, E, buf, batch, held, reply, out),
         IterOk(Dump, Dead, Whole(E, buf, batch, held, reply, out), resume, it, dpc)
  PROVE  /\ PathOrder(Dump, Dead, E, buf, batch, held, reply', out') /\ UNCHANGED reply
         /\ IterOk(Dump, Dead, Whole(E, buf, batch, held, reply', out'), resume, it', dpc')
<1> DEFINE e == it.cur[1]
           chunk == Slice(ElementsOf(u, e), it.pos + 1, BatchNum)
           W == Whole(E, buf, batch, held, reply, out)
           V == Whole(E, buf, batch, held, reply', out')
<1>1. u \in 1 .. 5 /\ u # 1
  OBVIOUS
<1>2. Walking /\ it.cur # <<>> /\ reply' = reply /\ dpc' = dpc /\ Type = Stages[u]
  BY DEF AtKey
<1>3. /\ IsIter(it) /\ Shape(Dump) /\ dpc # "exited" /\ it.stage # 6 /\ it.stage = u /\ it.stage \in 2 .. 5
      /\ gone \subseteq Dead
  BY <1>1, <1>2, WalkAt, Zenon
<1>4. ASSUME NEW cmd, NEW args, out' = Append(out, Record(cmd, args))
      PROVE  PathOrder(Dump, Dead, E, buf, batch, held, reply', out') /\ V = W \cup {Rec(u, e, cmd, args)}
  <2>1. PathOrder(Dump, Dead, E, buf, batch, held, reply', out') /\ V = W \cup {Rec(it.stage, e, cmd, args)}
    BY <1>2, <1>4, WalkRecord, Zenon
  <2> QED
    BY <1>3, <2>1, Zenon
<1>5. /\ chunk = <<>> /\ e.key \notin Dead => Populated(u, e, Len(ElementsOf(u, e))) \subseteq W
      /\ \A j, X : /\ j = [it EXCEPT !.pos = @ + BatchNum]
                   /\ X = W \cup {Rec(u, e, Populates[u], chunk)}
                   => IterOk(Dump, Dead, X, resume, j, dpc)
  BY <1>2, <1>3, IterChunk
<1>6. CASE chunk # <<>>
  <2>1. out' = Append(out, Record(Populates[u], chunk)) /\ it' = [it EXCEPT !.pos = @ + BatchNum]
    BY <1>6, Zenon DEF Populate
  <2> HIDE DEF chunk, e
  <2>2. PathOrder(Dump, Dead, E, buf, batch, held, reply', out') /\ V = W \cup {Rec(u, e, Populates[u], chunk)}
    BY <1>4, <2>1, Zenon
  <2> HIDE DEF V
  <2>3. IterOk(Dump, Dead, V, resume, it', dpc)
    BY <1>5, <2>1, <2>2, Zenon
  <2> QED
    BY <1>2, <2>2, <2>3, Zenon DEF V
<1>7. CASE chunk = <<>>
  <2>1. /\ out' = IF e.ttl > 0 /\ e.key \notin gone THEN Append(out, Record("EXPIRE", <<e.ttl>>)) ELSE out
        /\ it' = [it EXCEPT !.cur = <<>>]
    BY <1>7, Zenon DEF Populate
  <2> HIDE DEF chunk, e
  <2>2. /\ e.key \notin Dead => Records(u, e) \subseteq W \cup {Rec(u, e, "EXPIRE", <<e.ttl>>)}
        /\ ~(e.ttl > 0 /\ e.key \notin gone) => (e.key \notin Dead => Records(u, e) \subseteq W)
    <3>1. e.key \notin Dead => Populated(u, e, Len(ElementsOf(u, e))) \subseteq W
      BY <1>5, <1>7, Zenon
    <3>2. CASE e.ttl > 0
      <4>1. Records(u, e) = Populated(u, e, Len(ElementsOf(u, e))) \cup {Rec(u, e, "EXPIRE", <<e.ttl>>)}
        BY <1>1, <3>2, Zenon DEF Records
      <4> QED
        BY <1>3, <3>1, <3>2, <4>1, Zenon
    <3>3. CASE ~(e.ttl > 0)
      <4>1. Records(u, e) = Populated(u, e, Len(ElementsOf(u, e)))
        BY <1>1, <3>3, Zenon DEF Records
      <4> QED
        BY <3>1, <4>1, Zenon
    <3> QED
      BY <3>2, <3>3, Zenon
  <2>3. /\ PathOrder(Dump, Dead, E, buf, batch, held, reply', out') /\ W \subseteq V
        /\ e.key \notin Dead => Records(u, e) \subseteq V
    <3>1. CASE e.ttl > 0 /\ e.key \notin gone
      <4>1. out' = Append(out, Record("EXPIRE", <<e.ttl>>))
        BY <2>1, <3>1, Zenon
      <4>2. PathOrder(Dump, Dead, E, buf, batch, held, reply', out') /\ V = W \cup {Rec(u, e, "EXPIRE", <<e.ttl>>)}
        BY <1>4, <4>1, Zenon
      <4> QED
        BY <2>2, <4>2, Zenon
    <3>2. CASE ~(e.ttl > 0 /\ e.key \notin gone)
      BY <1>2, <2>1, <2>2, <3>2, Zenon
    <3> QED
      BY <3>1, <3>2, Zenon
  <2> HIDE DEF V
  <2>4. IterOk(Dump, Dead, V, resume, it', dpc)
    BY <1>2, <1>3, <2>1, <2>3, IterLeave, Zenon DEF e
  <2> QED
    BY <1>2, <2>3, <2>4, Zenon DEF V
<1> QED
  BY <1>6, <1>7, Zenon

\* A reply goes out; an empty one only when the walk has ended.
LEMMA WalkReply ==
  ASSUME ReadTypes, Turns, rpc = "run", WriteReply, NEW D, NEW G, NEW E,
         RunOk(D, G, E, resume, it, dpc, out, reply, feeder, held, batch, buf)
  PROVE  RunOk(D, G, E, resume, it', dpc', out', reply', feeder, held, batch, buf)
<1> DEFINE W == Whole(E, buf, batch, held, reply, out)
           P == Past(E, buf, batch)
<1>1. /\ PathOrder(D, G, E, buf, batch, held, reply, out) /\ IterOk(D, G, W, resume, it, dpc)
  BY Zenon DEF RunOk
<1>2. /\ reply' = <<out>> /\ out' = <<>> /\ dpc' = "idle" /\ it' = it /\ dpc = "next"
      /\ Len(out) = KBatch \/ it.stage = 6
  BY StageNames DEF WriteReply
<1>3. reply = <<>> /\ held = <<>> /\ feeder = "read"
  BY <1>2, Zenon DEF Turns
<1>4. /\ PathOrder(D, G, E, buf, batch, held, reply', out')
      /\ Whole(E, buf, batch, held, reply', out') = W
  <2>1. /\ PathOrder(D, G, E, buf, batch, held, <<out>>, <<>>)
        /\ Whole(E, buf, batch, held, <<out>>, <<>>) = W
    BY <1>1, <1>3, MoveReply
  <2> QED
    BY <1>2, <2>1, Zenon
<1>5. IterOk(D, G, W, resume, it', dpc')
  <2>1. dpc # "exited" /\ dpc' # "exited"
    BY <1>2
  <2> QED
    BY <1>1, <1>2, <2>1, Zenon DEF IterOk
<1>6. reply'[1] = out
  BY <1>2, Zenon
<1>7. ASSUME out = <<>> PROVE Cover(D, G, P, 6, 1)
  <2>1. it.stage = 6
    BY <1>2, <1>7, SeqEmpty, ReaderAssumption
  <2>2. ~it.pending
    <3>1. ASSUME NEW t \in 1 .. 5 PROVE ~(it.stage <= t)
      BY <2>1
    <3> QED
      BY <1>1, <3>1, Zenon DEF IterOk
  <2>3. dpc # "exited"
    BY <1>2
  <2>4. Cover(D, G, W, 6, 1)
    BY <1>1, <2>1, <2>2, <2>3, Zenon DEF IterOk, Walked
  <2>5. W = P
    BY <1>3, <1>7, SetEmpty, Zenon DEF Whole
  <2> QED
    BY <2>4, <2>5, Zenon
<1>8. Ends(D, G, P, reply', feeder, held, batch)
  <2>1. feeder # "push" /\ feeder # "ended"
    BY <1>3
  <2> QED
    BY <1>6, <1>7, <2>1, Zenon DEF Ends
<1> QED
  BY <1>4, <1>5, <1>8, Zenon DEF RunOk

\* The dumper dies: what it had not written is lost, what it wrote is in order.
LEMMA WalkDies ==
  ASSUME ScanFails \/ DumperDies, NEW D, NEW G, NEW E,
         RunOk(D, G, E, resume, it, dpc, out, reply, feeder, held, batch, buf)
  PROVE  RunOk(D, G, E, resume, it', dpc', out', reply', feeder, held, batch, buf)
<1>1. dpc' = "exited" /\ (out' = <<>> \/ out' = out) /\ UNCHANGED <<it, reply>>
  BY Zenon DEF ScanFails, DumperDies
<1>2. /\ PathOrder(D, G, E, buf, batch, held, reply, out) /\ Ends(D, G, Past(E, buf, batch), reply, feeder, held, batch)
      /\ \E V : IterOk(D, G, V, resume, it, dpc)
  BY Zenon DEF RunOk
<1>3. PathOrder(D, G, E, buf, batch, held, reply', out')
  BY <1>1, <1>2, SetEmpty, Zenon DEF PathOrder
<1>4. \A V : IterOk(D, G, V, resume, it', dpc')
  BY <1>1, <1>2, Zenon DEF IterOk
<1> QED
  BY <1>1, <1>2, <1>3, <1>4, Zenon DEF RunOk

\* Whatever the walk does, its order is kept.
LEMMA WalkOk ==
  ASSUME ReadTypes, Turns, rpc = "run", Walk \/ ScanFails \/ DumperDies,
         NEW E, NEW A, A \subseteq E, Base(Dump, Dead, A, resume),
         RunOk(Dump, Dead, E, resume, it, dpc, out, reply, feeder, held, batch, buf)
  PROVE  RunOk(Dump, Dead, E, resume, it', dpc', out', reply', feeder, held, batch, buf)
<1> DEFINE W == Whole(E, buf, batch, held, reply, out)
           Kept == RunOk(Dump, Dead, E, resume, it', dpc', out', reply', feeder, held, batch, buf)
<1>1. /\ PathOrder(Dump, Dead, E, buf, batch, held, reply, out) /\ IterOk(Dump, Dead, W, resume, it, dpc)
      /\ Ends(Dump, Dead, Past(E, buf, batch), reply, feeder, held, batch)
  BY Zenon DEF RunOk
<1>2. ASSUME PathOrder(Dump, Dead, E, buf, batch, held, reply', out'), UNCHANGED reply,
             IterOk(Dump, Dead, Whole(E, buf, batch, held, reply', out'), resume, it', dpc')
      PROVE  Kept
  BY <1>1, <1>2, Zenon DEF RunOk
<1>3. CASE SkipStage \/ Engage \/ load_keys \/ EndStage \/ TakeKey \/ LeaveKey
  <2>1. A \subseteq W
    BY Zenon DEF Whole, Past
  <2> HIDE DEF W
  <2>2. IterOk(Dump, Dead, W, resume, it', dpc') /\ UNCHANGED <<out, reply>>
    BY <1>1, <1>3, <2>1, WalkMoves, Zenon
  <2>3. out' = out /\ reply' = reply
    BY <2>2
  <2> QED
    BY <1>1, <1>2, <2>2, <2>3, Zenon DEF W
<1>4. CASE StringRecord
  BY <1>1, <1>2, <1>4, WalkString, Zenon
<1>5. CASE ListRecord \/ HashRecord \/ SetRecord \/ ZSetRecord
  <2>1. PICK u \in 2 .. 5 : AtKey(Stages[u]) /\ Populate(Populates[u], ElementsOf(u, it.cur[1]))
    <3>1. /\ Stages[2] = "list" /\ Stages[3] = "hash" /\ Stages[4] = "set" /\ Stages[5] = "zset"
          /\ Populates[2] = "RPUSH" /\ Populates[3] = "HMSET" /\ Populates[4] = "SADD" /\ Populates[5] = "ZADD"
          /\ \A u \in {2, 3, 4} : ElementsOf(u, it.cur[1]) = it.cur[1].content
          /\ ElementsOf(5, it.cur[1]) = Scored(it.cur[1].content)
          /\ 2 \in 2 .. 5 /\ 3 \in 2 .. 5 /\ 4 \in 2 .. 5 /\ 5 \in 2 .. 5
      BY StageNames DEF Populates, ElementsOf
    <3> QED
      BY <1>5, <3>1, Zenon DEF ListRecord, HashRecord, SetRecord, ZSetRecord
  <2> QED
    BY <1>1, <1>2, <2>1, WalkPopulate, Zenon
<1>6. CASE WriteReply
  BY <1>6, WalkReply, Zenon
<1>7. CASE ScanFails \/ DumperDies
  BY <1>7, WalkDies, Zenon
<1>8. CASE DumperExits
  BY <1>8 DEF DumperExits, Closing
<1> QED
  BY <1>3, <1>4, <1>5, <1>6, <1>7, <1>8, Zenon DEF Walk

-----------------------------------------------------------------------------
(* The feeder *)

\* The feeder hands on what the dumper writes, in order, and a dead dumper as an error.
LEMMA FeedOk ==
  ASSUME ReadTypes, Turns, rpc = "run", Feed, NEW D, NEW G, NEW E,
         RunOk(D, G, E, resume, it, dpc, out, reply, feeder, held, batch, buf)
  PROVE  RunOk(D, G, E, resume, it, dpc', out, reply', feeder', held', batch', buf)
<1> DEFINE W == Whole(E, buf, batch, held, reply, out)
           P == Past(E, buf, batch)
<1>1. /\ PathOrder(D, G, E, buf, batch, held, reply, out) /\ IterOk(D, G, W, resume, it, dpc)
      /\ Ends(D, G, P, reply, feeder, held, batch)
  BY Zenon DEF RunOk
<1>2. /\ Len(reply) <= 1 /\ IsSeq(batch) /\ quit = FALSE
      /\ feeder # "push" => held = <<>>
  BY Zenon DEF ReadTypes, Turns
<1>3. Broken # <<>>
  BY DEF Broken
\* The dumper is found dead.
<1>4. ASSUME held = <<>>, held' = Broken, feeder' = "push", dpc' = "exited", UNCHANGED <<reply, batch>>
      PROVE  RunOk(D, G, E, resume, it, dpc', out, reply', feeder', held', batch', buf)
  <2>1. PathOrder(D, G, E, buf, batch, Broken, reply, out)
    BY <1>1, <1>4, MoveGrow
  <2>2. \A V : IterOk(D, G, V, resume, it, "exited")
    BY <1>1, Zenon DEF IterOk
  <2>3. Ends(D, G, P, reply, "push", Broken, batch)
    BY <1>1, <1>3, Zenon DEF Ends
  <2> QED
    BY <1>4, <2>1, <2>2, <2>3, Zenon DEF RunOk
<1>5. CASE FeederAsk
  <2>1. feeder = "ask" /\ UNCHANGED <<batch, reply>> /\ held = <<>>
    BY <1>2, <1>5 DEF FeederAsk
  <2>2. CASE dpc = "idle" /\ dpc' = "next" /\ feeder' = "read" /\ held' = held
    <3>1. dpc # "exited" /\ dpc' # "exited" /\ feeder' # "push" /\ feeder' # "ended"
      BY <2>2
    <3>2. IterOk(D, G, W, resume, it, dpc') /\ Ends(D, G, P, reply, feeder', held, batch)
      BY <1>1, <3>1, Zenon DEF IterOk, Ends
    <3> QED
      BY <1>1, <2>1, <2>2, <3>2, Zenon DEF RunOk
  <2>3. CASE dpc = "exited" /\ feeder' = "push" /\ held' = Broken /\ dpc' = dpc
    BY <1>4, <2>1, <2>3
  <2> QED
    BY <1>2, <1>5, <2>2, <2>3 DEF FeederAsk
<1>6. CASE FeederRead
  <2>1. feeder = "read" /\ UNCHANGED <<batch, dpc>> /\ held = <<>> /\ feeder' = "push"
    BY <1>2, <1>6 DEF FeederRead
  <2>2. CASE reply # <<>> /\ held' = reply[1] /\ reply' = <<>>
    <3>1. /\ PathOrder(D, G, E, buf, batch, reply[1], <<>>, out)
          /\ Whole(E, buf, batch, reply[1], <<>>, out) = W
      <4>1. PathOrder(D, G, E, buf, batch, held, reply, out)
        BY <1>1
      <4> QED
        BY <1>2, <2>1, <2>2, <4>1, MoveRead
    <3>2. Ends(D, G, P, <<>>, "push", reply[1], batch)
      BY <1>1, <2>2 DEF Ends
    <3> QED
      BY <1>1, <2>1, <2>2, <3>1, <3>2, Zenon DEF RunOk
  <2>3. CASE dpc = "exited" /\ held' = Broken /\ reply' = reply
    BY <1>4, <2>1, <2>3
  <2> QED
    BY <1>6, <2>2, <2>3 DEF FeederRead
<1>7. CASE FeederPush
  <2>1. /\ feeder = "push" /\ batch' = Append(batch, held) /\ held' = <<>> /\ UNCHANGED <<dpc, reply>>
        /\ feeder' = IF held \in {Broken, <<>>} THEN "ended" ELSE "ask"
    BY <1>2, <1>7 DEF FeederPush, dumperVars
  <2> DEFINE b == Append(batch, held)
  <2>2. reply = <<>>
    BY <2>1 DEF Turns
  <2>3. Len(batch) + 1 \in DOMAIN b /\ b[Len(batch) + 1] = held
    BY <1>2, SetAppend
  <2>4. /\ PathOrder(D, G, E, buf, b, <<>>, reply, out)
        /\ Past(E, buf, b) = P \cup SetOf(held) /\ Whole(E, buf, b, <<>>, reply, out) = W
    <3>1. PathOrder(D, G, E, buf, batch, held, reply, out)
      BY <1>1
    <3>2. b = Append(batch, held)
      OBVIOUS
    <3> HIDE DEF b
    <3>3. PathOrder(D, G, E, buf, b, <<>>, reply, out)
      BY <3>1, <3>2, MovePush, Zenon
    <3>4. Past(E, buf, b) = P \cup SetOf(held) /\ Whole(E, buf, b, <<>>, reply, out) = W
      BY <1>2, <3>2, PushPast, PushWhole
    <3> QED
      BY <3>3, <3>4
  <2> HIDE DEF b
  <2>5. feeder' # "push" /\ (feeder' = "ended" => held = Broken \/ held = <<>>)
    BY <2>1
  <2>6. held = <<>> => Cover(D, G, Past(E, buf, b), 6, 1)
    <3> SUFFICES ASSUME held = <<>> PROVE Cover(D, G, Past(E, buf, b), 6, 1)
      OBVIOUS
    <3>1. Cover(D, G, P, 6, 1)
      BY <1>1, <2>1, Zenon DEF Ends
    <3>2. P \subseteq Past(E, buf, b)
      BY <2>4
    <3> HIDE DEF P
    <3> QED
      BY <3>1, <3>2, CoverMono
  <2>7. Ends(D, G, Past(E, buf, b), reply, feeder', <<>>, b)
    BY <2>2, <2>3, <2>5, <2>6, Zenon DEF Ends
  <2> QED
    BY <1>1, <2>1, <2>4, <2>7, Zenon DEF RunOk, b
<1> QED
  BY <1>5, <1>6, <1>7 DEF Feed

-----------------------------------------------------------------------------
(* Events *)

\* The events without position and run.
LEMMA EventsFacts ==
  ASSUME NEW em, IsSeq(em)
  PROVE  /\ IsSeq(Events(em)) /\ DOMAIN em = 1 .. Len(em) /\ DOMAIN Events(em) = DOMAIN em
         /\ Len(em) \in Nat /\ Len(Events(em)) = Len(em)
         /\ \A m \in DOMAIN em : Events(em)[m] = Bare(em[m])
<1> DEFINE T == {Bare(em[m]) : m \in DOMAIN em}
           v == Events(em)
<1>1. Len(em) \in Nat /\ DOMAIN em = 1 .. Len(em)
  BY SetAppend
<1>2. v = [m \in DOMAIN em |-> Bare(em[m])]
  BY Zenon DEF Events
<1>3. DOMAIN v = DOMAIN em /\ (\A m \in DOMAIN em : v[m] = Bare(em[m])) /\ v \in [DOMAIN em -> T]
  BY <1>2, Zenon
<1> HIDE DEF T, v
<1>4. v \in Seq(T) /\ Len(v) = Len(em)
  BY <1>1, <1>3
<1>5. IsSeq(v)
  BY <1>4, AnySeq, Zenon
<1> QED
  BY <1>1, <1>3, <1>4, <1>5, Zenon DEF v

\* The event of one more record.
LEMMA EventsAppend ==
  ASSUME NEW em, IsSeq(em), NEW x
  PROVE  Events(Append(em, x)) = Append(Events(em), Bare(x))
<1> DEFINE a == Append(em, x)
           v == Events(em)
           w == Append(Events(em), Bare(x))
<1>1. /\ IsSeq(a) /\ DOMAIN a = 1 .. (Len(em) + 1) /\ Len(em) \in Nat
      /\ (\A m \in 1 .. Len(em) : a[m] = em[m]) /\ a[Len(em) + 1] = x
  BY SetAppend
<1>2. IsSeq(v) /\ DOMAIN em = 1 .. Len(em) /\ Len(v) = Len(em) /\ \A m \in DOMAIN em : v[m] = Bare(em[m])
  BY EventsFacts
<1>3. /\ DOMAIN w = 1 .. (Len(v) + 1) /\ IsSeq(w)
      /\ (\A m \in 1 .. Len(v) : w[m] = v[m]) /\ w[Len(v) + 1] = Bare(x)
  BY <1>2, SetAppend
<1>4. w = [m \in DOMAIN w |-> w[m]]
  <2>1. w \in Seq(SetOf(w))
    BY <1>3, Zenon DEF IsSeq, SetOf
  <2> HIDE DEF w
  <2> QED
    BY <2>1
<1> HIDE DEF a, v, w
<1>5. Events(a) = [m \in DOMAIN a |-> Bare(a[m])]
  BY Zenon DEF Events
<1>6. DOMAIN w = DOMAIN a /\ \A m \in DOMAIN a : w[m] = Bare(a[m])
  BY <1>1, <1>2, <1>3
<1>7. Events(a) = w
  BY <1>4, <1>5, <1>6
<1> QED
  BY <1>7 DEF a, w

\* A prefix of the events.
LEMMA EventsCut ==
  ASSUME NEW em, IsSeq(em), NEW n \in Nat, n <= Len(em)
  PROVE  Events(SubSeq(em, 1, n)) = SubSeq(Events(em), 1, n)
<1> DEFINE c == SubSeq(em, 1, n)
           v == Events(em)
           w == SubSeq(v, 1, n)
<1>1. /\ IsSeq(v) /\ DOMAIN em = 1 .. Len(em) /\ Len(em) \in Nat /\ Len(v) = Len(em)
      /\ \A m \in DOMAIN em : v[m] = Bare(em[m])
  BY EventsFacts
<1>2. c = [m \in 1 .. n |-> em[m]] /\ w = [m \in 1 .. n |-> v[m]]
  <2>1. em \in Seq(SetOf(em)) /\ v \in Seq(SetOf(v))
    BY <1>1 DEF IsSeq, SetOf
  <2> HIDE DEF v
  <2> QED
    BY <1>1, <2>1
<1> HIDE DEF c, v, w
<1>3. Events(c) = [m \in 1 .. n |-> Bare(em[m])]
  BY <1>2 DEF Events
<1>4. \A m \in 1 .. n : v[m] = Bare(em[m])
  BY <1>1
<1> QED
  BY <1>2, <1>3, <1>4, Zenon DEF c, v, w

\* What is confirmed was emitted, and grows with the events and with the acknowledgements.
LEMMA AckedMono ==
  ASSUME NEW em, IsSeq(em), NEW a \in Nat, NEW b \in Nat
  PROVE  /\ a <= b \/ Len(em) <= b => AckedOf(em, a) \subseteq AckedOf(em, b)
         /\ \A x : AckedOf(em, a) \subseteq AckedOf(Append(em, x), a)
         /\ a <= Len(em) => AckedOf(em, a) \subseteq AckedOf(SubSeq(em, 1, a), a)
         /\ AckedOf(em, a) \subseteq SetOf(Events(em))
<1>1. Len(em) \in Nat /\ DOMAIN em = 1 .. Len(em) /\ DOMAIN Events(em) = DOMAIN em
      /\ \A m \in DOMAIN em : Events(em)[m] = Bare(em[m])
  BY EventsFacts
<1>2. ASSUME a <= b \/ Len(em) <= b PROVE AckedOf(em, a) \subseteq AckedOf(em, b)
  <2>1. \A m \in DOMAIN em : m <= a => m <= b
    BY <1>1, <1>2
  <2> QED
    BY <2>1, Zenon DEF AckedOf
<1>3. ASSUME NEW x PROVE AckedOf(em, a) \subseteq AckedOf(Append(em, x), a)
  <2> DEFINE r == Append(em, x)
  <2>1. /\ DOMAIN r = 1 .. (Len(em) + 1) /\ \A m \in 1 .. Len(em) : r[m] = em[m]
    BY SetAppend
  <2> HIDE DEF r
  <2>2. \A m \in DOMAIN em : m \in DOMAIN r /\ r[m] = em[m]
    BY <1>1, <2>1
  <2>3. AckedOf(em, a) \subseteq AckedOf(r, a)
    BY <2>2, Zenon DEF AckedOf
  <2> QED
    BY <2>3 DEF r
<1>4. ASSUME a <= Len(em) PROVE AckedOf(em, a) \subseteq AckedOf(SubSeq(em, 1, a), a)
  <2> DEFINE r == SubSeq(em, 1, a)
  <2>1. r = [m \in 1 .. a |-> em[m]]
    <3>1. em \in Seq(SetOf(em))
      BY DEF IsSeq, SetOf
    <3> QED
      BY <1>1, <1>4, <3>1
  <2> HIDE DEF r
  <2>2. \A m \in DOMAIN em : m <= a => m \in DOMAIN r /\ r[m] = em[m]
    BY <1>1, <2>1
  <2>3. AckedOf(em, a) \subseteq AckedOf(r, a)
    BY <2>2, Zenon DEF AckedOf
  <2> QED
    BY <2>3 DEF r
<1>5. AckedOf(em, a) \subseteq SetOf(Events(em))
  BY <1>1, Zenon DEF AckedOf, SetOf
<1> QED
  BY <1>2, <1>3, <1>4, <1>5, Zenon

-----------------------------------------------------------------------------
(* The goroutine that emits *)

\* A fresh iterator has walked nothing, or everything before the coordinate is there.
LEMMA OpenOk ==
  ASSUME Turns, Open, rpc' = "run", NEW D, D = Dump, NEW G, NEW E, NEW A, Base(D, G, A, resume)
  PROVE  RunOk(D, G, E, resume, it', dpc', out', reply', feeder', held', batch', buf')
<1>1. /\ out' = <<>> /\ reply' = <<>> /\ held' = <<>> /\ batch' = <<>> /\ buf' = <<>>
      /\ feeder' = "ask" /\ dpc' = "idle" /\ it' = [FreshIter EXCEPT !.pending = resume # NoCoord]
  BY DEF Open, Turns
<1>2. /\ it'.stage = 1 /\ it'.from = 1 /\ it'.keys = <<>> /\ it'.scanDone = FALSE
      /\ it'.cur = <<>> /\ it'.pos = 0 /\ it'.pending = (resume # NoCoord)
  BY <1>1 DEF FreshIter
<1>3. PathOrder(D, G, E, <<>>, <<>>, <<>>, <<>>, <<>>)
  BY SetEmpty, SeqEmpty, Zenon DEF PathOrder
<1>4. Ends(D, G, Past(E, <<>>, <<>>), <<>>, "ask", <<>>, <<>>)
  BY DEF Ends
<1>5. ASSUME NEW W PROVE IterOk(D, G, W, resume, it', "idle")
  <2>1. Shape(D)
    BY DumpShape
  <2>2. IsSeq(D[1])
    BY <2>1 DEF Shape
  <2>3. ScanOk(D[1], 1, <<>>, FALSE, <<>>, 0) /\ Scanned(D[1], 1, <<>>) = 1 - 1
    <3>1. 1 \in Nat \ {0}
      OBVIOUS
    <3> QED
      BY <2>2, <3>1, ScanStart, Zenon
  <2>4. Cover(D, G, W, 1, Scanned(D[1], 1, <<>>) + 1)
    BY <2>1, <2>3, CoverNone
  <2>5. Walked(D, G, W, 1, 1, <<>>, <<>>, 0)
    BY <2>4 DEF Walked
  <2>6. ASSUME resume # NoCoord PROVE \E s \in 1 .. 5 : 1 <= s /\ Stages[s] = resume.type
    BY <2>6 DEF Base
  <2> QED
    BY <1>2, <2>3, <2>5, <2>6, Zenon DEF IterOk
<1> QED
  BY <1>1, <1>3, <1>4, <1>5, Zenon DEF RunOk

\* Next takes over a batch that is not an error.
LEMMA NextOk ==
  ASSUME NEW D, NEW G, NEW E, NEW rs, NEW i, NEW dp, NEW ot, NEW rp, NEW fd, NEW hd, NEW bt, NEW bf,
         RunOk(D, G, E, rs, i, dp, ot, rp, fd, hd, bt, bf), bf = <<>>, bt # <<>>, Head(bt) # Broken
  PROVE  RunOk(D, G, E, rs, i, dp, ot, rp, fd, hd, Tail(bt), Head(bt))
<1>1. /\ PathOrder(D, G, E, bf, bt, hd, rp, ot)
      /\ IterOk(D, G, Whole(E, bf, bt, hd, rp, ot), rs, i, dp)
      /\ Ends(D, G, Past(E, bf, bt), rp, fd, hd, bt)
  BY Zenon DEF RunOk
<1>2. /\ PathOrder(D, G, E, Head(bt), Tail(bt), hd, rp, ot)
      /\ Past(E, Head(bt), Tail(bt)) = Past(E, bf, bt)
      /\ Whole(E, Head(bt), Tail(bt), hd, rp, ot) = Whole(E, bf, bt, hd, rp, ot)
  BY <1>1, MoveNext
<1>3. ASSUME NEW b \in DOMAIN bt, bt[b] = Broken PROVE \E c \in DOMAIN Tail(bt) : Tail(bt)[c] = Broken
  <2> DEFINE r == Tail(bt)
  <2>1. /\ DOMAIN bt = 1 .. Len(bt) /\ Len(bt) \in Nat \ {0} /\ DOMAIN r = 1 .. (Len(bt) - 1)
        /\ \A m \in 1 .. (Len(bt) - 1) : r[m] = bt[m + 1]
        /\ Head(bt) = bt[1]
    BY <1>1, SetTail DEF PathOrder
  <2> HIDE DEF r
  <2>2. b - 1 \in DOMAIN r /\ r[b - 1] = bt[b]
    BY <1>3, <2>1
  <2> QED
    BY <1>3, <2>2 DEF r
<1>4. Ends(D, G, Past(E, bf, bt), rp, fd, hd, Tail(bt))
  BY <1>1, <1>3, Zenon DEF Ends
<1> QED
  BY <1>1, <1>2, <1>4 DEF RunOk

\* A record becomes an event.
LEMMA EmitOk ==
  ASSUME NEW D, NEW G, NEW E, NEW rs, NEW i, NEW dp, NEW ot, NEW rp, NEW fd, NEW hd, NEW bt, NEW bf,
         RunOk(D, G, E, rs, i, dp, ot, rp, fd, hd, bt, bf), bf # <<>>
  PROVE  /\ RunOk(D, G, E \cup {Head(bf)}, rs, i, dp, ot, rp, fd, hd, bt, Tail(bf))
         /\ Follows(D, G, E, Head(bf))
<1>1. /\ PathOrder(D, G, E, bf, bt, hd, rp, ot)
      /\ IterOk(D, G, Whole(E, bf, bt, hd, rp, ot), rs, i, dp)
      /\ Ends(D, G, Past(E, bf, bt), rp, fd, hd, bt)
  BY Zenon DEF RunOk
<1> DEFINE F == E \cup {Head(bf)}
<1>2. /\ PathOrder(D, G, F, Tail(bf), bt, hd, rp, ot)
      /\ Past(F, Tail(bf), bt) = Past(E, bf, bt)
      /\ Whole(F, Tail(bf), bt, hd, rp, ot) = Whole(E, bf, bt, hd, rp, ot)
      /\ Follows(D, G, E, Head(bf))
  BY <1>1, MoveEmit
<1> HIDE DEF F
<1>3. RunOk(D, G, F, rs, i, dp, ot, rp, fd, hd, bt, Tail(bf))
  BY <1>1, <1>2 DEF RunOk
<1> QED
  BY <1>2, <1>3 DEF F

\* Less is owed once keys have expired.
LEMMA ExpireOk ==
  ASSUME NEW D, NEW G, NEW H, NEW E, NEW rs, NEW i, NEW dp, NEW ot, NEW rp, NEW fd, NEW hd, NEW bt, NEW bf,
         RunOk(D, G, E, rs, i, dp, ot, rp, fd, hd, bt, bf), G \subseteq H
  PROVE  RunOk(D, H, E, rs, i, dp, ot, rp, fd, hd, bt, bf)
<1> DEFINE W == Whole(E, bf, bt, hd, rp, ot)
           P == Past(E, bf, bt)
<1>1. /\ PathOrder(D, G, E, bf, bt, hd, rp, ot) /\ IterOk(D, G, W, rs, i, dp)
      /\ Ends(D, G, P, rp, fd, hd, bt)
  BY Zenon DEF RunOk
<1>2. PathOrder(D, H, E, bf, bt, hd, rp, ot)
  BY <1>1, MoveGrow
<1> HIDE DEF W, P
<1>3. \A V, s, k : Cover(D, G, V, s, k) => Cover(D, H, V, s, k)
  BY CoverMono
<1>4. Ends(D, H, P, rp, fd, hd, bt)
  BY <1>1, <1>3, Zenon DEF Ends
<1>5. Walked(D, G, W, i.stage, i.from, i.keys, i.cur, i.pos)
        => Walked(D, H, W, i.stage, i.from, i.keys, i.cur, i.pos)
  BY <1>3, Zenon DEF Walked
<1>6. IterOk(D, H, W, rs, i, dp)
  BY <1>1, <1>5, Zenon DEF IterOk
<1> QED
  BY <1>2, <1>4, <1>6, Zenon DEF RunOk, W, P

\* A coordinate stays safe when more is confirmed or dead.
LEMMA BaseMono ==
  ASSUME NEW D, NEW G, NEW H, NEW A, NEW B, NEW rs, Base(D, G, A, rs), G \subseteq H, A \subseteq B
  PROVE  Base(D, H, B, rs)
BY CoverMono, Zenon DEF Base

-----------------------------------------------------------------------------
(* The turns and the order, step by step *)

\* What is on the way is in order, the resume coordinate lies behind what the sink
\* has confirmed (the first a events), and only a whole dump ends the reading.
OrderInv(a) ==
  /\ Line(Dump, Dead, {}, Events(emitted)) /\ Base(Dump, Dead, AckedOf(emitted, a), resume)
  /\ rpc = "run" => RunOk(Dump, Dead, Emitted, resume, it, dpc, out, reply, feeder, held, batch, buf)
  /\ rpc \in {"closeOk", "done"} => Cover(Dump, Dead, Emitted, 6, 1)

\* Every step of the reader keeps to the turns.
LEMMA TurnsRead ==
  ASSUME ReadTypes, Turns, Reads
  PROVE  Turns'
<1>1. CASE UNCHANGED <<rpc, out, reply, held, batch, buf, quit, feeder, dpc>>
  BY <1>1, Zenon DEF Turns
<1>2. CASE rpc' \notin {"open", "run"}
  BY <1>2 DEF Turns
<1>3. CASE (Walk \/ ScanFails \/ DumperDies) /\ UNCHANGED <<feederVars, emitVars, runVars>>
  <2>1. UNCHANGED <<held, batch, feeder, buf, quit, rpc>>
    BY <1>3, Zenon DEF feederVars, emitVars
  <2>2. \/ dpc = "next" /\ UNCHANGED <<dpc, reply>>
        \/ dpc = "next" /\ dpc' = "idle" /\ reply' # <<>>
        \/ dpc \in {"idle", "next"} /\ dpc' = "exited" /\ UNCHANGED reply
    <3>1. <<out>> # <<>>
      OBVIOUS
    <3> QED
      BY <1>3, <3>1, Zenon
      DEF Walk, SkipStage, Engage, load_keys, EndStage, TakeKey, LeaveKey, StringRecord, ListRecord,
          HashRecord, SetRecord, ZSetRecord, WriteReply, DumperExits, ScanFails, DumperDies,
          Walking, BetweenKeys, AtKey
  <2>3. CASE rpc = "run"
    BY <2>1, <2>2, <2>3 DEF Turns
  <2>4. CASE rpc = "open"
    BY <2>2, <2>4 DEF Turns
  <2> QED
    BY <1>2, <2>1, <2>3, <2>4, Zenon
<1>4. CASE Feed /\ UNCHANGED <<emitVars, runVars>>
  <2>1. UNCHANGED <<buf, quit, rpc, out>>
    BY <1>4, FeedTypes DEF emitVars
  <2>2. CASE rpc = "run"
    BY <1>4, <2>1, <2>2, Zenon DEF Turns, Feed, FeederAsk, FeederRead, FeederPush, dumperVars
  <2>3. CASE rpc = "open"
    BY <1>4, <2>3 DEF Turns, Feed, FeederAsk, FeederRead, FeederPush
  <2> QED
    BY <1>2, <2>1, <2>2, <2>3, Zenon
<1>5. CASE Open
  BY <1>2, <1>5 DEF Turns, Open
<1>6. CASE NextBatch \/ EmitRecord
  BY <1>6 DEF Turns, NextBatch, EmitRecord, dumperVars, feederVars
<1>7. CASE NextEnd \/ CloseIterator \/ EmitStops
  BY <1>2, <1>7 DEF NextEnd, CloseIterator, EmitStops
<1>8. CASE ExpireKey
  BY <1>1, <1>8, Zenon DEF ExpireKey, dumperVars, feederVars, emitVars
<1> QED
  BY <1>3, <1>4, <1>5, <1>6, <1>7, <1>8, Zenon DEF Reads, ReadStep, ReadFault, EmitFails

\* Nothing writes to the dump.
LEMMA SameDump ==
  ASSUME Reads \/ Crash
  PROVE  UNCHANGED dirs /\ Dump' = Dump
<1>1. Reads => UNCHANGED dirs
  BY Zenon DEF Reads, ReadStep, ReadFault, Open, NextBatch, NextEnd, CloseIterator, ExpireKey,
               EmitFails, EmitStops, EmitRecord, runVars
<1>2. Crash => UNCHANGED dirs
  BY Zenon DEF Crash
<1> QED
  BY <1>1, <1>2 DEF Dump, Stored, DirOf, sniffLayout

\* A step that leaves the events, the expired keys and the coordinate alone.
LEMMA OrderKeeps ==
  ASSUME NEW a, OrderInv(a), Dump' = Dump, UNCHANGED <<gone, emitted, resume>>,
         rpc' = "run" => RunOk(Dump, Dead, Emitted, resume, it', dpc', out', reply', feeder', held',
                               batch', buf'),
         rpc' \in {"closeOk", "done"} => Cover(Dump, Dead, Emitted, 6, 1)
  PROVE  OrderInv(a)'
<1>1. Dead' = Dead /\ Emitted' = Emitted
  BY DEF Dead, Emitted
<1> QED
  BY <1>1 DEF OrderInv

\* Emitting a record.
LEMMA OrderEmit ==
  ASSUME IsSeq(emitted), NEW a \in Nat, OrderInv(a), EmitRecord
  PROVE  OrderInv(a)'
<1> DEFINE h == Head(buf)
           x == [rank |-> 0, pos |-> 0, seq |-> seq + 1, run |-> restarts, cmd |-> h.cmd,
                 type |-> h.type, key |-> h.key, args |-> h.args]
<1>1. /\ UNCHANGED <<gone, resume, rpc, it, dpc, out, reply, feeder, held, batch>> /\ rpc = "run"
      /\ buf # <<>> /\ buf' = Tail(buf)
  BY Zenon DEF EmitRecord, dumperVars, feederVars, runVars
<1>2. emitted' = Append(emitted, x)
  BY DEF EmitRecord
<1>3. Bare(x) = Bare(h)
  BY Zenon DEF Bare
<1>4. Dump' = Dump /\ Dead' = Dead
  BY <1>1, SameDump, Zenon DEF Reads, Dead
<1> HIDE DEF h, x
<1>5. /\ RunOk(Dump, Dead, Emitted \cup {h}, resume, it, dpc, out, reply, feeder, held, batch, Tail(buf))
      /\ Follows(Dump, Dead, Emitted, h)
  BY <1>1, EmitOk, Zenon DEF h, OrderInv
<1>6. h = Bare(x)
  BY <1>3, <1>5 DEF Follows
<1>7. Events(emitted') = Append(Events(emitted), h)
  BY <1>2, <1>6, EventsAppend, Zenon
<1>8. Emitted' = Emitted \cup {h} /\ Line(Dump, Dead, {}, Events(emitted'))
  <2> DEFINE v == Events(emitted)
  <2>1. IsSeq(v)
    BY EventsFacts
  <2>2. Line(Dump, Dead, {}, v)
    BY DEF OrderInv
  <2>3. Emitted = SetOf(v) /\ Emitted' = SetOf(Events(emitted'))
    BY DEF Emitted
  <2> HIDE DEF v
  <2>4. SetOf(Append(v, h)) = SetOf(v) \cup {h}
    BY <2>1, SetAppend
  <2>5. Follows(Dump, Dead, {} \cup SetOf(v), h)
    <3>1. {} \cup SetOf(v) = SetOf(v)
      OBVIOUS
    <3> QED
      BY <1>5, <2>3, <3>1
  <2>6. Line(Dump, Dead, {}, Append(v, h))
    BY <2>2, <2>5, LineAppend, Zenon
  <2> QED
    BY <1>7, <2>3, <2>4, <2>6, Zenon DEF v
<1>9. Base(Dump, Dead, AckedOf(emitted', a), resume)
  <2>1. AckedOf(emitted, a) \subseteq AckedOf(emitted', a)
    BY <1>2, AckedMono
  <2> QED
    BY <2>1, BaseMono DEF OrderInv
<1>10. RunOk(Dump, Dead, Emitted', resume', it', dpc', out', reply', feeder', held', batch', buf')
  BY <1>1, <1>5, <1>8, Zenon
<1> QED
  BY <1>1, <1>4, <1>8, <1>9, <1>10, Zenon DEF OrderInv

\* A key expires under the walk.
LEMMA OrderExpire ==
  ASSUME NEW a, OrderInv(a), ExpireKey
  PROVE  OrderInv(a)'
<1>1. /\ UNCHANGED <<emitted, resume, rpc, it, dpc, out, reply, feeder, held, batch, buf>> /\ rpc = "run"
      /\ gone \subseteq gone'
  BY Zenon DEF ExpireKey, dumperVars, feederVars, emitVars
<1>2. Dead \subseteq Dead' /\ Emitted' = Emitted
  BY <1>1 DEF Dead, Emitted
<1>3. Dump' = Dump
  BY SameDump DEF Reads, ReadFault
<1>4. Line(Dump, Dead', {}, Events(emitted))
  BY <1>2, LineMono DEF OrderInv
<1>5. Base(Dump, Dead', AckedOf(emitted, a), resume)
  BY <1>2, BaseMono, Zenon DEF OrderInv
<1>6. RunOk(Dump, Dead', Emitted, resume, it, dpc, out, reply, feeder, held, batch, buf)
  BY <1>1, <1>2, ExpireOk DEF OrderInv
<1> QED
  BY <1>1, <1>2, <1>3, <1>4, <1>5, <1>6, Zenon DEF OrderInv

\* Every step of the reader keeps the order.
LEMMA OrderRead ==
  ASSUME ReadTypes, Turns, IsSeq(emitted), NEW a \in Nat, OrderInv(a), Reads
  PROVE  OrderInv(a)'
<1>1. Dump' = Dump /\ Turns'
  BY SameDump, TurnsRead, Zenon
<1>2. /\ Base(Dump, Dead, AckedOf(emitted, a), resume) /\ AckedOf(emitted, a) \subseteq Emitted
      /\ rpc = "run" => RunOk(Dump, Dead, Emitted, resume, it, dpc, out, reply, feeder, held, batch, buf)
      /\ rpc \in {"closeOk", "done"} => Cover(Dump, Dead, Emitted, 6, 1)
  BY AckedMono DEF OrderInv, Emitted
<1>3. CASE (Walk \/ ScanFails \/ DumperDies) /\ UNCHANGED <<feederVars, emitVars, runVars>>
  <2>1. UNCHANGED <<held, batch, feeder, buf, rpc, emitted, gone, resume>>
    BY <1>3, Zenon DEF feederVars, emitVars, runVars
  <2>2. ASSUME rpc = "run"
        PROVE  RunOk(Dump, Dead, Emitted, resume, it', dpc', out', reply', feeder', held', batch', buf')
    <3>1. RunOk(Dump, Dead, Emitted, resume, it', dpc', out', reply', feeder, held, batch, buf)
      BY <1>2, <1>3, <2>2, WalkOk, Zenon
    <3> QED
      BY <2>1, <3>1, Zenon
  <2> QED
    BY <1>1, <1>2, <2>1, <2>2, OrderKeeps, Zenon
<1>4. CASE Feed /\ UNCHANGED <<emitVars, runVars>>
  <2>1. UNCHANGED <<buf, rpc, emitted, gone, resume, it, out>>
    BY <1>4, FeedTypes DEF emitVars, runVars
  <2>2. ASSUME rpc = "run"
        PROVE  RunOk(Dump, Dead, Emitted, resume, it', dpc', out', reply', feeder', held', batch', buf')
    <3>1. RunOk(Dump, Dead, Emitted, resume, it, dpc', out, reply', feeder', held', batch', buf)
      BY <1>2, <1>4, <2>2, FeedOk, Zenon
    <3> QED
      BY <2>1, <3>1, Zenon
  <2> QED
    BY <1>1, <1>2, <2>1, <2>2, OrderKeeps, Zenon
<1>5. CASE Open
  <2>1. UNCHANGED <<emitted, gone, resume>> /\ rpc' \in {"run", "failed"}
    BY <1>5, Zenon DEF Open, runVars
  <2>2. ASSUME rpc' = "run"
        PROVE  RunOk(Dump, Dead, Emitted, resume, it', dpc', out', reply', feeder', held', batch', buf')
    BY <1>1, <1>2, <1>5, <2>2, OpenOk, Zenon
  <2> QED
    BY <1>1, <2>1, <2>2, OrderKeeps
<1>6. CASE NextBatch
  <2>1. /\ UNCHANGED <<emitted, gone, resume, it, dpc, out, reply, feeder, held>> /\ rpc = "run"
        /\ buf = <<>> /\ batch # <<>> /\ batch' = Tail(batch)
    BY <1>6, Zenon DEF NextBatch, dumperVars, runVars
  <2>2. CASE rpc' = "closeErr"
    BY <1>1, <2>1, <2>2, OrderKeeps, Zenon
  <2>3. CASE Head(batch) # Broken /\ buf' = Head(batch) /\ UNCHANGED rpc
    <3>1. RunOk(Dump, Dead, Emitted, resume, it, dpc, out, reply, feeder, held, Tail(batch), Head(batch))
      BY <1>2, <2>1, <2>3, NextOk, Zenon
    <3>2. RunOk(Dump, Dead, Emitted, resume, it', dpc', out', reply', feeder', held', batch', buf')
      BY <2>1, <2>3, <3>1, Zenon
    <3> QED
      BY <1>1, <2>1, <2>3, <3>2, OrderKeeps, Zenon
  <2> QED
    BY <1>6, <2>2, <2>3 DEF NextBatch
<1>7. CASE NextEnd
  <2>1. /\ UNCHANGED <<emitted, gone, resume>> /\ rpc = "run" /\ rpc' = "closeOk"
        /\ buf = <<>> /\ batch = <<>> /\ feeder = "ended"
    BY <1>7, Zenon DEF NextEnd, runVars
  <2>2. Ends(Dump, Dead, Past(Emitted, <<>>, <<>>), reply, "ended", held, <<>>)
    BY <1>2, <2>1 DEF RunOk
  <2>3. Past(Emitted, <<>>, <<>>) = Emitted
    BY SetEmpty, Zenon DEF Past
  <2>4. Cover(Dump, Dead, Emitted, 6, 1)
    BY <2>2, <2>3, SeqEmpty, Zenon DEF Ends
  <2> QED
    BY <1>1, <2>1, <2>4, OrderKeeps
<1>8. CASE CloseIterator \/ EmitStops
  <2>1. /\ UNCHANGED <<emitted, gone, resume>> /\ rpc' # "run"
        /\ rpc' \in {"closeOk", "done"} => rpc = "closeOk"
    BY <1>8 DEF CloseIterator, EmitStops, Closing, runVars
  <2> QED
    BY <1>1, <1>2, <2>1, OrderKeeps, Zenon
<1>9. CASE EmitRecord \/ ExpireKey
  BY <1>9, OrderEmit, OrderExpire, Zenon
<1> QED
  BY <1>3, <1>4, <1>5, <1>6, <1>7, <1>8, <1>9, Zenon DEF Reads, ReadStep, ReadFault, EmitFails

\* The coordinate of a confirmed event is a safe one.
LEMMA BaseAt ==
  ASSUME NEW D, NEW G, IsSeq(emitted), Line(D, G, {}, Events(emitted)), NEW a \in Nat,
         NEW i \in 1 .. a, i \in DOMAIN emitted
  PROVE  Base(D, G, AckedOf(emitted, a), [type |-> emitted[i].type, key |-> emitted[i].key])
<1> DEFINE v == Events(emitted)
           A == {} \cup {v[j] : j \in 1 .. (i - 1)}
           c == [type |-> emitted[i].type, key |-> emitted[i].key]
<1>1. /\ Len(emitted) \in Nat /\ DOMAIN emitted = 1 .. Len(emitted) /\ DOMAIN v = DOMAIN emitted
      /\ \A m \in DOMAIN emitted : v[m] = Bare(emitted[m])
  BY EventsFacts, Zenon
<1>2. v[i].type = c.type /\ v[i].key = c.key
  BY <1>1 DEF Bare
<1>3. Follows(D, G, A, v[i])
  BY <1>1, Zenon DEF Line
<1>4. A \subseteq AckedOf(emitted, a)
  <2>1. \A j \in 1 .. (i - 1) : j \in DOMAIN emitted /\ j <= a
    BY <1>1
  <2> QED
    BY <1>1, <2>1 DEF AckedOf
<1> HIDE DEF v, A, c
<1>5. \E s \in 1 .. 5 : Stages[s] = c.type
  BY <1>2, <1>3 DEF Follows
<1>6. ASSUME NEW s \in 1 .. 5, NEW k \in DOMAIN D[s], Stages[s] = c.type, D[s][k].key = c.key
      PROVE  Cover(D, G, AckedOf(emitted, a), s, k)
  <2>1. Cover(D, G, A, s, k)
    BY <1>2, <1>3, <1>6, Zenon DEF Follows
  <2> QED
    BY <1>4, <2>1, CoverMono, Zenon
<1>7. Base(D, G, AckedOf(emitted, a), c)
  BY <1>5, <1>6, Zenon DEF Base
<1> QED
  BY <1>7 DEF c

\* A crash that resumes where it started, or at an event the sink has confirmed.
LEMMA OrderCrash ==
  ASSUME IsSeq(emitted), NEW a \in Nat, a <= Len(emitted), OrderInv(a), Crash,
         emitted' = SubSeq(emitted, 1, a),
         \/ resume' = resume
         \/ \E i \in 1 .. a : [type |-> emitted[i].type, key |-> emitted[i].key] = resume'
  PROVE  OrderInv(a)'
<1>1. Dump' = Dump /\ Dead' = Dead /\ rpc' = "open"
  BY SameDump, Zenon DEF Crash, Dead
<1>2. Len(emitted) \in Nat /\ DOMAIN emitted = 1 .. Len(emitted)
  BY EventsFacts
<1>3. Line(Dump, Dead, {}, Events(emitted)) /\ Base(Dump, Dead, AckedOf(emitted, a), resume)
  BY DEF OrderInv
<1>4. Line(Dump, Dead, {}, Events(emitted'))
  <2>1. Events(emitted') = SubSeq(Events(emitted), 1, a) /\ Len(Events(emitted)) = Len(emitted)
    BY <1>2, EventsCut, EventsFacts, Zenon
  <2> QED
    BY <1>2, <1>3, <2>1, LineCut, Zenon
<1>5. AckedOf(emitted, a) \subseteq AckedOf(emitted', a)
  BY <1>2, AckedMono, Zenon
<1>6. Base(Dump, Dead, AckedOf(emitted, a), resume')
  <2>1. ASSUME NEW i \in 1 .. a, [type |-> emitted[i].type, key |-> emitted[i].key] = resume'
        PROVE  Base(Dump, Dead, AckedOf(emitted, a), resume')
    <3>1. i \in DOMAIN emitted
      BY <1>2
    <3> QED
      BY <1>3, <2>1, <3>1, BaseAt, Zenon
  <2> QED
    BY <1>3, <2>1, Zenon
<1>7. Base(Dump, Dead, AckedOf(emitted', a), resume')
  BY <1>5, <1>6, BaseMono, Zenon
<1> QED
  BY <1>1, <1>4, <1>7 DEF OrderInv

\* The sink has confirmed more, or the whole dump.
LEMMA OrderMore ==
  ASSUME IsSeq(emitted), NEW a \in Nat, NEW b \in Nat, a <= b \/ Len(emitted) <= b, OrderInv(a)
  PROVE  OrderInv(b)
<1>1. AckedOf(emitted, a) \subseteq AckedOf(emitted, b)
  BY AckedMono
<1>2. Base(Dump, Dead, AckedOf(emitted, b), resume)
  BY <1>1, BaseMono, Zenon DEF OrderInv
<1> QED
  BY <1>2 DEF OrderInv

\* A new reader is in order.
LEMMA OrderInit ==
  ASSUME ReadInit, NEW a
  PROVE  Turns /\ OrderInv(a)
<1>1. /\ rpc = "open" /\ resume = NoCoord /\ out = <<>> /\ reply = <<>> /\ held = <<>> /\ batch = <<>>
      /\ buf = <<>> /\ quit = FALSE /\ feeder = "none" /\ dpc = "none" /\ emitted = <<>>
  BY Zenon DEF ReadInit
<1>2. Turns
  BY <1>1, Zenon DEF Turns
<1>3. Line(Dump, Dead, {}, Events(emitted))
  <2>1. IsSeq(Events(emitted)) /\ DOMAIN Events(emitted) = {}
    BY <1>1, SeqEmpty, EventsFacts, Zenon
  <2> QED
    BY <2>1 DEF Line
<1>4. Base(Dump, Dead, AckedOf(emitted, a), resume)
  BY <1>1 DEF Base
<1> QED
  BY <1>1, <1>2, <1>3, <1>4, Zenon DEF OrderInv

-----------------------------------------------------------------------------
(* Safe places to resume from *)

\* A key whose records were emitted has all its commands among the events.
LEMMA RecordsAmong ==
  ASSUME IsSeq(emitted), NEW s \in 1 .. 5, NEW i \in DOMAIN Dump[s], NEW m,
         \A x \in Records(s, Dump[s][i]) : \E j \in DOMAIN emitted : j <= m /\ x = Bare(emitted[j])
  PROVE  AllAmong(Image(Stages[s], Dump[s][i]), Stages[s], Dump[s][i].key, m)
<1> DEFINE e == Dump[s][i]
           t == Stages[s]
<1>1. s # 1 => IsSeq(e.content)
  BY DumpShape, Zenon DEF Shape
<1> HIDE DEF e
<1> SUFFICES ASSUME NEW n \in DOMAIN Image(t, e)
             PROVE  \E j \in DOMAIN emitted :
                      /\ j <= m /\ emitted[j].type = t /\ emitted[j].key = e.key
                      /\ <<emitted[j].cmd, emitted[j].args>> = Image(t, e)[n]
  BY Zenon DEF AllAmong, e
<1>2. PICK x \in Records(s, e) : <<x.cmd, x.args>> = Image(t, e)[n]
  BY <1>1, ImageRecords, Zenon
<1>3. x.type = t /\ x.key = e.key
  BY RecordsOfKey
<1>4. PICK j \in DOMAIN emitted : j <= m /\ x = Bare(emitted[j])
  BY Zenon DEF e
<1>5. x.type = emitted[j].type /\ x.key = emitted[j].key /\ x.cmd = emitted[j].cmd /\ x.args = emitted[j].args
  BY <1>4 DEF Bare
<1> HIDE DEF t
<1> QED
  BY <1>2, <1>3, <1>4, <1>5, Zenon

\* The invariant says where it is safe to resume.
LEMMA OrderSafe ==
  ASSUME IsSeq(emitted), NEW a, OrderInv(a)
  PROVE  Resumable
<1> DEFINE v == Events(emitted)
<1>1. IsSeq(emitted) /\ Len(emitted) \in Nat /\ DOMAIN emitted = 1 .. Len(emitted)
  BY EventsFacts, Zenon
<1>2. DOMAIN v = DOMAIN emitted /\ \A m \in DOMAIN emitted : v[m] = Bare(emitted[m])
  BY <1>1, EventsFacts, Zenon
<1> SUFFICES ASSUME NEW s \in 1 .. 5, NEW i \in DOMAIN Dump[s], Dump[s][i].key \notin Dead
             PROVE  /\ \A m \in DOMAIN emitted :
                         <<emitted[m].type, emitted[m].key>> \in Behind(s, i)
                           => AllAmong(Image(Stages[s], Dump[s][i]), Stages[s], Dump[s][i].key, m - 1)
                    /\ rpc = "done" =>
                         AllAmong(Image(Stages[s], Dump[s][i]), Stages[s], Dump[s][i].key, Len(emitted))
  <2>1. DOMAIN Stages = 1 .. 5
    BY DEF Stages
  <2>2. \A u \in 1 .. 5 : Dump[u] = Stored(Stages[u])
    BY Zenon DEF Dump
  <2>3. Dead = SlotKeys \cup gone
    BY DEF Dead
  <2> SUFFICES ASSUME NEW s \in DOMAIN Stages, NEW i \in DOMAIN Stored(Stages[s]),
                      Stored(Stages[s])[i].key \notin SlotKeys \cup gone
               PROVE  /\ \A m \in DOMAIN emitted :
                           <<emitted[m].type, emitted[m].key>> \in Behind(s, i)
                             => AllAmong(Image(Stages[s], Stored(Stages[s])[i]), Stages[s],
                                         Stored(Stages[s])[i].key, m - 1)
                      /\ rpc = "done" =>
                           AllAmong(Image(Stages[s], Stored(Stages[s])[i]), Stages[s],
                                    Stored(Stages[s])[i].key, Len(emitted))
    BY Zenon DEF Resumable
  <2>4. s \in 1 .. 5 /\ Stored(Stages[s]) = Dump[s]
    BY <2>1, <2>2, Zenon
  <2>5. i \in DOMAIN Dump[s] /\ Dump[s][i].key \notin Dead
    BY <2>3, <2>4, Zenon
  <2> QED
    BY <2>4, <2>5, Zenon
<1>3. ASSUME NEW m \in DOMAIN emitted, NEW u \in 1 .. 5, NEW k \in DOMAIN Dump[u],
             emitted[m].type = Stages[u], emitted[m].key = Dump[u][k].key, s < u \/ (s = u /\ i < k)
      PROVE  AllAmong(Image(Stages[s], Dump[s][i]), Stages[s], Dump[s][i].key, m - 1)
  <2> DEFINE A == {} \cup {v[j] : j \in 1 .. (m - 1)}
  <2>1. Follows(Dump, Dead, A, v[m])
    BY <1>2, Zenon DEF OrderInv, Line
  <2> HIDE DEF A, v
  <2>2. v[m].type = Stages[u] /\ v[m].key = Dump[u][k].key
    <3>1. v[m] = Bare(emitted[m])
      BY <1>2, Zenon
    <3>2. Bare(emitted[m]).type = emitted[m].type /\ Bare(emitted[m]).key = emitted[m].key
      BY Zenon DEF Bare
    <3> QED
      BY <1>3, <3>1, <3>2, Zenon
  <2>3. \A x \in A : \E j \in DOMAIN emitted : j <= m - 1 /\ x = Bare(emitted[j])
    <3>1. \A j \in 1 .. (m - 1) : j \in DOMAIN emitted /\ j <= m - 1
      <4> DEFINE L == Len(emitted)
      <4>1. L \in Nat /\ DOMAIN emitted = 1 .. L /\ m \in 1 .. L
        BY <1>1, Zenon
      <4> HIDE DEF L
      <4> QED
        BY <4>1
    <3> QED
      BY <1>2, <3>1, Zenon DEF A
  <2>4. Cover(Dump, Dead, A, u, k)
    BY <2>1, <2>2, Zenon DEF Follows
  <2>5. Records(s, Dump[s][i]) \subseteq A
    BY <1>3, <2>4, Zenon DEF Cover
  <2>6. \A x \in Records(s, Dump[s][i]) : \E j \in DOMAIN emitted : j <= m - 1 /\ x = Bare(emitted[j])
    BY <2>3, <2>5, Zenon
  <2> QED
    BY <1>1, <2>6, RecordsAmong, Zenon
<1>4. ASSUME rpc = "done"
      PROVE  AllAmong(Image(Stages[s], Dump[s][i]), Stages[s], Dump[s][i].key, Len(emitted))
  <2>1. Cover(Dump, Dead, Emitted, 6, 1)
    BY <1>4, Zenon DEF OrderInv
  <2>2. Records(s, Dump[s][i]) \subseteq Emitted
    <3>1. s < 6
      OBVIOUS
    <3> QED
      BY <2>1, <3>1, Zenon DEF Cover
  <2>3. \A x \in Emitted : \E j \in DOMAIN emitted : j <= Len(emitted) /\ x = Bare(emitted[j])
    BY <1>1, <1>2 DEF Emitted, SetOf
  <2>4. \A x \in Records(s, Dump[s][i]) :
          \E j \in DOMAIN emitted : j <= Len(emitted) /\ x = Bare(emitted[j])
    BY <2>2, <2>3
  <2> QED
    BY <1>1, <2>4, RecordsAmong
<1>5. ASSUME NEW m \in DOMAIN emitted, <<emitted[m].type, emitted[m].key>> \in Behind(s, i)
      PROVE  AllAmong(Image(Stages[s], Dump[s][i]), Stages[s], Dump[s][i].key, m - 1)
  <2>1. PICK u \in DOMAIN Stages : \E k \in DOMAIN Stored(Stages[u]) :
          /\ s < u \/ (s = u /\ i < k)
          /\ <<emitted[m].type, emitted[m].key>> = <<Stages[u], Stored(Stages[u])[k].key>>
    BY <1>5 DEF Behind
  <2>2. u \in 1 .. 5 /\ Stored(Stages[u]) = Dump[u]
    BY DEF Dump, Stages
  <2>3. PICK k \in DOMAIN Dump[u] :
          /\ s < u \/ (s = u /\ i < k)
          /\ <<emitted[m].type, emitted[m].key>> = <<Stages[u], Dump[u][k].key>>
    BY <2>1, <2>2, Zenon
  <2>4. emitted[m].type = Stages[u] /\ emitted[m].key = Dump[u][k].key
    BY <2>3
  <2> QED
    BY <1>3, <2>2, <2>3, <2>4, Zenon
<1> QED
  BY <1>4, <1>5, Zenon

=============================================================================
