----------------------------- MODULE VerifyKafka -----------------------------
(***************************************************************************)
(* The consumer's view of the stream (cmd/pikatool/verifykafka.go): the    *)
(* events of a key, collected from every partition, are sorted by phase,   *)
(* source position and ordinal, replayed into a model of the key, and the  *)
(* model is compared with pika's own value.                                *)
(*                                                                         *)
(* An event is [rank, pos, seq, cmd, type, key, args]; args are the        *)
(* command's arguments after the key, pairs for HMSET (field, value) and   *)
(* ZADD (score text, member).  A score is an integer number of 1e-7 units; *)
(* its text carries the format it was printed with.                        *)
(***************************************************************************)
EXTENDS Integers, Sequences, FiniteSets, TLC

None == [typ |-> "none", val |-> <<>>]

Elems(s) == {s[i] : i \in 1 .. Len(s)}

\* The operators of SequencesExt that are used here: extending it would put the
\* whole library into the context of every step of SnapshotProofs.
FoldLeft(op(_, _), base, s) ==
  LET fold[i \in 0 .. Len(s)] == IF i = 0 THEN base ELSE op(fold[i - 1], s[i])
  IN fold[Len(s)]
Front(s) == SubSeq(s, 1, Len(s) - 1)
IsPrefix(s, t) == Len(s) <= Len(t) /\ s = SubSeq(t, 1, Len(s))

\* A container command on an absent key creates the container.
Container(m, t, zero) == IF m.typ = "none" THEN [typ |-> t, val |-> zero] ELSE m

\* An emptied container is an absent key.
Left(m, v) == IF (IF m.typ = "set" THEN v ELSE DOMAIN v) = {}
              THEN None ELSE [m EXCEPT !.val = v]

Without(f, xs) == [x \in DOMAIN f \ Elems(xs) |-> f[x]]

SetPairs(f, pairs, k, v) == FoldLeft(LAMBDA g, p : (p[k] :> p[v]) @@ g, f, pairs)

\* A command the model does not know, or of another type, leaves it unchanged.
apply(m, e) ==
  LET On(t, zero) == Container(m, t, zero)
      Is(t) == m.typ = t
      Fits(t) == m.typ \in {"none", t}
  IN CASE e.cmd \in {"SET", "SETEX", "PSETEX", "GETSET"} -> [typ |-> "string", val |-> e.args[1]]
       [] e.cmd \in {"DEL", "UNLINK"} -> None
       [] e.cmd \in {"HSET", "HMSET"} /\ Fits("hash") ->
            LET c == On("hash", <<>>)
                pairs == IF e.cmd = "HSET" THEN <<e.args[1]>> ELSE e.args
            IN [c EXCEPT !.val = SetPairs(@, pairs, 1, 2)]
       [] e.cmd = "HDEL" /\ Is("hash") -> Left(m, Without(m.val, e.args))
       [] e.cmd = "RPUSH" /\ Fits("list") ->
            LET c == On("list", <<>>) IN [c EXCEPT !.val = @ \o e.args]
       [] e.cmd = "LPOP" /\ Is("list") -> Left(m, Tail(m.val))
       [] e.cmd = "RPOP" /\ Is("list") -> Left(m, Front(m.val))
       [] e.cmd = "SADD" /\ Fits("set") ->
            LET c == On("set", {}) IN [c EXCEPT !.val = @ \cup Elems(e.args)]
       [] e.cmd = "SREM" /\ Is("set") -> Left(m, m.val \ Elems(e.args))
       [] e.cmd = "ZADD" /\ Fits("zset") ->
            LET c == On("zset", <<>>) IN [c EXCEPT !.val = SetPairs(@, e.args, 2, 1)]
       [] e.cmd = "ZREM" /\ Is("zset") -> Left(m, Without(m.val, e.args))
       [] OTHER -> m

\* std::to_string(double) prints six decimals; pika's replies the shortest form.
Fixed6(u) == [fmt |-> "fixed", units |-> ((u + 5) \div 10) * 10]
Shortest(u) == [fmt |-> "short", units |-> u]

normScore(t) == t.units

Scores(f) == [x \in DOMAIN f |-> normScore(f[x])]

\* The value of a key, rendered for comparison: of the model, and of pika.
canonical(m) == IF m.typ = "zset" THEN [m EXCEPT !.val = Scores(@)] ELSE m
pikaCanonical(v) ==
  IF v.typ = "zset"
  THEN [v EXCEPT !.val = Scores([x \in DOMAIN @ |-> Shortest(@[x])])] ELSE v

\* Altered form: the phase is not part of the order.
BeforeIgnoresPhase(a, b) == a.seq < b.seq \/ (a.seq = b.seq /\ a.pos < b.pos)

Before(a, b) ==
  \/ a.rank < b.rank
  \/ a.rank = b.rank /\ a.pos < b.pos
  \/ a.rank = b.rank /\ a.pos = b.pos /\ a.seq < b.seq

\* The replay of the events of one key, whatever partition each came from.
Replay(evs, k) ==
  LET mine == SelectSeq(evs, LAMBDA e : e.key = k)
      order == SortSeq([i \in DOMAIN mine |-> i],
                       LAMBDA i, j : \/ Before(mine[i], mine[j])
                                     \/ ~Before(mine[j], mine[i]) /\ i < j)
  IN FoldLeft(LAMBDA m, i : apply(m, mine[i]), None, order)

=============================================================================
