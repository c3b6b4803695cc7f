---------------------------- MODULE ReaderProofs ----------------------------
(***************************************************************************)
(* Proofs about RsyncFetch and DumpReader that are not about the order of  *)
(* the records: the files of a transfer are those of one snapshot, the     *)
(* reader's state keeps its shape, no slot key gets past the walk.  Then   *)
(* the lemmas OrderProofs is built on: the commands of a key, records on   *)
(* their way from the walk to the events, the scans and the iterator.      *)
(***************************************************************************)
EXTENDS RsyncFetch, DumpReader, TLAPS

\* Unless a step says otherwise: Z3, then Zenon, then Z3 with more time.
USE SMTT(10), ZenonT(20), Z3T(30)

IsSeq(s) == s \in Seq({s[i] : i \in DOMAIN s})
SetOf(q) == {q[m] : m \in DOMAIN q}

-----------------------------------------------------------------------------
(* Sequences whose elements have no common type *)

\* A sequence over any set is one over its own elements.
LEMMA AnySeq ==
  ASSUME NEW S, NEW s \in Seq(S)
  PROVE  IsSeq(s)
<1> DEFINE R == {s[i] : i \in DOMAIN s}
<1>1. Len(s) \in Nat /\ s \in [1 .. Len(s) -> S] /\ DOMAIN s = 1 .. Len(s)
  OBVIOUS
<1>2. s \in [1 .. Len(s) -> R]
  BY <1>1
<1>3. s \in Seq(R)
  <2> HIDE DEF R
  <2> QED
    BY <1>1, <1>2
<1> QED
  BY <1>3 DEF IsSeq

\* Appending to a sequence.
LEMMA SeqAppend ==
  ASSUME NEW s, NEW x, IsSeq(s)
  PROVE  IsSeq(Append(s, x)) /\ Len(s) \in Nat /\ Len(Append(s, x)) = Len(s) + 1
<1> DEFINE T == {s[i] : i \in DOMAIN s} \cup {x}
<1>1. Len(s) \in Nat /\ DOMAIN s = 1 .. Len(s) /\ s \in [1 .. Len(s) -> T]
  BY DEF IsSeq
<1>2. s \in Seq(T) /\ x \in T
  BY <1>1
<1> HIDE DEF T
<1>3. Append(s, x) \in Seq(T) /\ Len(Append(s, x)) = Len(s) + 1
  BY <1>2
<1> QED
  BY <1>1, <1>3, AnySeq, Zenon

\* Taking the head off a sequence.
LEMMA SeqTail ==
  ASSUME NEW s, IsSeq(s), s # <<>>
  PROVE  IsSeq(Tail(s)) /\ Len(s) \in Nat \ {0} /\ Len(Tail(s)) = Len(s) - 1
<1> DEFINE S == {s[i] : i \in DOMAIN s}
<1>1. s \in Seq(S)
  BY DEF IsSeq
<1> HIDE DEF S
<1>2. Tail(s) \in Seq(S) /\ Len(s) \in Nat \ {0} /\ Len(Tail(s)) = Len(s) - 1
  BY <1>1
<1> QED
  BY <1>2, AnySeq, Zenon

\* A prefix of a sequence.
LEMMA SeqCut ==
  ASSUME NEW s, IsSeq(s), NEW n \in Nat, n <= Len(s)
  PROVE  IsSeq(SubSeq(s, 1, n)) /\ Len(SubSeq(s, 1, n)) = n
<1> DEFINE S == {s[i] : i \in DOMAIN s}
<1>1. s \in Seq(S) /\ Len(s) \in Nat
  BY DEF IsSeq
<1> HIDE DEF S
<1>2. \A i \in 1 .. n : s[i] \in S
  BY <1>1
<1>3. Len(SubSeq(s, 1, n)) = n
  BY <1>1
<1>4. SubSeq(s, 1, n) = [i \in 1 .. n |-> s[i]]
  BY <1>1
<1>5. SubSeq(s, 1, n) \in Seq(S)
  BY <1>2, <1>4
<1> QED
  BY <1>3, <1>5, AnySeq, Zenon

\* Two sequences joined.
LEMMA SeqJoin ==
  ASSUME NEW s, NEW t, IsSeq(s), IsSeq(t)
  PROVE  Len(s) \in Nat /\ Len(t) \in Nat /\ Len(s \o t) = Len(s) + Len(t)
<1> DEFINE S == {s[i] : i \in DOMAIN s} \cup {t[i] : i \in DOMAIN t}
<1>1. /\ Len(s) \in Nat /\ s \in [1 .. Len(s) -> S]
      /\ Len(t) \in Nat /\ t \in [1 .. Len(t) -> S]
  <2>1. Len(s) \in Nat /\ DOMAIN s = 1 .. Len(s) /\ s \in [1 .. Len(s) -> S]
    BY DEF IsSeq
  <2>2. Len(t) \in Nat /\ DOMAIN t = 1 .. Len(t) /\ t \in [1 .. Len(t) -> S]
    BY DEF IsSeq
  <2> QED
    BY <2>1, <2>2
<1>2. s \in Seq(S) /\ t \in Seq(S)
  BY <1>1
<1> HIDE DEF S
<1> QED
  BY <1>1, <1>2

\* A channel that takes an element only while there is room stays within its bound.
LEMMA SeqBounded ==
  ASSUME NEW s, NEW t, NEW x, NEW n \in Nat, IsSeq(s), Len(s) <= n,
         t = s \/ (Len(s) < n /\ t = Append(s, x))
  PROVE  IsSeq(t) /\ Len(t) <= n
<1>1. CASE t = s
  BY <1>1
<1>2. CASE Len(s) < n /\ t = Append(s, x)
  <2>1. IsSeq(t) /\ Len(s) \in Nat /\ Len(t) = Len(s) + 1
    BY Zenon, <1>2, SeqAppend
  <2> QED
    BY <1>2, <2>1
<1> QED
  BY <1>1, <1>2

\* The empty sequence.
LEMMA SeqEmpty == IsSeq(<<>>) /\ Len(<<>>) = 0 /\ DOMAIN <<>> = {}
<1>1. <<>> \in Seq({})
  OBVIOUS
<1>2. IsSeq(<<>>)
  BY Zenon, <1>1, AnySeq
<1>3. Len(<<>>) = 0 /\ DOMAIN <<>> = {}
  OBVIOUS
<1> QED
  BY <1>2, <1>3

\* The elements after an Append.
LEMMA SetAppend ==
  ASSUME NEW q, NEW x, IsSeq(q)
  PROVE  /\ IsSeq(Append(q, x)) /\ DOMAIN q = 1 .. Len(q) /\ Len(q) \in Nat
         /\ DOMAIN Append(q, x) = 1 .. (Len(q) + 1)
         /\ \A m \in 1 .. Len(q) : Append(q, x)[m] = q[m]
         /\ Append(q, x)[Len(q) + 1] = x
         /\ SetOf(Append(q, x)) = SetOf(q) \cup {x}
<1> DEFINE T == SetOf(q) \cup {x}
<1>1. Len(q) \in Nat /\ DOMAIN q = 1 .. Len(q) /\ q \in [1 .. Len(q) -> T] /\ x \in T
  BY DEF IsSeq, SetOf
<1>2. q \in Seq(T)
  BY <1>1
<1> HIDE DEF T
<1>3. /\ DOMAIN Append(q, x) = 1 .. (Len(q) + 1) /\ Append(q, x)[Len(q) + 1] = x
      /\ \A m \in 1 .. Len(q) : Append(q, x)[m] = q[m]
  BY <1>1, <1>2
<1>4. SetOf(Append(q, x)) = SetOf(q) \cup {x}
  BY <1>1, <1>3 DEF SetOf
<1> QED
  BY <1>1, <1>3, <1>4, SeqAppend, Zenon

\* Append, Head, Tail and SubSeq bring in no other element.
LEMMA Elements ==
  ASSUME NEW s, IsSeq(s)
  PROVE  /\ \A x : \A i \in DOMAIN Append(s, x) :
              Append(s, x)[i] = x \/ \E j \in DOMAIN s : Append(s, x)[i] = s[j]
         /\ s # <<>> => /\ \E j \in DOMAIN s : Head(s) = s[j]
                        /\ \A i \in DOMAIN Tail(s) : \E j \in DOMAIN s : Tail(s)[i] = s[j]
         /\ \A n \in Nat : n <= Len(s) =>
              \A i \in DOMAIN SubSeq(s, 1, n) : \E j \in DOMAIN s : SubSeq(s, 1, n)[i] = s[j]
<1> DEFINE S == {s[i] : i \in DOMAIN s}
<1>1. s \in Seq(S) /\ Len(s) \in Nat /\ DOMAIN s = 1 .. Len(s)
  BY DEF IsSeq
<1>2. ASSUME NEW x, NEW i \in DOMAIN Append(s, x)
      PROVE  Append(s, x)[i] = x \/ \E j \in DOMAIN s : Append(s, x)[i] = s[j]
  <2> DEFINE T == S \cup {x}
  <2>1. s \in [1 .. Len(s) -> T]
    BY <1>1
  <2>2. s \in Seq(T) /\ x \in T
    BY <1>1, <2>1
  <2> HIDE DEF S, T
  <2>3. DOMAIN Append(s, x) = 1 .. Len(s) + 1
    BY <2>2
  <2>4. \A k \in 1 .. Len(s) : Append(s, x)[k] = s[k]
    BY <2>2
  <2>5. Append(s, x)[Len(s) + 1] = x
    BY <2>2
  <2> QED
    BY <1>1, <1>2, <2>3, <2>4, <2>5
<1> HIDE DEF S
<1>3. ASSUME s # <<>>
      PROVE  /\ \E j \in DOMAIN s : Head(s) = s[j]
             /\ \A i \in DOMAIN Tail(s) : \E j \in DOMAIN s : Tail(s)[i] = s[j]
  <2>1. Len(s) >= 1 /\ Head(s) = s[1] /\ DOMAIN Tail(s) = 1 .. (Len(s) - 1)
    BY <1>1, <1>3
  <2>2. \A i \in 1 .. (Len(s) - 1) : Tail(s)[i] = s[i + 1] /\ i + 1 \in 1 .. Len(s)
    BY <1>1, <1>3
  <2> QED
    BY <1>1, <2>1, <2>2
<1>4. ASSUME NEW n \in Nat, n <= Len(s)
      PROVE  \A i \in DOMAIN SubSeq(s, 1, n) : \E j \in DOMAIN s : SubSeq(s, 1, n)[i] = s[j]
  <2>1. SubSeq(s, 1, n) = [i \in 1 .. n |-> s[i]]
    BY <1>1, <1>4
  <2>2. \A i \in 1 .. n : i \in 1 .. Len(s)
    BY <1>1, <1>4
  <2> QED
    BY <1>1, <2>1, <2>2
<1> QED
  BY <1>2, <1>3, <1>4

\* The length and the elements of a slice (a chunk of a record, a batch of a scan).
LEMMA SliceFacts ==
  ASSUME NEW q, IsSeq(q), NEW a \in Nat \ {0}, NEW n \in Nat \ {0}
  PROVE  /\ IsSeq(Slice(q, a, n)) /\ Len(q) \in Nat /\ DOMAIN q = 1 .. Len(q)
         /\ a > Len(q) => Len(Slice(q, a, n)) = 0
         /\ a + n - 1 < Len(q) => Len(Slice(q, a, n)) = n
         /\ a <= Len(q) /\ a + n - 1 >= Len(q) => Len(Slice(q, a, n)) = Len(q) - a + 1
         /\ DOMAIN Slice(q, a, n) = 1 .. Len(Slice(q, a, n))
         /\ \A k \in DOMAIN Slice(q, a, n) : Slice(q, a, n)[k] = q[a + k - 1]
         /\ Slice(q, a, n) = <<>> <=> a > Len(q)
<1> DEFINE S == SetOf(q)
           b == IF a + n - 1 < Len(q) THEN a + n - 1 ELSE Len(q)
           r == Slice(q, a, n)
<1>1. q \in Seq(S) /\ Len(q) \in Nat /\ DOMAIN q = 1 .. Len(q)
  BY DEF IsSeq, SetOf
<1> HIDE DEF S
<1>2. b \in Nat /\ b <= Len(q) /\ r = SubSeq(q, a, b) /\ (a > Len(q) => b < a) /\ (a <= Len(q) => a <= b)
  BY <1>1 DEF Slice
<1> HIDE DEF b, r
<1>3. r \in Seq(S) /\ Len(r) = (IF a <= b THEN b - a + 1 ELSE 0)
  BY <1>1, <1>2
<1>4. DOMAIN r = 1 .. Len(r) /\ Len(r) \in Nat /\ (r = <<>> <=> Len(r) = 0)
  BY <1>3
<1>5. \A k \in DOMAIN r : r[k] = q[a + k - 1]
  BY <1>1, <1>2, <1>3, <1>4
<1>6. IsSeq(r)
  BY <1>3, AnySeq, Zenon
<1>7. /\ a > Len(q) => Len(r) = 0
      /\ a + n - 1 < Len(q) => Len(r) = n
      /\ a <= Len(q) /\ a + n - 1 >= Len(q) => Len(r) = Len(q) - a + 1
  BY <1>1, <1>2, <1>3 DEF b
<1>8. r = <<>> <=> a > Len(q)
  <2>1. CASE a > Len(q)
    BY <1>4, <1>7, <2>1
  <2>2. CASE a <= Len(q)
    <3>1. Len(r) # 0
      BY <1>1, <1>2, <1>3, <2>2
    <3> QED
      BY <1>1, <1>4, <2>2, <3>1
  <2> QED
    BY <1>1, <2>1, <2>2
<1> QED
  BY <1>1, <1>4, <1>5, <1>6, <1>7, <1>8, Zenon DEF r

-----------------------------------------------------------------------------
(* The commands of a key *)

\* The dump by stage, and the keys nothing is owed for.
Dump == [s \in 1 .. 5 |-> Stored(Stages[s])]
Dead == SlotKeys \cup gone

\* The records of key e in stage s: those of its elements up to the p-th, and all.
Rec(s, e, cmd, args) == [type |-> Stages[s], key |-> e.key, cmd |-> cmd, args |-> args]
Populates == <<"SET", "RPUSH", "HMSET", "SADD", "ZADD">>
ElementsOf(s, e) == IF s = 5 THEN Scored(e.content) ELSE e.content
Populated(s, e, p) ==
  {Rec(s, e, Populates[s], Slice(ElementsOf(s, e), n * BatchNum + 1, BatchNum)) :
     n \in {n \in Nat : n * BatchNum < p}}
Records(s, e) ==
  IF s = 1 THEN {Rec(s, e, "SET", <<e.content>> \o IF e.ttl > 0 THEN <<"EX", e.ttl>> ELSE <<>>)}
  ELSE Populated(s, e, Len(ElementsOf(s, e)))
       \cup IF e.ttl > 0 THEN {Rec(s, e, "EXPIRE", <<e.ttl>>)} ELSE {}

\* A has every record of the keys before the i-th of stage s, except of those in G.
Cover(D, G, A, s, i) ==
  \A s1 \in 1 .. 5 : \A i1 \in DOMAIN D[s1] :
    (s1 < s \/ (s1 = s /\ i1 < i)) /\ D[s1][i1].key \notin G => Records(s1, D[s1][i1]) \subseteq A

\* The record an event was made of.
Bare(x) == [type |-> x.type, key |-> x.key, cmd |-> x.cmd, args |-> x.args]

\* Record x is behind the records of all keys before its own, those in A.
Follows(D, G, A, x) ==
  /\ x = Bare(x)
  /\ \E s \in 1 .. 5 : x.type = Stages[s]
  /\ \A s \in 1 .. 5 : \A i \in DOMAIN D[s] :
       x.type = Stages[s] /\ x.key = D[s][i].key => Cover(D, G, A, s, i)

AllOf(qs) == UNION {SetOf(qs[j]) : j \in DOMAIN qs}
AheadOf(qs, b) == UNION {SetOf(qs[j]) : j \in {j \in DOMAIN qs : j < b}}

\* So is every record of q, behind A and those before it in q.
Line(D, G, A, q) ==
  IsSeq(q) /\ \A m \in DOMAIN q : Follows(D, G, A \cup {q[j] : j \in 1 .. (m - 1)}, q[m])
LineOrBroken(D, G, A, q) == q = Broken \/ Line(D, G, A, q)

\* What has left the dumper, and all there is on the way, E being what was emitted.
Past(E, bf, bt) == E \cup SetOf(bf) \cup AllOf(bt)
Whole(E, bf, bt, hd, rp, ot) == Past(E, bf, bt) \cup SetOf(hd) \cup AllOf(rp) \cup SetOf(ot)

PathOrder(D, G, E, bf, bt, hd, rp, ot) ==
  /\ IsSeq(bt) /\ IsSeq(rp) /\ Line(D, G, E, bf)
  /\ \A b \in DOMAIN bt : LineOrBroken(D, G, E \cup SetOf(bf) \cup AheadOf(bt, b), bt[b])
  /\ LineOrBroken(D, G, Past(E, bf, bt), hd)
  /\ \A r \in DOMAIN rp : Line(D, G, Past(E, bf, bt) \cup SetOf(hd), rp[r])
  /\ Line(D, G, Past(E, bf, bt) \cup SetOf(hd) \cup AllOf(rp), ot)

\* The five stages of the walk, each with a type of its own.
LEMMA StageNames ==
  /\ Done = 6 /\ \A s, u \in 1 .. 5 : Stages[s] = Stages[u] => s = u
  /\ Stages[1] = "string" /\ Stages[2] = "list" /\ Stages[3] = "hash"
  /\ Stages[4] = "set" /\ Stages[5] = "zset"
  /\ \A t \in {"string", "list", "hash", "set", "zset"} : \E s \in 1 .. 5 : Stages[s] = t
BY DEF Done, Stages

\* The elements of a key are a sequence, scores formatted or not.
LEMMA ElementsSeq ==
  ASSUME NEW s \in 2 .. 5, NEW e, IsSeq(e.content)
  PROVE  IsSeq(ElementsOf(s, e))
<1> DEFINE c == e.content
           F == [i \in DOMAIN c |-> <<Fixed6(c[i][2]), c[i][1]>>]
<1>1. Len(c) \in Nat /\ DOMAIN c = 1 .. Len(c)
  BY SetAppend
<1> DEFINE T == {F[i] : i \in DOMAIN F}
<1>2. DOMAIN F = 1 .. Len(c) /\ F \in [1 .. Len(c) -> T]
  BY <1>1, Zenon
<1> HIDE DEF T, F
<1>3. F \in Seq(T)
  BY <1>1, <1>2
<1>4. IsSeq(F)
  BY <1>3, AnySeq, Zenon
<1> QED
  BY <1>4 DEF ElementsOf, Scored, F

\* The number of chunks of a value is a natural number.
LEMMA Quotient ==
  ASSUME NEW L \in Nat, NEW B \in Nat \ {0}
  PROVE  (L + B - 1) \div B \in Nat
<1> DEFINE k == (L + B - 1) \div B
<1>1. k \in Int /\ L + B - 1 < k * B + B
  BY SMTT(30)
<1> HIDE DEF k
<1>2. ASSUME k < 0 PROVE FALSE
  <2> DEFINE x == k * B
             y == (-k - 1) * B
  <2>1. x \in Int /\ y \in Nat /\ x = -y - B
    BY <1>1, <1>2
  <2> HIDE DEF x, y
  <2> QED
    BY <1>1, <2>1 DEF x
<1> QED
  BY <1>1, <1>2 DEF k

\* The chunks of a value: where each begins, and the length of the last.
LEMMA Divided ==
  ASSUME NEW L \in Nat, NEW B \in Nat \ {0}, NEW n \in 1 .. ((L + B - 1) \div B)
  PROVE  /\ (n - 1) * B < L /\ (n - 1) * B \in Nat /\ n * B = (n - 1) * B + B
         /\ n * B > L => L % B = L - (n - 1) * B
<1> DEFINE k == (L + B - 1) \div B
<1>1. k \in Int /\ k * B <= L + B - 1
  BY SMTT(30)
<1>2. n \in Nat /\ n <= k /\ n - 1 \in Nat
  BY <1>1
<1> HIDE DEF k
<1>3. n * B = (n - 1) * B + B /\ (n - 1) * B \in Nat
  BY <1>2
<1>4. n * B <= k * B
  <2> DEFINE x == n * B
             y == k * B
             z == (k - n) * B
  <2>1. x \in Int /\ y \in Int /\ z \in Nat /\ y = x + z
    BY <1>1, <1>2
  <2> HIDE DEF x, y, z
  <2>2. x <= y
    BY <2>1
  <2> QED
    BY <2>2 DEF x, y
<1>5. (n - 1) * B < L
  BY <1>1, <1>3, <1>4
<1>6. ASSUME n * B > L PROVE L % B = L - (n - 1) * B
  <2> DEFINE r == L - (n - 1) * B
             q == n - 1
  <2>1. r \in Nat /\ r < B /\ L = q * B + r /\ q \in Nat
    BY <1>2, <1>3, <1>5, <1>6
  <2> HIDE DEF r, q
  <2>2. L % B = r
    BY <2>1, SMTT(30)
  <2> QED
    BY <2>2 DEF r
<1> QED
  BY <1>3, <1>5, <1>6

\* The chunk of Image is the slice the dumper takes.
LEMMA ChunkSlice ==
  ASSUME NEW q, IsSeq(q), NEW n \in 1 .. ((Len(q) + BatchNum - 1) \div BatchNum)
  PROVE  /\ n - 1 \in Nat /\ (n - 1) * BatchNum < Len(q)
         /\ [i \in 1 .. IF n * BatchNum <= Len(q) THEN BatchNum ELSE Len(q) % BatchNum |->
               q[(n - 1) * BatchNum + i]]
              = Slice(q, (n - 1) * BatchNum + 1, BatchNum)
<1> DEFINE B == BatchNum
           L == Len(q)
           m == (n - 1) * B
           l == IF n * B <= L THEN B ELSE L % B
           r == Slice(q, m + 1, B)
           f == [i \in 1 .. l |-> q[m + i]]
<1>1. B \in Nat \ {0} /\ L \in Nat
  BY ReaderAssumption, SetAppend
<1>2. /\ m < L /\ m \in Nat /\ n * B = m + B
      /\ n * B > L => L % B = L - m
  BY <1>1, Divided, Zenon
<1>3. n - 1 \in Nat
  <2>1. (L + B - 1) \div B \in Int
    BY <1>1
  <2> QED
    BY <2>1
<1>4. m + 1 \in Nat \ {0}
  BY <1>2
<1>5. /\ IsSeq(r) /\ DOMAIN r = 1 .. Len(r)
      /\ m + 1 + B - 1 < L => Len(r) = B
      /\ m + 1 <= L /\ m + 1 + B - 1 >= L => Len(r) = L - (m + 1) + 1
      /\ \A k \in DOMAIN r : r[k] = q[m + 1 + k - 1]
  <2> HIDE DEF m
  <2> QED
    BY <1>1, <1>4, SliceFacts
<1> HIDE DEF B, L, m, r
<1>6. Len(r) = l
  <2> DEFINE b == n * B
             w == L % B
             h == Len(r)
  <2>1. /\ b = m + B /\ (b > L => w = L - m) /\ m < L /\ m \in Nat /\ B \in Nat \ {0} /\ L \in Nat
        /\ m + 1 + B - 1 < L => h = B
        /\ m + 1 <= L /\ m + 1 + B - 1 >= L => h = L - (m + 1) + 1
    BY <1>1, <1>2, <1>5, Zenon
  <2> HIDE DEF b, w, h
  <2>2. h = IF b <= L THEN B ELSE w
    BY <2>1
  <2> QED
    BY <2>2 DEF b, w, h
<1>7. DOMAIN r = 1 .. l /\ \A k \in 1 .. l : r[k] = q[m + k]
  <2>1. l \in Nat
    BY <1>1, <1>2
  <2>2. \A k \in 1 .. l : m + 1 + k - 1 = m + k
    BY <1>2, <2>1
  <2> HIDE DEF l
  <2> QED
    BY <1>5, <1>6, <2>2
<1>8. r = [k \in DOMAIN r |-> r[k]]
  BY <1>5 DEF IsSeq
<1>9. f = r
  <2> HIDE DEF l
  <2> QED
    BY <1>7, <1>8
<1> QED
  BY <1>2, <1>3, <1>9 DEF B, L, m, r

\* The commands of Image are the records of the key.
LEMMA ImageRecords ==
  ASSUME NEW s \in 1 .. 5, NEW e, s # 1 => IsSeq(e.content), NEW n \in DOMAIN Image(Stages[s], e)
  PROVE  \E x \in Records(s, e) : <<x.cmd, x.args>> = Image(Stages[s], e)[n]
<1>1. CASE s = 1
  <2>1. Image("string", e) = <<<<"SET", IF e.ttl > 0 THEN <<e.content, "EX", e.ttl>> ELSE <<e.content>>>>>>
    BY DEF Image
  <2>2. n = 1 /\ Image("string", e)[n] = <<"SET", IF e.ttl > 0 THEN <<e.content, "EX", e.ttl>> ELSE <<e.content>>>>
    BY <1>1, <2>1, StageNames
  <2>3. <<e.content>> \o (IF e.ttl > 0 THEN <<"EX", e.ttl>> ELSE <<>>)
          = IF e.ttl > 0 THEN <<e.content, "EX", e.ttl>> ELSE <<e.content>>
    <3> DEFINE v == e.content
               t == e.ttl
               S == {v, t, "EX"}
    <3> HIDE DEF v, t
    <3>0. v \in S /\ t \in S /\ "EX" \in S
      OBVIOUS
    <3> HIDE DEF S
    <3>a. <<v>> \in Seq(S) /\ <<"EX", t>> \in Seq(S) /\ <<v, "EX", t>> \in Seq(S)
      BY <3>0
    <3>1. <<v>> \o <<"EX", t>> = <<v, "EX", t>>
      <4> DEFINE g == <<v>> \o <<"EX", t>>
      <4>1. Len(g) = 3 /\ g[1] = v /\ g[2] = "EX" /\ g[3] = t /\ g \in Seq(S)
        BY <3>a
      <4> DEFINE h == <<v, "EX", t>>
      <4>2. Len(h) = 3 /\ h[1] = v /\ h[2] = "EX" /\ h[3] = t /\ h \in Seq(S)
        BY <3>a
      <4> HIDE DEF g, h
      <4>3. \A k \in 1 .. 3 : g[k] = h[k]
        BY <4>1, <4>2
      <4>4. g = h
        BY <4>1, <4>2, <4>3
      <4> QED
        BY <4>4 DEF g, h
    <3>2. <<v>> \o <<>> = <<v>>
      BY <3>a
    <3> QED
      BY <3>1, <3>2, Zenon DEF v, t
  <2> DEFINE a == <<e.content>> \o IF e.ttl > 0 THEN <<"EX", e.ttl>> ELSE <<>>
  <2>4. Records(s, e) = {Rec(s, e, "SET", a)}
    BY <1>1 DEF Records
  <2>5. Image(Stages[s], e)[n] = <<"SET", a>>
    BY <1>1, <2>2, <2>3, StageNames, Zenon
  <2> HIDE DEF a
  <2> QED
    BY <2>4, <2>5 DEF Rec
<1>2. CASE s # 1
  <2> DEFINE c == e.content
             q == ElementsOf(s, e)
             K == (Len(c) + BatchNum - 1) \div BatchNum
             P == [k \in 1 .. K |-> <<Populates[s], Slice(q, (k - 1) * BatchNum + 1, BatchNum)>>]
             T == IF e.ttl > 0 THEN <<<<"EXPIRE", <<e.ttl>>>>>> ELSE <<>>
  <2>1. s \in 2 .. 5 /\ IsSeq(c) /\ Len(c) \in Nat /\ BatchNum \in Nat \ {0} /\ DOMAIN c = 1 .. Len(c)
    BY <1>2, ReaderAssumption, SetAppend
  <2>2. IsSeq(q) /\ Len(q) = Len(c)
    <3>1. IsSeq(q) /\ DOMAIN q = DOMAIN c
      BY <2>1, ElementsSeq, Zenon DEF ElementsOf, Scored
    <3>2. Len(q) \in Nat /\ DOMAIN q = 1 .. Len(q)
      BY <3>1, SetAppend
    <3> QED
      BY <2>1, <3>1, <3>2
  <2>3. Image(Stages[s], e) = P \o T
    <3> DEFINE cmd == [list |-> "RPUSH", hash |-> "HMSET", set |-> "SADD", zset |-> "ZADD"]
               t == Stages[s]
               F(y) == IF t = "zset" THEN <<Fixed6(y[2]), y[1]>> ELSE y
               l(k) == IF k * BatchNum <= Len(c) THEN BatchNum ELSE Len(c) % BatchNum
               W == [k \in 1 .. K |-> [i \in 1 .. l(k) |-> F(c[(k - 1) * BatchNum + i])]]
               V == [k \in DOMAIN W |-> <<cmd[t], W[k]>>]
    <3>1. Image(t, e) = V \o T
      <4>1. t # "string"
        BY <2>1, StageNames
      <4> QED
        BY <4>1, Zenon DEF Image, Chunked
    <3>2. cmd[t] = Populates[s]
      BY <2>1 DEF Populates, Stages
    <3>3. ASSUME NEW k \in 1 .. K
          PROVE  [i \in 1 .. l(k) |-> F(c[(k - 1) * BatchNum + i])]
                   = Slice(q, (k - 1) * BatchNum + 1, BatchNum)
      <4>1. [i \in 1 .. l(k) |-> q[(k - 1) * BatchNum + i]] = Slice(q, (k - 1) * BatchNum + 1, BatchNum)
        <5>1. k \in 1 .. ((Len(q) + BatchNum - 1) \div BatchNum)
          BY <2>2
        <5>2. [i \in 1 .. IF k * BatchNum <= Len(q) THEN BatchNum ELSE Len(q) % BatchNum |->
                 q[(k - 1) * BatchNum + i]] = Slice(q, (k - 1) * BatchNum + 1, BatchNum)
          BY <2>2, <5>1, ChunkSlice
        <5> QED
          BY <2>2, <5>2
      <4>2. ASSUME NEW i \in 1 .. l(k) PROVE F(c[(k - 1) * BatchNum + i]) = q[(k - 1) * BatchNum + i]
        <5> DEFINE j == (k - 1) * BatchNum + i
        <5>1. j \in DOMAIN c
          <6> DEFINE m == (k - 1) * BatchNum
                     b == k * BatchNum
                     w == Len(c) % BatchNum
                     L == Len(c)
          <6>1. /\ m < L /\ m \in Nat /\ b = m + BatchNum /\ L \in Nat
                /\ b > L => w = L - m
            BY <2>1, Divided, Zenon
          <6>2. i \in 1 .. IF b <= L THEN BatchNum ELSE w
            BY <4>2
          <6> HIDE DEF m, b, w, L
          <6>3. m + i \in 1 .. L
            BY <2>1, <6>1, <6>2
          <6> QED
            BY <2>1, <6>3 DEF m, L
        <5>2. s = 5 <=> t = "zset"
          BY <2>1, StageNames
        <5> HIDE DEF j, t
        <5> QED
          BY <5>1, <5>2 DEF ElementsOf, Scored, j
      <4> HIDE DEF F, l, q, c
      <4> QED
        BY <4>1, <4>2, Zenon
    <3>4. V = P
      <4>1. DOMAIN W = 1 .. K
        OBVIOUS
      <4>2. \A k \in 1 .. K : W[k] = Slice(q, (k - 1) * BatchNum + 1, BatchNum)
        BY <3>3
      <4> HIDE DEF W, q, K, c
      <4> QED
        BY <3>2, <4>1, <4>2
    <3> QED
      BY <3>1, <3>4, Zenon
  <2>4. K \in Nat
    BY <2>1, Quotient, Zenon
  <2>5. \A k \in 1 .. K : k - 1 \in Nat /\ (k - 1) * BatchNum < Len(q)
    BY <2>2, ChunkSlice, Zenon
  <2>6. CASE n \in 1 .. K /\ (P \o T)[n] = P[n]
    <3> DEFINE a == Slice(q, (n - 1) * BatchNum + 1, BatchNum)
               x == Rec(s, e, Populates[s], a)
    <3>1. x \in Populated(s, e, Len(q))
      BY <2>5, <2>6 DEF Populated
    <3>2. x \in Records(s, e)
      BY <1>2, <3>1 DEF Records
    <3>3. <<x.cmd, x.args>> = <<Populates[s], a>>
      BY DEF Rec
    <3>4. Image(Stages[s], e)[n] = <<Populates[s], a>>
      BY <2>3, <2>6, Zenon
    <3> HIDE DEF x, a
    <3> QED
      BY <3>2, <3>3, <3>4
  <2>7. CASE e.ttl > 0 /\ (P \o T)[n] = <<"EXPIRE", <<e.ttl>>>>
    <3> DEFINE x == Rec(s, e, "EXPIRE", <<e.ttl>>)
    <3>1. x \in Records(s, e)
      BY <1>2, <2>7, Zenon DEF Records
    <3>2. <<x.cmd, x.args>> = <<"EXPIRE", <<e.ttl>>>>
      BY DEF Rec
    <3> HIDE DEF x
    <3> QED
      BY <2>3, <2>7, <3>1, <3>2, Zenon
  <2>8. \/ n \in 1 .. K /\ (P \o T)[n] = P[n]
        \/ e.ttl > 0 /\ (P \o T)[n] = <<"EXPIRE", <<e.ttl>>>>
    <3> DEFINE R == {P[k] : k \in 1 .. K} \cup {<<"EXPIRE", <<e.ttl>>>>}
    <3>1. DOMAIN P = 1 .. K /\ P \in [1 .. K -> R]
      BY Zenon
    <3>2. n \in DOMAIN (P \o T)
      BY <2>3, Zenon
    <3>3. <<"EXPIRE", <<e.ttl>>>> \in R
      OBVIOUS
    <3> DEFINE X == <<"EXPIRE", <<e.ttl>>>>
    <3> HIDE DEF P, R, K, X
    <3>4. P \in Seq(R) /\ Len(P) = K
      BY <2>4, <3>1
    <3>5. CASE e.ttl > 0
      <4>1. T = <<X>> /\ X \in R
        BY <3>3, <3>5 DEF X
      <4>2. n \in DOMAIN (P \o <<X>>)
        BY <3>2, <4>1
      <4>3. n \in 1 .. K + 1 /\ (n <= K => (P \o <<X>>)[n] = P[n]) /\ (n = K + 1 => (P \o <<X>>)[n] = X)
        <5> HIDE DEF T
        <5> QED
          BY <2>4, <3>4, <4>1, <4>2
      <4>4. n \in 1 .. K \/ n = K + 1
        BY <2>4, <4>3
      <4>5. (P \o T)[n] = (P \o <<X>>)[n]
        BY <4>1, Zenon
      <4>6. n \in 1 .. K => n <= K
        BY <2>4
      <4> HIDE DEF T
      <4> QED
        BY <3>5, <4>3, <4>4, <4>5, <4>6, Zenon DEF X
    <3>6. CASE ~(e.ttl > 0)
      <4>1. T = <<>>
        BY <3>6
      <4>2. P \o <<>> = P
        BY <3>4
      <4>3. P \o T = P
        BY <4>1, <4>2, Zenon
      <4> HIDE DEF T
      <4> QED
        BY <3>1, <3>2, <4>3, Zenon
    <3> QED
      BY <3>5, <3>6, Zenon
  <2> QED
    BY <2>6, <2>7, <2>8, Zenon
<1> QED
  BY <1>1, <1>2

\* A record names its type and its key.
LEMMA RecordsOfKey ==
  ASSUME NEW s \in 1 .. 5, NEW e, NEW x \in Records(s, e)
  PROVE  x.type = Stages[s] /\ x.key = e.key
BY DEF Records, Populated, Rec

-----------------------------------------------------------------------------
(* The files *)

Complete(f) == Len(local[f]) = Chunks[f]

FetchTypes ==
  /\ uuid \in Nat /\ want \in Nat /\ next \in Nat \ {0} /\ firstE \in BOOLEAN
  /\ fpc \in {"meta", "info", "rest", "ok", "failed"}
  /\ job \in [Workers -> FileNames \cup {"idle", "stopped"}]
  /\ local \in [FileNames -> Seq(Nat)]

\* Chunks come from the snapshot of the list, and no file has too many.
ChunksOfWant ==
  \A f \in FileNames :
    /\ Len(local[f]) <= Chunks[f]
    /\ \A i \in 1 .. Len(local[f]) : local[f][i] = want

\* Nothing is fetched before the list is there; info comes first.
Early ==
  /\ fpc = "meta" => local = [f \in FileNames |-> <<>>]
  /\ fpc \in {"meta", "info"} => next = 1 /\ \A w \in Workers : job[w] = "idle"
  /\ fpc \in {"rest", "ok"} => Complete("info")

\* A file that was taken is complete or in a worker's hands, unless a worker has
\* failed; a worker that stops without a failure leaves nothing to take.
Taken ==
  /\ next <= Len(Work) + 1
  /\ \A w \in Workers : job[w] \in FileNames => \E i \in 1 .. (next - 1) : job[w] = Work[i]
  /\ ~firstE => \A i \in 1 .. (next - 1) :
                  Complete(Work[i]) \/ \E w \in Workers : job[w] = Work[i]
  /\ ~firstE => \A w \in Workers : job[w] = "stopped" => next = Len(Work) + 1
  /\ fpc = "ok" => ~firstE /\ \A w \in Workers : job[w] = "stopped"

FetchInv == FetchTypes /\ ChunksOfWant /\ Early /\ Taken

\* The files of the second phase.
LEMMA WorkFacts ==
  /\ Len(Work) \in Nat
  /\ \A i \in 1 .. Len(Work) : Work[i] \in FileNames /\ Work[i] # "info"
  /\ "info" \in FileNames /\ "idle" \notin FileNames /\ "stopped" \notin FileNames
  /\ \A f \in FileNames : Chunks[f] \in Nat \ {0}
BY FilesAssumption, WorkAssumption

\* The transfer begins with no chunk taken.
LEMMA FetchInitInv == FetchInit => FetchInv
<1> SUFFICES ASSUME FetchInit PROVE FetchInv
  OBVIOUS
<1> USE WorkFacts DEF FetchInit
<1>1. FetchTypes
  <2>1. uuid \in Nat /\ want \in Nat /\ next \in Nat \ {0} /\ fpc = "meta"
    OBVIOUS
  <2>2. firstE \in BOOLEAN
    BY Zenon
  <2>3. <<>> \in Seq(Nat)
    OBVIOUS
  <2>4. local \in [FileNames -> Seq(Nat)]
    BY <2>3, Zenon
  <2>5. job \in [Workers -> FileNames \cup {"idle", "stopped"}]
    BY Zenon
  <2> QED
    BY <2>1, <2>2, <2>4, <2>5, Zenon DEF FetchTypes
<1>2. ChunksOfWant
  BY DEF ChunksOfWant
<1>3. Early
  BY DEF Early
<1>4. Taken
  BY DEF Taken
<1> QED
  BY <1>1, <1>2, <1>3, <1>4 DEF FetchInv

\* Appending one chunk of the right snapshot.
LEMMA ChunkAppended ==
  ASSUME FetchTypes, ChunksOfWant, NEW f \in FileNames, FetchChunk(f), want' = want
  PROVE  /\ local' \in [FileNames -> Seq(Nat)]
         /\ ChunksOfWant'
         /\ \A g \in FileNames : g # f => local'[g] = local[g]
         /\ ~Complete(f)
<1> USE WorkFacts DEF FetchTypes
<1> DEFINE new == Append(local[f], uuid)
<1>1. local' = [local EXCEPT ![f] = new] /\ uuid = want /\ Len(local[f]) < Chunks[f]
  BY DEF FetchChunk
<1>2. local[f] \in Seq(Nat) /\ Len(local[f]) \in Nat /\ Chunks[f] \in Nat
  OBVIOUS
<1>3. new \in Seq(Nat) /\ Len(new) = Len(local[f]) + 1
  BY <1>2
<1>4. \A i \in 1 .. Len(new) : new[i] = want
  <2> TAKE i \in 1 .. Len(new)
  <2>1. CASE i = Len(local[f]) + 1
    BY <1>1, <1>2, <2>1
  <2>2. CASE i # Len(local[f]) + 1
    <3>1. i \in 1 .. Len(local[f])
      BY <1>2, <1>3, <2>2
    <3>2. new[i] = local[f][i]
      BY <1>2, <3>1
    <3> QED
      BY <3>1, <3>2 DEF ChunksOfWant
  <2> QED
    BY <2>1, <2>2
<1> HIDE DEF new
<1>5. local'[f] = new /\ \A g \in FileNames : g # f => local'[g] = local[g]
  BY <1>1
<1>6. ChunksOfWant'
  BY <1>1, <1>2, <1>3, <1>4, <1>5 DEF ChunksOfWant
<1> QED
  BY <1>1, <1>2, <1>3, <1>5, <1>6 DEF Complete

\* Every step of the transfer, and a new snapshot of the master, keep FetchInv.
LEMMA FetchStepInv == FetchInv /\ [NewBgsave \/ FetchStep]_fetchVars => FetchInv'
<1> SUFFICES ASSUME FetchInv, [NewBgsave \/ FetchStep]_fetchVars PROVE FetchInv'
  OBVIOUS
<1> USE WorkFacts
<1>0. FetchTypes /\ ChunksOfWant /\ Early /\ Taken
  BY Zenon DEF FetchInv
<1>1. CASE UNCHANGED fetchVars
  BY <1>0, <1>1, Zenon DEF FetchInv, FetchTypes, ChunksOfWant, Early, Taken, Complete, fetchVars
<1>2. CASE NewBgsave
  <2>1. UNCHANGED <<want, fpc, next, firstE, job, local>> /\ uuid' = uuid + 1
    BY <1>2 DEF NewBgsave
  <2> QED
    BY <1>0, <2>1 DEF FetchInv, FetchTypes, ChunksOfWant, Early, Taken, Complete
<1>3. CASE FetchMeta
  <2>1. /\ UNCHANGED <<uuid, next, firstE, job, local>> /\ fpc = "meta"
        /\ fpc' \in {"info", "failed"} /\ want' \in {uuid, want}
    BY <1>3 DEF FetchMeta
  <2>2. \A f \in FileNames : local[f] = <<>>
    BY <1>0, <2>1 DEF Early
  <2>3. FetchTypes'
    BY <1>0, <2>1 DEF FetchTypes
  <2>4. ChunksOfWant'
    BY <2>1, <2>2 DEF ChunksOfWant
  <2>5. Early' /\ Taken'
    BY <1>0, <2>1 DEF Early, Taken, Complete
  <2> QED
    BY <2>3, <2>4, <2>5 DEF FetchInv
<1>4. CASE FetchInfo
  <2>1. /\ UNCHANGED <<uuid, want, next, firstE, job>> /\ fpc = "info"
    BY <1>4 DEF FetchInfo
  <2>2. next = 1 /\ \A w \in Workers : job[w] = "idle"
    BY <1>0, <2>1 DEF Early
  <2>3. Taken' /\ fpc' \in {"info", "failed", "rest"}
    <3>1. fpc' \in {"info", "failed", "rest"}
      BY <1>4 DEF FetchInfo
    <3> QED
      BY <1>0, <2>1, <2>2, <3>1 DEF Taken
  <2>4. CASE FetchChunk("info") /\ fpc' = fpc
    <3>1. local' \in [FileNames -> Seq(Nat)] /\ ChunksOfWant'
      BY <1>0, <2>1, <2>4, ChunkAppended
    <3>2. FetchTypes'
      BY <1>0, <2>1, <2>4, <3>1 DEF FetchTypes
    <3>3. Early'
      BY <2>1, <2>2, <2>4 DEF Early
    <3> QED
      BY <2>3, <3>1, <3>2, <3>3 DEF FetchInv
  <2>5. CASE /\ local' = local
             /\ \/ fpc' = "failed"
                \/ Len(local["info"]) = Chunks["info"] /\ fpc' = "rest"
    <3>1. FetchTypes' /\ ChunksOfWant'
      BY <1>0, <2>1, <2>3, <2>5 DEF FetchTypes, ChunksOfWant
    <3>2. Early'
      BY <2>1, <2>5 DEF Early, Complete
    <3> QED
      BY <2>3, <3>1, <3>2 DEF FetchInv
  <2> QED
    BY <1>4, <2>4, <2>5 DEF FetchInfo
<1>5. CASE RestDone
  <2>1. /\ UNCHANGED <<uuid, want, next, firstE, job, local>> /\ fpc = "rest"
        /\ \A w \in Workers : job[w] = "stopped"
        /\ fpc' = IF firstE THEN "failed" ELSE "ok"
    BY <1>5 DEF RestDone
  <2>2. FetchTypes'
    BY <1>0, <2>1 DEF FetchTypes
  <2>3. ChunksOfWant'
    BY <1>0, <2>1 DEF ChunksOfWant
  <2>4. Early'
    BY <1>0, <2>1 DEF Early, Complete
  <2>5. Taken'
    BY <1>0, <2>1 DEF Taken, Complete
  <2> QED
    BY <2>2, <2>3, <2>4, <2>5 DEF FetchInv
<1>6. ASSUME NEW w \in Workers, WorkerTake(w) PROVE FetchInv'
  <2> DEFINE f == Work[next]
  <2>1. /\ UNCHANGED <<uuid, want, fpc, firstE>> /\ fpc = "rest" /\ job[w] = "idle"
        /\ ~firstE /\ next <= Len(Work) /\ next' = next + 1
        /\ job' = [job EXCEPT ![w] = f] /\ local' = [local EXCEPT ![f] = <<>>]
    BY <1>6 DEF WorkerTake
  <2>2. next \in 1 .. Len(Work) /\ f \in FileNames /\ f # "info"
    BY <1>0, <2>1 DEF FetchTypes
  <2>3. \A i \in 1 .. (next - 1) : i \in 1 .. Len(Work) /\ Work[i] \in FileNames /\ Work[i] # f
    BY <2>2, WorkAssumption
  <2> HIDE DEF f
  <2>4. FetchTypes'
    BY <1>0, <2>1, <2>2 DEF FetchTypes
  <2>5. ChunksOfWant'
    BY <1>0, <2>1, <2>2 DEF ChunksOfWant, FetchTypes
  <2>6. Early'
    BY <1>0, <2>1, <2>2 DEF Early, Complete, FetchTypes
  <2>7. /\ job' = [job EXCEPT ![w] = f] /\ job'[w] = f
        /\ \A v \in Workers : v # w => job'[v] = job[v]
        /\ \A i \in 1 .. (next - 1) : local'[Work[i]] = local[Work[i]]
    BY <1>0, <2>1, <2>2, <2>3 DEF FetchTypes
  <2>8. Taken'
    <3>1. next' <= Len(Work) + 1 /\ fpc' # "ok" /\ firstE' = firstE
      BY <2>1, <2>2
    <3>2. ASSUME NEW v \in Workers, job'[v] \in FileNames
          PROVE  \E i \in 1 .. (next' - 1) : job'[v] = Work[i]
      <4>1. CASE v = w
        BY <2>1, <2>2, <2>7, <4>1 DEF f
      <4>2. CASE v # w
        BY <1>0, <2>1, <2>2, <2>7, <3>2, <4>2 DEF Taken
      <4> QED
        BY <4>1, <4>2
    <3>3. ASSUME NEW i \in 1 .. (next' - 1)
          PROVE  Complete(Work[i])' \/ \E v \in Workers : job'[v] = Work[i]
      <4>1. CASE i = next
        BY <2>7, <4>1 DEF f
      <4>2. CASE i # next
        <5>1. i \in 1 .. (next - 1)
          BY <2>1, <2>2, <4>2
        <5>2. Complete(Work[i]) \/ \E v \in Workers : job[v] = Work[i]
          BY <1>0, <2>1, <5>1, Zenon DEF Taken
        <5>3. CASE Complete(Work[i])
          BY <2>7, <5>1, <5>3 DEF Complete
        <5>4. CASE \E v \in Workers : job[v] = Work[i]
          BY <2>1, <2>3, <2>7, <5>1, <5>4
        <5> QED
          BY <5>2, <5>3, <5>4
      <4> QED
        BY <4>1, <4>2
    <3>4. ASSUME NEW v \in Workers PROVE job'[v] # "stopped"
      BY <1>0, <2>1, <2>2, <2>7 DEF Taken
    <3> QED
      BY <3>1, <3>2, <3>3, <3>4 DEF Taken
  <2> QED
    BY <2>4, <2>5, <2>6, <2>8 DEF FetchInv
<1>7. ASSUME NEW w \in Workers, WorkerStop(w) PROVE FetchInv'
  <2>1. /\ UNCHANGED <<uuid, want, fpc, next, firstE, local>> /\ fpc = "rest"
        /\ job[w] = "idle" /\ (firstE \/ next > Len(Work))
        /\ job' = [job EXCEPT ![w] = "stopped"]
    BY <1>7 DEF WorkerStop
  <2>2. FetchTypes'
    BY <1>0, <2>1 DEF FetchTypes
  <2>3. ChunksOfWant' /\ Early'
    BY <1>0, <2>1 DEF ChunksOfWant, Early, Complete
  <2>4. job'[w] = "stopped" /\ \A v \in Workers : v # w => job'[v] = job[v]
    BY <1>0, <2>1 DEF FetchTypes
  <2>5. \A i \in 1 .. (next - 1) : i \in 1 .. Len(Work)
    BY <1>0 DEF Taken, FetchTypes
  <2>6. Taken'
    <3>1. firstE \/ next = Len(Work) + 1
      BY <1>0, <2>1 DEF Taken, FetchTypes
    <3>2. \A v \in Workers, i \in 1 .. (next - 1) : job[v] = Work[i] => job'[v] = Work[i]
      BY <2>1, <2>4, <2>5
    <3> QED
      BY <1>0, <2>1, <2>4, <3>1, <3>2 DEF Taken, Complete
  <2> QED
    BY <2>2, <2>3, <2>6 DEF FetchInv
<1>8. ASSUME NEW w \in Workers, WorkerFetch(w) PROVE FetchInv'
  <2> DEFINE f == job[w]
  <2>1. UNCHANGED <<uuid, want, fpc, next>> /\ f \in FileNames
    BY <1>8 DEF WorkerFetch
  <2>2. f # "idle" /\ f # "stopped" /\ fpc \in {"rest", "failed"}
    <3>1. f # "idle" /\ f # "stopped"
      BY <2>1
    <3> QED
      BY <1>0, <3>1 DEF Early, Taken, FetchTypes
  <2>3. PICK k \in 1 .. (next - 1) : f = Work[k]
    BY <1>0, <2>1 DEF Taken
  <2>4. \A i \in 1 .. (next - 1) : i \in 1 .. Len(Work) /\ Work[i] \in FileNames
    BY <1>0 DEF Taken, FetchTypes
  <2>5. f # "info"
    BY <2>3, <2>4
  <2> HIDE DEF f
  <2>6. CASE FetchChunk(f) /\ job' = job /\ firstE' = firstE
    <3>1. /\ local' \in [FileNames -> Seq(Nat)] /\ ChunksOfWant' /\ ~Complete(f)
          /\ \A g \in FileNames : g # f => local'[g] = local[g]
      BY <1>0, <2>1, <2>6, ChunkAppended
    <3>2. FetchTypes'
      BY <1>0, <2>1, <2>6, <3>1 DEF FetchTypes
    <3>3. Early'
      BY <1>0, <2>1, <2>2, <2>5, <3>1 DEF Early, Complete
    <3>4. \A i \in 1 .. (next - 1) : Complete(Work[i]) => Complete(Work[i])'
      BY <2>4, <3>1, Zenon DEF Complete
    <3>5. Taken'
      BY <1>0, <2>1, <2>2, <2>6, <3>4 DEF Taken
    <3> QED
      BY <3>1, <3>2, <3>3, <3>5 DEF FetchInv
  <2>7. CASE /\ Len(local[f]) >= Chunks[f] /\ job' = [job EXCEPT ![w] = "idle"]
             /\ UNCHANGED <<firstE, local>>
    <3>1. FetchTypes'
      BY <1>0, <2>1, <2>7, Zenon DEF FetchTypes
    <3>2. ChunksOfWant' /\ Early'
      BY <1>0, <2>1, <2>2, <2>7, Zenon DEF ChunksOfWant, Early, Complete
    <3>3. Complete(f)
      BY <1>0, <2>1, <2>7 DEF ChunksOfWant, Complete, FetchTypes
    <3>4. job'[w] = "idle" /\ \A v \in Workers : v # w => job'[v] = job[v]
      BY <1>0, <2>7, Zenon DEF FetchTypes
    <3>5. ASSUME NEW i \in 1 .. (next - 1), ~firstE
          PROVE  Complete(Work[i])' \/ \E v \in Workers : job'[v] = Work[i]
      <4>1. Complete(Work[i]) <=> Complete(Work[i])'
        BY <2>7 DEF Complete
      <4>2. Complete(Work[i]) \/ \E v \in Workers : job[v] = Work[i]
        BY <1>0, <3>5, Zenon DEF Taken
      <4> QED
        BY <3>3, <3>4, <4>1, <4>2 DEF f
    <3>6. Taken'
      BY <1>0, <2>1, <2>2, <2>7, <3>4, <3>5 DEF Taken
    <3> QED
      BY <3>1, <3>2, <3>6 DEF FetchInv
  <2>8. CASE job' = [job EXCEPT ![w] = "stopped"] /\ firstE' = TRUE /\ local' = local
    <3>1. FetchTypes'
      BY <1>0, <2>1, <2>8 DEF FetchTypes
    <3>2. ChunksOfWant' /\ Early'
      BY <1>0, <2>1, <2>2, <2>8 DEF ChunksOfWant, Early, Complete
    <3>3. job'[w] = "stopped" /\ \A v \in Workers : v # w => job'[v] = job[v]
      BY <1>0, <2>8, Zenon DEF FetchTypes
    <3>4. Taken'
      BY <1>0, <2>1, <2>2, <2>8, <3>3 DEF Taken
    <3> QED
      BY <3>1, <3>2, <3>4 DEF FetchInv
  <2> QED
    BY <1>8, <2>6, <2>7, <2>8, Zenon DEF WorkerFetch, f
<1> QED
  BY <1>1, <1>2, <1>3, <1>4, <1>5, <1>6, <1>7, <1>8 DEF FetchStep

\* A transfer that reports success has one snapshot.
LEMMA FetchInvExact == FetchInv /\ fpc = "ok" => OneSnapshot
<1> SUFFICES ASSUME FetchInv, fpc = "ok", NEW f \in FileNames
             PROVE  /\ Len(local[f]) = Chunks[f]
                    /\ \A i \in 1 .. Len(local[f]) : local[f][i] = want
  BY DEF OneSnapshot
<1> USE WorkFacts DEF FetchInv
<1>1. \A i \in 1 .. Len(local[f]) : local[f][i] = want
  BY DEF ChunksOfWant
<1>2. CASE f = "info"
  BY <1>1, <1>2 DEF Early, Complete
<1>3. CASE f # "info"
  <2>1. PICK i \in 1 .. Len(Work) : Work[i] = f
    BY <1>3, WorkAssumption
  <2>2. ~firstE /\ \A w \in Workers : job[w] = "stopped"
    BY DEF Taken
  <2>3. next = Len(Work) + 1
    BY <2>2, FilesAssumption DEF Taken
  <2>4. i \in 1 .. (next - 1)
    BY <2>1, <2>3
  <2>5. Complete(Work[i])
    BY <2>1, <2>2, <2>4 DEF Taken
  <2> QED
    BY <1>1, <2>1, <2>5 DEF Complete
<1> QED
  BY <1>2, <1>3

\* A transfer that succeeds (Begin and Rest returned no error) left a folder in
\* which every file is complete and every chunk was read from the snapshot the
\* file list came from, for every pool of workers and however often the master
\* replaces its snapshot meanwhile.
THEOREM TransferExact == FetchSpec => [](fpc = "ok" => OneSnapshot)
<1>1. FetchInit => FetchInv
  BY FetchInitInv
<1>2. FetchInv /\ [NewBgsave \/ FetchStep]_fetchVars => FetchInv'
  BY FetchStepInv
<1>3. FetchInv => (fpc = "ok" => OneSnapshot)
  BY FetchInvExact
<1> QED
  BY <1>1, <1>2, <1>3, PTL DEF FetchSpec

-----------------------------------------------------------------------------
(* Shapes *)

\* The reader's processes, pipe and channel.
ReadTypes ==
  /\ rpc \in {"open", "run", "done", "failed"} \cup Closing
  /\ dpc \in {"none", "idle", "next", "exited"}
  /\ feeder \in {"none", "ask", "read", "push", "ended"} /\ quit \in BOOLEAN
  /\ DOMAIN it = DOMAIN FreshIter /\ it = [fd \in DOMAIN it |-> it[fd]]
  /\ it.stage \in 1 .. Done
  /\ IsSeq(out) /\ Len(out) <= KBatch /\ Len(reply) <= 1
  /\ IsSeq(batch) /\ Len(batch) <= PrefetchDepth

\* A step of the reader.
Reads == ReadStep \/ ReadFault \/ EmitRecord \/ EmitStops

\* The iterator of a new dumper.
LEMMA FreshShape ==
  /\ FreshIter = [fd \in DOMAIN FreshIter |-> FreshIter[fd]]
  /\ FreshIter.stage = 1 /\ Done = 6
  /\ "stage" \in DOMAIN FreshIter /\ "pending" \in DOMAIN FreshIter
BY DEF FreshIter, Done, Stages

\* The dumper keeps the shape of its iterator and at most KBatch records.
LEMMA WalkTypes ==
  ASSUME ReadTypes, Walk \/ ScanFails \/ DumperDies
  PROVE  /\ dpc' \in {"none", "idle", "next", "exited"}
         /\ DOMAIN it' = DOMAIN FreshIter /\ it' = [fd \in DOMAIN it' |-> it'[fd]]
         /\ it'.stage \in 1 .. Done
         /\ IsSeq(out)' /\ Len(out') <= KBatch /\ Len(reply') <= 1
<1>0. /\ IsSeq(out) /\ Len(out) <= KBatch /\ Len(out) \in Nat /\ Len(reply) <= 1
      /\ dpc \in {"none", "idle", "next", "exited"}
      /\ DOMAIN it = DOMAIN FreshIter /\ it = [fd \in DOMAIN it |-> it[fd]]
      /\ it.stage \in 1 .. Done /\ Done = 6 /\ KBatch \in Nat \ {0}
      /\ "stage" \in DOMAIN FreshIter
  <2>1. Len(out) \in Nat
    BY SeqAppend DEF ReadTypes
  <2> QED
    BY <2>1, ReaderAssumption DEF ReadTypes, Done, Stages, FreshIter
<1> HIDE DEF FreshIter
<1>1. ASSUME NEW x, Len(out) < KBatch, out' = out \/ out' = Append(out, x)
      PROVE  IsSeq(out)' /\ Len(out') <= KBatch
  <2>1. IsSeq(out') /\ Len(out') <= KBatch
    BY <1>0, <1>1, SeqBounded, Zenon
  <2> QED
    BY <2>1 DEF IsSeq
<1>2. CASE SkipStage \/ EndStage
  <2>1. UNCHANGED <<dpc, out, reply>> /\ it' = NextStage /\ it.stage < Done
    BY <1>2 DEF SkipStage, EndStage, BetweenKeys, Walking
  <2>2. /\ DOMAIN it' = DOMAIN FreshIter /\ it' = [fd \in DOMAIN it' |-> it'[fd]]
        /\ it'.stage = it.stage + 1
    BY <1>0, <2>1, Zenon DEF NextStage
  <2> QED
    BY <1>0, <2>1, <2>2 DEF IsSeq
<1>3. CASE Engage \/ load_keys \/ TakeKey \/ LeaveKey
  <2>1. UNCHANGED <<dpc, out, reply>>
    BY <1>3, Zenon DEF Engage, load_keys, TakeKey, LeaveKey
  <2>2. /\ DOMAIN it' = DOMAIN FreshIter /\ it' = [fd \in DOMAIN it' |-> it'[fd]]
        /\ it'.stage = it.stage
    <3>1. CASE Engage
      <4>1. PICK i : it' = [it EXCEPT !.pending = FALSE, !.from = i]
        BY Zenon, <3>1 DEF Engage
      <4> QED
        BY <1>0, <4>1, Zenon
    <3>2. CASE load_keys
      <4>1. PICK ks, n, d : it' = [it EXCEPT !.keys = ks, !.from = n, !.scanDone = d]
        BY Zenon, <3>2 DEF load_keys
      <4> QED
        BY <1>0, <4>1, Zenon
    <3>3. CASE TakeKey
      <4>1. PICK ks, c : it' = [it EXCEPT !.keys = ks, !.pos = 0, !.cur = c]
        BY Zenon, <3>3 DEF TakeKey
      <4> QED
        BY <1>0, <4>1, Zenon
    <3>4. CASE LeaveKey
      BY <1>0, <3>4 DEF LeaveKey
    <3> QED
      BY <1>3, <3>1, <3>2, <3>3, <3>4
  <2> QED
    BY <1>0, <2>1, <2>2 DEF IsSeq
<1>4. CASE StringRecord
  <2>1. UNCHANGED <<dpc, reply>> /\ Len(out) < KBatch /\ it' = [it EXCEPT !.cur = <<>>]
    BY <1>4 DEF StringRecord, AtKey, Walking
  <2>2. PICK x : out' = Append(out, x)
    BY Zenon, <1>4 DEF StringRecord
  <2> QED
    BY <1>0, <1>1, <2>1, <2>2
<1>5. CASE ListRecord \/ HashRecord \/ SetRecord \/ ZSetRecord
  <2>1. UNCHANGED <<dpc, reply>> /\ Len(out) < KBatch
    BY <1>5 DEF ListRecord, HashRecord, SetRecord, ZSetRecord, AtKey, Walking
  <2>2. PICK cmd, elements : Populate(cmd, elements)
    BY Zenon, <1>5 DEF ListRecord, HashRecord, SetRecord, ZSetRecord
  <2>3. PICK x : out' = out \/ out' = Append(out, x)
    BY Zenon, <2>2 DEF Populate
  <2>4. \/ it' = [it EXCEPT !.pos = it.pos + BatchNum]
        \/ it' = [it EXCEPT !.cur = <<>>]
    BY Zenon, <2>2 DEF Populate
  <2>5. /\ DOMAIN it' = DOMAIN FreshIter /\ it' = [fd \in DOMAIN it' |-> it'[fd]]
        /\ it'.stage \in 1 .. Done
    BY <1>0, <2>4
  <2> QED
    BY <1>0, <1>1, <2>1, <2>3, <2>5, Zenon
<1>6. CASE WriteReply
  <2>1. out' = <<>> /\ reply' = <<out>> /\ dpc' = "idle" /\ it' = it
    BY <1>6 DEF WriteReply
  <2>2. Len(reply') = 1 /\ IsSeq(out') /\ Len(out') = 0
    BY <2>1, SeqEmpty, Zenon
  <2> QED
    BY <1>0, <2>1, <2>2 DEF IsSeq
<1>7. CASE DumperExits \/ DumperDies
  BY <1>0, <1>7, Zenon DEF DumperExits, DumperDies, IsSeq
<1>8. CASE ScanFails
  <2>1. out' = <<>> /\ dpc' = "exited" /\ UNCHANGED <<it, reply>>
    BY <1>8 DEF ScanFails
  <2>2. IsSeq(out') /\ Len(out') = 0
    BY <2>1, SeqEmpty
  <2> QED
    BY <1>0, <2>1, <2>2 DEF IsSeq
<1> QED
  BY <1>2, <1>3, <1>4, <1>5, <1>6, <1>7, <1>8, Zenon DEF Walk

\* The feeder keeps one reply in hand and the channel within PrefetchDepth.
LEMMA FeedTypes ==
  ASSUME ReadTypes, Feed
  PROVE  /\ dpc' \in {"none", "idle", "next", "exited"} /\ UNCHANGED <<it, out>>
         /\ feeder' \in {"none", "ask", "read", "push", "ended"} /\ Len(reply') <= 1
         /\ IsSeq(batch)' /\ Len(batch') <= PrefetchDepth
<1>0. /\ dpc \in {"none", "idle", "next", "exited"} /\ Len(reply) <= 1 /\ IsSeq(batch)
      /\ Len(batch) <= PrefetchDepth /\ Len(batch) \in Nat /\ PrefetchDepth \in Nat
      /\ feeder \in {"none", "ask", "read", "push", "ended"}
  <2>1. Len(batch) \in Nat
    BY SeqAppend DEF ReadTypes
  <2> QED
    BY <2>1, ReaderAssumption DEF ReadTypes
<1>1. CASE FeederAsk
  BY <1>0, <1>1 DEF FeederAsk, IsSeq
<1>2. CASE FeederRead
  <2>1. /\ UNCHANGED <<batch, it, out, dpc>> /\ feeder' = "push"
        /\ reply' = <<>> \/ reply' = reply
    BY <1>2 DEF FeederRead
  <2>2. Len(reply') <= 1
    BY <1>0, <2>1, SeqEmpty
  <2> QED
    BY <1>0, <2>1, <2>2 DEF IsSeq
<1>3. CASE FeederPush
  <2>1. /\ UNCHANGED <<it, out, dpc, reply>> /\ feeder' \in {"ended", "ask"}
        /\ (Len(batch) < PrefetchDepth /\ batch' = Append(batch, held)) \/ batch' = batch
    BY <1>3 DEF FeederPush, dumperVars
  <2>2. IsSeq(batch') /\ Len(batch') <= PrefetchDepth
    BY <1>0, <2>1, SeqBounded, Zenon
  <2> QED
    BY <1>0, <2>1, <2>2 DEF IsSeq
<1> QED
  BY <1>1, <1>2, <1>3 DEF Feed

\* Every step of the reader keeps ReadTypes.
LEMMA ReadShape ==
  ASSUME ReadTypes, Reads
  PROVE  ReadTypes'
<1>1. CASE UNCHANGED <<rpc, dpc, feeder, quit, it, out, reply, batch>>
  BY <1>1, Zenon DEF ReadTypes, IsSeq
<1>2. CASE (Walk \/ ScanFails \/ DumperDies) /\ UNCHANGED <<feederVars, emitVars, runVars>>
  <2>1. UNCHANGED <<rpc, feeder, quit, batch>>
    BY <1>2, Zenon DEF feederVars, emitVars
  <2> QED
    BY <1>2, <2>1, WalkTypes DEF ReadTypes, IsSeq
<1>3. CASE Feed /\ UNCHANGED <<emitVars, runVars>>
  <2>1. UNCHANGED <<rpc, quit>>
    BY <1>3 DEF emitVars
  <2> QED
    BY <1>3, <2>1, FeedTypes DEF ReadTypes, IsSeq
<1>4. CASE Open
  <2>1. /\ UNCHANGED <<out, reply, batch, quit>> /\ rpc' \in {"run", "failed"}
        /\ dpc' \in {dpc, "idle"} /\ feeder' \in {feeder, "ask"}
        /\ it' = it \/ it' = [FreshIter EXCEPT !.pending = resume # NoCoord]
    BY Zenon, <1>4 DEF Open
  <2>2. /\ DOMAIN it' = DOMAIN FreshIter /\ it' = [fd \in DOMAIN it' |-> it'[fd]]
        /\ it'.stage \in 1 .. Done
    BY <2>1, FreshShape DEF ReadTypes
  <2> QED
    BY <2>1, <2>2 DEF ReadTypes, IsSeq
<1>5. CASE NextBatch
  <2>1. /\ UNCHANGED <<dpc, feeder, it, out, reply>> /\ batch # <<>> /\ batch' = Tail(batch)
        /\ rpc' \in {rpc, "closeErr"} /\ quit' \in {quit, TRUE}
    BY Zenon, <1>5 DEF NextBatch, dumperVars
  <2>2. IsSeq(batch') /\ Len(batch') <= PrefetchDepth
    <3>1. IsSeq(batch) /\ Len(batch) <= PrefetchDepth /\ PrefetchDepth \in Nat
      BY ReaderAssumption DEF ReadTypes
    <3> QED
      BY <2>1, <3>1, SeqTail
  <2>3. quit' \in BOOLEAN
    BY <2>1, Zenon DEF ReadTypes
  <2> QED
    BY <2>1, <2>2, <2>3, Zenon DEF ReadTypes, IsSeq, Closing
<1>6. CASE NextEnd \/ CloseIterator \/ EmitStops \/ EmitRecord
  <2>1. /\ UNCHANGED <<dpc, feeder, it, out, reply, batch>>
        /\ rpc' \in {rpc, "done", "failed", "closeOk", "closeErr"} /\ quit' \in {quit, TRUE}
    BY <1>6, Zenon DEF NextEnd, CloseIterator, EmitStops, EmitRecord, dumperVars, feederVars
  <2>2. quit' \in BOOLEAN
    BY <2>1, Zenon DEF ReadTypes
  <2> QED
    BY <2>1, <2>2 DEF ReadTypes, IsSeq, Closing
<1>7. CASE ExpireKey
  BY <1>1, <1>7, Zenon DEF ExpireKey, dumperVars, feederVars, emitVars
<1> QED
  BY <1>2, <1>3, <1>4, <1>5, <1>6, <1>7, Zenon DEF Reads, ReadStep, ReadFault, EmitFails

\* So does a crash.
LEMMA CrashShape ==
  ASSUME Crash
  PROVE  ReadTypes'
<1>1. /\ rpc' = "open" /\ it' = FreshIter /\ dpc' = "none" /\ feeder' = "none" /\ quit' = FALSE
      /\ out' = <<>> /\ reply' = <<>> /\ batch' = <<>>
  BY Zenon DEF Crash
<1>2. /\ IsSeq(out') /\ Len(out') = 0 /\ Len(reply') = 0 /\ IsSeq(batch') /\ Len(batch') = 0
  BY <1>1, SeqEmpty
<1>3. KBatch \in Nat /\ PrefetchDepth \in Nat
  BY ReaderAssumption
<1>4. /\ DOMAIN it' = DOMAIN FreshIter /\ it' = [fd \in DOMAIN it' |-> it'[fd]]
      /\ it'.stage \in 1 .. Done
  BY <1>1, FreshShape
<1>5. Len(out') <= KBatch /\ Len(reply') <= 1 /\ Len(batch') <= PrefetchDepth
  BY <1>2, <1>3
<1>6. IsSeq(out)' /\ IsSeq(batch)' /\ quit' \in BOOLEAN
  BY <1>1, <1>2, Zenon DEF IsSeq
<1> QED
  BY <1>1, <1>4, <1>5, <1>6 DEF ReadTypes

-----------------------------------------------------------------------------
(* Slot keys *)

Clean(b) == IsSeq(b) /\ \A i \in DOMAIN b : b[i].key \notin SlotKeys
CleanBatch(b) == b = Broken \/ Clean(b)

\* No stage between the walk and the consumer holds a record of a slot key.
CleanPath ==
  /\ it.cur # <<>> => it.cur[1].key \notin SlotKeys
  /\ Clean(out) /\ (reply # <<>> => Clean(reply[1])) /\ CleanBatch(held)
  /\ \A i \in DOMAIN batch : CleanBatch(batch[i])
  /\ Clean(buf) /\ Clean(emitted)

\* A record of another key keeps a batch clean.
LEMMA CleanAppend ==
  ASSUME NEW b, NEW x, Clean(b), x.key \notin SlotKeys
  PROVE  Clean(Append(b, x))
<1>1. IsSeq(Append(b, x))
  BY SeqAppend, Zenon DEF Clean
<1>2. \A i \in DOMAIN Append(b, x) : Append(b, x)[i].key \notin SlotKeys
  BY Elements DEF Clean
<1> QED
  BY <1>1, <1>2, Zenon DEF Clean

\* A prefix of clean events is clean.
LEMMA CleanCut ==
  ASSUME NEW b, NEW n \in Nat, Clean(b), n <= Len(b)
  PROVE  Clean(SubSeq(b, 1, n))
<1>1. IsSeq(SubSeq(b, 1, n))
  BY SeqCut, Zenon DEF Clean
<1>2. \A i \in DOMAIN SubSeq(b, 1, n) : SubSeq(b, 1, n)[i].key \notin SlotKeys
  BY Elements DEF Clean
<1> QED
  BY <1>1, <1>2, Zenon DEF Clean

\* An empty batch is clean.
LEMMA CleanEmpty == Clean(<<>>)
BY SeqEmpty DEF Clean

\* The walk takes no slot key and records only the key it is at.
LEMMA CleanWalk ==
  ASSUME ReadTypes, CleanPath, Walk \/ ScanFails \/ DumperDies
  PROVE  /\ it'.cur # <<>> => it'.cur[1].key \notin SlotKeys
         /\ Clean(out') /\ (reply' # <<>> => Clean(reply'[1]))
<1>0. /\ DOMAIN it = DOMAIN FreshIter /\ it = [fd \in DOMAIN it |-> it[fd]]
      /\ "cur" \in DOMAIN it /\ Clean(out) /\ (reply # <<>> => Clean(reply[1]))
      /\ it.cur # <<>> => it.cur[1].key \notin SlotKeys
  BY DEF ReadTypes, FreshIter, CleanPath
<1>1. CASE SkipStage \/ EndStage \/ DumperExits \/ DumperDies
  BY <1>0, <1>1, Zenon DEF SkipStage, EndStage, DumperExits, DumperDies, NextStage
<1>2. CASE Engage
  <2>1. PICK i : it' = [it EXCEPT !.pending = FALSE, !.from = i]
    BY Zenon, <1>2 DEF Engage
  <2> QED
    BY <1>0, <1>2, <2>1 DEF Engage
<1>3. CASE load_keys
  <2>1. PICK ks, n, d : it' = [it EXCEPT !.keys = ks, !.from = n, !.scanDone = d]
    BY Zenon, <1>3 DEF load_keys
  <2>2. UNCHANGED <<out, reply>>
    BY <1>3, Zenon DEF load_keys
  <2> QED
    BY <1>0, <2>1, <2>2
<1>4. CASE TakeKey
  <2>1. PICK ks : it' = [it EXCEPT !.keys = ks, !.pos = 0,
                            !.cur = IF Head(it.keys).key \in SlotKeys THEN <<>>
                                    ELSE <<Head(it.keys)>>]
    BY Zenon, <1>4 DEF TakeKey
  <2>2. it'.cur = IF Head(it.keys).key \in SlotKeys THEN <<>> ELSE <<Head(it.keys)>>
    BY <1>0, <2>1
  <2>3. UNCHANGED <<out, reply>>
    BY <1>4 DEF TakeKey
  <2> QED
    BY <1>0, <2>2, <2>3
<1>5. CASE LeaveKey
  <2>1. it' = [it EXCEPT !.cur = <<>>] /\ UNCHANGED <<out, reply>>
    BY <1>5 DEF LeaveKey
  <2> QED
    BY <1>0, <2>1
<1>6. ASSUME NEW cmd, NEW args
      PROVE  it.cur # <<>> => Clean(Append(out, Record(cmd, args)))
  <2>1. Record(cmd, args).key = it.cur[1].key
    BY DEF Record
  <2> QED
    BY <1>0, <2>1, CleanAppend, Zenon
<1>7. CASE StringRecord
  <2>1. UNCHANGED reply /\ it.cur # <<>> /\ it' = [it EXCEPT !.cur = <<>>]
    BY <1>7 DEF StringRecord, AtKey
  <2>2. PICK cmd, args : out' = Append(out, Record(cmd, args))
    BY Zenon, <1>7 DEF StringRecord
  <2>3. Clean(out')
    BY <1>6, <2>1, <2>2, Zenon
  <2> QED
    BY <1>0, <2>1, <2>3
<1>8. CASE ListRecord \/ HashRecord \/ SetRecord \/ ZSetRecord
  <2>1. UNCHANGED reply /\ it.cur # <<>>
    BY <1>8 DEF ListRecord, HashRecord, SetRecord, ZSetRecord, AtKey
  <2>2. PICK cmd, elements : Populate(cmd, elements)
    BY Zenon, <1>8 DEF ListRecord, HashRecord, SetRecord, ZSetRecord
  <2>3. out' = out \/ \E c, args : out' = Append(out, Record(c, args))
    BY Zenon, <2>2 DEF Populate
  <2>4. Clean(out')
    BY <1>0, <1>6, <2>1, <2>3, Zenon
  <2>5. \/ it' = [it EXCEPT !.pos = it.pos + BatchNum]
        \/ it' = [it EXCEPT !.cur = <<>>]
    BY Zenon, <2>2 DEF Populate
  <2>6. it'.cur = it.cur \/ it'.cur = <<>>
    BY <1>0, <2>5, Zenon
  <2> QED
    BY <1>0, <2>1, <2>4, <2>6, Zenon
<1>9. CASE WriteReply
  <2>1. out' = <<>> /\ reply' = <<out>> /\ it' = it
    BY <1>9 DEF WriteReply
  <2>2. reply'[1] = out
    BY <2>1, Zenon
  <2> QED
    BY <1>0, <2>1, <2>2, CleanEmpty, Zenon
<1>10. CASE ScanFails
  <2>1. out' = <<>> /\ UNCHANGED <<it, reply>>
    BY <1>10, Zenon DEF ScanFails
  <2> QED
    BY <1>0, <2>1, CleanEmpty, Zenon
<1> QED
  BY <1>1, <1>2, <1>3, <1>4, <1>5, <1>7, <1>8, <1>9, <1>10, Zenon DEF Walk

\* The feeder passes on what it read.
LEMMA CleanFeed ==
  ASSUME ReadTypes, CleanPath, Feed
  PROVE  /\ (reply' # <<>> => Clean(reply'[1])) /\ CleanBatch(held')
         /\ \A i \in DOMAIN batch' : CleanBatch(batch'[i])
<1>0. /\ (reply # <<>> => Clean(reply[1])) /\ CleanBatch(held)
      /\ IsSeq(batch) /\ \A i \in DOMAIN batch : CleanBatch(batch[i])
  BY DEF ReadTypes, CleanPath
<1>1. CleanBatch(Broken) /\ CleanBatch(<<>>)
  BY CleanEmpty, Zenon DEF CleanBatch
<1>2. CASE FeederAsk
  <2>1. UNCHANGED <<batch, reply>> /\ held' \in {held, Broken}
    BY Zenon, <1>2 DEF FeederAsk
  <2> QED
    BY <1>0, <1>1, <2>1
<1>3. CASE FeederRead
  <2>1. /\ UNCHANGED batch
        /\ \/ reply # <<>> /\ held' = reply[1] /\ reply' = <<>>
           \/ held' = Broken /\ reply' = reply
    BY Zenon, <1>3 DEF FeederRead
  <2> QED
    BY <1>0, <1>1, <2>1 DEF CleanBatch
<1>4. CASE FeederPush
  <2>1. UNCHANGED reply /\ held' = <<>> /\ (batch' = batch \/ batch' = Append(batch, held))
    BY <1>4, Zenon DEF FeederPush, dumperVars
  <2>2. \A i \in DOMAIN batch' : CleanBatch(batch'[i])
    BY <1>0, <2>1, Elements
  <2> QED
    BY <1>0, <1>1, <2>1, <2>2, Zenon
<1> QED
  BY <1>2, <1>3, <1>4, Zenon DEF Feed

\* CleanPath after a step, from the values the step leaves.
LEMMA CleanAfter ==
  ASSUME it'.cur # <<>> => it'.cur[1].key \notin SlotKeys,
         Clean(out'), reply' # <<>> => Clean(reply'[1]), CleanBatch(held'),
         \A i \in DOMAIN batch' : CleanBatch(batch'[i]),
         Clean(buf'), Clean(emitted')
  PROVE  CleanPath'
BY Zenon DEF CleanPath, Clean, CleanBatch, IsSeq, Broken

\* No step of the reader brings a slot key in.
LEMMA CleanRead ==
  ASSUME ReadTypes, CleanPath, Reads
  PROVE  CleanPath'
<1>1. \A b : Clean(b) => IsSeq(b) /\ (b # <<>> => Clean(Tail(b)) /\ Head(b).key \notin SlotKeys)
  <2> SUFFICES ASSUME NEW b, Clean(b), b # <<>>
               PROVE  Clean(Tail(b)) /\ Head(b).key \notin SlotKeys
    BY DEF Clean
  <2>1. IsSeq(b) /\ IsSeq(Tail(b))
    BY SeqTail DEF Clean
  <2> QED
    BY <2>1, Elements DEF Clean
<1>2. CASE UNCHANGED <<it, out, reply, held, batch, buf, emitted>>
  BY <1>2, CleanAfter, Zenon DEF CleanPath
<1>3. CASE (Walk \/ ScanFails \/ DumperDies) /\ UNCHANGED <<feederVars, emitVars, runVars>>
  <2>1. UNCHANGED <<held, batch, buf, emitted>>
    BY <1>3, Zenon DEF feederVars, emitVars
  <2> QED
    BY <1>3, <2>1, CleanAfter, CleanWalk, Zenon DEF CleanPath
<1>4. CASE Feed /\ UNCHANGED <<emitVars, runVars>>
  <2>1. UNCHANGED <<it, out, buf, emitted>>
    BY <1>4, FeedTypes DEF emitVars
  <2> QED
    BY <1>4, <2>1, CleanAfter, CleanFeed, Zenon DEF CleanPath
<1>5. CASE Open
  <2>1. /\ UNCHANGED <<out, reply, held, batch, buf, emitted>>
        /\ it' = it \/ it' = [FreshIter EXCEPT !.pending = resume # NoCoord]
    BY Zenon, <1>5 DEF Open
  <2>2. it'.cur = it.cur \/ it'.cur = <<>>
    BY <2>1 DEF FreshIter
  <2> QED
    BY <2>1, <2>2, CleanAfter DEF CleanPath
<1>6. CASE NextBatch
  <2>1. /\ UNCHANGED <<it, out, reply, held, emitted>> /\ batch # <<>> /\ batch' = Tail(batch)
        /\ buf' = buf \/ (Head(batch) # Broken /\ buf' = Head(batch))
    BY Zenon, <1>6 DEF NextBatch, dumperVars
  <2>2. /\ \A i \in DOMAIN batch' : CleanBatch(batch'[i])
        /\ CleanBatch(Head(batch))
    BY <2>1, Elements DEF CleanPath, ReadTypes
  <2>3. Clean(buf')
    BY <2>1, <2>2, Zenon DEF CleanPath, CleanBatch
  <2> QED
    BY <2>1, <2>2, <2>3, CleanAfter, Zenon DEF CleanPath
<1>7. CASE NextEnd \/ CloseIterator \/ EmitStops
  BY <1>2, <1>7, Zenon DEF NextEnd, CloseIterator, EmitStops, dumperVars, feederVars
<1>8. CASE EmitRecord
  <2>1. /\ UNCHANGED <<it, out, reply, held, batch>> /\ buf # <<>> /\ buf' = Tail(buf)
        /\ \E x : emitted' = Append(emitted, x) /\ x.key = Head(buf).key
    <3>1. UNCHANGED <<it, out, reply, held, batch>> /\ buf # <<>> /\ buf' = Tail(buf)
      BY <1>8, Zenon DEF EmitRecord, dumperVars, feederVars
    <3> DEFINE x == [rank |-> 0, pos |-> 0, seq |-> seq + 1, run |-> restarts,
                     cmd |-> Head(buf).cmd, type |-> Head(buf).type,
                     key |-> Head(buf).key, args |-> Head(buf).args]
    <3>2. emitted' = Append(emitted, x)
      BY <1>8 DEF EmitRecord
    <3>3. x.key = Head(buf).key
      BY Zenon
    <3> HIDE DEF x
    <3> QED
      BY <3>1, <3>2, <3>3, Zenon
  <2>2. Clean(buf') /\ Clean(emitted')
    BY <1>1, <2>1, CleanAppend, Zenon DEF CleanPath
  <2> QED
    BY <2>1, <2>2, CleanAfter, Zenon DEF CleanPath
<1>9. CASE ExpireKey
  BY <1>2, <1>9, Zenon DEF ExpireKey, dumperVars, feederVars, emitVars
<1> QED
  BY <1>3, <1>4, <1>5, <1>6, <1>7, <1>8, <1>9, Zenon DEF Reads, ReadStep, ReadFault, EmitFails

\* A crash brings none in.
LEMMA CleanCrash ==
  ASSUME CleanPath, Crash, NEW a \in Nat, a <= Len(emitted), emitted' = SubSeq(emitted, 1, a)
  PROVE  CleanPath'
<1>1. /\ it' = FreshIter /\ out' = <<>> /\ reply' = <<>> /\ held' = <<>> /\ batch' = <<>>
      /\ buf' = <<>>
  BY Zenon DEF Crash
<1>2. Clean(emitted')
  BY CleanCut, Zenon DEF CleanPath
<1>3. it'.cur = <<>> /\ DOMAIN batch' = {}
  BY <1>1, SeqEmpty, Zenon DEF FreshIter
<1> QED
  BY <1>1, <1>2, <1>3, CleanAfter, CleanEmpty, Zenon DEF CleanBatch

-----------------------------------------------------------------------------
(* Order on the way *)

\* With more records, or more keys dead, what was covered stays covered.
LEMMA CoverMono ==
  ASSUME NEW D, NEW G, NEW H, NEW A, NEW B, NEW s, NEW i,
         G \subseteq H, A \subseteq B, Cover(D, G, A, s, i)
  PROVE  Cover(D, H, B, s, i)
BY Zenon DEF Cover

\* So does what a record follows.
LEMMA FollowsMono ==
  ASSUME NEW D, NEW G, NEW H, NEW A, NEW B, NEW x,
         G \subseteq H, A \subseteq B, Follows(D, G, A, x)
  PROVE  Follows(D, H, B, x)
BY CoverMono, Zenon DEF Follows

\* So does the order of a line.
LEMMA LineMono ==
  ASSUME NEW D, NEW G, NEW H, NEW A, NEW B, NEW q,
         G \subseteq H, A \subseteq B
  PROVE  /\ Line(D, G, A, q) => Line(D, H, B, q)
         /\ LineOrBroken(D, G, A, q) => LineOrBroken(D, H, B, q)
<1>1. ASSUME Line(D, G, A, q) PROVE Line(D, H, B, q)
  <2>1. ASSUME NEW m \in DOMAIN q
        PROVE  Follows(D, H, B \cup {q[j] : j \in 1 .. (m - 1)}, q[m])
    <3> DEFINE P == {q[j] : j \in 1 .. (m - 1)}
    <3>1. Follows(D, G, A \cup P, q[m])
      BY <1>1, Zenon DEF Line
    <3> HIDE DEF P
    <3>2. A \cup P \subseteq B \cup P
      BY Zenon
    <3>3. Follows(D, H, B \cup P, q[m])
      BY <3>1, <3>2, FollowsMono, Zenon
    <3> QED
      BY <3>3 DEF P
  <2> QED
    BY <1>1, <2>1, Zenon DEF Line
<1> QED
  BY <1>1, Zenon DEF LineOrBroken

\* Nothing in the channel, nothing in a line.
LEMMA SetEmpty ==
  ASSUME NEW D, NEW G, NEW A
  PROVE  /\ SetOf(<<>>) = {} /\ AllOf(<<>>) = {} /\ \A b : AheadOf(<<>>, b) = {}
         /\ Line(D, G, A, <<>>) /\ LineOrBroken(D, G, A, <<>>)
BY SeqEmpty DEF SetOf, AllOf, AheadOf, Line, LineOrBroken

\* A line without its head.
LEMMA SetTail ==
  ASSUME NEW q, IsSeq(q), q # <<>>
  PROVE  /\ IsSeq(Tail(q)) /\ DOMAIN q = 1 .. Len(q) /\ Len(q) \in Nat \ {0}
         /\ DOMAIN Tail(q) = 1 .. (Len(q) - 1)
         /\ \A m \in 1 .. (Len(q) - 1) : Tail(q)[m] = q[m + 1]
         /\ Head(q) = q[1] /\ SetOf(q) = {Head(q)} \cup SetOf(Tail(q))
<1> DEFINE T == SetOf(q)
<1>1. q \in Seq(T)
  BY DEF IsSeq, SetOf
<1> HIDE DEF T
<1>2. /\ DOMAIN q = 1 .. Len(q) /\ Len(q) \in Nat \ {0} /\ Head(q) = q[1]
      /\ DOMAIN Tail(q) = 1 .. (Len(q) - 1)
      /\ \A m \in 1 .. (Len(q) - 1) : Tail(q)[m] = q[m + 1]
  BY <1>1
<1>3. \A m \in 1 .. Len(q) : m = 1 \/ (m - 1 \in 1 .. (Len(q) - 1) /\ Tail(q)[m - 1] = q[m])
  BY <1>2
<1>4. SetOf(q) = {Head(q)} \cup SetOf(Tail(q))
  <2>1. ASSUME NEW x \in SetOf(q) PROVE x = Head(q) \/ x \in SetOf(Tail(q))
    <3>1. PICK m \in 1 .. Len(q) : x = q[m]
      BY <1>2, Zenon DEF SetOf
    <3>2. CASE m = 1
      BY <1>2, <3>1, <3>2
    <3>3. CASE m - 1 \in DOMAIN Tail(q) /\ Tail(q)[m - 1] = q[m]
      BY <3>1, <3>3, Zenon DEF SetOf
    <3> QED
      BY <1>2, <1>3, <3>2, <3>3
  <2>2. \A x \in SetOf(Tail(q)) : x \in SetOf(q)
    BY <1>2 DEF SetOf
  <2>3. Head(q) \in SetOf(q)
    BY <1>2 DEF SetOf
  <2> QED
    BY <2>1, <2>2, <2>3, Zenon
<1> QED
  BY <1>2, <1>4, SeqTail, Zenon

\* A record that follows what is there may join the line.
LEMMA LineAppend ==
  ASSUME NEW D, NEW G, NEW A, NEW q, NEW x, Line(D, G, A, q), Follows(D, G, A \cup SetOf(q), x)
  PROVE  Line(D, G, A, Append(q, x))
<1> DEFINE r == Append(q, x)
<1>1. /\ IsSeq(r) /\ DOMAIN q = 1 .. Len(q) /\ Len(q) \in Nat /\ DOMAIN r = 1 .. (Len(q) + 1)
      /\ \A m \in 1 .. Len(q) : r[m] = q[m]
      /\ r[Len(q) + 1] = x
  BY SetAppend, Zenon DEF Line
<1> HIDE DEF r
<1>2. ASSUME NEW m \in 1 .. Len(q)
      PROVE  Follows(D, G, A \cup {r[j] : j \in 1 .. (m - 1)}, r[m])
  <2>1. {r[j] : j \in 1 .. (m - 1)} = {q[j] : j \in 1 .. (m - 1)}
    BY <1>1
  <2> QED
    BY <1>1, <2>1, Zenon DEF Line
<1>3. ASSUME NEW m, m = Len(q) + 1
      PROVE  Follows(D, G, A \cup {r[j] : j \in 1 .. (m - 1)}, r[m])
  <2>1. {r[j] : j \in 1 .. (m - 1)} = SetOf(q)
    BY <1>1, <1>3 DEF SetOf
  <2> QED
    BY <1>1, <1>3, <2>1, Zenon
<1>4. \A m \in DOMAIN r : m \in 1 .. Len(q) \/ m = Len(q) + 1
  BY <1>1
<1> QED
  BY <1>1, <1>2, <1>3, <1>4, Zenon DEF Line, r

\* The first of a line may leave it.
LEMMA LineHead ==
  ASSUME NEW D, NEW G, NEW A, NEW q, Line(D, G, A, q), q # <<>>
  PROVE  Follows(D, G, A, Head(q)) /\ Line(D, G, A \cup {Head(q)}, Tail(q))
<1> DEFINE r == Tail(q)
<1>1. /\ IsSeq(r) /\ DOMAIN q = 1 .. Len(q) /\ Len(q) \in Nat \ {0} /\ DOMAIN r = 1 .. (Len(q) - 1)
      /\ \A m \in 1 .. (Len(q) - 1) : r[m] = q[m + 1]
      /\ Head(q) = q[1]
  BY SetTail DEF Line
<1> HIDE DEF r
<1>2. Follows(D, G, A, Head(q))
  <2>1. {q[j] : j \in 1 .. (1 - 1)} = {} /\ 1 \in DOMAIN q
    BY <1>1
  <2>2. A \cup {q[j] : j \in 1 .. (1 - 1)} = A
    BY <2>1, Zenon
  <2> QED
    BY <1>1, <2>1, <2>2 DEF Line
<1>3. ASSUME NEW m \in DOMAIN r
      PROVE  Follows(D, G, (A \cup {Head(q)}) \cup {r[j] : j \in 1 .. (m - 1)}, r[m])
  <2>1. m \in 1 .. (Len(q) - 1) /\ m + 1 \in DOMAIN q /\ m + 1 - 1 = m /\ r[m] = q[m + 1]
    BY <1>1
  <2>2. Follows(D, G, A \cup {q[j] : j \in 1 .. m}, r[m])
    BY <2>1 DEF Line
  <2>3. ASSUME NEW j \in 1 .. m
        PROVE  q[j] = Head(q) \/ q[j] \in {r[k] : k \in 1 .. (m - 1)}
    <3>1. j = 1 \/ (j - 1 \in 1 .. (m - 1) /\ r[j - 1] = q[j])
      BY <1>1, <2>1
    <3> QED
      BY <1>1, <3>1
  <2>4. A \cup {q[j] : j \in 1 .. m} \subseteq (A \cup {Head(q)}) \cup {r[j] : j \in 1 .. (m - 1)}
    BY <2>3, Zenon
  <2> QED
    BY <2>2, <2>4, FollowsMono
<1> QED
  BY <1>1, <1>2, <1>3, Zenon DEF Line, r

\* A line that is cut short is one.
LEMMA LineCut ==
  ASSUME NEW D, NEW G, NEW A, NEW q, NEW n \in Nat, Line(D, G, A, q), n <= Len(q)
  PROVE  Line(D, G, A, SubSeq(q, 1, n))
<1> DEFINE r == SubSeq(q, 1, n)
<1>1. IsSeq(q) /\ IsSeq(r) /\ Len(q) \in Nat /\ DOMAIN q = 1 .. Len(q)
  <2>1. IsSeq(q)
    BY DEF Line
  <2> QED
    BY <2>1, SeqCut, SetAppend
<1>2. r = [m \in 1 .. n |-> q[m]]
  BY <1>1 DEF IsSeq
<1> HIDE DEF r
<1>3. ASSUME NEW m \in 1 .. n
      PROVE  Follows(D, G, A \cup {r[j] : j \in 1 .. (m - 1)}, r[m])
  <2>1. {r[j] : j \in 1 .. (m - 1)} = {q[j] : j \in 1 .. (m - 1)} /\ r[m] = q[m] /\ m \in DOMAIN q
    BY <1>1, <1>2
  <2> QED
    BY <2>1, Zenon DEF Line
<1> QED
  BY <1>1, <1>2, <1>3, Zenon DEF Line, r

-----------------------------------------------------------------------------
(* Moving on the way *)

\* One record more from the walk.
LEMMA MoveRecord ==
  ASSUME NEW D, NEW G, NEW E, NEW bf, NEW bt, NEW hd, NEW rp, NEW ot, NEW x,
         PathOrder(D, G, E, bf, bt, hd, rp, ot),
         Follows(D, G, Whole(E, bf, bt, hd, rp, ot), x)
  PROVE  /\ PathOrder(D, G, E, bf, bt, hd, rp, Append(ot, x))
         /\ Whole(E, bf, bt, hd, rp, Append(ot, x)) = Whole(E, bf, bt, hd, rp, ot) \cup {x}
<1> DEFINE A == Past(E, bf, bt) \cup SetOf(hd) \cup AllOf(rp)
<1>1. Line(D, G, A, ot) /\ Follows(D, G, A \cup SetOf(ot), x)
  BY Zenon DEF PathOrder, Whole
<1>2. SetOf(Append(ot, x)) = SetOf(ot) \cup {x}
  BY <1>1, SetAppend, Zenon DEF Line
<1>3. Line(D, G, A, Append(ot, x))
  BY <1>1, LineAppend, Zenon
<1>4. PathOrder(D, G, E, bf, bt, hd, rp, Append(ot, x))
  BY <1>3, Zenon DEF PathOrder
<1> QED
  BY <1>2, <1>4, Zenon DEF Whole

\* The reply is written.
LEMMA MoveReply ==
  ASSUME NEW D, NEW G, NEW E, NEW bf, NEW bt, NEW hd, NEW rp, NEW ot,
         PathOrder(D, G, E, bf, bt, hd, rp, ot), rp = <<>>
  PROVE  /\ PathOrder(D, G, E, bf, bt, hd, <<ot>>, <<>>)
         /\ Whole(E, bf, bt, hd, <<ot>>, <<>>) = Whole(E, bf, bt, hd, rp, ot)
<1> DEFINE one == <<ot>>
<1>1. IsSeq(one) /\ DOMAIN one = {1} /\ one[1] = ot
  <2>1. <<ot>> \in Seq({ot})
    OBVIOUS
  <2>2. IsSeq(one)
    BY <2>1, AnySeq, Zenon
  <2>3. DOMAIN one = {1} /\ one[1] = ot
    OBVIOUS
  <2> QED
    BY <2>2, <2>3
<1> HIDE DEF one
<1>2. AllOf(one) = SetOf(ot) /\ AllOf(<<>>) = {} /\ SetOf(<<>>) = {}
  BY <1>1, SetEmpty DEF AllOf
<1>3. Line(D, G, Past(E, bf, bt) \cup SetOf(hd), ot)
  BY <1>2, Zenon DEF PathOrder
<1>4. PathOrder(D, G, E, bf, bt, hd, one, <<>>)
  BY <1>1, <1>3, SetEmpty, Zenon DEF PathOrder
<1>5. Whole(E, bf, bt, hd, one, <<>>) = Whole(E, bf, bt, hd, rp, ot)
  BY <1>2, Zenon DEF Whole
<1> QED
  BY <1>4, <1>5 DEF one

\* The feeder reads it.
LEMMA MoveRead ==
  ASSUME NEW D, NEW G, NEW E, NEW bf, NEW bt, NEW hd, NEW rp, NEW ot,
         PathOrder(D, G, E, bf, bt, hd, rp, ot), hd = <<>>, rp # <<>>, Len(rp) <= 1
  PROVE  /\ PathOrder(D, G, E, bf, bt, rp[1], <<>>, ot)
         /\ Whole(E, bf, bt, rp[1], <<>>, ot) = Whole(E, bf, bt, hd, rp, ot)
<1>1. IsSeq(rp) /\ DOMAIN rp = {1}
  <2>1. IsSeq(rp)
    BY Zenon DEF PathOrder
  <2>2. DOMAIN rp = 1 .. Len(rp) /\ Len(rp) \in Nat \ {0}
    BY <2>1, SetTail
  <2> QED
    BY <2>1, <2>2
<1>2. /\ AllOf(rp) = SetOf(rp[1]) /\ AllOf(<<>>) = {} /\ SetOf(hd) = {}
      /\ Line(D, G, Past(E, bf, bt), rp[1])
  <2>1. AllOf(rp) = SetOf(rp[1])
    BY <1>1 DEF AllOf
  <2>2. AllOf(<<>>) = {} /\ SetOf(hd) = {}
    BY SetEmpty, Zenon
  <2> QED
    BY <1>1, <2>1, <2>2, Zenon DEF PathOrder
<1>3. Line(D, G, Past(E, bf, bt) \cup SetOf(rp[1]) \cup AllOf(<<>>), ot)
  <2>1. Past(E, bf, bt) \cup SetOf(rp[1]) \cup AllOf(<<>>) = Past(E, bf, bt) \cup SetOf(hd) \cup AllOf(rp)
    BY <1>2, Zenon
  <2> QED
    BY <2>1, Zenon DEF PathOrder
<1>4. PathOrder(D, G, E, bf, bt, rp[1], <<>>, ot)
  BY <1>2, <1>3, SeqEmpty, Zenon DEF PathOrder, LineOrBroken
<1> QED
  BY <1>2, <1>4, Zenon DEF Whole

\* The records ahead of each batch after a push.
LEMMA ChannelAppend ==
  ASSUME NEW bt, NEW hd, IsSeq(bt)
  PROVE  /\ AllOf(Append(bt, hd)) = AllOf(bt) \cup SetOf(hd)
         /\ AheadOf(Append(bt, hd), Len(bt) + 1) = AllOf(bt)
         /\ \A b \in DOMAIN bt : AheadOf(Append(bt, hd), b) = AheadOf(bt, b)
<1> DEFINE r == Append(bt, hd)
<1>1. /\ DOMAIN bt = 1 .. Len(bt) /\ Len(bt) \in Nat /\ DOMAIN r = 1 .. (Len(bt) + 1)
      /\ \A m \in 1 .. Len(bt) : r[m] = bt[m]
      /\ r[Len(bt) + 1] = hd
  BY SetAppend
<1> HIDE DEF r
<1>2. AllOf(r) = AllOf(bt) \cup SetOf(hd)
  <2>1. \A m \in DOMAIN r : m \in DOMAIN bt \/ m = Len(bt) + 1
    BY <1>1
  <2>2. \A m \in DOMAIN bt : m \in DOMAIN r /\ r[m] = bt[m]
    BY <1>1
  <2>3. Len(bt) + 1 \in DOMAIN r
    BY <1>1
  <2> QED
    BY <1>1, <2>1, <2>2, <2>3, Zenon DEF AllOf
<1>3. AheadOf(r, Len(bt) + 1) = AllOf(bt)
  <2>1. {j \in DOMAIN r : j < Len(bt) + 1} = DOMAIN bt /\ \A m \in DOMAIN bt : r[m] = bt[m]
    BY <1>1
  <2> QED
    BY <2>1, Zenon DEF AllOf, AheadOf
<1>4. ASSUME NEW b \in DOMAIN bt PROVE AheadOf(r, b) = AheadOf(bt, b)
  <2>1. /\ {j \in DOMAIN r : j < b} = {j \in DOMAIN bt : j < b}
        /\ \A m \in {j \in DOMAIN bt : j < b} : r[m] = bt[m]
    BY <1>1
  <2> QED
    BY <2>1, Zenon DEF AheadOf
<1> QED
  BY <1>2, <1>3, <1>4, Zenon DEF r

\* A push takes the held records past the channel.
LEMMA PushPast ==
  ASSUME NEW E, NEW bf, NEW bt, NEW hd, IsSeq(bt)
  PROVE  Past(E, bf, Append(bt, hd)) = Past(E, bf, bt) \cup SetOf(hd)
<1>1. AllOf(Append(bt, hd)) = AllOf(bt) \cup SetOf(hd)
  BY ChannelAppend, Zenon
<1> QED
  BY <1>1, Zenon DEF Past

\* A push leaves the whole path alone.
LEMMA PushWhole ==
  ASSUME NEW E, NEW bf, NEW bt, NEW hd, NEW rp, NEW ot, IsSeq(bt)
  PROVE  Whole(E, bf, Append(bt, hd), <<>>, rp, ot) = Whole(E, bf, bt, hd, rp, ot)
<1>1. Past(E, bf, Append(bt, hd)) = Past(E, bf, bt) \cup SetOf(hd) /\ SetOf(<<>>) = {}
  BY PushPast, SetEmpty
<1> QED
  BY <1>1, Zenon DEF Whole

\* The feeder pushes what it holds into the channel.
LEMMA MovePush ==
  ASSUME NEW D, NEW G, NEW E, NEW bf, NEW bt, NEW hd, NEW rp, NEW ot, NEW r, r = Append(bt, hd),
         PathOrder(D, G, E, bf, bt, hd, rp, ot)
  PROVE  PathOrder(D, G, E, bf, r, <<>>, rp, ot)
<1>1. /\ IsSeq(r) /\ DOMAIN bt = 1 .. Len(bt) /\ Len(bt) \in Nat /\ DOMAIN r = 1 .. (Len(bt) + 1)
      /\ \A m \in 1 .. Len(bt) : r[m] = bt[m]
      /\ r[Len(bt) + 1] = hd
  BY SetAppend DEF PathOrder
<1>2. /\ AheadOf(r, Len(bt) + 1) = AllOf(bt)
      /\ \A b \in DOMAIN bt : AheadOf(r, b) = AheadOf(bt, b)
  BY ChannelAppend, Zenon DEF PathOrder
<1>3. Past(E, bf, r) = Past(E, bf, bt) \cup SetOf(hd) /\ SetOf(<<>>) = {}
  BY PushPast, SetEmpty DEF PathOrder
<1>4. ASSUME NEW b \in DOMAIN r
      PROVE  LineOrBroken(D, G, E \cup SetOf(bf) \cup AheadOf(r, b), r[b])
  <2>1. CASE b \in DOMAIN bt
    BY <1>1, <1>2, <2>1 DEF PathOrder
  <2>2. CASE b = Len(bt) + 1
    BY <1>1, <1>2, <2>2 DEF PathOrder, Past
  <2>3. b \in DOMAIN bt \/ b = Len(bt) + 1
    <3>1. Len(bt) \in Nat /\ DOMAIN bt = 1 .. Len(bt) /\ b \in 1 .. (Len(bt) + 1)
      BY <1>1, Zenon
    <3> QED
      BY <3>1
  <2> QED
    BY <2>1, <2>2, <2>3, Zenon
<1>5. /\ Past(E, bf, r) \cup SetOf(<<>>) = Past(E, bf, bt) \cup SetOf(hd)
      /\ Past(E, bf, r) \cup SetOf(<<>>) \cup AllOf(rp) = Past(E, bf, bt) \cup SetOf(hd) \cup AllOf(rp)
  BY <1>3, Zenon
<1> QED
  BY <1>1, <1>4, <1>5, SetEmpty, Zenon DEF PathOrder

\* The records ahead of each batch after a receive.
LEMMA ChannelTail ==
  ASSUME NEW bt, IsSeq(bt), bt # <<>>
  PROVE  /\ AllOf(bt) = SetOf(Head(bt)) \cup AllOf(Tail(bt))
         /\ AheadOf(bt, 1) = {}
         /\ \A b \in DOMAIN Tail(bt) :
              AheadOf(bt, b + 1) = SetOf(Head(bt)) \cup AheadOf(Tail(bt), b)
<1> DEFINE r == Tail(bt)
<1>1. /\ DOMAIN bt = 1 .. Len(bt) /\ Len(bt) \in Nat \ {0} /\ DOMAIN r = 1 .. (Len(bt) - 1)
      /\ \A m \in 1 .. (Len(bt) - 1) : r[m] = bt[m + 1]
      /\ Head(bt) = bt[1]
  BY SetTail
<1> HIDE DEF r
<1>2. /\ 1 \in DOMAIN bt
      /\ \A m \in DOMAIN bt : m = 1 \/ (m - 1 \in DOMAIN r /\ r[m - 1] = bt[m])
      /\ \A m \in DOMAIN r : m + 1 \in DOMAIN bt /\ r[m] = bt[m + 1]
  BY <1>1
<1>3. AllOf(bt) = SetOf(Head(bt)) \cup AllOf(r)
  <2>1. ASSUME NEW j \in DOMAIN bt PROVE SetOf(bt[j]) \subseteq SetOf(Head(bt)) \cup AllOf(r)
    BY <1>1, <1>2, Zenon DEF AllOf
  <2>2. ASSUME NEW j \in DOMAIN r PROVE SetOf(r[j]) \subseteq AllOf(bt)
    BY <1>2, Zenon DEF AllOf
  <2>3. SetOf(Head(bt)) \subseteq AllOf(bt)
    BY <1>1, <1>2, Zenon DEF AllOf
  <2> QED
    BY <2>1, <2>2, <2>3, Zenon DEF AllOf
<1>4. AheadOf(bt, 1) = {}
  <2>1. \A j \in DOMAIN bt : ~(j < 1)
    BY <1>1
  <2> QED
    BY <2>1, Zenon DEF AheadOf
<1>5. ASSUME NEW b \in DOMAIN r
      PROVE  AheadOf(bt, b + 1) = SetOf(Head(bt)) \cup AheadOf(r, b)
  <2>1. /\ \A j \in DOMAIN bt : j < b + 1 => j = 1 \/ (j - 1 \in DOMAIN r /\ j - 1 < b /\ r[j - 1] = bt[j])
        /\ \A j \in DOMAIN r : j < b => j + 1 \in DOMAIN bt /\ j + 1 < b + 1 /\ r[j] = bt[j + 1]
        /\ 1 < b + 1
    BY <1>1, <1>2
  <2>2. ASSUME NEW j \in DOMAIN bt, j < b + 1
        PROVE  SetOf(bt[j]) \subseteq SetOf(Head(bt)) \cup AheadOf(r, b)
    BY <1>1, <2>1, <2>2, Zenon DEF AheadOf
  <2>3. ASSUME NEW j \in DOMAIN r, j < b PROVE SetOf(r[j]) \subseteq AheadOf(bt, b + 1)
    BY <2>1, <2>3, Zenon DEF AheadOf
  <2>4. SetOf(Head(bt)) \subseteq AheadOf(bt, b + 1)
    BY <1>1, <1>2, <2>1, Zenon DEF AheadOf
  <2> QED
    BY <2>2, <2>3, <2>4, Zenon DEF AheadOf
<1> QED
  BY <1>3, <1>4, <1>5, Zenon DEF r

\* Next receives a batch.
LEMMA MoveNext ==
  ASSUME NEW D, NEW G, NEW E, NEW bf, NEW bt, NEW hd, NEW rp, NEW ot,
         PathOrder(D, G, E, bf, bt, hd, rp, ot), bf = <<>>, bt # <<>>, Head(bt) # Broken
  PROVE  /\ PathOrder(D, G, E, Head(bt), Tail(bt), hd, rp, ot)
         /\ Past(E, Head(bt), Tail(bt)) = Past(E, bf, bt)
         /\ Whole(E, Head(bt), Tail(bt), hd, rp, ot) = Whole(E, bf, bt, hd, rp, ot)
<1> DEFINE h == Head(bt)
           r == Tail(bt)
<1>1. /\ IsSeq(r) /\ DOMAIN bt = 1 .. Len(bt) /\ Len(bt) \in Nat \ {0}
      /\ DOMAIN r = 1 .. (Len(bt) - 1)
      /\ \A m \in 1 .. (Len(bt) - 1) : r[m] = bt[m + 1]
      /\ h = bt[1]
  BY SetTail DEF PathOrder
<1>2. /\ AllOf(bt) = SetOf(h) \cup AllOf(r) /\ AheadOf(bt, 1) = {}
      /\ \A b \in DOMAIN r : AheadOf(bt, b + 1) = SetOf(h) \cup AheadOf(r, b)
  BY ChannelTail, Zenon DEF PathOrder
<1> HIDE DEF h, r
<1>3. SetOf(bf) = {}
  BY SetEmpty, Zenon
<1>4. Past(E, h, r) = Past(E, bf, bt)
  BY <1>2, <1>3, Zenon DEF Past
<1>5. Line(D, G, E, h)
  <2>1. LineOrBroken(D, G, E \cup SetOf(bf) \cup AheadOf(bt, 1), bt[1])
    BY <1>1 DEF PathOrder
  <2>2. E \cup SetOf(bf) \cup AheadOf(bt, 1) = E
    BY <1>2, <1>3, Zenon
  <2> QED
    BY <1>1, <2>1, <2>2, Zenon DEF LineOrBroken, h
<1>6. ASSUME NEW b \in DOMAIN r
      PROVE  LineOrBroken(D, G, E \cup SetOf(h) \cup AheadOf(r, b), r[b])
  <2>1. b + 1 \in DOMAIN bt /\ r[b] = bt[b + 1]
    BY <1>1
  <2>2. LineOrBroken(D, G, E \cup SetOf(bf) \cup AheadOf(bt, b + 1), r[b])
    BY <2>1, Zenon DEF PathOrder
  <2>3. E \cup SetOf(bf) \cup AheadOf(bt, b + 1) = E \cup SetOf(h) \cup AheadOf(r, b)
    BY <1>2, <1>3, Zenon
  <2> QED
    BY <2>2, <2>3, Zenon
<1>7. PathOrder(D, G, E, h, r, hd, rp, ot)
  BY <1>1, <1>4, <1>5, <1>6, Zenon DEF PathOrder
<1> QED
  BY <1>4, <1>7, Zenon DEF Whole, h, r

\* A record becomes an event.
LEMMA MoveEmit ==
  ASSUME NEW D, NEW G, NEW E, NEW bf, NEW bt, NEW hd, NEW rp, NEW ot,
         PathOrder(D, G, E, bf, bt, hd, rp, ot), bf # <<>>
  PROVE  /\ PathOrder(D, G, E \cup {Head(bf)}, Tail(bf), bt, hd, rp, ot)
         /\ Past(E \cup {Head(bf)}, Tail(bf), bt) = Past(E, bf, bt)
         /\ Whole(E \cup {Head(bf)}, Tail(bf), bt, hd, rp, ot) = Whole(E, bf, bt, hd, rp, ot)
         /\ Follows(D, G, E, Head(bf))
<1> DEFINE h == Head(bf)
           r == Tail(bf)
<1>1. SetOf(bf) = {h} \cup SetOf(r)
  BY SetTail, Zenon DEF PathOrder, Line
<1>2. Follows(D, G, E, h) /\ Line(D, G, E \cup {h}, r)
  BY LineHead, Zenon DEF PathOrder
<1> HIDE DEF h, r
<1>3. /\ Past(E \cup {h}, r, bt) = Past(E, bf, bt)
      /\ E \cup {h} \cup SetOf(r) = E \cup SetOf(bf)
  BY <1>1, Zenon DEF Past
<1>4. ASSUME NEW b \in DOMAIN bt
      PROVE  LineOrBroken(D, G, E \cup {h} \cup SetOf(r) \cup AheadOf(bt, b), bt[b])
  <2>1. LineOrBroken(D, G, E \cup SetOf(bf) \cup AheadOf(bt, b), bt[b])
    BY Zenon DEF PathOrder
  <2> QED
    BY <1>3, <2>1, Zenon
<1>5. PathOrder(D, G, E \cup {h}, r, bt, hd, rp, ot)
  BY <1>2, <1>3, <1>4, Zenon DEF PathOrder
<1> QED
  BY <1>2, <1>3, <1>5, Zenon DEF Whole, h, r

\* The feeder finds the dumper dead, or keys expire.
LEMMA MoveGrow ==
  ASSUME NEW D, NEW G, NEW H, NEW E, NEW bf, NEW bt, NEW hd, NEW k, NEW rp, NEW ot,
         PathOrder(D, G, E, bf, bt, hd, rp, ot), G \subseteq H,
         k = hd \/ (hd = <<>> /\ k = Broken)
  PROVE  /\ PathOrder(D, H, E, bf, bt, k, rp, ot)
         /\ Whole(E, bf, bt, hd, rp, ot) \subseteq Whole(E, bf, bt, k, rp, ot)
<1> DEFINE P == Past(E, bf, bt)
<1>1. SetOf(hd) \subseteq SetOf(k)
  BY SetEmpty, Zenon
<1>2. ASSUME NEW b \in DOMAIN bt
      PROVE  LineOrBroken(D, H, E \cup SetOf(bf) \cup AheadOf(bt, b), bt[b])
  <2> DEFINE A == E \cup SetOf(bf) \cup AheadOf(bt, b)
  <2>1. LineOrBroken(D, G, A, bt[b])
    BY Zenon DEF PathOrder
  <2> HIDE DEF A
  <2>2. LineOrBroken(D, H, A, bt[b])
    BY <2>1, LineMono, Zenon
  <2> QED
    BY <2>2 DEF A
<1>3. LineOrBroken(D, H, P, k)
  BY LineMono, Zenon DEF PathOrder, LineOrBroken
<1>4. P \cup SetOf(hd) \subseteq P \cup SetOf(k)
  BY <1>1, Zenon
<1>5. ASSUME NEW r \in DOMAIN rp PROVE Line(D, H, P \cup SetOf(k), rp[r])
  <2> DEFINE A == P \cup SetOf(hd)
             B == P \cup SetOf(k)
  <2>1. Line(D, G, A, rp[r])
    BY Zenon DEF PathOrder
  <2>2. A \subseteq B
    BY <1>4, Zenon
  <2> HIDE DEF A, B
  <2>3. Line(D, H, B, rp[r])
    BY <2>1, <2>2, LineMono, Zenon
  <2> QED
    BY <2>3 DEF B
<1>6. P \cup SetOf(hd) \cup AllOf(rp) \subseteq P \cup SetOf(k) \cup AllOf(rp)
  BY <1>1, Zenon
<1>7. Line(D, H, P \cup SetOf(k) \cup AllOf(rp), ot) /\ Line(D, H, E, bf)
  <2> DEFINE A == P \cup SetOf(hd) \cup AllOf(rp)
             B == P \cup SetOf(k) \cup AllOf(rp)
  <2>1. Line(D, G, A, ot) /\ Line(D, G, E, bf)
    BY Zenon DEF PathOrder
  <2>2. A \subseteq B
    BY <1>6, Zenon
  <2> HIDE DEF A, B
  <2>3. Line(D, H, B, ot) /\ Line(D, H, E, bf)
    BY <2>1, <2>2, LineMono, Zenon
  <2> QED
    BY <2>3 DEF B
<1>8. PathOrder(D, H, E, bf, bt, k, rp, ot)
  BY <1>2, <1>3, <1>5, <1>7, Zenon DEF PathOrder
<1> QED
  BY <1>1, <1>8, Zenon DEF Whole

-----------------------------------------------------------------------------
(* The walk *)

\* The keys of q that were taken, given where the next scan starts and what is left
\* of the last one.
Scanned(q, from, keys) == (IF from - 1 < Len(q) THEN from - 1 ELSE Len(q)) - Len(keys)

ScanOk(q, from, keys, scanDone, cur, pos) ==
  /\ from \in Nat \ {0} /\ IsSeq(keys) /\ Scanned(q, from, keys) \in Nat
  /\ \A k \in DOMAIN keys : keys[k] = q[Scanned(q, from, keys) + k]
  /\ scanDone => from > Len(q)
  /\ cur # <<>> => /\ Scanned(q, from, keys) \in DOMAIN q
                   /\ cur = <<q[Scanned(q, from, keys)]>>
                   /\ \E m \in Nat : pos = m * BatchNum

\* W has the records of the keys the walk has been through, and those of the key
\* it is at up to its position.
Walked(D, G, W, s, from, keys, cur, pos) ==
  IF s = 6 THEN Cover(D, G, W, 6, 1)
  ELSE IF cur = <<>> THEN Cover(D, G, W, s, Scanned(D[s], from, keys) + 1)
  ELSE /\ Cover(D, G, W, s, Scanned(D[s], from, keys))
       /\ cur[1].key \notin G /\ s # 1 => Populated(s, cur[1], pos) \subseteq W

\* A scan puts keys in hand and takes none.
LEMMA ScanLoad ==
  ASSUME NEW q, NEW from, NEW sd, NEW pos, NEW p, IsSeq(q), ScanOk(q, from, <<>>, sd, <<>>, pos)
  PROVE  /\ ScanOk(q, from + ScanBatch, Slice(q, from, ScanBatch), from + ScanBatch > Len(q), <<>>, p)
         /\ Scanned(q, from + ScanBatch, Slice(q, from, ScanBatch)) = Scanned(q, from, <<>>)
<1> DEFINE ks == Slice(q, from, ScanBatch)
           f == from + ScanBatch
<1>1. from \in Nat \ {0} /\ ScanBatch \in Nat \ {0} /\ Len(<<>>) = 0
  BY ReaderAssumption, SeqEmpty DEF ScanOk
<1>2. /\ IsSeq(ks) /\ Len(q) \in Nat /\ DOMAIN q = 1 .. Len(q)
      /\ from > Len(q) => Len(ks) = 0
      /\ from + ScanBatch - 1 < Len(q) => Len(ks) = ScanBatch
      /\ from <= Len(q) /\ from + ScanBatch - 1 >= Len(q) => Len(ks) = Len(q) - from + 1
      /\ DOMAIN ks = 1 .. Len(ks)
      /\ \A k \in DOMAIN ks : ks[k] = q[from + k - 1]
  BY <1>1, SliceFacts
<1> HIDE DEF ks
<1>3. /\ Scanned(q, f, ks) = Scanned(q, from, <<>>) /\ Scanned(q, f, ks) \in Nat
      /\ from <= Len(q) => Scanned(q, f, ks) = from - 1
      /\ from > Len(q) => DOMAIN ks = {}
  <2> DEFINE L == Len(q)
             K == Len(ks)
  <2>1. /\ L \in Nat /\ from \in Nat /\ from # 0 /\ ScanBatch \in Nat /\ ScanBatch # 0
        /\ from > L => K = 0
        /\ from + ScanBatch - 1 < L => K = ScanBatch
        /\ from <= L /\ from + ScanBatch - 1 >= L => K = L - from + 1
    BY <1>1, <1>2, Zenon
  <2>2. /\ Scanned(q, from, <<>>) = IF from - 1 < L THEN from - 1 ELSE L
        /\ Scanned(q, f, ks) = (IF f - 1 < L THEN f - 1 ELSE L) - K
    BY <1>1, <2>1 DEF Scanned
  <2>3. from > L => DOMAIN ks = {}
    BY <1>2, <2>1
  <2> HIDE DEF L, K
  <2>4. /\ (IF f - 1 < L THEN f - 1 ELSE L) - K = (IF from - 1 < L THEN from - 1 ELSE L)
        /\ from <= L => (IF f - 1 < L THEN f - 1 ELSE L) - K = from - 1
        /\ (IF from - 1 < L THEN from - 1 ELSE L) \in Nat
    BY <2>1
  <2> QED
    BY <2>2, <2>3, <2>4 DEF L
<1>4. \A k \in DOMAIN ks : ks[k] = q[Scanned(q, f, ks) + k]
  <2>1. ASSUME NEW k \in DOMAIN ks PROVE ks[k] = q[Scanned(q, f, ks) + k]
    <3>0. Len(q) \in Nat /\ from \in Nat /\ k \in 1 .. Len(ks)
      BY <1>1, <1>2, Zenon
    <3>1. from <= Len(q) /\ k \in Int
      BY <1>3, <3>0
    <3>2. from + k - 1 = (from - 1) + k /\ Scanned(q, f, ks) = from - 1
      BY <1>1, <1>3, <3>1
    <3> QED
      BY <1>2, <3>2
  <2> QED
    BY <2>1
<1>5. f \in Nat \ {0}
  BY <1>1
<1> QED
  BY <1>2, <1>3, <1>4, <1>5, Zenon DEF ScanOk, ks

\* The next key in hand is the next of the stage.
LEMMA ScanTake ==
  ASSUME NEW q, NEW from, NEW keys, NEW sd, NEW pos, IsSeq(q), keys # <<>>,
         ScanOk(q, from, keys, sd, <<>>, pos)
  PROVE  /\ Scanned(q, from, Tail(keys)) = Scanned(q, from, keys) + 1
         /\ Scanned(q, from, keys) \in Nat /\ Scanned(q, from, keys) + 1 \in DOMAIN q
         /\ Head(keys) = q[Scanned(q, from, keys) + 1]
         /\ ScanOk(q, from, Tail(keys), sd, <<>>, 0) /\ ScanOk(q, from, Tail(keys), sd, <<Head(keys)>>, 0)
<1> DEFINE ks == Tail(keys)
           n == Scanned(q, from, keys)
<1>1. /\ IsSeq(ks) /\ DOMAIN keys = 1 .. Len(keys) /\ Len(keys) \in Nat \ {0}
      /\ DOMAIN ks = 1 .. (Len(keys) - 1) /\ Len(ks) = Len(keys) - 1
      /\ \A m \in 1 .. (Len(keys) - 1) : ks[m] = keys[m + 1]
      /\ Head(keys) = keys[1]
  BY SetTail, SeqTail DEF ScanOk
<1>2. n \in Nat /\ Len(q) \in Nat /\ DOMAIN q = 1 .. Len(q) /\ from \in Nat \ {0}
  BY SetAppend DEF ScanOk
<1> HIDE DEF ks
<1>3. Scanned(q, from, ks) = n + 1 /\ n + Len(keys) <= Len(q)
  BY <1>1, <1>2 DEF Scanned
<1>4. \A k \in DOMAIN keys : keys[k] = q[n + k]
  BY Zenon DEF ScanOk
<1>5. n + 1 \in DOMAIN q /\ Head(keys) = q[n + 1]
  BY <1>1, <1>2, <1>3, <1>4
<1>6. \A k \in DOMAIN ks : ks[k] = q[Scanned(q, from, ks) + k]
  <2>1. ASSUME NEW k \in DOMAIN ks PROVE ks[k] = keys[k + 1] /\ k + 1 \in DOMAIN keys /\ n + 1 + k = n + (k + 1)
    BY <1>1, <1>2
  <2> QED
    BY <1>3, <1>4, <2>1, Zenon
<1>7. 0 = 0 * BatchNum /\ n + 1 \in Nat
  BY <1>2, ReaderAssumption
<1>8. sd => from > Len(q)
  BY Zenon DEF ScanOk
<1> HIDE DEF n
<1>9. ScanOk(q, from, ks, sd, <<>>, 0)
  BY <1>1, <1>2, <1>3, <1>6, <1>7, <1>8, Zenon DEF ScanOk
<1>10. ScanOk(q, from, ks, sd, <<Head(keys)>>, 0)
  BY <1>1, <1>2, <1>3, <1>5, <1>6, <1>7, <1>8, Zenon DEF ScanOk
<1> QED
  BY <1>2, <1>3, <1>5, <1>9, <1>10, Zenon DEF ks, n

\* A finished scan with nothing in hand has taken every key.
LEMMA ScanEnd ==
  ASSUME NEW q, NEW from, NEW sd, NEW pos, IsSeq(q), ScanOk(q, from, <<>>, sd, <<>>, pos), sd
  PROVE  Scanned(q, from, <<>>) = Len(q)
BY SeqEmpty, SetAppend DEF ScanOk, Scanned

\* A stage begins with nothing taken.
LEMMA ScanStart ==
  ASSUME NEW q, NEW from \in Nat \ {0}, NEW pos, IsSeq(q), from = 1 \/ from \in DOMAIN q
  PROVE  ScanOk(q, from, <<>>, FALSE, <<>>, pos) /\ Scanned(q, from, <<>>) = from - 1
<1>1. Len(q) \in Nat /\ DOMAIN q = 1 .. Len(q) /\ Len(<<>>) = 0 /\ DOMAIN <<>> = {} /\ IsSeq(<<>>)
  BY SetAppend, SeqEmpty
<1>2. Scanned(q, from, <<>>) = from - 1
  BY <1>1 DEF Scanned
<1> QED
  BY <1>1, <1>2 DEF ScanOk

\* The dump: each type's keys are distinct.
Shape(D) ==
  \A s \in 1 .. 5 :
    /\ IsSeq(D[s]) /\ \A i, j \in DOMAIN D[s] : D[s][i].key = D[s][j].key => i = j
    /\ s # 1 => \A i \in DOMAIN D[s] : IsSeq(D[s][i].content)

\* The dump is what DbAssumption says of the database.
LEMMA DumpShape == Shape(Dump)
<1> SUFFICES ASSUME NEW s \in 1 .. 5
             PROVE  /\ IsSeq(Dump[s])
                    /\ \A i, j \in DOMAIN Dump[s] : Dump[s][i].key = Dump[s][j].key => i = j
                    /\ s # 1 => \A i \in DOMAIN Dump[s] : IsSeq(Dump[s][i].content)
  BY Zenon DEF Shape
<1>1. Dump[s] = Stored(Stages[s])
  BY DEF Dump
<1>2. Stages[s] \in DOMAIN Db /\ (s # 1 => Stages[s] # "string")
  BY DbAssumption DEF Stages
<1>3. CASE Dump[s] = <<>>
  BY <1>3, SeqEmpty
<1>4. CASE Dump[s] = Db[Stages[s]]
  <2>1. /\ Db[Stages[s]] \in Seq(Elems(Db[Stages[s]]))
        /\ \A i, j \in DOMAIN Db[Stages[s]] : Db[Stages[s]][i].key = Db[Stages[s]][j].key => i = j
        /\ s # 1 => \A i \in DOMAIN Db[Stages[s]] :
             Db[Stages[s]][i].content \in Seq(Elems(Db[Stages[s]][i].content))
    BY <1>2, DbAssumption, Zenon
  <2> QED
    BY <1>4, <2>1, AnySeq, Zenon
<1> QED
  BY <1>1, <1>3, <1>4 DEF Stored

\* Nothing is owed for the i-th key of stage s, or W has it.
LEMMA CoverOver ==
  ASSUME NEW D, NEW G, NEW W, NEW s \in 1 .. 5, NEW i \in Nat, Shape(D),
         Cover(D, G, W, s, i),
         i \in DOMAIN D[s] /\ D[s][i].key \notin G => Records(s, D[s][i]) \subseteq W
  PROVE  Cover(D, G, W, s, i + 1)
<1> SUFFICES ASSUME NEW s1 \in 1 .. 5, NEW i1 \in DOMAIN D[s1], s1 < s \/ (s1 = s /\ i1 < i + 1),
                    D[s1][i1].key \notin G
             PROVE  Records(s1, D[s1][i1]) \subseteq W
  BY Zenon DEF Cover
<1>1. i1 \in Nat
  <2>1. Len(D[s1]) \in Nat /\ DOMAIN D[s1] = 1 .. Len(D[s1])
    BY SetAppend DEF Shape
  <2> QED
    BY <2>1
<1>2. CASE s1 < s \/ (s1 = s /\ i1 < i)
  BY <1>2, Zenon DEF Cover
<1>3. CASE s1 = s /\ i1 = i
  BY <1>3, Zenon
<1> QED
  BY <1>1, <1>2, <1>3

\* A stage whose keys are covered, and the next one.
LEMMA CoverStage ==
  ASSUME NEW D, NEW G, NEW W, NEW s \in 1 .. 5, Shape(D), Cover(D, G, W, s, Len(D[s]) + 1)
  PROVE  Cover(D, G, W, s + 1, 1)
<1> SUFFICES ASSUME NEW s1 \in 1 .. 5, NEW i1 \in DOMAIN D[s1], s1 < s + 1 \/ (s1 = s + 1 /\ i1 < 1),
                    D[s1][i1].key \notin G
             PROVE  Records(s1, D[s1][i1]) \subseteq W
  BY Zenon DEF Cover
<1>1. Len(D[s1]) \in Nat /\ DOMAIN D[s1] = 1 .. Len(D[s1])
  BY SetAppend, Zenon DEF Shape
<1>2. s1 < s \/ (s1 = s /\ i1 < Len(D[s]) + 1)
  BY <1>1
<1> QED
  BY <1>2, Zenon DEF Cover

\* At the first key nothing is owed.
LEMMA CoverNone ==
  ASSUME NEW D, NEW G, NEW W, Shape(D)
  PROVE  Cover(D, G, W, 1, 1)
<1>1. ASSUME NEW s \in 1 .. 5, NEW i \in DOMAIN D[s] PROVE ~(s < 1 \/ (s = 1 /\ i < 1))
  <2>1. Len(D[s]) \in Nat /\ DOMAIN D[s] = 1 .. Len(D[s])
    BY SetAppend DEF Shape
  <2> QED
    BY <2>1
<1> QED
  BY <1>1, Zenon DEF Cover

\* A record of the key the walk is at follows the records of those before.
LEMMA FollowsHere ==
  ASSUME NEW D, NEW G, NEW W, NEW s \in 1 .. 5, NEW i \in DOMAIN D[s], NEW cmd, NEW args,
         Shape(D), Cover(D, G, W, s, i)
  PROVE  Follows(D, G, W, Rec(s, D[s][i], cmd, args))
<1> DEFINE x == Rec(s, D[s][i], cmd, args)
<1>1. x = Bare(x) /\ x.type = Stages[s] /\ x.key = D[s][i].key
  BY DEF Rec, Bare
<1> HIDE DEF x
<1>2. ASSUME NEW s1 \in 1 .. 5, NEW i1 \in DOMAIN D[s1], x.type = Stages[s1], x.key = D[s1][i1].key
      PROVE  Cover(D, G, W, s1, i1)
  <2>1. s1 = s
    <3>1. \A a, b \in 1 .. 5 : Stages[a] = Stages[b] => a = b
      BY StageNames, Zenon
    <3>2. Stages[s1] = Stages[s]
      BY <1>1, <1>2, Zenon
    <3> QED
      BY <3>1, <3>2, Zenon
  <2>2. i1 = i
    BY <1>1, <1>2, <2>1, Zenon DEF Shape
  <2> QED
    BY <2>1, <2>2
<1> QED
  BY <1>1, <1>2, Zenon DEF Follows, x

\* Positions in a value are multiples of BatchNum.
LEMMA Multiples ==
  ASSUME NEW n \in Nat, NEW m \in Nat, NEW b \in Nat \ {0}
  PROVE  /\ n * b < m * b + b <=> n <= m
         /\ n * b < m * b <=> n < m
         /\ n * b \in Nat /\ (m + 1) * b = m * b + b
<1>1. ASSUME NEW x \in Nat, NEW y \in Nat, x <= y PROVE x * b <= y * b
  <2>1. y * b = x * b + (y - x) * b /\ (y - x) * b >= 0 /\ x * b \in Int
    BY <1>1
  <2> QED
    BY <2>1
<1>2. (m + 1) * b = m * b + b /\ (n + 1) * b = n * b + b /\ n * b \in Nat /\ m * b \in Nat
  OBVIOUS
<1>3. n <= m => n * b <= m * b
  BY <1>1
<1>4. n >= m + 1 => n * b >= (m + 1) * b
  BY <1>1
<1>5. n >= m => n * b >= m * b
  BY <1>1
<1>6. n + 1 <= m => (n + 1) * b <= m * b
  BY <1>1
<1> DEFINE u == n * b
           v == m * b
<1>7. /\ n <= m => u <= v
      /\ n >= m + 1 => u >= v + b
      /\ n >= m => u >= v
      /\ n + 1 <= m => u + b <= v
      /\ u \in Nat /\ v \in Nat
  BY <1>2, <1>3, <1>4, <1>5, <1>6, Zenon
<1> HIDE DEF u, v
<1>8. (u < v + b <=> n <= m) /\ (u < v <=> n < m)
  BY <1>7
<1> QED
  BY <1>2, <1>8 DEF u, v

\* The records that populate a key, as the position moves on.
LEMMA PopulateNone ==
  ASSUME NEW s, NEW e
  PROVE  Populated(s, e, 0) = {}
<1>1. \A n \in Nat : ~(n * BatchNum < 0)
  BY ReaderAssumption
<1> QED
  BY <1>1, Zenon DEF Populated

\* What was populated up to an earlier position.
LEMMA PopulateMono ==
  ASSUME NEW s, NEW e, NEW l \in Nat, NEW p \in Nat, l <= p
  PROVE  Populated(s, e, l) \subseteq Populated(s, e, p)
<1>1. \A n \in Nat : n * BatchNum \in Nat
  BY ReaderAssumption
<1>2. \A n \in Nat : n * BatchNum < l => n * BatchNum < p
  BY <1>1
<1> QED
  BY <1>2, Zenon DEF Populated

\* One more chunk is populated.
LEMMA PopulateMore ==
  ASSUME NEW s, NEW e, NEW m \in Nat
  PROVE  Populated(s, e, m * BatchNum + BatchNum)
           = Populated(s, e, m * BatchNum)
             \cup {Rec(s, e, Populates[s], Slice(ElementsOf(s, e), m * BatchNum + 1, BatchNum))}
<1>1. BatchNum \in Nat \ {0}
  BY ReaderAssumption
<1> DEFINE R(n) == Rec(s, e, Populates[s], Slice(ElementsOf(s, e), n * BatchNum + 1, BatchNum))
<1> HIDE DEF R
<1>2. \A p : Populated(s, e, p) = {R(n) : n \in {n \in Nat : n * BatchNum < p}}
  BY Zenon DEF Populated, R
<1>3. Populated(s, e, m * BatchNum + BatchNum) = Populated(s, e, m * BatchNum) \cup {R(m)}
  <2>1. \A n \in Nat : n * BatchNum < m * BatchNum + BatchNum <=> n * BatchNum < m * BatchNum \/ n = m
    <3>1. ASSUME NEW n \in Nat
          PROVE  /\ n * BatchNum < m * BatchNum + BatchNum <=> n <= m
                 /\ n * BatchNum < m * BatchNum <=> n < m
      BY <1>1, Multiples
    <3>2. \A n \in Nat : n <= m <=> n < m \/ n = m
      OBVIOUS
    <3> QED
      BY <3>1, <3>2, Zenon
  <2> DEFINE M == {n \in Nat : n * BatchNum < m * BatchNum}
             N == {n \in Nat : n * BatchNum < m * BatchNum + BatchNum}
  <2>2. N = M \cup {m}
    BY <2>1, Zenon
  <2> HIDE DEF M, N
  <2>3. {R(n) : n \in N} = {R(n) : n \in M} \cup {R(m)}
    BY <2>2, Zenon
  <2> QED
    BY <1>2, <2>3, Zenon DEF M, N
<1> QED
  BY <1>3, Zenon DEF R

-----------------------------------------------------------------------------
(* The reader *)

\* What was emitted, and what the sink has confirmed of it.
Events(em) == [m \in DOMAIN em |-> Bare(em[m])]
Emitted == SetOf(Events(emitted))
AckedOf(em, a) == {Bare(em[m]) : m \in {m \in DOMAIN em : m <= a}}
\* Everything before the coordinate to resume from is in A.
Base(D, G, A, rs) ==
  rs # NoCoord =>
    /\ \E s \in 1 .. 5 : Stages[s] = rs.type
    /\ \A s \in 1 .. 5 : \A i \in DOMAIN D[s] :
         Stages[s] = rs.type /\ D[s][i].key = rs.key => Cover(D, G, A, s, i)

\* The iterator has yet to come to the coordinate, or has walked.
IterOk(D, G, W, rs, i, dp) ==
  /\ i.pending \in BOOLEAN
  /\ i.pending => /\ i.from = 1 /\ i.keys = <<>> /\ i.cur = <<>> /\ i.scanDone = FALSE
                  /\ rs # NoCoord /\ \E s \in 1 .. 5 : i.stage <= s /\ Stages[s] = rs.type
  /\ ~i.pending =>
       /\ i.stage # 6 => ScanOk(D[i.stage], i.from, i.keys, i.scanDone, i.cur, i.pos)
       /\ dp # "exited" => Walked(D, G, W, i.stage, i.from, i.keys, i.cur, i.pos)

\* An empty batch, or the end of the feeder without an error, means that the whole
\* dump has left the dumper; P is what has.
Ends(D, G, P, rp, fd, hd, bt) ==
  /\ rp # <<>> /\ rp[1] = <<>> => Cover(D, G, P, 6, 1)
  /\ fd = "push" /\ hd = <<>> => Cover(D, G, P, 6, 1)
  /\ fd = "ended" => (\E b \in DOMAIN bt : bt[b] = Broken) \/ Cover(D, G, P, 6, 1)

RunOk(D, G, E, rs, i, dp, ot, rp, fd, hd, bt, bf) ==
  /\ PathOrder(D, G, E, bf, bt, hd, rp, ot)
  /\ IterOk(D, G, Whole(E, bf, bt, hd, rp, ot), rs, i, dp)
  /\ Ends(D, G, Past(E, bf, bt), rp, fd, hd, bt)

\* One request at a time, one batch in one pair of hands.
Turns ==
  /\ rpc = "open" => /\ out = <<>> /\ reply = <<>> /\ held = <<>> /\ batch = <<>> /\ buf = <<>>
                     /\ quit = FALSE /\ feeder = "none" /\ dpc = "none"
  /\ rpc = "run" => /\ quit = FALSE /\ feeder # "none" /\ dpc # "none"
                    /\ feeder # "push" => held = <<>>
                    /\ feeder # "read" => reply = <<>> /\ dpc # "next"
                    /\ reply # <<>> => dpc # "next"

-----------------------------------------------------------------------------
(* The steps of the iterator *)

IsIter(i) ==
  /\ DOMAIN i = {"stage", "from", "keys", "scanDone", "cur", "pos", "pending"}
  /\ i = [fd \in DOMAIN i |-> i[fd]] /\ i.stage \in 1 .. 6

\* Where the iterator is, once it has come to the coordinate.
LEMMA IterAt ==
  ASSUME NEW D, NEW G, NEW W, NEW rs, NEW i, NEW dp, IterOk(D, G, W, rs, i, dp),
         dp # "exited", ~i.pending, i.stage # 6,
         NEW q, q = D[i.stage], NEW n, n = Scanned(q, i.from, i.keys)
  PROVE  /\ ScanOk(q, i.from, i.keys, i.scanDone, i.cur, i.pos) /\ n \in Nat
         /\ i.cur = <<>> => Cover(D, G, W, i.stage, n + 1)
         /\ i.cur # <<>> => /\ Cover(D, G, W, i.stage, n) /\ n \in DOMAIN q /\ i.cur[1] = q[n]
                            /\ i.cur = <<q[n]>> /\ \E m \in Nat : i.pos = m * BatchNum
                            /\ i.cur[1].key \notin G /\ i.stage # 1
                                 => Populated(i.stage, i.cur[1], i.pos) \subseteq W
<1>1. /\ ScanOk(q, i.from, i.keys, i.scanDone, i.cur, i.pos)
      /\ Walked(D, G, W, i.stage, i.from, i.keys, i.cur, i.pos)
  BY Zenon DEF IterOk
<1>2. /\ n \in Nat
      /\ i.cur # <<>> => /\ n \in DOMAIN q /\ i.cur = <<q[n]>>
                         /\ \E m \in Nat : i.pos = m * BatchNum
  BY <1>1, Zenon DEF ScanOk
<1>3. i.cur # <<>> => i.cur[1] = q[n]
  <2>1. <<q[n]>>[1] = q[n]
    OBVIOUS
  <2> QED
    BY <1>2, <2>1, Zenon
<1> QED
  BY <1>1, <1>2, <1>3, Zenon DEF Walked

\* A stage before the coordinate's is passed over.
LEMMA IterSkip ==
  ASSUME NEW D, NEW G, NEW W, NEW rs, NEW i, NEW dp, IterOk(D, G, W, rs, i, dp), IsIter(i),
         i.pending, i.stage # 6, Stages[i.stage] # rs.type,
         NEW j, j = [i EXCEPT !.stage = @ + 1, !.from = 1, !.keys = <<>>, !.scanDone = FALSE]
  PROVE  IterOk(D, G, W, rs, j, dp)
<1>1. /\ j.stage = i.stage + 1 /\ j.from = 1 /\ j.keys = <<>> /\ j.scanDone = FALSE
      /\ j.cur = i.cur /\ j.pending = i.pending
  BY Zenon DEF IsIter
<1>2. PICK u \in 1 .. 5 : i.stage <= u /\ Stages[u] = rs.type
  BY Zenon DEF IterOk
<1>3. i.stage + 1 <= u
  BY <1>2 DEF IsIter
<1> QED
  BY <1>1, <1>2, <1>3, Zenon DEF IterOk

\* The scan begins at the coordinate's key: what is before it is in the base.
LEMMA IterEngage ==
  ASSUME NEW D, NEW G, NEW W, NEW rs, NEW i, NEW dp, IterOk(D, G, W, rs, i, dp), IsIter(i), Shape(D),
         NEW A, A \subseteq W, Base(D, G, A, rs),
         i.pending, i.stage # 6, Stages[i.stage] = rs.type,
         NEW k \in DOMAIN D[i.stage], D[i.stage][k].key = rs.key,
         NEW j, j = [i EXCEPT !.pending = FALSE, !.from = k]
  PROVE  IterOk(D, G, W, rs, j, dp)
<1> DEFINE s == i.stage
           q == D[s]
<1>1. /\ j.stage = s /\ j.from = k /\ j.keys = i.keys /\ j.scanDone = i.scanDone
      /\ j.cur = i.cur /\ j.pending = FALSE /\ j.pos = i.pos
  BY DEF IsIter
<1>2. i.keys = <<>> /\ i.cur = <<>> /\ i.scanDone = FALSE /\ rs # NoCoord
  BY Zenon DEF IterOk
<1>3. s \in 1 .. 5 /\ IsSeq(q)
  BY DEF IsIter, Shape
<1> HIDE DEF s
<1>4. k \in Nat \ {0} /\ (k - 1) + 1 = k
  <2>1. Len(q) \in Nat /\ DOMAIN q = 1 .. Len(q)
    BY <1>3, SetAppend
  <2> QED
    BY <2>1 DEF s
<1>5. ScanOk(q, k, <<>>, FALSE, <<>>, i.pos) /\ Scanned(q, k, <<>>) = k - 1
  BY <1>3, <1>4, ScanStart, Zenon DEF s
<1>6. Cover(D, G, W, s, k)
  <2>1. Cover(D, G, A, s, k)
    BY <1>2, <1>3, Zenon DEF Base, s
  <2> QED
    BY <2>1, CoverMono
<1>7. Walked(D, G, W, s, k, <<>>, <<>>, i.pos)
  BY <1>4, <1>5, <1>6, Zenon DEF Walked, s
<1> QED
  BY <1>1, <1>2, <1>5, <1>7, Zenon DEF IterOk

\* The next keys of the scan are loaded.
LEMMA IterLoad ==
  ASSUME NEW D, NEW G, NEW W, NEW rs, NEW i, NEW dp, IterOk(D, G, W, rs, i, dp), IsIter(i), Shape(D),
         dp # "exited", ~i.pending, i.stage # 6, i.keys = <<>>, i.cur = <<>>,
         NEW q, q = D[i.stage],
         NEW j, j = [i EXCEPT !.keys = Slice(q, i.from, ScanBatch), !.from = @ + ScanBatch,
                              !.scanDone = i.from + ScanBatch > Len(q)]
  PROVE  IterOk(D, G, W, rs, j, dp)
<1> DEFINE ks == Slice(q, i.from, ScanBatch)
           f == i.from + ScanBatch
           d == i.from + ScanBatch > Len(q)
           n == Scanned(q, i.from, i.keys)
<1>1. ScanOk(q, i.from, i.keys, i.scanDone, i.cur, i.pos) /\ Cover(D, G, W, i.stage, n + 1)
  BY IterAt
<1>2. IsSeq(q)
  BY DEF IsIter, Shape
<1>3. ScanOk(q, i.from, <<>>, i.scanDone, <<>>, i.pos)
  BY <1>1
<1>4. ScanOk(q, f, ks, d, <<>>, i.pos) /\ Scanned(q, f, ks) = n
  BY <1>2, <1>3, ScanLoad
<1>5. j = [i EXCEPT !.keys = ks, !.from = f, !.scanDone = d]
  OBVIOUS
<1> HIDE DEF ks, f, d, n
<1>6. /\ j.stage = i.stage /\ j.from = f /\ j.keys = ks /\ j.scanDone = d
      /\ j.cur = <<>> /\ j.pending = i.pending /\ j.pos = i.pos
  BY <1>5, Zenon DEF IsIter
<1>7. Walked(D, G, W, i.stage, f, ks, <<>>, i.pos)
  BY <1>1, <1>4, Zenon DEF Walked
<1> QED
  BY <1>4, <1>6, <1>7, Zenon DEF IterOk

\* The scan has ended: the next stage.
LEMMA IterEnd ==
  ASSUME NEW D, NEW G, NEW W, NEW rs, NEW i, NEW dp, IterOk(D, G, W, rs, i, dp), IsIter(i), Shape(D),
         dp # "exited", ~i.pending, i.stage # 6, i.keys = <<>>, i.cur = <<>>, i.scanDone,
         NEW j, j = [i EXCEPT !.stage = @ + 1, !.from = 1, !.keys = <<>>, !.scanDone = FALSE]
  PROVE  IterOk(D, G, W, rs, j, dp)
<1> DEFINE s == i.stage
           q == D[s]
           n == Scanned(q, i.from, i.keys)
<1>1. /\ j.stage = s + 1 /\ j.from = 1 /\ j.keys = <<>> /\ j.scanDone = FALSE
      /\ j.cur = <<>> /\ j.pending = i.pending /\ j.pos = i.pos
  BY DEF IsIter
<1>2. s \in 1 .. 5 /\ IsSeq(q) /\ (s + 1 # 6 => IsSeq(D[s + 1]))
  BY DEF IsIter, Shape
<1>3. ScanOk(q, i.from, i.keys, i.scanDone, i.cur, i.pos) /\ Cover(D, G, W, s, n + 1)
  BY IterAt, Zenon
<1>4. Scanned(q, i.from, <<>>) = Len(q)
  <2>1. ScanOk(q, i.from, <<>>, i.scanDone, <<>>, i.pos)
    BY <1>3, Zenon
  <2> HIDE DEF q
  <2> QED
    BY <1>2, <2>1, ScanEnd, Zenon
<1>5. Cover(D, G, W, s, Len(D[s]) + 1)
  BY <1>3, <1>4
<1> HIDE DEF s
<1>6. Cover(D, G, W, s + 1, 1)
  BY <1>2, <1>5, CoverStage
<1>7. 1 \in Nat \ {0} /\ (1 - 1) + 1 = 1
  OBVIOUS
<1>8. s + 1 # 6 => /\ ScanOk(D[s + 1], 1, <<>>, FALSE, <<>>, i.pos)
                   /\ Scanned(D[s + 1], 1, <<>>) = 1 - 1
  BY <1>2, <1>7, ScanStart, Zenon
<1>9. Walked(D, G, W, s + 1, 1, <<>>, <<>>, i.pos)
  BY <1>6, <1>7, <1>8, Zenon DEF Walked
<1> QED
  BY <1>1, <1>8, <1>9, Zenon DEF IterOk

\* The next key is taken up; the keys of the slots are passed over.
LEMMA IterTake ==
  ASSUME NEW D, NEW G, NEW W, NEW rs, NEW i, NEW dp, IterOk(D, G, W, rs, i, dp), IsIter(i), Shape(D),
         dp # "exited", ~i.pending, i.stage # 6, i.keys # <<>>, i.cur = <<>>, SlotKeys \subseteq G,
         NEW h, h = Head(i.keys), NEW c, c = IF h.key \in SlotKeys THEN <<>> ELSE <<h>>,
         NEW j, j = [i EXCEPT !.keys = Tail(@), !.pos = 0, !.cur = c]
  PROVE  IterOk(D, G, W, rs, j, dp)
<1> DEFINE s == i.stage
           q == D[s]
           n == Scanned(q, i.from, i.keys)
           ks == Tail(i.keys)
<1>1. /\ j.stage = s /\ j.from = i.from /\ j.keys = ks /\ j.scanDone = i.scanDone
      /\ j.cur = c /\ j.pending = i.pending /\ j.pos = 0
  <2>1. j = [i EXCEPT !.keys = ks, !.pos = 0, !.cur = c]
    OBVIOUS
  <2> HIDE DEF ks
  <2> QED
    BY <2>1, Zenon DEF IsIter
<1>2. s \in 1 .. 5 /\ IsSeq(q)
  BY DEF IsIter, Shape
<1>3. ScanOk(q, i.from, i.keys, i.scanDone, <<>>, i.pos) /\ Cover(D, G, W, s, n + 1)
  BY IterAt
<1>4. /\ Scanned(q, i.from, ks) = n + 1 /\ n \in Nat /\ n + 1 \in DOMAIN q /\ h = q[n + 1]
      /\ ScanOk(q, i.from, ks, i.scanDone, <<>>, 0) /\ ScanOk(q, i.from, ks, i.scanDone, <<h>>, 0)
  BY <1>2, <1>3, ScanTake, Zenon
<1> HIDE DEF ks
<1>5. CASE h.key \in SlotKeys
  <2>1. c = <<>> /\ h.key \in G /\ n + 1 \in Nat
    BY <1>4, <1>5
  <2>2. Cover(D, G, W, s, n + 1 + 1)
    <3> HIDE DEF s, n
    <3> QED
      BY <1>2, <1>3, <1>4, <2>1, CoverOver, Zenon
  <2>3. Walked(D, G, W, s, i.from, ks, <<>>, 0)
    BY <1>4, <2>2, Zenon DEF Walked
  <2> QED
    BY <1>1, <1>4, <2>1, <2>3, Zenon DEF IterOk
<1>6. CASE h.key \notin SlotKeys
  <2>1. c = <<h>> /\ <<h>> # <<>> /\ <<h>>[1] = h
    BY <1>6
  <2>2. Populated(s, h, 0) = {}
    BY PopulateNone, Zenon
  <2>3. Walked(D, G, W, s, i.from, ks, <<h>>, 0)
    BY <1>3, <1>4, <2>1, <2>2, Zenon DEF Walked
  <2> QED
    BY <1>1, <1>4, <2>1, <2>3, Zenon DEF IterOk
<1> QED
  BY <1>5, <1>6

\* The key in hand is left; V has everything owed for it.
LEMMA IterLeave ==
  ASSUME NEW D, NEW G, NEW W, NEW rs, NEW i, NEW dp, IterOk(D, G, W, rs, i, dp), IsIter(i), Shape(D),
         dp # "exited", i.stage # 6, i.cur # <<>>, NEW V, W \subseteq V,
         i.cur[1].key \notin G => Records(i.stage, i.cur[1]) \subseteq V,
         NEW j, j = [i EXCEPT !.cur = <<>>]
  PROVE  IterOk(D, G, V, rs, j, dp)
<1> DEFINE s == i.stage
           q == D[s]
           n == Scanned(q, i.from, i.keys)
<1>1. /\ j.stage = s /\ j.from = i.from /\ j.keys = i.keys /\ j.scanDone = i.scanDone
      /\ j.cur = <<>> /\ j.pending = i.pending /\ j.pos = i.pos
  BY DEF IsIter
<1>2. ~i.pending /\ s \in 1 .. 5
  BY DEF IterOk, IsIter
<1>3. /\ Cover(D, G, W, s, n) /\ n \in DOMAIN q /\ i.cur[1] = q[n] /\ n \in Nat
      /\ ScanOk(q, i.from, i.keys, i.scanDone, i.cur, i.pos)
  BY <1>2, IterAt
<1>4. Cover(D, G, V, s, n + 1)
  <2>1. Cover(D, G, V, s, n)
    BY <1>3, CoverMono, Zenon
  <2>2. D[s][n].key \notin G => Records(s, D[s][n]) \subseteq V
    BY <1>3
  <2> HIDE DEF s, n
  <2> QED
    BY <1>2, <1>3, <2>1, <2>2, CoverOver, Zenon
<1>5. Walked(D, G, V, s, i.from, i.keys, <<>>, i.pos)
  BY <1>4, Zenon DEF Walked
<1>6. ScanOk(q, i.from, i.keys, i.scanDone, <<>>, i.pos)
  BY <1>3, Zenon DEF ScanOk
<1> QED
  BY <1>1, <1>2, <1>5, <1>6, Zenon DEF IterOk

=============================================================================
