----------------------------- MODULE SqlMapping -----------------------------
(***************************************************************************)
(* From events to rows (internal/sqlsink/mapping.go), and from rows to the *)
(* table (Coalesce and execRow in internal/sqlsink/sink.go, the statements *)
(* of dialect.go).                                                         *)
(*                                                                         *)
(* A rule is [types, pattern, table, pk, fields, valueColumn, delete]:     *)
(* pattern is the compiled sequence of literals and captures, <<>> for     *)
(* none; fields maps hash fields to columns.  KeyParts splits a key into   *)
(* the pieces patterns are made of; a captured value is a sequence of      *)
(* pieces.  value_json is not modelled.                                    *)
(***************************************************************************)
EXTENDS VerifyKafka

CONSTANTS Rules, KeyParts

NoMatch == [kind |-> "nomatch"]
MapError == [kind |-> "error"]

Lit(p) == "lit" \in DOMAIN p

\* The captures of the pattern in the key, as a set of at most one function; a
\* capture ends at the first occurrence of the next literal.  match[i, j] is for
\* the parts from the i-th and the pieces of the key from the j-th.
matchParts(parts, s) ==
  LET match[i \in 1 .. Len(parts) + 1, j \in 1 .. Len(s) + 1] ==
        IF i > Len(parts) THEN (IF j > Len(s) THEN {<<>>} ELSE {})
        ELSE IF Lit(parts[i])
        THEN IF j <= Len(s) /\ s[j] = parts[i].lit THEN match[i + 1, j + 1] ELSE {}
        ELSE IF i = Len(parts) THEN {parts[i].field :> SubSeq(s, j, Len(s))}
        ELSE LET ends == {k \in j .. Len(s) : s[k] = parts[i + 1].lit}
                 first == CHOOSE k \in ends : \A n \in ends : k <= n
             IN IF ends = {} THEN {}
                ELSE {(parts[i].field :> SubSeq(s, j, first - 1)) @@ c : c \in match[i + 1, first]}
  IN match[1, 1]

extractKey(r, k) == IF r.pattern = <<>> THEN {<<>>} ELSE matchParts(r.pattern, KeyParts[k])

\* argv after the key, read two by two.
PairsOf(e) ==
  IF e.cmd \in {"HSET", "HMSET"} THEN e.args
  ELSE [i \in 1 .. Len(e.args) \div 2 |-> <<e.args[2 * i - 1], e.args[2 * i]>>]

\* The columns a hash command sets: mapped fields, or every field without a map;
\* HDEL empties the mapped ones.
hashCols(r, e) ==
  LET Col(f) == IF f \in DOMAIN r.fields THEN {r.fields[f]}
                ELSE IF DOMAIN r.fields = {} THEN {f} ELSE {}
      set == FoldLeft(LAMBDA g, p : [c \in Col(p[1]) |-> p[2]] @@ g, <<>>, PairsOf(e))
      del == {r.fields[f] : f \in Elems(e.args) \cap DOMAIN r.fields}
  IN IF e.cmd = "HDEL" THEN [c \in del |-> ""] @@ set ELSE set

\* A primary key column comes from the key's captures or from a hash field.
hashField(e, c) == SelectSeq(IF e.type = "hash" THEN PairsOf(e) ELSE <<>>, LAMBDA p : p[1] = c)
pkFilled(r, e, cap) == \A c \in r.pk : c \in DOMAIN cap \/ hashField(e, c) # <<>>
pkOf(r, e, cap) ==
  [c \in r.pk |-> IF c \in DOMAIN cap THEN cap[c] ELSE <<hashField(e, c)[1][2]>>]

Row(r, pk, cols, del) ==
  [kind |-> "row", table |-> r.table, pk |-> pk, cols |-> cols, del |-> del]

\* DEL, UNLINK (Classify) of an incremental event.
isDelete(e) == e.rank = 1 /\ e.cmd \in {"DEL", "UNLINK", "FLUSHDB", "FLUSHALL"}

\* The row of the first rule that applies; row[i] is for the rules from the i-th.
RowFor(rules, e) ==
  LET row[i \in 1 .. Len(rules) + 1] ==
        IF i > Len(rules) THEN NoMatch
        ELSE LET r == rules[i]
                 caps == extractKey(r, e.key)
                 cap == CHOOSE c \in caps : TRUE
                 pk == pkOf(r, e, cap)
             IN IF (e.type \notin r.types /\ ~isDelete(e)) \/ caps = {} THEN row[i + 1]
                ELSE IF ~pkFilled(r, e, cap) THEN MapError
                ELSE IF isDelete(e)
                THEN IF r.delete = "ignore" THEN NoMatch ELSE Row(r, pk, <<>>, TRUE)
                ELSE IF e.type = "hash"
                THEN IF DOMAIN hashCols(r, e) = {} THEN NoMatch
                     ELSE Row(r, pk, hashCols(r, e), FALSE)
                ELSE IF e.type = "string"
                THEN IF e.args = <<>> THEN NoMatch
                     ELSE Row(r, pk, r.valueColumn :> e.args[1], FALSE)
                ELSE row[i + 1]
  IN row[1]

RowForEvent(e) == RowFor(Rules, e)

-----------------------------------------------------------------------------
SameRow(a, b) == a.table = b.table /\ a.pk = b.pk

\* One step of Coalesce: p joins the batch out of [row, who], who naming the Emit
\* whose Done channel the entry signals.
CoalesceInto(batch, p) ==
  LET at == {i \in DOMAIN batch : SameRow(batch[i].row, p.row)} IN
  IF at = {} THEN Append(batch, p)
  ELSE LET i == CHOOSE i \in at : TRUE
           old == batch[i].row
       IN IF p.row.del \/ old.del THEN [batch EXCEPT ![i] = p]
          ELSE [batch EXCEPT ![i].row.cols = p.row.cols @@ old.cols]

Coalesce(batch) == FoldLeft(CoalesceInto, <<>>, batch)

\* The statements of the dialects on a table keyed by <<table, pk>>: INSERT ...
\* ON CONFLICT DO UPDATE of the named columns, and DELETE.
Upsert(t, id, cols) ==
  (id :> (cols @@ IF id \in DOMAIN t THEN t[id] ELSE <<>>)) @@ t

Delete(t, id) == [x \in DOMAIN t \ {id} |-> t[x]]

\* Altered form: an upsert replaces the row.
execRowReplaces(t, r) ==
  LET id == <<r.table, r.pk>> IN
  IF r.del THEN Delete(t, id) ELSE (id :> r.cols) @@ t

execRow(t, r) ==
  LET id == <<r.table, r.pk>> IN
  IF r.del THEN Delete(t, id) ELSE Upsert(t, id, r.cols)

=============================================================================
