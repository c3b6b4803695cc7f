---------------------------- MODULE BacklogQueue ----------------------------
(***************************************************************************)
(* What the session expects of its backlog (the type comment of            *)
(* diskBuffer, and the way consume, Release and the resume path use it):   *)
(* entries come out in the order they went in, none twice and none         *)
(* skipped; after a restart the backlog is either read again from its      *)
(* first entry or begun anew.                                              *)
(*                                                                         *)
(* Entries are numbered; the backlog was begun with entry first, holds     *)
(* entries up to last, and has handed out those up to cursor.              *)
(***************************************************************************)
EXTENDS Integers

VARIABLES first, last, cursor

vars == <<first, last, cursor>>

Init == first = 1 /\ last = 0 /\ cursor = 0

Append == last' = last + 1 /\ UNCHANGED <<first, cursor>>

Take == cursor < last /\ cursor' = cursor + 1 /\ UNCHANGED <<first, last>>

\* A restart reads the backlog again from its beginning ...
Rewind == cursor' = first - 1 /\ UNCHANGED <<first, last>>

\* ... or begins a new one with the entry the stream attaches at.
Renew ==
  /\ first' \in first .. (last + 1)
  /\ last' = first' - 1 /\ cursor' = first' - 1

Next == Append \/ Take \/ Rewind \/ Renew

Spec == Init /\ [][Next]_vars

=============================================================================
