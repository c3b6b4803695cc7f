------------------------------ MODULE AsyncSink ------------------------------
(***************************************************************************)
(* What the runner expects of a sink that returns from Emit before the     *)
(* event is durable (replica.AsyncSink): it reports, through the delivery  *)
(* notifier, positions of events it has made durable together with every   *)
(* event accepted before them.                                             *)
(*                                                                         *)
(* Events are numbered in the order Emit accepts them.  Pos[e] is the      *)
(* position event e carries; 0 is the zero Position, which is not reported.*)
(***************************************************************************)
EXTENDS Integers

CONSTANTS Events, Pos

VARIABLES accepted, durable, reported

vars == <<accepted, durable, reported>>

Init == accepted = 0 /\ durable = {} /\ reported = 0

Accept ==
  /\ accepted < Events
  /\ accepted' = accepted + 1 /\ UNCHANGED <<durable, reported>>

Settle ==
  /\ durable \subseteq durable' /\ durable' \subseteq 1 .. accepted
  /\ UNCHANGED <<accepted, reported>>

\* The notifier keeps the highest position it was given.
Report ==
  /\ \E k \in 1 .. accepted :
       /\ 1 .. k \subseteq durable
       /\ reported' = IF Pos[k] > reported THEN Pos[k] ELSE reported
  /\ UNCHANGED <<accepted, durable>>

Next == Accept \/ Settle \/ Report

Spec == Init /\ [][Next]_vars

=============================================================================
