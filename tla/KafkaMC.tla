------------------------------- MODULE KafkaMC -------------------------------
(* Small instances of KafkaSink: two snapshot events that carry the anchor as  *)
(* their position, an event without a position, and incremental entries.       *)
EXTENDS KafkaSink

MCPos == <<1, 1, 0, 2>>
MCKey == <<"a", "b", "a", "a">>
MCQueueOf == [a |-> 1, b |-> 2]

=============================================================================
