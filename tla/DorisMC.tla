------------------------------- MODULE DorisMC -------------------------------
(* Small instances of DorisSink: two snapshot rows at the anchor, then         *)
(* incremental rows, over two tables.                                          *)
EXTENDS DorisSink

MCPos == <<1, 1, 2, 3, 4>>
MCTable == <<1, 2, 1, 2, 1>>

=============================================================================
