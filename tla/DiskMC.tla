------------------------------- MODULE DiskMC -------------------------------
(* A small instance of DiskBuffer: frames of different sizes, segments that    *)
(* hold one to three of them.                                                  *)
EXTENDS DiskBuffer

MCSize == <<1, 2, 1, 3, 1, 1>>

=============================================================================
