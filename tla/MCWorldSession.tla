--------------------------- MODULE MCWorldSession ---------------------------
(***************************************************************************)
(* WorldSession on two worlds and two sockets.                             *)
(***************************************************************************)
EXTENDS WorldSession, TLC

CONSTANTS w1, w2, v1, v2

MCSymmetry == Permutations(Worlds) \cup Permutations(Viewers)

=============================================================================
