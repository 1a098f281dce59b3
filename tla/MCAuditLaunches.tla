-------------------------- MODULE MCAuditLaunches --------------------------
(***************************************************************************)
(* One person asks twice.                                                  *)
(***************************************************************************)
EXTENDS AuditLaunches, TLC

CONSTANTS first, again, ann

Symmetry == Permutations(Calls)
MCCallerOf == [c \in Calls |-> ann]
=============================================================================
