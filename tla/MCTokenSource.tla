--------------------------- MODULE MCTokenSource ---------------------------
(***************************************************************************)
(* Three requests that meet at the lock, and a Keycloak that sets a        *)
(* lifetime below the minimum or above the maximum.                        *)
(***************************************************************************)
EXTENDS TokenSource

CONSTANTS k1, k2, k3

MCRefreshAt == [l \in 2 .. 4 |-> (l * 7) \div 10]
=============================================================================
