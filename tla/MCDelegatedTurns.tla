-------------------------- MODULE MCDelegatedTurns --------------------------
(***************************************************************************)
(* DelegatedTurns on up to two tasks, turns, callers and requests.         *)
(***************************************************************************)
EXTENDS DelegatedTurns, TLC

CONSTANTS t1, t2, x1, x2, q1, q2, alice, bob

MCWrites == {<<>>, <<"write">>}
MCTwoCalls == {<<>>, <<"write", "read">>}

MCSymmetry == Permutations(Tasks) \cup Permutations(Turns) \cup Permutations(Requests)
              \cup Permutations(Callers)

=============================================================================
