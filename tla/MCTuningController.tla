------------------------ MODULE MCTuningController ------------------------
(* A small instance of TuningController: the TTL and one adapter, two      *)
(* values each, and four policy files.                                     *)
EXTENDS TuningController
CONSTANTS adapter, low, high

MCParameters == {Ttl, adapter}

MCFile(on, kill, window, ttl, routing) ==
  [enabled |-> on, kill_switch |-> kill, window |-> window,
   allowed |-> [p \in MCParameters |-> IF p = Ttl THEN ttl ELSE routing]]

\* The shipped kind, a narrower one with a shorter window, the default of a
\* missing file, the switch.
MCPolicies == {MCFile(TRUE, FALSE, 1, Values, Values), MCFile(TRUE, FALSE, 0, {low}, {high}),
               MCFile(FALSE, FALSE, 1, {}, {}), MCFile(TRUE, TRUE, 1, Values, Values)}
=============================================================================
