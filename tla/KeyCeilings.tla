---------------------------- MODULE KeyCeilings ----------------------------
(***************************************************************************)
(* The optional token ceilings of the metered paths (ai-gateway/app/       *)
(* key_ceilings.py), on one replica, with the in-process store.  A limit   *)
(* is a key's or a tenant's ceiling; its counters are per fixed window.    *)
(* Pruning the counters of old windows is left out.                        *)
(***************************************************************************)
EXTENDS Naturals, FiniteSets

CONSTANTS
  Limits,       \* the keys and the tenants that have a ceiling
  Ceiling,      \* the tokens of each per window
  Personas,
  MaxStreams,   \* maxConcurrentStreams, per persona; 0 is no cap
  Windows       \* bound: the fixed windows of the model, 0 .. n

ASSUME CeilingAssumption ==
  /\ Ceiling \in [Limits -> Nat \ {0}]
  /\ MaxStreams \in Nat
  /\ IsFiniteSet(Windows) /\ Windows \subseteq Nat /\ 0 \in Windows

VARIABLES
  consumed,     \* _counters: the usage settled, per limit and window
  reserved,     \* _reserved: what calls in flight hold, per limit and window
  streams       \* _streams: the open streams of each persona

Counters == [Limits \X Windows -> Nat]

CeilingsInit ==
  /\ consumed = [k \in Limits \X Windows |-> 0]
  /\ reserved = [k \in Limits \X Windows |-> 0]
  /\ streams = [p \in Personas |-> 0]

\* What admit holds for a call.
Reservations == [persona : Personas, limits : SUBSET Limits, bucket : Windows,
                 tokens : Nat, stream : BOOLEAN, settled : BOOLEAN]

Keys(r) == r.limits \X {r.bucket}

StreamsFull(r) == r.stream /\ MaxStreams > 0 /\ streams[r.persona] >= MaxStreams

\* A check that does not see the calls in flight.
UsedUpBySettled(k) == consumed[k] >= Ceiling[k[1]]

UsedUp(k) == consumed[k] + reserved[k] >= Ceiling[k[1]]

Denied(r) == StreamsFull(r) \/ \E k \in Keys(r) : UsedUp(k)

Reserve(r) ==
  /\ reserved' = [k \in DOMAIN reserved |->
                    IF k \in Keys(r) THEN reserved[k] + r.tokens ELSE reserved[k]]
  /\ streams' = IF r.stream THEN [streams EXCEPT ![r.persona] = @ + 1] ELSE streams
  /\ UNCHANGED consumed

Less(n, m) == IF n > m THEN n - m ELSE 0

Release(r, tokens) ==
  /\ reserved' = [k \in DOMAIN reserved |->
                    IF k \in Keys(r) THEN Less(reserved[k], r.tokens) ELSE reserved[k]]
  /\ consumed' = [k \in DOMAIN consumed |->
                    IF k \in Keys(r) THEN consumed[k] + tokens ELSE consumed[k]]
  /\ streams' = IF r.stream THEN [streams EXCEPT ![r.persona] = Less(@, 1)] ELSE streams

\* A settlement that does not look whether it was made already.
SettleAgain(r, tokens) == Release(r, tokens)

\* The reservation is released and the usage counted, once.
Settle(r, tokens) ==
  IF r.settled THEN UNCHANGED <<consumed, reserved, streams>> ELSE Release(r, tokens)

=============================================================================
