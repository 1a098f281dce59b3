--------------------------- MODULE CircuitBreaker ---------------------------
(***************************************************************************)
(* The per-provider circuit breaker of the ai-gateway: one object in       *)
(* memory per replica (ai-gateway/app/circuit_breaker.py).                 *)
(*                                                                         *)
(* The code keeps the instant a breaker was opened and the instant its     *)
(* half-open trial was claimed, and only ever compares `now - instant`     *)
(* with CIRCUIT_OPEN_SECONDS.  The module keeps these differences, and     *)
(* stops counting at the window: every age past it behaves the same.       *)
(***************************************************************************)
EXTENDS Integers

CONSTANTS Providers,   \* the provider names of the routing table
          OpenWindow   \* CIRCUIT_OPEN_SECONDS, in ticks of the clock

ASSUME OpenWindowAssumption == OpenWindow \in Nat \ {0}

VARIABLES opened,   \* opened[p]: age of _opened_at[p], Absent when the key is absent
          trial     \* trial[p]:  age of _trial_at[p],  Absent when the key is absent

breakerVars == <<opened, trial>>

Absent == -1
Ages == 0..OpenWindow

\* An instant grows older by one tick, up to the window.
Older(age) == IF age \in 0..(OpenWindow - 1) THEN age + 1 ELSE age

BreakerTypeOK ==
  /\ opened \in [Providers -> Ages \cup {Absent}]
  /\ trial \in [Providers -> Ages \cup {Absent}]

BreakerInit ==
  /\ opened = [p \in Providers |-> Absent]
  /\ trial = [p \in Providers |-> Absent]

\* Mutant of PeekOpen: a trial that never reports back never expires.
PeekOpenKeptTrial(p) == opened[p] # Absent /\ (opened[p] < OpenWindow \/ trial[p] # Absent)

\* peek_open: the answer of is_open, without claiming the trial.
PeekOpen(p) ==
  /\ opened[p] # Absent
  /\ opened[p] < OpenWindow \/ (trial[p] # Absent /\ trial[p] < OpenWindow)

\* Mutant of Claim: the trial is not claimed.
ClaimNothing(p) == ~PeekOpen(p) /\ UNCHANGED breakerVars

\* is_open answering False: the caller goes on, and past the window it has
\* claimed the trial.  is_open answering True changes nothing: it is PeekOpen.
Claim(p) ==
  /\ ~PeekOpen(p)
  /\ trial' = IF opened[p] = Absent THEN trial ELSE [trial EXCEPT ![p] = 0]
  /\ UNCHANGED opened

RecordSuccess(p) ==
  /\ opened' = [opened EXCEPT ![p] = Absent]
  /\ trial' = [trial EXCEPT ![p] = Absent]

\* record_failure with an exception for which is_outage holds.
RecordOutage(p) ==
  /\ opened' = [opened EXCEPT ![p] = 0]
  /\ trial' = [trial EXCEPT ![p] = Absent]

\* record_failure with any other exception: the provider answered.
RecordOtherFailure(p) == RecordSuccess(p)

BreakerElapse ==
  /\ opened' = [p \in Providers |-> Older(opened[p])]
  /\ trial' = [p \in Providers |-> Older(trial[p])]

=============================================================================
