-------------------------- MODULE ApprovalContract --------------------------
(***************************************************************************)
(* What a human approval promises across a delegation (ADR-0409): a write  *)
(* runs at most once, and only after the caller it was asked of has said   *)
(* yes to this very request, in time.  Everything else, a silence, a       *)
(* restart, a newer turn, keeps it from running.                           *)
(***************************************************************************)
EXTENDS Integers

CONSTANTS Requests,   \* the approval requests, by request_id
          Callers,    \* the subjects of the callers' tokens
          Nobody,
          Timeout     \* APPROVAL_TIMEOUT_SECONDS, in ticks of the clock

VARIABLES phase,      \* unasked | open | approved | void | ran
          owner,      \* the caller the approval was asked of
          age,        \* ticks it has been open, up to Timeout + 1
          answeredBy, \* the caller whose answer was accepted, or none
          runs        \* how many times the write was sent to the tool gateway

contractVars == <<phase, owner, age, answeredBy, runs>>

Init ==
  /\ phase = [q \in Requests |-> "unasked"]
  /\ owner = [q \in Requests |-> Nobody]
  /\ age = [q \in Requests |-> 0]
  /\ answeredBy = [q \in Requests |-> Nobody]
  /\ runs = [q \in Requests |-> 0]

\* Any number of requests may be given up in any step; one that has run is not.
GivenUp(S) == \A q \in S : phase[q] \in {"open", "approved"}
PhasesAfter(S, q, new) ==
  phase' = [p \in Requests |-> IF p = q THEN new ELSE IF p \in S THEN "void" ELSE phase[p]]

Ask(q, c, S) ==
  /\ phase[q] = "unasked"
  /\ GivenUp(S) /\ PhasesAfter(S, q, "open")
  /\ owner' = [owner EXCEPT ![q] = c]
  /\ age' = [age EXCEPT ![q] = 0]
  /\ UNCHANGED <<answeredBy, runs>>

Answer(q, verdict, S) ==
  /\ phase[q] = "open" /\ age[q] <= Timeout
  /\ GivenUp(S) /\ PhasesAfter(S, q, verdict)
  /\ answeredBy' = [answeredBy EXCEPT ![q] = owner[q]]
  /\ UNCHANGED <<owner, age, runs>>

Run(q) ==
  /\ phase[q] = "approved"
  /\ phase' = [phase EXCEPT ![q] = "ran"]
  /\ runs' = [runs EXCEPT ![q] = @ + 1]
  /\ UNCHANGED <<owner, age, answeredBy>>

GiveUp(S) ==
  /\ GivenUp(S)
  /\ phase' = [q \in Requests |-> IF q \in S THEN "void" ELSE phase[q]]
  /\ UNCHANGED <<owner, age, answeredBy, runs>>

Tick ==
  /\ age' = [q \in Requests |-> IF phase[q] = "open" /\ age[q] <= Timeout
                                THEN age[q] + 1 ELSE age[q]]
  /\ UNCHANGED <<phase, owner, answeredBy, runs>>

Next ==
  \/ \E S \in SUBSET Requests :
       \/ GiveUp(S)
       \/ \E q \in Requests \ S :
            \/ \E c \in Callers : Ask(q, c, S)
            \/ \E verdict \in {"approved", "void"} : Answer(q, verdict, S)
  \/ \E q \in Requests : Run(q)
  \/ Tick

Spec == Init /\ [][Next]_contractVars

=============================================================================
