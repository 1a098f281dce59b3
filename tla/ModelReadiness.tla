--------------------------- MODULE ModelReadiness ---------------------------
(***************************************************************************)
(* The ai-gateway's snapshot of the Ready condition of the model services  *)
(* (ai-gateway/app/model_readiness.py): replaced as a whole by every poll  *)
(* that succeeds, left to go stale by every poll that fails.               *)
(***************************************************************************)
EXTENDS Integers

CONSTANTS Services,    \* the LLMInferenceServices the routing table names
          StaleAfter   \* STALE_AFTER polls, in ticks of the clock

ASSUME StaleAfterAssumption == StaleAfter \in Nat

VARIABLES notReady,    \* the services the last successful poll saw Ready=False
          pollAge      \* age of _last_success, NeverPolled before the first one

readinessVars == <<notReady, pollAge>>

NeverPolled == -1

ReadinessTypeOK ==
  /\ notReady \in SUBSET Services
  /\ pollAge \in NeverPolled..(StaleAfter + 1)

ReadinessInit ==
  /\ notReady = {}
  /\ pollAge = NeverPolled

\* is_ready: a source that never answered, or went silent, fails open, and so
\* does a service without a Ready condition in the last answer.
SourceSilent == pollAge = NeverPolled \/ pollAge > StaleAfter
IsReady(s) == SourceSilent \/ s \notin notReady

\* update, from a successful poll_once; a failed poll changes nothing.
Update(seen) ==
  /\ notReady' = seen
  /\ pollAge' = 0

ReadinessElapse ==
  /\ pollAge' = IF pollAge \in 0..StaleAfter THEN pollAge + 1 ELSE pollAge
  /\ UNCHANGED notReady

=============================================================================
