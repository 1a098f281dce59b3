---------------------------- MODULE GatewayCalls ----------------------------
(***************************************************************************)
(* The provider calls of the ai-gateway: concurrent requests walking one   *)
(* fallback chain over the shared breaker and readiness snapshot           *)
(* (ai-gateway/app/main.py).                                               *)
(*                                                                         *)
(*   unary    /v1/chat/completions, _invoke_with_fallback                  *)
(*   stream   /v1/chat/completions with stream, _stream_completion         *)
(*   metered  /v1/messages and /v1/responses, _metered_call                *)
(*                                                                         *)
(* The gateway is one asyncio loop: a request runs alone from one await to *)
(* the next, so the walk over skipped candidates and the claim of a trial  *)
(* are one step, and a call to a provider is open between two steps.       *)
(***************************************************************************)
EXTENDS CircuitBreaker, ModelReadiness, Sequences

CONSTANTS Requests,      \* request slots of one replica, reused
          Chain,         \* candidates_for's answer, most preferred first
          MeteredChain,  \* the providers the metered model name maps to
          ServiceOf,     \* inference_service of a provider, or Unwatched
          Unwatched,
          Family,        \* _model_family of a provider
          ViaMaas,       \* the providers reached through MaaS
          Profiles       \* the policy skips a request may carry

\* tooLong: max_model_len smaller than the prompt; silent: skipped without an
\* error line (_adapter_skips_maas); denied: skipped with one (closed class).
Profile == [tooLong: SUBSET Providers, silent: SUBSET Providers,
            denied: SUBSET Providers]

ASSUME ChainAssumption ==
  /\ Chain \in Seq(Providers)
  /\ \A i, j \in 1..Len(Chain) : Chain[i] = Chain[j] => i = j
  /\ MeteredChain \in Seq(Providers)
ASSUME RequestAssumption ==
  /\ ServiceOf \in [Providers -> Services \cup {Unwatched}]
  /\ Unwatched \notin Services
  /\ ViaMaas \subseteq Providers
  /\ Profiles \subseteq Profile

VARIABLES probed,    \* age of the last call let through an open breaker (history)
          pc,        \* idle | walk | call | tokens | held | done
          kind,      \* unary | stream | metered
          profile,   \* the policy skips of the request
          idx,       \* the candidate called, or the last one left behind
          rejected,  \* rejected_families
          failed,    \* other_failure
          errors,    \* the kinds of lines in `errors`: availability | other
          status,    \* what the caller got
          answers    \* answers[r][p]: how p answered r (history)

reqVars == <<pc, kind, profile, idx, rejected, failed, errors, status, answers>>
vars == <<breakerVars, readinessVars, probed, reqVars>>

Kinds == {"unary", "stream", "metered"}
Answers == {"none", "ok", "outage", "refused", "quota", "other", "unreported"}
Statuses == {"none", "ok", "quota", "refused", "unavailable", "bad_gateway",
             "cut", "cancelled", "passed_through"}
NoAnswers == [p \in Providers |-> "none"]

TypeOK ==
  /\ BreakerTypeOK /\ ReadinessTypeOK
  /\ probed \in [Providers -> Ages \cup {Absent}]
  /\ pc \in [Requests -> {"idle", "walk", "call", "tokens", "held", "done"}]
  /\ kind \in [Requests -> Kinds]
  /\ profile \in [Requests -> Profiles]
  /\ idx \in [Requests -> Nat]
  /\ rejected \in [Requests -> SUBSET {Family[p] : p \in Providers}]
  /\ failed \in [Requests -> BOOLEAN]
  /\ errors \in [Requests -> SUBSET {"availability", "other"}]
  /\ status \in [Requests -> Statuses]
  /\ answers \in [Requests -> [Providers -> Answers]]

Init ==
  /\ BreakerInit /\ ReadinessInit
  /\ probed = [p \in Providers |-> Absent]
  /\ pc = [r \in Requests |-> "idle"]
  /\ kind = [r \in Requests |-> "unary"]
  /\ profile \in [Requests -> Profiles]
  /\ idx = [r \in Requests |-> 0]
  /\ rejected = [r \in Requests |-> {}]
  /\ failed = [r \in Requests |-> FALSE]
  /\ errors = [r \in Requests |-> {}]
  /\ status = [r \in Requests |-> "none"]
  /\ answers = [r \in Requests |-> NoAnswers]

-----------------------------------------------------------------------------
Reachable(p) == ServiceOf[p] = Unwatched \/ IsReady(ServiceOf[p])

\* The availability part of a walk, without its claim: _availability_skip.
Unavailable(p) == ~Reachable(p) \/ PeekOpen(p)

\* The skips that come before availability, in the loop's order.
FamilyRejected(r, i) == Family[Chain[i]] \in rejected[r]
TooLong(r, i) == Chain[i] \in profile[r].tooLong /\ i < Len(Chain)
Silent(r, i) == /\ ~FamilyRejected(r, i) /\ ~TooLong(r, i)
                /\ Chain[i] \in profile[r].silent
PolicySkip(r, i) == \/ FamilyRejected(r, i) \/ TooLong(r, i)
                    \/ Chain[i] \in profile[r].silent \cup profile[r].denied
Callable(r, i) == ~PolicySkip(r, i) /\ ~Unavailable(Chain[i])

\* The error lines that walking over the candidates of S leaves behind.
LinesOver(r, S) ==
  (IF \E i \in S : ~PolicySkip(r, i) THEN {"availability"} ELSE {}) \cup
  (IF \E i \in S : PolicySkip(r, i) /\ ~Silent(r, i) THEN {"other"} ELSE {})

\* is_open lets the caller through; probed notes it when the breaker was open.
ClaimCall(p) ==
  /\ Claim(p)
  /\ probed' = IF opened[p] = Absent THEN probed ELSE [probed EXCEPT ![p] = 0]

End(r, s) == /\ pc' = [pc EXCEPT ![r] = "done"]
             /\ status' = [status EXCEPT ![r] = s]

Current(r) == IF kind[r] = "metered" THEN MeteredChain[idx[r]] ELSE Chain[idx[r]]
Answered(r, a) == answers' = [answers EXCEPT ![r][Current(r)] = a]

-----------------------------------------------------------------------------
\* chat_completions up to the dispatch: _nothing_available refuses with 503
\* when not one candidate is available, without claiming a trial.
NothingAvailable == Len(Chain) > 0 /\ \A i \in 1..Len(Chain) : Unavailable(Chain[i])

BeginChat(r, k, f) ==
  /\ pc[r] \in {"idle", "done"}
  /\ kind' = [kind EXCEPT ![r] = k]
  /\ profile' = [profile EXCEPT ![r] = f]
  /\ idx' = [idx EXCEPT ![r] = 0]
  /\ rejected' = [rejected EXCEPT ![r] = {}]
  /\ failed' = [failed EXCEPT ![r] = FALSE]
  /\ errors' = [errors EXCEPT ![r] = {}]
  /\ answers' = [answers EXCEPT ![r] = NoAnswers]
  /\ pc' = [pc EXCEPT ![r] = IF NothingAvailable THEN "done" ELSE "walk"]
  /\ status' = [status EXCEPT ![r] = IF NothingAvailable THEN "unavailable" ELSE "none"]
  /\ UNCHANGED <<breakerVars, readinessVars, probed>>

\* Mutant of NextUp: the loop starts over after a failure.
FromTheTop(r) == 1
NextUp(r) == idx[r] + 1

\* The loop up to the next call: the candidates before it are walked over.
WalkToCall(r) ==
  /\ pc[r] = "walk"
  /\ \E i \in NextUp(r)..Len(Chain) :
       /\ Callable(r, i)
       /\ \A j \in NextUp(r)..(i - 1) : ~Callable(r, j)
       /\ ClaimCall(Chain[i])
       /\ idx' = [idx EXCEPT ![r] = i]
       /\ errors' = [errors EXCEPT ![r] = @ \cup LinesOver(r, NextUp(r)..(i - 1))]
  /\ pc' = [pc EXCEPT ![r] = "call"]
  /\ UNCHANGED <<readinessVars, kind, profile, rejected, failed, status, answers>>

\* Mutant of FinalStatus: any availability skip makes it a 503.
FinalStatusAnySkip(r, lines) ==
  IF kind[r] = "stream" THEN "cut"
  ELSE IF "availability" \in lines THEN "unavailable" ELSE "bad_gateway"

\* The loop to its end with no candidate left: the code of the HTTPException,
\* or the error chunk of a stream, which has sent its 200.
FinalStatus(r, lines) ==
  IF kind[r] = "stream" THEN "cut"
  ELSE IF rejected[r] # {} /\ ~failed[r] THEN "refused"
  ELSE IF lines = {"availability"} THEN "unavailable"
  ELSE "bad_gateway"

WalkToEnd(r) ==
  /\ pc[r] = "walk"
  /\ \A i \in NextUp(r)..Len(Chain) : ~Callable(r, i)
  /\ LET lines == errors[r] \cup LinesOver(r, NextUp(r)..Len(Chain))
     IN /\ End(r, FinalStatus(r, lines))
        /\ errors' = [errors EXCEPT ![r] = lines]
  /\ UNCHANGED <<breakerVars, readinessVars, probed, kind, profile, idx, rejected, failed, answers>>

\* The first token of a stream goes out to the caller.
FirstToken(r) ==
  /\ pc[r] = "call" /\ kind[r] = "stream"
  /\ pc' = [pc EXCEPT ![r] = "tokens"]
  /\ UNCHANGED <<breakerVars, readinessVars, probed, kind, profile, idx, rejected, failed,
                 errors, status, answers>>

InChatCall(r) == pc[r] \in {"call", "tokens"} /\ kind[r] # "metered"

ChatAnswers(r) ==
  /\ InChatCall(r)
  /\ Answered(r, "ok")
  /\ RecordSuccess(Current(r))
  /\ End(r, "ok")
  /\ UNCHANGED <<readinessVars, probed, kind, profile, idx, rejected, failed, errors>>

\* A 429 of a candidate reached through MaaS, with the passthrough on.
ChatQuotaDenied(r) ==
  /\ InChatCall(r) /\ pc[r] = "call"
  /\ Current(r) \in ViaMaas
  /\ Answered(r, "quota")
  /\ End(r, "quota")
  /\ UNCHANGED <<breakerVars, readinessVars, probed, kind, profile, idx, rejected, failed, errors>>

\* Mutant of RejectedBy: the refusing model is forgotten.
RejectedByNone(r) == rejected[r]
RejectedBy(r) == rejected[r] \cup {Family[Current(r)]}

\* A 400, 413 or 422 before the first token.
ChatRefused(r) ==
  /\ InChatCall(r) /\ pc[r] = "call"
  /\ Answered(r, "refused")
  /\ rejected' = [rejected EXCEPT ![r] = RejectedBy(r)]
  /\ errors' = [errors EXCEPT ![r] = @ \cup {"other"}]
  /\ pc' = [pc EXCEPT ![r] = "walk"]
  /\ UNCHANGED <<breakerVars, readinessVars, probed, kind, profile, idx, failed, status>>

\* Any other exception: reported to the breaker, then the next candidate, or
\* the end of a stream that has already sent tokens.
ChatFails(r, a) ==
  /\ InChatCall(r)
  /\ Answered(r, a)
  /\ \/ a = "outage" /\ RecordOutage(Current(r))
     \/ a = "other" /\ RecordOtherFailure(Current(r))
  /\ errors' = [errors EXCEPT ![r] = @ \cup {"other"}]
  /\ failed' = [failed EXCEPT ![r] = (kind[r] = "unary") \/ @]
  /\ IF pc[r] = "tokens" THEN End(r, "cut")
     ELSE pc' = [pc EXCEPT ![r] = "walk"] /\ UNCHANGED status
  /\ UNCHANGED <<readinessVars, probed, kind, profile, idx, rejected>>

-----------------------------------------------------------------------------
\* _metered_call up to the provider: _metered_upstream claims the trial of the
\* first provider it can use; the checks that follow may still refuse.
BeginMetered(r) ==
  /\ pc[r] \in {"idle", "done"}
  /\ kind' = [kind EXCEPT ![r] = "metered"]
  /\ rejected' = [rejected EXCEPT ![r] = {}]
  /\ failed' = [failed EXCEPT ![r] = FALSE]
  /\ errors' = [errors EXCEPT ![r] = {}]
  /\ answers' = [answers EXCEPT ![r] = NoAnswers]
  /\ \/ \E i \in 1..Len(MeteredChain) :
          /\ ~Unavailable(MeteredChain[i])
          /\ \A j \in 1..(i - 1) : Unavailable(MeteredChain[j])
          /\ ClaimCall(MeteredChain[i])
          /\ idx' = [idx EXCEPT ![r] = i]
          /\ pc' = [pc EXCEPT ![r] = "held"]
          /\ status' = [status EXCEPT ![r] = "none"]
     \/ /\ \A i \in 1..Len(MeteredChain) : Unavailable(MeteredChain[i])
        /\ idx' = [idx EXCEPT ![r] = 0]
        /\ End(r, "refused")
        /\ UNCHANGED <<breakerVars, probed>>
  /\ UNCHANGED <<readinessVars, profile>>

\* The ceiling, the token budget or the guardrails answer before the call.
MeteredRefused(r) ==
  /\ pc[r] = "held"
  /\ End(r, "quota")
  /\ UNCHANGED <<breakerVars, readinessVars, probed, kind, profile, idx, rejected, failed,
                 errors, answers>>

MeteredSend(r) ==
  /\ pc[r] = "held"
  /\ pc' = [pc EXCEPT ![r] = "call"]
  /\ UNCHANGED <<breakerVars, readinessVars, probed, kind, profile, idx, rejected, failed,
                 errors, status, answers>>

\* Every HTTP status is passed through; none of them reaches the breaker.
MeteredAnswers(r, a) ==
  /\ pc[r] = "call" /\ kind[r] = "metered"
  /\ a \in {"ok", "outage", "refused", "other"}
  /\ Answered(r, a)
  /\ End(r, "passed_through")
  /\ UNCHANGED <<breakerVars, readinessVars, probed, kind, profile, idx, rejected, failed, errors>>

\* httpx.HTTPError: no answer at all.
MeteredTransportFails(r, a) ==
  /\ pc[r] = "call" /\ kind[r] = "metered"
  /\ Answered(r, a)
  /\ \/ a = "outage" /\ RecordOutage(Current(r))
     \/ a = "other" /\ RecordOtherFailure(Current(r))
  /\ End(r, "bad_gateway")
  /\ UNCHANGED <<readinessVars, probed, kind, profile, idx, rejected, failed, errors>>

-----------------------------------------------------------------------------
\* The client goes away: the task is cancelled at its await, and a
\* CancelledError is not an Exception, so nothing is reported.
Cancel(r) ==
  /\ pc[r] \in {"walk", "call", "tokens", "held"}
  /\ End(r, "cancelled")
  /\ IF pc[r] \in {"call", "tokens"} THEN Answered(r, "unreported") ELSE UNCHANGED answers
  /\ UNCHANGED <<breakerVars, readinessVars, probed, kind, profile, idx, rejected, failed, errors>>

Poll == /\ \E seen \in SUBSET Services : Update(seen)
        /\ UNCHANGED <<breakerVars, probed, reqVars>>

Elapse == /\ BreakerElapse /\ ReadinessElapse
          /\ probed' = [p \in Providers |-> Older(probed[p])]
          /\ UNCHANGED reqVars

Walk(r) == WalkToCall(r) \/ WalkToEnd(r)

CallEnds(r) ==
  \/ ChatAnswers(r) \/ ChatQuotaDenied(r) \/ ChatRefused(r)
  \/ MeteredRefused(r)
  \/ \E a \in {"outage", "other"} : ChatFails(r, a) \/ MeteredTransportFails(r, a)
  \/ \E a \in Answers : MeteredAnswers(r, a)
  \/ Cancel(r)

Next ==
  \/ \E r \in Requests :
       \/ BeginMetered(r)
       \/ \E f \in Profiles, k \in {"unary", "stream"} : BeginChat(r, k, f)
       \/ Walk(r) \/ FirstToken(r) \/ MeteredSend(r) \/ CallEnds(r)
  \/ Poll
  \/ Elapse

\* Time passes, the loop runs every ready task, and a provider call ends: it
\* carries the provider's timeout_seconds.
Fairness == /\ WF_vars(Elapse)
            /\ \A r \in Requests : WF_vars(Walk(r)) /\ WF_vars(CallEnds(r))

Spec == Init /\ [][Next]_vars
FairSpec == Spec /\ Fairness

-----------------------------------------------------------------------------
\* Between two calls let through a provider's breaker while it is open, a whole
\* window passes, whatever late answers, outages and cancelled trials come in
\* between: is_open and record_failure, over all the requests of the replica.
LetThrough(r, p) == /\ pc[r] \notin {"call", "held"}
                    /\ pc'[r] \in {"call", "held"}
                    /\ Current(r)' = p
ProbesSpaced ==
  [][\A r \in Requests, p \in Providers :
       LetThrough(r, p) /\ opened[p] # Absent => probed[p] \in {Absent, OpenWindow}]_vars

\* The same fact as an inductive invariant: the last probe is at least as old
\* as the opening, or is the outstanding trial of an opening whose window is over.
ProbeAges ==
  \A p \in Providers :
    /\ trial[p] # Absent => opened[p] = OpenWindow /\ probed[p] = trial[p]
    /\ opened[p] # Absent /\ trial[p] = Absent
         => probed[p] = Absent \/ probed[p] >= opened[p]

\* A 503 says that nothing was tried: no provider was called for this request,
\* on either of the two paths that answer it (main.py, ADR-0591 decision 6).
UnavailableMeansUntried ==
  \A r \in Requests : status[r] = "unavailable" => answers[r] = NoAnswers

\* A chat request goes on from one provider to the next only after an answer
\* that allows it: never after a MaaS quota denial, a success or a lost client,
\* and never to a sibling of the model that refused the request.
Called(r, i) == \/ answers[r][Chain[i]] # "none"
                \/ pc[r] \in {"call", "tokens"} /\ idx[r] = i
FallbackJustified ==
  \A r \in Requests : kind[r] # "metered" =>
    \A i, j \in 1..Len(Chain) : i < j /\ Called(r, i) /\ Called(r, j) =>
      /\ answers[r][Chain[i]] \in {"outage", "refused", "other"}
      /\ answers[r][Chain[i]] = "refused" => Family[Chain[i]] # Family[Chain[j]]

\* "a provider is never skipped for good" (circuit_breaker.py): again and again
\* its breaker lets a call through, even when every trial is cancelled.
NeverSkippedForGood == \A p \in Providers : []<>~PeekOpen(p)

\* Every request that enters the loop gets an answer: the walk never comes back
\* to a candidate it has left behind.
RequestsEnd == \A r \in Requests : pc[r] # "idle" ~> pc[r] = "done"

=============================================================================
