------------------------- MODULE GatewayCallsProofs -------------------------
(***************************************************************************)
(* For every number of requests, every chain, every window: the breaker    *)
(* lets at most one call per window through while it is open, a 503 says   *)
(* that nothing was tried, and a request leaves a candidate behind only    *)
(* after an answer that allows it.                                         *)
(***************************************************************************)
EXTENDS GatewayCalls, TLAPS

\* The part of the state the breaker lives in; no other variable bears on it.
ProbeTypeOK == BreakerTypeOK /\ probed \in [Providers -> Ages \cup {Absent}]
ProbeInv == ProbeTypeOK /\ ProbeAges

probeVars == <<opened, trial, probed>>

-----------------------------------------------------------------------------
\* An instant's age stays an age, only grows, and keeps the order of ages.
LEMMA OlderAge ==
  ASSUME NEW a \in Ages \cup {Absent}, NEW b \in Ages \cup {Absent}
  PROVE  /\ Older(a) \in Ages \cup {Absent}
         /\ Older(a) = Absent <=> a = Absent
         /\ a = OpenWindow => Older(a) = OpenWindow
         /\ a # Absent /\ b # Absent /\ a >= b => Older(a) >= Older(b)
  BY OpenWindowAssumption DEF Older, Ages, Absent

\* The claim of a trial by is_open keeps the ages of probes in order.
LEMMA ClaimKeepsProbes ==
  ASSUME NEW p \in Providers, ProbeInv, ClaimCall(p)
  PROVE  ProbeInv'
<1> USE OpenWindowAssumption DEF Ages, Absent
<1>1. ProbeTypeOK'
  BY DEF ProbeInv, ProbeTypeOK, BreakerTypeOK, ClaimCall, Claim
<1>2. ProbeAges'
  <2>1. ASSUME NEW q \in Providers
        PROVE  /\ trial'[q] # Absent => opened'[q] = OpenWindow /\ probed'[q] = trial'[q]
               /\ opened'[q] # Absent /\ trial'[q] = Absent
                    => probed'[q] = Absent \/ probed'[q] >= opened'[q]
    <3>1. CASE q # p \/ opened[p] = Absent
      BY <3>1 DEF ProbeInv, ProbeTypeOK, BreakerTypeOK, ProbeAges, ClaimCall, Claim
    <3>2. CASE q = p /\ opened[p] # Absent
      BY <3>2 DEF ProbeInv, ProbeTypeOK, BreakerTypeOK, ClaimCall, Claim, PeekOpen
    <3> QED  BY <3>1, <3>2
  <2> QED  BY <2>1 DEF ProbeAges
<1> QED  BY <1>1, <1>2 DEF ProbeInv

\* So does the answer of a provider, a success or an outage, however late.
LEMMA ReportKeepsProbes ==
  ASSUME NEW p, ProbeInv, UNCHANGED probed,
         RecordSuccess(p) \/ RecordOutage(p) \/ RecordOtherFailure(p)
  PROVE  ProbeInv'
  BY OpenWindowAssumption
  DEF ProbeInv, ProbeTypeOK, BreakerTypeOK, ProbeAges, RecordSuccess, RecordOutage,
      RecordOtherFailure, Ages, Absent

\* A tick of the clock ages the opening, the trial and the probe alike.
LEMMA ElapseKeepsProbes ==
  ASSUME ProbeInv, Elapse
  PROVE  ProbeInv'
<1> USE DEF Elapse, BreakerElapse
<1>1. ProbeTypeOK'
  BY OlderAge DEF ProbeInv, ProbeTypeOK, BreakerTypeOK
<1>2. ASSUME NEW p \in Providers
      PROVE  /\ trial'[p] # Absent => opened'[p] = OpenWindow /\ probed'[p] = trial'[p]
             /\ opened'[p] # Absent /\ trial'[p] = Absent
                  => probed'[p] = Absent \/ probed'[p] >= opened'[p]
  <2>1. /\ opened[p] \in Ages \cup {Absent} /\ trial[p] \in Ages \cup {Absent}
        /\ probed[p] \in Ages \cup {Absent}
    BY DEF ProbeInv, ProbeTypeOK, BreakerTypeOK
  <2>2. /\ opened'[p] = Older(opened[p]) /\ trial'[p] = Older(trial[p])
        /\ probed'[p] = Older(probed[p])
    OBVIOUS
  <2>3. /\ trial[p] # Absent => opened[p] = OpenWindow /\ probed[p] = trial[p]
        /\ opened[p] # Absent /\ trial[p] = Absent
             => probed[p] = Absent \/ probed[p] >= opened[p]
    BY DEF ProbeInv, ProbeAges
  <2> QED  BY <2>1, <2>2, <2>3, OlderAge
<1> QED  BY <1>1, <1>2 DEF ProbeInv, ProbeAges

-----------------------------------------------------------------------------
\* At start no breaker is open and nothing was let through one.
LEMMA ProbeInvInit == Init => ProbeInv
  BY OpenWindowAssumption
  DEF Init, BreakerInit, ProbeInv, ProbeTypeOK, BreakerTypeOK, ProbeAges, Ages, Absent

\* Every step is one of these for the breaker, whichever request takes it.
LEMMA StepsOfTheBreaker ==
  ASSUME TypeOK, [Next]_vars
  PROVE  \/ \E p \in Providers : ClaimCall(p)
         \/ /\ UNCHANGED probed
            /\ \E p : RecordSuccess(p) \/ RecordOutage(p) \/ RecordOtherFailure(p)
         \/ Elapse
         \/ UNCHANGED probeVars
<1> USE DEF probeVars, breakerVars
<1>1. CASE UNCHANGED vars
  BY <1>1 DEF vars
<1>2. CASE Poll
  BY <1>2 DEF Poll
<1>3. CASE Elapse
  BY <1>3
<1>4. ASSUME NEW r \in Requests,
             \/ \E f \in Profiles, k \in {"unary", "stream"} : BeginChat(r, k, f)
             \/ WalkToEnd(r) \/ FirstToken(r) \/ MeteredSend(r) \/ Cancel(r)
             \/ ChatQuotaDenied(r) \/ ChatRefused(r) \/ MeteredRefused(r)
             \/ \E a \in Answers : MeteredAnswers(r, a)
      PROVE  UNCHANGED probeVars
  BY <1>4 DEF BeginChat, WalkToEnd, FirstToken, MeteredSend, Cancel, ChatQuotaDenied,
              ChatRefused, MeteredRefused, MeteredAnswers
<1>5. ASSUME NEW r \in Requests, WalkToCall(r)
      PROVE  \E p \in Providers : ClaimCall(p)
  <2>1. PICK i \in NextUp(r)..Len(Chain) : ClaimCall(Chain[i])
    BY <1>5 DEF WalkToCall
  <2>2. Chain[i] \in Providers
    BY ChainAssumption DEF NextUp, TypeOK
  <2> QED  BY <2>1, <2>2
<1>6. ASSUME NEW r \in Requests, BeginMetered(r)
      PROVE  (\E p \in Providers : ClaimCall(p)) \/ UNCHANGED probeVars
  BY <1>6, ChainAssumption DEF BeginMetered
<1>7. ASSUME NEW r \in Requests,
             ChatAnswers(r) \/ \E a \in {"outage", "other"} :
                                 ChatFails(r, a) \/ MeteredTransportFails(r, a)
      PROVE  /\ UNCHANGED probed
             /\ \E p : RecordSuccess(p) \/ RecordOutage(p) \/ RecordOtherFailure(p)
  BY <1>7 DEF ChatAnswers, ChatFails, MeteredTransportFails
<1> QED
  BY <1>1, <1>2, <1>3, <1>4, <1>5, <1>6, <1>7 DEF Next, Walk, CallEnds

\* So every step keeps them.
LEMMA StepKeepsProbes ==
  ASSUME TypeOK, ProbeInv, [Next]_vars
  PROVE  ProbeInv'
<1>1. CASE UNCHANGED probeVars
  BY <1>1 DEF probeVars, ProbeInv, ProbeTypeOK, BreakerTypeOK, ProbeAges
<1> QED
  BY <1>1, StepsOfTheBreaker, ClaimKeepsProbes, ReportKeepsProbes, ElapseKeepsProbes

-----------------------------------------------------------------------------
\* Where a request is: the walk is a chat request's, a held trial is a metered
\* one's, and a chat request whose call is open is at a candidate of its chain.
Places ==
  \A r \in Requests :
    /\ pc[r] = "walk" => kind[r] # "metered"
    /\ pc[r] = "held" => kind[r] = "metered"
    /\ InChatCall(r) => idx[r] \in 1..Len(Chain)

\* The types of the request handlers' state.
ReqTypeOK ==
  /\ pc \in [Requests -> {"idle", "walk", "call", "tokens", "held", "done"}]
  /\ kind \in [Requests -> Kinds]
  /\ profile \in [Requests -> Profiles]
  /\ idx \in [Requests -> Nat]
  /\ rejected \in [Requests -> SUBSET {Family[p] : p \in Providers}]
  /\ failed \in [Requests -> BOOLEAN]
  /\ errors \in [Requests -> SUBSET {"availability", "other"}]
  /\ status \in [Requests -> Statuses]
  /\ answers \in [Requests -> [Providers -> Answers]]

\* The type invariant falls into three parts that disjoint actions disturb.
LEMMA TypeOKParts == TypeOK <=> ProbeTypeOK /\ ReadinessTypeOK /\ ReqTypeOK
  BY DEF TypeOK, ProbeTypeOK, ReqTypeOK

\* The snapshot of model_readiness.py keeps its type.
LEMMA StepKeepsReadiness ==
  ASSUME ReadinessTypeOK, [Next]_vars
  PROVE  ReadinessTypeOK'
<1>1. CASE UNCHANGED readinessVars
  BY <1>1 DEF readinessVars, ReadinessTypeOK
<1>2. CASE Poll
  BY <1>2, StaleAfterAssumption DEF Poll, Update, ReadinessTypeOK, NeverPolled
<1>3. CASE Elapse
  BY <1>3, StaleAfterAssumption DEF Elapse, ReadinessElapse, ReadinessTypeOK, NeverPolled
<1> QED
  BY <1>1, <1>2, <1>3
  DEF Next, vars, Walk, CallEnds, BeginMetered, BeginChat, WalkToCall, WalkToEnd, FirstToken,
      MeteredSend, ChatAnswers, ChatQuotaDenied, ChatRefused, MeteredRefused, ChatFails,
      MeteredTransportFails, MeteredAnswers, Cancel

\* The local state of the request handlers keeps its type and its place.
LEMMA StepKeepsRequests ==
  ASSUME ReqTypeOK, Places, [Next]_vars
  PROVE  ReqTypeOK' /\ Places'
<1> USE DEF ReqTypeOK, Places, InChatCall
<1>1. CASE UNCHANGED vars \/ Poll \/ Elapse
  BY <1>1 DEF vars, reqVars, Poll, Elapse
<1>2. ASSUME NEW r \in Requests, NEW f \in Profiles, NEW k \in {"unary", "stream"},
             BeginChat(r, k, f)
      PROVE  ReqTypeOK' /\ Places'
  BY <1>2 DEF BeginChat, Kinds, Statuses, NoAnswers, Answers
<1>3. ASSUME NEW r \in Requests, WalkToCall(r)
      PROVE  ReqTypeOK' /\ Places'
  <2>1. PICK i \in NextUp(r)..Len(Chain) :
               /\ idx' = [idx EXCEPT ![r] = i]
               /\ errors' = [errors EXCEPT ![r] = @ \cup LinesOver(r, NextUp(r)..(i - 1))]
    BY <1>3 DEF WalkToCall
  <2>2. i \in 1..Len(Chain)
    BY ChainAssumption DEF NextUp
  <2>3. errors' \in [Requests -> SUBSET {"availability", "other"}]
    BY <2>1 DEF LinesOver
  <2>4. ReqTypeOK'
    BY <1>3, <2>1, <2>2, <2>3 DEF WalkToCall
  <2>5. ASSUME NEW q \in Requests
        PROVE  /\ pc'[q] = "walk" => kind'[q] # "metered"
               /\ pc'[q] = "held" => kind'[q] = "metered"
               /\ pc'[q] \in {"call", "tokens"} /\ kind'[q] # "metered"
                    => idx'[q] \in 1..Len(Chain)
    BY <1>3, <2>1, <2>2 DEF WalkToCall
  <2> QED  BY <2>4, <2>5
<1>4. ASSUME NEW r \in Requests, WalkToEnd(r)
      PROVE  ReqTypeOK' /\ Places'
  <2>1. errors' \in [Requests -> SUBSET {"availability", "other"}]
    BY <1>4 DEF WalkToEnd, LinesOver
  <2>2. status' \in [Requests -> Statuses]
    BY <1>4 DEF WalkToEnd, End, FinalStatus, Statuses
  <2>3. /\ pc' = [pc EXCEPT ![r] = "done"]
        /\ UNCHANGED <<kind, profile, idx, rejected, failed, answers>>
    BY <1>4 DEF WalkToEnd, End
  <2>4. ReqTypeOK'
    BY <2>1, <2>2, <2>3
  <2>5. Places'
    BY <2>3
  <2> QED  BY <2>4, <2>5
<1>5. ASSUME NEW r \in Requests, FirstToken(r) \/ MeteredSend(r)
      PROVE  ReqTypeOK' /\ Places'
  BY <1>5 DEF FirstToken, MeteredSend
<1>6. ASSUME NEW r \in Requests, NEW a \in Answers, Answered(r, a)
      PROVE  answers' \in [Requests -> [Providers -> Answers]]
  BY <1>6 DEF Answered
<1>7. ASSUME NEW r \in Requests, ChatAnswers(r) \/ ChatQuotaDenied(r)
      PROVE  ReqTypeOK' /\ Places'
  BY <1>6, <1>7 DEF ChatAnswers, ChatQuotaDenied, End, Statuses, Answers
<1>8. ASSUME NEW r \in Requests, ChatRefused(r)
      PROVE  ReqTypeOK' /\ Places'
  <2> Chain[idx[r]] \in Providers
    BY <1>8, ChainAssumption DEF ChatRefused
  <2>1. Current(r) \in Providers
    BY <1>8 DEF ChatRefused, Current
  <2>2. rejected' \in [Requests -> SUBSET {Family[p] : p \in Providers}]
    BY <1>8, <2>1 DEF ChatRefused, RejectedBy
  <2>3. answers' \in [Requests -> [Providers -> Answers]]
    BY <1>6, <1>8 DEF ChatRefused, Answers
  <2> QED  BY <1>8, <2>2, <2>3 DEF ChatRefused
<1>9. ASSUME NEW r \in Requests, NEW a \in {"outage", "other"}, ChatFails(r, a)
      PROVE  ReqTypeOK' /\ Places'
  <2>1. answers' \in [Requests -> [Providers -> Answers]]
    BY <1>6, <1>9 DEF ChatFails, Answers
  <2>2. failed' \in [Requests -> BOOLEAN]
    <3> DEFINE late == kind[r] = "unary" \/ failed[r]
    <3>1. failed' = [failed EXCEPT ![r] = late]
      BY <1>9 DEF ChatFails
    <3>2. late \in BOOLEAN
      OBVIOUS
    <3> HIDE DEF late
    <3> QED  BY <3>1, <3>2
  <2>3. pc' \in [Requests -> {"idle", "walk", "call", "tokens", "held", "done"}]
        /\ status' \in [Requests -> Statuses]
    BY <1>9 DEF ChatFails, End, Statuses
  <2>4. errors' \in [Requests -> SUBSET {"availability", "other"}]
    BY <1>9 DEF ChatFails
  <2>5. UNCHANGED <<kind, profile, idx, rejected>> /\ kind[r] # "metered"
    BY <1>9 DEF ChatFails
  <2>6. ReqTypeOK'
    BY <2>1, <2>2, <2>3, <2>4, <2>5
  <2>7. \A q \in Requests : pc'[q] = pc[q] \/ (q = r /\ pc'[q] \in {"walk", "done"})
    BY <1>9 DEF ChatFails, End
  <2>8. Places'
    BY <2>5, <2>7
  <2> QED  BY <2>6, <2>8
<1>10. ASSUME NEW r \in Requests, BeginMetered(r)
       PROVE  ReqTypeOK' /\ Places'
  <2>1. idx' \in [Requests -> Nat] /\ status' \in [Requests -> Statuses]
    <3>1. CASE \E i \in 1..Len(MeteredChain) :
                 idx' = [idx EXCEPT ![r] = i] /\ status' = [status EXCEPT ![r] = "none"]
      BY <3>1, ChainAssumption DEF Statuses
    <3>2. CASE idx' = [idx EXCEPT ![r] = 0] /\ status' = [status EXCEPT ![r] = "refused"]
      BY <3>2 DEF Statuses
    <3> QED  BY <1>10, <3>1, <3>2 DEF BeginMetered, End
  <2>2. \/ pc' = [pc EXCEPT ![r] = "held"]
        \/ pc' = [pc EXCEPT ![r] = "done"]
    BY <1>10 DEF BeginMetered, End
  <2>3. kind' = [kind EXCEPT ![r] = "metered"] /\ kind' \in [Requests -> Kinds]
    BY <1>10 DEF BeginMetered, Kinds
  <2>4. rejected' \in [Requests -> SUBSET {Family[p] : p \in Providers}]
    BY <1>10 DEF BeginMetered
  <2>5. /\ failed' \in [Requests -> BOOLEAN]
        /\ errors' \in [Requests -> SUBSET {"availability", "other"}]
        /\ answers' \in [Requests -> [Providers -> Answers]]
    BY <1>10 DEF BeginMetered, NoAnswers, Answers
  <2>6. UNCHANGED profile
    BY <1>10 DEF BeginMetered
  <2>7. ReqTypeOK'
    BY <2>1, <2>2, <2>3, <2>4, <2>5, <2>6
  <2>8. ASSUME NEW q \in Requests
        PROVE  \/ (pc'[q] \in {"held", "done"} /\ kind'[q] = "metered")
               \/ (q # r /\ pc'[q] = pc[q] /\ kind'[q] = kind[q] /\ idx'[q] = idx[q])
    BY <1>10, <2>2, <2>3 DEF BeginMetered
  <2>9. Places'
    BY <2>8
  <2> QED  BY <2>7, <2>9
<1>11. ASSUME NEW r \in Requests, MeteredRefused(r)
       PROVE  ReqTypeOK' /\ Places'
  BY <1>11 DEF MeteredRefused, End, Statuses
<1>12. ASSUME NEW r \in Requests, NEW a \in Answers,
              MeteredAnswers(r, a) \/ (a \in {"outage", "other"} /\ MeteredTransportFails(r, a))
       PROVE  ReqTypeOK' /\ Places'
  BY <1>6, <1>12 DEF MeteredAnswers, MeteredTransportFails, End, Statuses
<1>13. ASSUME NEW r \in Requests, Cancel(r)
       PROVE  ReqTypeOK' /\ Places'
  BY <1>6, <1>13 DEF Cancel, End, Statuses, Answers
<1>14. {"outage", "other"} \subseteq Answers
  BY DEF Answers
<1> QED
  BY <1>1, <1>2, <1>3, <1>4, <1>5, <1>7, <1>8, <1>9, <1>10, <1>11, <1>12, <1>13, <1>14
  DEF Next, Walk, CallEnds

-----------------------------------------------------------------------------
\* The inductive invariant of the module.
IInv == TypeOK /\ ProbeAges /\ Places

\* The inductive invariant holds at start...
LEMMA InitIInv == Init => IInv
<1> SUFFICES ASSUME Init PROVE IInv
  OBVIOUS
<1>1. ProbeInv
  BY ProbeInvInit
<1>2. ReqTypeOK /\ Places
  BY DEF Init, ReqTypeOK, Places, InChatCall, Kinds, Statuses, NoAnswers, Answers
<1>3. ReadinessTypeOK
  BY StaleAfterAssumption DEF Init, ReadinessInit, ReadinessTypeOK, NeverPolled
<1> QED  BY <1>1, <1>2, <1>3, TypeOKParts DEF IInv, ProbeInv

\* ... and every step of the replica keeps it.
LEMMA NextIInv == IInv /\ [Next]_vars => IInv'
<1> SUFFICES ASSUME IInv, [Next]_vars PROVE IInv'
  OBVIOUS
<1>1. ProbeInv /\ ReadinessTypeOK /\ ReqTypeOK /\ Places
  BY TypeOKParts DEF IInv, ProbeInv
<1>2. ProbeInv'
  BY <1>1, StepKeepsProbes DEF IInv
<1>3. ReadinessTypeOK' /\ ReqTypeOK' /\ Places'
  BY <1>1, StepKeepsReadiness, StepKeepsRequests
<1> QED  BY <1>2, <1>3 DEF IInv, ProbeInv, TypeOK, ProbeTypeOK, ReqTypeOK

\* The types of the replica's state and the ages of the probes are invariant.
THEOREM GatewayInvariant == Spec => [](TypeOK /\ ProbeAges)
<1>1. IInv => TypeOK /\ ProbeAges
  BY DEF IInv
<1> QED  BY <1>1, InitIInv, NextIInv, PTL DEF Spec

\* A request goes on to its call only by a claim of the breaker it calls.
LEMMA LetThroughClaims ==
  ASSUME IInv, [Next]_vars, NEW r \in Requests, NEW p \in Providers, LetThrough(r, p)
  PROVE  ClaimCall(p)
<1> USE DEF LetThrough, IInv
<1>1. ReqTypeOK
  BY TypeOKParts
<1>2. ASSUME NEW q \in Requests, WalkToCall(q)
      PROVE  ClaimCall(p)
  <2>1. PICK i \in NextUp(q)..Len(Chain) :
               ClaimCall(Chain[i]) /\ idx' = [idx EXCEPT ![q] = i]
    BY <1>2 DEF WalkToCall
  <2>2. q = r
    BY <1>1, <1>2 DEF WalkToCall, ReqTypeOK
  <2>3. kind'[r] # "metered" /\ idx'[r] = i
    BY <1>1, <1>2, <2>1, <2>2 DEF WalkToCall, ReqTypeOK, Places
  <2> QED  BY <2>1, <2>3 DEF Current
<1>3. ASSUME NEW q \in Requests, BeginMetered(q)
      PROVE  ClaimCall(p)
  <2>1. q = r
    BY <1>1, <1>3 DEF BeginMetered, ReqTypeOK, End
  <2>2. PICK i \in 1..Len(MeteredChain) :
               ClaimCall(MeteredChain[i]) /\ idx' = [idx EXCEPT ![q] = i]
    BY <1>1, <1>3, <2>1 DEF BeginMetered, ReqTypeOK, End
  <2>3. kind'[r] = "metered" /\ idx'[r] = i
    BY <1>1, <1>3, <2>1, <2>2 DEF BeginMetered, ReqTypeOK
  <2> QED  BY <2>2, <2>3 DEF Current
<1>4. CASE UNCHANGED vars \/ Poll \/ Elapse
  BY <1>4 DEF vars, reqVars, Poll, Elapse
<1>5. ASSUME NEW q \in Requests,
             \/ \E f \in Profiles, k \in {"unary", "stream"} : BeginChat(q, k, f)
             \/ WalkToEnd(q) \/ FirstToken(q) \/ MeteredSend(q) \/ CallEnds(q)
      PROVE  FALSE
  BY <1>1, <1>5
  DEF ReqTypeOK, BeginChat, WalkToEnd, FirstToken, MeteredSend, CallEnds, ChatAnswers,
      ChatQuotaDenied, ChatRefused, MeteredRefused, ChatFails, MeteredTransportFails,
      MeteredAnswers, Cancel, End, InChatCall
<1> QED  BY <1>2, <1>3, <1>4, <1>5 DEF Next, Walk

\* Two calls let through a provider's open breaker are a whole window apart.
THEOREM ProbesAreSpaced == Spec => ProbesSpaced
<1>1. ASSUME IInv, [Next]_vars
      PROVE  [\A r \in Requests, p \in Providers :
                LetThrough(r, p) /\ opened[p] # Absent => probed[p] \in {Absent, OpenWindow}]_vars
  <2> SUFFICES ASSUME NEW r \in Requests, NEW p \in Providers, LetThrough(r, p),
                      opened[p] # Absent
               PROVE  probed[p] \in {Absent, OpenWindow}
    OBVIOUS
  <2>1. ~PeekOpen(p)
    BY <1>1, LetThroughClaims DEF ClaimCall, Claim
  <2>2. /\ opened[p] \in Ages \cup {Absent} /\ trial[p] \in Ages \cup {Absent}
        /\ probed[p] \in Ages \cup {Absent}
    BY <1>1 DEF IInv, TypeOK, BreakerTypeOK
  <2>3. /\ trial[p] # Absent => opened[p] = OpenWindow /\ probed[p] = trial[p]
        /\ opened[p] # Absent /\ trial[p] = Absent
             => probed[p] = Absent \/ probed[p] >= opened[p]
    BY <1>1 DEF IInv, ProbeAges
  <2> QED
    BY <2>1, <2>2, <2>3, OpenWindowAssumption DEF PeekOpen, Ages, Absent
<1> QED  BY <1>1, InitIInv, NextIInv, PTL DEF Spec, ProbesSpaced

-----------------------------------------------------------------------------
\* The answers after which the loop may go on to another candidate.
Passable == {"outage", "refused", "other"}

\* What a chat request leaves behind it on its chain: the candidates that have
\* answered come before the one it is at, each of them with an answer that lets
\* the loop go on, and a refusal has put its model's family out of the walk.
Trail(r) ==
  /\ \A i \in 1..Len(Chain) : answers[r][Chain[i]] # "none" =>
       /\ i <= idx[r]
       /\ i = idx[r] => pc[r] \notin {"call", "tokens"}
       /\ i < idx[r] \/ pc[r] = "walk" => answers[r][Chain[i]] \in Passable
       /\ answers[r][Chain[i]] = "refused" => Family[Chain[i]] \in rejected[r]
  /\ \A i, j \in 1..Len(Chain) :
       i < j /\ answers[r][Chain[i]] = "refused" /\ Called(r, j)
         => Family[Chain[i]] # Family[Chain[j]]

\* A 503 is final, and a walk without an error line of an answer has had none.
Untried(r) ==
  /\ status[r] = "unavailable" => pc[r] = "done" /\ answers[r] = NoAnswers
  /\ /\ kind[r] # "metered" /\ pc[r] \in {"walk", "call", "tokens"}
     /\ "other" \notin errors[r]
     => answers[r] = NoAnswers

Walked(r) == (kind[r] # "metered" => Trail(r)) /\ Untried(r)
TInv == IInv /\ \A r \in Requests : Walked(r)

\* The state of one request, and that of all the others, which its steps leave.
Same(r) == UNCHANGED <<pc[r], kind[r], idx[r], rejected[r], errors[r], status[r], answers[r]>>
OthersSame(r) == \A q \in Requests \ {r} : Same(q)

LEMMA SameStaysWalked ==
  ASSUME NEW r \in Requests, Walked(r), Same(r)
  PROVE  Walked(r)'
  BY DEF Walked, Same, Trail, Untried, Called

\* A request that enters a loop has no answers yet.
LEMMA FreshIsWalked ==
  ASSUME NEW r \in Requests, answers'[r] = NoAnswers,
         pc'[r] \notin {"call", "tokens"},
         status'[r] = "unavailable" => pc'[r] = "done"
  PROVE  Walked(r)'
<1>1. \A i \in 1..Len(Chain) : answers'[r][Chain[i]] = "none"
  BY ChainAssumption DEF NoAnswers
<1>2. Trail(r)'
  BY <1>1 DEF Trail, Called
<1>3. Untried(r)'
  BY DEF Untried
<1> QED  BY <1>2, <1>3 DEF Walked

\* An answer is the last thing on the trail of the request it comes to.
LEMMA AnswerIsWalked ==
  ASSUME ReqTypeOK, Places, NEW r \in Requests, Walked(r), NEW a \in Answers,
         InChatCall(r), Answered(r, a), a # "none",
         UNCHANGED <<kind[r], idx[r]>>,
         \/ pc'[r] = "done" /\ status'[r] # "unavailable"
         \/ /\ pc'[r] = "walk" /\ a \in Passable
            /\ UNCHANGED status[r] /\ "other" \in errors'[r],
         rejected[r] \subseteq rejected'[r],
         a = "refused" => Family[Chain[idx[r]]] \in rejected'[r]
  PROVE  Walked(r)'
<1> DEFINE m == idx[r]
<1>1. /\ pc[r] \in {"call", "tokens"} /\ kind[r] # "metered" /\ m \in 1..Len(Chain)
      /\ Trail(r) /\ Untried(r)
  BY DEF InChatCall, Places, Walked
<1>2. /\ Len(Chain) \in Nat
      /\ \A i \in 1..Len(Chain) : Chain[i] \in Providers
      /\ \A i \in 1..Len(Chain) : Chain[i] = Chain[m] => i = m
  BY <1>1, ChainAssumption
<1>3. /\ answers'[r][Chain[m]] = a
      /\ \A i \in 1..Len(Chain) : i # m => answers'[r][Chain[i]] = answers[r][Chain[i]]
  BY <1>1, <1>2 DEF Answered, Current, ReqTypeOK
<1>4. \A i \in 1..Len(Chain) : answers[r][Chain[i]] # "none" =>
        /\ i < m
        /\ answers[r][Chain[i]] \in Passable
        /\ answers[r][Chain[i]] = "refused" => Family[Chain[i]] \in rejected[r]
  BY <1>1, <1>2 DEF Trail
<1>5. \A i, j \in 1..Len(Chain) :
        i < j /\ answers[r][Chain[i]] = "refused" /\ Called(r, j)
          => Family[Chain[i]] # Family[Chain[j]]
  BY <1>1 DEF Trail
<1> HIDE DEF m
<1>6. idx'[r] = m /\ idx[r] = m /\ m \in 1..Len(Chain)
  BY <1>1 DEF m
<1>7. Trail(r)'
  <2>1. ASSUME NEW i \in 1..Len(Chain), answers'[r][Chain[i]] # "none"
        PROVE  /\ i <= idx'[r]
               /\ i = idx'[r] => pc'[r] \notin {"call", "tokens"}
               /\ i < idx'[r] \/ pc'[r] = "walk" => answers'[r][Chain[i]] \in Passable
               /\ answers'[r][Chain[i]] = "refused" => Family[Chain[i]] \in rejected'[r]
    <3>1. CASE i = m
      BY <3>1, <1>2, <1>3, <1>6
    <3>2. CASE i # m
      BY <3>2, <2>1, <1>2, <1>3, <1>4, <1>6
    <3> QED  BY <3>1, <3>2
  <2>2. ASSUME NEW i \in 1..Len(Chain), NEW j \in 1..Len(Chain),
               i < j, answers'[r][Chain[i]] = "refused", Called(r, j)'
        PROVE  Family[Chain[i]] # Family[Chain[j]]
    <3>1. answers'[r][Chain[j]] # "none"
      BY <2>2 DEF Called
    <3>2. j <= m
      BY <2>1, <3>1, <1>6
    <3>3. i # m /\ answers[r][Chain[i]] = "refused"
      BY <2>2, <3>2, <1>2, <1>3, <1>6
    <3>4. Called(r, j)
      BY <1>1, <1>3, <1>6, <3>1 DEF Called
    <3> QED  BY <1>5, <2>2, <3>3, <3>4
  <2> QED  BY <2>1, <2>2 DEF Trail
<1>8. Untried(r)'
  <2>1. status[r] # "unavailable"
    BY <1>1 DEF Untried
  <2> QED  BY <2>1 DEF Untried
<1> QED  BY <1>7, <1>8 DEF Walked

\* The walk to the next call: the candidate is none of a refused family.
LEMMA WalkToCallIsWalked ==
  ASSUME ReqTypeOK, Places, NEW r \in Requests, Walked(r), WalkToCall(r)
  PROVE  Walked(r)' /\ OthersSame(r)
<1> DEFINE m == idx[r]
<1>1. /\ pc[r] = "walk" /\ kind[r] # "metered" /\ Trail(r) /\ Untried(r)
      /\ m \in Nat /\ Len(Chain) \in Nat
  BY ChainAssumption DEF WalkToCall, Places, Walked, ReqTypeOK
<1>2. PICK k \in (m + 1)..Len(Chain) :
             /\ Callable(r, k)
             /\ idx' = [idx EXCEPT ![r] = k]
             /\ errors' = [errors EXCEPT ![r] = @ \cup LinesOver(r, (m + 1)..(k - 1))]
  BY DEF WalkToCall, NextUp
<1>3. /\ pc'[r] = "call" /\ idx'[r] = k /\ errors[r] \subseteq errors'[r]
      /\ UNCHANGED <<kind[r], rejected[r], status[r], answers[r]>>
      /\ OthersSame(r)
  BY <1>2 DEF WalkToCall, ReqTypeOK, OthersSame, Same
<1>4. \A i \in 1..Len(Chain) : answers[r][Chain[i]] # "none" =>
        /\ i <= m
        /\ answers[r][Chain[i]] \in Passable
        /\ answers[r][Chain[i]] = "refused" => Family[Chain[i]] \in rejected[r]
  BY <1>1 DEF Trail
<1>5. Family[Chain[k]] \notin rejected[r]
  BY <1>2 DEF Callable, PolicySkip, FamilyRejected
<1> HIDE DEF m
<1>6. k \in 1..Len(Chain) /\ m < k
  BY <1>1, <1>2
<1>7. ASSUME NEW i \in 1..Len(Chain), answers'[r][Chain[i]] # "none"
      PROVE  i < k /\ answers'[r][Chain[i]] \in Passable
  BY <1>1, <1>3, <1>4, <1>6, <1>7
<1>8. ASSUME NEW i \in 1..Len(Chain), NEW j \in 1..Len(Chain),
             i < j, answers'[r][Chain[i]] = "refused", Called(r, j)'
      PROVE  Family[Chain[i]] # Family[Chain[j]]
  <2>1. answers[r][Chain[i]] = "refused"
    BY <1>3, <1>8
  <2>2. CASE j = k
    BY <2>1, <2>2, <1>4, <1>5
  <2>3. CASE j # k
    <3>1. Called(r, j)
      BY <2>3, <1>3, <1>8 DEF Called
    <3> QED  BY <1>1, <1>8, <2>1, <3>1 DEF Trail
  <2> QED  BY <2>2, <2>3
<1>9. Trail(r)'
  <2>1. ASSUME NEW i \in 1..Len(Chain), answers'[r][Chain[i]] # "none"
        PROVE  /\ i <= idx'[r] /\ i # idx'[r] /\ answers'[r][Chain[i]] \in Passable
               /\ answers'[r][Chain[i]] = "refused" => Family[Chain[i]] \in rejected'[r]
    BY <2>1, <1>3, <1>4, <1>6, <1>7
  <2> QED  BY <2>1, <1>8 DEF Trail
<1>10. Untried(r)'
  BY <1>1, <1>3 DEF Untried
<1> QED  BY <1>3, <1>9, <1>10 DEF Walked

\* The end of the walk: a 503 only if no candidate has left an error line.
LEMMA WalkToEndIsWalked ==
  ASSUME ReqTypeOK, Places, NEW r \in Requests, Walked(r), WalkToEnd(r)
  PROVE  Walked(r)' /\ OthersSame(r)
<1>1. /\ pc[r] = "walk" /\ kind[r] # "metered" /\ Trail(r) /\ Untried(r)
      /\ \A q \in Requests : idx[q] \in Nat
  BY DEF WalkToEnd, Places, Walked, ReqTypeOK
<1>2. PICK lines :
        /\ errors[r] \subseteq lines
        /\ status' = [status EXCEPT ![r] = FinalStatus(r, lines)]
        /\ errors' = [errors EXCEPT ![r] = lines]
  BY DEF WalkToEnd, End
<1>3. /\ pc'[r] = "done" /\ status'[r] = FinalStatus(r, lines)
      /\ UNCHANGED <<kind[r], idx[r], rejected[r], answers[r]>>
      /\ OthersSame(r)
  BY <1>2 DEF WalkToEnd, End, ReqTypeOK, OthersSame, Same
<1>4. Trail(r)'
  BY <1>1, <1>3 DEF Trail, Called
<1>5. status'[r] = "unavailable" => answers'[r] = NoAnswers
  <2>1. CASE "other" \in errors[r]
    BY <2>1, <1>2, <1>3 DEF FinalStatus
  <2>2. CASE "other" \notin errors[r]
    BY <2>2, <1>1, <1>3 DEF Untried
  <2> QED  BY <2>1, <2>2
<1>6. Untried(r)'
  BY <1>3, <1>5 DEF Untried
<1> QED  BY <1>3, <1>4, <1>6 DEF Walked

\* Every step of the replica keeps the trails of its requests.
LEMMA StepKeepsWalked ==
  ASSUME ReqTypeOK, Places, \A r \in Requests : Walked(r), [Next]_vars
  PROVE  \A r \in Requests : Walked(r)'
<1> DEFINE Kept(r) == Walked(r)' /\ OthersSame(r)
<1>1. CASE UNCHANGED vars \/ Poll \/ Elapse
  <2>1. \A r \in Requests : Same(r)
    BY <1>1 DEF vars, reqVars, Poll, Elapse, Same
  <2> QED  BY <2>1, SameStaysWalked
<1>2. ASSUME NEW r \in Requests, NEW f \in Profiles, NEW k \in {"unary", "stream"},
             BeginChat(r, k, f)
      PROVE  Kept(r)
  <2>1. OthersSame(r) /\ answers'[r] = NoAnswers
    BY <1>2 DEF BeginChat, OthersSame, Same, ReqTypeOK
  <2>2. /\ pc'[r] \in {"walk", "done"}
        /\ status'[r] = "unavailable" => pc'[r] = "done"
    BY <1>2 DEF BeginChat, ReqTypeOK
  <2> QED  BY <2>1, <2>2, FreshIsWalked
<1>3. ASSUME NEW r \in Requests, BeginMetered(r)
      PROVE  Kept(r)
  <2>1. OthersSame(r) /\ answers'[r] = NoAnswers
    BY <1>3 DEF BeginMetered, End, OthersSame, Same, ReqTypeOK
  <2>2. pc'[r] \in {"held", "done"} /\ status'[r] # "unavailable"
    BY <1>3 DEF BeginMetered, End, ReqTypeOK
  <2> QED  BY <2>1, <2>2, FreshIsWalked
<1>4. ASSUME NEW r \in Requests, FirstToken(r)
      PROVE  Kept(r)
  <2>1. /\ OthersSame(r) /\ pc[r] = "call" /\ pc'[r] = "tokens"
        /\ UNCHANGED <<kind[r], idx[r], rejected[r], errors[r], status[r], answers[r]>>
    BY <1>4 DEF FirstToken, OthersSame, Same, ReqTypeOK
  <2> QED  BY <2>1 DEF Walked, Trail, Untried, Called
<1>5. ASSUME NEW r \in Requests,
             \/ MeteredSend(r) \/ MeteredRefused(r)
             \/ \E a \in Answers : MeteredAnswers(r, a)
             \/ \E a \in {"outage", "other"} : MeteredTransportFails(r, a)
      PROVE  Kept(r)
  <2>1. OthersSame(r) /\ kind[r] = "metered" /\ kind'[r] = "metered"
    BY <1>5 DEF MeteredSend, MeteredRefused, MeteredAnswers, MeteredTransportFails, Answered,
                End, OthersSame, Same, ReqTypeOK, Places
  <2>2. pc[r] \in {"held", "call"}
    BY <1>5 DEF MeteredSend, MeteredRefused, MeteredAnswers, MeteredTransportFails
  <2>3. status'[r] # "unavailable"
    BY <1>5, <2>2
    DEF MeteredSend, MeteredRefused, MeteredAnswers, MeteredTransportFails, End, Walked,
        Untried, ReqTypeOK
  <2> QED  BY <2>1, <2>3 DEF Walked, Untried
<1>6. ASSUME NEW r \in Requests, ChatAnswers(r) \/ ChatQuotaDenied(r)
      PROVE  Kept(r)
  <2>1. PICK a \in {"ok", "quota"} : InChatCall(r) /\ Answered(r, a)
    BY <1>6 DEF ChatAnswers, ChatQuotaDenied
  <2>2. /\ OthersSame(r) /\ pc'[r] = "done" /\ status'[r] # "unavailable"
        /\ UNCHANGED <<kind[r], idx[r], rejected[r]>>
    BY <1>6, <2>1 DEF ChatAnswers, ChatQuotaDenied, Answered, End, OthersSame, Same, ReqTypeOK
  <2> QED  BY <2>1, <2>2, AnswerIsWalked DEF Answers
<1>7. ASSUME NEW r \in Requests, ChatRefused(r)
      PROVE  Kept(r)
  <2>1. /\ InChatCall(r) /\ Answered(r, "refused")
        /\ Current(r) = Chain[idx[r]]
    BY <1>7 DEF ChatRefused, InChatCall, Current
  <2>2. /\ OthersSame(r) /\ pc'[r] = "walk" /\ "other" \in errors'[r]
        /\ UNCHANGED <<kind[r], idx[r], status[r]>>
    BY <1>7 DEF ChatRefused, Answered, OthersSame, Same, ReqTypeOK
  <2>3. rejected'[r] = rejected[r] \cup {Family[Chain[idx[r]]]}
    BY <1>7, <2>1 DEF ChatRefused, RejectedBy, ReqTypeOK
  <2> QED  BY <2>1, <2>2, <2>3, AnswerIsWalked DEF Answers, Passable
<1>8. ASSUME NEW r \in Requests, NEW a \in {"outage", "other"}, ChatFails(r, a)
      PROVE  Kept(r)
  <2>1. InChatCall(r) /\ Answered(r, a)
    BY <1>8 DEF ChatFails
  <2>2. /\ OthersSame(r) /\ "other" \in errors'[r]
        /\ UNCHANGED <<kind[r], idx[r], rejected[r]>>
    BY <1>8 DEF ChatFails, Answered, End, OthersSame, Same, ReqTypeOK
  <2>3. \/ pc'[r] = "done" /\ status'[r] = "cut"
        \/ pc'[r] = "walk" /\ UNCHANGED status[r]
    BY <1>8 DEF ChatFails, End, ReqTypeOK
  <2> QED  BY <2>1, <2>2, <2>3, AnswerIsWalked DEF Answers, Passable
<1>9. ASSUME NEW r \in Requests, Cancel(r)
      PROVE  Kept(r)
  <2>1. /\ OthersSame(r) /\ pc'[r] = "done" /\ status'[r] = "cancelled"
        /\ UNCHANGED <<kind[r], idx[r], rejected[r]>>
        /\ pc[r] \in {"walk", "call", "tokens", "held"}
    BY <1>9 DEF Cancel, Answered, End, OthersSame, Same, ReqTypeOK
  <2>2. CASE kind[r] = "metered"
    BY <2>1, <2>2 DEF Walked, Untried
  <2>3. CASE InChatCall(r)
    <3>1. Answered(r, "unreported")
      BY <1>9, <2>3 DEF Cancel, InChatCall
    <3> QED  BY <2>1, <2>3, <3>1, AnswerIsWalked DEF Answers
  <2>4. CASE kind[r] # "metered" /\ pc[r] = "walk"
    <3>1. UNCHANGED answers[r]
      BY <1>9, <2>4 DEF Cancel
    <3> QED  BY <2>1, <2>4, <3>1 DEF Walked, Trail, Untried, Called
  <2> QED  BY <2>1, <2>2, <2>3, <2>4 DEF InChatCall, Places
<1>10. ASSUME NEW r \in Requests, Walk(r)
       PROVE  Kept(r)
  BY <1>10, WalkToCallIsWalked, WalkToEndIsWalked DEF Walk
<1>11. ASSUME NEW r \in Requests, Kept(r)
       PROVE  \A q \in Requests : Walked(q)'
  BY <1>11, SameStaysWalked DEF OthersSame
<1> HIDE DEF Kept
<1>12. UNCHANGED vars \/ Poll \/ Elapse \/ \E r \in Requests : Kept(r)
  BY <1>2, <1>3, <1>4, <1>5, <1>6, <1>7, <1>8, <1>9, <1>10 DEF Next, CallEnds
<1> QED  BY <1>1, <1>11, <1>12

\* The inductive invariant of the two promises to a caller.
LEMMA WalkedInvariant == Spec => []TInv
<1>1. Init => TInv
  <2> SUFFICES ASSUME Init, NEW r \in Requests PROVE Walked(r)
    BY InitIInv DEF TInv
  <2>1. answers[r] = NoAnswers /\ pc[r] = "idle" /\ status[r] = "none"
    BY DEF Init
  <2>2. \A i \in 1..Len(Chain) : answers[r][Chain[i]] = "none"
    BY <2>1, ChainAssumption DEF NoAnswers
  <2> QED  BY <2>1, <2>2 DEF Walked, Trail, Untried, Called
<1>2. TInv /\ [Next]_vars => TInv'
  <2> SUFFICES ASSUME TInv, [Next]_vars PROVE TInv'
    OBVIOUS
  <2>1. ReqTypeOK /\ Places
    BY TypeOKParts DEF TInv, IInv
  <2> QED  BY <2>1, NextIInv, StepKeepsWalked DEF TInv
<1> QED  BY <1>1, <1>2, PTL DEF Spec

\* A 503 says that no provider was called for the request.
THEOREM UnavailableIsUntried == Spec => []UnavailableMeansUntried
<1>1. TInv => UnavailableMeansUntried
  BY DEF TInv, Walked, Untried, UnavailableMeansUntried
<1> QED  BY <1>1, WalkedInvariant, PTL

\* A chat request goes on to another candidate only after an answer that allows
\* it, and never to a sibling of a model that refused it.
THEOREM FallbackIsJustified == Spec => []FallbackJustified
<1>1. ASSUME TInv, NEW r \in Requests, kind[r] # "metered",
             NEW i \in 1..Len(Chain), NEW j \in 1..Len(Chain),
             i < j, Called(r, i), Called(r, j)
      PROVE  /\ answers[r][Chain[i]] \in {"outage", "refused", "other"}
             /\ answers[r][Chain[i]] = "refused" => Family[Chain[i]] # Family[Chain[j]]
  <2>1. Trail(r) /\ idx[r] \in Nat
    BY <1>1 DEF TInv, Walked, IInv, TypeOK
  <2>2. j <= idx[r]
    BY <1>1, <2>1, ChainAssumption DEF Trail, Called
  <2>3. answers[r][Chain[i]] # "none" /\ i < idx[r]
    BY <1>1, <2>1, <2>2, ChainAssumption DEF Called
  <2> QED  BY <1>1, <2>1, <2>3 DEF Trail, Passable
<1>2. TInv => FallbackJustified
  BY <1>1 DEF FallbackJustified
<1> QED  BY <1>2, WalkedInvariant, PTL

=============================================================================
