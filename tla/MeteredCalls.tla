---------------------------- MODULE MeteredCalls ----------------------------
(***************************************************************************)
(* The metered paths of the AI gateway (main.py: _metered_call and         *)
(* _metered_unary): a call reserves its estimate against its ceilings,     *)
(* looks at the token budget, has its prompt scanned, reaches the model,   *)
(* is metered once whatever becomes of it, and hands over a checked reply. *)
(*                                                                         *)
(* Calls interleave at their awaits: the scan, the request, the reply's    *)
(* events, its checks and the closing of the upstream.  Any of them may be *)
(* cancelled there (the client is gone).  All calls have one budget class, *)
(* user, group and window length.  Which provider serves the call, and the *)
(* breaker, are GatewayCalls' subject.                                     *)
(***************************************************************************)
EXTENDS StreamGuard, KeyCeilings, FiniteSets, Functions

CONSTANTS
  Calls,
  Streaming,     \* the calls whose body asks for a stream
  Blocking,      \* the calls whose classification is guarded in block mode
  FailClosed,    \* the calls whose level fails closed without a detector
  Exempt,        \* the calls no ceiling applies to
  InProject,     \* the calls with a verified project
  PersonaOf, LimitsOf,
  Estimates,     \* the estimates of a call (prompt and requested output)
  Usages,        \* what a call may turn out to have used
  Budget,        \* the token budget of the group, the project and the user
  EventSizes,    \* characters of text in an event of a stream
  MaxReply,      \* bound: characters of a reply
  MaxHeld        \* bound: events a guard holds

ASSUME CallsAssumption ==
  /\ IsFiniteSet(Calls)
  /\ Streaming \cup Blocking \cup FailClosed \cup Exempt \cup InProject \subseteq Calls
  /\ PersonaOf \in [Calls -> Personas]
  /\ LimitsOf \in [Calls -> SUBSET Limits]
  /\ Estimates \cup Usages \cup EventSizes \subseteq Nat
  /\ \E e \in Estimates : \A f \in Estimates : f <= e
  /\ Budget \in [{"group", "project", "user"} -> Nat]

Phases == {"idle", "scanning", "sending", "judging", "streaming", "checking",
           "closing", "tail", "done"}

VARIABLES
  phase,       \* where each call awaits
  hold,        \* its reservation
  used,        \* the tokens it was metered for; -1 until then
  guard,       \* the guard of its reply
  whole,       \* the upstream ended its reply, and did not break
  ledger,      \* the token-budget ledger, per dimension and window
  now          \* the current window

ceilings == <<consumed, reserved, streams>>
vars == <<ceilings, phase, hold, used, guard, whole, ledger, now>>

Unheld(c) == [persona |-> PersonaOf[c], limits |-> {}, bucket |-> now, tokens |-> 0,
              stream |-> FALSE, settled |-> TRUE]

TypeOK ==
  /\ consumed \in Counters
  /\ reserved \in Counters
  /\ streams \in [Personas -> Nat]
  /\ phase \in [Calls -> Phases]
  /\ hold \in [Calls -> Reservations]
  /\ used \in [Calls -> Usages \cup {-1}]
  /\ guard \in [Calls -> Guards]
  /\ whole \in [Calls -> BOOLEAN]
  /\ ledger \in [{"group", "project", "user"} \X Windows -> Nat]
  /\ now \in Windows

Init ==
  /\ CeilingsInit
  /\ now = 0
  /\ phase = [c \in Calls |-> "idle"]
  /\ hold = [c \in Calls |-> Unheld(c)]
  /\ used = [c \in Calls |-> -1]
  /\ guard = [c \in Calls |-> NewGuard]
  /\ whole = [c \in Calls |-> FALSE]
  /\ ledger = [k \in {"group", "project", "user"} \X Windows |-> 0]

-----------------------------------------------------------------------------
(***************************************************************************)
(* The token budget (quota.py).  The group's is the outer ceiling; a       *)
(* project is charged until its budget is gone, then the user is.          *)
(***************************************************************************)
Exhausted(dim) == ledger[dim, now] >= Budget[dim]

BudgetDenied(c) ==
  \/ Exhausted("group")
  \/ (c \in InProject => Exhausted("project")) /\ Exhausted("user")

Payer(c) == IF c \in InProject /\ ~Exhausted("project") THEN "project" ELSE "user"

\* A ledger that charges every account the call may draw on.
ChargedAll(c) == {"group", "user"} \cup (IF c \in InProject THEN {"project"} ELSE {})

Charged(c) == {"group", Payer(c)}

Consume(c, tokens) ==
  ledger' = [k \in DOMAIN ledger |->
               IF k[2] = now /\ k[1] \in Charged(c) THEN ledger[k] + tokens ELSE ledger[k]]

-----------------------------------------------------------------------------
(***************************************************************************)
(* The ceiling and the budget are looked at without an await between.  A   *)
(* call the budget refuses gives its reservation back, which is as if it   *)
(* had never been made.                                                    *)
(***************************************************************************)
\* An exempt call's reservation is empty and settled from the start.
Wanted(c, estimate) ==
  [persona |-> PersonaOf[c], limits |-> IF c \in Exempt THEN {} ELSE LimitsOf[c],
   bucket |-> now, tokens |-> estimate, stream |-> c \in Streaming \ Exempt,
   settled |-> c \in Exempt]

AfterAdmission(c) == IF c \in Blocking THEN "scanning" ELSE "sending"

Admit(c, estimate) ==
  /\ phase[c] = "idle"
  /\ LET r == Wanted(c, estimate)
     IN  /\ ~Denied(r) /\ ~BudgetDenied(c)
         /\ phase' = [phase EXCEPT ![c] = AfterAdmission(c)]
         /\ hold' = [hold EXCEPT ![c] = r]
         /\ Reserve(r)
  /\ UNCHANGED <<used, guard, whole, ledger, now>>

Refuse(c, estimate) ==
  /\ phase[c] = "idle"
  /\ Denied(Wanted(c, estimate)) \/ BudgetDenied(c)
  /\ phase' = [phase EXCEPT ![c] = "done"]
  /\ UNCHANGED <<ceilings, hold, used, guard, whole, ledger, now>>

\* refuse() and the handler's except: nothing was used.
GiveUp(c) ==
  /\ phase' = [phase EXCEPT ![c] = "done"]
  /\ hold' = [hold EXCEPT ![c].settled = TRUE]
  /\ Settle(hold[c], 0)
  /\ UNCHANGED <<used, guard, whole, ledger, now>>

PromptPasses(c) ==
  /\ phase[c] = "scanning"
  /\ phase' = [phase EXCEPT ![c] = "sending"]
  /\ UNCHANGED <<ceilings, hold, used, guard, whole, ledger, now>>

PromptRefused(c) == phase[c] = "scanning" /\ GiveUp(c)

\* The model is unreachable or does not answer 200.
SendFails(c) == phase[c] = "sending" /\ GiveUp(c)

(***************************************************************************)
(* _meter: the ledger of the current window, and the reservation settled   *)
(* in the window it was made in.                                           *)
(***************************************************************************)
Meter(c, tokens) ==
  /\ used' = [used EXCEPT ![c] = tokens]
  /\ hold' = [hold EXCEPT ![c].settled = TRUE]
  /\ Settle(hold[c], tokens)
  /\ Consume(c, tokens)

UnaryAnswer(c, tokens) ==
  /\ phase[c] = "sending" /\ c \notin Streaming
  /\ Meter(c, tokens)
  /\ phase' = [phase EXCEPT ![c] = IF c \in Blocking THEN "judging" ELSE "done"]
  /\ UNCHANGED <<guard, whole, now>>

\* The reply is handed over, or refused for what it says.
Judged(c) ==
  /\ phase[c] = "judging"
  /\ phase' = [phase EXCEPT ![c] = "done"]
  /\ UNCHANGED <<ceilings, hold, used, guard, whole, ledger, now>>

(***************************************************************************)
(* The client is gone before the reply, or while it is judged.             *)
(***************************************************************************)
Cancelled(c) == phase[c] \in {"scanning", "sending", "judging"} /\ GiveUp(c)

-----------------------------------------------------------------------------
(***************************************************************************)
(* A stream.  Outside block mode its events pass as they come and no guard *)
(* is built.                                                               *)
(***************************************************************************)
StreamOpens(c) ==
  /\ phase[c] = "sending" /\ c \in Streaming
  /\ phase' = [phase EXCEPT ![c] = "streaming"]
  /\ UNCHANGED <<ceilings, hold, used, guard, whole, ledger, now>>

Event(c, k) ==
  /\ phase[c] = "streaming" /\ c \in Blocking
  /\ guard[c].reply + k <= MaxReply
  /\ Len(guard[c].held) < MaxHeld
  /\ \E m \in MatchesIn(guard[c], k) :
       LET g == Received(guard[c], k, m)
       IN  IF CheckDue(g)
           THEN /\ guard' = [guard EXCEPT ![c] = g]
                /\ phase' = [phase EXCEPT ![c] = "checking"]
           ELSE /\ \E n \in Passing(g) : guard' = [guard EXCEPT ![c] = Released(g, n)]
                /\ UNCHANGED phase
  /\ UNCHANGED <<ceilings, hold, used, whole, ledger, now>>

\* What becomes of a check: the detector answers, or cannot and the level lets it through.
Passes(c, seen) == IF seen THEN ~Detected(guard[c]) ELSE c \notin FailClosed

SegmentPasses(c, seen) ==
  /\ phase[c] = "checking" /\ Passes(c, seen)
  /\ LET g == Checked(guard[c], seen)
     IN  \E n \in Passing(g) : guard' = [guard EXCEPT ![c] = Released(g, n)]
  /\ phase' = [phase EXCEPT ![c] = "streaming"]
  /\ UNCHANGED <<ceilings, hold, used, whole, ledger, now>>

SegmentCut(c) ==
  /\ phase[c] = "checking" /\ \E seen \in BOOLEAN : ~Passes(c, seen)
  /\ phase' = [phase EXCEPT ![c] = "closing"]
  /\ UNCHANGED <<ceilings, hold, used, guard, whole, ledger, now>>

\* The upstream's last event: it is closed before the tail is looked at.
StreamEnds(c) ==
  /\ phase[c] = "streaming"
  /\ phase' = [phase EXCEPT ![c] = "closing"]
  /\ whole' = [whole EXCEPT ![c] = TRUE]
  /\ UNCHANGED <<ceilings, hold, used, guard, ledger, now>>

\* A plain streaming response, whose body nobody closes when it breaks.
StreamBreaksUnseen(c) ==
  /\ phase[c] \in {"streaming", "checking"}
  /\ phase' = [phase EXCEPT ![c] = "done"]
  /\ UNCHANGED <<ceilings, hold, used, guard, whole, ledger, now>>

\* The upstream breaks, or the client is gone: nothing more goes out.
StreamBreaks(c) ==
  /\ phase[c] \in {"streaming", "checking"}
  /\ phase' = [phase EXCEPT ![c] = "closing"]
  /\ UNCHANGED <<ceilings, hold, used, guard, whole, ledger, now>>

(***************************************************************************)
(* finish(): the upstream is closed and the call metered, whatever ended   *)
(* it and even if the closing is itself cancelled.                         *)
(***************************************************************************)
Finish(c, tokens) ==
  /\ phase[c] = "closing"
  /\ Meter(c, tokens)
  /\ phase' = [phase EXCEPT ![c] =
                 IF whole[c] /\ c \in Blocking THEN "tail" ELSE "done"]
  /\ UNCHANGED <<guard, whole, now>>

TailUnchecked(c) == guard[c].reply > guard[c].checked

TailPasses(c, seen) ==
  /\ phase[c] = "tail"
  /\ IF TailUnchecked(c) THEN Passes(c, seen) ELSE seen
  /\ guard' = [guard EXCEPT ![c] = ReleasedAll(Checked(@, seen))]
  /\ phase' = [phase EXCEPT ![c] = "done"]
  /\ UNCHANGED <<ceilings, hold, used, whole, ledger, now>>

\* Cut by the check, or the client is gone.
TailDropped(c) ==
  /\ phase[c] = "tail"
  /\ phase' = [phase EXCEPT ![c] = "done"]
  /\ UNCHANGED <<ceilings, hold, used, guard, whole, ledger, now>>

NextWindow ==
  /\ now + 1 \in Windows
  /\ now' = now + 1
  /\ UNCHANGED <<ceilings, phase, hold, used, guard, whole, ledger>>

CallStep(c) ==
  \/ PromptPasses(c) \/ PromptRefused(c)
  \/ SendFails(c) \/ \E tokens \in Usages : UnaryAnswer(c, tokens)
  \/ Judged(c) \/ Cancelled(c) \/ StreamOpens(c)
  \/ \E seen \in BOOLEAN : SegmentPasses(c, seen)
  \/ SegmentCut(c) \/ StreamEnds(c) \/ StreamBreaks(c)
  \/ \E tokens \in Usages : Finish(c, tokens)
  \/ \E seen \in BOOLEAN : TailPasses(c, seen)
  \/ TailDropped(c)

Next ==
  \/ \E c \in Calls : \/ \E estimate \in Estimates : Admit(c, estimate) \/ Refuse(c, estimate)
                      \/ \E k \in EventSizes : Event(c, k)
                      \/ CallStep(c)
  \/ NextWindow

Spec == Init /\ [][Next]_vars

-----------------------------------------------------------------------------
InFlight(k) == {c \in Calls : ~hold[c].settled /\ k \in Keys(hold[c])}

OpenStreams(p) == {c \in Calls : ~hold[c].settled /\ hold[c].stream /\ PersonaOf[c] = p}

Metered == {c \in Calls : used[c] >= 0}
MeteredOn(k) == {c \in Metered : k \in Keys(hold[c])}

TokensHeld == [c \in Calls |-> hold[c].tokens]

(***************************************************************************)
(* What is reserved is what the calls in flight hold, and the streams      *)
(* counted are the streams open: no refusal, cancellation, cut or break    *)
(* leaks a reservation or gives back another call's (admit, settle).       *)
(***************************************************************************)
ReservedIsInFlight ==
  /\ \A k \in DOMAIN reserved : reserved[k] = SumFunctionOnSet(TokensHeld, InFlight(k))
  /\ \A p \in Personas : streams[p] = Cardinality(OpenStreams(p))

(***************************************************************************)
(* A ceiling is overrun by at most one call's estimate, plus what calls    *)
(* used beyond their own estimates (admit).                                *)
(***************************************************************************)
Beyond == [c \in Calls |-> Less(used[c], hold[c].tokens)]
LargestEstimate == CHOOSE e \in Estimates : \A f \in Estimates : f <= e

OverrunBounded ==
  \A k \in DOMAIN consumed :
    consumed[k] + reserved[k]
      <= Ceiling[k[1]] - 1 + LargestEstimate
           + SumFunctionOnSet(Beyond, MeteredOn(k))

(***************************************************************************)
(* Usage is counted once: the ceilings of a call and the group's budget    *)
(* count what it was metered for, and the project or the user pays it,     *)
(* never both (settle, consume, finish).                                   *)
(***************************************************************************)
LedgerOf(dim) == [w \in Windows |-> ledger[<<dim, w>>]]
LedgerTotal(dim) == SumFunctionOnSet(LedgerOf(dim), Windows)

CountedOnce ==
  /\ \A k \in DOMAIN consumed : consumed[k] = SumFunctionOnSet(used, MeteredOn(k))
  /\ LedgerTotal("group") = SumFunctionOnSet(used, Metered)
  /\ LedgerTotal("project") + LedgerTotal("user") = LedgerTotal("group")

(***************************************************************************)
(* In block mode no part of what the detector reports reaches the caller,  *)
(* even when it straddles segments, unless a check found no detector and   *)
(* the level lets that pass (stream_guard.guard).                          *)
(***************************************************************************)
NoPartOfAMatchSent ==
  \A c \in Blocking : ~guard[c].blind \/ c \in FailClosed => Unsent(guard[c])

(***************************************************************************)
(* A call that is over holds nothing, and a reply of which text was sent   *)
(* was metered: a persona's streams cannot be used up by clients that went *)
(* away, nor a reply be had for nothing by leaving it early                *)
(* (_MeteredStreamingResponse, finish).                                    *)
(***************************************************************************)
OverMeansSettled ==
  \A c \in Calls : phase[c] = "done" =>
    /\ hold[c].settled
    /\ guard[c].reply > 0 => used[c] >= 0

=============================================================================
