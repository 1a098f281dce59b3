--------------------------- MODULE DelegatedTurns ---------------------------
(***************************************************************************)
(* One agent endpoint of the a2a-gateway: turns of a conversation between  *)
(* a caller, the model and the tools, stopped at a write that needs the    *)
(* caller's approval and resumed by the answer                             *)
(* (a2a-gateway/app/executor.py, approvals.py).                            *)
(*                                                                         *)
(* The endpoint is one asyncio loop: a turn runs alone from one await to   *)
(* the next, so every message, listing, model and tool call is a step of   *)
(* its own.  A task's messages may arrive while a turn of it still runs.   *)
(* Only the task state is the SDK's: it refuses a message, or a cancel, of *)
(* a task that has reached a final state.                                  *)
(***************************************************************************)
EXTENDS Integers, Sequences, FiniteSets

CONSTANTS Tasks, Callers,
          Requests,    \* the request ids a run may draw: uuid4 never repeats
          Turns,       \* turns running at once
          Timeout,     \* APPROVAL_TIMEOUT_SECONDS, in ticks of the clock
          MaxPending,  \* MAX_PENDING
          MaxRounds,   \* max_tool_rounds
          Batches,     \* the tool calls a reply of the model may carry
          PolicyEdits, \* what an edit of the policy file may set `policy` to
          None, Nobody

ASSUME BoundsAssumption == /\ Timeout \in Nat /\ MaxRounds \in Nat
                           /\ MaxPending \in Nat \ {0}
ASSUME InputsAssumption == /\ PolicyEdits \subseteq BOOLEAN
                           /\ Batches \subseteq Seq({"read", "write", "unlisted"})
ASSUME NoneAssumption == None \notin Requests \cup Tasks /\ Nobody \notin Callers

VARIABLES taskState,  \* the A2A task state
          store,      \* PendingStore._pending: the request pending on a task
          issued,     \* the request ids drawn so far
          owner,      \* caller_sub of a PendingApproval
          todo,       \* its backlog
          left,       \* its rounds_left
          age,        \* ticks it has been pending, up to Timeout + 1
          policy,     \* write_allowed names this target, in the policy file
          limits,     \* the same, as loaded by DelegationLimits
          pc,         \* idle | list | answer | loop | llm | read | write | final
          on, caller, \* the task and the caller of a turn
          resumed,    \* the request it was resumed with, until acted upon
          decision,   \* approve | reject
          offered,    \* the tools it may be offered, then those it was offered
          backlog, rounds,
          answeredBy, \* whose answer to a request was accepted (history)
          runs,       \* how often an approved write was sent (history)
          asks,       \* model calls with tools of the conversation (history)
          askedSoFar, \* the same, at a request (history)
          shown,      \* the last request a task showed its caller (history)
          evicted     \* requests dropped by a full store (history)

storeVars == <<store, issued, owner, todo, left, age>>
turnVars == <<pc, on, caller, resumed, decision, offered, backlog, rounds>>
history == <<answeredBy, runs, askedSoFar, shown, evicted>>
vars == <<taskState, storeVars, policy, limits, turnVars, history, asks>>

Tools == {"read", "write"}
Final == {"completed", "failed", "canceled"}

TypeOK ==
  /\ taskState \in [Tasks -> {"none", "working", "input"} \cup Final]
  /\ store \in [Tasks -> Requests \cup {None}]
  /\ issued \in SUBSET Requests
  /\ owner \in [Requests -> Callers \cup {Nobody}]
  /\ todo \in [Requests -> Seq({"read", "write", "unlisted"})]
  /\ left \in [Requests -> 0..(MaxRounds + 1)]
  /\ age \in [Requests -> 0..(Timeout + 1)]
  /\ policy \in BOOLEAN /\ limits \in BOOLEAN
  /\ pc \in [Turns -> {"idle", "list", "answer", "loop", "llm", "read", "write", "final"}]
  /\ on \in [Turns -> Tasks \cup {None}]
  /\ caller \in [Turns -> Callers \cup {Nobody}]
  /\ resumed \in [Turns -> Requests \cup {None}]
  /\ decision \in [Turns -> {"approve", "reject"}]
  /\ offered \in [Turns -> SUBSET Tools]
  /\ backlog \in [Turns -> Seq({"read", "write", "unlisted"})]
  /\ rounds \in [Turns -> 0..(MaxRounds + 1)]
  /\ answeredBy \in [Requests -> Callers \cup {Nobody}]
  /\ runs \in [Requests -> Nat]
  /\ asks \in [Turns -> Nat] /\ askedSoFar \in [Requests -> Nat]
  /\ shown \in [Tasks -> Requests \cup {None}]
  /\ evicted \in SUBSET Requests

Init ==
  /\ taskState = [t \in Tasks |-> "none"]
  /\ store = [t \in Tasks |-> None]
  /\ issued = {}
  /\ owner = [q \in Requests |-> Nobody]
  /\ todo = [q \in Requests |-> <<>>]
  /\ left = [q \in Requests |-> 0]
  /\ age = [q \in Requests |-> 0]
  /\ policy \in BOOLEAN /\ limits = policy
  /\ pc = [x \in Turns |-> "idle"]
  /\ on = [x \in Turns |-> None]
  /\ caller = [x \in Turns |-> Nobody]
  /\ resumed = [x \in Turns |-> None]
  /\ decision = [x \in Turns |-> "reject"]
  /\ offered = [x \in Turns |-> {}]
  /\ backlog = [x \in Turns |-> <<>>]
  /\ rounds = [x \in Turns |-> 0]
  /\ answeredBy = [q \in Requests |-> Nobody]
  /\ runs = [q \in Requests |-> 0]
  /\ asks = [x \in Turns |-> 0] /\ askedSoFar = [q \in Requests |-> 0]
  /\ shown = [t \in Tasks |-> None]
  /\ evicted = {}

-----------------------------------------------------------------------------
\* PendingStore: what _sweep leaves, what is pending, the oldest of it.
Expired(q) == age[q] > Timeout
Swept == [t \in Tasks |-> IF store[t] # None /\ Expired(store[t]) THEN None ELSE store[t]]
PendingIn(s) == {t \in Tasks : s[t] # None}
Oldest(s) == {t \in PendingIn(s) : \A u \in PendingIn(s) : age[s[u]] <= age[s[t]]}

\* MAX_PENDING requests, none of them of this task.
Full(s, t) == Cardinality(PendingIn(s)) >= MaxPending /\ s[t] = None

\* Mutant of Put: what is pending on the task stays.
PutFirstOnly(t, q) ==
  /\ store' = [Swept EXCEPT ![t] = IF Swept[t] = None THEN q ELSE @]
  /\ UNCHANGED evicted

\* put: sweep, make room, then the request of this turn.
Put(t, q) ==
  \/ /\ ~Full(Swept, t)
     /\ store' = [Swept EXCEPT ![t] = q]
     /\ UNCHANGED evicted
  \/ /\ Full(Swept, t)
     /\ \E u \in Oldest(Swept) :
          /\ store' = [Swept EXCEPT ![u] = None, ![t] = q]
          /\ evicted' = evicted \cup {Swept[u]}

\* Mutant of Taken: what was taken stays pending.
StillPending(t) == Swept
Taken(t) == [Swept EXCEPT ![t] = None]

\* Mutant of Takes: any caller's answer will do.
TakesFromAnyone(t, c, q) == Swept[t] = q
\* take: the request of this task, still in time, asked of this very caller.
Takes(t, c, q) == Swept[t] = q /\ owner[q] = c

-----------------------------------------------------------------------------
\* The SDK's side: a final state takes no further message, and an update that
\* reaches a task already final may or may not be recorded.
Open(t) == taskState[t] \notin Final
Becomes(t, s) == \/ taskState' = [taskState EXCEPT ![t] = s]
                 \/ ~Open(t) /\ UNCHANGED taskState

\* The locals of the turns in S are gone.
EndTurns(S) ==
  /\ pc' = [x \in Turns |-> IF x \in S THEN "idle" ELSE pc[x]]
  /\ on' = [x \in Turns |-> IF x \in S THEN None ELSE on[x]]
  /\ caller' = [x \in Turns |-> IF x \in S THEN Nobody ELSE caller[x]]
  /\ resumed' = [x \in Turns |-> IF x \in S THEN None ELSE resumed[x]]
  /\ decision' = [x \in Turns |-> IF x \in S THEN "reject" ELSE decision[x]]
  /\ offered' = [x \in Turns |-> IF x \in S THEN {} ELSE offered[x]]
  /\ backlog' = [x \in Turns |-> IF x \in S THEN <<>> ELSE backlog[x]]
  /\ rounds' = [x \in Turns |-> IF x \in S THEN 0 ELSE rounds[x]]
  /\ asks' = [x \in Turns |-> IF x \in S THEN 0 ELSE asks[x]]

BeginTurn(x, t, c, q, d, allowed, calls, budget, asked) ==
  /\ pc[x] = "idle"
  /\ pc' = [pc EXCEPT ![x] = "list"]
  /\ on' = [on EXCEPT ![x] = t]
  /\ caller' = [caller EXCEPT ![x] = c]
  /\ resumed' = [resumed EXCEPT ![x] = q]
  /\ decision' = [decision EXCEPT ![x] = d]
  /\ offered' = [offered EXCEPT ![x] = IF allowed THEN Tools ELSE {"read"}]
  /\ backlog' = [backlog EXCEPT ![x] = calls]
  /\ rounds' = [rounds EXCEPT ![x] = budget]
  /\ asks' = [asks EXCEPT ![x] = asked]

\* execute with a plain message: it drops what was pending on the task; _answer
\* then starts a turn, with writes if the call is a delegated one.
Drop(t) == store' = [store EXCEPT ![t] = None]

FreshTurn(x, t, c, delegated) ==
  /\ Open(t)
  /\ Drop(t)
  /\ taskState' = [taskState EXCEPT ![t] = "working"]
  /\ BeginTurn(x, t, c, None, "reject", delegated /\ limits, <<>>, MaxRounds + 1, 0)
  /\ UNCHANGED <<issued, owner, todo, left, age, policy, limits, history>>

\* The same, refused by _answer: no text, an unknown task, a bad chain.
FreshRefused(t) ==
  /\ Open(t)
  /\ Drop(t)
  /\ taskState' = [taskState EXCEPT ![t] = "failed"]
  /\ UNCHANGED <<issued, owner, todo, left, age, policy, limits, turnVars, history, asks>>

\* execute with an answer, on a task that exists: _resume.  A decision that is
\* not supported counts as a rejection.
IsAnswerable(t) == Open(t) /\ taskState[t] # "none"

\* Mutant of RoundsKept: every approval buys a new budget.
RoundsRenewed(q) == MaxRounds + 1
RoundsKept(q) == left[q]

Resume(x, t, c, q, d) ==
  /\ IsAnswerable(t) /\ q \in issued
  /\ Takes(t, c, q)
  /\ store' = Taken(t)
  /\ answeredBy' = [answeredBy EXCEPT ![q] = c]
  /\ taskState' = [taskState EXCEPT ![t] = "working"]
  /\ BeginTurn(x, t, c, q, d, limits, todo[q], RoundsKept(q), askedSoFar[q])
  /\ UNCHANGED <<issued, owner, todo, left, age, policy, limits, runs, askedSoFar, shown, evicted>>

ResumeRefused(t, c, q) ==
  /\ IsAnswerable(t) /\ q \in issued
  /\ ~Takes(t, c, q)
  /\ store' = Swept
  /\ taskState' = [taskState EXCEPT ![t] = "failed"]
  /\ UNCHANGED <<issued, owner, todo, left, age, policy, limits, turnVars, history, asks>>

-----------------------------------------------------------------------------
\* Every step of a turn leaves the store alone, but for the one that asks.
Goto(x, l) == pc' = [pc EXCEPT ![x] = l]
InTurnOnly == UNCHANGED <<taskState, storeVars, policy, limits, on, caller, decision, history>>

\* _available_tools: what the tool gateway lists for this caller, or nothing
\* when the listing fails.
Listed(x, names) ==
  /\ pc[x] = "list"
  /\ offered' = [offered EXCEPT ![x] = @ \cap names]
  /\ Goto(x, IF resumed[x] = None THEN "loop" ELSE "answer")
  /\ UNCHANGED <<resumed, backlog, rounds, asks>> /\ InTurnOnly

MayRun(x) == decision[x] = "approve" /\ Head(backlog[x]) \in offered[x]

\* The write the caller was asked about is sent to the tool gateway.
RunApproved(x) ==
  /\ pc[x] = "answer" /\ MayRun(x)
  /\ Goto(x, "write")
  /\ resumed' = [resumed EXCEPT ![x] = None]
  /\ runs' = [runs EXCEPT ![resumed[x]] = @ + 1]
  /\ UNCHANGED <<taskState, storeVars, policy, limits, on, caller, decision, offered, backlog,
                 rounds, asks, answeredBy, askedSoFar, shown, evicted>>

\* The model is told "The user declined it".
ReportDeclined(x) ==
  /\ pc[x] = "answer" /\ ~MayRun(x)
  /\ Goto(x, "loop")
  /\ resumed' = [resumed EXCEPT ![x] = None]
  /\ backlog' = [backlog EXCEPT ![x] = Tail(@)]
  /\ UNCHANGED <<offered, rounds, asks>> /\ InTurnOnly

\* A tool call returns and its result joins the conversation.
ToolReturns(x) ==
  /\ pc[x] \in {"read", "write"}
  /\ Goto(x, "loop")
  /\ backlog' = [backlog EXCEPT ![x] = Tail(@)]
  /\ UNCHANGED <<resumed, offered, rounds, asks>> /\ InTurnOnly

\* The loop on the next call of the last reply: one that was not offered, a
\* read, or a write, which stops the turn.
AtCall(x, name) == pc[x] = "loop" /\ backlog[x] # <<>> /\ Head(backlog[x]) = name

SkipUnoffered(x) ==
  /\ \E name \in Tools \cup {"unlisted"} : AtCall(x, name) /\ name \notin offered[x]
  /\ backlog' = [backlog EXCEPT ![x] = Tail(@)]
  /\ UNCHANGED <<pc, resumed, offered, rounds, asks>> /\ InTurnOnly

CallRead(x) ==
  /\ AtCall(x, "read") /\ "read" \in offered[x]
  /\ Goto(x, "read")
  /\ UNCHANGED <<resumed, offered, backlog, rounds, asks>> /\ InTurnOnly

RequestApproval(x, q) ==
  /\ AtCall(x, "write") /\ "write" \in offered[x]
  /\ q \notin issued
  /\ issued' = issued \cup {q}
  /\ owner' = [owner EXCEPT ![q] = caller[x]]
  /\ todo' = [todo EXCEPT ![q] = backlog[x]]
  /\ left' = [left EXCEPT ![q] = rounds[x]]
  /\ age' = [age EXCEPT ![q] = 0]
  /\ askedSoFar' = [askedSoFar EXCEPT ![q] = asks[x]]
  /\ Put(on[x], q)
  /\ \/ taskState' = [taskState EXCEPT ![on[x]] = "input"] /\ shown' = [shown EXCEPT ![on[x]] = q]
     \/ ~Open(on[x]) /\ UNCHANGED <<taskState, shown>>
  /\ EndTurns({x})
  /\ UNCHANGED <<policy, limits, answeredBy, runs>>

\* With no call left: the model with its tools while rounds are left, then once
\* more without.
AskModel(x) ==
  /\ pc[x] = "loop" /\ backlog[x] = <<>> /\ rounds[x] > 0
  /\ Goto(x, "llm")
  /\ asks' = [asks EXCEPT ![x] = @ + 1]
  /\ UNCHANGED <<resumed, offered, backlog, rounds>> /\ InTurnOnly

\* Mutant of AskFinal: one more round is awaited.
AskFinalTooLate(x) ==
  /\ pc[x] = "loop" /\ backlog[x] = <<>> /\ rounds[x] + 1 = 0
  /\ Goto(x, "final")
  /\ UNCHANGED <<resumed, offered, backlog, rounds, asks>> /\ InTurnOnly
AskFinal(x) ==
  /\ pc[x] = "loop" /\ backlog[x] = <<>> /\ rounds[x] = 0
  /\ Goto(x, "final")
  /\ UNCHANGED <<resumed, offered, backlog, rounds, asks>> /\ InTurnOnly

Spent(x) == rounds[x] - 1

ReplyWithCalls(x, calls) ==
  /\ pc[x] = "llm"
  /\ calls # <<>> /\ offered[x] # {}
  /\ Goto(x, "loop")
  /\ backlog' = [backlog EXCEPT ![x] = calls]
  /\ rounds' = [rounds EXCEPT ![x] = Spent(x)]
  /\ UNCHANGED <<resumed, offered, asks>> /\ InTurnOnly

\* The end of a turn: an answer, or any exception of a model or tool call.
TurnEnds(x, s) ==
  /\ \/ pc[x] \in {"llm", "final"} /\ s = "completed"
     \/ pc[x] \in {"llm", "final", "read", "write"} /\ s = "failed"
  /\ Becomes(on[x], s)
  /\ EndTurns({x})
  /\ UNCHANGED <<storeVars, policy, limits, history>>

-----------------------------------------------------------------------------
\* tasks/cancel: cancel() only records the state; the SDK may also cancel the
\* turns it still runs for the task, at their await.
Cancel(t) ==
  /\ taskState[t] \in {"working", "input"}
  /\ taskState' = [taskState EXCEPT ![t] = "canceled"]
  /\ \E S \in SUBSET {x \in Turns : on[x] = t} : EndTurns(S)
  /\ UNCHANGED <<storeVars, policy, limits, history>>

\* The process restarts: nothing pending survives, the tasks are unknown, and
\* the limits are read again.
Restart ==
  /\ EndTurns(Turns)
  /\ store' = [t \in Tasks |-> None]
  /\ taskState' = [t \in Tasks |-> "none"]
  /\ shown' = [t \in Tasks |-> None]
  /\ limits' = policy
  /\ UNCHANGED <<issued, owner, todo, left, age, policy, answeredBy, runs, askedSoFar, evicted>>

EditPolicy ==
  /\ policy' \in PolicyEdits
  /\ UNCHANGED <<taskState, storeVars, limits, turnVars, history, asks>>

Elapse ==
  /\ age' = [q \in Requests |-> IF (\E t \in Tasks : store[t] = q) /\ ~Expired(q)
                                THEN age[q] + 1 ELSE age[q]]
  /\ UNCHANGED <<taskState, store, issued, owner, todo, left, policy, limits, turnVars, history, asks>>

\* The steps of a turn that its own loop, the model or the tools take.
TurnStep(x) ==
  \/ \E names \in SUBSET Tools : Listed(x, names)
  \/ RunApproved(x) \/ ReportDeclined(x) \/ ToolReturns(x)
  \/ SkipUnoffered(x) \/ CallRead(x)
  \/ \E q \in Requests : RequestApproval(x, q)
  \/ AskModel(x) \/ AskFinal(x)
  \/ \E calls \in Batches : ReplyWithCalls(x, calls)
  \/ \E s \in {"completed", "failed"} : TurnEnds(x, s)

Next ==
  \/ \E t \in Tasks, c \in Callers :
       \/ \E x \in Turns :
            \/ \E delegated \in BOOLEAN : FreshTurn(x, t, c, delegated)
            \/ \E q \in Requests, d \in {"approve", "reject"} : Resume(x, t, c, q, d)
       \/ \E q \in Requests : ResumeRefused(t, c, q)
  \/ \E t \in Tasks : FreshRefused(t) \/ Cancel(t)
  \/ \E x \in Turns : TurnStep(x)
  \/ Restart \/ EditPolicy \/ Elapse

Spec == Init /\ [][Next]_vars

\* A turn runs when it is ready, and a model or tool call ends: its client has
\* a timeout.
FairSpec == Spec /\ \A x \in Turns : WF_vars(TurnStep(x))

-----------------------------------------------------------------------------
\* The endpoint keeps what a human approval promises (ADR-0409): at most one run
\* of a write, after a yes in time of the caller it was asked of.
Holds(x, q) == pc[x] \in {"list", "answer"} /\ resumed[x] = q
Pending(q) == \E t \in Tasks : store[t] = q
Approved(q) == \E x \in Turns : Holds(x, q) /\ decision[x] = "approve"
Phase(q) == IF q \notin issued THEN "unasked"
            ELSE IF runs[q] > 0 THEN "ran"
            ELSE IF Pending(q) THEN "open"
            ELSE IF Approved(q) THEN "approved" ELSE "void"
Contract == INSTANCE ApprovalContract WITH phase <- [q \in Requests |-> Phase(q)]
KeepsThePromise == Contract!Spec

\* Why it does: a request is in one place at a time, in the store or with the
\* turn it was taken by, and has not run while it is in either.
OnePlace ==
  /\ \A q \in Requests : q \notin issued => runs[q] = 0
  /\ \A t \in Tasks : store[t] # None => store[t] \in issued /\ runs[store[t]] = 0
  /\ \A t, u \in Tasks : store[t] = store[u] /\ store[t] # None => t = u
  /\ \A x \in Turns : resumed[x] # None =>
       /\ pc[x] \in {"list", "answer"} /\ resumed[x] \in issued /\ runs[resumed[x]] = 0
       /\ \A t \in Tasks : store[t] # resumed[x]
       /\ \A y \in Turns : resumed[y] = resumed[x] => x = y
  /\ \A x \in Turns :
       /\ pc[x] = "answer" => resumed[x] # None
       /\ pc[x] # "idle" => on[x] \in Tasks /\ caller[x] \in Callers

\* A task shows its caller a request as long as the answer can be taken: until
\* it expires, or a full store drops it, whatever the other turns do.
InputMeansAnswerable ==
  \A t \in Tasks : taskState[t] = "input" =>
    \/ store[t] = shown[t]
    \/ Expired(shown[t]) \/ shown[t] \in evicted

\* max_tool_rounds + 1 model calls with tools in a conversation, whatever the
\* approvals it stops at: a resumed turn goes on with the rounds that were left.
RoundsBounded == \A x \in Turns : asks[x] <= MaxRounds + 1

\* Every turn comes to its end, unless the run has no request id left to draw.
TurnsEnd == \A x \in Turns : pc[x] # "idle" ~> (pc[x] = "idle" \/ issued = Requests)

=============================================================================
