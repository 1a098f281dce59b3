# Verification of zuno-demo: models, checks and proofs

zuno-demo is an agentic platform on OpenShift AI. Agents call models and tools,
and each other, through gateways that hold the platform's rules: which provider
serves a call, who may spend how many tokens, what may be said, which write
needs a person's consent. This directory holds TLA+ models of the programs that
keep state behind these rules, the TLC configurations that check them on small
instances, and theorems about them checked by TLAPS. `PROJECT.json` maps every
definition to the lines it models.

Paths below are relative to `src/components/` unless they start with `src/`.

    tlc -workers 2 -config Approvals.cfg MCDelegatedTurns     # one run
    tlapm DelegatedTurnsProofs.tla                            # one proof module

## 1. The system

| part | state it keeps | operations | status |
|---|---|---|---|
| **ai-gateway**, `ai-gateway/app/` | | one OpenAI- and Anthropic-compatible door to all models | |
| - circuit breaker, `circuit_breaker.py` | per provider: when it was opened, when its trial was claimed | `is_open`, `peek_open`, `record_success`, `record_failure` | modelled |
| - model readiness, `model_readiness.py` | the last snapshot of the Ready conditions and its time | `poll_once`, `update`, `is_ready` | modelled |
| - provider calls, `main.py` | per request: the position in the chain, the families that refused, the errors | `/v1/chat/completions` (whole and streamed), `/v1/messages`, `/v1/responses` | partly |
| - key ceilings, `key_ceilings.py` | tokens used and reserved per key, tenant and window; open streams per persona | `admit`, `settle` | partly: in-process store only |
| - token budget, `quota.py` | tokens used per group, project, user and window | `check`, `consume` | partly: in-process store only |
| - stream guard, `stream_guard.py` | per stream: the text, how far it is checked, the events held back | `guard` | modelled |
| - metered paths, `metered_paths.py`, `main.py` | per call: a reservation, a response in progress | `_metered_call`, `_metered_unary`, `_meter` | partly: formats and estimates abstracted |
| - tuning controller, `optimizer.py` | overrides, open actions, the audit log, the kill switch | `apply_cache_ttl`, `apply_cache_enabled`, `apply_routing_override`, `report_outcome`, `kill`, `reload_policy` | modelled |
| - model routing, `routing.py`, `model_routing_policy.py` | the tables read from files | `candidates_for`, `_apply_preference`, `local_only_for`, the loaders | modelled |
| - classification floor and tool markers, `classification_floor.py`, `tool_markers.py` | none: a level per call | `effective`, `assess` | modelled |
| - routing watch, `routing_watch.py` | a digest of each file | `check_once`, `run`, `/admin/reload-routing` | modelled |
| - quota windows, guardrails, semantic cache, adapters, image providers, auth, telemetry | caches, metrics | calls to other services, formats, signatures | outcomes only |
| **a2a-gateway**, `a2a-gateway/app/` | | one A2A endpoint per agent | |
| - pending approvals, `approvals.py` | the requests waiting for a person | `put`, `take`, `drop`, `_sweep` | modelled |
| - turns, `executor.py` | per turn: the conversation, the calls left, the rounds left | `execute`, `_resume`, `_turn`, `_answer`, `_available_tools`, `cancel` | modelled |
| - delegation chain, `agent_chain.py` | the limits policy, loaded once | `verify_chain`, `reload` | modelled, beside the mcp-gateway's copy |
| **mcp-gateway**, `mcp-gateway/app/` | policy, declarations, bindings and limits, replaced together | a tool call through one of three front doors: authorise, forward, mark, answer; `/admin/reload-policy` | partly: decision, marking and reload |
| **world-model-runtime**, `world-model-runtime/app/` | the world, its state and prompt version, the session's queues, one GPU | create, stream, edit, stop, close | session modelled |
| **zuno-token-proxy**, `zuno-token-proxy/app/` | one upstream token, its refresh and expiry, a lock | `TokenSource.get`; the relay of a request | partly: all but the relay |
| **mlops**, `mlops/src/` | the objects in S3, the model registry, the TrainJobs in the cluster | the five stages of a pipeline, `submit_and_wait` | modelled |
| **mcp-servers**, `mcp-servers/*/server.py` | the assertions seen, the launches of each caller | verify and consume an assertion; `cluster_audit`; the other tools | partly: these two |
| dify-knowledge, diagram-render, trustyai-eval, tools, deployment | none, or held by an external system | | not modelled |

How they interact. An agent calls a model through the ai-gateway and a tool
through the mcp-gateway; another agent is a tool that is the a2a-gateway's
endpoint, whose turns in their turn call the ai-gateway and the mcp-gateway.
Each gateway is one asyncio process per replica: a coroutine runs alone between
two awaits, so what can interleave is exactly what an `await` separates. The
world-model runtime adds one worker thread that takes GPU calls in order.
Nearly all state is in memory and is lost with the pod. The mcp-gateway in turn
calls the MCP servers, with a signed assertion for each call, and marks what they
answer with a signed level that the ai-gateway reads when the result comes back in
a context. The pipelines of mlops are processes that share nothing but what they
write to S3 and to the registry.

What is hard, and what makes each part correct:

* **Breaker and fallback.** Many requests share one breaker; answers come late,
  clients leave in the middle of a trial, and a skip, a refusal and a failure mix
  in one walk. Correct: an open breaker lets one call through per window; no
  provider is skipped for good; a call follows another only after an answer that
  allows it; a 503 says that nothing was tried.
* **Approvals and turns.** Turns of one task run at the same time, an answer may
  be late, repeated, sent by somebody else or meet a newer request, the pod may
  restart, the store may be full. Correct: a write runs at most once, after a yes
  in time of the caller it was asked of; a task that shows a request can be
  answered; the budget of rounds is not renewed by an approval.
* **Session of the GPU.** Sockets, creations, edits, failures and cancellations
  meet at awaits of the GPU. Correct: one stream; a world at rest when no socket
  streams it; a reported prompt version that is never ahead of the picture and
  never goes back; video that can be decoded.
* **Metering.** Parallel calls look at a ceiling before any has used its tokens,
  and end in many ways. Correct: nothing reserved leaks; a ceiling is overrun by
  one estimate at most beyond what calls underestimate; usage is counted once;
  no part of a detected match is sent.
* **Tuning.** Actions are rolled back, settled, killed and reloaded in any order.
  Correct: the override in force is the one the log tells, so a rollback leaves
  what was settled before and nothing else; the kill switch halts everything.
* **Pipelines.** A stage that no longer waits for its TrainJob leaves it running;
  the resumed stage submits another into the same prefix; pods die between two
  uploads; runs share the destination of merged checkpoints; a
  held-out split may leave the trainer nothing to generate from. Correct: a manifest
  stands for files that are all there; what is registered passed every half of its
  gate and is what the gate scored, at its classification; only merges that overlap
  mix checkpoints.
* **Token.** Calls queue behind one refresh; when it fails each repeats it, while
  the token in hand runs out; Keycloak answers late and with any lifetime.
  Correct: no call is handed another's token in its last seconds; a call waits
  for those before it and its own request only.
* **Levels of a turn.** A chain of agents calls a tool, the policy is reloaded
  while its backend works, the result is marked, and a completion with it in its
  context is routed while the kubelet replaces the routing files. Correct:
  delegation only narrows; a result is not marked below what let it through asks
  for; a call goes only to a provider that may have all it carries.
* **Launches.** A request may be delivered twice, its assertion is verified before
  and consumed after its body is awaited, and a launch may fail, or be cancelled
  with the session of its call, before its POST, at it or after it. Correct: an
  assertion runs its tool once; a slot of a caller's limit is held by exactly the
  launches of the window, and by the cancelled calls that took one.

`PROJECT.json` lists each hazard at the line where it bites, with the properties
that cover it.

## 2. Modules

    CircuitBreaker   ModelReadiness       ApprovalContract (abstract)
            \           /                        ^  refined by
           GatewayCalls                    DelegatedTurns       WorldSession
            |        \                      |          \            |          \
     GatewayCalls   MCGatewayCalls   DelegatedTurns   MCDelegated  WorldSession  MCWorld
     Proofs                          Proofs           Turns        Proofs        Session

     StreamGuard   KeyCeilings       TuningController           TokenSource
            \       /                  |          \               |       \
           MeteredCalls         TuningController  MCTuning    TokenSource  MCToken
            |        \          Proofs            Controller  Proofs       Source
     MeteredCalls   MCMeteredCalls
     Proofs

     RoutingReload  DelegationChains               CallAssertions   LaunchLimit
           |             |                                 \           /
           |         ToolAccess   ModelRouting             AuditLaunches   AdapterPipeline
           |             |          |                       |        \       /      |
           +---------- ToolTurns ---+             MCAuditLaunches   JobsProofs   MCAdapter
                        |      \                                                  Pipeline
              MCToolTurns    ToolTurnsProofs

Each component module declares its parameters as CONSTANTS with named
assumptions; its MC module defines their values for a run; its Proofs module
holds the theorems. JobsProofs holds those of two components, the launches and the
pipeline, which share nothing: it extends both.

**CircuitBreaker, ModelReadiness.** The code keeps instants and only compares
`now - instant` with a window, so the modules keep ages that stop growing at the
window. `Claim` is `is_open` answering False, with the trial it claims; `PeekOpen`
is `peek_open`. A failed poll leaves the snapshot to go stale: it is no step.

**GatewayCalls** composes both with concurrent requests of three kinds: `unary`
(`_invoke_with_fallback`), `stream` (`_stream_completion`), `metered`
(`_metered_call`). One walk over skipped candidates and the claim at its end are
one step (`WalkToCall`, `WalkToEnd`), a provider call is open between two steps.
`Chain` stands for what `candidates_for` returns; `Profiles` for the skips that
policy, context length and the adapter cause. `Cancel` is possible at each
await and reports nothing to the breaker: a CancelledError is not an Exception.
An answer's text is abstracted to what the loop tells apart: success, outage, a
refused request, a quota denial, another failure. `probed` and `answers` are
history variables.

**ApprovalContract** says what an approval promises (ADR-0409) in terms of
requests alone: unasked, open, approved, void, ran. Every request may be given
up at any time; a run needs an approval, an approval an answer within the
timeout, credited to the caller who was asked.

**DelegatedTurns** models the endpoint: the store of pending requests
(`Swept`, `Put`, `Taken`, `Takes`), the messages (`FreshTurn`, `FreshRefused`,
`Resume`, `ResumeRefused`), the turn (`Listed` to `TurnEnds`), `Cancel`,
`Restart` and the policy. A reply of the model is a sequence of `read`, `write`
and `unlisted` calls. The task's state machine is the A2A SDK's and therefore
external: it refuses messages to a final task, and a late update of a final task
may or may not be recorded. `KeepsThePromise` is the refinement of
ApprovalContract under `phase <- Phase(q)`.

**WorldSession** models `session.py` with the endpoints of `main.py`. `gpu` is
the line of the single worker thread, and a call whose coroutine is gone still
runs (`OrphanDone`). An await that only sends an event is merged with the next,
as no code runs between them; the end of a GPU call is merged with the
resumption of its coroutine. A frame is `key`, `delta` or `broken` (it depends
on one that was dropped). Two consequences of the code that no property speaks
of are in the model: the receiver of an ended session may stop the next one
(`SocketCloses`), and a world closed during an edit ends READY (`GoOn`).

**StreamGuard** abstracts a reply to its length and to the first match the
detector would report, as a pair of positions; a guard is a record owned by a
call. **KeyCeilings** has the two counters and the streams of a persona; a limit
is a key's or a tenant's ceiling. **MeteredCalls** composes both with the token
budget and the calls: admission (ceiling and budget, with no await between),
scan, request, events, checks, closing, metering. A call's end in all its
forms, refused, broken, cancelled, cut by a check, is a step. Which provider
serves it is GatewayCalls' subject. The model has one replica, one budget class,
user, group and window length, and leaves out the pruning of old counters. A
reservation is settled in the window it was made in, the budget is charged in the
window of the metering; `Exempt` calls hold an empty reservation that is settled
from the start.

**TuningController**. Every method runs without an await, so each is one step;
a refused recommendation changes nothing and is no step. Open actions are a set
ordered by their entry in the log. An action keeps the evaluation window of the
policy it was made under; the constant bounds the windows. `Restart` is a new pod,
which forgets everything. `stacked` is history: the parameters that had two actions
open at once.

**AdapterPipeline** is the LoRA pipeline of `mlops.py` and `trainjob.py`. A stage
reads and computes in one step (`PrepareDataset`, `TrainLocal`, `MergeExport`,
`Evaluate`, `PushRegistry`) and writes its objects one by one (`Write`), so that a
pod can die between any two (`Fail`); `Finish` starts the next stage and `Resume`
the failed one again. A TrainJob is an entry of `jobs` with a pod of its own
(`JobStart`, `JobWrite`, `JobEnd`) that outlives the stage waiting for it
(`Submit`, `Poll`, `TimeOut`). An object is kept as what its bytes come from: the
dataset's version, the attempt when training is not deterministic, and the level
it claims; of the held-out split of a style corpus it also says whether it has a
conversation to complete (`Answerable`), as a corpus is taken with any split and the
trainer writes no samples of one that gives none. The destination of merged
checkpoints is one set of files for all runs;
`overlapped` is history. S3, the registry and the pipeline engine are external.

**TokenSource** counts time in ticks of the margin. It keeps what the code
believes (`left`, until the expiry it computed; `fresh`, until the refresh) beside
what is true (`life`), because the answer's age and Keycloak's lifetime separate
them. `Get` is a call up to the lock or its answer, `Turn` the next call in line
with its second look, `FetchOk` and `FetchFails` the end of a request. Two tokens
are excepted from the margin: `own`, which a call fetched itself and gets as it
is, and `short`, whose lifetime Keycloak set below the minimum the code assumes.
A call that ends gives its name to a next one.

**RoutingReload** has the files of the ai-gateway, the digests of the watch and
the tables in force. A tick reads each file three times (`ReadDigest`,
`ReadToCheck`, `ReadToLoad`), `Write` may replace it between any two, and
`AdminReload` loads all. `Loaded` says what each loader makes of a bad text, of a
missing file and of a policy that makes it raise half-way: one with an entry that
is no mapping, or one that is a list, which only the admin reload, or a write
between the check and the loader's read, hands to the loader.

**DelegationChains** has `verify_chain` twice, as the two gateways have it.
**ToolAccess** is the mcp-gateway's decision: five factors, delegated writes, the
three front doors, and the level a result is marked with. **ModelRouting** is the
level a chat completion runs at, from its header, the floors, its client and the
results it carries, and the providers it may then go to, in order. All three are
operators. **ToolTurns** composes them with RoutingReload: tool calls decided
under one release of the policy and marked under another, their results collected
into a context, and a completion that walks its candidates while the tables
change. The gateways share no state, so the steps of one commute with those of
the other; `ToolsFirst` takes the mcp-gateway's first, and the context goes with
the completion that is routed. Both reductions keep every state of either gateway
and every pair of a result and a completion. When a candidate is passed over or
fails is GatewayCalls' subject; here it may always be.

**CallAssertions** is the assertion of one tool call, minted by the mcp-gateway
and verified and consumed in a block that four MCP servers share; **LaunchLimit** the
launches of each caller within the window, where a caller's deque of stamps, which
comes and goes in the order of time, is how many it has of each instant.
**AuditLaunches** composes them for
`cluster_audit`, the one tool that starts automation. A request has deliveries:
a proxy may hand it over more than once, early or late. Each goes from its header
(`Arrives`, which verifies) over its body (`BodyRead`, which consumes) to the slot
(`Reserve`) and the POST; `Launch` is external, as the job may exist before, or
without, the server hearing of it. `Frees` gives the slot back, `PostAnswered` keeps
it, and so does `Cancelled`: the session of the call ends before AAP's answer to the
POST, and a CancelledError is not an Exception. `timely` is history: the assertion
was used while it could be verified.

## 3. Runs

Each run explores its whole state space and passes. Deadlock is not checked: each
system may stop, since request ids, worlds, calls, log entries, resumptions,
reloads and restarts are bounded by the constants, and a server with nothing to
do waits.

| run | instance | shows | distinct states |
|---|---|---|---|
| FallbackChain | 1 request slot, reused; chain of 3 providers: two entries of one local model, the first through MaaS, and a SaaS provider; 3 profiles; window 1 | a 503 means nothing was tried; a fallback is justified by the answers before it | 513,931 |
| SharedBreaker | 2 requests, 1 provider, window 2 | probes are a window apart; no provider is skipped for good; requests end | 66,630 |
| Approvals | 1 task, 2 turns, 2 callers, 2 requests, timeout 1, store of 1, no rounds left after the first; symmetry | the endpoint implements the contract; a shown request can be answered | 629,430 |
| TurnRounds | 2 tasks, 1 turn, 2 requests, store of 1, 1 round, replies of a write and a read | an approval does not renew the budget of rounds; turns end | 401,366 |
| WorldStreams | 2 worlds, 2 sockets, 1 frame a step, queue of 1, versions to 2, 2 GPU calls in line; symmetry | one stream, worlds at rest, edits, versions, video | 1,140,362 |
| StreamsEnd | 1 world, 1 socket, 2 frames a step | a stopped session lets go of the GPU | 4,143 |
| Metering | 2 streams of one person, 1 unary call of another; tenant ceiling 2, key ceiling 3, 1 stream each, 2 windows, estimates 1 and 2, usage 2; hold-back 2, overlap 1, matches to 2, replies to 4 characters | reservations, ceilings, budget, guard | 318,744 |
| Tuning | the TTL and one adapter, 2 values, 4 policy files, windows of 0 and 1, 4 actions a pod | overrides, log, kill switch | 207,486 |
| Pipelines | 2 runs on one destination, one of a style corpus with TrainJobs, with and without an answerable held-out split, one of domain rows in its own pod with tool probes; 2 files each of adapter and checkpoint; 1 resumption | what is registered is what passed, whole and at its level; only overlapping merges mix checkpoints | 720,680 |
| TokenProxy | 3 callers, lifetimes 1 and 5 under clamps of 2 and 4, requests of 2 ticks at most, 4 calls | the margin; a bounded wait; calls end | 291,416 |
| ToolTurns | 3 agents, a client, 3 tools, 10 chains, 3 releases and 1 reload; 2 results; 2 routing tables, 2 policies, 2 floors and their bad contents, 2 writes of the kubelet | what is noted is loaded; the chain checks agree and narrow; results keep their level; calls go where they may | 660,426 |
| Launches | 2 calls of one person, 2 deliveries each, lifetime and leeway 1, limit 1, window 2, 4 instants, 1 restart; symmetry | an assertion runs once; launches are limited; slots are held by their launches and by cancelled calls | 2,724,222 |

Why the bounds are enough to be interesting:

* Breaker properties are per provider and no step reads another provider's
  breaker but the walk, so one provider is enough for SharedBreaker; two requests
  are the least for a late answer of one under the trial of the other. Window 2
  tells "just opened", "open" and "over" apart. FallbackChain has the three
  relations two candidates may have: same model, another model, through MaaS.
* Two turns on one task are the least for an answer to race a newer message, two
  callers for a stranger's answer, two requests for a request to supersede
  another. Timeout 1 has in time and expired. TurnRounds has two tasks so that
  the store of one is full, and a read behind the write so that the backlog
  survives the wait.
* Two worlds and two sockets allow a creation and an opening to race a stream; a
  queue of 1 fills at once; version 2 allows an older and a newer edit. `MaxJobs`
  bounds the GPU calls in line when one more actor comes; the session's own calls
  are not bounded by it.
* Metering's ceilings, 2 and 3, are used up by one or two calls, its budgets
  (group 4, project 1, user 2) run out in the middle of a history, and usage 2
  exceeds the smaller estimate. Hold-back 2 with overlap 1 makes a match of 2
  straddle two checks. `Exempt` is empty in the run; the theorems hold for any.
* Four actions let two be open on each parameter, which is the least for a
  rollback to bring an older override back, and let one be settled before another
  is made on top. Windows of two lengths let the later of two actions be settled first.
* Pipelines needs two runs for a shared destination, one resumption for a second
  TrainJob beside the first, two files for half an upload, and rows of two levels
  in falling order for an escalation. Probes and a held-out split give one run
  each half of the gate, and a split without a conversation takes one away. `Deterministic` is TRUE, the default of the code; without it
  two jobs may leave files of two trainings, which `RegisteredIsGated` would show.
* Three callers give a line of two behind a request, in which the last waits for
  the failures of both. Lifetimes 1 and 5 lie on either side of the clamps.
* The chains of ToolTurns have each way to be refused: an unknown or inactive
  member, a client, a cycle, too deep for the ceiling or for a member, a hop that
  is no target, a group outside the intersection. One release moves levels and
  rights, one is torn. Two writes are the least for a file that changes between
  two reads of one tick, or back to what it was.
* Launches' instants pass lifetime and leeway together and the window; two
  deliveries are the least for a use to meet a record of the first, and two calls
  of one person for a slot given back by the wrong one.

Type invariants are not run: they are proved, for GatewayCalls, DelegatedTurns,
WorldSession, MeteredCalls, TuningController, TokenSource and AdapterPipeline,
together with what else is inductive; the parts the other proofs need are in `Types` of their modules.

### Fairness

* GatewayCalls: time passes; the loop runs every ready task; a provider call
  ends, as it carries the provider's `timeout_seconds`. `NeverSkippedForGood` and
  `RequestsEnd` need no more. Nothing is assumed about successes: every call may
  fail or be cancelled.
* DelegatedTurns: a ready turn runs, and a model or tool call ends, as its client
  has a timeout. Nothing is assumed of callers; answers need not come. `TurnsEnd`
  excepts the histories in which the bounded set of request ids is used up.
* WorldSession: the worker runs its calls, the loop its ready coroutines. Nothing
  is assumed of browsers: `Drain` and the ends of a receiver may never happen.
* TokenSource: the loop runs the call that gets the lock (`Turn`), and a request to
  Keycloak ends (`Ends`), as it carries a timeout. Nothing is assumed of its answer.
* AdapterPipeline, ToolTurns and AuditLaunches state safety only: a stage may fail
  for ever, a reload and a launch need not come.

## 4. Proofs

All theorems hold for every value of the constants that satisfies the named
assumptions, which TLC evaluates on the runs' instances.

**GatewayCallsProofs.** `GatewayInvariant`: `Spec => [](TypeOK /\ ProbeAges)`, for
any set of requests, any chain and any window. `ProbesAreSpaced`: two calls let
through an open breaker are a whole window apart. That is an action property over
two distant instants; the invariant `ProbeAges` makes it inductive: with a trial
outstanding the opening's window is over and the last probe is that trial;
without one, the last probe is at least as old as the opening. The steps of the
breaker (claim, report, elapse) are lemmas about `CircuitBreaker` alone; each
handler is shown to be one of them for the provider it talks to. `Places`, the
position of a request in its chain, is what types `Current(r)`.

`FallbackIsJustified` and `UnavailableIsUntried` come from a second invariant, of
one request at a time. `Trail`: the candidates that have answered come before the
one the walk is at, each with an answer that lets the walk go on, and a refusal has
put its model's family out of the rest of the walk. `Untried`: a walk whose errors
hold no line of an answer has had none. Neither property is inductive alone: what a
request may do next hangs on its position, its errors and the families it lost, so
these have to be tied to the answers it had. A step of another request leaves all
of them (`SameStaysWalked`).

**DelegatedTurnsProofs.** `PlacesAreUnique`: `Spec => []OnePlace`, with the part of
the type invariant it needs. A request is in the store, or with the one turn that
took it, or nowhere, and has not run while it is in a place; this is why an
answer cannot be used twice although it moves between the store, a turn and a
tool call. `ApprovalsKeepThePromise`: every step of the endpoint is a step of
ApprovalContract or a stutter under the mapping, so a write runs at most once,
after a yes in time of the caller it was asked of. Asking, resuming, running and
the clock are one lemma each; all other steps only give requests up
(`LessGivesUp`).

`RoundsAreBounded`: in `Agenda`, the calls of the model a turn has made and the
rounds it has left add up to the budget and one more wherever the turn is, and so
do those that went into the store with a request; that is why a turn resumed after
an approval cannot start a budget of its own. `ShownIsAnswerable`: what a task shows
was drawn before, so a sweep or an eviction that empties its place is one the
property allows for, and no other turn empties it while it shows. With both,
`TypesAreKept` is the whole type invariant.

**WorldSessionProofs.** One inductive invariant for all of the session's safety:
`OneSessionAtATime`, `WorldsAreLeftAtRest`, `EditsAreAlone`, `VersionsStayShown`,
`VideoIsDecodable`, `VersionsNeverGoBack`, `TypesAreKept`. What makes it inductive is
the worker's line. `Calls` says what each call in it is: of a world in the making,
the call that world's creation waits for; of a session, the call its loop waits
for, whose edit is newer than the world and older than any that is asked next; of
nobody, a call whose coroutine is gone, and a splice among those is the call that
runs. `OneCallEach`, that an owner has one call at most, ties a call's end to the
place of its owner's coroutine, and `Seats` says where that is. `Made` keeps a world
in the making apart from the one the engine shows; `AllAsked` orders the edits that
wait. A splice that was left behind by a cancelled session still runs: it
is the first in line, so no newer edit has taken effect when it ends. Lemmas say what becomes of the line when its first call
ends, a call is added, taken over or given up (`FirstRuns` and those after it).

**MeteredCallsProofs.** One inductive invariant, `IInv == TypeOK /\ GuardsHold /\
Settled`. `GuardsHold` says that what a guard holds and has sent fits its text,
that no check that had a detector has covered the match, and that what was sent
is outside the overlap; `Settled` says where a call may still hold its reservation.
`TypeCorrect`; `NothingOfAMatchSent`: no character of a match is sent as long as a
pattern is at most one character longer than the overlap (`GuardAssumption`; the
bound is sharp: the code promises nothing about longer ones), unless a check had
no detector and the call's level lets that pass; `OverIsSettled`: a call that is
over holds nothing, and one whose text was received was metered.

`ReservationsAreInFlight`, `OverrunIsBounded` and `UsageIsCountedOnce` are about sums
over any number of calls. `Books` makes them inductive: a call holds an unsettled
reservation only between its admission and its metering, and has no usage until
then (`Booked`), so that each step moves one call into a sum or out of it. The lemmas
`SumJoins`, `SumLeaves` and `SumChanges` say what that does to the sum. They rest on
`SetInductive`, induction over the subsets of a finite set, which has a set of
subsets where the library's rule has a predicate, and follows from the
well-foundedness of the naturals (`Inductive`); `SumUnfolds` opens the library's
recursive `SumFunctionOnSet`. The assumptions: the calls and the windows are
finitely many, and there is a largest estimate.

**TuningControllerProofs.** `IInv` adds to TypeOK and the two invariants that every
open action is in the log with status `applied`, on its parameter, and that a
parameter that never had two open at once has one at most, which is the last of its
entries and restores what the log told before it. `TypeCorrect`, `TheLogTells`,
`OffMeansNothingOpen`, and the action property `KillHolds` (after a kill, a
second rollback is a rollback of nothing).

**TokenSourceProofs.** `IInv` is TypeOK with `Trusted` (what the code believes is
left of a token is no more than what is, unless its lifetime was short),
`OneFetch` (the lock has one holder), `Line` (the queue holds each waiting call
once), `Waits` and `HandedOutInTime`. `Waits` makes the bound inductive: what a
call has waited, plus the rest of the request under way, plus a whole request for
each call before it and its own, fits the bound it got when it came. A tick moves
one from the rest to the waited, a turn moves a place of the line into the rest.
`TypeCorrect`, `TokensAreHandedOutInTime`, `WaitsAreBounded`, for any number of
calls, lifetimes, clamps, refresh times and delays.

**JobsProofs**, of AuditLaunches. `AssertionsRunOnce`: for any lifetime, leeway and number of
deliveries. `Remembered` is the strengthening: while an assertion that was used in
time can still be verified, the record of its use is kept. It holds because a
record is kept until `exp` plus the leeway, which is the last instant at which the
assertion verifies; a record kept until `exp` breaks it. `Sent`, that no delivery
precedes the minting, keeps `minted` from changing under a record. `SlotsAreAccountedFor` and
`JobsAreLimited`: for any limit, window and deliveries. Their strengthening, `Slots`,
compares two sets of any group of instants of the window: the stamps a caller has
there (`Taken`), and the deliveries that hold one (`Holders`). They are as many
(`Counted`), so a delivery that gives its stamp back finds one to take, and of the
whole window the holders are within the limit (`Capped`), as a slot is only taken
when the stamps left by the pruning, which are those of the window, are fewer.

**JobsProofs**, of AdapterPipeline. `PipelineInv`, for any runs, rows, files and
resumptions, from the assumptions that the files of an adapter, those of a merged
checkpoint and the manifests have different names and that a query returns a row.
`Own(r)` is what one run keeps to, whatever the others do: the corpus is of one
version (`Rendered`), and once it is written nothing rewrites it; every trainer,
the stage's pod or any TrainJob that outlived it, has still to write what is
missing beside the manifest, and writes the manifest last (`Trainer`); what it
writes claims the corpus's level, which covers each row, and comes from the
corpus (`FromDraft`). That several jobs write into one prefix is harmless because
each satisfies `Trainer` on its own, and storing a name only makes it easier to
satisfy (`TrainerKept`). `Gated` ties a run that may be registered to the samples of
every half of its gate: a train manifest stands without those of the held-out split
when that gives none, and then it is the gate that refuses. What the gate scored (`Score`) and what the registry got
(`Pushed`) are tied to the same corpus. `Destination` is what the runs share: of a
run that merges, or whose files are there, and that listed the destination alone,
nobody else merges and no file is another's (`Alone`). A step of a run leaves the
`Own` of the others (`OthersKeep`), so each action is one lemma about its run and
the destination.

It gives `PipelinesKeepTheirTypes`, `ManifestsComeLast` and `RegistryTellsTheTruth`
with any switches. `GateCoversTheRegistered` is for deterministic training into a
destination that is not overwritten, which are the defaults (`mlops.py:382`, `385`),
and `OnlyRacesMix` for one that is not overwritten: with the switches the other way TLC
finds `RegisteredIsGated` violated by a second attempt, and `MixOnlyByRace` by a second
merge. That `_escalate` over the rows claims a level
no row exceeds (`ClaimedCovers`) is induction over their number: as in
MeteredCallsProofs it goes through a set of numbers (`Inductive`), and for it
`Claimed` is a recursive function and not one of the library's folds.

**ToolTurnsProofs.** Three invariants, as the gateways share no state. Of the
mcp-gateway: what is with its backend was let through by the release it came
under (`Decided`), and a marked result has the mark of the release in force when it
came (`MarkedThen`). With lemmas about chains (`ChecksAgree`: of the agents the
a2a-gateway loads, any is a known member; `AcceptedBefore`: of an accepted chain
each beginning is accepted) they give `ChainChecksAgree`, `DelegationOnlyNarrows` and
`MarkedResultsKeepTheirLevel`. Of the files: what a tick has seen, and what the
watch took note of, is what a file holds or has held, and a policy that makes its
loader raise is never taken note of while the file holds it (`Sighted`, `Noted`);
with these `NotedContentsAreLoaded`. Of the completions: the tables in force are ones
a loader can leave (`KnownTables`), a marked result in the context has a level
(`ContextLevels`), and each candidate that is left of a walk serves what the call
owes, by the table it was routed by (`Walk`). That gives `CallsGoWhereTheyMay` for
any tables, policies, floors and contexts, whatever a reload replaces in between.
Its lemmas are about the operators of one step: `RunsAtWhatIsOwed` (the level a call
runs at is what its header, floors and results ask for, or more, and its policy was
asked at that level), `CandidatesServe`, and `OnlyKeeps`, that `Only` leaves elements
of the sequence it filters: for that, the k-th place has to exist, which is a
pigeonhole (`KthPlace`). `Only` is `SelectSeq` for a set, defined by places, as the
prover does not expand the recursion in `SelectSeq`.

Only model-checked: all liveness, as the prover has no ENABLED here. Every safety
invariant and action property the runs check is a theorem, or the step simulation of
one.

## 5. What is not modelled

* Formats, prompts, HTTP, signatures, tokens and claims: no property here tells
  them apart. Their outcome (a refusal, a failure) is a choice in the models.
* The Redis stores behind the ceilings and the budget: with several replicas the
  counters are shared and the check and the reservation become calls to a server.
* The detectors, the semantic cache and the tools' backends: external services. A
  check's outcome is a detection, none, or no detector.
* The relay of the token proxy, which passes one request through.
* Of the mcp-gateway: aliases of tools, self-scoped tools, delegated credentials,
  the listing of tools, the rewriting of PromQL texts and the cache of tool schemas.
* Of the MCP servers: the bearer mode, the caller context that names a bucket,
  `platform_audit`, and the tools of confluence, git-forge and salesforce, whose
  state is in the systems they call (confluence's update passes the version it
  read, and the conflict is Confluence's to find).
* Quota windows (`quota_windows.py`): how long to wait is computed from times of
  one replica and returned in a header, and nothing depends on it.
* Programs without state of their own: dify-knowledge, diagram-render, the
  evaluations, the deployment, and the command-line tools of `src/platform/`
  (documentation checks, generators, drift, the release ledger), which are run by
  one person or CI job at a time over files. These tools, the tests and the wire
  formats are the larger part of the repository's Python; the models cover the
  programs that run and keep state.
* Clients of the world model are taken to number their edits upwards within a
  session ("A prompt update increments `prompt_version`", ADR 0604:208); a second
  client may start anew. The runtime does not make sure of it: `request_edit`
  compares with the version in effect alone (`session.py:124-129`), so an edit that is
  older than one under way is taken, applied after it, and takes the version back.
  `VersionsGoForward` is about clients that number upwards.
* A *routing* table whose text is a list: its loader does not look, and the requests
  that use the table fail.

## 6. Disagreements between the code and its text

What the code was seen to do against a comment, a test or what one would expect,
while it was modelled. No run ends in a violation: the properties say what does hold.

Breaker, calls, metering.

* The metered path claims a half-open trial (`ai-gateway/app/main.py:1687`) and
  never records a success: a good answer leaves the breaker open for the rest of
  the trial's window (`circuit_breaker.py:5`: "its success closes the breaker").
  A 5xx of it does not open the breaker either (`main.py:1882`, `1969`).
* Refusals and quota denials of a half-open chat call do not close the breaker
  (`main.py:1289`, `1292`), although `circuit_breaker.py:7-9` counts them as
  answers.
* A request ends with 400 when one model refused it and the others were only
  skipped (`main.py:1380`).
* `key_ceilings.py:31-34` bounds the overrun by one call; a call that asks for no
  output limit reserves its prompt alone (`metered_paths.py:287-289`), so several
  may overrun. `OverrunBounded` counts that part apart.
* The pruning of budget counters compares buckets of any window length with a
  count of days (`quota.py:192`), and so keeps every shorter one.

Tuning.

* Rollbacks run oldest first and each puts back what its action found, so of two
  open actions on one parameter the first one's value remains after a kill, though
  the log calls both reverted (`ai-gateway/app/optimizer.py:317`; lines 26-27:
  "reverts everything currently applied"). Two recommendations for one adapter
  within a window and then the kill show it. `OverridesFollowTheLog` says what holds of every
  parameter that never had two actions open.
* A settled action survives the kill switch; an override outlives a policy that no
  longer allows it; `kill_switch` in the policy at boot does not latch, while the
  same file reloaded does.

Turns and delegation.

* An approved write that is no longer offered is reported to the model as
  "declined by the user" (`a2a-gateway/app/executor.py:233-238`); a second answer to
  a request is told that the operation was not run, even when it was
  (`executor.py:106-108`).
* The limits are loaded once, in the constructor, so a `write_allowed` entry taken
  out of the file while a write waits is still honoured (`executor.py:182-183`: "no
  longer honoured").
* `a2a-gateway/app/agent_chain.py` lacks the test of `mcp-gateway/app/agent_chain.py:157`
  that refuses an experience client as a hop. `CopiesAgree` shows that the verdicts
  do not differ, as the a2a-gateway's store of declarations loads no client.
* Nothing in the mcp-gateway's decision compares a call's classification with one of
  its delegators (`mcp-gateway/app/policy.py:265-266`: it "may not exceed any
  delegator's own").

Levels and routing.

* A header that is not a known level is left as it is "so routing still refuses it"
  (`ai-gateway/app/classification_floor.py:17-18`), but reads as the lowest when a
  result's marker raises it (`tool_markers.py:97`): the call is then routed at the
  marker's level.
* A policy file that is a list, or has a list entry that is no mapping, raises out of
  the reload after the excludes were cleared (`model_routing_policy.py:153`, `170`;
  34-36), and leaves the rest.
* An empty routing table serves `local` to a task that excludes it
  (`routing.py:137-141`, against `127-131`).
* The watch compares with the last digest only: a file rolled back before a tick,
  or written between the loading of the tables and the start of the watch, leaves
  a stale table in force (`routing_watch.py:1`). A file that turns bad between the
  check and the loader's read empties the table the check was to protect
  (`routing_watch.py:12-14`).

World model.

* `create_world` looks at `streaming` before two awaits and not after them, so a
  creation that began before a stream resets the engine and replaces the world
  under it (`world-model-runtime/app/session.py:99`; `tests/test_runtime.py:164`: a new
  world "is refused while streaming").

Pipelines, token, tools.

* Two runs may merge into one destination at once, as the destination is looked at
  before a download and a merge (`mlops/src/mlops.py:1671`;
  `src/gitops/charts/mlops/values.yaml:95-96`: refusing to overwrite "is what keeps N
  clusters' pipelines from clobbering it"). `MixOnlyByRace` says when it does.
* The token proxy takes its token before it awaits the request's body
  (`zuno-token-proxy/app/main.py:106`, `117`), so that the margin of `token.py:25` is
  that of the moment it was taken.
* A launch whose POST's answer is lost gives its slot back although its job exists
  (`mcp-servers/aap/server.py:517`; line 515: "Only a launch AAP never accepted gives
  its slot back"). `LaunchesLimited` leaves those jobs out. The window counts from
  the reservation, not from the launch.
* A launch that is cancelled after its reservation keeps its slot, also when its POST
  was never sent (`mcp-servers/aap/server.py:514` catches Exception, which a
  CancelledError is not; lines 173-174: one "that never reached AAP" "does not
  count"). `SlotsHeld` counts the slots of cancelled calls, and says that nothing else keeps a slot
  without a launch.
* An assertion is verified before its body and consumed after it, so one whose body
  comes late may be consumed again after its record was dropped; `RunsOnce` counts
  the uses while it could be verified. A restart forgets uses and slots.
* `src/platform/okf/release_cache.py` clears the directory of a release, that of a
  process that is still filling it included.

## 7. Plan

Done, in order of importance: GatewayCalls with its parts; DelegatedTurns with
ApprovalContract; WorldSession; MeteredCalls with its parts; TuningController;
AdapterPipeline; TokenSource; RoutingReload, DelegationChains, ToolAccess and
ModelRouting, composed in ToolTurns; CallAssertions and LaunchLimit, composed in
AuditLaunches; and eight proof modules.

The modelling is complete as far as the list in section 5 says, and of the
properties the runs check only liveness is left without a theorem.
