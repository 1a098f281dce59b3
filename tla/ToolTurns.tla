----------------------------- MODULE ToolTurns -----------------------------
(***************************************************************************)
(* A turn across two gateways: tools called through the mcp-gateway, whose *)
(* results carry a signed level, and a chat completion of the ai-gateway   *)
(* with these results in its context, while the files of both change.      *)
(*                                                                         *)
(* mcp-gateway: one tool call (main.py: _authorize_and_invoke, and         *)
(* mcp_frontdoor.py: dispatch) is decided in one step and marked in        *)
(* another, after its backend has answered; POST /admin/reload-policy may  *)
(* fall in between.  ai-gateway: chat_completions goes from the header to  *)
(* the candidates without an await, then to one provider after the other,  *)
(* looking each one up in the table in force.                              *)
(*                                                                         *)
(* The gateways share no state, so their steps commute: the module takes   *)
(* those of the mcp-gateway first (ToolsFirst), which loses no state of    *)
(* either, and none of the pairs the properties relate.                    *)
(***************************************************************************)
EXTENDS Naturals, Sequences, FiniteSets, RoutingReload, ToolAccess, ModelRouting

CONSTANTS
  Releases,      \* name -> release: what the mcp-gateway may have loaded
  FirstRelease,
  Asks,          \* the tool calls: [door, hop, chain, tool, groups, level]
  Payloads,      \* the highest level inside a result; 0 when it has none
  Calls,         \* the chat completions: [task, client, verified, header, localHeader]
  Tables, Policies, Floors,   \* what the names of contents stand for
  MaxReloads,    \* bound: reloads of the mcp-gateway
  MaxResults     \* bound: results in a context

\* A hop is two names; a depth and a ceiling are numbers.
Hop == STRING \X STRING
ASSUME AsksAssumption ==
  Asks \subseteq [door : {"rest", "mcp", "bare"}, hop : Hop, chain : Seq(Hop), tool : STRING,
                 groups : SUBSET STRING, level : Nat]
ASSUME ReleasesAssumption ==
  /\ FirstRelease \in DOMAIN Releases
  /\ \A name \in DOMAIN Releases :
       LET release == Releases[name]
       IN  /\ release.ceiling \in Nat
           /\ \A a \in DOMAIN release.agents : release.agents[a].depth \in Nat
           /\ \A t \in DOMAIN release.tools : /\ release.tools[t].level \in {Unknown} \cup Levels
                                              /\ release.tools[t].external \in BOOLEAN
ASSUME PayloadsAssumption == Payloads \subseteq {NoLevel} \cup Levels
ASSUME CallsAssumption ==
  \A call \in Calls : call.header \in {Absent, Unknown} \cup Levels /\ call.localHeader \in BOOLEAN

\* What a loader may leave of a file's contents, and what these stand for.
Loadable(f) ==
  {c \in Contents[f] : IsMapping(c) /\ c # Poison} \cup {Empty} \cup ({Baked[f]} \ {None})

ASSUME ContentsAssumption ==
  /\ {"routing", "policy", "floors"} \subseteq Files
  /\ {Poison, Listed} \cap (Contents["routing"] \cup Contents["floors"]) = {}
  /\ Loadable("routing") \subseteq DOMAIN Tables
  /\ Loadable("policy") \subseteq DOMAIN Policies
  /\ Loadable("floors") \subseteq DOMAIN Floors
  /\ \A p \in DOMAIN Policies : NoExcludes[p] \in DOMAIN Policies
ASSUME TablesAssumption ==
  /\ \A t \in DOMAIN Tables :
       Tables[t] \in Seq([name : STRING, local : BOOLEAN, levels : SUBSET Levels])
  /\ \A p \in DOMAIN Policies :
       \A task \in DOMAIN Policies[p].prefer : Policies[p].prefer[task] \in Seq(STRING)
  /\ \A f \in DOMAIN Floors : \A task \in DOMAIN Floors[f] : Floors[f][task] \in Levels

VARIABLES
  rights,    \* the release the mcp-gateway holds
  reloads,   \* how often it was reloaded
  invoked,   \* the tool call in hand, if any
  context,   \* the tool results of the turn
  routed     \* the chat completion in hand, if any

mcpVars == <<rights, reloads, invoked, context>>
vars == <<reloadVars, mcpVars, routed>>

NoMark == [level |-> NoLevel, external |-> FALSE]

Init ==
  /\ ReloadInit
  /\ rights = FirstRelease /\ reloads = 0
  /\ invoked = {} /\ context = {} /\ routed = {}

-----------------------------------------------------------------------------
ToolsFirst == ~started /\ writes = 0 /\ UNCHANGED <<reloadVars, routed>>

\* A tool call comes: it goes to its backend, or is refused.
Ask(a) ==
  /\ ToolsFirst /\ invoked = {}
  /\ invoked' = {[ask |-> a, under |-> rights, payload |-> NoLevel, mark |-> NoMark, then |-> rights,
                  pc |-> IF Authorised(Releases[rights], a) THEN "calling" ELSE "refused"]}
  /\ UNCHANGED <<rights, reloads, context>>

\* POST /admin/reload-policy: policy, declarations, bindings, limits, at once.
ReloadRights(r) ==
  /\ ToolsFirst /\ reloads < MaxReloads /\ r # rights
  /\ rights' = r /\ reloads' = reloads + 1
  /\ UNCHANGED <<invoked, context>>

Marked(a) == a.door # "rest"

\* The backend answers; the front door marks the result by the policy in
\* force now.  The REST contract marks nothing.
ToolAnswers(i, payload) ==
  /\ ToolsFirst /\ i.pc = "calling"
  /\ invoked' = {[i EXCEPT !.pc = "answered", !.payload = payload, !.then = rights,
                           !.mark = IF Marked(i.ask) THEN Marker(Releases[rights], i.ask.tool, payload)
                                                     ELSE NoMark]}
  /\ UNCHANGED <<rights, reloads, context>>

\* It fails, or the call was refused: an error text, which nothing marks.
ToolFails(i) ==
  /\ ToolsFirst /\ i.pc \in {"calling", "refused"}
  /\ invoked' = {[i EXCEPT !.pc = "failed"]}
  /\ UNCHANGED <<rights, reloads, context>>

Result(i) == [marked |-> i.pc = "answered" /\ Marked(i.ask),
              level |-> i.mark.level, external |-> i.mark.external]

Collect(i) ==
  /\ ToolsFirst /\ i.pc \in {"answered", "failed"}
  /\ Cardinality(context \cup {Result(i)}) <= MaxResults
  /\ context' = context \cup {Result(i)}
  /\ invoked' = {}
  /\ UNCHANGED <<rights, reloads>>

-----------------------------------------------------------------------------
\* History, for the properties: what a call owes to its header, to the floors
\* in force, to the results in its context and to its client.
Owed(call) ==
  LET closed == call.client \in FailClosed
      marks == {r \in context : r.marked}
      unmarked == closed /\ \E r \in context : ~r.marked
      demands == {DeclaredLevel(call.header), FloorFor(Floors[table["floors"]], call.task)}
                   \cup (IF call.verified THEN {} ELSE {At(ClientFloors, call.client, NoLevel)})
                   \cup {r.level : r \in marks} \cup (IF unmarked THEN {2} ELSE {})
      level == Highest(demands)
      policy == Policies[table["policy"]]
  IN  [known |-> call.header # Unknown,
       level |-> IF level > 3 THEN 3 ELSE level,
       local |-> \/ call.localHeader \/ level > 3 \/ unmarked
                 \/ \E r \in marks : ~r.external
                 \/ closed /\ level >= 2
                 \/ LocalFor(policy, call.task, level),
       out |-> At(policy.exclude, call.task, {})]

Quiet == started /\ Idle /\ UNCHANGED <<reloadVars, rights, reloads, invoked>>

\* chat_completions up to its candidates; a call without any is refused (422).
\* The context goes with the call: each completion is sent its own.
Route(call) ==
  /\ Quiet /\ invoked = {} /\ routed = {}
  /\ LET policy == Policies[table["policy"]]
         providers == Tables[table["routing"]]
         runs == RunsAt(Floors[table["floors"]], policy, call, context)
         candidates == CandidatesFor(providers, policy, call.task, runs)
     IN  /\ candidates # << >>
         /\ routed' = {[candidates |-> candidates, owed |-> Owed(call),
                        by |-> table["routing"], sent |-> None]}
  /\ context' = {}

\* A name the table in force has, when the candidate is looked up: an empty
\* table knows every name.
Found(name) == LET providers == Tables[table["routing"]] IN providers = << >> \/ name \in Names(providers)

\* A name it has lost ends the call (500).
Send(c) ==
  /\ Quiet /\ c.sent = None /\ UNCHANGED context
  /\ routed' = IF Found(Head(c.candidates)) THEN {[c EXCEPT !.sent = Head(c.candidates)]} ELSE {}

PastHead(c) ==
  IF Len(c.candidates) = 1 THEN {} ELSE {[c EXCEPT !.candidates = Tail(@), !.sent = None]}

\* A candidate may be passed over: too long a prompt, a closed quota class, not
\* available (GatewayCalls has when).
Skip(c) ==
  /\ Quiet /\ c.sent = None /\ UNCHANGED context
  /\ Found(Head(c.candidates))
  /\ routed' = PastHead(c)

ProviderFails(c) == Quiet /\ c.sent # None /\ routed' = PastHead(c) /\ UNCHANGED context

ProviderAnswers(c) == Quiet /\ c.sent # None /\ routed' = {} /\ UNCHANGED context

ReloadStep == ReloadNext /\ invoked = {} /\ UNCHANGED <<mcpVars, routed>>

Next ==
  \/ \E a \in Asks : Ask(a)
  \/ \E r \in DOMAIN Releases : ReloadRights(r)
  \/ \E i \in invoked : \E payload \in Payloads : ToolAnswers(i, payload)
  \/ \E i \in invoked : ToolFails(i) \/ Collect(i)
  \/ \E call \in Calls : Route(call)
  \/ \E c \in routed : Send(c) \/ Skip(c) \/ ProviderFails(c) \/ ProviderAnswers(c)
  \/ ReloadStep

Spec == Init /\ [][Next]_vars

-----------------------------------------------------------------------------
(***************************************************************************)
(* Properties.                                                             *)
(***************************************************************************)
\* The two copies of verify_chain give the same verdict on every chain that
\* was asked for, although one knows experience clients and the other does not.
CopiesAgree ==
  \A i \in invoked :
    LET release == Releases[i.under]
    IN  ChainAccepted(release.agents, release.ceiling, i.ask.groups, i.ask.chain, i.ask.hop)
          <=> A2AChainAccepted(release.agents, release.ceiling, i.ask.groups, i.ask.chain, i.ask.hop)

\* Delegation narrows: of an accepted chain the delegation before the last was
\* acceptable too, and the hop that executes may call the tool on its own.
DelegationNarrows ==
  \A i \in invoked :
    LET release == Releases[i.under]
        chain == i.ask.chain
    IN  i.pc = "calling" /\ chain # << >> =>
          /\ ChainAccepted(release.agents, release.ceiling, i.ask.groups, Before(chain), chain[Len(chain)])
          /\ Evaluate(release, [i.ask EXCEPT !.chain = << >>])

\* A marked result is never below what the entry that let its call through, or
\* a level inside it, asks for.  A reload while the backend works may change
\* the entry: then the new one counts, and a tool it lacks is kept local.
Covers(mark, release, i) ==
  /\ i.ask.tool \in DOMAIN release.tools
  /\ mark.level >= release.tools[i.ask.tool].level /\ mark.level >= i.payload
  /\ mark.external => release.tools[i.ask.tool].external

ResultsKeepTheirLevel ==
  \A i \in invoked :
    i.pc = "answered" /\ Marked(i.ask) =>
      \/ Covers(i.mark, Releases[i.under], i)
      \/ i.then # i.under /\ (Covers(i.mark, Releases[i.then], i) \/ ~i.mark.external)

\* A call is sent only to a provider that the table it was routed by lets have
\* all that the call owes: its header, the floors, each result in its context,
\* its client's, and the task's own policy for the level it ends at.
SentWhereAllowed ==
  \A c \in routed :
    c.sent # None /\ c.owed.known =>
      IF Tables[c.by] = << >> THEN c.sent = "local"
      ELSE \E i \in 1 .. Len(Tables[c.by]) :
             LET p == Tables[c.by][i]
             IN  /\ p.name = c.sent
                 /\ \E l \in p.levels : l >= c.owed.level
                 /\ c.owed.local => p.local
                 /\ p.name \notin c.owed.out

=============================================================================
