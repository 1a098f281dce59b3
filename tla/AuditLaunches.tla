--------------------------- MODULE AuditLaunches ---------------------------
(***************************************************************************)
(* The one tool that starts automation: cluster_audit of the aap MCP       *)
(* server, from the mcp-gateway's call (mcp-gateway/app/downstream.py) to  *)
(* the job in Ansible Automation Platform (mcp-servers/aap/server.py).     *)
(*                                                                         *)
(* The gateway mints an assertion, opens a session with it and sends the   *)
(* tool call with the same one.  On the way a proxy may deliver the request *)
(* again, early or late.  The server verifies the header, awaits the body, *)
(* consumes the assertion, takes a slot of the caller's limit, looks the   *)
(* template up and posts the launch; a coroutine runs alone between two    *)
(* awaits.  When the gateway's timeout passes, or the connection breaks,   *)
(* the session ends and the coroutine may be cancelled at an await.  The   *)
(* server's one pod may restart and forgets everything.                    *)
(***************************************************************************)
EXTENDS Naturals, FiniteSets, CallAssertions, LaunchLimit

CONSTANTS
  Calls,        \* the tool calls the gateway makes
  Users,        \* who they are for: `sub` of the caller context, or the shared bucket
  CallerOf,     \* call -> user
  Copies,       \* bound: 1 .. Copies are the deliveries of one request
  MaxRestarts   \* bound: restarts of the server

ASSUME CallsAssumption == IsFiniteSet(Calls) /\ CallerOf \in [Calls -> Users]
ASSUME BoundsAssumption == Copies \in Nat /\ MaxRestarts \in Nat

VARIABLES
  now,        \* the clock
  restarts,   \* how often the server was restarted
  minted,     \* when the gateway minted each call's assertion
  gate,       \* the gateway's side of each call
  request,    \* the server's side of each delivery <<c, i>>: where it is, the stamp of
              \* its slot, and, for the properties, whether it consumed the
              \* assertion while that could still be verified
  seen,       \* _CALL_ASSERTION_SEEN
  launches    \* _launches

gatewayVars == <<minted, gate>>
serverVars == <<request, seen, launches>>
vars == <<now, restarts, gatewayVars, serverVars>>

Deliveries == Calls \X (1 .. Copies)
Never == MaxTime + 1
Nothing == [pc |-> "none", stamp |-> Never, timely |-> FALSE]

Init ==
  /\ now = 0 /\ restarts = 0
  /\ minted = [c \in Calls |-> Never]
  /\ gate = [c \in Calls |-> "idle"]
  /\ request = [d \in Deliveries |-> Nothing]
  /\ seen = << >> /\ launches = [u \in Users |-> NoLaunch]

Tick ==
  /\ now < MaxTime
  /\ now' = now + 1
  /\ UNCHANGED <<restarts, gatewayVars, serverVars>>

-----------------------------------------------------------------------------
\* The gateway (_invoke_streamable_http).

GatewayStep(c, from, to) ==
  /\ gate[c] = from
  /\ gate' = [gate EXCEPT ![c] = to]
  /\ UNCHANGED <<now, restarts, serverVars>>

Mint(c) ==
  /\ GatewayStep(c, "idle", "opening")
  /\ minted' = [minted EXCEPT ![c] = now]

\* session.initialize: the server verifies the header and consumes nothing.
Opened(c) ==
  /\ GatewayStep(c, "opening", IF Verifies(minted[c], now) THEN "calling" ELSE "unsent")
  /\ UNCHANGED minted

-----------------------------------------------------------------------------
\* The server.

ServerStep(d, from, to) ==
  /\ request[d].pc = from
  /\ request' = [request EXCEPT ![d].pc = to]
  /\ UNCHANGED <<now, restarts, gatewayVars>>

\* The header has come (__call__).  Deliveries are numbered as they come.
Arrives(d) ==
  /\ gate[d[1]] = "calling"
  /\ \A i \in 1 .. d[2] - 1 : request[<<d[1], i>>].pc # "none"
  /\ ServerStep(d, "none", IF Verifies(minted[d[1]], now) THEN "body" ELSE "refused")
  /\ UNCHANGED <<seen, launches>>

\* The body has come: the assertion is consumed.
BodyRead(d) ==
  /\ request[d].pc = "body"
  /\ request' = [request EXCEPT ![d] = IF Fresh(seen, d[1], now)
                                         THEN [@ EXCEPT !.pc = "tool", !.timely = Verifies(minted[d[1]], now)]
                                         ELSE [@ EXCEPT !.pc = "refused"]]
  /\ seen' = Consumed(seen, d[1], minted[d[1]], now)
  /\ UNCHANGED <<now, restarts, gatewayVars, launches>>

\* cluster_audit takes a slot, or raises RateLimited.
Reserve(d) ==
  LET u == CallerOf[d[1]]
  IN  /\ request[d].pc = "tool"
      /\ request' = [request EXCEPT ![d] = IF Full(launches, u, now)
                                             THEN [@ EXCEPT !.pc = "refused"]
                                             ELSE [@ EXCEPT !.pc = "launching", !.stamp = now]]
      /\ launches' = Reserved(launches, u, now)
      /\ UNCHANGED <<now, restarts, gatewayVars, seen>>

\* External: AAP takes the launch that _launch_cluster_audit posted.
Launch(d) == ServerStep(d, "launching", "launched") /\ UNCHANGED <<seen, launches>>

\* It raises before AAP's answer to the POST: the template is not found, AAP
\* refuses the launch, or its answer does not come in time.
Frees(d) ==
  /\ ServerStep(d, "launching", "freed") \/ ServerStep(d, "launched", "freed")
  /\ launches' = Released(launches, CallerOf[d[1]], request[d].stamp)
  /\ UNCHANGED seen

\* Mutant of PostAnswered: a read that fails gives the slot back.
PostAnsweredFreeing(d) ==
  \/ ServerStep(d, "launched", "done") /\ UNCHANGED <<seen, launches>>
  \/ /\ ServerStep(d, "launched", "unread")
     /\ launches' = Released(launches, CallerOf[d[1]], request[d].stamp)
     /\ UNCHANGED seen

\* AAP has answered (progress["posted"]).  The reads that follow may fail, and
\* leave the slot taken.
PostAnswered(d) ==
  /\ ServerStep(d, "launched", "done") \/ ServerStep(d, "launched", "unread")
  /\ UNCHANGED <<seen, launches>>

\* The session ends before AAP's answer to the POST, and the coroutine is
\* cancelled where it waits.  A CancelledError is not an Exception: the slot
\* stays taken, of a launch AAP has never seen ("dropped") as of one whose
\* answer nobody reads any more ("unheard").
Cancelled(d) ==
  /\ ServerStep(d, "launching", "dropped") \/ ServerStep(d, "launched", "unheard")
  /\ UNCHANGED <<seen, launches>>

\* The pod is replaced, and its deliveries are gone.
Restart ==
  /\ restarts < MaxRestarts
  /\ restarts' = restarts + 1
  /\ request' = [d \in Deliveries |-> IF request[d].pc = "none" THEN Nothing
                                      ELSE [Nothing EXCEPT !.pc = "gone"]]
  /\ seen' = << >> /\ launches' = [u \in Users |-> NoLaunch]
  /\ UNCHANGED <<now, gatewayVars>>

Next ==
  \/ Tick \/ Restart
  \/ \E c \in Calls : Mint(c) \/ Opened(c)
  \/ \E d \in Deliveries :
       \/ Arrives(d) \/ BodyRead(d) \/ Reserve(d)
       \/ Launch(d) \/ Frees(d) \/ PostAnswered(d) \/ Cancelled(d)

Spec == Init /\ [][Next]_vars

-----------------------------------------------------------------------------
(***************************************************************************)
(* Properties, of one pod of the server.                                   *)
(***************************************************************************)
\* An assertion runs its tool once, however often and late its request is
\* delivered: of the deliveries that consumed it while it could still be
\* verified there is one at most.  (One whose body comes later may be another.)
RunsOnce ==
  \A c \in Calls : Cardinality({i \in 1 .. Copies : request[<<c, i>>].timely}) <= 1

Holds(d, u, holding) ==
  /\ CallerOf[d[1]] = u
  /\ request[d].pc \in holding
  /\ Live(request[d].stamp, now)

\* The jobs AAP has launched, but for those whose slot was given back because
\* an error came instead of its answer.
Launched == {"launched", "done", "unread", "unheard"}

\* In any window a caller has no more jobs than its limit, but for those AAP
\* launched and answered with an error, or not in time.  Jobs whose call was
\* cancelled count.
LaunchesLimited ==
  \A u \in Users : Cardinality({d \in Deliveries : Holds(d, u, Launched)}) <= Limit

\* A slot of the window is held by a delivery that may still launch, by one
\* that launched, or by one that was cancelled after it had taken the slot,
\* and by no other; each of those holds one.  So a slot is given back once, by
\* the delivery that took it, and only a cancellation leaves a slot behind
\* that no launch stands for, which server.py:173-174 does not speak of.
SlotsHeld ==
  \A u \in Users : \A t \in 0 .. now :
    Live(t, now) =>
      launches[u][t]
        = Cardinality({d \in Deliveries :
                         /\ Holds(d, u, Launched \cup {"launching", "dropped"})
                         /\ request[d].stamp = t})

=============================================================================
