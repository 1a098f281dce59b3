---------------------------- MODULE ToolAccess ----------------------------
(***************************************************************************)
(* The decision of the mcp-gateway on one tool call (policy.py), what its  *)
(* /mcp front door adds (main.py, mcp_frontdoor.py), and the marker it     *)
(* puts on a result.                                                       *)
(*                                                                         *)
(* A release is what the gateway holds after a load of its files:          *)
(*   tools        tool -> [level, external, groups, read], the entries     *)
(*   policyError  its tool policy did not load to the end                  *)
(*   agents       the declarations (see DelegationChains)                  *)
(*   agentsError  they did not load: there are none                        *)
(*   ceiling, allowWrite, writable   the limits of delegation              *)
(* A tool answers to one name here: its aliases stand for the same entry.  *)
(* Levels C1 to C4 are 1 to 4, and Unknown any other text.                 *)
(***************************************************************************)
EXTENDS Naturals, Sequences, DelegationChains

CONSTANTS
  FrontDoorTools,   \* MCP_FRONTDOOR_CAPABILITIES: for a caller without an agent
  EntitledAlways    \* AGENT_ENTITLEMENT_EVERY_CALL

Unknown == 0
Ranked == 1 .. 3

Entitled(release, agent, groups) == release.agents[agent].groups \cap groups # {}

\* _evaluate_tool_policy: the entry, the level of the call, the groups.
ToolPolicy(release, ask) ==
  /\ ~release.policyError
  /\ ask.tool \in DOMAIN release.tools
  /\ LET entry == release.tools[ask.tool]
     IN  /\ ask.level \in Ranked /\ entry.level \in Ranked
         /\ ask.level >= entry.level
         /\ ask.groups \cap entry.groups # {}

DelegatedWrite(release, ask) ==
  release.allowWrite \/ ask.hop \in release.writable \/ release.tools[ask.tool].read

\* evaluate: the declaration, the chain, the task, then the policy.
Evaluate(release, ask) ==
  /\ ~release.agentsError
  /\ ask.hop[1] \in DOMAIN release.agents
  /\ EntitledAlways => Entitled(release, ask.hop[1], ask.groups)
  /\ ChainAccepted(release.agents, release.ceiling, ask.groups, ask.chain, ask.hop)
  /\ ask.hop[2] \in DOMAIN release.agents[ask.hop[1]].tasks
  /\ ask.tool \in release.agents[ask.hop[1]].tasks[ask.hop[2]]
  /\ ToolPolicy(release, ask)
  /\ ask.chain # << >> => DelegatedWrite(release, ask)

\* /mcp with an agent: its entitlement first; the surface it lists is the
\* task's tools, which evaluate asks for again.
FrontDoor(release, ask) ==
  /\ ask.hop[1] \in DOMAIN release.agents => Entitled(release, ask.hop[1], ask.groups)
  /\ Evaluate(release, ask)

\* /mcp without one: the tools exposed in the deployment, and no chain.
Bare(release, ask) ==
  /\ ask.chain = << >>
  /\ ask.tool \in FrontDoorTools
  /\ ToolPolicy(release, ask)

\* What the gateway lets through, by the door of the call.
Authorised(release, ask) ==
  CASE ask.door = "rest" -> Evaluate(release, ask)
    [] ask.door = "mcp"  -> FrontDoor(release, ask)
    [] ask.door = "bare" -> Bare(release, ask)

Higher(n, m) == IF n >= m THEN n ELSE m

\* Mutant of Marker: the payload's own levels are not looked at.
MarkerOfEntry(release, tool, payload) ==
  IF tool \in DOMAIN release.tools
    THEN [level |-> release.tools[tool].level, external |-> release.tools[tool].external]
    ELSE [level |-> 2, external |-> FALSE]

\* _marker_for: the tool's level or the highest inside the result, C1 at least;
\* a tool the policy does not know is C2 and local.
Marker(release, tool, payload) ==
  IF tool \in DOMAIN release.tools
    THEN [level |-> Higher(1, Higher(release.tools[tool].level, payload)),
          external |-> release.tools[tool].external]
    ELSE [level |-> 2, external |-> FALSE]

=============================================================================
