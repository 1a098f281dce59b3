------------------------- MODULE DelegationChains -------------------------
(***************************************************************************)
(* The check of a chain of delegations (agent_chain.py: verify_chain), of  *)
(* which the mcp-gateway and the a2a-gateway each have a copy.             *)
(*                                                                         *)
(* A hop is <<agent, task>>.  A chain lists the hops that delegated, from  *)
(* the origin on; with the hop that executes at its end it is a path.  The *)
(* declarations of a release give each agent                               *)
(*   kind     "agent", or "client" for an experience client                *)
(*   active, groups (entitled to it), depth (its max_depth)                *)
(*   tasks    the tools each of its tasks allows                           *)
(*   targets  the hops it may delegate to                                  *)
(***************************************************************************)
EXTENDS Naturals, Sequences

\* Each agent appears once.
NoCycle(path) == \A i, j \in 1 .. Len(path) : path[i][1] = path[j][1] => i = j

Lower(n, m) == IF n <= m THEN n ELSE m

\* Mutant of KnownMember: a client passes for an agent.
AnyMember(declared, hop, groups) ==
  /\ hop[1] \in DOMAIN declared
  /\ declared[hop[1]].active
  /\ hop[2] \in DOMAIN declared[hop[1]].tasks
  /\ declared[hop[1]].groups \cap groups # {}

KnownMember(declared, hop, groups) ==
  /\ hop[1] \in DOMAIN declared
  /\ declared[hop[1]].kind = "agent"
  /\ declared[hop[1]].active
  /\ hop[2] \in DOMAIN declared[hop[1]].tasks
  /\ declared[hop[1]].groups \cap groups # {}

\* The origin's, under the corp ceiling.
Limit(declared, ceiling, chain) == Lower(declared[chain[1][1]].depth, ceiling)

\* Mutant of Targeted: only the delegation to the hop that executes is checked.
LastTargeted(declared, path) ==
  path[Len(path)] \in declared[path[Len(path) - 1][1]].targets

Targeted(declared, path) ==
  \A i \in 1 .. Len(path) - 1 : path[i + 1] \in declared[path[i][1]].targets

\* verify_chain of the mcp-gateway: no refusal.
ChainAccepted(declared, ceiling, groups, chain, hop) ==
  chain # << >> =>
    LET path == Append(chain, hop)
    IN  /\ NoCycle(path)
        /\ \A i \in 1 .. Len(path) : KnownMember(declared, path[i], groups)
        /\ Len(chain) <= Limit(declared, ceiling, chain)
        /\ Targeted(declared, path)

\* The a2a-gateway's store loads no client, and its copy knows no kind.
AgentsOf(declared) ==
  LET agents == {a \in DOMAIN declared : declared[a].kind = "agent"}
  IN  [a \in agents |-> declared[a]]

\* verify_chain of the a2a-gateway.
A2AChainAccepted(declared, ceiling, groups, chain, hop) ==
  chain # << >> =>
    LET path == Append(chain, hop)
        loaded == AgentsOf(declared)
    IN  /\ NoCycle(path)
        /\ \A i \in 1 .. Len(path) : AnyMember(loaded, path[i], groups)
        /\ Len(chain) <= Lower(loaded[chain[1][1]].depth, ceiling)
        /\ Targeted(loaded, path)

\* The delegation that came before the last: of a path of n hops, n - 1.
Before(chain) == SubSeq(chain, 1, Len(chain) - 1)

=============================================================================
