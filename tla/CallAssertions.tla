--------------------------- MODULE CallAssertions ---------------------------
(***************************************************************************)
(* The assertion of one tool call: what the mcp-gateway mints              *)
(* (mcp-gateway/app/call_assertion.py) and what each MCP server makes of   *)
(* it (the block that confluence, git-forge, salesforce and aap share in   *)
(* their server.py).                                                       *)
(*                                                                         *)
(* An assertion is known by its call, which stands for its jti, and by the *)
(* instant it was minted.  Its signature, tool and arguments hold: the     *)
(* gateway sends an assertion with the call it was minted for.             *)
(***************************************************************************)
EXTENDS Naturals

CONSTANTS
  Ttl,      \* MCP_CALL_ASSERTION_TTL_SECONDS
  Leeway    \* CALL_ASSERTION_LEEWAY_SECONDS

ASSUME AssertionAssumption == Ttl \in Nat \ {0} /\ Leeway \in Nat

\* mint: exp.
Exp(iat) == iat + Ttl

\* _verify_call_assertion, of the clock.
Verifies(iat, now) == iat <= now + Leeway /\ now <= Exp(iat) + Leeway

\* Mutant of KeptUntil: a call is forgotten when its assertion expires.
ForgottenAtExp(iat) == Exp(iat)

KeptUntil(iat) == Exp(iat) + Leeway

\* _consume_call_assertion on the calls seen, which are kept with their end:
\* what is still kept, and whether call is new.
Kept(seen, now) == [c \in {c \in DOMAIN seen : seen[c] >= now} |-> seen[c]]

Fresh(seen, call, now) == call \notin DOMAIN Kept(seen, now)

Consumed(seen, call, iat, now) ==
  LET kept == Kept(seen, now)
  IN  [c \in DOMAIN kept \cup {call} |-> IF c = call THEN KeptUntil(iat) ELSE kept[c]]

=============================================================================
