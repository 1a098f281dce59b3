--------------------------- MODULE MCMeteredCalls ---------------------------
(* Two streams of one person and a unary call of another, who share a      *)
(* tenant.                                                                 *)
EXTENDS MeteredCalls
CONSTANTS s1, s2, u1, alice, bob, tenant

MCPersonaOf == [c \in Calls |-> IF c = u1 THEN bob ELSE alice]
MCLimitsOf == [c \in Calls |-> IF c = u1 THEN {tenant} ELSE {tenant, alice}]
MCCeiling == [l \in Limits |-> IF l = tenant THEN 2 ELSE 3]
MCBudget == [group |-> 4, project |-> 1, user |-> 2]
=============================================================================
