--------------------------- MODULE MCGatewayCalls ---------------------------
(***************************************************************************)
(* GatewayCalls on three providers: the two entries of one local model, of *)
(* which the first goes through MaaS, and one SaaS provider.               *)
(***************************************************************************)
EXTENDS GatewayCalls

CONSTANTS localMaas, local, saas, localService, r1, r2

MCProviders == {localMaas, local, saas}
MCOneProvider == {localMaas}
MCChain == <<localMaas, local, saas>>
MCShortChain == <<localMaas>>
MCMeteredChain == <<localMaas, local>>
MCShortMetered == <<localMaas>>
MCServiceOf == [p \in Providers |-> IF p = saas THEN Unwatched ELSE localService]
MCAllUnwatched == [p \in Providers |-> Unwatched]
MCFamily == [p \in Providers |-> IF p = saas THEN "saas" ELSE "local"]

NoSkips == [tooLong |-> {}, silent |-> {}, denied |-> {}]
ClosedClass == [tooLong |-> {}, silent |-> {}, denied |-> {local, saas}]
LongPromptWithAdapter == [tooLong |-> {local, saas}, silent |-> {localMaas}, denied |-> {}]
MCProfiles == {NoSkips, ClosedClass, LongPromptWithAdapter}
MCNoSkips == {NoSkips}

=============================================================================
