-------------------------- MODULE ToolTurnsProofs --------------------------
(***************************************************************************)
(* Theorems about ToolTurns, for any declarations, releases, chains and    *)
(* contents of the files.                                                  *)
(***************************************************************************)
EXTENDS ToolTurns, SequenceTheorems, FiniteSetTheorems, TLAPS

Invocations ==
  [ask : Asks, under : DOMAIN Releases, payload : Payloads \cup {NoLevel},
   mark : [level : Nat, external : BOOLEAN], then : DOMAIN Releases,
   pc : {"calling", "refused", "answered", "failed"}]

\* The part of the types the arguments need.
InvokedTypes == invoked \subseteq Invocations

\* A call that goes to its backend was let through by the release it came under.
Decided ==
  \A i \in invoked :
    i.pc \in {"calling", "answered"} => Authorised(Releases[i.under], i.ask)

\* A marked result has the mark of the release in force when it came.
MarkedThen ==
  \A i \in invoked :
    i.pc = "answered" /\ Marked(i.ask) =>
      i.mark = Marker(Releases[i.then], i.ask.tool, i.payload)

IInv == rights \in DOMAIN Releases /\ InvokedTypes /\ Decided /\ MarkedThen

-----------------------------------------------------------------------------
(***************************************************************************)
(* Chains of delegations.                                                  *)
(***************************************************************************)
LEMMA PathOf ==
  ASSUME NEW chain \in Seq(Hop), NEW hop \in Hop
  PROVE  /\ Len(chain) \in Nat /\ Len(Append(chain, hop)) = Len(chain) + 1
         /\ \A i \in 1 .. Len(chain) : Append(chain, hop)[i] = chain[i]
         /\ Append(chain, hop)[Len(chain) + 1] = hop
OBVIOUS

\* Of the agents the a2a-gateway loads, any is a known member.
LEMMA MembersAgree ==
  ASSUME NEW declared, NEW hop, NEW groups
  PROVE  KnownMember(declared, hop, groups) <=> AnyMember(AgentsOf(declared), hop, groups)
BY DEF KnownMember, AnyMember, AgentsOf

LEMMA ChecksAgree ==
  ASSUME NEW declared, NEW ceiling, NEW groups, NEW chain \in Seq(Hop), NEW hop \in Hop
  PROVE  ChainAccepted(declared, ceiling, groups, chain, hop)
           <=> A2AChainAccepted(declared, ceiling, groups, chain, hop)
<1> DEFINE path == Append(chain, hop)
           loaded == AgentsOf(declared)
<1>1. CASE chain = << >>
  BY <1>1 DEF ChainAccepted, A2AChainAccepted
<1>2. CASE chain # << >>
  <2>1. CASE ~ \A i \in 1 .. Len(path) : KnownMember(declared, path[i], groups)
    BY <1>2, <2>1, MembersAgree DEF ChainAccepted, A2AChainAccepted
  <2>2. CASE \A i \in 1 .. Len(path) : KnownMember(declared, path[i], groups)
    <3>1. \A i \in 1 .. Len(path) : loaded[path[i][1]] = declared[path[i][1]]
      BY <2>2 DEF KnownMember, AgentsOf
    <3>2. Len(chain) >= 1 /\ path[1] = chain[1] /\ Len(path) = Len(chain) + 1
      BY <1>2, PathOf
    <3>3. loaded[chain[1][1]] = declared[chain[1][1]]
      BY <3>1, <3>2
    <3>4. Targeted(declared, path) <=> Targeted(loaded, path)
      <4> HIDE DEF loaded, path
      <4>1. \A i \in 1 .. Len(path) - 1 : i \in 1 .. Len(path)
        BY <3>2
      <4> QED  BY <3>1, <4>1 DEF Targeted
    <3>5. \A i \in 1 .. Len(path) : AnyMember(loaded, path[i], groups)
      BY <2>2, MembersAgree
    <3> QED  BY <1>2, <2>2, <3>3, <3>4, <3>5 DEF ChainAccepted, A2AChainAccepted, Limit
  <2> QED  BY <2>1, <2>2
<1> QED  BY <1>1, <1>2

\* What a chain without its last delegation is.
LEMMA Shorter ==
  ASSUME NEW chain \in Seq(Hop), chain # << >>
  PROVE  /\ Before(chain) \in Seq(Hop) /\ Len(Before(chain)) = Len(chain) - 1
         /\ chain[Len(chain)] \in Hop
         /\ Before(chain) # << >> => Before(chain)[1] = chain[1]
         /\ Append(Before(chain), chain[Len(chain)]) = chain
<1>1. Len(chain) \in Nat /\ Len(chain) >= 1
  OBVIOUS
<1>2. /\ Before(chain) \in Seq(Hop) /\ Len(Before(chain)) = Len(chain) - 1
      /\ \A i \in 1 .. Len(chain) - 1 : Before(chain)[i] = chain[i]
  <2> DEFINE n == Len(chain) - 1
  <2>1. n \in Nat /\ \A i \in 1 .. n : chain[i] \in Hop
    BY <1>1
  <2>2. /\ SubSeq(chain, 1, n) \in Seq(Hop)
        /\ Len(SubSeq(chain, 1, n)) = IF 1 <= n THEN n - 1 + 1 ELSE 0
        /\ \A i \in 1 .. n - 1 + 1 : SubSeq(chain, 1, n)[i] = chain[1 + i - 1]
    <3>1. 1 \in Int /\ n \in Int
      BY <2>1
    <3> HIDE DEF n
    <3> QED  BY <2>1, <3>1, SubSeqProperties
  <2>3. Len(SubSeq(chain, 1, n)) = n /\ 1 .. n - 1 + 1 = 1 .. n /\ \A i \in 1 .. n : 1 + i - 1 = i
    <3> HIDE DEF n
    <3> QED  BY <2>1, <2>2
  <2> HIDE DEF n
  <2>4. Before(chain) = SubSeq(chain, 1, n)
    BY DEF Before, n
  <2>5. /\ Before(chain) \in Seq(Hop) /\ Len(Before(chain)) = n
        /\ \A i \in 1 .. n : Before(chain)[i] = chain[i]
    BY <2>2, <2>3, <2>4
  <2> QED  BY <2>5 DEF n
<1>3. chain[Len(chain)] \in Hop
  BY <1>1
<1>4. Before(chain) # << >> => Before(chain)[1] = chain[1]
  BY <1>1, <1>2
<1>5. Append(Before(chain), chain[Len(chain)]) = chain
  <2> DEFINE last == chain[Len(chain)]
             path == Append(Before(chain), last)
  <2>1. path \in Seq(Hop) /\ Len(path) = Len(chain)
    BY <1>1, <1>2, <1>3
  <2>2. \A i \in 1 .. Len(chain) : path[i] = chain[i]
    <3>1. \A i \in 1 .. Len(chain) - 1 : path[i] = chain[i]
      BY <1>2, <1>3, PathOf
    <3>2. path[Len(chain)] = chain[Len(chain)]
      BY <1>1, <1>2, <1>3, PathOf
    <3> HIDE DEF path
    <3>3. \A i \in 1 .. Len(chain) : i = Len(chain) \/ i \in 1 .. Len(chain) - 1
      BY <1>1
    <3> QED  BY <3>1, <3>2, <3>3
  <2> HIDE DEF path
  <2> QED  BY <2>1, <2>2, SeqEqual DEF path
<1> QED  BY <1>2, <1>3, <1>4, <1>5

LEMMA AcceptedBefore ==
  ASSUME NEW declared, \A a \in DOMAIN declared : declared[a].depth \in Nat,
         NEW ceiling \in Nat, NEW groups, NEW chain \in Seq(Hop), NEW hop \in Hop,
         chain # << >>, ChainAccepted(declared, ceiling, groups, chain, hop)
  PROVE  ChainAccepted(declared, ceiling, groups, Before(chain), chain[Len(chain)])
<1> DEFINE path == Append(chain, hop)
<1>1. /\ NoCycle(path) /\ Targeted(declared, path)
      /\ \A i \in 1 .. Len(path) : KnownMember(declared, path[i], groups)
      /\ Len(chain) <= Limit(declared, ceiling, chain)
  BY DEF ChainAccepted
<1>2. /\ Len(chain) \in Nat /\ Len(chain) >= 1 /\ Len(path) = Len(chain) + 1
      /\ \A i \in 1 .. Len(chain) : path[i] = chain[i]
  BY PathOf
<1> HIDE DEF path
<1>3. NoCycle(chain)
  BY <1>1, <1>2 DEF NoCycle
<1>4. \A i \in 1 .. Len(chain) : KnownMember(declared, chain[i], groups)
  BY <1>1, <1>2
<1>5. Targeted(declared, chain)
  <2>1. \A i \in 1 .. Len(chain) - 1 : /\ i \in 1 .. Len(path) - 1
                                       /\ path[i] = chain[i] /\ path[i + 1] = chain[i + 1]
    BY <1>2
  <2> QED  BY <1>1, <2>1 DEF Targeted
<1>6. Limit(declared, ceiling, chain) \in Nat
  BY <1>2, <1>4 DEF Limit, Lower, KnownMember
<1>7. Before(chain) # << >> =>
        Len(Before(chain)) <= Limit(declared, ceiling, Before(chain))
  BY <1>1, <1>2, <1>6, Shorter DEF Limit
<1> QED  BY <1>3, <1>4, <1>5, <1>7, Shorter DEF ChainAccepted

-----------------------------------------------------------------------------
(***************************************************************************)
(* The tool calls.                                                         *)
(***************************************************************************)
LEMMA InitIInv == Init => IInv
BY ReleasesAssumption DEF Init, IInv, InvokedTypes, Decided, MarkedThen

LEMMA MarkerTypes ==
  ASSUME NEW name \in DOMAIN Releases, NEW tool, NEW payload \in Payloads \cup {NoLevel}
  PROVE  /\ Marker(Releases[name], tool, payload) \in [level : Levels, external : BOOLEAN]
         /\ Marker(Releases[name], tool, payload) \in [level : Nat, external : BOOLEAN]
BY ReleasesAssumption, PayloadsAssumption DEF Marker, Higher, Levels, Unknown, NoLevel

\* A step of the mcp-gateway is one of these; no other touches its calls.
LEMMA ToolStep ==
  ASSUME IInv, NEW i, invoked' = {i}, rights' = rights,
         i \in Invocations,
         i.pc \in {"calling", "answered"} => Authorised(Releases[i.under], i.ask),
         i.pc = "answered" /\ Marked(i.ask) => i.mark = Marker(Releases[i.then], i.ask.tool, i.payload)
  PROVE  IInv'
BY DEF IInv, InvokedTypes, Decided, MarkedThen

LEMMA NextIInv == IInv /\ [Next]_vars => IInv'
<1> SUFFICES ASSUME IInv, [Next]_vars PROVE IInv'
  OBVIOUS
<1>1. ASSUME NEW a \in Asks, Ask(a) PROVE IInv'
  <2> DEFINE i == [ask |-> a, under |-> rights, payload |-> NoLevel, mark |-> NoMark, then |-> rights,
                   pc |-> IF Authorised(Releases[rights], a) THEN "calling" ELSE "refused"]
  <2>1. invoked' = {i} /\ rights' = rights /\ rights \in DOMAIN Releases
    BY <1>1 DEF Ask, IInv
  <2>2. NoMark \in [level : Nat, external : BOOLEAN]
    BY DEF NoMark, NoLevel
  <2>3. /\ i \in Invocations
        /\ i.pc # "answered"
        /\ i.pc = "calling" => Authorised(Releases[i.under], i.ask)
    BY <2>1, <2>2 DEF Invocations
  <2> HIDE DEF i
  <2> QED  BY <2>1, <2>3, ToolStep
<1>2. ASSUME NEW r \in DOMAIN Releases, ReloadRights(r) PROVE IInv'
  BY <1>2 DEF ReloadRights, IInv, InvokedTypes, Decided, MarkedThen
<1>3. ASSUME NEW i \in invoked, NEW payload \in Payloads, ToolAnswers(i, payload) PROVE IInv'
  <2> DEFINE mark == IF Marked(i.ask) THEN Marker(Releases[rights], i.ask.tool, payload) ELSE NoMark
             next == [i EXCEPT !.pc = "answered", !.payload = payload, !.then = rights, !.mark = mark]
  <2>1. invoked' = {next} /\ rights' = rights /\ rights \in DOMAIN Releases /\ i.pc = "calling"
    BY <1>3 DEF ToolAnswers, IInv
  <2>2. mark \in [level : Nat, external : BOOLEAN]
    BY <2>1, MarkerTypes DEF NoMark, NoLevel
  <2>3. Marked(i.ask) => mark = Marker(Releases[rights], i.ask.tool, payload)
    OBVIOUS
  <2> HIDE DEF mark
  <2>4. i \in Invocations
    BY DEF IInv, InvokedTypes
  <2>5. next \in Invocations
    BY <2>1, <2>2, <2>4 DEF Invocations
  <2>6. /\ next.ask = i.ask /\ next.under = i.under /\ next.payload = payload
        /\ next.then = rights /\ next.mark = mark /\ next.pc = "answered"
    BY <2>4 DEF Invocations
  <2>7. Authorised(Releases[i.under], i.ask)
    BY <2>1 DEF IInv, Decided
  <2> HIDE DEF next
  <2> QED  BY <2>1, <2>3, <2>5, <2>6, <2>7, ToolStep
<1>4. ASSUME NEW i \in invoked, ToolFails(i) PROVE IInv'
  <2> DEFINE next == [i EXCEPT !.pc = "failed"]
  <2>1. invoked' = {next} /\ rights' = rights
    BY <1>4 DEF ToolFails
  <2>2. /\ next \in Invocations
        /\ next.pc = "failed"
    BY DEF IInv, InvokedTypes, Invocations
  <2> HIDE DEF next
  <2> QED  BY <2>1, <2>2, ToolStep
<1>5. ASSUME NEW i \in invoked, Collect(i) PROVE IInv'
  BY <1>5 DEF Collect, IInv, InvokedTypes, Decided, MarkedThen
<1>6. CASE UNCHANGED <<rights, invoked>>
  BY <1>6 DEF IInv, InvokedTypes, Decided, MarkedThen
<1>7. ASSUME NEW call \in Calls, Route(call) PROVE UNCHANGED <<rights, invoked>>
  BY <1>7 DEF Route, Quiet
<1>8. ASSUME NEW c \in routed, Send(c) \/ Skip(c) \/ ProviderFails(c) \/ ProviderAnswers(c)
      PROVE  UNCHANGED <<rights, invoked>>
  BY <1>8 DEF Send, Skip, ProviderFails, ProviderAnswers, Quiet
<1>9. CASE ReloadStep \/ UNCHANGED vars
  BY <1>9, <1>6 DEF ReloadStep, vars, mcpVars
<1> QED  BY <1>1, <1>2, <1>3, <1>4, <1>5, <1>6, <1>7, <1>8, <1>9 DEF Next

LEMMA Invariant == Spec => []IInv
BY InitIInv, NextIInv, PTL DEF Spec

LEMMA AsksTypes ==
  ASSUME NEW ask \in Asks
  PROVE  /\ ask.chain \in Seq(Hop) /\ ask.hop \in Hop
         /\ ask.door \in {"rest", "mcp", "bare"}
BY AsksAssumption

(***************************************************************************)
(* verify_chain of both gateways: for any declarations and ceiling, and    *)
(* any chain a call may carry, the copies give one verdict.                *)
(***************************************************************************)
THEOREM ChainChecksAgree == Spec => []CopiesAgree
<1>1. IInv => CopiesAgree
  <2> SUFFICES ASSUME IInv, NEW i \in invoked
               PROVE  LET release == Releases[i.under]
                      IN  ChainAccepted(release.agents, release.ceiling, i.ask.groups, i.ask.chain, i.ask.hop)
                            <=> A2AChainAccepted(release.agents, release.ceiling, i.ask.groups, i.ask.chain, i.ask.hop)
    BY DEF CopiesAgree
  <2>1. i.ask \in Asks
    BY DEF IInv, InvokedTypes, Invocations
  <2> QED  BY <2>1, AsksTypes, ChecksAgree
<1> QED  BY <1>1, Invariant, PTL

\* A decision on a delegated call, and on the same call without its chain.
LEMMA EvaluatedAlone ==
  ASSUME NEW release, NEW ask \in Asks, Evaluate(release, ask)
  PROVE  Evaluate(release, [ask EXCEPT !.chain = << >>])
<1> DEFINE alone == [ask EXCEPT !.chain = << >>]
<1>1. /\ alone.chain = << >> /\ alone.hop = ask.hop /\ alone.tool = ask.tool
      /\ alone.groups = ask.groups /\ alone.level = ask.level
  BY AsksAssumption
<1> HIDE DEF alone
<1>2. Evaluate(release, alone)
  BY <1>1 DEF Evaluate, ChainAccepted, ToolPolicy
<1> QED  BY <1>2 DEF alone

(***************************************************************************)
(* evaluate: whatever the declarations, a call that a chain of agents asks *)
(* for is one its last agent may make alone, at the end of a chain each of *)
(* whose beginnings is acceptable too.                                     *)
(***************************************************************************)
THEOREM DelegationOnlyNarrows == Spec => []DelegationNarrows
<1>1. IInv => DelegationNarrows
  <2> SUFFICES ASSUME IInv, NEW i \in invoked, i.pc = "calling", i.ask.chain # << >>
               PROVE  LET release == Releases[i.under]
                          chain == i.ask.chain
                      IN  /\ ChainAccepted(release.agents, release.ceiling, i.ask.groups, Before(chain), chain[Len(chain)])
                          /\ Evaluate(release, [i.ask EXCEPT !.chain = << >>])
    BY DEF DelegationNarrows
  <2> DEFINE release == Releases[i.under]
             ask == i.ask
  <2>1. ask \in Asks /\ i.under \in DOMAIN Releases
    BY DEF IInv, InvokedTypes, Invocations
  <2>2. ask.chain \in Seq(Hop) /\ ask.hop \in Hop /\ ask.door \in {"rest", "mcp", "bare"}
    BY <2>1, AsksTypes
  <2>3. /\ release.ceiling \in Nat
        /\ \A a \in DOMAIN release.agents : release.agents[a].depth \in Nat
    BY <2>1, ReleasesAssumption
  <2>4. Authorised(release, ask)
    BY DEF IInv, Decided
  <2> HIDE DEF release, ask
  <2>5. Evaluate(release, ask)
    BY <2>2, <2>4 DEF Authorised, FrontDoor, Bare, ask
  <2>6. ChainAccepted(release.agents, release.ceiling, ask.groups, ask.chain, ask.hop)
    BY <2>5 DEF Evaluate
  <2>7. ChainAccepted(release.agents, release.ceiling, ask.groups, Before(ask.chain), ask.chain[Len(ask.chain)])
    BY <2>2, <2>3, <2>6, AcceptedBefore DEF ask
  <2> QED  BY <2>1, <2>5, <2>7, EvaluatedAlone DEF release, ask
<1> QED  BY <1>1, Invariant, PTL

(***************************************************************************)
(* _marker_for: whatever the policies and whenever one replaces the other, *)
(* a marked result asks for what the entry that let its call through asked *)
(* for, or what the entry in force when it came does, or stays local.      *)
(***************************************************************************)
THEOREM MarkedResultsKeepTheirLevel == Spec => []ResultsKeepTheirLevel
<1>1. IInv => ResultsKeepTheirLevel
  <2> SUFFICES ASSUME IInv, NEW i \in invoked, i.pc = "answered", Marked(i.ask)
               PROVE  \/ Covers(i.mark, Releases[i.under], i)
                      \/ i.then # i.under /\ (Covers(i.mark, Releases[i.then], i) \/ ~i.mark.external)
    BY DEF ResultsKeepTheirLevel
  <2>1. /\ i.ask \in Asks /\ i.under \in DOMAIN Releases /\ i.then \in DOMAIN Releases
        /\ i.payload \in Nat
    <3>1. /\ i.ask \in Asks /\ i.under \in DOMAIN Releases /\ i.then \in DOMAIN Releases
          /\ i.payload \in Payloads \cup {NoLevel}
      BY DEF IInv, InvokedTypes, Invocations
    <3>2. NoLevel \in Nat
      BY DEF NoLevel
    <3>3. \A p \in Payloads : p \in Nat
      BY PayloadsAssumption DEF NoLevel, Levels
    <3> QED  BY <3>1, <3>2, <3>3
  <2>2. i.mark = Marker(Releases[i.then], i.ask.tool, i.payload)
    BY DEF IInv, MarkedThen
  <2>3. i.ask.tool \in DOMAIN Releases[i.under].tools
    <3>1. Authorised(Releases[i.under], i.ask) /\ i.ask.door \in {"rest", "mcp", "bare"}
      BY <2>1, AsksTypes DEF IInv, Decided
    <3>2. ToolPolicy(Releases[i.under], i.ask)
      BY <3>1 DEF Authorised, FrontDoor, Bare, Evaluate
    <3> QED  BY <3>2 DEF ToolPolicy
  <2>4. CASE i.ask.tool \in DOMAIN Releases[i.then].tools
    <3>1. Releases[i.then].tools[i.ask.tool].level \in Nat
      BY <2>1, <2>4, ReleasesAssumption DEF Unknown, Levels
    <3>2. Covers(i.mark, Releases[i.then], i)
      <4> DEFINE entry == Releases[i.then].tools[i.ask.tool]
                 top == Higher(1, Higher(entry.level, i.payload))
      <4>1. i.mark.level = top /\ i.mark.external = entry.external
        BY <2>2, <2>4 DEF Marker
      <4>2. top >= entry.level /\ top >= i.payload
        BY <2>1, <3>1 DEF Higher
      <4> HIDE DEF top
      <4> QED  BY <2>4, <4>1, <4>2 DEF Covers
    <3> QED  BY <3>2
  <2>5. CASE i.ask.tool \notin DOMAIN Releases[i.then].tools
    <3>1. ~i.mark.external /\ i.then # i.under
      BY <2>2, <2>3, <2>5 DEF Marker
    <3> QED  BY <3>1
  <2> QED  BY <2>4, <2>5
<1> QED  BY <1>1, Invariant, PTL

-----------------------------------------------------------------------------
(***************************************************************************)
(* The files of the ai-gateway.                                            *)
(***************************************************************************)
Shapes ==
  /\ DOMAIN disk = Files /\ DOMAIN digest = Files
  /\ DOMAIN table = Files /\ DOMAIN held = Files

\* What a tick has seen of its file is what the file holds, or has held.
Sighted ==
  /\ at \in 0 .. Len(Watched)
  /\ at = 0 => saw = None
  /\ at > 0 => started
  /\ checked => at > 0 /\ saw # None
  /\ at > 0 /\ saw # None => saw \in held[Watched[at]] \cup {disk[Watched[at]]}

\* So is what the watch has taken note of.  It takes note of a policy that
\* makes its loader raise only when the file holds it no more.
Noted ==
  \A f \in Files :
    /\ ~started => disk[f] \in held[f]
    /\ started => digest[f] \in held[f] \cup {disk[f]}
    /\ started /\ digest[f] = Poison => Poison \in held[f]

RInv == Shapes /\ Sighted /\ Noted /\ NotedIsLoaded

LEMMA FileAt ==
  ASSUME at \in 0 .. Len(Watched), at > 0
  PROVE  Watched[at] \in Files
BY WatchedAssumption

LEMMA InitRInv == Init => RInv
BY WatchedAssumption DEF Init, ReloadInit, RInv, Shapes, Sighted, Noted, NotedIsLoaded

\* A text that is a table is loaded as it is.
LEMMA MappingLoaded ==
  ASSUME NEW f, NEW c, NEW old, IsMapping(c), c # Poison
  PROVE  Loaded(f, c, old) = c
BY DEF Loaded, IsMapping, Raises

LEMMA NextFileKeeps ==
  ASSUME Sighted, at > 0, NextFile
  PROVE  /\ at' \in 0 .. Len(Watched) /\ saw' = None /\ ~checked'
BY WatchedAssumption DEF Sighted, NextFile

LEMMA ReloadKeeps == RInv /\ ReloadNext => RInv'
<1> SUFFICES ASSUME RInv, ReloadNext PROVE RInv'
  OBVIOUS
<1>1. ASSUME NEW f \in Files, NEW c \in Contents[f], Write(f, c) PROVE RInv'
  <2>1. /\ DOMAIN disk' = Files /\ DOMAIN held' = Files
        /\ disk'[f] = c /\ held'[f] = held[f] \cup {IF started THEN disk[f] ELSE c}
        /\ \A g \in Files \ {f} : disk'[g] = disk[g] /\ held'[g] = held[g]
        /\ UNCHANGED <<digest, table, at, saw, checked, started>>
    BY <1>1 DEF Write, RInv, Shapes
  <2>2. at > 0 => Watched[at] \in Files
    BY FileAt DEF RInv, Sighted
  <2>3. Sighted'
    BY <2>1, <2>2 DEF RInv, Sighted
  <2>4. Noted'
    BY <2>1 DEF RInv, Noted
  <2>5. NotedIsLoaded'
    BY <2>1 DEF RInv, Noted, NotedIsLoaded
  <2> QED  BY <2>1, <2>3, <2>4, <2>5 DEF RInv, Shapes
<1>2. CASE StartWatch
  BY <1>2 DEF StartWatch, RInv, Shapes, Sighted, Noted, NotedIsLoaded
<1>3. CASE Tick
  BY <1>3, WatchedAssumption DEF Tick, Idle, RInv, Shapes, Sighted, Noted, NotedIsLoaded
<1>4. CASE ReadDigest
  <2>1. Sighted'
    BY <1>4, NextFileKeeps DEF ReadDigest, RInv, Sighted
  <2> QED  BY <2>1, <1>4 DEF ReadDigest, RInv, Shapes, Noted, NotedIsLoaded
<1>5. CASE ReadToCheck
  <2> DEFINE f == Watched[at]
  <2>1. f \in Files /\ at > 0 /\ started /\ saw \in held[f] \cup {disk[f]}
    BY <1>5, FileAt DEF ReadToCheck, RInv, Sighted
  <2>2. CASE IsMapping(disk[f])
    BY <1>5, <2>2 DEF ReadToCheck, RInv, Shapes, Sighted, Noted, NotedIsLoaded
  <2>3. CASE ~IsMapping(disk[f])
    <3>1. /\ digest' = [digest EXCEPT ![f] = saw] /\ NextFile
          /\ UNCHANGED <<disk, table, started, held>>
      BY <1>5, <2>3 DEF ReadToCheck
    <3>2. DOMAIN digest' = Files /\ \A g \in Files : digest'[g] = IF g = f THEN saw ELSE digest[g]
      BY <3>1 DEF RInv, Shapes
    <3>3. disk[f] # Poison
      BY <2>3, WatchedAssumption DEF IsMapping
    <3>4. Sighted'
      BY <2>1, <3>1, NextFileKeeps DEF RInv, Sighted
    <3>5. Noted'
      BY <2>1, <3>1, <3>2, <3>3 DEF RInv, Noted
    <3>6. NotedIsLoaded'
      BY <2>3, <3>1, <3>2 DEF RInv, NotedIsLoaded, IsMapping
    <3> QED  BY <3>1, <3>2, <3>4, <3>5, <3>6 DEF RInv, Shapes
  <2> QED  BY <2>2, <2>3
<1>6. CASE ReadToLoad
  <2> DEFINE f == Watched[at]
  <2>1. f \in Files /\ at > 0 /\ started /\ saw \in held[f] \cup {disk[f]}
    BY <1>6, FileAt DEF ReadToLoad, RInv, Sighted
  <2>2. /\ DOMAIN table' = Files
        /\ \A g \in Files : table'[g] = IF g = f THEN Loaded(f, disk[f], table[f]) ELSE table[g]
        /\ UNCHANGED <<disk, started, held>>
    BY <1>6, <2>1 DEF ReadToLoad, RInv, Shapes
  <2>3. CASE Raises(disk[f])
    <3>1. at' = 0 /\ saw' = None /\ checked' = FALSE /\ UNCHANGED digest
      BY <1>6, <2>3 DEF ReadToLoad
    <3>2. Sighted'
      BY <2>2, <3>1, WatchedAssumption DEF RInv, Sighted
    <3>3. Noted'
      BY <2>2, <3>1 DEF RInv, Noted
    <3>4. NotedIsLoaded'
      BY <2>1, <2>2, <2>3, <3>1 DEF RInv, Noted, NotedIsLoaded, IsMapping, Raises
    <3> QED  BY <2>2, <3>1, <3>2, <3>3, <3>4 DEF RInv, Shapes
  <2>4. CASE ~Raises(disk[f])
    <3>1. digest' = [digest EXCEPT ![f] = saw] /\ NextFile
      BY <1>6, <2>4 DEF ReadToLoad
    <3>2. DOMAIN digest' = Files /\ \A g \in Files : digest'[g] = IF g = f THEN saw ELSE digest[g]
      BY <3>1 DEF RInv, Shapes
    <3>3. Sighted'
      BY <2>1, <2>2, <3>1, NextFileKeeps DEF RInv, Sighted
    <3>4. Noted'
      BY <2>1, <2>2, <2>4, <3>2 DEF RInv, Noted, Raises
    <3>5. IsMapping(disk[f]) => table'[f] = disk[f]
      BY <2>1, <2>2, <2>4, MappingLoaded DEF Raises
    <3>6. NotedIsLoaded'
      BY <2>2, <3>2, <3>5 DEF RInv, NotedIsLoaded, IsMapping
    <3> QED  BY <2>2, <3>2, <3>3, <3>4, <3>6 DEF RInv, Shapes
  <2> QED  BY <2>3, <2>4
<1>7. CASE AdminReload
  <2>1. /\ UNCHANGED <<disk, digest, at, saw, checked, started, held>>
        /\ DOMAIN table' = Files
        /\ \A f \in Files : table'[f] \in {Loaded(f, disk[f], table[f]), table[f]}
    BY <1>7 DEF AdminReload
  <2>2. Sighted' /\ Noted'
    BY <2>1 DEF RInv, Sighted, Noted
  <2>3. NotedIsLoaded'
    BY <2>1, MappingLoaded DEF RInv, Noted, NotedIsLoaded, IsMapping
  <2> QED  BY <2>1, <2>2, <2>3 DEF RInv, Shapes
<1> QED  BY <1>1, <1>2, <1>3, <1>4, <1>5, <1>6, <1>7 DEF ReloadNext, TickStep

LEMMA NextRInv == RInv /\ [Next]_vars => RInv'
<1> SUFFICES ASSUME RInv, [Next]_vars PROVE RInv'
  OBVIOUS
<1>1. CASE UNCHANGED reloadVars
  BY <1>1 DEF reloadVars, RInv, Shapes, Sighted, Noted, NotedIsLoaded, IsMapping
<1>2. CASE ReloadStep
  BY <1>2, ReloadKeeps DEF ReloadStep
<1>3. ASSUME NEW a \in Asks, Ask(a) PROVE UNCHANGED reloadVars
  BY <1>3 DEF Ask, ToolsFirst
<1>4. ASSUME NEW r \in DOMAIN Releases, ReloadRights(r) PROVE UNCHANGED reloadVars
  BY <1>4 DEF ReloadRights, ToolsFirst
<1>5. ASSUME NEW i \in invoked, ToolFails(i) \/ Collect(i) \/ \E payload \in Payloads : ToolAnswers(i, payload)
      PROVE  UNCHANGED reloadVars
  BY <1>5 DEF ToolFails, Collect, ToolAnswers, ToolsFirst
<1>6. ASSUME NEW call \in Calls, Route(call) PROVE UNCHANGED reloadVars
  BY <1>6 DEF Route, Quiet
<1>7. ASSUME NEW c \in routed, Send(c) \/ Skip(c) \/ ProviderFails(c) \/ ProviderAnswers(c)
      PROVE  UNCHANGED reloadVars
  BY <1>7 DEF Send, Skip, ProviderFails, ProviderAnswers, Quiet
<1>8. CASE UNCHANGED vars
  BY <1>8, <1>1 DEF vars
<1> QED  BY <1>1, <1>2, <1>3, <1>4, <1>5, <1>6, <1>7, <1>8 DEF Next

(***************************************************************************)
(* RoutingWatcher.check_once, the admin reload and the loaders: whatever   *)
(* the files, and whenever the kubelet replaces them between the three     *)
(* reads, a content that was taken note of is in force.                    *)
(***************************************************************************)
THEOREM NotedContentsAreLoaded == Spec => []NotedIsLoaded
<1>1. RInv => NotedIsLoaded
  BY DEF RInv
<1> QED  BY <1>1, InitRInv, NextRInv, PTL DEF Spec

-----------------------------------------------------------------------------
(***************************************************************************)
(* The candidates of a call.                                               *)
(***************************************************************************)
\* Of n places the k-th is the one up to which there are k.
LEMMA KthPlace ==
  ASSUME NEW n \in Nat, NEW places \in SUBSET (1 .. n), NEW k \in 1 .. Cardinality(places)
  PROVE  \E i \in places : Cardinality({j \in places : j <= i}) = k
<1> DEFINE upto(i) == {j \in places : j <= i}
           c == Cardinality(places)
           rank == [i \in places |-> Cardinality(upto(i))]
<1> SUFFICES ASSUME \A i \in places : rank[i] # k PROVE FALSE
  OBVIOUS
<1>1. IsFiniteSet(places) /\ c \in Nat
  <2>1. IsFiniteSet(1 .. n)
    BY FS_Interval
  <2> QED  BY <2>1, FS_Subset, FS_CardinalityType
<1>2. ASSUME NEW i \in places
      PROVE  IsFiniteSet(upto(i)) /\ Cardinality(upto(i)) \in 1 .. c
  <2>1. upto(i) \in SUBSET places
    OBVIOUS
  <2>2. IsFiniteSet(upto(i)) /\ Cardinality(upto(i)) <= c
    BY <1>1, <2>1, FS_Subset
  <2>3. upto(i) # {}
    OBVIOUS
  <2>4. Cardinality(upto(i)) \in Nat /\ Cardinality(upto(i)) # 0
    BY <2>2, <2>3, FS_CardinalityType, FS_EmptySet
  <2> QED  BY <2>2, <2>4, <1>1
<1>3. ASSUME NEW i \in places, NEW j \in places, i < j
      PROVE  Cardinality(upto(i)) < Cardinality(upto(j))
  <2>1. PICK A, B : A = upto(i) /\ B = upto(j)
    OBVIOUS
  <2>2. A \in SUBSET B /\ A # B
    <3>1. \A l : l \in A => l \in B
      BY <1>3, <2>1
    <3>2. j \in B /\ j \notin A
      BY <1>3, <2>1
    <3> QED  BY <3>1, <3>2
  <2>3. IsFiniteSet(B) /\ Cardinality(A) \in Nat /\ Cardinality(B) \in Nat
    BY <1>1, <1>2, <2>1
  <2>4. Cardinality(A) <= Cardinality(B) /\ Cardinality(B) # Cardinality(A)
    BY <2>2, <2>3, FS_Subset
  <2>5. Cardinality(A) < Cardinality(B)
    BY <2>3, <2>4
  <2> QED  BY <2>1, <2>5
<1> HIDE DEF upto
<1>4. \A i, j \in places : i # j => rank[i] # rank[j]
  <2>1. \A i \in places : rank[i] = Cardinality(upto(i)) /\ rank[i] \in Nat
    BY <1>2, <1>1
  <2>2. \A i, j \in places : i < j \/ j < i \/ i = j
    OBVIOUS
  <2> QED  BY <1>3, <2>1, <2>2
<1>5. PICK ranks : ranks = (1 .. c) \ {k}
  OBVIOUS
<1>6. rank \in [places -> ranks]
  BY <1>2, <1>5
<1>7. IsFiniteSet(ranks) /\ Cardinality(ranks) = c - 1
  <2>1. IsFiniteSet(1 .. c) /\ Cardinality(1 .. c) = c /\ k \in 1 .. c
    <3>1. Cardinality(1 .. c) = IF 1 > c THEN 0 ELSE c - 1 + 1
      BY SMTT(30), <1>1, FS_Interval
    <3> QED  BY <1>1, <3>1, FS_Interval
  <2>2. PICK all : all = 1 .. c
    OBVIOUS
  <2>3. IsFiniteSet(all) /\ Cardinality(all) = c /\ k \in all /\ ranks = all \ {k}
    BY <1>5, <2>1, <2>2
  <2>4. /\ IsFiniteSet(all \ {k})
        /\ Cardinality(all \ {k}) = IF k \in all THEN Cardinality(all) - 1 ELSE Cardinality(all)
    BY <2>3, FS_RemoveElement, Zenon
  <2> QED  BY <2>3, <2>4
<1> HIDE DEF rank
<1>8. \E x, y \in places : x # y /\ rank[x] = rank[y]
  <2>1. Cardinality(ranks) < Cardinality(places)
    BY <1>1, <1>7
  <2> QED  BY <1>1, <1>6, <1>7, <2>1, FS_PigeonHole
<1> QED  BY <1>4, <1>8

\* What Only keeps is in the sequence and in the set.
LEMMA OnlyKeeps ==
  ASSUME NEW T, NEW s \in Seq(T), NEW S
  PROVE  /\ Only(s, S) \in Seq(T)
         /\ \A k \in 1 .. Len(Only(s, S)) :
              \E i \in 1 .. Len(s) : Only(s, S)[k] = s[i] /\ s[i] \in S
<1> DEFINE places == {i \in DOMAIN s : s[i] \in S}
           c == Cardinality(places)
           place(k) == CHOOSE i \in places : Cardinality({j \in places : j <= i}) = k
<1>1. DOMAIN s = 1 .. Len(s) /\ Len(s) \in Nat /\ \A i \in 1 .. Len(s) : s[i] \in T
  OBVIOUS
<1>2. places \in SUBSET (1 .. Len(s))
  BY <1>1
<1>3. c \in Nat
  <2>1. IsFiniteSet(1 .. Len(s))
    BY <1>1, FS_Interval
  <2> QED  BY <1>2, <2>1, FS_Subset, FS_CardinalityType
<1>4. Only(s, S) = [k \in 1 .. c |-> s[place(k)]]
  BY DEF Only
<1>5. ASSUME NEW k \in 1 .. c PROVE place(k) \in places
  <2>1. \E i \in places : Cardinality({j \in places : j <= i}) = k
    <3> HIDE DEF places
    <3> QED  BY <1>1, <1>2, KthPlace
  <2> QED  BY <2>1
<1>6. \A i \in places : i \in 1 .. Len(s) /\ s[i] \in S
  BY <1>1
<1> HIDE DEF c, places, place
<1>7. \A k \in 1 .. c : s[place(k)] \in T
  BY <1>1, <1>5, <1>6
<1>8. Only(s, S) \in Seq(T) /\ Len(Only(s, S)) = c
  BY <1>3, <1>4, <1>7
<1> QED  BY <1>4, <1>5, <1>6, <1>8


\* The names of providers; to the provers no word is in STRING by itself.
Words == STRING \cup {"local"}

Providers == [name : STRING, local : BOOLEAN, levels : SUBSET Levels]

\* What candidates_for promises of a name: a provider of the table has it, may
\* have the level, is local where that is asked for and is not excluded.
Serves(providers, name, level, local, out) ==
  IF providers = << >> THEN name = "local"
  ELSE \E i \in 1 .. Len(providers) :
         LET p == providers[i]
         IN  p.name = name /\ level \in p.levels /\ (local => p.local) /\ p.name \notin out

LEMMA OrderedServes ==
  ASSUME NEW names \in Seq(Words), NEW preference \in Seq(Words), NEW strict,
         NEW S, \A k \in 1 .. Len(names) : names[k] \in S
  PROVE  /\ Ordered(preference, strict, names) \in Seq(Words)
         /\ \A k \in 1 .. Len(Ordered(preference, strict, names)) :
              Ordered(preference, strict, names)[k] \in S
<1> DEFINE preferred == Only(preference, Range(names))
           rest == Only(names, Range(names) \ Range(preferred))
<1>1. \A x \in Range(names) : x \in S
  BY DEF Range
<1>2. preferred \in Seq(Words) /\ \A k \in 1 .. Len(preferred) : preferred[k] \in S
  BY <1>1, OnlyKeeps
<1>3. rest \in Seq(Words) /\ \A k \in 1 .. Len(rest) : rest[k] \in S
  BY <1>1, OnlyKeeps
<1>4. Ordered(preference, strict, names) =
        IF preference = << >> THEN names ELSE IF strict THEN preferred ELSE preferred \o rest
  BY DEF Ordered
<1> HIDE DEF preferred, rest
<1>5. /\ preferred \o rest \in Seq(Words)
      /\ \A k \in 1 .. Len(preferred \o rest) : (preferred \o rest)[k] \in S
  BY <1>2, <1>3
<1> QED  BY <1>2, <1>4, <1>5

LEMMA CandidatesServe ==
  ASSUME NEW providers \in Seq(Providers), NEW policy, NEW task, NEW runs,
         At(policy.prefer, task, << >>) \in Seq(Words)
  PROVE  LET candidates == CandidatesFor(providers, policy, task, runs)
         IN  /\ candidates \in Seq(Words)
             /\ candidates # << >> => runs.level \in Routable
             /\ \A k \in 1 .. Len(candidates) :
                  Serves(providers, candidates[k], runs.level, runs.local, At(policy.exclude, task, {}))
<1> DEFINE out == At(policy.exclude, task, {})
           keep == {p \in Range(providers) : runs.level \in p.levels /\ (runs.local => p.local)}
           eligible == Only(providers, keep)
           names == [i \in DOMAIN eligible |-> eligible[i].name]
           allowed == Only(names, Range(names) \ out)
           S == {n \in Words : Serves(providers, n, runs.level, runs.local, out)}
           preference == At(policy.prefer, task, << >>)
           strict == task \in policy.strict
<1>1. CandidatesFor(providers, policy, task, runs) =
        IF runs.level \notin Routable THEN << >>
        ELSE IF providers = << >> THEN <<"local">> ELSE Ordered(preference, strict, allowed)
  BY DEF CandidatesFor, Eligible
<1>2. /\ eligible \in Seq(Providers)
      /\ \A k \in 1 .. Len(eligible) : \E i \in 1 .. Len(providers) :
           eligible[k] = providers[i] /\ providers[i] \in keep
  <2> HIDE DEF keep
  <2> QED  BY OnlyKeeps
<1> HIDE DEF eligible
<1>3. names \in Seq(Words) /\ Len(names) = Len(eligible)
      /\ \A k \in 1 .. Len(names) : names[k] = eligible[k].name
  <2>1. DOMAIN eligible = 1 .. Len(eligible) /\ Len(eligible) \in Nat
    BY <1>2
  <2>2. \A k \in 1 .. Len(eligible) : eligible[k].name \in Words
    <3>1. \A k \in 1 .. Len(eligible) : eligible[k] \in Providers
      BY <1>2
    <3>2. \A p \in Providers : p.name \in Words
      BY DEF Providers, Words
    <3> QED  BY <3>1, <3>2
  <2>3. names = [k \in 1 .. Len(eligible) |-> eligible[k].name]
    BY <2>1
  <2> QED  BY <2>1, <2>2, <2>3
<1> HIDE DEF names
<1>4. /\ allowed \in Seq(Words)
      /\ \A k \in 1 .. Len(allowed) : \E i \in 1 .. Len(names) :
           allowed[k] = names[i] /\ names[i] \in Range(names) \ out
  BY <1>3, OnlyKeeps
<1> HIDE DEF allowed
<1>5. ASSUME providers # << >>, NEW k \in 1 .. Len(allowed) PROVE allowed[k] \in S
  <2>1. PICK i \in 1 .. Len(names) : allowed[k] = names[i] /\ names[i] \notin out
    BY <1>4
  <2>2. PICK j \in 1 .. Len(providers) : eligible[i] = providers[j] /\ providers[j] \in keep
    BY <1>2, <1>3
  <2>3. allowed[k] = providers[j].name /\ allowed[k] \in Words
    BY <1>3, <1>4, <2>1, <2>2
  <2>4. runs.level \in providers[j].levels /\ (runs.local => providers[j].local)
    BY <2>2
  <2> HIDE DEF out
  <2> QED  BY <1>5, <2>1, <2>3, <2>4 DEF Serves
<1> HIDE DEF S, out, keep, preference, strict
<1>6. CASE runs.level \notin Routable
  BY <1>1, <1>6
<1>7. CASE runs.level \in Routable /\ providers = << >>
  <2>1. CandidatesFor(providers, policy, task, runs) = <<"local">>
    BY <1>1, <1>7
  <2>2. Serves(providers, "local", runs.level, runs.local, At(policy.exclude, task, {}))
    BY <1>7 DEF Serves
  <2>3. PICK c : c = <<"local">>
    OBVIOUS
  <2>4. c \in Seq(Words) /\ \A k \in 1 .. Len(c) : c[k] = "local"
    <3>1. "local" \in Words
      BY DEF Words
    <3>2. c \in Seq(Words)
      BY <2>3, <3>1
    <3>3. Len(c) = 1 /\ c[1] = "local"
      BY <2>3
    <3> QED  BY <3>2, <3>3
  <2> QED  BY <1>7, <2>1, <2>2, <2>3, <2>4
<1>8. CASE runs.level \in Routable /\ providers # << >>
  <2>1. CandidatesFor(providers, policy, task, runs) = Ordered(preference, strict, allowed)
    BY <1>1, <1>8
  <2>2. /\ Ordered(preference, strict, allowed) \in Seq(Words)
        /\ \A k \in 1 .. Len(Ordered(preference, strict, allowed)) :
             Ordered(preference, strict, allowed)[k] \in S
    BY <1>4, <1>5, <1>8, OrderedServes DEF preference
  <2> QED  BY <1>8, <2>1, <2>2 DEF S, out
<1> QED  BY <1>6, <1>7, <1>8


\* The level of a call.
LEMMA HighestIs ==
  ASSUME NEW D \in SUBSET (0 .. 4), D # {}
  PROVE  Highest(D) \in D /\ \A m \in D : m <= Highest(D)
<1>1. \E n \in D : \A m \in D : m <= n
  <2>1. CASE 4 \in D
    BY <2>1
  <2>2. CASE 4 \notin D /\ 3 \in D
    BY <2>2
  <2>3. CASE 4 \notin D /\ 3 \notin D /\ 2 \in D
    BY <2>3
  <2>4. CASE 4 \notin D /\ 3 \notin D /\ 2 \notin D /\ 1 \in D
    BY <2>4
  <2>5. CASE 4 \notin D /\ 3 \notin D /\ 2 \notin D /\ 1 \notin D
    <3>1. \A m \in D : m = 0
      BY <2>5
    <3>2. 0 \in D
      BY <3>1
    <3> QED  BY <3>1, <3>2
  <2> QED  BY <2>1, <2>2, <2>3, <2>4, <2>5
<1> QED  BY <1>1 DEF Highest

LEMMA FloorLevels ==
  ASSUME NEW floors \in DOMAIN Floors, NEW task
  PROVE  FloorFor(Floors[floors], task) \in 0 .. 4
<1>1. \A t \in DOMAIN Floors[floors] : Floors[floors][t] \in 0 .. 4
  BY TablesAssumption DEF Levels
<1>2. \A t : At(Floors[floors], t, NoLevel) \in 0 .. 4
  BY <1>1 DEF At, NoLevel
<1> QED  BY <1>2 DEF FloorFor

LEMMA ClientLevels ==
  ASSUME NEW client
  PROVE  At(ClientFloors, client, NoLevel) \in 0 .. 4
BY LevelsAssumption DEF At, NoLevel, Levels

\* The floors only raise: the level is the highest of what was declared and them.
LEMMA EffectiveIs ==
  ASSUME NEW floors \in DOMAIN Floors, NEW call \in Calls, call.header # Unknown
  PROVE  LET declared == DeclaredLevel(call.header)
             named == FloorFor(Floors[floors], call.task)
             client == IF call.verified THEN NoLevel ELSE At(ClientFloors, call.client, NoLevel)
             level == Effective(Floors[floors], call)
         IN  /\ declared \in 1 .. 4 /\ named \in 0 .. 4 /\ client \in 0 .. 4
             /\ level \in {declared, named, client}
             /\ level >= declared /\ level >= named /\ level >= client
<1> DEFINE declared == DeclaredLevel(call.header)
           named == FloorFor(Floors[floors], call.task)
           client == IF call.verified THEN NoLevel ELSE At(ClientFloors, call.client, NoLevel)
           floor == FloorOf(Floors[floors], call)
<1>1. declared \in 1 .. 4
  BY CallsAssumption, LevelsAssumption DEF DeclaredLevel, Absent, Unknown, Levels, Routable
<1>2. named \in 0 .. 4 /\ client \in 0 .. 4
  BY FloorLevels, ClientLevels DEF NoLevel
<1>3. floor = IF named = NoLevel THEN client ELSE HigherOf(named, client)
  BY DEF FloorOf
<1>4. Effective(Floors[floors], call) = HigherOf(declared, floor)
  BY DEF Effective
<1> HIDE DEF declared, named, client, floor
<1>5. floor \in {named, client} /\ floor >= named /\ floor >= client
  BY <1>2, <1>3 DEF HigherOf, NoLevel, Levels
<1>6. /\ HigherOf(declared, floor) \in {declared, floor}
      /\ HigherOf(declared, floor) >= declared /\ HigherOf(declared, floor) >= floor
  BY <1>1, <1>2, <1>5 DEF HigherOf, Levels
<1>7. /\ HigherOf(declared, floor) \in {declared, named, client}
      /\ HigherOf(declared, floor) >= declared /\ HigherOf(declared, floor) >= named
      /\ HigherOf(declared, floor) >= client
  BY <1>1, <1>2, <1>5, <1>6
<1> QED  BY <1>1, <1>2, <1>4, <1>7 DEF declared, named, client

ContextLevels == \A r \in context : r.marked => r.level \in Levels

\* A call runs at the level it owes, and on local models only when it owes that.
LEMMA RunsAtWhatIsOwed ==
  ASSUME NEW call \in Calls, call.header # Unknown, ContextLevels,
         table["floors"] \in DOMAIN Floors,
         NEW runs, runs = RunsAt(Floors[table["floors"]], Policies[table["policy"]], call, context),
         runs.level \in Routable
  PROVE  /\ runs.level = Owed(call).level
         /\ Owed(call).local => runs.local
<1> DEFINE floors == Floors[table["floors"]]
           policy == Policies[table["policy"]]
           declared == DeclaredLevel(call.header)
           named == FloorFor(floors, call.task)
           client == IF call.verified THEN NoLevel ELSE At(ClientFloors, call.client, NoLevel)
           level == Effective(floors, call)
           closed == call.client \in FailClosed
           marks == {r \in context : r.marked}
           unmarked == closed /\ \E r \in context : ~r.marked
           results == {r.level : r \in marks} \cup (IF unmarked THEN {2} ELSE {})
           demands == {declared, named} \cup (IF call.verified THEN {} ELSE {At(ClientFloors, call.client, NoLevel)})
                        \cup {r.level : r \in marks} \cup (IF unmarked THEN {2} ELSE {})
           raised == {level} \cup {r.level : r \in marks} \cup (IF unmarked THEN {2} ELSE {})
           high == Highest(demands)
           internal == \E r \in marks : ~r.external
           localFor(l) == LocalFor(policy, call.task, l)
           local == call.localHeader \/ localFor(level)
           kept == local \/ unmarked \/ internal \/ (closed /\ Highest(raised) >= 2)
<1>1. /\ declared \in 1 .. 4 /\ named \in 0 .. 4 /\ client \in 0 .. 4
      /\ level \in {declared, named, client}
      /\ level >= declared /\ level >= named /\ level >= client
  BY EffectiveIs
<1>2. \A r \in marks : r.level \in 1 .. 4
  BY DEF ContextLevels, Levels
<1>3. results \in SUBSET (1 .. 4)
  BY <1>2
<1>4. raised = {level} \cup results
  OBVIOUS
<1>5. demands = {declared, named} \cup (IF call.verified THEN {} ELSE {client}) \cup results
  OBVIOUS
<1>6. call.verified => client = 0
  BY DEF NoLevel
<1>7. Owed(call).level = (IF high > 3 THEN 3 ELSE high)
      /\ Owed(call).local = (\/ call.localHeader \/ high > 3 \/ unmarked \/ internal
                             \/ closed /\ high >= 2
                             \/ localFor(high))
  BY DEF Owed
<1>8. runs = IF Highest(raised) # level \/ kept # local \/ unmarked
               THEN [level |-> IF Highest(raised) > 3 THEN 3 ELSE Highest(raised),
                     local |-> (kept \/ Highest(raised) > 3)
                                 \/ localFor(IF Highest(raised) > 3 THEN 3 ELSE Highest(raised))]
               ELSE [level |-> level, local |-> local]
  BY DEF RunsAt, Assess
<1> HIDE DEF declared, named, client, level, results, demands, raised, unmarked, internal, localFor
<1>9. Highest(raised) = high /\ high \in 1 .. 4
  <2>1. demands \in SUBSET (0 .. 4) /\ demands # {}
    BY <1>1, <1>3, <1>5
  <2>2. raised \in SUBSET (0 .. 4) /\ raised # {}
    BY <1>1, <1>3, <1>4
  <2>3. high \in demands /\ \A m \in demands : m <= high
    BY <2>1, HighestIs
  <2>4. Highest(raised) \in raised /\ \A m \in raised : m <= Highest(raised)
    BY <2>2, HighestIs
  <2>5. declared \in demands /\ declared <= high /\ named \in demands /\ named <= high
    BY <1>5, <2>3
  <2>6. \A m \in results : m <= high /\ m <= Highest(raised)
    BY <1>4, <1>5, <2>3, <2>4
  <2>7. level <= high
    <3>1. client <= high
      <4>0. high \in 0 .. 4
        BY <2>1, <2>3
      <4>1. CASE call.verified
        BY <4>0, <4>1, <1>6
      <4>2. CASE ~call.verified
        BY <4>2, <1>5, <2>3
      <4> QED  BY <4>1, <4>2
    <3> QED  BY <1>1, <2>5, <3>1
  <2>8. Highest(raised) <= high
    BY <1>4, <2>4, <2>6, <2>7
  <2>9. high <= Highest(raised)
    <3>1. level <= Highest(raised)
      BY <1>4, <2>4
    <3>2. high \in {declared, named, client} \cup results
      BY <1>5, <2>3
    <3>3. high \in {declared, named, client} => high <= level
      BY <1>1
    <3>4. high \in results => high <= Highest(raised)
      BY <2>6
    <3>5. high \in 0 .. 4 /\ Highest(raised) \in 0 .. 4
      BY <2>1, <2>2, <2>3, <2>4
    <3> QED  BY <1>1, <3>1, <3>2, <3>3, <3>4, <3>5
  <2>10. high \in 0 .. 4 /\ Highest(raised) \in 0 .. 4
    BY <2>1, <2>2, <2>3, <2>4
  <2> QED  BY <1>1, <2>5, <2>8, <2>9, <2>10
<1>b. /\ local \in BOOLEAN /\ kept \in BOOLEAN
      /\ local <=> call.localHeader \/ localFor(level)
      /\ kept <=> local \/ unmarked \/ internal \/ (closed /\ high >= 2)
  BY <1>9, CallsAssumption DEF localFor, LocalFor, unmarked, internal
<1> HIDE DEF high, local, kept, closed
<1> DEFINE top == IF high > 3 THEN 3 ELSE high
           only == (kept \/ high > 3) \/ localFor(top)
           differs == high # level \/ kept # local \/ unmarked
<1>c. runs = IF differs THEN [level |-> top, local |-> only] ELSE [level |-> level, local |-> local]
  BY <1>8, <1>9
<1>d. /\ only \in BOOLEAN /\ top = IF high > 3 THEN 3 ELSE high
      /\ only <=> kept \/ high > 3 \/ localFor(top)
      /\ ~differs => high = level /\ kept = local /\ ~unmarked
  OBVIOUS
<1> HIDE DEF top, only, differs
<1>10. CASE differs
  <2>1. runs = [level |-> top, local |-> only]
    BY <1>c, <1>10
  <2>2. runs.level = top /\ runs.local = only
    BY <2>1
  <2>3. ASSUME Owed(call).local PROVE runs.local
    BY <2>2, <2>3, <1>7, <1>9, <1>b, <1>d
  <2> QED  BY <2>2, <2>3, <1>7, <1>d
<1>11. CASE ~differs
  <2>1. runs = [level |-> level, local |-> local]
    BY <1>c, <1>11
  <2>2. runs.level = high /\ runs.local = local /\ kept = local /\ ~unmarked
    BY <2>1, <1>d, <1>11
  <2>3. high <= 3
    BY <2>2 DEF Routable
  <2>4. ASSUME Owed(call).local PROVE runs.local
    <3>1. localFor(high) => localFor(level)
      BY <1>d, <1>11, Zenon
    <3>4. ~(high > 3)
      BY <2>3, <1>9
    <3>2. call.localHeader \/ unmarked \/ internal \/ (closed /\ high >= 2) \/ localFor(high)
      BY <2>4, <3>4, <1>7, Zenon
    <3>3. local
      BY <3>1, <3>2, <2>2, <1>b
    <3> QED  BY <3>3, <2>2, <1>b
  <2> QED  BY <2>2, <2>3, <2>4, <1>7, <1>9
<1> QED  BY <1>10, <1>11


\* The tables in force have a meaning, whatever the files.
KnownTables ==
  /\ DOMAIN table = Files /\ DOMAIN disk = Files
  /\ \A f \in Files : disk[f] \in Contents[f]
  /\ table["routing"] \in DOMAIN Tables
  /\ table["policy"] \in DOMAIN Policies
  /\ table["floors"] \in DOMAIN Floors

\* A call goes from one candidate to the next of those that may have what it owes.
Walk ==
  \A c \in routed :
    /\ c = [candidates |-> c.candidates, owed |-> c.owed, by |-> c.by, sent |-> c.sent]
    /\ c.candidates \in Seq(Words) /\ c.candidates # << >>
    /\ c.sent \in {None, Head(c.candidates)}
    /\ c.owed.known =>
         /\ c.owed.level \in Routable
         /\ \A k \in 1 .. Len(c.candidates) :
              Serves(Tables[c.by], c.candidates[k], c.owed.level, c.owed.local, c.owed.out)

SInv == KnownTables /\ ContextLevels /\ Walk

LEMMA LoadedIsKnown ==
  ASSUME NEW f, NEW c \in Contents[f], NEW K, NEW old \in K, Loadable(f) \subseteq K,
         Raises(c) => NoExcludes[old] \in K
  PROVE  Loaded(f, c, old) \in K
<1>1. CASE Raises(c)
  BY <1>1 DEF Loaded
<1>2. CASE ~Raises(c) /\ IsMapping(c)
  BY <1>2 DEF Loaded, Loadable, Raises
<1>3. CASE ~Raises(c) /\ ~IsMapping(c) /\ c = Missing /\ Baked[f] # None
  BY <1>3 DEF Loaded, Loadable
<1>4. CASE ~Raises(c) /\ ~IsMapping(c) /\ ~(c = Missing /\ Baked[f] # None)
  BY <1>4 DEF Loaded, Loadable
<1> QED  BY <1>1, <1>2, <1>3, <1>4

\* A step that leaves each table as it was or loads its file.
LEMMA LoadsAreKnown ==
  ASSUME KnownTables, DOMAIN table' = Files, DOMAIN disk' = Files,
         \A f \in Files : disk'[f] \in Contents[f],
         \A f \in Files : table'[f] = table[f] \/ table'[f] = Loaded(f, disk[f], table[f])
  PROVE  KnownTables'
<1> DEFINE known(f, K) == table[f] \in K => table'[f] \in K
<1>1. ASSUME NEW f \in {"routing", "floors"}, NEW K, Loadable(f) \subseteq K
      PROVE  known(f, K)
  <2>1. f \in Files /\ disk[f] \in Contents[f] /\ ~Raises(disk[f])
    BY ContentsAssumption DEF KnownTables, Raises
  <2> QED  BY <1>1, <2>1, LoadedIsKnown
<1>2. known("policy", DOMAIN Policies)
  <2>1. "policy" \in Files /\ disk["policy"] \in Contents["policy"]
    BY ContentsAssumption DEF KnownTables
  <2>2. \A p \in DOMAIN Policies : NoExcludes[p] \in DOMAIN Policies
    BY ContentsAssumption
  <2>3. Loadable("policy") \subseteq DOMAIN Policies
    BY ContentsAssumption
  <2> QED  BY <2>1, <2>2, <2>3, LoadedIsKnown
<1>3. known("routing", DOMAIN Tables) /\ known("floors", DOMAIN Floors)
  BY <1>1, ContentsAssumption
<1> QED  BY <1>2, <1>3 DEF KnownTables

LEMMA InitSInv == Init => SInv
<1> SUFFICES ASSUME Init PROVE SInv
  OBVIOUS
<1>1. /\ disk = First /\ table = [f \in Files |-> Loaded(f, First[f], Empty)]
      /\ context = {} /\ routed = {}
  BY DEF Init, ReloadInit
<1>2. ASSUME NEW f \in {"routing", "policy", "floors"}, NEW K, Loadable(f) \subseteq K
      PROVE  table[f] \in K
  <2>1. f \in Files /\ First[f] \in Contents[f] /\ ~Raises(First[f])
    BY ContentsAssumption, WatchedAssumption DEF Raises
  <2>2. Empty \in K
    BY <1>2 DEF Loadable
  <2> QED  BY <1>1, <1>2, <2>1, <2>2, LoadedIsKnown
<1>3. KnownTables
  BY <1>1, <1>2, ContentsAssumption, WatchedAssumption DEF KnownTables
<1> QED  BY <1>1, <1>3 DEF SInv, ContextLevels, Walk

LEMMA ReloadKeepsKnown == SInv /\ ReloadNext => KnownTables'
<1> SUFFICES ASSUME SInv, ReloadNext PROVE KnownTables'
  OBVIOUS
<1>0. KnownTables
  BY DEF SInv
<1>1. ASSUME NEW f \in Files, NEW c \in Contents[f], Write(f, c) PROVE KnownTables'
  BY <1>0, <1>1 DEF Write, KnownTables
<1>2. CASE StartWatch \/ Tick \/ ReadDigest \/ ReadToCheck
  BY <1>0, <1>2 DEF StartWatch, Tick, ReadDigest, ReadToCheck, KnownTables
<1>3. CASE ReadToLoad
  <2> DEFINE f == Watched[at]
  <2>1. table' = [table EXCEPT ![f] = Loaded(f, disk[f], table[f])] /\ disk' = disk
    BY <1>3 DEF ReadToLoad
  <2> QED  BY <1>0, <2>1, LoadsAreKnown DEF KnownTables
<1>4. CASE AdminReload
  BY <1>0, <1>4, LoadsAreKnown DEF AdminReload, KnownTables
<1> QED  BY <1>1, <1>2, <1>3, <1>4 DEF ReloadNext, TickStep

LEMMA RouteWalks ==
  ASSUME SInv, NEW call \in Calls, Route(call)
  PROVE  Walk'
<1> DEFINE providers == Tables[table["routing"]]
           policy == Policies[table["policy"]]
           runs == RunsAt(Floors[table["floors"]], policy, call, context)
           candidates == CandidatesFor(providers, policy, call.task, runs)
           owed == Owed(call)
           next == [candidates |-> candidates, owed |-> owed, by |-> table["routing"], sent |-> None]
<1>1. candidates # << >> /\ routed' = {next}
  BY DEF Route
<1>2. providers \in Seq(Providers) /\ At(policy.prefer, call.task, << >>) \in Seq(Words)
  <2>1. providers \in Seq(Providers)
    BY TablesAssumption DEF SInv, KnownTables, Providers
  <2>2. \A s \in Seq(STRING) : s \in Seq(Words)
    BY DEF Words
  <2>3. \A t \in DOMAIN policy.prefer : policy.prefer[t] \in Seq(Words)
    BY <2>2, TablesAssumption DEF SInv, KnownTables
  <2>4. << >> \in Seq(Words)
    BY EmptySeq
  <2> QED  BY <2>1, <2>3, <2>4 DEF At
<1>3. /\ candidates \in Seq(Words) /\ runs.level \in Routable
      /\ \A k \in 1 .. Len(candidates) :
           Serves(providers, candidates[k], runs.level, runs.local, At(policy.exclude, call.task, {}))
  <2> HIDE DEF providers, policy, runs
  <2> QED  BY <1>1, <1>2, CandidatesServe
<1>4. owed.known = (call.header # Unknown) /\ owed.out = At(policy.exclude, call.task, {})
  BY DEF Owed
<1>5. ASSUME owed.known
      PROVE  runs.level = owed.level /\ (owed.local => runs.local)
  BY <1>3, <1>4, <1>5, RunsAtWhatIsOwed DEF SInv, KnownTables
<1>6. next.candidates = candidates /\ next.owed = owed /\ next.by = table["routing"] /\ next.sent = None
  OBVIOUS
<1> HIDE DEF runs, candidates, owed, policy
<1>7. ASSUME owed.known
      PROVE  /\ owed.level \in Routable
             /\ \A k \in 1 .. Len(candidates) :
                  Serves(providers, candidates[k], owed.level, owed.local, owed.out)
  BY <1>3, <1>4, <1>5, <1>7 DEF Serves
<1> QED  BY <1>1, <1>3, <1>6, <1>7 DEF Walk

\* The results a context is given are marked with a level, or not at all.
LEMMA CollectKeepsLevels ==
  ASSUME IInv, ContextLevels, NEW i \in invoked, Collect(i)
  PROVE  ContextLevels'
<1>1. context' = context \cup {Result(i)}
  BY DEF Collect
<1>2. Result(i).marked = (i.pc = "answered" /\ Marked(i.ask)) /\ Result(i).level = i.mark.level
  BY DEF Result
<1>3. ASSUME i.pc = "answered", Marked(i.ask) PROVE i.mark.level \in Levels
  <2>1. i.mark = Marker(Releases[i.then], i.ask.tool, i.payload)
    BY <1>3 DEF IInv, MarkedThen
  <2>2. i.then \in DOMAIN Releases /\ i.payload \in Payloads \cup {NoLevel}
    BY DEF IInv, InvokedTypes, Invocations
  <2>3. i.mark \in [level : Levels, external : BOOLEAN]
    BY <2>1, <2>2, MarkerTypes
  <2> QED  BY <2>3
<1> QED  BY <1>1, <1>2, <1>3 DEF ContextLevels

\* The candidates after the first are candidates.
LEMMA TailKeeps ==
  ASSUME NEW S, NEW s \in Seq(S), s # << >>, Len(s) # 1
  PROVE  /\ Tail(s) \in Seq(S) /\ Tail(s) # << >>
         /\ \A k \in 1 .. Len(Tail(s)) : k + 1 \in 1 .. Len(s) /\ Tail(s)[k] = s[k + 1]
  <1>1. /\ Tail(s) \in Seq(S) /\ Len(Tail(s)) = Len(s) - 1
        /\ \A k \in 1 .. Len(Tail(s)) : Tail(s)[k] = s[k + 1]
    BY HeadTailProperties
  <1>2. Len(s) \in Nat /\ Len(s) # 0
    BY LenProperties, EmptySeq
  <1>3. Tail(s) # << >>
    <2>1. Len(Tail(s)) # 0
      <3> DEFINE n == Len(s)
                 m == Len(Tail(s))
      <3>1. n \in Nat /\ n # 1 /\ m = n - 1
        BY <1>1, <1>2
      <3> HIDE DEF n, m
      <3>2. m # 0
        BY <3>1
      <3> QED  BY <3>2 DEF m
    <2> QED  BY <1>1, <2>1, EmptySeq
  <1>4. \A k \in 1 .. Len(Tail(s)) : k + 1 \in 1 .. Len(s)
    <2> DEFINE n == Len(s)
               m == Len(Tail(s))
    <2>1. n \in Nat /\ m = n - 1
      BY <1>1, <1>2
    <2> HIDE DEF n, m
    <2>2. \A k \in 1 .. m : k + 1 \in 1 .. n
      BY <2>1
    <2> QED  BY <2>2 DEF n, m
  <1> QED  BY <1>1, <1>3, <1>4

LEMMA NextSInv == IInv /\ SInv /\ [Next]_vars => SInv'
<1> SUFFICES ASSUME IInv, SInv, [Next]_vars PROVE SInv'
  OBVIOUS
<1>1. CASE UNCHANGED <<disk, table>> /\ UNCHANGED <<context, routed>>
  BY <1>1 DEF SInv, KnownTables, ContextLevels, Walk
<1>2. ASSUME NEW a \in Asks, Ask(a) PROVE SInv'
  BY <1>1, <1>2 DEF Ask, ToolsFirst, reloadVars
<1>3. ASSUME NEW r \in DOMAIN Releases, ReloadRights(r) PROVE SInv'
  BY <1>1, <1>3 DEF ReloadRights, ToolsFirst, reloadVars
<1>4. ASSUME NEW i \in invoked, ToolFails(i) \/ \E payload \in Payloads : ToolAnswers(i, payload)
      PROVE  SInv'
  BY <1>1, <1>4 DEF ToolFails, ToolAnswers, ToolsFirst, reloadVars
<1>5. ASSUME NEW i \in invoked, Collect(i) PROVE SInv'
  <2>1. ContextLevels'
    BY <1>5, CollectKeepsLevels DEF SInv
  <2> QED  BY <1>5, <2>1 DEF Collect, ToolsFirst, reloadVars, SInv, KnownTables, Walk
<1>6. ASSUME NEW call \in Calls, Route(call) PROVE SInv'
  <2>1. Walk'
    BY <1>6, RouteWalks
  <2>2. UNCHANGED <<disk, table>> /\ context' = {}
    BY <1>6 DEF Route, Quiet, reloadVars
  <2> QED  BY <2>1, <2>2 DEF SInv, KnownTables, ContextLevels
<1>7. ASSUME NEW c \in routed, Send(c) \/ Skip(c) \/ ProviderFails(c) \/ ProviderAnswers(c)
      PROVE  SInv'
  <2> DEFINE sent == [c EXCEPT !.sent = Head(c.candidates)]
             past == [c EXCEPT !.candidates = Tail(@), !.sent = None]
  <2>1. /\ UNCHANGED <<disk, table, context>>
        /\ \/ routed' = {} \/ routed' = {sent}
           \/ Len(c.candidates) # 1 /\ routed' = {past}
    BY <1>7 DEF Send, Skip, ProviderFails, ProviderAnswers, PastHead, Quiet, reloadVars
  <2>2. /\ c = [candidates |-> c.candidates, owed |-> c.owed, by |-> c.by, sent |-> c.sent]
        /\ c.candidates \in Seq(Words) /\ c.candidates # << >>
        /\ c.owed.known =>
             /\ c.owed.level \in Routable
             /\ \A k \in 1 .. Len(c.candidates) :
                  Serves(Tables[c.by], c.candidates[k], c.owed.level, c.owed.local, c.owed.out)
    BY DEF SInv, Walk
  <2>3. sent = [candidates |-> c.candidates, owed |-> c.owed, by |-> c.by, sent |-> Head(c.candidates)]
    BY <2>2
  <2>4. past = [candidates |-> Tail(c.candidates), owed |-> c.owed, by |-> c.by, sent |-> None]
    <3>1. PICK rest : rest = Tail(c.candidates)
      OBVIOUS
    <3>2. past = [c EXCEPT !.candidates = rest, !.sent = None]
      BY <3>1, Zenon
    <3>3. [c EXCEPT !.candidates = rest, !.sent = None]
          = [candidates |-> rest, owed |-> c.owed, by |-> c.by, sent |-> None]
      <4> HIDE DEF past
      <4> DEFINE left == [c EXCEPT !.candidates = rest]
      <4>1. left = [candidates |-> rest, owed |-> c.owed, by |-> c.by, sent |-> c.sent]
        BY <2>2
      <4>2. [left EXCEPT !.sent = None] = [candidates |-> rest, owed |-> c.owed, by |-> c.by, sent |-> None]
        <5> HIDE DEF left
        <5> QED  BY <4>1
      <4>3. [c EXCEPT !.candidates = rest, !.sent = None] = [left EXCEPT !.sent = None]
        OBVIOUS
      <4> QED  BY <4>2, <4>3
    <3> QED  BY <3>1, <3>2, <3>3, Zenon
  <2>5. ASSUME Len(c.candidates) # 1
        PROVE  /\ Tail(c.candidates) \in Seq(Words) /\ Tail(c.candidates) # << >>
               /\ \A k \in 1 .. Len(Tail(c.candidates)) :
                    k + 1 \in 1 .. Len(c.candidates) /\ Tail(c.candidates)[k] = c.candidates[k + 1]
    BY <2>2, <2>5, TailKeeps
  <2> HIDE DEF sent, past
  <2>6. CASE routed' = {}
    BY <2>1, <2>6 DEF SInv, KnownTables, ContextLevels, Walk
  <2>7. CASE routed' = {sent}
    <3>1. sent.candidates = c.candidates /\ sent.owed = c.owed /\ sent.by = c.by
          /\ sent.sent = Head(c.candidates)
      BY <2>3
    <3>2. Walk'
      BY <2>2, <2>3, <2>7, <3>1 DEF Walk
    <3> QED  BY <2>1, <3>2 DEF SInv, KnownTables, ContextLevels
  <2>8. CASE Len(c.candidates) # 1 /\ routed' = {past}
    <3>1. past.candidates = Tail(c.candidates) /\ past.owed = c.owed /\ past.by = c.by
          /\ past.sent = None
      BY <2>4
    <3>2. Walk'
      <4>1. past = [candidates |-> past.candidates, owed |-> past.owed, by |-> past.by, sent |-> past.sent]
        BY <2>4, <3>1, Zenon
      <4>2. past.candidates \in Seq(Words) /\ past.candidates # << >>
        BY <2>5, <2>8, <3>1
      <4>3. ASSUME past.owed.known
            PROVE  /\ past.owed.level \in Routable
                   /\ \A k \in 1 .. Len(past.candidates) :
                        Serves(Tables[past.by], past.candidates[k], past.owed.level, past.owed.local, past.owed.out)
        <5>1. \A k \in 1 .. Len(Tail(c.candidates)) :
                k + 1 \in 1 .. Len(c.candidates) /\ Tail(c.candidates)[k] = c.candidates[k + 1]
          BY <2>5, <2>8
        <5> QED  BY <2>2, <3>1, <4>3, <5>1
      <4> QED  BY <2>8, <3>1, <4>1, <4>2, <4>3 DEF Walk
    <3> QED  BY <2>1, <3>2 DEF SInv, KnownTables, ContextLevels
  <2> QED  BY <2>1, <2>6, <2>7, <2>8
<1>8. CASE ReloadStep
  <2>1. KnownTables' /\ UNCHANGED <<context, routed>>
    BY <1>8, ReloadKeepsKnown DEF ReloadStep, mcpVars
  <2> QED  BY <2>1 DEF SInv, ContextLevels, Walk
<1>9. CASE UNCHANGED vars
  BY <1>1, <1>9 DEF vars, mcpVars, reloadVars
<1> QED  BY <1>2, <1>3, <1>4, <1>5, <1>6, <1>7, <1>8, <1>9 DEF Next

(***************************************************************************)
(* chat_completions, the floors, the markers, the policy and               *)
(* candidates_for: whatever the tables, policies, floors, contexts and     *)
(* reloads, a call goes only to a provider that the table it was routed by *)
(* lets have all it owes.                                                  *)
(***************************************************************************)
THEOREM CallsGoWhereTheyMay == Spec => []SentWhereAllowed
<1>1. SInv => SentWhereAllowed
  <2> SUFFICES ASSUME SInv, NEW c \in routed, c.sent # None, c.owed.known
               PROVE  IF Tables[c.by] = << >> THEN c.sent = "local"
                      ELSE \E i \in 1 .. Len(Tables[c.by]) :
                             LET p == Tables[c.by][i]
                             IN  /\ p.name = c.sent
                                 /\ \E l \in p.levels : l >= c.owed.level
                                 /\ c.owed.local => p.local
                                 /\ p.name \notin c.owed.out
    BY DEF SentWhereAllowed
  <2>1. /\ c.candidates \in Seq(Words) /\ c.candidates # << >>
        /\ c.sent = Head(c.candidates) /\ c.owed.level \in Routable
        /\ \A k \in 1 .. Len(c.candidates) :
             Serves(Tables[c.by], c.candidates[k], c.owed.level, c.owed.local, c.owed.out)
    BY DEF SInv, Walk
  <2>2. c.sent = c.candidates[1] /\ 1 \in 1 .. Len(c.candidates)
    BY <2>1
  <2>3. Serves(Tables[c.by], c.sent, c.owed.level, c.owed.local, c.owed.out)
    BY <2>1, <2>2
  <2>4. c.owed.level >= c.owed.level
    BY <2>1 DEF Routable
  <2> QED  BY <2>3, <2>4 DEF Serves
<1>2. Spec => []SInv
  BY InitSInv, NextSInv, Invariant, PTL DEF Spec
<1> QED  BY <1>1, <1>2, PTL

=============================================================================
