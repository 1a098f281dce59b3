---------------------------- MODULE ModelRouting ----------------------------
(***************************************************************************)
(* The providers a chat completion of the ai-gateway may go to: the level  *)
(* it runs at (classification_floor.py, tool_markers.py), what the policy  *)
(* adds (model_routing_policy.py) and the candidates that are left         *)
(* (routing.py), in the order main.py takes them.                          *)
(*                                                                         *)
(* A table of routing is a sequence of [name, local, levels]; a policy has *)
(*   prefer, exclude   task -> providers, for the tasks that have any; a   *)
(*                     preference names none of them twice                 *)
(*   strict, localFor  the tasks with a strict preference; task -> levels  *)
(* and floors map tasks, and agents as <<agent, "">>, to levels.  A task   *)
(* is <<agent, task>>.  Levels are those of ToolAccess; no level is 0.     *)
(***************************************************************************)
EXTENDS Naturals, Sequences, SequencesExt

CONSTANTS
  DefaultLevel,   \* CLASSIFICATION_DEFAULT_WHEN_ABSENT
  ClientFloors,   \* client -> level, for the clients that have one
  FailClosed      \* MARKER_FAIL_CLOSED_CLIENTS: the experience clients

Absent == -1      \* no header, or a blank one
NoLevel == 0
Levels == 1 .. 4
Routable == 1 .. 3

ASSUME LevelsAssumption ==
  /\ DefaultLevel \in Routable
  /\ \A c \in DOMAIN ClientFloors : ClientFloors[c] \in Levels

At(f, x, default) == IF x \in DOMAIN f THEN f[x] ELSE default

DeclaredLevel(header) == IF header = Absent THEN DefaultLevel ELSE header

\* higher: an unknown level on either side leaves the first as it is.
HigherOf(level, other) ==
  IF level \in Levels /\ other \in Levels /\ other > level THEN other ELSE level

FloorFor(floors, task) ==
  LET own == At(floors, task, NoLevel)
  IN  IF own # NoLevel THEN own ELSE At(floors, <<task[1], "">>, NoLevel)

\* The floor of the named task and, unless a signed chain names it, the client's.
FloorOf(floors, call) ==
  LET named == FloorFor(floors, call.task)
      client == IF call.verified THEN NoLevel ELSE At(ClientFloors, call.client, NoLevel)
  IN  IF named = NoLevel THEN client ELSE HigherOf(named, client)

Effective(floors, call) == HigherOf(DeclaredLevel(call.header), FloorOf(floors, call))

LocalFor(policy, task, level) == level \in At(policy.localFor, task, {})

Highest(levels) == CHOOSE n \in levels : \A m \in levels : m <= n

\* assess: the markers of the results in the context raise the level; one that
\* keeps to local models, an unmarked result of an experience client, and
\* anything at C2 and above of such a client keep the call local.
Assess(context, level, local, closed) ==
  LET marks == {r \in context : r.marked}
      unmarked == closed /\ \E r \in context : ~r.marked
      raised == Highest({level} \cup {r.level : r \in marks} \cup IF unmarked THEN {2} ELSE {})
      kept == local \/ unmarked \/ (\E r \in marks : ~r.external) \/ (closed /\ raised >= 2)
  IN  [level |-> IF raised > 3 THEN 3 ELSE raised,
       local |-> kept \/ raised > 3,
       changed |-> raised # level \/ kept # local \/ unmarked]

\* Mutant of RunsAt: the policy is asked before the results are looked at only.
RunsAtAsked(floors, policy, call, context) ==
  LET level == Effective(floors, call)
      local == call.localHeader \/ LocalFor(policy, call.task, level)
      marks == Assess(context, level, local, call.client \in FailClosed)
  IN  IF marks.changed THEN [level |-> marks.level, local |-> marks.local]
                       ELSE [level |-> level, local |-> local]

\* What a call runs at: the level and whether only local models may serve it.
\* The policy is asked before and, for a level the results raised, after.
RunsAt(floors, policy, call, context) ==
  LET level == Effective(floors, call)
      local == call.localHeader \/ LocalFor(policy, call.task, level)
      marks == Assess(context, level, local, call.client \in FailClosed)
  IN  IF marks.changed
        THEN [level |-> marks.level,
              local |-> marks.local \/ LocalFor(policy, call.task, marks.level)]
        ELSE [level |-> level, local |-> local]

Names(providers) == {providers[i].name : i \in 1 .. Len(providers)}

\* The elements of s that are in S, in their order: up to the k-th there are k.
Only(s, S) ==
  LET places == {i \in DOMAIN s : s[i] \in S}
  IN  [k \in 1 .. Cardinality(places) |->
         s[CHOOSE i \in places : Cardinality({j \in places : j <= i}) = k]]

Eligible(providers, runs) ==
  Only(providers, {p \in Range(providers) : runs.level \in p.levels /\ (runs.local => p.local)})

\* _apply_preference: the preferred first; alone, when strict.
Ordered(preference, strict, names) ==
  LET preferred == Only(preference, Range(names))
  IN  IF preference = << >> THEN names
      ELSE IF strict THEN preferred
      ELSE preferred \o Only(names, Range(names) \ Range(preferred))

\* candidates_for, by name; none when it refuses.  Without a table there is
\* one candidate, which nothing filters.
CandidatesFor(providers, policy, task, runs) ==
  LET eligible == Eligible(providers, runs)
      names == [i \in DOMAIN eligible |-> eligible[i].name]
      allowed == Only(names, Range(names) \ At(policy.exclude, task, {}))
  IN  IF runs.level \notin Routable THEN << >>
      ELSE IF providers = << >> THEN <<"local">>
      ELSE Ordered(At(policy.prefer, task, << >>), task \in policy.strict, allowed)

=============================================================================
