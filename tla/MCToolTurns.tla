---------------------------- MODULE MCToolTurns ----------------------------
(***************************************************************************)
(* Three agents that may delegate in a row and a client; three tools; a    *)
(* release, one that moves its rights, and one whose policy was torn.      *)
(***************************************************************************)
EXTENDS ToolTurns

look == <<"reader", "look">>
plan == <<"lead", "plan">>
save == <<"writer", "save">>
desk == <<"desk", "ask">>
none == <<"", "">>

Agent(kind, active, groups, depth, tasks, targets) ==
  [kind |-> kind, active |-> active, groups |-> groups, depth |-> depth,
   tasks |-> tasks, targets |-> targets]

Declarations(leads, saves) ==
  ("lead" :> Agent("agent", TRUE, {"staff"}, leads, "plan" :> {"search"}, {look, desk}))
  @@ ("reader" :> Agent("agent", TRUE, {"staff"}, 1, "look" :> {"search", "pages"}, {save}))
  @@ ("writer" :> Agent("agent", saves, {"staff", "ops"}, 1, "save" :> {"pages", "mail"}, {plan, look}))
  @@ ("desk" :> Agent("client", TRUE, {"staff"}, 1, "ask" :> {"search"}, {}))

Entry(level, external, groups, read) ==
  [level |-> level, external |-> external, groups |-> groups, read |-> read]

MCReleases ==
  ("first" :> [tools |-> ("search" :> Entry(1, TRUE, {"staff", "ops"}, TRUE))
                         @@ ("pages" :> Entry(2, FALSE, {"staff"}, TRUE))
                         @@ ("mail" :> Entry(3, TRUE, {"staff"}, FALSE)),
               policyError |-> FALSE, agents |-> Declarations(2, TRUE), agentsError |-> FALSE,
               ceiling |-> 2, allowWrite |-> FALSE, writable |-> {}])
  @@ ("moved" :> [tools |-> ("search" :> Entry(1, FALSE, {"staff"}, TRUE))
                            @@ ("pages" :> Entry(1, TRUE, {"staff"}, TRUE))
                            @@ ("mail" :> Entry(3, TRUE, {"staff"}, FALSE)),
                  policyError |-> FALSE, agents |-> Declarations(2, TRUE), agentsError |-> FALSE,
                  ceiling |-> 3, allowWrite |-> FALSE, writable |-> {save}])
  @@ ("torn" :> [tools |-> "search" :> Entry(1, TRUE, {"staff", "ops"}, TRUE),
                 policyError |-> TRUE, agents |-> << >>, agentsError |-> TRUE,
                 ceiling |-> 1, allowWrite |-> FALSE, writable |-> {}])

Hops == {plan, look, save, desk}
MCChains == {<< >>, <<plan>>, <<look>>, <<desk>>, <<plan, look>>, <<look, save>>, <<plan, save>>,
             <<plan, desk>>, <<plan, look, save>>, <<look, save, plan>>}
Tools == {"search", "pages", "mail"}
Groups == {{"staff"}, {"ops"}}

MCAsks ==
  [door : {"rest", "mcp"}, hop : Hops, chain : MCChains, tool : Tools, groups : Groups, level : {3}]
  \cup [door : {"rest", "mcp"}, hop : Hops, chain : {<< >>}, tool : Tools, groups : Groups, level : {1}]
  \cup [door : {"bare"}, hop : {none}, chain : {<< >>}, tool : Tools, groups : Groups, level : 0 .. 3]

Callers == {<<"desk", FALSE>>, <<"flows", FALSE>>, <<"flows", TRUE>>, <<"runtime", FALSE>>}
MCCalls ==
  {[task |-> t, client |-> c[1], verified |-> c[2], header |-> h, localHeader |-> l] :
     t \in {look, save, none}, c \in Callers, h \in {Absent, Unknown, 4}, l \in BOOLEAN}
MCClientFloors == "flows" :> 2

Provider(name, local, levels) == [name |-> name, local |-> local, levels |-> levels]

MCTables ==
  ("r1" :> <<Provider("saas", FALSE, {1, 2}), Provider("other", FALSE, {1, 2}),
             Provider("local", TRUE, {1, 2, 3})>>)
  @@ ("r2" :> <<Provider("local", TRUE, {1, 2, 3}), Provider("saas", FALSE, {1})>>)
  @@ ("empty" :> << >>)

Policy(prefer, strict, exclude, localFor) ==
  [prefer |-> prefer, strict |-> strict, exclude |-> exclude, localFor |-> localFor]
p1(exclude) == Policy((look :> <<"other", "local">>) @@ (save :> <<"saas", "local">>), {save}, exclude, look :> {2})
MCPolicies ==
  ("p1" :> p1(look :> {"saas"})) @@ ("p1 bare" :> p1(<< >>))
  @@ ("p0" :> Policy(<< >>, {}, << >>, << >>)) @@ ("empty" :> Policy(<< >>, {}, << >>, << >>))

MCFloors ==
  ("f1" :> (look :> 1 @@ <<"writer", "">> :> 3)) @@ ("f2" :> (look :> 2)) @@ ("empty" :> << >>)

MCWatched == <<"routing", "policy", "floors">>
MCContents ==
  ("routing" :> {"r1", "r2", "broken"}) @@ ("policy" :> {"p1", "poison", "listed", "missing"})
  @@ ("floors" :> {"f1", "f2"})
MCFirst == ("routing" :> "r1") @@ ("policy" :> "p1") @@ ("floors" :> "f1")
MCBaked == ("routing" :> "none") @@ ("policy" :> "p0") @@ ("floors" :> "none")
MCNoExcludes == ("p1" :> "p1 bare") @@ ("p1 bare" :> "p1 bare") @@ ("p0" :> "p0") @@ ("empty" :> "empty")
=============================================================================
