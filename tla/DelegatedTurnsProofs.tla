------------------------ MODULE DelegatedTurnsProofs ------------------------
(***************************************************************************)
(* For every number of tasks, callers, turns and requests, and every       *)
(* bound: the endpoint keeps the promise of a human approval, shows only   *)
(* requests that can be answered, and asks the model a bounded number of   *)
(* times in a conversation.                                                *)
(***************************************************************************)
EXTENDS DelegatedTurns, SequenceTheorems, TLAPS

\* The types the proof needs: the approvals and the place of every turn.
PlaceTypeOK ==
  /\ store \in [Tasks -> Requests \cup {None}]
  /\ issued \in SUBSET Requests
  /\ owner \in [Requests -> Callers \cup {Nobody}]
  /\ age \in [Requests -> 0..(Timeout + 1)]
  /\ pc \in [Turns -> {"idle", "list", "answer", "loop", "llm", "read", "write", "final"}]
  /\ on \in [Turns -> Tasks \cup {None}]
  /\ caller \in [Turns -> Callers \cup {Nobody}]
  /\ resumed \in [Turns -> Requests \cup {None}]
  /\ decision \in [Turns -> {"approve", "reject"}]
  /\ answeredBy \in [Requests -> Callers \cup {Nobody}]
  /\ runs \in [Requests -> Nat]

PlaceInv == PlaceTypeOK /\ OnePlace

\* What the store and the turns' places are made of.
places == <<store, issued, owner, age, pc, on, caller, resumed, decision, answeredBy, runs>>

-----------------------------------------------------------------------------
\* The store after a sweep holds what it held, or less.
LEMMA SweptStore ==
  ASSUME PlaceTypeOK, NEW t \in Tasks
  PROVE  /\ Swept \in [Tasks -> Requests \cup {None}]
         /\ Swept[t] = None \/ (Swept[t] = store[t] /\ ~Expired(store[t]))
         /\ Swept[t] = store[t] \/ (Swept[t] = None /\ Expired(store[t]))
  BY DEF PlaceTypeOK, Swept

\* What put leaves on the other tasks was there before.
LEMMA PutStore ==
  ASSUME PlaceTypeOK, NEW t \in Tasks, NEW q \in Requests, Put(t, q)
  PROVE  /\ store' \in [Tasks -> Requests \cup {None}]
         /\ store'[t] = q
         /\ \A u \in Tasks : u # t => store'[u] = None \/ store'[u] = store[u]
<1>1. CASE store' = [Swept EXCEPT ![t] = q]
  BY <1>1, SweptStore
<1>2. ASSUME NEW u \in Oldest(Swept), store' = [Swept EXCEPT ![u] = None, ![t] = q]
      PROVE  /\ store' \in [Tasks -> Requests \cup {None}]
             /\ store'[t] = q
             /\ \A v \in Tasks : v # t => store'[v] = None \/ store'[v] = store[v]
  <2>1. u \in Tasks
    BY <1>2 DEF Oldest, PendingIn
  <2> QED  BY <1>2, <2>1, SweptStore
<1> QED  BY <1>1, <1>2 DEF Put

\* At start nothing is pending and no turn runs.
LEMMA PlaceInit == Init => PlaceInv
  BY NoneAssumption, BoundsAssumption
  DEF Init, PlaceInv, PlaceTypeOK, OnePlace

-----------------------------------------------------------------------------
\* A step that empties places and fills none keeps the invariant.
LEMMA LessIsFine ==
  ASSUME PlaceInv,
         UNCHANGED <<issued, owner, age, answeredBy, runs>>,
         store' \in [Tasks -> Requests \cup {None}],
         \A t \in Tasks : store'[t] = None \/ store'[t] = store[t],
         NEW S \in SUBSET Turns, EndTurns(S)
  PROVE  PlaceInv'
<1>1. PlaceTypeOK'
  BY DEF PlaceInv, PlaceTypeOK, EndTurns
<1>2. ASSUME NEW x \in Turns
      PROVE  \/ pc'[x] = "idle" /\ resumed'[x] = None
             \/ /\ pc'[x] = pc[x] /\ resumed'[x] = resumed[x] /\ on'[x] = on[x]
                /\ caller'[x] = caller[x]
  BY DEF EndTurns
<1>3. OnePlace'
  BY <1>2 DEF PlaceInv, PlaceTypeOK, OnePlace
<1> QED  BY <1>1, <1>3 DEF PlaceInv

\* A message begins a turn in a free slot.
LEMMA BeginPlaces ==
  ASSUME PlaceTypeOK, OnePlace, NEW x \in Turns, NEW t \in Tasks, NEW c \in Callers,
         NEW q \in Requests \cup {None}, NEW d \in {"approve", "reject"},
         NEW allowed, NEW calls, NEW budget, NEW asked,
         BeginTurn(x, t, c, q, d, allowed, calls, budget, asked)
  PROVE  /\ resumed[x] = None
         /\ pc' \in [Turns -> {"idle", "list", "answer", "loop", "llm", "read", "write", "final"}]
         /\ on' \in [Turns -> Tasks \cup {None}]
         /\ caller' \in [Turns -> Callers \cup {Nobody}]
         /\ resumed' \in [Turns -> Requests \cup {None}]
         /\ decision' \in [Turns -> {"approve", "reject"}]
         /\ pc'[x] = "list" /\ on'[x] = t /\ caller'[x] = c /\ resumed'[x] = q
         /\ decision'[x] = d
         /\ \A y \in Turns \ {x} : /\ pc'[y] = pc[y] /\ on'[y] = on[y] /\ caller'[y] = caller[y]
                                   /\ resumed'[y] = resumed[y] /\ decision'[y] = decision[y]
  BY DEF BeginTurn, PlaceTypeOK, OnePlace

\* A plain message drops what was pending and takes no request with it.
LEMMA FreshKeepsPlaces ==
  ASSUME PlaceInv, NEW t \in Tasks, NEW c \in Callers, NEW x \in Turns, NEW delegated \in BOOLEAN,
         FreshTurn(x, t, c, delegated)
  PROVE  PlaceInv'
<1>1. /\ store' = [store EXCEPT ![t] = None]
      /\ UNCHANGED <<issued, owner, age, answeredBy, runs>>
  BY DEF FreshTurn, Drop, history
<1>2. PICK calls, budget, allowed :
        BeginTurn(x, t, c, None, "reject", allowed, calls, budget, 0)
  BY DEF FreshTurn
<1>3. PlaceTypeOK'
  BY <1>1, <1>2, BeginPlaces DEF PlaceInv, PlaceTypeOK
<1>4. /\ pc'[x] = "list" /\ on'[x] = t /\ caller'[x] = c /\ resumed'[x] = None
      /\ \A y \in Turns \ {x} : /\ pc'[y] = pc[y] /\ on'[y] = on[y] /\ caller'[y] = caller[y]
                                /\ resumed'[y] = resumed[y]
  BY <1>2, BeginPlaces DEF PlaceInv
<1>5. OnePlace'
  BY <1>1, <1>3, <1>4, NoneAssumption DEF PlaceInv, PlaceTypeOK, OnePlace
<1> QED  BY <1>3, <1>5 DEF PlaceInv

\* An answer moves its request from the store to the turn it resumes.
LEMMA ResumeKeepsPlaces ==
  ASSUME PlaceInv, NEW t \in Tasks, NEW c \in Callers, NEW x \in Turns, NEW q \in Requests,
         NEW d \in {"approve", "reject"}, Resume(x, t, c, q, d)
  PROVE  PlaceInv'
<1>1. /\ store' = [Swept EXCEPT ![t] = None] /\ Swept[t] = q
      /\ answeredBy' = [answeredBy EXCEPT ![q] = c]
      /\ UNCHANGED <<issued, owner, age, runs>>
  BY DEF Resume, Taken, Takes
<1>2. PICK calls, budget, allowed, asked :
        BeginTurn(x, t, c, q, d, allowed, calls, budget, asked)
  BY DEF Resume
<1>3. PlaceTypeOK'
  BY <1>1, <1>2, BeginPlaces, SweptStore DEF PlaceInv, PlaceTypeOK
<1>4. /\ store[t] = q /\ q # None
      /\ store'[t] = None
      /\ \A u \in Tasks \ {t} : store'[u] = None \/ store'[u] = store[u]
  BY <1>1, SweptStore, NoneAssumption DEF PlaceInv
<1>5. OnePlace'
  <2>1. \A u \in Tasks : store'[u] # q
    BY <1>4 DEF PlaceInv, OnePlace
  <2>2. \A y \in Turns : resumed[y] # q
    BY <1>4 DEF PlaceInv, OnePlace
  <2>3. q \in issued /\ runs[q] = 0
    BY <1>4 DEF PlaceInv, OnePlace
  <2>4. /\ pc'[x] = "list" /\ on'[x] = t /\ caller'[x] = c /\ resumed'[x] = q
        /\ \A y \in Turns \ {x} : /\ pc'[y] = pc[y] /\ on'[y] = on[y] /\ caller'[y] = caller[y]
                                  /\ resumed'[y] = resumed[y]
    BY <1>2, BeginPlaces DEF PlaceInv
  <2>5. ASSUME NEW u \in Tasks, store'[u] # None
        PROVE  store'[u] = store[u] /\ u # t
    BY <1>4, <2>5
  <2>6. ASSUME NEW y \in Turns, resumed'[y] # None, y # x
        PROVE  resumed'[y] = resumed[y] /\ resumed[y] # q
    BY <2>2, <2>4, <2>6
  <2> QED
    BY <1>1, <1>3, <2>1, <2>2, <2>3, <2>4, <2>5, <2>6 DEF PlaceInv, PlaceTypeOK, OnePlace
<1> QED  BY <1>3, <1>5 DEF PlaceInv

\* A write that needs approval puts a request no place has held before.
LEMMA RequestKeepsPlaces ==
  ASSUME PlaceInv, NEW x \in Turns, NEW q \in Requests, RequestApproval(x, q)
  PROVE  PlaceInv' /\ on[x] \in Tasks /\ caller[x] \in Callers
<1>1. on[x] \in Tasks /\ caller[x] \in Callers
  BY DEF PlaceInv, OnePlace, RequestApproval, AtCall
<1>2. /\ q \notin issued /\ issued' = issued \cup {q}
      /\ owner' = [owner EXCEPT ![q] = caller[x]]
      /\ age' = [age EXCEPT ![q] = 0]
      /\ Put(on[x], q) /\ EndTurns({x}) /\ UNCHANGED <<answeredBy, runs>>
  BY DEF RequestApproval
<1>3. /\ store' \in [Tasks -> Requests \cup {None}]
      /\ store'[on[x]] = q
      /\ \A u \in Tasks : u # on[x] => store'[u] = None \/ store'[u] = store[u]
  BY <1>1, <1>2, PutStore DEF PlaceInv
<1>4. PlaceTypeOK'
  BY <1>1, <1>2, <1>3, BoundsAssumption DEF PlaceInv, PlaceTypeOK, EndTurns
<1>5. ASSUME NEW y \in Turns
      PROVE  \/ pc'[y] = "idle" /\ resumed'[y] = None
             \/ /\ pc'[y] = pc[y] /\ resumed'[y] = resumed[y] /\ on'[y] = on[y]
                /\ caller'[y] = caller[y]
  BY <1>2 DEF EndTurns
<1>6. OnePlace'
  <2>1. runs[q] = 0 /\ (\A u \in Tasks : store[u] # q) /\ \A y \in Turns : resumed[y] # q
    BY <1>2, NoneAssumption DEF PlaceInv, OnePlace
  <2> QED  BY <1>2, <1>3, <1>4, <1>5, <2>1, NoneAssumption DEF PlaceInv, PlaceTypeOK, OnePlace
<1> QED  BY <1>1, <1>4, <1>6 DEF PlaceInv

\* The write is sent, once, and its request has no place any more.
LEMMA RunKeepsPlaces ==
  ASSUME PlaceInv, NEW x \in Turns, RunApproved(x)
  PROVE  PlaceInv'
<1>1. /\ pc[x] = "answer" /\ pc' = [pc EXCEPT ![x] = "write"]
      /\ resumed' = [resumed EXCEPT ![x] = None]
      /\ runs' = [runs EXCEPT ![resumed[x]] = @ + 1]
      /\ UNCHANGED <<store, issued, owner, age, on, caller, decision, answeredBy>>
  BY DEF RunApproved, Goto, storeVars
<1>2. resumed[x] \in Requests /\ resumed[x] \in issued
  BY <1>1 DEF PlaceInv, PlaceTypeOK, OnePlace
<1>3. PlaceTypeOK'
  BY <1>1, <1>2 DEF PlaceInv, PlaceTypeOK
<1>4. OnePlace'
  BY <1>1, <1>2, <1>3 DEF PlaceInv, PlaceTypeOK, OnePlace
<1> QED  BY <1>3, <1>4 DEF PlaceInv

\* The other steps inside a turn move no request but the one of a declined call.
LEMMA TurnKeepsPlaces ==
  ASSUME PlaceInv, NEW x \in Turns,
         \/ \E names \in SUBSET Tools : Listed(x, names)
         \/ ReportDeclined(x) \/ ToolReturns(x) \/ SkipUnoffered(x) \/ CallRead(x)
         \/ AskModel(x) \/ AskFinal(x)
         \/ \E calls \in Batches : ReplyWithCalls(x, calls)
  PROVE  /\ PlaceInv'
         /\ UNCHANGED <<store, issued, owner, age, decision, answeredBy, runs>>
         /\ \A y \in Turns, q \in Requests :
              \/ Holds(y, q)' <=> Holds(y, q)
              \/ Holds(y, q) /\ ~Holds(y, q)'
<1>1. UNCHANGED <<store, issued, owner, age, on, caller, decision, answeredBy, runs>>
  BY DEF Listed, ReportDeclined, ToolReturns, SkipUnoffered, CallRead, AskModel, AskFinal,
         ReplyWithCalls, InTurnOnly, storeVars, history
<1>2. \/ /\ pc[x] = "list" /\ resumed' = resumed
         /\ pc' = [pc EXCEPT ![x] = IF resumed[x] = None THEN "loop" ELSE "answer"]
      \/ /\ pc[x] = "answer" /\ resumed' = [resumed EXCEPT ![x] = None]
         /\ pc' = [pc EXCEPT ![x] = "loop"]
      \/ /\ pc[x] \in {"loop", "llm", "read", "write"} /\ resumed' = resumed
         /\ \/ pc' = pc
            \/ \E l \in {"loop", "llm", "read", "final"} : pc' = [pc EXCEPT ![x] = l]
  BY DEF Listed, ReportDeclined, ToolReturns, SkipUnoffered, CallRead, AskModel, AskFinal,
         ReplyWithCalls, AtCall, Goto
<1>3. PlaceTypeOK'
  BY <1>1, <1>2 DEF PlaceInv, PlaceTypeOK
<1>4. OnePlace'
  BY <1>1, <1>2, <1>3 DEF PlaceInv, PlaceTypeOK, OnePlace
<1>5. ASSUME NEW y \in Turns, NEW q \in Requests
      PROVE  Holds(y, q)' => Holds(y, q)
  BY <1>2, NoneAssumption DEF PlaceInv, PlaceTypeOK, OnePlace, Holds
<1> QED  BY <1>1, <1>3, <1>4, <1>5 DEF PlaceInv

\* Turns that end, by themselves or because their task is cancelled.
LEMMA EndKeepsPlaces ==
  ASSUME PlaceInv,
         \/ \E x \in Turns, s \in {"completed", "failed"} : TurnEnds(x, s)
         \/ \E t \in Tasks : Cancel(t)
  PROVE  /\ PlaceInv'
         /\ UNCHANGED <<store, issued, owner, age, answeredBy, runs>>
         /\ \E S \in SUBSET Turns : EndTurns(S)
<1>1. UNCHANGED <<store, issued, owner, age, answeredBy, runs>>
  BY DEF TurnEnds, Cancel, storeVars, history
<1>2. PICK S \in SUBSET Turns : EndTurns(S)
  BY DEF TurnEnds, Cancel
<1> QED  BY <1>1, <1>2, LessIsFine DEF PlaceInv, PlaceTypeOK

\* The restart leaves nothing in place.
LEMMA RestartKeepsPlaces ==
  ASSUME PlaceInv, Restart
  PROVE  /\ PlaceInv' /\ UNCHANGED <<issued, owner, age, answeredBy, runs>>
         /\ EndTurns(Turns) /\ store' = [t \in Tasks |-> None]
  BY LessIsFine DEF Restart

\* An answer that is not taken, and a message that is refused, only empty.
LEMMA RefusalKeepsPlaces ==
  ASSUME PlaceInv,
         \/ \E t \in Tasks : FreshRefused(t)
         \/ \E t \in Tasks, c \in Callers, q \in Requests : ResumeRefused(t, c, q)
  PROVE  /\ PlaceInv'
         /\ UNCHANGED <<issued, owner, age, pc, resumed, decision, answeredBy, runs>>
         /\ \A t \in Tasks : store'[t] = None \/ store'[t] = store[t]
<1>1. UNCHANGED <<issued, owner, age, pc, on, caller, resumed, decision, answeredBy, runs>>
  BY DEF FreshRefused, ResumeRefused, turnVars, history
<1>2. /\ store' \in [Tasks -> Requests \cup {None}]
      /\ \A t \in Tasks : store'[t] = None \/ store'[t] = store[t]
  <2>1. CASE store' = Swept
    BY <2>1, SweptStore DEF PlaceInv
  <2>2. ASSUME NEW t \in Tasks, store' = [store EXCEPT ![t] = None]
        PROVE  /\ store' \in [Tasks -> Requests \cup {None}]
               /\ \A u \in Tasks : store'[u] = None \/ store'[u] = store[u]
    BY <2>2 DEF PlaceInv, PlaceTypeOK
  <2> QED  BY <2>1, <2>2 DEF FreshRefused, ResumeRefused, Drop
<1>3. PlaceInv'
  BY <1>1, <1>2 DEF PlaceInv, PlaceTypeOK, OnePlace
<1> QED  BY <1>1, <1>2, <1>3

\* Time passes, or somebody edits the policy file.
LEMMA TimeKeepsPlaces ==
  ASSUME PlaceInv, Elapse \/ EditPolicy
  PROVE  PlaceInv' /\ UNCHANGED <<store, issued, owner, pc, resumed, decision, answeredBy, runs>>
<1>1. /\ UNCHANGED <<store, issued, owner, pc, on, caller, resumed, decision, answeredBy, runs>>
  BY DEF Elapse, EditPolicy, storeVars, turnVars, history
<1>2. age' \in [Requests -> 0..(Timeout + 1)]
  BY BoundsAssumption DEF Elapse, EditPolicy, storeVars, Expired, PlaceInv, PlaceTypeOK
<1> QED  BY <1>1, <1>2 DEF PlaceInv, PlaceTypeOK, OnePlace

\* Every step of the endpoint is one of the above.
LEMMA StepKeepsPlaces ==
  ASSUME PlaceInv, [Next]_vars
  PROVE  PlaceInv'
<1>1. CASE UNCHANGED vars
  BY <1>1 DEF vars, storeVars, turnVars, history, PlaceInv, PlaceTypeOK, OnePlace
<1> QED
  BY <1>1, FreshKeepsPlaces, ResumeKeepsPlaces, RequestKeepsPlaces, RunKeepsPlaces,
     TurnKeepsPlaces, EndKeepsPlaces, RestartKeepsPlaces, RefusalKeepsPlaces, TimeKeepsPlaces
  DEF Next, TurnStep

\* A request is in one place at a time, in the store or with the turn that took
\* it, and has not run while it is in either.
THEOREM PlacesAreUnique == Spec => []OnePlace
<1>1. PlaceInv => OnePlace
  BY DEF PlaceInv
<1> QED  BY <1>1, PlaceInit, StepKeepsPlaces, PTL DEF Spec

-----------------------------------------------------------------------------
\* A step that only gives requests up is a step of the contract.
LEMMA GiveUpStep ==
  ASSUME UNCHANGED <<owner, age, answeredBy, runs>>,
         \A q \in Requests : \/ Phase(q)' = Phase(q)
                             \/ Phase(q) \in {"open", "approved"} /\ Phase(q)' = "void"
  PROVE  Contract!Next
<1> DEFINE S == {q \in Requests : Phase(q)' # Phase(q)}
<1>1. S \in SUBSET Requests
  OBVIOUS
<1>2. Contract!GiveUp(S)
  <2>1. Contract!GivenUp(S)
    <3>1. \A q \in S : Phase(q) \in {"open", "approved"}
      OBVIOUS
    <3> HIDE DEF S
    <3> QED  BY <1>1, <3>1 DEF Contract!GivenUp
  <2>2. [q \in Requests |-> Phase(q)]' = [q \in Requests |-> IF q \in S THEN "void" ELSE Phase(q)]
    OBVIOUS
  <2> QED  BY <2>1, <2>2 DEF Contract!GiveUp
<1> QED  BY <1>1, <1>2 DEF Contract!Next

\* Emptying places only gives requests up.
LEMMA LessGivesUp ==
  ASSUME PlaceInv,
         UNCHANGED <<issued, owner, age, answeredBy, runs>>,
         \A t \in Tasks : store'[t] = None \/ store'[t] = store[t],
         \A x \in Turns, q \in Requests :
           Holds(x, q)' => Holds(x, q) /\ decision'[x] = decision[x]
  PROVE  Contract!Next
<1>1. ASSUME NEW q \in Requests
      PROVE  \/ Phase(q)' = Phase(q)
             \/ Phase(q) \in {"open", "approved"} /\ Phase(q)' = "void"
  <2>1. Pending(q)' => Pending(q)
    BY NoneAssumption DEF Pending
  <2>2. Approved(q)' => Approved(q)
    BY DEF Approved
  <2>3. Pending(q) => ~Approved(q)
    BY NoneAssumption DEF Pending, Approved, Holds, PlaceInv, OnePlace
  <2> QED  BY <2>1, <2>2, <2>3 DEF Phase
<1> QED  BY <1>1, GiveUpStep

\* The request of a turn is asked, and what it replaces is given up.
LEMMA RequestAsks ==
  ASSUME PlaceInv, NEW x \in Turns, NEW q \in Requests, RequestApproval(x, q)
  PROVE  Contract!Next
<1> DEFINE S == {p \in Requests \ {q} : Phase(p)' # Phase(p)}
<1>1. /\ q \notin issued /\ issued' = issued \cup {q}
      /\ owner' = [owner EXCEPT ![q] = caller[x]]
      /\ age' = [age EXCEPT ![q] = 0]
      /\ Put(on[x], q) /\ EndTurns({x}) /\ UNCHANGED <<answeredBy, runs>>
      /\ pc[x] = "loop"
  BY DEF RequestApproval, AtCall
<1>2. PlaceInv' /\ on[x] \in Tasks /\ caller[x] \in Callers
  BY RequestKeepsPlaces
<1>3. /\ store'[on[x]] = q
      /\ \A u \in Tasks : u # on[x] => store'[u] = None \/ store'[u] = store[u]
  BY <1>1, <1>2, PutStore DEF PlaceInv
<1>4. Phase(q) = "unasked" /\ Phase(q)' = "open"
  BY <1>1, <1>2, <1>3 DEF Phase, Pending, PlaceInv, OnePlace, PlaceTypeOK
<1>5. ASSUME NEW p \in Requests \ {q}
      PROVE  \/ Phase(p)' = Phase(p)
             \/ Phase(p) \in {"open", "approved"} /\ Phase(p)' = "void"
  <2>1. Pending(p)' => Pending(p)
    BY <1>3, NoneAssumption DEF Pending
  <2>2. Approved(p)' <=> Approved(p)
    <3>1. \A y \in Turns : Holds(y, p)' /\ decision'[y] = "approve"
                             <=> Holds(y, p) /\ decision[y] = "approve"
      BY <1>1 DEF Holds, EndTurns, PlaceInv, PlaceTypeOK, OnePlace
    <3> QED  BY <3>1 DEF Approved
  <2>3. Pending(p) => ~Approved(p)
    BY NoneAssumption DEF Pending, Approved, Holds, PlaceInv, OnePlace
  <2>4. (p \in issued' <=> p \in issued) /\ runs'[p] = runs[p]
    BY <1>1
  <2> QED  BY <2>1, <2>2, <2>3, <2>4 DEF Phase
<1>6. Contract!Ask(q, caller[x], S)
  <2>1. [p \in Requests |-> Phase(p)]' =
          [p \in Requests |-> IF p = q THEN "open" ELSE IF p \in S THEN "void" ELSE Phase(p)]
    BY <1>4, <1>5
  <2>2. \A p \in S : Phase(p) \in {"open", "approved"}
    BY <1>5
  <2>3. S \subseteq Requests
    OBVIOUS
  <2> HIDE DEF S
  <2>4. Contract!GivenUp(S)
    BY <2>2, <2>3 DEF Contract!GivenUp
  <2>5. Contract!PhasesAfter(S, q, "open")
    BY <2>1 DEF Contract!PhasesAfter
  <2> QED  BY <1>1, <1>4, <2>4, <2>5 DEF Contract!Ask
<1>7. S \in SUBSET Requests /\ q \in Requests \ S
  OBVIOUS
<1> HIDE DEF S
<1> QED  BY <1>2, <1>6, <1>7 DEF Contract!Next

\* The answer is taken from the caller it was asked of, in time.
LEMMA ResumeAnswers ==
  ASSUME PlaceInv, NEW t \in Tasks, NEW c \in Callers, NEW x \in Turns, NEW q \in Requests,
         NEW d \in {"approve", "reject"}, Resume(x, t, c, q, d)
  PROVE  Contract!Next
<1> DEFINE S == {p \in Requests \ {q} : Phase(p)' # Phase(p)}
           verdict == IF d = "approve" THEN "approved" ELSE "void"
<1>1. /\ store' = [Swept EXCEPT ![t] = None] /\ Swept[t] = q /\ owner[q] = c
      /\ answeredBy' = [answeredBy EXCEPT ![q] = c]
      /\ UNCHANGED <<issued, owner, age, runs>>
  BY DEF Resume, Taken, Takes
<1>2. PICK calls, budget, allowed, asked :
        BeginTurn(x, t, c, q, d, allowed, calls, budget, asked)
  BY DEF Resume
<1>3. /\ pc'[x] = "list" /\ resumed'[x] = q /\ decision'[x] = d /\ resumed[x] = None
      /\ \A y \in Turns \ {x} : /\ pc'[y] = pc[y] /\ resumed'[y] = resumed[y]
                                /\ decision'[y] = decision[y]
  BY <1>2, BeginPlaces DEF PlaceInv
<1>4. /\ store[t] = q /\ q # None /\ ~Expired(q) /\ store'[t] = None
      /\ \A u \in Tasks \ {t} : store'[u] = None \/ store'[u] = store[u]
  BY <1>1, SweptStore, NoneAssumption DEF PlaceInv
<1>5. q \in issued /\ runs[q] = 0 /\ PlaceInv'
  BY <1>4, ResumeKeepsPlaces DEF PlaceInv, OnePlace
<1>6. Phase(q) = "open"
  BY <1>4, <1>5 DEF Phase, Pending
<1>7. Phase(q)' = verdict
  <2>1. ~Pending(q)'
    BY <1>3, <1>4, <1>5 DEF Pending, PlaceInv, OnePlace
  <2>2. Approved(q)' <=> d = "approve"
    <3>1. Holds(x, q)' /\ decision'[x] = d
      BY <1>3 DEF Holds
    <3>2. \A y \in Turns : Holds(y, q)' => y = x
      BY <1>3, <1>5, <1>4 DEF Holds, PlaceInv, OnePlace
    <3> QED  BY <3>1, <3>2 DEF Approved
  <2> QED  BY <1>1, <1>5, <2>1, <2>2 DEF Phase
<1>8. ASSUME NEW p \in Requests \ {q}
      PROVE  \/ Phase(p)' = Phase(p)
             \/ Phase(p) \in {"open", "approved"} /\ Phase(p)' = "void"
  <2>1. Pending(p)' => Pending(p)
    BY <1>4, NoneAssumption DEF Pending
  <2>2. Approved(p)' <=> Approved(p)
    <3>1. \A y \in Turns : Holds(y, p)' /\ decision'[y] = "approve"
                             <=> Holds(y, p) /\ decision[y] = "approve"
      BY <1>3, NoneAssumption DEF Holds
    <3> QED  BY <3>1 DEF Approved
  <2>3. Pending(p) => ~Approved(p)
    BY NoneAssumption DEF Pending, Approved, Holds, PlaceInv, OnePlace
  <2> QED  BY <1>1, <2>1, <2>2, <2>3 DEF Phase
<1>9. Contract!Answer(q, verdict, S)
  <2>1. [p \in Requests |-> Phase(p)]' =
          [p \in Requests |-> IF p = q THEN verdict ELSE IF p \in S THEN "void" ELSE Phase(p)]
    BY <1>7, <1>8
  <2>2. \A p \in S : Phase(p) \in {"open", "approved"}
    BY <1>8
  <2>3. S \subseteq Requests
    OBVIOUS
  <2> HIDE DEF S, verdict
  <2>4. Contract!GivenUp(S)
    BY <2>2, <2>3 DEF Contract!GivenUp
  <2>5. Contract!PhasesAfter(S, q, verdict)
    BY <2>1 DEF Contract!PhasesAfter
  <2>6. age[q] <= Timeout
    BY <1>4, BoundsAssumption DEF Expired, PlaceInv, PlaceTypeOK
  <2> QED  BY <1>1, <1>6, <2>4, <2>5, <2>6 DEF Contract!Answer
<1>10. S \in SUBSET Requests /\ q \in Requests \ S /\ verdict \in {"approved", "void"}
  OBVIOUS
<1> HIDE DEF S, verdict
<1> QED  BY <1>9, <1>10 DEF Contract!Next

\* An approved write is sent.
LEMMA RunRuns ==
  ASSUME PlaceInv, NEW x \in Turns, RunApproved(x)
  PROVE  Contract!Next
<1>0. PICK q \in Requests : resumed[x] = q
  BY DEF RunApproved, PlaceInv, PlaceTypeOK, OnePlace
<1> USE <1>0
<1>1. /\ pc[x] = "answer" /\ pc' = [pc EXCEPT ![x] = "write"] /\ decision[x] = "approve"
      /\ resumed' = [resumed EXCEPT ![x] = None]
      /\ runs' = [runs EXCEPT ![q] = @ + 1]
      /\ UNCHANGED <<store, issued, owner, age, decision, answeredBy>>
  BY DEF RunApproved, MayRun, Goto, storeVars
<1>2. q \in Requests /\ q \in issued /\ runs[q] = 0 /\ Holds(x, q)
  BY <1>1 DEF PlaceInv, PlaceTypeOK, OnePlace, Holds
<1>3. ~Pending(q) /\ Approved(q)
  BY <1>1, <1>2, NoneAssumption DEF PlaceInv, OnePlace, Pending, Approved
<1>4. Phase(q) = "approved" /\ Phase(q)' = "ran"
  BY <1>1, <1>2, <1>3 DEF Phase, PlaceInv, PlaceTypeOK
<1>5. ASSUME NEW p \in Requests, p # q
      PROVE  Phase(p)' = Phase(p)
  <2>1. \A y \in Turns : Holds(y, p)' <=> Holds(y, p)
    BY <1>1, <1>5, NoneAssumption DEF Holds, PlaceInv, PlaceTypeOK
  <2>2. Approved(p)' <=> Approved(p)
    BY <1>1, <2>1 DEF Approved
  <2>3. Pending(p)' <=> Pending(p)
    BY <1>1 DEF Pending
  <2> QED  BY <1>1, <1>5, <2>2, <2>3 DEF Phase, PlaceInv, PlaceTypeOK
<1>6. [p \in Requests |-> Phase(p)]' = [[p \in Requests |-> Phase(p)] EXCEPT ![q] = "ran"]
  BY <1>4, <1>5
<1>7. Contract!Run(q)
  BY <1>1, <1>2, <1>4, <1>6 DEF Contract!Run
<1> QED  BY <1>2, <1>7 DEF Contract!Next

\* A tick ages what is pending.
LEMMA ElapseTicks ==
  ASSUME PlaceInv, Elapse
  PROVE  Contract!Next
<1>1. UNCHANGED <<store, issued, owner, pc, resumed, decision, answeredBy, runs>>
  BY DEF Elapse, turnVars, history
<1>2. ASSUME NEW q \in Requests
      PROVE  Phase(q)' = Phase(q) /\ (Phase(q) = "open" <=> Pending(q))
  <2>1. Pending(q) => q \in issued /\ runs[q] = 0
    BY NoneAssumption DEF Pending, PlaceInv, OnePlace
  <2>2. (Pending(q)' <=> Pending(q)) /\ (Approved(q)' <=> Approved(q))
    BY <1>1 DEF Pending, Approved, Holds
  <2> QED  BY <1>1, <2>1, <2>2 DEF Phase
<1>3. [q \in Requests |-> Phase(q)]' = [q \in Requests |-> Phase(q)]
  BY <1>2
<1>4. age' = [q \in Requests |->
               IF [p \in Requests |-> Phase(p)][q] = "open" /\ age[q] <= Timeout
               THEN age[q] + 1 ELSE age[q]]
  <2>1. \A q \in Requests : Expired(q) <=> ~(age[q] <= Timeout)
    BY BoundsAssumption DEF Expired, PlaceInv, PlaceTypeOK
  <2> QED  BY <1>2, <2>1 DEF Elapse, Pending
<1>5. Contract!Tick
  BY <1>1, <1>3, <1>4 DEF Contract!Tick
<1> QED  BY <1>5 DEF Contract!Next

\* Every step is a step of the contract, or changes nothing it speaks of.
LEMMA StepImplements ==
  ASSUME PlaceInv, [Next]_vars
  PROVE  [Contract!Next]_(Contract!contractVars)
<1>1. CASE UNCHANGED vars \/ EditPolicy
  <2>1. UNCHANGED <<store, issued, owner, age, pc, resumed, decision, answeredBy, runs>>
    BY <1>1 DEF vars, EditPolicy, storeVars, turnVars, history
  <2>2. UNCHANGED [q \in Requests |-> Phase(q)]
    BY <2>1 DEF Phase, Pending, Approved, Holds
  <2> QED  BY <2>1, <2>2 DEF Contract!contractVars
<1>2. ASSUME NEW t \in Tasks, NEW c \in Callers, NEW x \in Turns, NEW delegated \in BOOLEAN,
             FreshTurn(x, t, c, delegated)
      PROVE  Contract!Next
  <2>1. /\ store' = [store EXCEPT ![t] = None]
        /\ UNCHANGED <<issued, owner, age, answeredBy, runs>>
    BY <1>2 DEF FreshTurn, Drop, history
  <2>2. PICK calls, budget, allowed :
          BeginTurn(x, t, c, None, "reject", allowed, calls, budget, 0)
    BY <1>2 DEF FreshTurn
  <2>3. /\ resumed'[x] = None
        /\ \A y \in Turns \ {x} : /\ pc'[y] = pc[y] /\ resumed'[y] = resumed[y]
                                  /\ decision'[y] = decision[y]
    BY <2>2, BeginPlaces DEF PlaceInv
  <2>4. \A y \in Turns, q \in Requests : Holds(y, q)' => Holds(y, q) /\ decision'[y] = decision[y]
    BY <2>3, NoneAssumption DEF Holds
  <2>5. \A u \in Tasks : store'[u] = None \/ store'[u] = store[u]
    BY <2>1 DEF PlaceInv, PlaceTypeOK
  <2> QED  BY <2>1, <2>4, <2>5, LessGivesUp
<1>3. ASSUME \/ \E t \in Tasks : FreshRefused(t)
             \/ \E t \in Tasks, c \in Callers, q \in Requests : ResumeRefused(t, c, q)
      PROVE  Contract!Next
  <2>1. \A y \in Turns, q \in Requests : Holds(y, q)' => Holds(y, q) /\ decision'[y] = decision[y]
    BY <1>3, RefusalKeepsPlaces DEF Holds
  <2> QED  BY <1>3, <2>1, RefusalKeepsPlaces, LessGivesUp
<1>4. ASSUME NEW S \in SUBSET Turns, EndTurns(S)
      PROVE  \A y \in Turns, q \in Requests :
               Holds(y, q)' => Holds(y, q) /\ decision'[y] = decision[y]
  BY <1>4, NoneAssumption DEF EndTurns, Holds
<1>5. CASE \/ \E x \in Turns, s \in {"completed", "failed"} : TurnEnds(x, s)
           \/ \E t \in Tasks : Cancel(t)
  BY <1>4, <1>5, EndKeepsPlaces, LessGivesUp
<1>6. CASE Restart
  BY <1>4, <1>6, RestartKeepsPlaces, LessGivesUp
<1>7. ASSUME NEW x \in Turns,
             \/ \E names \in SUBSET Tools : Listed(x, names)
             \/ ReportDeclined(x) \/ ToolReturns(x) \/ SkipUnoffered(x) \/ CallRead(x)
             \/ AskModel(x) \/ AskFinal(x)
             \/ \E calls \in Batches : ReplyWithCalls(x, calls)
      PROVE  Contract!Next
  BY <1>7, TurnKeepsPlaces, LessGivesUp
<1> QED
  BY <1>1, <1>2, <1>3, <1>5, <1>6, <1>7, ResumeAnswers, RequestAsks, RunRuns, ElapseTicks
  DEF Next, TurnStep

\* The endpoint implements the contract of a human approval: a write runs at
\* most once, after a yes in time of the caller it was asked of.
THEOREM ApprovalsKeepThePromise == Spec => KeepsThePromise
<1>1. Init => Contract!Init
  BY DEF Init, Contract!Init, Phase
<1> QED
  BY <1>1, PlaceInit, StepKeepsPlaces, StepImplements, PTL DEF Spec, KeepsThePromise, Contract!Spec

-----------------------------------------------------------------------------
\* What a turn has before it: the calls its place needs, and the rounds that are
\* left of its conversation, which a call of the model takes one of.
Names == {"read", "write", "unlisted"}
HasCalls(x) == pc[x] \in {"answer", "read", "write"} \/ resumed[x] # None => backlog[x] # <<>>
HasRounds(x) ==
  /\ pc[x] = "idle" => asks[x] = 0
  /\ pc[x] \in {"list", "answer", "loop", "read", "write", "final"} =>
       asks[x] + rounds[x] = MaxRounds + 1
  /\ pc[x] = "llm" => asks[x] + rounds[x] = MaxRounds + 2 /\ rounds[x] > 0
RequestHolds(q) == todo[q] # <<>> /\ askedSoFar[q] + left[q] = MaxRounds + 1

AgendaTypeOK ==
  /\ todo \in [Requests -> Seq(Names)]
  /\ left \in [Requests -> 0..(MaxRounds + 1)]
  /\ askedSoFar \in [Requests -> Nat]
  /\ policy \in BOOLEAN /\ limits \in BOOLEAN
  /\ offered \in [Turns -> SUBSET Tools]
  /\ backlog \in [Turns -> Seq(Names)]
  /\ rounds \in [Turns -> 0..(MaxRounds + 1)]
  /\ asks \in [Turns -> Nat]

Agenda == /\ AgendaTypeOK
          /\ \A x \in Turns : HasCalls(x) /\ HasRounds(x)
          /\ \A q \in issued : RequestHolds(q)

\* A turn that another one's step, or a message, leaves alone.
Unmoved(y) == UNCHANGED <<pc[y], resumed[y], backlog[y], rounds[y], asks[y]>>

LEMMA OneTurnMoves ==
  ASSUME Agenda, AgendaTypeOK', UNCHANGED <<issued, todo, left, askedSoFar>>,
         NEW x \in Turns, \A y \in Turns \ {x} : Unmoved(y), HasCalls(x)', HasRounds(x)'
  PROVE  Agenda'
<1>1. \A y \in Turns : HasCalls(y)' /\ HasRounds(y)'
  BY DEF Agenda, Unmoved, HasCalls, HasRounds
<1>2. \A q \in issued' : RequestHolds(q)'
  BY DEF Agenda, RequestHolds
<1> QED  BY <1>1, <1>2 DEF Agenda

\* Turns that end have nothing before them.
LEMMA EndedAgenda ==
  ASSUME PlaceInv, Agenda, NEW S \in SUBSET Turns, EndTurns(S),
         policy' \in BOOLEAN, limits' \in BOOLEAN
  PROVE  /\ UNCHANGED <<todo, left, askedSoFar>> => AgendaTypeOK'
         /\ \A x \in Turns : HasCalls(x)' /\ HasRounds(x)'
<1>1. 0 \in 0..(MaxRounds + 1) /\ <<>> \in Seq(Names)
  BY BoundsAssumption, EmptySeq
<1>2. /\ offered' \in [Turns -> SUBSET Tools] /\ backlog' \in [Turns -> Seq(Names)]
      /\ rounds' \in [Turns -> 0..(MaxRounds + 1)] /\ asks' \in [Turns -> Nat]
  BY <1>1 DEF EndTurns, Agenda, AgendaTypeOK
<1>3. ASSUME NEW x \in Turns
      PROVE  HasCalls(x)' /\ HasRounds(x)'
  <2>1. CASE x \in S
    BY <2>1 DEF EndTurns, HasCalls, HasRounds
  <2>2. CASE x \notin S
    BY <2>2 DEF EndTurns, Agenda, HasCalls, HasRounds
  <2> QED  BY <2>1, <2>2
<1> QED  BY <1>2, <1>3 DEF Agenda, AgendaTypeOK

\* A message begins a turn with the calls and the rounds it is given.
LEMMA BegunAgenda ==
  ASSUME PlaceInv, Agenda, NEW x \in Turns, NEW t \in Tasks, NEW c \in Callers,
         NEW q \in Requests \cup {None}, NEW d \in {"approve", "reject"}, NEW allowed,
         NEW calls \in Seq(Names), NEW budget \in 0..(MaxRounds + 1), NEW asked \in Nat,
         BeginTurn(x, t, c, q, d, allowed, calls, budget, asked),
         UNCHANGED <<issued, todo, left, askedSoFar, policy, limits>>,
         q # None => calls # <<>>, asked + budget = MaxRounds + 1
  PROVE  Agenda'
<1>1. AgendaTypeOK'
  BY DEF BeginTurn, Agenda, AgendaTypeOK, Tools
<1>2. /\ pc'[x] = "list" /\ resumed'[x] = q /\ backlog'[x] = calls /\ rounds'[x] = budget
      /\ asks'[x] = asked
      /\ \A y \in Turns \ {x} : Unmoved(y)
  BY DEF BeginTurn, Agenda, AgendaTypeOK, PlaceInv, PlaceTypeOK, Unmoved
<1>3. HasCalls(x)' /\ HasRounds(x)'
  BY <1>2 DEF HasCalls, HasRounds
<1> QED  BY <1>1, <1>2, <1>3, OneTurnMoves

\* At start no turn runs and nothing was asked.
LEMMA AgendaInit == Init => Agenda
<1> SUFFICES ASSUME Init PROVE Agenda
  OBVIOUS
<1>1. 0 \in 0..(MaxRounds + 1) /\ <<>> \in Seq(Names) /\ policy \in BOOLEAN
  BY BoundsAssumption, EmptySeq DEF Init
<1> QED
  BY <1>1, BoundsAssumption
  DEF Init, Agenda, AgendaTypeOK, HasCalls, HasRounds, RequestHolds

\* The steps inside a turn: one call of the backlog, or one call of the model.
LEMMA TurnKeepsAgenda ==
  ASSUME PlaceInv, Agenda, NEW x \in Turns,
         \/ \E names \in SUBSET Tools : Listed(x, names)
         \/ RunApproved(x) \/ ReportDeclined(x) \/ ToolReturns(x)
         \/ SkipUnoffered(x) \/ CallRead(x) \/ AskModel(x) \/ AskFinal(x)
         \/ \E calls \in Batches : ReplyWithCalls(x, calls)
  PROVE  Agenda'
<1>1. UNCHANGED <<issued, todo, left, askedSoFar, policy, limits>>
  BY DEF Listed, RunApproved, ReportDeclined, ToolReturns, SkipUnoffered, CallRead, AskModel,
         AskFinal, ReplyWithCalls, InTurnOnly, storeVars, history
<1>2. HasCalls(x) /\ HasRounds(x) /\ backlog[x] \in Seq(Names)
      /\ rounds[x] \in 0..(MaxRounds + 1) /\ asks[x] \in Nat /\ MaxRounds \in Nat
  BY BoundsAssumption DEF Agenda, AgendaTypeOK
<1>3. /\ resumed[x] # None => pc[x] \in {"list", "answer"}
      /\ pc[x] = "answer" => resumed[x] # None
  BY DEF PlaceInv, OnePlace
<1>4. ASSUME UNCHANGED <<backlog, rounds, asks>>, offered' \in [Turns -> SUBSET Tools],
             \/ pc[x] = "list" /\ resumed' = resumed
                /\ pc' = [pc EXCEPT ![x] = IF resumed[x] = None THEN "loop" ELSE "answer"]
             \/ pc[x] = "answer" /\ resumed' = [resumed EXCEPT ![x] = None]
                /\ pc' = [pc EXCEPT ![x] = "write"]
             \/ pc[x] = "loop" /\ backlog[x] # <<>> /\ resumed' = resumed
                /\ pc' = [pc EXCEPT ![x] = "read"]
             \/ pc[x] = "loop" /\ resumed' = resumed /\ pc' = [pc EXCEPT ![x] = "final"]
      PROVE  Agenda'
  <2>1. AgendaTypeOK'
    BY <1>1, <1>4 DEF Agenda, AgendaTypeOK
  <2>2. \A y \in Turns \ {x} : Unmoved(y)
    BY <1>4 DEF Unmoved, PlaceInv, PlaceTypeOK
  <2>3. HasCalls(x)' /\ HasRounds(x)'
    BY <1>2, <1>3, <1>4 DEF HasCalls, HasRounds, PlaceInv, PlaceTypeOK
  <2> QED  BY <1>1, <2>1, <2>2, <2>3, OneTurnMoves
<1>5. ASSUME UNCHANGED <<offered, rounds, asks>>, backlog' = [backlog EXCEPT ![x] = Tail(@)],
             pc[x] \in {"answer", "read", "write", "loop"}, backlog[x] # <<>>,
             pc' = [pc EXCEPT ![x] = "loop"],
             resumed' = resumed \/ resumed' = [resumed EXCEPT ![x] = None],
             pc[x] = "answer" => resumed' # resumed
      PROVE  Agenda'
  <2>1. Tail(backlog[x]) \in Seq(Names)
    BY <1>2, <1>5, HeadTailProperties
  <2>2. AgendaTypeOK'
    BY <1>1, <1>5, <2>1 DEF Agenda, AgendaTypeOK
  <2>3. \A y \in Turns \ {x} : Unmoved(y)
    BY <1>5 DEF Unmoved, PlaceInv, PlaceTypeOK, Agenda, AgendaTypeOK
  <2>4. pc'[x] = "loop" /\ resumed'[x] = None
    BY <1>3, <1>5 DEF PlaceInv, PlaceTypeOK
  <2>5. HasCalls(x)' /\ HasRounds(x)'
    BY <1>2, <1>5, <2>4 DEF HasCalls, HasRounds
  <2> QED  BY <1>1, <2>2, <2>3, <2>5, OneTurnMoves
<1>6. CASE \E names \in SUBSET Tools : Listed(x, names)
  <2>1. \A names \in SUBSET Tools :
          [offered EXCEPT ![x] = @ \cap names] \in [Turns -> SUBSET Tools]
    BY DEF Agenda, AgendaTypeOK
  <2> QED  BY <1>4, <1>6, <2>1 DEF Listed, Goto, InTurnOnly
<1>7. CASE RunApproved(x) \/ CallRead(x) \/ AskFinal(x)
  BY <1>4, <1>7 DEF RunApproved, CallRead, AtCall, AskFinal, Goto, Agenda, AgendaTypeOK
<1>8. CASE ReportDeclined(x)
  <2>1. backlog[x] # <<>> /\ resumed[x] # None
    BY <1>2, <1>3, <1>8 DEF ReportDeclined, HasCalls
  <2>2. [resumed EXCEPT ![x] = None] # resumed
    BY <2>1 DEF PlaceInv, PlaceTypeOK
  <2> QED  BY <1>5, <1>8, <2>1, <2>2 DEF ReportDeclined, Goto
<1>9. CASE ToolReturns(x)
  <2>1. backlog[x] # <<>>
    BY <1>2, <1>9 DEF ToolReturns, HasCalls
  <2> QED  BY <1>5, <1>9, <2>1 DEF ToolReturns, Goto
<1>10. CASE SkipUnoffered(x)
  <2>1. backlog[x] # <<>> /\ pc[x] = "loop"
    BY <1>10 DEF SkipUnoffered, AtCall
  <2>2. pc' = [pc EXCEPT ![x] = "loop"]
    BY <1>10, <2>1 DEF SkipUnoffered, PlaceInv, PlaceTypeOK
  <2> QED  BY <1>5, <1>10, <2>1, <2>2 DEF SkipUnoffered
<1>11. CASE AskModel(x)
  <2>1. /\ pc[x] = "loop" /\ rounds[x] > 0 /\ pc' = [pc EXCEPT ![x] = "llm"]
        /\ asks' = [asks EXCEPT ![x] = @ + 1]
        /\ UNCHANGED <<resumed, offered, backlog, rounds>>
    BY <1>11 DEF AskModel, Goto
  <2>2. AgendaTypeOK'
    BY <1>1, <1>2, <2>1 DEF Agenda, AgendaTypeOK
  <2>3. \A y \in Turns \ {x} : Unmoved(y)
    BY <2>1 DEF Unmoved, PlaceInv, PlaceTypeOK, Agenda, AgendaTypeOK
  <2>4. pc'[x] = "llm" /\ asks'[x] = asks[x] + 1 /\ rounds'[x] = rounds[x] /\ resumed'[x] = None
    BY <1>3, <2>1 DEF PlaceInv, PlaceTypeOK, Agenda, AgendaTypeOK
  <2>5. HasCalls(x)' /\ HasRounds(x)'
    BY <1>2, <2>1, <2>4 DEF HasCalls, HasRounds
  <2> QED  BY <1>1, <2>2, <2>3, <2>5, OneTurnMoves
<1>12. ASSUME NEW calls \in Batches, ReplyWithCalls(x, calls)
       PROVE  Agenda'
  <2>1. /\ pc[x] = "llm" /\ pc' = [pc EXCEPT ![x] = "loop"]
        /\ backlog' = [backlog EXCEPT ![x] = calls]
        /\ rounds' = [rounds EXCEPT ![x] = rounds[x] - 1]
        /\ UNCHANGED <<resumed, offered, asks>>
    BY <1>12 DEF ReplyWithCalls, Goto, Spent
  <2>2. rounds[x] - 1 \in 0..(MaxRounds + 1) /\ asks[x] + (rounds[x] - 1) = MaxRounds + 1
    BY <1>2, <2>1 DEF HasRounds
  <2>3. AgendaTypeOK'
    BY <1>1, <2>1, <2>2, InputsAssumption DEF Agenda, AgendaTypeOK, Names
  <2>4. \A y \in Turns \ {x} : Unmoved(y)
    BY <2>1 DEF Unmoved, PlaceInv, PlaceTypeOK, Agenda, AgendaTypeOK
  <2>5. /\ pc'[x] = "loop" /\ asks'[x] = asks[x] /\ rounds'[x] = rounds[x] - 1
        /\ resumed'[x] = None
    BY <1>3, <2>1 DEF PlaceInv, PlaceTypeOK, Agenda, AgendaTypeOK
  <2>6. HasCalls(x)' /\ HasRounds(x)'
    BY <2>2, <2>5 DEF HasCalls, HasRounds
  <2> QED  BY <1>1, <2>3, <2>4, <2>6, OneTurnMoves
<1> QED  BY <1>6, <1>7, <1>8, <1>9, <1>10, <1>11, <1>12

\* A request takes the calls and the rounds of its turn with it.
LEMMA RequestKeepsAgenda ==
  ASSUME PlaceInv, Agenda, NEW x \in Turns, NEW q \in Requests, RequestApproval(x, q)
  PROVE  Agenda'
<1>1. /\ pc[x] = "loop" /\ backlog[x] # <<>> /\ q \notin issued /\ issued' = issued \cup {q}
      /\ todo' = [todo EXCEPT ![q] = backlog[x]]
      /\ left' = [left EXCEPT ![q] = rounds[x]]
      /\ askedSoFar' = [askedSoFar EXCEPT ![q] = asks[x]]
      /\ EndTurns({x}) /\ UNCHANGED <<policy, limits>>
  BY DEF RequestApproval, AtCall
<1>2. asks[x] + rounds[x] = MaxRounds + 1
  BY <1>1 DEF Agenda, HasRounds
<1>3. /\ todo' \in [Requests -> Seq(Names)] /\ left' \in [Requests -> 0..(MaxRounds + 1)]
      /\ askedSoFar' \in [Requests -> Nat]
  BY <1>1 DEF Agenda, AgendaTypeOK
<1>4. \A p \in issued' : RequestHolds(p)'
  <2>1. RequestHolds(q)'
    BY <1>1, <1>2 DEF RequestHolds, Agenda, AgendaTypeOK
  <2>2. ASSUME NEW p \in issued
        PROVE  RequestHolds(p)'
    <3>1. p # q /\ p \in Requests /\ RequestHolds(p)
      BY <1>1, <2>2 DEF PlaceInv, PlaceTypeOK, Agenda
    <3> QED  BY <1>1, <3>1 DEF RequestHolds, Agenda, AgendaTypeOK
  <2> QED  BY <1>1, <2>1, <2>2
<1>5. /\ offered' \in [Turns -> SUBSET Tools] /\ backlog' \in [Turns -> Seq(Names)]
      /\ rounds' \in [Turns -> 0..(MaxRounds + 1)] /\ asks' \in [Turns -> Nat]
  <2>1. 0 \in 0..(MaxRounds + 1) /\ <<>> \in Seq(Names)
    BY BoundsAssumption, EmptySeq
  <2> QED  BY <1>1, <2>1 DEF EndTurns, Agenda, AgendaTypeOK
<1>6. \A y \in Turns : HasCalls(y)' /\ HasRounds(y)'
  BY <1>1, EndedAgenda DEF Agenda, AgendaTypeOK
<1> QED  BY <1>1, <1>3, <1>4, <1>5, <1>6 DEF Agenda, AgendaTypeOK

\* Every step keeps what the turns and the requests have before them.
LEMMA StepKeepsAgenda ==
  ASSUME PlaceInv, Agenda, [Next]_vars
  PROVE  Agenda'
<1>1. CASE UNCHANGED <<issued, todo, left, askedSoFar, limits, turnVars, asks>>
           /\ policy' \in BOOLEAN
  BY <1>1 DEF turnVars, Agenda, AgendaTypeOK, HasCalls, HasRounds, RequestHolds
<1>2. ASSUME UNCHANGED vars \/ EditPolicy \/ Elapse
             \/ (\E t \in Tasks : FreshRefused(t))
             \/ \E t \in Tasks, c \in Callers, q \in Requests : ResumeRefused(t, c, q)
      PROVE  Agenda'
  <2>1. policy' \in BOOLEAN
    BY <1>2, InputsAssumption
    DEF vars, EditPolicy, Elapse, FreshRefused, ResumeRefused, Agenda, AgendaTypeOK
  <2>2. UNCHANGED <<issued, todo, left, askedSoFar, limits, turnVars, asks>>
    BY <1>2
    DEF vars, EditPolicy, Elapse, FreshRefused, ResumeRefused, storeVars, history
  <2> QED  BY <1>1, <2>1, <2>2
<1>3. ASSUME NEW t \in Tasks, NEW c \in Callers, NEW x \in Turns, NEW delegated \in BOOLEAN,
             FreshTurn(x, t, c, delegated)
      PROVE  Agenda'
  <2>1. PICK allowed :
          BeginTurn(x, t, c, None, "reject", allowed, <<>>, MaxRounds + 1, 0)
    BY <1>3 DEF FreshTurn
  <2>2. UNCHANGED <<issued, todo, left, askedSoFar, policy, limits>>
    BY <1>3 DEF FreshTurn, history
  <2>3. /\ <<>> \in Seq(Names) /\ MaxRounds + 1 \in 0..(MaxRounds + 1)
        /\ 0 + (MaxRounds + 1) = MaxRounds + 1 /\ 0 \in Nat
    BY BoundsAssumption, EmptySeq
  <2> QED  BY <2>1, <2>2, <2>3, BegunAgenda
<1>4. ASSUME NEW t \in Tasks, NEW c \in Callers, NEW x \in Turns, NEW q \in Requests,
             NEW d \in {"approve", "reject"}, Resume(x, t, c, q, d)
      PROVE  Agenda'
  <2>1. /\ BeginTurn(x, t, c, q, d, limits, todo[q], left[q], askedSoFar[q])
        /\ q \in issued
    BY <1>4 DEF Resume, RoundsKept
  <2>2. UNCHANGED <<issued, todo, left, askedSoFar, policy, limits>>
    BY <1>4 DEF Resume
  <2>3. /\ todo[q] \in Seq(Names) /\ left[q] \in 0..(MaxRounds + 1) /\ askedSoFar[q] \in Nat
        /\ todo[q] # <<>> /\ askedSoFar[q] + left[q] = MaxRounds + 1
    BY <2>1 DEF Agenda, AgendaTypeOK, RequestHolds
  <2> QED  BY <2>1, <2>2, <2>3, BegunAgenda
<1>5. ASSUME NEW S \in SUBSET Turns, EndTurns(S), policy' \in BOOLEAN, limits' \in BOOLEAN,
             UNCHANGED <<issued, todo, left, askedSoFar>>
      PROVE  Agenda'
  <2>1. AgendaTypeOK' /\ \A x \in Turns : HasCalls(x)' /\ HasRounds(x)'
    BY <1>5, EndedAgenda
  <2>2. \A q \in issued' : RequestHolds(q)'
    BY <1>5 DEF Agenda, RequestHolds
  <2> QED  BY <2>1, <2>2 DEF Agenda
<1>6. CASE Restart \/ (\E t \in Tasks : Cancel(t))
           \/ \E x \in Turns, s \in {"completed", "failed"} : TurnEnds(x, s)
  <2>1. /\ UNCHANGED <<issued, todo, left, askedSoFar>>
        /\ policy' \in BOOLEAN /\ limits' \in BOOLEAN
    BY <1>6 DEF Restart, Cancel, TurnEnds, storeVars, history, Agenda, AgendaTypeOK
  <2>2. \E S \in SUBSET Turns : EndTurns(S)
    BY <1>6 DEF Restart, Cancel, TurnEnds
  <2> QED  BY <1>5, <2>1, <2>2
<1> QED
  BY <1>2, <1>3, <1>4, <1>6, TurnKeepsAgenda, RequestKeepsAgenda DEF Next, TurnStep

\* A conversation asks the model with its tools max_tool_rounds + 1 times at most,
\* however many approvals it stops at: a resumed turn has the rounds that were left.
THEOREM RoundsAreBounded == Spec => []RoundsBounded
<1>1. ASSUME Agenda, PlaceInv, NEW x \in Turns
      PROVE  asks[x] <= MaxRounds + 1
  <2>1. HasRounds(x) /\ asks[x] \in Nat /\ rounds[x] \in Nat /\ MaxRounds \in Nat
        /\ pc[x] \in {"idle", "list", "answer", "loop", "llm", "read", "write", "final"}
    BY <1>1, BoundsAssumption DEF Agenda, AgendaTypeOK, PlaceInv, PlaceTypeOK
  <2> QED  BY <2>1 DEF HasRounds
<1>2. Agenda /\ PlaceInv => RoundsBounded
  BY <1>1 DEF RoundsBounded
<1> QED  BY <1>2, PlaceInit, AgendaInit, StepKeepsPlaces, StepKeepsAgenda, PTL DEF Spec

-----------------------------------------------------------------------------
\* What a task shows its caller is a request that was drawn, and can be answered.
TaskTypeOK ==
  /\ taskState \in [Tasks -> {"none", "working", "input"} \cup Final]
  /\ shown \in [Tasks -> Requests \cup {None}]
  /\ evicted \in SUBSET Requests
ShownIsIssued == \A t \in Tasks : taskState[t] = "input" => shown[t] \in issued
TaskInv == TaskTypeOK /\ ShownIsIssued /\ InputMeansAnswerable

\* What the store loses to a sweep has expired.
LEMMA SweepKeepsTasks ==
  ASSUME PlaceInv, TaskInv, NEW t \in Tasks, NEW s \in {"working", "failed"},
         taskState' = [taskState EXCEPT ![t] = s],
         \A u \in Tasks \ {t} : store'[u] = store[u] \/ store'[u] = Swept[u],
         UNCHANGED <<issued, age, shown, evicted>>
  PROVE  TaskInv'
<1>1. TaskTypeOK' /\ ShownIsIssued'
  BY DEF TaskInv, TaskTypeOK, ShownIsIssued, Final
<1>2. ASSUME NEW u \in Tasks, taskState'[u] = "input"
      PROVE  store'[u] = shown'[u] \/ Expired(shown[u])' \/ shown'[u] \in evicted'
  <2>1. u # t /\ taskState[u] = "input"
    BY <1>2 DEF TaskInv, TaskTypeOK
  <2>2. store'[u] = store[u] \/ (store'[u] = None /\ Expired(store[u]))
    BY <2>1, SweptStore DEF PlaceInv
  <2> QED  BY <2>1, <2>2 DEF TaskInv, InputMeansAnswerable, Expired
<1> QED  BY <1>1, <1>2 DEF TaskInv, InputMeansAnswerable

\* A request is shown where its task still runs; what it displaces is evicted.
LEMMA RequestKeepsTasks ==
  ASSUME PlaceInv, TaskInv, NEW x \in Turns, NEW q \in Requests, RequestApproval(x, q)
  PROVE  TaskInv'
<1>1. on[x] \in Tasks
  BY RequestKeepsPlaces
<1> DEFINE t == on[x]
<1>2. /\ q \notin issued /\ issued' = issued \cup {q} /\ age' = [age EXCEPT ![q] = 0]
      /\ Put(t, q)
      /\ \/ taskState' = [taskState EXCEPT ![t] = "input"] /\ shown' = [shown EXCEPT ![t] = q]
         \/ ~Open(t) /\ UNCHANGED <<taskState, shown>>
  BY DEF RequestApproval
<1> HIDE DEF t
<1>3. t \in Tasks
  BY <1>1 DEF t
<1>4. /\ store'[t] = q /\ evicted \subseteq evicted' /\ evicted' \in SUBSET Requests
      /\ \A u \in Tasks \ {t} : store'[u] = Swept[u]
                                \/ (store'[u] = None /\ (Swept[u] = None \/ Swept[u] \in evicted'))
  <2>1. CASE store' = [Swept EXCEPT ![t] = q] /\ UNCHANGED evicted
    BY <1>3, <2>1, SweptStore DEF PlaceInv, TaskInv, TaskTypeOK
  <2>2. ASSUME NEW o \in Oldest(Swept), store' = [Swept EXCEPT ![o] = None, ![t] = q],
               evicted' = evicted \cup {Swept[o]}
        PROVE  /\ store'[t] = q /\ evicted \subseteq evicted' /\ evicted' \in SUBSET Requests
               /\ \A u \in Tasks \ {t} :
                    \/ store'[u] = Swept[u]
                    \/ store'[u] = None /\ (Swept[u] = None \/ Swept[u] \in evicted')
    <3>1. o \in Tasks /\ Swept[o] # None
      BY <2>2 DEF Oldest, PendingIn
    <3> QED  BY <1>3, <2>2, <3>1, SweptStore DEF PlaceInv, TaskInv, TaskTypeOK
  <2> QED  BY <1>2, <2>1, <2>2 DEF Put
<1>5. TaskTypeOK'
  BY <1>2, <1>3, <1>4 DEF TaskInv, TaskTypeOK, Final
<1>6. ASSUME NEW u \in Tasks, taskState'[u] = "input"
      PROVE  /\ shown'[u] \in issued'
             /\ store'[u] = shown'[u] \/ Expired(shown[u])' \/ shown'[u] \in evicted'
  <2>1. CASE u = t
    <3>1. shown'[t] = q
      BY <1>2, <1>3, <1>6, <2>1 DEF TaskInv, TaskTypeOK, Open, Final
    <3> QED  BY <1>2, <1>4, <2>1, <3>1
  <2>2. CASE u # t
    <3>1. taskState[u] = "input" /\ shown'[u] = shown[u]
      BY <1>2, <1>6, <2>2 DEF TaskInv, TaskTypeOK
    <3>2. shown[u] \in issued /\ shown[u] # q /\ shown[u] \in Requests /\ shown[u] # None
      BY <1>2, <3>1, NoneAssumption DEF TaskInv, ShownIsIssued, PlaceInv, PlaceTypeOK
    <3>3. age'[shown[u]] = age[shown[u]]
      BY <1>2, <3>2 DEF PlaceInv, PlaceTypeOK
    <3>4. store[u] = shown[u] \/ Expired(shown[u]) \/ shown[u] \in evicted
      BY <3>1 DEF TaskInv, InputMeansAnswerable
    <3>5. Expired(shown[u]) => Expired(shown[u])'
      BY <3>1, <3>3 DEF Expired
    <3>6. Swept[u] = store[u] \/ Expired(store[u])
      BY SweptStore DEF PlaceInv
    <3> QED  BY <1>2, <1>4, <2>2, <3>1, <3>2, <3>4, <3>5, <3>6
  <2> QED  BY <2>1, <2>2
<1> QED  BY <1>5, <1>6 DEF TaskInv, ShownIsIssued, InputMeansAnswerable

\* Every step keeps a request answerable where it is shown.
LEMMA StepKeepsTasks ==
  ASSUME PlaceInv, TaskInv, [Next]_vars
  PROVE  TaskInv'
<1>1. CASE UNCHANGED <<store, issued, age, shown, evicted>>
           /\ taskState' \in [Tasks -> {"none", "working", "input"} \cup Final]
           /\ \A t \in Tasks : taskState'[t] = "input" => taskState[t] = "input"
  BY <1>1 DEF TaskInv, TaskTypeOK, ShownIsIssued, InputMeansAnswerable, Expired
<1>2. ASSUME UNCHANGED vars \/ EditPolicy
             \/ \E x \in Turns :
                  \/ \E names \in SUBSET Tools : Listed(x, names)
                  \/ RunApproved(x) \/ ReportDeclined(x) \/ ToolReturns(x)
                  \/ SkipUnoffered(x) \/ CallRead(x) \/ AskModel(x) \/ AskFinal(x)
                  \/ \E calls \in Batches : ReplyWithCalls(x, calls)
      PROVE  TaskInv'
  <2>1. UNCHANGED <<taskState, store, issued, age, shown, evicted>>
    BY <1>2
    DEF vars, EditPolicy, Listed, RunApproved, ReportDeclined, ToolReturns, SkipUnoffered,
        CallRead, AskModel, AskFinal, ReplyWithCalls, InTurnOnly, storeVars, history
  <2> QED  BY <1>1, <2>1 DEF TaskInv, TaskTypeOK
<1>3. CASE (\E x \in Turns, s \in {"completed", "failed"} : TurnEnds(x, s))
           \/ \E t \in Tasks : Cancel(t)
  <2>1. UNCHANGED <<store, issued, age, shown, evicted>>
    BY <1>3 DEF TurnEnds, Cancel, storeVars, history
  <2>2. taskState' = taskState
        \/ \E t, s : s \in Final /\ taskState' = [taskState EXCEPT ![t] = s]
    BY <1>3 DEF TurnEnds, Cancel, Becomes, Final
  <2>3. \A t, s : s \in Final =>
          [taskState EXCEPT ![t] = s] \in [Tasks -> {"none", "working", "input"} \cup Final]
    BY DEF TaskInv, TaskTypeOK
  <2>4. \A t \in Tasks : taskState'[t] = "input" => taskState[t] = "input"
    BY <2>2 DEF TaskInv, TaskTypeOK, Final
  <2> QED  BY <1>1, <2>1, <2>2, <2>3, <2>4 DEF TaskInv, TaskTypeOK
<1>4. ASSUME NEW t \in Tasks, NEW c \in Callers,
             \/ \E x \in Turns, delegated \in BOOLEAN : FreshTurn(x, t, c, delegated)
             \/ \E x \in Turns, q \in Requests, d \in {"approve", "reject"} : Resume(x, t, c, q, d)
             \/ \E q \in Requests : ResumeRefused(t, c, q)
      PROVE  TaskInv'
  <2>1. UNCHANGED <<issued, age, shown, evicted>>
    BY <1>4 DEF FreshTurn, Resume, ResumeRefused, history
  <2>2. \E s \in {"working", "failed"} : taskState' = [taskState EXCEPT ![t] = s]
    BY <1>4 DEF FreshTurn, Resume, ResumeRefused
  <2>3. store' = [store EXCEPT ![t] = None] \/ store' = Taken(t) \/ store' = Swept
    BY <1>4 DEF FreshTurn, Drop, Resume, ResumeRefused
  <2>4. \A u \in Tasks \ {t} : store'[u] = store[u] \/ store'[u] = Swept[u]
    BY <2>3, SweptStore DEF Taken, PlaceInv, PlaceTypeOK
  <2> QED  BY <2>1, <2>2, <2>4, SweepKeepsTasks
<1>5. CASE \E t \in Tasks : FreshRefused(t)
  <2>1. PICK t \in Tasks : FreshRefused(t)
    BY <1>5
  <2>2. UNCHANGED <<issued, age, shown, evicted>> /\ store' = [store EXCEPT ![t] = None]
        /\ taskState' = [taskState EXCEPT ![t] = "failed"]
    BY <2>1 DEF FreshRefused, Drop, history
  <2> QED  BY <2>2, SweepKeepsTasks DEF PlaceInv, PlaceTypeOK
<1>6. CASE Restart
  BY <1>6 DEF Restart, TaskInv, TaskTypeOK, ShownIsIssued, InputMeansAnswerable
<1>7. CASE Elapse
  <2>1. UNCHANGED <<taskState, store, issued, shown, evicted>>
    BY <1>7 DEF Elapse, history
  <2>2. ASSUME NEW q \in Requests, Expired(q)
        PROVE  Expired(q)'
    <3>1. age'[q] = age[q]
      BY <1>7, <2>2 DEF Elapse
    <3> QED  BY <2>2, <3>1 DEF Expired
  <2>3. ASSUME NEW t \in Tasks, taskState[t] = "input"
        PROVE  Expired(shown[t]) => Expired(shown[t])'
    <3>1. shown[t] \in Requests
      BY <2>3 DEF TaskInv, ShownIsIssued, PlaceInv, PlaceTypeOK
    <3> PICK q \in Requests : q = shown[t]
      BY <3>1
    <3>2. shown'[t] = q
      BY <2>1
    <3>3. Expired(q) => Expired(q)'
      BY <2>2
    <3> QED  BY <3>2, <3>3 DEF Expired
  <2> QED
    BY <2>1, <2>3 DEF TaskInv, TaskTypeOK, ShownIsIssued, InputMeansAnswerable
<1> QED
  BY <1>2, <1>3, <1>4, <1>5, <1>6, <1>7, RequestKeepsTasks DEF Next, TurnStep

LEMMA TaskInit == Init => TaskInv
  BY DEF Init, TaskInv, TaskTypeOK, ShownIsIssued, InputMeansAnswerable

\* The request a task shows its caller is the one an answer is compared with,
\* until it expires or a full store drops it, whatever the other turns do.
THEOREM ShownIsAnswerable == Spec => []InputMeansAnswerable
<1>1. TaskInv => InputMeansAnswerable
  BY DEF TaskInv
<1> QED  BY <1>1, PlaceInit, TaskInit, StepKeepsPlaces, StepKeepsTasks, PTL DEF Spec

-----------------------------------------------------------------------------
\* Every variable of the endpoint keeps its type.
THEOREM TypesAreKept == Spec => []TypeOK
<1>1. PlaceInv /\ Agenda /\ TaskInv => TypeOK
  BY DEF PlaceInv, PlaceTypeOK, Agenda, AgendaTypeOK, TaskInv, TaskTypeOK, TypeOK, Names
<1> QED
  BY <1>1, PlaceInit, AgendaInit, TaskInit, StepKeepsPlaces, StepKeepsAgenda, StepKeepsTasks,
     PTL DEF Spec

=============================================================================
