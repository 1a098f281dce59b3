---------------------------- MODULE JobsProofs ----------------------------
(***************************************************************************)
(* Theorems about the two components that start jobs elsewhere: the        *)
(* launches of AuditLaunches, for any calls, deliveries and lifetimes, and *)
(* the stages and TrainJobs of AdapterPipeline, for any runs, rows, files  *)
(* and resumptions.                                                        *)
(***************************************************************************)
EXTENDS AuditLaunches, AdapterPipeline, FiniteSetTheorems, SequenceTheorems, NaturalsInduction,
        WellFoundedInduction, TLAPS

Requests ==
  [pc : {"none", "body", "refused", "tool", "launching", "launched", "freed", "done", "unread",
         "dropped", "unheard", "gone"},
   stamp : Nat, timely : BOOLEAN]

\* The part of the types the arguments need.
Types ==
  /\ now \in Nat
  /\ minted \in [Calls -> Nat]
  /\ gate \in [Calls -> {"idle", "opening", "calling", "unsent"}]
  /\ request \in [Deliveries -> Requests]

\* A delivery that is on the server is of a call whose assertion was minted.
Sent ==
  \A c \in Calls, i \in 1 .. Copies :
    request[<<c, i>>].pc # "none" => gate[c] = "calling"

\* While an assertion that was used in time can be verified, the record of its
\* use is kept; and one delivery has used it in time.
Remembered ==
  /\ \A c \in Calls, i \in 1 .. Copies :
       request[<<c, i>>].timely =>
         /\ request[<<c, i>>].pc # "none"
         /\ now <= KeptUntil(minted[c]) => c \in DOMAIN seen /\ seen[c] = KeptUntil(minted[c])
  /\ \A c \in Calls, i, j \in 1 .. Copies :
       request[<<c, i>>].timely /\ request[<<c, j>>].timely => i = j

IInv == Types /\ Sent /\ Remembered

-----------------------------------------------------------------------------
LEMMA InitIInv == Init => IInv
<1> SUFFICES ASSUME Init PROVE IInv
  OBVIOUS
<1>1. Types
  BY LimitAssumption DEF Init, Types, Nothing, Never, Requests
<1>2. \A c \in Calls, i \in 1 .. Copies : request[<<c, i>>].pc = "none" /\ ~request[<<c, i>>].timely
  BY DEF Init, Deliveries, Nothing
<1> QED  BY <1>1, <1>2 DEF IInv, Sent, Remembered

\* A step that moves one delivery on the server, and neither mints nor uses
\* nor forgets an assertion.
LEMMA DeliveryMoves ==
  ASSUME IInv, NEW d \in Deliveries,
         UNCHANGED <<now, minted, gate, seen>>,
         NEW next, request' = [request EXCEPT ![d] = next],
         next \in Requests, next.timely = request[d].timely,
         next.pc # "none", gate[d[1]] = "calling"
  PROVE  IInv'
<1>1. Types'
  BY DEF IInv, Types
<1>2. \A e \in Deliveries : /\ request'[e].timely = request[e].timely
                            /\ request'[e].pc = IF e = d THEN next.pc ELSE request[e].pc
  BY DEF IInv, Types
<1>3. \A c \in Calls, i \in 1 .. Copies : <<c, i>> \in Deliveries
  BY DEF Deliveries
<1>4. Sent'
  BY <1>2, <1>3 DEF IInv, Sent, Deliveries
<1>5. Remembered'
  BY <1>2, <1>3 DEF IInv, Remembered
<1> QED  BY <1>1, <1>4, <1>5 DEF IInv

LEMMA GatewayMoves ==
  ASSUME IInv, NEW c \in Calls, NEW from \in {"idle", "opening"},
         NEW to \in {"opening", "calling", "unsent"},
         GatewayStep(c, from, to),
         minted' = minted \/ (from = "idle" /\ minted' = [minted EXCEPT ![c] = now])
  PROVE  IInv'
<1>1. UNCHANGED <<now, request, seen>> /\ gate[c] = from /\ gate' = [gate EXCEPT ![c] = to]
  BY DEF GatewayStep, serverVars
<1>2. Types'
  BY <1>1 DEF IInv, Types
<1>3. \A i \in 1 .. Copies : request[<<c, i>>].pc = "none"
  BY <1>1 DEF IInv, Sent
<1>4. \A e \in Calls \ {c} : gate'[e] = gate[e] /\ minted'[e] = minted[e]
  BY <1>1 DEF IInv, Types
<1>5. Sent'
  BY <1>1, <1>3, <1>4 DEF IInv, Sent
<1>6. Remembered'
  BY <1>1, <1>3, <1>4 DEF IInv, Remembered
<1> QED  BY <1>2, <1>5, <1>6 DEF IInv

\* The use of an assertion: of a timely one there is no record yet, so no
\* other delivery has used it in time, and no record of another is lost early.
LEMMA BodyReadKeeps ==
  ASSUME IInv, NEW d \in Deliveries, BodyRead(d)
  PROVE  IInv'
<1> DEFINE c == d[1]
           fresh == Fresh(seen, c, now)
           next == IF fresh THEN [request[d] EXCEPT !.pc = "tool", !.timely = Verifies(minted[c], now)]
                            ELSE [request[d] EXCEPT !.pc = "refused"]
<1>1. /\ request[d].pc = "body" /\ request' = [request EXCEPT ![d] = next]
      /\ seen' = Consumed(seen, c, minted[c], now)
      /\ UNCHANGED <<now, minted, gate>> /\ c \in Calls
  BY DEF BodyRead, gatewayVars, Deliveries
<1>2. /\ next \in Requests /\ next.pc # "none"
      /\ next.timely = IF fresh THEN Verifies(minted[c], now) ELSE request[d].timely
  BY DEF IInv, Types, Requests, Verifies
<1> HIDE DEF next
<1>3. Types'
  BY <1>1, <1>2 DEF IInv, Types
<1>4. \A e \in Deliveries : request'[e] = IF e = d THEN next ELSE request[e]
  BY <1>1 DEF IInv, Types
<1>5. \A b \in Calls, i \in 1 .. Copies : <<b, i>> \in Deliveries
  BY DEF Deliveries
<1>6. gate[c] = "calling"
  BY <1>1 DEF IInv, Sent, Deliveries
<1>7. Sent'
  BY <1>1, <1>2, <1>4, <1>5, <1>6 DEF IInv, Sent, Deliveries
<1>8. \A b \in Calls : minted[b] \in Nat /\ KeptUntil(minted[b]) \in Nat
  BY AssertionAssumption DEF IInv, Types, KeptUntil, Exp
<1>9. /\ c \in DOMAIN seen'
      /\ seen'[c] = KeptUntil(minted[c])
      /\ \A b \in DOMAIN seen : b # c /\ seen[b] >= now => b \in DOMAIN seen' /\ seen'[b] = seen[b]
  BY <1>1 DEF Consumed, Kept
<1>10. fresh /\ now <= KeptUntil(minted[c]) => \A i \in 1 .. Copies : ~request[<<c, i>>].timely
  BY <1>1, <1>8 DEF IInv, Types, Remembered, Fresh, Kept
<1>11. ASSUME NEW b \in Calls, NEW i \in 1 .. Copies, request'[<<b, i>>].timely
       PROVE  /\ request'[<<b, i>>].pc # "none"
              /\ now <= KeptUntil(minted[b]) => b \in DOMAIN seen' /\ seen'[b] = KeptUntil(minted[b])
  <2>1. CASE b = c
    BY <2>1, <1>2, <1>4, <1>5, <1>9, <1>11 DEF IInv, Remembered
  <2>2. CASE b # c
    <3>1. request'[<<b, i>>] = request[<<b, i>>]
      BY <2>2, <1>4, <1>5
    <3> QED  BY <2>2, <3>1, <1>8, <1>9, <1>11 DEF IInv, Types, Remembered
  <2> QED  BY <2>1, <2>2
<1>12. ASSUME NEW b \in Calls, NEW i \in 1 .. Copies, NEW j \in 1 .. Copies,
              request'[<<b, i>>].timely, request'[<<b, j>>].timely
       PROVE  i = j
  <2>1. CASE fresh /\ Verifies(minted[c], now) /\ b = c
    <3>1. now <= KeptUntil(minted[c])
      BY <2>1 DEF Verifies, KeptUntil
    <3>2. \A k \in 1 .. Copies : request'[<<c, k>>].timely => <<c, k>> = d
      BY <2>1, <3>1, <1>4, <1>5, <1>10
    <3> QED  BY <2>1, <3>2, <1>12
  <2>2. CASE ~(fresh /\ Verifies(minted[c], now) /\ b = c)
    <3>1. \A k \in 1 .. Copies : request'[<<b, k>>].timely => request[<<b, k>>].timely
      BY <2>2, <1>2, <1>4, <1>5, <1>12
    <3> QED  BY <3>1, <1>12 DEF IInv, Remembered
  <2> QED  BY <2>1, <2>2
<1>13. Remembered'
  BY <1>1, <1>11, <1>12 DEF Remembered
<1> QED  BY <1>3, <1>7, <1>13 DEF IInv

LEMMA NextIInv == IInv /\ [Next]_vars => IInv'
<1> SUFFICES ASSUME IInv, [Next]_vars PROVE IInv'
  OBVIOUS
<1>1. CASE Tick
  BY <1>1, AssertionAssumption
     DEF Tick, IInv, Types, Sent, Remembered, gatewayVars, serverVars, KeptUntil, Exp
<1>2. CASE Restart
  <2>1. /\ UNCHANGED <<now, minted, gate>>
        /\ request' = [d \in Deliveries |-> IF request[d].pc = "none" THEN Nothing
                                            ELSE [Nothing EXCEPT !.pc = "gone"]]
    BY <1>2 DEF Restart, gatewayVars
  <2>2. \A d \in Deliveries : /\ ~request'[d].timely
                              /\ request'[d].pc # "none" => request[d].pc # "none"
                              /\ request'[d] \in Requests
    <3> DEFINE gone == [Nothing EXCEPT !.pc = "gone"]
    <3>0. Never \in Nat
      BY LimitAssumption DEF Never
    <3>1. Nothing \in Requests /\ ~Nothing.timely /\ Nothing.pc = "none"
      BY <3>0 DEF Nothing, Requests
    <3>3. gone \in Requests /\ gone.timely = Nothing.timely
      BY <3>1 DEF Requests
    <3>2. \A d \in Deliveries : request'[d] = IF request[d].pc = "none" THEN Nothing ELSE gone
      BY <2>1
    <3> HIDE DEF gone
    <3> QED  BY <3>1, <3>2, <3>3
  <2>3. \A c \in Calls, i \in 1 .. Copies : <<c, i>> \in Deliveries
    BY DEF Deliveries
  <2>4. Types'
    BY <2>1, <2>2 DEF IInv, Types
  <2> QED  BY <2>1, <2>2, <2>3, <2>4 DEF IInv, Sent, Remembered
<1>3. ASSUME NEW c \in Calls, Mint(c) PROVE IInv'
  BY <1>3, GatewayMoves DEF Mint
<1>4. ASSUME NEW c \in Calls, Opened(c) PROVE IInv'
  BY <1>4, GatewayMoves DEF Opened
<1>5. ASSUME NEW d \in Deliveries, BodyRead(d) PROVE IInv'
  BY <1>5, BodyReadKeeps
<1>6. ASSUME NEW d \in Deliveries, NEW from \in {"none", "launching", "launched"},
             NEW to \in {"body", "refused", "launched", "freed", "done", "unread", "dropped",
                         "unheard"},
             ServerStep(d, from, to), UNCHANGED seen, from = "none" => gate[d[1]] = "calling"
      PROVE  IInv'
  <2> DEFINE next == [request[d] EXCEPT !.pc = to]
  <2>1. /\ request' = [request EXCEPT ![d] = next] /\ UNCHANGED <<now, minted, gate, seen>>
        /\ request[d].pc = from
    BY <1>6 DEF ServerStep, gatewayVars
  <2>2. next \in Requests /\ next.timely = request[d].timely /\ next.pc # "none"
    BY DEF IInv, Types, Requests
  <2>3. gate[d[1]] = "calling"
    BY <1>6, <2>1 DEF IInv, Sent, Deliveries
  <2> HIDE DEF next
  <2> QED  BY <2>1, <2>2, <2>3, DeliveryMoves
<1>7. ASSUME NEW d \in Deliveries, Reserve(d) PROVE IInv'
  <2> DEFINE next == IF Full(launches, CallerOf[d[1]], now)
                       THEN [request[d] EXCEPT !.pc = "refused"]
                       ELSE [request[d] EXCEPT !.pc = "launching", !.stamp = now]
  <2>1. /\ request' = [request EXCEPT ![d] = next] /\ UNCHANGED <<now, minted, gate, seen>>
        /\ request[d].pc = "tool"
    BY <1>7 DEF Reserve, gatewayVars
  <2>2. next \in Requests /\ next.timely = request[d].timely /\ next.pc # "none"
    BY DEF IInv, Types, Requests
  <2>3. gate[d[1]] = "calling"
    BY <2>1 DEF IInv, Sent, Deliveries
  <2> HIDE DEF next
  <2> QED  BY <2>1, <2>2, <2>3, DeliveryMoves
<1>8. ASSUME NEW d \in Deliveries, Arrives(d) \/ Launch(d) \/ Frees(d) \/ PostAnswered(d) \/ Cancelled(d)
      PROVE  IInv'
  BY <1>6, <1>8 DEF Arrives, Launch, Frees, PostAnswered, Cancelled
<1>9. CASE UNCHANGED vars
  BY <1>9 DEF vars, gatewayVars, serverVars, IInv, Types, Sent, Remembered
<1> QED  BY <1>1, <1>2, <1>3, <1>4, <1>5, <1>7, <1>8, <1>9 DEF Next

LEMMA Invariant == Spec => []IInv
BY InitIInv, NextIInv, PTL DEF Spec

LEMMA AtMostOne ==
  ASSUME NEW S, \A x, y \in S : x = y
  PROVE  Cardinality(S) <= 1
<1>1. CASE S = {}
  BY <1>1, FS_EmptySet
<1>2. CASE S # {}
  <2>1. PICK x : S = {x}
    BY <1>2
  <2> QED  BY <2>1, FS_Singleton
<1> QED  BY <1>1, <1>2

(***************************************************************************)
(* _verify_call_assertion and _consume_call_assertion: whatever the        *)
(* lifetime, the leeway and the number of deliveries, one delivery at most *)
(* uses an assertion while it can be verified, in the life of a pod.       *)
(***************************************************************************)
THEOREM AssertionsRunOnce == Spec => []RunsOnce
<1>1. ASSUME IInv, NEW c \in Calls
      PROVE  Cardinality({i \in 1 .. Copies : request[<<c, i>>].timely}) <= 1
  <2>1. \A i, j \in 1 .. Copies :
          request[<<c, i>>].timely /\ request[<<c, j>>].timely => i = j
    BY <1>1 DEF IInv, Remembered
  <2>2. \A i, j \in {k \in 1 .. Copies : request[<<c, k>>].timely} : i = j
    BY <2>1
  <2> QED  BY <2>2, AtMostOne
<1>2. IInv => RunsOnce
  BY <1>1 DEF RunsOnce
<1> QED  BY <1>2, Invariant, PTL

-----------------------------------------------------------------------------
\* The slots of a caller at some instants: the deliveries that hold one, and the
\* stamps in its bucket.
Holding == Launched \cup {"launching", "dropped"}

Holders(u, T) ==
  {d \in Deliveries : CallerOf[d[1]] = u /\ request[d].pc \in Holding /\ request[d].stamp \in T}

Taken(u, T) == {p \in Stamps(launches[u]) : p[1] \in T}

InWindow == {t \in Instants : Live(t, now)}

SlotTypes ==
  /\ now \in Instants
  /\ launches \in [Users -> Buckets]
  /\ \A d \in Deliveries : request[d].pc \in Holding => request[d].stamp \in Instants

Counted ==
  \A u \in Users : \A T \in SUBSET InWindow : Cardinality(Taken(u, T)) = Cardinality(Holders(u, T))

Capped == \A u \in Users : Cardinality(Holders(u, InWindow)) <= Limit

Slots == SlotTypes /\ Counted /\ Capped

LEMMA StampsAre ==
  ASSUME NEW b \in Buckets
  PROVE  /\ Stamps(b) = {p \in Instants \X (Nat \ {0}) : p[2] <= b[p[1]]}
         /\ IsFiniteSet(Stamps(b))
<1> DEFINE col(t) == {t} \X (1 .. b[t])
           cols == {col(t) : t \in Instants}
           f == [t \in Instants |-> col(t)]
<1>1. \A t \in Instants : b[t] \in Nat
  BY DEF Buckets
<1>2. ASSUME NEW p
      PROVE  p \in Stamps(b) <=> p \in {q \in Instants \X (Nat \ {0}) : q[2] <= b[q[1]]}
  BY <1>1 DEF Stamps
<1>3. IsFiniteSet(Instants)
  BY FS_Interval, LimitAssumption DEF Instants
<1>4. ASSUME NEW t \in Instants PROVE IsFiniteSet(col(t))
  <2>1. IsFiniteSet(1 .. b[t])
    BY <1>1, FS_Interval
  <2>2. IsFiniteSet({t})
    BY FS_Singleton
  <2> QED  BY <2>1, <2>2, FS_Product
<1>5. Stamps(b) = UNION cols
  BY DEF Stamps
<1> HIDE DEF col
<1>6. f \in Surjection(Instants, cols)
  BY DEF Surjection
<1>7. IsFiniteSet(cols)
  BY <1>3, <1>6, FS_Surjection
<1>8. \A S \in cols : IsFiniteSet(S)
  BY <1>4
<1> HIDE DEF cols
<1>9. IsFiniteSet(UNION cols)
  BY <1>7, <1>8, FS_UNION
<1> QED  BY <1>2, <1>5, <1>9

LEMMA DeliveriesAreFinite == IsFiniteSet(Deliveries)
<1>1. IsFiniteSet(1 .. Copies)
  BY BoundsAssumption, FS_Interval
<1> QED  BY <1>1, CallsAssumption, FS_Product DEF Deliveries

LEMMA SlotsAreFinite ==
  ASSUME SlotTypes, NEW u \in Users, NEW T
  PROVE  /\ IsFiniteSet(Taken(u, T)) /\ IsFiniteSet(Holders(u, T))
         /\ Cardinality(Taken(u, T)) \in Nat /\ Cardinality(Holders(u, T)) \in Nat
<1>1. IsFiniteSet(Holders(u, T))
  BY DeliveriesAreFinite, FS_Subset DEF Holders
<1>2. launches[u] \in Buckets
  BY DEF SlotTypes
<1>3. IsFiniteSet(Taken(u, T))
  BY <1>2, StampsAre, FS_Subset DEF Taken
<1> QED  BY <1>1, <1>3, FS_CardinalityType

\* A step that neither takes a slot nor frees one.
LEMMA SlotsStay ==
  ASSUME Slots, UNCHANGED <<now, launches>>,
         \A d \in Deliveries : /\ request'[d].pc \in Holding <=> request[d].pc \in Holding
                               /\ request[d].pc \in Holding => request'[d].stamp = request[d].stamp
  PROVE  Slots'
<1>1. SlotTypes' /\ InWindow' = InWindow
  BY DEF Slots, SlotTypes, InWindow
<1>2. ASSUME NEW u, NEW T
      PROVE  Holders(u, T)' = Holders(u, T) /\ Taken(u, T)' = Taken(u, T)
  BY DEF Holders, Taken
<1>3. Counted'
  BY <1>1, <1>2 DEF Slots, Counted
<1>4. ASSUME NEW u \in Users PROVE Cardinality(Holders(u, InWindow)') <= Limit
  <2>1. PICK T : T = InWindow
    OBVIOUS
  <2>2. Holders(u, InWindow)' = Holders(u, T)'
    BY <2>1, <1>1 DEF Holders
  <2> QED  BY <2>1, <2>2, <1>2 DEF Slots, Capped
<1>5. Capped'
  BY <1>4 DEF Capped
<1> QED  BY <1>1, <1>3, <1>5 DEF Slots

LEMMA TickKeepsSlots ==
  ASSUME Slots, Tick
  PROVE  Slots'
<1>1. SlotTypes' /\ InWindow' \subseteq InWindow /\ UNCHANGED <<request, launches>>
  BY LimitAssumption DEF Slots, SlotTypes, InWindow, Live, Tick, Instants, serverVars
<1>2. ASSUME NEW u, NEW T
      PROVE  Holders(u, T)' = Holders(u, T) /\ Taken(u, T)' = Taken(u, T)
  BY <1>1 DEF Holders, Taken
<1>3. Counted'
  BY <1>1, <1>2 DEF Slots, Counted
<1>4. ASSUME NEW u \in Users PROVE Cardinality(Holders(u, InWindow)') <= Limit
  <2>1. PICK T : T = Holders(u, InWindow)'
    OBVIOUS
  <2>2. T \subseteq Holders(u, InWindow)
    BY <1>1, <2>1 DEF Holders
  <2>3. IsFiniteSet(Holders(u, InWindow)) /\ Cardinality(Holders(u, InWindow)) \in Nat
    BY SlotsAreFinite DEF Slots
  <2>4. Cardinality(T) <= Cardinality(Holders(u, InWindow)) /\ IsFiniteSet(T)
    BY <2>2, <2>3, FS_Subset
  <2>5. Cardinality(T) \in Nat
    BY <2>4, FS_CardinalityType
  <2> QED  BY <2>1, <2>3, <2>4, <2>5, LimitAssumption DEF Slots, Capped
<1>5. Capped'
  BY <1>4 DEF Capped
<1> QED  BY <1>1, <1>3, <1>5 DEF Slots

\* No slot is taken.
NoneTaken ==
  /\ now \in Instants
  /\ launches = [u \in Users |-> NoLaunch]
  /\ \A d \in Deliveries : request[d].pc \notin Holding

LEMMA NoSlots == NoneTaken => Slots
<1> SUFFICES ASSUME NoneTaken PROVE Slots
  OBVIOUS
<1>1. NoLaunch \in Buckets /\ SlotTypes
  BY DEF NoLaunch, Buckets, SlotTypes, NoneTaken
<1>2. \A t \in Instants : NoLaunch[t] = 0
  BY DEF NoLaunch
<1>3. Stamps(NoLaunch) = {}
  BY <1>1, <1>2, StampsAre
<1>4. ASSUME NEW u \in Users, NEW T PROVE Taken(u, T) = {} /\ Holders(u, T) = {}
  BY <1>3 DEF Taken, Holders, NoneTaken
<1>5. Cardinality({}) = 0
  BY FS_EmptySet
<1>6. Counted
  BY <1>4 DEF Counted
<1>7. Capped
  <2>1. ASSUME NEW u \in Users PROVE Cardinality(Holders(u, InWindow)) <= Limit
    <3>1. Holders(u, InWindow) = {}
      BY <1>4
    <3>2. Cardinality(Holders(u, InWindow)) = 0
      BY <3>1, <1>5, Zenon
    <3> QED  BY <3>2, LimitAssumption
  <2> QED  BY <2>1 DEF Capped
<1> QED  BY <1>1, <1>6, <1>7 DEF Slots

\* One of the deliveries takes one of the slots, or gives it back.
LEMMA OneMore ==
  ASSUME NEW S, NEW R, NEW A, NEW B, NEW x, NEW y, IsFiniteSet(S), IsFiniteSet(R),
         Cardinality(S) = Cardinality(R), x \notin S, y \notin R,
         A = S \cup {x}, B = R \cup {y}
  PROVE  Cardinality(A) = Cardinality(S) + 1 /\ Cardinality(B) = Cardinality(R) + 1
BY FS_AddElement

LEMMA OneLess ==
  ASSUME NEW S, NEW R, NEW A, NEW B, NEW x, NEW y, IsFiniteSet(S), IsFiniteSet(R),
         Cardinality(S) = Cardinality(R), x \in S, y \in R,
         A = S \ {x}, B = R \ {y}
  PROVE  Cardinality(A) = Cardinality(B)
BY FS_RemoveElement

LEMMA FreesKeepsSlots ==
  ASSUME IInv, Slots, NEW d \in Deliveries, Frees(d)
  PROVE  Slots'
<1> DEFINE u == CallerOf[d[1]]
           s == request[d].stamp
           n == launches[u][s]
           b == Without(launches[u], s)
           next == [request[d] EXCEPT !.pc = "freed"]
<1>1. /\ request[d].pc \in Holding /\ request' = [request EXCEPT ![d] = next]
      /\ launches' = [launches EXCEPT ![u] = b] /\ now' = now
  BY DEF Frees, ServerStep, Holding, Launched, Released
<1>2. u \in Users /\ s \in Instants /\ n \in Nat /\ launches[u] \in Buckets
  BY <1>1, CallsAssumption DEF Deliveries, Slots, SlotTypes, Buckets
<1>3. next.pc = "freed"
  BY DEF IInv, Types, Requests
<1>4. b \in Buckets
      /\ \A t \in Instants : b[t] = IF t = s THEN (IF n > 0 THEN n - 1 ELSE 0) ELSE launches[u][t]
  BY <1>2 DEF Without, Buckets
<1> HIDE DEF b, next
<1>5. \A e \in Deliveries : request'[e] = IF e = d THEN next ELSE request[e]
  BY <1>1 DEF IInv, Types
<1>6. /\ launches' \in [Users -> Buckets]
      /\ \A v \in Users : launches'[v] = IF v = u THEN b ELSE launches[v]
  BY <1>1, <1>4 DEF Slots, SlotTypes
<1>7. SlotTypes' /\ InWindow' = InWindow
  BY <1>1, <1>3, <1>5, <1>6 DEF Slots, SlotTypes, InWindow, Holding, Launched
<1>8. ASSUME NEW v \in Users, NEW T
      PROVE  Holders(v, T)' = IF v = u /\ s \in T THEN Holders(v, T) \ {d} ELSE Holders(v, T)
  BY <1>1, <1>3, <1>5 DEF Holders, Holding, Launched
<1>9. ASSUME NEW v \in Users, NEW T, ~(v = u /\ s \in T)
      PROVE  Taken(v, T)' = Taken(v, T)
  <2>1. launches[v] \in Buckets /\ launches'[v] \in Buckets
    BY <1>6 DEF Slots, SlotTypes
  <2>2. \A t \in Instants : t \in T => launches'[v][t] = launches[v][t]
    BY <1>4, <1>6, <1>9
  <2> QED  BY <2>1, <2>2, StampsAre DEF Taken
<1>10. ASSUME NEW T \in SUBSET InWindow, s \in T
       PROVE  n > 0 /\ Taken(u, T)' = Taken(u, T) \ {<<s, n>>}
  <2>1. d \in Holders(u, {s})
    BY <1>1 DEF Holders
  <2>2. Cardinality(Taken(u, {s})) = Cardinality(Holders(u, {s}))
    BY <1>2, <1>10 DEF Slots, Counted
  <2>3. IsFiniteSet(Holders(u, {s}))
    BY <1>2, SlotsAreFinite DEF Slots
  <2>4. Taken(u, {s}) # {}
    BY <2>1, <2>2, <2>3, FS_EmptySet
  <2>5. n > 0
    BY <1>2, <2>4, StampsAre DEF Taken
  <2> QED  BY <1>2, <1>4, <1>6, <2>5, StampsAre DEF Taken
<1>11. ASSUME NEW v \in Users, NEW T \in SUBSET InWindow
       PROVE  Cardinality(Taken(v, T)') = Cardinality(Holders(v, T)')
  <2>1. Cardinality(Taken(v, T)) = Cardinality(Holders(v, T))
    BY DEF Slots, Counted
  <2>2. CASE ~(v = u /\ s \in T)
    <3>1. Holders(v, T)' = Holders(v, T)
      BY <2>2, <1>8
    <3>2. Taken(v, T)' = Taken(v, T)
      BY <2>2, <1>9
    <3> QED  BY <2>1, <3>1, <3>2
  <2>3. CASE v = u /\ s \in T
    <3>1. Taken(u, T)' = Taken(u, T) \ {<<s, n>>} /\ n > 0
      BY <2>3, <1>10
    <3>2. Holders(u, T)' = Holders(u, T) \ {d}
      BY <2>3, <1>2, <1>8
    <3>3. d \in Holders(u, T)
      BY <2>3, <1>1 DEF Holders
    <3>4. <<s, n>> \in Taken(u, T)
      BY <2>3, <3>1, <1>2, StampsAre DEF Taken
    <3>5. IsFiniteSet(Taken(u, T)) /\ IsFiniteSet(Holders(u, T))
      BY <1>2, SlotsAreFinite DEF Slots
    <3>6. PICK A, B : A = Taken(u, T)' /\ B = Holders(u, T)'
      OBVIOUS
    <3>7. PICK S, R : S = Taken(u, T) /\ R = Holders(u, T)
      OBVIOUS
    <3>8. Cardinality(S) = Cardinality(R)
      BY <2>1, <2>3, <3>7
    <3>9. IsFiniteSet(S) /\ IsFiniteSet(R)
      BY <3>5, <3>7
    <3>p. PICK p : p = <<s, n>>
      OBVIOUS
    <3>10. p \in S /\ d \in R
      BY <3>3, <3>4, <3>7, <3>p
    <3>11. A = S \ {p}
      BY <3>1, <3>6, <3>7, <3>p, Zenon
    <3>12. B = R \ {d}
      BY <3>2, <3>6, <3>7
    <3>13. Cardinality(A) = Cardinality(B)
      BY <3>8, <3>9, <3>10, <3>11, <3>12, OneLess
    <3> QED  BY <2>3, <3>6, <3>13
  <2> QED  BY <2>2, <2>3
<1>12. Counted'
  BY <1>7, <1>11 DEF Counted
<1>13. ASSUME NEW v \in Users PROVE Cardinality(Holders(v, InWindow)') <= Limit
  <2>1. PICK T : T = InWindow
    OBVIOUS
  <2>2. PICK H : H = Holders(v, T)'
    OBVIOUS
  <2>3. H = Holders(v, InWindow)'
    BY <2>1, <2>2, <1>7 DEF Holders
  <2>4. H \subseteq Holders(v, T)
    BY <2>2, <1>8
  <2>5. IsFiniteSet(Holders(v, T)) /\ Cardinality(Holders(v, T)) \in Nat
    BY SlotsAreFinite DEF Slots
  <2>6. Cardinality(H) <= Cardinality(Holders(v, T)) /\ IsFiniteSet(H)
    BY <2>4, <2>5, FS_Subset
  <2>7. Cardinality(H) \in Nat
    BY <2>6, FS_CardinalityType
  <2>8. Cardinality(Holders(v, T)) <= Limit
    BY <2>1 DEF Slots, Capped
  <2> QED  BY <2>3, <2>5, <2>6, <2>7, <2>8, LimitAssumption
<1>14. Capped'
  BY <1>13 DEF Capped
<1> QED  BY <1>7, <1>12, <1>14 DEF Slots

LEMMA ReserveKeepsSlots ==
  ASSUME IInv, Slots, NEW d \in Deliveries, Reserve(d)
  PROVE  Slots'
<1> DEFINE u == CallerOf[d[1]]
           pruned == Pruned(launches, now)
           full == Full(launches, u, now)
           n == launches[u][now] + 1
           b == [pruned[u] EXCEPT ![now] = @ + 1]
           next == IF full THEN [request[d] EXCEPT !.pc = "refused"]
                           ELSE [request[d] EXCEPT !.pc = "launching", !.stamp = now]
<1>1. /\ request[d].pc = "tool" /\ request' = [request EXCEPT ![d] = next] /\ now' = now
      /\ launches' = IF full THEN pruned ELSE [pruned EXCEPT ![u] = b]
  BY DEF Reserve, Reserved
<1>2. u \in Users /\ now \in Instants /\ Live(now, now) /\ launches \in [Users -> Buckets]
  BY CallsAssumption, LimitAssumption DEF Deliveries, Slots, SlotTypes, Live, Instants
<1>3. full => next.pc = "refused"
  BY DEF IInv, Types, Requests
<1>4. ~full => next.pc = "launching" /\ next.stamp = now
  BY DEF IInv, Types, Requests
<1>5. /\ pruned \in [Users -> Buckets]
      /\ \A v \in Users, t \in Instants : pruned[v][t] = IF Live(t, now) THEN launches[v][t] ELSE 0
  BY <1>2 DEF Pruned, Buckets
<1>6. /\ b \in Buckets /\ n \in Nat \ {0}
      /\ \A t \in Instants : b[t] = IF t = now THEN n ELSE pruned[u][t]
  BY <1>2, <1>5 DEF Buckets
<1>7. full <=> Cardinality(Stamps(pruned[u])) >= Limit
  BY DEF Full
<1> HIDE DEF full, pruned, b, next
<1>8. \A e \in Deliveries : request'[e] = IF e = d THEN next ELSE request[e]
  BY <1>1 DEF IInv, Types
<1>9. /\ launches' \in [Users -> Buckets]
      /\ \A v \in Users : launches'[v] = IF v = u /\ ~full THEN b ELSE pruned[v]
  BY <1>1, <1>5, <1>6
<1>10. SlotTypes' /\ InWindow' = InWindow
  BY <1>1, <1>2, <1>3, <1>4, <1>8, <1>9 DEF Slots, SlotTypes, InWindow, Holding, Launched
<1>11. ASSUME NEW v \in Users, NEW T
       PROVE  Holders(v, T)' = IF ~full /\ v = u /\ now \in T THEN Holders(v, T) \cup {d}
                                                            ELSE Holders(v, T)
  BY <1>1, <1>3, <1>4, <1>8 DEF Holders, Holding, Launched
<1>12. ASSUME NEW v \in Users, NEW T \in SUBSET InWindow, ~(~full /\ v = u /\ now \in T)
       PROVE  Taken(v, T)' = Taken(v, T)
  <2>1. launches[v] \in Buckets /\ launches'[v] \in Buckets
    BY <1>2, <1>9
  <2>2. \A t \in Instants : t \in T => launches'[v][t] = launches[v][t]
    BY <1>5, <1>6, <1>9, <1>12 DEF InWindow
  <2> QED  BY <2>1, <2>2, StampsAre DEF Taken
<1>13. ASSUME NEW T \in SUBSET InWindow, ~full, now \in T
       PROVE  Taken(u, T)' = Taken(u, T) \cup {<<now, n>>} /\ <<now, n>> \notin Taken(u, T)
  <2>1. launches[u] \in Buckets /\ launches'[u] \in Buckets
    BY <1>2, <1>9
  <2>2. \A t \in Instants : t \in T => launches'[u][t] = IF t = now THEN n ELSE launches[u][t]
    BY <1>2, <1>5, <1>6, <1>9, <1>13 DEF InWindow
  <2>3. launches[u][now] \in Nat
    BY <1>2, <2>1 DEF Buckets
  <2> QED  BY <1>2, <1>6, <1>13, <2>1, <2>2, <2>3, StampsAre DEF Taken
<1>14. Stamps(pruned[u]) = Taken(u, InWindow)
  <2>1. launches[u] \in Buckets /\ pruned[u] \in Buckets
    BY <1>2, <1>5
  <2> QED  BY <2>1, <1>2, <1>5, StampsAre DEF Taken, InWindow
<1>15. ASSUME NEW v \in Users, NEW T \in SUBSET InWindow
       PROVE  /\ Cardinality(Taken(v, T)') = Cardinality(Holders(v, T)')
              /\ T = InWindow => Cardinality(Holders(v, T)') <= Limit
  <2>1. /\ Cardinality(Taken(v, T)) = Cardinality(Holders(v, T))
        /\ T = InWindow => Cardinality(Holders(v, T)) <= Limit
    BY DEF Slots, Counted, Capped
  <2>2. CASE ~(~full /\ v = u /\ now \in T)
    <3>1. Holders(v, T)' = Holders(v, T)
      BY <2>2, <1>11
    <3>2. Taken(v, T)' = Taken(v, T)
      BY <2>2, <1>12
    <3> QED  BY <2>1, <3>1, <3>2
  <2>3. CASE ~full /\ v = u /\ now \in T
    <3>1. PICK A, B : A = Taken(u, T)' /\ B = Holders(u, T)'
      OBVIOUS
    <3>2. PICK S, R : S = Taken(u, T) /\ R = Holders(u, T)
      OBVIOUS
    <3>3. A = S \cup {<<now, n>>} /\ <<now, n>> \notin S
      BY <2>3, <3>1, <3>2, <1>13
    <3>4. B = R \cup {d} /\ d \notin R
      BY <2>3, <3>1, <3>2, <1>1, <1>2, <1>11 DEF Holders, Holding, Launched
    <3>5. IsFiniteSet(S) /\ IsFiniteSet(R) /\ Cardinality(S) \in Nat
      BY <1>2, <3>2, SlotsAreFinite DEF Slots
    <3>6. Cardinality(S) = Cardinality(R)
      BY <2>1, <2>3, <3>2
    <3>7. Cardinality(A) = Cardinality(S) + 1 /\ Cardinality(B) = Cardinality(R) + 1
      BY <3>3, <3>4, <3>5, <3>6, OneMore
    <3>8. T = InWindow => Cardinality(S) < Limit
      BY <2>3, <3>2, <3>5, <1>7, <1>14, LimitAssumption
    <3>9. Cardinality(A) = Cardinality(B) /\ (T = InWindow => Cardinality(B) <= Limit)
      BY <3>5, <3>6, <3>7, <3>8, LimitAssumption
    <3> QED  BY <2>3, <3>1, <3>9
  <2> QED  BY <2>2, <2>3
<1>16. Counted'
  BY <1>10, <1>15 DEF Counted
<1>17. ASSUME NEW v \in Users PROVE Cardinality(Holders(v, InWindow)') <= Limit
  <2>1. PICK T : T = InWindow
    OBVIOUS
  <2>2. Holders(v, InWindow)' = Holders(v, T)'
    BY <2>1, <1>10 DEF Holders
  <2> QED  BY <2>1, <2>2, <1>15
<1>18. Capped'
  BY <1>17 DEF Capped
<1> QED  BY <1>10, <1>16, <1>18 DEF Slots

LEMMA NextSlots == IInv /\ Slots /\ [Next]_vars => Slots'
<1> SUFFICES ASSUME IInv, Slots, [Next]_vars PROVE Slots'
  OBVIOUS
<1>1. CASE Restart
  <2>1. NoneTaken'
    BY <1>1 DEF Restart, Slots, SlotTypes, NoneTaken, Nothing, Holding, Launched
  <2>2. NoneTaken' => Slots'
    BY NoSlots, PTL
  <2> QED  BY <2>1, <2>2
<1>2. ASSUME NEW c \in Calls, Mint(c) \/ Opened(c) PROVE Slots'
  BY <1>2, SlotsStay DEF Mint, Opened, GatewayStep, serverVars
<1>3. ASSUME NEW d \in Deliveries, NEW next, request' = [request EXCEPT ![d] = next],
             UNCHANGED <<now, launches>>, next.pc \in Holding <=> request[d].pc \in Holding,
             next.stamp = request[d].stamp
      PROVE  Slots'
  BY <1>3, SlotsStay DEF IInv, Types
<1>5. ASSUME NEW d \in Deliveries, NEW from, NEW to, ServerStep(d, from, to), UNCHANGED launches,
             from \in Holding <=> to \in Holding
      PROVE  Slots'
  <2> DEFINE next == [request[d] EXCEPT !.pc = to]
  <2>1. next.pc = to /\ next.stamp = request[d].stamp
    BY DEF IInv, Types, Requests
  <2>2. request' = [request EXCEPT ![d] = next] /\ request[d].pc = from /\ now' = now
    BY <1>5 DEF ServerStep
  <2> HIDE DEF next
  <2> QED  BY <2>1, <2>2, <1>3, <1>5
<1>6. ASSUME NEW d \in Deliveries, Arrives(d) \/ Launch(d) \/ PostAnswered(d) \/ Cancelled(d)
      PROVE  Slots'
  <2>1. CASE Arrives(d)
    BY <2>1, <1>5 DEF Arrives, Holding, Launched
  <2>2. CASE Launch(d)
    BY <2>2, <1>5 DEF Launch, Holding, Launched
  <2>3. CASE PostAnswered(d)
    BY <2>3, <1>5 DEF PostAnswered, Holding, Launched
  <2>4. CASE Cancelled(d)
    BY <2>4, <1>5 DEF Cancelled, Holding, Launched
  <2> QED  BY <1>6, <2>1, <2>2, <2>3, <2>4
<1>7. ASSUME NEW d \in Deliveries, BodyRead(d) PROVE Slots'
  <2> DEFINE next == IF Fresh(seen, d[1], now)
                       THEN [request[d] EXCEPT !.pc = "tool", !.timely = Verifies(minted[d[1]], now)]
                       ELSE [request[d] EXCEPT !.pc = "refused"]
  <2>1. next.pc \notin Holding /\ next.stamp = request[d].stamp
    BY DEF IInv, Types, Requests, Holding, Launched
  <2>2. request' = [request EXCEPT ![d] = next] /\ request[d].pc \notin Holding
        /\ UNCHANGED <<now, launches>>
    BY <1>7 DEF BodyRead, Holding, Launched
  <2> HIDE DEF next
  <2> QED  BY <2>1, <2>2, <1>3
<1>4. CASE UNCHANGED vars
  BY <1>4, SlotsStay DEF vars, serverVars
<1> QED  BY <1>1, <1>2, <1>4, <1>6, <1>7, TickKeepsSlots, ReserveKeepsSlots, FreesKeepsSlots DEF Next

LEMMA InitSlots == Init => Slots
<1>1. Init => NoneTaken
  BY LimitAssumption DEF Init, NoneTaken, Instants, Nothing, Holding, Launched
<1> QED  BY <1>1, NoSlots

LEMMA SlotsInvariant == Spec => []Slots
BY InitSlots, NextSlots, Invariant, PTL DEF Spec

(***************************************************************************)
(* _reserve_launch, _release_launch and cluster_audit: whatever the limit, *)
(* the window and the deliveries, the slots of every instant of the window *)
(* are those of the deliveries that may still launch, that launched, or    *)
(* that were cancelled with their slot, and each of those holds one.       *)
(***************************************************************************)
THEOREM SlotsAreAccountedFor == Spec => []SlotsHeld
<1>1. ASSUME Slots, NEW u \in Users, NEW t \in 0 .. now, Live(t, now)
      PROVE  launches[u][t]
               = Cardinality({d \in Deliveries : Holds(d, u, Holding) /\ request[d].stamp = t})
  <2>1. t \in Instants /\ {t} \in SUBSET InWindow /\ launches[u] \in Buckets
    BY <1>1, LimitAssumption DEF Slots, SlotTypes, Instants, InWindow
  <2>2. PICK n : n = launches[u][t]
    OBVIOUS
  <2>3. n \in Nat
    BY <2>1, <2>2 DEF Buckets
  <2>4. {d \in Deliveries : Holds(d, u, Holding) /\ request[d].stamp = t} = Holders(u, {t})
    BY <1>1 DEF Holders, Holds
  <2>5. Taken(u, {t}) = {t} \X (1 .. n)
    BY <2>1, <2>2, <2>3, StampsAre DEF Taken
  <2>6. Cardinality({t}) = 1 /\ IsFiniteSet({t})
    BY FS_Singleton
  <2>7. Cardinality(1 .. n) = n /\ IsFiniteSet(1 .. n)
    <3>1. /\ IsFiniteSet(1 .. n)
          /\ Cardinality(1 .. n) = IF 1 > n THEN 0 ELSE n - 1 + 1
      BY <2>3, FS_Interval
    <3> QED  BY <3>1, <2>3
  <2>8. Cardinality({t} \X (1 .. n)) = n
    <3>1. Cardinality({t} \X (1 .. n)) = Cardinality({t}) * Cardinality(1 .. n)
      BY <2>6, <2>7, FS_Product
    <3> QED  BY <3>1, <2>3, <2>6, <2>7
  <2>9. Cardinality(Taken(u, {t})) = Cardinality(Holders(u, {t}))
    BY <1>1, <2>1 DEF Slots, Counted
  <2> QED  BY <2>2, <2>4, <2>5, <2>8, <2>9
<1>2. Slots => SlotsHeld
  BY <1>1 DEF SlotsHeld, Holding
<1> QED  BY <1>2, SlotsInvariant, PTL

(***************************************************************************)
(* cluster_audit: whatever the limit, the window and the deliveries, a     *)
(* caller has no more jobs of the window than its limit, those whose call  *)
(* was cancelled included, but for those AAP launched and answered with an *)
(* error or not in time.                                                   *)
(***************************************************************************)
THEOREM JobsAreLimited == Spec => []LaunchesLimited
<1>1. ASSUME Slots, NEW u \in Users
      PROVE  Cardinality({d \in Deliveries : Holds(d, u, Launched)}) <= Limit
  <2>1. PICK J : J = {d \in Deliveries : Holds(d, u, Launched)}
    OBVIOUS
  <2>2. PICK H : H = Holders(u, InWindow)
    OBVIOUS
  <2>3. J \subseteq H
    BY <1>1, <2>1, <2>2 DEF Slots, SlotTypes, Holders, Holds, Holding, InWindow
  <2>4. IsFiniteSet(H) /\ Cardinality(H) \in Nat /\ Cardinality(H) <= Limit
    BY <1>1, <2>2, SlotsAreFinite DEF Slots, Capped
  <2>5. Cardinality(J) <= Cardinality(H) /\ IsFiniteSet(J)
    BY <2>3, <2>4, FS_Subset
  <2>6. Cardinality(J) \in Nat
    BY <2>5, FS_CardinalityType
  <2> QED  BY <2>1, <2>4, <2>5, <2>6, LimitAssumption
<1>2. Slots => LaunchesLimited
  BY <1>1 DEF LaunchesLimited
<1> QED  BY <1>2, SlotsInvariant, PTL

-----------------------------------------------------------------------------
(***************************************************************************)
(* AdapterPipeline: what a run and the destination keep to.                *)
(***************************************************************************)
\* What each stage writes, and what has to be there when its last word is.
Corpora == {"examples", "test", "dataset_manifest"}
Corpus == {"examples", "dataset_manifest"}
TrainNames == Range(AdapterFiles) \cup Samples \cup {"train_manifest"}
Needed(r) == Range(AdapterFiles) \cup Due(r)
MergeNames == Range(MergedFiles) \cup {"merge_manifest"}
PushNames == Registered \cup {"registration"}

\* A name that is written last, if at all.
Ending(todo, name) == \A i \in DOMAIN todo : todo[i] = name => i = Len(todo)

Draft(r) == objects[r]["examples"]

\* A corpus: one version of the rows, and a level no row exceeds.
Rendered(d) ==
  /\ d \in Content
  /\ \E w \in Weights : d.weights = {w} /\ w.attempt = 0 /\ w.level <= d.level

\* What comes from the corpus of the run.
FromDraft(r, d) ==
  /\ d \in Content /\ d.level = Draft(r).level
  /\ \A w \in d.weights : w.level <= d.level
  /\ Deterministic => d.weights = Draft(r).weights

\* A run that is not prepared has nothing else.
Unprepared(r) ==
  stage[r] = "prepare-dataset" => \A n \in Names \ Corpora : ~Has(r, n)

Rendering(r) ==
  stage[r] = "prepare-dataset" /\ status[r] = "running" =>
    /\ Range(pod[r].todo) \subseteq Corpora
    /\ Rendered(pod[r].doc)
    /\ \A n \in Corpus : n \in Range(pod[r].todo) \/ objects[r][n] = pod[r].doc

HasCorpus(r) ==
  stage[r] # "prepare-dataset" =>
    Rendered(Draft(r)) /\ objects[r]["dataset_manifest"] = Draft(r)

Trainer(r, p) ==
  p.todo # << >> =>
    /\ Range(p.todo) \subseteq TrainNames /\ Ending(p.todo, "train_manifest")
    /\ FromDraft(r, p.doc)
    /\ \A n \in Needed(r) : n \in Range(p.todo) \/ Has(r, n)

TrainPod(r) == stage[r] = "train-lora" /\ status[r] = "running" => Trainer(r, pod[r])

JobsFit(r) ==
  /\ stage[r] = "prepare-dataset" => jobs[r] = << >>
  /\ \A j \in DOMAIN jobs[r] : jobs[r][j].state = "running" => Trainer(r, jobs[r][j].pod)

TrainedObjects(r) ==
  /\ \A n \in TrainNames : Has(r, n) => FromDraft(r, objects[r][n])
  /\ Has(r, "train_manifest") => \A n \in Needed(r) : Has(r, n)

MergePod(r) ==
  stage[r] = "merge-export" /\ status[r] = "running" =>
    /\ Range(pod[r].todo) \subseteq MergeNames /\ Ending(pod[r].todo, "merge_manifest")
    /\ pod[r].doc \in Content
    /\ Deterministic => pod[r].doc.weights = Draft(r).weights

\* What the gate scored.
Score(r, d) ==
  /\ d \in Content
  /\ d.says = "PASS" => \A w \in d.weights : w.conforms
  /\ Deterministic /\ Halves(r) # {} => d.weights = Draft(r).weights

\* What it had before it.
Gated(r) == Has(r, "train_manifest") /\ \A h \in Halves(r) : Has(r, h)

GatePod(r) ==
  stage[r] = "evaluate" /\ status[r] = "running" =>
    Range(pod[r].todo) \subseteq {"gate_result"} /\ Score(r, pod[r].doc) /\ Gated(r)

GateResult(r) ==
  Has(r, "gate_result") => Score(r, objects[r]["gate_result"]) /\ Gated(r)

\* What any attempt of push-registry says.
Registration(r) == [weights |-> {}, level |-> Draft(r).level, says |-> ArtifactUri(r)]

PushPod(r) ==
  stage[r] = "push-registry" /\ status[r] = "running" =>
    /\ Range(pod[r].todo) \subseteq PushNames /\ Ending(pod[r].todo, "registration")
    /\ pod[r].doc = Registration(r) /\ Passed(r)
    /\ \A n \in Registered : n \in Range(pod[r].todo) \/ Has(r, n)

Pushed(r) ==
  /\ \A n \in PushNames :
       Has(r, n) => stage[r] = "push-registry" /\ Passed(r) /\ objects[r][n] = Registration(r)
  /\ Has(r, "registration") => \A n \in Registered : Has(r, n)

\* What a run's own stages, jobs and objects keep to.
PodFits(r) == Rendering(r) /\ TrainPod(r) /\ MergePod(r) /\ GatePod(r) /\ PushPod(r)
Holdings(r) == Unprepared(r) /\ HasCorpus(r) /\ TrainedObjects(r) /\ GateResult(r) /\ Pushed(r)
Own(r) == PodFits(r) /\ JobsFit(r) /\ Holdings(r)

\* The destination.  A run nobody merged beside has it to itself.
Wrote(r, f) ==
  destination[f] # None /\ (~Overwrite /\ r \notin overlapped => destination[f].run = r)

MergedWhole(r) ==
  /\ stage[r] = "merge-export" /\ status[r] = "running" =>
       \A f \in Range(MergedFiles) : f \in Range(pod[r].todo) \/ Wrote(r, f)
  /\ Has(r, "merge_manifest") => \A f \in Range(MergedFiles) : Wrote(r, f)

MergesOf(r) ==
  \A f \in Range(MergedFiles) :
    destination[f] # None /\ destination[f].run = r =>
      /\ stage[r] # "prepare-dataset"
      /\ Deterministic => destination[f].weights = Draft(r).weights

Apart == \A r, s \in Runs : r # s /\ Merger(r) /\ Merger(s) => r \in overlapped

\* Of a run that merges or has merged alone, nobody else merges or has merged.
Alone(r) ==
  Merger(r) \/ (\E f \in Range(MergedFiles) : destination[f] # None /\ destination[f].run = r) =>
    /\ \A s \in Runs \ {r} : ~Merger(s)
    /\ \A f \in Range(MergedFiles) : destination[f] # None => destination[f].run = r

Destination ==
  /\ \A r \in Runs : MergedWhole(r) /\ MergesOf(r)
  /\ Apart
  /\ ~Overwrite => \A r \in Runs \ overlapped : Alone(r)

\* Stages and jobs are started once more than a run is resumed.  Only
\* train-lora waits, and merge-export has seen a train manifest.
Counts ==
  \A r \in Runs :
    /\ prepared[r] <= resumes + 1 /\ Len(jobs[r]) <= resumes + 1
    /\ stage[r] = "prepare-dataset" /\ status[r] = "ready" => prepared[r] <= resumes
    /\ stage[r] = "train-lora" /\ status[r] = "ready" => Len(jobs[r]) <= resumes
    /\ status[r] = "waiting" => stage[r] = "train-lora"
    /\ status[r] = "listed" => Has(r, "train_manifest")

PipelineInv ==
  PipelineTypeOK /\ Counts /\ (\A r \in Runs : Own(r)) /\ Destination

-----------------------------------------------------------------------------
\* The order of the numbers, and induction from it.
Below == {p \in Nat \X Nat : p[1] < p[2]}

LEMMA BelowIsWellFounded == IsWellFoundedOn(Below, Nat)
  BY NatLessThanWellFounded, Zenon DEF OpToRel, Below

LEMMA Inductive ==
  ASSUME NEW S \in SUBSET Nat, 0 \in S, \A n \in S : n + 1 \in S
  PROVE  S = Nat
<1> SUFFICES ASSUME Nat \ S # {} PROVE FALSE
  OBVIOUS
<1>1. PICK x \in Nat \ S : \A y \in Nat \ S : <<y, x>> \notin Below
  <2>1. Nat \ S \subseteq Nat
    OBVIOUS
  <2> QED  BY <2>1, BelowIsWellFounded, WFMin
<1>2. x - 1 \in Nat /\ x - 1 < x
  BY <1>1
<1>3. x - 1 \notin S
  BY <1>1, <1>2
<1> QED  BY <1>1, <1>2, <1>3 DEF Below

\* The levels a manifest claims, row after row.
Claims(g, rows, n) ==
  g = [i \in 0 .. n |-> IF i = 0 THEN 1 ELSE Escalate(g[i - 1], rows[i])]

LEMMA ClaimsExist ==
  ASSUME NEW rows, NEW n \in Nat
  PROVE  \E g : Claims(g, rows, n)
<1> DEFINE S == {m \in Nat : \E g : Claims(g, rows, m)}
<1>1. 0 \in S
  <2>1. Claims([i \in 0 .. 0 |-> 1], rows, 0)
    BY DEF Claims
  <2> QED  BY <2>1
<1>2. ASSUME NEW m \in S PROVE m + 1 \in S
  <2>1. PICK g : Claims(g, rows, m)
    OBVIOUS
  <2>2. PICK h : h = [i \in 0 .. m + 1 |-> IF i = 0 THEN 1 ELSE Escalate(g[i - 1], rows[i])]
    OBVIOUS
  <2>3. \A i \in 0 .. m : h[i] = g[i]
    BY <2>1, <2>2 DEF Claims
  <2>4. \A i \in 0 .. m + 1 : i # 0 => h[i - 1] = g[i - 1]
    BY <2>3
  <2>5. Claims(h, rows, m + 1)
    BY <2>2, <2>4 DEF Claims
  <2> QED  BY <2>5
<1>3. S = Nat
  <2> HIDE DEF S
  <2>1. S \in SUBSET Nat
    BY DEF S
  <2> QED  BY <1>1, <1>2, <2>1, Inductive
<1> QED  BY <1>3

\* _escalate never lowers: what is claimed is a level, and no row's is above.
LEMMA ClaimedCovers ==
  ASSUME NEW rows \in Seq(Levels)
  PROVE  Claimed(rows) \in Levels /\ \A i \in 1 .. Len(rows) : rows[i] <= Claimed(rows)
<1> DEFINE n == Len(rows)
<1>1. n \in Nat /\ \A i \in 1 .. n : rows[i] \in Levels
  OBVIOUS
<1>2. PICK g : Claims(g, rows, n) /\ Claimed(rows) = g[n]
  <2>1. Claims(CHOOSE g : Claims(g, rows, n), rows, n)
    BY <1>1, ClaimsExist
  <2>2. Claimed(rows) = (CHOOSE g : Claims(g, rows, n))[n]
    BY DEF Claimed, Claims
  <2> QED  BY <2>1, <2>2
<1> HIDE DEF n
<1> DEFINE S == {m \in Nat : m <= n => g[m] \in Levels /\ \A i \in 1 .. m : rows[i] <= g[m]}
<1>3. 0 \in S
  BY <1>1, <1>2 DEF Claims, Levels
<1>4. ASSUME NEW m \in S PROVE m + 1 \in S
  <2> SUFFICES ASSUME m + 1 <= n
               PROVE  g[m + 1] \in Levels /\ \A i \in 1 .. m + 1 : rows[i] <= g[m + 1]
    OBVIOUS
  <2>1. g[m] \in Levels /\ \A i \in 1 .. m : rows[i] <= g[m]
    BY <1>1
  <2>2. g[m + 1] = Escalate(g[m], rows[m + 1]) /\ rows[m + 1] \in Levels
    BY <1>1, <1>2 DEF Claims
  <2>3. g[m + 1] \in Levels /\ g[m] <= g[m + 1] /\ rows[m + 1] <= g[m + 1]
    BY <2>1, <2>2 DEF Escalate, Levels
  <2>4. ASSUME NEW i \in 1 .. m + 1 PROVE rows[i] <= g[m + 1]
    <3>1. CASE i = m + 1
      BY <2>3, <3>1
    <3>2. CASE i \in 1 .. m
      <4>1. rows[i] <= g[m] /\ rows[i] \in Levels
        BY <1>1, <2>1, <3>2
      <4> QED  BY <2>1, <2>3, <4>1 DEF Levels
    <3> QED  BY <3>1, <3>2
  <2> QED  BY <2>3, <2>4
<1>5. S = Nat
  <2> HIDE DEF S
  <2>1. S \in SUBSET Nat
    BY DEF S
  <2> QED  BY <1>3, <1>4, <2>1, Inductive
<1> QED  BY <1>1, <1>2, <1>5 DEF n

\* What prepare-dataset leaves to write.
LEMMA HighestRow ==
  ASSUME NEW rows \in Seq(Levels) \ {<< >>}
  PROVE  Max(Range(rows)) \in Levels /\ Max(Range(rows)) <= Claimed(rows)
<1>1. PICK S : S = Range(rows)
  OBVIOUS
<1>2. S \subseteq Levels /\ S # {} /\ \A l \in S : \E i \in 1 .. Len(rows) : l = rows[i]
  <2>1. Len(rows) # 0
    BY EmptySeq
  <2>2. Range(rows) = {rows[i] : i \in 1 .. Len(rows)}
    BY DEF Range
  <2>3. rows[1] \in Range(rows)
    BY <2>1, <2>2
  <2> QED  BY <1>1, <2>2, <2>3
<1>3. \E l \in S : \A k \in S : l >= k
  <2>1. CASE 3 \in S
    BY <1>2, <2>1 DEF Levels
  <2>2. CASE 3 \notin S /\ 2 \in S
    BY <1>2, <2>2 DEF Levels
  <2>3. CASE 3 \notin S /\ 2 \notin S
    <3>1. \A k \in S : k = 1
      BY <1>2, <2>3 DEF Levels
    <3>2. PICK l \in S : TRUE
      BY <1>2
    <3> QED  BY <3>1, <3>2
  <2> QED  BY <2>1, <2>2, <2>3
<1>4. Max(S) \in S
  BY <1>3 DEF Max
<1> QED  BY <1>1, <1>2, <1>4, ClaimedCovers

-----------------------------------------------------------------------------
(***************************************************************************)
(* What a pod has left to write.                                           *)
(***************************************************************************)
LEMMA TodoAdvances ==
  ASSUME NEW S, NEW todo \in Seq(S), todo # << >>
  PROVE  /\ Tail(todo) \in Seq(S) /\ Head(todo) \in S
         /\ Range(todo) = {Head(todo)} \cup Range(Tail(todo))
         /\ \A name : Ending(todo, name) =>
              Ending(Tail(todo), name) /\ (Head(todo) = name => Range(Tail(todo)) = {})
<1> DEFINE n == Len(todo)
           rest == Tail(todo)
<1>1. n \in Nat /\ n # 0 /\ DOMAIN todo = 1 .. n
  BY LenProperties, EmptySeq
<1>2. /\ rest \in Seq(S) /\ Head(todo) \in S /\ Len(rest) = n - 1
      /\ \A i \in 1 .. Len(rest) : rest[i] = todo[i + 1]
  BY HeadTailProperties
<1>3. DOMAIN rest = 1 .. n - 1 /\ Head(todo) = todo[1]
  BY <1>2, LenProperties
<1>4. Range(todo) = {todo[i] : i \in 1 .. n} /\ Range(rest) = {rest[i] : i \in 1 .. n - 1}
  BY <1>1, <1>3 DEF Range
<1> HIDE DEF n, rest
<1>5. \A i \in 1 .. n - 1 : rest[i] = todo[i + 1] /\ i + 1 \in 1 .. n
  BY <1>1, <1>2
<1>6. \A i \in 1 .. n : i = 1 \/ (i - 1 \in 1 .. n - 1 /\ todo[i] = rest[i - 1])
  BY <1>1, <1>5
<1>7. Range(todo) = {Head(todo)} \cup Range(rest)
  <2>1. \A x \in Range(todo) : x = Head(todo) \/ x \in Range(rest)
    BY <1>3, <1>4, <1>6
  <2>2. \A x \in Range(rest) : x \in Range(todo)
    BY <1>4, <1>5
  <2>3. Head(todo) \in Range(todo)
    BY <1>1, <1>3, <1>4
  <2> QED  BY <2>1, <2>2, <2>3
<1>8. ASSUME NEW name, Ending(todo, name)
      PROVE  Ending(rest, name) /\ (Head(todo) = name => Range(rest) = {})
  <2>1. \A i \in 1 .. n : todo[i] = name => i = n
    BY <1>1, <1>8 DEF Ending, n
  <2>2. \A i \in 1 .. n - 1 : rest[i] = name => i = n - 1
    BY <1>1, <1>5, <2>1
  <2>3. ASSUME Head(todo) = name PROVE n = 1
    BY <1>1, <1>3, <2>1, <2>3
  <2>4. Ending(rest, name)
    BY <1>2, <1>3, <2>2 DEF Ending
  <2> QED  BY <1>4, <2>3, <2>4
<1> QED  BY <1>2, <1>7, <1>8 DEF rest

LEMMA NothingLeft == \A name : Range(<< >>) = {} /\ Ending(<< >>, name)
  BY DEF Range, Ending

LEMMA Joined ==
  ASSUME NEW S, NEW s \in Seq(S), NEW t \in Seq(S)
  PROVE  s \o t \in Seq(S) /\ Range(s \o t) = Range(s) \cup Range(t)
  BY ConcatProperties, RangeConcatenation

LEMMA EndsWith ==
  ASSUME NEW S, NEW s \in Seq(S), NEW name \in S, name \notin Range(s)
  PROVE  /\ s \o <<name>> \in Seq(S) /\ Range(s \o <<name>>) = Range(s) \cup {name}
         /\ Ending(s \o <<name>>, name)
<1> DEFINE m == Len(s)
           both == s \o <<name>>
<1>1. <<name>> \in Seq(S) /\ Range(<<name>>) = {name} /\ Len(<<name>>) = 1
  BY DEF Range
<1>2. both \in Seq(S) /\ Range(both) = Range(s) \cup {name}
  <2>1. PICK one : one = <<name>>
    OBVIOUS
  <2>2. one \in Seq(S) /\ Range(one) = {name}
    BY <1>1, <2>1
  <2>3. s \o one \in Seq(S) /\ Range(s \o one) = Range(s) \cup Range(one)
    BY <2>2, Joined
  <2> QED  BY <2>1, <2>2, <2>3
<1>3. m \in Nat /\ DOMAIN both = 1 .. m + 1 /\ Len(both) = m + 1 /\ \A i \in 1 .. m : both[i] = s[i]
  BY <1>1, ConcatProperties, LenProperties
<1>4. \A i \in 1 .. m : s[i] # name
  BY LenProperties DEF Range
<1> HIDE DEF m, both
<1>5. Ending(both, name)
  BY <1>3, <1>4 DEF Ending
<1> QED  BY <1>2, <1>5 DEF both

Written == Names \cup Range(MergedFiles)

LEMMA FixedAreNames ==
  /\ Fixed \subseteq Names /\ Names \subseteq Written
  /\ Corpora \subseteq Fixed /\ TrainNames \subseteq Names /\ PushNames \subseteq Fixed
  /\ MergeNames \subseteq Written
  BY DEF Fixed, Names, Written, Corpora, TrainNames, PushNames, MergeNames, Samples, Registered

LEMMA FilesTypes ==
  /\ AdapterFiles \in Seq(Written) /\ MergedFiles \in Seq(Written)
  /\ Range(AdapterFiles) # {} /\ Range(MergedFiles) # {}
  /\ \A n \in Range(AdapterFiles) : n \notin Fixed
  /\ \A n \in Range(MergedFiles) : n \notin Names
<1>1. ASSUME NEW s \in Seq(STRING) \ {<< >>}
      PROVE  Range(s) # {} /\ \A S : Range(s) \subseteq S => s \in Seq(S)
  <2>1. Len(s) \in Nat \ {0} /\ DOMAIN s = 1 .. Len(s) /\ s = [i \in 1 .. Len(s) |-> s[i]]
    BY EmptySeq, LenProperties
  <2>2. s[1] \in Range(s)
    BY <2>1 DEF Range
  <2>3. ASSUME NEW S, Range(s) \subseteq S PROVE s \in Seq(S)
    <3>1. \A i \in 1 .. Len(s) : s[i] \in S
      BY <2>1, <2>3 DEF Range
    <3> QED  BY <2>1, <3>1
  <2> QED  BY <2>2, <2>3
<1> QED  BY <1>1, FilesAssumption DEF Names, Written

LEMMA CorpusWrites ==
  ASSUME NEW r, NEW todo,
         todo = IF r \in Style THEN <<"examples", "test", "dataset_manifest">>
                               ELSE <<"examples", "dataset_manifest">>
  PROVE  todo \in Seq(Written) /\ Range(todo) \subseteq Corpora /\ Corpus \subseteq Range(todo)
<1>1. {"examples", "test", "dataset_manifest"} \subseteq Written
  BY FixedAreNames DEF Corpora
<1>2. CASE r \in Style
  <2>1. todo = <<"examples", "test", "dataset_manifest">>
    BY <1>2
  <2> QED  BY <1>1, <1>2, <2>1 DEF Corpora, Corpus, Range
<1>3. CASE r \notin Style
  <2>1. todo = <<"examples", "dataset_manifest">>
    BY <1>3
  <2> QED  BY <1>1, <1>3, <2>1 DEF Corpora, Corpus, Range
<1> QED  BY <1>2, <1>3

LEMMA TrainWrites ==
  ASSUME NEW r
  PROVE  /\ TrainingWrites(r) \in Seq(Written) /\ Range(TrainingWrites(r)) \subseteq TrainNames
         /\ Needed(r) \subseteq Range(TrainingWrites(r))
         /\ Ending(TrainingWrites(r), "train_manifest")
<1> DEFINE a == IF Answerable(r) THEN <<"register_samples">> ELSE << >>
           b == IF r \in Probed THEN <<"tool_samples">> ELSE << >>
           c == AdapterFiles \o a
           d == c \o b
<1>1. "register_samples" \in Written /\ "tool_samples" \in Written /\ "train_manifest" \in Written
  BY FixedAreNames DEF TrainNames, Samples
<1>2. /\ a \in Seq(Written) /\ Range(a) = IF Answerable(r) THEN {"register_samples"} ELSE {}
      /\ b \in Seq(Written) /\ Range(b) = IF r \in Probed THEN {"tool_samples"} ELSE {}
  <2>1. << >> \in Seq(Written)
    BY EmptySeq
  <2>2. <<"register_samples">> \in Seq(Written) /\ <<"tool_samples">> \in Seq(Written)
    BY <1>1
  <2>3. Range(<<"register_samples">>) = {"register_samples"} /\ Range(<<"tool_samples">>) = {"tool_samples"}
    BY DEF Range
  <2> QED  BY <2>1, <2>2, <2>3, NothingLeft
<1> HIDE DEF a, b
<1>3. c \in Seq(Written) /\ Range(c) = Range(AdapterFiles) \cup Range(a)
  BY <1>2, FilesTypes, Joined
<1> HIDE DEF c
<1>4. d \in Seq(Written) /\ Range(d) = Range(c) \cup Range(b)
  BY <1>2, <1>3, Joined
<1>5. "train_manifest" \notin Range(d)
  BY <1>2, <1>3, <1>4, FilesTypes DEF Fixed
<1>6. TrainingWrites(r) = d \o <<"train_manifest">>
  BY DEF TrainingWrites, a, b, c, d
<1> HIDE DEF d
<1>7. /\ TrainingWrites(r) \in Seq(Written) /\ Ending(TrainingWrites(r), "train_manifest")
      /\ Range(TrainingWrites(r)) = Range(d) \cup {"train_manifest"}
  BY <1>1, <1>4, <1>5, <1>6, EndsWith
<1> QED  BY <1>2, <1>3, <1>4, <1>7 DEF TrainNames, Needed, Due, Halves, Samples

LEMMA MergingWrites ==
  ASSUME NEW r
  PROVE  /\ MergeWrites(r) \in Seq(Written) /\ Range(MergeWrites(r)) = MergeNames
         /\ Ending(MergeWrites(r), "merge_manifest")
<1>1. "merge_manifest" \in Written /\ "merge_manifest" \notin Range(MergedFiles)
  BY FilesTypes, FixedAreNames DEF MergeNames, Fixed
<1> QED  BY <1>1, FilesTypes, EndsWith DEF MergeWrites, MergeNames

LEMMA PushWrites ==
  ASSUME NEW todo, todo = <<"model_version", "model_artifact", "registration">>
  PROVE  todo \in Seq(Written) /\ Range(todo) = PushNames /\ Ending(todo, "registration")
<1>1. {"model_version", "model_artifact", "registration"} \subseteq Written
  BY FixedAreNames DEF PushNames, Registered
<1>2. Range(todo) = PushNames
  BY DEF Range, PushNames, Registered
<1>3. Ending(todo, "registration")
  BY DEF Ending
<1> QED  BY <1>1, <1>2, <1>3

-----------------------------------------------------------------------------
(***************************************************************************)
(* What a step leaves of a run.                                            *)
(***************************************************************************)
\* A record with a level and weights is something.
LEMMA ContentIsSomething == \A d \in Content : d # None
  BY NothingAssumption

\* What a run needs hangs on its held-out split, which only prepare-dataset stores.
LEMMA NeededKept ==
  ASSUME NEW r, objects'[r]["test"] = objects[r]["test"]
  PROVE  Needed(r)' = Needed(r)
  BY DEF Needed, Due, Halves, Answerable, Has

LEMMA HalvesAreNames ==
  ASSUME NEW r
  PROVE  Needed(r) \subseteq TrainNames /\ Halves(r) \subseteq Names /\ Needed(r) \subseteq Names
<1>1. Halves(r) \subseteq Samples /\ Due(r) \subseteq Samples
  BY DEF Due, Halves, Samples
<1> QED  BY <1>1 DEF Needed, TrainNames, Names, Fixed

LEMMA GatedKept ==
  ASSUME NEW r, Gated(r), \A n \in Names : Has(r, n) => objects'[r][n] # None
  PROVE  Gated(r)'
<1>1. "train_manifest" \in Names /\ Halves(r) \subseteq Names
  BY HalvesAreNames DEF Names, Fixed
<1>2. Halves(r)' = Halves(r)
  BY DEF Halves
<1> QED  BY <1>1, <1>2 DEF Gated, Has

\* A step of the run that stores nothing and stays in its stage.
LEMMA HoldingsKeep ==
  ASSUME NEW r, Holdings(r), stage'[r] = stage[r], objects'[r] = objects[r]
  PROVE  Holdings(r)'
<1>1. Needed(r)' = Needed(r) /\ (Gated(r) => Gated(r)')
  BY NeededKept, GatedKept DEF Has
<1>2. Unprepared(r)' /\ HasCorpus(r)' /\ TrainedObjects(r)'
  BY <1>1 DEF Holdings, Unprepared, HasCorpus, TrainedObjects, FromDraft, Draft, Has
<1>3. GateResult(r)' /\ Pushed(r)'
  BY <1>1 DEF Holdings, GateResult, Pushed, Score, Halves, Registration, ArtifactUri, Passed, Draft, Has
<1> QED  BY <1>2, <1>3 DEF Holdings

LEMMA JobsKeep ==
  ASSUME NEW r, JobsFit(r), stage'[r] = stage[r], objects'[r] = objects[r], jobs'[r] = jobs[r]
  PROVE  JobsFit(r)'
<1>1. Needed(r)' = Needed(r)
  BY NeededKept
<1> QED  BY <1>1 DEF JobsFit, Trainer, FromDraft, Draft, Has

LEMMA PodKeeps ==
  ASSUME NEW r, PodFits(r), stage'[r] = stage[r], objects'[r] = objects[r],
         status'[r] = status[r], pod'[r] = pod[r]
  PROVE  PodFits(r)'
<1>1. Needed(r)' = Needed(r) /\ (Gated(r) => Gated(r)')
  BY NeededKept, GatedKept DEF Has
<1>2. Rendering(r)' /\ TrainPod(r)' /\ MergePod(r)'
  BY <1>1 DEF PodFits, Rendering, TrainPod, MergePod, Trainer, FromDraft, Draft, Has
<1>3. GatePod(r)' /\ PushPod(r)'
  BY <1>1 DEF PodFits, GatePod, PushPod, Score, Halves, Registration, ArtifactUri, Passed, Draft, Has
<1> QED  BY <1>2, <1>3 DEF PodFits

\* A step of another run.
LEMMA OthersKeep ==
  ASSUME NEW s, Own(s),
         stage'[s] = stage[s], status'[s] = status[s], pod'[s] = pod[s],
         jobs'[s] = jobs[s], objects'[s] = objects[s]
  PROVE  Own(s)'
  BY PodKeeps, JobsKeep, HoldingsKeep DEF Own

LEMMA NoPodFits ==
  ASSUME NEW r, status'[r] # "running"
  PROVE  PodFits(r)'
  BY DEF PodFits, Rendering, TrainPod, MergePod, GatePod, PushPod

\* What a trainer needs stays, when something else is stored.
LEMMA TrainerKept ==
  ASSUME NEW r, NEW p, Trainer(r, p), objects'[r]["examples"] = objects[r]["examples"],
         objects'[r]["test"] = objects[r]["test"],
         \A n \in Names : Has(r, n) => objects'[r][n] # None
  PROVE  Trainer(r, p)'
<1>1. Needed(r)' = Needed(r) /\ Needed(r) \subseteq Names
  BY NeededKept, HalvesAreNames
<1> QED  BY <1>1 DEF Trainer, FromDraft, Draft, Has

\* The destination is left as it is, and nobody starts to merge.
LEMMA DestinationKept ==
  ASSUME Destination, UNCHANGED <<destination, overlapped>>,
         NEW r \in Runs,
         \A s \in Runs \ {r} : stage'[s] = stage[s] /\ status'[s] = status[s] /\ pod'[s] = pod[s]
                               /\ objects'[s] = objects[s],
         stage'[r] = "merge-export" /\ status'[r] \in {"listed", "running"} => Merger(r),
         stage'[r] = "merge-export" /\ status'[r] = "running" =>
           \/ stage[r] = "merge-export" /\ status[r] = "running" /\ pod'[r] = pod[r]
           \/ Range(MergedFiles) \subseteq Range(pod'[r].todo),
         objects'[r]["merge_manifest"] # None => Has(r, "merge_manifest"),
         stage[r] # "prepare-dataset" =>
           stage'[r] # "prepare-dataset" /\ objects'[r]["examples"] = objects[r]["examples"]
  PROVE  Destination'
<1>1. \A s \in Runs : Merger(s)' => Merger(s)
  BY DEF Merger
<1>2. ASSUME NEW s \in Runs PROVE MergedWhole(s)'
  <2>1. MergedWhole(s)
    BY DEF Destination
  <2>2. CASE s = r
    BY <2>1, <2>2 DEF MergedWhole, Wrote, Has
  <2>3. CASE s # r
    BY <2>1, <2>3 DEF MergedWhole, Wrote, Has
  <2> QED  BY <2>2, <2>3
<1>3. ASSUME NEW s \in Runs PROVE MergesOf(s)'
  BY DEF Destination, MergesOf, Draft
<1>4. Apart'
  BY <1>1 DEF Destination, Apart
<1>5. ASSUME ~Overwrite, NEW s \in Runs \ overlapped PROVE Alone(s)'
  BY <1>1, <1>5 DEF Destination, Alone
<1> QED  BY <1>2, <1>3, <1>4, <1>5 DEF Destination

-----------------------------------------------------------------------------
(***************************************************************************)
(* Storing an object.                                                      *)
(***************************************************************************)
LEMMA Stored ==
  ASSUME PipelineTypeOK, NEW r \in Runs, NEW n \in Names, NEW d \in Content, Store(r, n, d)
  PROVE  /\ objects' \in [Runs -> [Names -> Content \cup {None}]] /\ UNCHANGED destination
         /\ \A s \in Runs \ {r} : objects'[s] = objects[s]
         /\ \A m \in Names \ {n} : objects'[r][m] = objects[r][m]
         /\ objects'[r][n] = IF n \in Registered /\ Has(r, n) THEN objects[r][n] ELSE d
         /\ \A m \in Names : Has(r, m) => objects'[r][m] # None
         /\ objects'[r][n] # None
<1>1. n \notin Range(MergedFiles)
  BY FilesTypes
<1>2. /\ UNCHANGED destination
      /\ objects' = [objects EXCEPT ![r][n] = IF n \in Registered /\ @ # None THEN @ ELSE d]
  BY <1>1 DEF Store
<1>3. objects \in [Runs -> [Names -> Content \cup {None}]]
  BY DEF PipelineTypeOK
<1>4. PICK e : e = IF n \in Registered /\ Has(r, n) THEN objects[r][n] ELSE d
  OBVIOUS
<1>5. objects' = [objects EXCEPT ![r] = [objects[r] EXCEPT ![n] = e]]
  BY <1>2, <1>3, <1>4 DEF Has
<1>6. e \in Content
  BY <1>3, <1>4 DEF Has
<1>7. \A s \in Runs \ {r} : objects'[s] = objects[s]
  BY <1>3, <1>5
<1>8. objects'[r] = [objects[r] EXCEPT ![n] = e] /\ objects[r] \in [Names -> Content \cup {None}]
  BY <1>3, <1>5
<1>9. objects'[r][n] = e /\ (\A m \in Names \ {n} : objects'[r][m] = objects[r][m])
      /\ objects'[r] \in [Names -> Content \cup {None}]
  BY <1>6, <1>8
<1>10. objects' \in [Runs -> [Names -> Content \cup {None}]]
  BY <1>3, <1>5, <1>9
<1>11. e # None
  BY <1>6, ContentIsSomething
<1> QED  BY <1>2, <1>4, <1>7, <1>9, <1>10, <1>11 DEF Has

\* A trainer's next object, from the pod of the stage or of a job.
LEMMA TrainerStores ==
  ASSUME PipelineTypeOK, NEW r \in Runs, Holdings(r), JobsFit(r),
         stage[r] # "prepare-dataset", stage'[r] = stage[r],
         NEW p \in Pods, p.todo # << >>, Trainer(r, p),
         NEW n, n = Head(p.todo), NEW d, d = p.doc, Store(r, n, d)
  PROVE  /\ n \in TrainNames /\ n \in Names /\ d \in Content
         /\ n # "merge_manifest" /\ n \notin Corpora
         /\ Holdings(r)'
         /\ \A t : Tail(p.todo) = t => Trainer(r, [p EXCEPT !.todo = t])'
<1>1. /\ Range(p.todo) \subseteq TrainNames /\ Ending(p.todo, "train_manifest")
      /\ FromDraft(r, d)
      /\ \A m \in Needed(r) : m \in Range(p.todo) \/ Has(r, m)
  BY DEF Trainer
<1>2. /\ Range(p.todo) = {n} \cup Range(Tail(p.todo))
      /\ Ending(Tail(p.todo), "train_manifest") /\ (n = "train_manifest" => Range(Tail(p.todo)) = {})
  <2>1. p.todo \in Seq(Written)
    BY DEF Pods, Written
  <2> QED  BY <1>1, <2>1, TodoAdvances
<1>3. n \in TrainNames /\ d \in Content
  BY <1>1, <1>2 DEF FromDraft
<1>4. /\ n \in Names /\ n \notin Corpora /\ n \notin PushNames /\ n # "gate_result" /\ n # "merge_manifest"
      /\ n \notin Registered
  <2>1. ASSUME n \in Range(AdapterFiles) PROVE n \notin Fixed
    BY <2>1, FilesTypes
  <2> QED  BY <1>3, <2>1, FixedAreNames
           DEF TrainNames, Samples, Corpora, PushNames, Registered, Fixed, Names
<1>5. /\ \A m \in Names \ {n} : objects'[r][m] = objects[r][m]
      /\ objects'[r][n] = d /\ objects'[r][n] # None
      /\ \A m \in Names : Has(r, m) => objects'[r][m] # None
  BY <1>3, <1>4, Stored
<1>6. /\ "train_manifest" \notin Needed(r) /\ Needed(r) \subseteq Names /\ TrainNames \subseteq Names
      /\ Corpora \subseteq Names /\ PushNames \subseteq Names /\ "gate_result" \in Names
      /\ "merge_manifest" \in Names
  <2>1. "train_manifest" \notin Range(AdapterFiles)
    BY FilesTypes DEF Fixed
  <2> QED  BY <2>1, FixedAreNames DEF Needed, Due, Halves, Samples, Names, Fixed, Corpora, PushNames, Registered
<1>7. /\ objects'[r]["examples"] = objects[r]["examples"]
      /\ objects'[r]["dataset_manifest"] = objects[r]["dataset_manifest"]
      /\ objects'[r]["test"] = objects[r]["test"]
      /\ objects'[r]["gate_result"] = objects[r]["gate_result"]
      /\ objects'[r]["merge_manifest"] = objects[r]["merge_manifest"]
      /\ \A m \in PushNames : objects'[r][m] = objects[r][m]
      /\ Has(r, "train_manifest") => objects'[r]["train_manifest"] # None
  BY <1>4, <1>5, <1>6 DEF Corpora, TrainNames
<1>8. HasCorpus(r)' /\ Unprepared(r)' /\ GateResult(r)' /\ Pushed(r)'
  <2>1. Gated(r) => Gated(r)'
    BY <1>5, GatedKept
  <2>2. GateResult(r)'
    BY <1>7, <2>1 DEF Holdings, GateResult, Draft, Has, Score, Halves
  <2> QED  BY <1>7, <2>2 DEF Holdings, HasCorpus, Unprepared, Pushed, Draft, Has, Passed, Registration,
                             ArtifactUri, PushNames
<1>9. TrainedObjects(r)'
  <2>1. ASSUME NEW m \in TrainNames, objects'[r][m] # None PROVE FromDraft(r, objects[r][m]) \/ m = n
    BY <1>5, <1>6, <2>1 DEF Holdings, TrainedObjects, Has
  <2>2. ASSUME NEW m \in TrainNames, objects'[r][m] # None PROVE FromDraft(r, objects'[r][m])
    BY <1>1, <1>5, <1>6, <2>1, <2>2
  <2>3. ASSUME objects'[r]["train_manifest"] # None, NEW m \in Needed(r) PROVE objects'[r][m] # None
    <3>1. CASE n = "train_manifest"
      BY <1>1, <1>2, <1>5, <1>6, <3>1
    <3>2. CASE n # "train_manifest"
      <4>1. Has(r, "train_manifest")
        BY <1>5, <1>6, <2>3, <3>2 DEF Has, TrainNames
      <4> QED  BY <1>5, <1>6, <4>1 DEF Holdings, TrainedObjects
    <3> QED  BY <3>1, <3>2
  <2>4. Needed(r)' = Needed(r)
    BY <1>7, NeededKept
  <2> QED  BY <1>7, <2>2, <2>3, <2>4 DEF TrainedObjects, FromDraft, Draft, Has
<1>10. ASSUME NEW t, Tail(p.todo) = t PROVE Trainer(r, [p EXCEPT !.todo = t])'
  <2>1. PICK q : q = [p EXCEPT !.todo = t]
    OBVIOUS
  <2>2. q.todo = t /\ (t # << >> => q.doc = d)
    BY <2>1 DEF Pods
  <2>3. Needed(r)' = Needed(r)
    BY <1>7, NeededKept
  <2>4. Trainer(r, q)'
    BY <1>1, <1>2, <1>5, <1>6, <1>7, <1>10, <2>2, <2>3 DEF Trainer, FromDraft, Draft, Has
  <2> QED  BY <2>1, <2>4
<1> QED  BY <1>3, <1>4, <1>8, <1>9, <1>10 DEF Holdings

-----------------------------------------------------------------------------
(***************************************************************************)
(* Write, stage by stage.                                                  *)
(***************************************************************************)
LEMMA WriteFrame ==
  ASSUME PipelineTypeOK, NEW r \in Runs, Write(r)
  PROVE  /\ UNCHANGED <<merges, stage, status, resumes, jobs, prepared, overlapped>>
         /\ status[r] = "running" /\ pod[r] \in Pods /\ pod[r].todo \in Seq(Written) /\ pod[r].todo # << >>
         /\ Store(r, Head(pod[r].todo), pod[r].doc)
         /\ pod' \in [Runs -> Pods]
         /\ pod'[r] = [pod[r] EXCEPT !.todo = Tail(pod[r].todo)]
         /\ pod'[r].todo = Tail(pod[r].todo) /\ pod'[r].doc = pod[r].doc
         /\ \A s \in Runs \ {r} : pod'[s] = pod[s]
<1>1. /\ UNCHANGED <<merges, stage, status, resumes, jobs, prepared, overlapped>>
      /\ status[r] = "running" /\ pod[r].todo # << >>
      /\ Store(r, Head(pod[r].todo), pod[r].doc)
      /\ pod' = [pod EXCEPT ![r].todo = Tail(@)]
  BY DEF Write
<1>2. pod \in [Runs -> Pods] /\ pod[r] \in Pods
  BY DEF PipelineTypeOK
<1>3. pod[r].todo \in Seq(Written) /\ pod[r].doc \in Content \cup {None}
  BY <1>2 DEF Pods, Written
<1>4. PICK rest : rest = Tail(pod[r].todo)
  OBVIOUS
<1>5. rest \in Seq(Written)
  BY <1>1, <1>3, <1>4, HeadTailProperties
<1>6. PICK left : left = [pod[r] EXCEPT !.todo = rest]
  OBVIOUS
<1>7. left.todo = rest /\ left.doc = pod[r].doc /\ left \in Pods
  BY <1>2, <1>3, <1>5, <1>6 DEF Pods, Written
<1>8. pod' = [pod EXCEPT ![r] = left]
  BY <1>1, <1>2, <1>4, <1>6
<1>9. pod' \in [Runs -> Pods] /\ pod'[r] = left /\ \A s \in Runs \ {r} : pod'[s] = pod[s]
  BY <1>2, <1>7, <1>8
<1> QED  BY <1>1, <1>2, <1>3, <1>4, <1>6, <1>7, <1>9

LEMMA CorpusWrite ==
  ASSUME PipelineTypeOK, NEW r \in Runs, Own(r), Write(r), stage[r] = "prepare-dataset"
  PROVE  /\ Own(r)' /\ pod[r].doc \in Content
         /\ Head(pod[r].todo) \in Names /\ Head(pod[r].todo) # "merge_manifest"
<1> DEFINE n == Head(pod[r].todo)
           d == pod[r].doc
<1>1. /\ Range(pod[r].todo) \subseteq Corpora /\ Rendered(d)
      /\ \A m \in Corpus : m \in Range(pod[r].todo) \/ objects[r][m] = d
      /\ jobs[r] = << >> /\ \A m \in Names \ Corpora : ~Has(r, m)
  BY WriteFrame DEF Own, PodFits, Rendering, JobsFit, Holdings, Unprepared
<1>2. Range(pod[r].todo) = {n} \cup Range(Tail(pod[r].todo))
  BY WriteFrame, TodoAdvances
<1>3. n \in Corpora /\ n \in Names /\ d \in Content /\ n \notin Registered /\ n # "merge_manifest"
  BY <1>1, <1>2, FixedAreNames DEF Rendered, Corpora, Registered
<1>4. Store(r, n, d)
  BY WriteFrame
<1> HIDE DEF n, d
<1>5. /\ \A m \in Names \ {n} : objects'[r][m] = objects[r][m]
      /\ objects'[r][n] = d
  BY <1>3, <1>4, Stored
<1>6. UNCHANGED <<stage, status, jobs>> /\ pod'[r].todo = Tail(pod[r].todo) /\ pod'[r].doc = d
  BY WriteFrame DEF d
<1>7. \A m \in Names \ Corpora : objects'[r][m] = None
  BY <1>1, <1>3, <1>5 DEF Has
<1>8. /\ TrainNames \subseteq Names \ Corpora /\ "gate_result" \in Names \ Corpora
      /\ PushNames \subseteq Names \ Corpora
  <2>1. \A m \in Range(AdapterFiles) : m \notin Corpora
    BY FilesTypes, FixedAreNames
  <2> QED  BY <2>1, FixedAreNames DEF TrainNames, PushNames, Registered, Samples, Corpora, Names, Fixed
<1>9. Holdings(r)'
  <2>1. \A m \in TrainNames \cup PushNames \cup {"gate_result"} : objects'[r][m] = None
    BY <1>7, <1>8
  <2>2. objects'[r]["train_manifest"] = None /\ objects'[r]["registration"] = None
    BY <2>1 DEF TrainNames, PushNames
  <2> QED  BY <1>6, <1>7, <2>1, <2>2 DEF Holdings, Unprepared, HasCorpus, TrainedObjects, GateResult, Pushed, Has
<1>10. JobsFit(r)'
  BY <1>1, <1>6 DEF JobsFit
<1>11. PodFits(r)'
  <2>1. Corpus \subseteq Names
    BY FixedAreNames DEF Corpus, Corpora
  <2>2. Rendering(r)'
    BY <1>1, <1>2, <1>5, <1>6, <2>1 DEF Rendering
  <2> QED  BY <1>6, <2>2 DEF PodFits, TrainPod, MergePod, GatePod, PushPod
<1> QED  BY <1>3, <1>9, <1>10, <1>11 DEF Own, n, d

\* The jobs of the run are not disturbed by what its other stages store.
LEMMA JobsStay ==
  ASSUME NEW r \in Runs, JobsFit(r), stage'[r] = stage[r], jobs'[r] = jobs[r],
         objects'[r]["examples"] = objects[r]["examples"], objects'[r]["test"] = objects[r]["test"],
         \A n \in Names : Has(r, n) => objects'[r][n] # None
  PROVE  JobsFit(r)'
<1>1. ASSUME NEW j \in DOMAIN jobs[r], jobs[r][j].state = "running" PROVE Trainer(r, jobs[r][j].pod)'
  <2>1. PICK p : p = jobs[r][j].pod
    OBVIOUS
  <2>2. PICK Q : Q = jobs[r]
    OBVIOUS
  <2>3. Trainer(r, p)
    BY <1>1, <2>1 DEF JobsFit
  <2>4. Trainer(r, p)'
    BY <2>3, TrainerKept
  <2>5. jobs'[r][j].pod = p
    BY <2>1
  <2> QED  BY <2>4, <2>5
<1> QED  BY <1>1 DEF JobsFit

LEMMA TrainWrite ==
  ASSUME PipelineTypeOK, NEW r \in Runs, Own(r), Write(r), stage[r] = "train-lora"
  PROVE  /\ Own(r)' /\ pod[r].doc \in Content
         /\ Head(pod[r].todo) \in Names \ Corpora /\ Head(pod[r].todo) # "merge_manifest"
<1>1. PICK p \in Pods : p = pod[r]
  BY WriteFrame
<1>2. p.todo # << >> /\ Trainer(r, p)
  BY <1>1, WriteFrame DEF Own, PodFits, TrainPod
<1>3. PICK n, d, t : n = Head(p.todo) /\ d = p.doc /\ t = Tail(p.todo)
  OBVIOUS
<1>4. Store(r, n, d) /\ stage'[r] = stage[r] /\ status'[r] = status[r] /\ jobs'[r] = jobs[r]
      /\ pod'[r] = [p EXCEPT !.todo = t]
  BY <1>1, <1>3, WriteFrame
<1>5. /\ n \in Names /\ d \in Content /\ n # "merge_manifest" /\ n \notin Corpora
      /\ Holdings(r)' /\ Trainer(r, [p EXCEPT !.todo = t])'
  BY <1>2, <1>3, <1>4, TrainerStores DEF Own
<1>6. /\ \A m \in Names \ {n} : objects'[r][m] = objects[r][m]
      /\ \A m \in Names : Has(r, m) => objects'[r][m] # None
  BY <1>4, <1>5, Stored
<1>7. JobsFit(r)'
  <2>1. "examples" \in Names \ {n} /\ "test" \in Names \ {n}
    BY <1>5, FixedAreNames DEF Corpora
  <2> QED  BY <1>4, <1>6, <2>1, JobsStay DEF Own
<1>8. PodFits(r)'
  <2>1. Trainer(r, pod[r])'
    BY <1>4, <1>5
  <2> QED  BY <1>4, <2>1 DEF PodFits, Rendering, TrainPod, MergePod, GatePod, PushPod
<1> QED  BY <1>1, <1>3, <1>5, <1>7, <1>8 DEF Own

\* A stage after the training stores one of its own names.
LEMMA LaterStores ==
  ASSUME PipelineTypeOK, NEW r \in Runs, Own(r), stage'[r] = stage[r], jobs'[r] = jobs[r],
         NEW n \in {"merge_manifest", "gate_result"} \cup PushNames, NEW d \in Content, Store(r, n, d)
  PROVE  /\ JobsFit(r)' /\ HasCorpus(r)' /\ TrainedObjects(r)'
         /\ \A m \in Names \ {n} : objects'[r][m] = objects[r][m]
         /\ n \in Names /\ n \notin Corpora /\ n \notin TrainNames
         /\ Gated(r) => Gated(r)'
<1>1. n \in Names /\ n \notin Corpora /\ n \notin TrainNames
  <2>1. n \in Fixed /\ n \notin Range(AdapterFiles)
    BY FilesTypes DEF Fixed, PushNames, Registered
  <2> QED  BY <2>1 DEF Names, Corpora, TrainNames, Samples, PushNames, Registered
<1>2. /\ \A m \in Names \ {n} : objects'[r][m] = objects[r][m]
      /\ \A m \in Names : Has(r, m) => objects'[r][m] # None
  BY <1>1, Stored
<1>3. /\ Corpora \subseteq Names \ {n} /\ TrainNames \subseteq Names \ {n}
      /\ Needed(r) \subseteq Names \ {n}
  BY <1>1, FixedAreNames, HalvesAreNames
<1>4. /\ objects'[r]["examples"] = objects[r]["examples"]
      /\ objects'[r]["dataset_manifest"] = objects[r]["dataset_manifest"]
      /\ objects'[r]["test"] = objects[r]["test"]
      /\ objects'[r]["train_manifest"] = objects[r]["train_manifest"]
  BY <1>2, <1>3 DEF Corpora, TrainNames
<1>5. JobsFit(r)'
  BY <1>2, <1>4, JobsStay DEF Own
<1>6. HasCorpus(r)'
  BY <1>4 DEF Own, Holdings, HasCorpus, Draft, Has
<1>7. TrainedObjects(r)'
  <2>1. Needed(r)' = Needed(r)
    BY <1>4, NeededKept
  <2> QED  BY <1>2, <1>3, <1>4, <2>1 DEF Own, Holdings, TrainedObjects, FromDraft, Draft, Has
<1>8. Gated(r) => Gated(r)'
  BY <1>2, GatedKept
<1> QED  BY <1>1, <1>2, <1>5, <1>6, <1>7, <1>8

LEMMA MergeWrite ==
  ASSUME PipelineTypeOK, NEW r \in Runs, Own(r), Write(r), stage[r] = "merge-export"
  PROVE  /\ Own(r)' /\ pod[r].doc \in Content
         /\ Head(pod[r].todo) \in Range(MergedFiles) => UNCHANGED objects
         /\ Head(pod[r].todo) \notin Range(MergedFiles) => Head(pod[r].todo) = "merge_manifest"
<1>1. PICK n, d, t : n = Head(pod[r].todo) /\ d = pod[r].doc /\ t = Tail(pod[r].todo)
  OBVIOUS
<1>2. /\ Range(pod[r].todo) \subseteq MergeNames /\ Ending(pod[r].todo, "merge_manifest")
      /\ d \in Content /\ (Deterministic => d.weights = Draft(r).weights)
  BY <1>1, WriteFrame DEF Own, PodFits, MergePod
<1>3. Range(pod[r].todo) = {n} \cup Range(t) /\ Ending(t, "merge_manifest")
  BY <1>1, <1>2, WriteFrame, TodoAdvances
<1>4. /\ Store(r, n, d) /\ stage'[r] = stage[r] /\ jobs'[r] = jobs[r] /\ pod'[r].todo = t /\ pod'[r].doc = d
  BY <1>1, WriteFrame
<1>5. n \in Range(MergedFiles) \/ n = "merge_manifest"
  BY <1>2, <1>3 DEF MergeNames
<1>6. ASSUME objects'[r]["examples"] = objects[r]["examples"] PROVE PodFits(r)'
  <2>1. MergePod(r)'
    BY <1>2, <1>3, <1>4, <1>6 DEF MergePod, Draft
  <2> QED  BY <1>4, <2>1 DEF PodFits, Rendering, TrainPod, GatePod, PushPod
<1>7. CASE n \in Range(MergedFiles)
  <2>1. UNCHANGED objects
    BY <1>4, <1>7 DEF Store
  <2>2. Holdings(r)' /\ JobsFit(r)'
    BY <1>4, <2>1, HoldingsKeep, JobsKeep DEF Own
  <2> QED  BY <1>1, <1>2, <1>6, <1>7, <2>1, <2>2 DEF Own
<1>8. CASE n \notin Range(MergedFiles)
  <2>1. n = "merge_manifest"
    BY <1>5, <1>8
  <2>2. /\ JobsFit(r)' /\ HasCorpus(r)' /\ TrainedObjects(r)'
        /\ \A m \in Names \ {n} : objects'[r][m] = objects[r][m]
        /\ n \in Names /\ n \notin Corpora /\ (Gated(r) => Gated(r)')
    BY <1>2, <1>4, <2>1, LaterStores
  <2>3. "examples" \in Names \ {n} /\ "gate_result" \in Names \ {n} /\ PushNames \subseteq Names \ {n}
    BY <2>1, FixedAreNames DEF Names, Fixed, PushNames, Registered
  <2>4. \A m \in PushNames : objects[r][m] = None /\ objects'[r][m] = None
    BY <2>2, <2>3 DEF Own, Holdings, Pushed, Has
  <2>5. Unprepared(r)' /\ GateResult(r)' /\ Pushed(r)'
    BY <1>4, <2>2, <2>3, <2>4 DEF Own, Holdings, Unprepared, GateResult, Pushed, Score, Halves, Draft, Has,
                                      PushNames
  <2>6. PodFits(r)'
    BY <1>6, <2>2, <2>3
  <2> QED  BY <1>1, <1>2, <1>8, <2>1, <2>2, <2>5, <2>6 DEF Own, Holdings
<1> QED  BY <1>7, <1>8

LEMMA GateWrite ==
  ASSUME PipelineTypeOK, NEW r \in Runs, Own(r), Write(r), stage[r] = "evaluate"
  PROVE  /\ Own(r)' /\ pod[r].doc \in Content
         /\ Head(pod[r].todo) \in Names \ Corpora /\ Head(pod[r].todo) # "merge_manifest"
<1>1. PICK n, d, t : n = Head(pod[r].todo) /\ d = pod[r].doc /\ t = Tail(pod[r].todo)
  OBVIOUS
<1>2. Range(pod[r].todo) \subseteq {"gate_result"} /\ Score(r, d) /\ Gated(r)
  BY <1>1, WriteFrame DEF Own, PodFits, GatePod
<1>3. Range(pod[r].todo) = {n} \cup Range(t)
  BY <1>1, WriteFrame, TodoAdvances
<1>4. /\ Store(r, n, d) /\ stage'[r] = stage[r] /\ jobs'[r] = jobs[r] /\ pod'[r].todo = t /\ pod'[r].doc = d
  BY <1>1, WriteFrame
<1>5. n = "gate_result" /\ d \in Content /\ n \notin Registered
  BY <1>2, <1>3 DEF Score, Registered
<1>6. /\ JobsFit(r)' /\ HasCorpus(r)' /\ TrainedObjects(r)'
      /\ \A m \in Names \ {n} : objects'[r][m] = objects[r][m]
      /\ n \in Names /\ n \notin Corpora /\ Gated(r)'
  BY <1>2, <1>4, <1>5, LaterStores
<1>7. objects'[r][n] = d
  BY <1>4, <1>5, <1>6, Stored
<1>8. "examples" \in Names \ {n} /\ PushNames \subseteq Names \ {n}
  BY <1>5, FixedAreNames DEF Names, Fixed, PushNames, Registered
<1>9. \A m \in PushNames : objects'[r][m] = None
  BY <1>6, <1>8 DEF Own, Holdings, Pushed, Has
<1>10. Unprepared(r)' /\ GateResult(r)' /\ Pushed(r)'
  BY <1>2, <1>4, <1>5, <1>6, <1>7, <1>8, <1>9 DEF Unprepared, GateResult, Pushed, Score, Halves, Draft, Has,
                                                      PushNames
<1>11. PodFits(r)'
  <2>1. GatePod(r)'
    BY <1>2, <1>3, <1>4, <1>6, <1>8 DEF GatePod, Score, Halves, Draft, Has
  <2> QED  BY <1>4, <2>1 DEF PodFits, Rendering, TrainPod, MergePod, PushPod
<1> QED  BY <1>1, <1>5, <1>6, <1>10, <1>11 DEF Own, Holdings

LEMMA PushWrite ==
  ASSUME PipelineTypeOK, NEW r \in Runs, Own(r), Write(r), stage[r] = "push-registry"
  PROVE  /\ Own(r)' /\ pod[r].doc \in Content
         /\ Head(pod[r].todo) \in Names \ Corpora /\ Head(pod[r].todo) # "merge_manifest"
<1>1. PICK n, d, t : n = Head(pod[r].todo) /\ d = pod[r].doc /\ t = Tail(pod[r].todo)
  OBVIOUS
<1>2. /\ Range(pod[r].todo) \subseteq PushNames /\ Ending(pod[r].todo, "registration")
      /\ d = Registration(r) /\ Passed(r)
      /\ \A m \in Registered : m \in Range(pod[r].todo) \/ Has(r, m)
  BY <1>1, WriteFrame DEF Own, PodFits, PushPod
<1>3. /\ Range(pod[r].todo) = {n} \cup Range(t) /\ Ending(t, "registration")
      /\ n = "registration" => Range(t) = {}
  BY <1>1, <1>2, WriteFrame, TodoAdvances
<1>4. /\ Store(r, n, d) /\ stage'[r] = stage[r] /\ jobs'[r] = jobs[r] /\ pod'[r].todo = t /\ pod'[r].doc = d
  BY <1>1, WriteFrame
<1>5. n \in PushNames /\ d \in Content
  <2>1. Rendered(Draft(r))
    BY DEF Own, Holdings, HasCorpus
  <2>2. Registration(r) \in Content
    BY <2>1 DEF Registration, Rendered, Content, ArtifactUri
  <2> QED  BY <1>2, <1>3, <2>2
<1>6. /\ JobsFit(r)' /\ HasCorpus(r)' /\ TrainedObjects(r)'
      /\ \A m \in Names \ {n} : objects'[r][m] = objects[r][m]
      /\ n \in Names /\ n \notin Corpora /\ n # "merge_manifest" /\ n # "gate_result"
      /\ Gated(r) => Gated(r)'
  BY <1>4, <1>5, LaterStores DEF PushNames, Registered
<1>7. objects'[r][n] = Registration(r) /\ objects'[r][n] # None
  BY <1>2, <1>4, <1>5, <1>6, Stored DEF Own, Holdings, Pushed
<1>8. /\ "examples" \in Names \ {n} /\ "gate_result" \in Names \ {n} /\ "merge_manifest" \in Names \ {n}
      /\ PushNames \subseteq Names /\ Registered \subseteq PushNames /\ "registration" \notin Registered
      /\ "registration" \in PushNames
  BY <1>6, FixedAreNames DEF Names, Fixed, PushNames, Registered, Corpora
<1>9. /\ objects'[r]["examples"] = objects[r]["examples"]
      /\ objects'[r]["gate_result"] = objects[r]["gate_result"]
      /\ objects'[r]["merge_manifest"] = objects[r]["merge_manifest"]
  BY <1>6, <1>8
<1>10. /\ Registration(r)' = Registration(r) /\ Passed(r)' = Passed(r)
  BY <1>9 DEF Registration, Passed, Draft, ArtifactUri, Has
<1>11. \A m \in PushNames : objects'[r][m] # None => objects'[r][m] = Registration(r)
  BY <1>6, <1>7, <1>8 DEF Own, Holdings, Pushed, Has
<1>12. \A m \in Registered : objects'[r][m] # None \/ m \in Range(t)
  BY <1>2, <1>3, <1>6, <1>7, <1>8 DEF Has
<1>13. objects'[r]["registration"] # None => \A m \in Registered : objects'[r][m] # None
  <2>1. CASE n = "registration"
    BY <1>3, <1>12, <2>1
  <2>2. CASE n # "registration"
    BY <1>6, <1>7, <1>8, <2>2 DEF Own, Holdings, Pushed, Has
  <2> QED  BY <2>1, <2>2
<1>14. Unprepared(r)' /\ GateResult(r)' /\ Pushed(r)'
  <2>1. Pushed(r)'
    BY <1>2, <1>4, <1>10, <1>11, <1>13 DEF Pushed, Has
  <2> QED  BY <1>4, <1>6, <1>9, <2>1 DEF Own, Holdings, Unprepared, GateResult, Score, Halves, Draft, Has
<1>15. PodFits(r)'
  <2>1. PushPod(r)'
    BY <1>2, <1>3, <1>4, <1>10, <1>12 DEF PushPod, Has
  <2> QED  BY <1>4, <2>1 DEF PodFits, Rendering, TrainPod, MergePod, GatePod
<1> QED  BY <1>1, <1>5, <1>6, <1>14, <1>15 DEF Own, Holdings

LEMMA WriteOwn ==
  ASSUME PipelineTypeOK, NEW r \in Runs, Own(r), Write(r)
  PROVE  /\ Own(r)' /\ pod[r].doc \in Content
         /\ stage[r] # "merge-export" =>
              Head(pod[r].todo) \in Names /\ Head(pod[r].todo) # "merge_manifest"
         /\ stage[r] \notin {"merge-export", "prepare-dataset"} => Head(pod[r].todo) \notin Corpora
<1>1. stage[r] \in Stages
  BY DEF PipelineTypeOK
<1> QED  BY <1>1, CorpusWrite, TrainWrite, MergeWrite, GateWrite, PushWrite DEF Stages

\* A merged file goes to the destination, where no run that merged alone has one.
LEMMA MergedFileStored ==
  ASSUME PipelineTypeOK, Destination, NEW r \in Runs, Own(r), Write(r), stage[r] = "merge-export",
         NEW n, n = Head(pod[r].todo), n \in Range(MergedFiles), UNCHANGED objects
  PROVE  Destination'
<1>1. /\ UNCHANGED <<stage, status, overlapped, objects>> /\ status[r] = "running" /\ Merger(r)
      /\ pod'[r].todo = Tail(pod[r].todo) /\ pod[r].doc \in Content
      /\ Range(pod[r].todo) = {n} \cup Range(Tail(pod[r].todo))
      /\ \A s \in Runs \ {r} : pod'[s] = pod[s]
      /\ Store(r, n, pod[r].doc)
  BY WriteFrame, TodoAdvances, MergeWrite DEF Merger
<1>2. PICK w : w = pod[r].doc.weights
  OBVIOUS
<1>3. destination' = [destination EXCEPT ![n] = [run |-> r, weights |-> w]]
  BY <1>1, <1>2 DEF Store
<1>4. PICK e \in Merged : e = [run |-> r, weights |-> w]
  BY <1>1, <1>2 DEF Merged, Content
<1>5. /\ destination'[n] = e /\ e.run = r /\ e.weights = w /\ e # None
      /\ \A f \in Range(MergedFiles) \ {n} : destination'[f] = destination[f]
  BY <1>3, <1>4, NothingAssumption DEF PipelineTypeOK
<1>6. Deterministic => w = Draft(r).weights
  BY <1>1, <1>2 DEF Own, PodFits, MergePod
<1>7. ASSUME ~Overwrite, NEW s \in Runs \ {r}, s \notin overlapped
      PROVE  ~Merger(s) /\ \A f \in Range(MergedFiles) : destination[f] # None => destination[f].run # s
  BY <1>1, <1>7 DEF Destination, Alone
<1>8. ASSUME NEW s \in Runs PROVE MergedWhole(s)'
  <2>1. ASSUME NEW f \in Range(MergedFiles), Wrote(s, f), Merger(s) \/ Has(s, "merge_manifest")
        PROVE  Wrote(s, f)'
    <3>1. CASE f # n \/ s = r
      BY <1>1, <1>5, <2>1, <3>1 DEF Wrote
    <3>2. CASE s # r
      BY <1>1, <1>5, <1>7, <2>1, <3>2 DEF Wrote
    <3> QED  BY <3>1, <3>2
  <2>2. MergedWhole(s)
    BY DEF Destination
  <2>3. Has(s, "merge_manifest") => \A f \in Range(MergedFiles) : Wrote(s, f)'
    BY <2>1, <2>2 DEF MergedWhole
  <2>4. ASSUME stage[s] = "merge-export", status[s] = "running", NEW f \in Range(MergedFiles)
        PROVE  f \in Range(pod'[s].todo) \/ Wrote(s, f)'
    <3>1. Merger(s)
      BY <2>4 DEF Merger
    <3>2. CASE s # r
      BY <1>1, <2>1, <2>2, <2>4, <3>1, <3>2 DEF MergedWhole
    <3>3. CASE s = r /\ f = n
      BY <1>1, <1>5, <3>3 DEF Wrote
    <3>4. CASE s = r /\ f # n
      BY <1>1, <2>1, <2>2, <2>4, <3>1, <3>4 DEF MergedWhole
    <3> QED  BY <3>2, <3>3, <3>4
  <2> QED  BY <1>1, <2>3, <2>4 DEF MergedWhole, Has
<1>9. ASSUME NEW s \in Runs PROVE MergesOf(s)'
  <2>1. MergesOf(s)
    BY DEF Destination
  <2> QED  BY <1>1, <1>5, <1>6, <2>1 DEF MergesOf, Draft
<1>10. Apart'
  BY <1>1 DEF Destination, Apart, Merger
<1>11. ASSUME ~Overwrite, NEW s \in Runs \ overlapped PROVE Alone(s)'
  <2>1. CASE s = r
    <3>1. Alone(r)
      BY <1>11, <2>1 DEF Destination
    <3> QED  BY <1>1, <1>5, <2>1, <3>1 DEF Alone, Merger
  <2>2. CASE s # r
    BY <1>1, <1>5, <1>7, <1>11, <2>2 DEF Alone, Merger
  <2> QED  BY <2>1, <2>2
<1> QED  BY <1>1, <1>8, <1>9, <1>10, <1>11 DEF Destination

\* The last word on a merge.
LEMMA MergeManifestStored ==
  ASSUME PipelineTypeOK, Destination, NEW r \in Runs, Own(r), Write(r), stage[r] = "merge-export",
         Head(pod[r].todo) \notin Range(MergedFiles)
  PROVE  Destination'
<1>1. PICK n, d, t : n = Head(pod[r].todo) /\ d = pod[r].doc /\ t = Tail(pod[r].todo)
  OBVIOUS
<1>2. n = "merge_manifest" /\ d \in Content
  BY <1>1, MergeWrite
<1>3. /\ UNCHANGED <<stage, status, overlapped>> /\ status[r] = "running" /\ Merger(r)
      /\ pod'[r].todo = t /\ Store(r, n, d) /\ \A s \in Runs \ {r} : pod'[s] = pod[s]
      /\ Range(pod[r].todo) = {n} \cup Range(t) /\ (Ending(pod[r].todo, n) => Range(t) = {})
  BY <1>1, WriteFrame, TodoAdvances DEF Merger
<1>4. Range(t) = {}
  BY <1>2, <1>3 DEF Own, PodFits, MergePod
<1>5. n \in Names /\ "examples" \in Names \ {n} /\ n \notin Range(MergedFiles)
  BY <1>1, <1>2, FixedAreNames DEF Names, Fixed
<1>6. /\ UNCHANGED destination
      /\ \A s \in Runs \ {r} : objects'[s] = objects[s]
      /\ objects'[r]["examples"] = objects[r]["examples"]
  BY <1>2, <1>3, <1>5, Stored
<1>7. \A f \in Range(MergedFiles) : Wrote(r, f) /\ Wrote(r, f)'
  <2>1. MergedWhole(r)
    BY DEF Destination
  <2>2. \A f \in Range(MergedFiles) : f \notin Range(pod[r].todo)
    BY <1>3, <1>4, <1>5
  <2>3. \A f \in Range(MergedFiles) : Wrote(r, f)
    BY <1>3, <2>1, <2>2 DEF MergedWhole, Merger
  <2> QED  BY <1>3, <1>6, <2>3 DEF Wrote
<1>8. ASSUME NEW s \in Runs PROVE MergedWhole(s)'
  <2>1. CASE s = r
    BY <1>7, <2>1 DEF MergedWhole
  <2>2. CASE s # r
    <3>1. MergedWhole(s)
      BY DEF Destination
    <3> QED  BY <1>3, <1>6, <2>2, <3>1 DEF MergedWhole, Wrote, Has
  <2> QED  BY <2>1, <2>2
<1>9. ASSUME NEW s \in Runs PROVE MergesOf(s)'
  <2>1. MergesOf(s)
    BY DEF Destination
  <2> QED  BY <1>3, <1>6, <2>1 DEF MergesOf, Draft
<1>10. Apart'
  BY <1>3 DEF Destination, Apart, Merger
<1>11. ASSUME ~Overwrite, NEW s \in Runs \ overlapped PROVE Alone(s)'
  BY <1>3, <1>6, <1>11 DEF Destination, Alone, Merger
<1> QED  BY <1>3, <1>8, <1>9, <1>10, <1>11 DEF Destination

LEMMA WriteDestination ==
  ASSUME PipelineTypeOK, Destination, NEW r \in Runs, Own(r), Write(r)
  PROVE  Destination'
<1>1. CASE stage[r] = "merge-export"
  <2>1. PICK n : n = Head(pod[r].todo)
    OBVIOUS
  <2>2. CASE n \in Range(MergedFiles)
    BY <1>1, <2>1, <2>2, MergeWrite, MergedFileStored
  <2>3. CASE n \notin Range(MergedFiles)
    BY <1>1, <2>1, <2>3, MergeManifestStored
  <2> QED  BY <2>2, <2>3
<1>2. CASE stage[r] # "merge-export"
  <2>1. PICK n, d : n = Head(pod[r].todo) /\ d = pod[r].doc
    OBVIOUS
  <2>2. n \in Names /\ d \in Content /\ n # "merge_manifest" /\ Own(r)'
    BY <1>2, <2>1, WriteOwn
  <2>3. /\ UNCHANGED <<stage, status, overlapped>> /\ Store(r, n, d)
        /\ \A s \in Runs \ {r} : pod'[s] = pod[s]
    BY <2>1, WriteFrame
  <2>4. /\ UNCHANGED destination /\ \A s \in Runs \ {r} : objects'[s] = objects[s]
        /\ \A m \in Names \ {n} : objects'[r][m] = objects[r][m]
    BY <2>2, <2>3, Stored
  <2>5. ASSUME stage[r] # "prepare-dataset" PROVE objects'[r]["examples"] = objects[r]["examples"]
    <3>1. n \notin Corpora
      BY <1>2, <2>1, <2>5, WriteOwn
    <3>2. "examples" \in Names \ {n}
      BY <3>1, FixedAreNames DEF Corpora
    <3> QED  BY <2>4, <3>2
  <2>6. objects'[r]["merge_manifest"] = objects[r]["merge_manifest"]
    BY <2>2, <2>4 DEF Names, Fixed
  <2>7. \A s \in Runs \ {r} : stage'[s] = stage[s] /\ status'[s] = status[s] /\ pod'[s] = pod[s]
                               /\ objects'[s] = objects[s]
    BY <2>3, <2>4
  <2>8. /\ UNCHANGED <<destination, overlapped>>
        /\ stage'[r] = "merge-export" /\ status'[r] \in {"listed", "running"} => Merger(r)
        /\ stage'[r] # "merge-export"
        /\ objects'[r]["merge_manifest"] # None => Has(r, "merge_manifest")
        /\ stage[r] # "prepare-dataset" =>
             stage'[r] # "prepare-dataset" /\ objects'[r]["examples"] = objects[r]["examples"]
    BY <1>2, <2>3, <2>4, <2>5, <2>6 DEF Has
  <2> QED  BY <2>7, <2>8, DestinationKept
<1> QED  BY <1>1, <1>2

-----------------------------------------------------------------------------
(***************************************************************************)
(* The other steps.                                                        *)
(***************************************************************************)
OnlyMoves(r) ==
  \A s \in Runs \ {r} :
    /\ stage'[s] = stage[s] /\ status'[s] = status[s] /\ pod'[s] = pod[s]
    /\ jobs'[s] = jobs[s] /\ objects'[s] = objects[s]

LEMMA IdleIsPod == Idle \in Pods /\ Idle.todo = << >>
<1>1. << >> \in Seq(Names \cup Range(MergedFiles))
  BY EmptySeq
<1> QED  BY <1>1 DEF Idle, Pods

LEMMA WorksFrame ==
  ASSUME PipelineTypeOK, NEW r \in Runs, NEW todo \in Seq(Written), NEW doc \in Content \cup {None},
         Works(r, todo, doc)
  PROVE  /\ status' \in [Runs -> Statuses] /\ status'[r] = "running"
         /\ pod' \in [Runs -> Pods] /\ pod'[r].todo = todo /\ pod'[r].doc = doc
         /\ \A s \in Runs \ {r} : status'[s] = status[s] /\ pod'[s] = pod[s]
<1>1. PICK p : p = [todo |-> todo, doc |-> doc]
  OBVIOUS
<1>2. p \in Pods /\ p.todo = todo /\ p.doc = doc
  BY <1>1 DEF Pods, Written
<1>3. status' = [status EXCEPT ![r] = "running"] /\ pod' = [pod EXCEPT ![r] = p]
  BY <1>1 DEF Works
<1> QED  BY <1>2, <1>3 DEF PipelineTypeOK, Statuses

LEMMA EndsFrame ==
  ASSUME PipelineTypeOK, NEW r \in Runs, NEW how \in Statuses, Ends(r, how)
  PROVE  /\ status' \in [Runs -> Statuses] /\ status'[r] = how
         /\ pod' \in [Runs -> Pods]
         /\ \A s \in Runs \ {r} : status'[s] = status[s] /\ pod'[s] = pod[s]
  BY IdleIsPod DEF Ends, PipelineTypeOK

\* The destination is not written, and the run stays in its stage.
LEMMA QuietDestination ==
  ASSUME Destination, NEW r \in Runs, OnlyMoves(r), UNCHANGED <<destination, overlapped>>,
         stage'[r] = stage[r], objects'[r] = objects[r],
         stage[r] = "merge-export" /\ status'[r] \in {"listed", "running"} => Merger(r),
         stage[r] = "merge-export" /\ status'[r] = "running" =>
           \/ status[r] = "running" /\ pod'[r] = pod[r]
           \/ Range(MergedFiles) \subseteq Range(pod'[r].todo)
  PROVE  Destination'
<1>1. \A s \in Runs \ {r} : stage'[s] = stage[s] /\ status'[s] = status[s] /\ pod'[s] = pod[s]
                             /\ objects'[s] = objects[s]
  BY DEF OnlyMoves
<1>2. /\ stage'[r] = "merge-export" /\ status'[r] \in {"listed", "running"} => Merger(r)
      /\ stage'[r] = "merge-export" /\ status'[r] = "running" =>
           \/ stage[r] = "merge-export" /\ status[r] = "running" /\ pod'[r] = pod[r]
           \/ Range(MergedFiles) \subseteq Range(pod'[r].todo)
      /\ objects'[r]["merge_manifest"] # None => Has(r, "merge_manifest")
      /\ stage[r] # "prepare-dataset" =>
           stage'[r] # "prepare-dataset" /\ objects'[r]["examples"] = objects[r]["examples"]
  BY DEF Has
<1> QED  BY <1>1, <1>2, DestinationKept

\* The stage stops, waits, or is to run again.
LEMMA StageStops ==
  ASSUME PipelineInv, NEW r \in Runs, OnlyMoves(r),
         status'[r] \notin {"listed", "running"}, stage'[r] = stage[r], objects'[r] = objects[r],
         jobs'[r] = jobs[r], UNCHANGED <<destination, overlapped>>
  PROVE  Own(r)' /\ Destination'
<1>1. Own(r) /\ Destination
  BY DEF PipelineInv
<1>2. Own(r)'
  BY <1>1, NoPodFits, JobsKeep, HoldingsKeep DEF Own
<1>3. Destination'
  BY <1>1, QuietDestination
<1> QED  BY <1>2, <1>3

\* The stage's pod starts to write.
LEMMA StageWorks ==
  ASSUME PipelineInv, NEW r \in Runs, OnlyMoves(r), PodFits(r)', status'[r] = "running",
         stage'[r] = stage[r], objects'[r] = objects[r], jobs'[r] = jobs[r],
         stage[r] = "merge-export" => Merger(r) /\ Range(MergedFiles) \subseteq Range(pod'[r].todo),
         UNCHANGED <<destination, overlapped>>
  PROVE  Own(r)' /\ Destination'
<1>1. Own(r) /\ Destination
  BY DEF PipelineInv
<1>2. Own(r)'
  BY <1>1, JobsKeep, HoldingsKeep DEF Own
<1>3. Destination'
  BY <1>1, QuietDestination
<1> QED  BY <1>2, <1>3

\* A job moves, and nothing else.
LEMMA JobsMove ==
  ASSUME PipelineInv, NEW r \in Runs, OnlyMoves(r), JobsFit(r)',
         status'[r] = status[r], pod'[r] = pod[r], stage'[r] = stage[r], objects'[r] = objects[r],
         UNCHANGED <<destination, overlapped>>
  PROVE  Own(r)' /\ Destination'
<1>1. Own(r) /\ Destination
  BY DEF PipelineInv
<1>2. Own(r)'
  BY <1>1, PodKeeps, HoldingsKeep DEF Own
<1>3. Destination'
  BY <1>1, QuietDestination DEF Merger
<1> QED  BY <1>2, <1>3

\* Once a step of r has kept its own part, the others have kept theirs.
LEMMA AllKeep ==
  ASSUME PipelineInv, NEW r \in Runs, OnlyMoves(r), Own(r)', Destination',
         PipelineTypeOK', Counts'
  PROVE  PipelineInv'
<1>1. ASSUME NEW s \in Runs PROVE Own(s)'
  <2>1. CASE s = r
    BY <2>1
  <2>2. CASE s # r
    BY <2>2, OthersKeep DEF OnlyMoves, PipelineInv
  <2> QED  BY <2>1, <2>2
<1> QED  BY <1>1 DEF PipelineInv

LEMMA WriteKeeps ==
  ASSUME PipelineInv, NEW r \in Runs, Write(r)
  PROVE  PipelineInv'
<1>1. PipelineTypeOK /\ Counts /\ Own(r) /\ Destination
  BY DEF PipelineInv
<1>2. PICK n, d : n = Head(pod[r].todo) /\ d = pod[r].doc
  OBVIOUS
<1>3. d \in Content /\ Own(r)' /\ (n \in Names \/ n \in Range(MergedFiles))
  <2>1. CASE stage[r] = "merge-export"
    BY <1>1, <1>2, <2>1, MergeWrite DEF Names, Fixed
  <2>2. CASE stage[r] # "merge-export"
    BY <1>1, <1>2, <2>2, WriteOwn
  <2>3. d \in Content /\ Own(r)'
    BY <1>1, <1>2, WriteOwn
  <2> QED  BY <1>1, <1>2, <2>1, <2>2, <2>3, WriteOwn
<1>4. /\ UNCHANGED <<merges, stage, status, resumes, jobs, prepared, overlapped>>
      /\ Store(r, n, d) /\ pod' \in [Runs -> Pods]
      /\ \A s \in Runs \ {r} : pod'[s] = pod[s]
  BY <1>1, <1>2, WriteFrame
<1>5. /\ objects' \in [Runs -> [Names -> Content \cup {None}]]
      /\ destination' \in [Range(MergedFiles) -> Merged \cup {None}]
      /\ \A s \in Runs \ {r} : objects'[s] = objects[s]
  <2>1. CASE n \in Range(MergedFiles)
    <3>1. PICK e : e = [run |-> r, weights |-> d.weights]
      OBVIOUS
    <3>2. e \in Merged
      BY <1>3, <3>1 DEF Merged, Content
    <3>3. UNCHANGED objects /\ destination' = [destination EXCEPT ![n] = e]
      BY <1>4, <2>1, <3>1 DEF Store
    <3> QED  BY <1>1, <3>2, <3>3 DEF PipelineTypeOK
  <2>2. CASE n \in Names
    BY <1>1, <1>3, <1>4, <2>2, Stored DEF PipelineTypeOK
  <2> QED  BY <1>3, <2>1, <2>2
<1>6. PipelineTypeOK' /\ OnlyMoves(r)
  BY <1>1, <1>4, <1>5 DEF PipelineTypeOK, OnlyMoves
<1>7. Counts'
  <2>1. \A s \in Runs : Has(s, "train_manifest") => Has(s, "train_manifest")'
    <3>1. CASE n \in Range(MergedFiles)
      BY <1>4, <3>1 DEF Store, Has
    <3>2. CASE n \in Names
      <4>1. Has(r, "train_manifest") => Has(r, "train_manifest")'
        BY <1>1, <1>3, <1>4, <3>2, Stored DEF Has, Names, Fixed
      <4> QED  BY <1>5, <4>1 DEF Has
    <3> QED  BY <1>3, <3>1, <3>2
  <2> QED  BY <1>1, <1>4, <2>1 DEF Counts
<1>8. Destination'
  BY <1>1, WriteDestination
<1> QED  BY <1>3, <1>6, <1>7, <1>8, AllKeep

\* What a step that ends the stage's pod comes to.
LEMMA Ended ==
  ASSUME PipelineInv, NEW r \in Runs, NEW how \in {"failed", "done"}, Ends(r, how),
         UNCHANGED <<merges, stage, resumes, jobs, prepared, objects, destination, overlapped>>
  PROVE  PipelineInv'
<1>1. PipelineTypeOK /\ Counts
  BY DEF PipelineInv
<1>2. /\ status' \in [Runs -> Statuses] /\ status'[r] = how /\ pod' \in [Runs -> Pods]
      /\ \A s \in Runs \ {r} : status'[s] = status[s] /\ pod'[s] = pod[s]
  <2>1. how \in Statuses
    BY DEF Statuses
  <2> QED  BY <1>1, <2>1, EndsFrame
<1>3. OnlyMoves(r)
  BY <1>2 DEF OnlyMoves
<1>4. Own(r)' /\ Destination'
  <2>1. status'[r] \notin {"listed", "running"}
    BY <1>2
  <2> QED  BY <1>3, <2>1, StageStops
<1>5. PipelineTypeOK'
  BY <1>1, <1>2 DEF PipelineTypeOK
<1>6. Counts'
  BY <1>1, <1>2 DEF Counts, Has
<1> QED  BY <1>3, <1>4, <1>5, <1>6, AllKeep

\* What a step comes to whose pod has read what it needs.
LEMMA Begun ==
  ASSUME PipelineInv, NEW r \in Runs, NEW todo \in Seq(Written), NEW doc \in Content \cup {None},
         Works(r, todo, doc), PodFits(r)',
         stage[r] = "merge-export" => Merger(r) /\ Range(MergedFiles) \subseteq Range(todo),
         UNCHANGED <<merges, stage, resumes, jobs, objects, destination, overlapped>>,
         prepared' \in [Runs -> Attempts],
         \A s \in Runs : prepared'[s] <= resumes + 1 /\ (s # r => prepared'[s] = prepared[s])
  PROVE  PipelineInv'
<1>1. PipelineTypeOK /\ Counts
  BY DEF PipelineInv
<1>2. /\ status' \in [Runs -> Statuses] /\ status'[r] = "running"
      /\ pod' \in [Runs -> Pods] /\ pod'[r].todo = todo /\ pod'[r].doc = doc
      /\ \A s \in Runs \ {r} : status'[s] = status[s] /\ pod'[s] = pod[s]
  BY <1>1, WorksFrame
<1>3. OnlyMoves(r)
  BY <1>2 DEF OnlyMoves
<1>4. Own(r)' /\ Destination'
  BY <1>2, <1>3, StageWorks
<1>5. PipelineTypeOK'
  BY <1>1, <1>2 DEF PipelineTypeOK
<1>6. Counts'
  <2>1. ASSUME NEW s \in Runs, stage'[s] = "prepare-dataset", status'[s] = "ready"
        PROVE  prepared'[s] <= resumes'
    BY <1>1, <1>2, <2>1 DEF Counts, Has
  <2> QED  BY <1>1, <1>2, <2>1 DEF Counts, Has
<1> QED  BY <1>3, <1>4, <1>5, <1>6, AllKeep

LEMMA PrepareKeeps ==
  ASSUME PipelineInv, NEW r \in Runs, PrepareDataset(r)
  PROVE  PipelineInv'
<1>1. PipelineTypeOK /\ Counts /\ Own(r)
  BY DEF PipelineInv
<1>2. PICK todo : todo = IF r \in Style THEN <<"examples", "test", "dataset_manifest">>
                                        ELSE <<"examples", "dataset_manifest">>
  OBVIOUS
<1>3. PICK rows \in Rows(r), heldOut \in HeldOut(r), conforms \in BOOLEAN :
        Works(r, todo, [weights |-> {[data |-> prepared[r] + 1, attempt |-> 0,
                                      level |-> Max(Range(rows)), conforms |-> conforms]},
                        level |-> Claimed(rows), says |-> heldOut])
  BY <1>2 DEF PrepareDataset
<1>4. rows \in Seq(Levels) \ {<< >>}
  <2>1. <<1>> \in Seq(Levels) \ {<< >>}
    BY DEF Levels
  <2> QED  BY <2>1, RowsAssumption DEF Rows
<1>5. PICK l, k : l = Max(Range(rows)) /\ k = Claimed(rows)
  OBVIOUS
<1>6. l \in Levels /\ k \in Levels /\ l <= k
  BY <1>4, <1>5, HighestRow, ClaimedCovers
<1>7. /\ stage[r] = "prepare-dataset" /\ prepared' = [prepared EXCEPT ![r] = @ + 1]
      /\ prepared \in [Runs -> Attempts] /\ resumes \in 0 .. MaxResumes /\ MaxResumes \in Nat
      /\ prepared[r] <= resumes /\ \A s \in Runs : prepared[s] <= resumes + 1
      /\ UNCHANGED <<merges, stage, resumes, jobs, objects, destination, overlapped>>
  BY <1>1, BoundAssumption DEF PrepareDataset, At, PipelineTypeOK, Counts
<1>8. prepared[r] + 1 \in Attempts /\ 0 \in Attempts
  BY <1>7 DEF Attempts
<1>9. PICK w, d : /\ w = [data |-> prepared[r] + 1, attempt |-> 0, level |-> l, conforms |-> conforms]
                  /\ d = [weights |-> {w}, level |-> k, says |-> heldOut]
  OBVIOUS
<1>10. w \in Weights /\ w.attempt = 0 /\ w.level = l
  BY <1>6, <1>8, <1>9 DEF Weights
<1>11. d \in Content /\ d.weights = {w} /\ d.level = k
  BY <1>3, <1>6, <1>9, <1>10 DEF Content, HeldOut
<1>12. Rendered(d)
  BY <1>6, <1>10, <1>11 DEF Rendered
<1>13. todo \in Seq(Written) /\ Range(todo) \subseteq Corpora /\ Corpus \subseteq Range(todo)
  BY <1>2, CorpusWrites
<1>14. Works(r, todo, d)
  BY <1>3, <1>5, <1>9
<1>15. PodFits(r)'
  <2>1. pod'[r].todo = todo /\ pod'[r].doc = d
    BY <1>1, <1>11, <1>13, <1>14, WorksFrame
  <2>2. Rendering(r)'
    BY <1>12, <1>13, <2>1 DEF Rendering, Rendered
  <2> QED  BY <1>7, <2>2 DEF PodFits, TrainPod, MergePod, GatePod, PushPod
<1>16. /\ prepared' \in [Runs -> Attempts]
       /\ \A s \in Runs : prepared'[s] <= resumes + 1 /\ (s # r => prepared'[s] = prepared[s])
  BY <1>7, <1>8 DEF Attempts
<1> QED  BY <1>7, <1>11, <1>13, <1>14, <1>15, <1>16, Begun

-----------------------------------------------------------------------------
\* What a trainer of a prepared run begins with.
LEMMA TrainingFits ==
  ASSUME PipelineTypeOK, NEW r \in Runs, Own(r), stage[r] # "prepare-dataset",
         NEW attempt \in Attempts, NEW p, p.todo = TrainingWrites(r), p.doc = Training(r, attempt)
  PROVE  Training(r, attempt) \in Content /\ Trainer(r, p)
<1>1. Rendered(Draft(r)) /\ objects[r]["dataset_manifest"] = Draft(r)
  BY DEF Own, Holdings, HasCorpus
<1>2. PICK w \in Weights : Draft(r).weights = {w} /\ w.attempt = 0 /\ w.level <= Draft(r).level
  BY <1>1 DEF Rendered
<1>3. PICK a : a = IF Deterministic THEN 0 ELSE attempt
  OBVIOUS
<1>4. PICK v : v = [w EXCEPT !.attempt = a]
  OBVIOUS
<1>5. a \in Attempts
  BY <1>3, BoundAssumption DEF Attempts
<1>6. v \in Weights /\ v.level = w.level /\ (Deterministic => v = w)
  BY <1>2, <1>3, <1>4, <1>5 DEF Weights
<1>7. Trained(w, attempt) = v
  BY <1>3, <1>4 DEF Trained
<1>8. {Trained(u, attempt) : u \in objects[r]["examples"].weights} = {v}
  BY <1>2, <1>7 DEF Draft
<1>9. PICK d : d = [weights |-> {v}, level |-> Draft(r).level, says |-> ""]
  OBVIOUS
<1>10. Training(r, attempt) = d
  BY <1>1, <1>8, <1>9 DEF Training
<1>11. d \in Content /\ d.weights = {v} /\ d.level = Draft(r).level
  BY <1>1, <1>6, <1>9 DEF Content, Rendered
<1>12. FromDraft(r, d)
  BY <1>2, <1>6, <1>11 DEF FromDraft
<1>13. /\ Range(TrainingWrites(r)) \subseteq TrainNames
       /\ Needed(r) \subseteq Range(TrainingWrites(r))
       /\ Ending(TrainingWrites(r), "train_manifest")
  BY TrainWrites
<1>14. Trainer(r, p)
  BY <1>10, <1>12, <1>13 DEF Trainer
<1> QED  BY <1>10, <1>11, <1>14

LEMMA TrainLocalKeeps ==
  ASSUME PipelineInv, NEW r \in Runs, TrainLocal(r)
  PROVE  PipelineInv'
<1>1. PipelineTypeOK /\ Counts /\ Own(r)
  BY DEF PipelineInv
<1>2. /\ stage[r] = "train-lora"
      /\ UNCHANGED <<merges, stage, resumes, jobs, prepared, objects, destination, overlapped>>
      /\ Works(r, TrainingWrites(r), Training(r, resumes + 1)) \/ Ends(r, "failed")
  BY DEF TrainLocal, At
<1>3. CASE Ends(r, "failed")
  BY <1>2, <1>3, Ended
<1>4. CASE Works(r, TrainingWrites(r), Training(r, resumes + 1))
  <2>1. PICK a \in Attempts : a = resumes + 1
    BY <1>1, BoundAssumption DEF PipelineTypeOK, Attempts
  <2>2. PICK p : p = [todo |-> TrainingWrites(r), doc |-> Training(r, a)]
    OBVIOUS
  <2>3. Training(r, a) \in Content /\ Trainer(r, p)
    BY <1>1, <1>2, <2>2, TrainingFits
  <2>4. TrainingWrites(r) \in Seq(Written)
    BY TrainWrites
  <2>5. PICK todo, d : todo = TrainingWrites(r) /\ d = Training(r, a)
    OBVIOUS
  <2>6. Works(r, todo, d) /\ todo \in Seq(Written) /\ d \in Content
    BY <1>4, <2>1, <2>3, <2>4, <2>5
  <2>7. pod'[r].todo = todo /\ pod'[r].doc = d
    BY <1>1, <2>6, WorksFrame
  <2>8. PodFits(r)'
    <3>1. Needed(r)' = Needed(r)
      BY <1>2, NeededKept
    <3>2. Trainer(r, pod[r])'
      BY <1>2, <2>2, <2>3, <2>5, <2>7, <3>1 DEF Trainer, FromDraft, Draft, Has
    <3> QED  BY <1>2, <3>2 DEF PodFits, Rendering, TrainPod, MergePod, GatePod, PushPod
  <2>9. /\ prepared' \in [Runs -> Attempts]
        /\ \A s \in Runs : prepared'[s] <= resumes + 1 /\ (s # r => prepared'[s] = prepared[s])
        /\ stage[r] = "merge-export" => Merger(r) /\ Range(MergedFiles) \subseteq Range(todo)
    BY <1>1, <1>2 DEF PipelineTypeOK, Counts
  <2> QED  BY <1>2, <2>6, <2>8, <2>9, Begun
<1> QED  BY <1>2, <1>3, <1>4

\* Verify writes nothing more.
LEMMA VerifyKeeps ==
  ASSUME PipelineInv, NEW r \in Runs, stage[r] = "train-lora", Verify(r),
         UNCHANGED <<merges, stage, resumes, jobs, prepared, objects, destination, overlapped>>
  PROVE  PipelineInv'
<1>1. PipelineTypeOK /\ Counts
  BY DEF PipelineInv
<1>2. CASE Ends(r, "failed")
  BY <1>2, Ended
<1>3. CASE Works(r, << >>, None)
  <2>1. PICK todo, d : todo = << >> /\ d = None
    OBVIOUS
  <2>2. todo \in Seq(Written) /\ d \in Content \cup {None} /\ Works(r, todo, d)
    BY <1>3, <2>1, EmptySeq
  <2>3. pod'[r].todo = << >>
    BY <1>1, <2>1, <2>2, WorksFrame
  <2>4. PodFits(r)'
    <3>1. TrainPod(r)'
      BY <2>3 DEF TrainPod, Trainer
    <3> QED  BY <3>1 DEF PodFits, Rendering, MergePod, GatePod, PushPod
  <2>5. /\ prepared' \in [Runs -> Attempts]
        /\ \A s \in Runs : prepared'[s] <= resumes + 1 /\ (s # r => prepared'[s] = prepared[s])
        /\ stage[r] = "merge-export" => Merger(r) /\ Range(MergedFiles) \subseteq Range(todo)
    BY <1>1 DEF PipelineTypeOK, Counts
  <2> QED  BY <2>2, <2>4, <2>5, Begun
<1> QED  BY <1>2, <1>3 DEF Verify

LEMMA NewJob ==
  ASSUME NEW s \in Seq(Jobs), NEW job \in Jobs
  PROVE  /\ Append(s, job) \in Seq(Jobs) /\ Len(s) \in Nat /\ Len(Append(s, job)) = Len(s) + 1
         /\ DOMAIN s = 1 .. Len(s) /\ DOMAIN Append(s, job) = 1 .. Len(s) + 1
         /\ \A j \in 1 .. Len(s) : Append(s, job)[j] = s[j]
         /\ Append(s, job)[Len(s) + 1] = job
  OBVIOUS

LEMMA SubmitKeeps ==
  ASSUME PipelineInv, NEW r \in Runs, Submit(r)
  PROVE  PipelineInv'
<1>1. PipelineTypeOK /\ Counts /\ Own(r) /\ Destination
  BY DEF PipelineInv
<1>2. /\ stage[r] = "train-lora" /\ status[r] = "ready"
      /\ UNCHANGED <<merges, stage, resumes, prepared, objects, destination, overlapped>>
  BY DEF Submit, At
<1>3. CASE Verify(r) /\ UNCHANGED jobs
  BY <1>2, <1>3, VerifyKeeps
<1>4. CASE ~(Verify(r) /\ UNCHANGED jobs)
  <2>1. PICK job : job = [state |-> "new", pod |-> Idle]
    OBVIOUS
  <2>2. /\ jobs' = [jobs EXCEPT ![r] = Append(@, job)]
        /\ status' = [status EXCEPT ![r] = "waiting"] /\ UNCHANGED pod
    BY <1>4, <2>1 DEF Submit
  <2>3. job \in Jobs /\ job.state = "new"
    BY <2>1, IdleIsPod DEF Jobs
  <2>4. jobs \in [Runs -> Seq(Jobs)] /\ resumes \in 0 .. MaxResumes
        /\ \A s \in Runs : Len(jobs[s]) \in Attempts
    BY <1>1 DEF PipelineTypeOK
  <2>5. jobs'[r] = Append(jobs[r], job) /\ \A s \in Runs \ {r} : jobs'[s] = jobs[s]
    BY <2>2, <2>4
  <2>6. PICK old, new : old = jobs[r] /\ new = jobs'[r]
    OBVIOUS
  <2>7. /\ old \in Seq(Jobs) /\ new \in Seq(Jobs) /\ Len(new) = Len(old) + 1
        /\ DOMAIN old = 1 .. Len(old) /\ DOMAIN new = 1 .. Len(old) + 1 /\ Len(old) \in Nat
        /\ \A j \in 1 .. Len(old) : new[j] = old[j]
        /\ new[Len(old) + 1] = job
    BY <2>3, <2>4, <2>5, <2>6, NewJob
  <2>8. Len(old) <= resumes /\ Len(new) \in Attempts /\ Len(new) <= resumes + 1
    <3>1. Len(old) <= resumes
      BY <1>1, <1>2, <2>6 DEF Counts, Has
    <3> QED  BY <2>4, <2>7, <3>1, BoundAssumption DEF Attempts
  <2>9. jobs' \in [Runs -> Seq(Jobs)]
    BY <2>2, <2>4, <2>5, <2>6, <2>7
  <2>10. \A s \in Runs : Len(jobs'[s]) \in Attempts /\ Len(jobs'[s]) <= resumes + 1
    <3>1. \A s \in Runs : Len(jobs[s]) <= resumes + 1
      BY <1>1 DEF Counts, Has
    <3> QED  BY <2>4, <2>5, <2>6, <2>8, <3>1
  <2>11. status' \in [Runs -> Statuses] /\ status'[r] = "waiting" /\ pod'[r] = pod[r]
         /\ \A s \in Runs \ {r} : status'[s] = status[s] /\ pod'[s] = pod[s]
    BY <1>1, <2>2 DEF PipelineTypeOK, Statuses
  <2>12. PipelineTypeOK'
    BY <1>1, <1>2, <2>2, <2>9, <2>10, <2>11 DEF PipelineTypeOK
  <2>13. Counts'
    BY <1>1, <1>2, <2>5, <2>10, <2>11 DEF Counts, Has
  <2>14. OnlyMoves(r)
    BY <1>2, <2>5, <2>11 DEF OnlyMoves
  <2>15. JobsFit(r)'
    <3>1. \A j \in DOMAIN new : new[j].state = "running" => j \in DOMAIN old /\ new[j] = old[j]
      BY <2>3, <2>7
    <3>2. Needed(r)' = Needed(r)
      BY <1>2, NeededKept
    <3> QED  BY <1>1, <1>2, <2>6, <3>1, <3>2 DEF Own, JobsFit, Trainer, FromDraft, Draft, Has
  <2>16. Own(r)'
    <3>1. Holdings(r)'
      BY <1>1, <1>2, HoldingsKeep DEF Own
    <3>2. PodFits(r)'
      BY <2>11, NoPodFits
    <3> QED  BY <2>15, <3>1, <3>2 DEF Own
  <2>17. Destination'
    BY <1>1, <1>2, <2>11, <2>14, QuietDestination
  <2> QED  BY <2>12, <2>13, <2>14, <2>16, <2>17, AllKeep
<1> QED  BY <1>3, <1>4

LEMMA PollKeeps ==
  ASSUME PipelineInv, NEW r \in Runs, Poll(r)
  PROVE  PipelineInv'
<1>1. PipelineTypeOK
  BY DEF PipelineInv
<1>2. UNCHANGED <<merges, stage, resumes, jobs, prepared, objects, destination, overlapped>>
  BY DEF Poll
<1>3. CASE Ends(r, "failed")
  BY <1>2, <1>3, Ended
<1>4. CASE Verify(r)
  <2>1. stage[r] = "train-lora"
    BY DEF Poll, PipelineInv, Counts
  <2> QED  BY <1>2, <1>4, <2>1, VerifyKeeps
<1> QED  BY <1>3, <1>4 DEF Poll

LEMMA TimeOutKeeps ==
  ASSUME PipelineInv, NEW r \in Runs, TimeOut(r)
  PROVE  PipelineInv'
  BY Ended DEF TimeOut

LEMMA FailKeeps ==
  ASSUME PipelineInv, NEW r \in Runs, Fail(r)
  PROVE  PipelineInv'
  BY Ended DEF Fail

LEMMA ResumeKeeps ==
  ASSUME PipelineInv, NEW r \in Runs, Resume(r)
  PROVE  PipelineInv'
<1>1. PipelineTypeOK /\ Counts
  BY DEF PipelineInv
<1>2. /\ resumes' = resumes + 1 /\ resumes < MaxResumes
      /\ UNCHANGED <<merges, stage, pod, jobs, prepared, objects, destination, overlapped>>
      /\ status' = [status EXCEPT ![r] = "ready"]
  BY DEF Resume
<1>3. /\ status' \in [Runs -> Statuses] /\ status'[r] = "ready"
      /\ \A s \in Runs \ {r} : status'[s] = status[s]
  BY <1>1, <1>2 DEF PipelineTypeOK, Statuses
<1>4. OnlyMoves(r)
  BY <1>2, <1>3 DEF OnlyMoves
<1>5. Own(r)' /\ Destination'
  <2>1. status'[r] \notin {"listed", "running"}
    BY <1>3
  <2> QED  BY <1>2, <1>4, <2>1, StageStops
<1>6. resumes \in Nat /\ resumes' \in 0 .. MaxResumes
  BY <1>1, <1>2, BoundAssumption DEF PipelineTypeOK
<1>7. PipelineTypeOK'
  BY <1>1, <1>2, <1>3, <1>6 DEF PipelineTypeOK
<1>8. Counts'
  <2>1. \A s \in Runs : prepared[s] \in Nat /\ Len(jobs[s]) \in Nat
    BY <1>1, BoundAssumption DEF PipelineTypeOK, Attempts
  <2>2. \A s \in Runs : prepared[s] <= resumes + 1 /\ Len(jobs[s]) <= resumes + 1
    BY <1>1 DEF Counts
  <2>3. \A s \in Runs : prepared'[s] <= resumes' /\ Len(jobs'[s]) <= resumes'
                        /\ prepared'[s] <= resumes' + 1 /\ Len(jobs'[s]) <= resumes' + 1
    BY <1>2, <1>6, <2>1, <2>2
  <2>4. \A s \in Runs : /\ status'[s] = "waiting" => stage'[s] = "train-lora"
                        /\ status'[s] = "listed" => objects'[s]["train_manifest"] # None
    BY <1>1, <1>2, <1>3 DEF Counts, Has
  <2> QED  BY <2>3, <2>4 DEF Counts, Has
<1> QED  BY <1>4, <1>5, <1>7, <1>8, AllKeep

\* The run lists the destination, and finds it free.
LEMMA ListingKeeps ==
  ASSUME PipelineInv, NEW r \in Runs, ListDestination(r), ~Ends(r, "failed")
  PROVE  PipelineInv'
<1>1. PipelineTypeOK /\ Counts /\ Own(r) /\ Destination
  BY DEF PipelineInv
<1>2. PICK others : others = {s \in Runs \ {r} : Merger(s)}
  OBVIOUS
<1>3. /\ stage[r] = "merge-export" /\ status[r] = "ready"
      /\ Has(r, "train_manifest") /\ ~Refused(r)
      /\ status' = [status EXCEPT ![r] = "listed"]
      /\ overlapped' = IF others = {} THEN overlapped ELSE overlapped \cup others \cup {r}
      /\ UNCHANGED pod
      /\ UNCHANGED <<merges, stage, resumes, jobs, prepared, objects, destination>>
  BY <1>2 DEF ListDestination, At
<1>4. /\ status' \in [Runs -> Statuses] /\ status'[r] = "listed"
      /\ \A s \in Runs \ {r} : status'[s] = status[s]
  BY <1>1, <1>3 DEF PipelineTypeOK, Statuses
<1>5. overlapped \subseteq overlapped' /\ overlapped' \subseteq Runs
  BY <1>1, <1>2, <1>3 DEF PipelineTypeOK
<1>6. PipelineTypeOK' /\ OnlyMoves(r)
  BY <1>1, <1>3, <1>4, <1>5 DEF PipelineTypeOK, OnlyMoves
<1>7. Counts'
  BY <1>1, <1>3, <1>4 DEF Counts, Has
<1>8. Own(r)'
  BY <1>1, <1>3, <1>4, NoPodFits, JobsKeep, HoldingsKeep DEF Own
<1>9. ~Merger(r) /\ \A s \in Runs \ {r} : Merger(s)' <=> Merger(s)
  BY <1>3, <1>4 DEF Merger
<1>10. ASSUME NEW s \in Runs PROVE MergedWhole(s)' /\ MergesOf(s)'
  <2>1. MergedWhole(s) /\ MergesOf(s)
    BY <1>1 DEF Destination
  <2>2. \A f \in Range(MergedFiles) : Wrote(s, f) => Wrote(s, f)'
    BY <1>3, <1>5 DEF Wrote
  <2>3. MergedWhole(s)'
    BY <1>3, <1>4, <2>1, <2>2 DEF MergedWhole, Has
  <2>4. MergesOf(s)'
    BY <1>3, <2>1 DEF MergesOf, Draft
  <2> QED  BY <2>3, <2>4
<1>11. Apart'
  <2>1. ASSUME NEW a \in Runs, NEW b \in Runs, a # b, Merger(a)', Merger(b)'
        PROVE  a \in overlapped'
    <3>1. CASE a = r
      BY <1>2, <1>3, <1>9, <2>1, <3>1
    <3>2. CASE b = r
      BY <1>2, <1>3, <1>9, <2>1, <3>2
    <3>3. CASE a # r /\ b # r
      BY <1>1, <1>5, <1>9, <2>1, <3>3 DEF Destination, Apart
    <3> QED  BY <3>1, <3>2, <3>3
  <2> QED  BY <2>1 DEF Apart
<1>12. ASSUME ~Overwrite, NEW s \in Runs \ overlapped' PROVE Alone(s)'
  <2>1. \A f \in Range(MergedFiles) : destination'[f] = None
    BY <1>3, <1>12 DEF Refused
  <2>2. CASE s = r
    BY <1>2, <1>3, <1>9, <1>12, <2>1, <2>2 DEF Alone
  <2>3. CASE s # r
    BY <1>2, <1>3, <1>9, <1>12, <2>1, <2>3 DEF Alone
  <2> QED  BY <2>2, <2>3
<1>13. Destination'
  BY <1>10, <1>11, <1>12 DEF Destination
<1> QED  BY <1>6, <1>7, <1>8, <1>13, AllKeep

LEMMA ListDestinationKeeps ==
  ASSUME PipelineInv, NEW r \in Runs, ListDestination(r)
  PROVE  PipelineInv'
<1>1. CASE Ends(r, "failed")
  <2>1. UNCHANGED <<merges, stage, resumes, jobs, prepared, objects, destination, overlapped>>
    BY <1>1 DEF ListDestination, Ends, At, PipelineInv, PipelineTypeOK
  <2> QED  BY <1>1, <2>1, Ended
<1>2. CASE ~Ends(r, "failed")
  BY <1>2, ListingKeeps
<1> QED  BY <1>1, <1>2

-----------------------------------------------------------------------------
\* The files of an adapter are of the corpus.
LEMMA AdapterComesFromDraft ==
  ASSUME PipelineTypeOK, NEW r \in Runs, TrainedObjects(r)
  PROVE  /\ AdapterWeights(r) \subseteq Weights
         /\ \A w \in AdapterWeights(r) : w.level <= Draft(r).level
         /\ Deterministic /\ (\E f \in Range(AdapterFiles) : Has(r, f)) =>
              AdapterWeights(r) = Draft(r).weights
<1>1. PICK there : there = {g \in Range(AdapterFiles) : Has(r, g)}
  OBVIOUS
<1>2. \A f \in there : FromDraft(r, objects[r][f]) /\ objects[r][f].weights \subseteq Weights
  BY <1>1 DEF TrainedObjects, TrainNames, FromDraft, Content
<1>3. AdapterWeights(r) = UNION {objects[r][f].weights : f \in there}
  BY <1>1 DEF AdapterWeights
<1>4. \A w \in AdapterWeights(r) : w \in Weights /\ w.level <= Draft(r).level
  BY <1>2, <1>3 DEF FromDraft
<1>5. ASSUME Deterministic, NEW f \in there PROVE AdapterWeights(r) = Draft(r).weights
  <2>1. \A g \in there : objects[r][g].weights = Draft(r).weights
    BY <1>2, <1>5 DEF FromDraft
  <2> QED  BY <1>3, <1>5, <2>1
<1> QED  BY <1>1, <1>4, <1>5

LEMMA MergeExportKeeps ==
  ASSUME PipelineInv, NEW r \in Runs, MergeExport(r)
  PROVE  PipelineInv'
<1>1. PipelineTypeOK /\ Counts /\ Own(r)
  BY DEF PipelineInv
<1>2. PICK todo, d : /\ todo = MergeWrites(r)
                     /\ d = [weights |-> AdapterWeights(r), says |-> "",
                             level |-> objects[r]["train_manifest"].level]
  OBVIOUS
<1>3. /\ stage[r] = "merge-export" /\ status[r] = "listed"
      /\ UNCHANGED <<merges, stage, resumes, jobs, prepared, objects, destination, overlapped>>
      /\ \/ Works(r, todo, d) /\ \E f \in Range(AdapterFiles) : Has(r, f)
         \/ Ends(r, "failed")
  BY <1>2 DEF MergeExport
<1>4. CASE Ends(r, "failed")
  BY <1>3, <1>4, Ended
<1>5. CASE Works(r, todo, d) /\ \E f \in Range(AdapterFiles) : Has(r, f)
  <2>1. Has(r, "train_manifest") /\ TrainedObjects(r)
    BY <1>1, <1>3 DEF Counts, Own, Holdings
  <2>2. objects[r]["train_manifest"] \in Content
    BY <2>1 DEF TrainedObjects, TrainNames, FromDraft
  <2>3. AdapterWeights(r) \subseteq Weights /\ (Deterministic => AdapterWeights(r) = Draft(r).weights)
    BY <1>1, <1>5, <2>1, AdapterComesFromDraft
  <2>4. d \in Content /\ (Deterministic => d.weights = Draft(r).weights)
    BY <1>2, <2>2, <2>3 DEF Content
  <2>5. /\ todo \in Seq(Written) /\ Range(todo) = MergeNames /\ Ending(todo, "merge_manifest")
    BY <1>2, MergingWrites
  <2>6. pod'[r].todo = todo /\ pod'[r].doc = d
    BY <1>1, <1>5, <2>4, <2>5, WorksFrame
  <2>7. PodFits(r)'
    <3>1. MergePod(r)'
      BY <1>3, <2>4, <2>5, <2>6 DEF MergePod, Draft
    <3> QED  BY <1>3, <3>1 DEF PodFits, Rendering, TrainPod, GatePod, PushPod
  <2>8. /\ prepared' \in [Runs -> Attempts]
        /\ \A s \in Runs : prepared'[s] <= resumes + 1 /\ (s # r => prepared'[s] = prepared[s])
        /\ stage[r] = "merge-export" => Merger(r) /\ Range(MergedFiles) \subseteq Range(todo)
    BY <1>1, <1>3, <2>5 DEF PipelineTypeOK, Counts, Merger, MergeNames
  <2> QED  BY <1>3, <1>5, <2>4, <2>5, <2>7, <2>8, Begun
<1> QED  BY <1>3, <1>4, <1>5

LEMMA EvaluateKeeps ==
  ASSUME PipelineInv, NEW r \in Runs, Evaluate(r)
  PROVE  PipelineInv'
<1>1. PipelineTypeOK /\ Counts /\ Own(r) /\ TrainedObjects(r)
  BY DEF PipelineInv, Own, Holdings
<1>2. PICK scored, todo : scored = Scored(r) /\ todo = <<"gate_result">>
  OBVIOUS
<1>3. /\ stage[r] = "evaluate"
      /\ UNCHANGED <<merges, stage, resumes, jobs, prepared, objects, destination, overlapped>>
      /\ \/ /\ Has(r, "train_manifest") /\ \A h \in Halves(r) : Has(r, h)
            /\ \E acceptance \in BOOLEAN :
                 Works(r, todo, [weights |-> scored, level |-> objects[r]["train_manifest"].level,
                                 says |-> Verdict(acceptance, scored)])
         \/ Ends(r, "failed")
  BY <1>2 DEF Evaluate, At
<1>4. CASE Ends(r, "failed")
  BY <1>3, <1>4, Ended
<1>5. CASE ~Ends(r, "failed")
  <2>1. Has(r, "train_manifest") /\ \A h \in Halves(r) : Has(r, h)
    BY <1>3, <1>5
  <2>2. PICK acceptance \in BOOLEAN :
          Works(r, todo, [weights |-> scored, level |-> objects[r]["train_manifest"].level,
                          says |-> Verdict(acceptance, scored)])
    BY <1>3, <1>5
  <2>3. PICK d : d = [weights |-> scored, level |-> objects[r]["train_manifest"].level,
                      says |-> Verdict(acceptance, scored)]
    OBVIOUS
  <2>4. /\ scored \subseteq Weights
        /\ Deterministic /\ Halves(r) # {} => scored = Draft(r).weights
    <3>1. PICK there : there = {g \in Samples : Has(r, g)}
      OBVIOUS
    <3>2. \A g \in there : FromDraft(r, objects[r][g]) /\ objects[r][g].weights \subseteq Weights
      BY <1>1, <3>1 DEF TrainedObjects, TrainNames, FromDraft, Content
    <3>3. scored = UNION {objects[r][g].weights : g \in there}
      BY <1>2, <3>1 DEF Scored
    <3>4. ASSUME Deterministic, NEW h \in Halves(r) PROVE scored = Draft(r).weights
      <4>1. h \in there
        BY <2>1, <3>1, <3>4 DEF Halves, Samples
      <4>2. \A g \in there : objects[r][g].weights = Draft(r).weights
        BY <3>2, <3>4 DEF FromDraft
      <4> QED  BY <3>3, <4>1, <4>2
    <3> QED  BY <3>2, <3>3, <3>4
  <2>5. PICK v : v = Verdict(acceptance, scored)
    OBVIOUS
  <2>6. v \in {"PASS", "FAIL"} /\ (v = "PASS" => \A w \in scored : w.conforms)
    BY <2>5 DEF Verdict
  <2>7. objects[r]["train_manifest"].level \in Levels
    BY <1>1, <2>1 DEF TrainedObjects, TrainNames, FromDraft, Content
  <2>8. d \in Content /\ d.weights = scored /\ d.says = v
    BY <2>3, <2>4, <2>5, <2>6, <2>7 DEF Content
  <2>9. Score(r, d)
    BY <2>4, <2>6, <2>8 DEF Score
  <2>10. todo \in Seq(Written) /\ Range(todo) = {"gate_result"}
    <3>1. "gate_result" \in Written
      BY FixedAreNames DEF Fixed
    <3> QED  BY <1>2, <3>1 DEF Range
  <2>11. Works(r, todo, d)
    BY <2>2, <2>3
  <2>12. pod'[r].todo = todo /\ pod'[r].doc = d
    BY <1>1, <2>8, <2>10, <2>11, WorksFrame
  <2>13. PodFits(r)'
    <3>1. Gated(r)'
      BY <1>3, <2>1, GatedKept DEF Gated, Has
    <3>2. GatePod(r)'
      BY <1>3, <2>9, <2>10, <2>12, <3>1 DEF GatePod, Score, Halves, Draft, Has
    <3> QED  BY <1>3, <3>2 DEF PodFits, Rendering, TrainPod, MergePod, PushPod
  <2>14. /\ prepared' \in [Runs -> Attempts]
         /\ \A s \in Runs : prepared'[s] <= resumes + 1 /\ (s # r => prepared'[s] = prepared[s])
         /\ stage[r] = "merge-export" => Merger(r) /\ Range(MergedFiles) \subseteq Range(todo)
    BY <1>1, <1>3 DEF PipelineTypeOK, Counts
  <2> QED  BY <1>3, <2>8, <2>10, <2>11, <2>13, <2>14, Begun
<1> QED  BY <1>4, <1>5

LEMMA PushRegistryKeeps ==
  ASSUME PipelineInv, NEW r \in Runs, PushRegistry(r)
  PROVE  PipelineInv'
<1>1. PipelineTypeOK /\ Counts /\ Own(r) /\ TrainedObjects(r)
  BY DEF PipelineInv, Own, Holdings
<1>2. PICK todo, d : /\ todo = <<"model_version", "model_artifact", "registration">>
                     /\ d = [weights |-> {}, level |-> objects[r]["train_manifest"].level,
                             says |-> ArtifactUri(r)]
  OBVIOUS
<1>3. /\ stage[r] = "push-registry"
      /\ UNCHANGED <<merges, stage, resumes, jobs, prepared, objects, destination, overlapped>>
      /\ \/ Passed(r) /\ Has(r, "train_manifest") /\ Works(r, todo, d)
         \/ Ends(r, "failed")
  BY <1>2 DEF PushRegistry, At
<1>4. CASE Ends(r, "failed")
  BY <1>3, <1>4, Ended
<1>5. CASE Passed(r) /\ Has(r, "train_manifest") /\ Works(r, todo, d)
  <2>1. objects[r]["train_manifest"].level = Draft(r).level
    BY <1>1, <1>5 DEF TrainedObjects, TrainNames, FromDraft
  <2>2. d = Registration(r)
    BY <1>2, <2>1 DEF Registration
  <2>3. Draft(r).level \in Levels
    BY <1>1, <1>3 DEF Own, Holdings, HasCorpus, Rendered, Content
  <2>4. d \in Content
    <3>1. ArtifactUri(r) \in {"adapter", "merged"}
      BY DEF ArtifactUri
    <3> QED  BY <2>2, <2>3, <3>1 DEF Registration, Content
  <2>5. todo \in Seq(Written) /\ Range(todo) = PushNames /\ Ending(todo, "registration")
    BY <1>2, PushWrites
  <2>6. pod'[r].todo = todo /\ pod'[r].doc = d
    BY <1>1, <1>5, <2>4, <2>5, WorksFrame
  <2>7. PodFits(r)'
    <3>1. Registered \subseteq PushNames
      BY DEF PushNames
    <3>2. PushPod(r)'
      BY <1>3, <1>5, <2>2, <2>5, <2>6, <3>1 DEF PushPod, Registration, ArtifactUri, Passed, Draft, Has
    <3> QED  BY <1>3, <3>2 DEF PodFits, Rendering, TrainPod, MergePod, GatePod
  <2>8. /\ prepared' \in [Runs -> Attempts]
        /\ \A s \in Runs : prepared'[s] <= resumes + 1 /\ (s # r => prepared'[s] = prepared[s])
        /\ stage[r] = "merge-export" => Merger(r) /\ Range(MergedFiles) \subseteq Range(todo)
    BY <1>1, <1>3 DEF PipelineTypeOK, Counts
  <2> QED  BY <1>3, <1>5, <2>4, <2>5, <2>7, <2>8, Begun
<1> QED  BY <1>3, <1>4, <1>5

\* The pod has written everything, and the engine goes on to the next stage.
LEMMA NextStageKeeps ==
  ASSUME PipelineInv, NEW r \in Runs, status[r] = "running", pod[r].todo = << >>,
         stage[r] # "push-registry", Ends(r, "ready"), stage' = [stage EXCEPT ![r] = After(r)],
         UNCHANGED <<merges, resumes, jobs, prepared, objects, destination, overlapped>>
  PROVE  PipelineInv'
<1>1. PipelineTypeOK /\ Counts /\ Own(r) /\ Destination
  BY DEF PipelineInv
<1>2. /\ status' \in [Runs -> Statuses] /\ status'[r] = "ready" /\ pod' \in [Runs -> Pods]
      /\ \A s \in Runs \ {r} : status'[s] = status[s] /\ pod'[s] = pod[s]
  <2>1. "ready" \in Statuses
    BY DEF Statuses
  <2> QED  BY <1>1, <2>1, EndsFrame
<1>3. PICK next : next = After(r)
  OBVIOUS
<1>4. /\ next \in Stages \ {"prepare-dataset"}
      /\ next = "train-lora" => stage[r] = "prepare-dataset"
  BY <1>1, <1>3 DEF After, Stages, PipelineTypeOK
<1>5. /\ stage' \in [Runs -> Stages] /\ stage'[r] = next
      /\ \A s \in Runs \ {r} : stage'[s] = stage[s]
  BY <1>1, <1>3, <1>4 DEF PipelineTypeOK
<1>6. OnlyMoves(r)
  BY <1>2, <1>5 DEF OnlyMoves
<1>7. PipelineTypeOK'
  BY <1>1, <1>2, <1>5 DEF PipelineTypeOK
<1>8. Counts'
  <2>1. stage'[r] = "train-lora" => Len(jobs'[r]) <= resumes'
    <3>1. ASSUME stage'[r] = "train-lora" PROVE jobs'[r] = << >>
      BY <1>1, <1>4, <1>5, <3>1 DEF Own, JobsFit
    <3>2. Len(<< >>) = 0 /\ 0 <= resumes'
      BY <1>1, BoundAssumption DEF PipelineTypeOK
    <3> QED  BY <3>1, <3>2
  <2> QED  BY <1>1, <1>2, <1>4, <1>5, <2>1 DEF Counts, Has
<1>9. HasCorpus(r)'
  <2>1. CASE stage[r] = "prepare-dataset"
    <3>1. Rendered(pod[r].doc) /\ \A n \in Corpus : objects[r][n] = pod[r].doc
      BY <2>1, NothingLeft DEF PipelineInv, Own, PodFits, Rendering
    <3>2. pod[r].doc # None
      BY <3>1, ContentIsSomething DEF Rendered
    <3> QED  BY <3>1, <3>2 DEF HasCorpus, Rendered, Draft, Has, Corpus
  <2>2. CASE stage[r] # "prepare-dataset"
    BY <1>1, <2>2 DEF Own, Holdings, HasCorpus, Rendered, Draft, Has
  <2> QED  BY <2>1, <2>2
<1>10. Own(r)'
  <2>0. Needed(r)' = Needed(r) /\ (Gated(r) => Gated(r)')
    BY NeededKept, GatedKept DEF Has
  <2>1. JobsFit(r)'
    BY <1>1, <1>4, <1>5, <2>0 DEF Own, JobsFit, Trainer, FromDraft, Draft, Has
  <2>2. \A n \in PushNames : objects'[r][n] = None
    BY <1>1 DEF Own, Holdings, Pushed, Has
  <2>3. Unprepared(r)' /\ TrainedObjects(r)' /\ GateResult(r)' /\ Pushed(r)'
    BY <1>1, <1>4, <1>5, <2>0, <2>2 DEF Own, Holdings, Unprepared, TrainedObjects, GateResult, Pushed,
       FromDraft, Score, Halves, Draft, Has, PushNames
  <2>4. PodFits(r)'
    BY <1>2, NoPodFits
  <2> QED  BY <1>9, <2>1, <2>3, <2>4 DEF Own, Holdings
<1>11. Destination'
  <2>1. \A s \in Runs \ {r} : stage'[s] = stage[s] /\ status'[s] = status[s] /\ pod'[s] = pod[s]
                               /\ objects'[s] = objects[s]
    BY <1>6 DEF OnlyMoves
  <2>2. /\ stage'[r] = "merge-export" /\ status'[r] \in {"listed", "running"} => Merger(r)
        /\ stage'[r] = "merge-export" /\ status'[r] = "running" =>
             \/ stage[r] = "merge-export" /\ status[r] = "running" /\ pod'[r] = pod[r]
             \/ Range(MergedFiles) \subseteq Range(pod'[r].todo)
        /\ objects'[r]["merge_manifest"] # None => Has(r, "merge_manifest")
        /\ stage[r] # "prepare-dataset" =>
             stage'[r] # "prepare-dataset" /\ objects'[r]["examples"] = objects[r]["examples"]
    BY <1>2, <1>4, <1>5 DEF Has
  <2> QED  BY <1>1, <2>1, <2>2, DestinationKept
<1> QED  BY <1>6, <1>7, <1>8, <1>10, <1>11, AllKeep

LEMMA FinishKeeps ==
  ASSUME PipelineInv, NEW r \in Runs, Finish(r)
  PROVE  PipelineInv'
<1>1. /\ status[r] = "running" /\ pod[r].todo = << >>
      /\ UNCHANGED <<merges, resumes, jobs, prepared, objects, destination, overlapped>>
      /\ \/ (\E how \in {"failed", "done"} : Ends(r, how)) /\ UNCHANGED stage
         \/ /\ stage[r] # "push-registry" /\ Ends(r, "ready")
            /\ stage' = [stage EXCEPT ![r] = After(r)]
  BY DEF Finish
<1>2. CASE (\E how \in {"failed", "done"} : Ends(r, how)) /\ UNCHANGED stage
  BY <1>1, <1>2, Ended
<1>3. CASE /\ stage[r] # "push-registry" /\ Ends(r, "ready")
           /\ stage' = [stage EXCEPT ![r] = After(r)]
  BY <1>1, <1>3, NextStageKeeps
<1> QED  BY <1>1, <1>2, <1>3

-----------------------------------------------------------------------------
(***************************************************************************)
(* The TrainJobs.                                                          *)
(***************************************************************************)
\* One job of a run moves.
LEMMA JobMoves ==
  ASSUME PipelineTypeOK, NEW r \in Runs, NEW j \in DOMAIN jobs[r], NEW job \in Jobs,
         jobs' = [jobs EXCEPT ![r][j] = job]
  PROVE  /\ jobs' \in [Runs -> Seq(Jobs)] /\ \A s \in Runs : Len(jobs'[s]) = Len(jobs[s])
         /\ \A s \in Runs \ {r} : jobs'[s] = jobs[s]
         /\ DOMAIN jobs'[r] = DOMAIN jobs[r] /\ jobs'[r][j] = job
         /\ \A i \in DOMAIN jobs[r] \ {j} : jobs'[r][i] = jobs[r][i]
<1>1. jobs \in [Runs -> Seq(Jobs)]
  BY DEF PipelineTypeOK
<1>2. PICK old \in Seq(Jobs) : old = jobs[r]
  BY <1>1
<1>3. PICK new : new = [old EXCEPT ![j] = job]
  OBVIOUS
<1>4. /\ new \in Seq(Jobs) /\ Len(new) = Len(old) /\ DOMAIN new = DOMAIN old /\ new[j] = job
      /\ \A i \in DOMAIN old \ {j} : new[i] = old[i]
  BY <1>2, <1>3, ExceptSeq
<1>5. jobs' = [jobs EXCEPT ![r] = new]
  BY <1>2, <1>3
<1> QED  BY <1>1, <1>2, <1>4, <1>5

LEMMA JobNumbers ==
  ASSUME PipelineInv, NEW r \in Runs, NEW j \in DOMAIN jobs[r]
  PROVE  /\ jobs[r][j] \in Jobs /\ j \in Attempts /\ stage[r] # "prepare-dataset"
<1>1. jobs[r] \in Seq(Jobs) /\ Len(jobs[r]) \in Attempts
  BY DEF PipelineInv, PipelineTypeOK
<1>2. PICK Q \in Seq(Jobs) : Q = jobs[r]
  BY <1>1
<1>3. DOMAIN Q = 1 .. Len(Q) /\ \A i \in 1 .. Len(Q) : Q[i] \in Jobs
  OBVIOUS
<1>4. jobs[r] # << >>
  <2>1. Len(<< >>) = 0
    OBVIOUS
  <2> QED  BY <1>2, <1>3, <2>1
<1> QED  BY <1>1, <1>2, <1>3, <1>4, BoundAssumption DEF Attempts, PipelineInv, Own, JobsFit

\* A job that stores nothing.
LEMMA QuietJob ==
  ASSUME PipelineInv, NEW r \in Runs, NEW j \in DOMAIN jobs[r], NEW job \in Jobs,
         jobs' = [jobs EXCEPT ![r][j] = job],
         job.state = "running" => Trainer(r, job.pod),
         UNCHANGED <<merges, stage, status, resumes, pod, prepared, objects, destination, overlapped>>
  PROVE  PipelineInv'
<1>1. PipelineTypeOK /\ Counts /\ Own(r)
  BY DEF PipelineInv
<1>2. /\ jobs' \in [Runs -> Seq(Jobs)] /\ \A s \in Runs : Len(jobs'[s]) = Len(jobs[s])
      /\ \A s \in Runs \ {r} : jobs'[s] = jobs[s]
      /\ DOMAIN jobs'[r] = DOMAIN jobs[r] /\ jobs'[r][j] = job
      /\ \A i \in DOMAIN jobs[r] \ {j} : jobs'[r][i] = jobs[r][i]
  BY <1>1, JobMoves
<1>3. PipelineTypeOK' /\ Counts' /\ OnlyMoves(r)
  BY <1>1, <1>2 DEF PipelineTypeOK, Counts, OnlyMoves, Has
<1>4. JobsFit(r)'
  <2>1. stage[r] # "prepare-dataset"
    BY JobNumbers
  <2>2. \A i \in DOMAIN jobs[r] : jobs'[r][i].state = "running" => Trainer(r, jobs'[r][i].pod)
    BY <1>1, <1>2 DEF Own, JobsFit
  <2>3. Needed(r)' = Needed(r)
    BY NeededKept
  <2> QED  BY <1>2, <2>1, <2>2, <2>3 DEF JobsFit, Trainer, FromDraft, Draft, Has
<1>5. Own(r)' /\ Destination'
  BY <1>3, <1>4, JobsMove
<1> QED  BY <1>3, <1>5, AllKeep

LEMMA JobStartKeeps ==
  ASSUME PipelineInv, NEW r \in Runs, NEW j \in DOMAIN jobs[r], JobStart(r, j)
  PROVE  PipelineInv'
<1>1. PipelineTypeOK /\ Own(r)
  BY DEF PipelineInv
<1>2. j \in Attempts /\ stage[r] # "prepare-dataset"
  BY JobNumbers
<1>3. PICK p : p = [todo |-> TrainingWrites(r), doc |-> Training(r, j)]
  OBVIOUS
<1>4. Training(r, j) \in Content /\ Trainer(r, p)
  BY <1>1, <1>2, <1>3, TrainingFits
<1>5. p \in Pods
  <2>1. TrainingWrites(r) \in Seq(Written)
    BY TrainWrites
  <2> QED  BY <1>3, <1>4, <2>1 DEF Pods, Written
<1>6. PICK job : job = IF HasDataset(r) THEN [state |-> "running", pod |-> p]
                                        ELSE [state |-> "failed", pod |-> Idle]
  OBVIOUS
<1>7. job \in Jobs /\ (job.state = "running" => job.pod = p)
  BY <1>5, <1>6, IdleIsPod DEF Jobs
<1>8. jobs' = [jobs EXCEPT ![r][j] = job]
  BY <1>3, <1>6 DEF JobStart
<1>9. job.state = "running" => Trainer(r, job.pod)
  BY <1>4, <1>7
<1>10. UNCHANGED <<merges, stage, status, resumes, pod, prepared, objects, destination, overlapped>>
  BY DEF JobStart
<1> QED  BY <1>7, <1>8, <1>9, <1>10, QuietJob

LEMMA JobEndKeeps ==
  ASSUME PipelineInv, NEW r \in Runs, NEW j \in DOMAIN jobs[r], JobEnd(r, j)
  PROVE  PipelineInv'
<1>1. PICK how : how = IF jobs[r][j].pod.todo = << >> THEN "complete" ELSE "failed"
  OBVIOUS
<1>2. PICK job : job = [state |-> how, pod |-> Idle]
  OBVIOUS
<1>3. job \in Jobs /\ job.state # "running"
  BY <1>1, <1>2, IdleIsPod DEF Jobs
<1>4. jobs' = [jobs EXCEPT ![r][j] = job]
  BY <1>1, <1>2 DEF JobEnd
<1>5. UNCHANGED <<merges, stage, status, resumes, pod, prepared, objects, destination, overlapped>>
  BY DEF JobEnd
<1> QED  BY <1>3, <1>4, <1>5, QuietJob

LEMMA JobWriteKeeps ==
  ASSUME PipelineInv, NEW r \in Runs, NEW j \in DOMAIN jobs[r], JobWrite(r, j)
  PROVE  PipelineInv'
<1>1. PipelineTypeOK /\ Counts /\ Own(r) /\ Destination /\ Holdings(r) /\ JobsFit(r) /\ PodFits(r)
  BY DEF PipelineInv, Own
<1>2. jobs[r][j] \in Jobs /\ stage[r] # "prepare-dataset"
  BY JobNumbers
<1>3. PICK p \in Pods : p = jobs[r][j].pod
  BY <1>2 DEF Jobs
<1>4. PICK n, d, t : n = Head(p.todo) /\ d = p.doc /\ t = Tail(p.todo)
  OBVIOUS
<1>5. /\ p.todo # << >> /\ Store(r, n, d)
      /\ UNCHANGED <<merges, stage, status, resumes, pod, prepared, overlapped>>
      /\ jobs' = [jobs EXCEPT ![r][j].pod.todo = Tail(@)]
  BY <1>3, <1>4 DEF JobWrite
<1>6. Trainer(r, p)
  BY <1>1, <1>3 DEF JobWrite, JobsFit
<1>7. /\ n \in TrainNames /\ n \in Names /\ d \in Content /\ n # "merge_manifest" /\ n \notin Corpora
      /\ Holdings(r)' /\ Trainer(r, [p EXCEPT !.todo = t])'
  <2>1. stage'[r] = stage[r]
    BY <1>5
  <2> QED  BY <1>1, <1>2, <1>4, <1>5, <1>6, <2>1, TrainerStores
<1>8. /\ objects' \in [Runs -> [Names -> Content \cup {None}]] /\ UNCHANGED destination
      /\ \A s \in Runs \ {r} : objects'[s] = objects[s]
      /\ \A m \in Names \ {n} : objects'[r][m] = objects[r][m]
      /\ \A m \in Names : Has(r, m) => objects'[r][m] # None
  BY <1>1, <1>5, <1>7, Stored
<1>9. PICK q : q = [p EXCEPT !.todo = t]
  OBVIOUS
<1>10. q \in Pods
  <2>1. p.todo \in Seq(Written)
    BY DEF Pods, Written
  <2>2. t \in Seq(Written)
    BY <1>4, <1>5, <2>1, HeadTailProperties
  <2> QED  BY <1>9, <2>2 DEF Pods, Written
<1>11. PICK job : job = [jobs[r][j] EXCEPT !.pod = q]
  OBVIOUS
<1>12. job \in Jobs /\ job.pod = q
  BY <1>2, <1>10, <1>11 DEF Jobs
<1>13. jobs' = [jobs EXCEPT ![r][j] = job]
  BY <1>3, <1>4, <1>5, <1>9, <1>11
<1>14. /\ jobs' \in [Runs -> Seq(Jobs)] /\ \A s \in Runs : Len(jobs'[s]) = Len(jobs[s])
       /\ \A s \in Runs \ {r} : jobs'[s] = jobs[s]
       /\ DOMAIN jobs'[r] = DOMAIN jobs[r] /\ jobs'[r][j] = job
       /\ \A i \in DOMAIN jobs[r] \ {j} : jobs'[r][i] = jobs[r][i]
  BY <1>1, <1>12, <1>13, JobMoves
<1>15. PipelineTypeOK' /\ OnlyMoves(r)
  BY <1>1, <1>5, <1>8, <1>14 DEF PipelineTypeOK, OnlyMoves
<1>16. Counts'
  <2>1. \A s \in Runs : Has(s, "train_manifest") => Has(s, "train_manifest")'
    BY <1>8 DEF Has, Names, Fixed
  <2> QED  BY <1>1, <1>5, <1>14, <2>1 DEF Counts
<1>17. "examples" \in Names \ {n} /\ "test" \in Names \ {n} /\ "merge_manifest" \in Names \ {n}
       /\ "gate_result" \in Names \ {n} /\ Registered \subseteq Names
  <2>1. n # "gate_result"
    BY <1>7, FilesTypes DEF TrainNames, Samples, Fixed
  <2> QED  BY <1>7, <2>1, FixedAreNames DEF Names, Fixed, Corpora
<1>18. JobsFit(r)'
  <2>1. ASSUME NEW i \in DOMAIN jobs[r], jobs'[r][i].state = "running"
        PROVE  \E e : jobs'[r][i].pod = e /\ Trainer(r, e)'
    <3>1. CASE i = j
      BY <1>7, <1>9, <1>12, <1>14, <3>1
    <3>2. CASE i # j
      <4>1. PICK e : e = jobs[r][i].pod
        OBVIOUS
      <4>2. Trainer(r, e)
        BY <1>1, <1>14, <2>1, <3>2, <4>1 DEF JobsFit
      <4>3. Trainer(r, e)'
        BY <1>8, <1>17, <4>2, TrainerKept
      <4> QED  BY <1>14, <3>2, <4>1, <4>3
    <3> QED  BY <3>1, <3>2
  <2> QED  BY <1>2, <1>5, <1>14, <2>1 DEF JobsFit
<1>19. PodFits(r)'
  <2>1. /\ objects'[r]["examples"] = objects[r]["examples"]
        /\ objects'[r]["test"] = objects[r]["test"]
        /\ objects'[r]["gate_result"] = objects[r]["gate_result"]
        /\ objects'[r]["merge_manifest"] = objects[r]["merge_manifest"]
        /\ \A m \in Registered : Has(r, m) => objects'[r][m] # None
    BY <1>8, <1>17
  <2>2. TrainPod(r)'
    <3>1. ASSUME stage[r] = "train-lora", status[r] = "running" PROVE Trainer(r, pod[r])'
      <4>1. PICK e : e = pod[r]
        OBVIOUS
      <4>2. Trainer(r, e)
        BY <1>1, <3>1, <4>1 DEF PodFits, TrainPod
      <4>3. Trainer(r, e)'
        BY <1>8, <2>1, <4>2, TrainerKept
      <4> QED  BY <1>5, <4>1, <4>3
    <3> QED  BY <1>5, <3>1 DEF TrainPod
  <2>3. MergePod(r)' /\ GatePod(r)'
    <3>1. Gated(r) => Gated(r)'
      BY <1>8, GatedKept
    <3> QED  BY <1>1, <1>5, <2>1, <3>1 DEF PodFits, MergePod, GatePod, Score, Halves, Draft, Has
  <2>4. PushPod(r)'
    BY <1>1, <1>5, <2>1 DEF PodFits, PushPod, Registration, ArtifactUri, Passed, Draft, Has
  <2> QED  BY <1>2, <1>5, <2>2, <2>3, <2>4 DEF PodFits, Rendering
<1>20. Destination'
  <2>1. \A s \in Runs \ {r} : stage'[s] = stage[s] /\ status'[s] = status[s] /\ pod'[s] = pod[s]
                               /\ objects'[s] = objects[s]
    BY <1>15 DEF OnlyMoves
  <2>2. /\ UNCHANGED <<destination, overlapped>>
        /\ stage'[r] = "merge-export" /\ status'[r] \in {"listed", "running"} => Merger(r)
        /\ stage'[r] = "merge-export" /\ status'[r] = "running" =>
             \/ stage[r] = "merge-export" /\ status[r] = "running" /\ pod'[r] = pod[r]
             \/ Range(MergedFiles) \subseteq Range(pod'[r].todo)
        /\ objects'[r]["merge_manifest"] # None => Has(r, "merge_manifest")
        /\ stage[r] # "prepare-dataset" =>
             stage'[r] # "prepare-dataset" /\ objects'[r]["examples"] = objects[r]["examples"]
    BY <1>2, <1>5, <1>8, <1>17 DEF Has, Merger
  <2> QED  BY <1>1, <2>1, <2>2, DestinationKept
<1> QED  BY <1>7, <1>15, <1>16, <1>18, <1>19, <1>20, AllKeep DEF Own

-----------------------------------------------------------------------------
(***************************************************************************)
(* The invariant, and what follows from it.                                *)
(***************************************************************************)
LEMMA PipelineBegins == PipelineInit => PipelineInv
<1> SUFFICES ASSUME PipelineInit PROVE PipelineInv
  OBVIOUS
<1>1. << >> \in Seq(Jobs) /\ Len(<< >>) = 0 /\ DOMAIN << >> = {}
  BY EmptySeq
<1>2. PipelineTypeOK
  BY <1>1, IdleIsPod, BoundAssumption DEF PipelineInit, PipelineTypeOK, Stages, Statuses, Attempts
<1>3. Counts
  BY <1>1 DEF PipelineInit, Counts
<1>4. ASSUME NEW r \in Runs PROVE Own(r)
  <2>1. \A n \in Names : ~Has(r, n)
    BY DEF PipelineInit, Has
  <2>2. /\ TrainNames \subseteq Names /\ PushNames \subseteq Names
        /\ {"train_manifest", "gate_result", "registration"} \subseteq Names
    BY FixedAreNames DEF Fixed
  <2>3. stage[r] = "prepare-dataset" /\ status[r] = "ready" /\ jobs[r] = << >>
    BY DEF PipelineInit
  <2>4. Holdings(r)
    BY <2>1, <2>2, <2>3 DEF Holdings, Unprepared, HasCorpus, TrainedObjects, GateResult, Pushed
  <2>5. PodFits(r) /\ JobsFit(r)
    BY <1>1, <2>3 DEF PodFits, Rendering, TrainPod, MergePod, GatePod, PushPod, JobsFit
  <2> QED  BY <2>4, <2>5 DEF Own
<1>5. Destination
  <2>1. \A r \in Runs : ~Has(r, "merge_manifest") /\ ~Merger(r)
    BY DEF PipelineInit, Has, Merger, Names, Fixed
  <2>2. \A f \in Range(MergedFiles) : destination[f] = None
    BY DEF PipelineInit
  <2>3. \A r \in Runs : MergedWhole(r) /\ MergesOf(r) /\ Alone(r)
    BY <2>1, <2>2 DEF MergedWhole, MergesOf, Alone, Merger
  <2> QED  BY <2>1, <2>3 DEF Destination, Apart
<1> QED  BY <1>2, <1>3, <1>4, <1>5 DEF PipelineInv

LEMMA PipelineAdvances == PipelineInv /\ [PipelineNext]_pipelineVars => PipelineInv'
<1> SUFFICES ASSUME PipelineInv, [PipelineNext]_pipelineVars PROVE PipelineInv'
  OBVIOUS
<1>1. ASSUME NEW r \in Runs, Stage(r) PROVE PipelineInv'
  BY <1>1, PrepareKeeps, TrainLocalKeeps, SubmitKeeps, PollKeeps, ListDestinationKeeps,
     MergeExportKeeps, EvaluateKeeps, PushRegistryKeeps, WriteKeeps, FinishKeeps DEF Stage
<1>2. ASSUME NEW r \in Runs, TimeOut(r) \/ Fail(r) \/ Resume(r) PROVE PipelineInv'
  BY <1>2, TimeOutKeeps, FailKeeps, ResumeKeeps
<1>3. ASSUME NEW r \in Runs, NEW j \in DOMAIN jobs[r], JobStart(r, j) \/ JobWrite(r, j) \/ JobEnd(r, j)
      PROVE  PipelineInv'
  BY <1>3, JobStartKeeps, JobWriteKeeps, JobEndKeeps
<1>4. CASE UNCHANGED pipelineVars
  <2>1. PipelineTypeOK' /\ Counts'
    BY <1>4 DEF pipelineVars, PipelineInv, PipelineTypeOK, Counts, Has
  <2>2. ASSUME NEW r \in Runs PROVE Own(r)'
    BY <1>4, OthersKeep DEF pipelineVars, PipelineInv
  <2>3. Destination'
    BY <1>4 DEF pipelineVars, PipelineInv, Destination, MergedWhole, MergesOf, Apart, Alone, Wrote,
                Merger, Draft, Has
  <2> QED  BY <2>1, <2>2, <2>3 DEF PipelineInv
<1> QED  BY <1>1, <1>2, <1>3, <1>4 DEF PipelineNext

LEMMA PipelineInvariant == PipelineSpec => []PipelineInv
  BY PipelineBegins, PipelineAdvances, PTL DEF PipelineSpec

\* Stages, pods, jobs and what they leave keep the shapes they are declared
\* with, for any number of runs, files, rows and resumptions.
THEOREM PipelinesKeepTheirTypes == PipelineSpec => []PipelineTypeOK
<1>1. PipelineInv => PipelineTypeOK
  BY DEF PipelineInv
<1> QED  BY <1>1, PipelineInvariant, PTL

\* Whoever finds a manifest finds what it describes, whichever trainers are
\* still at work and whatever died half-way (upload_manifest comes last in
\* train_lora and merge_export): the files, and the samples that the held-out
\* split and the tool probes give.  A style corpus without a conversation to
\* complete gives none; what that means for the gate is GateCoversTheRegistered.
THEOREM ManifestsComeLast == PipelineSpec => []WholeOrUnseen
<1>1. ASSUME PipelineInv PROVE WholeOrUnseen
  <2> SUFFICES ASSUME NEW r \in Runs
               PROVE  /\ Has(r, "train_manifest") =>
                           \A n \in Range(AdapterFiles) \cup Due(r) : Has(r, n)
                      /\ Has(r, "merge_manifest") =>
                           \A f \in Range(MergedFiles) : destination[f] # None
    BY DEF WholeOrUnseen
  <2>1. TrainedObjects(r) /\ MergedWhole(r)
    BY <1>1 DEF PipelineInv, Own, Holdings, Destination
  <2> QED  BY <2>1 DEF TrainedObjects, Needed, MergedWhole, Wrote
<1> QED  BY <1>1, PipelineInvariant, PTL

\* What registration.json says is what the registry holds, and the level of
\* the version is not below that of any row behind the adapter, deterministic
\* or not, with or without the merged destination being overwritten.
THEOREM RegistryTellsTheTruth == PipelineSpec => []RegistrationAgrees
<1>1. ASSUME PipelineInv PROVE RegistrationAgrees
  <2> SUFFICES ASSUME NEW r \in Runs
               PROVE  /\ Has(r, "registration") =>
                           /\ Has(r, "model_version")
                           /\ objects[r]["model_artifact"] = objects[r]["registration"]
                      /\ Has(r, "model_version") => LevelKept(r)
    BY DEF RegistrationAgrees
  <2>1. PipelineTypeOK /\ TrainedObjects(r) /\ Pushed(r)
    BY <1>1 DEF PipelineInv, Own, Holdings
  <2>2. Has(r, "registration") => /\ Has(r, "model_version")
                                  /\ objects[r]["model_artifact"] = objects[r]["registration"]
    BY <2>1 DEF Pushed, PushNames, Registered
  <2>3. ASSUME Has(r, "model_version") PROVE LevelKept(r)
    <3>1. objects[r]["model_version"].level = Draft(r).level
      BY <2>1, <2>3 DEF Pushed, PushNames, Registered, Registration
    <3>2. \A w \in AdapterWeights(r) : w.level <= Draft(r).level
      BY <2>1, AdapterComesFromDraft
    <3> QED  BY <3>1, <3>2 DEF LevelKept
  <2> QED  BY <2>2, <2>3
<1> QED  BY <1>1, PipelineInvariant, PTL

\* What a run that merged alone has registered passed a gate that had every
\* half it needs, and is what the gate scored.  It
\* takes both switches: another attempt of a training that is not
\* deterministic draws other weights, and an overwritten destination holds
\* those of another run.
THEOREM GateCoversTheRegistered ==
  ASSUME Deterministic, ~Overwrite
  PROVE  PipelineSpec => []RegisteredIsGated
<1>1. ASSUME PipelineInv PROVE RegisteredIsGated
  <2> SUFFICES ASSUME NEW r \in Runs \ overlapped, Has(r, "model_artifact")
               PROVE  /\ Passed(r) /\ \A h \in Halves(r) : Has(r, h)
                      /\ Halves(r) # {} => ArtifactWeights(r) = objects[r]["gate_result"].weights
                      /\ Halves(r) # {} => \A w \in ArtifactWeights(r) : w.conforms
    BY DEF RegisteredIsGated
  <2>1. PipelineTypeOK /\ TrainedObjects(r) /\ Pushed(r) /\ GateResult(r) /\ MergedWhole(r) /\ MergesOf(r)
    BY <1>1 DEF PipelineInv, Own, Holdings, Destination
  <2>2. Passed(r) /\ objects[r]["model_artifact"].says = ArtifactUri(r)
    BY <2>1 DEF Pushed, PushNames, Registered, Registration
  <2>3. /\ Has(r, "train_manifest") /\ \A w \in objects[r]["gate_result"].weights : w.conforms
        /\ \A h \in Halves(r) : Has(r, h)
        /\ Halves(r) # {} => objects[r]["gate_result"].weights = Draft(r).weights
    BY <2>1, <2>2 DEF GateResult, Gated, Score, Passed
  <2>4. ArtifactWeights(r) = Draft(r).weights
    <3>1. CASE Has(r, "merge_manifest")
      <4>1. \A f \in Range(MergedFiles) : destination[f] # None /\ destination[f].run = r
        BY <2>1, <3>1 DEF MergedWhole, Wrote
      <4>2. \A f \in Range(MergedFiles) : destination[f].weights = Draft(r).weights
        BY <2>1, <4>1 DEF MergesOf
      <4>3. ArtifactWeights(r) = UNION {destination[f].weights : f \in Range(MergedFiles)}
        BY <2>2, <3>1, <4>1 DEF ArtifactWeights, ArtifactUri
      <4> QED  BY <4>2, <4>3, FilesTypes
    <3>2. CASE ~Has(r, "merge_manifest")
      <4>1. \E f \in Range(AdapterFiles) : Has(r, f)
        BY <2>1, <2>3, FilesTypes DEF TrainedObjects, Needed
      <4>2. AdapterWeights(r) = Draft(r).weights
        BY <2>1, <4>1, AdapterComesFromDraft
      <4> QED  BY <2>2, <3>2, <4>2 DEF ArtifactWeights, ArtifactUri
    <3> QED  BY <3>1, <3>2
  <2> QED  BY <2>2, <2>3, <2>4
<1> QED  BY <1>1, PipelineInvariant, PTL

\* Without MLOPS_MERGED_OVERWRITE, only runs that listed the destination while
\* another was merging can leave it with files of two.
THEOREM OnlyRacesMix ==
  ASSUME ~Overwrite
  PROVE  PipelineSpec => []MixOnlyByRace
<1>1. ASSUME PipelineInv PROVE MixOnlyByRace
  <2> SUFFICES ASSUME NEW f \in Range(MergedFiles), NEW g \in Range(MergedFiles),
                      destination[f] # None, destination[g] # None,
                      destination[f].run # destination[g].run
               PROVE  {destination[f].run, destination[g].run} \subseteq overlapped
    BY DEF MixOnlyByRace
  <2>1. destination[f].run \in Runs /\ destination[g].run \in Runs
    BY <1>1 DEF PipelineInv, PipelineTypeOK, Merged
  <2>2. \A r \in Runs \ overlapped : Alone(r)
    BY <1>1 DEF PipelineInv, Destination
  <2> QED  BY <2>1, <2>2 DEF Alone
<1> QED  BY <1>1, PipelineInvariant, PTL

=============================================================================
