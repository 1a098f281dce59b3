------------------------- MODULE TokenSourceProofs -------------------------
(***************************************************************************)
(* Theorems about TokenSource, for any number of calls and any lifetimes.  *)
(***************************************************************************)
EXTENDS TokenSource, TLAPS

\* The code never takes the token for longer than it lasts.
Trusted == short \/ left <= life

\* The lock has one holder, and its request is the one to Keycloak.
OneFetch ==
  /\ \A c, d \in Callers : phase[c] = "fetching" /\ phase[d] = "fetching" => c = d
  /\ Locked <=> fetching # -1

\* The queue holds the calls that wait for the lock, each once.
Line ==
  /\ \A i \in 1 .. Len(queue) : phase[queue[i]] = "queued"
  /\ \A i, j \in 1 .. Len(queue) : queue[i] = queue[j] => i = j
  /\ \A c \in Callers : phase[c] = "queued" => \E i \in 1 .. Len(queue) : queue[i] = c

\* The longest n requests to Keycloak may take, and what is left of the one
\* that is under way.
Span(n) == n * MaxFetch
Rest == IF Locked THEN MaxFetch - fetching ELSE 0

\* What a call has waited and may still have to wait fits its bound: the rest
\* of the request under way, one request for each call before it, its own.
Waits ==
  \A c \in Callers :
    /\ phase[c] = "fetching" => waited[c] + Rest <= Span(ahead[c] + 1)
    /\ \A i \in 1 .. Len(queue) :
         queue[i] = c => waited[c] + Rest + Span(i) <= Span(ahead[c] + 1)
    /\ phase[c] \notin {"queued", "fetching"} => waited[c] = 0

IInv == TypeOK /\ Trusted /\ OneFetch /\ Line /\ Waits /\ HandedOutInTime

-----------------------------------------------------------------------------
\* Arithmetic, and what the lifetimes come to.
LEMMA Spans ==
  /\ Span(0) = 0 /\ Span(1) = MaxFetch
  /\ \A n \in Nat : Span(n) \in Nat /\ Span(n + 1) = Span(n) + MaxFetch
BY LifetimesAssumption DEF Span

LEMMA LessIsNat == \A n, m \in Nat : Less(n, m) \in 0 .. n
BY DEF Less

LEMMA ClampedLifetime ==
  ASSUME NEW l \in Lifetimes
  PROVE  /\ Clamped(l) \in MinLifetime .. MaxLifetime
         /\ l >= MinLifetime => Clamped(l) <= l
         /\ RefreshAt[Clamped(l)] \in 0 .. Clamped(l)
BY LifetimesAssumption, RefreshAssumption DEF Clamped

\* What the types say of the numbers a call waits by, and of the line.
LEMMA Typed ==
  ASSUME TypeOK
  PROVE  /\ MaxFetch \in Nat
         /\ \A d \in Callers : waited[d] \in Nat /\ ahead[d] + 1 \in Nat
         /\ \A i \in 1 .. Len(queue) : i \in Nat /\ queue[i] \in Callers
<1>1. MaxFetch \in Nat
  BY LifetimesAssumption
<1>2. \A d \in Callers : waited[d] \in Nat /\ ahead[d] \in Nat
  BY DEF TypeOK
<1>3. queue \in Seq(Callers)
  BY DEF TypeOK
<1>4. \A i \in 1 .. Len(queue) : i \in Nat /\ queue[i] \in Callers
  BY <1>3
<1> QED  BY <1>1, <1>2, <1>4

LEMMA InitIInv == Init => IInv
<1> SUFFICES ASSUME Init PROVE IInv
  OBVIOUS
<1>1. TypeOK
  <2>1. MaxLifetime \in Nat /\ MaxFetch \in Nat /\ MaxCalls \in Nat
    BY LifetimesAssumption
  <2>2. served \in [Callers -> [life : Nat, own : BOOLEAN, short : BOOLEAN]]
    BY DEF Init, NoToken
  <2>3. /\ phase \in [Callers -> Phases]
        /\ waited \in [Callers -> Nat] /\ ahead \in [Callers -> Nat]
    BY DEF Init, Phases
  <2>4. queue \in Seq(Callers)
    BY DEF Init
  <2>5. /\ left \in 0 .. MaxLifetime /\ fresh \in 0 .. MaxLifetime
        /\ life \in Nat /\ calls \in 0 .. MaxCalls
        /\ fetching \in -1 .. MaxFetch
    BY <2>1 DEF Init
  <2>6. short \in BOOLEAN
    BY DEF Init
  <2> QED  BY <2>2, <2>3, <2>4, <2>5, <2>6 DEF TypeOK
<1>2. ~Locked /\ Len(queue) = 0 /\ \A c \in Callers : phase[c] = "idle" /\ waited[c] = 0
  BY DEF Init, Locked
<1>3. Trusted /\ OneFetch /\ Line /\ HandedOutInTime
  BY <1>2 DEF Init, Trusted, OneFetch, Line, Locked, HandedOutInTime
<1>4. Waits
  <2>1. \A i \in 1 .. Len(queue) : FALSE
    BY <1>2
  <2> QED  BY <1>2, <2>1, Zenon DEF Waits
<1> QED  BY <1>1, <1>3, <1>4 DEF IInv

-----------------------------------------------------------------------------
\* What handing out the token in hand keeps.
LEMMA CachedInTime ==
  ASSUME IInv, NEW c \in Callers, Valid(left), Serve(c, Cached(FALSE))
  PROVE  /\ HandedOutInTime'
         /\ phase' \in [Callers -> Phases]
         /\ served' \in [Callers -> [life : Nat, own : BOOLEAN, short : BOOLEAN]]
<1>1. Cached(FALSE) \in [life : Nat, own : BOOLEAN, short : BOOLEAN]
  BY DEF IInv, TypeOK, Cached
<1>2. Cached(FALSE).short \/ Cached(FALSE).life > Margin
  BY LifetimesAssumption DEF IInv, TypeOK, Trusted, Cached, Valid, Margin
<1>3. /\ phase' \in [Callers -> Phases]
      /\ served' \in [Callers -> [life : Nat, own : BOOLEAN, short : BOOLEAN]]
  BY <1>1 DEF IInv, TypeOK, Serve, Phases
<1>4. \A d \in Callers : phase'[d] = IF d = c THEN "served" ELSE phase[d]
  BY DEF IInv, TypeOK, Serve
<1>5. \A d \in Callers : served'[d] = IF d = c THEN Cached(FALSE) ELSE served[d]
  BY DEF IInv, TypeOK, Serve
<1>6. HandedOutInTime'
  BY <1>2, <1>4, <1>5 DEF IInv, HandedOutInTime
<1> QED  BY <1>3, <1>6

\* A call that takes the lock.
LEMMA FetchesTypes ==
  ASSUME IInv, NEW c \in Callers, Fetches(c)
  PROVE  /\ HandedOutInTime'
         /\ phase' \in [Callers -> Phases]
         /\ fetching' \in 0 .. MaxFetch
         /\ served' = served
<1>1. /\ phase' \in [Callers -> Phases]
      /\ \A d \in Callers : phase'[d] = IF d = c THEN "fetching" ELSE phase[d]
  BY DEF IInv, TypeOK, Fetches, Phases
<1>2. fetching' \in 0 .. MaxFetch /\ served' = served
  BY LifetimesAssumption DEF Fetches
<1>3. HandedOutInTime'
  BY <1>1, <1>2 DEF IInv, HandedOutInTime
<1> QED  BY <1>1, <1>2, <1>3

-----------------------------------------------------------------------------
\* A call comes.
LEMMA GetServed ==
  ASSUME IInv, NEW c \in Callers, Get(c), Usable, Serve(c, Cached(FALSE)),
         UNCHANGED <<queue, fetching, ahead>>
  PROVE  IInv'
<1>0. /\ UNCHANGED <<left, fresh, life, short, waited>> /\ calls' \in 0 .. MaxCalls
      /\ phase[c] \notin {"queued", "fetching"}
  BY LifetimesAssumption DEF Get, IInv, TypeOK
<1>1. /\ HandedOutInTime'
      /\ phase' \in [Callers -> Phases]
      /\ served' \in [Callers -> [life : Nat, own : BOOLEAN, short : BOOLEAN]]
  BY CachedInTime DEF Usable
<1>2. TypeOK' /\ Trusted'
  BY <1>0, <1>1 DEF IInv, TypeOK, Trusted
<1>3. \A d \in Callers : phase'[d] = IF d = c THEN "served" ELSE phase[d]
  BY DEF IInv, TypeOK, Serve
<1>4. Locked' <=> Locked
  BY <1>0, <1>3 DEF Locked
<1>5. OneFetch'
  BY <1>3, <1>4 DEF IInv, OneFetch
<1>6. Line'
  <2>0. phase[c] # "queued"
    BY <1>0
  <2>1. \A i \in 1 .. Len(queue) : queue[i] \in Callers /\ queue[i] # c
    BY <2>0, Typed DEF IInv, Line
  <2> QED  BY <2>1, <1>3 DEF IInv, Line
<1>7. Waits'
  <2>1. Rest' = Rest /\ \A k \in Nat : Span(k)' = Span(k)
    BY <1>0, <1>4 DEF Rest, Span
  <2> SUFFICES ASSUME NEW d \in Callers
               PROVE  /\ phase'[d] = "fetching" => waited[d] + Rest <= Span(ahead[d] + 1)
                      /\ \A i \in 1 .. Len(queue) :
                           queue[i] = d => waited[d] + Rest + Span(i) <= Span(ahead[d] + 1)
                      /\ phase'[d] \notin {"queued", "fetching"} => waited[d] = 0
    BY <1>0, <2>1 DEF Waits, Span
  <2>2. CASE d = c
    BY <2>2, <1>0, <1>3 DEF IInv, Waits
  <2>3. CASE d # c
    BY <2>3, <1>3 DEF IInv, Waits
  <2> QED  BY <2>2, <2>3
<1> QED  BY <1>1, <1>2, <1>5, <1>6, <1>7 DEF IInv

LEMMA GetFetches ==
  ASSUME IInv, NEW c \in Callers, Get(c), ~Usable, ~Locked, queue = << >>, Fetches(c),
         UNCHANGED <<queue, ahead>>
  PROVE  IInv'
<1>0. /\ UNCHANGED <<left, fresh, life, short, waited>> /\ calls' \in 0 .. MaxCalls
      /\ phase[c] \notin {"queued", "fetching"}
  BY LifetimesAssumption DEF Get, IInv, TypeOK
<1>1. /\ HandedOutInTime'
      /\ phase' \in [Callers -> Phases]
      /\ fetching' \in 0 .. MaxFetch
      /\ served' = served
  BY FetchesTypes
<1>2. TypeOK' /\ Trusted'
  BY <1>0, <1>1 DEF IInv, TypeOK, Trusted
<1>3. \A d \in Callers : phase'[d] = IF d = c THEN "fetching" ELSE phase[d]
  BY DEF IInv, TypeOK, Fetches
<1>4. Locked' /\ fetching' = 0
  BY <1>3 DEF Locked, Fetches
<1>5. OneFetch'
  BY <1>3, <1>4 DEF OneFetch, Locked
<1>6. Len(queue') = 0 /\ \A i \in 1 .. Len(queue') : FALSE
  BY <1>0
<1>7. \A d \in Callers : phase[d] # "queued"
  BY DEF IInv, Line
<1>8. Line'
  BY <1>3, <1>6, <1>7 DEF Line
<1>9. Waits'
  <2> SUFFICES ASSUME NEW d \in Callers
               PROVE  /\ phase'[d] = "fetching" => waited[d] + Rest' <= Span(ahead[d] + 1)
                      /\ phase'[d] \notin {"queued", "fetching"} => waited[d] = 0
    BY <1>0, <1>6 DEF Waits, Span
  <2>1. waited[c] = 0 /\ (d # c => phase[d] # "fetching")
    BY <1>0 DEF IInv, Waits, Locked
  <2>2. Rest' = MaxFetch
    BY <1>4, LifetimesAssumption DEF Rest
  <2>3. MaxFetch <= Span(ahead[c] + 1)
    <3>1. ahead[c] \in Nat /\ MaxFetch \in Nat
      BY LifetimesAssumption DEF IInv, TypeOK
    <3>2. Span(ahead[c] + 1) = Span(ahead[c]) + MaxFetch /\ Span(ahead[c]) \in Nat
      BY <3>1, Spans
    <3> QED  BY <3>1, <3>2
  <2> QED  BY <1>3, <2>1, <2>2, <2>3, LifetimesAssumption DEF IInv, Waits
<1> QED  BY <1>1, <1>2, <1>5, <1>8, <1>9 DEF IInv

LEMMA GetQueues ==
  ASSUME IInv, NEW c \in Callers, Get(c), ~Usable, Locked \/ queue # << >>,
         phase' = [phase EXCEPT ![c] = "queued"],
         queue' = Append(queue, c),
         ahead' = [ahead EXCEPT ![c] = Len(queue) + IF Locked THEN 1 ELSE 0],
         UNCHANGED <<fetching, served>>
  PROVE  IInv'
<1>0. /\ UNCHANGED <<left, fresh, life, short, waited>> /\ calls' \in 0 .. MaxCalls
      /\ phase[c] \notin {"queued", "fetching"}
  BY LifetimesAssumption DEF Get, IInv, TypeOK
<1> DEFINE n == Len(queue)
<1>1. /\ n \in Nat /\ queue' \in Seq(Callers) /\ Len(queue') = n + 1
      /\ \A i \in 1 .. n : queue'[i] = queue[i] /\ queue[i] \in Callers /\ queue[i] # c
      /\ queue'[n + 1] = c
  <2>1. queue \in Seq(Callers)
    BY DEF IInv, TypeOK
  <2>2. \A i \in 1 .. n : queue[i] \in Callers /\ queue[i] # c
    BY <2>1, <1>0 DEF IInv, Line
  <2> QED  BY <2>1, <2>2
<1>2. /\ phase' \in [Callers -> Phases]
      /\ \A d \in Callers : phase'[d] = IF d = c THEN "queued" ELSE phase[d]
  BY DEF IInv, TypeOK, Phases
<1>3. /\ ahead' \in [Callers -> Nat]
      /\ \A d \in Callers : ahead'[d] = IF d = c THEN n + (IF Locked THEN 1 ELSE 0) ELSE ahead[d]
  BY <1>1 DEF IInv, TypeOK
<1>4. TypeOK' /\ Trusted'
  BY <1>0, <1>1, <1>2, <1>3 DEF IInv, TypeOK, Trusted
<1>5. (Locked' <=> Locked) /\ Rest' = Rest
  BY <1>0, <1>2 DEF Locked, Rest
<1>6. OneFetch' /\ HandedOutInTime'
  BY <1>2, <1>5 DEF IInv, OneFetch, HandedOutInTime
<1>7. Line'
  <2>1. \A i \in 1 .. n + 1 : i \in 1 .. n \/ i = n + 1
    BY <1>1
  <2>2. \A i \in 1 .. n + 1 : phase'[queue'[i]] = "queued"
    BY <1>1, <1>2, <2>1 DEF IInv, Line
  <2>3. \A i, j \in 1 .. n + 1 : queue'[i] = queue'[j] => i = j
    BY <1>1, <2>1 DEF IInv, Line
  <2>4. \A d \in Callers : phase'[d] = "queued" => \E i \in 1 .. n + 1 : queue'[i] = d
    BY <1>1, <1>2, 1 .. n \subseteq 1 .. n + 1, n + 1 \in 1 .. n + 1 DEF IInv, Line
  <2> QED  BY <1>1, <2>2, <2>3, <2>4 DEF Line
<1>8. Waits'
  <2>0. Rest \in 0 .. MaxFetch /\ (Locked \/ Rest = 0)
    BY LifetimesAssumption DEF IInv, TypeOK, OneFetch, Rest
  <2> SUFFICES ASSUME NEW d \in Callers
               PROVE  /\ phase'[d] = "fetching" => waited'[d] + Rest' <= Span(ahead'[d] + 1)
                      /\ \A i \in 1 .. Len(queue') :
                           queue'[i] = d => waited'[d] + Rest' + Span(i) <= Span(ahead'[d] + 1)
                      /\ phase'[d] \notin {"queued", "fetching"} => waited'[d] = 0
    BY DEF Waits, Span
  <2>1. CASE d # c
    BY <2>1, <1>0, <1>1, <1>2, <1>3, <1>5 DEF IInv, Waits
  <2>2. CASE d = c
    <3>1. waited[c] = 0 /\ ahead'[c] = n + (IF Locked THEN 1 ELSE 0)
      BY <1>0, <1>3 DEF IInv, Waits
    <3>2. Rest + Span(n + 1) <= Span(ahead'[c] + 1)
      <4>0. Span(n + 1) \in Nat /\ Span((n + 1) + 1) = Span(n + 1) + MaxFetch
        BY <1>1, Spans, n + 1 \in Nat
      <4>1. CASE Locked
        <5>1. ahead'[c] + 1 = (n + 1) + 1
          BY <4>1, <3>1, <1>1
        <5> QED  BY <5>1, <4>0, <2>0, LifetimesAssumption
      <4>2. CASE ~Locked
        <5>1. ahead'[c] + 1 = n + 1 /\ Rest = 0
          BY <4>2, <3>1, <2>0, <1>1
        <5> QED  BY <5>1, <4>0
      <4> QED  BY <4>1, <4>2
    <3>3. \A i \in 1 .. n + 1 : queue'[i] = c => i = n + 1
      BY <1>1
    <3>4. Span(n + 1) \in Nat /\ Span(ahead'[c] + 1) \in Nat
      <4>1. n + 1 \in Nat /\ ahead'[c] + 1 \in Nat
        BY <1>1, <1>3
      <4> QED  BY <4>1, Spans
    <3> QED  BY <2>2, <3>1, <3>2, <3>3, <3>4, <2>0, <1>0, <1>1, <1>2, <1>5
  <2> QED  BY <2>1, <2>2
<1> QED  BY <1>4, <1>6, <1>7, <1>8 DEF IInv

LEMMA GetKeeps == ASSUME IInv, NEW c \in Callers, Get(c) PROVE IInv'
BY GetServed, GetFetches, GetQueues DEF Get

-----------------------------------------------------------------------------
\* The lock is free and the first in line gets it.  Those behind move up.
LEMMA Moves ==
  ASSUME IInv, Turn
  PROVE  LET c == Head(queue)
             n == Len(queue)
         IN  /\ c \in Callers /\ n \in Nat \ {0} /\ c = queue[1]
             /\ queue' \in Seq(Callers) /\ Len(queue') = n - 1
             /\ \A i \in 1 .. n - 1 : queue'[i] = queue[i + 1] /\ queue[i + 1] # c
                                      /\ i + 1 \in 1 .. n /\ queue[i + 1] \in Callers
             /\ \A d \in Callers \ {c} : phase[d] = "queued" => \E i \in 1 .. n - 1 : queue'[i] = d
             /\ phase[c] = "queued"
<1> DEFINE c == Head(queue)
           n == Len(queue)
<1>1. /\ queue \in Seq(Callers) /\ queue # << >> /\ queue' = Tail(queue)
      /\ n \in Nat \ {0} /\ c \in Callers /\ c = queue[1]
  BY DEF IInv, TypeOK, Turn
<1>2. /\ queue' \in Seq(Callers) /\ Len(queue') = n - 1
      /\ \A i \in 1 .. n - 1 : queue'[i] = queue[i + 1] /\ i + 1 \in 1 .. n /\ i + 1 # 1
  BY <1>1
<1>3. \A i \in 1 .. n - 1 : queue[i + 1] # c /\ queue[i + 1] \in Callers
  BY <1>1, <1>2, 1 \in 1 .. n DEF IInv, Line
<1>4. ASSUME NEW d \in Callers \ {c}, phase[d] = "queued"
      PROVE  \E i \in 1 .. n - 1 : queue'[i] = d
  <2>1. PICK j \in 1 .. n : queue[j] = d
    BY <1>4 DEF IInv, Line
  <2>2. j # 1
    BY <2>1, <1>1
  <2>3. j - 1 \in 1 .. n - 1 /\ (j - 1) + 1 = j
    BY <2>2, <1>1
  <2> QED  BY <2>1, <2>3, <1>2
<1>5. phase[c] = "queued"
  BY <1>1, 1 \in 1 .. n DEF IInv, Line
<1> HIDE DEF c, n
<1>6. \A d \in Callers \ {c} : phase[d] = "queued" => \E i \in 1 .. n - 1 : queue'[i] = d
  BY <1>4
<1> USE DEF c, n
<1> QED  BY <1>1, <1>2, <1>3, <1>5, <1>6

LEMMA MovesInTime ==
  ASSUME IInv, Turn
  PROVE  /\ waited[Head(queue)] + MaxFetch <= Span(ahead[Head(queue)] + 1)
         /\ \A i \in 1 .. Len(queue) - 1 :
              waited[queue'[i]] + MaxFetch + Span(i) <= Span(ahead[queue'[i]] + 1)
<1>1. Rest = 0
  BY DEF Turn, Rest
<1>2. \A i \in 1 .. Len(queue) :
        queue[i] \in Callers /\ waited[queue[i]] + Span(i) <= Span(ahead[queue[i]] + 1)
  <2> SUFFICES ASSUME NEW i \in 1 .. Len(queue)
               PROVE  queue[i] \in Callers /\ waited[queue[i]] + Span(i) <= Span(ahead[queue[i]] + 1)
    OBVIOUS
  <2>1. queue[i] \in Callers
    BY DEF IInv, TypeOK
  <2>2. waited[queue[i]] + Rest + Span(i) <= Span(ahead[queue[i]] + 1)
    BY <2>1 DEF IInv, Waits
  <2>3. waited[queue[i]] \in Nat
    BY <2>1 DEF IInv, TypeOK
  <2> QED  BY <1>1, <2>1, <2>2, <2>3
<1>3. waited[Head(queue)] + MaxFetch <= Span(ahead[Head(queue)] + 1)
  BY <1>2, Moves, Spans, 1 \in 1 .. Len(queue)
<1>4. ASSUME NEW i \in 1 .. Len(queue) - 1
      PROVE  waited[queue'[i]] + MaxFetch + Span(i) <= Span(ahead[queue'[i]] + 1)
  <2>1. queue'[i] = queue[i + 1] /\ i + 1 \in 1 .. Len(queue) /\ i \in Nat
    BY Moves
  <2>2. Span(i + 1) = Span(i) + MaxFetch /\ Span(i) \in Nat /\ MaxFetch \in Nat
    BY <2>1, Spans, LifetimesAssumption
  <2>3. waited[queue'[i]] + Span(i + 1) <= Span(ahead[queue'[i]] + 1)
    BY <1>2, <2>1
  <2>4. waited[queue'[i]] \in Nat
    BY <1>2, <2>1 DEF IInv, TypeOK
  <2> QED  BY <2>2, <2>3, <2>4
<1> QED  BY <1>3, <1>4

\* What a turn does to the line, whatever becomes of the call.
LEMMA LineMoves ==
  ASSUME IInv, Turn, NEW where \in Phases \ {"queued"},
         phase' = [phase EXCEPT ![Head(queue)] = where]
  PROVE  Line'
<1> DEFINE c == Head(queue)
           n == Len(queue)
<1>1. \A d \in Callers : phase'[d] = IF d = c THEN where ELSE phase[d]
  BY DEF IInv, TypeOK
<1>2. \A i \in 1 .. n - 1 : phase'[queue'[i]] = "queued"
  BY <1>1, Moves DEF IInv, Line
<1>3. \A i, j \in 1 .. n - 1 : queue'[i] = queue'[j] => i = j
  <2> SUFFICES ASSUME NEW i \in 1 .. n - 1, NEW j \in 1 .. n - 1, queue'[i] = queue'[j]
               PROVE  i = j
    OBVIOUS
  <2>1. i + 1 \in 1 .. n /\ j + 1 \in 1 .. n /\ queue[i + 1] = queue[j + 1]
    BY Moves
  <2>2. i + 1 = j + 1
    BY <2>1 DEF IInv, Line
  <2> QED  BY <2>2
<1>4. \A d \in Callers : phase'[d] = "queued" => \E i \in 1 .. n - 1 : queue'[i] = d
  BY <1>1, Moves
<1> QED  BY <1>2, <1>3, <1>4, Moves DEF Line

LEMMA TurnServes ==
  ASSUME IInv, Turn, Usable, Serve(Head(queue), Cached(FALSE)), Answered(Head(queue)),
         UNCHANGED fetching
  PROVE  IInv'
<1> DEFINE c == Head(queue)
           n == Len(queue)
<1>0. c \in Callers /\ UNCHANGED <<left, fresh, life, short, calls>> /\ ~Locked
  BY Moves DEF Turn
<1>1. /\ HandedOutInTime'
      /\ phase' \in [Callers -> Phases]
      /\ served' \in [Callers -> [life : Nat, own : BOOLEAN, short : BOOLEAN]]
  BY <1>0, CachedInTime DEF Usable
<1>2. /\ waited' \in [Callers -> Nat] /\ ahead' \in [Callers -> Nat]
      /\ \A d \in Callers : /\ waited'[d] = IF d = c THEN 0 ELSE waited[d]
                            /\ ahead'[d] = IF d = c THEN 0 ELSE ahead[d]
  BY DEF IInv, TypeOK, Answered
<1>3. TypeOK' /\ Trusted'
  BY <1>0, <1>1, <1>2, Moves DEF IInv, TypeOK, Trusted
<1>4. \A d \in Callers : phase'[d] = IF d = c THEN "served" ELSE phase[d]
  BY DEF IInv, TypeOK, Serve
<1>5. ~Locked' /\ Rest' = 0 /\ OneFetch'
  BY <1>0, <1>4 DEF Locked, Rest, IInv, OneFetch
<1>6. Line'
  BY LineMoves, "served" \in Phases \ {"queued"} DEF Serve, Phases
<1>7. Waits'
  <2> SUFFICES ASSUME NEW d \in Callers
               PROVE  /\ phase'[d] # "fetching"
                      /\ \A i \in 1 .. n - 1 :
                           queue'[i] = d => waited'[d] + Span(i) <= Span(ahead'[d] + 1)
                      /\ phase'[d] \notin {"queued", "fetching"} => waited'[d] = 0
    <3>1. \A d \in Callers : waited'[d] \in Nat
      BY <1>2
    <3> QED  BY <3>1, <1>5, Moves DEF Waits, Span
  <2>1. phase'[d] # "fetching"
    BY <1>5 DEF Locked
  <2>2. phase'[d] \notin {"queued", "fetching"} => waited'[d] = 0
    BY <1>2, <1>4 DEF IInv, Waits
  <2>3. ASSUME NEW i \in 1 .. n - 1, queue'[i] = d
        PROVE  waited'[d] + Span(i) <= Span(ahead'[d] + 1)
    <3>1. waited[d] + MaxFetch + Span(i) <= Span(ahead[d] + 1) /\ d # c
      BY <2>3, MovesInTime, Moves
    <3>2. waited[d] \in Nat /\ MaxFetch \in Nat /\ Span(i) \in Nat /\ Span(ahead[d] + 1) \in Nat
      <4>1. i \in Nat
        BY Moves
      <4> QED  BY <4>1, Typed, Spans DEF IInv
    <3>3. waited'[d] = waited[d] /\ ahead'[d] = ahead[d]
      BY <3>1, <1>2
    <3> QED  BY <3>1, <3>2, <3>3
  <2> QED  BY <2>1, <2>2, <2>3
<1> QED  BY <1>1, <1>3, <1>5, <1>6, <1>7 DEF IInv

LEMMA TurnFetches ==
  ASSUME IInv, Turn, Fetches(Head(queue)), UNCHANGED <<waited, ahead>>
  PROVE  IInv'
<1> DEFINE c == Head(queue)
           n == Len(queue)
<1>0. c \in Callers /\ UNCHANGED <<left, fresh, life, short, calls>> /\ ~Locked
  BY Moves DEF Turn
<1>1. /\ HandedOutInTime'
      /\ phase' \in [Callers -> Phases]
      /\ fetching' \in 0 .. MaxFetch
      /\ served' = served
  BY <1>0, FetchesTypes
<1>2. TypeOK' /\ Trusted'
  <2>1. queue' \in Seq(Callers)
    BY Moves
  <2>2. fetching' \in -1 .. MaxFetch
    BY <1>1, LifetimesAssumption
  <2> QED  BY <1>0, <1>1, <2>1, <2>2 DEF IInv, TypeOK, Trusted
<1>3. \A d \in Callers : phase'[d] = IF d = c THEN "fetching" ELSE phase[d]
  BY DEF IInv, TypeOK, Fetches
<1>4. Locked' /\ fetching' = 0 /\ Rest' = MaxFetch
  BY <1>0, <1>3, LifetimesAssumption DEF Locked, Fetches, Rest
<1>5. OneFetch'
  BY <1>0, <1>3, <1>4 DEF OneFetch, Locked
<1>6. Line'
  BY LineMoves, "fetching" \in Phases \ {"queued"} DEF Fetches, Phases
<1>7. Waits'
  <2> SUFFICES ASSUME NEW d \in Callers
               PROVE  /\ phase'[d] = "fetching" => waited[d] + MaxFetch <= Span(ahead[d] + 1)
                      /\ \A i \in 1 .. n - 1 :
                           queue'[i] = d => waited[d] + MaxFetch + Span(i) <= Span(ahead[d] + 1)
                      /\ phase'[d] \notin {"queued", "fetching"} => waited[d] = 0
    BY <1>4, Moves DEF Waits, Span
  <2>1. phase'[d] = "fetching" => d = c
    BY <1>0, <1>3 DEF Locked
  <2>2. phase'[d] \notin {"queued", "fetching"} => waited[d] = 0
    BY <1>3 DEF IInv, Waits
  <2> QED  BY <2>1, <2>2, MovesInTime
<1> QED  BY <1>1, <1>2, <1>5, <1>6, <1>7 DEF IInv

LEMMA TurnKeeps == ASSUME IInv, Turn PROVE IInv'
BY TurnServes, TurnFetches DEF Turn

-----------------------------------------------------------------------------
\* The request to Keycloak ends: the lock is free, and its call has waited.
LEMMA EndsLine ==
  ASSUME IInv, NEW c \in Callers, NEW where \in {"served", "refused"}, phase[c] = "fetching",
         phase' = [phase EXCEPT ![c] = where], fetching' = -1, Answered(c), UNCHANGED queue
  PROVE  /\ OneFetch' /\ Line' /\ Waits'
         /\ phase' \in [Callers -> Phases]
         /\ waited' \in [Callers -> Nat] /\ ahead' \in [Callers -> Nat]
         /\ fetching' \in -1 .. MaxFetch
<1>1. /\ phase' \in [Callers -> Phases]
      /\ \A d \in Callers : phase'[d] = IF d = c THEN where ELSE phase[d]
  BY DEF IInv, TypeOK, Phases
<1>2. /\ waited' \in [Callers -> Nat] /\ ahead' \in [Callers -> Nat]
      /\ \A d \in Callers : /\ waited'[d] = IF d = c THEN 0 ELSE waited[d]
                            /\ ahead'[d] = IF d = c THEN 0 ELSE ahead[d]
  BY DEF IInv, TypeOK, Answered
<1>3. ~Locked' /\ Rest' = 0 /\ Rest \in Nat
  BY <1>1, LifetimesAssumption DEF IInv, TypeOK, OneFetch, Locked, Rest
<1>4. OneFetch'
  BY <1>3 DEF OneFetch, Locked
<1>5. Line'
  <2>1. \A i \in 1 .. Len(queue) : queue[i] \in Callers /\ queue[i] # c
    BY Typed DEF IInv, Line
  <2> QED  BY <2>1, <1>1 DEF IInv, Line
<1>6. Waits'
  <2> SUFFICES ASSUME NEW d \in Callers
               PROVE  /\ phase'[d] # "fetching"
                      /\ \A i \in 1 .. Len(queue) :
                           queue[i] = d => waited'[d] + Span(i) <= Span(ahead'[d] + 1)
                      /\ phase'[d] \notin {"queued", "fetching"} => waited'[d] = 0
    <3>1. \A d \in Callers : waited'[d] \in Nat
      BY <1>2
    <3> QED  BY <3>1, <1>3 DEF Waits, Span
  <2>1. phase'[d] # "fetching"
    BY <1>3 DEF Locked
  <2>2. phase'[d] \notin {"queued", "fetching"} => waited'[d] = 0
    BY <1>1, <1>2 DEF IInv, Waits
  <2>3. ASSUME NEW i \in 1 .. Len(queue), queue[i] = d
        PROVE  waited'[d] + Span(i) <= Span(ahead'[d] + 1)
    <3>1. waited[d] + Rest + Span(i) <= Span(ahead[d] + 1) /\ d # c
      BY <2>3 DEF IInv, Waits, Line
    <3>2. waited[d] \in Nat /\ Span(i) \in Nat /\ Span(ahead[d] + 1) \in Nat
      <4>1. i \in Nat
        OBVIOUS
      <4>2. ahead[d] \in Nat /\ waited[d] \in Nat
        BY DEF IInv, TypeOK
      <4>3. ahead[d] + 1 \in Nat
        BY <4>2
      <4> QED  BY <4>1, <4>2, <4>3, Spans
    <3> QED  BY <3>1, <3>2, <1>2, <1>3
  <2> QED  BY <2>1, <2>2, <2>3
<1> QED  BY <1>1, <1>2, <1>4, <1>5, <1>6, LifetimesAssumption

LEMMA FetchOkKeeps ==
  ASSUME IInv, NEW c \in Callers, NEW l \in Lifetimes, NEW age \in 0 .. MaxFetch, FetchOk(c, l, age)
  PROVE  IInv'
<1>1. /\ phase' = [phase EXCEPT ![c] = "served"] /\ phase[c] = "fetching" /\ fetching' = -1
      /\ served' = [served EXCEPT ![c] = [life |-> life', own |-> TRUE, short |-> short']]
      /\ UNCHANGED <<queue, calls>> /\ Answered(c)
      /\ left' = Lasts(Clamped(l), fetching) /\ fresh' = Lasts(RefreshAt[Clamped(l)], fetching)
      /\ life' = Less(l, age) /\ short' = (l < MinLifetime) /\ age <= fetching
  BY DEF FetchOk, Serve
<1>2. /\ OneFetch' /\ Line' /\ Waits'
      /\ phase' \in [Callers -> Phases]
      /\ waited' \in [Callers -> Nat] /\ ahead' \in [Callers -> Nat]
      /\ fetching' \in -1 .. MaxFetch
  BY <1>1, EndsLine
<1>3. fetching \in 0 .. MaxFetch
  BY <1>1 DEF IInv, TypeOK, OneFetch, Locked
<1>4. /\ l \in Nat /\ MinLifetime \in Nat /\ MaxLifetime \in Nat
      /\ Clamped(l) \in MinLifetime .. MaxLifetime /\ (l >= MinLifetime => Clamped(l) <= l)
      /\ RefreshAt[Clamped(l)] \in 0 .. Clamped(l)
  BY ClampedLifetime, LifetimesAssumption
<1>5. left' \in 0 .. MaxLifetime /\ fresh' \in 0 .. MaxLifetime /\ life' \in Nat
  BY <1>1, <1>3, <1>4 DEF Lasts, Less
<1>6. short' \in BOOLEAN
  BY <1>1
<1>7. Trusted'
  <2>1. CASE l < MinLifetime
    BY <2>1, <1>1 DEF Trusted
  <2>2. CASE l >= MinLifetime
    <3>1. /\ Clamped(l) \in Nat /\ Clamped(l) <= l
          /\ age \in Nat /\ fetching \in Nat /\ age <= fetching
      BY <2>2, <1>1, <1>3, <1>4, LifetimesAssumption
    <3>2. Less(Clamped(l), fetching) <= Less(l, age)
      BY <3>1, <1>4 DEF Less
    <3> QED  BY <3>2, <1>1 DEF Lasts, Trusted
  <2> QED  BY <2>1, <2>2, <1>4
<1>8. served' \in [Callers -> [life : Nat, own : BOOLEAN, short : BOOLEAN]]
  BY <1>1, <1>5, <1>6 DEF IInv, TypeOK
<1>9. HandedOutInTime'
  <2>1. \A d \in Callers : phase'[d] = IF d = c THEN "served" ELSE phase[d]
    BY <1>1 DEF IInv, TypeOK
  <2>2. /\ served'[c].own
        /\ \A d \in Callers \ {c} : served'[d] = served[d]
    BY <1>1 DEF IInv, TypeOK
  <2> QED  BY <2>1, <2>2 DEF IInv, HandedOutInTime
<1>10. TypeOK'
  BY <1>1, <1>2, <1>5, <1>6, <1>8 DEF IInv, TypeOK
<1> QED  BY <1>2, <1>7, <1>9, <1>10 DEF IInv

LEMMA FetchFailsKeeps ==
  ASSUME IInv, NEW c \in Callers, FetchFails(c)
  PROVE  IInv'
<1>1. /\ phase[c] = "fetching" /\ fetching' = -1 /\ Answered(c)
      /\ UNCHANGED <<left, fresh, life, short, queue, calls>>
  BY DEF FetchFails
<1>2. CASE Valid(left) /\ Serve(c, Cached(FALSE))
  <2>1. /\ HandedOutInTime'
        /\ served' \in [Callers -> [life : Nat, own : BOOLEAN, short : BOOLEAN]]
    BY <1>2, CachedInTime
  <2>2. /\ OneFetch' /\ Line' /\ Waits'
        /\ phase' \in [Callers -> Phases]
        /\ waited' \in [Callers -> Nat] /\ ahead' \in [Callers -> Nat]
        /\ fetching' \in -1 .. MaxFetch
    BY <1>1, <1>2, EndsLine DEF Serve
  <2> QED  BY <1>1, <2>1, <2>2 DEF IInv, TypeOK, Trusted
<1>3. CASE phase' = [phase EXCEPT ![c] = "refused"] /\ UNCHANGED served
  <2>1. /\ OneFetch' /\ Line' /\ Waits'
        /\ phase' \in [Callers -> Phases]
        /\ waited' \in [Callers -> Nat] /\ ahead' \in [Callers -> Nat]
        /\ fetching' \in -1 .. MaxFetch
    BY <1>1, <1>3, EndsLine
  <2>2. HandedOutInTime'
    BY <1>3 DEF IInv, TypeOK, HandedOutInTime
  <2> QED  BY <1>1, <1>3, <2>1, <2>2 DEF IInv, TypeOK, Trusted
<1> QED  BY <1>2, <1>3 DEF FetchFails

\* Time passes only while the request under way has time left.
LEMMA TickKeeps == ASSUME IInv, Tick PROVE IInv'
<1>1. /\ fetching < MaxFetch /\ (queue # << >> => Locked)
      /\ UNCHANGED <<short, phase, queue, ahead, served, calls>>
      /\ left' = Less(left, 1) /\ fresh' = Less(fresh, 1) /\ life' = Less(life, 1)
      /\ fetching' = IF Locked THEN fetching + 1 ELSE fetching
  BY DEF Tick
<1>2. /\ waited' \in [Callers -> Nat]
      /\ \A d \in Callers : waited'[d] = IF phase[d] \in {"queued", "fetching"} THEN waited[d] + 1
                                         ELSE waited[d]
  BY DEF IInv, TypeOK, Tick
<1>3. fetching' \in -1 .. MaxFetch
  BY <1>1, LifetimesAssumption DEF IInv, TypeOK
<1>4. /\ left' \in 0 .. MaxLifetime /\ fresh' \in 0 .. MaxLifetime /\ life' \in Nat
      /\ Trusted'
  BY <1>1, LifetimesAssumption DEF IInv, TypeOK, Trusted, Less
<1>5. TypeOK'
  BY <1>1, <1>2, <1>3, <1>4 DEF IInv, TypeOK
<1>6. /\ Locked' <=> Locked
      /\ Locked => Rest' = Rest - 1 /\ fetching \in 0 .. MaxFetch
  BY <1>1, LifetimesAssumption DEF IInv, TypeOK, OneFetch, Locked, Rest
<1>7. OneFetch' /\ Line' /\ HandedOutInTime'
  BY <1>1, <1>6 DEF IInv, TypeOK, OneFetch, Line, HandedOutInTime
<1>8. Waits'
  <2> SUFFICES ASSUME NEW d \in Callers
               PROVE  /\ phase[d] = "fetching" => waited'[d] + Rest' <= Span(ahead[d] + 1)
                      /\ \A i \in 1 .. Len(queue) :
                           queue[i] = d => waited'[d] + Rest' + Span(i) <= Span(ahead[d] + 1)
                      /\ phase[d] \notin {"queued", "fetching"} => waited'[d] = 0
    BY <1>1 DEF Waits, Span
  <2>0. waited[d] \in Nat /\ Rest \in Int /\ Span(ahead[d] + 1) \in Nat
    <3>1. waited[d] \in Nat /\ ahead[d] + 1 \in Nat /\ MaxFetch \in Int
      BY Typed DEF IInv
    <3>2. fetching \in Int
      BY <3>1 DEF IInv, TypeOK
    <3>3. Rest \in Int
      BY <3>1, <3>2 DEF Rest
    <3>4. Span(ahead[d] + 1) \in Nat
      BY <3>1, Spans
    <3> QED  BY <3>1, <3>3, <3>4
  <2>1. phase[d] = "fetching" => waited'[d] + Rest' <= Span(ahead[d] + 1)
    BY <2>0, <1>2, <1>6 DEF IInv, Waits, Locked
  <2>2. ASSUME NEW i \in 1 .. Len(queue), queue[i] = d
        PROVE  waited'[d] + Rest' + Span(i) <= Span(ahead[d] + 1)
    <3>1. Locked /\ phase[d] = "queued"
      <4>1. queue # << >>
        BY <2>2
      <4> QED  BY <4>1, <2>2, <1>1 DEF IInv, Line
    <3>2. waited[d] + Rest + Span(i) <= Span(ahead[d] + 1)
      BY <2>2 DEF IInv, Waits
    <3>3. Span(i) \in Nat
      BY Spans
    <3>4. waited'[d] = waited[d] + 1 /\ Rest' = Rest - 1
      BY <3>1, <1>2, <1>6
    <3> QED  BY <2>0, <3>2, <3>3, <3>4
  <2>3. phase[d] \notin {"queued", "fetching"} => waited'[d] = 0
    BY <1>2 DEF IInv, Waits
  <2> QED  BY <2>1, <2>2, <2>3
<1> QED  BY <1>4, <1>5, <1>7, <1>8 DEF IInv

-----------------------------------------------------------------------------
LEMMA NextIInv == IInv /\ [Next]_vars => IInv'
<1> SUFFICES ASSUME IInv, [Next]_vars PROVE IInv'
  OBVIOUS
<1>1. ASSUME NEW c \in Callers, Get(c) PROVE IInv'
  BY <1>1, GetKeeps
<1>2. ASSUME NEW c \in Callers, Ends(c) PROVE IInv'
  BY <1>2, FetchOkKeeps, FetchFailsKeeps DEF Ends
<1>3. CASE Turn
  BY <1>3, TurnKeeps
<1>4. CASE Tick
  BY <1>4, TickKeeps
<1>5. CASE UNCHANGED vars
  BY <1>5 DEF vars, IInv, TypeOK, Trusted, OneFetch, Line, Waits, HandedOutInTime, Locked, Rest, Span
<1> QED  BY <1>1, <1>2, <1>3, <1>4, <1>5 DEF Next

LEMMA Invariant == Spec => []IInv
BY InitIInv, NextIInv, PTL DEF Spec

(***************************************************************************)
(* The state keeps its types: what is left of a token never passes the     *)
(* longest lifetime, a request to Keycloak never its timeouts.             *)
(***************************************************************************)
THEOREM TypeCorrect == Spec => []TypeOK
<1>1. IInv => TypeOK
  BY DEF IInv
<1> QED  BY <1>1, Invariant, PTL

(***************************************************************************)
(* TokenSource.get hands out no token of another call in its last seconds, *)
(* for any lifetimes, clamps and refresh ratio.                            *)
(***************************************************************************)
THEOREM TokensAreHandedOutInTime == Spec => []HandedOutInTime
<1>1. IInv => HandedOutInTime
  BY DEF IInv
<1> QED  BY <1>1, Invariant, PTL

(***************************************************************************)
(* However many calls queue behind the lock, and however many refreshes    *)
(* fail, a call waits for those before it and its own only.                *)
(***************************************************************************)
THEOREM WaitsAreBounded == Spec => []WaitBounded
<1>1. IInv => WaitBounded
  <2> SUFFICES ASSUME IInv, NEW c \in Callers PROVE waited[c] <= Span(ahead[c] + 1)
    BY DEF WaitBounded, Span
  <2>0. /\ waited[c] \in Nat /\ Span(ahead[c] + 1) \in Nat /\ Rest \in Nat
        /\ phase[c] \in Phases
    <3>1. ahead[c] + 1 \in Nat
      BY DEF IInv, TypeOK
    <3>2. Rest \in Nat
      BY LifetimesAssumption DEF IInv, TypeOK, OneFetch, Rest
    <3> QED  BY <3>1, <3>2, Spans DEF IInv, TypeOK
  <2>1. CASE phase[c] = "fetching"
    BY <2>0, <2>1 DEF IInv, Waits
  <2>2. CASE phase[c] = "queued"
    <3>1. PICK i \in 1 .. Len(queue) : queue[i] = c
      BY <2>2 DEF IInv, Line
    <3>2. waited[c] + Rest + Span(i) <= Span(ahead[c] + 1)
      BY <3>1 DEF IInv, Waits
    <3>3. Span(i) \in Nat
      BY Spans
    <3> QED  BY <2>0, <3>2, <3>3
  <2>3. CASE phase[c] \notin {"queued", "fetching"}
    BY <2>0, <2>3 DEF IInv, Waits
  <2> QED  BY <2>1, <2>2, <2>3
<1> QED  BY <1>1, Invariant, PTL
=============================================================================
