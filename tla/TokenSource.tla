---------------------------- MODULE TokenSource ----------------------------
(***************************************************************************)
(* The upstream token of the token proxy                                   *)
(* (components/zuno-token-proxy/app/token.py) and the requests that wait   *)
(* for it (main.py: relay, readyz).                                        *)
(*                                                                         *)
(* One tick of the clock is the margin in which a token is no longer       *)
(* handed out.  The code keeps the instants at which the token expires and *)
(* is to be refreshed and compares them with its clock: the module keeps   *)
(* what is left until then.  `life` is what Keycloak would say is left,    *)
(* which the code does not know: the token was issued somewhere between    *)
(* the request and its answer, for a lifetime the code may have clamped.   *)
(***************************************************************************)
EXTENDS Integers, Sequences

CONSTANTS
  Callers,       \* requests being relayed, and probes of readyz
  Lifetimes,     \* what expires_in may say
  MinLifetime,   \* _MIN_LIFETIME_S, in ticks
  MaxLifetime,   \* _MAX_LIFETIME_S
  RefreshAt,     \* RefreshAt[l]: lifetime l * refresh_ratio
  MaxFetch,      \* the longest a request to Keycloak may take: its timeouts
  MaxCalls       \* bound: calls made in the life of the proxy

Margin == 1      \* _EXPIRY_MARGIN_S

Clamped(l) == IF l < MinLifetime THEN MinLifetime ELSE IF l > MaxLifetime THEN MaxLifetime ELSE l

ASSUME LifetimesAssumption ==
  /\ Lifetimes \subseteq Nat
  /\ MinLifetime \in Nat /\ MaxLifetime \in Nat /\ Margin <= MinLifetime
  /\ MinLifetime <= MaxLifetime
  /\ MaxFetch \in Nat /\ MaxCalls \in Nat
ASSUME RefreshAssumption ==
  /\ RefreshAt \in [MinLifetime .. MaxLifetime -> Nat]
  /\ \A l \in MinLifetime .. MaxLifetime : RefreshAt[l] <= l

VARIABLES
  left,      \* _expires_at - now; 0 once it has passed, or without a token
  fresh,     \* _refresh_at - now; 0 once it has passed
  life,      \* what is really left of the token
  short,     \* Keycloak gave it less than the minimum the code assumes
  phase,     \* where each call is
  queue,     \* the calls waiting for the lock, in order
  fetching,  \* how long the request to Keycloak has taken; -1 without one
  waited,    \* history: how long each call has waited
  ahead,     \* history: how many calls were before it when it came
  served,    \* history: the token each call got, as it was then
  calls      \* how many calls were made

vars == <<left, fresh, life, short, phase, queue, fetching, waited, ahead, served, calls>>

Phases == {"idle", "queued", "fetching", "served", "refused"}
NoToken == [life |-> 0, own |-> FALSE, short |-> FALSE]

TypeOK ==
  /\ left \in 0 .. MaxLifetime /\ fresh \in 0 .. MaxLifetime
  /\ life \in Nat
  /\ short \in BOOLEAN
  /\ phase \in [Callers -> Phases]
  /\ queue \in Seq(Callers)
  /\ fetching \in -1 .. MaxFetch
  /\ waited \in [Callers -> Nat]
  /\ ahead \in [Callers -> Nat]
  /\ served \in [Callers -> [life : Nat, own : BOOLEAN, short : BOOLEAN]]
  /\ calls \in 0 .. MaxCalls

Init ==
  /\ left = 0 /\ fresh = 0 /\ life = 0 /\ short = FALSE
  /\ phase = [c \in Callers |-> "idle"]
  /\ queue = << >>
  /\ fetching = -1
  /\ waited = [c \in Callers |-> 0]
  /\ ahead = [c \in Callers |-> 0]
  /\ served = [c \in Callers |-> NoToken]
  /\ calls = 0

-----------------------------------------------------------------------------
\* Mutant of Valid: the token is good until it expires.
ValidToTheEnd(l) == l > 0

Valid(l) == l > Margin

Usable == Valid(left) /\ fresh > 0

Locked == \E c \in Callers : phase[c] = "fetching"

Answered(c) ==
  /\ waited' = [waited EXCEPT ![c] = 0]
  /\ ahead' = [ahead EXCEPT ![c] = 0]

Serve(c, token) ==
  /\ phase' = [phase EXCEPT ![c] = "served"]
  /\ served' = [served EXCEPT ![c] = token]

Fetches(c) ==
  /\ phase' = [phase EXCEPT ![c] = "fetching"]
  /\ fetching' = 0
  /\ UNCHANGED served

Cached(own) == [life |-> life, own |-> own, short |-> short]

\* get(): a usable token is returned at once; a free lock is taken without
\* a wait, and the token, looked at again, is still not usable.
Get(c) ==
  /\ phase[c] \in {"idle", "served", "refused"} /\ calls < MaxCalls
  /\ calls' = calls + 1
  /\ \/ Usable /\ Serve(c, Cached(FALSE)) /\ UNCHANGED <<queue, fetching, ahead>>
     \/ ~Usable /\ ~Locked /\ queue = << >> /\ Fetches(c) /\ UNCHANGED <<queue, ahead>>
     \/ /\ ~Usable /\ (Locked \/ queue # << >>)
        /\ phase' = [phase EXCEPT ![c] = "queued"]
        /\ queue' = Append(queue, c)
        /\ ahead' = [ahead EXCEPT ![c] = Len(queue) + IF Locked THEN 1 ELSE 0]
        /\ UNCHANGED <<fetching, served>>
  /\ UNCHANGED <<left, fresh, life, short, waited>>

\* Mutant of Turn: the last in line gets the lock.
TurnLast ==
  /\ ~Locked /\ queue # << >>
  /\ queue' = SubSeq(queue, 1, Len(queue) - 1)
  /\ LET c == queue[Len(queue)]
     IN  IF Usable THEN Serve(c, Cached(FALSE)) /\ Answered(c) /\ UNCHANGED fetching
                   ELSE Fetches(c) /\ UNCHANGED <<waited, ahead>>
  /\ UNCHANGED <<left, fresh, life, short, calls>>

\* Mutant of Turn: a call that has waited leaves the refresh to the others.
TurnBack ==
  /\ ~Locked /\ queue # << >>
  /\ LET c == Head(queue)
     IN  IF Usable THEN Serve(c, Cached(FALSE)) /\ Answered(c) /\ queue' = Tail(queue)
                   ELSE queue' = Append(Tail(queue), c) /\ UNCHANGED <<phase, served, waited, ahead>>
  /\ UNCHANGED <<left, fresh, life, short, fetching, calls>>

\* The lock is free and the first in line gets it, and looks again.
Turn ==
  /\ ~Locked /\ queue # << >>
  /\ queue' = Tail(queue)
  /\ LET c == Head(queue)
     IN  IF Usable THEN Serve(c, Cached(FALSE)) /\ Answered(c) /\ UNCHANGED fetching
                   ELSE Fetches(c) /\ UNCHANGED <<waited, ahead>>
  /\ UNCHANGED <<left, fresh, life, short, calls>>

Less(n, m) == IF n > m THEN n - m ELSE 0

\* Mutant of Lasts: the lifetime counts from the answer.
LastsFromTheAnswer(l, took) == l

\* The lifetime counts from before the request.
Lasts(l, took) == Less(l, took)

\* Keycloak answers: the token was issued `age` ago.  It is returned as it is.
FetchOk(c, l, age) ==
  /\ phase[c] = "fetching" /\ age \in 0 .. fetching
  /\ left' = Lasts(Clamped(l), fetching)
  /\ fresh' = Lasts(RefreshAt[Clamped(l)], fetching)
  /\ life' = Less(l, age)
  /\ short' = (l < MinLifetime)
  /\ Serve(c, [life |-> life', own |-> TRUE, short |-> short'])
  /\ fetching' = -1
  /\ Answered(c)
  /\ UNCHANGED <<queue, calls>>

\* Every failure has the same outcome: the token in hand while it is valid,
\* a 503 otherwise.
FetchFails(c) ==
  /\ phase[c] = "fetching"
  /\ IF Valid(left) THEN Serve(c, Cached(FALSE))
                    ELSE phase' = [phase EXCEPT ![c] = "refused"] /\ UNCHANGED served
  /\ fetching' = -1
  /\ Answered(c)
  /\ UNCHANGED <<left, fresh, life, short, queue, calls>>

\* Time passes: nobody who may run is kept waiting for it, and a request to
\* Keycloak ends within MaxFetch (token_timeout_s bounds each of its phases).
Tick ==
  /\ fetching < MaxFetch
  /\ ~(queue # << >> /\ ~Locked)
  /\ left' = Less(left, 1) /\ fresh' = Less(fresh, 1) /\ life' = Less(life, 1)
  /\ fetching' = IF Locked THEN fetching + 1 ELSE fetching
  /\ waited' = [c \in Callers |->
                  IF phase[c] \in {"queued", "fetching"} THEN waited[c] + 1 ELSE waited[c]]
  /\ UNCHANGED <<short, phase, queue, ahead, served, calls>>

Ends(c) == FetchFails(c) \/ \E l \in Lifetimes, age \in 0 .. MaxFetch : FetchOk(c, l, age)

Next ==
  \/ \E c \in Callers : Get(c) \/ Ends(c)
  \/ Turn
  \/ Tick

Spec == Init /\ [][Next]_vars

\* The loop runs the call that gets the lock, and a request to Keycloak ends.
\* Nothing is assumed of its answers.
FairSpec == Spec /\ WF_vars(Turn) /\ \A c \in Callers : WF_vars(Ends(c))

-----------------------------------------------------------------------------
(***************************************************************************)
(* Properties.                                                             *)
(***************************************************************************)
\* A token is not handed out in its last seconds, whoever fetched it and
\* however long ago.  Two tokens are excepted: the one a call has fetched
\* itself, which it gets as it is, and one whose lifetime Keycloak set below
\* the minimum the code assumes.
HandedOutInTime ==
  \A c \in Callers :
    phase[c] = "served" =>
      served[c].own \/ served[c].short \/ served[c].life > Margin

\* A call waits no longer than the calls before it and its own request to
\* Keycloak may take, although each repeats a refresh that failed.
WaitBounded == \A c \in Callers : waited[c] <= (ahead[c] + 1) * MaxFetch

\* Every call gets an answer, whatever Keycloak does.
CallsEnd == \A c \in Callers : []<>(phase[c] \notin {"queued", "fetching"})

=============================================================================
