------------------------ MODULE MeteredCallsProofs ------------------------
(***************************************************************************)
(* For every set of calls, ceilings and sizes: no part of what the         *)
(* detector reports is sent, as long as a pattern is not longer than the   *)
(* overlap and one character; and a call that is over holds nothing.       *)
(***************************************************************************)
EXTENDS MeteredCalls, FiniteSetTheorems, TLAPS

\* The lengths and the match of a guard agree.
Fits(g) ==
  /\ g \in Guards
  /\ g.checked <= g.reply
  /\ g.match # NoMatch => /\ 1 <= g.match[1] /\ g.match[1] <= g.match[2]
                          /\ g.match[2] <= g.reply
                          /\ g.match[2] - g.match[1] < LongestMatch

\* No check has covered the match.
Ahead(g) == g.blind \/ g.match = NoMatch \/ g.checked < g.match[2]

\* A guard that is still at work.
Guarded(g) == Fits(g) /\ Ahead(g) /\ g.sent <= Safe(g)

\* A match no check has covered begins after all that is safe to send.
LEMMA MatchIsNotSafe ==
  ASSUME NEW g, Fits(g), g.match # NoMatch, g.checked < g.match[2]
  PROVE  Safe(g) < g.match[1] /\ WindowStart(g) < g.match[1]
<1>1. /\ g.checked \in Nat /\ g.match[1] \in Nat /\ g.match[2] \in Nat
      /\ 1 <= g.match[1] /\ g.match[2] - g.match[1] < LongestMatch
  BY DEF Fits, Guards
<1> QED  BY <1>1, GuardAssumption DEF Safe, WindowStart

LEMMA GuardedIsUnsent ==
  ASSUME NEW g, Guarded(g), ~g.blind
  PROVE  Unsent(g)
<1>1. CASE g.match = NoMatch
  BY <1>1 DEF Unsent
<1>2. CASE g.match # NoMatch
  <2>1. Safe(g) < g.match[1] /\ g.sent <= Safe(g)
    BY <1>2, MatchIsNotSafe DEF Guarded, Ahead
  <2>2. g.sent \in Nat /\ g.match[1] \in Nat /\ Safe(g) \in Int
    BY GuardAssumption DEF Guarded, Fits, Guards, Safe
  <2> QED  BY <2>1, <2>2 DEF Unsent
<1> QED  BY <1>1, <1>2

\* An event keeps the guard, whatever match it completes.
LEMMA ReceivedKeeps ==
  ASSUME NEW g, Guarded(g), NEW k \in Nat, NEW m \in MatchesIn(g, k)
  PROVE  Guarded(Received(g, k, m)) /\ Received(g, k, m).blind = g.blind
<1>1. PICK h : h = Received(g, k, m)
  OBVIOUS
<1>2. /\ g \in Guards /\ g.reply \in Nat /\ g.checked \in Nat /\ g.held \in Seq(Nat)
      /\ g.checked <= g.reply
  BY DEF Guarded, Fits, Guards
<1>3. /\ h.reply = g.reply + k /\ h.checked = g.checked /\ h.sent = g.sent
      /\ h.blind = g.blind /\ h.held = Append(g.held, g.reply + k)
      /\ h.match = IF g.match = NoMatch THEN m ELSE g.match
  BY <1>1, <1>2 DEF Received, Guards
<1>4. m \in Nat \X Nat
  BY <1>2 DEF MatchesIn, NoMatch
<1>5. h.held \in Seq(Nat)
  BY <1>2, <1>3
<1>6. h \in Guards
  <2>1. ASSUME NEW r \in Nat, NEW q \in Seq(Nat), NEW x \in Nat \X Nat
        PROVE  [g EXCEPT !.reply = r, !.held = q, !.match = x] \in Guards
    BY <1>2 DEF Guards
  <2>2. PICK r \in Nat, q \in Seq(Nat), x \in Nat \X Nat :
          r = g.reply + k /\ q = Append(g.held, g.reply + k)
          /\ x = IF g.match = NoMatch THEN m ELSE g.match
    <3>1. g.match \in Nat \X Nat
      BY <1>2 DEF Guards
    <3>2. (IF g.match = NoMatch THEN m ELSE g.match) \in Nat \X Nat
      BY <3>1, <1>4, Zenon
    <3>3. Append(g.held, g.reply + k) \in Seq(Nat) /\ g.reply + k \in Nat
      BY <1>2
    <3> QED  BY <3>2, <3>3, Zenon
  <2>3. h = [g EXCEPT !.reply = r, !.held = q, !.match = x]
    BY <1>1, <1>2, <2>2 DEF Received, Guards
  <2> QED  BY <2>1, <2>3
<1>7. m # NoMatch => /\ 1 <= m[1] /\ m[1] <= m[2] /\ m[2] <= g.reply + k
                     /\ m[2] - m[1] < LongestMatch /\ g.checked < m[2]
  BY <1>2 DEF MatchesIn
<1>8. Fits(h) /\ Ahead(h)
  <2>1. CASE g.match = NoMatch
    BY <2>1, <1>2, <1>3, <1>6, <1>7 DEF Fits, Ahead
  <2>2. CASE g.match # NoMatch
    <3>1. g.match \in Nat \X Nat /\ Fits(g) /\ Ahead(g)
      BY DEF Guarded, Fits, Guards
    <3> QED  BY <2>2, <3>1, <1>2, <1>3, <1>6 DEF Fits, Ahead
  <2> QED  BY <2>1, <2>2
<1>9. h.sent <= Safe(h)
  BY <1>3 DEF Guarded, Safe
<1> QED  BY <1>1, <1>3, <1>8, <1>9 DEF Guarded

\* A check that lets the reply pass keeps the guard; if it saw the text there
\* is no match in it.
LEMMA CheckedKeeps ==
  ASSUME NEW g, Guarded(g), NEW seen \in BOOLEAN, seen => ~Detected(g)
  PROVE  /\ Guarded(Checked(g, seen))
         /\ Checked(g, seen).blind = (g.blind \/ ~seen)
         /\ Checked(g, seen).match = g.match
         /\ seen /\ ~g.blind => g.match = NoMatch
<1>1. PICK h : h = Checked(g, seen)
  OBVIOUS
<1>2. /\ g \in Guards /\ g.reply \in Nat /\ g.checked \in Nat /\ g.sent \in Nat
      /\ g.checked <= g.reply /\ g.blind \in BOOLEAN
  BY DEF Guarded, Fits, Guards
<1>3. /\ h.reply = g.reply /\ h.checked = g.reply /\ h.sent = g.sent
      /\ h.held = g.held /\ h.match = g.match /\ h.blind = (g.blind \/ ~seen)
  BY <1>1, <1>2 DEF Checked, Guards
<1>4. h \in Guards
  <2>1. (g.blind \/ ~seen) \in BOOLEAN
    OBVIOUS
  <2> QED  BY <1>1, <1>2, <2>1 DEF Checked, Guards
<1>5. ASSUME seen, ~g.blind PROVE g.match = NoMatch
  BY <1>5, MatchIsNotSafe DEF Guarded, Ahead, Detected
<1>6. Fits(h)
  BY <1>2, <1>3, <1>4 DEF Guarded, Fits
<1>7. Ahead(h)
  BY <1>3, <1>5 DEF Ahead
<1>8. h.sent <= Safe(h)
  <2>1. g.sent <= Safe(g)
    BY DEF Guarded
  <2> QED  BY <1>2, <1>3, <2>1, GuardAssumption DEF Safe
<1> QED  BY <1>1, <1>3, <1>5, <1>6, <1>7, <1>8 DEF Guarded

\* Letting safe events go, or all of them, changes only what is held and sent.
LEMMA ReleasedTyped ==
  ASSUME NEW g \in Guards, NEW n \in 0 .. Len(g.held)
  PROVE  /\ Released(g, n) \in Guards
         /\ Released(g, n).sent = IF n = 0 THEN g.sent ELSE g.held[n]
         /\ Released(g, n).reply = g.reply /\ Released(g, n).checked = g.checked
         /\ Released(g, n).match = g.match /\ Released(g, n).blind = g.blind
<1>1. g.held \in Seq(Nat) /\ Len(g.held) \in Nat /\ g.sent \in Nat
  BY DEF Guards
<1>2. SubSeq(g.held, n + 1, Len(g.held)) \in Seq(Nat)
  BY <1>1
<1>3. (IF n = 0 THEN g.sent ELSE g.held[n]) \in Nat
  BY <1>1
<1> QED  BY <1>2, <1>3 DEF Released, Guards

LEMMA ReleasedKeeps ==
  ASSUME NEW g, Guarded(g), NEW n \in Passing(g)
  PROVE  Guarded(Released(g, n)) /\ Released(g, n).blind = g.blind
<1>1. g \in Guards /\ n \in 0 .. Len(g.held) /\ Len(g.held) \in Nat
  BY DEF Guarded, Fits, Guards, Passing
<1>2. PICK h : h = Released(g, n)
  OBVIOUS
<1>3. /\ h \in Guards /\ h.sent = (IF n = 0 THEN g.sent ELSE g.held[n])
      /\ h.reply = g.reply /\ h.checked = g.checked /\ h.match = g.match /\ h.blind = g.blind
  BY <1>1, <1>2, ReleasedTyped
<1>4. n # 0 => g.held[n] <= Safe(g)
  BY <1>1 DEF Passing
<1>5. h.sent <= Safe(h)
  BY <1>3, <1>4 DEF Guarded, Safe
<1> QED  BY <1>2, <1>3, <1>5 DEF Guarded, Fits, Ahead

-----------------------------------------------------------------------------
\* The counters keep their type.
CountersTyped ==
  consumed \in Counters /\ reserved \in Counters /\ streams \in [Personas -> Nat]

LEMMA ReserveTyped ==
  ASSUME CountersTyped, NEW r \in Reservations, Reserve(r)
  PROVE  CountersTyped'
<1>1. r.tokens \in Nat /\ r.persona \in Personas
  BY DEF Reservations
<1>2. reserved' \in Counters
  <2>1. \A k \in DOMAIN reserved : reserved[k] \in Nat /\ reserved[k] + r.tokens \in Nat
    BY <1>1 DEF CountersTyped, Counters
  <2> QED  BY <2>1 DEF CountersTyped, Counters, Reserve
<1>3. streams' \in [Personas -> Nat]
  BY <1>1 DEF CountersTyped, Reserve
<1> QED  BY <1>2, <1>3 DEF CountersTyped, Reserve

LEMMA SettleTyped ==
  ASSUME CountersTyped, NEW r \in Reservations, NEW tokens \in Nat, Settle(r, tokens)
  PROVE  CountersTyped'
<1>1. CASE r.settled
  BY <1>1 DEF Settle, CountersTyped
<1>2. CASE ~r.settled
  <2>1. Release(r, tokens)
    BY <1>2 DEF Settle
  <2>2. r.tokens \in Nat /\ r.persona \in Personas
    BY DEF Reservations
  <2>3. \A i, j \in Nat : Less(i, j) \in Nat
    BY DEF Less
  <2>4. reserved' \in Counters
    <3>1. \A k \in DOMAIN reserved : reserved[k] \in Nat /\ Less(reserved[k], r.tokens) \in Nat
      BY <2>2, <2>3 DEF CountersTyped, Counters
    <3> QED  BY <2>1, <3>1 DEF CountersTyped, Counters, Release
  <2>5. consumed' \in Counters
    <3>1. \A k \in DOMAIN consumed : consumed[k] \in Nat /\ consumed[k] + tokens \in Nat
      BY DEF CountersTyped, Counters
    <3> QED  BY <2>1, <3>1 DEF CountersTyped, Counters, Release
  <2>6. streams' \in [Personas -> Nat]
    <3>1. Less(streams[r.persona], 1) \in Nat
      BY <2>2, <2>3 DEF CountersTyped
    <3> QED  BY <2>1, <2>2, <3>1 DEF CountersTyped, Release
  <2> QED  BY <2>4, <2>5, <2>6 DEF CountersTyped
<1> QED  BY <1>1, <1>2

-----------------------------------------------------------------------------
\* The guards of a state: at work until the call is over, and then either
\* blind or with nothing of a match sent.
GuardsHold ==
  \A c \in Calls :
    /\ phase[c] # "done" => Guarded(guard[c])
    /\ phase[c] = "done" => guard[c].blind \/ Unsent(guard[c])
    /\ c \in FailClosed => ~guard[c].blind

\* Where a call is says whether it was settled, and text whether it was metered.
Settled ==
  \A c \in Calls :
    /\ phase[c] \in {"idle", "judging", "tail", "done"} => hold[c].settled
    /\ phase[c] \in {"judging", "tail"} => used[c] >= 0
    /\ guard[c].reply > 0 =>
         phase[c] \in {"streaming", "checking", "closing"} \/ used[c] >= 0

IInv == TypeOK /\ GuardsHold /\ Settled

LEMMA TypeOKParts ==
  ASSUME TypeOK
  PROVE  CountersTyped
  BY DEF TypeOK, CountersTyped

LEMMA NewGuardHolds == Guarded(NewGuard) /\ ~NewGuard.blind /\ NewGuard.reply = 0
<1>1. NewGuard \in Guards
  BY DEF NewGuard, Guards, NoMatch
<1> QED  BY <1>1, GuardAssumption DEF Guarded, Fits, Ahead, NewGuard, Safe

LEMMA InitIInv == Init => IInv
<1> SUFFICES ASSUME Init PROVE IInv
  OBVIOUS
<1>1. \A c \in Calls : Unheld(c) \in Reservations /\ Unheld(c).settled
  BY CallsAssumption, CeilingAssumption DEF Init, Unheld, Reservations
<1>2. consumed \in Counters /\ reserved \in Counters /\ streams \in [Personas -> Nat]
  BY DEF Init, CeilingsInit, Counters
<1>3. guard \in [Calls -> Guards]
  BY NewGuardHolds DEF Init, Guarded, Fits
<1>4. /\ phase \in [Calls -> Phases] /\ hold \in [Calls -> Reservations]
      /\ used \in [Calls -> Usages \cup {-1}]
      /\ ledger \in [{"group", "project", "user"} \X Windows -> Nat]
      /\ now \in Windows
  BY <1>1, CeilingAssumption DEF Init, Phases
<1>5. whole \in [Calls -> BOOLEAN]
  BY DEF Init
<1>6. TypeOK
  BY <1>2, <1>3, <1>4, <1>5 DEF TypeOK
<1>7. GuardsHold
  BY NewGuardHolds DEF Init, GuardsHold
<1>8. Settled
  BY <1>1, NewGuardHolds DEF Init, Settled
<1> QED  BY <1>6, <1>7, <1>8 DEF IInv

-----------------------------------------------------------------------------
\* A call that gives up or passes on without touching its guard keeps it.
LEMMA GuardsKept ==
  ASSUME IInv, UNCHANGED guard, NEW c \in Calls, phase[c] # "done",
         NEW f \in Phases, phase' = [phase EXCEPT ![c] = f]
  PROVE  GuardsHold'
<1>1. ASSUME NEW d \in Calls
      PROVE  /\ phase'[d] # "done" => Guarded(guard'[d])
             /\ phase'[d] = "done" => guard'[d].blind \/ Unsent(guard'[d])
             /\ d \in FailClosed => ~guard'[d].blind
  <2>1. guard'[d] = guard[d] /\ (d # c => phase'[d] = phase[d])
    BY DEF IInv, TypeOK
  <2>2. phase[c] # "done" /\ GuardsHold
    BY DEF IInv
  <2>3. CASE d # c
    BY <2>1, <2>2, <2>3 DEF GuardsHold
  <2>4. CASE d = c
    <3>1. Guarded(guard[c]) /\ (c \in FailClosed => ~guard[c].blind)
      BY <2>2 DEF GuardsHold
    <3>2. guard[c].blind \/ Unsent(guard[c])
      BY <3>1, GuardedIsUnsent
    <3> QED  BY <2>1, <2>4, <3>1, <3>2
  <2> QED  BY <2>3, <2>4
<1> QED  BY <1>1 DEF GuardsHold

\* Nothing of a call but its place changes.
LEMMA MoveKeepsIInv ==
  ASSUME IInv, NEW c \in Calls, NEW f \in Phases, phase' = [phase EXCEPT ![c] = f],
         whole' \in [Calls -> BOOLEAN],
         UNCHANGED <<ceilings, hold, used, guard, ledger, now>>,
         phase[c] # "done",
         f \in {"idle", "judging", "tail", "done"} => hold[c].settled,
         f \in {"judging", "tail"} => used[c] >= 0,
         guard[c].reply > 0 => f \in {"streaming", "checking", "closing"} \/ used[c] >= 0
  PROVE  IInv'
<1>1. TypeOK'
  BY DEF IInv, TypeOK, ceilings
<1>2. GuardsHold'
  BY GuardsKept
<1>3. Settled'
  BY DEF IInv, TypeOK, Settled
<1> QED  BY <1>1, <1>2, <1>3 DEF IInv

\* A call that gives up settles for nothing.
LEMMA GiveUpKeepsIInv ==
  ASSUME IInv, NEW c \in Calls, GiveUp(c), phase[c] \in {"scanning", "sending", "judging"}
  PROVE  IInv'
<1>1. hold[c] \in Reservations /\ CountersTyped
  BY TypeOKParts DEF IInv, TypeOK
<1>2. CountersTyped'
  BY <1>1, SettleTyped DEF GiveUp
<1>3. [hold[c] EXCEPT !.settled = TRUE] \in Reservations
  BY <1>1 DEF Reservations
<1>4. hold' \in [Calls -> Reservations] /\ phase' \in [Calls -> Phases]
  <2>1. hold' = [hold EXCEPT ![c] = [hold[c] EXCEPT !.settled = TRUE]]
    BY DEF GiveUp, IInv, TypeOK
  <2> QED  BY <1>3, <2>1 DEF IInv, TypeOK, GiveUp, Phases
<1>5. TypeOK'
  BY <1>2, <1>4 DEF IInv, TypeOK, GiveUp, CountersTyped
<1>6. GuardsHold'
  BY GuardsKept DEF GiveUp, Phases
<1>7. Settled'
  <2>1. ASSUME NEW d \in Calls
        PROVE  /\ phase'[d] \in {"idle", "judging", "tail", "done"} => hold'[d].settled
               /\ phase'[d] \in {"judging", "tail"} => used'[d] >= 0
               /\ guard'[d].reply > 0 =>
                    phase'[d] \in {"streaming", "checking", "closing"} \/ used'[d] >= 0
    <3>1. CASE d = c
      <4>1. hold'[c].settled /\ phase'[c] = "done"
        BY <1>1 DEF GiveUp, IInv, TypeOK, Reservations
      <4> QED  BY <3>1, <4>1 DEF GiveUp, IInv, Settled
    <3>2. CASE d # c
      BY <3>2 DEF GiveUp, IInv, TypeOK, Settled
    <3> QED  BY <3>1, <3>2
  <2> QED  BY <2>1 DEF Settled
<1> QED  BY <1>5, <1>6, <1>7 DEF IInv

\* An admitted call holds its reservation, or none if it is exempt.
LEMMA AdmitKeepsIInv ==
  ASSUME IInv, NEW c \in Calls, NEW estimate \in Estimates, Admit(c, estimate)
  PROVE  IInv'
<1>1. PICK r : r = Wanted(c, estimate)
  OBVIOUS
<1>2. r \in Reservations
  BY <1>1, CallsAssumption DEF Wanted, Reservations, IInv, TypeOK
<1>3. Reserve(r) /\ hold' = [hold EXCEPT ![c] = r]
  BY <1>1 DEF Admit
<1>4. CountersTyped'
  BY <1>2, <1>3, TypeOKParts, ReserveTyped DEF IInv
<1>5. PICK f \in {"scanning", "sending"} : phase' = [phase EXCEPT ![c] = f]
  BY DEF Admit, AfterAdmission
<1>6. hold' \in [Calls -> Reservations] /\ phase' \in [Calls -> Phases]
  BY <1>2, <1>3, <1>5 DEF IInv, TypeOK, Phases
<1>7. TypeOK'
  BY <1>4, <1>6 DEF IInv, TypeOK, Admit, CountersTyped
<1>8. GuardsHold'
  BY <1>5, GuardsKept DEF Admit, Phases
<1>9. Settled'
  BY <1>3, <1>5 DEF Admit, IInv, TypeOK, Settled
<1> QED  BY <1>7, <1>8, <1>9 DEF IInv

\* A metered call is settled and has its usage.
LEMMA MeterKeepsIInv ==
  ASSUME IInv, NEW c \in Calls, NEW tokens \in Usages, Meter(c, tokens),
         NEW f \in Phases, phase' = [phase EXCEPT ![c] = f], phase[c] # "done",
         UNCHANGED <<guard, whole, now>>
  PROVE  IInv'
<1>0. tokens \in Nat
  BY CallsAssumption
<1>1. hold[c] \in Reservations /\ CountersTyped
  BY TypeOKParts DEF IInv, TypeOK
<1>2. CountersTyped'
  BY <1>0, <1>1, SettleTyped DEF Meter
<1>3. hold' = [hold EXCEPT ![c] = [hold[c] EXCEPT !.settled = TRUE]]
  BY DEF Meter, IInv, TypeOK
<1>4. [hold[c] EXCEPT !.settled = TRUE] \in Reservations
  BY <1>1 DEF Reservations
<1>5. /\ hold' \in [Calls -> Reservations] /\ phase' \in [Calls -> Phases]
      /\ used' \in [Calls -> Usages \cup {-1}]
  BY <1>3, <1>4 DEF IInv, TypeOK, Meter
<1>6. ledger' \in [{"group", "project", "user"} \X Windows -> Nat]
  <2>1. \A k \in DOMAIN ledger : ledger[k] \in Nat /\ ledger[k] + tokens \in Nat
    BY <1>0 DEF IInv, TypeOK
  <2>2. DOMAIN ledger = {"group", "project", "user"} \X Windows
    BY DEF IInv, TypeOK
  <2> QED  BY <2>1, <2>2 DEF Meter, Consume
<1>7. TypeOK'
  BY <1>2, <1>5, <1>6 DEF IInv, TypeOK, CountersTyped
<1>8. GuardsHold'
  BY GuardsKept
<1>9. Settled'
  <2>1. ASSUME NEW d \in Calls
        PROVE  /\ phase'[d] \in {"idle", "judging", "tail", "done"} => hold'[d].settled
               /\ phase'[d] \in {"judging", "tail"} => used'[d] >= 0
               /\ guard'[d].reply > 0 =>
                    phase'[d] \in {"streaming", "checking", "closing"} \/ used'[d] >= 0
    <3>1. CASE d = c
      <4>1. hold'[c].settled /\ used'[c] >= 0
        BY <1>0, <1>1, <1>3 DEF Meter, IInv, TypeOK, Reservations
      <4> QED  BY <3>1, <4>1
    <3>2. CASE d # c
      BY <3>2, <1>3 DEF Meter, IInv, TypeOK, Settled
    <3> QED  BY <3>1, <3>2
  <2> QED  BY <2>1 DEF Settled
<1> QED  BY <1>7, <1>8, <1>9 DEF IInv

-----------------------------------------------------------------------------
\* A step of the guard of c that leaves its stream open.
LEMMA GuardStepKeepsIInv ==
  ASSUME IInv, NEW c \in Calls, phase[c] \in {"streaming", "checking"},
         NEW f \in {"streaming", "checking"}, phase' = [phase EXCEPT ![c] = f],
         NEW g, Guarded(g), c \in FailClosed => ~g.blind,
         guard' = [guard EXCEPT ![c] = g],
         UNCHANGED <<ceilings, hold, used, whole, ledger, now>>
  PROVE  IInv'
<1>1. g \in Guards
  BY DEF Guarded, Fits
<1>2. TypeOK'
  BY <1>1 DEF IInv, TypeOK, ceilings, Phases
<1>3. GuardsHold'
  BY DEF IInv, TypeOK, GuardsHold
<1>4. Settled'
  BY DEF IInv, TypeOK, Settled
<1> QED  BY <1>2, <1>3, <1>4 DEF IInv

LEMMA EventKeepsIInv ==
  ASSUME IInv, NEW c \in Calls, NEW k \in EventSizes, Event(c, k)
  PROVE  IInv'
<1>1. PICK m \in MatchesIn(guard[c], k) :
        LET g == Received(guard[c], k, m)
        IN  IF CheckDue(g)
            THEN /\ guard' = [guard EXCEPT ![c] = g]
                 /\ phase' = [phase EXCEPT ![c] = "checking"]
            ELSE /\ \E n \in Passing(g) : guard' = [guard EXCEPT ![c] = Released(g, n)]
                 /\ UNCHANGED phase
  BY DEF Event
<1>2. PICK g : g = Received(guard[c], k, m)
  OBVIOUS
<1>3. k \in Nat /\ Guarded(guard[c]) /\ (c \in FailClosed => ~guard[c].blind)
  BY CallsAssumption DEF Event, IInv, GuardsHold
<1>4. Guarded(g) /\ g.blind = guard[c].blind
  BY <1>2, <1>3, ReceivedKeeps
<1>5. /\ phase[c] = "streaming"
      /\ UNCHANGED <<ceilings, hold, used, whole, ledger, now>>
  BY DEF Event
<1>6. CASE CheckDue(g)
  BY <1>1, <1>2, <1>3, <1>4, <1>5, <1>6, GuardStepKeepsIInv
<1>7. CASE ~CheckDue(g)
  <2>1. PICK n \in Passing(g) : guard' = [guard EXCEPT ![c] = Released(g, n)]
    BY <1>1, <1>2, <1>7
  <2>2. Guarded(Released(g, n)) /\ Released(g, n).blind = guard[c].blind
    BY <1>4, ReleasedKeeps
  <2>3. phase' = [phase EXCEPT ![c] = "streaming"]
    BY <1>1, <1>2, <1>5, <1>7 DEF IInv, TypeOK
  <2> QED  BY <1>3, <1>5, <2>1, <2>2, <2>3, GuardStepKeepsIInv
<1> QED  BY <1>6, <1>7

LEMMA SegmentKeepsIInv ==
  ASSUME IInv, NEW c \in Calls, NEW seen \in BOOLEAN, SegmentPasses(c, seen)
  PROVE  IInv'
<1>1. PICK g : g = Checked(guard[c], seen)
  OBVIOUS
<1>2. PICK n \in Passing(g) : guard' = [guard EXCEPT ![c] = Released(g, n)]
  BY <1>1 DEF SegmentPasses
<1>3. Guarded(guard[c]) /\ (c \in FailClosed => ~guard[c].blind)
  BY DEF SegmentPasses, IInv, GuardsHold
<1>4. (seen => ~Detected(guard[c])) /\ (~seen => c \notin FailClosed)
  BY DEF SegmentPasses, Passes
<1>5. Guarded(g) /\ g.blind = (guard[c].blind \/ ~seen)
  BY <1>1, <1>3, <1>4, CheckedKeeps
<1>6. Guarded(Released(g, n)) /\ Released(g, n).blind = g.blind
  BY <1>5, ReleasedKeeps
<1>7. c \in FailClosed => ~Released(g, n).blind
  BY <1>3, <1>4, <1>5, <1>6
<1>8. /\ phase[c] = "checking" /\ phase' = [phase EXCEPT ![c] = "streaming"]
      /\ UNCHANGED <<ceilings, hold, used, whole, ledger, now>>
  BY DEF SegmentPasses
<1> QED  BY <1>2, <1>6, <1>7, <1>8, GuardStepKeepsIInv

\* The tail goes out after its check: if it was seen there is no match.
LEMMA TailKeepsIInv ==
  ASSUME IInv, NEW c \in Calls, NEW seen \in BOOLEAN, TailPasses(c, seen)
  PROVE  IInv'
<1>1. PICK g : g = Checked(guard[c], seen)
  OBVIOUS
<1>2. PICK h : h = ReleasedAll(g)
  OBVIOUS
<1>3. /\ phase[c] = "tail" /\ phase' = [phase EXCEPT ![c] = "done"]
      /\ guard' = [guard EXCEPT ![c] = h]
      /\ UNCHANGED <<ceilings, hold, used, whole, ledger, now>>
  BY <1>1, <1>2 DEF TailPasses, IInv, TypeOK
<1>4. Guarded(guard[c]) /\ (c \in FailClosed => ~guard[c].blind)
  BY <1>3 DEF IInv, GuardsHold
<1>5. /\ g \in Guards /\ g.blind = (guard[c].blind \/ ~seen) /\ g.match = guard[c].match
      /\ g.held = guard[c].held
  <2>1. guard[c] \in Guards /\ (guard[c].blind \/ ~seen) \in BOOLEAN
    BY <1>4 DEF Guarded, Fits
  <2> QED  BY <1>1, <2>1 DEF Checked, Guards
<1>6. /\ ~seen => c \notin FailClosed
      /\ seen /\ ~guard[c].blind => guard[c].match = NoMatch
  <2>1. CASE TailUnchecked(c)
    <3>1. (seen => ~Detected(guard[c])) /\ (~seen => c \notin FailClosed)
      BY <2>1 DEF TailPasses, Passes
    <3> QED  BY <1>4, <3>1, CheckedKeeps
  <2>2. CASE ~TailUnchecked(c)
    <3>1. seen
      BY <2>2 DEF TailPasses
    <3>2. /\ guard[c].reply \in Nat /\ guard[c].checked \in Nat
          /\ guard[c].reply <= guard[c].checked
      BY <1>4, <2>2 DEF TailUnchecked, Guarded, Fits, Guards
    <3>3. guard[c].match[2] \in Nat
      BY <1>4 DEF Guarded, Fits, Guards
    <3>4. ~guard[c].blind => guard[c].match = NoMatch
      BY <1>4, <3>2, <3>3 DEF Guarded, Fits, Ahead
    <3> QED  BY <3>1, <3>4
  <2> QED  BY <2>1, <2>2
<1>7. h \in Guards /\ h.match = g.match /\ h.blind = g.blind /\ h.reply = guard[c].reply
  <2>1. Len(g.held) \in 0 .. Len(g.held)
    BY <1>5 DEF Guards
  <2>2. g.reply = guard[c].reply
    BY <1>1, <1>4 DEF Checked, Guarded, Fits, Guards
  <2> QED  BY <1>2, <1>5, <2>1, <2>2, ReleasedTyped DEF ReleasedAll
<1>8. h.blind \/ Unsent(h)
  BY <1>5, <1>6, <1>7 DEF Unsent
<1>9. c \in FailClosed => ~h.blind
  BY <1>4, <1>5, <1>6, <1>7
<1>10. TypeOK'
  BY <1>3, <1>7 DEF IInv, TypeOK, ceilings, Phases
<1>11. GuardsHold'
  BY <1>3, <1>8, <1>9 DEF IInv, TypeOK, GuardsHold
<1>12. Settled'
  BY <1>3, <1>7 DEF IInv, TypeOK, Settled
<1> QED  BY <1>10, <1>11, <1>12 DEF IInv

-----------------------------------------------------------------------------
LEMMA CallStepKeepsIInv ==
  ASSUME IInv, NEW c \in Calls, CallStep(c)
  PROVE  IInv'
<1>1. whole \in [Calls -> BOOLEAN]
  BY DEF IInv, TypeOK
<1>2. CASE PromptPasses(c)
  BY <1>1, <1>2, MoveKeepsIInv DEF PromptPasses, Phases, IInv, Settled
<1>3. CASE PromptRefused(c)
  BY <1>3, GiveUpKeepsIInv DEF PromptRefused
<1>4. CASE SendFails(c)
  BY <1>4, GiveUpKeepsIInv DEF SendFails
<1>5. ASSUME NEW tokens \in Usages, UnaryAnswer(c, tokens) PROVE IInv'
  <2>1. PICK f \in {"judging", "done"} : phase' = [phase EXCEPT ![c] = f]
    BY <1>5 DEF UnaryAnswer
  <2> QED  BY <1>5, <2>1, MeterKeepsIInv DEF UnaryAnswer, Phases
<1>6. CASE Judged(c)
  BY <1>1, <1>6, MoveKeepsIInv DEF Judged, Phases, IInv, Settled
<1>7. CASE Cancelled(c)
  BY <1>7, GiveUpKeepsIInv DEF Cancelled
<1>8. CASE StreamOpens(c)
  BY <1>1, <1>8, MoveKeepsIInv DEF StreamOpens, Phases, IInv, Settled
<1>9. ASSUME NEW seen \in BOOLEAN, SegmentPasses(c, seen) PROVE IInv'
  BY <1>9, SegmentKeepsIInv
<1>10. CASE SegmentCut(c)
  BY <1>1, <1>10, MoveKeepsIInv DEF SegmentCut, Phases, IInv, Settled
<1>11. CASE StreamEnds(c)
  BY <1>1, <1>11, MoveKeepsIInv DEF StreamEnds, Phases, IInv, Settled
<1>12. CASE StreamBreaks(c)
  BY <1>1, <1>12, MoveKeepsIInv DEF StreamBreaks, Phases, IInv, Settled
<1>13. ASSUME NEW tokens \in Usages, Finish(c, tokens) PROVE IInv'
  <2>1. PICK f \in {"tail", "done"} : phase' = [phase EXCEPT ![c] = f]
    BY <1>13 DEF Finish
  <2> QED  BY <1>13, <2>1, MeterKeepsIInv DEF Finish, Phases
<1>14. ASSUME NEW seen \in BOOLEAN, TailPasses(c, seen) PROVE IInv'
  BY <1>14, TailKeepsIInv
<1>15. CASE TailDropped(c)
  BY <1>1, <1>15, MoveKeepsIInv DEF TailDropped, Phases, IInv, Settled
<1> QED
  BY <1>2, <1>3, <1>4, <1>5, <1>6, <1>7, <1>8, <1>9, <1>10, <1>11, <1>12, <1>13,
     <1>14, <1>15 DEF CallStep

LEMMA NextKeepsIInv == IInv /\ [Next]_vars => IInv'
<1> SUFFICES ASSUME IInv, [Next]_vars PROVE IInv'
  OBVIOUS
<1>1. ASSUME NEW c \in Calls, NEW estimate \in Estimates, Admit(c, estimate) PROVE IInv'
  BY <1>1, AdmitKeepsIInv
<1>2. ASSUME NEW c \in Calls, NEW estimate \in Estimates, Refuse(c, estimate) PROVE IInv'
  BY <1>2, MoveKeepsIInv DEF Refuse, Phases, IInv, TypeOK, Settled
<1>3. ASSUME NEW c \in Calls, NEW k \in EventSizes, Event(c, k) PROVE IInv'
  BY <1>3, EventKeepsIInv
<1>4. ASSUME NEW c \in Calls, CallStep(c) PROVE IInv'
  BY <1>4, CallStepKeepsIInv
<1>5. CASE NextWindow
  <2>1. TypeOK'
    BY <1>5 DEF NextWindow, IInv, TypeOK, ceilings
  <2>2. GuardsHold' /\ Settled'
    BY <1>5 DEF NextWindow, IInv, GuardsHold, Settled
  <2> QED  BY <2>1, <2>2 DEF IInv
<1>6. CASE UNCHANGED vars
  <2>1. TypeOK'
    BY <1>6 DEF vars, IInv, TypeOK, ceilings
  <2>2. GuardsHold' /\ Settled'
    BY <1>6 DEF vars, IInv, GuardsHold, Settled
  <2> QED  BY <2>1, <2>2 DEF IInv
<1> QED  BY <1>1, <1>2, <1>3, <1>4, <1>5, <1>6 DEF Next

LEMMA Invariance == Spec => []IInv
  BY InitIInv, NextKeepsIInv, PTL DEF Spec

\* The counters, reservations, guards and ledger of the gateway keep their
\* types: no settling takes a counter below zero (key_ceilings.settle).
THEOREM TypeCorrect == Spec => []TypeOK
<1>1. IInv => TypeOK
  BY DEF IInv
<1> QED  BY <1>1, Invariance, PTL

\* In block mode no character of what the detector would report reaches the
\* caller, unless a check had no detector and the level lets that pass: for
\* every size of event, hold-back and overlap (stream_guard.guard).
THEOREM NothingOfAMatchSent == Spec => []NoPartOfAMatchSent
<1>1. ASSUME IInv PROVE NoPartOfAMatchSent
  <2>1. ASSUME NEW c \in Blocking, ~guard[c].blind \/ c \in FailClosed
        PROVE  Unsent(guard[c])
    <3>1. c \in Calls
      BY CallsAssumption
    <3>2. ~guard[c].blind
      BY <1>1, <2>1, <3>1 DEF IInv, GuardsHold
    <3>3. CASE phase[c] = "done"
      BY <1>1, <3>1, <3>2, <3>3 DEF IInv, GuardsHold
    <3>4. CASE phase[c] # "done"
      BY <1>1, <3>1, <3>2, <3>4, GuardedIsUnsent DEF IInv, GuardsHold
    <3> QED  BY <3>3, <3>4
  <2> QED  BY <2>1 DEF NoPartOfAMatchSent
<1> QED  BY <1>1, Invariance, PTL

\* A call that is over, by whichever of its ways out, has given its
\* reservation back, and a reply of which text was received was metered
\* (_metered_call, finish).
THEOREM OverIsSettled == Spec => []OverMeansSettled
<1>1. IInv => OverMeansSettled
  BY DEF IInv, Settled, OverMeansSettled
<1> QED  BY <1>1, Invariance, PTL

-----------------------------------------------------------------------------
\* The order of the numbers, and induction from it.
Below == {p \in Nat \X Nat : p[1] < p[2]}

LEMMA BelowIsWellFounded == IsWellFoundedOn(Below, Nat)
  BY NatLessThanWellFounded, Zenon DEF OpToRel, Below

LEMMA Inductive ==
  ASSUME NEW S \in SUBSET Nat, 0 \in S, \A n \in S : n + 1 \in S
  PROVE  S = Nat
<1> SUFFICES ASSUME Nat \ S # {} PROVE FALSE
  OBVIOUS
<1>1. PICK x \in Nat \ S : \A y \in Nat \ S : <<y, x>> \notin Below
  <2>1. Nat \ S \subseteq Nat
    OBVIOUS
  <2> QED  BY <2>1, BelowIsWellFounded, WFMin
<1>2. x - 1 \in Nat /\ x - 1 < x
  BY <1>1
<1>3. x - 1 \notin S
  BY <1>1, <1>2
<1> QED  BY <1>1, <1>2, <1>3 DEF Below

\* Sums over a finite set (SumFunctionOnSet): a function of all its subsets takes
\* one element after the other.
Pick(s) == CHOOSE x \in s : TRUE
Smaller(A, n) == {s \in SUBSET A : Cardinality(s) <= n}

Unfolds(g, f, D) == g = [s \in D |-> IF s = {} THEN 0 ELSE f[Pick(s)] + g[s \ {Pick(s)}]]

Sums(g, f, A) == Unfolds(g, f, SUBSET A)

LEMMA PickIsIn == \A s : s # {} => Pick(s) \in s
  BY DEF Pick

LEMMA LessByOne ==
  ASSUME NEW A, IsFiniteSet(A), NEW n \in Nat, NEW s \in Smaller(A, n + 1), NEW x \in s
  PROVE  s \ {x} \in Smaller(A, n)
<1>1. s \in SUBSET A /\ Cardinality(s) <= n + 1
  BY DEF Smaller
<1>2. IsFiniteSet(s) /\ Cardinality(s) \in Nat
  BY <1>1, FS_Subset, FS_CardinalityType
<1>3. Cardinality(s \ {x}) = Cardinality(s) - 1
  BY <1>2, FS_RemoveElement
<1> QED  BY <1>1, <1>2, <1>3 DEF Smaller

LEMMA SmallerCovers ==
  ASSUME NEW A, IsFiniteSet(A), NEW s \in SUBSET A
  PROVE  Cardinality(A) \in Nat /\ s \in Smaller(A, Cardinality(A))
  BY FS_CardinalityType, FS_Subset DEF Smaller

LEMMA NoneSmaller ==
  ASSUME NEW A, IsFiniteSet(A), NEW s \in Smaller(A, 0)
  PROVE  s = {}
  BY FS_Subset, FS_EmptySet, FS_CardinalityType DEF Smaller

LEMMA SumsExist ==
  ASSUME NEW f, NEW A, IsFiniteSet(A)
  PROVE  \E g : Sums(g, f, A)
<1> DEFINE S == {n \in Nat : \E g : Unfolds(g, f, Smaller(A, n))}
<1>1. 0 \in S
  <2>1. Unfolds([s \in Smaller(A, 0) |-> 0], f, Smaller(A, 0))
    BY NoneSmaller DEF Unfolds
  <2> QED  BY <2>1
<1>2. ASSUME NEW n \in S PROVE n + 1 \in S
  <2>1. PICK g : Unfolds(g, f, Smaller(A, n))
    OBVIOUS
  <2>2. PICK h : h = [s \in Smaller(A, n + 1) |->
                        IF s = {} THEN 0 ELSE f[Pick(s)] + g[s \ {Pick(s)}]]
    OBVIOUS
  <2>3. \A s \in Smaller(A, n) : s \in Smaller(A, n + 1) /\ h[s] = g[s]
    <3>1. ASSUME NEW s \in Smaller(A, n) PROVE s \in Smaller(A, n + 1)
      BY FS_Subset, FS_CardinalityType DEF Smaller
    <3> QED  BY <2>1, <2>2, <3>1 DEF Unfolds
  <2>4. \A s \in Smaller(A, n + 1) : s # {} => h[s \ {Pick(s)}] = g[s \ {Pick(s)}]
    BY <2>3, LessByOne, PickIsIn
  <2>5. Unfolds(h, f, Smaller(A, n + 1))
    BY <2>2, <2>4 DEF Unfolds
  <2> QED  BY <2>5
<1>3. S = Nat
  <2> HIDE DEF S
  <2>1. S \in SUBSET Nat
    BY DEF S
  <2> QED  BY <1>1, <1>2, <2>1, Inductive
<1>4. PICK g : Unfolds(g, f, Smaller(A, Cardinality(A)))
  BY <1>3, FS_CardinalityType
<1>5. Smaller(A, Cardinality(A)) = SUBSET A
  BY SmallerCovers DEF Smaller
<1> QED  BY <1>4, <1>5 DEF Sums

\* Induction over the subsets of a finite set.
LEMMA SetInductive ==
  ASSUME NEW A, IsFiniteSet(A), NEW F \in SUBSET (SUBSET A), {} \in F,
         \A B \in SUBSET A : B # {} /\ (\A x \in B : B \ {x} \in F) => B \in F
  PROVE  F = SUBSET A
<1> DEFINE S == {n \in Nat : Smaller(A, n) \subseteq F}
<1>1. 0 \in S
  <2>1. \A B \in Smaller(A, 0) : B = {}
    BY NoneSmaller
  <2> QED  BY <2>1
<1>2. ASSUME NEW n \in S PROVE n + 1 \in S
  <2>1. ASSUME NEW B \in Smaller(A, n + 1), B # {} PROVE B \in F
    <3>1. \A x \in B : B \ {x} \in F
      BY LessByOne
    <3> QED  BY <2>1, <3>1 DEF Smaller
  <2>2. Smaller(A, n + 1) \subseteq F
    BY <2>1
  <2> QED  BY <2>2
<1>3. S = Nat
  <2> HIDE DEF S
  <2>1. S \in SUBSET Nat
    BY DEF S
  <2> QED  BY <1>1, <1>2, <2>1, Inductive
<1> QED  BY <1>3, SmallerCovers

LEMMA SumsAgree ==
  ASSUME NEW f, NEW A, IsFiniteSet(A), NEW B \in SUBSET A,
         NEW g, Sums(g, f, A), NEW h, Sums(h, f, B)
  PROVE  g[B] = h[B]
<1> DEFINE F == {s \in SUBSET B : g[s] = h[s]}
<1>1. IsFiniteSet(B)
  BY FS_Subset
<1>2. {} \in F
  BY DEF Sums, Unfolds
<1>3. ASSUME NEW s \in SUBSET B, s # {}, \A x \in s : s \ {x} \in F PROVE s \in F
  <2>1. g[s \ {Pick(s)}] = h[s \ {Pick(s)}]
    BY <1>3, PickIsIn
  <2>2. g[s] = f[Pick(s)] + g[s \ {Pick(s)}]
    <3>1. s \in SUBSET A
      OBVIOUS
    <3> QED  BY <1>3, <3>1 DEF Sums, Unfolds
  <2>3. h[s] = f[Pick(s)] + h[s \ {Pick(s)}]
    BY <1>3 DEF Sums, Unfolds
  <2> QED  BY <2>1, <2>2, <2>3
<1>4. F = SUBSET B
  <2> HIDE DEF F
  <2>1. F \in SUBSET (SUBSET B)
    BY DEF F
  <2> QED  BY <1>1, <1>2, <1>3, <2>1, SetInductive
<1> QED  BY <1>4

LEMMA SumUnfolds ==
  ASSUME NEW f, NEW A, IsFiniteSet(A)
  PROVE  /\ SumFunctionOnSet(f, {}) = 0
         /\ A # {} => SumFunctionOnSet(f, A) = f[Pick(A)] + SumFunctionOnSet(f, A \ {Pick(A)})
<1>1. \A B \in SUBSET A : /\ IsFiniteSet(B)
                          /\ \E g : Sums(g, f, B) /\ SumFunctionOnSet(f, B) = g[B]
  <2>1. ASSUME NEW B \in SUBSET A
        PROVE  IsFiniteSet(B) /\ Sums(CHOOSE g : Sums(g, f, B), f, B)
    BY SumsExist, FS_Subset
  <2>2. \A B : SumFunctionOnSet(f, B) = (CHOOSE g : Sums(g, f, B))[B]
    BY DEF SumFunctionOnSet, FoldFunctionOnSet, MapThenFoldSet, Sums, Unfolds, Pick
  <2> QED  BY <2>1, <2>2
<1>2. SumFunctionOnSet(f, {}) = 0
  BY <1>1 DEF Sums, Unfolds
<1>3. ASSUME A # {}
      PROVE  SumFunctionOnSet(f, A) = f[Pick(A)] + SumFunctionOnSet(f, A \ {Pick(A)})
  <2>1. PICK B \in SUBSET A : B = A \ {Pick(A)}
    OBVIOUS
  <2>2. PICK g : Sums(g, f, A) /\ SumFunctionOnSet(f, A) = g[A]
    BY <1>1
  <2>3. PICK h : Sums(h, f, B) /\ SumFunctionOnSet(f, B) = h[B]
    BY <1>1
  <2>4. g[B] = h[B]
    <3>1. Sums(g, f, A)
      BY <2>2
    <3>2. Sums(h, f, B)
      BY <2>3
    <3> QED  BY <2>1, <3>1, <3>2, SumsAgree
  <2>5. g[A] = f[Pick(A)] + g[B]
    BY <1>3, <2>1, <2>2 DEF Sums, Unfolds
  <2> QED  BY <2>1, <2>2, <2>3, <2>4, <2>5
<1> QED  BY <1>2, <1>3

LEMMA SumOfNone == \A f : SumFunctionOnSet(f, {}) = 0
  BY SumUnfolds, FS_EmptySet

\* Numbers of a kind that is closed under addition have a sum of that kind.
LEMMA SumStays ==
  ASSUME NEW N, 0 \in N, \A m, n \in N : m + n \in N,
         NEW A, IsFiniteSet(A), NEW f, \A x \in A : f[x] \in N
  PROVE  \A B \in SUBSET A : SumFunctionOnSet(f, B) \in N
<1> DEFINE F == {B \in SUBSET A : SumFunctionOnSet(f, B) \in N}
<1>1. {} \in F
  BY SumOfNone
<1>2. ASSUME NEW B \in SUBSET A, B # {}, \A x \in B : B \ {x} \in F PROVE B \in F
  <2>1. PICK y \in B : y = Pick(B)
    BY <1>2, PickIsIn
  <2>2. PICK C : C = B \ {y} /\ C \in F
    BY <1>2
  <2>3. SumFunctionOnSet(f, B) = f[y] + SumFunctionOnSet(f, C)
    BY <1>2, <2>1, <2>2, SumUnfolds, FS_Subset
  <2>4. f[y] \in N /\ SumFunctionOnSet(f, C) \in N
    BY <2>2
  <2>5. f[y] + SumFunctionOnSet(f, C) \in N
    BY <2>4
  <2> QED  BY <2>3, <2>5
<1>3. F = SUBSET A
  <2> HIDE DEF F
  <2>1. F \in SUBSET (SUBSET A)
    BY DEF F
  <2> QED  BY <1>1, <1>2, <2>1, SetInductive
<1> QED  BY <1>3

LEMMA SumsOfOthers ==
  ASSUME NEW f, NEW A, IsFiniteSet(A), \A x \in A : f[x] \in Int
  PROVE  /\ SumFunctionOnSet(f, A) \in Int
         /\ \A x \in A : SumFunctionOnSet(f, A) = f[x] + SumFunctionOnSet(f, A \ {x})
<1> DEFINE Sum(B) == SumFunctionOnSet(f, B)
           F == {B \in SUBSET A : \A x \in B : Sum(B) = f[x] + Sum(B \ {x})}
<1>1. \A B \in SUBSET A : Sum(B) \in Int
  <2>1. 0 \in Int /\ \A m, n \in Int : m + n \in Int
    OBVIOUS
  <2> QED  BY <2>1, SumStays
<1>2. {} \in F
  OBVIOUS
<1>3. ASSUME NEW B \in SUBSET A, B # {}, \A x \in B : B \ {x} \in F PROVE B \in F
  <2>1. PICK y \in B : Sum(B) = f[y] + Sum(B \ {y})
    <3>1. Sum(B) = f[Pick(B)] + Sum(B \ {Pick(B)}) /\ Pick(B) \in B
      BY <1>3, FS_Subset, SumUnfolds, PickIsIn
    <3> QED  BY <3>1
  <2>2. ASSUME NEW x \in B PROVE Sum(B) = f[x] + Sum(B \ {x})
    <3>1. CASE x = y
      BY <2>1, <3>1
    <3>2. CASE x # y
      <4>1. PICK C \in SUBSET A : C = (B \ {x}) \ {y} /\ C = (B \ {y}) \ {x}
        OBVIOUS
      <4>2. Sum(B \ {y}) = f[x] + Sum(C) /\ Sum(B \ {x}) = f[y] + Sum(C)
        BY <1>3, <3>2, <4>1
      <4>3. Sum(C) \in Int /\ f[x] \in Int /\ f[y] \in Int
        BY <1>1
      <4> HIDE DEF Sum
      <4> QED  BY <2>1, <4>2, <4>3
    <3> QED  BY <3>1, <3>2
  <2> QED  BY <2>2
<1>4. F = SUBSET A
  <2> HIDE DEF F
  <2>1. F \in SUBSET (SUBSET A)
    BY DEF F
  <2> QED  BY <1>2, <1>3, <2>1, SetInductive
<1> QED  BY <1>1, <1>4

LEMMA SumSame ==
  ASSUME NEW A, IsFiniteSet(A), NEW f, NEW g, \A x \in A : f[x] \in Int /\ g[x] = f[x]
  PROVE  SumFunctionOnSet(g, A) = SumFunctionOnSet(f, A)
<1> DEFINE F == {B \in SUBSET A : SumFunctionOnSet(g, B) = SumFunctionOnSet(f, B)}
<1>1. {} \in F
  BY SumOfNone
<1>2. ASSUME NEW B \in SUBSET A, B # {}, \A x \in B : B \ {x} \in F PROVE B \in F
  <2>1. PICK y \in B : y = Pick(B)
    BY <1>2, PickIsIn
  <2>2. PICK C : C = B \ {y} /\ C \in F
    BY <1>2
  <2>3. /\ SumFunctionOnSet(g, B) = g[y] + SumFunctionOnSet(g, C)
        /\ SumFunctionOnSet(f, B) = f[y] + SumFunctionOnSet(f, C)
    BY <1>2, <2>1, <2>2, SumUnfolds, FS_Subset
  <2> QED  BY <2>2, <2>3
<1>3. F = SUBSET A
  <2> HIDE DEF F
  <2>1. F \in SUBSET (SUBSET A)
    BY DEF F
  <2> QED  BY <1>1, <1>2, <2>1, SetInductive
<1> QED  BY <1>3

LEMMA SumOfNothing ==
  ASSUME NEW A, IsFiniteSet(A), NEW f, \A x \in A : f[x] = 0
  PROVE  SumFunctionOnSet(f, A) = 0
<1>1. 0 \in {0} /\ (\A m, n \in {0} : m + n \in {0}) /\ \A x \in A : f[x] \in {0}
  OBVIOUS
<1>2. \A B \in SUBSET A : SumFunctionOnSet(f, B) \in {0}
  BY <1>1, SumStays
<1> QED  BY <1>2

\* A sum of numbers is a number, and none of them is greater.
LEMMA SumBounds ==
  ASSUME NEW A, IsFiniteSet(A), NEW f, \A x \in A : f[x] \in Nat
  PROVE  /\ SumFunctionOnSet(f, A) \in Nat
         /\ \A x \in A : f[x] <= SumFunctionOnSet(f, A)
<1>1. \A B \in SUBSET A : SumFunctionOnSet(f, B) \in Nat
  <2>1. 0 \in Nat /\ \A m, n \in Nat : m + n \in Nat
    OBVIOUS
  <2> QED  BY <2>1, SumStays
<1>2. ASSUME NEW x \in A PROVE f[x] <= SumFunctionOnSet(f, A)
  <2>1. SumFunctionOnSet(f, A) = f[x] + SumFunctionOnSet(f, A \ {x})
    BY SumsOfOthers
  <2>2. SumFunctionOnSet(f, A \ {x}) \in Nat /\ f[x] \in Nat
    BY <1>1
  <2> QED  BY <2>1, <2>2
<1> QED  BY <1>1, <1>2

\* What becomes of a sum when one element joins, leaves or changes.
LEMMA SumJoins ==
  ASSUME NEW A, IsFiniteSet(A), NEW c, c \notin A, NEW B, B = A \cup {c},
         NEW f, NEW g, g[c] \in Int, \A x \in A : f[x] \in Int /\ g[x] = f[x]
  PROVE  SumFunctionOnSet(g, B) = SumFunctionOnSet(f, A) + g[c]
<1>1. IsFiniteSet(B) /\ B \ {c} = A
  BY FS_AddElement
<1>2. SumFunctionOnSet(g, B) = g[c] + SumFunctionOnSet(g, A) /\ SumFunctionOnSet(g, A) \in Int
  BY <1>1, SumsOfOthers
<1>3. SumFunctionOnSet(g, A) = SumFunctionOnSet(f, A)
  BY SumSame
<1> QED  BY <1>2, <1>3

LEMMA SumLeaves ==
  ASSUME NEW A, IsFiniteSet(A), NEW c \in A, NEW f, NEW g, f[c] \in Int,
         \A x \in A : f[x] \in Int /\ (x # c => g[x] = f[x])
  PROVE  SumFunctionOnSet(g, A \ {c}) = SumFunctionOnSet(f, A) - f[c]
<1>1. PICK B : B = A \ {c} /\ IsFiniteSet(B) /\ c \notin B
  BY FS_RemoveElement
<1>2. SumFunctionOnSet(f, A) = f[c] + SumFunctionOnSet(f, B) /\ SumFunctionOnSet(f, B) \in Int
  BY <1>1, SumsOfOthers
<1>3. SumFunctionOnSet(g, B) = SumFunctionOnSet(f, B)
  BY <1>1, SumSame
<1> QED  BY <1>1, <1>2, <1>3

LEMMA SumChanges ==
  ASSUME NEW A, IsFiniteSet(A), NEW c \in A, NEW f, NEW g, g[c] \in Int,
         \A x \in A : f[x] \in Int /\ (x # c => g[x] = f[x])
  PROVE  SumFunctionOnSet(g, A) = SumFunctionOnSet(f, A) - f[c] + g[c]
<1>1. SumFunctionOnSet(g, A \ {c}) = SumFunctionOnSet(f, A) - f[c]
  BY SumLeaves
<1>2. SumFunctionOnSet(g, A) = g[c] + SumFunctionOnSet(g, A \ {c})
  BY SumsOfOthers
<1>3. SumFunctionOnSet(f, A) \in Int /\ f[c] \in Int
  BY SumsOfOthers
<1> QED  BY <1>1, <1>2, <1>3

-----------------------------------------------------------------------------
\* Where a call may stand in the books: it is metered after its reply, and what
\* is settled before that is an exempt call's reservation, which is empty.
Owing == {"scanning", "sending", "streaming", "checking", "closing"}

Booked(c) ==
  /\ hold[c].persona = PersonaOf[c]
  /\ ~hold[c].settled => phase[c] \in Owing
  /\ phase[c] \in Owing \cup {"idle"} =>
       /\ used[c] = -1
       /\ hold[c].settled => hold[c].limits = {}

AllBooked == \A c \in Calls : Booked(c)

Balanced == ReservedIsInFlight /\ OverrunBounded /\ CountedOnce

Books == AllBooked /\ Balanced

\* The calls that are in flight, have an open stream or are metered are finitely
\* many, and have amounts that can be summed.
LEMMA BooksAreFinite ==
  ASSUME NEW k, NEW p
  PROVE  IsFiniteSet(InFlight(k)) /\ IsFiniteSet(OpenStreams(p))
         /\ IsFiniteSet(Metered) /\ IsFiniteSet(MeteredOn(k))
<1>1. InFlight(k) \in SUBSET Calls /\ OpenStreams(p) \in SUBSET Calls
      /\ Metered \in SUBSET Calls /\ MeteredOn(k) \in SUBSET Calls
  BY DEF InFlight, OpenStreams, Metered, MeteredOn
<1> QED  BY <1>1, CallsAssumption, FS_Subset

LEMMA AmountsTyped ==
  ASSUME TypeOK, NEW c \in Calls
  PROVE  /\ TokensHeld[c] = hold[c].tokens /\ TokensHeld[c] \in Nat
         /\ Beyond[c] = Less(used[c], hold[c].tokens) /\ Beyond[c] \in Nat
         /\ used[c] \in Int /\ (c \in Metered => used[c] \in Nat)
<1>1. hold[c].tokens \in Nat /\ used[c] \in Nat \cup {-1}
  BY CallsAssumption DEF TypeOK, Reservations
<1> QED  BY <1>1 DEF TokensHeld, Beyond, Less, Metered

LEMMA LargestIsLargest ==
  LargestEstimate \in Nat /\ \A f \in Estimates : f <= LargestEstimate
<1>1. \E e \in Estimates : \A f \in Estimates : f <= e
  BY CallsAssumption
<1>2. LargestEstimate \in Estimates /\ \A f \in Estimates : f <= LargestEstimate
  BY <1>1 DEF LargestEstimate
<1> QED  BY <1>2, CallsAssumption

LEMMA InitBooks == Init => Books
<1> SUFFICES ASSUME Init PROVE Books
  OBVIOUS
<1>1. AllBooked
  BY DEF Init, AllBooked, Booked, Owing, Unheld
<1>2. \A k : InFlight(k) = {} /\ MeteredOn(k) = {}
  BY DEF Init, InFlight, Unheld, MeteredOn, Metered
<1>3. Metered = {} /\ \A p : OpenStreams(p) = {}
  BY DEF Init, OpenStreams, Unheld, Metered
<1>4. \A f : SumFunctionOnSet(f, {}) = 0
  BY SumOfNone
<1>5. \A f, k : /\ SumFunctionOnSet(f, InFlight(k)) = 0
                /\ SumFunctionOnSet(f, MeteredOn(k)) = 0
                /\ SumFunctionOnSet(f, Metered) = 0
  BY <1>2, <1>3, <1>4, Zenon
<1>6. ReservedIsInFlight
  <2>1. \A p : Cardinality(OpenStreams(p)) = 0
    BY <1>3, FS_EmptySet
  <2> QED  BY <1>5, <2>1 DEF ReservedIsInFlight, Init, CeilingsInit
<1>7. OverrunBounded
  <2>1. ASSUME NEW k \in DOMAIN consumed
        PROVE  consumed[k] + reserved[k] = 0 /\ Ceiling[k[1]] \in Nat \ {0}
    BY CeilingAssumption DEF Init, CeilingsInit
  <2> QED  BY <1>5, <2>1, LargestIsLargest DEF OverrunBounded
<1>8. CountedOnce
  <2>1. ASSUME NEW dim \in {"group", "project", "user"} PROVE LedgerTotal(dim) = 0
    <3>1. \A w \in Windows : LedgerOf(dim)[w] = 0
      BY DEF LedgerOf, Init
    <3> QED  BY <3>1, CeilingAssumption, SumOfNothing DEF LedgerTotal
  <2>2. \A k \in DOMAIN consumed : consumed[k] = 0
    BY DEF Init, CeilingsInit
  <2> QED  BY <1>5, <2>1, <2>2 DEF CountedOnce
<1> QED  BY <1>1, <1>6, <1>7, <1>8 DEF Books, Balanced

\* A step that leaves what is held and counted alone leaves the books balanced.
LEMMA StillBalanced ==
  ASSUME Balanced, UNCHANGED <<ceilings, hold, used, ledger>>
  PROVE  Balanced'
<1>1. /\ consumed' = consumed /\ reserved' = reserved /\ streams' = streams
      /\ hold' = hold /\ used' = used /\ ledger' = ledger
  BY DEF ceilings
<1>2. TokensHeld' = TokensHeld /\ Beyond' = Beyond /\ Metered' = Metered
  BY <1>1 DEF TokensHeld, Beyond, Metered
<1>3. ASSUME NEW k
      PROVE  InFlight(k)' = InFlight(k) /\ MeteredOn(k)' = MeteredOn(k)
  BY <1>1, <1>2 DEF InFlight, MeteredOn
<1>4. ASSUME NEW p PROVE OpenStreams(p)' = OpenStreams(p)
  BY <1>1 DEF OpenStreams
<1>5. ASSUME NEW dim PROVE LedgerTotal(dim)' = LedgerTotal(dim)
  BY <1>1 DEF LedgerTotal, LedgerOf
<1>6. ReservedIsInFlight'
  BY <1>1, <1>2, <1>3, <1>4, Zenon DEF Balanced, ReservedIsInFlight
<1>7. OverrunBounded'
  BY <1>1, <1>2, <1>3, Zenon DEF Balanced, OverrunBounded
<1>8. CountedOnce'
  BY <1>1, <1>2, <1>3, <1>5, Zenon DEF Balanced, CountedOnce
<1> QED  BY <1>6, <1>7, <1>8 DEF Balanced

LEMMA OthersBooked ==
  ASSUME AllBooked, NEW c \in Calls, Booked(c)',
         \A d \in Calls : d # c => /\ phase'[d] = phase[d] /\ hold'[d] = hold[d]
                                  /\ used'[d] = used[d]
  PROVE  AllBooked'
<1>1. ASSUME NEW d \in Calls, d # c PROVE Booked(d)'
  BY <1>1 DEF AllBooked, Booked
<1> QED  BY <1>1 DEF AllBooked

\* A call that moves on, whose reservation and usage stay as they are.
LEMMA MoveKeepsBooks ==
  ASSUME IInv, Books, NEW c \in Calls, NEW f,
         phase' = [phase EXCEPT ![c] = f], UNCHANGED <<ceilings, hold, used, ledger>>,
         f \in Owing => phase[c] \in Owing, phase[c] \in Owing => f \in Owing, f # "idle"
  PROVE  Books'
<1>1. AllBooked
  BY DEF Books
<1>2. Booked(c)'
  BY <1>1 DEF AllBooked, Booked, IInv, TypeOK
<1>3. \A d \in Calls : d # c => phase'[d] = phase[d] /\ hold'[d] = hold[d] /\ used'[d] = used[d]
  BY DEF IInv, TypeOK
<1> QED  BY <1>1, <1>2, <1>3, OthersBooked, StillBalanced DEF Books

\* A refused call has reserved nothing.
LEMMA RefuseKeepsBooks ==
  ASSUME IInv, Books, NEW c \in Calls, NEW estimate, Refuse(c, estimate)
  PROVE  Books'
<1>1. AllBooked
  BY DEF Books
<1>2. Booked(c)'
  BY <1>1 DEF AllBooked, Booked, IInv, TypeOK, Refuse, Owing
<1>3. \A d \in Calls : d # c => phase'[d] = phase[d] /\ hold'[d] = hold[d] /\ used'[d] = used[d]
  BY DEF IInv, TypeOK, Refuse
<1>4. Balanced'
  BY StillBalanced DEF Books, Refuse
<1> QED  BY <1>1, <1>2, <1>3, <1>4, OthersBooked DEF Books

\* A call is admitted: it joins the calls in flight on its keys, none of which
\* was used up.
LEMMA AdmitBalances ==
  ASSUME IInv, Books, NEW c \in Calls, NEW estimate \in Estimates, Admit(c, estimate)
  PROVE  Balanced'
<1>1. PICK r : /\ r = Wanted(c, estimate) /\ ~Denied(r) /\ Reserve(r)
              /\ hold' = [hold EXCEPT ![c] = r]
  BY DEF Admit
<1>2. /\ estimate \in Nat /\ r.tokens = estimate /\ r.persona = PersonaOf[c]
      /\ r.stream \in BOOLEAN /\ r.settled \in BOOLEAN
      /\ r.settled => r.limits = {} /\ ~r.stream
  <2>1. estimate \in Nat
    BY CallsAssumption
  <2> DEFINE exempt == c \in Exempt
             stream == c \in Streaming \ Exempt
             limits == IF c \in Exempt THEN {} ELSE LimitsOf[c]
  <2>2. /\ exempt \in BOOLEAN /\ stream \in BOOLEAN
        /\ exempt => limits = {} /\ ~stream
    OBVIOUS
  <2>3. r = [persona |-> PersonaOf[c], limits |-> limits, bucket |-> now,
             tokens |-> estimate, stream |-> stream, settled |-> exempt]
    BY <1>1 DEF Wanted
  <2> HIDE DEF exempt, stream, limits
  <2> QED  BY <2>1, <2>2, <2>3
<1>3. used[c] = -1 /\ hold[c].settled /\ c \notin Metered
  <2>1. Booked(c) /\ phase[c] = "idle"
    BY DEF Books, AllBooked, Admit
  <2> QED  BY <2>1 DEF Booked, Owing, Metered
<1>4. /\ consumed' = consumed /\ used' = used /\ ledger' = ledger
      /\ consumed \in Counters /\ reserved \in Counters /\ streams \in [Personas -> Nat]
      /\ hold \in [Calls -> Reservations] /\ TypeOK /\ TypeOK'
  <2>1. IInv'
    BY AdmitKeepsIInv
  <2> QED  BY <1>1, <2>1 DEF Admit, Reserve, IInv, TypeOK
<1>5. hold'[c] = r /\ \A d \in Calls : d # c => hold'[d] = hold[d]
  BY <1>1, <1>4
<1>6. PICK t, u : t = TokensHeld /\ u = TokensHeld'
  OBVIOUS
<1>7. /\ \A d \in Calls : t[d] \in Nat /\ u[d] \in Nat /\ (d # c => u[d] = t[d])
      /\ u[c] = estimate
  <2>1. \A d \in Calls : t[d] \in Nat /\ u[d] \in Nat
    BY <1>4, <1>6, AmountsTyped, CallsAssumption DEF TypeOK, Reservations, TokensHeld
  <2> QED  BY <1>2, <1>5, <1>6, <2>1 DEF TokensHeld
<1>8. ASSUME NEW k
      PROVE  InFlight(k)' = IF ~r.settled /\ k \in Keys(r) THEN InFlight(k) \cup {c}
                            ELSE InFlight(k)
  BY <1>3, <1>5 DEF InFlight
<1>9. \A k : c \notin InFlight(k)
  BY <1>3 DEF InFlight
<1>10. ASSUME NEW k \in DOMAIN reserved
       PROVE  reserved'[k] = SumFunctionOnSet(TokensHeld, InFlight(k))'
  <2>1. PICK A : A = InFlight(k) /\ A \subseteq Calls /\ IsFiniteSet(A) /\ c \notin A
    BY <1>9, BooksAreFinite DEF InFlight
  <2>2. reserved[k] = SumFunctionOnSet(t, A)
    BY <1>6, <2>1 DEF Books, Balanced, ReservedIsInFlight
  <2>3. CASE ~r.settled /\ k \in Keys(r)
    <3>1. reserved'[k] = reserved[k] + estimate
      BY <1>1, <1>2, <1>4, <2>3 DEF Reserve
    <3>2. PICK B : B = A \cup {c}
      OBVIOUS
    <3>3. SumFunctionOnSet(u, B) = SumFunctionOnSet(t, A) + u[c]
      <4>1. u[c] \in Int /\ \A x \in A : t[x] \in Int /\ u[x] = t[x]
        BY <1>7, <2>1
      <4> QED  BY <2>1, <3>2, <4>1, SumJoins
    <3>4. InFlight(k)' = B
      BY <1>8, <2>1, <2>3, <3>2
    <3> QED  BY <1>6, <1>7, <2>2, <3>1, <3>3, <3>4
  <2>4. CASE ~(~r.settled /\ k \in Keys(r))
    <3>1. k \notin Keys(r)
      BY <1>2, <2>4 DEF Keys
    <3>2. reserved'[k] = reserved[k]
      BY <1>1, <1>4, <3>1 DEF Reserve
    <3>3. SumFunctionOnSet(u, A) = SumFunctionOnSet(t, A)
      BY <1>7, <2>1, SumSame
    <3>4. InFlight(k)' = A
      BY <1>8, <2>1, <2>4
    <3> QED  BY <1>6, <2>2, <3>2, <3>3, <3>4
  <2> QED  BY <2>3, <2>4
<1>11. ASSUME NEW p \in Personas PROVE streams'[p] = Cardinality(OpenStreams(p))'
  <2>1. PICK A : A = OpenStreams(p) /\ IsFiniteSet(A) /\ c \notin A
    BY <1>3, BooksAreFinite DEF OpenStreams
  <2>2. streams[p] = Cardinality(A)
    BY <2>1 DEF Books, Balanced, ReservedIsInFlight
  <2>3. CASE r.stream /\ PersonaOf[c] = p
    <3>1. OpenStreams(p)' = A \cup {c}
      BY <1>2, <1>5, <2>1, <2>3 DEF OpenStreams
    <3>2. streams'[p] = streams[p] + 1
      BY <1>1, <1>2, <1>4, <2>3 DEF Reserve
    <3>3. Cardinality(A \cup {c}) = Cardinality(A) + 1
      BY <2>1, FS_AddElement
    <3> QED  BY <2>2, <3>1, <3>2, <3>3
  <2>4. CASE ~(r.stream /\ PersonaOf[c] = p)
    <3>1. OpenStreams(p)' = A
      BY <1>3, <1>5, <2>1, <2>4 DEF OpenStreams
    <3>2. streams'[p] = streams[p]
      BY <1>1, <1>2, <1>4, <2>4 DEF Reserve
    <3> QED  BY <2>2, <3>1, <3>2
  <2> QED  BY <2>3, <2>4
<1>12. DOMAIN reserved' = DOMAIN reserved /\ DOMAIN consumed = DOMAIN reserved
  BY <1>4 DEF Counters, TypeOK
<1>13. ReservedIsInFlight'
  BY <1>10, <1>11, <1>12 DEF ReservedIsInFlight
<1>14. Metered' = Metered /\ \A k : MeteredOn(k)' = MeteredOn(k)
  <2>1. Metered' = Metered
    BY <1>4 DEF Metered
  <2> QED  BY <1>3, <1>5, <2>1 DEF MeteredOn, Metered
<1>15. CountedOnce'
  <2>1. ASSUME NEW dim PROVE LedgerTotal(dim)' = LedgerTotal(dim)
    BY <1>4 DEF LedgerTotal, LedgerOf
  <2> QED  BY <1>4, <1>14, <2>1, Zenon DEF Books, Balanced, CountedOnce
<1>16. OverrunBounded'
  <2>1. ASSUME NEW k \in DOMAIN consumed
        PROVE  consumed[k] + reserved'[k]
                 <= Ceiling[k[1]] - 1 + LargestEstimate + SumFunctionOnSet(Beyond, MeteredOn(k))'
    <3>1. PICK A : A = MeteredOn(k) /\ A \subseteq Calls /\ IsFiniteSet(A) /\ c \notin A
      BY <1>3, BooksAreFinite DEF MeteredOn, Metered
    <3>2. PICK b, d : b = Beyond /\ d = Beyond'
      OBVIOUS
    <3>3. \A x \in A : b[x] \in Nat /\ d[x] = b[x]
      <4>1. \A x \in A : b[x] \in Nat
        BY <1>4, <3>1, <3>2, AmountsTyped
      <4> QED  BY <1>4, <1>5, <3>1, <3>2, <4>1 DEF Beyond
    <3>4. SumFunctionOnSet(d, A) = SumFunctionOnSet(b, A) /\ SumFunctionOnSet(b, A) \in Nat
      BY <3>1, <3>3, SumSame, SumBounds
    <3>5. consumed[k] + reserved[k] <= Ceiling[k[1]] - 1 + LargestEstimate + SumFunctionOnSet(b, A)
      BY <3>1, <3>2 DEF Books, Balanced, OverrunBounded
    <3>6. /\ consumed[k] \in Nat /\ reserved[k] \in Nat /\ Ceiling[k[1]] \in Nat
          /\ estimate <= LargestEstimate /\ LargestEstimate \in Nat
      BY <1>4, CeilingAssumption, LargestIsLargest DEF Counters
    <3>7. consumed[k] + reserved'[k] <= Ceiling[k[1]] - 1 + LargestEstimate + SumFunctionOnSet(b, A)
      <4>1. CASE k \in Keys(r)
        <5>1. consumed[k] + reserved[k] < Ceiling[k[1]]
          BY <1>1, <3>6, <4>1 DEF Denied, UsedUp
        <5>2. reserved'[k] = reserved[k] + estimate
          BY <1>1, <1>2, <1>12, <4>1 DEF Reserve
        <5> QED  BY <1>2, <3>4, <3>6, <5>1, <5>2
      <4>2. CASE k \notin Keys(r)
        BY <1>1, <1>12, <3>5, <4>2 DEF Reserve
      <4> QED  BY <4>1, <4>2
    <3>8. SumFunctionOnSet(Beyond, MeteredOn(k))' = SumFunctionOnSet(d, A)
      BY <1>14, <3>1, <3>2
    <3> QED  BY <3>4, <3>7, <3>8
  <2> QED  BY <1>4, <2>1 DEF OverrunBounded
<1> QED  BY <1>13, <1>15, <1>16 DEF Balanced

LEMMA AdmitKeepsBooks ==
  ASSUME IInv, Books, NEW c \in Calls, NEW estimate \in Estimates, Admit(c, estimate)
  PROVE  Books'
<1>1. AllBooked
  BY DEF Books
<1>2. Booked(c)'
  BY <1>1 DEF AllBooked, Booked, IInv, TypeOK, Admit, Owing, Wanted, AfterAdmission
<1>3. \A d \in Calls : d # c => phase'[d] = phase[d] /\ hold'[d] = hold[d] /\ used'[d] = used[d]
  BY DEF IInv, TypeOK, Admit
<1> QED  BY <1>1, <1>2, <1>3, AdmitBalances, OthersBooked DEF Books

\* A call is settled, or was before: it leaves the calls in flight with what it
\* held, which is all there.
LEMMA SettleBalances ==
  ASSUME IInv, Books, NEW c \in Calls, NEW tokens \in Nat, Settle(hold[c], tokens),
         hold' = [hold EXCEPT ![c] = [hold[c] EXCEPT !.settled = TRUE]]
  PROVE  /\ ReservedIsInFlight'
         /\ \A k \in DOMAIN consumed :
              IF ~hold[c].settled /\ k \in Keys(hold[c])
              THEN /\ reserved'[k] = reserved[k] - hold[c].tokens
                   /\ consumed'[k] = consumed[k] + tokens
              ELSE reserved'[k] = reserved[k] /\ consumed'[k] = consumed[k]
<1>1. PICK r : r = hold[c] /\ Settle(r, tokens)
  OBVIOUS
<1>2. /\ consumed \in Counters /\ reserved \in Counters /\ streams \in [Personas -> Nat]
      /\ hold \in [Calls -> Reservations] /\ r \in Reservations /\ r.tokens \in Nat
      /\ r.stream \in BOOLEAN /\ r.settled \in BOOLEAN /\ r.persona \in Personas
  BY <1>1 DEF IInv, TypeOK, Reservations
<1>3. r.persona = PersonaOf[c]
  BY <1>1 DEF Books, AllBooked, Booked
<1>4. /\ hold'[c].settled /\ hold'[c].tokens = r.tokens
      /\ hold'[c].stream = r.stream /\ Keys(hold'[c]) = Keys(r)
      /\ \A d \in Calls : d # c => hold'[d] = hold[d]
  BY <1>1, <1>2 DEF Reservations, Keys
<1>5. PICK t, u : t = TokensHeld /\ u = TokensHeld'
  OBVIOUS
<1>6. \A d \in Calls : t[d] \in Nat /\ u[d] = t[d] /\ t[c] = r.tokens
  <2>1. \A d \in Calls : t[d] \in Nat
    BY <1>5, AmountsTyped DEF IInv
  <2> QED  BY <1>1, <1>4, <1>5, <2>1 DEF TokensHeld
<1>7. ASSUME NEW k PROVE InFlight(k)' = InFlight(k) \ {c}
  BY <1>4 DEF InFlight
<1>8. ASSUME NEW k \in DOMAIN consumed
      PROVE  /\ reserved'[k] = SumFunctionOnSet(TokensHeld, InFlight(k))'
             /\ IF ~r.settled /\ k \in Keys(r)
                THEN reserved'[k] = reserved[k] - r.tokens /\ consumed'[k] = consumed[k] + tokens
                ELSE reserved'[k] = reserved[k] /\ consumed'[k] = consumed[k]
  <2>1. PICK A : A = InFlight(k) /\ A \subseteq Calls /\ IsFiniteSet(A)
    BY BooksAreFinite DEF InFlight
  <2>2. DOMAIN consumed = DOMAIN reserved /\ reserved[k] \in Nat
    BY <1>2 DEF Counters
  <2>3. reserved[k] = SumFunctionOnSet(t, A)
    BY <1>5, <2>1, <2>2 DEF Books, Balanced, ReservedIsInFlight
  <2>4. CASE ~r.settled /\ k \in Keys(r)
    <3>1. c \in A
      BY <1>1, <2>1, <2>4 DEF InFlight
    <3>2. r.tokens <= reserved[k]
      BY <1>6, <2>1, <2>3, <3>1, SumBounds
    <3>3. reserved'[k] = Less(reserved[k], r.tokens) /\ consumed'[k] = consumed[k] + tokens
      BY <1>1, <2>2, <2>4 DEF Settle, Release
    <3>4. reserved'[k] = reserved[k] - r.tokens
      BY <1>2, <2>2, <3>2, <3>3 DEF Less
    <3>5. SumFunctionOnSet(u, A \ {c}) = SumFunctionOnSet(t, A) - t[c]
      <4>1. t[c] \in Int /\ \A x \in A : t[x] \in Int /\ (x # c => u[x] = t[x])
        BY <1>6, <2>1
      <4> QED  BY <2>1, <3>1, <4>1, SumLeaves
    <3>6. InFlight(k)' = A \ {c}
      BY <1>7, <2>1
    <3> QED  BY <1>5, <1>6, <2>3, <2>4, <3>3, <3>4, <3>5, <3>6
  <2>5. CASE ~(~r.settled /\ k \in Keys(r))
    <3>1. reserved'[k] = reserved[k] /\ consumed'[k] = consumed[k]
      BY <1>1, <2>2, <2>5 DEF Settle, Release
    <3>2. c \notin A
      BY <1>1, <2>1, <2>5 DEF InFlight
    <3>3. InFlight(k)' = A
      BY <1>7, <2>1, <3>2
    <3>4. SumFunctionOnSet(u, A) = SumFunctionOnSet(t, A)
      BY <1>6, <2>1, SumSame
    <3> QED  BY <1>5, <2>3, <2>5, <3>1, <3>3, <3>4
  <2> QED  BY <2>4, <2>5
<1>9. ASSUME NEW p \in Personas PROVE streams'[p] = Cardinality(OpenStreams(p))'
  <2>1. PICK A : A = OpenStreams(p) /\ IsFiniteSet(A)
    BY BooksAreFinite
  <2>2. streams[p] = Cardinality(A) /\ streams[p] \in Nat
    BY <1>2, <2>1 DEF Books, Balanced, ReservedIsInFlight
  <2>3. OpenStreams(p)' = A \ {c}
    BY <1>4, <2>1 DEF OpenStreams
  <2>4. CASE ~r.settled /\ r.stream /\ r.persona = p
    <3>1. c \in A
      BY <1>1, <1>3, <2>1, <2>4 DEF OpenStreams
    <3>2. Cardinality(A \ {c}) = Cardinality(A) - 1 /\ Cardinality(A \ {c}) \in Nat
      BY <2>1, <3>1, FS_RemoveElement, FS_CardinalityType
    <3>3. streams'[p] = Less(streams[p], 1)
      BY <1>1, <1>2, <2>4 DEF Settle, Release
    <3> QED  BY <2>2, <2>3, <3>2, <3>3 DEF Less
  <2>5. CASE ~(~r.settled /\ r.stream /\ r.persona = p)
    <3>1. c \notin A
      BY <1>1, <1>3, <2>1, <2>5 DEF OpenStreams
    <3>2. streams'[p] = streams[p]
      BY <1>1, <1>2, <2>5 DEF Settle, Release
    <3>3. A \ {c} = A
      BY <3>1
    <3> QED  BY <2>2, <2>3, <3>2, <3>3
  <2> QED  BY <2>4, <2>5
<1>10. DOMAIN reserved' = DOMAIN consumed
  BY <1>1, <1>2 DEF Settle, Release, Counters
<1>11. ReservedIsInFlight'
  BY <1>8, <1>9, <1>10 DEF ReservedIsInFlight
<1> QED  BY <1>1, <1>8, <1>11

\* A call that gives up has used nothing: what it held is free again.
LEMMA GiveUpKeepsBooks ==
  ASSUME IInv, Books, NEW c \in Calls, GiveUp(c), phase[c] # "idle"
  PROVE  Books'
<1>1. /\ hold' = [hold EXCEPT ![c] = [hold[c] EXCEPT !.settled = TRUE]]
      /\ used' = used /\ ledger' = ledger /\ phase' = [phase EXCEPT ![c] = "done"]
      /\ Settle(hold[c], 0)
  BY DEF GiveUp, IInv, TypeOK
<1>2. PICK r : r = hold[c] /\ r \in Reservations
  BY DEF IInv, TypeOK
<1>3. /\ ReservedIsInFlight'
      /\ \A k \in DOMAIN consumed :
           IF ~r.settled /\ k \in Keys(r)
           THEN reserved'[k] = reserved[k] - r.tokens /\ consumed'[k] = consumed[k] + 0
           ELSE reserved'[k] = reserved[k] /\ consumed'[k] = consumed[k]
  BY <1>1, <1>2, SettleBalances
<1>4. /\ hold'[c].settled /\ hold'[c].tokens = r.tokens
      /\ hold'[c].persona = r.persona /\ Keys(hold'[c]) = Keys(r)
      /\ \A d \in Calls : d # c => hold'[d] = hold[d]
  BY <1>1, <1>2 DEF IInv, TypeOK, Reservations, Keys
<1>5. /\ consumed \in Counters /\ reserved \in Counters /\ r.tokens \in Nat
      /\ DOMAIN consumed' = DOMAIN consumed
  BY <1>1, <1>2 DEF IInv, TypeOK, Reservations, Settle, Release
<1>6. /\ Metered' = Metered /\ Beyond' = Beyond
      /\ \A k \in DOMAIN consumed : consumed'[k] = consumed[k] /\ reserved'[k] <= reserved[k]
  <2>1. Metered' = Metered /\ Beyond' = Beyond
    BY <1>1, <1>2, <1>4 DEF Metered, Beyond
  <2> QED  BY <1>3, <1>5, <2>1 DEF Counters
<1>7. ASSUME NEW k PROVE MeteredOn(k)' = MeteredOn(k)
  BY <1>2, <1>4, <1>6 DEF MeteredOn, Metered
<1>8. CountedOnce'
  <2>1. ASSUME NEW dim PROVE LedgerTotal(dim)' = LedgerTotal(dim)
    BY <1>1 DEF LedgerTotal, LedgerOf
  <2> QED  BY <1>1, <1>5, <1>6, <1>7, <2>1, Zenon DEF Books, Balanced, CountedOnce
<1>9. OverrunBounded'
  <2>1. ASSUME NEW k \in DOMAIN consumed
        PROVE  consumed'[k] + reserved'[k]
                 <= Ceiling[k[1]] - 1 + LargestEstimate + SumFunctionOnSet(Beyond, MeteredOn(k))'
    <3>1. PICK b, A : b = Beyond /\ A = MeteredOn(k) /\ IsFiniteSet(A) /\ A \subseteq Calls
      <4>1. MeteredOn(k) \subseteq Calls
        BY DEF MeteredOn, Metered
      <4> QED  BY <4>1, BooksAreFinite
    <3>2. SumFunctionOnSet(b, A) \in Nat
      <4>1. \A x \in A : b[x] \in Nat
        BY <3>1, AmountsTyped DEF IInv
      <4> QED  BY <3>1, <4>1, SumBounds
    <3>3. consumed[k] + reserved[k] <= Ceiling[k[1]] - 1 + LargestEstimate + SumFunctionOnSet(b, A)
      BY <3>1 DEF Books, Balanced, OverrunBounded
    <3>4. /\ consumed[k] \in Nat /\ reserved[k] \in Nat /\ reserved'[k] \in Int
          /\ Ceiling[k[1]] \in Nat /\ LargestEstimate \in Nat
      BY <1>3, <1>5, CeilingAssumption, LargestIsLargest DEF Counters
    <3>5. SumFunctionOnSet(Beyond, MeteredOn(k))' = SumFunctionOnSet(b, A)
      BY <1>6, <1>7, <3>1
    <3> QED  BY <1>6, <3>2, <3>3, <3>4, <3>5
  <2> QED  BY <1>5, <2>1 DEF OverrunBounded
<1>10. Balanced'
  BY <1>3, <1>8, <1>9 DEF Balanced
<1>11. Booked(c)'
  <2>1. r.persona = PersonaOf[c] /\ phase'[c] = "done"
    BY <1>1, <1>2 DEF Books, AllBooked, Booked, IInv, TypeOK
  <2> QED  BY <1>4, <2>1 DEF Booked, Owing
<1>12. \A d \in Calls : d # c => phase'[d] = phase[d] /\ hold'[d] = hold[d] /\ used'[d] = used[d]
  BY <1>1, <1>4 DEF IInv, TypeOK
<1> QED  BY <1>10, <1>11, <1>12, OthersBooked DEF Books

\* The ledger of a metered call: the group and its payer each have its tokens more.
LEMMA LedgerCharged ==
  ASSUME IInv, NEW c \in Calls, NEW tokens \in Nat, Consume(c, tokens),
         NEW dim \in {"group", "project", "user"}
  PROVE  /\ LedgerTotal(dim) \in Nat
         /\ LedgerTotal(dim)' = IF dim \in Charged(c) THEN LedgerTotal(dim) + tokens
                                ELSE LedgerTotal(dim)
<1>1. PICK f, g : f = LedgerOf(dim) /\ g = LedgerOf(dim)'
  OBVIOUS
<1>2. \A w \in Windows : f[w] \in Nat /\ f[w] = ledger[<<dim, w>>] /\ g[w] = ledger'[<<dim, w>>]
  BY <1>1 DEF LedgerOf, IInv, TypeOK
<1>3. PICK n, C : n = now /\ n \in Windows /\ C = Charged(c)
  BY DEF IInv, TypeOK
<1>4. \A w \in Windows :
        ledger'[<<dim, w>>] = IF w = n /\ dim \in C THEN ledger[<<dim, w>>] + tokens
                              ELSE ledger[<<dim, w>>]
  <2>1. \A w \in Windows : <<dim, w>> \in DOMAIN ledger
    BY DEF IInv, TypeOK
  <2> QED  BY <1>3, <2>1 DEF Consume
<1>5. \A w \in Windows : /\ f[w] \in Nat
                       /\ g[w] = IF w = n /\ dim \in C THEN f[w] + tokens ELSE f[w]
  BY <1>2, <1>4
<1>6. /\ LedgerTotal(dim) = SumFunctionOnSet(f, Windows)
      /\ LedgerTotal(dim)' = SumFunctionOnSet(g, Windows)
  BY <1>1 DEF LedgerTotal
<1>7. IsFiniteSet(Windows)
  BY CeilingAssumption
<1>8. SumFunctionOnSet(f, Windows) \in Nat
  BY <1>5, <1>7, SumBounds
<1>9. CASE dim \in C
  <2>1. g[n] = f[n] + tokens /\ f[n] \in Int /\ g[n] \in Int
    BY <1>3, <1>5, <1>9
  <2>2. \A w \in Windows : f[w] \in Int /\ (w # n => g[w] = f[w])
    BY <1>5
  <2>3. SumFunctionOnSet(g, Windows) = SumFunctionOnSet(f, Windows) - f[n] + g[n]
    BY <1>3, <1>7, <2>1, <2>2, SumChanges
  <2> QED  BY <1>3, <1>6, <1>8, <1>9, <2>1, <2>3
<1>10. CASE dim \notin C
  <2>1. \A w \in Windows : f[w] \in Int /\ g[w] = f[w]
    BY <1>5, <1>10
  <2>2. SumFunctionOnSet(g, Windows) = SumFunctionOnSet(f, Windows)
    BY <1>7, <2>1, SumSame
  <2> QED  BY <1>3, <1>6, <1>8, <1>10, <2>2
<1> QED  BY <1>9, <1>10

\* A call is metered: its usage is counted on each of its keys, in the group's
\* ledger and in its payer's.
LEMMA MeterKeepsBooks ==
  ASSUME IInv, Books, NEW c \in Calls, NEW tokens \in Usages, Meter(c, tokens),
         NEW f \in Phases \ (Owing \cup {"idle"}), phase' = [phase EXCEPT ![c] = f],
         phase[c] \in Owing
  PROVE  Books'
<1>1. /\ tokens \in Nat /\ Settle(hold[c], tokens) /\ Consume(c, tokens)
      /\ hold' = [hold EXCEPT ![c] = [hold[c] EXCEPT !.settled = TRUE]]
      /\ used' = [used EXCEPT ![c] = tokens]
  BY CallsAssumption DEF Meter, IInv, TypeOK
<1>2. PICK r : r = hold[c] /\ r \in Reservations
  BY DEF IInv, TypeOK
<1>3. /\ ReservedIsInFlight'
      /\ \A k \in DOMAIN consumed :
           IF ~r.settled /\ k \in Keys(r)
           THEN reserved'[k] = reserved[k] - r.tokens /\ consumed'[k] = consumed[k] + tokens
           ELSE reserved'[k] = reserved[k] /\ consumed'[k] = consumed[k]
  BY <1>1, <1>2, SettleBalances
<1>4. /\ hold'[c].settled /\ hold'[c].tokens = r.tokens
      /\ hold'[c].persona = r.persona /\ Keys(hold'[c]) = Keys(r)
      /\ \A d \in Calls : d # c => hold'[d] = hold[d]
  BY <1>1, <1>2 DEF IInv, TypeOK, Reservations, Keys
<1>5. /\ consumed \in Counters /\ reserved \in Counters /\ r.tokens \in Nat
      /\ DOMAIN consumed' = DOMAIN consumed
  BY <1>1, <1>2 DEF IInv, TypeOK, Reservations, Settle, Release
<1>6. /\ used[c] = -1 /\ used'[c] = tokens /\ r.persona = PersonaOf[c]
      /\ r.settled => Keys(r) = {}
      /\ \A d \in Calls : d # c => used'[d] = used[d]
  BY <1>1, <1>2 DEF Books, AllBooked, Booked, Keys, IInv, TypeOK
<1>7. Metered' = Metered \cup {c} /\ c \notin Metered
  BY <1>1, <1>6 DEF Metered
<1>8. ASSUME NEW k
      PROVE  /\ MeteredOn(k)' = IF k \in Keys(r) THEN MeteredOn(k) \cup {c} ELSE MeteredOn(k)
             /\ c \notin MeteredOn(k)
  BY <1>4, <1>7 DEF MeteredOn, Metered
<1>9. PICK u, v, b, d : u = used /\ v = used' /\ b = Beyond /\ d = Beyond'
  OBVIOUS
<1>10. /\ \A x \in Metered : u[x] \in Nat /\ v[x] = u[x]
       /\ v[c] = tokens
  BY <1>6, <1>7, <1>9, AmountsTyped DEF IInv, Metered
<1>11. /\ \A x \in Calls : x # c => b[x] \in Nat /\ d[x] = b[x]
       /\ d[c] = Less(tokens, r.tokens) /\ d[c] \in Nat /\ tokens - r.tokens <= d[c]
  <2>1. \A x \in Calls : b[x] \in Nat
    BY <1>9, AmountsTyped DEF IInv
  <2>2. d[c] = Less(tokens, r.tokens)
    BY <1>4, <1>6, <1>9 DEF Beyond
  <2>3. \A x \in Calls : x # c => d[x] = b[x]
    BY <1>4, <1>6, <1>9 DEF Beyond
  <2> QED  BY <1>1, <1>5, <2>1, <2>2, <2>3 DEF Less
<1>12. ASSUME NEW k \in DOMAIN consumed
       PROVE  /\ consumed'[k] = SumFunctionOnSet(used, MeteredOn(k))'
              /\ consumed'[k] + reserved'[k]
                   <= Ceiling[k[1]] - 1 + LargestEstimate + SumFunctionOnSet(Beyond, MeteredOn(k))'
  <2>1. PICK A : A = MeteredOn(k) /\ IsFiniteSet(A) /\ A \subseteq Metered /\ A \subseteq Calls
                 /\ c \notin A
    BY <1>8, BooksAreFinite DEF MeteredOn, Metered
  <2>2. /\ consumed[k] \in Nat /\ reserved[k] \in Nat
        /\ Ceiling[k[1]] \in Nat /\ LargestEstimate \in Nat
    BY <1>5, CeilingAssumption, LargestIsLargest DEF Counters
  <2>3. consumed[k] = SumFunctionOnSet(u, A)
    BY <1>9, <2>1 DEF Books, Balanced, CountedOnce
  <2>4. consumed[k] + reserved[k] <= Ceiling[k[1]] - 1 + LargestEstimate + SumFunctionOnSet(b, A)
    BY <1>9, <2>1 DEF Books, Balanced, OverrunBounded
  <2>5. IsFiniteSet(A) /\ c \notin A /\ \A x \in A : u[x] \in Int /\ v[x] = u[x]
    BY <1>10, <2>1
  <2>6. (\A x \in A : b[x] \in Int /\ d[x] = b[x]) /\ SumFunctionOnSet(b, A) \in Nat
    <3>1. \A x \in A : b[x] \in Nat /\ d[x] = b[x]
      BY <1>11, <2>1
    <3> QED  BY <2>1, <3>1, SumBounds
  <2>7. CASE k \in Keys(r)
    <3>1. reserved'[k] = reserved[k] - r.tokens /\ consumed'[k] = consumed[k] + tokens
      BY <1>3, <1>6, <2>7
    <3>2. PICK B : B = A \cup {c}
      OBVIOUS
    <3>3. SumFunctionOnSet(v, B) = SumFunctionOnSet(u, A) + v[c]
      <4>1. v[c] \in Int
        BY <1>1, <1>10
      <4> QED  BY <2>5, <3>2, <4>1, SumJoins
    <3>4. SumFunctionOnSet(d, B) = SumFunctionOnSet(b, A) + d[c]
      <4>1. d[c] \in Int
        BY <1>11
      <4>2. IsFiniteSet(A) /\ c \notin A /\ \A x \in A : b[x] \in Int /\ d[x] = b[x]
        BY <2>1, <2>6
      <4> QED  BY <3>2, <4>1, <4>2, SumJoins
    <3>5. MeteredOn(k)' = B
      BY <1>8, <2>1, <2>7, <3>2
    <3>6. consumed'[k] = SumFunctionOnSet(v, B)
      BY <1>10, <2>3, <3>1, <3>3
    <3>7. consumed'[k] + reserved'[k] <= Ceiling[k[1]] - 1 + LargestEstimate + SumFunctionOnSet(d, B)
      BY <1>1, <1>5, <1>11, <2>2, <2>4, <2>6, <3>1, <3>4
    <3> QED  BY <1>9, <3>5, <3>6, <3>7
  <2>8. CASE k \notin Keys(r)
    <3>1. reserved'[k] = reserved[k] /\ consumed'[k] = consumed[k]
      BY <1>3, <2>8
    <3>2. SumFunctionOnSet(v, A) = SumFunctionOnSet(u, A)
      BY <2>1, <2>5, SumSame
    <3>3. SumFunctionOnSet(d, A) = SumFunctionOnSet(b, A)
      BY <2>1, <2>6, SumSame
    <3>4. MeteredOn(k)' = A
      BY <1>8, <2>1, <2>8
    <3> QED  BY <1>9, <2>3, <2>4, <3>1, <3>2, <3>3, <3>4
  <2> QED  BY <2>7, <2>8
<1>13. OverrunBounded'
  BY <1>5, <1>12 DEF OverrunBounded
<1>14. CountedOnce'
  <2>1. PICK M : M = Metered /\ IsFiniteSet(M)
    BY BooksAreFinite
  <2>2. PICK B : B = M \cup {c} /\ SumFunctionOnSet(v, B) = SumFunctionOnSet(u, M) + v[c]
    <3>1. /\ v[c] \in Int /\ IsFiniteSet(M) /\ c \notin M
          /\ \A x \in M : u[x] \in Int /\ v[x] = u[x]
      BY <1>1, <1>7, <1>10, <2>1
    <3>2. PICK B : B = M \cup {c} /\ IsFiniteSet(B) /\ B \ {c} = M /\ c \in B
      <4>1. IsFiniteSet(M \cup {c})
        BY <3>1, FS_AddElement
      <4>2. (M \cup {c}) \ {c} = M /\ c \in M \cup {c}
        BY <3>1
      <4> QED  BY <4>1, <4>2
    <3>3. SumFunctionOnSet(v, B) = SumFunctionOnSet(u, M) + v[c]
      <4>1. \A x \in B : v[x] \in Int
        BY <3>1, <3>2
      <4>2. SumFunctionOnSet(v, B) = v[c] + SumFunctionOnSet(v, M)
        BY <3>2, <4>1, SumsOfOthers
      <4>3. SumFunctionOnSet(v, M) = SumFunctionOnSet(u, M) /\ SumFunctionOnSet(v, M) \in Int
        BY <3>1, SumSame, SumsOfOthers
      <4> QED  BY <3>1, <4>2, <4>3
    <3> QED  BY <3>2, <3>3
  <2>3. SumFunctionOnSet(used, Metered)' = SumFunctionOnSet(u, M) + tokens
    BY <1>7, <1>9, <1>10, <2>1, <2>2
  <2>4. /\ LedgerTotal("group") = SumFunctionOnSet(u, M)
        /\ LedgerTotal("project") + LedgerTotal("user") = LedgerTotal("group")
    BY <1>9, <2>1 DEF Books, Balanced, CountedOnce
  <2>5. /\ LedgerTotal("group") \in Nat /\ LedgerTotal("project") \in Nat
        /\ LedgerTotal("user") \in Nat
    BY <1>1, LedgerCharged
  <2>6. LedgerTotal("group")' = LedgerTotal("group") + tokens
    BY <1>1, LedgerCharged DEF Charged
  <2>7. LedgerTotal("project")' + LedgerTotal("user")' = LedgerTotal("group")'
    <3>1. CASE Payer(c) = "project"
      <4>1. "project" \in Charged(c) /\ "user" \notin Charged(c)
        BY <3>1 DEF Charged
      <4>2. /\ LedgerTotal("project")' = LedgerTotal("project") + tokens
            /\ LedgerTotal("user")' = LedgerTotal("user")
        BY <1>1, <4>1, LedgerCharged
      <4> QED  BY <1>1, <2>4, <2>5, <2>6, <4>2
    <3>2. CASE Payer(c) = "user"
      <4>1. "user" \in Charged(c) /\ "project" \notin Charged(c)
        BY <3>2 DEF Charged
      <4>2. /\ LedgerTotal("user")' = LedgerTotal("user") + tokens
            /\ LedgerTotal("project")' = LedgerTotal("project")
        BY <1>1, <4>1, LedgerCharged
      <4> QED  BY <1>1, <2>4, <2>5, <2>6, <4>2
    <3>3. Payer(c) \in {"project", "user"}
      BY DEF Payer
    <3> QED  BY <3>1, <3>2, <3>3
  <2>8. \A k \in DOMAIN consumed' : consumed'[k] = SumFunctionOnSet(used, MeteredOn(k))'
    BY <1>5, <1>12
  <2> QED  BY <2>3, <2>4, <2>6, <2>7, <2>8 DEF CountedOnce
<1>15. Balanced'
  BY <1>3, <1>13, <1>14 DEF Balanced
<1>16. Booked(c)'
  <2>1. phase'[c] = f /\ f \notin Owing /\ f # "idle"
    BY DEF IInv, TypeOK
  <2> QED  BY <1>4, <1>6, <2>1 DEF Booked
<1>17. \A x \in Calls : x # c => phase'[x] = phase[x] /\ hold'[x] = hold[x] /\ used'[x] = used[x]
  BY <1>4, <1>6 DEF IInv, TypeOK
<1> QED  BY <1>15, <1>16, <1>17, OthersBooked DEF Books

LEMMA CallStepKeepsBooks ==
  ASSUME IInv, Books, NEW c \in Calls, CallStep(c)
  PROVE  Books'
<1>1. CASE \/ PromptPasses(c) \/ StreamOpens(c) \/ StreamEnds(c) \/ StreamBreaks(c)
           \/ SegmentCut(c)
  BY <1>1, MoveKeepsBooks
  DEF PromptPasses, StreamOpens, StreamEnds, StreamBreaks, SegmentCut, Owing
<1>2. CASE Judged(c) \/ TailDropped(c)
  BY <1>2, MoveKeepsBooks DEF Judged, TailDropped, Owing
<1>3. CASE PromptRefused(c) \/ SendFails(c) \/ Cancelled(c)
  BY <1>3, GiveUpKeepsBooks DEF PromptRefused, SendFails, Cancelled
<1>4. ASSUME NEW tokens \in Usages, UnaryAnswer(c, tokens) PROVE Books'
  <2>1. PICK f \in {"judging", "done"} : phase' = [phase EXCEPT ![c] = f]
    BY <1>4 DEF UnaryAnswer
  <2> QED  BY <1>4, <2>1, MeterKeepsBooks DEF UnaryAnswer, Phases, Owing
<1>5. ASSUME NEW tokens \in Usages, Finish(c, tokens) PROVE Books'
  <2>1. PICK f \in {"tail", "done"} : phase' = [phase EXCEPT ![c] = f]
    BY <1>5 DEF Finish
  <2> QED  BY <1>5, <2>1, MeterKeepsBooks DEF Finish, Phases, Owing
<1>6. ASSUME NEW seen \in BOOLEAN, SegmentPasses(c, seen) PROVE Books'
  BY <1>6, MoveKeepsBooks DEF SegmentPasses, Owing
<1>7. ASSUME NEW seen \in BOOLEAN, TailPasses(c, seen) PROVE Books'
  BY <1>7, MoveKeepsBooks DEF TailPasses, Owing
<1> QED  BY <1>1, <1>2, <1>3, <1>4, <1>5, <1>6, <1>7 DEF CallStep

LEMMA NextKeepsBooks == IInv /\ Books /\ [Next]_vars => Books'
<1> SUFFICES ASSUME IInv, Books, [Next]_vars PROVE Books'
  OBVIOUS
<1>1. ASSUME NEW c \in Calls, NEW estimate \in Estimates, Admit(c, estimate) PROVE Books'
  BY <1>1, AdmitKeepsBooks
<1>2. ASSUME NEW c \in Calls, NEW estimate \in Estimates, Refuse(c, estimate) PROVE Books'
  BY <1>2, RefuseKeepsBooks
<1>3. ASSUME NEW c \in Calls, NEW k \in EventSizes, Event(c, k) PROVE Books'
  <2>1. PICK f \in {"streaming", "checking"} : phase' = [phase EXCEPT ![c] = f]
    BY <1>3 DEF Event, IInv, TypeOK
  <2>2. UNCHANGED <<ceilings, hold, used, ledger>> /\ phase[c] = "streaming"
    BY <1>3 DEF Event
  <2> QED  BY <2>1, <2>2, MoveKeepsBooks DEF Owing
<1>4. ASSUME NEW c \in Calls, CallStep(c) PROVE Books'
  BY <1>4, CallStepKeepsBooks
<1>5. CASE NextWindow \/ UNCHANGED vars
  <2>1. AllBooked'
    BY <1>5 DEF NextWindow, vars, Books, AllBooked, Booked
  <2>2. Balanced'
    BY <1>5, StillBalanced DEF NextWindow, vars, Books
  <2> QED  BY <2>1, <2>2 DEF Books
<1> QED  BY <1>1, <1>2, <1>3, <1>4, <1>5 DEF Next

LEMMA BooksAreKept == Spec => []Books
<1>1. Init => IInv /\ Books
  BY InitIInv, InitBooks
<1>2. IInv /\ Books /\ [Next]_vars => IInv' /\ Books'
  BY NextKeepsIInv, NextKeepsBooks
<1> QED  BY <1>1, <1>2, PTL DEF Spec

\* What is reserved on each ceiling is what the calls in flight hold there, and
\* the streams counted are the open ones, whatever the number of calls and
\* however each of them ends (key_ceilings.admit, settle).
THEOREM ReservationsAreInFlight == Spec => []ReservedIsInFlight
<1>1. Books => ReservedIsInFlight
  BY DEF Books, Balanced
<1> QED  BY <1>1, BooksAreKept, PTL

\* However many calls are admitted together, a ceiling is overrun by at most one
\* estimate and by what calls used beyond their own estimates (key_ceilings.admit).
THEOREM OverrunIsBounded == Spec => []OverrunBounded
<1>1. Books => OverrunBounded
  BY DEF Books, Balanced
<1> QED  BY <1>1, BooksAreKept, PTL

\* The ceilings and the group's ledger hold the sum of what the calls were
\* metered for, and the project's and the user's together the same sum
\* (key_ceilings.settle, quota.consume, finish).
THEOREM UsageIsCountedOnce == Spec => []CountedOnce
<1>1. Books => CountedOnce
  BY DEF Books, Balanced
<1> QED  BY <1>1, BooksAreKept, PTL

=============================================================================
