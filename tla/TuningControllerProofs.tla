---------------------- MODULE TuningControllerProofs ----------------------
(***************************************************************************)
(* For every set of parameters, values and policies: the override in force *)
(* is the one the audit log tells, but for parameters with two actions     *)
(* open at once; nothing is open while the switch is engaged, and a kill   *)
(* is final.                                                               *)
(***************************************************************************)
EXTENDS TuningController, TLAPS

\* An open action is in the log, unresolved.  On a parameter that is not
\* stacked it is the last one, and what it would bring back is what the log
\* before it tells.
InLog(a) ==
  /\ audit_log[a.entry].parameter = a.parameter
  /\ audit_log[a.entry].status = "applied"
  /\ a.parameter = Ttl => a.restores = None
  /\ a.parameter \notin stacked => \A i \in On(a.parameter) : i <= a.entry

RestoresTheLog(a) ==
  a.parameter \notin stacked \cup {Ttl} =>
    LET before == {i \in Standing(a.parameter) : i < a.entry}
    IN  /\ before = {} => a.restores = None
        /\ \A i \in before :
             (\A j \in before : j <= i) => a.restores = audit_log[i].new_value

OpenActionsInLog == \A a \in applied : InLog(a) /\ RestoresTheLog(a)

IInv == TypeOK /\ NothingOpenWhenOff /\ OpenActionsInLog /\ OverridesFollowTheLog

LEMMA InitIInv == Init => IInv
<1> SUFFICES ASSUME Init PROVE IInv
  OBVIOUS
<1>0. /\ audit_log \in Seq(Entry)
      /\ override \in [Parameters -> Overrides]
  BY DEF Init, Fresh, Overrides
<1>1. TypeOK
  BY <1>0 DEF Init, Fresh, TypeOK
<1>2. NothingOpenWhenOff /\ OpenActionsInLog
  BY DEF Init, Fresh, NothingOpenWhenOff, OpenActionsInLog
<1>3. OverridesFollowTheLog
  <2>0. DOMAIN audit_log = {}
    BY DEF Init, Fresh
  <2>1. \A p \in Parameters : On(p) = {}
    BY <2>0 DEF On
  <2>2. \A p \in Parameters : Standing(p) = {} /\ override[p] = None
    BY <2>1 DEF Init, Fresh, Standing
  <2> QED  BY <2>2 DEF OverridesFollowTheLog
<1> QED  BY <1>1, <1>2, <1>3 DEF IInv

-----------------------------------------------------------------------------
\* Recommendations: the log only grows by the new entry.
LEMMA ApplyLog ==
  ASSUME TypeOK, NEW p \in Parameters, NEW v \in Values, Apply(p, v)
  PROVE  LET n == Len(audit_log) + 1
             e == [parameter |-> p, new_value |-> v, status |-> "applied"]
         IN  /\ n \in Nat \ {0}
             /\ audit_log' \in Seq(Entry)
             /\ DOMAIN audit_log' = 1 .. n /\ DOMAIN audit_log = 1 .. n - 1
             /\ \A i \in DOMAIN audit_log : audit_log'[i] = audit_log[i]
             /\ audit_log'[n] = e
<1> DEFINE e == [parameter |-> p, new_value |-> v, status |-> "applied"]
<1>1. e \in Entry
  BY DEF Entry, Statuses
<1>2. audit_log' = Append(audit_log, e)
  BY DEF Apply
<1> HIDE DEF e
<1>3. /\ audit_log' \in Seq(Entry) /\ Len(audit_log) \in Nat
      /\ DOMAIN audit_log' = 1 .. Len(audit_log) + 1 /\ DOMAIN audit_log = 1 .. Len(audit_log)
      /\ \A i \in DOMAIN audit_log : audit_log'[i] = audit_log[i]
      /\ audit_log'[Len(audit_log) + 1] = e
  BY <1>1, <1>2 DEF TypeOK
<1> QED  BY <1>3 DEF e

LEMMA ApplyTyped ==
  ASSUME TypeOK, NEW p \in Parameters, NEW v \in Values, Apply(p, v)
  PROVE  TypeOK'
<1>1. /\ override' \in [Parameters -> Overrides] /\ Restores(p) \in Overrides
      /\ stacked' \subseteq Parameters
  BY DEF TypeOK, Apply, Overrides, Restores
<1>2. PICK n \in Nat \ {0} : /\ n = Len(audit_log) + 1 /\ DOMAIN audit_log' = 1 .. n
                             /\ DOMAIN audit_log = 1 .. n - 1 /\ audit_log' \in Seq(Entry)
  BY ApplyLog
<1>3. PICK a : /\ a = [parameter |-> p, entry |-> n, restores |-> Restores(p), left |-> policy.window]
               /\ applied' = applied \cup {a}
  BY <1>2 DEF Apply
<1>4. policy.window \in 0 .. Window
  BY PoliciesAssumption DEF TypeOK
<1>5. a \in Action /\ a.entry = n
  BY <1>1, <1>3, <1>4 DEF Action
<1>6. applied' \subseteq Action /\ \A b \in applied' : b.entry \in DOMAIN audit_log'
  BY <1>2, <1>3, <1>5 DEF TypeOK
<1> QED  BY <1>1, <1>2, <1>6 DEF TypeOK, Apply

\* The new entry stands, and the others stand as they did.
LEMMA ApplyStanding ==
  ASSUME TypeOK, NEW p \in Parameters, NEW v \in Values, Apply(p, v), NEW q \in Parameters
  PROVE  LET n == Len(audit_log) + 1
         IN  /\ On(q)' = IF q = p THEN On(q) \cup {n} ELSE On(q)
             /\ Standing(q)' = IF q = p THEN Standing(q) \cup {n} ELSE Standing(q)
             /\ On(q) \subseteq 1 .. n - 1 /\ Standing(q) \subseteq 1 .. n - 1
<1>1. PICK n \in Nat \ {0} :
      /\ n = Len(audit_log) + 1
      /\ DOMAIN audit_log' = 1 .. n /\ DOMAIN audit_log = 1 .. n - 1
      /\ \A i \in DOMAIN audit_log : audit_log'[i] = audit_log[i]
      /\ audit_log'[n] = [parameter |-> p, new_value |-> v, status |-> "applied"]
  BY ApplyLog
<1>2. On(q)' = IF q = p THEN On(q) \cup {n} ELSE On(q)
  BY <1>1 DEF On
<1>3. On(q) \subseteq 1 .. n - 1
  BY <1>1 DEF On
<1>4. Standing(q)' = IF q = p THEN Standing(q) \cup {n} ELSE Standing(q)
  <2>1. \A i \in On(q) : audit_log'[i].status = audit_log[i].status
    BY <1>1 DEF On
  <2>2. q = p => audit_log'[n].status = "applied"
    BY <1>1
  <2> QED  BY <1>2, <1>3, <2>1, <2>2 DEF Standing
<1> QED  BY <1>1, <1>2, <1>3, <1>4 DEF Standing

LEMMA ApplyFollows ==
  ASSUME IInv, NEW p \in Parameters, NEW v \in Values, Apply(p, v)
  PROVE  OverridesFollowTheLog'
<1>1. PICK n \in Nat \ {0} :
      /\ n = Len(audit_log) + 1 /\ DOMAIN audit_log = 1 .. n - 1
      /\ \A i \in DOMAIN audit_log : audit_log'[i] = audit_log[i]
      /\ audit_log'[n] = [parameter |-> p, new_value |-> v, status |-> "applied"]
  BY ApplyLog DEF IInv
<1>2. ASSUME NEW q \in Parameters, q \notin stacked'
      PROVE  /\ Standing(q)' = {} => override'[q] = None
             /\ \A i \in Standing(q)' :
                  (\A j \in Standing(q)' : j <= i) => override'[q] = audit_log'[i].new_value
  <2>0. PICK S : S = Standing(q)
    OBVIOUS
  <2>1. /\ Standing(q)' = IF q = p THEN S \cup {n} ELSE S
        /\ S \subseteq 1 .. n - 1
    BY <1>1, <2>0, ApplyStanding DEF IInv
  <2>2. CASE q = p
    <3>1. override'[q] = v
      BY <2>2 DEF IInv, TypeOK, Apply
    <3>2. audit_log'[n].new_value = v /\ n \in Standing(q)'
      BY <1>1, <2>1, <2>2
    <3>3. \A i \in Standing(q)' : n <= i => i = n
      <4>1. Standing(q)' \subseteq 1 .. n
        BY <2>1, <2>2
      <4> QED  BY <4>1
    <3> QED  BY <3>1, <3>2, <3>3
  <2>3. CASE q # p
    <3>1. override'[q] = override[q]
      BY <2>3 DEF IInv, TypeOK, Apply
    <3>2. q \notin stacked
      BY <1>2 DEF Apply
    <3>3. /\ S = {} => override[q] = None
          /\ \A i \in S : (\A j \in S : j <= i) => override[q] = audit_log[i].new_value
      BY <2>0, <3>2 DEF IInv, OverridesFollowTheLog
    <3>4. \A i \in S : audit_log'[i] = audit_log[i]
      BY <1>1, <2>1
    <3> QED  BY <2>1, <2>3, <3>1, <3>3, <3>4
  <2> QED  BY <2>2, <2>3
<1> QED  BY <1>2 DEF OverridesFollowTheLog

LEMMA ApplyOpen ==
  ASSUME IInv, NEW p \in Parameters, NEW v \in Values, Apply(p, v)
  PROVE  OpenActionsInLog'
<1>1. PICK n \in Nat \ {0} :
      /\ n = Len(audit_log) + 1
      /\ DOMAIN audit_log' = 1 .. n /\ DOMAIN audit_log = 1 .. n - 1
      /\ \A i \in DOMAIN audit_log : audit_log'[i] = audit_log[i]
      /\ audit_log'[n] = [parameter |-> p, new_value |-> v, status |-> "applied"]
  BY ApplyLog DEF IInv
<1>2. PICK b : /\ b = [parameter |-> p, entry |-> n, restores |-> Restores(p), left |-> policy.window]
               /\ applied' = applied \cup {b}
  BY <1>1 DEF Apply
<1>3. \A q \in Parameters : /\ On(q)' = IF q = p THEN On(q) \cup {n} ELSE On(q)
                            /\ Standing(q)' = IF q = p THEN Standing(q) \cup {n} ELSE Standing(q)
                            /\ On(q) \subseteq 1 .. n - 1 /\ Standing(q) \subseteq 1 .. n - 1
  BY <1>1, ApplyStanding DEF IInv
<1>4. stacked' = IF OpenOn(p) = {} THEN stacked ELSE stacked \cup {p}
  BY DEF Apply
<1>5. ASSUME NEW a \in applied PROVE InLog(a)' /\ RestoresTheLog(a)'
  <2>1. /\ a.entry \in DOMAIN audit_log /\ a.parameter \in Parameters
        /\ InLog(a) /\ RestoresTheLog(a)
    BY DEF IInv, TypeOK, OpenActionsInLog, Action
  <2>2. a.parameter = p => p \in stacked'
    BY <1>4 DEF OpenOn
  <2>3. audit_log'[a.entry] = audit_log[a.entry]
    BY <1>1, <2>1
  <2>4. CASE a.parameter \in stacked'
    BY <2>1, <2>3, <2>4 DEF InLog, RestoresTheLog
  <2>5. CASE a.parameter \notin stacked'
    <3>1. /\ On(a.parameter)' = On(a.parameter) /\ Standing(a.parameter)' = Standing(a.parameter)
          /\ a.parameter \notin stacked
      BY <1>3, <1>4, <2>1, <2>2, <2>5
    <3>2. InLog(a)'
      BY <2>1, <2>3, <3>1 DEF InLog
    <3>3. \A i \in Standing(a.parameter) : audit_log'[i] = audit_log[i]
      BY <1>1, <1>3, <2>1
    <3>4. RestoresTheLog(a)'
      BY <2>1, <3>1, <3>3 DEF RestoresTheLog
    <3> QED  BY <3>2, <3>4
  <2> QED  BY <2>4, <2>5
<1>6. InLog(b)' /\ RestoresTheLog(b)'
  <2>1. PICK r : r = Restores(p)
    OBVIOUS
  <2>2. /\ b.parameter = p /\ b.entry = n /\ b.restores = r
        /\ audit_log'[n].parameter = p /\ audit_log'[n].status = "applied"
    BY <2>1, <1>1, <1>2
  <2>3. p = Ttl => r = None
    BY <2>1 DEF Restores
  <2>4. InLog(b)'
    <3>1. \A i \in On(p)' : i <= n
      BY <1>3
    <3> QED  BY <2>2, <2>3, <3>1 DEF InLog
  <2>5. RestoresTheLog(b)'
    <3> SUFFICES ASSUME p \notin stacked' \cup {Ttl} PROVE RestoresTheLog(b)'
      BY <2>2 DEF RestoresTheLog
    <3>1. p \notin stacked /\ r = override[p]
      BY <1>4, <2>1 DEF Restores
    <3>2. PICK S : S = Standing(p)
      OBVIOUS
    <3>3. /\ S = {} => r = None
          /\ \A i \in S : (\A j \in S : j <= i) => r = audit_log[i].new_value
      BY <3>1, <3>2 DEF IInv, OverridesFollowTheLog
    <3>4. S = {i \in Standing(p)' : i < n} /\ \A i \in S : audit_log'[i] = audit_log[i]
      BY <1>1, <1>3, <3>2
    <3> QED  BY <2>2, <3>3, <3>4 DEF RestoresTheLog
  <2> QED  BY <2>4, <2>5
<1> QED  BY <1>2, <1>5, <1>6 DEF OpenActionsInLog

LEMMA ApplyKeepsIInv ==
  ASSUME IInv, NEW p \in Parameters, NEW v \in Values, Apply(p, v)
  PROVE  IInv'
<1>1. NothingOpenWhenOff'
  BY DEF NothingOpenWhenOff, Apply, Active
<1> QED  BY <1>1, ApplyTyped, ApplyFollows, ApplyOpen DEF IInv

-----------------------------------------------------------------------------
\* Rollbacks: the log keeps its entries, and the open ones are resolved.
LEMMA RevertLog ==
  ASSUME TypeOK, NEW status \in Statuses \ {"applied"}, Revert(status)
  PROVE  /\ audit_log' \in Seq(Entry)
         /\ DOMAIN audit_log' = DOMAIN audit_log
         /\ \A i \in DOMAIN audit_log :
              /\ audit_log'[i].parameter = audit_log[i].parameter
              /\ audit_log'[i].new_value = audit_log[i].new_value
              /\ i \in OpenEntries => audit_log'[i].status # "applied"
              /\ i \notin OpenEntries => audit_log'[i].status = audit_log[i].status
              /\ audit_log[i].status # "applied" => audit_log'[i].status # "applied"
<1>1. PICK n \in Nat : DOMAIN audit_log = 1 .. n
  BY DEF TypeOK
<1>2. \A i \in DOMAIN audit_log : audit_log[i] \in Entry
  BY DEF TypeOK
<1>3. \A i \in DOMAIN audit_log :
        audit_log'[i] = IF i \in OpenEntries THEN [audit_log[i] EXCEPT !.status = status]
                                             ELSE audit_log[i]
  BY DEF Revert
<1>4. DOMAIN audit_log' = DOMAIN audit_log
  BY DEF Revert
<1>5. \A i \in DOMAIN audit_log : audit_log'[i] \in Entry
  BY <1>2, <1>3 DEF Entry
<1>6. audit_log' = [i \in 1 .. n |-> audit_log'[i]]
  BY <1>1 DEF Revert
<1>7. audit_log' \in Seq(Entry)
  BY <1>1, <1>5, <1>6
<1> QED  BY <1>2, <1>3, <1>4, <1>7 DEF Entry

LEMMA RevertFollows ==
  ASSUME IInv, NEW status \in Statuses \ {"applied"}, Revert(status)
  PROVE  OverridesFollowTheLog'
<1>1. /\ DOMAIN audit_log' = DOMAIN audit_log
      /\ \A i \in DOMAIN audit_log :
           /\ audit_log'[i].parameter = audit_log[i].parameter
           /\ audit_log'[i].new_value = audit_log[i].new_value
           /\ i \in OpenEntries => audit_log'[i].status # "applied"
           /\ i \notin OpenEntries => audit_log'[i].status = audit_log[i].status
  BY RevertLog DEF IInv
<1>2. \A a \in applied : a.entry \in DOMAIN audit_log /\ InLog(a) /\ RestoresTheLog(a)
  BY DEF IInv, TypeOK, OpenActionsInLog
<1>3. \E n \in Nat : DOMAIN audit_log = 1 .. n
  BY DEF IInv, TypeOK
<1>4. ASSUME NEW p \in Parameters, p \notin stacked
      PROVE  /\ Standing(p)' = {} => override'[p] = None
             /\ \A i \in Standing(p)' :
                  (\A j \in Standing(p)' : j <= i) => override'[p] = audit_log'[i].new_value
  <2>0. RolledBack(p, override'[p]) /\ On(p)' = On(p)
    BY <1>1 DEF Revert, On
  <2>1. CASE OpenOn(p) = {}
    <3>1. override'[p] = override[p]
      BY <2>0, <2>1 DEF RolledBack
    <3>2. \A i \in On(p) : i \notin OpenEntries
      BY <2>1, <1>2 DEF OpenEntries, OpenOn, InLog, On
    <3>3. Standing(p)' = Standing(p)
      BY <1>1, <2>0, <3>2 DEF Standing, On
    <3>4. /\ Standing(p) = {} => override[p] = None
          /\ \A i \in Standing(p) :
               (\A j \in Standing(p) : j <= i) => override[p] = audit_log[i].new_value
      BY <1>4 DEF IInv, OverridesFollowTheLog
    <3>5. \A i \in Standing(p) : audit_log'[i].new_value = audit_log[i].new_value
      BY <1>1 DEF Standing, On
    <3> QED  BY <3>1, <3>3, <3>4, <3>5
  <2>2. CASE OpenOn(p) # {}
    <3>1. PICK a \in applied : a.parameter = p /\ override'[p] = a.restores
      BY <2>0, <2>2 DEF RolledBack, Newest, OpenOn
    <3>2. PICK e : e = a.entry
      OBVIOUS
    <3>3. e \in On(p) /\ \A i \in On(p) : i <= e
      BY <1>2, <1>4, <3>1, <3>2 DEF InLog, On
    <3>4. \A i \in On(p) : i \in OpenEntries <=> i = e
      <4>1. ASSUME NEW i \in On(p), i \in OpenEntries PROVE i = e
        <5>1. PICK b \in applied : b.entry = i
          BY <4>1 DEF OpenEntries
        <5>2. b.parameter = p
          BY <1>2, <4>1, <5>1 DEF InLog, On
        <5>3. e <= i
          BY <1>2, <1>4, <3>3, <5>1, <5>2 DEF InLog
        <5>4. i <= e /\ i \in Nat /\ e \in Nat
          BY <1>3, <3>3, <4>1 DEF On
        <5> QED  BY <5>3, <5>4
      <4>2. e \in OpenEntries
        BY <3>2 DEF OpenEntries
      <4> QED  BY <4>1, <4>2
    <3>5. /\ audit_log'[e].status # "applied"
          /\ \A i \in On(p) : i # e => audit_log'[i].status = audit_log[i].status
      BY <1>1, <3>3, <3>4 DEF On
    <3>6. \A i \in On(p) : i # e => i < e
      BY <1>3, <3>3 DEF On
    <3>7. CASE p = Ttl
      <4>1. override'[p] = None
        BY <1>2, <3>1, <3>7 DEF InLog
      <4>2. Standing(p)' = {}
        BY <2>0, <3>3, <3>5, <3>6, <3>7 DEF Standing
      <4> QED  BY <4>1, <4>2
    <3>8. CASE p # Ttl
      <4>1. PICK B : B = {i \in Standing(p) : i < e}
        OBVIOUS
      <4>2. /\ B = {} => override'[p] = None
            /\ \A i \in B : (\A j \in B : j <= i) => override'[p] = audit_log[i].new_value
        BY <1>2, <1>4, <3>1, <3>2, <3>8, <4>1 DEF RestoresTheLog
      <4>3. \A i \in B : i < e /\ i \in On(p)
        BY <4>1 DEF Standing
      <4>4. Standing(p)' = B
        <5>1. Standing(p)' = {i \in On(p) : audit_log'[i].status = "applied"}
          BY <2>0, <3>8 DEF Standing
        <5>2. B = {i \in On(p) : audit_log[i].status = "applied" /\ i < e}
          BY <3>8, <4>1 DEF Standing
        <5>3. ~(e < e)
          BY <1>3, <3>3 DEF On
        <5> QED  BY <3>5, <3>6, <5>1, <5>2, <5>3
      <4>5. \A i \in B : audit_log'[i].new_value = audit_log[i].new_value
        BY <1>1, <4>3 DEF On
      <4> QED  BY <4>2, <4>4, <4>5
    <3> QED  BY <3>7, <3>8
  <2> QED  BY <2>1, <2>2
<1>5. stacked' = stacked
  BY DEF Revert
<1> QED  BY <1>4, <1>5 DEF OverridesFollowTheLog

LEMMA RevertKeepsIInv ==
  ASSUME IInv, NEW status \in Statuses \ {"applied"}, Revert(status),
         killed' \in BOOLEAN, policy' \in Policies
  PROVE  IInv'
<1>1. applied' = {} /\ override' \in [Parameters -> Overrides] /\ stacked' = stacked
  BY DEF Revert
<1>2. audit_log' \in Seq(Entry)
  BY RevertLog DEF IInv
<1>3. TypeOK'
  BY <1>1, <1>2 DEF IInv, TypeOK
<1>4. NothingOpenWhenOff' /\ OpenActionsInLog'
  BY <1>1 DEF NothingOpenWhenOff, OpenActionsInLog
<1> QED  BY <1>3, <1>4, RevertFollows DEF IInv

-----------------------------------------------------------------------------
\* A report that settles actions, and the clock, leave the log alone.
LEMMA SettleKeepsIInv ==
  ASSUME IInv, ReportHealthy
  PROVE  IInv'
<1>1. applied' \subseteq applied /\ UNCHANGED <<policy, killed, override, audit_log, stacked>>
  BY DEF ReportHealthy
<1>2. TypeOK' /\ NothingOpenWhenOff'
  BY <1>1 DEF IInv, TypeOK, NothingOpenWhenOff
<1>3. OpenActionsInLog'
  BY <1>1 DEF IInv, OpenActionsInLog, InLog, RestoresTheLog, On, Standing
<1>4. OverridesFollowTheLog'
  BY <1>1 DEF IInv, OverridesFollowTheLog, On, Standing
<1> QED  BY <1>2, <1>3, <1>4 DEF IInv

LEMMA TickKeepsIInv ==
  ASSUME IInv, Tick
  PROVE  IInv'
<1>1. UNCHANGED <<policy, killed, override, audit_log, stacked>>
  BY DEF Tick
<1>2. ASSUME NEW b \in applied'
      PROVE  b \in Action /\ b.entry \in DOMAIN audit_log /\ InLog(b)' /\ RestoresTheLog(b)'
  <2>1. PICK a \in applied : b = [a EXCEPT !.left = IF @ > 0 THEN @ - 1 ELSE 0]
    BY DEF Tick
  <2>2. a \in Action /\ a.entry \in DOMAIN audit_log /\ InLog(a) /\ RestoresTheLog(a)
    BY DEF IInv, TypeOK, OpenActionsInLog
  <2>3. /\ b \in Action
        /\ b.entry = a.entry /\ b.parameter = a.parameter /\ b.restores = a.restores
    BY <2>1, <2>2, BoundsAssumption DEF Action
  <2> QED  BY <1>1, <2>2, <2>3 DEF InLog, RestoresTheLog, On, Standing
<1>3. TypeOK' /\ OpenActionsInLog'
  BY <1>1, <1>2 DEF IInv, TypeOK, OpenActionsInLog
<1>4. NothingOpenWhenOff'
  BY <1>1 DEF IInv, NothingOpenWhenOff, Tick
<1>5. OverridesFollowTheLog'
  BY <1>1 DEF IInv, OverridesFollowTheLog, On, Standing
<1> QED  BY <1>3, <1>4, <1>5 DEF IInv

LEMMA NextKeepsIInv == IInv /\ [Next]_vars => IInv'
<1> SUFFICES ASSUME IInv, [Next]_vars PROVE IInv'
  OBVIOUS
<1>0. {"rolled_back", "reverted_by_kill"} \subseteq Statuses \ {"applied"}
  BY DEF Statuses
<1>1. ASSUME NEW p \in Parameters, NEW v \in Values, Apply(p, v) PROVE IInv'
  BY <1>1, ApplyKeepsIInv
<1>2. CASE ReportBreach
  BY <1>0, <1>2, RevertKeepsIInv DEF ReportBreach, IInv, TypeOK
<1>3. CASE ReportHealthy
  BY <1>3, SettleKeepsIInv
<1>4. CASE Kill
  BY <1>0, <1>4, RevertKeepsIInv DEF Kill, IInv, TypeOK
<1>5. ASSUME NEW f \in Policies, ReloadPolicy(f) PROVE IInv'
  <2>1. CASE f.kill_switch
    BY <1>0, <1>5, <2>1, RevertKeepsIInv DEF ReloadPolicy
  <2>2. CASE ~f.kill_switch
    BY <1>5, <2>2 DEF ReloadPolicy, IInv, TypeOK, NothingOpenWhenOff, OpenActionsInLog,
       InLog, RestoresTheLog, OverridesFollowTheLog, On, Standing
  <2> QED  BY <2>1, <2>2
<1>6. CASE Restart
  <2>0. audit_log' \in Seq(Entry) /\ override' \in [Parameters -> Overrides]
    BY <1>6 DEF Restart, Overrides
  <2>1. TypeOK'
    BY <1>6, <2>0 DEF Restart, TypeOK
  <2>2. NothingOpenWhenOff' /\ OpenActionsInLog'
    BY <1>6 DEF Restart, NothingOpenWhenOff, OpenActionsInLog
  <2>3. OverridesFollowTheLog'
    BY <1>6 DEF Restart, OverridesFollowTheLog, On, Standing
  <2> QED  BY <2>1, <2>2, <2>3 DEF IInv
<1>7. CASE Tick
  BY <1>7, TickKeepsIInv
<1>8. CASE UNCHANGED vars
  BY <1>8 DEF vars, IInv, TypeOK, NothingOpenWhenOff, OpenActionsInLog, InLog,
     RestoresTheLog, OverridesFollowTheLog, On, Standing
<1> QED  BY <1>1, <1>2, <1>3, <1>4, <1>5, <1>6, <1>7, <1>8 DEF Next

LEMMA Invariance == Spec => []IInv
  BY InitIInv, NextKeepsIInv, PTL DEF Spec

\* In every reachable state the controller's state has its type.
THEOREM TypeCorrect == Spec => []TypeOK
<1>1. IInv => TypeOK
  BY DEF IInv
<1> QED  BY <1>1, Invariance, PTL

\* The override in force is the one the audit log tells (apply_*, _record,
\* report_outcome, kill), of every parameter without two open actions at once.
THEOREM TheLogTells == Spec => []OverridesFollowTheLog
<1>1. IInv => OverridesFollowTheLog
  BY DEF IInv
<1> QED  BY <1>1, Invariance, PTL

\* No action is open while the kill switch is engaged (kill, reload_policy).
THEOREM OffMeansNothingOpen == Spec => []NothingOpenWhenOff
<1>1. IInv => NothingOpenWhenOff
  BY DEF IInv
<1> QED  BY <1>1, Invariance, PTL

\* With nothing open, a rollback changes nothing.
LEMMA RevertOfNothing ==
  ASSUME TypeOK, applied = {}, NEW status, Revert(status)
  PROVE  UNCHANGED <<override, audit_log>>
<1>1. OpenEntries = {} /\ \A p \in Parameters : OpenOn(p) = {}
  BY DEF OpenEntries, OpenOn
<1>2. \A p \in Parameters : override'[p] = override[p]
  BY <1>1 DEF Revert, RolledBack
<1>3. override' \in [Parameters -> Overrides]
  BY DEF Revert
<1>4. override' = override
  BY <1>2, <1>3 DEF TypeOK
<1>5. audit_log' = [i \in DOMAIN audit_log |-> audit_log[i]]
  BY <1>1 DEF Revert
<1>6. audit_log = [i \in DOMAIN audit_log |-> audit_log[i]]
  BY DEF TypeOK
<1> QED  BY <1>4, <1>5, <1>6

\* Once killed, a pod stays killed, and neither a reload nor a recommendation
\* changes an override or the log (_refuse_if_inactive).
THEOREM KillHolds == Spec => KillIsFinal
<1>1. ASSUME IInv, [Next]_vars, killed
      PROVE  (killed' /\ UNCHANGED <<override, audit_log>>) \/ Fresh'
  <2>1. applied = {} /\ TypeOK
    BY <1>1 DEF IInv, NothingOpenWhenOff
  <2>2. \A status : Revert(status) => UNCHANGED <<override, audit_log>>
    BY <2>1, RevertOfNothing
  <2>3. CASE Next
    BY <1>1, <2>2, <2>3 DEF Next, Apply, Active, ReportBreach, ReportHealthy, Kill,
       ReloadPolicy, Restart, Fresh, Tick
  <2>4. CASE UNCHANGED vars
    BY <1>1, <2>4 DEF vars
  <2> QED  BY <1>1, <2>3, <2>4
<1>2. IInv /\ [Next]_vars =>
        [killed => (killed' /\ UNCHANGED <<override, audit_log>>) \/ Fresh']_vars
  BY <1>1
<1> QED  BY <1>2, Invariance, PTL DEF Spec, KillIsFinal

=============================================================================
