------------------------- MODULE TuningController -------------------------
(***************************************************************************)
(* The bounded autonomous tuner of the AI gateway (ai-gateway/app/         *)
(* optimizer.py) and the admin endpoints that drive it.  The tuner holds   *)
(* runtime overrides of a few parameters (the cache TTL, the cache flag of *)
(* a model, the adapter of an agent's task), an audit log, and the open    *)
(* actions: those a breach or the kill switch still rolls back.            *)
(*                                                                         *)
(* Every method runs on the event loop without an await, so each is one    *)
(* step.  A refused recommendation changes nothing and is not a step.      *)
(* Nothing is persisted: Restart is a new pod.                             *)
(***************************************************************************)
EXTENDS Naturals, Sequences

CONSTANTS
  Parameters,   \* what may be tuned: the TTL, a model's flag, a task's adapter
  Ttl,          \* the one whose rollback clears the override whatever it was
  Values,       \* what a recommendation may propose
  None,         \* no override: the deployment's own value applies
  Policies,     \* the policy files an operator may ship
  Window,       \* bound: the longest evaluation_window_seconds, in ticks
  MaxAudit      \* bound: recommendations applied in the life of a pod

ASSUME PoliciesAssumption ==
  Policies \subseteq [enabled : BOOLEAN, kill_switch : BOOLEAN, window : 0 .. Window,
                      allowed : [Parameters -> SUBSET Values]]
ASSUME NoneAssumption == None \notin Values
ASSUME BoundsAssumption == Window \in Nat /\ MaxAudit \in Nat

VARIABLES
  policy,      \* the policy last loaded
  killed,      \* the kill switch was engaged in this pod
  override,    \* the runtime override of each parameter
  applied,     \* the open actions; their entries in the log order them
  audit_log,   \* every action of this pod
  stacked      \* history: parameters tuned again while an action on them was open

vars == <<policy, killed, override, applied, audit_log, stacked>>

Statuses == {"applied", "rolled_back", "reverted_by_kill"}
Overrides == Values \cup {None}
Entry == [parameter : Parameters, new_value : Values, status : Statuses]
Action == [parameter : Parameters, entry : Nat, restores : Overrides, left : 0 .. Window]

TypeOK ==
  /\ policy \in Policies
  /\ killed \in BOOLEAN
  /\ override \in [Parameters -> Overrides]
  /\ applied \subseteq Action
  /\ audit_log \in Seq(Entry)
  /\ \A a \in applied : a.entry \in DOMAIN audit_log
  /\ stacked \subseteq Parameters

Fresh ==
  /\ killed = FALSE
  /\ override = [p \in Parameters |-> None]
  /\ applied = {}
  /\ audit_log = << >>
  /\ stacked = {}

Init == policy \in Policies /\ Fresh

(***************************************************************************)
(* A recommendation within the policy.  Its rollback restores the override *)
(* it found, except for the TTL, whose rollback clears it.                 *)
(***************************************************************************)
Active == ~killed /\ ~policy.kill_switch /\ policy.enabled

OpenOn(p) == {a \in applied : a.parameter = p}

Restores(p) == IF p = Ttl THEN None ELSE override[p]

Apply(p, v) ==
  /\ Active
  /\ v \in policy.allowed[p]
  /\ Len(audit_log) < MaxAudit
  /\ override' = [override EXCEPT ![p] = v]
  /\ audit_log' = Append(audit_log, [parameter |-> p, new_value |-> v, status |-> "applied"])
  /\ applied' = applied \cup {[parameter |-> p, entry |-> Len(audit_log) + 1,
                               restores |-> Restores(p), left |-> policy.window]}
  /\ stacked' = IF OpenOn(p) = {} THEN stacked ELSE stacked \cup {p}
  /\ UNCHANGED <<policy, killed>>

(***************************************************************************)
(* Rolling back runs the closures oldest first, so of several open actions *)
(* on one parameter the newest has the last word.                          *)
(***************************************************************************)
Newest(p) == {a \in OpenOn(p) : \A b \in OpenOn(p) : b.entry <= a.entry}

\* A rollback that stops short of the newest action.
RolledBackButOne(p, v) ==
  IF OpenOn(p) = {} \/ \E a \in OpenOn(p) : a.entry = Len(audit_log)
  THEN v = override[p] ELSE \E a \in Newest(p) : v = a.restores

RolledBack(p, v) ==
  IF OpenOn(p) = {} THEN v = override[p] ELSE \E a \in Newest(p) : v = a.restores

OpenEntries == {a.entry : a \in applied}

Revert(status) ==
  /\ override' \in [Parameters -> Overrides]
  /\ \A p \in Parameters : RolledBack(p, override'[p])
  /\ audit_log' = [i \in DOMAIN audit_log |->
                     IF i \in OpenEntries THEN [audit_log[i] EXCEPT !.status = status]
                                          ELSE audit_log[i]]
  /\ applied' = {}
  /\ UNCHANGED stacked

(***************************************************************************)
(* report_outcome: a breach rolls everything open back, a healthy report   *)
(* settles the actions whose window is over.                               *)
(***************************************************************************)
ReportBreach == Revert("rolled_back") /\ UNCHANGED <<policy, killed>>

ReportHealthy ==
  /\ applied' = {a \in applied : a.left > 0}
  /\ UNCHANGED <<policy, killed, override, audit_log, stacked>>

(***************************************************************************)
(* The kill switch, by its endpoint or by a reloaded policy; only a new    *)
(* pod forgets it.                                                         *)
(***************************************************************************)
Kill == killed' = TRUE /\ Revert("reverted_by_kill") /\ UNCHANGED policy

\* A reload that takes the policy and leaves the overrides for later.
ReloadPolicyOnly(f) ==
  /\ policy' = f
  /\ killed' = (killed \/ f.kill_switch)
  /\ UNCHANGED <<override, applied, audit_log, stacked>>

\* A reload that takes the file's word for the kill switch.
ReloadPolicyAfresh(f) ==
  /\ policy' = f
  /\ killed' = f.kill_switch
  /\ IF f.kill_switch THEN Revert("reverted_by_kill")
                      ELSE UNCHANGED <<override, applied, audit_log, stacked>>

ReloadPolicy(f) ==
  /\ policy' = f
  /\ IF f.kill_switch THEN killed' = TRUE /\ Revert("reverted_by_kill")
                      ELSE UNCHANGED <<killed, override, applied, audit_log, stacked>>

Restart ==
  /\ policy' \in Policies
  /\ killed' = FALSE
  /\ override' = [p \in Parameters |-> None]
  /\ applied' = {}
  /\ audit_log' = << >>
  /\ stacked' = {}

Tick ==
  /\ \E a \in applied : a.left > 0
  /\ applied' = {[a EXCEPT !.left = IF @ > 0 THEN @ - 1 ELSE 0] : a \in applied}
  /\ UNCHANGED <<policy, killed, override, audit_log, stacked>>

Next ==
  \/ \E p \in Parameters, v \in Values : Apply(p, v)
  \/ ReportBreach
  \/ ReportHealthy
  \/ Kill
  \/ \E f \in Policies : ReloadPolicy(f)
  \/ Restart
  \/ Tick

Spec == Init /\ [][Next]_vars

-----------------------------------------------------------------------------
(***************************************************************************)
(* The log tells which override is in force, whatever was applied,         *)
(* settled, breached, killed and reloaded: that of the last action no      *)
(* rollback has resolved, and none if there is no such action; for the     *)
(* TTL, whose rollback clears it, one resolved action undoes those before  *)
(* it.  So a breach or a kill leaves of a parameter what had been settled  *)
(* before and nothing else (report_outcome, kill).  Parameters with two    *)
(* actions open at once are excepted: of those, a kill leaves the older    *)
(* value in force although the log has both as reverted                    *)
(* (optimizer.py:317).                                                     *)
(***************************************************************************)
On(p) == {i \in DOMAIN audit_log : audit_log[i].parameter = p}

Standing(p) ==
  {i \in On(p) : /\ audit_log[i].status = "applied"
                 /\ p = Ttl => \A j \in On(p) : j > i => audit_log[j].status = "applied"}

OverridesFollowTheLog ==
  \A p \in Parameters \ stacked :
    /\ Standing(p) = {} => override[p] = None
    /\ \A i \in Standing(p) :
         (\A j \in Standing(p) : j <= i) => override[p] = audit_log[i].new_value

(***************************************************************************)
(* While the kill switch is engaged, by the endpoint or in the policy that *)
(* was last loaded, no action is open (kill, reload_policy).               *)
(***************************************************************************)
NothingOpenWhenOff == killed \/ policy.kill_switch => applied = {}

(***************************************************************************)
(* In one pod nothing follows a kill: whatever is reloaded or recommended, *)
(* the switch stays engaged, the overrides and the log stay as it left     *)
(* them (_refuse_if_inactive; "all autonomy halted").                      *)
(***************************************************************************)
KillIsFinal ==
  [][killed => \/ killed' /\ UNCHANGED <<override, audit_log>>
               \/ Fresh']_vars

=============================================================================
