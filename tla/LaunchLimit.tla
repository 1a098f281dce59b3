---------------------------- MODULE LaunchLimit ----------------------------
(***************************************************************************)
(* The limit on launches of the cluster audit (mcp-servers/aap/server.py:  *)
(* _reserve_launch, _release_launch).  A caller's bucket is the deque of   *)
(* the stamps of its launches, which are appended in the order of time and *)
(* leave from its front when they expire, so that how many it has of each  *)
(* instant is all there is to it; a caller that has no bucket has none.    *)
(***************************************************************************)
EXTENDS Naturals, FiniteSets

CONSTANTS
  Limit,    \* AAP_CLUSTER_AUDIT_RATE_LIMIT; 0, no limit, is left out
  Window,   \* AAP_CLUSTER_AUDIT_RATE_WINDOW_SECONDS
  MaxTime   \* bound: the instants of the clock, 0 .. MaxTime

ASSUME LimitAssumption == Limit \in Nat \ {0} /\ Window \in Nat \ {0} /\ MaxTime \in Nat

Instants == 0 .. MaxTime
Buckets == [Instants -> Nat]
NoLaunch == [t \in Instants |-> 0]

Live(stamp, now) == now - stamp < Window

\* Every bucket without the stamps that have left the window.
Pruned(buckets, now) ==
  [u \in DOMAIN buckets |-> [t \in Instants |-> IF Live(t, now) THEN buckets[u][t] ELSE 0]]

\* The stamps of a bucket: the n-th of an instant is <<t, n>>.
Stamps(bucket) == UNION {{t} \X (1 .. bucket[t]) : t \in Instants}

\* At the limit: RateLimited.
Full(buckets, u, now) == Cardinality(Stamps(Pruned(buckets, now)[u])) >= Limit

Reserved(buckets, u, now) ==
  LET pruned == Pruned(buckets, now)
  IN  IF Full(buckets, u, now) THEN pruned ELSE [pruned EXCEPT ![u][now] = @ + 1]

Without(bucket, stamp) == [bucket EXCEPT ![stamp] = IF @ > 0 THEN @ - 1 ELSE 0]

\* Mutant of Released: the oldest stamp goes, whose it may be.
ReleasedOldest(buckets, u, stamp) ==
  LET held == {t \in Instants : buckets[u][t] > 0}
  IN  IF held = {} THEN buckets
      ELSE [buckets EXCEPT ![u] = Without(@, CHOOSE t \in held : \A s \in held : t <= s)]

\* One occurrence of the stamp goes; it may have been pruned.
Released(buckets, u, stamp) == [buckets EXCEPT ![u] = Without(@, stamp)]

=============================================================================
