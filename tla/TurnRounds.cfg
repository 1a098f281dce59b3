CONSTANTS
  t1 = t1
  t2 = t2
  x1 = x1
  x2 = x2
  q1 = q1
  q2 = q2
  alice = alice
  bob = bob
  None = None
  Nobody = Nobody
  Tasks = {t1, t2}
  Callers = {alice}
  Requests = {q1, q2}
  Turns = {x1}
  Timeout = 1
  MaxPending = 1
  MaxRounds = 1
  Batches <- MCTwoCalls
  PolicyEdits = {}
SPECIFICATION FairSpec
INVARIANTS
  RoundsBounded
PROPERTY TurnsEnd
CHECK_DEADLOCK FALSE
