CONSTANTS
  t1 = t1
  t2 = t2
  x1 = x1
  x2 = x2
  q1 = q1
  q2 = q2
  alice = alice
  bob = bob
  None = None
  Nobody = Nobody
  Tasks = {t1}
  Callers = {alice, bob}
  Requests = {q1, q2}
  Turns = {x1, x2}
  Timeout = 1
  MaxPending = 1
  MaxRounds = 0
  Batches <- MCWrites
  PolicyEdits = {FALSE}
SPECIFICATION Spec
INVARIANTS
  OnePlace
  InputMeansAnswerable
PROPERTY KeepsThePromise
SYMMETRY MCSymmetry
CHECK_DEADLOCK FALSE
