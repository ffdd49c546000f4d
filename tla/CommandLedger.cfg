SPECIFICATION Spec
CONSTANTS
  None = None
  p1 = p1
  p2 = p2
  c1 = c1
  c2 = c2
  c3 = c3
  k1 = k1
  k2 = k2
  q1 = q1
  q2 = q2
  Process = {p1, p2}
  Call = {c1, c2, c3}
  Home <- MCHome
  Key = {k1, k2}
  Request = {q1, q2}
  MaxEvents = 2
INVARIANTS
  TypeOK
  CommittedReceiptsExact
  AnswersAreDurable
PROPERTIES
  ImplementsExactlyOnce
SYMMETRY Symmetry
