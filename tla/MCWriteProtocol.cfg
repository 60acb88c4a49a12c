SPECIFICATION WriteSpec
CONSTANTS
  p1 = p1
  h1 = h1
  h2 = h2
  q1 = q1
  a1 = a1
  c1 = c1
  k1 = k1
  Request = {p1, h1, h2, q1, a1}
  Removal = {x1}
  Caller = {c1}
  Key = {k1}
  By <- MCBy
  KeyOf <- MCKeyOf
  Body <- MCKind
  Kind <- MCKind
  Target <- MCTarget
  MaxWriteFault = 1
  NoAnswer = NoAnswer
INVARIANTS WriteTypeOK OneEffectPerKey
PROPERTIES NoEffectBehindAnAnswer EffectWithAuthority RequestsEnd
CHECK_DEADLOCK FALSE
