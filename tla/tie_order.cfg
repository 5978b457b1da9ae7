\* Two changes to one row, in both orders.
SPECIFICATION Spec
CONSTANTS
  Users = {alice}
  Ids = {x}
  Values = {v, w}
  Times = {1, 2}
  None = None
  Partial = Partial
  Malformed = Malformed
INVARIANT TiesAgree
