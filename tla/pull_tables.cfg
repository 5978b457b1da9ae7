\* A push that commits between a pull's queries of two tables.
SPECIFICATION Spec
CONSTANTS
  alice = alice
  bob = bob
  phone = phone
  tablet = tablet
  other = other
  x = x
  y = y
  z = z
  v = v
  w = w
  web1 = web1
  web2 = web2
  Users = {alice, bob}
  Ids = {x, y}
  Values = {v}
  Times = {1, 2}
  None = None
  Partial = Partial
  Malformed = Malformed
  Devices = {phone}
  UserOf <- MCUserOf
  NTables = 2
  TableOf <- TwoTables
  Batches <- PlainBatches
  MaxPushes = 1
  AdoptPushCursor = FALSE
  Handlers = {}
  WebUser <- MCWebUser
  MaxEdits = 0
  Clock = {1}
  Cap = 1
  Pollers = {phone}
INVARIANT Covered
