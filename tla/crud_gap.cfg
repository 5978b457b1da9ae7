\* A web write overtaken by a push: one table, one device.
SPECIFICATION Spec
CONSTANTS
  alice = alice
  bob = bob
  phone = phone
  tablet = tablet
  other = other
  x = x
  y = y
  z = z
  v = v
  w = w
  web1 = web1
  web2 = web2
  Users = {alice, bob}
  Ids = {x, y, z}
  Values = {v}
  Times = {1, 2}
  None = None
  Partial = Partial
  Malformed = Malformed
  Devices = {phone}
  UserOf <- MCUserOf
  NTables = 1
  TableOf <- OneTable
  Batches <- PlainBatches
  MaxPushes = 1
  AdoptPushCursor = FALSE
  Handlers = {web1}
  WebUser <- MCWebUser
  MaxEdits = 1
  Clock = {1}
  Cap = 1
  Pollers = {phone}
INVARIANT Covered
