\* A push, web edits and a pull over two tables of one account.
SPECIFICATION Spec
CONSTANTS
  alice = alice
  bob = bob
  phone = phone
  tablet = tablet
  other = other
  x = x
  y = y
  z = z
  v = v
  w = w
  web1 = web1
  web2 = web2
  Users = {alice, bob}
  Ids = {x, y, z}
  Values = {v}
  Times = {1, 2}
  None = None
  Partial = Partial
  Malformed = Malformed
  Devices = {phone}
  UserOf <- MCUserOf
  NTables = 2
  TableOf <- TwoTables
  Batches <- MixedBatches
  MaxPushes = 1
  AdoptPushCursor = TRUE
  Handlers = {web1, web2}
  WebUser <- MCWebUser
  MaxEdits = 1
  Clock = {1}
  Cap = 1
  Pollers = {phone}
INVARIANTS
  SeqsDistinct
  PageComplete
  NoEarlyStop
PROPERTIES
  AppliedLands
