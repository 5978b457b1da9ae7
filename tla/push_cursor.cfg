\* Two devices, one of which pulls from the cursor its push returned.
SPECIFICATION Spec
CONSTANTS
  alice = alice
  bob = bob
  phone = phone
  tablet = tablet
  other = other
  x = x
  y = y
  z = z
  v = v
  w = w
  web1 = web1
  web2 = web2
  Users = {alice, bob}
  Ids = {x, y}
  Values = {v}
  Times = {1, 2}
  None = None
  Partial = Partial
  Malformed = Malformed
  Devices = {phone, tablet}
  UserOf <- MCUserOf
  NTables = 1
  TableOf <- OneTable
  Batches <- OwnBatches
  MaxPushes = 1
  AdoptPushCursor = TRUE
  Handlers = {}
  WebUser <- MCWebUser
  MaxEdits = 0
  Clock = {1}
  Cap = 1
  Pollers = {phone}
INVARIANT PeerRowsCovered
