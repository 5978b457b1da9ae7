\* Pushes and pulls of two accounts over one table.
SPECIFICATION LiveSpec
CONSTANTS
  alice = alice
  bob = bob
  phone = phone
  tablet = tablet
  other = other
  x = x
  y = y
  z = z
  v = v
  w = w
  web1 = web1
  web2 = web2
  Users = {alice, bob}
  Ids = {x, y}
  Values = {v, w}
  Times = {1, 2}
  None = None
  Partial = Partial
  Malformed = Malformed
  Devices = {phone, tablet, other}
  UserOf <- MCUserOf
  NTables = 1
  TableOf <- OneTable
  Batches <- PushBatches
  MaxPushes = 1
  AdoptPushCursor = FALSE
  Handlers = {}
  WebUser <- MCWebUser
  MaxEdits = 0
  Clock = {1}
  Cap = 1
  Pollers = {phone}
INVARIANTS
  TypeOK
  SeqsDistinct
  Covered
  CaughtUpAgrees
PROPERTIES
  OwnRowsOnly
  NewestWins
  ImplementsFeed
  Converges
