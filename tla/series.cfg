SPECIFICATION LiveSpec
CONSTANTS
  None = None
  Handlers = {h1}
  Sweeper = sweep
  FirstDue <- Jan31
  Rule <- ToMarch
  Deadlines <- SomeDeadlines
  Ops <- SeriesOps
  Backdate = TRUE
  MaxRequests = 3
  MaxCrashes = 1
PROPERTIES
  SpawnsOnce
  Repaired
