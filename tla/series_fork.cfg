SPECIFICATION Spec
CONSTANTS
  None = None
  Handlers = {h1, h2}
  Sweeper = sweep
  FirstDue <- Jan31
  Rule <- ToMarchEarly
  Deadlines <- SomeDeadlines
  Ops = {"complete"}
  Backdate = FALSE
  MaxRequests = 2
  MaxCrashes = 0
PROPERTY NoFork
