SPECIFICATION LiveSpec
CONSTANTS
  None = None
  Handlers = {h1}
  Sweeper = sweep
  FirstDue <- Jan31
  Rule <- ToMarch
  Deadlines <- SomeDeadlines
  Ops <- UndoOps
  Backdate = FALSE
  MaxRequests = 4
  MaxCrashes = 0
PROPERTY GoesOn
