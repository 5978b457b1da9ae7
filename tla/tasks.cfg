SPECIFICATION MeetingSpec
CONSTANTS
  None = None
  Handlers = {h1,h2}
  Sweeper = sweep
  FirstDue <- Jan31
  Rule <- ToMarchEarly
  Deadlines <- SomeDeadlines
  Ops <- DayOps
  Backdate = TRUE
  MaxRequests = 2
  MaxCrashes = 1
  MaxLines = 2
INVARIANTS
  TypeOK
  NumbersDistinct
  DeleteCleans
  NotesOK
  NotesNumbered
PROPERTIES
  HistoryOnce
  ChecklistCarried
  OnSchedule
  SplitOnce
