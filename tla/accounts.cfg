SPECIFICATION MCSpec
CONSTANTS
  photo = photo
  memo = memo
  None = None
  Guests = {1}
  Members = {2}
  Handlers = {h1, h2}
  Sweeper = sweep
  Attachments = {photo}
  VoiceNotes = {memo}
  Stored <- GuestFiles
  MaxAttachments = 1
  Ops = {"create", "ask", "confirm", "remove", "push", "delete", "adopt"}
  MaxRequests = 2
  MaxCrashes = 1
INVARIANTS
  TypeOK
  NoOrphans
  NumbersDistinct
  ObjectsThere
PROPERTIES
  LinkedKept
  AdoptionKeeps
SYMMETRY Alike
