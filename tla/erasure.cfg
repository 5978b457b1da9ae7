\* A member deletes the account; the request may die.
SPECIFICATION LiveSpec
CONSTANTS
  photo = photo
  memo = memo
  None = None
  Guests = {1}
  Members = {2}
  Handlers = {h1}
  Sweeper = sweep
  Attachments = {photo}
  VoiceNotes = {memo}
  Stored <- GuestFiles
  MaxAttachments = 1
  Ops = {"delete"}
  MaxRequests = 1
  MaxCrashes = 1
PROPERTY DeletionsFinish
