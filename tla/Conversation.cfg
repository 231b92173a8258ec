CONSTANTS
  t1 = t1  t2 = t2
  NoTurn = NoTurn
  Turns = {t1, t2}
  Prompted = {t1}
  Structured = {t1}
  Titled = {t1}
  MaxCommits <- MCMaxCommits
  MaxMessages = 1
  MaxRequests = 1
  MaxRestarts = 1
SPECIFICATION Spec
INVARIANTS
  TypeOK
  MessagesAttributed
  RenameSticks
  DeletedIsUnlisted
PROPERTIES
  SavesKeepTranscript
CHECK_DEADLOCK FALSE
