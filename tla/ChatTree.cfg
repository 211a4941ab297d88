SPECIFICATION Spec
CONSTANTS
  Chats = {"c1", "c2"}
  Names = {"n", "m"}
  FirstName = "n"
  Class <- MCClass
  Folders <- MCFolders
  Contacts = {"c1"}
  Sanitized <- MCSanitized
  Files <- MCFiles
  DefaultLimit = 1
  MaxChanges = 2
  Absent = Absent
  Unsized = Unsized
  Bad = Bad
  None = None
INVARIANTS
  TakeoutCoversAll
  PurgedWhereverItLies
  IndexReachesPages
