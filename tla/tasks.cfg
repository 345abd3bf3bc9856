SPECIFICATION FairSpec
CONSTANTS
  Null = Null
  user1 = user1
  Tasks = {1, 2}
  Sessions = {s1, s2}
  Assignees = {user1}
  MaxNotes = 1
  Requests <- TaskRequests
  SeedTasks <- OneTask
INVARIANT TypeOK
PROPERTIES CompletedIsFinal NotesAppended RequestsEnd
