SPECIFICATION FairSpec
CONSTANTS
  user1 = user1
  user2 = user2
  scheduler = scheduler
  url = url
  Users <- MCUsers
  Scheduler = scheduler
  Urls = {url}
  Ctxs = {1, 2, 3}
  MaxCalls = 3
INVARIANTS
  TypeOK
  OwnedOnce
  OneWorker
PROPERTIES
  WorkersSpec
  CallsReturn
  DeletedIsReclaimed
  ResumeNotLost
CHECK_DEADLOCK FALSE
