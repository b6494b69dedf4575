\* A Google mailbox with a worker, a Microsoft one with a request, one with a password and both.
CONSTANTS
  p1 = p1
  auto = auto
  q1 = q1
  NoJobId = NoJobId
  NoWorker = NoWorker
  AutoJob = auto
  Processors = {p1}
  Requests = {q1}
  Manual = {}
  MaxStalled = 1
  ManualAttempts = 1
  MaxCrashes = 1
  Provider = "google"
SPECIFICATION MCSpec
INVARIANTS TypeOK NotLeftSyncing
PROPERTIES KillSwitchStops DeletionStops DisconnectStops
