\* A disconnect during a token refresh.
CONSTANTS
  p1 = p1
  m1 = m1
  auto = auto
  NoJobId = NoJobId
  NoWorker = NoWorker
  AutoJob = auto
  Processors = {p1}
  Requests = {}
  Manual = {m1}
  MaxStalled = 0
  ManualAttempts = 1
  MaxCrashes = 0
  Provider = "google"
SPECIFICATION Spec
PROPERTIES StaysDisconnected
