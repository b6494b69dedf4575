\* The retry time of a failed mailbox.
CONSTANTS
  p1 = p1
  auto = auto
  NoJobId = NoJobId
  NoWorker = NoWorker
  AutoJob = auto
  Processors = {p1}
  Requests = {}
  Manual = {}
  MaxStalled = 0
  ManualAttempts = 1
  MaxCrashes = 0
  Provider = "imap"
SPECIFICATION FairSpec
PROPERTIES RetryHappens
