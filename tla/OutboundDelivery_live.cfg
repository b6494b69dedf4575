\* One recurring scheduled mail, two processors, every fault.
CONSTANTS
  w1 = w1
  w2 = w2
  m1 = m1
  NoWorker = NoWorker
  NoMessage = NoMessage
  Workers = {w1, w2}
  Messages = {m1}
  Scheduled = {m1}
  Recurring = {m1}
  Attempts = 2
  MaxRetries = 2
  MaxStalled = 1
  BootKill = FALSE
SPECIFICATION FairSpec
PROPERTIES ImplementsFairOutbox
