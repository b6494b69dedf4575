\* The promise of cancel, against everything that can run beside it.
CONSTANTS
  w1 = w1
  m1 = m1
  NoWorker = NoWorker
  NoMessage = NoMessage
  Workers = {w1}
  Messages = {m1}
  Scheduled = {m1}
  Recurring = {}
  Attempts = 2
  MaxRetries = 2
  MaxStalled = 0
  BootKill = FALSE
SPECIFICATION Spec
PROPERTIES OnlyPendingIsCancelled
