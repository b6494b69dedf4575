\* A recurring mail under the fairness of the queues.
CONSTANTS
  w1 = w1
  m1 = m1
  NoWorker = NoWorker
  NoMessage = NoMessage
  Workers = {w1}
  Messages = {m1}
  Scheduled = {m1}
  Recurring = {m1}
  Attempts = 2
  MaxRetries = 2
  MaxStalled = 0
  BootKill = FALSE
SPECIFICATION FairSpec
PROPERTIES RecurringGoesOutAgain
