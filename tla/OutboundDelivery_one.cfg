\* One mail, recurring or immediate, two processors, every fault.
CONSTANTS
  w1 = w1
  w2 = w2
  m1 = m1
  m2 = m2
  NoWorker = NoWorker
  NoMessage = NoMessage
  Workers = {w1, w2}
  Messages = {m1, m2}
  Scheduled = {m1}
  Recurring = {m1}
  Attempts = 3
  MaxRetries = 3
  MaxStalled = 1
  BootKill = FALSE
SPECIFICATION OneSpec
SYMMETRY WorkerSymmetry
INVARIANTS TypeOK BoundedCopies ReportsAreTrue NothingStranded
PROPERTIES FinalRows CancelIsEffective ImplementsOutbox
