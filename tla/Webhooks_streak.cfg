\* Two events at a time.
CONSTANTS
  e1 = e1
  e2 = e2
  Events = {e1, e2}
  MaxAttempts = 3
  MaxFailures = 4
SPECIFICATION Spec
PROPERTIES DisabledAfterThree
CHECK_DEADLOCK FALSE
