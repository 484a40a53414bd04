SPECIFICATION Spec
CONSTANTS
  Pages = {p1}
  Scenarios <- Stories
  MaxJobs = 1
  MaxCrashes = 1
  MaxFaults = 1
  MaxAnswers = 1
INVARIANTS TypeOK 
 
CHECK_DEADLOCK FALSE
