SPECIFICATION Spec
CONSTANTS
  t1 = t1
  t2 = t2
  p1 = p1
  p2 = p2
  NoThread = NoThread
  Threads = {t1}
  MaxMails = 2
  Pollers = {p1}
  Manual = {}
  Provider = "GMAIL"
  Controls = {"reset"}
  MaxRetries = 1
  MaxFaults = 0
INVARIANTS TypeOK LossHasCause
CHECK_DEADLOCK FALSE
