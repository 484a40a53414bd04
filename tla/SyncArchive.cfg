SPECIFICATION Spec
CONSTANTS
  t1 = t1
  t2 = t2
  p1 = p1
  p2 = p2
  NoThread = NoThread
  Threads = {t1, t2}
  MaxMails = 2
  Pollers = {}
  Manual = {}
  Provider = "GMAIL"
  Controls = {"reset", "run", "resume", "cancel"}
  MaxRetries = 1
  MaxFaults = 2
PROPERTIES DoneMeansImported LoopLostHasCause
CHECK_DEADLOCK FALSE
SYMMETRY Sym
