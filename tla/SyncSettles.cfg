SPECIFICATION FairSpec
CONSTANTS
  t1 = t1
  t2 = t2
  p1 = p1
  p2 = p2
  NoThread = NoThread
  Threads = {t1, t2}
  MaxMails = 2
  Pollers = {p1, p2}
  Manual = {p2}
  Provider = "GMAIL"
  Controls = {}
  MaxRetries = 1
  MaxFaults = 1
PROPERTIES MailsArrive
CHECK_DEADLOCK FALSE
