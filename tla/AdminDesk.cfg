SPECIFICATION AdminSpec
CONSTANTS
  Scenarios <- Stories
  Staff = {"ann", "bob"}
  Boss = "ann"
  MaxInvites = 2
  MaxCalls = 4
  MaxFlight = 2
  Admins = {"ann", "cyd"}
  Second = {"cyd"}
  Labels = {"", "bug", "ask"}
  Pixels <- Image
  MaxOptions = 2
  MaxEdits = 3
  MaxSaves = 2
  Tix = {"t1", "t2"}
  Agents = {"ann", "bob"}
  MaxIssues = 2
  MaxChanges = 2
  MaxRows = 2
  MaxAsked = 3
  Boxes = {"sales", "help"}
  Readers = {"poller", "sender"}
  Tabs = {"left", "right"}
  SideTabs = {"right"}
  MaxWrites = 2
  MaxFetches = 8
INVARIANTS AdminTypeOK AccessHonest SwitchesAreHonest  MailboxHonest
PROPERTIES KeyLossHasCause
CHECK_DEADLOCK FALSE
