SPECIFICATION FrontSpec
CONSTANTS
  Scenarios <- Stories
  Tabs = {t1, t2, t3}
  First = t1
  Away = {t3}
  MaxLinks = 2
  MaxBreaks = 1
  MaxAsks = 3
  Papers = {"f1", "big", "url"}
  TooBig = {"big"}
  Links = {"url"}
  MaxForms = 2
  MaxFailures = 1
INVARIANTS FrontTypeOK OnceOrCaused
PROPERTIES DoorSettles
CHECK_DEADLOCK FALSE
