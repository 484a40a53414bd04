SPECIFICATION FairSpec
CONSTANTS
  Msgs = {m1}
  Confirm = Confirm
  Posts = {"description", "portalReply", "agentReply", "botReply", "note"}
  Mirror = TRUE
  ConfirmationOn = TRUE
  MaxRetries = 1
  MaxAnswers = 1
  MaxFaults = 2
INVARIANTS TypeOK  DuplicateNeedsCopy WireMatchesRows
PROPERTIES ConfirmationStaysSent RepliesGoOut
CHECK_DEADLOCK FALSE
