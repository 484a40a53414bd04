SPECIFICATION HeardFairSpec
CONSTANTS
  Requests = {r1, r2, r3}
  Agents = {a1}
  None = None
  Calls <- BotCalls
  MaxRetries = 1
  MaxFaults = 1
CHECK_DEADLOCK FALSE
INVARIANTS  OneVerdict 
 
