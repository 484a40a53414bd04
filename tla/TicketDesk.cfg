SPECIFICATION Spec
CONSTANTS
  Requests = {r1, r2, r3, r4}
  Agents = {a1}
  None = None
  Calls <- DeskCalls
  MaxRetries = 1
  MaxFaults = 1
SYMMETRY Sym
CHECK_DEADLOCK FALSE
INVARIANTS TypeOK ResolvedIsStamped ReopensAreReplies
PROPERTIES ImplementsPromise EscalationKeepsOwner
