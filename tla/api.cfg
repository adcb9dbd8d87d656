
SPECIFICATION MCSpec
CONSTANTS
  r1 = r1
  r2 = r2
  Requests = {r1, r2}
  Votes = {v1}
  Acceptances = {e1}
  Asks <- MCAsks
INVARIANTS TypeOK DisabledNeverEnded CommandLineDecodes
PROPERTIES ImplementsLedger HandlersEnd
CHECK_DEADLOCK FALSE
