SPECIFICATION FairSpec
CONSTANTS
  Requests = {r1, r2}
  Pods = {p1}
  Poisonable = {r2}
  Retries = 2
  MaxFaults = 1
INVARIANTS
  TypeOK
  ForgottenIsCalled
  NothingLost
PROPERTIES
  KeepsPromise AcceptedIsWorkedOff WaiterIsAnswered
CHECK_DEADLOCK FALSE
