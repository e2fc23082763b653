SPECIFICATION FairSpec
CONSTANTS
  Requests = {r1, r2}
  Callbacks = {c1, c2, c3}
INVARIANTS
  TypeOK
  SenderHasReceiver
  WaitingIsReachable
  AnsweredOnce
  OneCallbackPerAnswer
PROPERTY CallbackAnswersWaiter
CHECK_DEADLOCK FALSE
