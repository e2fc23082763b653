SPECIFICATION Spec
CONSTANTS
  Requests = {r1, r2}
  Callbacks = {c1, c2}
PROPERTY NotFoundIsNotLive
CHECK_DEADLOCK FALSE
