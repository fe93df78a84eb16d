CONSTANTS
  Callers = {c1, c2}
  Requests = {q1, q2, q3, q4}
  Failing = {q2, q4}
  MayCancel = FALSE
SPECIFICATION FairSpec
PROPERTY TransformStarts
CHECK_DEADLOCK FALSE
