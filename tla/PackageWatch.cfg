SPECIFICATION Spec
CONSTANT Requests = {q1, q2}
CHECK_DEADLOCK FALSE
PROPERTIES EndedIsForGood WatchEnds EndIsReported
