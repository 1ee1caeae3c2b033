SPECIFICATION FairSpec
CONSTANT Callers = {c1, c2, c3}
INVARIANTS GateClosed AdmissionsExact
PROPERTIES QuiesceTerminates
\* The process ends once it is Drained and every caller has been refused.
CHECK_DEADLOCK FALSE
