SPECIFICATION Spec
CONSTANTS
  Threads = {t1, t2}
  Builds = {"cmspar", "plain", "windows"}
  Requests <- MCRequests
  FlowModes <- MCFlowModes
  MaxCalls = 4
CHECK_DEADLOCK FALSE
SYMMETRY Symmetry
INVARIANTS
  ParamsAgree
  ReadsBack
  OutputsHeld
