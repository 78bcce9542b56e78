\* A release before the first modify request, and what else the uplink rule needs.
\* Ends with a violation.
SPECIFICATION Spec
CONSTANTS
  IMSIs = {i1}
  EnbFteids = {11}
  Num = 1
  WordBits = 3
  Statics = {1}
  MaxRequests = 3
CHECK_DEADLOCK FALSE
INVARIANT UplinkAgrees
