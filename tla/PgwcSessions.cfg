\* One subscriber, two addresses in a word of three bits and one past the pool,
\* two eNBs.
SPECIFICATION Spec
CONSTANTS
  IMSIs = {i1}
  EnbFteids = {11, 12}
  Num = 2
  WordBits = 3
  Statics = {2}
  MaxRequests = 4
CHECK_DEADLOCK FALSE
INVARIANTS TypeOK TablesAgree RoutesLead PathAgrees
PROPERTY LeasesKept
