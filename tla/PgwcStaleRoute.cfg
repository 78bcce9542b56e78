\* An entry of the table of UE addresses that leads to no session.
SPECIFICATION Spec
CONSTANTS
  IMSIs = {i1}
  EnbFteids = {11}
  Num = 1
  WordBits = 3
  Statics = {1}
  MaxRequests = 2
CHECK_DEADLOCK FALSE
INVARIANT EntriesLead
