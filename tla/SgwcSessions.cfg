\* One subscriber with two connections; requests of the MME in any order.
SPECIFICATION Spec
CONSTANTS
  IMSIs = {i1}
  APNs = {1, 2}
  EBIs = {5, 6}
  LinkedEbis = {0, 5, 6}
  EnbFteids = {11}
  MaxRequests = 4
CHECK_DEADLOCK FALSE
INVARIANTS TypeOK TablesAgree
  ProceduresAgree AnsweredOnce OwnSession
PROPERTY HalfOpenEnds
