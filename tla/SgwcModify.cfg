\* The bearer is modified, released, and modified again to the same F-TEID.
SPECIFICATION Spec
CONSTANTS
  IMSIs = {i1}
  APNs = {1}
  EBIs = {5}
  LinkedEbis = {5}
  EnbFteids = {11}
  MaxRequests = 3
CHECK_DEADLOCK FALSE
PROPERTY ModifyReachesPgw
