\* A subscriber whose MME creates its connection again and again.
SPECIFICATION Spec
CONSTANTS
  IMSIs = {i1}
  APNs = {1}
  EBIs = {5}
  LinkedEbis = {5}
  EnbFteids = {11}
  MaxRequests = 4
CHECK_DEADLOCK FALSE
PROPERTY CollisionTellsPgw
