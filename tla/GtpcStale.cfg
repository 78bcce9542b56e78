\* Only the peer sends: its request, the answer, and the same number again.
SPECIFICATION Spec
CONSTANTS
  SEQ_MODULUS = 4
  InitSeqs = {3}
  PeerSeqs = {2}
  LocalTypes = {176}
  PeerTypes = {32}
  ReplyTypes = {177}
  T3 = 1
  N3 = 1
  MARGIN = 3
  LATENESS = 1
  MaxSends = 0
  MaxDeliveries = 2
CHECK_DEADLOCK FALSE
PROPERTY CleanupOnlyOwn
