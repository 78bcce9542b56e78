\* Three numbers for both sides: those of the peer and of this node meet, and
\* this node's wrap.
SPECIFICATION Spec
CONSTANTS
  SEQ_MODULUS = 3
  InitSeqs = {0, 2}
  PeerSeqs = {0, 1}
  LocalTypes = {1, 50}
  PeerTypes = {1, 56}
  PFCP_N1_REQUESTS = 3
  MaxSends = 4
  MaxDeliveries = 1
CHECK_DEADLOCK FALSE
INVARIANTS TypeOK OpenRequestAnswerable
PROPERTY RequestReplySafe
