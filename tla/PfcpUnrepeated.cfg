\* One request that stays without a response.
SPECIFICATION FairSpec
CONSTANTS
  SEQ_MODULUS = 3
  InitSeqs = {2}
  PeerSeqs = {1}
  LocalTypes = {50}
  PeerTypes = {56}
  PFCP_N1_REQUESTS = 3
  MaxSends = 1
  MaxDeliveries = 1
CHECK_DEADLOCK FALSE
PROPERTY RequestReplyLive
