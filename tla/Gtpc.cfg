\* Two requests of this node interleaved with one of the peer.
SPECIFICATION FairSpec
CONSTANTS
  SEQ_MODULUS = 4
  InitSeqs = {2}
  PeerSeqs = {1, 2}
  LocalTypes = {176}
  PeerTypes = {32}
  ReplyTypes = {177}
  T3 = 1
  N3 = 1
  MARGIN = 3
  LATENESS = 1
  MaxSends = 2
  MaxDeliveries = 1
CHECK_DEADLOCK FALSE
INVARIANTS TypeOK IInv
PROPERTIES RequestReplySafe RequestReplyLive ProceduresEnd
