\* Two connections that compete for one slot, every kind of packet.
SPECIFICATION FairSpec
CONSTANTS
  Conns = {c1, c2}
  MaxPollers = 2
  AcceptCnt = 3
  Kinds = {"note", "ask", "kick", "big", "bad", "policy"}
  MaxPackets = 2
INVARIANTS
  PollerSound
  NoStaleEvent
  RepliesInOrder
  DiesOnlyWithPeerGone
PROPERTIES
  HealthyKept
  OneLostPerInterrupt
  Served
CHECK_DEADLOCK FALSE
