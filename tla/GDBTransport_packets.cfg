CONSTANTS
  Packet <- WithBinary
  MaxPackets = 2
  MaxInterrupts = 1
  MaxRefusals = 1
SPECIFICATION Spec
INVARIANTS PacketsArriveAsSent RepliesArriveOnce
PROPERTIES EveryPacketIsAnswered
CHECK_DEADLOCK FALSE
