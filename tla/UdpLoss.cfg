SPECIFICATION Spec
CONSTANTS
  Modulus = 4
  MaxPackets = 5
  MaxLate = 3
INVARIANTS
  LossNotOverstated
  ExactLoss
  LossWithinPackets
  IntervalsDoNotOvercount
