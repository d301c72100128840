SPECIFICATION SizingSpec
CONSTANTS
  Proposals <- MCProposals
  NoOrder = NoOrder
INVARIANTS
    MarginWithinThirty
    LossAtStopWithinRisk
