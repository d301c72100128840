SPECIFICATION Spec
CONSTANTS
  Cases <- MCCases
  NoCase = NoCase
  MaxNat = 10
INVARIANTS
    FallbackIsNoLooser
    PolicyNeedsThePanel
    MoreApprovalNeverHolds
