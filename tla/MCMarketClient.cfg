SPECIFICATION Spec
CONSTANTS
  Panels = {"position", "liquidation"}
  Offered = {"supply", "withdrawCollateral", "liquidate"}
  Amounts = {1, 2}
  MaxTxs = 3
CHECK_DEADLOCK FALSE
INVARIANTS
  ConfirmedIsDone
  PromptIsCurrent
PROPERTIES
  ShortOnlyByOthers
