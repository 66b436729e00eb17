CONSTANTS
  Step = {"deposit", "charge"}
  CompletedBy <- MCCompletedBy
  TargetOf <- MCSharedTarget
  Commands = {"refund"}
SPECIFICATION CompensationSpec
INVARIANT RefusalBlamesItsStep
