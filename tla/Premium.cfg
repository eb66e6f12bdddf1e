SPECIFICATION Spec
CONSTANTS
  Scale = 100
  Answers <- MCAnswers
  Release <- MCRelease
  InstallmentOptions = {1, 2, 4, 12}
  None = None
INVARIANTS
  RatedAsDocumented ScheduleSumsToPremium
CHECK_DEADLOCK FALSE
