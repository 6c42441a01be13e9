SPECIFICATION AwaitingSpec
CONSTANT MaxRuns = 3
INVARIANTS
  CrashIsReported
  NoFalseAlarm
  HandoverIsTheLast
  FilesLeadHere
  OrderlyEndsLeaveNoFile
PROPERTY StopIsObeyed
\* Every process ends.
CHECK_DEADLOCK FALSE
