\* Three runs contend for one profile; every interleaving of claims,
\* evictions, expiries, teardowns and crashes.  A run ends for good, so the
\* system may stop.
SPECIFICATION FairSpec
CONSTANTS
  a = a
  b = b
  c = c
  Proc <- MCProc
  Pid <- MCPid
  Version <- MCVersion
  MaxTime = 1
INVARIANTS
  TypeOK
  OneDaemonServes
  PidFileNamesOwner
  VictimIsNotNewer
  OutrankedHolderIsGone
PROPERTIES
  ImplementsOwnership
  EveryClaimIsAnswered
CHECK_DEADLOCK FALSE
