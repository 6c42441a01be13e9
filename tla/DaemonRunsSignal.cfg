SPECIFICATION AwaitingSpec
CONSTANT MaxRuns = 1
PROPERTY SignalIsObeyed
\* Every process ends.
CHECK_DEADLOCK FALSE
