\* Two subscribers of which one may come or leave at any moment, and enough
\* events to fill a queue and evict from it.
SPECIFICATION FairSpec
CONSTANTS
  panel = panel
  host = host
  Sub = {panel, host}
  Kind = {"failed", "peers"}
  Terminal = {"failed"}
  Capacity = 2
  MaxEvent = 3
  Topics <- MCTopics
  TopicOf <- MCTopicOf
INVARIANTS
  TypeOK
  OrderKept
  TerminalsSurvive
  EarlySubscribersStay
PROPERTIES
  EventsDoNotRest
CHECK_DEADLOCK FALSE
