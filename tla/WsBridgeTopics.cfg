\* Two subscribers; one of them may come while an event is dispatched.
SPECIFICATION Spec
CONSTANTS
  panel = panel
  host = host
  Sub = {panel, host}
  Kind = {"failed", "peers"}
  Terminal = {"failed"}
  Capacity = 2
  MaxEvent = 1
  Topics <- MCTopics
  TopicOf <- MCTopicOf
PROPERTY
  ReconnectRestoresTopics
CHECK_DEADLOCK FALSE
