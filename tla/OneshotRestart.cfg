\* Two control connections, whose clients may keep their leases for ever, and
\* two restart requests.  The daemon ends for good.
SPECIFICATION FinishingSpec
CONSTANTS
  Conn = {c1, c2}
  Req = {r1, r2}
  Target = {"server_headless"}
INVARIANTS
  TypeOK
  NoSpuriousTermination
  AnswersAreTrue
  HandoverIsPromised
PROPERTIES
  RestartIsSettled
  RestartIsAPromise
CHECK_DEADLOCK FALSE
