SPECIFICATION FairSpec
CONSTANTS
  a1 = a1
  q1 = q1
  Requests = {a1, q1}
  Questions = {q1}
  Adapters = {"claude", "acp"}
  MaxTurns = 2
  MaxCrashes = 1
INVARIANTS
  ToldWhatIsRecorded
  AnswersGetThrough
  WaitersCanBeWoken
  NoCardOutlivesItsTurn
  ReleasedBeforeWaiting
PROPERTIES
  EndedStaysEnded
  WaitersAreReleased
CHECK_DEADLOCK FALSE
