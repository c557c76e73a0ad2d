SPECIFICATION FairSpec
CONSTANTS
  Handlers = {h1, h2}
  ForwardMax = 1
  MaxData = 2
INVARIANTS
  SlotsAccounted
  SocketsWithinCap
  NothingLeaks
  AnswerDelivered
PROPERTIES
  SlotFreedWhenBothEnd
  DialsGiveWay
