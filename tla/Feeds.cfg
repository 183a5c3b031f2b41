SPECIFICATION MCSpec
CONSTANTS
  Sessions = {s1, s2}
  Lines <- MCLines
  CtyOf <- MCCtyOf
  QueueSize = 1
  MaxLines = 3
  h1 = h1
  w1 = w1
  NoEntry = NoEntry
INVARIANT AnswersAreTrue
PROPERTIES SuppressionIsExact  FeedClientLives FeedIsFaithful GoodAndCurrent FloodIsSound
CHECK_DEADLOCK FALSE
