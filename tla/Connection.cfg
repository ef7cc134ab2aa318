SPECIFICATION FairSpec
CONSTANTS
  StartTries = 2
  RetryTries = 2
INVARIANT QuietBetween
PROPERTIES WaitersServed Settles
