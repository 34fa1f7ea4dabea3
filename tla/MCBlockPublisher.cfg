CONSTANTS
  spoke = spoke
  merkle = merkle
  Loop = {spoke, merkle}
  Republishing = {spoke}
  StartBlock <- MCStartBlock
  Distance <- MCDistance
  MinBlockRange <- MCMinBlockRange
  MaxHead = 6
  MaxFailures = 2
SPECIFICATION FairPublisherSpec
INVARIANTS
  EachBlockOnce
  LossNeedsFailure
PROPERTIES
  CatchesUp
CHECK_DEADLOCK FALSE
