SPECIFICATION LiveSpec
CONSTANTS
  Packets = {1, 2, 3}
  Units = 1
  Expires = 1
  MaxTime = 2
  ChanSize = 2
INVARIANTS FreshPacketsSurvive CountedIsStored CountsAddUp
PROPERTIES ExpiredAreRemoved LoopsEnd
CHECK_DEADLOCK FALSE
