SPECIFICATION FairSpec
CONSTANTS
  Setups <- TheSetups
  EventRoom = 6
INVARIANTS TypeOK NoCyclicWait StartGoesOn
PROPERTIES StartsUp DiesTogether
CHECK_DEADLOCK FALSE
