SPECIFICATION MCSpec
CONSTANTS
  ControlCap = 2
  SpotCap = 2
  MaxControl = 4
  MaxSpots = 4
  Farewells <- MCFarewells
  c1 = c1
  c2 = c2
  NoCall = NoCall
  Unset = Unset
INVARIANTS OvertakenAtMostOnce FarewellIsLast
PROPERTIES ControlReachesClient FanoutDelivers  PeersLive
CHECK_DEADLOCK FALSE
