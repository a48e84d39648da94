SPECIFICATION FairSpec
CONSTANTS
  N = 2
  Creatures <- DuelCreatures
  Owner <- DuelOwner
  FirstStrikers <- None
  Waning <- Knight
  Triggers <- QuietTriggers
  Controller <- QuietController
  Watches <- QuietWatches
  Delayed <- None
  Targeted <- Ache
  Fuel = 2
  MaxTurn = 2
INVARIANTS
  NobodyWaitsOnTheStack
PROPERTIES
  DeferredPlayerIsServed
  TurnsKeepComing
  TriggersAreDrained
