SPECIFICATION RunnerSpec
CONSTANTS
  N = 2
  Creatures <- DuelCreatures
  Owner <- DuelOwner
  FirstStrikers <- None
  Waning <- None
  Triggers <- None
  Controller <- NoController
  Watches <- NoController
  Delayed <- None
  Targeted <- None
  Fuel = 5
  MaxTurn = 2
  MaxTurns = 1
  Policies <- Choosing
PROPERTIES
  EffectsSettleBeforeActions
