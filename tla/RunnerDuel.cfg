SPECIFICATION FairRunner
CONSTANTS
  N = 2
  Creatures <- DuelCreatures
  Owner <- DuelOwner
  FirstStrikers <- Knight
  Waning <- None
  Triggers <- PlayTriggers
  Controller <- PlayController
  Watches <- PlayWatches
  Delayed <- None
  Targeted <- None
  Fuel = 8
  MaxTurn = 3
  MaxTurns = 2
  Policies <- AllPolicies
INVARIANTS
  DriverIsNeverRefused
PROPERTIES
  RunIsAKernelBehaviour
  DamageOnceEachStep
  EveryTurnAttacks
  RunReturns
