SPECIFICATION Spec
CONSTANTS
  N = 3
  Creatures <- PodCreatures
  Owner <- PodOwner
  FirstStrikers <- Knight
  Waning <- None
  Triggers <- PodTriggers
  Controller <- PodController
  Watches <- PodWatches
  Delayed <- Once
  Targeted <- None
  Fuel = 2
  MaxTurn = 2
INVARIANTS
  TypeOK
  PriorityAccountedFor
  CombatIsOnBattlefield
  DelayedFiresOnce
  BlocksBeforeDamage
PROPERTIES
  PriorityRounds
  LossBeforePriority
  PlacementIsHeard
  TurnEndsWhenSettled
  NoTriggerIsLost
  ApnapOrderOnStack
