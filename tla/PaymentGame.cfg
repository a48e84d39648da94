CONSTANTS
    Colors <- TwoColors
    Colorless = "colorless"
    MaxMana = 15
    PlanLimit = 4
    plains = plains
    isle = isle
    grove = grove
    waste = waste
    relic = relic
    blaze = blaze
    mirror = mirror
    captain = captain
    medallion = medallion
    herald = herald
    Lands <- FiveLands
    Produces <- LandMana
    Spells <- ThreeSpells
    Printed <- SpellCosts
    Commanders = {captain}
    Reducers <- TwoReducers
    Amount <- Reduction
    Cheaper <- ReducedSpells
    Fuel = 4
CHECK_DEADLOCK FALSE
SPECIFICATION Spec
INVARIANT OffersAreTheAcceptedPlans
INVARIANT LargestXIsFound
INVARIANT CostsFollowTheBoard
