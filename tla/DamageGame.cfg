CONSTANTS
    Players <- TwoPlayers
    Objects <- FourCreatures
    Base <- Stored
    SbaLimit = 7
    Life = 3
    Attacker = 1
    Defender = 2
    Charms <- ManyCharms
    Wards <- ManyWards
    Burns <- ManyBurns
    Fuel = 3
CHECK_DEADLOCK FALSE
SPECIFICATION Spec
INVARIANT DivisionsAreTheValidOnes
INVARIANT DependenciesComeFirst
PROPERTY ReplacementsTakeTurns
PROPERTY NobodyStrikesTwice
PROPERTY NobodyDiesOfOldDamage
