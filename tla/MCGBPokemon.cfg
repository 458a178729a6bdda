CONSTANTS
  Species <- ThreeSpecies
  Moves <- SixMoves
  NoMove = 0
  Taught = {2}
  BasePP <- PPs
  ExpAt <- Curve
  Experiences = {124}
  BaseStat = 45
  FirstIVs <- OneStart
  IVInputs <- SomeIVs
  EVInputs <- SomeEVs
  Forms = {8, 25}
  Conditions = {"NONE", "POISON"}
  Slots = {0}
SPECIFICATION Spec
INVARIANT PokemonIsConsistent
PROPERTIES SettersDoWhatTheySay TradeKeepsTraits
