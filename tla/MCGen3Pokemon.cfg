CONSTANTS
  Kinds <- TwoSpecies
  GBAGames = {"emerald"}
  GCNGames = {"colosseum", "xd"}
  Draws <- OneOfEachKind
  RandomBytes = {30, 31}
  TrainerIDs <- TwoIDs
  Natures = {0, 1}
  Letters = {0, 27}
  Stats = {"HP"}
  IVValues = {0, 31}
  EVValues = {0, 255}
  ExpAt <- Curve
  GCNExpAt <- GCNCurve
  Experiences = {0, 124}
  Conditions = {"NONE", "POISON"}
  Moves = {1, 2}
  NoMove = 0
  BasePP <- PPs
  Slots = {0}
  Contests = {"cool", "smart"}
  ContestStats = {"beauty"}
  Specials <- OneSpecial
  Markings = {"circle"}
  Items = {"both", "gba", "colosseum", "xd"}
  NoItem = "none"
  ItemsOf <- KnownItems
  OnBothSides = {"both"}
SPECIFICATION MCSpec
INVARIANT PokemonIsConsistent
PROPERTIES SettersKeepTheRest TradeKeepsTraits
