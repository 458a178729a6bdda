CONSTANTS
  NumSpecies = 1
  Names = {"SPECIES", "nick"}
  DefaultName = "SPECIES"
  Capacity = 3
  HasEggs = TRUE
  RepairsCount = TRUE
  Threads = {caller}
  Offered <- OfferedHere
  Meddling = TRUE
SPECIFICATION Spec
INVARIANT Contiguous
PROPERTIES ReloadKeepsPokemon OnlyEggsEscapeThePokedex ImplementsSequence
