\* Two boxes, so that one can be the current one and one not, and one species,
\* which is in the party, in a box, in both or nowhere; a second path to save to.
CONSTANTS
  NumBoxes = 2
  Species = {bulbasaur}
  Names = {"BOX"}
  Files = {first, second}
  NoFile = NoFile
  FirstFile = first
  MaxChanges = 2
  CarefulCallers = TRUE
SPECIFICATION Spec
INVARIANTS FilesHoldWhatWasShown SavedPokemonAreRegistered
