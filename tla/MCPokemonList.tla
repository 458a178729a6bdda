--------------------------- MODULE MCPokemonList ---------------------------
(* A box of three places (or a party: PARTY's count is always right),      *)
(* which callers fill with an ordinary Pokemon, an egg, or nothing.        *)
EXTENDS PokemonList

Hatched == [species |-> 1, egg |-> FALSE, name |-> DefaultName]
Egg == [species |-> 1, egg |-> TRUE, name |-> DefaultName]
None == [species |-> NoSpecies, egg |-> FALSE, name |-> DefaultName]

OfferedHere == {Hatched, Egg, None}
=============================================================================
