----------------------------- MODULE MCGen3Save -----------------------------
(* A party of two and a box of two, so that both have a first and a last   *)
(* place and the box a gap; one species to be caught and one that is in    *)
(* the save; an egg; a second path to save to.                             *)
EXTENDS Gen3Save

CONSTANTS first, second
TwoFiles == {first, second}

Mon(species, egg) == [species |-> species, egg |-> egg, mark |-> "old"]
OfferedMons == {[NoMon EXCEPT !.mark = "old"], Mon("treecko", FALSE), Mon("torchic", TRUE)}
GameMadeMons == {Mon("mudkip", FALSE)}
=============================================================================
