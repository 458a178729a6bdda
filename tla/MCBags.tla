------------------------------ MODULE MCBags ------------------------------
(* Two kinds of bags and a Pokedex share nothing and are checked as the    *)
(* three parts of one run; which part a behaviour belongs to is chosen     *)
(* when it begins.                                                         *)
(*                                                                         *)
(* "pockets": one caller of a Generation II bag.  Two slots for two key    *)
(* items, besides a potion that fits nowhere: the pocket can be full, and  *)
(* a removal can shift a slot.  Of the two machines one is the first one   *)
(* and one is not.                                                         *)
(*                                                                         *)
(* "callers": two callers and two pockets of any bag: one pocket can       *)
(* change while the other one is copied.  Two changes of a pocket make an  *)
(* old, a newer and the newest version of it.                              *)
(*                                                                         *)
(* "pokedex": three species are enough for every order in which the two    *)
(* setters and the four queries can touch one species while a second one   *)
(* stays seen and a third one stays unseen.                                *)
EXTENDS Gen2Bag, ItemBag, Pokedex

CONSTANTS bicycle, bottle, potion, t0, items, balls, t1, t2

TwoKeyItems == {bicycle, bottle}
AllItems == TwoKeyItems \cup {potion}
OneThread == {t0}
TwoPockets == <<items, balls>>
TwoCallers == {t1, t2}

VARIABLE part

eitherVars == <<part, bagVars, sharedVars, pokedexVars>>

EitherInit ==
  /\ part \in {"pockets", "callers", "pokedex"}
  /\ BagInit
  /\ SharedInit
  /\ PokedexInit
  /\ part # "pockets" => numItems = 0 /\ \A m \in DOMAIN amounts : amounts[m] = 0
  /\ part # "pokedex" => seenBits = {} /\ caughtBits = {}

EitherNext ==
  /\ \/ part = "pockets" /\ BagNext /\ UNCHANGED <<sharedVars, pokedexVars>>
     \/ part = "callers" /\ SharedNext /\ UNCHANGED <<bagVars, pokedexVars>>
     \/ part = "pokedex" /\ PokedexNext /\ UNCHANGED <<bagVars, sharedVars>>
  /\ UNCHANGED part

EitherSpec ==
  /\ EitherInit
  /\ [][EitherNext]_eitherVars
  /\ \A t \in Callers : WF_eitherVars(Step(t) /\ UNCHANGED <<part, bagVars, pokedexVars>>)

(* What the bag will put into a save is what its pockets are when a call   *)
(* returns: of one caller, after every call of the bag, and of several,    *)
(* for each that leaves it.  And the native lists of the pockets are what  *)
(* the pockets show, but where two calls forget a part of them.            *)
CopiesAreCurrent ==
  /\ NativesLagOnlyThere
  /\ BagCallsCopyEverything
  /\ ReturnsUpToDate
=============================================================================
