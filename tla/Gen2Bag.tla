------------------------------ MODULE Gen2Bag ------------------------------
(***************************************************************************)
(* The two unusual pockets of the Generation II bag                        *)
(* (lib/item_bag_gen2impl.cpp) and the bag's native copy of them.  The     *)
(* other two, Items and Balls, are plain item lists (module ItemList).     *)
(*                                                                         *)
(* A caller works on the bag, or on a pocket that the bag handed out; only *)
(* the bag's own calls bring the bag's native copy up to date.  There is   *)
(* one caller here; module ItemBag has several.                            *)
(***************************************************************************)
EXTENDS KeyItemPocket

CONSTANTS
  NumMachines,  \* 50 TMs and 7 HMs
  MaxMachines   \* 99 of each machine

(* The items of ItemList are those of the key item pocket here: one of     *)
(* each, 25 in all, in a list with a byte for their number.                *)
ASSUME Gen2BagAssumption ==
  /\ MaxAmount = 1 /\ ~IsPC
  /\ NativeHasCount /\ Capacity < 256
  /\ \A t, u \in Threads : t = u
  /\ NumMachines \in Nat \ {0}
  /\ MaxMachines \in 1..255

VARIABLES
  amounts, machineNative,  \* the TM/HM pocket
  bagNative                \* _pksav_bag: a copy of both native lists

machineVars == <<amounts, machineNative>>
bagVars == <<vars, machineVars, bagNative>>

Machines == INSTANCE TmhmPocket WITH MaxAmount <- MaxMachines, native <- machineNative

PocketNatives == [keyItems |-> native, machines |-> machineNative]

(* Every pocket is made over its part of the bag's native structure. *)
BagInit ==
  /\ Init
  /\ Machines!Init
  /\ bagNative = PocketNatives

(* _to_native() of the bag *)
CopyPockets == bagNative' = PocketNatives'

-----------------------------------------------------------------------------
(* A call on a pocket from get_pocket(). *)
OnKeyPocket ==
  /\ NextKeyItem
  /\ UNCHANGED <<machineVars, bagNative>>

OnMachinePocket ==
  /\ Machines!Next
  /\ UNCHANGED <<vars, bagNative>>

(* add() and remove() of the bag: the pocket's call, then a copy of all    *)
(* pockets.  A key item that is not there is "removed" without complaint.  *)
BagAddsKeyItem(item) ==
  /\ \E t \in Threads : AddKeyItem(t, item)
  /\ UNCHANGED machineVars
  /\ CopyPockets

BagRemovesKeyItem(item) ==
  /\ \E t \in Threads :
       \/ RemoveKeyItem(t, item)
       \/ call[t] = Idle /\ item \in PocketItems /\ ~Present(item) /\ UNCHANGED vars
  /\ UNCHANGED machineVars
  /\ CopyPockets

AddMachine(machine, amount) ==
  /\ Machines!Add(machine, amount)
  /\ UNCHANGED vars
  /\ CopyPockets

RemoveMachine(machine, amount) ==
  /\ Machines!Remove(machine, amount)
  /\ UNCHANGED vars
  /\ CopyPockets

(* get_native() and get_pockets() *)
GetNative ==
  /\ UNCHANGED <<vars, machineVars>>
  /\ CopyPockets

BagNext ==
  \/ OnKeyPocket \/ OnMachinePocket
  \/ \E item \in Items : BagAddsKeyItem(item) \/ BagRemovesKeyItem(item)
  \/ \E machine \in Machines!Machine, amount \in 1..MaxMachines :
       AddMachine(machine, amount) \/ RemoveMachine(machine, amount)
  \/ GetNative

BagSpec == BagInit /\ [][BagNext]_bagVars

-----------------------------------------------------------------------------
BagTypeOK ==
  /\ TypeOK
  /\ Machines!AmountsInRange
  /\ bagNative.keyItems \in [items : [Position -> Slot], count : 0..255]
  /\ bagNative.machines \in [Machines!Machine -> 0..MaxMachines]

(* What the bag shows is what a save that is made now would hold: the      *)
(* comparison of compare_item_lists                                        *)
(* (testing/unit-tests/cpp/cpp_game_save_test.cpp:771-789).  The code does *)
(* not keep this, so no run claims it: what follows bounds how it fails.   *)
SaveShowsTheBag ==
  /\ SavesWhatItShows
  /\ machineNative = amounts

(* It is, but for the two calls that forget a part of their native list:   *)
(* remove() of a key item and set_item() of the first machine.             *)
NativesLagOnlyThere ==
  /\ OnlyRemovalLags
  /\ [][Machines!OnlyFirstLags]_<<amounts, machineNative>>

(* A careful caller sees a list of distinct key items without gaps, each   *)
(* once, and the number of them...                                         *)
PocketsAreWellFormed == BagTypeOK /\ ListIsWellFormed

(* ...and which as a whole behaves as an inventory that holds at most one  *)
(* of each.                                                                *)
KeysImplementInventory == ImplementsInventory

(* Whatever was done to the pockets alone, a call on the bag ends with all *)
(* four native lists in the bag, and a call on a pocket changes none.      *)
BagCallsCopyEverything ==
  [][bagNative' # bagNative => bagNative' = PocketNatives']_bagVars
=============================================================================
