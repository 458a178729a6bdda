---------------------------- MODULE OptionTables ----------------------------
(***************************************************************************)
(* The layout of the option bytes, as the setters and getters of           *)
(* lib/game_save_gen1impl.cpp, game_save_gen2impl.cpp and                  *)
(* game_save_gbaimpl.cpp use them, with the tables of                      *)
(* lib/pksav/enum_maps1.cpp.  The numbers of the bits are PKSav's, and only *)
(* that the options of a byte have different ones matters.                 *)
(*                                                                         *)
(* A row says which byte an option is in, which bits it has, whether its   *)
(* setter and getter take the mutex, whether the setter needs two          *)
(* statements, which values it accepts with the bits it stores for each,   *)
(* and what the getter tells: the names of a table, and what it tells of   *)
(* bits that are in no row of it.                                          *)
(***************************************************************************)
EXTENDS Integers, Sequences

(* A boost::bimap is filled entry by entry; an entry whose name or whose    *)
(* number is there already is not inserted. *)
Bimap(entries) ==
  {entries[i] : i \in {j \in DOMAIN entries :
     \A k \in 1..j-1 : entries[k][1] # entries[j][1] /\ entries[k][2] # entries[j][2]}}

Left(bimap) == [name \in {e[1] : e \in bimap} |-> (CHOOSE e \in bimap : e[1] = name)[2]]

(* Several bits, for one of several names. *)
Field(byte, mask, entries, default) ==
  [ byte |-> byte, mask |-> mask, locked |-> TRUE, inTwo |-> TRUE,
    accepts |-> Bimap(entries), tells |-> Bimap(entries), default |-> default ]

(* One bit. *)
Flag(byte, bit, set, clear) ==
  LET both == {<<set, {bit}>>, <<clear, {}>>}
  IN  [ byte |-> byte, mask |-> {bit}, locked |-> TRUE, inTwo |-> FALSE,
        accepts |-> both, tells |-> both, default |-> clear ]

WithoutLock(row) == [row EXCEPT !.locked = FALSE]

(* A byte that is assigned as a whole. *)
Whole(byte, mask, entries, default) == [Field(byte, mask, entries, default) EXCEPT !.inTwo = FALSE]

(* Frames are stored from 0 and set from 1; here 1 to 4.  The getter of the *)
(* Game Boy Advance adds the 1 again, the one of Generation II does not. *)
FrameCodes(a, b) == <<{}, {a}, {b}, {a, b}>>
FrameNames == <<"1", "2", "3", "4">>
FrameNamesFromZero == <<"0", "1", "2", "3">>
Frames(names, codes) == [i \in DOMAIN codes |-> <<names[i], codes[i]>>]

(* Of the text speed there is an attribute in Red and Blue only, and Yellow *)
(* has headphones to choose from. *)
Gen1TextSpeed == Field("options", {0, 1, 2}, << <<"Fast", {0}>>, <<"Normal", {0, 1}>>,
                                                <<"Slow", {0, 2}>> >>, "Normal")
Gen1Sound == Flag("options", 4, "Stereo", "Mono")
YellowSound == Field("options", {4, 5}, << <<"Mono", {}>>, <<"Earphone1", {4}>>,
                                           <<"Earphone2", {5}>>, <<"Earphone3", {4, 5}>> >>,
                     "Mono")
Gen1BattleStyle == WithoutLock(Flag("options", 6, "Set", "Shift"))
Gen1BattleEffects == WithoutLock(Flag("options", 7, "off", "on"))

RedBlueOptions == [ textSpeed |-> Gen1TextSpeed, sound |-> Gen1Sound,
                    battleStyle |-> Gen1BattleStyle, battleScene |-> Gen1BattleEffects ]

YellowOptions == [ sound |-> YellowSound,
                   battleStyle |-> Gen1BattleStyle, battleScene |-> Gen1BattleEffects ]

Gen2Options == [
  textSpeed |-> Field("misc_options", {0, 1, 2}, << <<"Fast", {0}>>, <<"Normal", {0, 1}>>,
                                                    <<"Slow", {0, 2}>> >>, "Normal"),
  sound |-> Flag("misc_options", 5, "Stereo", "Mono"),
  battleStyle |-> WithoutLock(Flag("misc_options", 6, "Set", "Shift")),
  battleScene |-> WithoutLock(Flag("misc_options", 7, "off", "on")),
  frame |-> [Field("textbox_frame_index", {0, 1}, Frames(FrameNames, FrameCodes(0, 1)), "0")
               EXCEPT !.tells = Bimap(Frames(FrameNamesFromZero, FrameCodes(0, 1)))],
  brightness |-> Field("gbprinter_brightness", {4, 5, 6},
                       << <<"Lightest", {}>>, <<"Lighter", {5}>>, <<"Normal", {6}>>,
                          <<"Darker", {5, 6}>>, <<"Darkest", {4, 5, 6}>> >>, "Normal"),
  menuAccount |-> Flag("menu_account", 0, "on", "off"),
  daylightSavings |-> Flag("daylight_savings", 7, "on", "off"),
  palette |-> Whole("palette", 0..7, << <<"Red", {}>>, <<"Blue", {0}>>, <<"Green", {1}>>,
                                           <<"Brown", {0, 1}>>, <<"Orange", {2}>>,
                                           <<"Gray", {0, 2}>>, <<"Dark Green", {1, 2}>>,
                                           <<"Dark Red", {0, 1, 2}>> >>, "Red"),
  momPolicy |-> Whole("mom_money_policy", 0..7, << <<"Not saving money", {7}>>,
                                                   <<"Default", {7, 0}>>,
                                                   <<"Saving half money", {7, 1}>>,
                                                   <<"Saving all money", {7, 0, 1}>> >>,
                      "Not saving money") ]

GBAOptions(plain) == [
  textSpeed |-> Field("text_options", {0, 1, 2}, << <<"Slow", {}>>, <<"Medium", {}>>,
                                                    <<"Fast", {}>> >>, "Medium"),
  frame |-> Field("text_options", {3, 4}, Frames(FrameNames, FrameCodes(3, 4)), "1"),
  sound |-> Flag("sound_battle_options", 0, "Stereo", "Mono"),
  battleStyle |-> WithoutLock(Flag("sound_battle_options", 1, "Set", "Shift")),
  battleScene |-> WithoutLock(Flag("sound_battle_options", 2, "off", "on")),
  buttonMode |-> Whole("button_mode", 0..7, << <<plain, {}>>, <<"LR", {0}>>, <<"L=A", {1}>> >>,
                       plain) ]

(* An option is a save with the option's name. *)
TableOf == [ RedBlue |-> RedBlueOptions, Yellow |-> YellowOptions, Gen2 |-> Gen2Options,
             RSE |-> GBAOptions("Normal"), FRLG |-> GBAOptions("Help") ]

Row(o) == TableOf[o[1]][o[2]]

-----------------------------------------------------------------------------
(* What module SaveOptions asks of an option, from its row. *)
CodeOf(row) == Left(row.accepts)

ReadsOf(row) ==
  [bits \in SUBSET row.mask |->
     IF \E e \in row.tells : e[2] = bits
       THEN (CHOOSE e \in row.tells : e[2] = bits)[1]
       ELSE row.default]

(* A getter tells what was set; only the frame of Generation II is one less. *)
TellsOf(o, values) ==
  [value \in values |->
     IF o = <<"Gen2", "frame">>
       THEN FrameNamesFromZero[CHOOSE i \in DOMAIN FrameNames : FrameNames[i] = value]
       ELSE value]
=============================================================================
