----------------------------- MODULE CApiTables -----------------------------
(***************************************************************************)
(* Which C function (lib/c) has which of the shapes of module CApi, by     *)
(* source section; a name stands for the function pkmn_<name>.  A row says *)
(* what the lines of the function say: its null checks, whether it takes   *)
(* the mutex of its handle, and how it hands over its answer.              *)
(*                                                                         *)
(* Left out: *_strerror(), which is how a caller reads the texts; the      *)
(* constants of build_info.cpp; *_free() of a list of Pokemon or of boxes, *)
(* which frees the handles in it one by one.                               *)
(***************************************************************************)

Shape(check, locks, pointers, does, gives) ==
  [check |-> check, locks |-> locks, pointers |-> pointers, does |-> does, gives |-> gives]

\* Handles are made, freed, and made from others.
Init == Shape("none", FALSE, TRUE, "opens", "nothing")
Free == Shape("none", FALSE, TRUE, "frees", "nothing")
Hands(check) == Shape(check, TRUE, TRUE, "opens", "nothing")

\* Getters and setters; some of the latter take a pointer to the new value.
Gets(check, gives) == Shape(check, TRUE, TRUE, "reads", gives)
Sets(check) == Shape(check, TRUE, FALSE, "changes", "nothing")
SetsFrom(check) == Shape(check, TRUE, TRUE, "changes", "nothing")

\* Files are written.
Saves == Shape("plain", TRUE, FALSE, "reads", "nothing")
Exports == Shape("plain", TRUE, TRUE, "reads", "nothing")

\* Functions that have no handle, or read what is behind one without its mutex.
Asks(gives) == Shape("none", FALSE, TRUE, "reads", gives)
AsksOf(gives) == Shape("wrapper", FALSE, TRUE, "reads", gives)
Draws == Shape("none", FALSE, TRUE, "reads", "nothing")
Connects == Shape("none", FALSE, FALSE, "reads", "nothing")
Clears == Shape("none", FALSE, TRUE, "clears", "nothing")
Adds == Shape("none", FALSE, TRUE, "adds", "value")

-----------------------------------------------------------------------------
PokemonLife ==
  {"pokemon_init", "pokemon_init_from_file"} \X {Init}
  \cup {"pokemon_free"} \X {Free}
  \cup {"pokemon_to_game"} \X {Hands("plain")}
  \cup {"pokemon_export_to_file"} \X {Exports}
  \cup {"pokemon_get_form"} \X {Gets("plain", "string")}

PokemonForm ==
  {"pokemon_set_form", "pokemon_set_nickname"} \X {SetsFrom("plain")}
  \cup {"pokemon_is_egg", "pokemon_get_condition", "pokemon_get_gender"} \X {Gets("plain", "value")}
  \cup {"pokemon_get_database_entry"} \X {Gets("plain", "entry")}
  \cup {"pokemon_set_is_egg", "pokemon_set_condition"} \X {Sets("plain")}
  \cup {"pokemon_get_nickname"} \X {Gets("plain", "string")}

PokemonTraits ==
  {"pokemon_set_gender", "pokemon_set_is_shiny", "pokemon_set_held_item", "pokemon_set_nature",
   "pokemon_set_pokerus_duration"} \X {Sets("plain")}
  \cup {"pokemon_is_shiny", "pokemon_get_held_item", "pokemon_get_nature",
        "pokemon_get_pokerus_duration"} \X {Gets("plain", "value")}

PokemonOrigin ==
  {"pokemon_get_original_trainer_info"} \X {Gets("plain", "parts")}
  \cup {"pokemon_set_original_trainer_name"} \X {SetsFrom("plain")}
  \cup {"pokemon_set_original_trainer_public_id", "pokemon_set_original_trainer_secret_id",
        "pokemon_set_original_trainer_id", "pokemon_set_original_trainer_gender",
        "pokemon_set_language"} \X {Sets("plain")}
  \cup {"pokemon_get_language", "pokemon_get_current_trainer_friendship"} \X {Gets("plain",
        "value")}

PokemonMeeting ==
  {"pokemon_set_current_trainer_friendship", "pokemon_set_ability", "pokemon_set_ball",
   "pokemon_set_level_met"} \X {Sets("plain")}
  \cup {"pokemon_get_ability", "pokemon_get_ball", "pokemon_get_level_met",
        "pokemon_get_original_game"} \X {Gets("plain", "value")}
  \cup {"pokemon_get_location_met"} \X {Gets("plain", "string")}
  \cup {"pokemon_set_location_met"} \X {SetsFrom("plain")}

PokemonExperience ==
  {"pokemon_set_original_game", "pokemon_set_personality", "pokemon_set_experience",
   "pokemon_set_level", "pokemon_set_has_marking"} \X {Sets("plain")}
  \cup {"pokemon_get_personality", "pokemon_get_experience", "pokemon_get_level"} \X
        {Gets("plain", "value")}
  \cup {"pokemon_get_markings"} \X {Gets("plain", "enums")}

PokemonRibbons ==
  {"pokemon_has_ribbon"} \X {Gets("plain", "value")}
  \cup {"pokemon_set_has_ribbon"} \X {SetsFrom("plain")}
  \cup {"pokemon_get_ribbon_names", "pokemon_get_moves"} \X {Gets("plain", "list")}
  \cup {"pokemon_get_contest_stats"} \X {Gets("plain", "enums")}
  \cup {"pokemon_set_contest_stat", "pokemon_set_move"} \X {Sets("plain")}

PokemonStats ==
  {"pokemon_set_move_pp", "pokemon_set_EV", "pokemon_set_IV", "pokemon_set_current_hp"} \X
   {Sets("plain")}
  \cup {"pokemon_get_EVs", "pokemon_get_IVs", "pokemon_get_stats"} \X {Gets("plain", "enums")}
  \cup {"pokemon_get_current_hp"} \X {Gets("plain", "value")}

PokemonAttributes ==
  {"pokemon_get_icon_filepath", "pokemon_get_sprite_filepath", "pokemon_get_string_attribute"}
   \X {Gets("plain", "string")}
  \cup {"pokemon_get_numeric_attribute", "pokemon_get_boolean_attribute"} \X {Gets("plain",
        "value")}
  \cup {"pokemon_set_numeric_attribute", "pokemon_set_string_attribute",
        "pokemon_set_boolean_attribute"} \X {SetsFrom("plain")}

PokemonAttributeNames ==
  {"pokemon_get_attribute_names"} \X {Gets("plain", "parts")}

Box ==
  {"pokemon_box_init"} \X {Init}
  \cup {"pokemon_box_free"} \X {Free}
  \cup {"pokemon_box_get_name"} \X {Gets("plain", "string")}
  \cup {"pokemon_box_set_name", "pokemon_box_set_pokemon"} \X {SetsFrom("plain")}
  \cup {"pokemon_box_get_num_pokemon"} \X {Gets("plain", "value")}
  \cup {"pokemon_box_get_pokemon"} \X {Hands("plain")}

BoxAsList ==
  {"pokemon_box_as_list"} \X {Gets("plain", "handles")}

Party ==
  {"pokemon_party_init"} \X {Init}
  \cup {"pokemon_party_free"} \X {Free}
  \cup {"pokemon_party_get_num_pokemon"} \X {Gets("plain", "value")}
  \cup {"pokemon_party_get_pokemon"} \X {Hands("plain")}
  \cup {"pokemon_party_set_pokemon"} \X {SetsFrom("plain")}
  \cup {"pokemon_party_as_list"} \X {Gets("plain", "handles")}

PC ==
  {"pokemon_pc_init"} \X {Init}
  \cup {"pokemon_pc_free"} \X {Free}
  \cup {"pokemon_pc_get_box"} \X {Hands("plain")}
  \cup {"pokemon_pc_get_box_names"} \X {Gets("plain", "list")}
  \cup {"pokemon_pc_as_list"} \X {Gets("plain", "handles")}

DaycareLevelup ==
  {"daycare_init"} \X {Init}
  \cup {"daycare_free"} \X {Free}
  \cup {"daycare_get_levelup_pokemon", "daycare_get_breeding_pokemon"} \X {Hands("plain")}
  \cup {"daycare_set_levelup_pokemon"} \X {SetsFrom("plain")}
  \cup {"daycare_get_levelup_pokemon_as_list"} \X {Gets("plain", "handles")}

DaycareBreeding ==
  {"daycare_set_breeding_pokemon"} \X {SetsFrom("plain")}
  \cup {"daycare_get_breeding_pokemon_as_list"} \X {Gets("plain", "handles")}
  \cup {"daycare_get_egg"} \X {Hands("plain")}

PokedexSeen ==
  {"pokedex_init"} \X {Init}
  \cup {"pokedex_free"} \X {Free}
  \cup {"pokedex_has_seen", "pokedex_get_num_seen", "pokedex_has_caught"} \X {Gets("wrapper",
        "value")}
  \cup {"pokedex_set_has_seen_species"} \X {Sets("wrapper")}
  \cup {"pokedex_get_all_seen"} \X {Gets("wrapper", "enums")}

PokedexCaught ==
  {"pokedex_set_has_caught_species"} \X {Sets("wrapper")}
  \cup {"pokedex_get_all_caught"} \X {Gets("wrapper", "enums")}
  \cup {"pokedex_get_num_caught"} \X {Gets("wrapper", "value")}

ItemListItems ==
  {"item_list_init"} \X {Init}
  \cup {"item_list_free"} \X {Free}
  \cup {"item_list_get_num_items", "item_list_at"} \X {Gets("wrapper", "value")}
  \cup {"item_list_add", "item_list_remove"} \X {Sets("wrapper")}

ItemListOrder ==
  {"item_list_move", "item_list_set_item"} \X {Sets("wrapper")}
  \cup {"item_list_get_valid_items"} \X {Gets("wrapper", "enums")}
  \cup {"item_list_get_valid_item_names", "item_list_as_list"} \X {Gets("wrapper", "list")}

Bag ==
  {"item_bag_init"} \X {Init}
  \cup {"item_bag_free"} \X {Free}
  \cup {"item_bag_get_pocket"} \X {Hands("wrapper")}
  \cup {"item_bag_add", "item_bag_remove"} \X {Sets("wrapper")}

SaveFile ==
  {"game_save_detect_type"} \X {Asks("value")}
  \cup {"game_save_init_from_file"} \X {Init}
  \cup {"game_save_free"} \X {Free}
  \cup {"game_save_get_filepath"} \X {Gets("plain", "string")}
  \cup {"game_save_save"} \X {Saves}
  \cup {"game_save_save_as"} \X {Exports}

SaveTrainer ==
  {"game_save_get_trainer_info"} \X {Gets("plain", "parts")}
  \cup {"game_save_set_trainer_name", "game_save_set_time_played"} \X {SetsFrom("plain")}
  \cup {"game_save_set_trainer_id", "game_save_set_trainer_public_id",
        "game_save_set_trainer_secret_id", "game_save_set_trainer_gender"} \X {Sets("plain")}
  \cup {"game_save_get_time_played"} \X {Gets("plain", "value")}

SaveParts ==
  {"game_save_get_rival_name"} \X {Gets("plain", "string")}
  \cup {"game_save_set_rival_name"} \X {SetsFrom("plain")}
  \cup {"game_save_get_money"} \X {Gets("plain", "value")}
  \cup {"game_save_set_money"} \X {Sets("plain")}
  \cup {"game_save_get_pokedex", "game_save_get_pokemon_party", "game_save_get_pokemon_pc",
        "game_save_get_item_bag", "game_save_get_item_pc"} \X {Hands("plain")}

SaveAttributes ==
  {"game_save_get_numeric_attribute", "game_save_get_boolean_attribute"} \X {Gets("plain",
   "value")}
  \cup {"game_save_set_numeric_attribute", "game_save_set_string_attribute",
        "game_save_set_boolean_attribute"} \X {SetsFrom("plain")}
  \cup {"game_save_get_string_attribute"} \X {Gets("plain", "string")}
  \cup {"game_save_get_attribute_names"} \X {Gets("plain", "parts")}

BreedingChild ==
  {"breeding_get_possible_child_species"} \X {Asks("enums")}
  \cup {"breeding_get_child_moves", "breeding_get_ideal_child_IVs"} \X {AsksOf("enums")}

BreedingCompatibility ==
  {"breeding_are_pokemon_species_compatible"} \X {Asks("value")}

PokemonEntry ==
  {"database_get_pokemon_entry", "database_pokemon_entry_set_form"} \X {Asks("entry")}
  \cup {"database_pokemon_entry_experience_at_level",
        "database_pokemon_entry_level_at_experience"} \X {Asks("value")}
  \cup {"database_pokemon_entry_icon_filepath", "database_pokemon_entry_sprite_filepath"} \X
        {Asks("string")}

PokemonEntryFree ==
  {"database_pokemon_entry_free"} \X {Clears}

ItemEntry ==
  {"database_get_item_entry"} \X {Asks("entry")}
  \cup {"database_item_entry_free"} \X {Clears}

MoveEntry ==
  {"database_get_move_entry"} \X {Asks("entry")}
  \cup {"database_move_entry_free"} \X {Clears}

ListsToItems ==
  {"database_ability_list", "database_game_list", "database_gamecube_shadow_pokemon_list",
   "database_hm_move_list", "database_item_list"} \X {Asks("enums")}
  \cup {"database_ability_name_list", "database_game_name_list",
        "database_gamecube_shadow_pokemon_name_list", "database_hm_move_name_list"} \X
        {Asks("list")}

ListsToRegions ==
  {"database_item_name_list", "database_location_name_list", "database_move_name_list",
   "database_nature_name_list", "database_pokemon_name_list", "database_region_name_list"} \X
   {Asks("list")}
  \cup {"database_move_list", "database_nature_list", "database_pokemon_list"} \X
        {Asks("enums")}

ListsToTypes ==
  {"database_ribbon_name_list", "database_super_training_medal_name_list",
   "database_tm_move_name_list", "database_type_name_list"} \X {Asks("list")}
  \cup {"database_tm_move_list", "database_type_list"} \X {Asks("enums")}

Forms ==
  {"calculations_gen2_unown_form", "calculations_gen3_unown_form"} \X {Asks("string")}
  \cup {"calculations_wurmple_becomes_silcoon"} \X {Asks("value")}

Genders ==
  {"calculations_gen2_pokemon_gender", "calculations_modern_pokemon_gender"} \X {Asks("value")}

Natures ==
  {"calculations_nature"} \X {Asks("value")}

Personalities ==
  {"calculations_generate_personality"} \X {Asks("value")}

Shininess ==
  {"calculations_gen2_shiny", "calculations_modern_shiny"} \X {Asks("value")}

PokemonSizes ==
  {"calculations_pokemon_size"} \X {Asks("value")}

Stats ==
  {"calculations_gb_stat", "calculations_gb_stat_range", "calculations_modern_stat",
   "calculations_modern_stat_range"} \X {Asks("value")}

SpindaSpots ==
  {"calculations_add_spinda_coords", "calculations_add_spinda_spots",
   "calculations_add_spinda_coords_to_spots"} \X {Adds}
  \cup {"calculations_spinda_spot_offset"} \X {Asks("value")}

CriticalHits ==
  {"calculations_gen1_critical_hit_chance", "calculations_critical_hit_chance",
   "calculations_gen1_critical_hit_modifier", "calculations_critical_hit_modifier"} \X
   {Asks("value")}

Damage ==
  {"calculations_damage"} \X {Asks("value")}

HiddenPowers ==
  {"calculations_gen2_hidden_power", "calculations_modern_hidden_power"} \X {Asks("value")}

TypeModifiers ==
  {"calculations_type_damage_modifier"} \X {Asks("value")}

NaturalGifts ==
  {"calculations_natural_gift_stats"} \X {Asks("value")}

PowersToFrustration ==
  {"calculations_brine_power", "calculations_crush_grip_power",
   "calculations_electro_ball_power", "calculations_eruption_power", "calculations_flail_power",
   "calculations_fling_power", "calculations_frustration_power"} \X {Asks("value")}
  \cup {"calculations_echoed_voice_powers", "calculations_fury_cutter_powers"} \X
        {Asks("numbers")}

PowersToPunishment ==
  {"calculations_grass_knot_power", "calculations_gyro_ball_power",
   "calculations_low_kick_power", "calculations_heat_crash_power",
   "calculations_heavy_slam_power", "calculations_power_trip_power",
   "calculations_punishment_power"} \X {Asks("value")}
  \cup {"calculations_ice_ball_powers"} \X {Asks("numbers")}

PowersToSpout ==
  {"calculations_return_power", "calculations_reversal_power", "calculations_spit_up_power",
   "calculations_stored_power_power", "calculations_trump_card_power",
   "calculations_water_spout_power"} \X {Asks("value")}
  \cup {"calculations_rollout_powers", "calculations_triple_kick_powers"} \X {Asks("numbers")}

WringOutPower ==
  {"calculations_wring_out_power"} \X {Asks("value")}

SpindaSprite ==
  {"gui_generate_spinda_sprite_at_filepath"} \X {Draws}

Paths ==
  {"get_appdata_dir", "get_database_path", "get_images_dir", "get_tmp_dir"} \X {Asks("string")}

Private ==
  {"priv_initialize_database_connection"} \X {Connects}

\* The functions that a macro makes for each enumeration.
EnumStrings ==
  {"ability_to_string", "ball_to_string", "condition_to_string", "egg_group_to_string",
   "game_to_string", "gender_to_string", "item_to_string", "language_to_string",
   "move_damage_class_to_string", "move_target_to_string", "move_to_string", "nature_to_string",
   "species_to_string", "stat_to_string", "type_to_string"} \X {Asks("string")}
  \cup {"string_to_ability", "string_to_ball", "string_to_condition", "string_to_egg_group",
        "string_to_game", "string_to_gender", "string_to_item", "string_to_language",
        "string_to_move_damage_class", "string_to_move_target", "string_to_move",
        "string_to_nature", "string_to_species", "string_to_stat", "string_to_type"} \X
        {Asks("value")}

EnumListFrees ==
  {"ability_enum_list_free", "ball_enum_list_free", "contest_stat_enum_list_free",
   "egg_group_enum_list_free", "game_enum_list_free", "item_enum_list_free",
   "marking_enum_list_free", "move_enum_list_free", "move_damage_class_enum_list_free",
   "move_target_enum_list_free", "nature_enum_list_free", "species_enum_list_free",
   "stat_enum_list_free", "type_enum_list_free"} \X {Clears}

EnumMapFrees ==
  {"contest_stat_enum_map_free", "marking_enum_map_free", "stat_enum_map_free"} \X {Clears}

\* The functions that free an answer of another type.
ItemSlotsFree == {"item_slots_free"} \X {Clears}
LevelupMovesFree == {"levelup_moves_free"} \X {Clears}
MoveSlotsFree == {"move_slots_free"} \X {Clears}
StatListFree == {"stat_list_free"} \X {Clears}
StringFrees == {"string_list_free", "string_pair_free"} \X {Clears}
AttributeNamesFree == {"attribute_names_free"} \X {Clears}
TrainerInfoFree == {"trainer_info_free"} \X {Clears}

-----------------------------------------------------------------------------
Functions ==
  UNION
    {PokemonLife, PokemonForm, PokemonTraits, PokemonOrigin, PokemonMeeting,
     PokemonExperience, PokemonRibbons, PokemonStats, PokemonAttributes,
     PokemonAttributeNames, Box, BoxAsList, Party, PC, DaycareLevelup, DaycareBreeding,
     PokedexSeen, PokedexCaught, ItemListItems, ItemListOrder, Bag, SaveFile, SaveTrainer,
     SaveParts, SaveAttributes, BreedingChild, BreedingCompatibility, PokemonEntry,
     PokemonEntryFree, ItemEntry, MoveEntry, ListsToItems, ListsToRegions, ListsToTypes,
     Forms, Genders, Natures, Personalities, Shininess, PokemonSizes, Stats, SpindaSpots,
     CriticalHits, Damage, HiddenPowers, TypeModifiers, NaturalGifts, PowersToFrustration,
     PowersToPunishment, PowersToSpout, WringOutPower, SpindaSprite, Paths, Private,
     EnumStrings, EnumListFrees, EnumMapFrees, ItemSlotsFree, LevelupMovesFree,
     MoveSlotsFree, StatListFree, StringFrees, AttributeNamesFree, TrainerInfoFree}

AllShapes == {row[2] : row \in Functions}
=============================================================================
