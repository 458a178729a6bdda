----------------------------- MODULE GBAPokemon ----------------------------
(***************************************************************************)
(* A Pokemon of Ruby to Emerald (lib/pokemon_gbaimpl.cpp).                 *)
(*                                                                         *)
(* The letter of an Unown is in the species number of the structure and,   *)
(* once more, in the personality.  A constructor believes the species      *)
(* number and rewrites the personality; the setters that change the        *)
(* personality change the form that get_form() returns, but leave the      *)
(* species number alone.                                                   *)
(***************************************************************************)
EXTENDS Gen3Native

(* pokemon::make(): of any personality, but an Unown has that of its form. *)
Make(level, p, iv, letter, moves) ==
  LET pid == IF species.unown THEN WithLetter(p, letter) ELSE p
      data == NewNative(game, level, pid, Parity(p) = 1, letter, iv, ExpAt[level], moves)
  IN native = data /\ cache = CacheOf(data, letter)

(* The constructor over a party's structure. *)
FromParty(data) ==
  LET read == IF species.unown THEN [data EXCEPT !.pid = WithLetter(data.pid, data.letter)] ELSE data
  IN native' = read /\ cache' = CacheOf(read, data.letter)

(* Faulty variant of WithPartyData: the stats are those of before. *)
WithLevelOnly(data) ==
  [data EXCEPT !.level = LevelAt(data.exp), !.hp = "FULL", !.condition = NoCondition]

(* _populate_party_data(): the condition is lost, the HP are full. *)
WithPartyData(data) ==
  LET level == LevelAt(data.exp)
  IN [data EXCEPT !.level = level, !.stats = StatsFrom(level, data.iv, data.ev),
                  !.hp = "FULL", !.condition = NoCondition]

(* The constructor over a box's structure; boxes, files and the PC do it.  *)
FromPC == FromParty(WithPartyData(native)) /\ UNCHANGED <<species, game>>

Copy == FromParty(native) /\ UNCHANGED <<species, game>>

-----------------------------------------------------------------------------
SetForm(letter) ==
  /\ species.unown
  /\ native' = [native EXCEPT !.letter = letter, !.pid = WithLetter(native.pid, letter)]
  /\ cache' = [cache EXCEPT !.form = letter]
  /\ UNCHANGED <<species, game>>

SetGender(gender) ==
  /\ GenderAllowed(species.ratio, gender)
  /\ \E p \in WithGender(species.ratio, native.pid, gender) : native' = [native EXCEPT !.pid = p]
  /\ UNCHANGED <<species, game, cache>>

(* _set_unown_form_from_personality() *)
FormFrom(p) == [cache EXCEPT !.form = IF species.unown THEN LetterOf(p) ELSE cache.form]

SetShininess(value) ==
  LET p == WithShininess(native.pid, native.ot, value)
  IN /\ native' = [native EXCEPT !.pid = p]
     /\ cache' = FormFrom(p)
     /\ UNCHANGED <<species, game>>

(* Faulty variant of TakePersonality: the ability stays. *)
TakePersonalityOnly(p) ==
  /\ native' = [native EXCEPT !.pid = p]
  /\ cache' = FormFrom(p)

TakePersonality(p) ==
  /\ native' = [native EXCEPT !.pid = p, !.second = SecondFrom(p)]
  /\ cache' = FormFrom(p)

SetPersonality(p) == TakePersonality(p) /\ UNCHANGED <<species, game>>

(* "so we need to find a new one that preserves all other values" *)
SetNature(nature) ==
  /\ \E p \in Draws :
       TakePersonality(p) /\ Fits(p, native.ot, Shiny, Ability, Gender, nature)
  /\ UNCHANGED <<species, game>>

SetAbility(ability) ==
  /\ ability = 2 => species.two
  /\ \E p \in Draws :
       /\ native' = [native EXCEPT !.pid = p, !.second = ability = 2]
       /\ Fits(p, native.ot, Shiny, ability, Gender, Nature)
  /\ UNCHANGED <<species, game, cache>>

SetTrainerID(id) ==
  /\ native' = [native EXCEPT !.ot = id]
  /\ UNCHANGED <<species, game, cache>>

-----------------------------------------------------------------------------
ReadStats(data) == [cache EXCEPT !.stats = data.stats]

SetExperience(experience) ==
  /\ native' = WithPartyData([native EXCEPT !.exp = experience])
  /\ cache' = ReadStats(native')
  /\ UNCHANGED <<species, game>>

SetLevel(level) ==
  /\ native' = WithPartyData([native EXCEPT !.exp = ExpAt[level]])
  /\ cache' = ReadStats(native')
  /\ UNCHANGED <<species, game>>

SetIV(stat, value) ==
  /\ native' = WithPartyData([native EXCEPT !.iv[stat] = value])
  /\ cache' = [ReadStats(native') EXCEPT !.IVs[stat] = value]
  /\ UNCHANGED <<species, game>>

SetEV(stat, value) ==
  /\ native' = WithPartyData([native EXCEPT !.ev[stat] = value])
  /\ cache' = [ReadStats(native') EXCEPT !.EVs = native'.ev]
  /\ UNCHANGED <<species, game>>

SetCurrentHP(hp) ==
  /\ native' = [native EXCEPT !.hp = hp]
  /\ UNCHANGED <<species, game, cache>>

SetCondition(condition) ==
  /\ native' = [native EXCEPT !.condition = condition]
  /\ UNCHANGED <<species, game, cache>>

-----------------------------------------------------------------------------
(* The PP Ups of the move that was there before stay. *)
SetMove(slot, move) ==
  /\ native' = [native EXCEPT !.moves[slot] = move, !.pps[slot] = PPWith(move, 0)]
  /\ cache' = [cache EXCEPT !.moves[slot] = [move |-> move, pp |-> PPWith(move, 0)]]
  /\ UNCHANGED <<species, game>>

SetMovePP(slot, pp) ==
  /\ pp \in 0..PPWith(cache.moves[slot].move, 3)
  /\ native' = [native EXCEPT !.pps[slot] = pp, !.ups[slot] = FewestPPUps(cache.moves[slot].move, pp)]
  /\ cache' = [cache EXCEPT !.moves[slot].pp = pp]
  /\ UNCHANGED <<species, game>>

-----------------------------------------------------------------------------
(* A contest's three bits hold the best level; the first ribbon's name has *)
(* no level, which counts as 0.                                            *)
Larger(a, b) == IF a > b THEN a ELSE b
Smaller(a, b) == IF a < b THEN a ELSE b

ContestAfter(current, level, value) ==
  IF value THEN Larger(level, current) ELSE Smaller(level - 1, current)

SetContestRibbon(contest, level, value) ==
  /\ native' = [native EXCEPT !.contest[contest] = ContestAfter(native.contest[contest], level, value)]
  /\ cache' = [cache EXCEPT !.ribbons = RibbonsOf(native')]
  /\ UNCHANGED <<species, game>>

SetSpecialRibbon(ribbon, value) ==
  /\ native' = [native EXCEPT !.specials = IF value THEN @ \cup {ribbon} ELSE @ \ {ribbon}]
  /\ cache' = [cache EXCEPT !.ribbons = RibbonsOf(native')]
  /\ UNCHANGED <<species, game>>

SetMarking(marking, value) ==
  /\ native' = [native EXCEPT !.markings = IF value THEN @ \cup {marking} ELSE @ \ {marking}]
  /\ cache' = [cache EXCEPT !.markings = IF value THEN @ \cup {marking} ELSE @ \ {marking}]
  /\ UNCHANGED <<species, game>>

SetContestStat(stat, value) ==
  /\ native' = [native EXCEPT !.contestStats[stat] = value]
  /\ cache' = [cache EXCEPT !.contestStats[stat] = value]
  /\ UNCHANGED <<species, game>>

(* In the same word as the ribbons. *)
SetIsObedient(value) ==
  /\ native' = [native EXCEPT !.obedient = value]
  /\ UNCHANGED <<species, game, cache>>

-----------------------------------------------------------------------------
SetHeldItem(item) ==
  /\ item \in ItemsOf[game] \cup {NoItem}
  /\ native' = [native EXCEPT !.item = item]
  /\ UNCHANGED <<species, game, cache>>

SetIsEgg(value) ==
  /\ native' = [native EXCEPT !.egg = value]
  /\ UNCHANGED <<species, game, cache>>

SetLevelMet(level) ==
  /\ native' = [native EXCEPT !.levelMet = level]
  /\ UNCHANGED <<species, game, cache>>

SetOriginalGame(origin) ==
  /\ native' = [native EXCEPT !.origin = origin]
  /\ UNCHANGED <<species, game, cache>>

-----------------------------------------------------------------------------
TraitsNext ==
  \/ \E letter \in Letters : SetForm(letter)
  \/ \E gender \in Genders : SetGender(gender)
  \/ \E value \in BOOLEAN : SetShininess(value)
  \/ \E p \in Draws : SetPersonality(p)
  \/ \E nature \in Natures : SetNature(nature)
  \/ \E ability \in Abilities : SetAbility(ability)
  \/ \E id \in TrainerIDs : SetTrainerID(id)

GrowthNext ==
  \/ \E experience \in Experiences : SetExperience(experience)
  \/ \E level \in DOMAIN ExpAt : SetLevel(level)
  \/ \E stat \in Stats, value \in IVValues : SetIV(stat, value)
  \/ \E stat \in Stats, value \in EVValues : SetEV(stat, value)
  \/ \E hp \in {"FULL", "SOME"} : SetCurrentHP(hp)
  \/ \E condition \in Conditions : SetCondition(condition)
  \/ \E value \in BOOLEAN : SetIsEgg(value)

MovesNext ==
  \/ \E slot \in Slots, move \in Moves \cup {NoMove} : SetMove(slot, move)
  \/ \E slot \in Slots, ups \in NumPPUps : SetMovePP(slot, PPWith(cache.moves[slot].move, ups))

HonoursNext ==
  \/ \E c \in Contests, l \in ContestLevels, value \in BOOLEAN : SetContestRibbon(c, l, value)
  \/ \E ribbon \in Specials, value \in BOOLEAN : SetSpecialRibbon(ribbon, value)
  \/ \E marking \in Markings, value \in BOOLEAN : SetMarking(marking, value)
  \/ \E stat \in ContestStats, value \in {0, 255} : SetContestStat(stat, value)
  \/ \E value \in BOOLEAN : SetIsObedient(value)

HistoryNext ==
  \/ \E item \in Items \cup {NoItem} : SetHeldItem(item)
  \/ \E level \in {0, 100} : SetLevelMet(level)
  \/ \E origin \in Games : SetOriginalGame(origin)

ReloadNext == Copy \/ FromPC
=============================================================================
