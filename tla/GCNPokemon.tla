----------------------------- MODULE GCNPokemon ----------------------------
(***************************************************************************)
(* A Pokemon of Colosseum or XD (lib/pokemon_gcnimpl.cpp).  The structure  *)
(* is LibPkmGC's, whose functions are external here.                       *)
(*                                                                         *)
(* The species number of an Unown that was made here is that of A whatever *)
(* its form; a constructor takes the form from the personality.  The       *)
(* shadow of a Pokemon is a form of the object and a number in the         *)
(* structure; a constructor does not look at that number, and make() does  *)
(* not write it.                                                           *)
(***************************************************************************)
EXTENDS Gen3Native

(* LibPkmGC: the level of no experience is 0. *)
ResetPartyData(data) ==
  LET level == GCNLevelAt(data.exp)
  IN [data EXCEPT !.level = level, !.stats = StatsFrom(level, data.iv, data.ev),
                  !.hp = "FULL", !.condition = NoCondition]

Make(level, p, iv, form, moves) ==
  LET pid == IF species.unown THEN WithLetter(p, form) ELSE p
      new == NewNative("GCN", level, pid, SecondFrom(p), IF species.unown THEN 0 ELSE NoForm, iv, GCNExpAt[level], moves)
      data == ResetPartyData(new)
  IN native = data /\ cache = CacheOf(data, form)

FromNative(data) ==
  /\ native' = data
  /\ cache' = CacheOf(data, IF species.unown THEN LetterOf(data.pid) ELSE NoForm)

Copy == FromNative(native) /\ UNCHANGED <<species, game>>

-----------------------------------------------------------------------------
SetForm(form) ==
  /\ form \in IF species.unown THEN Letters ELSE {NoForm, Shadow}
  /\ native' = [native EXCEPT
       !.pid = IF species.unown THEN WithLetter(native.pid, form) ELSE native.pid,
       !.shadow = IF (form = Shadow) = (cache.form = Shadow) THEN native.shadow ELSE form = Shadow]
  /\ cache' = [cache EXCEPT !.form = form]
  /\ UNCHANGED <<species, game>>

SetGender(gender) ==
  /\ GenderAllowed(species.ratio, gender)
  /\ \E p \in WithGender(species.ratio, native.pid, gender) : native' = [native EXCEPT !.pid = p]
  /\ UNCHANGED <<species, game, cache>>

FormFrom(p) == [cache EXCEPT !.form = IF species.unown THEN LetterOf(p) ELSE cache.form]

SetShininess(value) ==
  LET p == WithShininess(native.pid, native.ot, value)
  IN /\ native' = [native EXCEPT !.pid = p]
     /\ cache' = FormFrom(p)
     /\ UNCHANGED <<species, game>>

TakePersonality(p) ==
  /\ native' = [native EXCEPT !.pid = p, !.second = SecondFrom(p)]
  /\ cache' = FormFrom(p)

SetPersonality(p) == TakePersonality(p) /\ UNCHANGED <<species, game>>

SetNature(nature) ==
  /\ \E p \in Draws :
       TakePersonality(p) /\ Fits(p, native.ot, Shiny, Ability, Gender, nature)
  /\ UNCHANGED <<species, game>>

SetAbility(ability) ==
  /\ ability = 2 => species.two
  /\ \E p \in Draws :
       /\ native' = [native EXCEPT !.pid = p, !.second = ability = 2]
       /\ Fits(p, native.ot, Shiny, ability, Gender, Nature)
  /\ UNCHANGED <<species, game, cache>>

SetTrainerID(id) ==
  /\ native' = [native EXCEPT !.ot = id]
  /\ UNCHANGED <<species, game, cache>>

-----------------------------------------------------------------------------
ReadStats(data) == [cache EXCEPT !.stats = data.stats]

SetExperience(experience) ==
  /\ native' = ResetPartyData([native EXCEPT !.exp = experience])
  /\ cache' = ReadStats(native')
  /\ UNCHANGED <<species, game>>

(* The stats are read again, but nobody has computed them. *)
SetLevel(level) ==
  /\ native' = [native EXCEPT !.level = level, !.exp = GCNExpAt[level]]
  /\ cache' = ReadStats(native')
  /\ UNCHANGED <<species, game>>

SetIV(stat, value) ==
  /\ native' = ResetPartyData([native EXCEPT !.iv[stat] = value])
  /\ cache' = [ReadStats(native') EXCEPT !.IVs[stat] = value]
  /\ UNCHANGED <<species, game>>

SetEV(stat, value) ==
  /\ native' = ResetPartyData([native EXCEPT !.ev[stat] = value])
  /\ cache' = [ReadStats(native') EXCEPT !.EVs[stat] = value]
  /\ UNCHANGED <<species, game>>

SetCurrentHP(hp) ==
  /\ native' = [native EXCEPT !.hp = hp]
  /\ UNCHANGED <<species, game, cache>>

SetCondition(condition) ==
  /\ native' = [native EXCEPT !.condition = condition]
  /\ UNCHANGED <<species, game, cache>>

-----------------------------------------------------------------------------
SetMove(slot, move) ==
  /\ native' = [native EXCEPT !.moves[slot] = move, !.pps[slot] = PPWith(move, 0), !.ups[slot] = 0]
  /\ cache' = [cache EXCEPT !.moves[slot] = [move |-> move, pp |-> PPWith(move, 0)]]
  /\ UNCHANGED <<species, game>>

SetMovePP(slot, pp) ==
  /\ pp \in 0..PPWith(cache.moves[slot].move, 3)
  /\ native' = [native EXCEPT !.pps[slot] = pp, !.ups[slot] = FewestPPUps(cache.moves[slot].move, pp)]
  /\ cache' = [cache EXCEPT !.moves[slot].pp = pp]
  /\ UNCHANGED <<species, game>>

-----------------------------------------------------------------------------
(* The level is written whatever it was: a lesser ribbon takes the greater *)
(* ones away, and to take one away that is not there gives those below it. *)
SetContestRibbon(contest, level, value) ==
  /\ native' = [native EXCEPT !.contest[contest] = IF value THEN level ELSE level - 1]
  /\ cache' = [cache EXCEPT !.ribbons = RibbonsOf(native')]
  /\ UNCHANGED <<species, game>>

SetSpecialRibbon(ribbon, value) ==
  /\ native' = [native EXCEPT !.specials = IF value THEN @ \cup {ribbon} ELSE @ \ {ribbon}]
  /\ cache' = [cache EXCEPT !.ribbons = IF value THEN @ \cup {ribbon} ELSE @ \ {ribbon}]
  /\ UNCHANGED <<species, game>>

SetMarking(marking, value) ==
  /\ native' = [native EXCEPT !.markings = IF value THEN @ \cup {marking} ELSE @ \ {marking}]
  /\ cache' = [cache EXCEPT !.markings = IF value THEN @ \cup {marking} ELSE @ \ {marking}]
  /\ UNCHANGED <<species, game>>

SetContestStat(stat, value) ==
  /\ native' = [native EXCEPT !.contestStats[stat] = value]
  /\ cache' = [cache EXCEPT !.contestStats[stat] = value]
  /\ UNCHANGED <<species, game>>

SetIsObedient(value) ==
  /\ native' = [native EXCEPT !.obedient = value]
  /\ UNCHANGED <<species, game, cache>>

-----------------------------------------------------------------------------
SetHeldItem(item) ==
  /\ item \in ItemsOf[game] \cup {NoItem}
  /\ native' = [native EXCEPT !.item = item]
  /\ UNCHANGED <<species, game, cache>>

SetIsEgg(value) ==
  /\ native' = [native EXCEPT !.egg = value]
  /\ UNCHANGED <<species, game, cache>>

SetLevelMet(level) ==
  /\ native' = [native EXCEPT !.levelMet = level]
  /\ UNCHANGED <<species, game, cache>>

SetOriginalGame(origin) ==
  /\ native' = [native EXCEPT !.origin = IF origin \in GCNGames THEN "GCN" ELSE origin]
  /\ UNCHANGED <<species, game, cache>>

-----------------------------------------------------------------------------
TraitsNext ==
  \/ \E form \in Letters \cup {NoForm, Shadow} : SetForm(form)
  \/ \E gender \in Genders : SetGender(gender)
  \/ \E value \in BOOLEAN : SetShininess(value)
  \/ \E p \in Draws : SetPersonality(p)
  \/ \E nature \in Natures : SetNature(nature)
  \/ \E ability \in Abilities : SetAbility(ability)
  \/ \E id \in TrainerIDs : SetTrainerID(id)

GrowthNext ==
  \/ \E experience \in Experiences : SetExperience(experience)
  \/ \E level \in DOMAIN ExpAt : SetLevel(level)
  \/ \E stat \in Stats, value \in IVValues : SetIV(stat, value)
  \/ \E stat \in Stats, value \in EVValues : SetEV(stat, value)
  \/ \E hp \in {"FULL", "SOME"} : SetCurrentHP(hp)
  \/ \E condition \in Conditions : SetCondition(condition)
  \/ \E value \in BOOLEAN : SetIsEgg(value)

MovesNext ==
  \/ \E slot \in Slots, move \in Moves \cup {NoMove} : SetMove(slot, move)
  \/ \E slot \in Slots, ups \in NumPPUps : SetMovePP(slot, PPWith(cache.moves[slot].move, ups))

HonoursNext ==
  \/ \E c \in Contests, l \in ContestLevels, value \in BOOLEAN : SetContestRibbon(c, l, value)
  \/ \E ribbon \in Specials, value \in BOOLEAN : SetSpecialRibbon(ribbon, value)
  \/ \E marking \in Markings, value \in BOOLEAN : SetMarking(marking, value)
  \/ \E stat \in ContestStats, value \in {0, 255} : SetContestStat(stat, value)
  \/ \E value \in BOOLEAN : SetIsObedient(value)

HistoryNext ==
  \/ \E item \in Items \cup {NoItem} : SetHeldItem(item)
  \/ \E level \in {0, 100} : SetLevelMet(level)
  \/ \E origin \in Games : SetOriginalGame(origin)
=============================================================================
