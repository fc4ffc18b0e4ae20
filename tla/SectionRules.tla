----------------------------- MODULE SectionRules ---------------------------
(***************************************************************************)
(* The rule engine of the homepage (catalogue/home/section-rules.ts): pure *)
(* functions of a section, the candidates' effective values and a clock.   *)
(* Rules are a function on the keys that are given (the others are         *)
(* undefined); slugs are strings, days are units of the clock.             *)
(***************************************************************************)
EXTENDS Integers, Sequences, FiniteSets, SequencesExt

CONSTANTS Null,       \* an absent date, audience, position
          Malformed,  \* a rule value of the wrong type
          Film,       \* titles to the values no edit changes
          MaxRows     \* HOME_MAX_ROWS

-----------------------------------------------------------------------------
(* Parsing.                                                                *)

RuleKeys == {"types", "formats", "genresAny", "tagsAny", "collectionsAny", "industriesAny",
             "audiencesAny", "accessAny", "minRuntimeMinutes", "maxRuntimeMinutes",
             "releasedWithinDays", "publishedWithinDays", "releaseYearMin", "releaseYearMax",
             "premiere", "upcoming", "expiringWithinDays", "seriesComplete",
             "hasEpisodeWithinDays", "minPlays1d", "minPlays7d", "minPlaysAll", "anyOf"}

\* Unknown keys and wrong types are refused, in every branch.
RECURSIVE parseSectionRules(_)
parseSectionRules(rules) ==
  \A k \in DOMAIN rules :
    /\ k \in RuleKeys
    /\ rules[k] # Malformed
    /\ k = "anyOf" => \A i \in DOMAIN rules[k] : parseSectionRules(rules[k][i])

Branches(rules) == IF "anyOf" \in DOMAIN rules THEN rules["anyOf"] ELSE <<>>

-----------------------------------------------------------------------------
(* Eligibility and matching.                                               *)

RECURSIVE isUpcomingSection(_)
isUpcomingSection(rules) ==
  \/ "upcoming" \in DOMAIN rules /\ rules["upcoming"]
  \/ \E i \in DOMAIN Branches(rules) : isUpcomingSection(Branches(rules)[i])

After(date, now) == date # Null /\ date > now

isUpcoming(c, now) ==
  \/ c.releaseDate > now
  \/ After(c.premiereStartAt, now)
  \/ After(c.availableFrom, now)

baseEligibility(c, now, upcoming) ==
  /\ c.published
  /\ c.availableUntil # Null => c.availableUntil > now
  /\ upcoming \/ (~After(c.availableFrom, now) /\ c.playable)

InPast(date, now, days) == date # Null /\ date <= now /\ date >= now - days
InFuture(date, now, days) == date # Null /\ date > now /\ date <= now + days

AnyIn(values, wanted) == values \cap wanted # {}

\* A parent genre matches its subgenres.
genreMatches(c, wanted, parents) ==
  \E g \in c.genres : g \in wanted \/ (g \in DOMAIN parents /\ parents[g] \in wanted)

RuntimeHolds(k, v, runtime) ==
  /\ runtime # Null
  /\ IF k = "minRuntimeMinutes" THEN runtime >= v ELSE runtime <= v

\* One key of the rules; the days of a date stand for its year as well.
KeyHolds(c, k, v, now, parents) ==
  CASE k = "types" -> c.type \in v
    [] k = "formats" -> c.format \in v
    [] k = "genresAny" -> genreMatches(c, v, parents)
    [] k = "tagsAny" -> AnyIn(c.tags, v)
    [] k = "collectionsAny" -> AnyIn(DOMAIN c.collections, ToSet(v))
    [] k = "industriesAny" -> AnyIn(c.industries, v)
    [] k = "audiencesAny" -> c.audience # Null /\ c.audience \in v
    [] k = "accessAny" -> c.access \in v
    [] k \in {"minRuntimeMinutes", "maxRuntimeMinutes"} -> RuntimeHolds(k, v, c.runtimeMinutes)
    [] k = "releasedWithinDays" -> InPast(c.releaseDate, now, v)
    [] k = "publishedWithinDays" -> InPast(c.publishedAt, now, v)
    [] k = "releaseYearMin" -> c.releaseDate >= v
    [] k = "releaseYearMax" -> c.releaseDate <= v
    [] k = "premiere" -> c.isPremiere = v
    [] k = "upcoming" -> isUpcoming(c, now) = v
    [] k = "expiringWithinDays" -> InFuture(c.availableUntil, now, v)
    [] k = "seriesComplete" -> (c.type = "series" /\ c.seriesComplete) = v
    [] k = "hasEpisodeWithinDays" -> c.type = "series" /\ InPast(c.latestEpisodeAt, now, v)
    [] k = "minPlays1d" -> c.plays1d >= v
    [] k = "minPlays7d" -> c.plays7d >= v
    [] k = "minPlaysAll" -> c.playsAll >= v

RECURSIVE matchesRules(_, _, _, _)
matchesRules(c, rules, now, parents) ==
  /\ \A k \in DOMAIN rules \ {"anyOf"} : KeyHolds(c, k, rules[k], now, parents)
  /\ "anyOf" \in DOMAIN rules =>
       \E i \in DOMAIN rules["anyOf"] : matchesRules(c, rules["anyOf"][i], now, parents)

-----------------------------------------------------------------------------
(* Sorting and building a section.                                         *)

\* The first collection the rules name, depth first; Null when there is none.
RECURSIVE manualCollection(_)
manualCollection(rules) ==
  IF "collectionsAny" \in DOMAIN rules /\ rules["collectionsAny"] # <<>>
  THEN rules["collectionsAny"][1]
  ELSE LET named == SelectSeq(Branches(rules), LAMBDA b : manualCollection(b) # Null)
       IN  IF named = <<>> THEN Null ELSE manualCollection(named[1])

\* Mutant: an absent date sorts before every date.
NullsLastFirst(x) == IF x = Null THEN <<0, 0>> ELSE <<1, x>>

NullsLast(x) == IF x = Null THEN <<1, 0>> ELSE <<0, x>>
Negated(x) == IF x = Null THEN Null ELSE -x

\* A comparator as the tuple it compares by, ascending; ids break ties.
SortKey(sort, rules, c) ==
  LET place == LET slug == manualCollection(rules)
               IN  IF slug # Null /\ slug \in DOMAIN c.collections THEN c.collections[slug]
                   ELSE [position |-> Null, addedAt |-> Null]
      by == CASE sort = "POPULARITY"     -> <<-c.popularity, -c.playsAll>>
              [] sort = "PUBLISHED_DESC" -> <<-c.publishedAt>>
              [] sort = "RELEASE_DESC"   -> <<-c.releaseDate>>
              [] sort = "RELEASE_ASC"    -> <<c.releaseDate>>
              [] sort = "RATING_DESC"    -> <<-c.rating>>
              [] sort = "PLAYS_1D"       -> <<-c.plays1d, -c.popularity>>
              [] sort = "PLAYS_7D"       -> <<-c.plays7d, -c.popularity>>
              [] sort = "PLAYS_ALL"      -> <<-c.playsAll, -c.popularity>>
              [] sort = "LATEST_EPISODE" -> NullsLast(Negated(c.latestEpisodeAt))
              [] sort = "EXPIRING_SOON"  -> NullsLast(c.availableUntil)
              [] sort = "MANUAL"         -> NullsLast(place.position) \o NullsLast(place.addedAt)
  IN  Append(by, c.id)

Before(x, y) ==
  \E i \in DOMAIN x : x[i] < y[i] /\ \A j \in 1..(i - 1) : x[j] = y[j]

comparatorFor(sort, rules, a, b) == Before(SortKey(sort, rules, a), SortKey(sort, rules, b))

\* candidates: a set with distinct ids.  A pinned title must be eligible, but
\* need not match the rules.
buildSection(section, candidates, now, parents) ==
  LET upcoming == isUpcomingSection(section.rules)
      ok == {c \in candidates : /\ c.id \notin section.excluded
                                /\ baseEligibility(c, now, upcoming)}
      first == {i \in DOMAIN section.pinned : /\ \E c \in ok : c.id = section.pinned[i]
                                              /\ \A j \in 1..(i - 1) :
                                                   section.pinned[j] # section.pinned[i]}
      pins == [k \in 1..Cardinality(first) |->
                 CHOOSE c \in ok : c.id = section.pinned[SetToSortSeq(first, <)[k]]]
      rest == {c \in ok : c \notin ToSet(pins) /\ matchesRules(c, section.rules, now, parents)}
      all == pins \o SetToSortSeq(rest, LAMBDA a, b : comparatorFor(section.sort, section.rules, a, b))
  IN  [items |-> SubSeq(all, 1, IF section.limit < Len(all) THEN section.limit ELSE Len(all)),
       eligibleCount |-> Len(all)]

-----------------------------------------------------------------------------
(* HomeService: the rows of a page, from what was read of the sections,    *)
(* the titles and their classification.                                    *)

\* load: the effective values of the published titles, with links and industries.
toCandidate(t, row, links) ==
  [id |-> t, published |-> row.status = "published", genres |-> links.links,
   industries |-> links.auto \cup links.manual, isPremiere |-> row.isPremiere,
   premiereStartAt |-> IF row.premiereStartAt = 0 THEN Null ELSE row.premiereStartAt,
   availableFrom |-> IF links.from = 0 THEN Null ELSE links.from,
   availableUntil |-> IF links.until = 0 THEN Null ELSE links.until] @@ Film[t]

genreParents(vocabulary) ==
  [g \in {x \in DOMAIN vocabulary : vocabulary[x] # x} |-> vocabulary[g]]

Load(titles, links) ==
  {toCandidate(t, titles[t], links[t]) :
     t \in {x \in DOMAIN titles : titles[x].status = "published"}}

PersonalKinds == {"CONTINUE_WATCHING", "WATCHLIST", "RECOMMENDED", "BECAUSE_YOU_WATCHED"}

\* compute: the sections in order, until there are rows enough.
Qualifies(s, candidates, parents, now) ==
  /\ s.enabled
  /\ s.kind \notin PersonalKinds
  /\ parseSectionRules(s.rules)
  /\ buildSection(s, candidates, now, parents).eligibleCount >= s.minItems

compute(sections, candidates, parents, now) ==
  LET order == SetToSortSeq({s \in DOMAIN sections : Qualifies(sections[s], candidates, parents, now)},
                            LAMBDA a, b : Before(<<sections[a].position, a>>,
                                                 <<sections[b].position, b>>))
  IN  [i \in 1..(IF MaxRows < Len(order) THEN MaxRows ELSE Len(order)) |->
         [section |-> order[i],
          items |-> buildSection(sections[order[i]], candidates, now, parents).items]]

=============================================================================
