----------------------------- MODULE MCBackOffice ---------------------------
(***************************************************************************)
(* Nine scenarios of the back office, chosen at the start: edits of a     *)
(* title at the server, two admins with its drawer open, the homepage's    *)
(* cache, single rows of the rule engine, a section's rules drawer, one    *)
(* series and its seasons, a producer's withdrawals at the server, from    *)
(* the producer's page, and with loads of that page crossing them.         *)
(***************************************************************************)
EXTENDS Homepage, SectionRules, StudioForms, RuleEditor, SeriesPublishing, ProducerDesk, TLC

CONSTANTS e1, e2, e3, web, apple

MCPatches == {[status |-> "published"], [isPremiere |-> TRUE],
              [isPremiere |-> FALSE, genres |-> {"drama", "odd"}],
              [premiereStartAt |-> 0, genres |-> {"horror"}]}
MCInputs == {[links |-> {"ghost"}, from |-> 2],
             [links |-> {"drama"}, countries |-> {"NG"}],
             [languages |-> {"yo"}, manual |-> {"yoruba"}, until |-> 1]}
MCVocabulary == [horror |-> "horror", ghost |-> "horror", drama |-> "drama"]
MCIndustries == [nollywood |-> [countries |-> {"NG"}, languages |-> {}],
                 yoruba |-> [countries |-> {"NG"}, languages |-> {"yo"}],
                 world |-> [countries |-> {}, languages |-> {}]]
MCBodies == {[enabled |-> FALSE], [excluded |-> {1}, minItems |-> 2],
             [rules |-> [colour |-> "red"]]}

Plain == [type |-> "movie", format |-> "FEATURE_FILM", tags |-> {}, collections |-> NoFields,
          audience |-> Null, access |-> "FREE", runtimeMinutes |-> 100, releaseDate |-> 0,
          publishedAt |-> 0, seriesComplete |-> FALSE, latestEpisodeAt |-> Null,
          playable |-> TRUE, popularity |-> 0, rating |-> 0, plays1d |-> 0, plays7d |-> 0,
          playsAll |-> 0]
MCFilm == [t \in TitleIds |-> Plain]

Full == With(Plain, [published |-> TRUE, genres |-> {}, industries |-> {}, isPremiere |-> FALSE,
                     premiereStartAt |-> Null, availableFrom |-> Null, availableUntil |-> Null])
Now == 3
\* Titles of the rules' scenario, by what makes each different from Full.
Ghost      == [genres |-> {"ghost"}, playsAll |-> 1]
Untimed    == [genres |-> {"ghost"}, runtimeMinutes |-> Null]
Later      == [releaseDate |-> 4, popularity |-> 1]
Unlicensed == [availableFrom |-> 4, playable |-> FALSE]
Leaving    == [availableUntil |-> 5]
Kids       == [type |-> "series", runtimeMinutes |-> Null, latestEpisodeAt |-> 2, audience |-> "KIDS"]
Complete   == [type |-> "series", latestEpisodeAt |-> 1, seriesComplete |-> TRUE, plays7d |-> 1]
Placed     == [collections |-> [picks |-> [position |-> 1, addedAt |-> 2]], rating |-> 1]
Premiering == [collections |-> [picks |-> [position |-> Null, addedAt |-> 1]], isPremiere |-> TRUE,
               premiereStartAt |-> 4]
Kinds == {NoFields, [published |-> FALSE], [playable |-> FALSE], [availableUntil |-> 3], Ghost,
          Untimed, Later, Unlicensed, Leaving, Kids, Complete, Placed, Premiering}
Variants == {With(Full, f) : f \in Kinds}

\* Rules, and the kinds of title that each of them asks for.
AskedFor ==
  (NoFields :> Kinds) @@
  ([genresAny |-> {"horror"}, maxRuntimeMinutes |-> 120] :> {Ghost}) @@
  ([upcoming |-> TRUE] :> {Later, Unlicensed, Premiering}) @@
  ([minRuntimeMinutes |-> 100, releasedWithinDays |-> 3] :> Kinds \ {Later, Untimed, Kids}) @@
  ([collectionsAny |-> <<"picks">>] :> {Placed, Premiering}) @@
  ([anyOf |-> <<[hasEpisodeWithinDays |-> 1], [expiringWithinDays |-> 2],
                [collectionsAny |-> <<"picks">>]>>] :> {Kids, Leaving, Placed, Premiering}) @@
  ([maxRuntimeMinutes |-> 100, audiencesAny |-> {"KIDS"}] :> {})
RuleSets == DOMAIN AskedFor
Probes ==
  {[section |-> [rules |-> r, sort |-> s, limit |-> l, pinned |-> p, excluded |-> x],
    candidates |-> {With(a, [id |-> 1]), With(b, [id |-> 2])}] :
      r \in RuleSets, s \in {"POPULARITY", "EXPIRING_SOON", "LATEST_EPISODE", "MANUAL"},
      l \in {1, 2}, p \in {<<>>, <<2>>, <<2, 2, 1>>}, x \in {{}, {2}}, a \in Variants, b \in Variants}

\* The title drawer: a title that is picked for a genre and has a start with seconds.
MCGenreTexts == {{"horror", "odd"}}
MCPanelEdits == {<<"links", {"ghost"}>>, <<"countries", {"NG"}>>,
                 <<"until", 4>>}

\* The rules drawer: rules the form can show and some it cannot.
NoKeys == NoFields
MCStored ==
  {NoKeys, [premiere |-> FALSE, minPlays7d |-> 0],
   [genresAny |-> {"horror"}, anyOf |-> <<NoKeys, [collectionsAny |-> <<"picks">>]>>],
   [anyOf |-> <<[anyOf |-> <<NoKeys>>]>>], [anyOf |-> <<>>], [genresAny |-> {}]}
MCTexts ==
  {Mistaken, [colour |-> {}], [premiere |-> TRUE, collectionsAny |-> <<>>],
   [anyOf |-> <<[genresAny |-> {}]>>], [anyOf |-> <<[premiere |-> TRUE], NoKeys>>]}
MCChoices ==
  {<<"genresAny", {"horror"}>>, <<"genresAny", {}>>,
   <<"collectionsAny", <<"picks">>>>}
MCNumbers == {EmptyText, 0, 3, -1}

\* parseRulesAt goes on with the branches of a branch.
RECURSIVE MCParses(_)
MCParses(list) ==
  \A i \in DOMAIN list : FieldsParse(list[i]) /\ MCParses(anyOfs(list[i]))

\* A computation of the home page runs the rule engine.
MCRows(sections, titles, links, now) ==
  compute(sections, Load(titles, links), genreParents(Vocabulary), now)

\* Two seasons, three episodes.
MCEpisodes == {e1, e2, e3}
MCSeasons  == {{e1, e2}, {e3}}

\* One film sold on the web and at Apple.
MCTicketMinor == [s \in Stores |-> 10]
MCCommission  == [s \in Stores |-> IF s = apple THEN 3000 ELSE 0]

-----------------------------------------------------------------------------

VARIABLES part, probe

payoutVars == <<producerVars, deskVars>>
officeVars == <<titleVars, homeVars, forms, drawer, publishingVars, payoutVars>>
allVars == <<officeVars, part, probe>>

Published == [NewRow([status |-> "published"]) EXCEPT !.premiereStartAt = 0]
Picked == [Unclassified EXCEPT !.links = {"horror"}, !.from = 3]

\* TitlesInit for titles that are there already.
Stand(row, c) ==
  /\ title = [t \in TitleIds |-> row] /\ class = [t \in TitleIds |-> c]
  /\ titleEdit = [e \in Editors |-> Resting] /\ alone = [t \in TitleIds |-> TRUE]

LoadedPage ==
  [ClosedPage EXCEPT !.producer = CHOOSE p \in Producers : TRUE, !.key = 1,
                     !.data = [balance |-> 9, earned |-> 9, rows |-> {}, told |-> {}]]

\* A producer with a link and a ticket sold at either store.
Earning(requested) ==
  /\ link = [f \in Films |-> [producer |-> CHOOSE p \in Producers : TRUE, share |-> 9000]]
  /\ sold = [f \in Films |-> [s \in Stores |-> IF s = web \/ requested THEN 1 ELSE 0]]
  /\ withdrawal = [w \in Withdrawals |->
       IF requested
       THEN [status |-> "REQUESTED", producer |-> CHOOSE p \in Producers : TRUE, amount |-> 6,
             expiresAt |-> CodeTTL, attempts |-> 0]
       ELSE NoWithdrawal]
  /\ transferred = {} /\ clock = 0 /\ tab = [c \in Tabs |-> TabIdle]
  /\ key = [p \in Producers |-> 1] /\ mailed = {<<p, 1>> : p \in Producers}
  /\ panel = [a \in Panels |-> PanelResting] /\ dash = [d \in Dashboards |-> LoadedPage]
  /\ payouts = ListedFirst

Start ==
  /\ HomeInit /\ PublishingInit
  /\ forms = [a \in Admins |-> NoDrawer] /\ drawer = NoDrawerOpen
  /\ \/ /\ part \in {"titles", "drawer", "removals", "payouts", "links", "desk", "late", "queue"}
        /\ probe = NoFields /\ TitlesInit
     \/ part = "rules" /\ probe \in Probes /\ TitlesInit
     \/ part = "home" /\ probe = NoFields /\ Stand(Published, Unclassified)
     \/ part = "forms" /\ probe = NoFields
        /\ Stand([NewRow(NoFields) EXCEPT !.genres = {"horror"}], Picked)
  /\ IF part \in {"desk", "late", "queue"} THEN Earning(part = "queue") ELSE WithdrawalsInit /\ DeskInit

\* One request to the catalogue at a time.
OneEditor == Cardinality({c \in Editors : titleEdit[c] # Resting}) <= 1

EditTitles ==
  /\ TitlesNext /\ OneEditor'
  /\ UNCHANGED <<homeVars, forms, drawer, publishingVars, payoutVars>>

\* One request of an admin at a time, of titles or of the home page.
OneAtWork ==
  OneEditor /\ ((\A c \in Desk : desk[c] = NoRequest) \/ \A c \in Editors : titleEdit[c] = Resting)

ServeHome ==
  /\ \/ ClassifyNext({[countries |-> {"NG"}]})
     \/ HomeNext /\ UNCHANGED titleVars
  /\ OneAtWork'
  /\ UNCHANGED <<forms, drawer, publishingVars, payoutVars>>

\* Requests whose answer nobody waits for any more.
Orphans ==
  {c \in Tabs :
    tab[c] # TabIdle /\ \A d \in Dashboards : dash[d].wire # [at |-> "served", slot |-> c]}

OfThePage ==
  \/ (ReadingNext \/ SheetNext \/ ServingNext)
  \/ part = "late" /\ \E d \in Dashboards :
       Refresh(d) \/ AdmitLoad(d) \/ TakeLoad(d, TRUE)
  \/ clock = 0 /\ PassTime /\ UNCHANGED deskVars

\* One such request at most; none, and no wrong code, where loads cross the sheet.
ProducingNext ==
  /\ OfThePage
  /\ Cardinality(Orphans') <= IF part = "late" THEN 0 ELSE 1
  /\ part = "late" => \A w \in Withdrawals :
       withdrawal'[w] # NoWithdrawal => withdrawal'[w].attempts = 0

Step ==
  /\ UNCHANGED <<part, probe>>
  /\ \/ part = "titles" /\ EditTitles
     \/ part = "home" /\ ServeHome
     \/ part = "forms" /\ FormsNext
        /\ UNCHANGED <<homeVars, drawer, publishingVars, payoutVars>>
     \/ part = "drawer" /\ EditorNext
        /\ UNCHANGED <<titleVars, homeVars, forms, publishingVars, payoutVars>>
     \/ part = "removals" /\ PublishingNext
        /\ UNCHANGED <<titleVars, homeVars, forms, drawer, payoutVars>>
     \/ /\ \/ part = "payouts" /\ WithdrawalsNext /\ UNCHANGED deskVars
           \/ part = "links" /\ (LinksNext \/ PageNext \/ ReadingNext)
           \/ part \in {"desk", "late"} /\ ProducingNext
           \/ part = "queue" /\ PayoutsNext
        /\ UNCHANGED <<titleVars, homeVars, forms, drawer, publishingVars>>

BackOfficeSpec == Start /\ [][Step]_allVars

-----------------------------------------------------------------------------

\* What docs and code say of a row, apart from how it is built: it has no title that
\* is hidden, excluded or out of its rights, nor, unless the section asks for upcoming
\* titles, one that cannot be watched; each is pinned or of a kind the rules ask for;
\* pinned titles lead in the order of their pins, the others follow in the section's
\* sort, those without the date or the place that is sorted by last, ties by id; and a
\* title that belongs in the row is left out only when it is full, of titles ahead of
\* it (buildSection, comparatorFor).
RowIsAsDocumented ==
  part = "rules" =>
    LET sec == probe.section
        row == buildSection(sec, probe.candidates, Now, genreParents(Vocabulary)).items
        pins(c) == {i \in DOMAIN sec.pinned : sec.pinned[i] = c.id}
        watchable(c) == c.playable /\ (c.availableFrom = Null \/ c.availableFrom <= Now)
        fits(c) == /\ c.published /\ (c.availableUntil = Null \/ c.availableUntil > Now)
                   /\ c.id \notin sec.excluded
                   /\ "upcoming" \in DOMAIN sec.rules \/ watchable(c)
        asked(c) == \E f \in AskedFor[sec.rules] : c = With(With(Full, f), [id |-> c.id])
        belongs(c) == fits(c) /\ (pins(c) # {} \/ asked(c))
        orLast(date) == IF date = Null THEN 9 ELSE date
        ofPicks == {r \in RuleSets : \E k \in {"collectionsAny", "anyOf"} : k \in DOMAIN r}
        score(c) ==
          CASE sec.sort = "POPULARITY" -> -(10 * c.popularity + c.playsAll)
            [] sec.sort = "EXPIRING_SOON" -> orLast(c.availableUntil)
            [] sec.sort = "LATEST_EPISODE" -> IF c.latestEpisodeAt = Null THEN 1 ELSE -c.latestEpisodeAt
            [] sec.rules \in ofPicks /\ c.collections # NoFields ->
                 10 * orLast(c.collections.picks.position) + orLast(c.collections.picks.addedAt)
            [] OTHER -> 99
        ahead(c, d) ==
          IF pins(c) \cup pins(d) # {}
          THEN \E i \in pins(c) : \A j \in pins(d) : i < j
          ELSE score(c) < score(d) \/ (score(c) = score(d) /\ c.id < d.id)
    IN  /\ Len(row) <= sec.limit
        /\ \A i \in DOMAIN row : row[i] \in probe.candidates /\ belongs(row[i])
        /\ \A i, j \in DOMAIN row : i < j => ahead(row[i], row[j])
        /\ \A c \in probe.candidates \ ToSet(row) :
             belongs(c) => Len(row) = sec.limit /\ \A i \in DOMAIN row : ahead(row[i], c)

\* Editors are also Tabs and Processes, Admins also Withdrawals and Builds.
Symmetry == Permutations(Editors) \cup Permutations(Admins)

=============================================================================
