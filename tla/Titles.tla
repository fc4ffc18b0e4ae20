-------------------------------- MODULE Titles ------------------------------
(***************************************************************************)
(* Catalogue titles and what admins write to them at the same time: movie  *)
(* edits (read, read again and merge, save the whole row), the hero flag,  *)
(* premieres, deletion, and classification with its legacy mirror.         *)
(***************************************************************************)
EXTENDS Integers, FiniteSets

CONSTANTS TitleIds,
          Editors,      \* admin requests in flight
          Patches,      \* bodies of PATCH movies/:id, functions on the fields given
          Inputs,       \* bodies of PUT titles/:id/classification
          Vocabulary,   \* genre slugs to their parents, top genres to themselves
          Industries,   \* industry slugs to [countries, languages]
          International \* the fallback industry

ASSUME TwoLevels ==
  \A g \in DOMAIN Vocabulary : /\ Vocabulary[g] \in DOMAIN Vocabulary
                               /\ Vocabulary[Vocabulary[g]] = Vocabulary[g]

VARIABLES title,    \* catalogue_titles: the columns the repository saves
          class,    \* the columns and join rows that only classification writes
          titleEdit,     \* requests in flight
          alone     \* history: no two requests on the title ever overlapped or broke off

titleVars == <<title, class, titleEdit, alone>>

Missing == [status |-> "missing"]
Resting == [step |-> "idle", title |-> 0]
Unclassified == [links |-> {}, countries |-> {}, languages |-> {}, auto |-> {}, manual |-> {},
                 from |-> 0, until |-> 0]

TitlesInit ==
  /\ title = [t \in TitleIds |-> Missing]
  /\ class = [t \in TitleIds |-> Unclassified]
  /\ titleEdit = [c \in Editors |-> Resting]
  /\ alone = [t \in TitleIds |-> TRUE]

Exists(t) == title[t] # Missing
InFlight(t) == {c \in Editors : titleEdit[c] # Resting /\ titleEdit[c].title = t}

Begin(c, r) ==
  /\ titleEdit[c] = Resting
  /\ titleEdit' = [titleEdit EXCEPT ![c] = r]
  /\ alone' = [alone EXCEPT ![r.title] = @ /\ InFlight(r.title) = {}]

Continue(c, r) == titleEdit' = [titleEdit EXCEPT ![c] = r] /\ UNCHANGED alone

Given(k, body) == k \in DOMAIN body
Merged(row, patch) == [k \in DOMAIN row |-> IF Given(k, patch) THEN patch[k] ELSE row[k]]
With(patch, extra) ==
  [k \in DOMAIN patch \cup DOMAIN extra |-> IF Given(k, extra) THEN extra[k] ELSE patch[k]]
NoFields == [k \in {} |-> 0]

-----------------------------------------------------------------------------
(* AdminService: movies.                                                   *)

NewRow(body) ==
  Merged([status |-> "draft", featured |-> FALSE, isPremiere |-> FALSE, premiereStartAt |-> 0,
          publishedAt |-> 0, genres |-> {}],
         With(body, IF Given("status", body) /\ body.status = "published"
                    THEN [publishedAt |-> 1] ELSE NoFields))

\* create: saved, then mirrored onto the joins.
CreateMovie(c, t, body) ==
  /\ ~Exists(t) /\ InFlight(t) = {}
  /\ title' = [title EXCEPT ![t] = NewRow(body)]
  /\ Begin(c, [step |-> "sync", title |-> t, genres |-> NewRow(body).genres])
  /\ UNCHANGED class

\* update: judged on the row it read.
BeginUpdate(c, t, body) ==
  /\ Exists(t)
  /\ LET existing == title[t]
         start == IF Given("premiereStartAt", body) THEN body.premiereStartAt
                  ELSE existing.premiereStartAt
         premiere == IF Given("isPremiere", body) THEN body.isPremiere ELSE existing.isPremiere
         stamp == IF Given("status", body) /\ body.status = "published" /\ existing.publishedAt = 0
                  THEN [publishedAt |-> 1] ELSE NoFields
         cancel == IF Given("isPremiere", body) /\ ~body.isPremiere
                   THEN [premiereStartAt |-> 0] ELSE NoFields
     IN  /\ Given("isPremiere", body) \/ Given("premiereStartAt", body)
              => (premiere => start # 0)
         /\ Begin(c, [step |-> "merge", title |-> t, patch |-> With(With(body, stamp), cancel)])
  /\ UNCHANGED <<title, class>>

\* setPremiere.
BeginSetPremiere(c, t, start) ==
  /\ Exists(t)
  /\ Begin(c, [step |-> "merge", title |-> t,
               patch |-> [isPremiere |-> start # 0, premiereStartAt |-> start]])
  /\ UNCHANGED <<title, class>>

\* The repository reads the row once more and merges the patch into it.
MergePatch(c) ==
  /\ titleEdit[c].step = "merge"
  /\ LET t == titleEdit[c].title
     IN  /\ Exists(t)
         /\ Continue(c, [step |-> "save", title |-> t, patch |-> titleEdit[c].patch,
                         row |-> Merged(title[t], titleEdit[c].patch)])
  /\ UNCHANGED <<title, class>>

\* save: an upsert of every column, whatever happened since the read.
SaveRow(c) ==
  /\ titleEdit[c].step = "save"
  /\ LET t == titleEdit[c].title
     IN  /\ title' = [title EXCEPT ![t] = titleEdit[c].row]
         /\ Continue(c, IF Given("genres", titleEdit[c].patch)
                        THEN [step |-> "sync", title |-> t, genres |-> titleEdit[c].patch.genres]
                        ELSE Resting)
  /\ UNCHANGED class

\* setFeatured: the heroes it sees are unset and t is set in one transaction,
\* which does not see what another one has not committed yet.
BeginFeature(c, t, on) ==
  /\ Begin(c, [step |-> "feature", title |-> t, on |-> on,
               heroes |-> {x \in TitleIds : on /\ x # t /\ Exists(x) /\ title[x].featured}])
  /\ UNCHANGED <<title, class>>

CommitFeature(c) ==
  /\ titleEdit[c].step = "feature"
  /\ title' = [x \in TitleIds |->
       IF ~Exists(x) THEN title[x]
       ELSE IF x = titleEdit[c].title THEN [title[x] EXCEPT !.featured = titleEdit[c].on]
       ELSE IF x \in titleEdit[c].heroes THEN [title[x] EXCEPT !.featured = FALSE]
       ELSE title[x]]
  /\ Continue(c, Resting)
  /\ UNCHANGED class

\* delete: the join rows cascade.
DeleteTitle(t) ==
  /\ Exists(t)
  /\ title' = [title EXCEPT ![t] = Missing]
  /\ class' = [class EXCEPT ![t] = Unclassified]
  /\ alone' = [alone EXCEPT ![t] = @ /\ InFlight(t) = {}]
  /\ UNCHANGED titleEdit

-----------------------------------------------------------------------------
(* ClassificationService.                                                  *)

TopGenres == {g \in DOMAIN Vocabulary : Vocabulary[g] = g}
Tops(links) == {Vocabulary[g] : g \in links}

Fits(wanted, have) == wanted = {} \/ wanted \cap have # {}

\* An industry without rules matches nothing; the fallback only when nothing did.
deriveIndustries(countries, languages) ==
  LET matched == {i \in DOMAIN Industries \ {International} :
                    /\ Industries[i].countries # {} \/ Industries[i].languages # {}
                    /\ Fits(Industries[i].countries, countries)
                    /\ Fits(Industries[i].languages, languages)}
  IN  IF countries = {} /\ languages = {} THEN {}
      ELSE IF matched = {} THEN {International} ELSE matched

\* update: the window and the AUTO industries are judged on the row it read.
BeginClassify(c, t, input) ==
  /\ Exists(t)
  /\ LET given == Merged(class[t], input)
     IN  /\ given.from # 0 /\ given.until # 0 => given.until > given.from
         /\ Given("links", input) => input.links \subseteq DOMAIN Vocabulary
         /\ Given("manual", input) => input.manual \subseteq DOMAIN Industries
         /\ Begin(c, [step |-> "classify", title |-> t, input |-> input,
                      auto |-> deriveIndustries(given.countries, given.languages)])
  /\ UNCHANGED <<title, class>>

\* Mutant: the AUTO rows are only rewritten with the MANUAL ones.
CommitClassifyKeepsAuto(c) ==
  /\ titleEdit[c].step = "classify"
  /\ LET t == titleEdit[c].title
         input == titleEdit[c].input
         given == Merged(class[t], input)
     IN  /\ Exists(t)
         /\ title' = IF Given("links", input) THEN [title EXCEPT ![t].genres = Tops(input.links)]
                     ELSE title
         /\ class' = [class EXCEPT ![t] =
              IF Given("manual", input) THEN [given EXCEPT !.auto = titleEdit[c].auto \ given.manual]
              ELSE given]
         /\ Continue(c, [step |-> "audit", title |-> t])

\* One transaction: the lists that are given are replaced, the AUTO rows always;
\* a MANUAL row for the same industry wins.
CommitClassify(c) ==
  /\ titleEdit[c].step = "classify"
  /\ LET t == titleEdit[c].title
         input == titleEdit[c].input
         given == Merged(class[t], input)
     IN  /\ Exists(t)
         /\ title' = IF Given("links", input) THEN [title EXCEPT ![t].genres = Tops(input.links)]
                     ELSE title
         /\ class' = [class EXCEPT ![t] = [given EXCEPT !.auto = titleEdit[c].auto \ given.manual]]
         /\ Continue(c, [step |-> "audit", title |-> t])

\* Mutant: a parent that is still selected loses its subgenres.
KeptLinksTopOnly(links, names) == names \cap TopGenres

\* syncLegacy: the picks under a parent that is still named are kept; names
\* outside the vocabulary stay in the legacy column only.
KeptLinks(links, names) ==
  UNION {LET kept == {g \in links : Vocabulary[g] = top}
         IN  IF kept = {} THEN {top} ELSE kept : top \in names \cap TopGenres}

BeginSync(c) ==
  /\ titleEdit[c].step = "sync"
  /\ LET t == titleEdit[c].title
         seen == class[t].links
         names == titleEdit[c].genres
     IN  Continue(c, IF Exists(t)
                     THEN [step |-> "link", title |-> t, seen |-> seen, genres |-> names,
                           links |-> KeptLinks(seen, names)]
                     ELSE Resting)
  /\ UNCHANGED <<title, class>>

CommitSync(c) ==
  /\ titleEdit[c].step = "link"
  /\ LET t == titleEdit[c].title
     IN  /\ Exists(t)
         /\ class' = [class EXCEPT ![t].links = titleEdit[c].links]
         /\ Continue(c, [step |-> "audit", title |-> t])
  /\ UNCHANGED title

-----------------------------------------------------------------------------

\* After a write of the classification: the audit row, then the browse cache of
\* this process is dropped (Homepage says what that does).
Audited(c) == titleEdit[c].step = "audit" /\ Continue(c, Resting)

\* A step that throws, or a process that dies.
EndTitleEdit(c) ==
  /\ titleEdit[c] # Resting
  /\ titleEdit' = [titleEdit EXCEPT ![c] = Resting]
  /\ alone' = [alone EXCEPT ![titleEdit[c].title] = FALSE]
  /\ UNCHANGED <<title, class>>

MovieEdit(c) ==
  \/ \E t \in TitleIds :
       \/ \E body \in Patches : CreateMovie(c, t, body) \/ BeginUpdate(c, t, body)
       \/ \E start \in {0, 1} : BeginSetPremiere(c, t, start)
       \/ \E on \in BOOLEAN : BeginFeature(c, t, on)
  \/ MergePatch(c) \/ SaveRow(c) \/ CommitFeature(c)

Classification(c) ==
  \/ \E t \in TitleIds, input \in Inputs : BeginClassify(c, t, input)
  \/ CommitClassify(c) \/ BeginSync(c) \/ CommitSync(c)

TitlesNext ==
  \/ \E c \in Editors : \/ MovieEdit(c) \/ Classification(c) \/ EndTitleEdit(c)
                        \/ Audited(c) /\ UNCHANGED <<title, class>>
  \/ \E t \in TitleIds : DeleteTitle(t)

TitlesSpec == TitlesInit /\ [][TitlesNext]_titleVars

-----------------------------------------------------------------------------
(* Properties.                                                             *)

\* The legacy column and the joins are two copies of one choice, written by two
\* editors of the Studio: as long as their requests came one after the other and
\* none broke off, the genres of the vocabulary that the column names are the
\* parents of the picks, and the AUTO industries are those of the title's
\* countries and languages (update, syncLegacy).
MirrorsAgree ==
  \A t \in TitleIds :
    Exists(t) /\ alone[t] /\ InFlight(t) = {} =>
      /\ title[t].genres \cap TopGenres = Tops(class[t].links)
      /\ class[t].auto =
           deriveIndustries(class[t].countries, class[t].languages) \ class[t].manual

\* The write of request c that a step makes, of its genres or its classification.
Lands(c, step, t) ==
  titleEdit[c].step = step /\ titleEdit[c].title = t /\ titleEdit'[c].step = "audit"

\* A pick leaves a title that stays only by a classification, or by a save of the older
\* editor that does not name its parent or had not read it yet: what syncLegacy reads
\* under a parent that its save names is kept, whatever is written before it writes
\* ("Existing subgenre picks under a still-selected parent are kept").  A pick made
\* between the two is lost: nothing holds the joins meanwhile.
PicksSurviveLegacySave ==
  [][\A t \in TitleIds :
       Exists(t) /\ title'[t] # Missing =>
         \A g \in class[t].links \ class'[t].links :
           \E c \in Editors :
             \/ Lands(c, "classify", t)
             \/ /\ Lands(c, "link", t)
                /\ Vocabulary[g] \notin titleEdit[c].genres \/ g \notin titleEdit[c].seen]_titleVars

=============================================================================
