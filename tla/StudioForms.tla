----------------------------- MODULE StudioForms ----------------------------
(***************************************************************************)
(* The Studio's title drawer: the movie form with its legacy genres        *)
(* (Movies.tsx, MovieEditor) and the classification panel in it            *)
(* (ClassificationPanel.tsx, lib/classification.ts).  Each form remembers  *)
(* what the server told it and sends what was changed since; the server's  *)
(* side of a request is Titles'.                                           *)
(***************************************************************************)
EXTENDS Titles

CONSTANTS Admins,     \* open drawers
          GenreTexts, \* what may be typed into the genre field, as sets of names
          PanelEdits, \* what may be chosen in the panel, as <<field, value>>
          MaxClicks   \* bound: changes and saves an admin makes

ASSUME FormsConstants == "none" \notin Editors /\ "reload" \notin Editors

VARIABLE forms

formVars == <<titleVars, forms>>

NoDrawer == [open |-> FALSE, clicks |-> 0]
NoAsk == [to |-> "none"]
NoPanel == [base |-> "none"]

\* Two requests of one drawer may be under way: the form's and the panel's.
FormsInit ==
  /\ TitlesInit
  /\ forms = [a \in Admins |-> NoDrawer]

InHand(a) == forms[a].open
Clicks(a) == forms[a].clicks < MaxClicks
Change(a, d) == forms' = [forms EXCEPT ![a] = d]
Unused(c) ==
  /\ titleEdit[c] = Resting
  /\ \A a \in Admins : InHand(a) => \A q \in {"form", "panel"} : forms[a][q] # [to |-> c]

-----------------------------------------------------------------------------
(* lib/classification.ts: the panel's draft and what of it is sent.        *)

\* An instant is twice its minute, plus one when it has seconds.
isoToLocalInput(x) == (x \div 2) * 2

\* draftFromDto: MANUAL industries only, dates to the minute.
draftFromDto(c) ==
  [k \in DOMAIN c \ {"auto"} |->
     IF k \in {"from", "until"} THEN isoToLocalInput(c[k]) ELSE c[k]]

\* Mutant: the draft is compared with the stored values themselves.
diffClassificationStored(base, draft) ==
  LET changed == {k \in DOMAIN draft : draft[k] # base[k]}
  IN  [k \in changed |-> draft[k]]

\* Compared with the draft the stored values would make.
diffClassification(base, draft) ==
  LET changed == {k \in DOMAIN draft : draft[k] # draftFromDto(base)[k]}
  IN  [k \in changed |-> draft[k]]

validateDraft(draft) ==
  draft.from # 0 /\ draft.until # 0 => draft.until > draft.from

legacyGenreNames(links) == Tops(links)

-----------------------------------------------------------------------------
(* The drawer.                                                             *)

\* The movie comes from the list that was loaded last, the panel loads itself.
OpenDrawer(a, t) ==
  /\ ~InHand(a) /\ Exists(t)
  /\ Change(a, [open |-> TRUE, title |-> t, genres |-> title[t].genres,
                baseline |-> title[t].genres, typed |-> FALSE, both |-> FALSE,
                form |-> NoAsk, panel |-> NoAsk, sent |-> {},
                asked |-> FALSE, loaded |-> NoPanel, clicks |-> forms[a].clicks])
  /\ UNCHANGED titleVars

LoadPanel(a) ==
  /\ InHand(a) /\ forms[a].loaded = NoPanel
  /\ LET c == class[forms[a].title]
     IN  Change(a, [forms[a] EXCEPT !.loaded =
                      [base |-> c, draft |-> draftFromDto(c), touched |-> {}]])
  /\ UNCHANGED titleVars

CloseDrawer(a) ==
  /\ InHand(a) /\ forms[a].form = NoAsk /\ forms[a].panel = NoAsk
  /\ Change(a, [NoDrawer EXCEPT !.clicks = forms[a].clicks])
  /\ UNCHANGED titleVars

TypeGenres(a, names) ==
  /\ InHand(a) /\ forms[a].genres # names /\ Clicks(a)
  /\ Change(a, [forms[a] EXCEPT !.genres = names, !.typed = TRUE, !.clicks = @ + 1])
  /\ UNCHANGED titleVars

\* The panel is disabled while it saves.
EditPanel(a, e) ==
  /\ InHand(a) /\ forms[a].loaded # NoPanel /\ forms[a].panel = NoAsk
  /\ forms[a].loaded.draft[e[1]] # e[2] /\ Clicks(a)
  /\ Change(a, [forms[a] EXCEPT !.loaded.draft[e[1]] = e[2],
                               !.loaded.touched = @ \cup {e[1]}, !.clicks = @ + 1])
  /\ UNCHANGED titleVars

\* "Legacy genres are only sent when edited here"; the other fields always are.
FormBody(d) ==
  IF d.genres = d.baseline THEN [status |-> "draft"]
  ELSE [status |-> "draft", genres |-> d.genres]

\* MovieEditor's save.
SaveForm(a, c) ==
  /\ InHand(a) /\ forms[a].form = NoAsk /\ Unused(c) /\ Clicks(a)
  /\ BeginUpdate(c, forms[a].title, FormBody(forms[a]))
  /\ Change(a, [forms[a] EXCEPT !.form = [to |-> c], !.sent = forms[a].genres,
                               !.asked = forms[a].typed, !.typed = FALSE,
                               !.clicks = @ + 1,
                               !.both = @ \/ forms[a].panel # NoAsk])

\* ClassificationPanel's save.
SavePanel(a, c) ==
  /\ InHand(a) /\ forms[a].loaded # NoPanel /\ forms[a].panel = NoAsk /\ Unused(c)
  /\ Clicks(a)
  /\ LET diff == diffClassification(forms[a].loaded.base, forms[a].loaded.draft)
     IN  /\ diff # NoFields /\ validateDraft(forms[a].loaded.draft)
         /\ BeginClassify(c, forms[a].title, diff)
  /\ Change(a, [forms[a] EXCEPT !.panel = [to |-> c], !.clicks = @ + 1,
                               !.both = @ \/ forms[a].form # NoAsk])

-----------------------------------------------------------------------------
(* Answers.                                                                *)

\* What was sent is the new baseline, whatever the field holds by now.
FormSaved(d) == [d EXCEPT !.form = NoAsk, !.baseline = d.sent]

FormFailed(d) == [d EXCEPT !.form = NoAsk, !.typed = @ \/ d.asked]

\* The panel reads the classification again: the form takes over its genres.
PanelReloads(a) ==
  /\ InHand(a) /\ forms[a].panel = [to |-> "reload"]
  /\ LET c == class[forms[a].title]
         names == legacyGenreNames(c.links)
     IN  Change(a, [forms[a] EXCEPT
           !.panel = NoAsk, !.genres = names, !.baseline = names, !.typed = FALSE,
           !.loaded = [base |-> c, draft |-> draftFromDto(c), touched |-> {}]])
  /\ UNCHANGED titleVars

\* The last step of request c, and the drawer that sent it: an answer, or none.
Answered(a, c) ==
  \/ /\ forms[a].form = [to |-> c]
     /\ Change(a, FormSaved(forms[a])) \/ Change(a, FormFailed(forms[a]))
  \/ /\ forms[a].panel = [to |-> c]
     /\ Change(a, [forms[a] EXCEPT !.panel = [to |-> "reload"]])
        \/ Change(a, [forms[a] EXCEPT !.panel = NoAsk])

Failed(a, c) ==
  \/ forms[a].form = [to |-> c] /\ Change(a, FormFailed(forms[a]))
  \/ forms[a].panel = [to |-> c] /\ Change(a, [forms[a] EXCEPT !.panel = NoAsk])

Serve(c) ==
  \/ MergePatch(c) \/ SaveRow(c) \/ CommitClassify(c) \/ BeginSync(c) \/ CommitSync(c)
  \/ Audited(c) /\ UNCHANGED <<title, class>>

ServeAndAnswer(c) ==
  /\ Serve(c)
  /\ IF titleEdit'[c] = Resting THEN \E a \in Admins : InHand(a) /\ Answered(a, c) ELSE UNCHANGED forms

FailAndAnswer(c) ==
  /\ EndTitleEdit(c)
  /\ \E a \in Admins : InHand(a) /\ Failed(a, c)

FormsNext ==
  \/ \E a \in Admins :
       \/ \E t \in TitleIds : OpenDrawer(a, t)
       \/ LoadPanel(a) \/ CloseDrawer(a) \/ PanelReloads(a)
       \/ \E names \in GenreTexts : TypeGenres(a, names)
       \/ \E e \in PanelEdits : EditPanel(a, e)
       \/ \E c \in Editors : SaveForm(a, c) \/ SavePanel(a, c)
  \/ \E c \in Editors : ServeAndAnswer(c) \/ FailAndAnswer(c)

FormsSpec == FormsInit /\ [][FormsNext]_formVars

-----------------------------------------------------------------------------
(* Properties.                                                             *)

Sender(c, q) == {a \in Admins : InHand(a) /\ forms[a][q] = [to |-> c]}

\* "Saves only changed fields": two admins with the same panel open do not undo
\* each other, a time that was stored with its seconds keeps them, and what an admin
\* has made differ from what was shown is what gets stored (diffClassification,
\* ClassificationPanel's save).
PanelWritesItsEdits ==
  [][\A c \in Editors, a \in Admins :
       a \in Sender(c, "panel") /\ Lands(c, "classify", forms[a].title) =>
         LET panel == forms[a].loaded
             t == forms[a].title
         IN  \A k \in DOMAIN panel.draft :
               /\ class'[t][k] # class[t][k] => k \in panel.touched
               /\ panel.draft[k] # draftFromDto(panel.base)[k] => class'[t][k] = panel.draft[k]]_formVars

\* "A movie save never overwrites what the Classification panel stored" unless the
\* genres were typed there, or both of the drawer's saves were under way at once; when
\* it writes, the parents are those of the genres that were sent (MovieEditor's save,
\* the panel's onSaved).
FormKeepsPicks ==
  [][\A c \in Editors, a \in Admins :
       a \in Sender(c, "form") /\ Lands(c, "link", forms[a].title) =>
         /\ forms[a].asked \/ forms[a].both
         /\ Tops(class'[forms[a].title].links) = forms[a].sent \cap TopGenres]_formVars

\* A drawer writes what was changed in it, and nothing that was not
\* (ClassificationPanel's and MovieEditor's save).
DrawerWritesItsEdits == PanelWritesItsEdits /\ FormKeepsPicks

=============================================================================
