------------------------------ MODULE RuleEditor ----------------------------
(***************************************************************************)
(* The Studio's rules drawer of a home page section (Homepage.tsx,         *)
(* RulesDrawer) over the form model of lib/classification.ts: a form and a *)
(* JSON text of the same rules, either of which may be edited and saved.   *)
(***************************************************************************)
EXTENDS Integers, Sequences, SequencesExt

CONSTANTS StoredRules, \* rules a section may have when its drawer is opened
          JsonTexts,   \* what may be typed as JSON, as the value it stands for
          ListChoices, \* lists the form's pickers are set to, as <<key, value>>
          NumberTexts, \* texts of its number fields
          EmptyText,   \* a number field with nothing in it
          ParsesDeeper(_), \* parseRulesAt for the branches of a branch
          MaxChanges   \* bound: changes made in one drawer

VARIABLE drawer

NoDrawerOpen == [open |-> FALSE]

\* What the drawer has instead of rules; as a text, one that is no JSON.
Mistaken == [ok |-> FALSE]

-----------------------------------------------------------------------------
(* Rules: a function on the keys that are given.                           *)

ListKeys == {"types", "formats", "genresAny", "tagsAny", "collectionsAny", "industriesAny",
             "audiencesAny", "accessAny"}
NumberKeys == {"minRuntimeMinutes", "maxRuntimeMinutes", "releasedWithinDays",
               "publishedWithinDays", "releaseYearMin", "releaseYearMax", "expiringWithinDays",
               "hasEpisodeWithinDays", "minPlays1d", "minPlays7d", "minPlaysAll"}
FlagKeys == {"premiere", "upcoming", "seriesComplete"}
FormKeys == ListKeys \cup NumberKeys \cup FlagKeys

anyOfs(rules) == IF "anyOf" \in DOMAIN rules THEN rules["anyOf"] ELSE <<>>

\* Lists are sets of names, but for the one whose order counts.
checkRuleValue(k, v) ==
  /\ k \in NumberKeys => v \in Nat
  /\ k \in FlagKeys => v \in BOOLEAN
  /\ k \in ListKeys => v \in IF k = "collectionsAny" THEN Seq(STRING) ELSE SUBSET STRING

isPlainObject(v) == v = [k \in DOMAIN v |-> v[k]]
IsArray(v) == Len(v) \in Nat /\ v = [i \in 1..Len(v) |-> v[i]]

FieldsParse(rules) ==
  /\ isPlainObject(rules)
  /\ DOMAIN rules \subseteq FormKeys \cup {"anyOf"}
  /\ \A k \in DOMAIN rules \ {"anyOf"} : checkRuleValue(k, rules[k])
  /\ "anyOf" \in DOMAIN rules => IsArray(rules["anyOf"])

\* Unknown keys and wrong values are refused, in every branch.
parseRulesAt(rules) ==
  /\ FieldsParse(rules)
  /\ \A i \in DOMAIN anyOfs(rules) :
       /\ FieldsParse(anyOfs(rules)[i])
       /\ "anyOf" \in DOMAIN anyOfs(rules)[i] => ParsesDeeper(anyOfs(rules)[i]["anyOf"])

-----------------------------------------------------------------------------
(* Rules and forms.                                                        *)

\* "Nothing chosen" is a key that is left out.
NothingChosen(k) == CASE k = "collectionsAny" -> <<>> [] k \in ListKeys \ {"collectionsAny"} -> {}
                      [] k \in NumberKeys -> EmptyText [] k \in FlagKeys -> "any"
emptyRulesForm == [k \in FormKeys |-> NothingChosen(k)]

formFromRules(rules) ==
  [k \in FormKeys |->
     IF k \notin DOMAIN rules THEN NothingChosen(k)
     ELSE IF k \in FlagKeys THEN IF rules[k] THEN "yes" ELSE "no"
     ELSE rules[k]]

draftFromRules(rules) ==
  [top |-> formFromRules(rules),
   anyOf |-> [i \in DOMAIN anyOfs(rules) |-> formFromRules(anyOfs(rules)[i])]]

\* A number field that holds no number, or one below zero.
Invalid(form) == \E k \in NumberKeys : form[k] # EmptyText /\ ~checkRuleValue(k, form[k])

rulesFromForm(form) ==
  LET given == {k \in FormKeys : form[k] # NothingChosen(k)}
  IN  [k \in given |-> IF k \in FlagKeys THEN form[k] = "yes" ELSE form[k]]

FormErrors(draft) == Invalid(draft.top) \/ \E i \in DOMAIN draft.anyOf : Invalid(draft.anyOf[i])

rulesFromDraft(draft) ==
  LET top == rulesFromForm(draft.top)
      branches == [i \in DOMAIN draft.anyOf |-> rulesFromForm(draft.anyOf[i])]
  IN  IF draft.anyOf = <<>> THEN top
      ELSE [k \in DOMAIN top \cup {"anyOf"} |-> IF k = "anyOf" THEN branches ELSE top[k]]

EmptyListIn(r) == \E k \in DOMAIN r \cap ListKeys : r[k] = NothingChosen(k)

\* Mutant: only the nesting is looked at.
formUnsupportedNesting(rules) ==
  \E i \in DOMAIN anyOfs(rules) : "anyOf" \in DOMAIN anyOfs(rules)[i]

\* An empty list or anyOf matches nothing; an empty field of the form, everything.
formUnsupported(rules) ==
  \/ EmptyListIn(rules)
  \/ "anyOf" \in DOMAIN rules /\ rules["anyOf"] = <<>>
  \/ \E i \in DOMAIN anyOfs(rules) :
       EmptyListIn(anyOfs(rules)[i]) \/ "anyOf" \in DOMAIN anyOfs(rules)[i]

\* The server stores rules that parse; the pickers and fields offer what they show.
ASSUME EditorConstants ==
  /\ \A r \in StoredRules : parseRulesAt(r)
  /\ \A c \in ListChoices : c[1] \in ListKeys /\ checkRuleValue(c[1], c[2])
  /\ EmptyText \notin Int /\ NumberTexts \subseteq Int \cup {EmptyText}

-----------------------------------------------------------------------------
(* RulesDrawer.                                                            *)

\* What Save would send: nothing while the tab that is shown has errors.
current(d) ==
  IF d.tab = "form" THEN IF FormErrors(d.draft) THEN Mistaken ELSE rulesFromDraft(d.draft)
  ELSE IF parseRulesAt(d.text) THEN d.text ELSE Mistaken

EditorInit == drawer = NoDrawerOpen

\* Rules the form cannot show open as JSON.
OpenRules(rules) ==
  /\ ~drawer.open
  /\ drawer' = [open |-> TRUE, stored |-> rules, text |-> rules, changes |-> 0,
                tab |-> IF formUnsupported(rules) THEN "json" ELSE "form",
                draft |-> IF formUnsupported(rules) THEN [top |-> emptyRulesForm, anyOf |-> <<>>]
                          ELSE draftFromRules(rules)]

showForm ==
  /\ drawer.open /\ drawer.tab = "json"
  /\ parseRulesAt(drawer.text) /\ ~formUnsupported(drawer.text)
  /\ drawer' = [drawer EXCEPT !.draft = draftFromRules(drawer.text), !.tab = "form"]

showJson ==
  /\ drawer.open /\ drawer.tab = "form" /\ ~FormErrors(drawer.draft)
  /\ drawer' = [drawer EXCEPT !.text = rulesFromDraft(drawer.draft), !.tab = "json"]

Changing(tab) == drawer.open /\ drawer.tab = tab /\ drawer.changes < MaxChanges
Changed(d) == drawer' = [d EXCEPT !.changes = @ + 1]

TypeJson(text) == Changing("json") /\ Changed([drawer EXCEPT !.text = text])

\* A field of the rules themselves (0) or of one of their branches.
SetField(i, k, v) ==
  /\ Changing("form")
  /\ IF i = 0 THEN Changed([drawer EXCEPT !.draft.top[k] = v])
     ELSE /\ i \in DOMAIN drawer.draft.anyOf
          /\ Changed([drawer EXCEPT !.draft.anyOf[i][k] = v])

addBranch ==
  /\ Changing("form")
  /\ Changed([drawer EXCEPT !.draft.anyOf = Append(@, emptyRulesForm)])

removeBranch(i) ==
  /\ Changing("form") /\ i \in DOMAIN drawer.draft.anyOf
  /\ Changed([drawer EXCEPT !.draft.anyOf = RemoveAt(@, i)])

\* save: what is sent is stored and the drawer closes; or Cancel.
saveRules ==
  /\ drawer.open /\ current(drawer) # Mistaken /\ current(drawer) # drawer.stored
  /\ drawer' = [open |-> FALSE, saved |-> current(drawer)]

cancelRules == drawer.open /\ drawer' = NoDrawerOpen

EditorNext ==
  \/ \E r \in StoredRules : OpenRules(r)
  \/ showForm \/ showJson \/ addBranch \/ saveRules \/ cancelRules
  \/ \E text \in JsonTexts : TypeJson(text)
  \/ \E i \in 0..2 :
       \/ removeBranch(i)
       \/ \E c \in ListChoices : SetField(i, c[1], c[2])
       \/ \E x \in NumberTexts : SetField(i, "minPlays7d", x)
       \/ \E f \in {"any", "yes", "no"} : SetField(i, "premiere", f)

EditorSpec == EditorInit /\ [][EditorNext]_drawer

-----------------------------------------------------------------------------
(* Properties.                                                             *)

\* "Kept in sync when switching tabs": neither opening the drawer nor going from
\* the form to the text and back changes what Save would store, however the rules
\* were edited before, so no row starts to match everything or nothing by itself
\* (RulesDrawer, formUnsupportedReason).
TabsKeepRules ==
  [][/\ drawer.open /\ drawer'.open /\ drawer'.tab # drawer.tab =>
          current(drawer') = current(drawer)
     /\ ~drawer.open /\ drawer'.open => current(drawer') = drawer'.stored]_drawer

=============================================================================
