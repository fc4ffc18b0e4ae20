------------------------------- MODULE Homepage -----------------------------
(***************************************************************************)
(* The rule-based homepage: sections and collections that admins edit, and *)
(* the browse rows that each process of the API computes and keeps for a   *)
(* minute.  A computation reads the sections and the titles at two         *)
(* moments; every reader that comes meanwhile waits for the same one.      *)
(***************************************************************************)
EXTENDS Titles, SequencesExt

CONSTANTS Processes,
          Builds,       \* computations in flight or kept
          Desk,         \* admin requests in flight
          Sections,     \* homepage_sections ids
          Bodies,       \* bodies of PATCH home-sections/:id
          RowsOf(_, _, _, _), \* SectionRules' compute, of sections, titles, links and a time
          Parses(_),    \* its parseSectionRules
          CacheTtl,     \* HOME_CACHE_TTL_MS
          MaxClock, MaxWrites   \* bounds

ASSUME HomeConstants == CacheTtl \in Nat /\ MaxClock \in Nat

VARIABLES section,     \* homepage_sections
          collection,  \* collections: slugs to [name, position]
          cache,       \* HomeService.cache of each process: 0 or the build it holds
          build,
          desk,
          homeTime,
          written,     \* history: writes committed, by instant
          dropped      \* history: the writes committed when the process last dropped its cache

homeVars == <<section, collection, cache, build, desk, homeTime, written, dropped>>

Free == [step |-> "free"]
NoRequest == [step |-> "idle"]
Slugs == {"picks", "specials"}

HomeInit ==
  /\ section \in [Sections -> {[enabled |-> TRUE, kind |-> "RULE",
                                rules |-> NoFields, sort |-> "POPULARITY", limit |-> 2, minItems |-> 1,
                                pinned |-> <<>>, excluded |-> {}, position |-> 0]}]
  /\ collection = [k \in {"picks"} |-> [name |-> "new", position |-> 0]]
  /\ cache = [p \in Processes |-> 0]
  /\ build = [b \in Builds |-> Free]
  /\ desk = [c \in Desk |-> NoRequest]
  /\ homeTime = 0
  /\ written = [i \in 0..MaxClock |-> 0]
  /\ dropped = [p \in Processes |-> 0]

\* The number of writes committed up to now.
Writes == written[homeTime]
Commit == /\ Writes < MaxWrites
          /\ written' = [i \in 0..MaxClock |-> IF i >= homeTime THEN Writes + 1 ELSE written[i]]

-----------------------------------------------------------------------------
(* HomeService.                                                            *)

Kept(p) == cache[p] # 0 /\ homeTime - build[cache[p]].at < CacheTtl

\* snapshot: a computation that is not a minute old is shared, a new one replaces
\* any other.  (A build that is ready and replaced has been answered.)
Snapshot(p) ==
  \E b \in Builds :
    /\ build[b] = Free
    /\ ~Kept(p)
    /\ build' = [x \in Builds |->
         IF x = b THEN [step |-> "sections", at |-> homeTime, process |-> p]
         ELSE IF x = cache[p] /\ build[x].step = "ready" THEN Free ELSE build[x]]
    /\ cache' = [cache EXCEPT ![p] = b]

Browse(p) ==
  /\ Snapshot(p)
  /\ UNCHANGED <<section, collection, desk, homeTime, written, dropped>>

ReadSections(b) ==
  /\ build[b].step = "sections"
  /\ build' = [build EXCEPT ![b] = [step |-> "titles", at |-> @.at, process |-> @.process,
                                    sections |-> section, seen |-> Writes]]
  /\ UNCHANGED <<section, collection, cache, desk, homeTime, written, dropped>>

\* The code reads sections and titles side by side (compute). In either order the row
\* holds every write from before both reads, which is what `seen' stands for.
ReadTitles(b) ==
  /\ build[b].step = "titles"
  /\ LET done == [step |-> "ready", at |-> build[b].at, process |-> build[b].process,
                  seen |-> build[b].seen,
                  rows |-> RowsOf(build[b].sections, title, class, homeTime)]
     IN  build' = [build EXCEPT ![b] = IF cache[@.process] = b THEN done ELSE Free]
  /\ UNCHANGED <<section, collection, cache, desk, homeTime, written, dropped>>

\* "Never cache a failure."
FailBuild(b) ==
  /\ build[b].step \in {"sections", "titles"}
  /\ build' = [build EXCEPT ![b] = Free]
  /\ cache' = [p \in Processes |-> IF cache[p] = b THEN 0 ELSE cache[p]]
  /\ UNCHANGED <<section, collection, desk, homeTime, written, dropped>>

invalidate(p) ==
  /\ cache' = [cache EXCEPT ![p] = 0]
  /\ build' = [b \in Builds |-> IF cache[p] = b /\ build[b].step = "ready" THEN Free ELSE build[b]]
  /\ dropped' = [dropped EXCEPT ![p] = Writes]

-----------------------------------------------------------------------------
(* AdminHomeService.                                                       *)

InRange(n) == n \in 1..50

\* updateSection: validated, pinned and excluded judged against the row it read.
BeginSection(c, s, body) ==
  /\ desk[c] = NoRequest
  /\ Given("limit", body) => InRange(body.limit)
  /\ Given("minItems", body) => InRange(body.minItems)
  /\ Given("rules", body) => Parses(body.rules)
  /\ (IF Given("pinned", body) THEN ToSet(body.pinned) ELSE {})
       \cup (IF Given("excluded", body) THEN body.excluded ELSE {}) \subseteq {t \in TitleIds : Exists(t)}
  /\ ToSet(Merged(section[s], body).pinned) \cap Merged(section[s], body).excluded = {}
  /\ desk' = [desk EXCEPT ![c] = [step |-> "update", section |-> s, body |-> body]]
  /\ UNCHANGED <<section, collection, cache, build, homeTime, written, dropped>>

CommitSection(c) ==
  /\ desk[c].step = "update"
  /\ Commit
  /\ section' = [section EXCEPT ![desk[c].section] = Merged(@, desk[c].body)]
  /\ desk' = [desk EXCEPT ![c] = [step |-> "audit"]]
  /\ UNCHANGED <<collection, cache, build, homeTime, dropped>>

\* reorderSections: ids names every section once; one transaction.
Reorder(c, ids) ==
  /\ desk[c] = NoRequest
  /\ Commit
  /\ section' = [s \in Sections |-> [section[s] EXCEPT
       !.position = (CHOOSE i \in DOMAIN ids : ids[i] = s) - 1]]
  /\ desk' = [desk EXCEPT ![c] = [step |-> "audit"]]
  /\ UNCHANGED <<collection, cache, build, homeTime, dropped>>

\* createCollection: the slug and the last position were read before.
BeginCollection(c, k) ==
  /\ desk[c] = NoRequest
  /\ k \notin DOMAIN collection
  /\ desk' = [desk EXCEPT ![c] = [step |-> "create", slug |-> k, place |-> Cardinality(DOMAIN collection)]]
  /\ UNCHANGED <<section, collection, cache, build, homeTime, written, dropped>>

\* The slug is unique: the second of two creations throws.
CommitCollection(c) ==
  /\ desk[c].step = "create"
  /\ desk[c].slug \notin DOMAIN collection
  /\ Commit
  /\ collection' = With(collection, [k \in {desk[c].slug} |-> [name |-> "new", position |-> desk[c].place]])
  /\ desk' = [desk EXCEPT ![c] = [step |-> "audit"]]
  /\ UNCHANGED <<section, cache, build, homeTime, dropped>>

RenameCollection(c, k) ==
  /\ desk[c] = NoRequest
  /\ k \in DOMAIN collection
  /\ Commit
  /\ collection' = [collection EXCEPT ![k].name = "renamed"]
  /\ desk' = [desk EXCEPT ![c] = [step |-> "audit"]]
  /\ UNCHANGED <<section, cache, build, homeTime, dropped>>

\* Mutant: the cache of the process is left to run out.
DropCacheNever(c, p) ==
  /\ desk[c].step = "audit"
  /\ dropped' = [dropped EXCEPT ![p] = Writes]
  /\ desk' = [desk EXCEPT ![c] = NoRequest]
  /\ UNCHANGED <<section, collection, cache, build, homeTime, written>>

\* After the audit row is written the process that served the request drops its
\* cache; what it answers is computed anew.
DropCache(c, p) ==
  /\ desk[c].step = "audit"
  /\ invalidate(p)
  /\ desk' = [desk EXCEPT ![c] = NoRequest]
  /\ UNCHANGED <<section, collection, homeTime, written>>

EndDesk(c) ==
  /\ desk[c] # NoRequest
  /\ desk' = [desk EXCEPT ![c] = NoRequest]
  /\ UNCHANGED <<section, collection, cache, build, homeTime, written, dropped>>

TickClock ==
  /\ homeTime < MaxClock
  /\ homeTime' = homeTime + 1
  /\ UNCHANGED <<section, collection, cache, build, desk, written, dropped>>

HomeNext ==
  \/ \E p \in Processes : Browse(p)
  \/ \E b \in Builds : ReadSections(b) \/ ReadTitles(b) \/ FailBuild(b)
  \/ \E c \in Desk :
       \/ \E s \in Sections, body \in Bodies : BeginSection(c, s, body)
       \/ \E ids \in SetToSeqs(Sections) : Reorder(c, ids)
       \/ \E k \in Slugs : BeginCollection(c, k) \/ RenameCollection(c, k)
       \/ CommitSection(c) \/ CommitCollection(c) \/ EndDesk(c)
       \/ \E p \in Processes : DropCache(c, p)
  \/ TickClock

-----------------------------------------------------------------------------
(* Classification as the home page sees it: its commit is a write the      *)
(* browse rows must follow, and drops the cache of the process that served. *)

\* The commit of a classification or of a legacy sync.
Reclassify(c) ==
  /\ CommitClassify(c) \/ CommitSync(c)
  /\ Commit
  /\ UNCHANGED <<section, collection, cache, build, desk, homeTime, dropped>>

DropAfterClassify(c, p) ==
  /\ Audited(c)
  /\ invalidate(p)
  /\ UNCHANGED <<title, class, section, collection, desk, homeTime, written>>

ClassifyNext(inputs) ==
  \E c \in Editors : \/ Reclassify(c)
                     \/ \E p \in Processes : DropAfterClassify(c, p)
                     \/ \E t \in TitleIds, input \in inputs :
                          BeginClassify(c, t, input) /\ UNCHANGED homeVars

\* Any other step of the titles: the browse rows follow what it commits, and keep
\* what they have.
OtherTitleEdit ==
  /\ TitlesNext
  /\ \/ UNCHANGED <<title, class, homeVars>>
     \/ Commit /\ UNCHANGED <<section, collection, cache, build, desk, homeTime, dropped>>

HomeSpec ==
  /\ TitlesInit /\ HomeInit
  /\ [][\/ HomeNext /\ UNCHANGED titleVars
        \/ ClassifyNext(Inputs) \/ OtherTitleEdit]_<<titleVars, homeVars>>

-----------------------------------------------------------------------------
(* Properties.                                                             *)

\* An admin who saved a section, an order or a collection sees it: what the process
\* keeps was read after every write committed when it last dropped its cache, also when
\* computations were under way meanwhile ("Drop the cached browse rows", invalidate).
OwnWritesShow ==
  \A p \in Processes :
    cache[p] # 0 /\ build[cache[p]].step # "sections" => build[cache[p]].seen >= dropped[p]

\* "Results may be cached in memory for up to 60 s": rows that any process would
\* still hand out hold everything that was written a minute ago, whoever wrote it
\* and however long the computation took (snapshot).
StaleForAMinuteAtMost ==
  \A p \in Processes :
    Kept(p) /\ build[cache[p]].step = "ready" /\ homeTime >= CacheTtl
    => build[cache[p]].seen >= written[homeTime - CacheTtl]

\* The home page a process serves shows an admin's own writes at once, and nobody's
\* later than a minute (HomeService's cache, dropped by the process that wrote).
HomeIsFresh == OwnWritesShow /\ StaleForAMinuteAtMost

=============================================================================
