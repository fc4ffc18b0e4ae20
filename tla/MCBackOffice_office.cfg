SPECIFICATION BackOfficeSpec
CONSTANTS
  e1 = e1
  e2 = e2
  e3 = e3
  web = web
  apple = apple
  TitleIds = {1}
  Editors = {x1, x2}
  Patches <- MCPatches
  Inputs <- MCInputs
  Vocabulary <- MCVocabulary
  Industries <- MCIndustries
  International = "world"
  Null = Null
  Malformed = Malformed
  Processes = {x1, x2}
  Builds = {y1, y2}
  Desk = {d1}
  Sections = {1, 2}
  Bodies <- MCBodies
  Film <- MCFilm
  RowsOf <- MCRows
  Parses <- parseSectionRules
  CacheTtl = 1
  MaxRows = 1
  MaxClock = 2
  MaxWrites = 1
  Admins = {y1, y2}
  GenreTexts <- MCGenreTexts
  PanelEdits <- MCPanelEdits
  MaxClicks = 2
  StoredRules <- MCStored
  JsonTexts <- MCTexts
  ListChoices <- MCChoices
  NumberTexts <- MCNumbers
  EmptyText = Null
  ParsesDeeper <- MCParses
  MaxChanges = 3
  Episodes <- MCEpisodes
  Seasons <- MCSeasons
  Texts = {text}
  Edits = {x1, x2}
  Producers = {p1}
  Films = {film}
  RevenueShares = {9000}
  Stores = {web, apple}
  TicketMinor <- MCTicketMinor
  Commission <- MCCommission
  Withdrawals = {y1, y2}
  Amounts = {6, 9}
  MaxAttempts = 2
  CodeTTL = 1
  MaxTime = 2
  MaxSales = 1
  Tabs = {x1, x2}
  Dashboards = {d1}
  Panels = {d1}
  MinWithdrawal = 6
  ListedRows = 1
  MaxKeys = 2
  Blank = Blank
SYMMETRY Symmetry
INVARIANTS HomeIsFresh MirrorsAgree RowIsAsDocumented OverdrawnOnlyAfterExpiry SeriesIsWhole DeskSaysWhatIs
PROPERTIES PicksSurviveLegacySave DrawerWritesItsEdits TabsKeepRules LastVideoStays ReleasedStaysReleased
CHECK_DEADLOCK FALSE
