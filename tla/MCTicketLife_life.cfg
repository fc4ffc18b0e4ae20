SPECIFICATION TicketLifeSpec
CONSTANTS
  film = film
  matinee = matinee
  Users = {u1, u2}
  Viewers = {u1, u2}
  Titles = {film, matinee, series}
  Price <- MCPrice
  IntMax = 9
  Window = 2
  MaxTime = 6
  OrderRefs = {r1}
  AppleTickets = {x1}
  TicketKeys = {k1, k2}
  OpeningCoins = 4
  SandboxCoins = 3
  Orders = {o1, o2}
  Movies = {film, matinee}
  Views = {v1, v2}
  Series = series
  Episodes = {e1, e2}
  FirstRelease = {e1}
  Tickets <- MCSeriesTickets
  Watches = {v1, v2}
SYMMETRY Symmetry
INVARIANTS TicketsMatchPayments TapsBuyOnce UnplayedTicketIsKept WatchedWithItsTicket
PROPERTIES NeverReopened EpisodeOncePerTicket TicketUsedUp
CHECK_DEADLOCK FALSE
