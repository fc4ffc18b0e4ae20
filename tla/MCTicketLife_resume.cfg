SPECIFICATION TicketsOnly
CONSTANTS
  film = film
  matinee = matinee
  Users = {u1}
  Viewers = {u1}
  Titles = {film, matinee, series}
  Price <- MCPrice
  IntMax = 9
  Window = 3
  MaxTime = 7
  OrderRefs = {}
  AppleTickets = {}
  TicketKeys = {k1, k2}
  OpeningCoins = 4
  SandboxCoins = 0
  Orders = {o1}
  Movies = {film}
  Views = {v1, v2}
  Series = series
  Episodes = {e1}
  FirstRelease = {e1}
  Tickets = {}
  Watches = {}
INVARIANTS ResumesOwnTicket
CHECK_DEADLOCK FALSE
