SPECIFICATION TicketsOnly
CONSTANTS
  film = film
  matinee = matinee
  Users = {u1}
  Viewers = {u1}
  Titles = {film, matinee, series}
  Price <- MCPrice
  IntMax = 9
  Window = 2
  MaxTime = 4
  OrderRefs = {r1}
  AppleTickets = {}
  TicketKeys = {}
  OpeningCoins = 1
  SandboxCoins = 0
  Orders = {o1, o2}
  Movies = {film}
  Views = {}
  Series = series
  Episodes = {e1}
  FirstRelease = {e1}
  Tickets = {}
  Watches = {}
INVARIANTS TicketMeansPaid
CHECK_DEADLOCK FALSE
