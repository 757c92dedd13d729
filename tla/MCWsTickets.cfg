SPECIFICATION Spec
CONSTANTS
  MaxPendingTickets = 2
  TicketTtl = 2
  MaxTickets = 4
  MaxTime = 4
INVARIANTS
  OneSocketPerTicket
PROPERTIES
  FreshTicketSurvives
CHECK_DEADLOCK FALSE
