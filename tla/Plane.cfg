SPECIFICATION FairSpec
CONSTANTS
  Tickets = {"b1", "s1"}
  Principals <- MCPrincipals
  Owner <- MCOwner
  Weight <- MCWeight
  Batch = {}
  StartSlots = 1
  MaxSlots = 2
  MaxExternal = 0
  Ttl = 1
  MaxAdmissions = 2
  Turns = {"s1"}
  AimdMin = 1
  AimdMax = 2
  GrowEvery = 1
  MaxFailures = 1
INVARIANTS
  TypeOK
  TicketKept
  BudgetIsSlots
PROPERTIES
  KeepsQueue
  HeldIsDecided
  TicketsAreFreed
