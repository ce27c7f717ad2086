SPECIFICATION ShareSpec
CONSTANTS
  a1 = a1  a2 = a2  b1 = b1  b2 = b2
  Tickets <- MCTickets
  Principals <- MCPrincipals
  Owner <- MCOwner
  Weight <- MCWeight
  Batch <- MCBatch
  StartSlots = 1
  MaxSlots = 2
  MaxExternal = 1
  Ttl = 0
  MaxAdmissions = 4
INVARIANTS
  WorkConserving
  FairShare
PROPERTIES
  GrantsFit
  OvertakingIsBounded
