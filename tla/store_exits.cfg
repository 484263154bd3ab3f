SPECIFICATION FairSpec
CONSTANTS
  e1 = e1
  e2 = e2
  x = x
  all = all
  Commands = {e1, x, all}
  Verb <- MCVerb
  Symbol <- MCSymbol
  Legacy = {all}
  Acks <- OneAck
  Tickets = {1, 2}
  MaxRevision = 1
INVARIANTS
  DeliveredAtMostOnce
PROPERTIES
  EntryFence
  ExitNotStarved
