SPECIFICATION Spec
CONSTANTS
  e1 = e1
  e2 = e2
  x = x
  all = all
  Commands = {e1, e2}
  Verb <- MCVerb
  Symbol <- MCSymbol
  Legacy = {}
  Acks <- EntryAcks
  Tickets = {1, 2}
  MaxRevision = 2
INVARIANTS
  TypeOK
  TradesCountedOnce
  DeliveryNeverForgotten
PROPERTIES
  ReconcileSticky
  EntryFence
  EntryDiesWithItsRevision
