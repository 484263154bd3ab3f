SPECIFICATION ReplaySpec
CONSTANTS
  e1 = e1
  e2 = e2
  x = x
  all = all
  Commands = {e1}
  Verb <- MCVerb
  Symbol <- MCSymbol
  Legacy = {}
  Acks <- ReplayAcks
  Tickets = {1, 2}
  MaxRevision = 2
INVARIANT
  FirstVerdictStands
