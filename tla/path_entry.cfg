\* One production-scalper entry from the queue to the broker and back.
CONSTANTS
    e1 = e1
    e2 = e2
    x = x
    all = all
    Commands = {e1}
    Verb <- MCVerb
    Symbol <- MCSymbol
    Legacy = {}
    Acks <- NoAcks
    Tickets = {1}
    MaxRevision = 1
    Bulk = {}
    Deadline = {e1}
    NoCommand = NoCommand
    SendAttempts = 3
    MaxStored = 2
    MaxKept = 2
    MaxRestarts = 1
SPECIFICATION FairPathSpec
INVARIANTS ExecutedAtMostOnce VerdictsAreTrue ExposureKeepsItsCell
 
