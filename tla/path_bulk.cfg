\* One legacy close of everything, which may fail half-way.
CONSTANTS
    e1 = e1
    e2 = e2
    x = x
    all = all
    Commands = {all}
    Verb <- MCVerb
    Symbol <- MCSymbol
    Legacy = {}
    Acks <- NoAcks
    Tickets = {1}
    MaxRevision = 2
    Bulk = {all}
    Deadline = {}
    NoCommand = NoCommand
    SendAttempts = 3
    MaxStored = 2
    MaxKept = 2
    MaxRestarts = 1
SPECIFICATION PathSpec
INVARIANTS RefusalIsHarmless
