\* An entry, a close and a bulk close that the bridge may hand out again and again.
CONSTANTS
    e1 = e1
    x = x
    all = all
    Commands = {e1, x, all}
    Verb <- MCVerb
    Bulk = {all}
    Deadline = {e1}
    NoCommand = NoCommand
    SendAttempts = 3
    MaxStored = 2
    MaxKept = 2
    MaxRestarts = 1
    Tickets = {1}
SPECIFICATION EASpec
INVARIANTS EATypeOK OncePerSession PollingOwesNothing OwesAtMostTwo
PROPERTIES JournalledNeverRepeated
\* A fenced EA waits for the restart that the bound no longer grants.
CHECK_DEADLOCK FALSE
