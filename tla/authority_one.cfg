\* One runner process against two operator commands or evidence changes.
CONSTANTS
    Boots = {b1}
    Generations = {g1, g2}
    NoBoot = NoBoot
    NoEvidence = NoEvidence
    MaxRevision = 9
    Kinds = {"operator", "evidence", "exception"}
    MaxDisturbances = 2
SPECIFICATION FairSpec
INVARIANTS TypeOK LatchedNeverEnters
PROPERTIES NoStaleRevival RevisionPinsPlane ImplementsAuthority EntriesRecover
