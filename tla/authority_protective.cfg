\* One runner, the evidence failing and returning.
CONSTANTS
    Boots = {b1}
    Generations = {g1}
    NoBoot = NoBoot
    NoEvidence = NoEvidence
    MaxRevision = 10
    Kinds = {"evidence"}
    MaxDisturbances = 2
SPECIFICATION FairSpec
PROPERTIES ProtectiveStaysDeliverable
