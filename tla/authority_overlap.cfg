\* Two runner processes that may overlap, the evidence replaced once.
CONSTANTS
    Boots = {b1, b2}
    Generations = {g1, g2}
    NoBoot = NoBoot
    NoEvidence = NoEvidence
    MaxRevision = 6
    Kinds = {"evidence"}
    MaxDisturbances = 1
SPECIFICATION Spec
INVARIANTS NoOldProcessBypass
PROPERTIES ImplementsAuthority
