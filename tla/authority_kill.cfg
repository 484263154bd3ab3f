\* One runner and one operator command; a kill should outlive the loop.
CONSTANTS
    Boots = {b1}
    Generations = {g1}
    NoBoot = NoBoot
    NoEvidence = NoEvidence
    MaxRevision = 6
    Kinds = {"operator"}
    MaxDisturbances = 1
SPECIFICATION Spec
PROPERTIES ReenabledAtStartupOnly
