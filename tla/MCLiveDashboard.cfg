\* A page with its query and one without, two writes, one acknowledgement.
SPECIFICATION FairSpec
CONSTANTS
    Queries <- MCQueries
    Pages <- MCPages
    Writes = {"report", "silent"}
    MaxCommits = 2
    MaxMutations = 1
INVARIANTS TypeOK AtRestIsCurrent
PROPERTY CatchesUp
