\* Every interleaving of three operations, with a catalog write that fails and a restart.
SPECIFICATION Spec
CONSTANTS
    a = a
    b = b
    Op = {o1, o2, o3}
    Target = {a, b}
    Claim <- MCClaim
    Size = {1, 2}
    HistoryBudget = 1
    HistoryMax = 2
    RecentMax = 1
    MaxFailures = 1
    MaxRestarts = 1
SYMMETRY Symmetry
INVARIANTS
    PublishedIsReleased
    NoGhostRunning
    StoppedIsQuiet
    HistoryFits
PROPERTIES
    ImplementsExclusion
    StableAnswer
    QuietAfterPrepare
