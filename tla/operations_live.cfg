\* Two operations under fairness: what is admitted ends, and Stop returns.
SPECIFICATION FairSpec
CONSTANTS
    a = a
    b = b
    Op = {o1, o2}
    Target = {a, b}
    Claim <- MCClaim
    Size = {1}
    HistoryBudget = 1
    HistoryMax = 1
    RecentMax = 1
    MaxFailures = 1
    MaxRestarts = 1
PROPERTIES
    AdmittedEnds
    StopReturns
