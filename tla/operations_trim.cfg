\* The history loses a running operation when enough newer ones are submitted.
SPECIFICATION Spec
CONSTANTS
    a = a
    b = b
    Op = {o1, o2, o3}
    Target = {a, b}
    Claim <- MCClaim
    Size = {1}
    HistoryBudget = 2
    HistoryMax = 2
    RecentMax = 1
    MaxFailures = 0
    MaxRestarts = 0
SYMMETRY Symmetry
INVARIANTS
    ActiveIsKept
