\* Two updaters, up to two agent processes, two faults and three acts of users.
SPECIFICATION FairSpec
CONSTANTS
    Agent = {a1, a2}
    Updater = {u1, u2}
    Retrier = u1
    Version = {1, 2, 3}
    Legacy = {1}
    Latest = 3
    MaxFaults = 2
    MaxActs = 3
    None = None
    Bad = Bad
INVARIANTS OneOwner UpdateCutsNothing ConsumesItsOwn NoBadLeft
PROPERTIES HandoffEnds
