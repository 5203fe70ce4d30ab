\* The root of a new application is read before the lock.
SPECIFICATION Spec
CONSTANTS
    Proc = {p1, p2}
    App = {x}
    Group = {g1}
    Root = {r1}
    Config = {1}
    Mode = {"dev"}
    Kind = {"register", "archive", "root", "removeroot"}
    MaxCrashes = 0
    None = None
    x = x
    y = y
    s = s
    r1 = r1
    c1 = c1
    c2 = c2
    SlugOf <- SameSlug
    ProjectOf <- OwnProject
    RootsOf <- OneRoot
SYMMETRY Symmetry
INVARIANTS ArchivedKeepsRoot
