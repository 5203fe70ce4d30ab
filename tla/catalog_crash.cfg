\* Two applications with one identifier, two modes, while the agent may die once.
SPECIFICATION Spec
CONSTANTS
    Proc = {p1, p2}
    App = {x, y}
    Group = {g1}
    Root = {r1}
    Config = {c1, c2}
    Mode = {"dev", "verify"}
    Kind = {"root", "register", "edit", "archive", "trust", "up"}
    MaxCrashes = 1
    None = None
    x = x
    y = y
    s = s
    r1 = r1
    c1 = c1
    c2 = c2
    SlugOf <- SameSlug
    ProjectOf <- OwnProject
    RootsOf <- OneRoot
SYMMETRY ConfigSymmetry
INVARIANTS WellFormed AppliedIsCurrent
