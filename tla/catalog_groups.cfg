\* Two applications in one of two groups or in both, and everything that moves them.
SPECIFICATION Spec
CONSTANTS
    Proc = {p1, p2}
    App = {x, y}
    Group = {g1, g2}
    Root = {r1}
    Config = {1}
    Mode = {"dev"}
    Kind = {"root", "removeroot", "register", "edit", "remove", "archive", "restore", "group", "deletegroup", "trust", "up", "configure"}
    MaxCrashes = 0
    None = None
    x = x
    y = y
    s = s
    r1 = r1
    c1 = c1
    c2 = c2
    SlugOf <- OwnSlug
    ProjectOf <- OwnProject
    RootsOf <- OneRoot
SYMMETRY GroupSymmetry
INVARIANTS GroupKept RoutesFollow
PROPERTIES ImplementsExclusion
