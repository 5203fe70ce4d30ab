\* One application of two configurations: edits, reviews, bindings, operations and watches.
SPECIFICATION Spec
CONSTANTS
    Proc = {p1, p2}
    App = {x}
    Group = {g1}
    Root = {r1}
    Config = {c1, c2}
    Mode = {"dev"}
    Kind = {"root", "register", "edit", "remove", "archive", "restore", "trust", "up", "stop", "restart", "bind", "unbind", "watch", "unwatch", "configure"}
    MaxCrashes = 0
    None = None
    x = x
    y = y
    s = s
    r1 = r1
    c1 = c1
    c2 = c2
    SlugOf <- SameSlug
    ProjectOf <- OwnProject
    RootsOf <- OneRoot
SYMMETRY ConfigSymmetry
INVARIANTS RunIsApproved WatchIsListed WatchIsCurrent QuietConfigure NoOrphanRuntime
PROPERTIES BindingsConserved ClaimedIsStable
