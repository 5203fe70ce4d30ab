------------------------------ MODULE MCCatalog ------------------------------
(* Small instances of Catalog. *)
EXTENDS Catalog, TLC

CONSTANTS x, y, s, r1, c1, c2

(* Different checkouts in one root that ask for the same identifier. *)
SameSlug == [a \in App |-> s]
OwnProject == [a \in App |-> a]
OwnSlug == [a \in App |-> a]
OneRoot == [a \in App |-> {r1}]

(* SlugOf, ProjectOf and RootsOf treat all applications alike, and one     *)
(* configuration is only ever compared with another.                       *)
Symmetry == Permutations(Proc) \cup Permutations(App)
ConfigSymmetry == Symmetry \cup Permutations(Config)
GroupSymmetry == Symmetry \cup Permutations(Group)
================================================================================
