---------------------------- MODULE MCOperations ----------------------------
(* Small instances of Operations: the claims that the callers of Submit     *)
(* really make, on two applications a and b.                               *)
EXTENDS Operations, TLC

CONSTANTS a, b

Lock(targets, global, build) ==
    [targets |-> targets, global |-> global, build |-> build]

MCClaim ==
    { Lock({a}, FALSE, FALSE),      \* stop, restart or watch of a
      Lock({a}, FALSE, TRUE),       \* up or rebuild of a
      Lock({b}, FALSE, TRUE),       \* up or rebuild of b
      Lock({}, TRUE, FALSE) }       \* tools, proxy, runtime; infrastructure alike

Symmetry == Permutations(Op)
=============================================================================
