----------------------------- MODULE MCRelease -----------------------------
(***************************************************************************)
(* Two clones, two commits of which the second has one module more.        *)
(***************************************************************************)
EXTENDS Release, TLC

CONSTANTS c1, c2, root, otel

MCModulesOf == (c1 :> {root}) @@ (c2 :> {root, otel})

Symmetry == Permutations(Releasers)

=============================================================================
