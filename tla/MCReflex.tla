------------------------------ MODULE MCReflex ------------------------------
(***************************************************************************)
(* An instance of Reflex for TLC: signature s2 narrows s1.                 *)
(***************************************************************************)
EXTENDS Reflex, TLC

CONSTANTS p1, p2, s1, s2

SecondNarrows == (s1 :> {}) @@ (s2 :> {s1})
Alike == Permutations({p1, p2})
=============================================================================
