------------------------ MODULE MCAnnotationOwnership -----------------------
(* Two primaries that share an output; which of them is which does not     *)
(* matter.                                                                 *)
EXTENDS AnnotationOwnership, TLC

Symmetry == Permutations(Primaries)
=============================================================================
