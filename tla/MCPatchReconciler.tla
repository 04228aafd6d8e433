-------------------------- MODULE MCPatchReconciler -------------------------
(* A primary "route" that contributes to the gateways its spec names.      *)
EXTENDS PatchReconciler

\* The spec names one gateway or the other.
ByName(p, spec) == {spec}
=============================================================================
