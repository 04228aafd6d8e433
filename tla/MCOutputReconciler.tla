------------------------- MODULE MCOutputReconciler -------------------------
(* A primary "app" whose spec selects the outputs, and optionally one      *)
(* dependency "flag" that can switch an output off.                        *)
EXTENDS OutputReconciler

NoneFetched(p, spec) == {}

\* The spec switches the only output on and off.
BySwitch(p, spec, seen) == IF spec = "on" THEN {"app-cm"} ELSE {}

FlagFetched(p, spec) == {"flag"}

\* The output shows what the fetched flag holds.
ShowFlag(p, spec, seen) == {"app-cm"}
=============================================================================
