---------------------------- MODULE MCTestHarness ----------------------------
(* While there is an S, D makes E and C contributes to V; C makes D from     *)
(* the labelled S, and C's status shows E.  D's reconciler comes first, so   *)
(* that a change of C takes two rounds to reach E.  C's second version is    *)
(* rejected by D's predicate and returns its target V twice.                 *)
EXTENDS TestHarness

Key(gvk, name) == [gvk |-> gvk, ns |-> "n", name |-> name]
C == Key("C", "x")
S == Key("S", "s")
D == Key("D", "x")
E == Key("E", "x")
V == Key("V", "v")
Obj(key, data) ==
    [key |-> key, labels |-> NoLabels, data |-> data, finalizers |-> {}, deleting |-> FALSE]

MCKeys     == {C, S, D, E, V}
DtoE       == [id |-> "D->E", primary |-> "D"]
CtoD       == [id |-> "C->D", primary |-> "C"]
CtoV       == [id |-> "C~>V", primary |-> "C"]
CStatus    == [id |-> "C.status", primary |-> "C"]
MCReconcilers       == <<DtoE, CtoD>>
MCPatchReconcilers  == <<CtoV>>
MCStatusReconcilers == <<CStatus>>

App == [l \in {"app"} |-> "x"]
Read(all, gvk, filters) == [all |-> all, gvk |-> gvk, filters |-> filters]

MCWithPredicate(r, p) == r = CtoD => p.data # <<"2">>

MCReads(r, p) ==
    CASE r = CtoD -> {Read(TRUE, "S", <<FilterNamespace("n"), FilterLabel(App)>>)}
      [] r = DtoE -> {Read(FALSE, "S", <<FilterNamespace("n")>>)}
      [] r = CtoV -> {Read(TRUE, "S", <<>>)}
      [] OTHER    -> {Read(FALSE, "E", <<FilterName("x", "n")>>)}

\* What a function makes of what it reads: found, whether there is something.
MCMake(r, p, seen) ==
    LET read  == UNION {seen[q] : q \in DOMAIN seen}
        found == read # {}
    IN  CASE r = CtoD -> <<Obj(D, IF found THEN <<"found">> ELSE <<"none">>)>>
          [] r = DtoE -> IF found THEN <<Obj(E, p.data)>> ELSE <<>>
          [] r = CtoV /\ p.data = <<"2">> -> <<Obj(V, <<"c">>), Obj(V, <<>>)>>
          [] r = CtoV /\ p.data # <<"2">> -> IF found THEN <<Obj(V, <<"c">>)>> ELSE <<>>
          [] OTHER -> <<{o.data : o \in read}>>

MCTestObjects ==
    {Obj(C, <<"1">>), Obj(C, <<"2">>),
     [Obj(C, <<"1">>) EXCEPT !.finalizers = {Own}, !.deleting = TRUE],
     Obj(S, <<"s">>), [Obj(S, <<"s">>) EXCEPT !.labels = App],
     Obj(V, <<"own">>)}
=============================================================================
