----------------------------- MODULE MCEventLoop -----------------------------
(* A primary A/x with a callback and one B/x of the same name without, each *)
(* with an output and a status; B's status shows what A's output reports.   *)
EXTENDS EventLoop

Res(gvk, name) == [gvk |-> gvk, ns |-> "default", name |-> name]
Ax == Res("A", "x")
Bx == Res("B", "x")
Oa == Res("O", "a")
Ob == Res("O", "b")

MCObjects           == {Ax, Bx, Oa, Ob}
MCReconcilers       == <<[id |-> "B->O", primary |-> "B"], [id |-> "A->O", primary |-> "A"]>>
MCStatusReconcilers == <<[id |-> "A.status", primary |-> "A"], [id |-> "B.status", primary |-> "B"]>>
MCInterrupted       == {{}, {Ax}}
MCUninterrupted     == {{}}
MCTouched           == {Ax, Oa}
MCOutputOf(ref)     == IF ref.id = "A->O" THEN Oa ELSE Ob
MCFetches(ref)      == IF ref.id = "B.status" THEN {Oa} ELSE {}
MCAccepts(id, spec) == id = "A->O" => spec # 2
=============================================================================
