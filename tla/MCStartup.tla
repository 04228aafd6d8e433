------------------------------ MODULE MCStartup ------------------------------
(* Two types of one kind in different groups, A and A2, and a third, O.     *)
EXTENDS Startup

A  == [group |-> "g1", kind |-> "A"]
A2 == [group |-> "g2", kind |-> "A"]
O  == [group |-> "g1", kind |-> "O"]

Call(form, primary, output) == [form |-> form, primary |-> primary, output |-> output]

MCGVKs       == {A, A2, O}
MCPrograms   == {<<Call("->", A, O), Call("->", A2, O)>>,
                 <<Call("->", A, O), Call("->[]", A, O)>>,
                 <<Call("~>", A, A2), Call("~>[]", A, A2), Call("status", A, A), Call("status", A, A),
                   Call("status", A, A),
                   Call("~>", A2, A)>>}
MCFetched(r) == IF r.form = "->" /\ r.primary = A THEN {A2} ELSE {}
=============================================================================
