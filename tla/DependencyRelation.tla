------------------------- MODULE DependencyRelation -------------------------
(***************************************************************************)
(* What the dependency tracker promises to the manager: one relation       *)
(* between sub-reconciler invocations and what they read, replaced or      *)
(* extended atomically.  DependencyTracker keeps it in four maps that have *)
(* to agree with one another, and must answer every Lookup as the relation *)
(* does.                                                                   *)
(***************************************************************************)
CONSTANTS
    Refs,        \* invocations: a reconciler ID with the key of a primary
    GVKs,        \* resource types
    Namespaces,  \* namespaces, "" (cluster scope) included
    Names        \* resource names

VARIABLE
    declared     \* [Refs -> what the invocation depends on]

\* One resource, and all the resources of a type in a namespace.
NarrowKeys == [gvk : GVKs, ns : Namespaces, name : Names]
BroadKeys  == [gvk : GVKs, ns : Namespaces]

NoDeps == [narrow |-> {}, broad |-> {}]

Init == declared = [r \in Refs |-> NoDeps]

\* The last run of ref replaces everything its earlier runs had declared.
Replace(ref, narrowKeys, broadKeys) ==
    declared' = [declared EXCEPT ![ref] = [narrow |-> narrowKeys, broad |-> broadKeys]]

\* The outputs of the run are added to what it read.
Extend(ref, keys) ==
    declared' = [declared EXCEPT ![ref] = [narrow |-> @.narrow \cup keys, broad |-> @.broad]]

\* Another set of keys each time: a run with what it read, a run that read
\* nothing or was skipped, the outputs of a run.
Next == \E ref \in Refs, n \in SUBSET NarrowKeys :
           \/ \E b \in SUBSET BroadKeys : Replace(ref, n, b)
           \/ Extend(ref, n)

Spec == Init /\ [][Next]_declared

TypeOK == declared \in [Refs -> [narrow : SUBSET NarrowKeys, broad : SUBSET BroadKeys]]

\* The invocations a change to the resource concerns.
Affected(key) ==
    {ref \in Refs : \/ key \in declared[ref].narrow
                    \/ [gvk |-> key.gvk, ns |-> key.ns] \in declared[ref].broad}
=============================================================================
