----------------------------- MODULE ObjectStore -----------------------------
(***************************************************************************)
(* mrtest/store.go: the store that stands in for both the cache and the    *)
(* API server in tests.  A store is a record, an operation an operator     *)
(* from a store to the next one.  Objects are [key, labels, data,          *)
(* finalizers, deleting] under a key [gvk, ns, name].                      *)
(***************************************************************************)
EXTENDS Sequences, FiniteSets

CONSTANTS
    Keys,   \* every [gvk, ns, name] there may be
    None,   \* no object
    Unset   \* the empty string

\* NamespacedName: what is recorded of a call does not name the type.
NN(key) == [ns |-> key.ns, name |-> key.name]

NewObjectStore ==
    [objects |-> [k \in Keys |-> None], Applied |-> <<>>, Deleted |-> <<>>,
     StatusPatches |-> <<>>, ForeignPatched |-> <<>>, ForeignReverted |-> <<>>]

SetObject(s, obj)    == [s EXCEPT !.objects[obj.key] = obj]
DeleteObject(s, key) == [s EXCEPT !.objects[key] = None]

\* Mutant: the deletions of earlier calls stay.
Reset_KeepsDeleted(s) == [s EXCEPT !.Applied = <<>>, !.StatusPatches = <<>>,
                                   !.ForeignPatched = <<>>, !.ForeignReverted = <<>>]

\* Reset clears what has been recorded, not the objects.
Reset(s) == [NewObjectStore EXCEPT !.objects = s.objects]

-----------------------------------------------------------------------------
\* The cache.

Get(s, key) == IF key \in Keys THEN s.objects[key] ELSE None

\* Labels are functions from label to value; an empty one selects everything.
Selects(labels, obj) ==
    \A l \in DOMAIN labels : l \in DOMAIN obj.labels /\ obj.labels[l] = labels[l]

List(s, gvk, ns, labels) ==
    {s.objects[k] : k \in {q \in Keys :
        /\ q.gvk = gvk /\ s.objects[q] # None
        /\ ns # Unset => q.ns = ns
        /\ Selects(labels, s.objects[q])}}

-----------------------------------------------------------------------------
\* The client.

\* Neither finalizers nor the absence of the object are looked at.
Delete(s, key) ==
    [DeleteObject(s, key) EXCEPT !.Deleted = Append(@, NN(key))]

\* Apply with a field manager of the patch reconcilers: the object is replaced
\* by the contribution, and left alone when the contribution is empty.
PatchForeign(s, obj)   == [SetObject(s, obj) EXCEPT !.ForeignPatched = Append(@, NN(obj.key))]
RevertForeign(s, key)  == [s EXCEPT !.ForeignReverted = Append(@, NN(key))]

\* Mutant: what is applied does not reach the cache.
Apply_Recorded(s, obj) == [s EXCEPT !.Applied = Append(@, NN(obj.key))]

\* Any other apply replaces the object too; a merge patch is not recorded.
Apply(s, obj)  == [SetObject(s, obj) EXCEPT !.Applied = Append(@, NN(obj.key))]
Merge(s, obj)  == SetObject(s, obj)

\* A status is recorded, and does not reach the object.
PatchStatus(s, key) == [s EXCEPT !.StatusPatches = Append(@, NN(key))]
=============================================================================
