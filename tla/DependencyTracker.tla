-------------------------- MODULE DependencyTracker --------------------------
(***************************************************************************)
(* tracker.go: which sub-reconciler invocations to re-run when a resource  *)
(* changes.  A Go map is a function whose DOMAIN is the set of keys        *)
(* present, so that an empty bucket differs from an absent one.  Every     *)
(* method holds dt.mu from its first to its last statement: each is one    *)
(* action.                                                                 *)
(***************************************************************************)
CONSTANTS Refs, GVKs, Namespaces, Names

VARIABLES
    narrow,         \* depKey -> refs that read this very resource
    broad,          \* depKeyBroad -> refs that listed the namespace
    reverseNarrow,  \* ref -> its depKeys
    reverseBroad,   \* ref -> its depKeyBroads
    declared        \* history: the relation the callers have asked for

maps == <<narrow, broad, reverseNarrow, reverseBroad>>
vars == <<maps, declared>>

\* The relation the maps stand for, updated in step with them.
Relation == INSTANCE DependencyRelation

NarrowKeys == [gvk : GVKs, ns : Namespaces, name : Names]
BroadKeys  == [gvk : GVKs, ns : Namespaces]

-----------------------------------------------------------------------------
\* Indexing a Go map: the zero value, an empty set, when the key is absent.
Bucket(m, k) == IF k \in DOMAIN m THEN m[k] ELSE {}

EmptyMap == [k \in {} |-> {}]

Init == /\ narrow = EmptyMap
        /\ broad = EmptyMap
        /\ reverseNarrow = EmptyMap
        /\ reverseBroad = EmptyMap
        /\ Relation!Init

\* Mutants: ref stays in the buckets; an emptied bucket stays in the map; the
\* buckets are deleted with the other members they have.
ClearForward_Stays(fwd, rev, ref) == fwd
ClearForward_KeepsEmpty(fwd, rev, ref) ==
    [k \in DOMAIN fwd |-> IF k \in Bucket(rev, ref) THEN fwd[k] \ {ref} ELSE fwd[k]]
ClearForward_DropsBuckets(fwd, rev, ref) ==
    [k \in DOMAIN fwd \ Bucket(rev, ref) |-> fwd[k]]

\* clearDeps, the forward map: ref leaves every bucket its reverse entry
\* lists, and a bucket emptied that way is deleted.
ClearForward(fwd, rev, ref) ==
    LET listed == Bucket(rev, ref)
        kept   == {k \in DOMAIN fwd : k \in listed => fwd[k] \ {ref} # {}}
    IN  [k \in kept |-> IF k \in listed THEN fwd[k] \ {ref} ELSE fwd[k]]

\* Mutant: the entry of ref survives.
ClearReverse_Stays(rev, ref) == rev

\* clearDeps, the reverse map: the entry of ref is deleted.
ClearReverse(rev, ref) == [r \in DOMAIN rev \ {ref} |-> rev[r]]

\* Mutant: the bucket is given the keys instead of the ref.
RecordForward_Swapped(fwd, ref, keys) ==
    [k \in DOMAIN fwd \cup keys |-> IF k \in keys THEN Bucket(fwd, k) \cup keys ELSE fwd[k]]

\* recordNarrow and recordBroad for each of keys, the forward map.
RecordForward(fwd, ref, keys) ==
    [k \in DOMAIN fwd \cup keys |->
        IF k \in keys THEN Bucket(fwd, k) \cup {ref} ELSE fwd[k]]

\* recordNarrow and recordBroad for each of keys, the reverse map: the entry
\* of ref is only made when there is a key to record.
RecordReverse(rev, ref, keys) ==
    [r \in IF keys = {} THEN DOMAIN rev ELSE DOMAIN rev \cup {ref} |->
        IF r = ref THEN Bucket(rev, r) \cup keys ELSE rev[r]]

-----------------------------------------------------------------------------
SetDeps(ref, narrowKeys, broadKeys) ==
    /\ narrow' = RecordForward(ClearForward(narrow, reverseNarrow, ref), ref, narrowKeys)
    /\ reverseNarrow' = RecordReverse(ClearReverse(reverseNarrow, ref), ref, narrowKeys)
    /\ broad' = RecordForward(ClearForward(broad, reverseBroad, ref), ref, broadKeys)
    /\ reverseBroad' = RecordReverse(ClearReverse(reverseBroad, ref), ref, broadKeys)

AppendNarrow(ref, keys) ==
    /\ narrow' = RecordForward(narrow, ref, keys)
    /\ reverseNarrow' = RecordReverse(reverseNarrow, ref, keys)
    /\ UNCHANGED <<broad, reverseBroad>>

RemoveDeps(ref) ==
    /\ narrow' = ClearForward(narrow, reverseNarrow, ref)
    /\ reverseNarrow' = ClearReverse(reverseNarrow, ref)
    /\ broad' = ClearForward(broad, reverseBroad, ref)
    /\ reverseBroad' = ClearReverse(reverseBroad, ref)

\* Mutant: the readers of the whole namespace are left out.
Lookup_NarrowOnly(key) == Bucket(narrow, key)

\* The refs to re-run when the resource key changes: the readers of the
\* resource and the readers of its namespace.
Lookup(key) == Bucket(narrow, key) \cup Bucket(broad, [gvk |-> key.gvk, ns |-> key.ns])

Next == \E ref \in Refs :
           \/ \E n \in SUBSET NarrowKeys, b \in SUBSET BroadKeys :
                 SetDeps(ref, n, b) /\ Relation!Replace(ref, n, b)
           \/ \E n \in SUBSET NarrowKeys : AppendNarrow(ref, n) /\ Relation!Extend(ref, n)
           \/ RemoveDeps(ref) /\ Relation!Replace(ref, {}, {})

Spec == Init /\ [][Next]_vars

-----------------------------------------------------------------------------
\* A map from a subset of K to subsets of V.
IsMap(m, K, V) == /\ DOMAIN m \subseteq K
                  /\ m = [k \in DOMAIN m |-> m[k]]
                  /\ \A k \in DOMAIN m : m[k] \subseteq V

TypeOK == /\ Relation!TypeOK
          /\ IsMap(narrow, NarrowKeys, Refs)
          /\ IsMap(broad, BroadKeys, Refs)
          /\ IsMap(reverseNarrow, Refs, NarrowKeys)
          /\ IsMap(reverseBroad, Refs, BroadKeys)

\* The two directions record the same pairs.
Mirror(fwd, rev, K) == \A k \in K, ref \in Refs : ref \in Bucket(fwd, k) <=> k \in Bucket(rev, ref)

\* A pair recorded one way only would be a dependency that clearDeps can
\* never clear, or one that no event ever finds: through any sequence of
\* SetDeps, AppendNarrow and RemoveDeps the forward and the reverse maps
\* describe the same relation.
MapsMirrorEachOther == /\ Mirror(narrow, reverseNarrow, NarrowKeys)
                       /\ Mirror(broad, reverseBroad, BroadKeys)

NoneEmpty(m) == \A k \in DOMAIN m : m[k] # {}

\* The tracker of a long-running manager does not grow with the resources
\* that came and went: a bucket left without members has been deleted.
NoEmptyBuckets == /\ NoneEmpty(narrow)
                  /\ NoneEmpty(broad)
                  /\ NoneEmpty(reverseNarrow)
                  /\ NoneEmpty(reverseBroad)

\* Lookup only reads the forward maps.  Whatever was called before, it
\* returns the invocations whose last SetDeps and the AppendNarrows since
\* named the resource or its namespace, and no other: an event neither misses
\* a reader nor wakes one that has stopped reading.
LookupIsExact == \A key \in NarrowKeys : Lookup(key) = Relation!Affected(key)

\* What an event finds in the forward maps, as a relation.
Found(m, K, ref) == {k \in K : ref \in Bucket(m, k)}

Abstract == INSTANCE DependencyRelation
    WITH declared <- [ref \in Refs |-> [narrow |-> Found(narrow, NarrowKeys, ref),
                                        broad  |-> Found(broad, BroadKeys, ref)]]

\* Seen through the forward maps, which are all that Lookup reads, every
\* method is a step of the abstract relation: whichever buckets invocations
\* share, it replaces or extends what one of them depends on and leaves what
\* an event finds for the others alone.
ImplementsRelation == Abstract!Spec
=============================================================================
