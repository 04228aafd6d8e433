---------------------- MODULE DependencyTracker_proofs ----------------------
(***************************************************************************)
(* The four maps of the dependency tracker stay mirrored, keep no empty    *)
(* bucket and hold the relation of DependencyRelation, for every set of    *)
(* invocations and of resource keys.     All of it follows from one        *)
(* lemma per map operation, stated for an arbitrary key set K, that is     *)
(* used once for the narrow and once for the broad pair of maps.           *)
(***************************************************************************)
EXTENDS DependencyTracker, TLAPS

\* A forward and a reverse map that fit together.
Paired(fwd, rev, K) == /\ IsMap(fwd, K, Refs)
                       /\ IsMap(rev, Refs, K)
                       /\ Mirror(fwd, rev, K)
                       /\ NoneEmpty(fwd)
                       /\ NoneEmpty(rev)

\* clearDeps on a pair of maps: the result fits together, and the reverse
\* map has lost the entry of ref and nothing else.
LEMMA ClearKeepsPaired ==
    ASSUME NEW K, NEW fwd, NEW rev, NEW ref \in Refs, Paired(fwd, rev, K)
    PROVE  /\ Paired(ClearForward(fwd, rev, ref), ClearReverse(rev, ref), K)
           /\ Bucket(ClearReverse(rev, ref), ref) = {}
           /\ \A r \in Refs \ {ref} : Bucket(ClearReverse(rev, ref), r) = Bucket(rev, r)
<1> DEFINE f == ClearForward(fwd, rev, ref)
           g == ClearReverse(rev, ref)
<1>1. IsMap(f, K, Refs) /\ NoneEmpty(f)
    BY DEF Paired, IsMap, NoneEmpty, ClearForward, Bucket
<1>2. IsMap(g, Refs, K) /\ NoneEmpty(g)
    BY DEF Paired, IsMap, NoneEmpty, ClearReverse
<1>3. /\ Bucket(g, ref) = {}
      /\ \A r \in Refs \ {ref} : Bucket(g, r) = Bucket(rev, r)
    BY DEF ClearReverse, Bucket
<1>4. \A k \in K : Bucket(f, k) = Bucket(fwd, k) \ {ref}
    BY DEF Paired, IsMap, Mirror, ClearForward, Bucket
<1>5. Mirror(f, g, K)
    BY <1>3, <1>4 DEF Paired, Mirror
<1> QED
    BY <1>1, <1>2, <1>3, <1>5 DEF Paired

\* recordNarrow or recordBroad for a set of keys: the result fits together,
\* and the reverse entry of ref has gained the keys.
LEMMA RecordKeepsPaired ==
    ASSUME NEW K, NEW fwd, NEW rev, NEW ref \in Refs, NEW keys \in SUBSET K,
           Paired(fwd, rev, K)
    PROVE  /\ Paired(RecordForward(fwd, ref, keys), RecordReverse(rev, ref, keys), K)
           /\ \A r \in Refs : Bucket(RecordReverse(rev, ref, keys), r)
                                = IF r = ref THEN Bucket(rev, r) \cup keys ELSE Bucket(rev, r)
<1> DEFINE f == RecordForward(fwd, ref, keys)
           g == RecordReverse(rev, ref, keys)
<1>1. IsMap(f, K, Refs) /\ NoneEmpty(f)
    BY DEF Paired, IsMap, NoneEmpty, RecordForward, Bucket
<1>2. \A r \in Refs : Bucket(g, r) = IF r = ref THEN Bucket(rev, r) \cup keys ELSE Bucket(rev, r)
    BY DEF RecordReverse, Bucket
<1>3. IsMap(g, Refs, K) /\ NoneEmpty(g)
    BY DEF Paired, IsMap, NoneEmpty, RecordReverse, Bucket
<1>4. \A k \in K : Bucket(f, k) = IF k \in keys THEN Bucket(fwd, k) \cup {ref} ELSE Bucket(fwd, k)
    BY DEF RecordForward, Bucket
<1>5. Mirror(f, g, K)
    BY <1>2, <1>4 DEF Paired, Mirror
<1> QED
    BY <1>1, <1>2, <1>3, <1>5 DEF Paired

\* SetDeps on a pair of maps: the reverse entry of ref becomes the keys.
LEMMA ReplaceKeepsPaired ==
    ASSUME NEW K, NEW fwd, NEW rev, NEW ref \in Refs, NEW keys \in SUBSET K,
           Paired(fwd, rev, K)
    PROVE  LET f == RecordForward(ClearForward(fwd, rev, ref), ref, keys)
               g == RecordReverse(ClearReverse(rev, ref), ref, keys)
           IN  /\ Paired(f, g, K)
               /\ \A r \in Refs : Bucket(g, r) = IF r = ref THEN keys ELSE Bucket(rev, r)
<1>1. Paired(ClearForward(fwd, rev, ref), ClearReverse(rev, ref), K)
    BY ClearKeepsPaired
<1>2. /\ Bucket(ClearReverse(rev, ref), ref) = {}
      /\ \A r \in Refs \ {ref} : Bucket(ClearReverse(rev, ref), r) = Bucket(rev, r)
    BY DEF ClearReverse, Bucket
<1> DEFINE f == ClearForward(fwd, rev, ref)
           g == ClearReverse(rev, ref)
<1>3. /\ Paired(f, g, K)
      /\ Bucket(g, ref) = {}
      /\ \A r \in Refs \ {ref} : Bucket(g, r) = Bucket(rev, r)
    BY <1>1, <1>2
<1> HIDE DEF f, g
<1>4. /\ Paired(RecordForward(f, ref, keys), RecordReverse(g, ref, keys), K)
      /\ \A r \in Refs : Bucket(RecordReverse(g, ref, keys), r)
                            = IF r = ref THEN Bucket(g, r) \cup keys ELSE Bucket(g, r)
    BY <1>3, RecordKeepsPaired
<1> QED
    BY <1>3, <1>4 DEF f, g

-----------------------------------------------------------------------------
\* The inductive invariant: both pairs of maps fit together, and the reverse
\* maps hold the relation.
IInv == /\ Paired(narrow, reverseNarrow, NarrowKeys)
        /\ Paired(broad, reverseBroad, BroadKeys)
        /\ Relation!TypeOK
        /\ \A ref \in Refs : /\ Bucket(reverseNarrow, ref) = declared[ref].narrow
                             /\ Bucket(reverseBroad, ref) = declared[ref].broad

LEMMA InitPaired == Init => IInv
    BY DEF Init, IInv, Paired, IsMap, NoneEmpty, Mirror, Bucket, EmptyMap,
           Relation!Init, Relation!TypeOK, Relation!NoDeps

LEMMA SetDepsPaired ==
    ASSUME IInv, NEW ref \in Refs, NEW n \in SUBSET NarrowKeys, NEW b \in SUBSET BroadKeys,
           SetDeps(ref, n, b), Relation!Replace(ref, n, b)
    PROVE  IInv'
<1>1. /\ Paired(narrow', reverseNarrow', NarrowKeys)
      /\ \A r \in Refs : Bucket(reverseNarrow', r) = IF r = ref THEN n ELSE Bucket(reverseNarrow, r)
    BY ReplaceKeepsPaired DEF SetDeps, IInv
<1>2. /\ Paired(broad', reverseBroad', BroadKeys)
      /\ \A r \in Refs : Bucket(reverseBroad', r) = IF r = ref THEN b ELSE Bucket(reverseBroad, r)
    BY ReplaceKeepsPaired DEF SetDeps, IInv
<1> QED
    BY <1>1, <1>2 DEF IInv, Relation!Replace, Relation!TypeOK, NarrowKeys, BroadKeys,
                      Relation!NarrowKeys, Relation!BroadKeys

LEMMA AppendNarrowPaired ==
    ASSUME IInv, NEW ref \in Refs, NEW n \in SUBSET NarrowKeys,
           AppendNarrow(ref, n), Relation!Extend(ref, n)
    PROVE  IInv'
<1>1. /\ Paired(narrow', reverseNarrow', NarrowKeys)
      /\ \A r \in Refs : Bucket(reverseNarrow', r)
            = IF r = ref THEN Bucket(reverseNarrow, r) \cup n ELSE Bucket(reverseNarrow, r)
    BY RecordKeepsPaired DEF AppendNarrow, IInv
<1>2. /\ Paired(broad', reverseBroad', BroadKeys)
      /\ \A r \in Refs : Bucket(reverseBroad', r) = Bucket(reverseBroad, r)
    BY DEF AppendNarrow, IInv
<1> QED
    BY <1>1, <1>2 DEF IInv, Relation!Extend, Relation!TypeOK, NarrowKeys, BroadKeys,
                      Relation!NarrowKeys, Relation!BroadKeys

LEMMA RemoveDepsPaired ==
    ASSUME IInv, NEW ref \in Refs, RemoveDeps(ref), Relation!Replace(ref, {}, {})
    PROVE  IInv'
<1>1. /\ Paired(narrow', reverseNarrow', NarrowKeys)
      /\ Bucket(reverseNarrow', ref) = {}
      /\ \A r \in Refs \ {ref} : Bucket(reverseNarrow', r) = Bucket(reverseNarrow, r)
    BY ClearKeepsPaired DEF RemoveDeps, IInv
<1>2. /\ Paired(broad', reverseBroad', BroadKeys)
      /\ Bucket(reverseBroad', ref) = {}
      /\ \A r \in Refs \ {ref} : Bucket(reverseBroad', r) = Bucket(reverseBroad, r)
    BY ClearKeepsPaired DEF RemoveDeps, IInv
<1> QED
    BY <1>1, <1>2 DEF IInv, Relation!Replace, Relation!TypeOK

\* Every method keeps the invariant.
LEMMA StepPaired == IInv /\ [Next]_vars => IInv'
<1> SUFFICES ASSUME IInv, [Next]_vars
             PROVE  IInv'
    OBVIOUS
<1>1. CASE UNCHANGED vars
    BY <1>1 DEF vars, maps, IInv, Paired, IsMap, NoneEmpty, Mirror, Bucket, Relation!TypeOK
<1>2. ASSUME NEW ref \in Refs, NEW n \in SUBSET NarrowKeys, NEW b \in SUBSET BroadKeys,
             SetDeps(ref, n, b), Relation!Replace(ref, n, b)
      PROVE  IInv'
    BY <1>2, SetDepsPaired
<1>3. ASSUME NEW ref \in Refs, NEW n \in SUBSET NarrowKeys,
             AppendNarrow(ref, n), Relation!Extend(ref, n)
      PROVE  IInv'
    BY <1>3, AppendNarrowPaired
<1>4. ASSUME NEW ref \in Refs, RemoveDeps(ref), Relation!Replace(ref, {}, {})
      PROVE  IInv'
    BY <1>4, RemoveDepsPaired
<1> QED
    BY <1>1, <1>2, <1>3, <1>4 DEF Next

LEMMA AlwaysPaired == Spec => []IInv
    BY InitPaired, StepPaired, PTL DEF Spec

-----------------------------------------------------------------------------
\* Type correctness of the four maps.
THEOREM TypeCorrect == Spec => []TypeOK
<1>1. IInv => TypeOK
    BY DEF IInv, Paired, TypeOK
<1> QED
    BY <1>1, AlwaysPaired, PTL

\* The forward and the reverse maps describe the same relation, whatever
\* sequence of SetDeps, AppendNarrow and RemoveDeps made them.
THEOREM MapsStayMirrored == Spec => []MapsMirrorEachOther
<1>1. IInv => MapsMirrorEachOther
    BY DEF IInv, Paired, MapsMirrorEachOther
<1> QED
    BY <1>1, AlwaysPaired, PTL

\* clearDeps deletes each bucket it empties.
THEOREM BucketsNeverEmpty == Spec => []NoEmptyBuckets
<1>1. IInv => NoEmptyBuckets
    BY DEF IInv, Paired, NoEmptyBuckets
<1> QED
    BY <1>1, AlwaysPaired, PTL

\* Lookup returns the refs whose last run declared the resource or its
\* namespace, and no other.
THEOREM LookupAlwaysExact == Spec => []LookupIsExact
<1>1. IInv => LookupIsExact
    <2> SUFFICES ASSUME IInv, NEW key \in NarrowKeys
                 PROVE  Lookup(key) = Relation!Affected(key)
        BY DEF LookupIsExact
    <2> DEFINE scope == [gvk |-> key.gvk, ns |-> key.ns]
    <2>1. scope \in BroadKeys
        BY DEF NarrowKeys, BroadKeys
    <2>2. /\ Bucket(narrow, key) \subseteq Refs
          /\ Bucket(broad, scope) \subseteq Refs
        BY <2>1 DEF IInv, Paired, IsMap, Bucket
    <2>3. \A r \in Refs : /\ r \in Bucket(narrow, key) <=> key \in Bucket(reverseNarrow, r)
                          /\ r \in Bucket(broad, scope) <=> scope \in Bucket(reverseBroad, r)
        BY <2>1 DEF IInv, Paired, Mirror
    <2> QED
        BY <2>2, <2>3 DEF IInv, Lookup, Relation!Affected
<1> QED
    BY <1>1, AlwaysPaired, PTL

-----------------------------------------------------------------------------
\* What the invariant says of the mapped relation: it is the declared one.
LEMMA FoundIsDeclared ==
    ASSUME IInv
    PROVE  declared = [ref \in Refs |-> [narrow |-> Found(narrow, NarrowKeys, ref),
                                         broad  |-> Found(broad, BroadKeys, ref)]]
<1>1. \A ref \in Refs : /\ declared[ref].narrow = Found(narrow, NarrowKeys, ref)
                        /\ declared[ref].broad = Found(broad, BroadKeys, ref)
    <2> SUFFICES ASSUME NEW ref \in Refs
                 PROVE  /\ declared[ref].narrow = Found(narrow, NarrowKeys, ref)
                        /\ declared[ref].broad = Found(broad, BroadKeys, ref)
        OBVIOUS
    <2>1. /\ declared[ref].narrow \subseteq NarrowKeys
          /\ declared[ref].broad \subseteq BroadKeys
        BY DEF IInv, Relation!TypeOK, NarrowKeys, BroadKeys, Relation!NarrowKeys, Relation!BroadKeys
    <2>2. /\ \A k \in NarrowKeys : ref \in Bucket(narrow, k) <=> k \in declared[ref].narrow
          /\ \A k \in BroadKeys : ref \in Bucket(broad, k) <=> k \in declared[ref].broad
        BY DEF IInv, Paired, Mirror
    <2> QED
        BY <2>1, <2>2 DEF Found
<1>2. \A ref \in Refs : declared[ref] = [narrow |-> declared[ref].narrow, broad |-> declared[ref].broad]
    BY DEF IInv, Relation!TypeOK
<1>3. declared = [ref \in Refs |-> declared[ref]]
    BY DEF IInv, Relation!TypeOK
<1> QED
    BY <1>1, <1>2, <1>3

\* Every step of the tracker, seen through the forward maps, is a step of the
\* abstract relation or leaves it unchanged.
THEOREM TrackerImplementsRelation == Spec => ImplementsRelation
<1> DEFINE found == [ref \in Refs |-> [narrow |-> Found(narrow, NarrowKeys, ref),
                                       broad  |-> Found(broad, BroadKeys, ref)]]
           Same  == declared = found
<1>1. IInv => Same
    BY FoundIsDeclared
<1>2. Init => Abstract!Init
    <2> SUFFICES ASSUME Init
                 PROVE  found = [r \in Refs |-> Abstract!NoDeps]
        BY DEF Abstract!Init
    <2>1. declared = found
        BY InitPaired, FoundIsDeclared
    <2> QED
        BY <2>1 DEF Init, Relation!Init, Relation!NoDeps, Abstract!NoDeps
<1>3. Same /\ Same' /\ [Next]_vars => [Abstract!Next]_found
    <2> SUFFICES ASSUME Same, Same', Next
                 PROVE  Abstract!Next
        BY DEF vars, maps
    <2>1. ASSUME NEW ref \in Refs, NEW n \in SUBSET NarrowKeys, NEW b \in SUBSET BroadKeys,
                 Relation!Replace(ref, n, b)
          PROVE  Abstract!Next
        <3> HIDE DEF found
        <3>1. found' = [found EXCEPT ![ref] = [narrow |-> n, broad |-> b]]
            BY <2>1 DEF Relation!Replace
        <3>2. Abstract!Replace(ref, n, b)
            BY <3>1 DEF Abstract!Replace, found
        <3> QED
            BY <3>2 DEF Abstract!Next, Abstract!NarrowKeys, Abstract!BroadKeys, NarrowKeys, BroadKeys
    <2>2. ASSUME NEW ref \in Refs, NEW n \in SUBSET NarrowKeys, Relation!Extend(ref, n)
          PROVE  Abstract!Next
        <3> HIDE DEF found
        <3>1. found' = [found EXCEPT ![ref] = [narrow |-> found[ref].narrow \cup n,
                                              broad  |-> found[ref].broad]]
            BY <2>2 DEF Relation!Extend
        <3>2. Abstract!Extend(ref, n)
            BY <3>1 DEF Abstract!Extend, found
        <3> QED
            BY <3>2 DEF Abstract!Next, Abstract!NarrowKeys, NarrowKeys
    <2> QED
        BY <2>1, <2>2 DEF Next
<1> QED
    BY <1>1, <1>2, <1>3, AlwaysPaired, PTL DEF Spec, ImplementsRelation, Abstract!Spec
=============================================================================
