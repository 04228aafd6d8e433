-------------------------- MODULE TestHarness_proofs --------------------------
(***************************************************************************)
(* Theorems about the calls of a test, for every manager that can be built *)
(* on the test store: TypeOK and OutputsTracked are invariant, a Result    *)
(* tells what the call has done (ResultsTell, RevertedOnce), and a run     *)
(* makes what its function says and is found by the events on it.  A call  *)
(* is a fold of runs, a run a fold of applies, deletes, patches and        *)
(* reverts: Call(s, h) is what each of them preserves, s being what the    *)
(* call has started from, h what it has reached, and Loops carries it over *)
(* the lists.                                                              *)
(***************************************************************************)
EXTENDS TestHarness, FiniteSetTheorems, TLAPS

\* A store as the operations leave it.
StoreOK(s) == \A k \in Keys : s.objects[k] # None => s.objects[k].key = k

\* The tracker's Lookup for a key: it is declared itself, or with its type and
\* namespace.
Tracked(key, narrow, broad) ==
    key \in narrow \/ [gvk |-> key.gvk, ns |-> key.ns] \in broad

\* A read returns objects of its type only, with the name it asks for, or from
\* the namespace it asks for if it asks for one.
LEMMA FetchedIsAsked ==
    ASSUME NEW s, StoreOK(s), NEW read, NEW o \in Fetched(s, read)
    PROVE  IF IsBroad(read)
           THEN /\ o.key.gvk = read.gvk
                /\ mergeFilters(read.filters).ns # Unset => o.key.ns = mergeFilters(read.filters).ns
           ELSE o.key = KeyRead(read)
<1> DEFINE f    == mergeFilters(read.filters)
           list == List(s, read.gvk, f.ns, f.labels)
<1>1. CASE ~IsBroad(read)
  <2>1. o \in {Get(s, KeyRead(read))} \ {None} BY <1>1 DEF Fetched
  <2>2. KeyRead(read) \in Keys /\ o = s.objects[KeyRead(read)] /\ o # None BY <2>1 DEF Get
  <2>3. QED BY <1>1, <2>2 DEF StoreOK
<1>2. CASE IsBroad(read)
  <2>1. o \in list
    <3>1. CASE read.all \/ list = {} BY <1>2, <3>1 DEF Fetched
    <3>2. CASE ~(read.all \/ list = {})
      <4>1. o \in {CHOOSE x \in list : TRUE} BY <1>2, <3>2 DEF Fetched
      <4>2. QED BY <3>2, <4>1
    <3>3. QED BY <3>1, <3>2
  <2>2. PICK k \in Keys : /\ o = s.objects[k] /\ k.gvk = read.gvk /\ s.objects[k] # None
                          /\ f.ns # Unset => k.ns = f.ns
    BY <2>1 DEF List
  <2>3. QED BY <1>2, <2>2 DEF StoreOK
<1>3. QED BY <1>1, <1>2

\* Whatever a function has been given by Fetch and FetchAll, an event on it
\* finds the function's invocation in the tracker: HandlerContext declares
\* every read, whether or not it finds something.  Only FetchAll without a
\* namespace is left out (context.go:97).
THEOREM ReadsAreTracked ==
    ASSUME NEW s, StoreOK(s), NEW reads, NEW read \in reads, NEW o \in Fetched(s, read),
           ~IsBroad(read) \/ mergeFilters(read.filters).ns # Unset
    PROVE  Tracked(o.key, narrowDeps(reads), broadDeps(reads))
<1>1. CASE ~IsBroad(read)
  <2>1. o.key = KeyRead(read) BY <1>1, FetchedIsAsked
  <2>2. QED BY <1>1, <2>1 DEF Tracked, narrowDeps
<1>2. CASE IsBroad(read)
  <2>1. o.key.gvk = read.gvk /\ o.key.ns = mergeFilters(read.filters).ns
    BY <1>2, FetchedIsAsked
  <2>2. [gvk |-> read.gvk, ns |-> mergeFilters(read.filters).ns] \in broadDeps(reads)
    BY <1>2 DEF broadDeps
  <2>3. QED BY <2>1, <2>2 DEF Tracked
<1>3. QED BY <1>1, <1>2

-----------------------------------------------------------------------------
\* What is assumed of the functions a test registers.  Of a store of any
\* content, one makes a list of objects, each with a key among Keys, and one of
\* an output reconciler never makes its own primary; what a function reads by
\* name is among Keys, which are all the keys there may be.
FunctionsFit ==
    /\ ~IsObject(None)
    /\ \A h : Fits(h) =>
          \A r \in RangeOf(reconcilers) \cup RangeOf(patchReconcilers) : \A key \in KeysOf(r) :
             Get(h.store, key) # None =>
                /\ Results(h, r, key) \in Seq(RangeOf(Results(h, r, key)))
                /\ \A o \in RangeOf(Results(h, r, key)) :
                      IsObject(o) /\ (r \in RangeOf(reconcilers) => o.key # key)
    /\ \A r \in RangeOf(All) : \A p :
          IsObject(p) /\ p.key \in KeysOf(r) => narrowDeps(Reads(r, p)) \subseteq Keys

NNs    == {NN(k) : k \in Keys}
Events == [on : {k.name : k \in Keys}, reason : Reasons]
Count(e, reason) == Cardinality({i \in DOMAIN e : e[i].reason = reason})

\* The Result tells of the key.
Told(h, n) == n \in RangeOf(h.store.Applied) \cup RangeOf(h.store.Deleted) \cup RangeOf(h.store.ForeignPatched)

\* s is [from, seen]: the state at the start of the call, and objects that it
\* has listed.  An object under the key k is as it was, is told of, or is a
\* primary with another finalizer.
Accounted(s, h, k, o) ==
    \/ o = s.from.store.objects[k]
    \/ Told(h, NN(k))
    \/ IsPrimary(k.gvk) /\ o.data = s.from.store.objects[k].data

Gone(h, n) ==
    \E k \in Keys :
        /\ NN(k) = n
        /\ \/ h.store.objects[k] = None
           \/ n \in RangeOf(h.store.Applied) \cup RangeOf(h.store.ForeignPatched)
           \/ \E i \in DOMAIN h.events : h.events[i] = [on |-> k.name, reason |-> "CleanupComplete"]

Targets(c) == {NN(x.target) : x \in c}

Objects(s, h) ==
    /\ \A k \in Keys : Accounted(s, h, k, h.store.objects[k])
    /\ \A p \in s.seen : IsObject(p) /\ Accounted(s, h, p.key, p)
    /\ \A n \in RangeOf(h.store.Deleted) : Gone(h, n)
    /\ \A k \in Keys : h.reported[k] # s.from.reported[k] => NN(k) \in RangeOf(h.store.StatusPatches)

Counts(h) ==
    /\ Len(h.store.Applied) = Count(h.events, "Applied")
    /\ Len(h.store.Deleted) = Count(h.events, "Deleted")
    /\ Len(h.store.ForeignPatched) = Count(h.events, "Patched")

Reverts(s, h) ==
    /\ RangeOf(h.store.ForeignReverted) \cup Targets(h.contributed)
          \subseteq RangeOf(h.store.ForeignPatched) \cup Targets(s.from.contributed)
    /\ IsFiniteSet(h.contributed) /\ IsFiniteSet(s.from.contributed)
    /\ Len(h.store.ForeignReverted) + Cardinality(h.contributed)
          <= Len(h.store.ForeignPatched) + Cardinality(s.from.contributed)

\* The record of the outputs of an invocation does not hold its primary, that
\* of its contributions holds what it has contributed and not taken back.
Others(m) == \A r \in RangeOf(reconcilers) : \A k \in KeysOf(r) : k \notin m.lastOutputs[Ref(r, k)]
Backed(h) == \A ref \in Refs : \A k \in h.manager.lastPatches[ref] : Contribution(ref, k) \in h.contributed

\* What is on record as made is among the dependencies, and only an output
\* reconciler has such a record.
Followed(m) ==
    /\ \A ref \in Refs : m.lastOutputs[ref] \subseteq m.deps[ref].narrow
    /\ \A r \in RangeOf(patchReconcilers) \cup RangeOf(statusReconcilers) : \A k \in KeysOf(r) :
          m.lastOutputs[Ref(r, k)] = {}

\* Midway, a batch of reverts has still to restore Backed, a run Followed.
Midway(s, h) == Fits(h) /\ Objects(s, h) /\ Counts(h) /\ Reverts(s, h) /\ Others(h.manager)
Call(s, h)   == Midway(s, h) /\ Backed(h) /\ Followed(h.manager)

-----------------------------------------------------------------------------
\* A list that has grown by an element.
LEMMA Appended ==
    ASSUME NEW S, NEW e \in Seq(S), NEW x \in S
    PROVE  /\ Append(e, x) \in Seq(S)
           /\ Len(Append(e, x)) = Len(e) + 1 /\ Len(e) \in Nat
           /\ RangeOf(Append(e, x)) = RangeOf(e) \cup {x}
<1>1. Append(e, x) \in Seq(S) /\ Len(Append(e, x)) = Len(e) + 1 /\ Len(e) \in Nat OBVIOUS
<1>2. \A i \in 1 .. Len(e) : Append(e, x)[i] = e[i] OBVIOUS
<1>3. Append(e, x)[Len(e) + 1] = x OBVIOUS
<1>4. DOMAIN e = 1 .. Len(e) /\ DOMAIN Append(e, x) = 1 .. (Len(e) + 1) OBVIOUS
<1>5. ASSUME NEW y \in RangeOf(Append(e, x)) PROVE y \in RangeOf(e) \cup {x}
  <2>1. PICK i \in DOMAIN Append(e, x) : y = Append(e, x)[i] BY DEF RangeOf
  <2>2. CASE i = Len(e) + 1 BY <2>1, <2>2, <1>3
  <2>3. CASE i # Len(e) + 1
    <3>1. i \in 1 .. Len(e) BY <1>1, <1>4, <2>3
    <3>2. QED BY <1>2, <1>4, <2>1, <3>1 DEF RangeOf
  <2>4. QED BY <2>2, <2>3
<1>6. ASSUME NEW y \in RangeOf(e) \cup {x} PROVE y \in RangeOf(Append(e, x))
  <2>1. CASE y = x BY <1>1, <1>3, <1>4, <2>1 DEF RangeOf
  <2>2. CASE y \in RangeOf(e)
    <3>1. PICK i \in DOMAIN e : y = e[i] BY <2>2 DEF RangeOf
    <3>2. i \in DOMAIN Append(e, x) /\ y = Append(e, x)[i] BY <1>1, <1>2, <1>4, <3>1
    <3>3. QED BY <3>2 DEF RangeOf
  <2>3. QED BY <2>1, <2>2
<1>7. QED BY <1>1, <1>5, <1>6

\* An event more is one more of its reason.
LEMMA Counted ==
    ASSUME NEW S, NEW e \in Seq(S), NEW x \in S, NEW reason
    PROVE  /\ Count(e, reason) \in Nat
           /\ Count(Append(e, x), reason) = Count(e, reason) + (IF x.reason = reason THEN 1 ELSE 0)
<1> DEFINE n == Len(e)
           A == {i \in DOMAIN e : e[i].reason = reason}
           B == {i \in DOMAIN Append(e, x) : Append(e, x)[i].reason = reason}
<1>1. n \in Nat /\ DOMAIN e = 1 .. n /\ DOMAIN Append(e, x) = 1 .. (n + 1) OBVIOUS
<1>2. \A i \in 1 .. n : Append(e, x)[i] = e[i] OBVIOUS
<1>3. Append(e, x)[n + 1] = x OBVIOUS
<1>4. IsFiniteSet(A)
  <2>1. IsFiniteSet(1 .. n) BY <1>1, FS_Interval
  <2>2. A \subseteq 1 .. n BY <1>1
  <2>3. QED BY <2>1, <2>2, FS_Subset
<1>5. B = IF x.reason = reason THEN A \cup {n + 1} ELSE A
  <2> HIDE DEF n
  <2>1. \A i : i \in 1 .. (n + 1) <=> i \in 1 .. n \/ i = n + 1 BY <1>1
  <2>2. n + 1 \notin 1 .. n BY <1>1
  <2>3. QED BY <1>1, <1>2, <1>3, <2>1, <2>2
<1>6. n + 1 \notin A BY <1>1
<1>7. Cardinality(A) \in Nat BY <1>4, FS_CardinalityType
<1>8. Cardinality(A \cup {n + 1}) = Cardinality(A) + 1 BY <1>4, <1>6, FS_AddElement
<1> HIDE DEF A, B
<1>9. Cardinality(B) = Cardinality(A) + (IF x.reason = reason THEN 1 ELSE 0) BY <1>5, <1>7, <1>8
<1>10. QED BY <1>7, <1>9 DEF A, B, Count

-----------------------------------------------------------------------------
\* One change of the state: what a step has to show of the objects, when the
\* lists and the events of a call only grow.
Kept(e, f) == \A i \in DOMAIN e : i \in DOMAIN f /\ f[i] = e[i]

Grown(h, g) ==
    /\ RangeOf(h.store.Applied) \subseteq RangeOf(g.store.Applied)
    /\ RangeOf(h.store.Deleted) \subseteq RangeOf(g.store.Deleted)
    /\ RangeOf(h.store.StatusPatches) \subseteq RangeOf(g.store.StatusPatches)
    /\ RangeOf(h.store.ForeignPatched) \subseteq RangeOf(g.store.ForeignPatched)
    /\ Kept(h.events, g.events)

\* An object is back that was not there, and the Result says why.
Back(g, k) ==
    \/ NN(k) \in RangeOf(g.store.Applied) \cup RangeOf(g.store.ForeignPatched)
    \/ \E i \in DOMAIN g.events : g.events[i] = [on |-> k.name, reason |-> "CleanupComplete"]

LEMMA ObjectsStep ==
    ASSUME NEW s, NEW h, NEW g, Objects(s, h), Grown(h, g),
           \A k \in Keys : g.store.objects[k] = h.store.objects[k] \/ Accounted(s, g, k, g.store.objects[k]),
           \A k \in Keys : h.store.objects[k] = None => g.store.objects[k] = None \/ Back(g, k),
           \A n \in RangeOf(g.store.Deleted) : n \in RangeOf(h.store.Deleted) \/ Gone(g, n),
           \A k \in Keys : g.reported[k] = h.reported[k] \/ NN(k) \in RangeOf(g.store.StatusPatches)
    PROVE  Objects(s, g)
<1>1. \A n : Told(h, n) => Told(g, n) BY DEF Grown, Told
<1>2. \A k, o : Accounted(s, h, k, o) => Accounted(s, g, k, o) BY <1>1 DEF Accounted
<1>3. \A k \in Keys : Accounted(s, g, k, g.store.objects[k]) BY <1>2 DEF Objects
<1>4. \A p \in s.seen : IsObject(p) /\ Accounted(s, g, p.key, p) BY <1>2 DEF Objects
<1>5. \A n : Gone(h, n) => Gone(g, n) BY DEF Grown, Kept, Gone, Back
<1>6. \A n \in RangeOf(g.store.Deleted) : Gone(g, n) BY <1>5 DEF Objects
<1>7. \A k \in Keys : g.reported[k] # s.from.reported[k] => NN(k) \in RangeOf(g.store.StatusPatches)
  BY DEF Objects, Grown
<1>8. QED BY <1>3, <1>4, <1>6, <1>7 DEF Objects

\* The state and its store are records.
Shaped(g) ==
    /\ g = [store |-> g.store, events |-> g.events, manager |-> g.manager,
            reported |-> g.reported, contributed |-> g.contributed]
    /\ g.store = [objects |-> g.store.objects, Applied |-> g.store.Applied, Deleted |-> g.store.Deleted,
            StatusPatches |-> g.store.StatusPatches, ForeignPatched |-> g.store.ForeignPatched,
            ForeignReverted |-> g.store.ForeignReverted]

LEMMA LabelledFits ==
    ASSUME NEW o, IsObject(o)
    PROVE  IsObject(Labelled(o)) /\ Labelled(o).key = o.key
BY DEF Labelled, IsObject

\* An event more, and nothing else.
Noted(f, g, reason) ==
    /\ Shaped(g) /\ g.store = f.store /\ g.manager = f.manager
    /\ g.reported = f.reported /\ g.contributed = f.contributed
    /\ g.events \in Seq(Events)
    /\ Kept(f.events, g.events)
    /\ \A x : Count(f.events, x) \in Nat
    /\ \A x : Count(g.events, x) = Count(f.events, x) + (IF x = reason THEN 1 ELSE 0)

\* recordEvent, when the primary is there.
LEMMA Recording ==
    ASSUME NEW f, Shaped(f), f.events \in Seq(Events), NEW key, Get(f.store, key) # None, NEW reason \in Reasons
    PROVE  Noted(f, Recorded(f, key, reason), reason)
<1> DEFINE e == [on |-> key.name, reason |-> reason]
<1>1. key \in Keys BY DEF Get
<1>2. e \in Events /\ e.reason = reason BY <1>1 DEF Events
<1> HIDE DEF e
<1> DEFINE g == Recorded(f, key, reason)
<1>3. g = [f EXCEPT !.events = Append(@, e)] BY DEF Recorded, e
<1> HIDE DEF g
<1>4. /\ Shaped(g) /\ g.store = f.store /\ g.manager = f.manager /\ g.events = Append(f.events, e)
      /\ g.reported = f.reported /\ g.contributed = f.contributed
  BY <1>3 DEF Shaped
<1>5. g.events \in Seq(Events) BY <1>2, <1>4
<1>6. Kept(f.events, g.events) BY <1>2, <1>4 DEF Kept
<1>7. \A x : Count(f.events, x) \in Nat BY <1>2, Counted
<1>8. \A x : Count(g.events, x) = Count(f.events, x) + (IF x = reason THEN 1 ELSE 0)
  BY <1>2, <1>4, Counted
<1>9. QED BY <1>4, <1>5, <1>6, <1>7, <1>8 DEF Noted, g

\* What the store's lists hold.
LEMMA ListsFit ==
    ASSUME NEW h, Fits(h)
    PROVE  /\ Shaped(h) /\ h.events \in Seq(Events)
           /\ h.store.Applied \in Seq(NNs) /\ h.store.Deleted \in Seq(NNs)
           /\ h.store.StatusPatches \in Seq(NNs)
           /\ h.store.ForeignPatched \in Seq(NNs) /\ h.store.ForeignReverted \in Seq(NNs)
BY DEF Fits, NNs, Shaped, Events

\* What a step has to show of the shape of the state.
LEMMA FitsStep ==
    ASSUME NEW h, Fits(h), NEW g, Shaped(g), g.events \in Seq(Events), g.manager = h.manager,
           g.store.Applied \in Seq(NNs), g.store.Deleted \in Seq(NNs), g.store.StatusPatches \in Seq(NNs),
           g.store.ForeignPatched \in Seq(NNs), g.store.ForeignReverted \in Seq(NNs),
           DOMAIN g.store.objects = Keys,
           \A k \in Keys : g.store.objects[k] # None => IsObject(g.store.objects[k]) /\ g.store.objects[k].key = k,
           DOMAIN g.reported = Keys, g.contributed \subseteq [ref : Refs, target : Keys]
    PROVE  Fits(g)
BY DEF Fits, Shaped, NNs, Events

LEMMA Applying ==
    ASSUME NEW s, NEW h, Midway(s, h), NEW key, Get(h.store, key) # None,
           NEW o, IsObject(o), ~IsObject(None), NEW g, g = ApplyOne(key, h, o)
    PROVE  /\ Midway(s, g) /\ Get(g.store, key) # None
           /\ g.manager = h.manager /\ g.contributed = h.contributed
           /\ \A k \in Keys : g.store.objects[k] = IF k = o.key THEN Labelled(o) ELSE h.store.objects[k]
<1> DEFINE l == Labelled(o)
<1>0. Fits(h) BY DEF Midway
<1>1. key \in Keys /\ o.key \in Keys BY DEF Get, IsObject
<1>2. IsObject(l) /\ l.key = o.key /\ l # None BY LabelledFits
<1> HIDE DEF l
<1>3. PICK f : f = [h EXCEPT !.store = Apply(@, l)] OBVIOUS
<1>4. /\ f.store.objects = [h.store.objects EXCEPT ![l.key] = l]
      /\ f.store.Applied = Append(h.store.Applied, NN(l.key))
      /\ f.store.Deleted = h.store.Deleted /\ f.store.StatusPatches = h.store.StatusPatches
      /\ f.store.ForeignPatched = h.store.ForeignPatched /\ f.store.ForeignReverted = h.store.ForeignReverted
      /\ f.manager = h.manager /\ f.events = h.events /\ f.reported = h.reported /\ f.contributed = h.contributed
      /\ Shaped(f)
  BY <1>3, <1>0 DEF Fits, Apply, SetObject, Shaped
<1>5. Get(f.store, key) # None BY <1>0, <1>1, <1>2, <1>4 DEF Get, Fits
<1>6. g = Recorded(f, key, "Applied") BY <1>3 DEF ApplyOne, l
<1>7. /\ Shaped(g) /\ g.store = f.store /\ g.manager = h.manager
      /\ g.reported = h.reported /\ g.contributed = h.contributed
      /\ g.events \in Seq(Events)
      /\ Kept(h.events, g.events)
      /\ \A x : Count(h.events, x) \in Nat
      /\ \A x : Count(g.events, x) = Count(h.events, x) + (IF x = "Applied" THEN 1 ELSE 0)
  <2>1. f.events \in Seq(Events) BY <1>0, <1>4, ListsFit
  <2>2. "Applied" \in Reasons BY DEF Reasons
  <2>3. Noted(f, g, "Applied") BY <1>4, <1>5, <1>6, <2>1, <2>2, Recording
  <2>4. QED BY <1>4, <2>3 DEF Noted
<1>8. /\ g.store.Applied \in Seq(NNs) /\ Len(g.store.Applied) = Len(h.store.Applied) + 1
      /\ RangeOf(g.store.Applied) = RangeOf(h.store.Applied) \cup {NN(l.key)}
  <2>1. NN(l.key) \in NNs BY <1>1, <1>2 DEF NNs
  <2>2. h.store.Applied \in Seq(NNs) BY <1>0, ListsFit
  <2>3. g.store.Applied = Append(h.store.Applied, NN(l.key)) BY <1>4, <1>7
  <2>4. QED BY <2>1, <2>2, <2>3, Appended
<1>9. Fits(g)
  <2>0. g.store.objects = [h.store.objects EXCEPT ![l.key] = l] BY <1>4, <1>7
  <2>1. /\ DOMAIN g.store.objects = Keys
        /\ \A k \in Keys : g.store.objects[k] # None => IsObject(g.store.objects[k]) /\ g.store.objects[k].key = k
    BY <1>0, <1>1, <1>2, <2>0 DEF Fits
  <2>2. DOMAIN g.reported = Keys /\ g.contributed \subseteq [ref : Refs, target : Keys] BY <1>0, <1>7 DEF Fits
  <2>3. /\ g.store.Deleted \in Seq(NNs) /\ g.store.StatusPatches \in Seq(NNs)
        /\ g.store.ForeignPatched \in Seq(NNs) /\ g.store.ForeignReverted \in Seq(NNs)
    BY <1>0, <1>4, <1>7, ListsFit
  <2>4. QED BY <1>0, <1>7, <1>8, <2>1, <2>2, <2>3, FitsStep
<1>10. Objects(s, g)
  <2>1. Grown(h, g) BY <1>4, <1>7, <1>8 DEF Grown
  <2>2. \A k \in Keys : g.store.objects[k] = h.store.objects[k] \/ NN(k) \in RangeOf(g.store.Applied)
    BY <1>0, <1>4, <1>7, <1>8 DEF Fits
  <2>3. QED BY <1>4, <1>7, <2>1, <2>2, ObjectsStep DEF Midway, Accounted, Told, Back
<1>11. Counts(g)
  BY <1>4, <1>7, <1>8 DEF Midway, Counts
<1>12. Reverts(s, g) BY <1>4, <1>7 DEF Midway, Reverts
<1>13. \A k \in Keys : g.store.objects[k] = IF k = o.key THEN Labelled(o) ELSE h.store.objects[k]
  BY <1>0, <1>2, <1>4, <1>7 DEF Fits, l
<1>14. QED BY <1>4, <1>5, <1>7, <1>9, <1>10, <1>11, <1>12, <1>13 DEF Midway

LEMMA Removing ==
    ASSUME NEW s, NEW h, Midway(s, h), NEW key, Get(h.store, key) # None,
           NEW k \in Keys, k # key, NEW g, g = DeleteOne(key, h, k)
    PROVE  /\ Midway(s, g) /\ Get(g.store, key) # None
           /\ g.manager = h.manager /\ g.contributed = h.contributed
           /\ \A q \in Keys : g.store.objects[q] = IF q = k THEN None ELSE h.store.objects[q]
<1>0. Fits(h) BY DEF Midway
<1>1. key \in Keys BY DEF Get
<1>3. PICK f : f = [h EXCEPT !.store = Delete(@, k)] OBVIOUS
<1>4. /\ f.store.objects = [h.store.objects EXCEPT ![k] = None]
      /\ f.store.Deleted = Append(h.store.Deleted, NN(k))
      /\ f.store.Applied = h.store.Applied /\ f.store.StatusPatches = h.store.StatusPatches
      /\ f.store.ForeignPatched = h.store.ForeignPatched /\ f.store.ForeignReverted = h.store.ForeignReverted
      /\ f.manager = h.manager /\ f.events = h.events /\ f.reported = h.reported /\ f.contributed = h.contributed
      /\ Shaped(f)
  BY <1>3, <1>0 DEF Fits, Delete, DeleteObject, Shaped
<1>5. Get(f.store, key) # None BY <1>0, <1>1, <1>4 DEF Get, Fits
<1>6. g = Recorded(f, key, "Deleted") BY <1>3 DEF DeleteOne
<1>7. Noted(f, g, "Deleted")
  <2>1. f.events \in Seq(Events) BY <1>0, <1>4, ListsFit
  <2>2. "Deleted" \in Reasons BY DEF Reasons
  <2>3. QED BY <1>4, <1>5, <1>6, <2>1, <2>2, Recording
<1>8. /\ g.store.Deleted \in Seq(NNs) /\ Len(g.store.Deleted) = Len(h.store.Deleted) + 1
      /\ RangeOf(g.store.Deleted) = RangeOf(h.store.Deleted) \cup {NN(k)}
  <2>1. NN(k) \in NNs BY DEF NNs
  <2>2. h.store.Deleted \in Seq(NNs) BY <1>0, ListsFit
  <2>3. g.store.Deleted = Append(h.store.Deleted, NN(k)) BY <1>4, <1>7 DEF Noted
  <2>4. QED BY <2>1, <2>2, <2>3, Appended
<1>9. Fits(g)
  <2>0. g.store.objects = [h.store.objects EXCEPT ![k] = None] BY <1>4, <1>7 DEF Noted
  <2>1. /\ DOMAIN g.store.objects = Keys
        /\ \A q \in Keys : g.store.objects[q] # None => IsObject(g.store.objects[q]) /\ g.store.objects[q].key = q
    BY <1>0, <2>0 DEF Fits
  <2>2. DOMAIN g.reported = Keys /\ g.contributed \subseteq [ref : Refs, target : Keys]
    BY <1>0, <1>4, <1>7 DEF Fits, Noted
  <2>3. /\ g.store.Applied \in Seq(NNs) /\ g.store.StatusPatches \in Seq(NNs)
        /\ g.store.ForeignPatched \in Seq(NNs) /\ g.store.ForeignReverted \in Seq(NNs)
    BY <1>0, <1>4, <1>7, ListsFit DEF Noted
  <2>4. Shaped(g) /\ g.events \in Seq(Events) /\ g.manager = h.manager BY <1>4, <1>7 DEF Noted
  <2>5. QED BY <1>0, <1>8, <2>1, <2>2, <2>3, <2>4, FitsStep
<1>10. Objects(s, g)
  <2>1. Grown(h, g) BY <1>4, <1>7, <1>8 DEF Grown, Noted
  <2>2. \A q \in Keys : g.store.objects[q] = IF q = k THEN None ELSE h.store.objects[q]
    BY <1>0, <1>4, <1>7 DEF Fits, Noted
  <2>3. \A q \in Keys : g.store.objects[q] = h.store.objects[q] \/ Accounted(s, g, q, g.store.objects[q])
    BY <1>8, <2>2 DEF Accounted, Told
  <2>4. \A n \in RangeOf(g.store.Deleted) : n \in RangeOf(h.store.Deleted) \/ Gone(g, n)
    BY <1>8, <2>2 DEF Gone
  <2>5. g.reported = h.reported BY <1>4, <1>7 DEF Noted
  <2>6. Objects(s, h) BY DEF Midway
  <2>7. QED BY <2>1, <2>2, <2>3, <2>4, <2>5, <2>6, ObjectsStep
<1>11. Counts(g)
  <2>1. /\ Count(g.events, "Applied") = Count(h.events, "Applied")
        /\ Count(g.events, "Deleted") = Count(h.events, "Deleted") + 1
        /\ Count(g.events, "Patched") = Count(h.events, "Patched")
    BY <1>4, <1>7 DEF Noted
  <2>2. g.store.Applied = h.store.Applied /\ g.store.ForeignPatched = h.store.ForeignPatched
    BY <1>4, <1>7 DEF Noted
  <2>3. Counts(h) BY DEF Midway
  <2>4. QED BY <1>8, <2>1, <2>2, <2>3 DEF Counts
<1>12. Reverts(s, g) BY <1>4, <1>7 DEF Midway, Reverts, Noted
<1>13. \A q \in Keys : g.store.objects[q] = IF q = k THEN None ELSE h.store.objects[q]
  BY <1>0, <1>4, <1>7 DEF Fits, Noted
<1>14. QED BY <1>4, <1>5, <1>7, <1>9, <1>10, <1>11, <1>12, <1>13 DEF Midway, Noted

LEMMA Patching ==
    ASSUME NEW s, NEW h, Midway(s, h), NEW c, c.ref \in Refs, Get(h.store, c.key) # None,
           NEW o, IsObject(o), ~IsObject(None), NEW g, g = PatchOne(c, h, o)
    PROVE  /\ Midway(s, g) /\ Get(g.store, c.key) # None
           /\ g.manager = h.manager
           /\ g.contributed = h.contributed \cup {Contribution(c.ref, o.key)}
           /\ \A k \in Keys : g.store.objects[k] = IF k = o.key THEN o ELSE h.store.objects[k]
<1> DEFINE x == Contribution(c.ref, o.key)
<1>0. Fits(h) BY DEF Midway
<1>1. c.key \in Keys /\ o.key \in Keys BY DEF Get, IsObject
<1>2. o # None /\ x \in [ref : Refs, target : Keys] /\ x.target = o.key BY <1>1 DEF Contribution
<1> HIDE DEF x
<1>3. PICK f : f = [h EXCEPT !.store = PatchForeign(@, o), !.contributed = @ \cup {x}] OBVIOUS
<1>4. /\ f.store.objects = [h.store.objects EXCEPT ![o.key] = o]
      /\ f.store.ForeignPatched = Append(h.store.ForeignPatched, NN(o.key))
      /\ f.store.Deleted = h.store.Deleted /\ f.store.StatusPatches = h.store.StatusPatches
      /\ f.store.Applied = h.store.Applied /\ f.store.ForeignReverted = h.store.ForeignReverted
      /\ f.manager = h.manager /\ f.events = h.events /\ f.reported = h.reported
      /\ f.contributed = h.contributed \cup {x}
      /\ Shaped(f)
  BY <1>3, <1>0 DEF Fits, PatchForeign, SetObject, Shaped
<1>5. Get(f.store, c.key) # None BY <1>0, <1>1, <1>2, <1>4 DEF Get, Fits
<1>6. g = Recorded(f, c.key, "Patched") BY <1>3 DEF PatchOne, x
<1>7. Noted(f, g, "Patched")
  <2>1. f.events \in Seq(Events) BY <1>0, <1>4, ListsFit
  <2>2. "Patched" \in Reasons BY DEF Reasons
  <2>3. QED BY <1>4, <1>5, <1>6, <2>1, <2>2, Recording
<1>8. /\ g.store.ForeignPatched \in Seq(NNs)
      /\ Len(g.store.ForeignPatched) = Len(h.store.ForeignPatched) + 1
      /\ Len(h.store.ForeignPatched) \in Nat
      /\ RangeOf(g.store.ForeignPatched) = RangeOf(h.store.ForeignPatched) \cup {NN(o.key)}
  <2>1. NN(o.key) \in NNs BY <1>1 DEF NNs
  <2>2. h.store.ForeignPatched \in Seq(NNs) BY <1>0, ListsFit
  <2>3. g.store.ForeignPatched = Append(h.store.ForeignPatched, NN(o.key)) BY <1>4, <1>7 DEF Noted
  <2>4. QED BY <2>1, <2>2, <2>3, Appended
<1>9. Fits(g)
  <2>0. g.store.objects = [h.store.objects EXCEPT ![o.key] = o] BY <1>4, <1>7 DEF Noted
  <2>1. /\ DOMAIN g.store.objects = Keys
        /\ \A k \in Keys : g.store.objects[k] # None => IsObject(g.store.objects[k]) /\ g.store.objects[k].key = k
    BY <1>0, <1>1, <1>2, <2>0 DEF Fits
  <2>2. DOMAIN g.reported = Keys /\ g.contributed \subseteq [ref : Refs, target : Keys]
    BY <1>0, <1>2, <1>4, <1>7 DEF Fits, Noted
  <2>3. /\ g.store.Deleted \in Seq(NNs) /\ g.store.StatusPatches \in Seq(NNs)
        /\ g.store.Applied \in Seq(NNs) /\ g.store.ForeignReverted \in Seq(NNs)
    BY <1>0, <1>4, <1>7, ListsFit DEF Noted
  <2>4. Shaped(g) /\ g.events \in Seq(Events) /\ g.manager = h.manager BY <1>4, <1>7 DEF Noted
  <2>5. QED BY <1>0, <1>8, <2>1, <2>2, <2>3, <2>4, FitsStep
<1>10. Objects(s, g)
  <2>1. Grown(h, g) BY <1>4, <1>7, <1>8 DEF Grown, Noted
  <2>2. \A k \in Keys : g.store.objects[k] = h.store.objects[k] \/ NN(k) \in RangeOf(g.store.ForeignPatched)
    BY <1>0, <1>4, <1>7, <1>8 DEF Fits, Noted
  <2>3. Objects(s, h) /\ g.reported = h.reported /\ g.store.Deleted = h.store.Deleted
    BY <1>4, <1>7 DEF Midway, Noted
  <2>4. QED BY <2>1, <2>2, <2>3, ObjectsStep DEF Accounted, Told, Back
<1>11. Counts(g)
  <2>1. /\ Count(g.events, "Applied") = Count(h.events, "Applied")
        /\ Count(g.events, "Deleted") = Count(h.events, "Deleted")
        /\ Count(g.events, "Patched") = Count(h.events, "Patched") + 1
    BY <1>4, <1>7 DEF Noted
  <2>2. g.store.Applied = h.store.Applied /\ g.store.Deleted = h.store.Deleted BY <1>4, <1>7 DEF Noted
  <2>3. Counts(h) BY DEF Midway
  <2>4. QED BY <1>8, <2>1, <2>2, <2>3 DEF Counts
<1>12. Reverts(s, g)
  <2>1. g.contributed = h.contributed \cup {x} /\ g.store.ForeignReverted = h.store.ForeignReverted
    BY <1>4, <1>7 DEF Noted
  <2>2. Targets(g.contributed) = Targets(h.contributed) \cup {NN(o.key)} BY <1>2, <2>1 DEF Targets
  <2>3. IsFiniteSet(h.contributed) /\ IsFiniteSet(g.contributed) /\ IsFiniteSet(s.from.contributed)
        /\ Cardinality(h.contributed) \in Nat /\ Cardinality(s.from.contributed) \in Nat
        /\ Cardinality(g.contributed) <= Cardinality(h.contributed) + 1
        /\ Cardinality(g.contributed) \in Nat
    <3>1. IsFiniteSet(h.contributed) /\ IsFiniteSet(s.from.contributed) BY DEF Midway, Reverts
    <3>2. IsFiniteSet(g.contributed) BY <2>1, <3>1, FS_AddElement
    <3>3. CASE x \in h.contributed
      <4>1. g.contributed = h.contributed BY <2>1, <3>3
      <4>2. Cardinality(h.contributed) \in Nat /\ Cardinality(s.from.contributed) \in Nat BY <3>1, FS_CardinalityType
      <4>3. QED BY <3>1, <4>1, <4>2
    <3>4. CASE x \notin h.contributed
      <4>1. Cardinality(g.contributed) = Cardinality(h.contributed) + 1 BY <2>1, <3>1, <3>4, FS_AddElement
      <4>2. Cardinality(h.contributed) \in Nat /\ Cardinality(s.from.contributed) \in Nat BY <3>1, FS_CardinalityType
      <4>3. QED BY <3>1, <3>2, <4>1, <4>2
    <3>5. QED BY <3>3, <3>4
  <2>4. h.store.ForeignReverted \in Seq(NNs) BY <1>0, ListsFit
  <2>5. Len(h.store.ForeignReverted) \in Nat BY <2>4
  <2>6. Reverts(s, h) BY DEF Midway
  <2>7. RangeOf(g.store.ForeignReverted) \cup Targets(g.contributed)
           \subseteq RangeOf(g.store.ForeignPatched) \cup Targets(s.from.contributed)
    BY <1>8, <2>1, <2>2, <2>6 DEF Reverts
  <2>8. Len(g.store.ForeignReverted) + Cardinality(g.contributed)
           <= Len(g.store.ForeignPatched) + Cardinality(s.from.contributed)
    <3>1. Len(h.store.ForeignReverted) + Cardinality(h.contributed)
             <= Len(h.store.ForeignPatched) + Cardinality(s.from.contributed)
      BY <2>6 DEF Reverts
    <3>2. Len(g.store.ForeignReverted) = Len(h.store.ForeignReverted) BY <2>1
    <3> DEFINE a == Len(h.store.ForeignReverted)
               b == Len(h.store.ForeignPatched)
               m == Cardinality(h.contributed)
               n == Cardinality(s.from.contributed)
    <3>3. a \in Nat /\ b \in Nat /\ m \in Nat /\ n \in Nat /\ a + m <= b + n BY <1>8, <2>3, <2>5, <3>1
    <3>4. Cardinality(g.contributed) <= m + 1 /\ Cardinality(g.contributed) \in Nat BY <2>3
    <3>5. Len(g.store.ForeignReverted) = a /\ Len(g.store.ForeignPatched) = b + 1 BY <1>8, <3>2
    <3> HIDE DEF a, b, m, n
    <3>6. QED BY <3>3, <3>4, <3>5 DEF n
  <2>9. QED BY <2>3, <2>7, <2>8 DEF Reverts
<1>13. \A k \in Keys : g.store.objects[k] = IF k = o.key THEN o ELSE h.store.objects[k]
  BY <1>0, <1>4, <1>7 DEF Fits, Noted
<1>14. QED BY <1>4, <1>5, <1>7, <1>9, <1>10, <1>11, <1>12, <1>13 DEF Midway, Noted, x

LEMMA Reverting ==
    ASSUME NEW s, NEW h, Midway(s, h), NEW ref, NEW k, Contribution(ref, k) \in h.contributed,
           NEW g, g = Reverted(ref, h, k)
    PROVE  /\ Midway(s, g) /\ \A key : Get(g.store, key) = Get(h.store, key)
           /\ g.manager = h.manager /\ g.contributed = h.contributed \ {Contribution(ref, k)}
<1> DEFINE x == Contribution(ref, k)
<1>0. Fits(h) BY DEF Midway
<1>1. x.target = k BY DEF Contribution
<1>2. x \in h.contributed /\ x.target \in Keys BY <1>0 DEF Fits
<1> HIDE DEF x
<1>4. /\ g.store.objects = h.store.objects
      /\ g.store.ForeignReverted = Append(h.store.ForeignReverted, NN(k))
      /\ g.store.Deleted = h.store.Deleted /\ g.store.StatusPatches = h.store.StatusPatches
      /\ g.store.Applied = h.store.Applied /\ g.store.ForeignPatched = h.store.ForeignPatched
      /\ g.manager = h.manager /\ g.events = h.events /\ g.reported = h.reported
      /\ g.contributed = h.contributed \ {x}
      /\ Shaped(g)
  BY <1>0 DEF Fits, Reverted, RevertForeign, Shaped, x
<1>8. /\ g.store.ForeignReverted \in Seq(NNs)
      /\ Len(g.store.ForeignReverted) = Len(h.store.ForeignReverted) + 1
      /\ Len(h.store.ForeignReverted) \in Nat
      /\ RangeOf(g.store.ForeignReverted) = RangeOf(h.store.ForeignReverted) \cup {NN(k)}
  <2>1. NN(k) \in NNs BY <1>1, <1>2 DEF NNs
  <2>2. h.store.ForeignReverted \in Seq(NNs) BY <1>0, ListsFit
  <2>4. QED BY <2>1, <2>2, <1>4, Appended
<1>9. Fits(g)
  <2>1. /\ DOMAIN g.store.objects = Keys
        /\ \A q \in Keys : g.store.objects[q] # None => IsObject(g.store.objects[q]) /\ g.store.objects[q].key = q
    BY <1>0, <1>4 DEF Fits
  <2>2. DOMAIN g.reported = Keys /\ g.contributed \subseteq [ref : Refs, target : Keys]
    BY <1>0, <1>4 DEF Fits
  <2>3. /\ g.store.Deleted \in Seq(NNs) /\ g.store.StatusPatches \in Seq(NNs)
        /\ g.store.Applied \in Seq(NNs) /\ g.store.ForeignPatched \in Seq(NNs) /\ g.events \in Seq(Events)
    BY <1>0, <1>4, ListsFit
  <2>5. QED BY <1>0, <1>4, <1>8, <2>1, <2>2, <2>3, FitsStep
<1>10. Objects(s, g)
  <2>1. Grown(h, g) BY <1>4 DEF Grown, Kept
  <2>2. QED BY <1>4, <2>1, ObjectsStep DEF Midway
<1>11. Counts(g) BY <1>4 DEF Midway, Counts
<1>12. Reverts(s, g)
  <2>2. Targets(g.contributed) \cup {NN(k)} \subseteq Targets(h.contributed) BY <1>1, <1>2, <1>4 DEF Targets
  <2>3. /\ IsFiniteSet(g.contributed) /\ IsFiniteSet(s.from.contributed)
        /\ Cardinality(h.contributed) \in Nat /\ Cardinality(s.from.contributed) \in Nat
        /\ Cardinality(g.contributed) = Cardinality(h.contributed) - 1
    <3>1. IsFiniteSet(h.contributed) /\ IsFiniteSet(s.from.contributed) BY DEF Midway, Reverts
    <3>2. Cardinality(h.contributed) \in Nat /\ Cardinality(s.from.contributed) \in Nat BY <3>1, FS_CardinalityType
    <3>3. IsFiniteSet(g.contributed) /\ Cardinality(g.contributed) = Cardinality(h.contributed) - 1
      BY <1>2, <1>4, <3>1, FS_RemoveElement
    <3>4. QED BY <3>1, <3>2, <3>3
  <2>4. h.store.ForeignPatched \in Seq(NNs) BY <1>0, ListsFit
  <2>5. Len(h.store.ForeignPatched) \in Nat BY <2>4
  <2>6. Reverts(s, h) BY DEF Midway
  <2>7. RangeOf(g.store.ForeignReverted) \cup Targets(g.contributed)
           \subseteq RangeOf(g.store.ForeignPatched) \cup Targets(s.from.contributed)
    BY <1>4, <1>8, <2>2, <2>6 DEF Reverts
  <2>8. Len(g.store.ForeignReverted) + Cardinality(g.contributed)
           <= Len(g.store.ForeignPatched) + Cardinality(s.from.contributed)
    <3>1. Len(h.store.ForeignReverted) + Cardinality(h.contributed)
             <= Len(h.store.ForeignPatched) + Cardinality(s.from.contributed)
      BY <2>6 DEF Reverts
    <3>2. Len(g.store.ForeignPatched) = Len(h.store.ForeignPatched) BY <1>4
    <3>3. QED BY <1>8, <2>3, <2>5, <3>1, <3>2
  <2>9. QED BY <2>3, <2>7, <2>8 DEF Reverts
<1>13. QED BY <1>4, <1>9, <1>10, <1>11, <1>12 DEF Midway, Get, x

\* The finalizer that a run adds to its primary.
LEMMA Finalizing ==
    ASSUME NEW s, NEW h, Midway(s, h), NEW r \in RangeOf(All), NEW key, key.gvk = r.primary,
           Get(h.store, key) # None, ~IsObject(None), NEW g, g = WithFinalizer(h, r, key)
    PROVE  /\ Midway(s, g) /\ Get(g.store, key) # None
           /\ g.manager = h.manager /\ g.contributed = h.contributed
           /\ \A k \in Keys : k # key => g.store.objects[k] = h.store.objects[k]
<1> DEFINE p == Get(h.store, key)
           o == [p EXCEPT !.finalizers = @ \cup {Own}]
<1>0. Fits(h) BY DEF Midway
<1>1. key \in Keys /\ p = h.store.objects[key] /\ IsObject(p) /\ p.key = key BY <1>0 DEF Get, Fits
<1>2. CASE g = h BY <1>2
<1>3. CASE g # h
  <2>1. g = [h EXCEPT !.store = Merge(@, o)] BY <1>3 DEF WithFinalizer
  <2>2. IsObject(o) /\ o.key = key /\ o.data = p.data /\ o # None BY <1>1 DEF IsObject
  <2> HIDE DEF o, p
  <2>3. /\ g.store.objects = [h.store.objects EXCEPT ![key] = o]
        /\ g.store.Applied = h.store.Applied /\ g.store.Deleted = h.store.Deleted
        /\ g.store.StatusPatches = h.store.StatusPatches
        /\ g.store.ForeignPatched = h.store.ForeignPatched /\ g.store.ForeignReverted = h.store.ForeignReverted
        /\ g.manager = h.manager /\ g.events = h.events /\ g.reported = h.reported /\ g.contributed = h.contributed
        /\ Shaped(g)
    <3>1. o.key = key BY <2>2
    <3>2. Shaped(h) BY <1>0, ListsFit
    <3>3. QED BY <2>1, <3>1, <3>2 DEF Merge, SetObject, Shaped
  <2>4. Get(g.store, key) # None BY <1>0, <1>1, <2>2, <2>3 DEF Get, Fits, p
  <2>5. Fits(g)
    <3>1. /\ DOMAIN g.store.objects = Keys
          /\ \A k \in Keys : g.store.objects[k] # None => IsObject(g.store.objects[k]) /\ g.store.objects[k].key = k
      BY <1>0, <1>1, <2>2, <2>3 DEF Fits
    <3>2. DOMAIN g.reported = Keys /\ g.contributed \subseteq [ref : Refs, target : Keys]
      BY <1>0, <2>3 DEF Fits
    <3>3. /\ g.store.Deleted \in Seq(NNs) /\ g.store.StatusPatches \in Seq(NNs)
          /\ g.store.Applied \in Seq(NNs) /\ g.store.ForeignPatched \in Seq(NNs)
          /\ g.store.ForeignReverted \in Seq(NNs) /\ g.events \in Seq(Events)
      BY <1>0, <2>3, ListsFit
    <3>4. QED BY <1>0, <2>3, <3>1, <3>2, <3>3, FitsStep
  <2>6. Objects(s, g)
    <3>1. Grown(h, g) BY <2>3 DEF Grown, Kept
    <3>2. Accounted(s, h, key, p) BY <1>1 DEF Midway, Objects
    <3>3. IsPrimary(key.gvk) BY DEF IsPrimary
    <3>4. Accounted(s, g, key, o) BY <2>2, <2>3, <3>2, <3>3 DEF Accounted, Told
    <3>5. \A k \in Keys : g.store.objects[k] = IF k = key THEN o ELSE h.store.objects[k]
      BY <1>0, <2>3 DEF Fits
    <3>6. Objects(s, h) /\ h.store.objects[key] # None BY <1>1 DEF Midway
    <3>7. \A k \in Keys : g.store.objects[k] = h.store.objects[k] \/ Accounted(s, g, k, g.store.objects[k])
      BY <3>4, <3>5
    <3>8. \A k \in Keys : h.store.objects[k] = None => g.store.objects[k] = None BY <3>5, <3>6
    <3>9. \A n \in RangeOf(g.store.Deleted) : n \in RangeOf(h.store.Deleted) BY <2>3
    <3>10. \A k \in Keys : g.reported[k] = h.reported[k] BY <2>3
    <3>11. QED BY <3>1, <3>6, <3>7, <3>8, <3>9, <3>10, ObjectsStep
  <2>7. Counts(g) BY <2>3 DEF Midway, Counts
  <2>8. Reverts(s, g) BY <2>3 DEF Midway, Reverts
  <2>9. \A k \in Keys : k # key => g.store.objects[k] = h.store.objects[k] BY <1>0, <2>3 DEF Fits
  <2>10. QED BY <2>3, <2>4, <2>5, <2>6, <2>7, <2>8, <2>9 DEF Midway
<1>4. QED BY <1>2, <1>3

\* The Manager's maps, of Fits.
ManagerFits(m) ==
    /\ m = [lastOutputs |-> m.lastOutputs, lastPatches |-> m.lastPatches, deps |-> m.deps]
    /\ m.lastOutputs \in [Refs -> SUBSET Keys] /\ m.lastPatches \in [Refs -> SUBSET Keys]
    /\ DOMAIN m.deps = Refs
    /\ \A ref \in Refs :
          /\ m.deps[ref] = [narrow |-> m.deps[ref].narrow, broad |-> m.deps[ref].broad]
          /\ m.deps[ref].narrow \subseteq Keys

LEMMA Managing ==
    ASSUME NEW s, NEW h, Midway(s, h), NEW m, ManagerFits(m), Others(m), NEW g, g = [h EXCEPT !.manager = m]
    PROVE  /\ Midway(s, g) /\ \A key : Get(g.store, key) = Get(h.store, key)
           /\ g.manager = m /\ g.contributed = h.contributed
<1>0. Fits(h) BY DEF Midway
<1>1. /\ g.store = h.store /\ g.events = h.events /\ g.reported = h.reported
      /\ g.contributed = h.contributed /\ g.manager = m /\ Shaped(g)
  BY <1>0 DEF Fits, Shaped
<1>2. Fits(g)
  <2>1. {m.lastOutputs, m.lastPatches} \subseteq [Refs -> SUBSET Keys] BY DEF ManagerFits
  <2>2. QED BY <1>0, <1>1, <2>1 DEF Fits, Shaped, ManagerFits
<1>3. Objects(s, g)
  <2>1. Grown(h, g) BY <1>1 DEF Grown, Kept
  <2>2. \A k \in Keys : g.store.objects[k] = h.store.objects[k] \/ Accounted(s, g, k, g.store.objects[k]) BY <1>1
  <2>3. \A k \in Keys : h.store.objects[k] = None => g.store.objects[k] = None \/ Back(g, k) BY <1>1
  <2>4. \A n \in RangeOf(g.store.Deleted) : n \in RangeOf(h.store.Deleted) \/ Gone(g, n) BY <1>1
  <2>5. \A k \in Keys : g.reported[k] = h.reported[k] \/ NN(k) \in RangeOf(g.store.StatusPatches) BY <1>1
  <2>6. Objects(s, h) BY DEF Midway
  <2>7. QED BY ONLY <2>1, <2>2, <2>3, <2>4, <2>5, <2>6, ObjectsStep
<1>4. QED BY <1>1, <1>2, <1>3 DEF Midway, Counts, Reverts, Get

LEMMA ManagerIsFit ==
    ASSUME NEW h, Fits(h) PROVE ManagerFits(h.manager)
BY DEF Fits, ManagerFits

\* applyStatus.
LEMMA Reporting ==
    ASSUME NEW s, NEW h, Midway(s, h), NEW key \in Keys, NEW status, NEW g, g = applyStatus(h, key, status)
    PROVE  Midway(s, g) /\ g.manager = h.manager /\ g.contributed = h.contributed
<1>0. Fits(h) BY DEF Midway
<1>4. /\ g.store.objects = h.store.objects
      /\ g.store.StatusPatches = Append(h.store.StatusPatches, NN(key))
      /\ g.store.Deleted = h.store.Deleted /\ g.store.ForeignReverted = h.store.ForeignReverted
      /\ g.store.Applied = h.store.Applied /\ g.store.ForeignPatched = h.store.ForeignPatched
      /\ g.manager = h.manager /\ g.events = h.events /\ g.contributed = h.contributed
      /\ g.reported = [h.reported EXCEPT ![key] = status]
      /\ Shaped(g)
  BY <1>0 DEF Fits, applyStatus, PatchStatus, Shaped
<1>8. /\ g.store.StatusPatches \in Seq(NNs)
      /\ RangeOf(g.store.StatusPatches) = RangeOf(h.store.StatusPatches) \cup {NN(key)}
  <2>1. NN(key) \in NNs BY DEF NNs
  <2>2. h.store.StatusPatches \in Seq(NNs) BY <1>0, ListsFit
  <2>4. QED BY <2>1, <2>2, <1>4, Appended
<1>9. Fits(g)
  <2>1. /\ DOMAIN g.store.objects = Keys
        /\ \A q \in Keys : g.store.objects[q] # None => IsObject(g.store.objects[q]) /\ g.store.objects[q].key = q
    BY <1>0, <1>4 DEF Fits
  <2>2. DOMAIN g.reported = Keys /\ g.contributed \subseteq [ref : Refs, target : Keys]
    BY <1>0, <1>4 DEF Fits
  <2>3. /\ g.store.Deleted \in Seq(NNs) /\ g.store.ForeignReverted \in Seq(NNs)
        /\ g.store.Applied \in Seq(NNs) /\ g.store.ForeignPatched \in Seq(NNs) /\ g.events \in Seq(Events)
    BY <1>0, <1>4, ListsFit
  <2>5. QED BY <1>0, <1>4, <1>8, <2>1, <2>2, <2>3, FitsStep
<1>10. Objects(s, g)
  <2>1. Grown(h, g) BY <1>4, <1>8 DEF Grown, Kept
  <2>2. \A k \in Keys : g.reported[k] = h.reported[k] \/ NN(k) \in RangeOf(g.store.StatusPatches)
    BY <1>0, <1>4, <1>8 DEF Fits
  <2>3. Objects(s, h) BY DEF Midway
  <2>4. \A k \in Keys : g.store.objects[k] = h.store.objects[k] BY <1>4
  <2>5. \A n \in RangeOf(g.store.Deleted) : n \in RangeOf(h.store.Deleted) BY <1>4
  <2>6. QED BY <2>1, <2>2, <2>3, <2>4, <2>5, ObjectsStep
<1>11. Counts(g) BY <1>4 DEF Midway, Counts
<1>12. Reverts(s, g) BY <1>4 DEF Midway, Reverts
<1>13. QED BY <1>4, <1>9, <1>10, <1>11, <1>12 DEF Midway

\* A run that fails.
LEMMA Failing ==
    ASSUME NEW s, NEW h, Midway(s, h), NEW key, Get(h.store, key) # None,
           NEW g, g = Recorded(h, key, "ReconcileFailed")
    PROVE  Midway(s, g) /\ g.manager = h.manager /\ g.contributed = h.contributed /\ g.store = h.store
<1>0. Fits(h) BY DEF Midway
<1>1. Noted(h, g, "ReconcileFailed")
  <2>1. Shaped(h) /\ h.events \in Seq(Events) BY <1>0, ListsFit
  <2>2. "ReconcileFailed" \in Reasons BY DEF Reasons
  <2>3. QED BY <2>1, <2>2, Recording
<1>2. Fits(g) BY <1>0, <1>1 DEF Fits, Noted, Shaped, Events
<1>3. Objects(s, g)
  <2>1. Grown(h, g) BY <1>1 DEF Grown, Noted
  <2>2. QED BY <1>1, <2>1, ObjectsStep DEF Midway, Noted
<1>4. Counts(g)
  <2>1. /\ Count(g.events, "Applied") = Count(h.events, "Applied")
        /\ Count(g.events, "Deleted") = Count(h.events, "Deleted")
        /\ Count(g.events, "Patched") = Count(h.events, "Patched")
    BY <1>1 DEF Noted
  <2>2. QED BY <1>1, <2>1 DEF Noted, Midway, Counts
<1>5. QED BY <1>1, <1>2, <1>3, <1>4 DEF Midway, Noted, Reverts

-----------------------------------------------------------------------------
\* The reconcilers and their invocations.

LEMMA InAll ==
    /\ RangeOf(All) = RangeOf(reconcilers) \cup RangeOf(patchReconcilers) \cup RangeOf(statusReconcilers)
    /\ Len(reconcilers) \in Nat /\ Len(patchReconcilers) \in Nat /\ Len(statusReconcilers) \in Nat
    /\ DOMAIN reconcilers = 1 .. Len(reconcilers) /\ DOMAIN patchReconcilers = 1 .. Len(patchReconcilers)
    /\ DOMAIN statusReconcilers = 1 .. Len(statusReconcilers)
<1> DEFINE S == RangeOf(reconcilers) \cup RangeOf(patchReconcilers) \cup RangeOf(statusReconcilers)
           a == reconcilers
           b == patchReconcilers
           c == statusReconcilers
<1>1. a \in Seq(S) /\ b \in Seq(S) /\ c \in Seq(S)
  <2>1. a \in Seq(RangeOf(a)) /\ b \in Seq(RangeOf(b)) /\ c \in Seq(RangeOf(c)) BY HarnessAssumption
  <2>2. RangeOf(a) \subseteq S /\ RangeOf(b) \subseteq S /\ RangeOf(c) \subseteq S OBVIOUS
  <2> HIDE DEF a, b, c, S
  <2>3. QED BY <2>1, <2>2
<1>2. All = a \o b \o c BY DEF All
<1> HIDE DEF a, b, c, S
<1>3. ASSUME NEW d \in Seq(S), NEW e \in Seq(S) PROVE d \o e \in Seq(S) /\ RangeOf(d \o e) = RangeOf(d) \cup RangeOf(e)
  <2>1. Len(d) \in Nat /\ Len(e) \in Nat /\ DOMAIN d = 1 .. Len(d) /\ DOMAIN e = 1 .. Len(e) OBVIOUS
  <2>2. DOMAIN (d \o e) = 1 .. (Len(d) + Len(e)) /\ d \o e \in Seq(S) OBVIOUS
  <2>3. \A i \in 1 .. Len(d) : (d \o e)[i] = d[i] OBVIOUS
  <2>4. \A i \in 1 .. Len(e) : (d \o e)[Len(d) + i] = e[i] OBVIOUS
  <2>5. ASSUME NEW y \in RangeOf(d \o e) PROVE y \in RangeOf(d) \cup RangeOf(e)
    <3>1. PICK i \in 1 .. (Len(d) + Len(e)) : y = (d \o e)[i] BY <2>2 DEF RangeOf
    <3>2. CASE i <= Len(d)
      <4>1. i \in 1 .. Len(d) BY <2>1, <3>2
      <4>2. QED BY <2>1, <2>3, <3>1, <4>1 DEF RangeOf
    <3>3. CASE i > Len(d)
      <4>1. i - Len(d) \in 1 .. Len(e) /\ Len(d) + (i - Len(d)) = i BY <2>1, <3>3
      <4>2. y = e[i - Len(d)] BY <2>4, <3>1, <4>1
      <4>3. QED BY <2>1, <4>1, <4>2 DEF RangeOf
    <3>4. QED BY <2>1, <3>2, <3>3
  <2>6. ASSUME NEW y \in RangeOf(d) PROVE y \in RangeOf(d \o e)
    <3>1. PICK i \in 1 .. Len(d) : y = d[i] BY <2>1, <2>6 DEF RangeOf
    <3>2. i \in 1 .. (Len(d) + Len(e)) BY <2>1
    <3>3. QED BY <2>2, <2>3, <3>1, <3>2 DEF RangeOf
  <2>7. ASSUME NEW y \in RangeOf(e) PROVE y \in RangeOf(d \o e)
    <3>1. PICK i \in 1 .. Len(e) : y = e[i] BY <2>1, <2>7 DEF RangeOf
    <3>2. Len(d) + i \in 1 .. (Len(d) + Len(e)) BY <2>1
    <3>3. QED BY <2>2, <2>4, <3>1, <3>2 DEF RangeOf
  <2>8. QED BY <2>2, <2>5, <2>6, <2>7
<1>4. RangeOf(a \o b \o c) = RangeOf(a) \cup RangeOf(b) \cup RangeOf(c)
  <2>1. b \o c \in Seq(S) /\ RangeOf(b \o c) = RangeOf(b) \cup RangeOf(c) BY <1>1, <1>3
  <2>2. a \o b \in Seq(S) /\ RangeOf(a \o b) = RangeOf(a) \cup RangeOf(b) BY <1>1, <1>3
  <2>3. RangeOf((a \o b) \o c) = RangeOf(a \o b) \cup RangeOf(c) BY <1>1, <1>3, <2>2
  <2>4. QED BY <2>2, <2>3
<1>5. QED BY <1>1, <1>2, <1>4 DEF a, b, c

LEMMA OneByID ==
    ASSUME NEW r \in RangeOf(All), NEW q \in RangeOf(All), r.id = q.id
    PROVE  r = q
BY HarnessAssumption DEF RangeOf

\* A reference names one invocation.
LEMMA OneByRef ==
    ASSUME NEW r \in RangeOf(All), NEW q \in RangeOf(All), NEW k \in KeysOf(r), NEW key \in KeysOf(q),
           Ref(r, k) = Ref(q, key)
    PROVE  r = q /\ k = key
<1>1. r = q BY OneByID DEF Ref
<1>2. k \in Keys /\ key \in Keys /\ k.gvk = key.gvk BY <1>1 DEF KeysOf
<1>3. k.ns = key.ns /\ k.name = key.name BY DEF Ref, NN
<1>4. k = [gvk |-> k.gvk, ns |-> k.ns, name |-> k.name] BY <1>2, HarnessAssumption
<1>5. key = [gvk |-> key.gvk, ns |-> key.ns, name |-> key.name] BY <1>2, HarnessAssumption
<1>6. QED BY <1>1, <1>2, <1>3, <1>4, <1>5

LEMMA OwnKey ==
    ASSUME NEW r, NEW k \in KeysOf(r)
    PROVE  KeyFor(r, NN(k)) = k
BY HarnessAssumption DEF KeysOf, KeyFor, NN

LEMMA RefIn ==
    ASSUME NEW r \in RangeOf(All), NEW k \in KeysOf(r)
    PROVE  Ref(r, k) \in Refs
BY DEF Refs

-----------------------------------------------------------------------------
\* The records that a run keeps.

\* An output reconciler is neither of the other two.
LEMMA KindsDiffer ==
    ASSUME NEW r \in RangeOf(reconcilers), NEW q \in RangeOf(patchReconcilers) \cup RangeOf(statusReconcilers)
    PROVE  r.id # q.id
<1> DEFINE a == reconcilers
           d == patchReconcilers \o statusReconcilers
           S == RangeOf(All)
<1>1. a \in Seq(S) /\ patchReconcilers \in Seq(S) /\ statusReconcilers \in Seq(S)
  <2>1. /\ reconcilers \in Seq(RangeOf(reconcilers)) /\ patchReconcilers \in Seq(RangeOf(patchReconcilers))
        /\ statusReconcilers \in Seq(RangeOf(statusReconcilers))
    BY HarnessAssumption
  <2>2. RangeOf(reconcilers) \subseteq S /\ RangeOf(patchReconcilers) \subseteq S /\ RangeOf(statusReconcilers) \subseteq S
    BY InAll
  <2> HIDE DEF S
  <2>3. QED BY <2>1, <2>2
<1> HIDE DEF S
<1>2. d \in Seq(S) /\ Len(a) \in Nat /\ Len(d) \in Nat BY <1>1
<1>3. All = a \o d BY <1>1 DEF All
<1>4. PICK i \in 1 .. Len(a) : r = a[i] BY <1>1 DEF RangeOf
<1>5. PICK j \in 1 .. Len(d) : q = d[j]
  <2>1. /\ Len(patchReconcilers) \in Nat /\ Len(statusReconcilers) \in Nat
        /\ Len(d) = Len(patchReconcilers) + Len(statusReconcilers)
    BY <1>1
  <2>2. CASE q \in RangeOf(patchReconcilers)
    <3>1. PICK n \in 1 .. Len(patchReconcilers) : q = patchReconcilers[n] BY <1>1, <2>2 DEF RangeOf
    <3>2. n \in 1 .. Len(d) /\ d[n] = q BY <1>1, <2>1, <3>1
    <3>3. QED BY <3>2
  <2>3. CASE q \in RangeOf(statusReconcilers)
    <3>1. PICK n \in 1 .. Len(statusReconcilers) : q = statusReconcilers[n] BY <1>1, <2>3 DEF RangeOf
    <3>2. Len(patchReconcilers) + n \in 1 .. Len(d) /\ d[Len(patchReconcilers) + n] = q BY <1>1, <2>1, <3>1
    <3>3. QED BY <3>2
  <2>4. QED BY <2>2, <2>3
<1> HIDE DEF a, d
<1>6. i \in DOMAIN All /\ All[i] = r BY <1>2, <1>3, <1>4
<1>7. Len(a) + j \in DOMAIN All /\ All[Len(a) + j] = q BY <1>2, <1>3, <1>5
<1>8. i # Len(a) + j BY <1>2
<1>9. QED BY <1>6, <1>7, <1>8, HarnessAssumption

\* One invocation's entry of a record has changed.
Elsewhere(f, g, ref) == \A q \in Refs : q # ref => g[q] = f[q]

\* A run of an output reconciler has replaced its record and its dependencies.
LEMMA OutputFollowed ==
    ASSUME NEW m, Followed(m), NEW r \in RangeOf(reconcilers), NEW key \in KeysOf(r),
           NEW n, n.lastOutputs[Ref(r, key)] \subseteq n.deps[Ref(r, key)].narrow,
           Elsewhere(m.lastOutputs, n.lastOutputs, Ref(r, key)), Elsewhere(m.deps, n.deps, Ref(r, key))
    PROVE  Followed(n)
<1>1. ASSUME NEW q \in Refs PROVE n.lastOutputs[q] \subseteq n.deps[q].narrow
  <2>1. CASE q = Ref(r, key) BY <2>1
  <2>2. CASE q # Ref(r, key)
    <3>1. n.lastOutputs[q] = m.lastOutputs[q] /\ n.deps[q] = m.deps[q] BY <2>2 DEF Elsewhere
    <3>2. QED BY <3>1 DEF Followed
  <2>3. QED BY <2>1, <2>2
<1>2. ASSUME NEW q \in RangeOf(patchReconcilers) \cup RangeOf(statusReconcilers), NEW k \in KeysOf(q)
      PROVE  n.lastOutputs[Ref(q, k)] = {}
  <2>1. Ref(q, k) # Ref(r, key) BY KindsDiffer DEF Ref
  <2>2. Ref(q, k) \in Refs BY InAll, RefIn
  <2>3. n.lastOutputs[Ref(q, k)] = m.lastOutputs[Ref(q, k)] BY <2>1, <2>2 DEF Elsewhere
  <2>4. QED BY <2>3 DEF Followed
<1>3. QED BY <1>1, <1>2 DEF Followed

\* A run of another one has replaced its dependencies.
LEMMA OtherFollowed ==
    ASSUME NEW m, Followed(m), NEW r \in RangeOf(patchReconcilers) \cup RangeOf(statusReconcilers),
           NEW key \in KeysOf(r), NEW n, n.lastOutputs = m.lastOutputs, Elsewhere(m.deps, n.deps, Ref(r, key))
    PROVE  Followed(n)
<1>1. ASSUME NEW q \in Refs PROVE n.lastOutputs[q] \subseteq n.deps[q].narrow
  <2>1. CASE q = Ref(r, key)
    <3>1. n.lastOutputs[q] = {} BY <2>1 DEF Followed
    <3>2. QED BY <3>1
  <2>2. CASE q # Ref(r, key)
    <3>1. n.deps[q] = m.deps[q] BY <2>2 DEF Elsewhere
    <3>2. QED BY <3>1 DEF Followed
  <2>3. QED BY <2>1, <2>2
<1>2. QED BY <1>1 DEF Followed

\* What the reads of a run declare.
Declared(h, r, key) ==
    LET p     == Get(h.store, key)
        reads == IF Accepts(r, p) THEN Reads(r, p) ELSE {}
    IN  [narrow |-> narrowDeps(reads), broad |-> broadDeps(reads)]

LEMMA SettingDeps ==
    ASSUME NEW s, NEW h, Midway(s, h), FunctionsFit, NEW r \in RangeOf(All), NEW key \in KeysOf(r),
           Get(h.store, key) # None, NEW g, g = SetDeps(h, r, key)
    PROVE  /\ Midway(s, g) /\ \A k : Get(g.store, k) = Get(h.store, k)
           /\ g.manager.lastOutputs = h.manager.lastOutputs /\ g.manager.lastPatches = h.manager.lastPatches
           /\ g.contributed = h.contributed
           /\ g.manager.deps[Ref(r, key)] = Declared(h, r, key)
           /\ Elsewhere(h.manager.deps, g.manager.deps, Ref(r, key))
<1> DEFINE p     == Get(h.store, key)
           reads == IF Accepts(r, p) THEN Reads(r, p) ELSE {}
           dep   == [narrow |-> narrowDeps(reads), broad |-> broadDeps(reads)]
           ref   == Ref(r, key)
           m     == [h.manager EXCEPT !.deps = [h.manager.deps EXCEPT ![ref] = dep]]
<1>1. Fits(h) /\ ManagerFits(h.manager) /\ Others(h.manager) BY ManagerIsFit DEF Midway
<1>2. IsObject(p) /\ p.key \in KeysOf(r) BY <1>1 DEF Get, Fits
<1>3. narrowDeps(reads) \subseteq Keys
  <2>1. CASE Accepts(r, p) BY <1>2, <2>1 DEF FunctionsFit
  <2>2. CASE ~Accepts(r, p) BY <2>2 DEF narrowDeps
  <2>3. QED BY <2>1, <2>2
<1>4. dep = [narrow |-> dep.narrow, broad |-> dep.broad] /\ dep.narrow \subseteq Keys BY <1>3
<1>5. ref \in Refs BY RefIn
<1>6. g = [h EXCEPT !.manager = m] BY <1>1 DEF SetDeps, Fits, ManagerFits
<1>12. dep = Declared(h, r, key) BY DEF Declared
<1> HIDE DEF p, reads, dep
<1>13. ref = Ref(r, key) OBVIOUS
<1> HIDE DEF ref
<1>7. /\ m.lastOutputs = h.manager.lastOutputs /\ m.lastPatches = h.manager.lastPatches
      /\ m.deps = [h.manager.deps EXCEPT ![ref] = dep]
      /\ m = [lastOutputs |-> m.lastOutputs, lastPatches |-> m.lastPatches, deps |-> m.deps]
  BY <1>1 DEF ManagerFits
<1> HIDE DEF m
<1>8. ManagerFits(m) BY <1>1, <1>4, <1>5, <1>7 DEF ManagerFits
<1>9. Others(m) BY <1>1, <1>7 DEF Others
<1>10. Midway(s, g) /\ (\A k : Get(g.store, k) = Get(h.store, k)) /\ g.manager = m /\ g.contributed = h.contributed
  BY <1>6, <1>8, <1>9, Managing
<1>11. m.deps[ref] = dep BY <1>1, <1>5, <1>7 DEF ManagerFits
<1>14. Elsewhere(h.manager.deps, m.deps, ref) BY <1>1, <1>7 DEF ManagerFits, Elsewhere
<1>15. QED BY <1>7, <1>10, <1>11, <1>12, <1>13, <1>14

LEMMA AppendingNarrow ==
    ASSUME NEW s, NEW h, Midway(s, h), NEW r \in RangeOf(All), NEW key \in KeysOf(r),
           NEW keys \in SUBSET Keys, NEW g, g = AppendNarrow(h, r, key, keys)
    PROVE  /\ Midway(s, g) /\ \A k : Get(g.store, k) = Get(h.store, k)
           /\ g.manager.lastOutputs = h.manager.lastOutputs /\ g.manager.lastPatches = h.manager.lastPatches
           /\ g.contributed = h.contributed
           /\ g.manager.deps[Ref(r, key)].narrow = h.manager.deps[Ref(r, key)].narrow \cup keys
           /\ g.manager.deps[Ref(r, key)].broad = h.manager.deps[Ref(r, key)].broad
           /\ Elsewhere(h.manager.deps, g.manager.deps, Ref(r, key))
<1> DEFINE ref == Ref(r, key)
           dep == [h.manager.deps[ref] EXCEPT !.narrow = h.manager.deps[ref].narrow \cup keys]
           m   == [h.manager EXCEPT !.deps = [h.manager.deps EXCEPT ![ref] = dep]]
<1>1. Fits(h) /\ ManagerFits(h.manager) /\ Others(h.manager) BY ManagerIsFit DEF Midway
<1>5. ref \in Refs BY RefIn
<1>6. g = [h EXCEPT !.manager = m] BY <1>1 DEF AppendNarrow, Fits, ManagerFits
<1>13. ref = Ref(r, key) OBVIOUS
<1> HIDE DEF ref
<1> DEFINE old == h.manager.deps[ref]
<1>2. old = [narrow |-> old.narrow, broad |-> old.broad] /\ old.narrow \subseteq Keys
  BY <1>1, <1>5 DEF ManagerFits
<1> HIDE DEF old
<1>3. dep = [narrow |-> old.narrow \cup keys, broad |-> old.broad] BY <1>2 DEF old
<1>4. dep = [narrow |-> dep.narrow, broad |-> dep.broad] /\ dep.narrow \subseteq Keys BY <1>2, <1>3
<1>9. dep.narrow = old.narrow \cup keys /\ dep.broad = old.broad BY <1>3
<1>12. dep.narrow = h.manager.deps[ref].narrow \cup keys /\ dep.broad = h.manager.deps[ref].broad
  BY ONLY <1>9 DEF old
<1> HIDE DEF dep
<1>7. /\ m.lastOutputs = h.manager.lastOutputs /\ m.lastPatches = h.manager.lastPatches
      /\ m.deps = [h.manager.deps EXCEPT ![ref] = dep]
      /\ m = [lastOutputs |-> m.lastOutputs, lastPatches |-> m.lastPatches, deps |-> m.deps]
  BY <1>1 DEF ManagerFits
<1> HIDE DEF m
<1>8. ManagerFits(m) BY <1>1, <1>4, <1>5, <1>7 DEF ManagerFits
<1>15. Others(m) BY <1>1, <1>7 DEF Others
<1>10. Midway(s, g) /\ (\A k : Get(g.store, k) = Get(h.store, k)) /\ g.manager = m /\ g.contributed = h.contributed
  BY <1>6, <1>8, <1>15, Managing
<1>11. m.deps[ref] = dep BY <1>1, <1>5, <1>7 DEF ManagerFits
<1>14. Elsewhere(h.manager.deps, m.deps, ref) BY <1>1, <1>7 DEF ManagerFits, Elsewhere
<1>16. QED BY <1>7, <1>10, <1>11, <1>12, <1>13, <1>14

NoteOutputs(h, r, key, want) == [h EXCEPT !.manager.lastOutputs[Ref(r, key)] = want]
NotePatches(h, r, key, want) == [h EXCEPT !.manager.lastPatches[Ref(r, key)] = want]

LEMMA NotingOutputs ==
    ASSUME NEW s, NEW h, Midway(s, h), NEW r \in RangeOf(All), NEW key \in KeysOf(r),
           NEW want \in SUBSET Keys, key \notin want,
           NEW g, g = NoteOutputs(h, r, key, want)
    PROVE  /\ Midway(s, g) /\ \A k : Get(g.store, k) = Get(h.store, k)
           /\ g.manager.lastPatches = h.manager.lastPatches /\ g.manager.deps = h.manager.deps
           /\ g.manager.lastOutputs[Ref(r, key)] = want
           /\ Elsewhere(h.manager.lastOutputs, g.manager.lastOutputs, Ref(r, key))
           /\ g.contributed = h.contributed
<1> DEFINE ref == Ref(r, key)
           m   == [h.manager EXCEPT !.lastOutputs = [h.manager.lastOutputs EXCEPT ![ref] = want]]
<1>1. Fits(h) /\ ManagerFits(h.manager) /\ Others(h.manager) BY ManagerIsFit DEF Midway
<1>5. ref \in Refs BY RefIn
<1>6. g = [h EXCEPT !.manager = m] BY <1>1 DEF Fits, ManagerFits, NoteOutputs
<1>7. /\ m.deps = h.manager.deps /\ m.lastPatches = h.manager.lastPatches
      /\ m.lastOutputs = [h.manager.lastOutputs EXCEPT ![ref] = want]
      /\ m = [lastOutputs |-> m.lastOutputs, lastPatches |-> m.lastPatches, deps |-> m.deps]
  <2> HIDE DEF ref
  <2> QED BY <1>1 DEF ManagerFits
<1> HIDE DEF m
<1>8. ManagerFits(m)
  <2> HIDE DEF ref
  <2> QED BY <1>1, <1>5, <1>7 DEF ManagerFits
<1>9. ASSUME NEW q \in RangeOf(reconcilers), NEW k \in KeysOf(q) PROVE k \notin m.lastOutputs[Ref(q, k)]
  <2>1. q \in RangeOf(All) BY InAll
  <2>2. CASE Ref(q, k) = Ref(r, key)
    <3>1. k = key BY <2>1, <2>2, OneByRef
    <3>2. m.lastOutputs[ref] = want BY <1>1, <1>5, <1>7 DEF ManagerFits
    <3>3. QED BY <2>2, <3>1, <3>2
  <2>3. CASE Ref(q, k) # Ref(r, key)
    <3>1. Ref(q, k) \in Refs BY <2>1, RefIn
    <3>2. m.lastOutputs[Ref(q, k)] = h.manager.lastOutputs[Ref(q, k)] BY <1>1, <1>7, <2>3, <3>1 DEF ManagerFits
    <3>3. QED BY <1>1, <3>2 DEF Others
  <2>4. QED BY <2>2, <2>3
<1>10. Others(m) BY <1>9 DEF Others
<1>11. Midway(s, g) /\ (\A k : Get(g.store, k) = Get(h.store, k)) /\ g.manager = m /\ g.contributed = h.contributed
  BY ONLY Midway(s, h), <1>6, <1>8, <1>10, Managing
<1>12. m.lastOutputs[ref] = want BY <1>1, <1>5, <1>7 DEF ManagerFits
<1>13. Elsewhere(h.manager.lastOutputs, m.lastOutputs, ref)
  <2> HIDE DEF ref
  <2> QED BY <1>1, <1>7 DEF ManagerFits, Elsewhere
<1>14. QED BY <1>7, <1>11, <1>12, <1>13

LEMMA NotingPatches ==
    ASSUME NEW s, NEW h, Midway(s, h), NEW r \in RangeOf(All), NEW key \in KeysOf(r),
           NEW want \in SUBSET Keys, NEW g, g = NotePatches(h, r, key, want)
    PROVE  /\ Midway(s, g) /\ \A k : Get(g.store, k) = Get(h.store, k)
           /\ g.manager.lastOutputs = h.manager.lastOutputs /\ g.manager.deps = h.manager.deps
           /\ g.manager.lastPatches = [h.manager.lastPatches EXCEPT ![Ref(r, key)] = want]
           /\ g.contributed = h.contributed
<1> DEFINE ref == Ref(r, key)
           m   == [h.manager EXCEPT !.lastPatches = [h.manager.lastPatches EXCEPT ![ref] = want]]
<1>1. Fits(h) /\ ManagerFits(h.manager) /\ Others(h.manager) BY ManagerIsFit DEF Midway
<1>5. ref \in Refs BY RefIn
<1>6. g = [h EXCEPT !.manager = m] BY <1>1 DEF Fits, ManagerFits, NotePatches
<1>7. /\ m.deps = h.manager.deps /\ m.lastOutputs = h.manager.lastOutputs
      /\ m.lastPatches = [h.manager.lastPatches EXCEPT ![ref] = want]
      /\ m = [lastOutputs |-> m.lastOutputs, lastPatches |-> m.lastPatches, deps |-> m.deps]
  <2> HIDE DEF ref
  <2> QED BY <1>1 DEF ManagerFits
<1> HIDE DEF m
<1>8. ManagerFits(m)
  <2> HIDE DEF ref
  <2> QED BY <1>1, <1>5, <1>7 DEF ManagerFits
<1>9. Others(m) BY <1>1, <1>7 DEF Others
<1>10. Midway(s, g) /\ (\A k : Get(g.store, k) = Get(h.store, k)) /\ g.manager = m /\ g.contributed = h.contributed
  BY ONLY Midway(s, h), <1>6, <1>8, <1>9, Managing
<1>11. QED BY <1>7, <1>10

\* What the function makes fits in the store.
LEMMA Making ==
    ASSUME NEW h, Fits(h), FunctionsFit, NEW r \in RangeOf(reconcilers) \cup RangeOf(patchReconcilers),
           NEW key \in KeysOf(r), Get(h.store, key) # None, NEW outputs, outputs = Results(h, r, key)
    PROVE  /\ Len(outputs) \in Nat /\ DOMAIN outputs = 1 .. Len(outputs)
           /\ \A i \in DOMAIN outputs :
                 IsObject(outputs[i]) /\ (r \in RangeOf(reconcilers) => outputs[i].key # key)
<1>1. /\ outputs \in Seq(RangeOf(outputs))
      /\ \A o \in RangeOf(outputs) : IsObject(o) /\ (r \in RangeOf(reconcilers) => o.key # key)
  BY DEF FunctionsFit
<1>2. \A i \in DOMAIN outputs : outputs[i] \in RangeOf(outputs) BY DEF RangeOf
<1>3. Len(outputs) \in Nat /\ DOMAIN outputs = 1 .. Len(outputs) BY <1>1
<1>4. QED BY <1>1, <1>2, <1>3

-----------------------------------------------------------------------------
\* The loops of a run, each with what stays the same during it.

\* A finite set in some order, each element once.
LEMMA InSomeOrder ==
    ASSUME NEW S, IsFiniteSet(S), NEW q, q = SetToSeq(S)
    PROVE  /\ Len(q) \in Nat /\ DOMAIN q = 1 .. Len(q)
           /\ \A i \in 1 .. Len(q) : q[i] \in S
           /\ \A i, j \in 1 .. Len(q) : i # j => q[i] # q[j]
           /\ \A x \in S : \E i \in 1 .. Len(q) : q[i] = x
<1> DEFINE n == Cardinality(S)
<1>1. n \in Nat /\ ExistsBijection(1 .. n, S) BY FS_CardinalityType
<1>2. \E f \in [1 .. n -> S] : IsInjective(f) BY <1>1 DEF ExistsBijection, Bijection, Injection
<1>3. q \in [1 .. n -> S] /\ IsInjective(q) BY <1>2 DEF SetToSeq
<1> HIDE DEF n
<1>4. q \in Seq(S) BY <1>1, <1>3
<1>5. Len(q) = n /\ DOMAIN q = 1 .. n BY <1>1, <1>3, <1>4
<1>6. ASSUME NEW x \in S, \A i \in 1 .. n : q[i] # x PROVE FALSE
  <2>1. q \in [1 .. n -> S \ {x}] BY <1>3, <1>6
  <2>2. IsFiniteSet(S \ {x}) /\ Cardinality(S \ {x}) = n - 1 BY FS_RemoveElement DEF n
  <2>3. IsFiniteSet(1 .. n) /\ Cardinality(1 .. n) = n BY <1>1, FS_Interval
  <2>4. Cardinality(S \ {x}) < Cardinality(1 .. n) BY <1>1, <2>2, <2>3
  <2>5. \E i, j \in 1 .. n : i # j /\ q[i] = q[j]
    <3>1. PICK T, I : T = S \ {x} /\ I = 1 .. n OBVIOUS
    <3>2. /\ IsFiniteSet(T) /\ IsFiniteSet(I) /\ Cardinality(T) < Cardinality(I) /\ q \in [I -> T]
      BY <2>1, <2>2, <2>3, <2>4, <3>1
    <3>3. \E i, j \in I : i # j /\ q[i] = q[j] BY ONLY <3>2, FS_PigeonHole
    <3>4. QED BY <3>1, <3>3
  <2>6. QED BY <1>3, <2>5 DEF IsInjective
<1>7. QED BY <1>1, <1>3, <1>5, <1>6 DEF IsInjective

Applies(x, g) ==
    /\ Midway(x.s, g) /\ Get(g.store, x.key) # None
    /\ g.manager = x.h.manager /\ g.contributed = x.h.contributed

Apply1  == INSTANCE Loops WITH Step <- ApplyOne, Inv <- Applies
Delete1 == INSTANCE Loops WITH Step <- DeleteOne, Inv <- Applies
Patch1  == INSTANCE Loops WITH Step <- PatchOne, Inv <- Applies
Revert1 == INSTANCE Loops WITH Step <- Reverted, Inv <- Applies

\* After the first n applies, the last object of each key is there.
Put(h, items, g, n) ==
    /\ \A i \in 1 .. n : (\A j \in (i + 1) .. n : items[j].key # items[i].key)
                         => g.store.objects[items[i].key] = Labelled(items[i])
    /\ \A k \in Keys : (\A i \in 1 .. n : items[i].key # k) => g.store.objects[k] = h.store.objects[k]

LEMMA ApplyLoop ==
    ASSUME NEW s, NEW h, Midway(s, h), NEW key, Get(h.store, key) # None, ~IsObject(None),
           NEW items, Len(items) \in Nat, \A i \in 1 .. Len(items) : IsObject(items[i]),
           NEW g, g = Apply1!Loop(key, h, items)
    PROVE  /\ Midway(s, g) /\ Get(g.store, key) # None
           /\ g.manager = h.manager /\ g.contributed = h.contributed
           /\ Put(h, items, g, Len(items))
<1> DEFINE N == Len(items)
           x == [s |-> s, key |-> key, h |-> h]
           Upto(f, n) == Applies(x, f) /\ Put(h, items, f, n)
<1>1. x.s = s /\ x.key = key /\ x.h = h OBVIOUS
<1> HIDE DEF x
<1>2. PICK f : /\ f[0] = h
               /\ \A n \in 1 .. N : f[n] = ApplyOne(key, f[n - 1], items[n])
               /\ Apply1!Loop(key, h, items) = f[N]
  BY Apply1!Unfolds
<1> DEFINE T == {n \in 0 .. N : Upto(f[n], n)}
<1>3. 0 \in T
  <2>1. Applies(x, f[0]) BY <1>1, <1>2 DEF Applies
  <2>2. Put(h, items, f[0], 0) BY <1>2 DEF Put
  <2>3. QED BY <2>1, <2>2
<1>4. ASSUME NEW n \in 1 .. N, n - 1 \in T PROVE n \in T
  <2>1. Applies(x, f[n - 1]) /\ Put(h, items, f[n - 1], n - 1) /\ n \in 0 .. N BY <1>4
  <2>2. f[n] = ApplyOne(key, f[n - 1], items[n]) /\ IsObject(items[n]) BY <1>2
  <2>3. /\ Applies(x, f[n])
        /\ \A k \in Keys : f[n].store.objects[k] = IF k = items[n].key THEN Labelled(items[n])
                                                    ELSE f[n - 1].store.objects[k]
    <3>1. PICK e : e = f[n - 1] OBVIOUS
    <3>2. Midway(s, e) /\ Get(e.store, key) # None /\ e.manager = h.manager /\ e.contributed = h.contributed
      BY <1>1, <2>1, <3>1 DEF Applies
    <3>3. PICK d : d = ApplyOne(key, e, items[n]) OBVIOUS
    <3>4. /\ Midway(s, d) /\ Get(d.store, key) # None /\ d.manager = e.manager /\ d.contributed = e.contributed
          /\ \A k \in Keys : d.store.objects[k] = IF k = items[n].key THEN Labelled(items[n]) ELSE e.store.objects[k]
      <4>1. PICK o : o = items[n] OBVIOUS
      <4>2. IsObject(o) /\ ~IsObject(None) /\ d = ApplyOne(key, e, o) BY <2>2, <3>3, <4>1
      <4>3. /\ Midway(s, d) /\ Get(d.store, key) # None /\ d.manager = e.manager /\ d.contributed = e.contributed
            /\ \A k \in Keys : d.store.objects[k] = IF k = o.key THEN Labelled(o) ELSE e.store.objects[k]
        BY ONLY <3>2, <4>2, Applying
      <4>4. QED BY <4>1, <4>3
    <3>5. QED BY <1>1, <2>2, <3>1, <3>2, <3>3, <3>4 DEF Applies
  <2>4. ASSUME NEW i \in 1 .. n, \A j \in (i + 1) .. n : items[j].key # items[i].key
        PROVE  f[n].store.objects[items[i].key] = Labelled(items[i])
    <3>1. items[i].key \in Keys
      <4>1. i \in 1 .. N OBVIOUS
      <4>2. IsObject(items[i]) BY <4>1
      <4>3. QED BY <4>2 DEF IsObject
    <3>2. CASE i = n BY <2>3, <3>1, <3>2
    <3>3. CASE i # n
      <4>1. i \in 1 .. (n - 1) /\ n \in (i + 1) .. n BY <3>3
      <4>2. items[i].key # items[n].key BY <2>4, <4>1
      <4>3. \A j \in (i + 1) .. (n - 1) : items[j].key # items[i].key BY <2>4
      <4>4. f[n - 1].store.objects[items[i].key] = Labelled(items[i]) BY <2>1, <4>1, <4>3 DEF Put
      <4>5. QED BY <2>3, <3>1, <4>2, <4>4
    <3>4. QED BY <3>2, <3>3
  <2>5. ASSUME NEW k \in Keys, \A i \in 1 .. n : items[i].key # k
        PROVE  f[n].store.objects[k] = h.store.objects[k]
    <3>1. k # items[n].key /\ \A i \in 1 .. (n - 1) : items[i].key # k BY <2>5
    <3>2. f[n - 1].store.objects[k] = h.store.objects[k] BY <2>1, <3>1 DEF Put
    <3>3. QED BY <2>3, <3>1, <3>2
  <2>6. Put(h, items, f[n], n) BY <2>4, <2>5 DEF Put
  <2>7. QED BY <2>1, <2>3, <2>6
<1>5. N \in T
  <2> HIDE DEF T
  <2>1. 0 .. N \subseteq T BY <1>3, <1>4, Apply1!UpTo
  <2>2. QED BY <2>1
<1>6. Applies(x, g) /\ Put(h, items, g, N) BY <1>2, <1>5
<1>7. QED BY <1>1, <1>6 DEF Applies

\* After the first n deletes.
Cut(h, items, g, n) ==
    /\ \A i \in 1 .. n : g.store.objects[items[i]] = None
    /\ \A k \in Keys : (\A i \in 1 .. n : items[i] # k) => g.store.objects[k] = h.store.objects[k]

LEMMA DeleteLoop ==
    ASSUME NEW s, NEW h, Midway(s, h), NEW key, Get(h.store, key) # None,
           NEW items, Len(items) \in Nat, \A i \in 1 .. Len(items) : items[i] \in Keys /\ items[i] # key,
           NEW g, g = Delete1!Loop(key, h, items)
    PROVE  /\ Midway(s, g) /\ Get(g.store, key) # None
           /\ g.manager = h.manager /\ g.contributed = h.contributed
           /\ Cut(h, items, g, Len(items))
<1> DEFINE N == Len(items)
           x == [s |-> s, key |-> key, h |-> h]
           Upto(f, n) == Applies(x, f) /\ Cut(h, items, f, n)
<1>1. x.s = s /\ x.key = key /\ x.h = h OBVIOUS
<1> HIDE DEF x
<1>2. PICK f : /\ f[0] = h
               /\ \A n \in 1 .. N : f[n] = DeleteOne(key, f[n - 1], items[n])
               /\ Delete1!Loop(key, h, items) = f[N]
  BY Delete1!Unfolds
<1> DEFINE T == {n \in 0 .. N : Upto(f[n], n)}
<1>3. 0 \in T
  <2>1. Applies(x, f[0]) BY <1>1, <1>2 DEF Applies
  <2>2. Cut(h, items, f[0], 0) BY <1>2 DEF Cut
  <2>3. QED BY <2>1, <2>2
<1>4. ASSUME NEW n \in 1 .. N, n - 1 \in T PROVE n \in T
  <2>1. Applies(x, f[n - 1]) /\ Cut(h, items, f[n - 1], n - 1) /\ n \in 0 .. N BY <1>4
  <2>2. f[n] = DeleteOne(key, f[n - 1], items[n]) BY <1>2
  <2>3. /\ Applies(x, f[n])
        /\ \A k \in Keys : f[n].store.objects[k] = IF k = items[n] THEN None ELSE f[n - 1].store.objects[k]
    <3>1. PICK e : e = f[n - 1] OBVIOUS
    <3>2. Midway(s, e) /\ Get(e.store, key) # None /\ e.manager = h.manager /\ e.contributed = h.contributed
      BY <1>1, <2>1, <3>1 DEF Applies
    <3>3. PICK d : d = DeleteOne(key, e, items[n]) OBVIOUS
    <3>4. /\ Midway(s, d) /\ Get(d.store, key) # None /\ d.manager = e.manager /\ d.contributed = e.contributed
          /\ \A k \in Keys : d.store.objects[k] = IF k = items[n] THEN None ELSE e.store.objects[k]
      <4>1. PICK o : o = items[n] OBVIOUS
      <4>2. o \in Keys /\ o # key /\ d = DeleteOne(key, e, o) BY <3>3, <4>1
      <4>3. /\ Midway(s, d) /\ Get(d.store, key) # None /\ d.manager = e.manager /\ d.contributed = e.contributed
            /\ \A k \in Keys : d.store.objects[k] = IF k = o THEN None ELSE e.store.objects[k]
        BY ONLY <3>2, <4>2, Removing
      <4>4. QED BY <4>1, <4>3
    <3>5. QED BY <1>1, <2>2, <3>1, <3>2, <3>3, <3>4 DEF Applies
  <2>4. ASSUME NEW i \in 1 .. n PROVE f[n].store.objects[items[i]] = None
    <3>1. items[i] \in Keys OBVIOUS
    <3>2. CASE items[i] = items[n] BY <2>3, <3>1, <3>2
    <3>3. CASE items[i] # items[n]
      <4>1. i \in 1 .. (n - 1) BY <3>3
      <4>2. f[n - 1].store.objects[items[i]] = None BY <2>1, <4>1 DEF Cut
      <4>3. QED BY <2>3, <3>1, <3>3, <4>2
    <3>4. QED BY <3>2, <3>3
  <2>5. ASSUME NEW k \in Keys, \A i \in 1 .. n : items[i] # k
        PROVE  f[n].store.objects[k] = h.store.objects[k]
    <3>1. k # items[n] /\ \A i \in 1 .. (n - 1) : items[i] # k BY <2>5
    <3>2. f[n - 1].store.objects[k] = h.store.objects[k] BY <2>1, <3>1 DEF Cut
    <3>3. QED BY <2>3, <3>1, <3>2
  <2>6. Cut(h, items, f[n], n) BY <2>4, <2>5 DEF Cut
  <2>7. QED BY <2>1, <2>3, <2>6
<1>5. N \in T
  <2> HIDE DEF T
  <2>1. 0 .. N \subseteq T BY <1>3, <1>4, Delete1!UpTo
  <2>2. QED BY <2>1
<1>6. Applies(x, g) /\ Cut(h, items, g, N) BY <1>2, <1>5
<1>7. QED BY <1>1, <1>6 DEF Applies

\* All of the contributions are on record at the end.
OnRecord(ref, items, g) == \A i \in 1 .. Len(items) : Contribution(ref, items[i].key) \in g.contributed

\* After the first n patches, the last contribution to each target is there.
Lent(h, items, g, n) ==
    /\ \A i \in 1 .. n : (\A j \in (i + 1) .. n : items[j].key # items[i].key)
                         => g.store.objects[items[i].key] = items[i]
    /\ \A k \in Keys : (\A i \in 1 .. n : items[i].key # k) => g.store.objects[k] = h.store.objects[k]

LEMMA PatchLoop ==
    ASSUME NEW s, NEW h, Midway(s, h), NEW c, c.ref \in Refs, Get(h.store, c.key) # None, ~IsObject(None),
           NEW items, Len(items) \in Nat, \A i \in 1 .. Len(items) : IsObject(items[i]),
           NEW g, g = Patch1!Loop(c, h, items)
    PROVE  /\ Midway(s, g) /\ Get(g.store, c.key) # None
           /\ g.manager = h.manager
           /\ h.contributed \subseteq g.contributed
           /\ OnRecord(c.ref, items, g)
           /\ Lent(h, items, g, Len(items))
<1> DEFINE N == Len(items)
           Upto(f, n) == /\ Midway(s, f) /\ Get(f.store, c.key) # None /\ f.manager = h.manager
                         /\ h.contributed \subseteq f.contributed
                         /\ \A i \in 1 .. n : Contribution(c.ref, items[i].key) \in f.contributed
                         /\ Lent(h, items, f, n)
<1>1. PICK f : /\ f[0] = h
               /\ \A n \in 1 .. N : f[n] = PatchOne(c, f[n - 1], items[n])
               /\ Patch1!Loop(c, h, items) = f[N]
  BY Patch1!Unfolds
<1> DEFINE T == {n \in 0 .. N : Upto(f[n], n)}
<1>2. 0 \in T
  <2>1. Lent(h, items, f[0], 0) BY <1>1 DEF Lent
  <2>2. QED BY <1>1, <2>1
<1>3. ASSUME NEW n \in 1 .. N, n - 1 \in T PROVE n \in T
  <2>1. Upto(f[n - 1], n - 1) /\ n \in 0 .. N BY <1>3
  <2>2. f[n] = PatchOne(c, f[n - 1], items[n]) BY <1>1
  <2>3. IsObject(items[n]) OBVIOUS
  <2>4. /\ Midway(s, f[n]) /\ Get(f[n].store, c.key) # None /\ f[n].manager = f[n - 1].manager
        /\ f[n].contributed = f[n - 1].contributed \cup {Contribution(c.ref, items[n].key)}
        /\ \A k \in Keys : f[n].store.objects[k] = IF k = items[n].key THEN items[n] ELSE f[n - 1].store.objects[k]
    <3>1. PICK e, d, o : e = f[n - 1] /\ d = f[n] /\ o = items[n] OBVIOUS
    <3>2. Midway(s, e) /\ Get(e.store, c.key) # None BY <2>1, <3>1
    <3>3. IsObject(o) /\ ~IsObject(None) /\ c.ref \in Refs /\ d = PatchOne(c, e, o) BY <2>2, <2>3, <3>1
    <3>4. /\ Midway(s, d) /\ Get(d.store, c.key) # None /\ d.manager = e.manager
          /\ d.contributed = e.contributed \cup {Contribution(c.ref, o.key)}
          /\ \A k \in Keys : d.store.objects[k] = IF k = o.key THEN o ELSE e.store.objects[k]
      BY ONLY <3>2, <3>3, Patching
    <3>5. QED BY <3>1, <3>4
  <2>5. \A i \in 1 .. n : i = n \/ i \in 1 .. (n - 1) OBVIOUS
  <2>6. ASSUME NEW i \in 1 .. n, \A j \in (i + 1) .. n : items[j].key # items[i].key
        PROVE  f[n].store.objects[items[i].key] = items[i]
    <3>1. items[i].key \in Keys
      <4>1. i \in 1 .. N OBVIOUS
      <4>2. IsObject(items[i]) BY <4>1
      <4>3. QED BY <4>2 DEF IsObject
    <3>2. CASE i = n BY <2>4, <3>1, <3>2
    <3>3. CASE i # n
      <4>1. i \in 1 .. (n - 1) /\ n \in (i + 1) .. n BY <3>3
      <4>2. items[i].key # items[n].key BY <2>6, <4>1
      <4>3. \A j \in (i + 1) .. (n - 1) : items[j].key # items[i].key BY <2>6
      <4>4. f[n - 1].store.objects[items[i].key] = items[i] BY <2>1, <4>1, <4>3 DEF Lent
      <4>5. QED BY <2>4, <3>1, <4>2, <4>4
    <3>4. QED BY <3>2, <3>3
  <2>8. ASSUME NEW k \in Keys, \A i \in 1 .. n : items[i].key # k
        PROVE  f[n].store.objects[k] = h.store.objects[k]
    <3>1. k # items[n].key /\ \A i \in 1 .. (n - 1) : items[i].key # k BY <2>8
    <3>2. f[n - 1].store.objects[k] = h.store.objects[k] BY <2>1, <3>1 DEF Lent
    <3>3. QED BY <2>4, <3>1, <3>2
  <2>9. Lent(h, items, f[n], n) BY <2>6, <2>8 DEF Lent
  <2>10. Upto(f[n], n) BY <2>1, <2>4, <2>5, <2>9
  <2>11. QED BY <2>1, <2>10
<1>4. N \in T
  <2>1. N \in Nat OBVIOUS
  <2> HIDE DEF T, N
  <2>2. 0 .. N \subseteq T BY <1>2, <1>3, <2>1, Patch1!UpTo
  <2>3. QED BY <2>1, <2>2
<1>5. Upto(g, N) BY <1>1, <1>4
<1>6. QED BY <1>5 DEF OnRecord

\* Each contribution is taken back once.
LEMMA RevertLoop ==
    ASSUME NEW s, NEW h, Midway(s, h), NEW ref, NEW S, IsFiniteSet(S),
           \A k \in S : Contribution(ref, k) \in h.contributed,
           NEW g, g = Revert1!Loop(ref, h, SetToSeq(S))
    PROVE  /\ Midway(s, g) /\ \A key : Get(g.store, key) = Get(h.store, key)
           /\ g.manager = h.manager
           /\ g.contributed = h.contributed \ {Contribution(ref, k) : k \in S}
<1> DEFINE items == SetToSeq(S)
           N == Len(items)
           Upto(f, n) == /\ Midway(s, f) /\ f.manager = h.manager
                         /\ \A key : Get(f.store, key) = Get(h.store, key)
                         /\ f.contributed = h.contributed \ {Contribution(ref, items[i]) : i \in 1 .. n}
<1>1. /\ N \in Nat /\ \A i \in 1 .. N : items[i] \in S
      /\ \A i, j \in 1 .. N : i # j => items[i] # items[j]
      /\ \A x \in S : \E i \in 1 .. N : items[i] = x
  BY InSomeOrder
<1> HIDE DEF items
<1>2. PICK f : /\ f[0] = h
               /\ \A n \in 1 .. N : f[n] = Reverted(ref, f[n - 1], items[n])
               /\ Revert1!Loop(ref, h, items) = f[N]
  BY <1>1, Revert1!Unfolds
<1> DEFINE T == {n \in 0 .. N : Upto(f[n], n)}
<1>3. 0 \in T BY <1>1, <1>2
<1>4. ASSUME NEW n \in 1 .. N, n - 1 \in T PROVE n \in T
  <2>1. Upto(f[n - 1], n - 1) /\ n \in 0 .. N BY <1>1, <1>4
  <2>2. f[n] = Reverted(ref, f[n - 1], items[n]) BY <1>2
  <2>3. Contribution(ref, items[n]) \in f[n - 1].contributed
    <3>1. \A i \in 1 .. (n - 1) : i \in 1 .. N /\ i # n BY <1>1
    <3>2. \A i \in 1 .. (n - 1) : Contribution(ref, items[i]) # Contribution(ref, items[n])
      BY <1>1, <3>1 DEF Contribution
    <3>3. Contribution(ref, items[n]) \in h.contributed BY <1>1
    <3>4. QED BY <2>1, <3>2, <3>3
  <2>4. /\ Midway(s, f[n]) /\ \A key : Get(f[n].store, key) = Get(f[n - 1].store, key)
        /\ f[n].manager = f[n - 1].manager
        /\ f[n].contributed = f[n - 1].contributed \ {Contribution(ref, items[n])}
    BY <2>1, <2>2, <2>3, Reverting
  <2>5. \A i : i \in 1 .. n <=> i = n \/ i \in 1 .. (n - 1) BY <1>1
  <2>6. Upto(f[n], n) BY <2>1, <2>4, <2>5
  <2>7. QED BY <2>1, <2>6
<1>5. N \in T
  <2> HIDE DEF T, N
  <2>2. 0 .. N \subseteq T BY <1>1, <1>3, <1>4, Revert1!UpTo
  <2>3. QED BY <1>1, <2>2
<1>6. Upto(g, N) BY <1>2, <1>5 DEF items
<1>7. QED BY <1>1, <1>6

-----------------------------------------------------------------------------
\* The runs.

\* What is common to the runs of output and patch reconcilers.
LEMMA Starting ==
    ASSUME NEW s, NEW h, Midway(s, h), FunctionsFit,
           NEW r \in RangeOf(reconcilers) \cup RangeOf(patchReconcilers),
           NEW key, key.gvk = r.primary, ~Skips(h, r, key),
           NEW started, started = SetDeps(WithFinalizer(h, r, key), r, key),
           NEW outputs, outputs = Results(WithFinalizer(h, r, key), r, key)
    PROVE  /\ r \in RangeOf(All) /\ key \in KeysOf(r)
           /\ Midway(s, started) /\ Get(started.store, key) # None
           /\ started.manager.lastOutputs = h.manager.lastOutputs
           /\ started.manager.lastPatches = h.manager.lastPatches
           /\ started.contributed = h.contributed
           /\ started.manager.deps[Ref(r, key)] = Declared(WithFinalizer(h, r, key), r, key)
           /\ Elsewhere(h.manager.deps, started.manager.deps, Ref(r, key))
           /\ \A k \in Keys : k # key => Get(started.store, k) = Get(h.store, k)
           /\ Len(outputs) \in Nat /\ DOMAIN outputs = 1 .. Len(outputs)
           /\ \A i \in 1 .. Len(outputs) :
                 IsObject(outputs[i]) /\ (r \in RangeOf(reconcilers) => outputs[i].key # key)
           /\ {outputs[i].key : i \in DOMAIN outputs} \in SUBSET Keys
<1>1. Get(h.store, key) # None BY DEF Skips
<1>2. r \in RangeOf(All) /\ key \in KeysOf(r) BY <1>1, InAll DEF Get, KeysOf
<1>3. PICK f : f = WithFinalizer(h, r, key) OBVIOUS
<1>4. ~IsObject(None) BY DEF FunctionsFit
<1>5. /\ Midway(s, f) /\ Get(f.store, key) # None /\ f.manager = h.manager /\ f.contributed = h.contributed
      /\ \A k \in Keys : k # key => f.store.objects[k] = h.store.objects[k]
  BY <1>1, <1>2, <1>3, <1>4, Finalizing
<1>6. started = SetDeps(f, r, key) /\ outputs = Results(f, r, key) BY <1>3
<1>7. /\ Midway(s, started) /\ \A k : Get(started.store, k) = Get(f.store, k)
      /\ started.manager.lastOutputs = f.manager.lastOutputs /\ started.manager.lastPatches = f.manager.lastPatches
      /\ started.contributed = f.contributed
      /\ started.manager.deps[Ref(r, key)] = Declared(f, r, key)
      /\ Elsewhere(f.manager.deps, started.manager.deps, Ref(r, key))
  BY <1>2, <1>5, <1>6, SettingDeps
<1>8. Fits(f) BY <1>5 DEF Midway
<1>9. /\ Len(outputs) \in Nat /\ DOMAIN outputs = 1 .. Len(outputs)
      /\ \A i \in DOMAIN outputs :
            IsObject(outputs[i]) /\ (r \in RangeOf(reconcilers) => outputs[i].key # key)
  BY <1>2, <1>5, <1>6, <1>8, Making
<1>10. {outputs[i].key : i \in DOMAIN outputs} \in SUBSET Keys BY <1>9 DEF IsObject
<1>11. \A k \in Keys : k # key => Get(started.store, k) = Get(h.store, k) BY <1>5, <1>7 DEF Get
<1>12. QED BY <1>2, <1>3, <1>5, <1>7, <1>9, <1>10, <1>11

\* A run of an output reconciler that does not return early, on an invocation
\* whose primary is there: what the function makes is stored and on record, what
\* it no longer makes is gone, nothing else has changed but the primary.
OutputsMade(h, r, key, g) ==
    LET outputs == Results(WithFinalizer(h, r, key), r, key)
        want    == {outputs[i].key : i \in DOMAIN outputs}
        had     == h.manager.lastOutputs[Ref(r, key)]
    IN  /\ g.manager.lastOutputs[Ref(r, key)] = want
        /\ g.manager.deps[Ref(r, key)].narrow = Declared(WithFinalizer(h, r, key), r, key).narrow \cup want
        /\ g.manager.deps[Ref(r, key)].broad = Declared(WithFinalizer(h, r, key), r, key).broad
        /\ \A i \in DOMAIN outputs :
              (\A j \in DOMAIN outputs : j > i => outputs[j].key # outputs[i].key)
              => Get(g.store, outputs[i].key) = Labelled(outputs[i])
        /\ \A k \in had \ want : Get(g.store, k) = None
        /\ \A k \in Keys \ (had \cup want \cup {key}) : Get(g.store, k) = Get(h.store, k)

LEMMA OutputRun ==
    ASSUME NEW s, NEW h, Call(s, h), FunctionsFit, NEW r \in RangeOf(reconcilers),
           NEW key, key.gvk = r.primary
    PROVE  /\ Call(s, RunOutput(h, r, key))
           /\ ~Skips(h, r, key) => OutputsMade(h, r, key, RunOutput(h, r, key))
<1>0. CASE Skips(h, r, key) BY <1>0 DEF RunOutput
<1>1. CASE ~Skips(h, r, key)
  <2> DEFINE started == SetDeps(WithFinalizer(h, r, key), r, key)
             outputs == Results(WithFinalizer(h, r, key), r, key)
             want    == {outputs[i].key : i \in DOMAIN outputs}
             applied == Each(LAMBDA g, o : ApplyOne(key, g, o), started, outputs)
             added   == AppendNarrow(applied, r, key, want)
             noted   == [added EXCEPT !.manager.lastOutputs[Ref(r, key)] = want]
             stale   == started.manager.lastOutputs[Ref(r, key)] \ want
             last    == Each(LAMBDA g, k : DeleteOne(key, g, k), noted, SetToSeq(stale))
             reads   == Declared(WithFinalizer(h, r, key), r, key)
             ref     == Ref(r, key)
  <2>1. RunOutput(h, r, key) = last BY <1>1 DEF RunOutput, ApplyAll
  <2> HIDE DEF started, outputs
  <2>2. applied = Apply1!Loop(key, started, outputs) BY DEF Each, Apply1!Loop
  <2> HIDE DEF applied, want, added, noted, stale
  <2>3. last = Delete1!Loop(key, noted, SetToSeq(stale)) BY DEF Each, Delete1!Loop
  <2> HIDE DEF last, reads, ref
  <2>4. Midway(s, h) /\ Backed(h) /\ Followed(h.manager) /\ Fits(h) /\ Others(h.manager) BY DEF Call, Midway
  <2>5. /\ r \in RangeOf(All) /\ key \in KeysOf(r)
        /\ Midway(s, started) /\ Get(started.store, key) # None
        /\ started.manager.lastOutputs = h.manager.lastOutputs
        /\ started.manager.lastPatches = h.manager.lastPatches
        /\ started.contributed = h.contributed
        /\ started.manager.deps[ref] = reads
        /\ Elsewhere(h.manager.deps, started.manager.deps, ref)
        /\ \A k \in Keys : k # key => Get(started.store, k) = Get(h.store, k)
        /\ Len(outputs) \in Nat /\ DOMAIN outputs = 1 .. Len(outputs)
        /\ \A i \in 1 .. Len(outputs) :
              IsObject(outputs[i]) /\ (r \in RangeOf(reconcilers) => outputs[i].key # key)
        /\ want \in SUBSET Keys
    BY <1>1, <2>4, Starting DEF started, outputs, want, reads, ref
  <2>30. stale = h.manager.lastOutputs[Ref(r, key)] \ want BY <2>5 DEF stale, ref
  <2>6. /\ Midway(s, applied) /\ Get(applied.store, key) # None
        /\ applied.manager = started.manager /\ applied.contributed = started.contributed
        /\ Put(started, outputs, applied, Len(outputs))
    <3>1. ~IsObject(None) BY DEF FunctionsFit
    <3>2. QED BY <2>2, <2>5, <3>1, ApplyLoop
  <2>7. /\ Midway(s, added) /\ \A k : Get(added.store, k) = Get(applied.store, k)
        /\ added.manager.lastPatches = applied.manager.lastPatches
        /\ added.manager.lastOutputs = applied.manager.lastOutputs
        /\ added.manager.deps[ref].narrow = applied.manager.deps[ref].narrow \cup want
        /\ added.manager.deps[ref].broad = applied.manager.deps[ref].broad
        /\ Elsewhere(applied.manager.deps, added.manager.deps, ref)
        /\ added.contributed = applied.contributed
    BY <2>5, <2>6, AppendingNarrow DEF added, ref
  <2>8. /\ Midway(s, noted) /\ \A k : Get(noted.store, k) = Get(added.store, k)
        /\ noted.manager.lastPatches = added.manager.lastPatches
        /\ noted.manager.deps = added.manager.deps
        /\ noted.manager.lastOutputs[ref] = want
        /\ Elsewhere(added.manager.lastOutputs, noted.manager.lastOutputs, ref)
        /\ noted.contributed = added.contributed
    <3>1. key \notin want BY <2>5 DEF want
    <3>2. noted = NoteOutputs(added, r, key, want) BY DEF noted, NoteOutputs
    <3>3. want \in SUBSET Keys /\ r \in RangeOf(All) /\ key \in KeysOf(r) /\ Midway(s, added) BY <2>5, <2>7
    <3>4. QED BY ONLY <3>1, <3>2, <3>3, NotingOutputs DEF ref
  <2>9. \A k \in stale : k \in Keys /\ k # key
    <3>1. Ref(r, key) \in Refs BY <2>5, RefIn
    <3>2. h.manager.lastOutputs[Ref(r, key)] \subseteq Keys BY <2>4, <3>1, ManagerIsFit DEF ManagerFits
    <3>3. key \notin h.manager.lastOutputs[Ref(r, key)] BY <2>4, <2>5 DEF Others
    <3>4. QED BY <2>30, <3>2, <3>3
  <2>10. IsFiniteSet(stale)
    <3>1. stale \subseteq Keys BY <2>9
    <3>2. QED BY <3>1, HarnessAssumption, FS_Subset
  <2>11. /\ Midway(s, last) /\ last.manager = noted.manager /\ last.contributed = noted.contributed
         /\ \A k \in stale : last.store.objects[k] = None
         /\ \A k \in Keys \ stale : last.store.objects[k] = noted.store.objects[k]
    <3>1. PICK items : items = SetToSeq(stale) OBVIOUS
    <3>2. /\ Len(items) \in Nat /\ \A i \in 1 .. Len(items) : items[i] \in stale
          /\ \A k \in stale : \E i \in 1 .. Len(items) : items[i] = k
      BY <2>10, <3>1, InSomeOrder
    <3>3. \A i \in 1 .. Len(items) : items[i] \in Keys /\ items[i] # key BY <2>9, <3>2
    <3>4. last = Delete1!Loop(key, noted, items) BY <2>3, <3>1
    <3>5. Get(noted.store, key) # None BY <2>6, <2>7, <2>8
    <3>6. /\ Midway(s, last) /\ last.manager = noted.manager /\ last.contributed = noted.contributed
          /\ Cut(noted, items, last, Len(items))
      BY <2>8, <3>2, <3>3, <3>4, <3>5, DeleteLoop
    <3>7. QED BY <3>2, <3>6 DEF Cut
  <2>12. last.manager.lastPatches = h.manager.lastPatches /\ last.contributed = h.contributed
    BY <2>5, <2>6, <2>7, <2>8, <2>11
  <2>13. Backed(last) BY <2>4, <2>12 DEF Backed
  <2>14. /\ last.manager.lastOutputs[ref] = want
         /\ last.manager.deps[ref].narrow = reads.narrow \cup want
         /\ last.manager.deps[ref].broad = reads.broad
    BY <2>5, <2>6, <2>7, <2>8, <2>11
  <2>15. Followed(last.manager)
    <3>1. Elsewhere(h.manager.lastOutputs, last.manager.lastOutputs, ref) BY <2>5, <2>6, <2>7, <2>8, <2>11
    <3>2. Elsewhere(h.manager.deps, last.manager.deps, ref) BY <2>5, <2>6, <2>7, <2>8, <2>11 DEF Elsewhere
    <3>3. last.manager.lastOutputs[ref] \subseteq last.manager.deps[ref].narrow BY <2>14
    <3>4. Followed(h.manager) /\ key \in KeysOf(r) /\ r \in RangeOf(reconcilers) BY <2>4, <2>5
    <3>5. QED BY ONLY <3>1, <3>2, <3>3, <3>4, OutputFollowed DEF ref
  <2>16. \A k \in Keys \ stale : Get(last.store, k) = Get(applied.store, k) BY <2>7, <2>8, <2>11 DEF Get
  <2>17. ASSUME NEW i \in DOMAIN outputs, \A j \in DOMAIN outputs : j > i => outputs[j].key # outputs[i].key
         PROVE  Get(last.store, outputs[i].key) = Labelled(outputs[i])
    <3>1. i \in 1 .. Len(outputs) /\ outputs[i].key \in Keys BY <2>5 DEF IsObject
    <3>2. \A j \in (i + 1) .. Len(outputs) : outputs[j].key # outputs[i].key BY <2>5, <2>17, <3>1
    <3>3. applied.store.objects[outputs[i].key] = Labelled(outputs[i]) BY <2>6, <3>1, <3>2 DEF Put
    <3>4. outputs[i].key \notin stale BY <2>30 DEF want
    <3>5. QED BY <2>16, <3>1, <3>3, <3>4 DEF Get
  <2>18. ASSUME NEW k \in Keys, k \notin h.manager.lastOutputs[ref], k \notin want, k # key
         PROVE  Get(last.store, k) = Get(h.store, k)
    <3>1. \A i \in 1 .. Len(outputs) : outputs[i].key # k BY <2>5, <2>18 DEF want
    <3>2. applied.store.objects[k] = started.store.objects[k] BY <2>6, <3>1 DEF Put
    <3>3. k \notin stale BY <2>18, <2>30 DEF ref
    <3>4. QED BY <2>5, <2>16, <2>18, <3>2, <3>3 DEF Get
  <2>19. OutputsMade(h, r, key, last)
    <3>1. \A k \in h.manager.lastOutputs[ref] \ want : Get(last.store, k) = None
      BY <2>9, <2>11, <2>30 DEF ref, Get
    <3>2. \A k \in Keys \ (h.manager.lastOutputs[ref] \cup want \cup {key}) : Get(last.store, k) = Get(h.store, k)
      BY <2>18
    <3>3. QED BY <2>14, <2>17, <3>1, <3>2 DEF OutputsMade, outputs, want, reads, ref
  <2>20. QED BY <2>1, <2>11, <2>13, <2>15, <2>19 DEF Call
<1>2. QED BY <1>0, <1>1

\* The same of a run of a patch reconciler, which fails without an effect when
\* its function returns a target twice.
PatchesMade(h, r, key, g) ==
    LET outputs == Results(WithFinalizer(h, r, key), r, key)
        want    == {outputs[i].key : i \in DOMAIN outputs}
        reads   == Declared(WithFinalizer(h, r, key), r, key)
        ref     == Ref(r, key)
    IN  IF Repeats(outputs)
        THEN /\ g.manager.lastPatches = h.manager.lastPatches /\ g.contributed = h.contributed
             /\ g.manager.deps[ref] = reads
             /\ \A k \in Keys \ {key} : Get(g.store, k) = Get(h.store, k)
        ELSE /\ g.manager.lastPatches[ref] = want
             /\ \A k \in want : Contribution(ref, k) \in g.contributed
             /\ \A k \in h.manager.lastPatches[ref] \ want : Contribution(ref, k) \notin g.contributed
             /\ g.manager.deps[ref].narrow = reads.narrow \cup want
             /\ g.manager.deps[ref].broad = reads.broad
             /\ \A i \in DOMAIN outputs : Get(g.store, outputs[i].key) = outputs[i]
             /\ \A k \in Keys \ (want \cup {key}) : Get(g.store, k) = Get(h.store, k)

LEMMA PatchRun ==
    ASSUME NEW s, NEW h, Call(s, h), FunctionsFit, NEW r \in RangeOf(patchReconcilers),
           NEW key, key.gvk = r.primary
    PROVE  /\ Call(s, RunPatch(h, r, key))
           /\ ~Skips(h, r, key) => PatchesMade(h, r, key, RunPatch(h, r, key))
<1>0. CASE Skips(h, r, key) BY <1>0 DEF RunPatch
<1>1. CASE ~Skips(h, r, key)
  <2> DEFINE started == SetDeps(WithFinalizer(h, r, key), r, key)
             outputs == Results(WithFinalizer(h, r, key), r, key)
             want    == {outputs[i].key : i \in DOMAIN outputs}
             ref     == Ref(r, key)
             c       == [ref |-> ref, key |-> key]
             stale   == started.manager.lastPatches[ref] \ want
             patched == Each(LAMBDA g, o : PatchOne(c, g, o), started, outputs)
             added   == AppendNarrow(patched, r, key, want)
             taken   == Each(LAMBDA g, k : Reverted(ref, g, k), added, SetToSeq(stale))
             last    == [taken EXCEPT !.manager.lastPatches[ref] = want]
             failed  == Recorded(started, key, "ReconcileFailed")
             reads   == Declared(WithFinalizer(h, r, key), r, key)
  <2>1. RunPatch(h, r, key) = IF Repeats(outputs) THEN failed ELSE last BY <1>1 DEF RunPatch, PatchAll
  <2> HIDE DEF started, outputs
  <2>2. patched = Patch1!Loop(c, started, outputs) BY DEF Each, Patch1!Loop
  <2> HIDE DEF patched, want, added, stale
  <2>3. taken = Revert1!Loop(ref, added, SetToSeq(stale)) BY DEF Each, Revert1!Loop
  <2> HIDE DEF taken, last, failed, reads
  <2>4. Midway(s, h) /\ Backed(h) /\ Followed(h.manager) /\ Fits(h) BY DEF Call, Midway
  <2>5. /\ r \in RangeOf(All) /\ key \in KeysOf(r)
        /\ Midway(s, started) /\ Get(started.store, key) # None
        /\ started.manager.lastPatches = h.manager.lastPatches
        /\ started.manager.lastOutputs = h.manager.lastOutputs
        /\ Elsewhere(h.manager.deps, started.manager.deps, Ref(r, key))
        /\ started.contributed = h.contributed
        /\ started.manager.deps[ref] = reads
        /\ \A k \in Keys : k # key => Get(started.store, k) = Get(h.store, k)
        /\ Len(outputs) \in Nat /\ DOMAIN outputs = 1 .. Len(outputs)
        /\ \A i \in 1 .. Len(outputs) : IsObject(outputs[i])
        /\ want \in SUBSET Keys
    BY <1>1, <2>4, Starting DEF started, outputs, want, reads
  <2>30. stale = h.manager.lastPatches[Ref(r, key)] \ want BY <2>5 DEF stale
  <2>6. ref \in Refs BY <2>5, RefIn
  <2>7. CASE Repeats(outputs)
    <3>1. /\ Midway(s, failed) /\ failed.manager = started.manager /\ failed.contributed = started.contributed
          /\ failed.store = started.store
      BY <2>5, Failing DEF failed
    <3>2. Backed(failed) BY <2>4, <2>5, <3>1 DEF Backed
    <3>3. Followed(failed.manager) BY ONLY <2>4, <2>5, <3>1, OtherFollowed, r \in RangeOf(patchReconcilers)
    <3>4. PatchesMade(h, r, key, failed)
      BY <2>5, <2>7, <3>1 DEF PatchesMade, outputs, reads
    <3>5. QED BY <2>1, <2>7, <3>1, <3>2, <3>3, <3>4 DEF Call
  <2>8. CASE ~Repeats(outputs)
    <3>1. c.ref = ref /\ c.key = key OBVIOUS
    <3> HIDE DEF c
    <3>2. /\ Midway(s, patched) /\ Get(patched.store, key) # None
          /\ patched.manager = started.manager
          /\ h.contributed \subseteq patched.contributed
          /\ \A i \in 1 .. Len(outputs) : Contribution(ref, outputs[i].key) \in patched.contributed
          /\ Lent(started, outputs, patched, Len(outputs))
      <4>1. ~IsObject(None) BY DEF FunctionsFit
      <4>2. c.ref \in Refs /\ Get(started.store, c.key) # None BY <2>5, <2>6, <3>1
      <4>3. /\ Midway(s, patched) /\ Get(patched.store, c.key) # None
            /\ patched.manager = started.manager
            /\ started.contributed \subseteq patched.contributed
            /\ OnRecord(c.ref, outputs, patched)
            /\ Lent(started, outputs, patched, Len(outputs))
        BY <2>2, <2>5, <4>1, <4>2, PatchLoop
      <4>4. QED BY <2>5, <3>1, <4>3 DEF OnRecord
    <3>11. Ref(r, key) = ref OBVIOUS
    <3> HIDE DEF ref
    <3>3. \A k \in want : Contribution(ref, k) \in patched.contributed BY <2>5, <3>2 DEF want
    <3>4. /\ Midway(s, added)
          /\ added.manager.lastPatches = h.manager.lastPatches
          /\ added.manager.lastOutputs = h.manager.lastOutputs
          /\ Elsewhere(started.manager.deps, added.manager.deps, Ref(r, key))
          /\ added.contributed = patched.contributed
          /\ \A k : Get(added.store, k) = Get(patched.store, k)
          /\ added.manager.deps[ref].narrow = reads.narrow \cup want
          /\ added.manager.deps[ref].broad = reads.broad
      <4>1. /\ added = AppendNarrow(patched, r, key, want) /\ want \in SUBSET Keys
            /\ Midway(s, patched) /\ r \in RangeOf(All) /\ key \in KeysOf(r)
        BY <2>5, <3>2 DEF added
      <4>2. /\ Midway(s, added) /\ \A k : Get(added.store, k) = Get(patched.store, k)
            /\ added.manager.lastOutputs = patched.manager.lastOutputs
            /\ added.manager.lastPatches = patched.manager.lastPatches
            /\ added.contributed = patched.contributed
            /\ added.manager.deps[Ref(r, key)].narrow = patched.manager.deps[Ref(r, key)].narrow \cup want
            /\ added.manager.deps[Ref(r, key)].broad = patched.manager.deps[Ref(r, key)].broad
            /\ Elsewhere(patched.manager.deps, added.manager.deps, Ref(r, key))
        BY ONLY <4>1, AppendingNarrow
      <4>3. QED BY <2>5, <3>2, <3>11, <4>2
    <3>5. IsFiniteSet(stale) /\ \A k \in stale : Contribution(ref, k) \in added.contributed
      <4>1. h.manager.lastPatches[ref] \subseteq Keys BY <2>4, <2>6, ManagerIsFit DEF ManagerFits
      <4>2. IsFiniteSet(stale) BY <4>1, HarnessAssumption, FS_Subset, <2>30, <3>11
      <4>3. \A k \in stale : Contribution(ref, k) \in h.contributed BY <2>4, <2>6, <2>30, <3>11 DEF Backed
      <4>4. QED BY <3>2, <3>4, <4>2, <4>3
    <3>6. /\ Midway(s, taken)
          /\ taken.manager = added.manager
          /\ taken.contributed = added.contributed \ {Contribution(ref, k) : k \in stale}
          /\ \A k : Get(taken.store, k) = Get(added.store, k)
      BY <2>3, <3>4, <3>5, RevertLoop
    <3>7. /\ Midway(s, last)
          /\ last.manager.lastPatches = [taken.manager.lastPatches EXCEPT ![ref] = want]
          /\ last.manager.lastOutputs = taken.manager.lastOutputs /\ last.manager.deps = taken.manager.deps
          /\ last.contributed = taken.contributed /\ \A k : Get(last.store, k) = Get(taken.store, k)
      <4>1. last = NotePatches(taken, r, key, want) BY DEF last, ref, NotePatches
      <4>2. want \in SUBSET Keys /\ r \in RangeOf(All) /\ key \in KeysOf(r) /\ Midway(s, taken) BY <2>5, <3>6
      <4>3. /\ Midway(s, last)
            /\ last.manager.lastPatches = [taken.manager.lastPatches EXCEPT ![Ref(r, key)] = want]
            /\ last.manager.lastOutputs = taken.manager.lastOutputs /\ last.manager.deps = taken.manager.deps
            /\ last.contributed = taken.contributed /\ \A k : Get(last.store, k) = Get(taken.store, k)
        BY ONLY <4>1, <4>2, NotingPatches
      <4>4. QED BY <4>3 DEF ref
    <3>8. Backed(last)
      <4> SUFFICES ASSUME NEW q \in Refs, NEW k \in last.manager.lastPatches[q]
                   PROVE  Contribution(q, k) \in last.contributed
        BY DEF Backed
      <4>1. last.manager.lastPatches = [h.manager.lastPatches EXCEPT ![ref] = want] BY <3>4, <3>6, <3>7
      <4>2. DOMAIN h.manager.lastPatches = Refs BY <2>4, ManagerIsFit DEF ManagerFits
      <4>3. CASE q = ref
        <5>1. k \in want BY <2>6, <4>1, <4>2, <4>3
        <5>2. Contribution(ref, k) \in added.contributed BY <3>3, <3>4, <5>1
        <5>3. Contribution(ref, k) \notin {Contribution(ref, j) : j \in stale}
          BY <5>1 DEF Contribution, stale
        <5>4. QED BY <3>6, <3>7, <4>3, <5>2, <5>3
      <4>4. CASE q # ref
        <5>1. k \in h.manager.lastPatches[q] BY <4>1, <4>2, <4>4
        <5>2. Contribution(q, k) \in added.contributed BY <2>4, <3>2, <3>4, <5>1 DEF Backed
        <5>3. Contribution(q, k) \notin {Contribution(ref, j) : j \in stale}
          BY <4>4 DEF Contribution
        <5>4. QED BY <3>6, <3>7, <5>2, <5>3
      <4>5. QED BY <4>3, <4>4
    <3>9. Followed(last.manager)
      <4>1. Elsewhere(h.manager.deps, last.manager.deps, Ref(r, key)) BY <2>5, <3>4, <3>6, <3>7 DEF Elsewhere
      <4>2. last.manager.lastOutputs = h.manager.lastOutputs BY <3>4, <3>6, <3>7
      <4>3. QED BY ONLY <2>4, <2>5, <4>1, <4>2, OtherFollowed, r \in RangeOf(patchReconcilers)
    <3>10. PatchesMade(h, r, key, last)
      <4>1. last.manager.lastPatches[ref] = want
        <5>1. last.manager.lastPatches = [h.manager.lastPatches EXCEPT ![ref] = want] BY <3>4, <3>6, <3>7
        <5>2. DOMAIN h.manager.lastPatches = Refs BY <2>4, ManagerIsFit DEF ManagerFits
        <5>3. QED BY <2>6, <5>1, <5>2
      <4>2. \A k \in want : Contribution(ref, k) \in last.contributed
        <5>1. \A k \in want, j \in stale : Contribution(ref, k) # Contribution(ref, j) BY DEF Contribution, stale
        <5>2. QED BY <3>3, <3>4, <3>6, <3>7, <5>1
      <4>3. \A k \in h.manager.lastPatches[ref] \ want : Contribution(ref, k) \notin last.contributed
        BY <2>30, <3>6, <3>7, <3>11
      <4>4. last.manager.deps[ref].narrow = reads.narrow \cup want /\ last.manager.deps[ref].broad = reads.broad
        BY <3>4, <3>6, <3>7
      <4>5. ASSUME NEW i \in DOMAIN outputs PROVE Get(last.store, outputs[i].key) = outputs[i]
        <5>1. i \in 1 .. Len(outputs) /\ outputs[i].key \in Keys BY <2>5 DEF IsObject
        <5>2. \A j \in (i + 1) .. Len(outputs) : outputs[j].key # outputs[i].key BY <2>5, <2>8, <5>1 DEF Repeats
        <5>3. patched.store.objects[outputs[i].key] = outputs[i] BY <3>2, <5>1, <5>2 DEF Lent
        <5>4. QED BY <3>4, <3>6, <3>7, <5>1, <5>3 DEF Get
      <4>6. ASSUME NEW k \in Keys, k \notin want, k # key PROVE Get(last.store, k) = Get(h.store, k)
        <5>1. \A i \in 1 .. Len(outputs) : outputs[i].key # k BY <2>5, <4>6 DEF want
        <5>2. patched.store.objects[k] = started.store.objects[k] BY <3>2, <5>1 DEF Lent
        <5>3. QED BY <2>5, <3>4, <3>6, <3>7, <4>6, <5>2 DEF Get
      <4>7. QED BY <2>8, <4>1, <4>2, <4>3, <4>4, <4>5, <4>6 DEF PatchesMade, outputs, want, reads, ref
    <3>12. QED BY <2>1, <2>8, <3>7, <3>8, <3>9, <3>10 DEF Call
  <2>9. QED BY <2>7, <2>8
<1>2. QED BY <1>0, <1>1

LEMMA StatusRun ==
    ASSUME NEW s, NEW h, Call(s, h), FunctionsFit, NEW r \in RangeOf(statusReconcilers),
           NEW key, key.gvk = r.primary
    PROVE  Call(s, RunStatus(h, r, key))
<1> DEFINE status == Results(h, r, key)
           f == SetDeps(h, r, key)
           g == applyStatus(f, key, Head(status))
<1>1. RunStatus(h, r, key) = IF Get(h.store, key) = None THEN h ELSE IF status = <<>> THEN f ELSE g
  BY DEF RunStatus
<1>2. CASE Get(h.store, key) = None BY <1>1, <1>2
<1>3. CASE Get(h.store, key) # None
  <2>1. r \in RangeOf(All) /\ key \in KeysOf(r) /\ key \in Keys BY <1>3, InAll DEF Get, KeysOf
  <2>2. Midway(s, h) /\ Backed(h) /\ Followed(h.manager) BY DEF Call
  <2> HIDE DEF status
  <2>3. /\ Midway(s, f) /\ f.manager.lastPatches = h.manager.lastPatches /\ f.contributed = h.contributed
        /\ f.manager.lastOutputs = h.manager.lastOutputs /\ Elsewhere(h.manager.deps, f.manager.deps, Ref(r, key))
    BY <1>3, <2>1, <2>2, SettingDeps
  <2> HIDE DEF f
  <2>4. Midway(s, g) /\ g.manager = f.manager /\ g.contributed = f.contributed
    BY <2>1, <2>3, Reporting
  <2> HIDE DEF g
  <2>5. Followed(f.manager) BY <2>1, <2>2, <2>3, OtherFollowed
  <2>6. Call(s, f) /\ Call(s, g) BY <2>2, <2>3, <2>4, <2>5 DEF Call, Backed
  <2>7. QED BY <1>1, <1>3, <2>6
<1>4. QED BY <1>2, <1>3

-----------------------------------------------------------------------------
\* What a call has seen of the objects, by a read or in a list.

Seeing(s, P) == [from |-> s.from, seen |-> s.seen \cup P]

LEMMA Look ==
    ASSUME NEW s, NEW h, NEW P
    PROVE  Call(Seeing(s, P), h) <=> Call(s, h) /\ \A p \in P : IsObject(p) /\ Accounted(s, h, p.key, p)
<1> DEFINE t == Seeing(s, P)
<1>1. t.from = s.from /\ t.seen = s.seen \cup P BY DEF Seeing
<1> HIDE DEF t
<1>2. \A k, o : Accounted(t, h, k, o) <=> Accounted(s, h, k, o) BY <1>1 DEF Accounted
<1>3. Reverts(t, h) <=> Reverts(s, h) BY <1>1 DEF Reverts
<1>4. Objects(t, h) <=> Objects(s, h) /\ \A p \in P : IsObject(p) /\ Accounted(s, h, p.key, p)
  BY <1>1, <1>2 DEF Objects
<1>5. QED BY <1>3, <1>4 DEF Call, Midway, t

\* What is in the store now is accounted for.
LEMMA LookNow ==
    ASSUME NEW s, NEW h, Call(s, h), NEW P, \A p \in P : p # None /\ \E k \in Keys : p = h.store.objects[k]
    PROVE  Call(Seeing(s, P), h)
<1>1. ASSUME NEW p \in P PROVE IsObject(p) /\ Accounted(s, h, p.key, p)
  <2>1. PICK k \in Keys : p = h.store.objects[k] OBVIOUS
  <2>2. p # None OBVIOUS
  <2>3. IsObject(p) /\ p.key = k BY <2>1, <2>2 DEF Call, Midway, Fits
  <2>4. Accounted(s, h, k, p) BY <2>1 DEF Call, Midway, Objects
  <2>5. QED BY <2>3, <2>4
<1>2. QED BY <1>1, Look

LEMMA LookAway ==
    ASSUME NEW s, NEW h, NEW P, Call(Seeing(s, P), h)
    PROVE  Call(s, h)
BY Look

-----------------------------------------------------------------------------
\* The cleanup of a primary.

LEMMA PatchersDiffer ==
    ASSUME NEW i \in 1 .. Len(patchReconcilers), NEW j \in 1 .. Len(patchReconcilers),
           patchReconcilers[i].id = patchReconcilers[j].id
    PROVE  i = j
<1> DEFINE a == reconcilers
           b == patchReconcilers
           c == statusReconcilers
           S == RangeOf(a) \cup RangeOf(b) \cup RangeOf(c)
<1>1. a \in Seq(S) /\ b \in Seq(S) /\ c \in Seq(S)
  <2>1. a \in Seq(RangeOf(a)) /\ b \in Seq(RangeOf(b)) /\ c \in Seq(RangeOf(c)) BY HarnessAssumption
  <2>2. RangeOf(a) \subseteq S /\ RangeOf(b) \subseteq S /\ RangeOf(c) \subseteq S OBVIOUS
  <2> HIDE DEF a, b, c, S
  <2>3. QED BY <2>1, <2>2
<1>2. All = a \o b \o c BY DEF All
<1>3. i \in 1 .. Len(b) /\ j \in 1 .. Len(b) /\ b[i].id = b[j].id OBVIOUS
<1>4. \A m, n \in DOMAIN All : All[m].id = All[n].id => m = n BY HarnessAssumption
<1> HIDE DEF a, b, c, S
<1>5. Len(a) \in Nat /\ Len(b) \in Nat /\ Len(c) \in Nat BY <1>1
<1>6. a \o b \in Seq(S) /\ Len(a \o b) = Len(a) + Len(b) BY <1>1
<1>7. DOMAIN All = 1 .. (Len(a) + Len(b) + Len(c)) BY <1>1, <1>2, <1>5, <1>6
<1>8. ASSUME NEW n \in 1 .. Len(b) PROVE Len(a) + n \in DOMAIN All /\ All[Len(a) + n] = b[n]
  <2>1. Len(a) + n \in 1 .. (Len(a) + Len(b)) /\ Len(a) + n > Len(a) /\ (Len(a) + n) - Len(a) = n BY <1>5
  <2>2. All[Len(a) + n] = (a \o b)[Len(a) + n] BY <1>1, <1>2, <1>5, <1>6, <2>1
  <2>3. (a \o b)[Len(a) + n] = b[n] BY <1>1, <1>5, <2>1
  <2>4. QED BY <1>5, <1>7, <2>1, <2>2, <2>3
<1>9. Len(a) + i = Len(a) + j BY <1>3, <1>4, <1>8
<1>10. QED BY <1>3, <1>5, <1>9

Revert2 == INSTANCE Loops WITH Step <- RevertAll, Inv <- Applies

\* The contributions that the reverts of the first n reconcilers have left.
Left(h, f, key, n) ==
    \A ref \in Refs : \A k \in h.manager.lastPatches[ref] :
        \/ Contribution(ref, k) \in f.contributed
        \/ \E i \in 1 .. n : ref = Ref(patchReconcilers[i], key)

LEMMA RevertAllOf ==
    ASSUME NEW s, NEW h, Midway(s, h), NEW key, NEW r \in RangeOf(All),
           key \in Keys, \A k \in h.manager.lastPatches[Ref(r, key)] :
              r.primary = key.gvk => Contribution(Ref(r, key), k) \in h.contributed,
           NEW g, g = RevertAll(key, h, r)
    PROVE  /\ Midway(s, g) /\ \A k : Get(g.store, k) = Get(h.store, k)
           /\ g.manager = h.manager
           /\ h.contributed \ {Contribution(Ref(r, key), k) : k \in h.manager.lastPatches[Ref(r, key)]}
                 \subseteq g.contributed
<1> DEFINE ref == Ref(r, key)
           S   == h.manager.lastPatches[ref]
           rev == Each(LAMBDA f, k : Reverted(ref, f, k), h, SetToSeq(S))
<1>1. g = IF r.primary # key.gvk THEN h ELSE rev BY DEF RevertAll
<1>2. CASE r.primary # key.gvk BY <1>1, <1>2
<1>3. CASE r.primary = key.gvk
  <2>1. key \in KeysOf(r) BY <1>3 DEF KeysOf
  <2>2. ref \in Refs BY <2>1, RefIn
  <2> HIDE DEF ref, S
  <2>3. rev = Revert1!Loop(ref, h, SetToSeq(S)) BY DEF Each, Revert1!Loop
  <2> HIDE DEF rev
  <2>4. IsFiniteSet(S)
    <3>1. Fits(h) BY DEF Midway
    <3>2. S \subseteq Keys BY <2>2, <3>1, ManagerIsFit DEF ManagerFits, S
    <3>3. QED BY <3>2, HarnessAssumption, FS_Subset
  <2>5. \A k \in S : Contribution(ref, k) \in h.contributed BY <1>3 DEF S, ref
  <2>6. /\ Midway(s, rev) /\ \A k : Get(rev.store, k) = Get(h.store, k)
        /\ rev.manager = h.manager
        /\ h.contributed \ {Contribution(ref, k) : k \in S} \subseteq rev.contributed
    BY <2>3, <2>4, <2>5, RevertLoop
  <2>7. QED BY <1>1, <1>3, <2>6 DEF S, ref
<1>4. QED BY <1>2, <1>3

LEMMA RevertAllLoop ==
    ASSUME NEW s, NEW h, Call(s, h), NEW key \in Keys,
           NEW g, g = Revert2!Loop(key, h, patchReconcilers)
    PROVE  /\ Midway(s, g) /\ g.manager = h.manager
           /\ Left(h, g, key, Len(patchReconcilers))
<1> DEFINE N == Len(patchReconcilers)
           Upto(f, n) == Midway(s, f) /\ f.manager = h.manager /\ Left(h, f, key, n)
<1>0. Midway(s, h) /\ Backed(h) BY DEF Call
<1>1. N \in Nat /\ \A i \in 1 .. N : patchReconcilers[i] \in RangeOf(All) BY InAll DEF RangeOf
<1>2. PICK f : /\ f[0] = h
               /\ \A n \in 1 .. N : f[n] = RevertAll(key, f[n - 1], patchReconcilers[n])
               /\ Revert2!Loop(key, h, patchReconcilers) = f[N]
  BY <1>1, Revert2!Unfolds
<1> DEFINE T == {n \in 0 .. N : Upto(f[n], n)}
<1>3. 0 \in T
  <2>1. Left(h, h, key, 0) BY <1>0 DEF Left, Backed
  <2>2. QED BY <1>0, <1>1, <1>2, <2>1
<1>4. ASSUME NEW n \in 1 .. N, n - 1 \in T PROVE n \in T
  <2> DEFINE r   == patchReconcilers[n]
             ref == Ref(r, key)
             e   == f[n - 1]
             gone == {Contribution(ref, k) : k \in e.manager.lastPatches[ref]}
  <2>1. Upto(e, n - 1) /\ n \in 0 .. N BY <1>1, <1>4
  <2>2. f[n] = RevertAll(key, e, r) /\ r \in RangeOf(All) BY <1>1, <1>2
  <2>3. ASSUME r.primary = key.gvk, NEW k \in e.manager.lastPatches[ref] PROVE Contribution(ref, k) \in e.contributed
    <3>1. ref \in Refs BY <2>2, <2>3, RefIn DEF KeysOf
    <3>2. \A i \in 1 .. (n - 1) : i \in 1 .. N /\ i # n BY <1>1
    <3>3. \A i \in 1 .. (n - 1) : ref # Ref(patchReconcilers[i], key)
      BY <3>2, PatchersDiffer DEF Ref
    <3>4. QED BY <2>1, <2>3, <3>1, <3>3 DEF Left
  <2>4. /\ Midway(s, f[n]) /\ f[n].manager = e.manager
        /\ e.contributed \ gone \subseteq f[n].contributed
    <3> HIDE DEF r, e
    <3>1. Midway(s, e) BY <2>1
    <3>2. \A k \in e.manager.lastPatches[Ref(r, key)] :
             r.primary = key.gvk => Contribution(Ref(r, key), k) \in e.contributed
      BY <2>3
    <3>3. QED BY <2>2, <3>1, <3>2, RevertAllOf
  <2>5. ASSUME NEW q \in Refs, NEW k \in h.manager.lastPatches[q],
               ~ \E i \in 1 .. n : q = Ref(patchReconcilers[i], key)
        PROVE  Contribution(q, k) \in f[n].contributed
    <3>1. q # ref BY <1>1, <2>5
    <3>2. \A i \in 1 .. (n - 1) : i \in 1 .. n BY <1>1
    <3>3. Contribution(q, k) \in e.contributed BY <2>1, <2>5, <3>2 DEF Left
    <3>4. Contribution(q, k) \notin gone BY <3>1 DEF Contribution
    <3>5. QED BY <2>4, <3>3, <3>4
  <2>6. Left(h, f[n], key, n) BY <2>5 DEF Left
  <2>7. QED BY <2>1, <2>4, <2>6
<1>5. N \in T
  <2> HIDE DEF T, N
  <2>2. 0 .. N \subseteq T BY <1>1, <1>3, <1>4, Revert2!UpTo
  <2>3. QED BY <1>1, <2>2
<1>6. QED BY <1>2, <1>5

\* The end of a cleanup: the finalizer is taken off p, as it was seen, and the
\* event says why an object is there that had been deleted.
Finish(h, p) == [h EXCEPT !.store = TakeOff(h.store, p),
                          !.events = Append(h.events, [on |-> p.key.name, reason |-> "CleanupComplete"])]

LEMMA TakingOff ==
    ASSUME NEW s, NEW h, Midway(s, h), NEW p \in s.seen, IsPrimary(p.key.gvk), ~IsObject(None),
           NEW g, g = Finish(h, p)
    PROVE  Midway(s, g) /\ g.manager = h.manager /\ g.contributed = h.contributed
<1> DEFINE o == [p EXCEPT !.finalizers = @ \ {Own}]
           e == [on |-> p.key.name, reason |-> "CleanupComplete"]
           st == TakeOff(h.store, p)
<1>0. Fits(h) /\ Shaped(h) /\ h.events \in Seq(Events) BY ListsFit DEF Midway
<1>1. IsObject(p) /\ p.key \in Keys BY DEF Midway, Objects, IsObject
<1>2. IsObject(o) /\ o.key = p.key /\ o.data = p.data /\ o # None BY <1>1 DEF IsObject
<1>3. e \in Events /\ e.reason = "CleanupComplete" BY <1>1 DEF Events, Reasons
<1> HIDE DEF e, o
<1>4. PICK objects : objects = IF Own \in p.finalizers THEN [h.store.objects EXCEPT ![p.key] = o]
                               ELSE h.store.objects
  OBVIOUS
<1>5. /\ g.store.objects = objects
      /\ g.store.Applied = h.store.Applied /\ g.store.Deleted = h.store.Deleted
      /\ g.store.StatusPatches = h.store.StatusPatches
      /\ g.store.ForeignPatched = h.store.ForeignPatched /\ g.store.ForeignReverted = h.store.ForeignReverted
      /\ g.manager = h.manager /\ g.events = Append(h.events, e)
      /\ g.reported = h.reported /\ g.contributed = h.contributed
      /\ Shaped(g)
  <2>1. /\ st.objects = objects
        /\ st.Applied = h.store.Applied /\ st.Deleted = h.store.Deleted
        /\ st.StatusPatches = h.store.StatusPatches
        /\ st.ForeignPatched = h.store.ForeignPatched /\ st.ForeignReverted = h.store.ForeignReverted
        /\ st = [objects |-> st.objects, Applied |-> st.Applied, Deleted |-> st.Deleted,
                 StatusPatches |-> st.StatusPatches, ForeignPatched |-> st.ForeignPatched,
                 ForeignReverted |-> st.ForeignReverted]
    <3>1. CASE Own \in p.finalizers
      <4>1. st = [h.store EXCEPT !.objects[p.key] = o] BY <1>2, <3>1 DEF TakeOff, Merge, SetObject, o
      <4> HIDE DEF st, o
      <4>2. QED BY <1>0, <1>4, <3>1, <4>1 DEF Shaped
    <3>2. CASE Own \notin p.finalizers
      <4>1. st = h.store BY <3>2 DEF TakeOff
      <4> HIDE DEF st
      <4>2. QED BY <1>0, <1>4, <3>2, <4>1 DEF Shaped
    <3>3. QED BY <3>1, <3>2
  <2>2. g = [h EXCEPT !.store = st, !.events = Append(h.events, e)] BY DEF Finish, e
  <2> HIDE DEF st, e
  <2>3. QED BY <1>0, <2>1, <2>2 DEF Shaped
<1>6. \A k \in Keys : objects[k] = h.store.objects[k] \/ (k = p.key /\ objects[k] = o)
  BY <1>0, <1>4 DEF Fits
<1>7. DOMAIN objects = Keys BY <1>0, <1>4 DEF Fits
<1>8. g.events \in Seq(Events) BY <1>0, <1>3, <1>5
<1>9. Fits(g)
  <2>1. \A k \in Keys : objects[k] # None => IsObject(objects[k]) /\ objects[k].key = k
    BY <1>0, <1>2, <1>6 DEF Fits
  <2>2. DOMAIN g.reported = Keys /\ g.contributed \subseteq [ref : Refs, target : Keys]
    BY <1>0, <1>5 DEF Fits
  <2>3. /\ g.store.Deleted \in Seq(NNs) /\ g.store.StatusPatches \in Seq(NNs)
        /\ g.store.Applied \in Seq(NNs) /\ g.store.ForeignPatched \in Seq(NNs)
        /\ g.store.ForeignReverted \in Seq(NNs)
    BY <1>0, <1>5, ListsFit
  <2>4. /\ DOMAIN g.store.objects = Keys
        /\ \A k \in Keys : g.store.objects[k] # None => IsObject(g.store.objects[k]) /\ g.store.objects[k].key = k
    BY <1>5, <1>7, <2>1
  <2>5. Shaped(g) /\ g.manager = h.manager BY <1>5
  <2>6. QED BY ONLY <1>0, <1>8, <2>2, <2>3, <2>4, <2>5, FitsStep
<1>10. Objects(s, g)
  <2>1. Kept(h.events, g.events) BY <1>0, <1>3, <1>5 DEF Kept
  <2>2. Grown(h, g) BY <1>5, <2>1 DEF Grown
  <2>3. Accounted(s, g, p.key, o)
    <3>1. Accounted(s, h, p.key, p) BY DEF Midway, Objects
    <3>2. QED BY <1>2, <1>5, <3>1 DEF Accounted, Told
  <2>4. Back(g, p.key)
    <3>1. Len(h.events) + 1 \in DOMAIN g.events /\ g.events[Len(h.events) + 1] = e
      BY <1>0, <1>3, <1>5
    <3>2. g.events[Len(h.events) + 1] = [on |-> p.key.name, reason |-> "CleanupComplete"] BY <3>1 DEF e
    <3>3. QED BY <3>1, <3>2 DEF Back
  <2>5. \A k \in Keys : g.store.objects[k] = h.store.objects[k] \/ Accounted(s, g, k, g.store.objects[k])
    BY <1>5, <1>6, <2>3
  <2>6. \A k \in Keys : h.store.objects[k] = None => g.store.objects[k] = None \/ Back(g, k)
    BY <1>5, <1>6, <2>4
  <2>7. \A n \in RangeOf(g.store.Deleted) : n \in RangeOf(h.store.Deleted) \/ Gone(g, n) BY <1>5
  <2>8. \A k \in Keys : g.reported[k] = h.reported[k] \/ NN(k) \in RangeOf(g.store.StatusPatches) BY <1>5
  <2>9. Objects(s, h) BY DEF Midway
  <2>10. QED BY ONLY <2>2, <2>5, <2>6, <2>7, <2>8, <2>9, ObjectsStep
<1>11. Counts(g)
  <2>1. \A reason : /\ Count(h.events, reason) \in Nat
                    /\ Count(g.events, reason) = Count(h.events, reason) + (IF e.reason = reason THEN 1 ELSE 0)
    BY <1>0, <1>3, <1>5, Counted
  <2>2. /\ Count(g.events, "Applied") = Count(h.events, "Applied")
        /\ Count(g.events, "Deleted") = Count(h.events, "Deleted")
        /\ Count(g.events, "Patched") = Count(h.events, "Patched")
    BY <1>3, <2>1
  <2>3. QED BY <1>5, <2>2 DEF Midway, Counts
<1>12. Reverts(s, g) BY <1>5 DEF Midway, Reverts
<1>13. QED BY <1>5, <1>9, <1>10, <1>11, <1>12 DEF Midway

LEMMA Cleanup ==
    ASSUME NEW s, NEW h, Call(s, h), ~IsObject(None), NEW p \in s.seen, IsPrimary(p.key.gvk)
    PROVE  Call(s, RunCleanup(h, p))
<1> DEFINE key == p.key
           reverted == Each(LAMBDA g, r : RevertAll(key, g, r), h, patchReconcilers)
           e    == [on |-> key.name, reason |-> "CleanupComplete"]
           st   == TakeOff(reverted.store, p)
           free == [reverted EXCEPT !.store = st]
           off  == Finish(reverted, p)
           Cleared(record) == [ref \in Refs |-> IF ref.key = NN(key) THEN {} ELSE record[ref]]
           ids  == {r.id : r \in {q \in RangeOf(All) : q.primary = key.gvk}}
           m0   == reverted.manager
           m    == [lastOutputs |-> Cleared(m0.lastOutputs), lastPatches |-> Cleared(m0.lastPatches),
                    deps |-> [ref \in Refs |-> IF ref.key = NN(key) /\ ref.id \in ids
                                               THEN [narrow |-> {}, broad |-> {}] ELSE m0.deps[ref]]]
           last == [off EXCEPT !.manager = m]
<1>0. Midway(s, h) /\ Followed(h.manager) /\ key \in Keys BY DEF Call, Midway, Objects, IsObject
<1>1. RunCleanup(h, p) = [Forget(free, key) EXCEPT !.events = Append(@, e)] BY DEF RunCleanup
<1>2. reverted = Revert2!Loop(key, h, patchReconcilers) BY DEF Each, Revert2!Loop
<1> HIDE DEF reverted
<1>3. /\ Midway(s, reverted) /\ reverted.manager = h.manager
      /\ Left(h, reverted, key, Len(patchReconcilers))
  BY <1>0, <1>2, RevertAllLoop
<1>4. Fits(reverted) /\ Shaped(reverted) /\ ManagerFits(m0) /\ Others(m0) BY <1>3, ListsFit, ManagerIsFit DEF Midway
<1>5. [Forget(free, key) EXCEPT !.events = Append(@, e)] = last
  <2> DEFINE ev == reverted.events
             rp == reverted.reported
             co == reverted.contributed
             more == Append(ev, e)
  <2>1. off = [free EXCEPT !.events = more] BY DEF Finish
  <2>2. reverted = [store |-> reverted.store, events |-> ev, manager |-> m0, reported |-> rp, contributed |-> co]
    BY <1>4 DEF Shaped
  <2>3. m0 = [lastOutputs |-> m0.lastOutputs, lastPatches |-> m0.lastPatches, deps |-> m0.deps]
    BY <1>4 DEF ManagerFits
  <2> HIDE DEF e, st, off, ev, rp, co, more, m0
  <2>4. free = [store |-> st, events |-> ev, manager |-> m0, reported |-> rp, contributed |-> co] BY <2>2
  <2>5. off = [store |-> st, events |-> more, manager |-> m0, reported |-> rp, contributed |-> co] BY <2>1, <2>4
  <2>6. Forget(free, key) = [free EXCEPT !.manager = m]
    <3> HIDE DEF free
    <3>1. free.manager = m0 BY <2>4
    <3>2. Forget(free, key) = [free EXCEPT !.manager.lastOutputs = Cleared(m0.lastOutputs),
                                           !.manager.lastPatches = Cleared(m0.lastPatches),
                                           !.manager.deps = m.deps]
      BY <2>4, <3>1 DEF Forget
    <3>3. QED BY <2>3, <2>4, <3>1, <3>2
  <2> DEFINE f == Forget(free, key)
  <2> HIDE DEF free, m, f
  <2>7. f = [store |-> st, events |-> ev, manager |-> m, reported |-> rp, contributed |-> co] BY <2>4, <2>6 DEF f
  <2>8. [f EXCEPT !.events = Append(@, e)] = [f EXCEPT !.events = more] BY <2>7 DEF more
  <2>9. [f EXCEPT !.events = more]
          = [store |-> st, events |-> more, manager |-> m, reported |-> rp, contributed |-> co]
    BY <2>7
  <2>10. last = [store |-> st, events |-> more, manager |-> m, reported |-> rp, contributed |-> co] BY <2>5
  <2>11. QED BY <2>8, <2>9, <2>10 DEF f
<1>6. Midway(s, off) /\ off.manager = m0 /\ off.contributed = reverted.contributed
  BY <1>3, TakingOff
<1> HIDE DEF off, e, st, free, m0
<1>7. ManagerFits(m)
  <2>1. \A ref \in Refs : m0.lastOutputs[ref] \subseteq Keys /\ m0.lastPatches[ref] \subseteq Keys
    BY <1>4 DEF ManagerFits
  <2>2. m.lastOutputs \in [Refs -> SUBSET Keys] /\ m.lastPatches \in [Refs -> SUBSET Keys] BY <2>1
  <2>3. DOMAIN m.deps = Refs OBVIOUS
  <2>4. ASSUME NEW ref \in Refs
        PROVE  /\ m.deps[ref] = [narrow |-> m.deps[ref].narrow, broad |-> m.deps[ref].broad]
               /\ m.deps[ref].narrow \subseteq Keys
    <3>1. m.deps[ref] = [narrow |-> {}, broad |-> {}] \/ m.deps[ref] = m0.deps[ref] OBVIOUS
    <3>2. QED BY <1>4, <3>1 DEF ManagerFits
  <2>5. QED BY <2>2, <2>3, <2>4 DEF ManagerFits
<1>8. Others(m)
  <2>1. ASSUME NEW r \in RangeOf(reconcilers), NEW k \in KeysOf(r) PROVE k \notin m.lastOutputs[Ref(r, k)]
    <3>1. Ref(r, k) \in Refs BY InAll, RefIn
    <3>2. m.lastOutputs[Ref(r, k)] \subseteq m0.lastOutputs[Ref(r, k)] BY <3>1
    <3>3. QED BY <1>4, <3>2 DEF Others
  <2>2. QED BY <2>1 DEF Others
<1>9. Midway(s, last) /\ last.manager = m /\ last.contributed = off.contributed
  <2> HIDE DEF m
  <2> QED BY <1>6, <1>7, <1>8, Managing
<1>10. Backed(last)
  <2> SUFFICES ASSUME NEW ref \in Refs, NEW k \in m.lastPatches[ref] PROVE Contribution(ref, k) \in last.contributed
    BY <1>9 DEF Backed
  <2>1. ref.key # NN(key) /\ k \in h.manager.lastPatches[ref] BY <1>3 DEF m0
  <2>2. \A i \in 1 .. Len(patchReconcilers) : ref # Ref(patchReconcilers[i], key) BY <2>1 DEF Ref
  <2>3. Contribution(ref, k) \in reverted.contributed BY <1>3, <2>1, <2>2 DEF Left
  <2>4. QED BY <1>6, <1>9, <2>3
<1>11. Followed(m)
  <2>1. Followed(m0) BY <1>0, <1>3 DEF m0
  <2>2. ASSUME NEW ref \in Refs PROVE m.lastOutputs[ref] \subseteq m.deps[ref].narrow
    <3>1. CASE ref.key = NN(key) BY <3>1
    <3>2. CASE ref.key # NN(key)
      <4>1. m.lastOutputs[ref] = m0.lastOutputs[ref] /\ m.deps[ref] = m0.deps[ref] BY <3>2
      <4>2. QED BY <2>1, <4>1 DEF Followed
    <3>3. QED BY <3>1, <3>2
  <2>3. ASSUME NEW r \in RangeOf(patchReconcilers) \cup RangeOf(statusReconcilers), NEW k \in KeysOf(r)
        PROVE  m.lastOutputs[Ref(r, k)] = {}
    <3>1. Ref(r, k) \in Refs BY InAll, RefIn
    <3>2. m.lastOutputs[Ref(r, k)] \subseteq m0.lastOutputs[Ref(r, k)] BY <3>1
    <3>3. QED BY <2>1, <3>2 DEF Followed
  <2>4. QED BY <2>2, <2>3 DEF Followed
<1>12. QED BY <1>1, <1>5, <1>9, <1>10, <1>11 DEF Call

-----------------------------------------------------------------------------
\* The loops of handle.

LEMMA OneRun ==
    ASSUME NEW s, NEW h, Call(s, h), FunctionsFit,
           NEW r \in RangeOf(reconcilers) \cup RangeOf(patchReconcilers), NEW key, key.gvk = r.primary
    PROVE  Call(s, Run(h, r, key))
<1>1. CASE r \in RangeOf(reconcilers) BY <1>1, OutputRun DEF Run
<1>2. CASE r \notin RangeOf(reconcilers)
  <2>1. r \in RangeOf(patchReconcilers) BY <1>2
  <2>2. QED BY <1>2, <2>1, PatchRun DEF Run
<1>3. QED BY <1>1, <1>2

\* The body of the loop over statuses passes on more than the state.
CallOf(s, c) == Call(s, c.h) /\ c = [h |-> c.h, deletingPrimaries |-> c.deletingPrimaries]

Own1    == INSTANCE Loops WITH Step <- OwnRun, Inv <- Call
Ref1    == INSTANCE Loops WITH Step <- RefRun, Inv <- Call
Status1 == INSTANCE Loops WITH Step <- DoStatus, Inv <- CallOf
Status2 == INSTANCE Loops WITH Step <- Statuses, Inv <- CallOf

LEMMA OwnRuns ==
    ASSUME NEW s, NEW h, Call(s, h), FunctionsFit, NEW key, NEW list, Len(list) \in Nat,
           \A i \in 1 .. Len(list) : list[i] \in RangeOf(reconcilers) \cup RangeOf(patchReconcilers)
    PROVE  Call(s, Own1!Loop(key, h, list))
<1>1. ASSUME NEW n \in 1 .. Len(list), NEW f, Call(s, f) PROVE Call(s, OwnRun(key, f, list[n]))
  <2>1. CASE list[n].primary = key.gvk BY <1>1, <2>1, OneRun DEF OwnRun
  <2>2. CASE list[n].primary # key.gvk BY <1>1, <2>2 DEF OwnRun
  <2>3. QED BY <2>1, <2>2
<1>2. QED BY <1>1, Own1!Preserves

LEMMA RefRuns ==
    ASSUME NEW s, NEW h, Call(s, h), FunctionsFit, NEW list,
           RangeOf(list) \subseteq RangeOf(reconcilers) \cup RangeOf(patchReconcilers),
           NEW refs, Len(refs) \in Nat
    PROVE  Call(s, Ref1!Loop(list, h, refs))
<1>1. ASSUME NEW n \in 1 .. Len(refs), NEW g, Call(s, g) PROVE Call(s, RefRun(list, g, refs[n]))
  <2> DEFINE f == refs[n]
             r == CHOOSE r \in Named(list, f) : TRUE
  <2>1. CASE Named(list, f) = {} BY <1>1, <2>1 DEF RefRun
  <2>2. CASE Named(list, f) # {}
    <3>1. r \in Named(list, f) BY <2>2
    <3>2. r \in RangeOf(list) BY <3>1 DEF Named
    <3>3. KeyFor(r, f.key).gvk = r.primary BY DEF KeyFor
    <3>4. RefRun(list, g, f) = Run(g, r, KeyFor(r, f.key)) BY <2>2 DEF RefRun
    <3> HIDE DEF r, f
    <3>5. Call(s, Run(g, r, KeyFor(r, f.key))) BY <1>1, <3>2, <3>3, OneRun
    <3>6. QED BY <3>4, <3>5 DEF f
  <2>3. QED BY <2>1, <2>2
<1>2. QED BY <1>1, Ref1!Preserves

LEMMA OneStatus ==
    ASSUME NEW s, NEW c, CallOf(s, c), FunctionsFit, NEW r \in RangeOf(statusReconcilers),
           NEW key, key.gvk = r.primary
    PROVE  CallOf(s, DoStatus(r, c, key))
<1>1. Call(s, RunStatus(c.h, r, key)) BY StatusRun DEF CallOf
<1>2. CASE NN(key) \in c.deletingPrimaries BY <1>2 DEF DoStatus
<1>3. CASE NN(key) \notin c.deletingPrimaries /\ Deleting(c.h, key)
  <2>1. DoStatus(r, c, key) = [c EXCEPT !.deletingPrimaries = c.deletingPrimaries \cup {NN(key)}] BY <1>3 DEF DoStatus
  <2>2. QED BY <2>1 DEF CallOf
<1>4. CASE NN(key) \notin c.deletingPrimaries /\ ~Deleting(c.h, key)
  <2>1. DoStatus(r, c, key) = [c EXCEPT !.h = RunStatus(c.h, r, key)] BY <1>4 DEF DoStatus
  <2>2. QED BY <1>1, <2>1 DEF CallOf
<1>5. QED BY <1>2, <1>3, <1>4

LEMMA StatusesOfOne ==
    ASSUME NEW s, NEW c, CallOf(s, c), FunctionsFit, NEW r \in RangeOf(statusReconcilers),
           NEW affected, IsFiniteSet(affected)
    PROVE  CallOf(s, Statuses(affected, c, r))
<1> DEFINE items == SetToSeq({k \in affected : k.gvk = r.primary})
           last  == Each(LAMBDA d, k : DoStatus(r, d, k), c, items)
<1>1. Statuses(affected, c, r) = last BY DEF Statuses
<1>2. IsFiniteSet({k \in affected : k.gvk = r.primary}) BY FS_Subset
<1>3. Len(items) \in Nat /\ \A n \in 1 .. Len(items) : items[n] \in {k \in affected : k.gvk = r.primary}
  BY <1>2, InSomeOrder
<1> HIDE DEF items
<1>4. last = Status1!Loop(r, c, items) BY DEF Each, Status1!Loop
<1> HIDE DEF last
<1>5. ASSUME NEW n \in 1 .. Len(items), NEW d, CallOf(s, d) PROVE CallOf(s, DoStatus(r, d, items[n]))
  BY <1>3, <1>5, OneStatus
<1>6. CallOf(s, Status1!Loop(r, c, items)) BY <1>3, <1>5, Status1!Preserves
<1>7. QED BY <1>1, <1>4, <1>6

LEMMA AllStatuses ==
    ASSUME NEW s, NEW c, CallOf(s, c), FunctionsFit, NEW affected, IsFiniteSet(affected)
    PROVE  CallOf(s, Status2!Loop(affected, c, statusReconcilers))
<1>1. /\ Len(statusReconcilers) \in Nat
      /\ \A n \in 1 .. Len(statusReconcilers) : statusReconcilers[n] \in RangeOf(statusReconcilers)
  BY InAll DEF RangeOf
<1>2. ASSUME NEW n \in 1 .. Len(statusReconcilers), NEW d, CallOf(s, d)
      PROVE  CallOf(s, Statuses(affected, d, statusReconcilers[n]))
  BY <1>1, <1>2, StatusesOfOne
<1>3. QED BY <1>1, <1>2, Status2!Preserves

-----------------------------------------------------------------------------
\* handle.

LEMMA First ==
    ASSUME NEW s, NEW h, Call(s, h), FunctionsFit, NEW key \in Keys
    PROVE  Call(s, Handled1(h, key))
<1>1. CASE IsPrimary(key.gvk) /\ Deleting(h, key)
  <2> DEFINE p == Get(h.store, key)
             t == Seeing(s, {p})
  <2>1. p # None /\ p = h.store.objects[key] BY <1>1 DEF Deleting, Get
  <2>2. p.key = key BY <2>1 DEF Call, Midway, Fits
  <2>3. Handled1(h, key) = RunCleanup(h, p) BY <1>1 DEF Handled1
  <2> HIDE DEF p
  <2>4. Call(t, h) BY <2>1, LookNow
  <2>5. p \in t.seen BY DEF Seeing
  <2> HIDE DEF t
  <2>6. ~IsObject(None) BY DEF FunctionsFit
  <2>7. Call(t, RunCleanup(h, p)) BY <1>1, <2>2, <2>4, <2>5, <2>6, Cleanup
  <2>8. Call(s, RunCleanup(h, p)) BY <2>7, LookAway DEF t
  <2>9. QED BY <2>3, <2>8
<1>2. CASE ~(IsPrimary(key.gvk) /\ Deleting(h, key))
  <2> DEFINE last == Each(LAMBDA g, r : OwnRun(key, g, r), h, reconcilers)
  <2>1. Handled1(h, key) = last BY <1>2 DEF Handled1
  <2>2. last = Own1!Loop(key, h, reconcilers) BY DEF Each, Own1!Loop
  <2> HIDE DEF last
  <2>3. Len(reconcilers) \in Nat /\ \A i \in 1 .. Len(reconcilers) : reconcilers[i] \in RangeOf(reconcilers)
    BY InAll DEF RangeOf
  <2>4. QED BY <2>1, <2>2, <2>3, OwnRuns
<1>3. QED BY <1>1, <1>2

LEMMA ImageFinite ==
    ASSUME NEW S, IsFiniteSet(S), NEW f, f = [x \in S |-> f[x]]
    PROVE  IsFiniteSet({f[x] : x \in S})
<1> DEFINE T == {f[x] : x \in S}
<1>1. f \in Surjection(S, T) BY DEF Surjection
<1> HIDE DEF T
<1>2. QED BY <1>1, FS_Surjection DEF T

LEMMA RefsFinite == IsFiniteSet(Refs)
<1>1. ASSUME NEW list \in {reconcilers, patchReconcilers, statusReconcilers} PROVE IsFiniteSet(RangeOf(list))
  <2>1. Len(list) \in Nat /\ DOMAIN list = 1 .. Len(list) BY InAll
  <2>2. IsFiniteSet(1 .. Len(list)) BY <2>1, FS_Interval
  <2> DEFINE f == [i \in 1 .. Len(list) |-> list[i]]
  <2>3. IsFiniteSet({f[i] : i \in 1 .. Len(list)}) BY <2>2, ImageFinite
  <2>4. {f[i] : i \in 1 .. Len(list)} = RangeOf(list) BY <2>1 DEF RangeOf
  <2>5. QED BY <2>3, <2>4
<1>2. IsFiniteSet(RangeOf(All))
  <2>1. IsFiniteSet(RangeOf(reconcilers) \cup RangeOf(patchReconcilers)) BY <1>1, FS_Union
  <2>2. QED BY <1>1, <2>1, FS_Union, InAll
<1>3. \A r : IsFiniteSet({Ref(r, k) : k \in KeysOf(r)})
  <2>1. SUFFICES ASSUME NEW r PROVE IsFiniteSet({Ref(r, k) : k \in KeysOf(r)}) OBVIOUS
  <2>2. KeysOf(r) \subseteq Keys BY DEF KeysOf
  <2>3. IsFiniteSet(KeysOf(r)) BY <2>2, HarnessAssumption, FS_Subset
  <2> DEFINE f == [k \in KeysOf(r) |-> Ref(r, k)]
  <2>4. IsFiniteSet({f[k] : k \in KeysOf(r)}) BY <2>3, ImageFinite
  <2>5. {f[k] : k \in KeysOf(r)} = {Ref(r, k) : k \in KeysOf(r)} OBVIOUS
  <2>6. QED BY <2>4, <2>5
<1>4. IsFiniteSet({{Ref(r, k) : k \in KeysOf(r)} : r \in RangeOf(All)})
  <2> DEFINE f == [r \in RangeOf(All) |-> {Ref(r, k) : k \in KeysOf(r)}]
  <2>1. IsFiniteSet({f[r] : r \in RangeOf(All)}) BY <1>2, ImageFinite
  <2>2. {f[r] : r \in RangeOf(All)} = {{Ref(r, k) : k \in KeysOf(r)} : r \in RangeOf(All)} OBVIOUS
  <2>3. QED BY <2>1, <2>2
<1> DEFINE S == {{Ref(r, k) : k \in KeysOf(r)} : r \in RangeOf(All)}
<1>5. \A T \in S : IsFiniteSet(T) BY <1>3
<1>6. IsFiniteSet(UNION S)
  <2>1. IsFiniteSet(S) BY <1>4
  <2> HIDE DEF S
  <2>2. QED BY <1>5, <2>1, FS_UNION
<1>7. QED BY <1>6 DEF Refs

\* The invocations that the readers name are there.
LEMMA AffectedFinite ==
    ASSUME NEW refs, \A f \in RangeOf(refs) : f \in Refs, NEW S \in SUBSET Keys
    PROVE  IsFiniteSet(PrimariesOf(refs) \cup S)
<1>1. ASSUME NEW f \in RangeOf(refs), NEW r \in Named(All, f) PROVE KeyFor(r, f.key) \in Keys
  <2>1. f \in Refs OBVIOUS
  <2>6. PICK q \in RangeOf(All) : \E k \in KeysOf(q) : f = Ref(q, k) BY <2>1 DEF Refs
  <2>2. PICK k \in KeysOf(q) : f = Ref(q, k) BY <2>6
  <2>3. r = q /\ f.key = NN(k) BY <2>2, OneByID DEF Named, Ref
  <2>4. KeyFor(r, f.key) = k BY <2>2, <2>3, OwnKey
  <2>5. QED BY <2>4 DEF KeysOf
<1>2. PrimariesOf(refs) \subseteq Keys BY <1>1 DEF PrimariesOf
<1>3. PrimariesOf(refs) \cup S \subseteq Keys BY <1>2
<1>4. QED BY <1>3, HarnessAssumption, FS_Subset

LEMMA Second ==
    ASSUME NEW s, NEW h, Call(s, h), FunctionsFit, NEW key \in Keys, NEW alive,
           NEW refs, Len(refs) \in Nat, \A f \in RangeOf(refs) : f \in Refs
    PROVE  Call(s, Handled2(h, key, refs, alive))
<1> DEFINE list    == IF alive THEN patchReconcilers ELSE <<>>
           outputs == Each(LAMBDA g, f : RefRun(reconcilers, g, f), h, refs)
           patches == Each(LAMBDA g, r : OwnRun(key, g, r), outputs, list)
           done    == Each(LAMBDA g, f : RefRun(patchReconcilers, g, f), patches, refs)
           affected == PrimariesOf(refs) \cup (IF alive THEN {key} ELSE {})
           c       == [h |-> done, deletingPrimaries |-> {}]
           last    == Each(LAMBDA d, r : Statuses(affected, d, r), c, statusReconcilers)
<1>1. Handled2(h, key, refs, alive) = last.h BY DEF Handled2
<1>2. outputs = Ref1!Loop(reconcilers, h, refs) BY DEF Each, Ref1!Loop
<1> HIDE DEF outputs, list
<1>3. patches = Own1!Loop(key, outputs, list) BY DEF Each, Own1!Loop
<1> HIDE DEF patches
<1>4. done = Ref1!Loop(patchReconcilers, patches, refs) BY DEF Each, Ref1!Loop
<1> HIDE DEF done, affected, c
<1>5. last = Status2!Loop(affected, c, statusReconcilers) BY DEF Each, Status2!Loop
<1> HIDE DEF last
<1>6. Call(s, outputs) BY <1>2, RefRuns
<1>7. Len(list) \in Nat /\ \A i \in 1 .. Len(list) : list[i] \in RangeOf(reconcilers) \cup RangeOf(patchReconcilers)
  <2>1. CASE alive BY <2>1, InAll DEF list, RangeOf
  <2>2. CASE ~alive BY <2>2 DEF list
  <2>3. QED BY <2>1, <2>2
<1>8. Call(s, patches) BY <1>3, <1>6, <1>7, OwnRuns
<1>9. Call(s, done) BY <1>4, <1>8, RefRuns
<1>10. CallOf(s, c) BY <1>9 DEF CallOf, c
<1>11. IsFiniteSet(affected)
  <2> DEFINE S == IF alive THEN {key} ELSE {}
  <2>1. S \in SUBSET Keys OBVIOUS
  <2> HIDE DEF S
  <2>2. IsFiniteSet(PrimariesOf(refs) \cup S)
    BY <2>1, AffectedFinite
  <2>3. QED BY <2>2 DEF affected, S
<1>12. CallOf(s, last) BY <1>5, <1>10, <1>11, AllStatuses
<1>13. QED BY <1>1, <1>12 DEF CallOf

-----------------------------------------------------------------------------
\* fullReconcile.

\* d is [h, cleanedUp] during the passes; c.list is the list of c.of, which s
\* has seen.
Pass0(s, d) == Call(s, d.h) /\ d = [h |-> d.h, cleanedUp |-> d.cleanedUp]

Visit1 == INSTANCE Loops WITH Step <- Visit, Inv <- Pass0
Pass1  == INSTANCE Loops WITH Step <- Pass, Inv <- Pass0
VisitStatus1 == INSTANCE Loops WITH Step <- VisitStatus, Inv <- Call
StatusPass1  == INSTANCE Loops WITH Step <- StatusPass, Inv <- Call

LEMMA OneVisit ==
    ASSUME NEW s, NEW d, Pass0(s, d), FunctionsFit, NEW c,
           c.of \in RangeOf(reconcilers) \cup RangeOf(patchReconcilers),
           \A k \in DOMAIN c.list : c.list[k] \in s.seen /\ c.list[k].key = k /\ k.gvk = c.of.primary,
           NEW k
    PROVE  Pass0(s, Visit(c, d, k))
<1>1. CASE k \notin DOMAIN c.list BY <1>1 DEF Visit
<1>2. CASE k \in DOMAIN c.list /\ ~Leaving(c.list[k])
  <2>1. Visit(c, d, k) = [d EXCEPT !.h = Run(d.h, c.of, k)] BY <1>2 DEF Visit
  <2>2. k.gvk = c.of.primary BY <1>2
  <2>3. Call(s, Run(d.h, c.of, k)) BY <2>2, OneRun DEF Pass0
  <2>4. QED BY <2>1, <2>3 DEF Pass0
<1>3. CASE k \in DOMAIN c.list /\ Leaving(c.list[k]) /\ k \in d.cleanedUp BY <1>3 DEF Visit
<1>4. CASE k \in DOMAIN c.list /\ Leaving(c.list[k]) /\ k \notin d.cleanedUp
  <2> DEFINE p == c.list[k]
  <2>1. Visit(c, d, k) = [h |-> RunCleanup(d.h, p), cleanedUp |-> d.cleanedUp \cup {k}] BY <1>4 DEF Visit
  <2>2. p \in s.seen /\ p.key.gvk = c.of.primary BY <1>4
  <2>3. c.of \in RangeOf(All) BY InAll
  <2>4. IsPrimary(p.key.gvk) BY <2>2, <2>3 DEF IsPrimary
  <2>5. ~IsObject(None) BY DEF FunctionsFit
  <2> HIDE DEF p
  <2>6. Call(s, RunCleanup(d.h, p)) BY <2>2, <2>4, <2>5, Cleanup DEF Pass0
  <2>7. QED BY <2>1, <2>6 DEF Pass0
<1>5. QED BY <1>1, <1>2, <1>3, <1>4

\* What a list holds.
LEMMA ListedNow ==
    ASSUME NEW s, NEW h, Call(s, h), NEW r, NEW list, list = Listed(h, r)
    PROVE  /\ Call(Seeing(s, {list[k] : k \in DOMAIN list}), h)
           /\ \A k \in DOMAIN list : list[k].key = k /\ k.gvk = r.primary
<1> DEFINE P == {list[k] : k \in DOMAIN list}
<1>1. \A k \in DOMAIN list : k \in Keys /\ k.gvk = r.primary /\ list[k] = h.store.objects[k] /\ list[k] # None
  BY DEF Listed, KeysOf
<1>2. \A p \in P : p # None /\ \E k \in Keys : p = h.store.objects[k] BY <1>1
<1>3. Call(Seeing(s, P), h)
  <2> HIDE DEF P
  <2> QED BY <1>2, LookNow
<1>4. Fits(h) BY DEF Call, Midway
<1>5. \A k \in DOMAIN list : list[k].key = k BY <1>1, <1>4 DEF Fits
<1>6. QED BY <1>1, <1>3, <1>5

LEMMA OnePass ==
    ASSUME NEW s, NEW d, Pass0(s, d), FunctionsFit,
           NEW r \in RangeOf(reconcilers) \cup RangeOf(patchReconcilers), NEW order, Len(order) \in Nat
    PROVE  Pass0(s, Pass(order, d, r))
<1> DEFINE list == Listed(d.h, r)
           c == [of |-> r, list |-> list]
           P == {list[k] : k \in DOMAIN list}
           t == Seeing(s, P)
           last == Each(LAMBDA e, k : Visit(c, e, k), d, order)
<1>1. Pass(order, d, r) = last BY DEF Pass
<1> HIDE DEF list
<1>2. c.of = r /\ c.list = list OBVIOUS
<1> HIDE DEF c
<1>3. last = Visit1!Loop(c, d, order) BY DEF Each, Visit1!Loop
<1> HIDE DEF last
<1>4. Call(s, d.h) BY DEF Pass0
<1>5. Call(t, d.h) /\ \A k \in DOMAIN list : list[k].key = k /\ k.gvk = r.primary
  BY <1>4, ListedNow DEF list
<1>6. \A k \in DOMAIN list : list[k] \in t.seen BY DEF Seeing
<1> HIDE DEF t, P
<1>7. Pass0(t, d) BY <1>5 DEF Pass0
<1>8. ASSUME NEW n \in 1 .. Len(order), NEW e, Pass0(t, e) PROVE Pass0(t, Visit(c, e, order[n]))
  BY <1>2, <1>5, <1>6, <1>8, OneVisit
<1>9. Pass0(t, Visit1!Loop(c, d, order)) BY <1>7, <1>8, Visit1!Preserves
<1>10. Pass0(t, last) BY <1>3, <1>9
<1>11. Pass0(s, last) BY <1>10, LookAway DEF Pass0, t
<1>12. QED BY <1>1, <1>11

LEMMA Passes ==
    ASSUME NEW s, NEW d, Pass0(s, d), FunctionsFit, NEW order, Len(order) \in Nat,
           NEW list \in {reconcilers, patchReconcilers}
    PROVE  Pass0(s, Pass1!Loop(order, d, list))
<1>1. /\ Len(list) \in Nat
      /\ \A n \in 1 .. Len(list) : list[n] \in RangeOf(reconcilers) \cup RangeOf(patchReconcilers)
  BY InAll DEF RangeOf
<1>2. ASSUME NEW n \in 1 .. Len(list), NEW e, Pass0(s, e) PROVE Pass0(s, Pass(order, e, list[n]))
  BY <1>1, <1>2, OnePass
<1>3. QED BY <1>1, <1>2, Pass1!Preserves

LEMMA OneStatusPass ==
    ASSUME NEW s, NEW h, Call(s, h), FunctionsFit, NEW r \in RangeOf(statusReconcilers),
           NEW order, Len(order) \in Nat
    PROVE  Call(s, StatusPass(order, h, r))
<1> DEFINE list == Listed(h, r)
           c == [of |-> r, list |-> list]
           last == Each(LAMBDA g, k : VisitStatus(c, g, k), h, order)
<1>1. StatusPass(order, h, r) = last BY DEF StatusPass
<1>2. \A k \in DOMAIN list : k.gvk = r.primary BY DEF Listed, KeysOf
<1> HIDE DEF list
<1>3. c.of = r /\ c.list = list OBVIOUS
<1> HIDE DEF c
<1>4. last = VisitStatus1!Loop(c, h, order) BY DEF Each, VisitStatus1!Loop
<1> HIDE DEF last
<1>5. ASSUME NEW n \in 1 .. Len(order), NEW g, Call(s, g) PROVE Call(s, VisitStatus(c, g, order[n]))
  <2> DEFINE k == order[n]
  <2>1. CASE k \notin DOMAIN list \/ Leaving(list[k]) BY <1>3, <1>5, <2>1 DEF VisitStatus
  <2>2. CASE ~(k \notin DOMAIN list \/ Leaving(list[k]))
    <3>1. VisitStatus(c, g, k) = RunStatus(g, r, k) BY <1>3, <2>2 DEF VisitStatus
    <3>2. k.gvk = r.primary BY <1>2, <2>2
    <3> HIDE DEF k
    <3>3. Call(s, RunStatus(g, r, k)) BY <1>5, <3>2, StatusRun
    <3>4. QED BY <3>1, <3>3 DEF k
  <2>3. QED BY <2>1, <2>2
<1>6. Call(s, VisitStatus1!Loop(c, h, order)) BY <1>5, VisitStatus1!Preserves
<1>7. QED BY <1>1, <1>4, <1>6

LEMMA FullRun ==
    ASSUME NEW s, NEW h, Call(s, h), FunctionsFit, NEW order, Len(order) \in Nat
    PROVE  Call(s, Full(h, order))
<1> DEFINE d0      == [h |-> h, cleanedUp |-> {}]
           outputs == Each(LAMBDA d, r : Pass(order, d, r), d0, reconcilers)
           done    == Each(LAMBDA d, r : Pass(order, d, r), outputs, patchReconcilers)
           last    == Each(LAMBDA g, r : StatusPass(order, g, r), done.h, statusReconcilers)
<1>1. Full(h, order) = last BY DEF Full
<1>2. Pass0(s, d0) BY DEF Pass0
<1> HIDE DEF d0
<1>3. outputs = Pass1!Loop(order, d0, reconcilers) BY DEF Each, Pass1!Loop
<1> HIDE DEF outputs
<1>4. done = Pass1!Loop(order, outputs, patchReconcilers) BY DEF Each, Pass1!Loop
<1> HIDE DEF done
<1>5. last = StatusPass1!Loop(order, done.h, statusReconcilers) BY DEF Each, StatusPass1!Loop
<1> HIDE DEF last
<1>6. Pass0(s, outputs) BY <1>2, <1>3, Passes
<1>7. Pass0(s, done) BY <1>4, <1>6, Passes
<1>8. Call(s, done.h) BY <1>7 DEF Pass0
<1>9. /\ Len(statusReconcilers) \in Nat
      /\ \A n \in 1 .. Len(statusReconcilers) : statusReconcilers[n] \in RangeOf(statusReconcilers)
  BY InAll DEF RangeOf
<1>10. ASSUME NEW n \in 1 .. Len(statusReconcilers), NEW g, Call(s, g)
       PROVE  Call(s, StatusPass(order, g, statusReconcilers[n]))
  BY <1>9, <1>10, OneStatusPass
<1>11. Call(s, last) BY <1>5, <1>8, <1>9, <1>10, StatusPass1!Preserves
<1>12. QED BY <1>1, <1>11

-----------------------------------------------------------------------------
\* The calls of a test.

\* The inductive invariant: the shape of the state, and what the manager's
\* records say of one another and of the contributions.
Good ==
    /\ Fits(Now) /\ Others(manager) /\ Backed(Now) /\ Followed(manager) /\ IsFiniteSet(contributed)
    /\ stage.settles \in 0 .. Depth /\ stage.edits \in Nat

\* A call starts from empty records.
Start == [from |-> Fresh, seen |-> {}]

LEMMA Starts ==
    ASSUME Good
    PROVE  Call(Start, Fresh)
<1> DEFINE f == Fresh
<1>1. /\ f.store.objects = store.objects /\ f.store.Applied = <<>> /\ f.store.Deleted = <<>>
      /\ f.store.StatusPatches = <<>> /\ f.store.ForeignPatched = <<>> /\ f.store.ForeignReverted = <<>>
      /\ f.events = <<>> /\ f.manager = manager /\ f.reported = reported /\ f.contributed = contributed
      /\ Shaped(f)
  <2> DEFINE st == Reset(store)
  <2>1. /\ st = [objects |-> store.objects, Applied |-> <<>>, Deleted |-> <<>>,
                 StatusPatches |-> <<>>, ForeignPatched |-> <<>>, ForeignReverted |-> <<>>]
    BY DEF Reset, NewObjectStore
  <2>2. f = [[Now EXCEPT !.store = st] EXCEPT !.events = <<>>] BY DEF Fresh, Now
  <2> HIDE DEF st, f
  <2>3. [Now EXCEPT !.store = st] = [store |-> st, events |-> events, manager |-> manager,
                                     reported |-> reported, contributed |-> contributed]
    BY DEF Now
  <2>4. f = [store |-> st, events |-> <<>>, manager |-> manager,
             reported |-> reported, contributed |-> contributed]
    BY <2>2, <2>3
  <2>5. QED BY <2>1, <2>4 DEF Shaped
<1>2. Fits(Now) /\ Now.store = store /\ Now.events = events /\ Now.manager = manager
      /\ Now.reported = reported /\ Now.contributed = contributed
  BY DEF Good, Now
<1>3. Start.from = f /\ Start.seen = {} BY DEF Start
<1> HIDE DEF f
<1>4. <<>> \in Seq(NNs) /\ <<>> \in Seq(Events) /\ Len(<<>>) = 0 /\ RangeOf(<<>>) = {} BY DEF RangeOf
<1>5. Fits(f)
  <2>1. /\ DOMAIN f.store.objects = Keys
        /\ \A k \in Keys : f.store.objects[k] # None => IsObject(f.store.objects[k]) /\ f.store.objects[k].key = k
    BY <1>1, <1>2 DEF Fits
  <2>2. DOMAIN f.reported = Keys /\ f.contributed \subseteq [ref : Refs, target : Keys] BY <1>1, <1>2 DEF Fits
  <2>3. f.manager = Now.manager BY <1>1, <1>2
  <2>4. f.events \in Seq(Events) /\ f.store.Applied \in Seq(NNs) /\ f.store.Deleted \in Seq(NNs)
        /\ f.store.StatusPatches \in Seq(NNs) /\ f.store.ForeignPatched \in Seq(NNs)
        /\ f.store.ForeignReverted \in Seq(NNs)
    BY <1>1, <1>4
  <2>5. PICK h : h = Now OBVIOUS
  <2>6. QED BY <1>1, <1>2, <2>1, <2>2, <2>3, <2>4, <2>5, FitsStep
<1>6. Objects(Start, f)
  <2>1. \A k \in Keys : Accounted(Start, f, k, f.store.objects[k]) BY <1>3 DEF Accounted
  <2>2. RangeOf(f.store.Deleted) = {} BY <1>1, <1>4
  <2>3. QED BY <1>3, <2>1, <2>2 DEF Objects
<1>7. Counts(f)
  <2>1. \A reason : {i \in DOMAIN f.events : f.events[i].reason = reason} = {} BY <1>1
  <2>2. \A reason : Count(f.events, reason) = 0 BY <2>1, FS_EmptySet DEF Count
  <2>3. QED BY <1>1, <1>4, <2>2 DEF Counts
<1>8. Reverts(Start, f)
  <2>1. IsFiniteSet(contributed) BY DEF Good
  <2>2. Cardinality(contributed) \in Nat BY <2>1, FS_CardinalityType
  <2>3. Start.from.contributed = contributed BY <1>1, <1>3
  <2>4. Len(f.store.ForeignReverted) = 0 /\ Len(f.store.ForeignPatched) = 0
        /\ RangeOf(f.store.ForeignReverted) = {} /\ RangeOf(f.store.ForeignPatched) = {}
    BY <1>1, <1>4
  <2>5. QED BY <1>1, <2>1, <2>2, <2>3, <2>4 DEF Reverts
<1>9. Others(f.manager) /\ Backed(f) /\ Followed(f.manager) BY <1>1, <1>2 DEF Good, Backed
<1>10. Call(Start, f) BY <1>5, <1>6, <1>7, <1>8, <1>9 DEF Call, Midway
<1>11. QED BY <1>10 DEF f

\* Every order of a finite set is a list of its elements.
LEMMA Orders ==
    ASSUME NEW S, IsFiniteSet(S), NEW q \in SetToSeqs(S)
    PROVE  Len(q) \in Nat /\ \A x \in RangeOf(q) : x \in S
<1>1. Cardinality(S) \in Nat BY FS_CardinalityType
<1>2. q \in [1 .. Cardinality(S) -> S] BY DEF SetToSeqs
<1>3. q \in Seq(S) BY <1>1, <1>2
<1>4. QED BY <1>2, <1>3 DEF RangeOf

\* Both calls end in a state that Call relates to their start.
LEMMA Reconciles ==
    ASSUME Good, FunctionsFit, NEW key \in Keys, Reconcile(key)
    PROVE  /\ \E h : Call(Start, h) /\ Become(h)
           /\ stage'.settles \in 0 .. Depth /\ stage'.edits = 0
<1> DEFINE first == Handled1(Fresh, key)
           affected == Tracker(first.manager.deps)!Affected(key)
           alive == ~(IsPrimary(key.gvk) /\ Deleting(Fresh, key))
<1>1. PICK refs \in SetToSeqs(affected) : Become(Handled2(first, key, refs, alive)) BY DEF Reconcile
<1>2. affected \subseteq Refs BY DEF Tracker!Affected
<1> HIDE DEF affected
<1>3. IsFiniteSet(affected) BY <1>2, RefsFinite, FS_Subset
<1>4. Len(refs) \in Nat /\ \A f \in RangeOf(refs) : f \in Refs BY <1>2, <1>3, Orders
<1>5. Call(Start, first) BY Starts, First
<1> HIDE DEF first, alive
<1>6. Call(Start, Handled2(first, key, refs, alive)) BY <1>4, <1>5, Second
<1>7. stage'.settles = 0 /\ stage'.edits = 0 BY DEF Reconcile
<1>8. 0 \in 0 .. Depth BY HarnessAssumption
<1>9. QED BY <1>1, <1>6, <1>7, <1>8

LEMMA Settles ==
    ASSUME Good, FunctionsFit, Settle
    PROVE  /\ \E h : Call(Start, h) /\ Become(h)
           /\ stage'.settles \in 0 .. Depth /\ stage'.edits = 0
<1> DEFINE P == {k \in Keys : IsPrimary(k.gvk)}
<1>1. PICK order \in SetToSeqs(P) : Become(Full(Fresh, order)) BY DEF Settle
<1>2. IsFiniteSet(P) BY HarnessAssumption, FS_Subset
<1> HIDE DEF P
<1>3. Len(order) \in Nat BY <1>2, Orders
<1>4. Call(Start, Full(Fresh, order)) BY <1>3, Starts, FullRun
<1>5. stage'.edits = 0 /\ stage'.settles = IF stage.settles < Depth THEN stage.settles + 1 ELSE Depth
  BY DEF Settle
<1>6. stage'.settles \in 0 .. Depth BY <1>5, HarnessAssumption DEF Good
<1>7. QED BY <1>1, <1>4, <1>5, <1>6

\* What Call says at the end of a call, of the variables.
LEMMA Ends ==
    ASSUME Good, NEW h, Call(Start, h), Become(h), stage'.settles \in 0 .. Depth, stage'.edits = 0
    PROVE  Good' /\ Tells /\ TakesBack
<1>0. /\ Fits(h) /\ Objects(Start, h) /\ Counts(h) /\ Reverts(Start, h) /\ Others(h.manager) /\ Backed(h)
      /\ Followed(h.manager)
  BY DEF Call, Midway
<1>1. /\ store' = h.store /\ events' = h.events /\ manager' = h.manager
      /\ reported' = h.reported /\ contributed' = h.contributed
  BY DEF Become
<1>2. Now' = h BY <1>0, <1>1 DEF Now, Fits
<1>3. /\ Start.from.store.objects = store.objects /\ Start.from.reported = reported
      /\ Start.from.contributed = contributed
  BY DEF Start, Fresh, Now, Reset, NewObjectStore
<1>4. Good'
  <2>1. Fits(Now)' BY <1>0, <1>2
  <2>2. Others(manager)' BY <1>0, <1>1
  <2>3. Backed(Now)' BY <1>0, <1>2
  <2>4. IsFiniteSet(contributed)' BY <1>0, <1>1 DEF Reverts
  <2>5. Followed(manager)' BY <1>0, <1>1
  <2>6. QED BY <2>1, <2>2, <2>3, <2>4, <2>5 DEF Good
<1>5. Tells
  <2>1. ASSUME NEW k \in Keys, store'.objects[k] # store.objects[k]
        PROVE  \/ AssertApplied(k)' \/ AssertDeleted(k)' \/ AssertForeignPatched(k)'
               \/ IsPrimary(k.gvk) /\ store'.objects[k].data = store.objects[k].data
    <3>1. Accounted(Start, h, k, h.store.objects[k]) BY <1>0 DEF Objects
    <3> DEFINE was == Start.from.store.objects[k]
               is  == h.store.objects[k]
    <3>4. was = store.objects[k] /\ is = store'.objects[k] BY <1>1, <1>3
    <3>5. is = was \/ Told(h, NN(k)) \/ (IsPrimary(k.gvk) /\ is.data = was.data) BY <3>1 DEF Accounted
    <3> HIDE DEF was, is
    <3>2. Told(h, NN(k)) \/ (IsPrimary(k.gvk) /\ store'.objects[k].data = store.objects[k].data)
      BY <2>1, <3>4, <3>5
    <3>3. QED BY <1>1, <3>2 DEF Told, AssertApplied, AssertDeleted, AssertForeignPatched
  <2>2. ASSUME NEW k \in Keys, reported'[k] # reported[k] PROVE AssertStatusPatched(k)'
    BY <1>0, <1>1, <1>3, <2>2 DEF Objects, AssertStatusPatched
  <2>3. ASSUME NEW n \in RangeOf(store'.Deleted)
        PROVE  \E k \in Keys :
                  /\ NN(k) = n
                  /\ store'.objects[k] = None \/ AssertApplied(k)' \/ AssertForeignPatched(k)' \/ CleanedUp(k)'
    <3>1. Gone(h, n) BY <1>0, <1>1, <2>3 DEF Objects
    <3>2. QED BY <1>1, <3>1 DEF Gone, AssertApplied, AssertForeignPatched, CleanedUp
  <2>4. /\ Len(store'.Applied) = CountEvents("Applied")'
        /\ Len(store'.Deleted) = CountEvents("Deleted")'
        /\ Len(store'.ForeignPatched) = CountEvents("Patched")'
    BY <1>0, <1>1 DEF Counts, Count, CountEvents
  <2>5. QED BY <2>1, <2>2, <2>3, <2>4 DEF Tells
<1>6. TakesBack
  <2>1. ASSUME NEW n \in RangeOf(store'.ForeignReverted)
        PROVE  n \in RangeOf(store'.ForeignPatched) \cup {NN(c.target) : c \in contributed}
    BY <1>0, <1>1, <1>3, <2>1 DEF Reverts, Targets
  <2>2. Len(store'.ForeignReverted) + Cardinality(contributed')
          <= Len(store'.ForeignPatched) + Cardinality(contributed)
    BY <1>0, <1>1, <1>3 DEF Reverts
  <2>3. QED BY <2>1, <2>2 DEF TakesBack
<1>7. QED BY <1>4, <1>5, <1>6

LEMMA Initially ==
    ASSUME FunctionsFit, Init PROVE Good
<1> DEFINE h == Now
<1>1. /\ h.store.objects = [k \in Keys |-> None] /\ h.store.Applied = <<>> /\ h.store.Deleted = <<>>
      /\ h.store.StatusPatches = <<>> /\ h.store.ForeignPatched = <<>> /\ h.store.ForeignReverted = <<>>
      /\ h.events = <<>> /\ h.manager = manager /\ h.reported = [k \in Keys |-> None] /\ h.contributed = {}
      /\ Shaped(h)
  BY DEF Init, Now, NewObjectStore, Shaped
<1>2. <<>> \in Seq(NNs) /\ <<>> \in Seq(Events) OBVIOUS
<1>3. /\ manager = [lastOutputs |-> manager.lastOutputs, lastPatches |-> manager.lastPatches,
                    deps |-> manager.deps]
      /\ manager.lastOutputs = [ref \in Refs |-> {}] /\ manager.lastPatches = [ref \in Refs |-> {}]
      /\ manager.deps = [ref \in Refs |-> [narrow |-> {}, broad |-> {}]]
  BY DEF Init
<1>4. ManagerFits(manager) BY <1>3 DEF ManagerFits
<1>5. Fits(h)
  <2> HIDE DEF h
  <2>1. {h.manager.lastOutputs, h.manager.lastPatches} \subseteq [Refs -> SUBSET Keys] BY <1>1, <1>4 DEF ManagerFits
  <2>2. \A record \in {h.store.Applied, h.store.Deleted, h.store.StatusPatches, h.store.ForeignPatched,
                       h.store.ForeignReverted} : record \in Seq({NN(k) : k \in Keys})
    BY <1>1, <1>2 DEF NNs
  <2>3. QED BY <1>1, <1>2, <1>4, <2>1, <2>2 DEF Fits, Shaped, ManagerFits, Events
<1>6. Others(manager)
  <2>1. ASSUME NEW r \in RangeOf(reconcilers), NEW k \in KeysOf(r) PROVE k \notin manager.lastOutputs[Ref(r, k)]
    <3>1. Ref(r, k) \in Refs BY InAll, RefIn
    <3>2. QED BY <1>3, <3>1
  <2>2. QED BY <2>1 DEF Others
<1>7. Backed(h) BY <1>1, <1>3 DEF Backed
<1>8. IsFiniteSet(contributed) BY FS_EmptySet DEF Init
<1>9. stage.settles = 0 /\ stage.edits = 0 BY DEF Init
<1>10. stage.settles \in 0 .. Depth /\ stage.edits \in Nat BY <1>9, HarnessAssumption
<1>11. Followed(manager)
  <2>1. \A r \in RangeOf(patchReconcilers) \cup RangeOf(statusReconcilers) : \A k \in KeysOf(r) : Ref(r, k) \in Refs
    BY InAll, RefIn
  <2>2. QED BY <1>3, <2>1 DEF Followed
<1>12. QED BY <1>5, <1>6, <1>7, <1>8, <1>10, <1>11 DEF Good

\* A change by hand, of one object.
LEMMA Edited ==
    ASSUME Good, FunctionsFit, NEW key \in Keys, NEW o, o # None => IsObject(o) /\ o.key = key,
           store' = [store EXCEPT !.objects[key] = o], Touch(key),
           UNCHANGED <<events, manager, reported, contributed>>
    PROVE  Good' /\ ~CallMade
<1> DEFINE h == Now
           g == Now'
<1>0. Fits(h) /\ h.store = store /\ h.events = events /\ h.manager = manager
      /\ h.reported = reported /\ h.contributed = contributed
  BY DEF Good, Now
<1>1. store = [objects |-> store.objects, Applied |-> store.Applied, Deleted |-> store.Deleted,
               StatusPatches |-> store.StatusPatches, ForeignPatched |-> store.ForeignPatched,
               ForeignReverted |-> store.ForeignReverted]
  BY <1>0 DEF Fits
<1>2. /\ g.store.objects = [store.objects EXCEPT ![key] = o]
      /\ g.store.Applied = store.Applied /\ g.store.Deleted = store.Deleted
      /\ g.store.StatusPatches = store.StatusPatches /\ g.store.ForeignPatched = store.ForeignPatched
      /\ g.store.ForeignReverted = store.ForeignReverted
      /\ g.events = events /\ g.manager = manager /\ g.reported = reported /\ g.contributed = contributed
      /\ Shaped(g)
  BY <1>1 DEF Now, Shaped
<1> HIDE DEF h, g
<1>3. Fits(g)
  <2>1. /\ DOMAIN g.store.objects = Keys
        /\ \A k \in Keys : g.store.objects[k] # None => IsObject(g.store.objects[k]) /\ g.store.objects[k].key = k
    BY <1>0, <1>2 DEF Fits
  <2>2. DOMAIN g.reported = Keys /\ g.contributed \subseteq [ref : Refs, target : Keys] BY <1>0, <1>2 DEF Fits
  <2>3. g.events \in Seq(Events) /\ g.store.Applied \in Seq(NNs) /\ g.store.Deleted \in Seq(NNs)
        /\ g.store.StatusPatches \in Seq(NNs) /\ g.store.ForeignPatched \in Seq(NNs)
        /\ g.store.ForeignReverted \in Seq(NNs)
    BY <1>0, <1>2, ListsFit
  <2>4. Shaped(g) /\ g.manager = h.manager BY <1>0, <1>2
  <2>5. QED BY ONLY <1>0, <2>1, <2>2, <2>3, <2>4, FitsStep
<1>4. Backed(g) BY <1>0, <1>2 DEF Good, Backed, h
<1>5. stage'.settles = 0 /\ stage'.edits = stage.edits + 1 BY DEF Touch
<1>6. stage'.settles \in 0 .. Depth /\ stage'.edits \in Nat /\ stage'.edits # 0
  BY <1>5, HarnessAssumption DEF Good
<1>7. Good'
  <2>1. Fits(Now)' BY <1>3 DEF g
  <2>2. Backed(Now)' BY <1>4 DEF g
  <2>3. Others(manager)' /\ Followed(manager)' BY DEF Good
  <2>4. QED BY <1>6, <2>1, <2>2, <2>3 DEF Good
<1>8. QED BY <1>6, <1>7 DEF CallMade

LEMMA Steps ==
    ASSUME Good, FunctionsFit, [Next]_vars
    PROVE  Good' /\ [CallMade => Tells]_vars /\ [CallMade => TakesBack]_vars
<1>1. CASE UNCHANGED vars
  <2>1. Good' BY <1>1 DEF Good, vars, Now
  <2>2. QED BY <1>1, <2>1
<1>2. ASSUME NEW obj \in TestObjects, TestSets(obj) PROVE Good' /\ ~CallMade
  <2>1. IsObject(obj) BY HarnessAssumption
  <2>2. obj.key \in Keys BY <2>1 DEF IsObject
  <2>3. store' = [store EXCEPT !.objects[obj.key] = obj] BY <1>2 DEF TestSets, SetObject
  <2>4. Touch(obj.key) /\ UNCHANGED <<events, manager, reported, contributed>> BY <1>2 DEF TestSets
  <2>5. QED BY <2>1, <2>2, <2>3, <2>4, Edited
<1>3. ASSUME NEW key \in Keys, TestDeletes(key) PROVE Good' /\ ~CallMade
  <2>1. store' = [store EXCEPT !.objects[key] = None] BY <1>3 DEF TestDeletes, DeleteObject
  <2>2. Touch(key) /\ UNCHANGED <<events, manager, reported, contributed>> BY <1>3 DEF TestDeletes
  <2>3. QED BY <2>1, <2>2, Edited
<1>4. ASSUME NEW key \in Keys, Reconcile(key) PROVE Good' /\ Tells /\ TakesBack
  <2>1. PICK h : Call(Start, h) /\ Become(h) BY <1>4, Reconciles
  <2>2. stage'.settles \in 0 .. Depth /\ stage'.edits = 0 BY <1>4, Reconciles
  <2>3. QED BY <2>1, <2>2, Ends
<1>5. ASSUME Settle PROVE Good' /\ Tells /\ TakesBack
  <2>1. PICK h : Call(Start, h) /\ Become(h) BY <1>5, Settles
  <2>2. stage'.settles \in 0 .. Depth /\ stage'.edits = 0 BY <1>5, Settles
  <2>3. QED BY <2>1, <2>2, Ends
<1>6. QED BY <1>1, <1>2, <1>3, <1>4, <1>5 DEF Next

\* The state that a call passes on and leaves behind is of the shape that the
\* runs, the tracker and the next call expect: TypeOK holds after any number of
\* edits and calls, with any reconcilers.
THEOREM TypeCorrect == ASSUME FunctionsFit PROVE Spec => []TypeOK
<1>1. Init => Good BY Initially
<1>2. Good /\ [Next]_vars => Good' BY Steps
<1>3. Good => TypeOK BY DEF Good, TypeOK
<1>4. QED BY <1>1, <1>2, <1>3, PTL DEF Spec

\* What the assertions of a Result say of a call is true: of the objects that
\* have changed, the statuses, the deletions and the events, whatever the
\* reconcilers read and make, in whatever order the tracker's map gives the
\* readers and the lists their primaries.
THEOREM ResultsAreTrue == ASSUME FunctionsFit PROVE Spec => ResultsTell
<1>1. Init => Good BY Initially
<1>2. Good /\ [Next]_vars => Good' /\ [CallMade => Tells]_vars BY Steps
<1>3. QED BY <1>1, <1>2, PTL DEF Spec, ResultsTell

\* No contribution is taken back that had not been made, nor twice, by the
\* runs and cleanups of one call together and over all calls.
THEOREM RevertsAreBacked == ASSUME FunctionsFit PROVE Spec => RevertedOnce
<1>1. Init => Good BY Initially
<1>2. Good /\ [Next]_vars => Good' /\ [CallMade => TakesBack]_vars BY Steps
<1>3. QED BY <1>1, <1>2, PTL DEF Spec, RevertedOnce

\* Every store that a test can reach is one of which ReadsAreTracked speaks:
\* whatever a function has read is found again by the event on it.
THEOREM StoresAreOK == ASSUME FunctionsFit PROVE Spec => []StoreOK(store)
<1>1. Init => Good BY Initially
<1>2. Good /\ [Next]_vars => Good' BY Steps
<1>3. Good => StoreOK(store) BY DEF Good, Fits, Now, StoreOK
<1>4. QED BY <1>1, <1>2, <1>3, PTL DEF Spec

\* What is on record as an output of an invocation is among its dependencies,
\* after any number of edits, calls and cleanups: of each output there is
\* always somebody who notices that it has gone.
THEOREM OutputsAreTracked == ASSUME FunctionsFit PROVE Spec => []OutputsTracked
<1>1. Init => Good BY Initially
<1>2. Good /\ [Next]_vars => Good' BY Steps
<1>3. Good => OutputsTracked BY DEF Good, Followed, OutputsTracked
<1>4. QED BY <1>1, <1>2, <1>3, PTL DEF Spec

\* At any point of a call, a run of an output reconciler brings the store to
\* what its function says: each output is stored with the label, what it has
\* made before and makes no more is gone, and the records agree with both.
THEOREM OutputsAreMade ==
    ASSUME FunctionsFit, NEW s, NEW h, Call(s, h), NEW r \in RangeOf(reconcilers),
           NEW key, key.gvk = r.primary, ~Skips(h, r, key)
    PROVE  OutputsMade(h, r, key, RunOutput(h, r, key))
BY OutputRun

\* A run of a patch reconciler leaves every contribution of its function on its
\* target and on record, has taken back what it makes no more, and touches no
\* other object but its primary; it changes no record when it fails.
THEOREM PatchesAreMade ==
    ASSUME FunctionsFit, NEW s, NEW h, Call(s, h), NEW r \in RangeOf(patchReconcilers),
           NEW key, key.gvk = r.primary, ~Skips(h, r, key)
    PROVE  PatchesMade(h, r, key, RunPatch(h, r, key))
BY PatchRun

\* After a run, an event on an object that its function was given or has made
\* finds the invocation in the tracker: in a list, only of a FetchAll with a
\* namespace, and what is made, unless the run has failed.
THEOREM RunsAreNotified ==
    ASSUME FunctionsFit, NEW s, NEW h, Call(s, h),
           NEW r \in RangeOf(reconcilers) \cup RangeOf(patchReconcilers),
           NEW key, key.gvk = r.primary, ~Skips(h, r, key), NEW g, g = Run(h, r, key),
           NEW f, f = WithFinalizer(h, r, key), NEW p, p = Get(f.store, key),
           NEW outputs, outputs = Results(f, r, key), NEW o,
           \/ /\ Accepts(r, p)
              /\ \E read \in Reads(r, p) :
                    /\ ~IsBroad(read) \/ mergeFilters(read.filters).ns # Unset
                    /\ \E x \in Fetched(f.store, read) : x.key = o
           \/ /\ r \in RangeOf(reconcilers) \/ ~Repeats(outputs)
              /\ \E i \in DOMAIN outputs : outputs[i].key = o
    PROVE  Ref(r, key) \in Tracker(g.manager.deps)!Affected(o)
<1> DEFINE ref   == Ref(r, key)
           reads == Declared(f, r, key)
           want  == {outputs[i].key : i \in DOMAIN outputs}
           dep   == g.manager.deps[ref]
<1>1. Midway(s, f) /\ ref \in Refs
  <2>1. Get(h.store, key) # None BY DEF Skips
  <2>2. r \in RangeOf(All) /\ key \in KeysOf(r) BY <2>1, InAll DEF Get, KeysOf
  <2>3. ~IsObject(None) /\ Midway(s, h) BY DEF FunctionsFit, Call
  <2>4. QED BY <2>1, <2>2, <2>3, Finalizing, RefIn
<1>2. /\ reads.narrow \subseteq dep.narrow /\ dep.broad = reads.broad
      /\ r \in RangeOf(reconcilers) \/ ~Repeats(outputs) => want \subseteq dep.narrow
  <2>1. CASE r \in RangeOf(reconcilers)
    <3>1. OutputsMade(h, r, key, g) BY <2>1, OutputsAreMade DEF Run
    <3>2. QED BY <3>1 DEF OutputsMade
  <2>2. CASE r \notin RangeOf(reconcilers)
    <3>1. r \in RangeOf(patchReconcilers) BY <2>2
    <3>2. PatchesMade(h, r, key, g) BY <2>2, <3>1, PatchesAreMade DEF Run
    <3>3. QED BY <2>2, <3>2 DEF PatchesMade
  <2>3. QED BY <2>1, <2>2
<1> HIDE DEF dep, reads, want, ref
<1>3. o \in dep.narrow \/ [gvk |-> o.gvk, ns |-> o.ns] \in dep.broad
  <2>1. CASE /\ Accepts(r, p)
             /\ \E read \in Reads(r, p) :
                   /\ ~IsBroad(read) \/ mergeFilters(read.filters).ns # Unset
                   /\ \E x \in Fetched(f.store, read) : x.key = o
    <3>1. PICK read \in Reads(r, p) :
                   /\ ~IsBroad(read) \/ mergeFilters(read.filters).ns # Unset
                   /\ \E x \in Fetched(f.store, read) : x.key = o
      BY <2>1
    <3>2. PICK x \in Fetched(f.store, read) : x.key = o BY <3>1
    <3>3. StoreOK(f.store) BY <1>1 DEF Midway, Fits, StoreOK
    <3>4. Tracked(o, narrowDeps(Reads(r, p)), broadDeps(Reads(r, p))) BY <3>1, <3>2, <3>3, ReadsAreTracked
    <3>5. reads.narrow = narrowDeps(Reads(r, p)) /\ reads.broad = broadDeps(Reads(r, p))
      BY <2>1 DEF reads, Declared
    <3>6. QED BY <1>2, <3>4, <3>5 DEF Tracked
  <2>2. CASE /\ r \in RangeOf(reconcilers) \/ ~Repeats(outputs)
             /\ \E i \in DOMAIN outputs : outputs[i].key = o
    <3>1. o \in want BY <2>2 DEF want
    <3>2. QED BY <1>2, <2>2, <3>1
  <2>3. QED BY <2>1, <2>2
<1>4. QED BY <1>1, <1>3 DEF Tracker!Affected, dep, ref

\* And the event runs it again: of the readers that the tracker gives, handle
\* runs the invocation that each of them names.
THEOREM ReadersAreRun ==
    ASSUME NEW r \in RangeOf(All), NEW key \in KeysOf(r), NEW h, NEW list \in {reconcilers, patchReconcilers}
    PROVE  RefRun(list, h, Ref(r, key)) = IF r \in RangeOf(list) THEN Run(h, r, key) ELSE h
<1> DEFINE f == Ref(r, key)
           found == Named(list, f)
<1>1. RangeOf(list) \subseteq RangeOf(All) BY InAll
<1>2. f.id = r.id /\ KeyFor(r, f.key) = key BY OwnKey DEF Ref
<1> HIDE DEF f
<1>3. found = IF r \in RangeOf(list) THEN {r} ELSE {} BY <1>1, <1>2, OneByID DEF Named
<1>4. RefRun(list, h, f) = IF found = {} THEN h
                           ELSE Run(h, CHOOSE q \in found : TRUE, KeyFor(CHOOSE q \in found : TRUE, f.key))
  BY DEF RefRun
<1> HIDE DEF found
<1>5. CASE r \in RangeOf(list)
  <2>1. (CHOOSE q \in found : TRUE) = r /\ found # {} BY <1>3, <1>5
  <2>2. QED BY <1>2, <1>4, <1>5, <2>1 DEF f
<1>6. CASE r \notin RangeOf(list) BY <1>3, <1>4, <1>6 DEF f
<1>7. QED BY <1>5, <1>6
=============================================================================
