----------------------------- MODULE TestHarness -----------------------------
(***************************************************************************)
(* mrtest/harness.go: a manager on an ObjectStore, driven by the calls of  *)
(* a test.  Every call runs to its end before the next one, so that the    *)
(* whole of the manager, with its three kinds of reconcilers, the reads of *)
(* their functions and the cleanup, is composed here without interleaving: *)
(* a run is an operator on the harness's state, a call a fold of runs.     *)
(***************************************************************************)
EXTENDS HandlerContext

CONSTANTS
    reconcilers, patchReconcilers, statusReconcilers,  \* <<[id, primary, target], ...>>
    cleanupFns,       \* the GVKs with an OnDelete callback
    WithPredicate(_, _),  \* reconciler, primary object -> what its predicate says
    Reads(_, _),      \* reconciler, primary object -> what its function reads
    Make(_, _, _),    \* reconciler, primary object, what is read -> <<object, ...>>
    TestObjects,      \* what a test puts in the store
    MaxEdits,         \* changes by hand between two calls
    Depth             \* the longest chain of outputs that are primaries or are read

VARIABLES
    store,        \* the ObjectStore
    events,       \* the EventRecorder: <<[on, reason], ...>>
    manager,      \* [lastOutputs, lastPatches, deps] of the Manager
    reported,     \* history: the last status of each primary
    contributed,  \* history: {[ref, target]}, reported as patched and not as reverted
    stage         \* history: [settles, edits, touched, handled], how the test has gone

vars == <<store, events, manager, reported, contributed, stage>>

-----------------------------------------------------------------------------
All     == reconcilers \o patchReconcilers \o statusReconcilers
RangeOf(s) == {s[i] : i \in DOMAIN s}
Ref(r, key)  == [id |-> r.id, key |-> NN(key)]
KeysOf(r)    == {k \in Keys : k.gvk = r.primary}
Refs         == UNION {{Ref(r, k) : k \in KeysOf(r)} : r \in RangeOf(All)}
KeyFor(r, nn) == [gvk |-> r.primary, ns |-> nn.ns, name |-> nn.name]

IsObject(o) ==
    /\ o = [key |-> o.key, labels |-> o.labels, data |-> o.data,
            finalizers |-> o.finalizers, deleting |-> o.deleting]
    /\ o.key \in Keys

\* An ID names one reconciler.  The code makes it of the Kinds of two types
\* and a count, so that Kinds have to be different where types are.
ASSUME HarnessAssumption ==
    /\ IsFiniteSet(Keys) /\ \A k \in Keys : k = [gvk |-> k.gvk, ns |-> k.ns, name |-> k.name]
    /\ \A list \in {reconcilers, patchReconcilers, statusReconcilers} : list \in Seq(RangeOf(list))
    /\ \A i, j \in DOMAIN All : All[i].id = All[j].id => i = j
    /\ \A o \in TestObjects : IsObject(o)
    /\ Depth \in Nat

Tracker(declared) == INSTANCE DependencyRelation
    WITH GVKs <- {k.gvk : k \in Keys}, Namespaces <- {k.ns : k \in Keys} \cup {Unset},
         Names <- {k.name : k \in Keys}

HasPatches(gvk)     == \E r \in RangeOf(patchReconcilers) : r.primary = gvk
needsFinalizer(gvk) == gvk \in cleanupFns \/ HasPatches(gvk)
IsPrimary(gvk)      == \E r \in RangeOf(All) : r.primary = gvk
Own == "make-reconcile.io/finalizer"

\* The state that the runs of one call pass on.
Now == [store |-> store, events |-> events, manager |-> manager,
        reported |-> reported, contributed |-> contributed]

Become(h) ==
    /\ store' = h.store /\ events' = h.events /\ manager' = h.manager
    /\ reported' = h.reported /\ contributed' = h.contributed

Reasons == {"Applied", "Deleted", "Patched", "ReconcileFailed", "CleanupComplete"}

\* recordEvent: about the primary, when there is one.
Recorded(h, key, reason) ==
    IF Get(h.store, key) = None THEN h
    ELSE [h EXCEPT !.events = Append(@, [on |-> key.name, reason |-> reason])]

\* for _, item := range items.
Each(op(_, _), h, items) ==
    LET after[n \in 0 .. Len(items)] == IF n = 0 THEN h ELSE op(after[n - 1], items[n])
    IN  after[Len(items)]

-----------------------------------------------------------------------------
\* Reconcile of the typed sub-reconcilers: the predicate, which patch
\* reconcilers do not have, the reads, SetDeps, the function.
Accepts(r, p) == r \in RangeOf(patchReconcilers) \/ WithPredicate(r, p)

Seen(h, r, p)     == [read \in Reads(r, p) |-> Fetched(h.store, read)]
Results(h, r, key) ==
    LET p == Get(h.store, key) IN IF Accepts(r, p) THEN Make(r, p, Seen(h, r, p)) ELSE <<>>

SetDeps(h, r, key) ==
    LET p     == Get(h.store, key)
        reads == IF Accepts(r, p) THEN Reads(r, p) ELSE {}
    IN  [h EXCEPT !.manager.deps[Ref(r, key)] = [narrow |-> narrowDeps(reads), broad |-> broadDeps(reads)]]

\* Mutant: the outputs are not added to the dependencies.
AppendNarrow_Nothing(h, r, key, keys) == h

AppendNarrow(h, r, key, keys) == [h EXCEPT !.manager.deps[Ref(r, key)].narrow = @ \cup keys]

\* The early returns of a run, and the finalizer it adds.
Skips(h, r, key) ==
    LET p == Get(h.store, key) IN p = None \/ (needsFinalizer(r.primary) /\ p.deleting)

WithFinalizer(h, r, key) ==
    LET p == Get(h.store, key) IN
    IF needsFinalizer(r.primary) /\ Own \notin p.finalizers
    THEN [h EXCEPT !.store = Merge(@, [p EXCEPT !.finalizers = @ \cup {Own}])] ELSE h

\* setManagedByLabel.
Labelled(o) == [o EXCEPT !.labels = [managedBy |-> "default"] @@ @]

\* runSubReconciler.  The store refuses nothing: every apply and delete of a
\* test succeeds.
ApplyOne(key, h, o) == Recorded([h EXCEPT !.store = Apply(@, Labelled(o))], key, "Applied")
DeleteOne(key, h, k) == Recorded([h EXCEPT !.store = Delete(@, k)], key, "Deleted")

ApplyAll(g, r, key, outputs) ==
    LET ref     == Ref(r, key)
        want    == {outputs[i].key : i \in DOMAIN outputs}
        stale   == g.manager.lastOutputs[ref] \ want
        applied == Each(LAMBDA f, o : ApplyOne(key, f, o), g, outputs)
        noted   == [AppendNarrow(applied, r, key, want) EXCEPT !.manager.lastOutputs[ref] = want]
    IN  Each(LAMBDA f, k : DeleteOne(key, f, k), noted, SetToSeq(stale))

RunOutput(h, r, key) ==
    IF Skips(h, r, key) THEN h
    ELSE ApplyAll(SetDeps(WithFinalizer(h, r, key), r, key), r, key, Results(WithFinalizer(h, r, key), r, key))

\* A function that returns a target twice fails the run, after SetDeps.
Repeats(outputs) == \E i, j \in DOMAIN outputs : i # j /\ outputs[i].key = outputs[j].key

Contribution(ref, k) == [ref |-> ref, target |-> k]

Reverted(ref, h, k) ==
    [h EXCEPT !.store = RevertForeign(@, k), !.contributed = @ \ {Contribution(ref, k)}]

\* c is [ref, key] of the run.
PatchOne(c, h, o) ==
    Recorded([h EXCEPT !.store = PatchForeign(@, o), !.contributed = @ \cup {Contribution(c.ref, o.key)}],
             c.key, "Patched")

\* runPatchReconciler.
PatchAll(g, r, key, outputs) ==
    LET ref     == Ref(r, key)
        want    == {outputs[i].key : i \in DOMAIN outputs}
        stale   == g.manager.lastPatches[ref] \ want
        patched == Each(LAMBDA f, o : PatchOne([ref |-> ref, key |-> key], f, o), g, outputs)
        noted   == AppendNarrow(patched, r, key, want)
    IN  IF Repeats(outputs) THEN Recorded(g, key, "ReconcileFailed")
        ELSE [Each(LAMBDA f, k : Reverted(ref, f, k), noted, SetToSeq(stale))
                 EXCEPT !.manager.lastPatches[ref] = want]

RunPatch(h, r, key) ==
    IF Skips(h, r, key) THEN h
    ELSE PatchAll(SetDeps(WithFinalizer(h, r, key), r, key), r, key, Results(WithFinalizer(h, r, key), r, key))

applyStatus(h, key, status) ==
    [h EXCEPT !.store = PatchStatus(@, key), !.reported[key] = status]

\* runStatusReconciler.
RunStatus(h, r, key) ==
    LET status == Results(h, r, key) IN
    IF Get(h.store, key) = None THEN h
    ELSE IF status = <<>> THEN SetDeps(h, r, key)
    ELSE applyStatus(SetDeps(h, r, key), key, Head(status))

\* Mutant: the record of the contributions stays.
Forget_Outputs(h, key) ==
    [h EXCEPT !.manager.lastOutputs = [ref \in Refs |-> IF ref.key = NN(key) THEN {} ELSE @[ref]]]

\* runCleanup clears the records by the end of their key, the dependencies of
\* the reconcilers of the type.
Forget(h, key) ==
    LET Cleared(record) == [ref \in Refs |-> IF ref.key = NN(key) THEN {} ELSE record[ref]]
        ids == {r.id : r \in {q \in RangeOf(All) : q.primary = key.gvk}}
    IN  [h EXCEPT !.manager.lastOutputs = Cleared(@), !.manager.lastPatches = Cleared(@),
                  !.manager.deps = [ref \in Refs |-> IF ref.key = NN(key) /\ ref.id \in ids
                                                     THEN [narrow |-> {}, broad |-> {}] ELSE @[ref]]]

\* revertAllPatches, of one reconciler.
RevertAll(key, h, r) ==
    LET ref == Ref(r, key) IN
    IF r.primary # key.gvk THEN h
    ELSE Each(LAMBDA g, k : Reverted(ref, g, k), h, SetToSeq(h.manager.lastPatches[ref]))

TakeOff(s, p) == IF Own \in p.finalizers THEN Merge(s, [p EXCEPT !.finalizers = @ \ {Own}]) ELSE s

\* runCleanup of the primary p, as it was read or listed: revert the patches,
\* call the callback, which succeeds, take the finalizer off, forget.
RunCleanup(h, p) ==
    LET reverted == Each(LAMBDA g, r : RevertAll(p.key, g, r), h, patchReconcilers)
    IN  [Forget([reverted EXCEPT !.store = TakeOff(@, p)], p.key) EXCEPT
            !.events = Append(@, [on |-> p.key.name, reason |-> "CleanupComplete"])]

-----------------------------------------------------------------------------
Leaving(p)       == needsFinalizer(p.key.gvk) /\ p.deleting
Deleting(h, key) == Get(h.store, key) # None /\ Leaving(Get(h.store, key))

\* A run of an output or patch reconciler, with the list it is in.
Run(h, r, key) == IF r \in RangeOf(reconcilers) THEN RunOutput(h, r, key) ELSE RunPatch(h, r, key)

\* The reconcilers of a list whose primary this is, and those the readers name.
OwnRun(key, h, r) == IF r.primary = key.gvk THEN Run(h, r, key) ELSE h
Named(list, f)    == {r \in RangeOf(list) : r.id = f.id}
RefRun(list, h, f) ==
    IF Named(list, f) = {} THEN h
    ELSE LET r == CHOOSE r \in Named(list, f) : TRUE IN Run(h, r, KeyFor(r, f.key))

PrimariesOf(refs) == UNION {{KeyFor(r, f.key) : r \in Named(All, f)} : f \in RangeOf(refs)}

\* A primary that is being deleted has no status, nor have its namesakes after it.
DoStatus(r, c, key) ==
    IF NN(key) \in c.deletingPrimaries THEN c
    ELSE IF Deleting(c.h, key) THEN [c EXCEPT !.deletingPrimaries = @ \cup {NN(key)}]
    ELSE [c EXCEPT !.h = RunStatus(@, r, key)]
Statuses(affected, c, r) ==
    Each(LAMBDA d, k : DoStatus(r, d, k), c, SetToSeq({k \in affected : k.gvk = r.primary}))

\* handle, to the point where it asks the tracker.
Handled1(h, key) ==
    IF IsPrimary(key.gvk) /\ Deleting(h, key) THEN RunCleanup(h, Get(h.store, key))
    ELSE Each(LAMBDA g, r : OwnRun(key, g, r), h, reconcilers)

\* The rest of handle: refs are the readers of the object, in the order of the
\* tracker's map; alive, that the object itself is not being deleted.
Handled2(h, key, refs, alive) ==
    LET outputs == Each(LAMBDA g, f : RefRun(reconcilers, g, f), h, refs)
        patches == Each(LAMBDA g, r : OwnRun(key, g, r), outputs, IF alive THEN patchReconcilers ELSE <<>>)
        done    == Each(LAMBDA g, f : RefRun(patchReconcilers, g, f), patches, refs)
        affected == PrimariesOf(refs) \cup (IF alive THEN {key} ELSE {})
    IN  Each(LAMBDA c, r : Statuses(affected, c, r), [h |-> done, deletingPrimaries |-> {}],
             statusReconcilers).h

\* The list of the primaries of a reconciler.
Listed(h, r) == [k \in {q \in KeysOf(r) : h.store.objects[q] # None} |-> h.store.objects[k]]

\* One primary of the list c.list of c.of, if it is there; what is being
\* deleted is cleaned up at most once.
Visit(c, d, k) ==
    IF k \notin DOMAIN c.list THEN d
    ELSE IF ~Leaving(c.list[k]) THEN [d EXCEPT !.h = Run(@, c.of, k)]
    ELSE IF k \in d.cleanedUp THEN d
    ELSE [h |-> RunCleanup(d.h, c.list[k]), cleanedUp |-> d.cleanedUp \cup {k}]
VisitStatus(c, h, k) ==
    IF k \notin DOMAIN c.list \/ Leaving(c.list[k]) THEN h ELSE RunStatus(h, c.of, k)

Pass(order, d, r) ==
    LET c == [of |-> r, list |-> Listed(d.h, r)] IN Each(LAMBDA e, k : Visit(c, e, k), d, order)
StatusPass(order, h, r) ==
    LET c == [of |-> r, list |-> Listed(h, r)] IN Each(LAMBDA g, k : VisitStatus(c, g, k), h, order)

\* fullReconcile, with the lists in the order given.
Full(h, order) ==
    LET outputs == Each(LAMBDA d, r : Pass(order, d, r), [h |-> h, cleanedUp |-> {}], reconcilers)
        done    == Each(LAMBDA d, r : Pass(order, d, r), outputs, patchReconcilers)
    IN  Each(LAMBDA g, r : StatusPass(order, g, r), done.h, statusReconcilers)

-----------------------------------------------------------------------------
\* The calls of a test.

Init ==
    /\ store = NewObjectStore /\ events = <<>>
    /\ manager = [lastOutputs |-> [ref \in Refs |-> {}], lastPatches |-> [ref \in Refs |-> {}],
                  deps |-> [ref \in Refs |-> [narrow |-> {}, broad |-> {}]]]
    /\ reported = [k \in Keys |-> None] /\ contributed = {}
    /\ stage = [settles |-> 0, edits |-> 0, touched |-> None, handled |-> FALSE]

\* After a call that changes an object by hand.
Touch(key) ==
    /\ stage.edits < MaxEdits
    /\ stage' = [settles |-> 0, edits |-> stage.edits + 1, handled |-> FALSE,
                 touched |-> IF stage.settles = Depth THEN key ELSE None]

TestSets(obj) ==
    /\ Get(store, obj.key) # obj
    /\ store' = SetObject(store, obj) /\ Touch(obj.key)
    /\ UNCHANGED <<events, manager, reported, contributed>>

TestDeletes(key) ==
    /\ Get(store, key) # None
    /\ store' = DeleteObject(store, key) /\ Touch(key)
    /\ UNCHANGED <<events, manager, reported, contributed>>

\* Reconcile and Settle start from empty records.
Fresh == [Now EXCEPT !.store = Reset(@), !.events = <<>>]

Reconcile(key) ==
    LET first == Handled1(Fresh, key) IN
    /\ \E refs \in SetToSeqs(Tracker(first.manager.deps)!Affected(key)) :
          Become(Handled2(first, key, refs, ~(IsPrimary(key.gvk) /\ Deleting(Fresh, key))))
    /\ stage' = [settles |-> 0, edits |-> 0, handled |-> stage.touched = key,
                 touched |-> IF stage.touched = key THEN key ELSE None]

Settle ==
    /\ \E order \in SetToSeqs({k \in Keys : IsPrimary(k.gvk)}) : Become(Full(Fresh, order))
    /\ stage' = [settles |-> IF stage.settles < Depth THEN stage.settles + 1 ELSE Depth,
                 edits |-> 0, touched |-> None, handled |-> FALSE]

Next ==
    \/ \E obj \in TestObjects : TestSets(obj)
    \/ \E key \in Keys : TestDeletes(key) \/ Reconcile(key)
    \/ Settle

Spec == Init /\ [][Next]_vars

-----------------------------------------------------------------------------
\* The assertions of a Result, and GetObject.
AssertApplied(key)         == NN(key) \in RangeOf(store.Applied)
AssertDeleted(key)         == NN(key) \in RangeOf(store.Deleted)
AssertForeignPatched(key)  == NN(key) \in RangeOf(store.ForeignPatched)
AssertForeignReverted(key) == NN(key) \in RangeOf(store.ForeignReverted)
AssertStatusPatched(key)   == NN(key) \in RangeOf(store.StatusPatches)
CountEvents(reason)        == Cardinality({i \in DOMAIN events : events[i].reason = reason})

\* The records of one call and the manager's maps are of the shape that the
\* next call expects, and every object is under its own key.
Fits(h) ==
    LET s == h.store  m == h.manager IN
    /\ h = [store |-> s, events |-> h.events, manager |-> m,
            reported |-> h.reported, contributed |-> h.contributed]
    /\ s = [objects |-> s.objects, Applied |-> s.Applied, Deleted |-> s.Deleted,
            StatusPatches |-> s.StatusPatches, ForeignPatched |-> s.ForeignPatched,
            ForeignReverted |-> s.ForeignReverted]
    /\ \A record \in {s.Applied, s.Deleted, s.StatusPatches, s.ForeignPatched, s.ForeignReverted} :
          record \in Seq({NN(k) : k \in Keys})
    /\ DOMAIN s.objects = Keys
    /\ \A k \in Keys : s.objects[k] # None => IsObject(s.objects[k]) /\ s.objects[k].key = k
    /\ h.events \in Seq([on : {k.name : k \in Keys}, reason : Reasons])
    /\ m = [lastOutputs |-> m.lastOutputs, lastPatches |-> m.lastPatches, deps |-> m.deps]
    /\ {m.lastOutputs, m.lastPatches} \subseteq [Refs -> SUBSET Keys]
    /\ DOMAIN m.deps = Refs
    /\ \A ref \in Refs :
          /\ m.deps[ref] = [narrow |-> m.deps[ref].narrow, broad |-> m.deps[ref].broad]
          /\ m.deps[ref].narrow \subseteq Keys
    /\ DOMAIN h.reported = Keys
    /\ h.contributed \subseteq [ref : Refs, target : Keys]

TypeOK == Fits(Now) /\ stage.settles \in 0 .. Depth

Object(o) == store.objects[o.key]

\* A primary of another type with the same name is being deleted: its cleanup
\* clears the record (see Forget), in every call for as long as it is there.
Namesake(key) == \E k \in Keys \ {key} : NN(k) = NN(key) /\ Deleting(Now, k)

\* The invocation has nothing to do: what its function makes of the store as
\* it is now is there, and on record; what it does not make is off the record.
Done(r, key) ==
    LET p    == Get(store, key)
        made == Results(Now, r, key)
        want == {made[i].key : i \in DOMAIN made}
    IN  \/ p = None
        \/ Deleting(Now, key)
        \/ /\ r \in RangeOf(reconcilers)
           /\ manager.lastOutputs[Ref(r, key)] = want \/ Namesake(key)
           /\ \A i \in DOMAIN made : Object(made[i]) = Labelled(made[i])
        \/ /\ r \in RangeOf(patchReconcilers)
           /\ Own \in p.finalizers
           /\ \/ Repeats(made)
              \/ /\ manager.lastPatches[Ref(r, key)] = want \/ Namesake(key)
                 /\ \A i \in DOMAIN made : Object(made[i]) = made[i]
        \/ /\ r \in RangeOf(statusReconcilers)
           /\ made # <<>> => reported[key] = Head(made)

\* Settle, called once for each level of the cascade, leaves nothing to do.
Converges == stage.settles = Depth => \A r \in RangeOf(All) : \A key \in KeysOf(r) : Done(r, key)

\* The function would read the object.
Reader(r, key, o) ==
    LET p == Get(store, key) IN
    p # None /\ Accepts(r, p) /\
        \E read \in Reads(r, p) :
            IF IsBroad(read) THEN read.gvk = o.gvk /\ mergeFilters(read.filters).ns = o.ns ELSE KeyRead(read) = o

\* The primary is the object, or the function reads it or has made it.
Concerns(r, key, o) ==
    \/ key = o
    \/ Reader(r, key, o)
    \/ \E ref \in {Ref(r, key)} : o \in manager.lastOutputs[ref] \cup manager.lastPatches[ref]

\* What the function is given, finalizers and all that is not its input aside.
Input(r, key) ==
    LET p == Get(store, key) IN
    IF p = None THEN <<>> ELSE <<p.data, p.deleting, IF Accepts(r, p) THEN Seen(Now, r, p) ELSE None>>

\* A change to one object after the test has settled, followed by Reconcile of
\* that object, leaves nothing to do for those who read it, whose primary it
\* is, or who have made it: what the reads and outputs declared is enough.
\* Only a FetchAll over all namespaces does not notice (see Reader), and what
\* the call itself changes in the inputs of an invocation is left to the event
\* of that change.
ReadersRerun ==
    [][stage'.handled => \A r \in RangeOf(All) : \A key \in KeysOf(r) :
          Concerns(r, key, stage.touched)' /\ Input(r, key)' = Input(r, key) => Done(r, key)']_vars

\* What is on record as made by an invocation is among its dependencies, so
\* that an edit or a deletion of it by hand finds the invocation that is to make
\* it again: a run that replaces the dependencies adds its outputs to them, a
\* cleanup that drops them drops the record.
OutputsTracked == \A ref \in Refs : manager.lastOutputs[ref] \subseteq manager.deps[ref].narrow

\* The step is a call, not an edit.
CallMade == stage'.edits = 0

CleanedUp(key) == \E i \in DOMAIN events : events[i] = [on |-> key.name, reason |-> "CleanupComplete"]

\* What a Result says of a call agrees with the store and with the events: an
\* object that has changed was applied, deleted or patched, or is a primary
\* with another finalizer; a status that has changed was patched; what was
\* deleted is gone, unless an apply, a patch or the merge patch of a cleanup
\* has put it back.
Tells ==
    /\ \A k \in Keys : store'.objects[k] # store.objects[k] =>
          \/ AssertApplied(k)' \/ AssertDeleted(k)' \/ AssertForeignPatched(k)'
          \/ IsPrimary(k.gvk) /\ store'.objects[k].data = store.objects[k].data
    /\ \A k \in Keys : reported'[k] # reported[k] => AssertStatusPatched(k)'
    /\ \A n \in RangeOf(store'.Deleted) :
          \E k \in Keys :
             /\ NN(k) = n
             /\ store'.objects[k] = None \/ AssertApplied(k)' \/ AssertForeignPatched(k)' \/ CleanedUp(k)'
    /\ Len(store'.Applied) = CountEvents("Applied")'
    /\ Len(store'.Deleted) = CountEvents("Deleted")'
    /\ Len(store'.ForeignPatched) = CountEvents("Patched")'

\* The assertions of a Result hold of what each call has done (see Tells).
ResultsTell == [][CallMade => Tells]_vars

\* A contribution is taken back once: a target is reported as reverted only
\* when it has been patched, by this or an earlier call, and there are never
\* more reverts than contributions to take back.
TakesBack ==
    /\ \A n \in RangeOf(store'.ForeignReverted) :
          n \in RangeOf(store'.ForeignPatched) \cup {NN(c.target) : c \in contributed}
    /\ Len(store'.ForeignReverted) + Cardinality(contributed')
          <= Len(store'.ForeignPatched) + Cardinality(contributed)

\* Each call reports each revert once (see TakesBack).
RevertedOnce == [][CallMade => TakesBack]_vars
=============================================================================
