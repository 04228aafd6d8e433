------------------------------ MODULE EventLoop ------------------------------
(***************************************************************************)
(* manager.go, the loop as a whole: the event predicates of the watches,   *)
(* eventHandler.handle with its phases, the periodic fullReconcile and     *)
(* gcOrphans, status reconcilers, OnDelete callbacks and the finalizer.    *)
(* Where OutputReconciler cuts one run into its API calls, this module     *)
(* takes a run of a sub-reconciler as one step and puts together what the  *)
(* runs of several reconcilers do to one another: one goroutine for each   *)
(* watched type and one for the resync.  The dependency tracker is the     *)
(* abstract relation that DependencyTracker implements.                    *)
(*                                                                         *)
(* Content is abstracted to what routing can tell apart: a primary has a   *)
(* spec (its generation) and a status, a reconciler function reads the     *)
(* spec of its primary and the status of what it fetches.                  *)
(***************************************************************************)
EXTENDS Integers, Sequences, FiniteSets

CONSTANTS
    Objects,            \* every resource there may be: [gvk, ns, name]
    reconcilers,        \* Manager.reconcilers: <<[id, primary], ...>>
    statusReconcilers,  \* Manager.statusReconcilers, likewise
    cleanupFns,         \* the GVKs with an OnDelete callback
    Filtered,           \* the GVKs watched WithGenerationChanged
    OutputOf(_),        \* invocation -> the resource it makes
    Fetches(_),         \* invocation -> the resources its function fetches
    Accepts(_, _),      \* WithPredicate: reconciler ID, spec of the primary
    None, Missing,      \* no status yet; the status that is read of no object
    Touched,            \* the resources that users and other controllers change
    Interrupted,        \* sets of primaries whose cleanup a restart may have cut short
    MaxChanges,         \* bound on what users and other controllers do
    MaxTroubles,        \* bound on that and on callbacks and API calls that fail
    MaxQueue,           \* bound on the events of a type that are queued
    MaxBusy             \* bound on the watches that handle an event at a time

VARIABLES
    server,       \* [Objects -> object or Absent]: the API server
    cache,        \* the same, as the informers show it
    queue,        \* [GVKs -> Seq(Objects)]: the events not yet handled
    job,          \* [Procs -> what the goroutine has left to do]
    declared,     \* the dependency tracker
    lastOutputs,  \* Manager.lastOutputs
    changes, failures,
    missed,       \* history: invocations that a change did not get to
    called,       \* history: UIDs whose callback has succeeded
    held,         \* history: UIDs that have had the manager's finalizer
    stripped,     \* history: UIDs that a patch meant for another UID took it from
    unrecorded    \* history: outputs taken off record for another primary

world   == <<server, cache, queue>>
manager == <<job, declared, lastOutputs>>
bounds  == <<changes, failures>>
history == <<missed, called, held, stripped, unrecorded>>
vars    == <<world, manager, bounds, history>>

-----------------------------------------------------------------------------
\* No object: a record that has none of an object's fields.
Absent == [absent |-> TRUE]

GVKs  == {o.gvk : o \in Objects}
Procs == GVKs \cup {"resync"}
All   == reconcilers \o statusReconcilers

Key(o)          == [ns |-> o.ns, name |-> o.name]
Object(gvk, k)  == [gvk |-> gvk, ns |-> k.ns, name |-> k.name]
IsPrimary(gvk)  == \E i \in DOMAIN All : All[i].primary = gvk
Primaries       == {o \in Objects : IsPrimary(o.gvk)}

\* reconcilerRef: the reconciler's ID and the primary's namespace and name.
Of(r, o)        == [id |-> r.id, key |-> Key(o)]
RefsOf(rs)      == {Of(rs[i], o) : i \in DOMAIN rs, o \in Primaries}
PrimaryGVK(id)  == All[CHOOSE i \in DOMAIN All : All[i].id = id].primary
Runs(rs)        == {ref \in RefsOf(rs) : Object(PrimaryGVK(ref.id), ref.key) \in Objects}
OutputRuns      == Runs(reconcilers)
Invocations     == Runs(All)
PrimaryOf       == [ref \in Invocations |-> Object(PrimaryGVK(ref.id), ref.key)]
Primary(ref)    == PrimaryOf[ref]
Outputs         == {OutputOf(ref) : ref \in OutputRuns}

\* A resource is its type, namespace and name.  A reconciler's ID tells it
\* apart (the registration numbers them, module Startup), and a type has one
\* reconciler for its status, which is one field here.  An output belongs to
\* one invocation and is nobody's primary: outputs that several share, and
\* chains, have their own modules.
ASSUME ObjectsAssumption ==
    /\ \A o \in Objects : o = Object(o.gvk, Key(o))
    /\ "resync" \notin GVKs
ASSUME RegistrationAssumption ==
    /\ reconcilers \in Seq([id : STRING, primary : STRING])
    /\ statusReconcilers \in Seq([id : STRING, primary : STRING])
    /\ \A i, j \in DOMAIN All : All[i].id = All[j].id => i = j
    /\ \A i, j \in DOMAIN statusReconcilers :
          statusReconcilers[i].primary = statusReconcilers[j].primary => i = j
ASSUME OutputAssumption ==
    /\ Outputs \subseteq Objects \ Primaries
    /\ \A ref, other \in OutputRuns : OutputOf(ref) = OutputOf(other) => ref = other
ASSUME FetchAssumption == \A ref \in Invocations : Fetches(ref) \subseteq Objects
ASSUME BoundsAssumption == MaxChanges \in Nat

Tracker == INSTANCE DependencyRelation
    WITH Refs <- Invocations, GVKs <- GVKs,
         Namespaces <- {o.ns : o \in Objects}, Names <- {o.name : o \in Objects}

\* A finalizer is needed for the callback; ownership by annotation and patch
\* reconcilers, the other reasons, have their own modules.
NeedsFinalizer(gvk) == gvk \in cleanupFns

Own == "make-reconcile.io/finalizer"
Foreign == "foreign"

\* Only a primary that had the finalizer can have waited for its cleanup.
ASSUME InterruptedAssumption ==
    \A waiting \in Interrupted : waiting \subseteq {o \in Primaries : NeedsFinalizer(o.gvk)}

NewPrimary(o, n) ==
    [spec |-> 1, status |-> None, finalizers |-> {}, deleting |-> FALSE, uid |-> <<o, n>>]

\* A primary that waits for the callback, and for another controller, since
\* before the manager started.
WaitingPrimary(o) == [NewPrimary(o, 0) EXCEPT !.finalizers = {Own, Foreign}, !.deleting = TRUE]

IsDeleting(o, store) == store[o] # Absent /\ store[o].deleting
StatusOf(o, store)   == IF store[o] = Absent THEN Missing ELSE store[o].status

Idle == [at |-> "idle", todo |-> <<>>, plan |-> <<>>, event |-> None, names |-> {}, cleanedUp |-> {}]

\* Work for a goroutine, in batches; within a batch the order is that of a Go
\* map, a set of refs or a list of the cache.
Run(ref)         == [do |-> "output", ref |-> ref]
RunStatus(ref)   == [do |-> "status", ref |-> ref]
Cleanup(o, base) == [do |-> "cleanup", primary |-> o, base |-> base]

\* A batch is begun when those before it are done.
Tasks(todo)      == UNION {todo[i] : i \in DOMAIN todo}
Begun(todo, i)   == \A j \in 1 .. i - 1 : todo[j] = {}
Current(todo)    == UNION {todo[i] : i \in {j \in DOMAIN todo : Begun(todo, j)}}
Batches(todo)    == IF Tasks(todo) = {} THEN <<>> ELSE todo
Without(todo, t) == Batches([i \in DOMAIN todo |-> IF Begun(todo, i) THEN todo[i] \ {t} ELSE todo[i]])

\* What an earlier manager has made for it.
LeftOver(ref) ==
    [spec  |-> [spec |-> 1, seen |-> [o \in Fetches(ref) |-> None]], status |-> None,
     owner |-> WaitingPrimary(Primary(ref)).uid]

Init ==
    /\ \E waiting \in Interrupted :
          LET left == {ref \in OutputRuns : Primary(ref) \in waiting} IN
          /\ server = [o \in Objects |->
                 CASE o \in waiting -> WaitingPrimary(o)
                   [] o \in Primaries \ waiting -> NewPrimary(o, 0)
                   [] \E ref \in left : OutputOf(ref) = o ->
                         LeftOver(CHOOSE ref \in left : OutputOf(ref) = o)
                   [] OTHER -> Absent]
          /\ held = {WaitingPrimary(o).uid : o \in waiting}
    /\ cache = server
    /\ queue = [k \in GVKs |-> <<>>]
    /\ job = [p \in Procs |->
                 IF p = "resync" THEN [Idle EXCEPT !.at = "resync", !.plan = All] ELSE Idle]
    /\ Tracker!Init
    /\ lastOutputs = [ref \in OutputRuns |-> {}]
    /\ changes = 0 /\ failures = 0
    /\ missed = {} /\ called = {} /\ stripped = {} /\ unrecorded = {}

-----------------------------------------------------------------------------
\* Users, other controllers and the API server.

Change == changes < MaxChanges /\ changes + failures < MaxTroubles /\ changes' = changes + 1
Outside == UNCHANGED <<cache, queue, manager, failures, missed, called, held, stripped, unrecorded>>

\* An object that is created again is seen to be gone first.
Create(o) ==
    /\ Change /\ server[o] = Absent /\ cache[o] = Absent
    /\ server' = [server EXCEPT ![o] = NewPrimary(o, changes')]
    /\ Outside

ChangeSpec(o) ==
    /\ Change /\ server[o] # Absent
    /\ server' = [server EXCEPT ![o].spec = @ + 1]
    /\ Outside

\* A deletion waits for the finalizers.
Dropped(obj) == IF obj.deleting /\ obj.finalizers = {} THEN Absent ELSE obj

Delete(o) ==
    /\ Change /\ server[o] # Absent /\ ~server[o].deleting
    /\ server' = [server EXCEPT ![o] = Dropped([@ EXCEPT !.deleting = TRUE])]
    /\ Outside

\* Another controller guards a primary of its own accord.
AddForeign(o) ==
    /\ Change /\ server[o] # Absent /\ ~server[o].deleting /\ Foreign \notin server[o].finalizers
    /\ server' = [server EXCEPT ![o].finalizers = @ \cup {Foreign}]
    /\ Outside

RemoveForeign(o) ==
    /\ server[o] # Absent /\ server[o].deleting /\ Foreign \in server[o].finalizers
    /\ server' = [server EXCEPT ![o] = Dropped([@ EXCEPT !.finalizers = server[o].finalizers \ {Foreign}])]
    /\ UNCHANGED changes /\ Outside

\* The controller of an output (a Deployment, a Job) reports on it.
Report(o) ==
    /\ Change /\ server[o] # Absent /\ server[o].status = None
    /\ server' = [server EXCEPT ![o].status = "ready"]
    /\ Outside

\* The garbage collector deletes an output whose owner, by UID, is gone.
Garbage(ref) ==
    LET o == OutputOf(ref) owner == server[Primary(ref)] IN
    server[o] # Absent /\ (owner # Absent => owner.uid # server[o].owner)

CollectGarbage(ref) ==
    /\ Garbage(ref)
    /\ server' = [server EXCEPT ![OutputOf(ref)] = Absent]
    /\ UNCHANGED changes /\ Outside

-----------------------------------------------------------------------------
\* OnAdd, OnUpdate and OnDelete: only WithGenerationChanged has a predicate,
\* for updates, and it is bypassed when the object is being deleted and a
\* finalizer is needed for its type.
Passes(o, old, new) ==
    o.gvk \in Filtered /\ old # Absent /\ new # Absent =>
        \/ NeedsFinalizer(o.gvk) /\ new.deleting
        \/ old.spec # new.spec

\* The watch brings the cache up to date for o and calls the handler.  The
\* readers of a resource whose update is filtered out have missed it.
Refresh(o) ==
    /\ cache[o] # server[o] /\ Len(queue[o.gvk]) < MaxQueue
    /\ cache' = [cache EXCEPT ![o] = server[o]]
    /\ IF Passes(o, cache[o], server[o])
       THEN queue' = [queue EXCEPT ![o.gvk] = Append(@, o)] /\ UNCHANGED missed
       ELSE missed' = missed \cup Tracker!Affected(o) /\ UNCHANGED queue
    /\ UNCHANGED <<server, manager, bounds, called, held, stripped, unrecorded>>

\* Mutant: only the event's own object has its status reconciled.
AffectedPrimaries_OwnOnly(o, alive) == IF alive THEN {o} ELSE {}

\* recordAffected: the primaries of the invocations that read the object and,
\* unless it is being deleted, the object itself.
AffectedPrimaries(o, alive) ==
    {Primary(ref) : ref \in Tracker!Affected(o)} \cup (IF alive THEN {o} ELSE {})

\* handle, from Lookup on: the output reconcilers that read the object, then
\* the status reconcilers of all the primaries concerned.
Routed(o, alive) ==
    LET outs  == {Run(ref) : ref \in Tracker!Affected(o) \cap OutputRuns}
        stats == [i \in DOMAIN statusReconcilers |->
                     {RunStatus(Of(statusReconcilers[i], a)) :
                         a \in {b \in AffectedPrimaries(o, alive) : b.gvk = statusReconcilers[i].primary}}]
        todo  == Batches(<<outs>> \o stats)
    IN  IF todo = <<>> THEN Idle ELSE [Idle EXCEPT !.at = "routed", !.todo = todo]

CanStart(k) == job[k] = Idle /\ Cardinality({q \in GVKs : job[q] # Idle}) < MaxBusy

\* handle, up to the tracker: a primary that is being deleted is cleaned up,
\* another one is given to its own output reconcilers.
Handle(k) ==
    /\ CanStart(k) /\ queue[k] # <<>>
    /\ LET o == Head(queue[k])
           own == [i \in DOMAIN reconcilers |->
                      IF reconcilers[i].primary = k THEN {Run(Of(reconcilers[i], o))} ELSE {}]
       IN  job' = [job EXCEPT ![k] =
              IF IsPrimary(k) /\ NeedsFinalizer(k) /\ IsDeleting(o, cache)
              THEN [Idle EXCEPT !.at = "deleting", !.event = o, !.todo = <<{Cleanup(o, cache[o])}>>]
              ELSE IF Tasks(own) # {} THEN [Idle EXCEPT !.at = "own", !.event = o, !.todo = own]
              ELSE Routed(o, IsPrimary(k))]
    /\ queue' = [queue EXCEPT ![k] = Tail(@)]
    /\ UNCHANGED <<server, cache, declared, lastOutputs, bounds, history>>

Route(k) ==
    /\ job[k].at \in {"own", "deleting"} /\ job[k].todo = <<>>
    /\ job' = [job EXCEPT ![k] = Routed(job[k].event, job[k].at = "own")]
    /\ UNCHANGED <<world, declared, lastOutputs, bounds, history>>

-----------------------------------------------------------------------------
StartResync ==
    /\ job["resync"] = Idle
    /\ job' = [job EXCEPT !["resync"] = [Idle EXCEPT !.at = "resync", !.plan = All]]
    /\ UNCHANGED <<world, declared, lastOutputs, bounds, history>>

\* fullReconcile, what the list of r's primaries gives: clean up those that
\* are being deleted, each once, and run r for the others.
Listed(r, done) ==
    LET items == {o \in Objects : o.gvk = r.primary /\ cache[o] # Absent}
        gone  == {o \in items : NeedsFinalizer(o.gvk) /\ cache[o].deleting}
        isStatus == \E i \in DOMAIN statusReconcilers : statusReconcilers[i].id = r.id
    IN  IF isStatus THEN {RunStatus(Of(r, o)) : o \in items \ gone}
        ELSE {Run(Of(r, o)) : o \in items \ gone} \cup {Cleanup(o, cache[o]) : o \in gone \ done}

NextReconciler ==
    LET j == job["resync"] r == Head(j.plan) tasks == Listed(r, j.cleanedUp) IN
    /\ j.at = "resync" /\ j.todo = <<>> /\ j.plan # <<>>
    /\ job' = [job EXCEPT !["resync"] =
                  [j EXCEPT !.todo = Batches(<<tasks>>), !.plan = Tail(j.plan),
                            !.cleanedUp = j.cleanedUp \cup {t.primary : t \in {u \in tasks : u.do = "cleanup"}}]]
    /\ UNCHANGED <<world, declared, lastOutputs, bounds, history>>

\* Mutant: nothing is taken to be wanted.
Wanted_None == {}

\* gcOrphans: what the records of all reconcilers want.
Wanted == UNION {lastOutputs[ref] : ref \in OutputRuns}

\* The end of a resync: the outputs that carry the manager's label and that
\* no record wants are deleted.
GcOrphans ==
    /\ job["resync"].at = "resync" /\ job["resync"].todo = <<>> /\ job["resync"].plan = <<>>
    /\ server' = [o \in Objects |-> IF o \in Outputs \ Wanted THEN Absent ELSE server[o]]
    /\ job' = [job EXCEPT !["resync"] = Idle]
    /\ UNCHANGED <<cache, queue, declared, lastOutputs, bounds, history>>

-----------------------------------------------------------------------------
\* One task of the batch a goroutine is at.
Task(p, t, kind) == t \in Current(job[p].todo) /\ t.do = kind

\* Mutant: the goroutine does not come back from its last task.
After_Stays(j, t) == [j EXCEPT !.todo = Without(@, t)]

After(j, t) ==
    LET rest == Without(j.todo, t)
    IN  IF j.at = "routed" /\ rest = <<>> THEN Idle ELSE [j EXCEPT !.todo = rest]
Done(p, t) == job' = [job EXCEPT ![p] = After(@, t)]
Fail(n) == changes + failures + n <= MaxTroubles /\ failures' = failures + n

\* A merge patch of the finalizers carries the whole list.  It is refused
\* when the object is gone, or is being deleted and would gain a finalizer;
\* no UID or resource version goes with it.
PatchAccepted(o, list) ==
    server[o] # Absent /\ (server[o].deleting => list \subseteq server[o].finalizers)
Patched(o, list) == [server EXCEPT ![o] = Dropped([@ EXCEPT !.finalizers = list])]

\* What the function of an invocation is given.
Seen(ref) == [o \in Fetches(ref) |-> StatusOf(o, cache)]
View(ref) == [spec |-> cache[Primary(ref)].spec, seen |-> Seen(ref)]

\* runSubReconciler, the early returns: no primary, or one being deleted that
\* has a cleanup.
NotRun(p, t) ==
    /\ Task(p, t, "output")
    /\ LET o == Primary(t.ref) IN cache[o] = Absent \/ (NeedsFinalizer(o.gvk) /\ IsDeleting(o, cache))
    /\ Done(p, t)
    /\ UNCHANGED <<world, declared, lastOutputs, bounds, history>>

\* SetDeps after the function and AppendNarrow after the apply.
Depends(ref, accepted) == IF accepted THEN Fetches(ref) \cup {OutputOf(ref)} ELSE {}

\* runSubReconciler: add the finalizer, run the function if the predicate
\* accepts the primary, apply its output, put it on record and delete what is
\* on record and no longer wanted.  A patch or an apply that fails is logged.
RunOutput(p, t) ==
    /\ Task(p, t, "output")
    /\ LET ref == t.ref
           o   == Primary(ref)
           c   == cache[o]
           out == OutputOf(ref)
       IN  /\ c # Absent /\ ~(NeedsFinalizer(o.gvk) /\ c.deleting)
           /\ \E finalized, applied \in BOOLEAN :
                 LET adds     == NeedsFinalizer(o.gvk) /\ Own \notin c.finalizers
                     list     == c.finalizers \cup {Own}
                     accepted == Accepts(ref.id, c.spec)
                     wantKeys == IF accepted THEN {out} ELSE {}
                     s1 == IF adds /\ finalized /\ PatchAccepted(o, list) THEN Patched(o, list) ELSE server
                     s2 == IF accepted /\ applied
                           THEN [s1 EXCEPT ![out] = [spec |-> View(ref), owner |-> c.uid,
                                                     status |-> IF @ = Absent THEN None ELSE @.status]]
                           ELSE s1
                 IN  /\ finalized \/ adds
                     /\ applied \/ accepted
                     /\ Fail((IF finalized THEN 0 ELSE 1) + (IF applied THEN 0 ELSE 1))
                     /\ server' = [x \in Objects |-> IF x \in lastOutputs[ref] \ wantKeys THEN Absent ELSE s2[x]]
                     /\ lastOutputs' = [lastOutputs EXCEPT ![ref] = wantKeys]
                     /\ Tracker!Replace(ref, Depends(ref, accepted), {})
                     /\ missed' = IF applied THEN missed \ {ref} ELSE missed \cup {ref}
                     /\ unrecorded' = unrecorded \ wantKeys
                     /\ held' = held \cup {x.uid : x \in {y \in {s1[o]} \ {Absent} : Own \in y.finalizers}}
    /\ Done(p, t)
    /\ UNCHANGED <<cache, queue, changes, called, stripped>>

\* handle, phase 2: a primary that is being deleted has its status left
\* alone, and so have those of other types that are handled after it and have
\* its name: deletingPrimaries is keyed by the name.
NotReported(p, t) ==
    /\ Task(p, t, "status")
    /\ LET o == Primary(t.ref)
           deleting == p # "resync" /\ NeedsFinalizer(o.gvk) /\ IsDeleting(o, cache)
           namesake == p # "resync" /\ Key(o) \in job[p].names
       IN  /\ deleting \/ namesake \/ cache[o] = Absent
           /\ job' = [job EXCEPT ![p] =
                  After([@ EXCEPT !.names = job[p].names \cup (IF deleting THEN {Key(o)} ELSE {})], t)]
           /\ missed' = IF namesake THEN missed \cup {t.ref} ELSE missed
    /\ UNCHANGED <<world, declared, lastOutputs, bounds, called, held, stripped, unrecorded>>

\* runStatusReconciler: compute the status from what is fetched, SetDeps, and
\* write it unless the primary is gone.
RunStatusOf(p, t) ==
    /\ Task(p, t, "status")
    /\ LET ref == t.ref
           o   == Primary(ref)
       IN  /\ cache[o] # Absent
           /\ p # "resync" => /\ ~(NeedsFinalizer(o.gvk) /\ IsDeleting(o, cache))
                             /\ Key(o) \notin job[p].names
           /\ \E applied \in BOOLEAN :
                 LET accepted == Accepts(ref.id, cache[o].spec) IN
                 /\ applied \/ accepted
                 /\ Fail(IF applied THEN 0 ELSE 1)
                 /\ server' = IF accepted /\ applied /\ server[o] # Absent
                              THEN [server EXCEPT ![o].status = Seen(ref)] ELSE server
                 /\ missed' = IF applied THEN missed \ {ref} ELSE missed \cup {ref}
                 /\ Tracker!Replace(ref, IF accepted THEN Fetches(ref) ELSE {}, {})
    /\ Done(p, t)
    /\ UNCHANGED <<cache, queue, lastOutputs, changes, called, held, stripped, unrecorded>>

\* Mutant: the finalizers of other controllers go too.
Released_All(obj) == {}

\* removeFinalizer: the list without the manager's finalizer.
Released(obj) == obj.finalizers \ {Own}

\* Mutant: the finalizer goes whether or not the callback has succeeded.
CallbackFails_Releases(p, t) ==
    /\ Task(p, t, "cleanup")
    /\ Fail(1)
    /\ PatchAccepted(t.primary, Released(t.base))
    /\ server' = Patched(t.primary, Released(t.base))
    /\ Done(p, t)
    /\ UNCHANGED <<cache, queue, declared, lastOutputs, changes, history>>

\* runCleanup: the callback returns an error, the finalizer stays.
CallbackFails(p, t) ==
    /\ Task(p, t, "cleanup")
    /\ Fail(1)
    /\ Done(p, t)
    /\ UNCHANGED <<world, declared, lastOutputs, changes, history>>

\* The removal of the finalizer fails: the callback will be called again.
ReleaseFails(p, t) ==
    /\ Task(p, t, "cleanup")
    /\ Own \in t.base.finalizers
    /\ IF PatchAccepted(t.primary, Released(t.base)) THEN Fail(1) ELSE UNCHANGED failures
    /\ called' = called \cup {t.base.uid}
    /\ Done(p, t)
    /\ UNCHANGED <<world, declared, lastOutputs, changes, missed, held, stripped, unrecorded>>

\* The callback succeeds, the finalizer is taken off the copy the cleanup was
\* given, and the records and dependencies of the primary are cleared: the
\* dependencies by its reconcilers, the records by the end of their key, so
\* that those of other types' primaries of that name go too.  A primary that
\* was created after that copy was made loses its own.
CleanUp(p, t) ==
    /\ Task(p, t, "cleanup")
    /\ LET o    == t.primary
           list == Released(t.base)
           later  == cache[o] # Absent /\ cache[o].uid # t.base.uid
           others == {ref \in OutputRuns : ref.key = Key(o) /\ (Primary(ref) # o \/ later)}
       IN  /\ Own \in t.base.finalizers => PatchAccepted(o, list)
           /\ server' = IF Own \in t.base.finalizers THEN Patched(o, list) ELSE server
           /\ stripped' = stripped \cup (IF Own \in t.base.finalizers /\ server[o].uid # t.base.uid
                                         THEN {server[o].uid} ELSE {})
           /\ lastOutputs' = [ref \in OutputRuns |-> IF ref.key = Key(o) THEN {} ELSE lastOutputs[ref]]
           /\ declared' = [ref \in Invocations |-> IF Primary(ref) = o THEN Tracker!NoDeps ELSE declared[ref]]
           /\ unrecorded' = unrecorded \cup UNION {lastOutputs[ref] : ref \in others}
           /\ missed' = IF later THEN missed \cup {ref \in Invocations : Primary(ref) = o} ELSE missed
    /\ called' = called \cup {t.base.uid}
    /\ Done(p, t)
    /\ UNCHANGED <<cache, queue, bounds, held>>

-----------------------------------------------------------------------------
Work(p) ==
    \/ \E k \in {p} \cap GVKs : Handle(k) \/ Route(k)
    \/ p = "resync" /\ (NextReconciler \/ GcOrphans)
    \/ \E t \in Current(job[p].todo) :
          NotRun(p, t) \/ RunOutput(p, t) \/ NotReported(p, t) \/ RunStatusOf(p, t)
             \/ CallbackFails(p, t) \/ ReleaseFails(p, t) \/ CleanUp(p, t)

Next ==
    \/ \E o \in Primaries \cap Touched : Create(o) \/ ChangeSpec(o) \/ Delete(o) \/ AddForeign(o) \/ RemoveForeign(o)
    \/ \E o \in Outputs \cap Touched : Report(o)
    \/ \E ref \in OutputRuns : CollectGarbage(ref)
    \/ \E o \in Objects : Refresh(o)
    \/ StartResync
    \/ \E p \in Procs : Work(p)

Spec == Init /\ [][Next]_vars

-----------------------------------------------------------------------------
UIDs == Primaries \X (0 .. MaxChanges)

TypeOK ==
    /\ \A store \in {server, cache} :
          /\ DOMAIN store = Objects
          /\ \A o \in Primaries : store[o] # Absent =>
                /\ store[o].finalizers \subseteq {Own, Foreign}
                /\ store[o].deleting => store[o].finalizers # {}
          /\ \A o \in Outputs : store[o] # Absent => store[o].owner \in UIDs
    /\ \A k \in GVKs : \A i \in DOMAIN queue[k] : queue[k][i] \in Objects /\ queue[k][i].gvk = k
    /\ \A p \in Procs : /\ job[p].todo # <<>> => Tasks(job[p].todo) # {}
                       /\ job[p].at = "routed" => job[p].todo # <<>>
    /\ \A ref \in OutputRuns : lastOutputs[ref] \subseteq {OutputOf(ref)}
    /\ missed \subseteq Invocations /\ called \cup held \cup stripped \subseteq UIDs

Quiet == cache = server /\ (\A k \in GVKs : queue[k] = <<>>) /\ (\A p \in Procs : job[p] = Idle)

\* The invocations that the manager would run for their primary.
Active(ref) == LET o == Primary(ref) IN cache[o] # Absent /\ ~(NeedsFinalizer(o.gvk) /\ IsDeleting(o, cache))

\* The invocation's output, or status, is what its function makes of the
\* current state; there is none if the predicate turns the primary down, or
\* one that waits for the garbage collector.
InPlace(ref) ==
    LET accepted == Accepts(ref.id, cache[Primary(ref)].spec) IN
    IF ref \in OutputRuns
    THEN IF accepted THEN server[OutputOf(ref)] # Absent /\ server[OutputOf(ref)].spec = View(ref)
         ELSE server[OutputOf(ref)] = Absent \/ Garbage(ref)
    ELSE accepted /\ server[Primary(ref)] # Absent => server[Primary(ref)].status = Seen(ref)

OffRecord(ref) == ref \in OutputRuns /\ OutputOf(ref) \in unrecorded

\* Once every event has been handled, nothing waits for the next resync: a
\* change has reached every invocation that reads what changed, directly or
\* through the status or the output of another, unless its update was
\* filtered out, a call failed, a primary of the same name was being
\* deleted, which skips a status and takes an output off record, or a cleanup
\* that had begun for an earlier object of its name has made the tracker
\* forget what it reads.
UpToDate ==
    Quiet => \A ref \in Invocations :
        Active(ref) => ref \in missed \/ OffRecord(ref) \/ InPlace(ref)

\* A primary that has had the manager's finalizer does not leave before its
\* OnDelete callback has succeeded, unless a cleanup that was under way for an
\* earlier object of its name has taken the finalizer off.
CallbackBeforeGone ==
    [][\A o \in Primaries :
          server[o] # Absent /\ server'[o] = Absent /\ server[o].uid \in held
             => server[o].uid \in called' \cup stripped']_vars

\* From when the manager sees that a primary is being deleted, it does not
\* take another controller's finalizer off it, although each of its patches
\* replaces the whole list by a copy that may be out of date; unless that copy
\* is of an earlier object of its name.
ForeignKept ==
    [][\A o \in Primaries :
          (/\ IsDeleting(o, cache) /\ server[o] # Absent /\ server[o].uid = cache[o].uid
           /\ Foreign \in server[o].finalizers
           /\ server'[o] = Absent \/ Foreign \notin server'[o].finalizers)
             => UNCHANGED job \/ server[o].uid \in stripped']_vars

\* o was made for a primary that is still there and still makes it.
Claimed(o) == \E ref \in OutputRuns :
    /\ OutputOf(ref) = o /\ Active(ref) /\ Accepts(ref.id, cache[Primary(ref)].spec)
    /\ server[o].owner = cache[Primary(ref)].uid

\* gcOrphans deletes nothing that a primary wants, unless the record of the
\* output was cleared with that of a primary of the same name.
OrphansUnlessUnrecorded ==
    [][GcOrphans => \A o \in Outputs :
          server[o] # Absent /\ server'[o] = Absent => ~Claimed(o) \/ o \in unrecorded]_vars

\* gcOrphans deletes only outputs that "are not claimed by any sub-reconciler
\* in the current lastOutputs", and what runCleanup takes off that record is
\* "for this primary" only: none that a primary has run for and wants.
OnlyOrphansCollected ==
    [][GcOrphans => \A o \in Outputs : server[o] # Absent /\ server'[o] = Absent => ~Claimed(o)]_vars
=============================================================================
