-------------------------- MODULE OutputReconciler --------------------------
(***************************************************************************)
(* manager.go: one output reconciler (Reconcile or ReconcileMany) under    *)
(* the default owner-reference strategy, run at the same time by the       *)
(* goroutines that may run it: one event handler per watched kind, and the *)
(* goroutine of Start with its periodic fullReconcile and gcOrphans.       *)
(* Nothing but Manager.mu and the tracker's lock, both held for a few      *)
(* statements, orders them.                                                *)
(*                                                                         *)
(* Every read of the informer cache, every call to the API server and      *)
(* every critical section is a step of its own.  The API server, the watch *)
(* that feeds the cache and the garbage collector of Kubernetes are        *)
(* external.                                                               *)
(***************************************************************************)
EXTENDS Naturals, Sequences, FiniteSets, SequencesExt

CONSTANTS
    Primaries,        \* keys of the primary resources
    Deps,             \* keys of the resources the reconciler may Fetch
    Outputs,          \* keys of the outputs it may produce
    Specs,            \* contents of a primary
    Vals,             \* contents of a dependency
    Fetches(_, _),    \* Fetches(p, spec): the keys the function fetches
    Desired(_, _, _), \* Desired(p, spec, seen): the outputs it then returns
    Absent,           \* no such object
    None,             \* no value in a local variable
    MaxQueue,         \* bound: notifications a handler has not taken yet
    MaxChanges,       \* bound: changes made by users
    MaxFailures,      \* bound: API calls that fail
    MaxRestarts       \* bound: crashes of the manager's process

Keys == Primaries \cup Deps \cup Outputs

\* A handler goroutine per informer, and Start's own goroutine.
Handlers == {"primaries", "deps", "outputs"}
Procs    == Handlers \cup {"resync"}

KeysOf == [h \in Handlers |-> CASE h = "primaries" -> Primaries
                                [] h = "deps"      -> Deps
                                [] h = "outputs"   -> Outputs]

\* Resources of different kinds have different keys.
ASSUME KeysDistinct == /\ Primaries \cap Deps = {}
                       /\ Primaries \cap Outputs = {}
                       /\ Deps \cap Outputs = {}

\* The function returns outputs and fetches dependencies.
ASSUME FunctionAssumption ==
    /\ \A p \in Primaries, s \in Specs : Fetches(p, s) \in SUBSET Deps
    /\ \A p \in Primaries, s \in Specs : \A seen \in [Deps -> Vals \cup {Absent, None}] :
          Desired(p, s, seen) \in SUBSET Outputs

\* There are finitely many objects, and the bounds are numbers.
ASSUME BoundsAssumption ==
    /\ IsFiniteSet(Keys)
    /\ MaxQueue \in Nat /\ MaxChanges \in Nat /\ MaxFailures \in Nat /\ MaxRestarts \in Nat

VARIABLES
    api,          \* what the API server holds
    cache,        \* what the informers hold
    queue,        \* notifications each handler still has to process
    tracked,      \* the tracker's narrow keys of each primary's invocation
    lastOutputs,  \* Manager.lastOutputs of each primary
    proc,         \* program counter and local variables of each goroutine
    born,         \* how often each primary was created: the UID counter
    changes, failures, restarts,  \* how much of each bound is used up
    excused,      \* history: outputs whose record a failure or crash lost
    pass          \* history: how far an undisturbed full reconcile has come

manager == <<queue, tracked, lastOutputs, proc>>
bounds  == <<changes, failures, restarts>>
vars    == <<api, cache, manager, born, bounds, excused, pass>>

Exists(k) == api[k] # Absent

Unread == [d \in Deps |-> None]

NoOwner == <<>>

Idle == [pc |-> "idle", key |-> None, todo |-> {},
         cur |-> None, spec |-> None, seen |-> Unread, want |-> {}, left |-> {},
         owner |-> NoOwner]

-----------------------------------------------------------------------------
(* Startup *)

\* Mutant: objects of every kind are listed.
Listed_AllKinds(store) == {k \in Keys : store[k] # Absent}

\* The primaries that cache.List returns.
Listed(store) == {p \in Primaries : store[p] # Absent}

\* OnAdd for each object the informers list at startup, in the list's order.
StartQueue(store) == [h \in Handlers |-> SetToSeq({k \in KeysOf[h] : store[k] # Absent})]

\* Start: the caches have synced and the first fullReconcile begins.
StartProcs(store) ==
    [w \in Procs |-> IF w = "resync" THEN [Idle EXCEPT !.pc = "run", !.todo = Listed(store)]
                                     ELSE Idle]

Init == /\ \E spec \in [Primaries -> Specs \cup {Absent}], val \in [Deps -> Vals \cup {Absent}] :
              api = [k \in Keys |->
                       CASE k \in Primaries -> IF spec[k] = Absent THEN Absent
                                               ELSE [uid |-> <<k, 1>>, spec |-> spec[k]]
                         [] k \in Deps      -> val[k]
                         [] OTHER           -> Absent]
        /\ cache = api
        /\ queue = StartQueue(api)
        /\ tracked = [p \in Primaries |-> {}]
        /\ lastOutputs = [p \in Primaries |-> {}]
        /\ proc = StartProcs(api)
        /\ born = [p \in Primaries |-> 1]
        /\ changes = 0 /\ failures = 0 /\ restarts = 0
        /\ excused = {}
        /\ pass = "disturbed"

-----------------------------------------------------------------------------
(* Users and the API machinery *)

\* A user's change to one object.
Change(k, obj) ==
    /\ changes < MaxChanges
    /\ changes' = changes + 1
    /\ api' = [api EXCEPT ![k] = obj]
    /\ pass' = "disturbed"
    /\ UNCHANGED <<cache, manager, failures, restarts, excused>>

CreatePrimary(p, s) == /\ ~Exists(p)
                       /\ born' = [born EXCEPT ![p] = @ + 1]
                       /\ Change(p, [uid |-> <<p, born[p] + 1>>, spec |-> s])

UpdatePrimary(p, s) == /\ Exists(p)
                       /\ api[p].spec # s
                       /\ Change(p, [api[p] EXCEPT !.spec = s])
                       /\ UNCHANGED born

DeletePrimary(p) == Exists(p) /\ Change(p, Absent) /\ UNCHANGED born

ChangeDep(d, v) == api[d] # v /\ Change(d, v) /\ UNCHANGED born

\* Somebody else deletes an output of the manager.
DeleteOutput(o) == Exists(o) /\ Change(o, Absent) /\ UNCHANGED born

\* The owner of the output is gone.
Garbage(o) == /\ Exists(o)
              /\ api[o].owner # NoOwner
              /\ ~\E p \in Primaries : Exists(p) /\ api[p].uid = api[o].owner

\* The garbage collector of Kubernetes.
CollectGarbage(o) ==
    /\ Garbage(o)
    /\ api' = [api EXCEPT ![o] = Absent]
    /\ UNCHANGED <<cache, manager, born, bounds, excused, pass>>

\* The watch brings the informer up to date, which queues a notification.
Deliver(h, k) ==
    /\ cache[k] # api[k]
    /\ Len(queue[h]) < MaxQueue
    /\ cache' = [cache EXCEPT ![k] = api[k]]
    /\ queue' = [queue EXCEPT ![h] = Append(@, k)]
    /\ UNCHANGED <<api, tracked, lastOutputs, proc, born, bounds, excused, pass>>

\* The process dies between any two steps and a new one runs Start: all that
\* the manager knew is lost, what exists in the cluster is not.
Restart ==
    /\ restarts < MaxRestarts
    /\ restarts' = restarts + 1
    /\ cache' = api
    /\ queue' = StartQueue(api)
    /\ tracked' = [p \in Primaries |-> {}]
    /\ lastOutputs' = [p \in Primaries |-> {}]
    /\ proc' = StartProcs(api)
    /\ excused' = {o \in Outputs : Exists(o)}
    /\ pass' = "disturbed"
    /\ UNCHANGED <<api, born, changes, failures>>

-----------------------------------------------------------------------------
(* eventHandler.handle and the two halves of a resync *)

\* The handler takes the next notification.  One about a primary first runs
\* the reconciler for it, then looks up who depends on it.
Dequeue(h) ==
    /\ proc[h].pc = "idle"
    /\ queue[h] # <<>>
    /\ LET k == Head(queue[h]) IN
         proc' = [proc EXCEPT ![h] = [Idle EXCEPT !.pc = "run", !.key = k,
                                                  !.todo = {k} \cap Primaries]]
    /\ queue' = [queue EXCEPT ![h] = Tail(@)]
    /\ UNCHANGED <<api, cache, tracked, lastOutputs, born, bounds, excused, pass>>

\* A handler with nothing left to run waits for the next notification; the
\* resync goes on to gcOrphans.
Onward(w, r) == IF w \in Handlers /\ r.todo = {} /\ r.key = None THEN Idle ELSE r

\* tracker.Lookup, after the primary's own run; then its refs run in turn.
Lookup(h) ==
    LET refs == {p \in Primaries : proc[h].key \in tracked[p]}
    IN  /\ proc[h].pc = "run" /\ proc[h].todo = {} /\ proc[h].key # None
        /\ proc' = [proc EXCEPT ![h] = Onward(h, [proc[h] EXCEPT !.key = None, !.todo = refs])]
        /\ UNCHANGED <<api, cache, queue, tracked, lastOutputs, born, bounds, excused, pass>>

\* Nothing is on its way and nobody but the resync is at work.
Calm == /\ cache = api
        /\ \A h \in Handlers : queue[h] = <<>> /\ proc[h] = Idle
        /\ ~\E o \in Outputs : Garbage(o)

\* Mutant: the periodic pass collects orphans but reconciles nothing.
StartResync_GCOnly ==
    /\ proc["resync"].pc = "idle"
    /\ proc' = [proc EXCEPT !["resync"].pc = "run"]
    /\ pass' = IF Calm THEN "undisturbed" ELSE "disturbed"
    /\ UNCHANGED <<api, cache, queue, tracked, lastOutputs, born, bounds, excused>>

\* The ticker fires: fullReconcile lists the primaries of the cache.
StartResync ==
    /\ proc["resync"].pc = "idle"
    /\ proc' = [proc EXCEPT !["resync"].pc = "run", !["resync"].todo = Listed(cache)]
    /\ pass' = IF Calm THEN "undisturbed" ELSE "disturbed"
    /\ UNCHANGED <<api, cache, queue, tracked, lastOutputs, born, bounds, excused>>

\* gcOrphans: the outputs on record, copied under Manager.mu.
SnapshotWanted ==
    /\ proc["resync"].pc = "run" /\ proc["resync"].todo = {}
    /\ proc' = [proc EXCEPT !["resync"].pc = "list",
                            !["resync"].want = UNION {lastOutputs[p] : p \in Primaries}]
    /\ UNCHANGED <<api, cache, queue, tracked, lastOutputs, born, bounds, excused, pass>>

\* Mutant: the label selector matches nothing.
ListManaged_WrongLabel ==
    /\ proc["resync"].pc = "list"
    /\ proc' = [proc EXCEPT !["resync"].pc = "collect"]
    /\ UNCHANGED <<api, cache, queue, tracked, lastOutputs, born, bounds, excused, pass>>

\* gcOrphans: the outputs that carry the managed-by label, listed at the API
\* server, less those on record.
ListManaged ==
    /\ proc["resync"].pc = "list"
    /\ proc' = [proc EXCEPT !["resync"].pc = "collect",
                            !["resync"].left = {o \in Outputs : Exists(o)} \ proc["resync"].want]
    /\ UNCHANGED <<api, cache, queue, tracked, lastOutputs, born, bounds, excused, pass>>

\* The list failed; that is logged, and nothing is collected.
ListManagedFails ==
    /\ proc["resync"].pc = "list"
    /\ failures < MaxFailures
    /\ failures' = failures + 1
    /\ proc' = [proc EXCEPT !["resync"].pc = "collect"]
    /\ pass' = "disturbed"
    /\ UNCHANGED <<api, cache, queue, tracked, lastOutputs, born, changes, restarts, excused>>

\* gcOrphans: deleteIfExists on one orphan.
CollectOrphan(o) ==
    /\ proc["resync"].pc = "collect" /\ o \in proc["resync"].left
    /\ api' = [api EXCEPT ![o] = Absent]
    /\ proc' = [proc EXCEPT !["resync"].left = @ \ {o}]
    /\ UNCHANGED <<cache, queue, tracked, lastOutputs, born, bounds, excused, pass>>

\* The delete failed; the orphan is left for the next pass.
CollectOrphanFails(o) ==
    /\ proc["resync"].pc = "collect" /\ o \in proc["resync"].left
    /\ failures < MaxFailures
    /\ failures' = failures + 1
    /\ proc' = [proc EXCEPT !["resync"].left = @ \ {o}]
    /\ pass' = "disturbed"
    /\ UNCHANGED <<api, cache, queue, tracked, lastOutputs, born, changes, restarts, excused>>

EndResync ==
    /\ proc["resync"].pc = "collect" /\ proc["resync"].left = {}
    /\ proc' = [proc EXCEPT !["resync"] = Idle]
    /\ pass' = IF pass = "undisturbed" THEN "complete" ELSE pass
    /\ UNCHANGED <<api, cache, queue, tracked, lastOutputs, born, bounds, excused>>

-----------------------------------------------------------------------------
(* runSubReconciler, by any of the goroutines *)

\* The run for p in w, which is over at once when p is not in the cache.
Begun(w, p) == IF cache[p] = Absent
               THEN Onward(w, [proc[w] EXCEPT !.todo = @ \ {p}])
               ELSE [proc[w] EXCEPT !.todo = @ \ {p}, !.pc = "fetch", !.cur = p, !.spec = cache[p].spec]

\* Reconcile reads the primary from the cache.  If it is not there the run
\* ends with an error and leaves lastOutputs and the tracker as they were.
GetPrimary(w, p) ==
    /\ proc[w].pc = "run" /\ p \in proc[w].todo
    /\ proc' = [proc EXCEPT ![w] = Begun(w, p)]
    /\ UNCHANGED <<api, cache, queue, tracked, lastOutputs, born, bounds, excused, pass>>

\* The function fetches one of its dependencies.
Fetch(w, d) ==
    /\ proc[w].pc = "fetch"
    /\ d \in Fetches(proc[w].cur, proc[w].spec) /\ proc[w].seen[d] = None
    /\ proc' = [proc EXCEPT ![w].seen[d] = cache[d]]
    /\ UNCHANGED <<api, cache, queue, tracked, lastOutputs, born, bounds, excused, pass>>

\* The function has returned: what it read replaces the tracked keys.
SetDeps(w) ==
    LET p == proc[w].cur
        reads == Fetches(p, proc[w].spec)
        want == Desired(p, proc[w].spec, proc[w].seen)
    IN  /\ proc[w].pc = "fetch"
        /\ \A d \in reads : proc[w].seen[d] # None
        /\ tracked' = [tracked EXCEPT ![p] = reads]
        /\ proc' = [proc EXCEPT ![w].pc = "apply", ![w].want = want, ![w].left = want]
        /\ UNCHANGED <<api, cache, queue, lastOutputs, born, bounds, excused, pass>>

\* Before each apply the primary is read once more for the owner reference,
\* which is left out if it has gone meanwhile.
ReadOwner(w) ==
    LET p == proc[w].cur IN
    /\ proc[w].pc = "apply" /\ proc[w].left # {}
    /\ proc' = [proc EXCEPT ![w].pc = "send",
                            ![w].owner = IF cache[p] = Absent THEN NoOwner ELSE cache[p].uid]
    /\ UNCHANGED <<api, cache, queue, tracked, lastOutputs, born, bounds, excused, pass>>

\* The output as the run in w applies it.
Applied(w) == [owner |-> proc[w].owner, spec |-> proc[w].spec, seen |-> proc[w].seen]

\* The apply of o is behind the run in w, whether it succeeded or not.
Sent(w, o) == [proc[w] EXCEPT !.pc = "apply", !.left = @ \ {o}, !.owner = NoOwner]

\* Mutant: the output is created, and left alone when it exists.
Apply_CreateOnly(w, o) ==
    /\ proc[w].pc = "send" /\ o \in proc[w].left
    /\ api' = IF Exists(o) THEN api ELSE [api EXCEPT ![o] = Applied(w)]
    /\ proc' = [proc EXCEPT ![w] = Sent(w, o)]
    /\ UNCHANGED <<cache, queue, tracked, lastOutputs, born, bounds, excused, pass>>

\* applyDesired: server-side apply, which creates or overwrites.
Apply(w, o) ==
    /\ proc[w].pc = "send" /\ o \in proc[w].left
    /\ api' = [api EXCEPT ![o] = Applied(w)]
    /\ proc' = [proc EXCEPT ![w] = Sent(w, o)]
    /\ UNCHANGED <<cache, queue, tracked, lastOutputs, born, bounds, excused, pass>>

\* The apply failed; that is logged, and the output still counts as wanted.
ApplyFails(w, o) ==
    /\ proc[w].pc = "send" /\ o \in proc[w].left
    /\ failures < MaxFailures
    /\ failures' = failures + 1
    /\ proc' = [proc EXCEPT ![w] = Sent(w, o)]
    /\ pass' = "disturbed"
    /\ UNCHANGED <<api, cache, queue, tracked, lastOutputs, born, changes, restarts, excused>>

\* AppendNarrow: the outputs become dependencies of the run too.
TrackOutputs(w) ==
    /\ proc[w].pc = "apply" /\ proc[w].left = {}
    /\ tracked' = [tracked EXCEPT ![proc[w].cur] = @ \cup proc[w].want]
    /\ proc' = [proc EXCEPT ![w].pc = "swap"]
    /\ UNCHANGED <<api, cache, queue, lastOutputs, born, bounds, excused, pass>>

\* The goroutine moves on to its next primary; the run's locals are gone.
RunOver(w) == Onward(w, [Idle EXCEPT !.pc = "run", !.key = proc[w].key, !.todo = proc[w].todo])

\* Mutant: the previous outputs are replaced without being compared.
SwapLastOutputs_NoCompare(w) ==
    /\ proc[w].pc = "swap"
    /\ lastOutputs' = [lastOutputs EXCEPT ![proc[w].cur] = proc[w].want]
    /\ proc' = [proc EXCEPT ![w] = RunOver(w)]
    /\ UNCHANGED <<api, cache, queue, tracked, born, bounds, excused, pass>>

\* lastOutputs is read and replaced in one critical section.
SwapLastOutputs(w) ==
    LET stale == lastOutputs[proc[w].cur] \ proc[w].want
    IN  /\ proc[w].pc = "swap"
        /\ lastOutputs' = [lastOutputs EXCEPT ![proc[w].cur] = proc[w].want]
        /\ proc' = [proc EXCEPT ![w] = IF stale = {} THEN RunOver(w)
                                       ELSE [proc[w] EXCEPT !.pc = "delete", !.left = stale]]
        /\ UNCHANGED <<api, cache, queue, tracked, born, bounds, excused, pass>>

\* The next stale output after o, or the end of the run.
StaleLeft(w, o) == IF proc[w].left = {o} THEN RunOver(w)
                   ELSE [proc[w] EXCEPT !.left = @ \ {o}]

\* releaseOwnership says yes and deleteIfExists deletes by name.
DeleteStale(w, o) ==
    /\ proc[w].pc = "delete" /\ o \in proc[w].left
    /\ api' = [api EXCEPT ![o] = Absent]
    /\ proc' = [proc EXCEPT ![w] = StaleLeft(w, o)]
    /\ UNCHANGED <<cache, queue, tracked, lastOutputs, born, bounds, excused, pass>>

\* The delete failed; that is logged, and no record of the output remains.
DeleteStaleFails(w, o) ==
    /\ proc[w].pc = "delete" /\ o \in proc[w].left
    /\ failures < MaxFailures
    /\ failures' = failures + 1
    /\ proc' = [proc EXCEPT ![w] = StaleLeft(w, o)]
    /\ excused' = excused \cup {o}
    /\ pass' = "disturbed"
    /\ UNCHANGED <<api, cache, queue, tracked, lastOutputs, born, changes, restarts>>

-----------------------------------------------------------------------------
Users ==
    \/ \E p \in Primaries : \/ \E s \in Specs : CreatePrimary(p, s) \/ UpdatePrimary(p, s)
                            \/ DeletePrimary(p)
    \/ \E d \in Deps, v \in Vals \cup {Absent} : ChangeDep(d, v)
    \/ \E o \in Outputs : DeleteOutput(o)

Cluster == \/ \E h \in Handlers : \E k \in KeysOf[h] : Deliver(h, k)
           \/ \E o \in Outputs : CollectGarbage(o)

Trouble == \/ Restart
           \/ ListManagedFails
           \/ \E o \in Outputs : CollectOrphanFails(o)
           \/ \E w \in Procs, o \in Outputs : ApplyFails(w, o) \/ DeleteStaleFails(w, o)

\* What goroutine w does next when no call of it fails.
Run(w) == \/ \E p \in Primaries : GetPrimary(w, p)
          \/ \E d \in Deps : Fetch(w, d)
          \/ SetDeps(w) \/ ReadOwner(w)
          \/ \E o \in Outputs : Apply(w, o) \/ DeleteStale(w, o)
          \/ TrackOutputs(w)
          \/ SwapLastOutputs(w)

Handle(h) == Dequeue(h) \/ Lookup(h) \/ Run(h)

Resync == \/ StartResync \/ Run("resync")
          \/ SnapshotWanted \/ ListManaged \/ EndResync
          \/ \E o \in Outputs : CollectOrphan(o)

Next == Users \/ Cluster \/ Trouble \/ Resync \/ \E h \in Handlers : Handle(h)

Spec == Init /\ [][Next]_vars

\* The scheduler runs every goroutine, the ticker keeps ticking, the watch
\* delivers and the garbage collector collects.  Nobody has to change
\* anything, and no call has to fail.
Fairness == /\ \A h \in Handlers : WF_vars(\E k \in KeysOf[h] : Deliver(h, k))
            /\ WF_vars(\E o \in Outputs : CollectGarbage(o))
            /\ WF_vars(Resync)
            /\ \A h \in Handlers : WF_vars(Handle(h))

FairSpec == Spec /\ Fairness

-----------------------------------------------------------------------------
(* Properties *)

Uids == Primaries \X Nat

PrimaryObject == [uid : Uids, spec : Specs]
OutputObject  == [owner : Uids \cup {NoOwner}, spec : Specs, seen : [Deps -> Vals \cup {Absent, None}]]

StoreOK(store) ==
    /\ store \in [Keys -> PrimaryObject \cup OutputObject \cup Vals \cup {Absent}]
    /\ \A p \in Primaries : store[p] \in PrimaryObject \cup {Absent}
    /\ \A d \in Deps : store[d] \in Vals \cup {Absent}
    /\ \A o \in Outputs : store[o] \in OutputObject \cup {Absent}

ProcRecord ==
    [pc   : {"idle", "run", "fetch", "apply", "send", "swap", "delete", "list", "collect"},
     key  : Keys \cup {None},
     todo : SUBSET Primaries,
     cur  : Primaries \cup {None},
     spec : Specs \cup {None},
     seen : [Deps -> Vals \cup {Absent, None}],
     want : SUBSET Outputs,
     left : SUBSET Outputs,
     owner : Uids \cup {NoOwner}]

TypeOK == /\ StoreOK(api) /\ StoreOK(cache)
          /\ queue \in [Handlers -> Seq(Keys)]
          /\ tracked \in [Primaries -> SUBSET Keys]
          /\ lastOutputs \in [Primaries -> SUBSET Outputs]
          /\ proc \in [Procs -> ProcRecord]
          /\ born \in [Primaries -> Nat]
          /\ changes \in 0..MaxChanges /\ failures \in 0..MaxFailures /\ restarts \in 0..MaxRestarts
          /\ excused \in SUBSET Outputs
          /\ pass \in {"disturbed", "undisturbed", "complete"}

\* Some goroutine is between applying o and recording it, or about to
\* delete it.
InHand(w, o) == \/ proc[w].pc \in {"apply", "send", "swap"} /\ o \in proc[w].want
                \/ proc[w].pc = "delete" /\ o \in proc[w].left

\* No goroutine makes another one forget an output: whatever the overlap of
\* runs of the same primary, each output that exists is in lastOutputs, or in
\* the hands of a run that will record or delete it.  Only a failed delete or
\* a crash loses the record, and leaves the output to gcOrphans.
NoOutputForgotten ==
    \A o \in Outputs : Exists(o) => \/ \E p \in Primaries : o \in lastOutputs[p]
                                    \/ \E w \in Procs : InHand(w, o)
                                    \/ o \in excused

\* What the reconciler's function makes of the cluster as it is now.
ReadNow(p)    == [d \in Deps |-> IF d \in Fetches(p, api[p].spec) THEN api[d] ELSE None]
WantedNow(p)  == IF Exists(p) THEN Desired(p, api[p].spec, ReadNow(p)) ELSE {}
ProperNow(p)  == [owner |-> api[p].uid, spec |-> api[p].spec, seen |-> ReadNow(p)]

OutputsInPlace == \A p \in Primaries : \A o \in WantedNow(p) : api[o] = ProperNow(p)

\* An output applied just after its primary vanished from the cache has no
\* owner, and stays on the record of a primary that no run will ever touch.
Stranded(o) == /\ api[o].owner = NoOwner
               /\ \E p \in Primaries : ~Exists(p) /\ o \in lastOutputs[p]

Restored == /\ OutputsInPlace
            /\ \A o \in Outputs : Exists(o) => \/ \E p \in Primaries : o \in WantedNow(p)
                                               \/ Stranded(o)

\* Overlapping runs may apply stale contents, delete what another run has
\* just applied, or bring back what it has deleted, and events may be missed.
\* A full reconcile with gcOrphans that begins when nothing else is on its way
\* repairs all of it, even while the handlers react to its own changes, and
\* nothing undoes the repair until the next change, failure or crash.
ResyncRepairs == pass = "complete" => Restored

\* In the long run, once users leave the cluster alone, the outputs are what
\* the reconciler wants, and stay so.
EventuallyRestored == <>[]Restored

\* Nothing is under way, and every notification has been handled.
Settled == /\ Calm
           /\ proc["resync"] = Idle
           /\ failures = 0

\* When a fetched resource changes, the reconciler that fetched it is re-run:
\* with every notification handled, no output shows an older value of a
\* dependency than the cluster holds.
FetchedChangeReinvokes ==
    Settled => \A p \in Primaries : \A o \in lastOutputs[p] :
                  Exists(p) /\ Exists(o) => api[o].seen = ReadNow(p)
=============================================================================
