------------------------------- MODULE Startup -------------------------------
(***************************************************************************)
(* Registration (Watch, Reconcile and its siblings), Manager.Start and     *)
(* retryPendingWatches: from the calls that set a manager up to the point  *)
(* where every watched type has its event handler, when the CRDs of some   *)
(* types are installed only after the manager has started.                 *)
(*                                                                         *)
(* A type has one object, a run of a sub-reconciler is one step and what   *)
(* it applies is abstracted to whether it has seen the object it fetches.  *)
(* The goroutines are Start's, that of retryPendingWatches, and one for    *)
(* each type that is watched.                                              *)
(***************************************************************************)
EXTENDS Integers, Sequences, FiniteSets

CONSTANTS
    GVKs,          \* the types: [group, kind]
    Programs,      \* sequences of the calls that register: [form, primary, output]
    Fetched(_),    \* reconciler -> the types its function fetches
    MaxBusy,       \* bound on the handlers that are at work at a time
    MaxFailures    \* bound on the calls to the API server that fail

Forms == {"->", "->[]", "~>", "~>[]", "status"}

ASSUME ProgramsAssumption ==
    \A p \in Programs : p \in Seq([form : Forms, primary : GVKs, output : GVKs])

VARIABLES
    served, exists,  \* types with a CRD; types whose object has been created
    informers,       \* the types that the cache has an informer for
    cached,          \* the types whose object the cache shows
    program,         \* the calls that are still to be made
    watchedGVKs,     \* Manager.watchedGVKs
    registered,      \* [Registries -> Seq]: Manager.reconcilers and its siblings
    start,           \* Start: where it is and its local state
    retry,           \* retryPendingWatches, likewise
    pendingWatches,  \* Manager.pendingWatches
    handlers,        \* [GVKs -> the number of handlers on the informer]
    events,          \* the types whose Add has not been handled
    job,             \* [GVKs -> what the type's handler has left to do]
    ran,             \* the reconcilers with dependencies in the tracker
    made,            \* [Makers -> what it has made, as the API server has it]
    lastOutputs,     \* [IDs -> the outputs on record]
    failures

cluster  == <<served, exists>>
store    == <<informers, cached>>
setup    == <<program, watchedGVKs, registered>>
watches  == <<pendingWatches, handlers, events>>
results  == <<ran, made, lastOutputs>>
vars     == <<cluster, store, setup, start, retry, watches, job, results, failures>>

-----------------------------------------------------------------------------
\* Registration.

\* Reconcile and ReconcileMany share a list, and so do the patches' forms.
Registries == {"outputs", "patches", "status"}
Registry(form) == CASE form \in {"->", "->[]"} -> "outputs"
                    [] form \in {"~>", "~>[]"} -> "patches"
                    [] form = "status" -> "status"

\* The n-th reconciler with its types.  The ID names their kinds, without the
\* groups: "A->O", "A->[]O#1", "A.status".
Number(c, n) == [form |-> c.form, primary |-> c.primary, output |-> c.output, nth |-> n]
ID(r) == [form |-> r.form, primary |-> r.primary.kind, output |-> r.output.kind, nth |-> r.nth]

\* Mutant: an ID that already has a number is not counted.
Count_First(c, list) == Cardinality({i \in DOMAIN list : ID(list[i]) = ID(Number(c, 1))})

\* The reconcilers of the list that have the same types in full.
Count(c, list) == Cardinality({i \in DOMAIN list : list[i].primary = c.primary /\ list[i].output = c.output})

RangeOf(s) == {s[i] : i \in DOMAIN s}
IsMaker(c) == Registry(c.form) = "outputs"
Calls  == UNION {RangeOf(p) : p \in Programs}
Makers == UNION {LET makers == {i \in DOMAIN p : IsMaker(p[i])} IN
                 {Number(p[i], n) : i \in makers, n \in 1 .. Cardinality(makers)} : p \in Programs}
IDs    == {ID(r) : r \in Makers}

ASSUME FetchedAssumption == \A r \in Makers : Fetched(r) \subseteq GVKs

Reconcilers == registered["outputs"]

\* Watch: a call takes the collections of its types from there, and an output's
\* type is watched by the registration itself.
Watch(c) == watchedGVKs' = watchedGVKs \cup {c.primary, c.output}

Register ==
    /\ start.at = "setup" /\ program # <<>>
    /\ LET c == Head(program) list == registered[Registry(c.form)] IN
          /\ Watch(c)
          /\ registered' = [registered EXCEPT ![Registry(c.form)] = Append(list, Number(c, 1 + Count(c, list)))]
    /\ program' = Tail(program)
    /\ UNCHANGED <<cluster, store, start, retry, watches, job, results, failures>>

-----------------------------------------------------------------------------
Idle    == [at |-> "idle", todo |-> {}]
NoRetry == [at |-> "none", batch |-> {}, still |-> {}, resolved |-> FALSE, plan |-> <<>>]

Init ==
    /\ served \in SUBSET GVKs /\ exists = {}
    /\ informers = {} /\ cached = {}
    /\ program \in Programs /\ watchedGVKs = {} /\ registered = [q \in Registries |-> <<>>]
    /\ start = [at |-> "setup", left |-> {}, pending |-> {}, plan |-> <<>>, started |-> FALSE]
    /\ retry = NoRetry
    /\ pendingWatches = {} /\ handlers = [k \in GVKs |-> 0] /\ events = {}
    /\ job = [k \in GVKs |-> Idle]
    /\ ran = {} /\ made = [r \in Makers |-> "absent"] /\ lastOutputs = [id \in IDs |-> {}]
    /\ failures = 0

-----------------------------------------------------------------------------
\* The cluster.

\* A CRD is installed.
Serve(k) ==
    /\ k \notin served /\ served' = served \cup {k}
    /\ UNCHANGED <<exists, store, setup, start, retry, watches, job, results, failures>>

Create(k) ==
    /\ k \in served \ exists /\ (\E c \in Calls : c.primary = k) /\ exists' = exists \cup {k}
    /\ UNCHANGED <<served, store, setup, start, retry, watches, job, results, failures>>

\* The watch of an informer brings an object in and tells the handlers.
Refresh(k) ==
    /\ start.at \notin {"setup", "register", "failed"}
    /\ k \in (informers \cap exists) \ cached
    /\ cached' = cached \cup {k}
    /\ events' = IF handlers[k] > 0 THEN events \cup {k} ELSE events
    /\ UNCHANGED <<cluster, informers, setup, start, retry, pendingWatches, handlers, job, results, failures>>

Failure == failures < MaxFailures /\ failures' = failures + 1

-----------------------------------------------------------------------------
\* Runs of a sub-reconciler.

\* Mutant: the informer is there before the CRD.
Reads_Unserved(ks) ==
    LET new == ks \ informers IN
    /\ informers' = informers \cup new
    /\ cached' = cached \cup (new \cap exists)

\* A read of a type without an informer starts one and waits for it.
Reads(ks) ==
    LET new == (ks \cap served) \ informers IN
    /\ informers' = informers \cup new
    /\ cached' = cached \cup (new \cap exists)

\* Mutant: the record is of what has been applied.
Run_Applied(r, applied) ==
    /\ made' = [m \in Makers |->
          CASE m = r /\ applied /\ r.output \in served ->
                  IF Fetched(r) \subseteq cached' THEN "full" ELSE "partial"
            [] m \in lastOutputs[ID(r)] \ {r} -> "absent"
            [] OTHER -> made[m]]
    /\ lastOutputs' = IF applied THEN [lastOutputs EXCEPT ![ID(r)] = {r}] ELSE lastOutputs
    /\ ran' = ran \cup {r}
    /\ IF applied THEN UNCHANGED failures ELSE Failure

\* runSubReconciler: the outputs go on record whether or not the apply has
\* succeeded, and what the record had besides is deleted.
Run(r, applied) ==
    /\ made' = [m \in Makers |->
          CASE m = r /\ applied /\ r.output \in served ->
                  IF Fetched(r) \subseteq cached' THEN "full" ELSE "partial"
            [] m \in lastOutputs[ID(r)] \ {r} -> "absent"
            [] OTHER -> made[m]]
    /\ lastOutputs' = [lastOutputs EXCEPT ![ID(r)] = {r}]
    /\ ran' = ran \cup {r}
    /\ IF applied THEN UNCHANGED failures ELSE Failure

NotRun == UNCHANGED <<ran, made, lastOutputs, failures>>

\* One reconciler of a full reconcile: list the primaries, which fails while
\* their type is not served, and run it for each.
ReconcileOne(r) ==
    \/ /\ r.primary \notin served
       /\ NotRun /\ UNCHANGED store
    \/ /\ r.primary \in served \ informers /\ Failure
       /\ UNCHANGED <<store, ran, made, lastOutputs>>
    \/ /\ r.primary \in served
       /\ Reads({r.primary} \cup Fetched(r))
       /\ IF r.primary \in cached' THEN \E applied \in BOOLEAN : Run(r, applied) ELSE NotRun

-----------------------------------------------------------------------------
\* Start.

\* An earlier manager of the same program may have left its outputs behind.
Begin ==
    /\ start.at = "setup" /\ program = <<>>
    /\ start' = [start EXCEPT !.at = "register", !.left = watchedGVKs]
    /\ \E restarted \in BOOLEAN :
          made' = [r \in Makers |->
              IF restarted /\ r.output \in served /\ r \in RangeOf(Reconcilers)
              THEN "partial" ELSE "absent"]
    /\ UNCHANGED <<cluster, store, setup, retry, watches, job, ran, lastOutputs, failures>>

\* registerHandler: the informer replays what it has to the new handler.
AddHandler(k) ==
    /\ handlers' = [handlers EXCEPT ![k] = @ + 1]
    /\ Reads({k})
    /\ events' = IF k \in cached' THEN events \cup {k} ELSE events

\* The registration of one type; the informers are not started yet.
RegisterWatch(k) ==
    /\ start.at = "register" /\ k \in start.left
    /\ \/ /\ k \in served
          /\ handlers' = [handlers EXCEPT ![k] = @ + 1] /\ informers' = informers \cup {k}
          /\ start' = [start EXCEPT !.left = @ \ {k}]
          /\ UNCHANGED <<failures>>
       \/ /\ k \notin served
          /\ start' = [start EXCEPT !.left = @ \ {k}, !.pending = @ \cup {k}]
          /\ UNCHANGED <<handlers, informers, failures>>
       \/ /\ Failure
          /\ start' = [start EXCEPT !.at = "failed"]
          /\ UNCHANGED <<handlers, informers>>
    /\ UNCHANGED <<cluster, cached, setup, retry, pendingWatches, events, job, results>>

\* cache.Start and WaitForCacheSync.
CacheSync ==
    /\ start.at = "register" /\ start.left = {}
    /\ cached' = informers \cap exists
    /\ events' = {k \in cached' : handlers[k] > 0}
    /\ start' = [start EXCEPT !.at = "reconcile", !.plan = Reconcilers]
    /\ UNCHANGED <<cluster, informers, setup, retry, pendingWatches, handlers, job, results, failures>>

FullReconcile ==
    /\ start.at = "reconcile" /\ start.plan # <<>>
    /\ ReconcileOne(Head(start.plan))
    /\ start' = [start EXCEPT !.plan = Tail(@)]
    /\ UNCHANGED <<cluster, setup, retry, watches, job>>

Wanted == UNION {lastOutputs[id] : id \in IDs}

\* gcOrphans looks at the outputs of the registered types that are served.
GcOrphans ==
    /\ start.at = "reconcile" /\ start.plan = <<>>
    /\ made' = [r \in Makers |-> IF r.output \in served /\ r \notin Wanted THEN "absent" ELSE made[r]]
    /\ start' = [start EXCEPT !.at = IF start.started THEN "serve" ELSE "collected"]
    /\ UNCHANGED <<cluster, store, setup, retry, watches, job, ran, lastOutputs, failures>>

\* The types without a handler become pending, and have a goroutine.
StartRetry ==
    /\ start.at = "collected"
    /\ start' = [start EXCEPT !.at = "serve", !.started = TRUE]
    /\ pendingWatches' = start.pending
    /\ retry' = IF start.pending = {} THEN retry ELSE [retry EXCEPT !.at = "wait"]
    /\ UNCHANGED <<cluster, store, setup, handlers, events, job, results, failures>>

\* Mutant: the ticker only collects orphans.
Resync_GCOnly ==
    /\ start.at = "serve"
    /\ start' = [start EXCEPT !.at = "reconcile", !.plan = <<>>]
    /\ UNCHANGED <<cluster, store, setup, retry, watches, job, results, failures>>

Resync ==
    /\ start.at = "serve"
    /\ start' = [start EXCEPT !.at = "reconcile", !.plan = Reconcilers]
    /\ UNCHANGED <<cluster, store, setup, retry, watches, job, results, failures>>

-----------------------------------------------------------------------------
\* retryPendingWatches.

RetryTick ==
    /\ retry.at = "wait"
    /\ retry' = IF pendingWatches = {} THEN [NoRetry EXCEPT !.at = "done"]
                ELSE [NoRetry EXCEPT !.at = "register", !.batch = pendingWatches]
    /\ UNCHANGED <<cluster, store, setup, start, watches, job, results, failures>>

\* Mutant: a registration that fails is given up.
StillPending_GivesUp(k, failed) == IF failed THEN retry.still ELSE retry.still \cup {k}

StillPending(k, failed) == retry.still \cup {k}

RetryWatch(k) ==
    /\ retry.at = "register" /\ k \in retry.batch
    /\ \/ /\ k \in served
          /\ AddHandler(k)
          /\ retry' = [retry EXCEPT !.batch = @ \ {k}, !.resolved = TRUE]
          /\ UNCHANGED failures
       \/ /\ k \notin served
          /\ retry' = [retry EXCEPT !.batch = @ \ {k}, !.still = StillPending(k, FALSE)]
          /\ UNCHANGED <<handlers, store, events, failures>>
       \/ /\ Failure
          /\ retry' = [retry EXCEPT !.batch = @ \ {k}, !.still = StillPending(k, TRUE)]
          /\ UNCHANGED <<handlers, store, events>>
    /\ UNCHANGED <<cluster, setup, start, pendingWatches, job, results>>

\* Mutant: the full reconcile is left to the next resync.
Resolved_Waits(plan) == [NoRetry EXCEPT !.at = "wait"]

Resolved(plan) == [NoRetry EXCEPT !.at = "reconcile", !.plan = plan]

\* The end of a round.  A full reconcile follows if a type has got its handler
\* and the cache has synced.
RetryRound ==
    /\ retry.at = "register" /\ retry.batch = {}
    /\ pendingWatches' = retry.still
    /\ \/ /\ retry' = IF retry.resolved THEN Resolved(Reconcilers) ELSE [NoRetry EXCEPT !.at = "wait"]
          /\ UNCHANGED failures
       \/ /\ retry.resolved /\ Failure
          /\ retry' = [NoRetry EXCEPT !.at = "wait"]
    /\ UNCHANGED <<cluster, store, setup, start, handlers, events, job, results>>

RetryReconcile ==
    /\ retry.at = "reconcile"
    /\ IF retry.plan = <<>>
       THEN /\ retry' = [retry EXCEPT !.at = "wait"]
            /\ NotRun /\ UNCHANGED store
       ELSE /\ ReconcileOne(Head(retry.plan))
            /\ retry' = [retry EXCEPT !.plan = Tail(@)]
    /\ UNCHANGED <<cluster, setup, start, watches, job>>

-----------------------------------------------------------------------------
\* Event handlers.
\* handle: the type's own reconcilers, then those that have fetched the object.
Handle(k) ==
    /\ job[k] = Idle /\ k \in events
    /\ Cardinality({q \in GVKs : job[q] # Idle}) < MaxBusy
    /\ events' = events \ {k}
    /\ job' = [job EXCEPT ![k] = [at |-> "own", todo |-> {r \in RangeOf(Reconcilers) : r.primary = k}]]
    /\ UNCHANGED <<cluster, store, setup, start, retry, pendingWatches, handlers, results, failures>>

Route(k) ==
    /\ job[k].at # "idle" /\ job[k].todo = {}
    /\ job' = [job EXCEPT ![k] = IF @.at = "own" THEN [at |-> "routed", todo |-> {r \in ran : k \in Fetched(r)}]
                                 ELSE Idle]
    /\ UNCHANGED <<cluster, store, setup, start, retry, watches, results, failures>>

RunOne(k, r) ==
    /\ r \in job[k].todo
    /\ job' = [job EXCEPT ![k].todo = @ \ {r}]
    /\ Reads({r.primary} \cup Fetched(r))
    /\ IF r.primary \in cached' THEN \E applied \in BOOLEAN : Run(r, applied) ELSE NotRun
    /\ UNCHANGED <<cluster, setup, start, retry, watches>>

-----------------------------------------------------------------------------
Starting == Begin \/ (\E k \in GVKs : RegisterWatch(k)) \/ CacheSync \/ FullReconcile \/ GcOrphans \/ StartRetry
Retrying == RetryTick \/ (\E k \in GVKs : RetryWatch(k)) \/ RetryRound \/ RetryReconcile
Handling(k) == Handle(k) \/ Route(k) \/ \E r \in job[k].todo : RunOne(k, r)

Next ==
    \/ Register
    \/ \E k \in GVKs : Serve(k) \/ Create(k) \/ Refresh(k)
    \/ Starting \/ Resync \/ Retrying
    \/ \E k \in GVKs : Handling(k)

Spec == Init /\ [][Next]_vars

\* Every goroutine goes on, and so do the tickers and the informers.
Fairness ==
    /\ WF_vars(Starting) /\ WF_vars(Resync) /\ WF_vars(Retrying)
    /\ \A k \in GVKs : WF_vars(Handling(k)) /\ WF_vars(Refresh(k))

FairSpec == Spec /\ Fairness

-----------------------------------------------------------------------------
TypeOK ==
    /\ cached \subseteq exists \cap informers /\ exists \cup informers \subseteq served /\ served \subseteq GVKs
    /\ handlers \in [GVKs -> Nat] /\ events \subseteq informers
    /\ pendingWatches \cup start.left \cup start.pending \cup retry.batch \cup retry.still \subseteq watchedGVKs
    /\ \A id \in IDs : lastOutputs[id] \subseteq {r \in RangeOf(Reconcilers) : ID(r) = id}
    /\ made \in [Makers -> {"absent", "partial", "full"}]

\* PendingWatchCount counts the watched types that wait for their handler:
\* once Start has handed them over, each watched type has exactly one handler
\* or is among them, through any order of CRDs, rounds and failures.
WatchedOnce ==
    start.started => \A k \in watchedGVKs :
        handlers[k] = 1 \/ (handlers[k] = 0 /\ k \in pendingWatches)

Watched(k)  == handlers[k] > 0
Collides(r) == \E i, j \in DOMAIN Reconcilers : i # j /\ Reconcilers[i] = r /\ ID(Reconcilers[j]) = ID(r)
InPlace(r)  == made[r] = IF Fetched(r) \subseteq exists THEN "full" ELSE "partial"

\* IDs, by which dependencies and outputs are kept, tell two reconcilers apart
\* unless all that is different between them is the group of a type.
IDsApart ==
    \A q, p \in Registries : \A i \in DOMAIN registered[q], j \in DOMAIN registered[p] :
        LET r == registered[q][i] s == registered[p][j] IN
        <<q, i>> # <<p, j>> /\ ID(r) = ID(s) => <<r.primary, r.output>> # <<s.primary, s.output>>

Settled == /\ start.at = "serve" /\ retry.at \in {"none", "wait", "done"}
           /\ events = {} /\ (\A k \in GVKs : job[k] = Idle)
           /\ informers \cap exists \subseteq cached

\* Once a type has its handler nothing that uses it waits for the next resync:
\* the objects it had, and the outputs and reads that its absence made fail,
\* are made up for, unless a call failed or IDs collide.
NothingLeftToResync ==
    Settled /\ failures = 0 => \A r \in RangeOf(Reconcilers) :
        /\ r.primary \in exists /\ ~Collides(r)
        /\ \A k \in {r.primary, r.output} \cup Fetched(r) : Watched(k)
        => InPlace(r)

\* gcOrphans leaves alone what a reconciler has been run for since the start,
\* by whichever goroutine and whether or not its apply has succeeded.
OnlyOrphansCollected ==
    [][GcOrphans => \A r \in RangeOf(Reconcilers) :
          made[r] # "absent" /\ made'[r] = "absent" => r \notin ran \/ Collides(r)]_vars

\* A watched type gets its handler once its CRD is installed, whatever fails
\* on the way, and what its absence held up is made.
EventuallyWatched ==
    []<>(start.at \in {"setup", "failed"} \/
         (/\ \A k \in watchedGVKs \cap served : Watched(k)
          /\ \A r \in RangeOf(Reconcilers) :
                r.primary \in exists /\ r.output \in served /\ ~Collides(r) => InPlace(r)))
=============================================================================
