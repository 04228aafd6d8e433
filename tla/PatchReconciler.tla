--------------------------- MODULE PatchReconciler --------------------------
(***************************************************************************)
(* manager.go, patch.go: a patch reconciler (ReconcilePatch or             *)
(* ReconcilePatchMany), which contributes fields to targets that somebody  *)
(* else owns, and runCleanup, which takes them back when the primary is    *)
(* deleted.  A finalizer on the primary is to hold the deletion until that *)
(* is done.                                                                *)
(*                                                                         *)
(* As in OutputReconciler, an event handler per watched kind and the       *)
(* goroutine of Start run at the same time, and each read of the cache,    *)
(* call to the API server and critical section is a step.  A target is     *)
(* the set of primaries whose field manager contributes to it; the manager *)
(* has one patch reconciler, whose function fetches nothing.               *)
(***************************************************************************)
EXTENDS Naturals, Sequences, FiniteSets, SequencesExt

CONSTANTS
    Primaries,       \* keys of the primary resources
    Targets,         \* keys of the resources it contributes to
    Specs,           \* contents of a primary
    Wanted(_, _),    \* Wanted(p, spec): the targets the function returns
    Handlers,        \* the event handlers that run, besides the resync
    Absent,          \* no such object
    None,            \* no value in a local variable
    MaxQueue,        \* bound: notifications a handler has not taken yet
    MaxChanges,      \* bound: changes made by users
    MaxFailures,     \* bound: API calls that fail
    MaxRestarts      \* bound: crashes of the manager's process

Keys == Primaries \cup Targets

KeysOf(h) == IF h = "primaries" THEN Primaries ELSE Targets

Procs == Handlers \cup {"resync"}

ASSUME HandlersAssumption == Handlers \subseteq {"primaries", "targets"}

ASSUME FunctionAssumption ==
    /\ Primaries \cap Targets = {}
    /\ \A p \in Primaries, s \in Specs : Wanted(p, s) \in SUBSET Targets

ASSUME NoneAssumption == None \notin Primaries

\* There are finitely many objects, and the bounds are numbers.
ASSUME BoundsAssumption ==
    /\ IsFiniteSet(Keys)
    /\ MaxQueue \in Nat /\ MaxChanges \in Nat /\ MaxFailures \in Nat /\ MaxRestarts \in Nat

VARIABLES
    api,          \* what the API server holds
    cache,        \* what the informers hold
    queue,        \* notifications each handler still has to process
    tracked,      \* the targets the tracker lists for each primary
    lastPatches,  \* Manager.lastPatches of each primary
    proc,         \* program counter and local variables of each goroutine
    changes, failures, restarts,  \* how much of each bound is used up
    overlapped,   \* history: primaries two goroutines worked on at a time
    lost          \* history: contributions whose record a crash lost

manager == <<queue, tracked, lastPatches, proc>>
bounds  == <<changes, failures, restarts>>
history == <<overlapped, lost>>
vars    == <<api, cache, manager, bounds, history>>

Exists(p) == api[p] # Absent

Deleting(obj) == obj # Absent /\ obj.deleting

\* The contributions that the targets hold, as pairs.
Contributions == {c \in Targets \X Primaries : c[2] \in api[c[1]]}

Idle == [pc |-> "idle", todo |-> {}, doomed |-> {}, cur |-> None,
         spec |-> None, want |-> {}, left |-> {}, final |-> {}]

-----------------------------------------------------------------------------
(* Startup *)

\* OnAdd for each object the informers list.
StartQueue(store) ==
    [h \in Handlers |-> SetToSeq({k \in KeysOf(h) : k \in Primaries => store[k] # Absent})]

\* Mutant: objects of every kind are listed.
Listing_AllKinds(store) == [Idle EXCEPT !.pc = "run",
                                        !.todo = {k \in Keys : store[k] # Absent}]

\* Mutant: the full resync passes over primaries that are being deleted.
Listing_SkipsDeleting(store) ==
    [Idle EXCEPT !.pc = "run", !.todo = {p \in Primaries : store[p] # Absent /\ ~Deleting(store[p])}]

\* fullReconcile lists the primaries and sees which are being deleted.
Listing(store) == [Idle EXCEPT !.pc = "run",
                               !.todo = {p \in Primaries : store[p] # Absent},
                               !.doomed = {p \in Primaries : Deleting(store[p])}]

StartProcs(store) == [w \in Procs |-> IF w = "resync" THEN Listing(store) ELSE Idle]

Init == /\ \E spec \in [Primaries -> Specs \cup {Absent}] :
              api = [k \in Keys |->
                       IF k \in Targets THEN {}
                       ELSE IF spec[k] = Absent THEN Absent
                       ELSE [spec |-> spec[k], fin |-> FALSE, deleting |-> FALSE]]
        /\ cache = api
        /\ queue = StartQueue(api)
        /\ tracked = [p \in Primaries |-> {}]
        /\ lastPatches = [p \in Primaries |-> {}]
        /\ proc = StartProcs(api)
        /\ changes = 0 /\ failures = 0 /\ restarts = 0
        /\ overlapped = {} /\ lost = {}

-----------------------------------------------------------------------------
(* Users and the API machinery *)

\* A user's change to one object.
Change(k, obj) == /\ changes < MaxChanges
                  /\ changes' = changes + 1
                  /\ api' = [api EXCEPT ![k] = obj]
                  /\ UNCHANGED <<cache, manager, failures, restarts, history>>

CreatePrimary(p, s) ==
    ~Exists(p) /\ Change(p, [spec |-> s, fin |-> FALSE, deleting |-> FALSE])

UpdatePrimary(p, s) ==
    Exists(p) /\ api[p].spec # s /\ Change(p, [api[p] EXCEPT !.spec = s])

\* A finalizer holds the object until it is removed.
DeletePrimary(p) == /\ Exists(p) /\ ~Deleting(api[p])
                    /\ Change(p, IF api[p].fin THEN [api[p] EXCEPT !.deleting = TRUE] ELSE Absent)

\* Somebody else overwrites the fields that p contributes to t.
Overwrite(t, p) == p \in api[t] /\ Change(t, api[t] \ {p})

\* The watch brings the informer up to date, which queues a notification.
Deliver(h, k) ==
    /\ cache[k] # api[k]
    /\ Len(queue[h]) < MaxQueue
    /\ cache' = [cache EXCEPT ![k] = api[k]]
    /\ queue' = [queue EXCEPT ![h] = Append(@, k)]
    /\ UNCHANGED <<api, tracked, lastPatches, proc, bounds, history>>

\* The informer of a kind whose handler is left out of the model.
Refresh(k) ==
    /\ \A h \in Handlers : k \notin KeysOf(h)
    /\ cache[k] # api[k]
    /\ cache' = [cache EXCEPT ![k] = api[k]]
    /\ UNCHANGED <<api, manager, bounds, history>>

\* The process dies and a new one runs Start; lastPatches is nowhere but in
\* the memory of the old one.
Restart ==
    /\ restarts < MaxRestarts
    /\ restarts' = restarts + 1
    /\ cache' = api
    /\ queue' = StartQueue(api)
    /\ tracked' = [p \in Primaries |-> {}]
    /\ lastPatches' = [p \in Primaries |-> {}]
    /\ proc' = StartProcs(api)
    /\ lost' = Contributions
    /\ UNCHANGED <<api, changes, failures, overlapped>>

-----------------------------------------------------------------------------
(* eventHandler.handle and fullReconcile *)

\* Goroutine w turns to p: another one may be at work on it.
Meeting(w, p) == IF \E v \in Procs \ {w} : proc[v].cur = p THEN overlapped \cup {p} ELSE overlapped

\* The handler takes the next notification.  A primary that is being deleted
\* is cleaned up; of a target, the tracker tells whom it concerns.
Dequeue(h) ==
    LET k == Head(queue[h])
        refs == IF k \in Primaries THEN {k} ELSE {p \in Primaries : k \in tracked[p]}
    IN  /\ proc[h].pc = "idle"
        /\ queue[h] # <<>>
        /\ queue' = [queue EXCEPT ![h] = Tail(@)]
        /\ proc' = [proc EXCEPT ![h] =
                      [Idle EXCEPT !.pc = "run", !.todo = refs,
                                   !.doomed = {p \in {k} \cap Primaries : Deleting(cache[p])}]]
        /\ UNCHANGED <<api, cache, tracked, lastPatches, bounds, history>>

\* The ticker fires.
StartResync ==
    /\ proc["resync"].pc = "idle"
    /\ proc' = [proc EXCEPT !["resync"] = Listing(cache)]
    /\ UNCHANGED <<api, cache, queue, tracked, lastPatches, bounds, history>>

\* Nothing is left to run.
Finish(w) ==
    /\ proc[w].pc = "run" /\ proc[w].todo = {}
    /\ proc' = [proc EXCEPT ![w] = Idle]
    /\ UNCHANGED <<api, cache, queue, tracked, lastPatches, bounds, history>>

-----------------------------------------------------------------------------
(* runPatchReconciler *)

\* The goroutine moves on to its next primary.
Onward(w) == [Idle EXCEPT !.pc = "run", !.todo = proc[w].todo, !.doomed = proc[w].doomed]

\* Mutant: a primary that has been run before is taken to have the finalizer.
Begin_GuardsOnce(w, p) ==
    /\ proc[w].pc = "run" /\ p \in proc[w].todo \ proc[w].doomed
    /\ proc' = [proc EXCEPT ![w].todo = @ \ {p},
                            ![w].cur = IF cache[p] = Absent \/ Deleting(cache[p]) THEN None ELSE p,
                            ![w].pc = CASE cache[p] = Absent \/ Deleting(cache[p]) -> "run"
                                        [] OTHER -> IF cache[p].fin \/ lastPatches[p] # {} THEN "read" ELSE "guard"]
    /\ overlapped' = Meeting(w, p)
    /\ UNCHANGED <<api, cache, queue, tracked, lastPatches, bounds, lost>>

\* The primary is looked up in the cache: one that is not there or is being
\* deleted is left alone, one without the finalizer gets it first.
Begin(w, p) ==
    /\ proc[w].pc = "run" /\ p \in proc[w].todo \ proc[w].doomed
    /\ proc' = [proc EXCEPT ![w].todo = @ \ {p},
                            ![w].cur = IF cache[p] = Absent \/ Deleting(cache[p]) THEN None ELSE p,
                            ![w].pc = CASE cache[p] = Absent \/ Deleting(cache[p]) -> "run"
                                        [] OTHER -> IF cache[p].fin THEN "read" ELSE "guard"]
    /\ overlapped' = Meeting(w, p)
    /\ UNCHANGED <<api, cache, queue, tracked, lastPatches, bounds, lost>>

\* addFinalizer, by merge patch.  The API server refuses it for an object
\* that is gone or going; the error is logged and the run goes on.
AddFinalizer(w) ==
    LET p == proc[w].cur IN
    /\ proc[w].pc = "guard"
    /\ api' = IF Exists(p) /\ ~Deleting(api[p]) THEN [api EXCEPT ![p].fin = TRUE] ELSE api
    /\ proc' = [proc EXCEPT ![w].pc = "read"]
    /\ UNCHANGED <<cache, queue, tracked, lastPatches, bounds, history>>

\* Any other error of that call; the run goes on as well.
AddFinalizerFails(w) ==
    /\ proc[w].pc = "guard"
    /\ failures < MaxFailures
    /\ failures' = failures + 1
    /\ proc' = [proc EXCEPT ![w].pc = "read"]
    /\ UNCHANGED <<api, cache, queue, tracked, lastPatches, changes, restarts, history>>

\* Reconcile reads the primary again.
Read(w) ==
    LET p == proc[w].cur IN
    /\ proc[w].pc = "read"
    /\ proc' = [proc EXCEPT ![w] = IF cache[p] = Absent THEN Onward(w)
                                   ELSE [proc[w] EXCEPT !.pc = "call", !.spec = cache[p].spec]]
    /\ UNCHANGED <<api, cache, queue, tracked, lastPatches, bounds, history>>

\* The function has returned; SetDeps replaces what was tracked, the targets
\* of the last run included, by what the function fetched: nothing.
SetDeps(w) ==
    LET want == Wanted(proc[w].cur, proc[w].spec) IN
    /\ proc[w].pc = "call"
    /\ tracked' = [tracked EXCEPT ![proc[w].cur] = {}]
    /\ proc' = [proc EXCEPT ![w].pc = "apply", ![w].want = want, ![w].left = want]
    /\ UNCHANGED <<api, cache, queue, lastPatches, bounds, history>>

\* Strategy.Apply: server-side apply under the field manager of this primary.
Apply(w, t) ==
    /\ proc[w].pc = "apply" /\ t \in proc[w].left
    /\ api' = [api EXCEPT ![t] = @ \cup {proc[w].cur}]
    /\ proc' = [proc EXCEPT ![w].left = @ \ {t}]
    /\ UNCHANGED <<cache, queue, tracked, lastPatches, bounds, history>>

\* The apply failed; the target still counts as wanted.
ApplyFails(w, t) ==
    /\ proc[w].pc = "apply" /\ t \in proc[w].left
    /\ failures < MaxFailures
    /\ failures' = failures + 1
    /\ proc' = [proc EXCEPT ![w].left = @ \ {t}]
    /\ UNCHANGED <<api, cache, queue, tracked, lastPatches, changes, restarts, history>>

\* AppendNarrow: the targets become dependencies.
TrackTargets(w) ==
    /\ proc[w].pc = "apply" /\ proc[w].left = {}
    /\ tracked' = [tracked EXCEPT ![proc[w].cur] = @ \cup proc[w].want]
    /\ proc' = [proc EXCEPT ![w].pc = "clone"]
    /\ UNCHANGED <<api, cache, queue, lastPatches, bounds, history>>

\* The previous targets are copied under the lock, which is then released.
ClonePrevious(w) ==
    /\ proc[w].pc = "clone"
    /\ proc' = [proc EXCEPT ![w].pc = "revert", ![w].final = proc[w].want,
                            ![w].left = lastPatches[proc[w].cur] \ proc[w].want]
    /\ UNCHANGED <<api, cache, queue, tracked, lastPatches, bounds, history>>

\* Strategy.Revert of a target that is no longer wanted.
Revert(w, t) ==
    /\ proc[w].pc = "revert" /\ t \in proc[w].left
    /\ api' = [api EXCEPT ![t] = @ \ {proc[w].cur}]
    /\ proc' = [proc EXCEPT ![w].left = @ \ {t}]
    /\ UNCHANGED <<cache, queue, tracked, lastPatches, bounds, history>>

\* Mutant: the failed revert is only logged.
RevertFails_Dropped(w, t) ==
    /\ proc[w].pc = "revert" /\ t \in proc[w].left
    /\ failures < MaxFailures
    /\ failures' = failures + 1
    /\ proc' = [proc EXCEPT ![w].left = @ \ {t}]
    /\ UNCHANGED <<api, cache, queue, tracked, lastPatches, changes, restarts, history>>

\* The revert failed; the target is kept on record, to be retried.
RevertFails(w, t) ==
    /\ proc[w].pc = "revert" /\ t \in proc[w].left
    /\ failures < MaxFailures
    /\ failures' = failures + 1
    /\ proc' = [proc EXCEPT ![w].left = @ \ {t}, ![w].final = @ \cup {t}]
    /\ UNCHANGED <<api, cache, queue, tracked, lastPatches, changes, restarts, history>>

\* The record is written, in a second critical section.
RecordPatches(w) ==
    /\ proc[w].pc = "revert" /\ proc[w].left = {}
    /\ lastPatches' = [lastPatches EXCEPT ![proc[w].cur] = proc[w].final]
    /\ proc' = [proc EXCEPT ![w] = Onward(w)]
    /\ UNCHANGED <<api, cache, queue, tracked, bounds, history>>

-----------------------------------------------------------------------------
(* runCleanup *)

\* revertAllPatches copies the record under the lock.
BeginCleanup(w, p) ==
    /\ proc[w].pc = "run" /\ p \in proc[w].todo \cap proc[w].doomed
    /\ proc' = [proc EXCEPT ![w].todo = @ \ {p}, ![w].cur = p, ![w].pc = "undo",
                            ![w].left = lastPatches[p]]
    /\ overlapped' = Meeting(w, p)
    /\ UNCHANGED <<api, cache, queue, tracked, lastPatches, bounds, lost>>

\* Strategy.Revert of a target on record.
Undo(w, t) ==
    /\ proc[w].pc = "undo" /\ t \in proc[w].left
    /\ api' = [api EXCEPT ![t] = @ \ {proc[w].cur}]
    /\ proc' = [proc EXCEPT ![w].left = @ \ {t}]
    /\ UNCHANGED <<cache, queue, tracked, lastPatches, bounds, history>>

\* Mutant: the cleanup goes on after a failed revert.
UndoFails_GoesOn(w, t) ==
    /\ proc[w].pc = "undo" /\ t \in proc[w].left
    /\ failures < MaxFailures
    /\ failures' = failures + 1
    /\ proc' = [proc EXCEPT ![w].left = @ \ {t}]
    /\ UNCHANGED <<api, cache, queue, tracked, lastPatches, changes, restarts, history>>

\* A failed revert ends the cleanup, and the finalizer stays.
UndoFails(w, t) ==
    /\ proc[w].pc = "undo" /\ t \in proc[w].left
    /\ failures < MaxFailures
    /\ failures' = failures + 1
    /\ proc' = [proc EXCEPT ![w] = Onward(w)]
    /\ UNCHANGED <<api, cache, queue, tracked, lastPatches, changes, restarts, history>>

\* removeFinalizer, by merge patch.  An object that is being deleted is then
\* gone; if it was gone already, the error ends the cleanup.
ReleasePrimary(w) ==
    LET p == proc[w].cur IN
    /\ proc[w].pc = "undo" /\ proc[w].left = {}
    /\ api' = IF Exists(p) THEN [api EXCEPT ![p] = IF @.deleting THEN Absent ELSE [@ EXCEPT !.fin = FALSE]]
                           ELSE api
    /\ proc' = [proc EXCEPT ![w] = IF Exists(p) THEN [proc[w] EXCEPT !.pc = "forget"] ELSE Onward(w)]
    /\ UNCHANGED <<cache, queue, tracked, lastPatches, bounds, history>>

ReleaseFails(w) ==
    /\ proc[w].pc = "undo" /\ proc[w].left = {}
    /\ failures < MaxFailures
    /\ failures' = failures + 1
    /\ proc' = [proc EXCEPT ![w] = Onward(w)]
    /\ UNCHANGED <<api, cache, queue, tracked, lastPatches, changes, restarts, history>>

\* The record is cleared under the lock.
ForgetPatches(w) ==
    /\ proc[w].pc = "forget"
    /\ lastPatches' = [lastPatches EXCEPT ![proc[w].cur] = {}]
    /\ proc' = [proc EXCEPT ![w].pc = "untrack"]
    /\ UNCHANGED <<api, cache, queue, tracked, bounds, history>>

\* tracker.SetDeps with nothing.
Untrack(w) ==
    /\ proc[w].pc = "untrack"
    /\ tracked' = [tracked EXCEPT ![proc[w].cur] = {}]
    /\ proc' = [proc EXCEPT ![w] = Onward(w)]
    /\ UNCHANGED <<api, cache, queue, lastPatches, bounds, history>>

-----------------------------------------------------------------------------
Users ==
    \/ \E p \in Primaries : \/ \E s \in Specs : CreatePrimary(p, s) \/ UpdatePrimary(p, s)
                            \/ DeletePrimary(p)
    \/ \E t \in Targets, p \in Primaries : Overwrite(t, p)

Cluster == \/ \E h \in Handlers : \E k \in KeysOf(h) : Deliver(h, k)
           \/ \E k \in Keys : Refresh(k)

Trouble == \/ Restart
           \/ \E w \in Procs : AddFinalizerFails(w) \/ ReleaseFails(w)
           \/ \E w \in Procs, t \in Targets : ApplyFails(w, t) \/ RevertFails(w, t) \/ UndoFails(w, t)

\* What goroutine w does next when no call of it fails.
Run(w) == \/ \E p \in Primaries : Begin(w, p) \/ BeginCleanup(w, p)
          \/ AddFinalizer(w) \/ Read(w) \/ SetDeps(w)
          \/ \E t \in Targets : Apply(w, t) \/ Revert(w, t) \/ Undo(w, t)
          \/ TrackTargets(w) \/ ClonePrevious(w) \/ RecordPatches(w)
          \/ ReleasePrimary(w) \/ ForgetPatches(w) \/ Untrack(w)
          \/ Finish(w)

Next == Users \/ Cluster \/ Trouble \/ StartResync
        \/ (\E h \in Handlers : Dequeue(h)) \/ (\E w \in Procs : Run(w))

Spec == Init /\ [][Next]_vars

\* The watch delivers, the ticker ticks and the scheduler runs each
\* goroutine.  Nobody has to change anything and no call has to fail.
Fairness == /\ \A h \in Handlers : WF_vars(\E k \in KeysOf(h) : Deliver(h, k))
            /\ WF_vars(\E k \in Keys : Refresh(k))
            /\ WF_vars(StartResync \/ Run("resync"))
            /\ \A h \in Handlers : WF_vars(Dequeue(h) \/ Run(h))

FairSpec == Spec /\ Fairness

-----------------------------------------------------------------------------
(* Properties *)

PrimaryObject == [spec : Specs, fin : BOOLEAN, deleting : BOOLEAN]

StoreOK(store) == /\ store = [k \in Keys |-> store[k]]
                  /\ \A p \in Primaries : store[p] \in PrimaryObject \cup {Absent}
                  /\ \A t \in Targets : store[t] \in SUBSET Primaries

ProcRecord ==
    [pc     : {"idle", "run", "guard", "read", "call", "apply", "clone", "revert",
               "undo", "forget", "untrack"},
     todo   : SUBSET Primaries,
     doomed : SUBSET Primaries,
     cur    : Primaries \cup {None},
     spec   : Specs \cup {None},
     want   : SUBSET Targets,
     left   : SUBSET Targets,
     final  : SUBSET Targets]

TypeOK == /\ StoreOK(api) /\ StoreOK(cache)
          /\ queue \in [Handlers -> Seq(Keys)]
          /\ tracked \in [Primaries -> SUBSET Targets]
          /\ lastPatches \in [Primaries -> SUBSET Targets]
          /\ proc \in [Procs -> ProcRecord]
          /\ changes \in 0..MaxChanges /\ failures \in 0..MaxFailures /\ restarts \in 0..MaxRestarts
          /\ overlapped \in SUBSET Primaries
          /\ lost \in SUBSET (Targets \X Primaries)

\* Some goroutine at work on p is going to put t on record.
InHand(w, p, t) == /\ proc[w].cur = p
                   /\ \/ proc[w].pc \in {"apply", "clone"} /\ t \in proc[w].want
                      \/ proc[w].pc = "revert" /\ t \in proc[w].left \cup proc[w].final

\* As long as no two goroutines work on the same primary at the same time,
\* every contribution is on record or about to be, whichever calls fail: only
\* a crash loses the record of one.
NoContributionForgotten ==
    \A t \in Targets, p \in Primaries :
        p \in api[t] => \/ t \in lastPatches[p]
                        \/ \E w \in Procs : InHand(w, p, t)
                        \/ <<t, p>> \in lost \/ p \in overlapped

\* The manager takes its finalizer off p.
Released(p) == /\ Exists(p) /\ api[p].fin
               /\ proc' # proc
               /\ api'[p] = Absent \/ ~api'[p].fin

\* "On primary deletion, the framework automatically reverts contributions
\* before removing the finalizer."
RevertsBeforeRelease ==
    [][\A p \in Primaries, t \in Targets : Released(p) => p \notin api[t]]_vars

\* It does so whichever calls fail, unless a crash lost the record or another
\* goroutine has worked on p meanwhile.
RevertsRecorded ==
    [][\A p \in Primaries, t \in Targets :
          Released(p) => p \notin api[t] \/ <<t, p>> \in lost \/ p \in overlapped]_vars

\* A deletion that waits for the finalizer gets through, whichever calls
\* fail on the way.
DeletionFinishes == \A p \in Primaries : Deleting(api[p]) ~> ~Deleting(api[p])

\* The targets that the primary wants have its contribution, and it has the
\* finalizer by which it will be cleaned up.
Contributing(p) ==
    Exists(p) => api[p].fin /\ \A t \in Wanted(p, api[p].spec) : p \in api[t]

\* The others have none, if only one goroutine at a time has worked on the
\* primary and no crash has lost the record of a contribution.
NotElsewhere(p) ==
    /\ p \notin overlapped
    /\ \A t \in Targets : <<t, p>> \notin lost
    /\ Exists(p)
    => \A t \in Targets \ Wanted(p, api[p].spec) : p \notin api[t]

\* Once users leave the cluster alone, a primary contributes to the targets it
\* wants, has its finalizer, and contributes to no others, whichever call has
\* failed: overlapping runs that undo each other's contributions, targets that
\* nobody tracks for a moment and a finalizer that could not be added are all
\* made up for.
InPlace(p) == Contributing(p) /\ NotElsewhere(p)

EventuallyInPlace == \A p \in Primaries : <>[]InPlace(p)
=============================================================================
