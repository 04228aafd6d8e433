# make-reconcile: a verification project in TLA+

make-reconcile is a Go library on top of controller-runtime. An application
registers *sub-reconcilers* – pure functions from a primary resource to the
outputs it should have, the fields it should contribute to other people's
resources, or its own status – and the library's `Manager` runs them when
something they depend on changes.

The library's own logic is small, but all of it is concurrent. Each watched
kind has its own informer handler goroutine, `Start` has another one for the
first and the periodic full reconcile, and nothing serialises two runs of the
same sub-reconciler for the same primary: there is no work queue. The only
locks are `Manager.mu` and `DependencyTracker.mu`, each held for a few
statements. Between two of those statements caches move, other goroutines
run, API calls fail, and the process may die with everything it remembered.
This is what the modules here are about.

## 1. The system

### Components

| component | code | state | operations |
|---|---|---|---|
| dependency tracker | `tracker.go` | four maps: `narrow`, `broad`, `reverseNarrow`, `reverseBroad` | `SetDeps`, `AppendNarrow`, `RemoveDeps`, `Lookup` |
| event loop | `manager.go:354-500` | the informers' queues; per event, what is left to do | `OnAdd/OnUpdate/OnDelete`, `handle` |
| output reconcilers | `manager.go:537-650`, `reconciler.go` | `lastOutputs` | `runSubReconciler`, `applyDesired`, `deleteIfExists` |
| full reconcile, orphan collection | `manager.go:241-254, 967-1145` | none of its own | `fullReconcile`, `gcOrphans` |
| patch reconcilers | `manager.go:652-745, 947-965`, `patch.go`, `patchstrategy.go` | `lastPatches` | `runPatchReconciler`, `revertAllPatches` |
| annotation ownership | `ownership.go` | an annotation on the output | `prepareDesired`, `releaseOwnership`, `removeContributor` |
| finalizers and cleanup | `manager.go:783-945`, `finalizer.go`, `apply.go:129-162` | a finalizer on the primary | `addFinalizer`, `runCleanup`, `removeFinalizer`, `OnDelete` callbacks |
| fetch and filters | `context.go` | the dependencies one run collects | `Fetch`, `FetchAll` |
| predicates | `collection.go`, `reconciler.go` | none | `WithGenerationChanged`, `WithPredicate` |
| status reconcilers | `reconciler.go`, `apply.go` | none | `ReconcileStatus`, phase 2 of `handle` and `fullReconcile` |
| startup, pending watches | `manager.go:203-345` | `pendingWatches` | `Start`, `retryPendingWatches` |
| registration | `manager.go`, `reconciler.go`, `patch.go` | the lists of reconcilers | `Watch`, `Reconcile…`, `On…` |
| test support | `mrtest/` | an in-memory store | `Harness.Reconcile`, … |
| examples | `examples/` | none | |

### How they interact

- The informer cache calls a handler synchronously, one notification at a time
  per kind. `handle` runs the sub-reconcilers of a primary itself, then asks
  the tracker which other invocations depend on the resource and runs them too.
- A run reads the primary and what it fetches from the cache, replaces its
  dependencies in the tracker, applies its outputs by server-side apply, adds
  the outputs to its dependencies, replaces its entry in `lastOutputs` and
  deletes what the entry listed before and no longer does.
- Applies come back as notifications about the outputs, find the run in the
  tracker, and cause it to run again: this is how drift is corrected.
- The resync lists the primaries in the cache, runs everything for each of
  them, and then deletes what carries the managed-by label and is on nobody's
  record.
- A primary with patch reconcilers, shared outputs or an `OnDelete` callback
  carries a finalizer. Its deletion leads to `runCleanup` instead of a run.

### What is hard

1. Two goroutines run the same reconciler for the same primary, or one runs it
   and the other cleans up. What a run has read, applied and recorded are
   three moments, and the record is one variable for both.
2. The cache lags behind the API server, and a handler may act on it after the
   next change. The tracker learns what a run read after it has read it.
3. `lastOutputs` and `lastPatches` are in memory. A crash between any two
   steps loses them; outputs have a label by which they are found again,
   contributions have none.
4. Almost every API error is logged and skipped. What is then left on record,
   or not, decides whether anybody ever comes back to it.
5. The contributor list of a shared output is read, changed and written back
   whole, with no precondition. So is a primary's list of finalizers, from the
   copy the cache held.
6. What one event sets off depends on maps that are keyed by less than an
   object's identity: records are cleared and statuses skipped by the name of a
   primary, and reconcilers are told apart by the kinds of their types without
   the groups.
7. A kind whose CRD is missing has no handler, cannot be listed or applied, and
   comes up at any time while everything else is running.

### What makes each component correct

- Tracker: four maps say the same thing, hold nothing for what is gone, and
  `Lookup` answers as the relation the callers declared would.
- Output reconcilers: an output that exists is on record or in a run's hands,
  so that somebody deletes it when it is no longer wanted; a full resync
  repairs whatever overlapping runs have done; in the long run the outputs are
  what the functions return.
- Patch reconcilers: the same for contributions, and the finalizer holds a
  deletion until they are reverted, and not forever.
- Annotation ownership: an output is deleted by the last contributor and not
  before; it is not forgotten while contributors come and go.
- Fetch and filters, predicates: an event that may change what a function
  returns runs the function again.
- Status reconcilers: phase 2 sees what phase 1 did, and status writes do not
  feed back for ever.
- Pending watches: a kind that appears later gets one handler, and what its
  absence held up is made up for.
- Test support: settling leaves nothing to do, one `Reconcile` reaches whoever
  reads the object, and a `Result` tells what has happened to the store.

## 2. The modules

The system is looked at from three distances. Closest are the modules that cut
one reconciler's run into its API calls (`OutputReconciler`,
`PatchReconciler`, `AnnotationOwnership`): what overlapping runs do to one
record. Further away a run is one step, and the question is which runs an event
sets off and what they do to one another (`EventLoop`, `Startup`). Furthest,
a whole call is one step (`TestHarness`): every kind of reconciler, reads,
records and cleanup in one composition, without interleaving. What
the closer modules show of a run that nothing overlaps is what the others take
as its one step.

| module | models |
|---|---|
| `DependencyRelation` | what the tracker promises: one relation, replaced or extended atomically |
| `DependencyTracker` | `tracker.go` |
| `OutputReconciler` | one output reconciler run by overlapping goroutines, full reconcile and orphan collection, restarts |
| `PatchReconciler` | patch reconcilers, their finalizer and cleanup, restarts |
| `AnnotationOwnership` | a shared output, its contributors, their runs and cleanups |
| `EventLoop` | the informers' predicates, `handle` with its phases, several output and status reconcilers, finalizer, `OnDelete` callback, full reconcile and orphan collection |
| `Startup` | registration, `Start`, `retryPendingWatches` |
| `ObjectStore` | `mrtest/store.go` |
| `HandlerContext` | `context.go`: filters, reads and the dependencies they declare |
| `TestHarness` | `mrtest/harness.go`, `recorder.go`, `result.go` and the manager they drive |
| `MC…` | values for TLC |
| `DependencyTracker_proofs`, `OutputReconciler_proofs`, `PatchReconciler_proofs`, `AnnotationOwnership_proofs`, `EventLoop_proofs`, `Startup_proofs`, `TestHarness_proofs` | theorems |
| `Loops` | a loop over a list, and what it preserves: two lemmas for `TestHarness_proofs` |

`EventLoop` and `TestHarness` take the tracker from `DependencyRelation`, which
`DependencyTracker` implements; `TestHarness` extends `HandlerContext`, which
extends `ObjectStore`.

**DependencyTracker.** A Go map is a function whose `DOMAIN` is the set of its
keys, so that an empty bucket differs from an absent one. Each method holds
the lock throughout and is one action. The variable `declared`, an instance of
`DependencyRelation`, is a history variable: what the callers have asked for. The
module states `ImplementsRelation`: the four maps, read as one relation by an
`INSTANCE ... WITH`, refine it.

**OutputReconciler.** `api` is what the API server holds, `cache` what the
informers hold, `queue[h]` the notifications handler `h` has not taken. Each
goroutine `w` has its program counter and locals in `proc[w]`; a goroutine is
a handler (`"primaries"`, `"deps"`, `"outputs"`) or `"resync"`, and all of
them can be in `runSubReconciler` at the same time, for the same primary:

| action | code |
|---|---|
| `Dequeue`, `Lookup` | `eventHandler.handle` before and after the primary's own runs, for one reconciler |
| `GetPrimary` | the `Get` in `typedSubReconciler.Reconcile` |
| `Fetch`, `SetDeps` | the user function's fetches, and the tracker update when it has returned |
| `ReadOwner`, `Apply`, `ApplyFails` | the second `Get` for the owner reference, then the apply |
| `TrackOutputs` | `tracker.AppendNarrow` |
| `SwapLastOutputs` | the critical section on `lastOutputs` |
| `DeleteStale`, `DeleteStaleFails` | deletion of what the swap found stale |
| `StartResync`, `SnapshotWanted`, `ListManaged`, `CollectOrphan` (and their `…Fails`), `EndResync` | the ticker, `fullReconcile`, `gcOrphans` |
| `Restart` | the process dies and `Start` runs again |

An output object is what went into it: the owner's UID, the primary's spec and
the fetched values. `Deliver` (the watch) and `CollectGarbage` (owner
references) are the Kubernetes side. A delivery carries the object's present
state, so that intermediate states may be skipped; this is what a watch with a
relist does, and each notification makes `handle` read the cache again anyhow.

**PatchReconciler.** A target is the set of primaries whose field manager has
fields on it. A deleted primary with the finalizer stays, `deleting`, until the
finalizer goes. `Begin … RecordPatches` is `runPatchReconciler`,
`BeginCleanup … Untrack` is `runCleanup` with `revertAllPatches`. The record is
copied in one critical section (`ClonePrevious`) and written in another
(`RecordPatches`), as in the code. A handler that a run leaves out of
`Handlers` is idle, its informer still fills the cache (`Refresh`).

**AnnotationOwnership.** The output is `Absent` or the set of its contributors.
A run adds its primary by read and apply (`GetLive`, `Apply`), a release removes
it by read and merge patch (`ReadContributors`, `PatchContributors`), retried on
conflict up to `MaxRetries` (the code's `maxConflictRetries`), gives up on any
other error (`ContributorsFail`), and deletes the output when the list is empty
(`DeleteOutput`). The goroutines are the watch of
the primaries and the resync; `Begin … Through` is `runSubReconciler`,
`BeginCleanup … Forget` is `runCleanup` with `releaseAllOutputs`. The cache is
taken to be fresh and every primary to have its finalizer here; what happens
otherwise is `PatchReconciler`'s subject. That the output is itself watched is
`EventLoop`'s. Leaving both out keeps the interleavings of the list within
reach.

**EventLoop.** An object is what routing can tell apart: a spec (its
generation), a status, finalizers, a UID. A function reads its primary's spec
and the status of what it fetches (`Missing` if there is no object). Goroutine `p` has
in `job[p]` what it has left to do, as a sequence of batches: the tasks of a
batch are taken in any order, that of a Go map or of a list, and a batch is
begun when those before it are done (`Current`, `Without`):

| action | code |
|---|---|
| `Refresh` | the watch updates the cache and calls `OnAdd`, `OnUpdate` or `OnDelete`; `Passes` is `WithGenerationChanged` with its bypass for deletions |
| `Handle`, `Route` | `handle` up to `tracker.Lookup`, and from there: the readers' runs, then the affected primaries' statuses |
| `StartResync`, `NextReconciler`, `GcOrphans` | the ticker, `fullReconcile` reconciler by reconciler, `gcOrphans` |
| `NotRun`, `RunOutput` | `runSubReconciler`: its early returns; finalizer, predicate, function, `SetDeps`, apply, record, deletion of what is stale |
| `NotReported`, `RunStatusOf` | phase 2: skipped because the primary, or a namesake, is being deleted; or computed and written |
| `CallbackFails`, `ReleaseFails`, `CleanUp` | `runCleanup` as far as the callback, the removal of the finalizer, or the end |
| `Create`, `ChangeSpec`, `Delete`, `AddForeign`, `RemoveForeign`, `Report`, `CollectGarbage` | users, other controllers, the garbage collector |

A finalizer is written as the code writes it: the whole list, computed from the
copy the cache had, without a precondition (`Patched`); the API server refuses
it for an object that is gone, and a new finalizer for one that is being
deleted (`PatchAccepted`).

**Startup.** A program is the sequence of calls that registers; `Register`
numbers the IDs as the five forms do, within the list of the manager that the
form appends to (`Registries`: `reconcilers`, `patchReconcilers`,
`statusReconcilers`). `RegisterWatch`, `CacheSync`,
`FullReconcile`, `GcOrphans`, `StartRetry` and `Resync` are `Start` in its
order, `RetryTick`, `RetryWatch`, `RetryRound` and `RetryReconcile` are
`retryPendingWatches`, `Handle`, `Route` and `RunOne` an event handler. A type
is `served` or not; a read of a type without an informer starts one (`Reads`),
and an informer replays its objects to a new handler (`AddHandler`). What a run
makes is `"partial"` as long as a fetched object was missing, `"full"` when it
was there.

**ObjectStore, HandlerContext, TestHarness.** The store is a record and an
operation an operator on it, faithful to what differs from an API server: a
delete needs no object and looks at no finalizer, a contribution replaces the
whole object, a revert only leaves a record, a status patch does not reach the
object, records name an object without its type. `HandlerContext` merges
filters, tells a read by name from a list, and gives what is read and what is
declared. In `TestHarness` a run is an operator on the state of one call
(`RunOutput` with `ApplyAll`, `RunPatch` with `PatchAll`, `RunStatus`,
`RunCleanup`), `Reconcile(key)` and
`Settle` are the calls (`Handled1`, `Handled2` and `Full` being `handle` and
`fullReconcile`), a `for` loop of the code is `Each` of an operator that is its
body (`ApplyOne`, `DeleteOne`, `OwnRun`, `RefRun`, `Visit`, …), `TestSets` and `TestDeletes` what a test does to the store by
hand. The readers of an object are run in any order (`SetToSeqs`), and a list
is given in any order; within a run the outputs of one deletion or revert batch
are taken in one order, since no assertion of a `Result` depends on it.

## 3. The properties

| property | what it says | module |
|---|---|---|
| `MapsMirrorEachOther`, `NoEmptyBuckets` | the maps agree and do not leak | DependencyTracker |
| `LookupIsExact` | `Lookup` answers as the relation does | DependencyTracker |
| `ImplementsRelation` | every call is a step of the relation or none | DependencyTracker |
| `NoOutputForgotten` | whatever the overlap, an output that exists is on record or in the hands of a run, unless a failed delete or a crash lost its record | OutputReconciler |
| `ResyncRepairs` | a full reconcile with `gcOrphans` that begins when nothing else is on its way leaves exactly the wanted outputs with the right owner and contents, and nothing undoes this | OutputReconciler |
| `EventuallyRestored` | outputs end up right for good once users leave the cluster alone | OutputReconciler |
| `NoContributionForgotten` | while one goroutine at a time works on a primary, each contribution is on record or about to be, whichever calls fail; only a crash loses one | PatchReconciler |
| `RevertsRecorded` | with the same reservation, the finalizer goes only after every contribution has been reverted, whichever calls fail | PatchReconciler |
| `DeletionFinishes` | a deletion that waits for the finalizer gets through | PatchReconciler |
| `EventuallyInPlace` | whatever overlapped or failed, each primary that stays ends up with its finalizer and its contributions where it wants them; elsewhere there are none, unless an overlap or a crash lost their record | PatchReconciler |
| `OutputRemembered` | a shared output is on somebody's record or in hand | AnnotationOwnership |
| `DeletedByLastUnlessMixed` | a release deletes the output only when no contributor is left, conflicts and retries included, if no two goroutines are between reading and writing the list | AnnotationOwnership |
| `ResyncRepairs`, `EventuallyInPlace` | the output is there if a primary wants it and only then | AnnotationOwnership |
| `UpToDate` | once every event has been handled, each output and status is what its function makes of the present state: nothing waits for the resync | EventLoop |
| `CallbackBeforeGone` | a primary that has had the finalizer does not leave before its callback has succeeded | EventLoop |
| `ForeignKept` | from when the manager sees the deletion, it does not take another controller's finalizer off | EventLoop |
| `OrphansUnlessUnrecorded` | `gcOrphans` deletes nothing that a primary wants | EventLoop |
| `WatchedOnce` | from the end of `Start` on, a watched type has one handler, or none and is pending | Startup |
| `IDsApart` | IDs differ unless all that differs between two registrations is a group | Startup |
| `NothingLeftToResync` | once the types a reconciler uses have their handlers and the events are handled, it has made what it should, without a resync | Startup |
| `OnlyOrphansCollected` | `gcOrphans` leaves alone what belongs to a reconciler that has run since the start, with any type missing | Startup |
| `EventuallyWatched` | a type whose CRD is installed gets its handler, and what waited for it is made, whatever fails on the way | Startup |
| `Converges` | `Settle`, once per level of the chain, leaves nothing to do | TestHarness |
| `OutputsTracked` | what is on record as made by an invocation is among its dependencies, so that somebody notices when it goes | TestHarness |
| `ReadersRerun` | one `Reconcile` after one edit leaves nothing to do for those who read, own or have made the object | TestHarness |
| `ResultsTell` | what a `Result` reports and what has changed in the store agree | TestHarness |
| `RevertedOnce` | a target is reported as reverted only if it was patched since the last time | TestHarness |

The reservations are part of what the checks found out. They are history
variables or conditions of their own, so that a property says exactly when the
code gives a guarantee:

- `excused` (OutputReconciler): outputs whose record was lost by a failed
  delete (`manager.go:633`, the record is replaced first) or a crash.
- `overlapped`, `lost` (PatchReconciler): two goroutines were at work on the
  primary at the same time; a crash lost the contribution's record. That a
  contribution ends up where it is wanted is said without them.
- `mixed`, `excused` (AnnotationOwnership): two goroutines were between reading
  and writing the list, or a read before an apply failed
  (`ownership.go:94-103` then applies without the annotation); a release
  failed, or a run met a cleanup of the same primary.
- `Stranded` (OutputReconciler, AnnotationOwnership): an output that a run
  records for a primary which has disappeared meanwhile. `lastOutputs` keeps
  it, no run of that primary will ever come, and `gcOrphans` takes it for
  wanted. Under owner references this needs the second read of the primary to
  miss (`apply.go:69-71`), under annotations a run that was already under way
  at the cleanup.
- `missed` (EventLoop): invocations that a change did not get to, because a
  predicate filtered the update out for dependents too (`manager.go:382`), a
  call failed, or a status was skipped for a namesake's deletion
  (`manager.go:450`, `deletingPrimaries` is keyed by the name), or a cleanup
  that was begun for an earlier object of a name has cleared the dependencies
  that the runs of the new one had declared (`manager.go:887-904`).
- `unrecorded` (EventLoop): outputs that a cleanup took off record although
  they belong to another primary of that name, or to one created since
  (`manager.go:876`). For `gcOrphans` they are orphans.
- `stripped` (EventLoop): objects that lost the finalizer to a cleanup begun
  for an earlier object of that name (`apply.go:138-153` patches by name).
  `held` is the set of those that had it: before `addFinalizer` succeeds
  nothing makes a deletion wait.
- `ForeignKept` begins at the deletion because before it a finalizer that
  somebody else adds between the cache's copy and `addFinalizer` is lost; from
  then on the API server accepts no new ones. The object must not be `stripped`:
  the patch of a cleanup for an earlier object of its name carries that
  object's list.
- `Garbage` (EventLoop): an output that nobody is to have, but whose owner is
  gone, may be there until the garbage collector comes (`InPlace`).
- `Collides` (Startup): two registrations whose IDs differ in nothing because
  their kinds have the same name in different groups (`reconciler.go:137`).
- `Reader` (TestHarness): a `FetchAll` without a namespace declares the empty
  namespace (`context.go:97`), which `Lookup` matches against no namespaced
  resource (`tracker.go:154`); its caller waits for the next full reconcile.
- `Namesake` (TestHarness): a primary that is being deleted and stays in the
  store clears the records of another type's primary of its name in each call.
- `Input` (TestHarness): what a `Reconcile` itself changes in what a function
  reads is left to the event of that change.

## 4. The runs

| run | system | bounds |
|---|---|---|
| `tracker` | three invocations, one kind, two namespaces | none needed: the state space is finite |
| `outputs_trouble` | one primary that switches an output on and off; two handlers, the resync; under fairness | one change by a user, one failing call, one crash, anywhere |
| `outputs_fetch` | the output shows what a fetched resource holds; three handlers, the resync | one change |
| `outputs_reinvoke` | as `outputs_fetch` | violated, see below |
| `patches_fail` | one primary that moves between two targets or is deleted; a handler and the resync; under fairness | one change, one failing call, one crash |
| `patches_restart` | two targets, the resync alone | violated, see below |
| `ownership_fail` | two primaries share the output; the watch and the resync; under fairness | one change, two failing or conflicting calls, two retries: enough to use them up |
| `ownership_race` | the same | violated, see below |
| `loop` | primaries `A/x` and `B/x` of the same name, an output and a status reconciler for each, `B`'s status reads `A`'s output; `A` has an `OnDelete` callback; another controller's finalizer; the primaries' types watched `WithGenerationChanged`, the outputs' without a predicate | one change by a user or controller, or one failing call or callback (`MaxTroubles`); one event queued per type; one watch and the resync at work at a time; a fresh start, or a deletion that an earlier process left unfinished |
| `loop_orphans` | the same | violated, see below |
| `startup` | three programs on three types, two of them of one kind: two reconcilers whose IDs collide, one fetching the other's type; the two output forms for the same types; the other forms. Any subset of CRDs missing at first; under fairness | one failing call, one handler at work besides `Start`'s and the retry's goroutines; a first start or one after a restart |
| `store` | a chain `C` to `D` to `E` with the reconcilers in the unfavourable order, a contribution to `V`, a status, reads by name, by label and over all namespaces, a target returned twice, a primary of the same name being deleted | one edit between two calls (`MaxEdits`), two levels (`Depth`) |

Initial states are the contents of the primaries (any in the modules that cut
a run into its calls: present or not, any spec; present and fresh in `loop`)
and an empty output side: the first start of the manager on a cluster with existing primaries.
States in which a previous process left something behind are reached through
`Restart`, or are initial states of their own (`Interrupted` in `EventLoop`,
`restarted` in `Startup`).

**Why the bounds are enough.** Every property of `OutputReconciler`,
`PatchReconciler` and `AnnotationOwnership` is about one primary's record or
one shared output, and about which steps of two runs fall between which of a
third. With one primary all the handlers and the resync can be in its
reconciler at once, which is every overlap there is; more primaries only add
pairs that do not share state (`lastOutputs`, `lastPatches` and the tracker are
keyed by reconciler and primary). A shared output needs two. What more
primaries do share is the name, and this is what `loop` has two for. `MaxQueue
= 1` lets a notification wait while its handler is busy; a longer queue repeats
the same key. `MaxBusy = 1` lets one watch and the resync, or one handler and
both of the manager's own goroutines, work at a time: two watches overlap in
`OutputReconciler`, call by call. `MaxChanges`, `MaxFailures`, `MaxRestarts`,
`MaxTroubles` and `MaxEdits` bound what the environment does, never what the
manager does: resyncs, notifications, rounds of retries and repeated cleanups
are unbounded, and all interleavings with a disturbance at any point are
explored. A deletion while a finalizer is being written needs an earlier
deletion, which `Interrupted` supplies without spending the one change. In
`startup` CRDs and objects come at any time without a bound, each once. `Depth`
is the number of passes the chain needs in that order of its reconcilers. The
theorems of section 6 hold without any of these values.

**Fairness.** Weak fairness of each handler goroutine, of the goroutine of
`Start`, of that of `retryPendingWatches` and of each informer's delivery: the
Go scheduler runs a goroutine that can go on, `time.Ticker` keeps ticking
(`manager.go:248`, `manager.go:279`), and controller-runtime retries its
watches until they deliver. Users, CRDs, failures and crashes have none. No
lock is held across a blocking call, so that weak fairness of a goroutine as a
whole is what the code has; strong fairness is nowhere assumed. Fairness of the garbage
collector is Kubernetes'. `EventLoop` and `TestHarness` state safety only:
`UpToDate` and `Converges` say what holds when everything has come to rest, and
that the manager gets there is the liveness of the other modules.

The deadlock check is on except in `startup`, where `Start` may return an error
before it has started anything: then the system really stops. Elsewhere the
ticker never stops, so neither does the system.

## 5. Where the code and its documentation disagree

Each of the four runs below ends in a counterexample to a sentence of the
documentation.

- `outputs_reinvoke`, `FetchedChangeReinvokes`. README.md:89: a change to a
  fetched resource re-invokes the reconciler. The tracker learns of a fetch
  when the function has returned (`reconciler.go:67-70`). A change that the
  other informer's handler processes in between finds nobody in `Lookup`, and
  the output keeps the older value until the next resync.
- `patches_restart`, `RevertsBeforeRelease`. README.md:126: contributions are
  reverted before the finalizer is removed. `lastPatches` is in memory; after a
  restart the cleanup of a primary that is being deleted finds it empty,
  reverts nothing and removes the finalizer. With two goroutines on the
  primary the same property fails without a crash, since `lastPatches` is
  written after the applies (`manager.go:741`); this is why `RevertsRecorded`
  makes a reservation for `overlapped`.
- `ownership_race`, `DeletedOnlyByLast`. README.md:213: the output is only
  deleted when the last contributor is removed. Two goroutines read the list
  before either writes it; the later write drops the other's primary, and the
  next release finds the list empty.
- `loop_orphans`, `OnlyOrphansCollected`. The comment on `gcOrphans`
  (`manager.go:1098-1099`): what it deletes is "not claimed by any
  sub-reconciler in the current lastOutputs"; and on what takes an output off
  that record (`manager.go:873`): "for this primary". `runCleanup` clears every record whose key ends in the
  primary's name (`manager.go:876`), also those of another type's primary of
  that name; its output is then an orphan to `gcOrphans`, and is deleted while
  its primary wants it.

In the first, third and fourth case the next run of the reconciler repairs the
damage, by the deletion's own event or by the periodic resync. Nothing repairs
the second.

Steps that the models take and no property forbids, because the code has no
remedy: a run whose `addFinalizer` failed goes on from the cached primary
(`manager.go:664`), and its contribution outlives the primary if that is deleted
before a later run has added the finalizer, as `EventuallyInPlace` shows the
later runs to do; `SetDeps` drops
the targets of the previous run until `AppendNarrow` adds them again
(`patch.go:69-70`, `manager.go:713-716`), so that an overwrite handled in
between is only repaired by the resync; a run that fails because a target was
returned twice leaves its targets untracked (`patch.go:112`), which the next
full reconcile makes up for once they differ (`Converges`). Two smaller
things that the modules follow without a property: `PendingWatchCount` is zero
during the initial full reconcile although types are waiting, since
`pendingWatches` is set after it (`manager.go:233-239`); and when a cache sync
fails after a pending type was registered, the full reconcile of that round is
skipped (`manager.go:311`), which `EventuallyWatched` shows to be made up for.

## 6. The proofs

The theorems hold for every value of the constants that satisfies the named
assumptions of the module: the sets are arbitrary (finite where `SetToSeq`
needs it), the function's results are outputs or targets and its fetches
dependencies, keys of different kinds differ, `None` is not a primary, the
bounds are any numbers. `ValuesAssumption` (AnnotationOwnership) says that the
values for "no object" and "failed read" are no lists of primaries and differ,
`ProgramsAssumption` (Startup) that a program is a sequence of calls of one of
the five forms.

**DependencyTracker_proofs.** `TypeCorrect`, `MapsStayMirrored`,
`BucketsNeverEmpty`, `LookupAlwaysExact`, `TrackerImplementsRelation`. The argument is one predicate,
`Paired(fwd, rev, K)`: a forward and a reverse map hold the same pairs, have
keys in `K`, and no empty bucket. Clearing an invocation keeps it
(`ClearKeepsPaired`), recording keys keeps it (`RecordKeepsPaired`), so
`SetDeps`, `AppendNarrow` and `RemoveDeps` do. The inductive invariant adds
that the reverse maps equal the relation in `declared`; `LookupIsExact` then is
a rewriting. `LookupIsExact` alone is not inductive: it says nothing about the
reverse maps, from which the next `SetDeps` works. The refinement follows from
the same invariant: under it the reverse maps are the relation, so that each
call is the step of `DependencyRelation` of its name and the initial maps are
the empty relation.

**OutputReconciler_proofs.** `TypeCorrect`, `NoOutputIsForgotten` and
`ResyncMakesGood` (`ResyncRepairs`). For the first two the inductive invariant
is `TypeOK /\ RunInv /\ NoOutputForgotten`. `RunInv` says of each goroutine
that a run under way has a primary and a spec, and that while it applies, what
is left to apply is part of what it wants: without it an apply could create an
output which the run will not record. The interesting case is
`SwapLastOutputs`: an output on the old record is either wanted, and on the new
one, or stale, and in the hands of the same run; one that was in the hands of
another run of the same primary stays there. So the number of goroutines and of
primaries does not matter.

`ResyncMakesGood` has the invariant `IInv /\ Origins /\ Repairs`:

- `Origins` says whose an output is: what is on a primary's record, in the
  hands of its run or carries its owner reference is something that the function
  makes for that primary (`Makes`).
- `Repairs` speaks of an undisturbed pass, and of the time after it. `Steady`:
  the cache shows the primaries and dependencies as they are, nothing is left to
  the garbage collector, and every run that is under way, the handlers' that the
  pass itself sets off included, is `Current`: it has seen the cluster as it is,
  what it has applied is in place, and it holds nothing for deletion that some
  primary wants. `Progress`: each primary is still ahead of the resync or
  `Done`, and from `gcOrphans`'s listing on nothing exists but what is on record
  or on the list to be deleted.

Every step of any goroutine in such a pass is one of three (`Mends`): it applies
what is wanted, deletes what nobody wants, or records what is wanted. The lemmas
`MendsKeeps` to `MendsCurrent` say that such a step spoils nothing for anybody
else, so that each action is looked at once, for an arbitrary goroutine.

The theorem assumes `OwnOutputs`: the function makes no output for two
primaries. It is what the default ownership is for (the repository's README.md,
"Multi-Owner Tracking": annotation ownership is for when "multiple primaries
produce the same output"): with owner references the runs of the two would
overwrite each other for good, and `Restored` could not hold. Runs with one
primary satisfy it.

**PatchReconciler_proofs.** `TypeCorrect`, `NoContributionIsForgotten` and
`ReleaseIsLast` (that is `RevertsRecorded`). The inductive invariant is
`TypeOK /\ RunInv /\ Alone /\ Recorded`. `Alone`: two goroutines with the same
primary in hand have been noticed in `overlapped`. `Recorded` says of each
contribution, with the two reservations, that it is on record or in hand, *and*
that every goroutine on that primary minds it: in `revert` it is still to be
reverted or goes back on record, in `undo` it is still to be reverted, and in
`forget` there is none. `NoContributionForgotten` alone is not inductive: it
does not say that what `RecordPatches` writes, or what a cleanup copied when it
began, is complete. The case that needs `Alone` is `BeginCleanup`: the copy of
the record is complete because a contribution that is not on it would be in the
hands of another goroutine. `ReleaseIsLast` first shows that no action but
`ReleasePrimary` takes the finalizer off, and then that its guard, an empty
`left` in `undo`, leaves no contribution to mind.

**AnnotationOwnership_proofs.** `TypeCorrect`, `NeverForgotten` (that is
`OutputRemembered`), `LastOneOut` (`DeletedByLastUnlessMixed`) and
`ResyncMakesGood` (`ResyncRepairs`). The inductive invariant of the first three
is `TypeOK /\ ShapeInv /\ Orderly /\ Tended /\ Minded`. `ShapeInv` says what a
goroutine's locals are at each of its steps. `Orderly`: as long as nothing is
mixed, one goroutine at most is between reading and writing the list, what it
has read is what the output says, and every contributor is listed. `Tended`: as
long as nothing is excused, a cleanup has its primary to itself, and the output
stays on the primary's record until it has been released. `Minded`: whoever is
on the list has the output on record or a goroutine that holds it, an empty
list is about to be deleted, and a cleanup that has released the output has
left the list. `OutputRemembered` alone is not inductive, because it does not
say *who* remembers: `Forget` clears a record after the release, and what is
left must be somebody else's. `LastOneOut` needs `Orderly` only: a goroutine
that deletes has found nobody on a list that has everybody on it.

`ResyncMakesGood` adds `Repairs`, which needs neither `mixed` nor `excused`: in
an undisturbed pass the watch is idle, and of each primary that is neither
ahead of the resync nor in work, `Served` says that it is on the record and on
the list if it wants the output, and off the record if not. The two steps that
take away are harmless: what is written back after a release is the list that
was read less one name (`PatchPass`), so that nobody who is `Served` is lost,
and an empty list, on which `DeleteOutput` follows, means that nobody who wants
the output has been `Served` yet (`DeletePass`). At the orphan collection all
primaries are `Served`, and a record that is empty then means that none wants it.

**EventLoop_proofs.** `TypeCorrect`, `NothingLeftBehind` (`UpToDate`),
`CallbackFirst` (`CallbackBeforeGone`), `OthersFinalizersKept` (`ForeignKept`)
and `WantedNotCollected` (`OrphansUnlessUnrecorded`), for any objects,
registrations, functions and predicates, any number of types that handle
events at the same time, and queues of any length. One inductive invariant
carries all five,

    Types /\ CacheFollows /\ BasesFollowed /\ HeldOrCalled
          /\ UnseenOwnNothing /\ OnRecord /\ AllCovered

- `AllCovered` is what `UpToDate` needs: an invocation is in hand (`Direct`: a
  task of some goroutine, an event of its primary that is queued, or a
  reconciler that the resync has yet to come to), or the tracker knows all it
  reads (`Known`) and either the event of something it reads is under way
  (`ToLearn`) or what it made is what its function makes of the *cache*
  (`Settled`). `UpToDate` alone is not inductive, because it speaks of quiet
  states only. The interesting cases are `Refresh`, which makes `Settled` false
  and in the same step queues the event by which the tracker is asked, and
  `Route`, where that event turns into tasks: it finds every invocation that
  is `Known` to read the object. A run makes its own invocation `Settled`
  whatever was read before, since an apply writes all of it.
- `OnRecord` says that what was made for the object that the cache shows is in
  `lastOutputs`; with `UnseenOwnNothing` it survives an object of the same name
  and another UID. `WantedNotCollected` follows from it at the step of
  `gcOrphans`.
- `CacheFollows` and `BasesFollowed` say in which respects a copy may lag: the
  cache's, and the one a cleanup was given when it began. Once the copy shows
  the deletion, another controller's finalizer can only go, so that whoever is
  on the object is in the copy; `OthersFinalizersKept` is this at the step of
  each patch. `HeldOrCalled` gives `CallbackFirst`.

**Startup_proofs.** `TypeCorrect`, `OneHandlerEach` (`WatchedOnce`),
`IDsKeptApart` (`IDsApart`), `ResyncNotNeeded` (`NothingLeftToResync`) and
`RunNotCollected` (`OnlyOrphansCollected`), for any programs, types and order
of events. Three invariants, each resting on the one before:

- `IInv`, that is `Types /\ Phases /\ Accounted`. `Waiting` says where a type
  without a handler is kept at the moment: on `Start`'s lists, then in
  `pendingWatches`, and during a round of `retryPendingWatches` in the copy that
  the round works on, which the round writes back at its end. `Accounted` says
  that each watched type has one handler and is not waiting, or none and is.
  `WatchedOnce` alone is not inductive: it does not say that a type that got
  its handler in this round is not on the list that the round will write.
- `Registration`. `Numbered`: in each registry the reconcilers of the same
  types have different numbers, which go up to how many they are, so that the
  next number is new; `IDsKeptApart` follows. `Carried`: what is registered are
  the first calls of one program, so that every reconciler is one of `Makers`.
- `Kinds /\ Recorded /\ AllCovered`. `AllCovered` is the same argument as in
  `EventLoop`, with handlers that come late: as long as no call has failed, a
  reconciler whose types all have their handlers is to be run (`ToRun`: in a
  full reconcile of `Start` or of `retryPendingWatches`, by an event, or because
  the round under way has resolved a type), will be found by the tracker
  (`ToRoute`), or is `Fresh`. The case that matters is `RetryWatch`: it may
  complete a reconciler's types, and in that step makes `retry.resolved` true,
  which `RetryRound` turns into a full reconcile. `Recorded` says that what has
  been run is in `lastOutputs`, which is why `gcOrphans` leaves it alone.

`FetchedAssumption` says that functions fetch resources of the types there are.

**TestHarness_proofs.** Nine theorems about the composition of the store, the
three kinds of reconcilers, the tracker and the cleanup, and one about the reads
of a function; they hold for any reconcilers, any number of levels in a chain,
any edits, and any order in which maps and lists are walked.

- Of the specification: `TypeCorrect` (`TypeOK`), `OutputsAreTracked`
  (`OutputsTracked`), `ResultsAreTrue` (`ResultsTell`), `RevertsAreBacked`
  (`RevertedOnce`), and `StoresAreOK`, which says that every store a test can
  reach is one of which `ReadsAreTracked` speaks.
- Of one run at any point of any call (`Call(s, h)`, which every call passes
  from step to step): `OutputsAreMade` and `PatchesAreMade` say what a run
  leaves in the store, on record and in the tracker, and that it changes nothing
  else; `RunsAreNotified`, with `ReadsAreTracked`, that an event on any object
  which its function was given or has made finds the invocation in the tracker;
  `ReadersAreRun` that `handle` then runs that invocation and no other. A list
  without a namespace is the exception.

The inductive invariant is `Good`: the shape of everything, `Others` (no
invocation has its own primary on record), `Backed` (what is on record as
patched is contributed) and `Followed` (`OutputsTracked`, and only an output
reconciler has such a record). `OutputsTracked` alone is not inductive: every kind of
reconciler replaces its dependencies when it runs, and only an output reconciler
adds what is in `lastOutputs` to them again.
A call is too large a step to be taken at once. `Call(s, h)`
relates the state `h` that a call has reached to the state `s.from` that it has
started from, and holds of both the beginning and every step after it: `Objects`
is the part of `ResultsTell` about the store, `Counts` that about the events,
`Reverts` is the balance of `RevertedOnce`. `Midway` is `Call` without `Backed`
and `Followed`, which a run breaks (a contribution is taken back before the
record is replaced, the dependencies are replaced before the outputs are added)
and makes good before it ends. What is shown of each primitive (`Applying`,
`Removing`, `Patching`, `Reverting`, `Finalizing`, `Managing`) is carried over
the loops by the two lemmas of `Loops`, instantiated once for each loop's body:
`Unfolds` gives the states between, `Preserves` what the body preserves.
`Loops` has the induction as a least counterexample, from the well-foundedness
of the numbers, so that no theorem with an operator parameter is needed. The
lists that a full reconcile has taken before its first run are remembered in
`s.seen` (`Seeing`): a primary is cleaned up as it was listed, and the merge
patch that takes its finalizer off may bring it back, of which a `Result` tells
as of a cleanup.

The theorems assume `FunctionsFit`: a function makes a list of objects with keys
of `Keys` (which are all the keys there may be), reads by name within `Keys`,
and an output reconciler does not return its own primary. The last is part of
what an output is: a run whose outputs include its primary replaces it, and when
the function no longer returns it, deletes it; the later deletions of that
batch then have no primary to record an event on, and `Result` counts fewer
events than deletions. `FunctionsFit` speaks of every store of the right shape,
which TLC cannot enumerate; the functions of `MCTestHarness` satisfy it by
their definitions. `HarnessAssumption`, which TLC evaluates, says that the IDs of
reconcilers differ; that the code may fail to keep them apart is `Startup`'s
subject (`Collides`).

**Model-checked only.** All liveness (and whatever needs `ENABLED`):
`EventuallyRestored`, `DeletionFinishes`, `EventuallyInPlace`,
`EventuallyWatched`, since the prover does not reason about fairness. Of the
safety properties that passing runs check, all are theorems but two, `Converges`
and `ReadersRerun` of `TestHarness`. Both say that nobody has anything left to
do after a whole call, and neither holds for every value of the constants: two
reconcilers may return the same object with different contents, a patch may
replace what an output reconciler has applied, and a chain may be longer than
`Depth`. A theorem would have to assume that of the functions, what one run
makes being neither made nor replaced by another's, and an order of the chain, and
then count the passes of `Settle` along it. What holds without such assumptions
is proved of each run: `OutputsAreMade` or `PatchesAreMade` when it ends, and
`RunsAreNotified` with `ReadersAreRun` for the event that makes it run again.
The violated properties of section 5 are TLC's by nature.

## 7. What is not modelled

- The encoding of annotations, server-side apply's field ownership below the
  level of "this field manager contributes", the names of field managers,
  `HandlerContext.RecordEvent`, logging. The manager's own events are modelled
  in `TestHarness` only, where a `Result` is made of them.
- A failing cache read other than not-found: the cache is local memory.
- `WaitForCacheSync` returning false because the context has ended, which ends
  everything; in `retryPendingWatches` it may fail.
- Options of the manager and the registration of `OnDelete` callbacks, which
  store a value each: they are constants of the models. `registration` is
  therefore listed as partly modelled.
- Predicates that an application writes itself. `WithGenerationChanged` is
  modelled, and a function's `WithPredicate` is a constant.
- Several reconcilers per primary that produce the same output under owner
  references. Chains, in which an output is another reconciler's primary, are
  in `TestHarness`, where calls do not overlap.
- The examples: pure functions from a primary to its outputs.

## 8. What could come next

1. A chain of reconcilers with overlapping runs, that is `OutputReconciler`
   with outputs among the primaries.
2. `Converges` and `ReadersRerun` as theorems, from assumptions about which
   function makes what (see "Model-checked only"), on top of `OutputsAreMade` and
   `RunsAreNotified`.
