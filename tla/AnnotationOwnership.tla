------------------------- MODULE AnnotationOwnership ------------------------
(***************************************************************************)
(* ownership.go and the parts of manager.go that use it: several primaries *)
(* produce the same output under WithAnnotationOwnership.  An annotation   *)
(* of the output lists its contributors.  A run adds its primary to the    *)
(* list and a release removes it, and both do so by reading the output     *)
(* from the API server and writing the whole list back.                    *)
(*                                                                         *)
(* The output is modelled by the set of its contributors.  The cache shows *)
(* the primaries as they are, and they have their finalizer: what happens  *)
(* when that is not so is the subject of PatchReconciler.  What the output *)
(* being a dependency of its reconcilers sets off is that of EventLoop.    *)
(***************************************************************************)
EXTENDS Naturals, FiniteSets

CONSTANTS
    Primaries,       \* keys of the primaries that may produce the output
    Absent,          \* no such object
    Failed,          \* a read that failed
    None,            \* no value in a local variable
    MaxRetries,      \* maxConflictRetries
    MaxChanges,      \* bound: changes made by users
    MaxFailures      \* bound: API calls that fail

\* The goroutine of the watch of the primaries, and that of the resync.
Procs == {"watch", "resync"}

ASSUME BoundsAssumption == /\ MaxRetries \in Nat \ {0}
                           /\ MaxChanges \in Nat /\ MaxFailures \in Nat

\* The values that stand for something else than a primary or a list of them.
ASSUME ValuesAssumption == /\ None \notin Primaries /\ Failed # Absent
                           /\ \A list \in SUBSET Primaries : list # Absent /\ list # Failed

VARIABLES
    prim,          \* each primary: Absent, or whether it wants the output and is being deleted
    live,          \* the output: Absent, or the contributors its annotation lists
    pending,       \* primaries whose handler has a notification of them
    last,          \* primaries with the output in Manager.lastOutputs
    proc,          \* program counter and local variables of each goroutine
    changes, failures,  \* how much of each bound is used up
    contributing,  \* history: primaries that applied the output and have not released it
    mixed,         \* history: two goroutines were at the output at a time, or a read for an apply failed
    excused,       \* history: a release or delete failed, or a cleanup and a run of a primary met
    pass           \* history: how far an undisturbed full reconcile has come

bounds  == <<changes, failures>>
history == <<contributing, mixed, excused>>
vars    == <<prim, live, pending, last, proc, bounds, history, pass>>

Exists(p) == prim[p] # Absent

Idle == [pc |-> "idle", todo |-> {}, doomed |-> {}, cur |-> None, on |-> FALSE,
         cleanup |-> FALSE, read |-> None, tries |-> 0]

\* The primaries that want the output.
Wanting == {p \in Primaries : Exists(p) /\ prim[p].on /\ ~prim[p].deleting}

-----------------------------------------------------------------------------
\* fullReconcile lists the primaries and sees which are being deleted.
Listing == [Idle EXCEPT !.pc = "run",
                        !.todo = {p \in Primaries : Exists(p)},
                        !.doomed = {p \in Primaries : Exists(p) /\ prim[p].deleting}]

Init == /\ prim \in [Primaries -> {Absent} \cup [on : BOOLEAN, deleting : {FALSE}]]
        /\ live = Absent
        /\ pending = {p \in Primaries : Exists(p)}
        /\ last = {}
        /\ proc = [w \in Procs |-> IF w = "resync" THEN Listing ELSE Idle]
        /\ changes = 0 /\ failures = 0
        /\ contributing = {} /\ mixed = FALSE /\ excused = FALSE
        /\ pass = "disturbed"

-----------------------------------------------------------------------------
(* Users *)

\* A user's change to a primary, which its handler will hear of.
Change(p, obj) == /\ changes < MaxChanges
                  /\ changes' = changes + 1
                  /\ prim' = [prim EXCEPT ![p] = obj]
                  /\ pending' = pending \cup {p}
                  /\ pass' = "disturbed"
                  /\ UNCHANGED <<live, last, proc, failures, history>>

Create(p) == ~Exists(p) /\ Change(p, [on |-> TRUE, deleting |-> FALSE])

Switch(p) == Exists(p) /\ Change(p, [prim[p] EXCEPT !.on = ~@])

Delete(p) == Exists(p) /\ ~prim[p].deleting /\ Change(p, [prim[p] EXCEPT !.deleting = TRUE])

-----------------------------------------------------------------------------
(* The goroutines take up work *)

\* A notification about a primary.
TakePrimary(p) ==
    /\ proc["watch"].pc = "idle" /\ p \in pending
    /\ pending' = pending \ {p}
    /\ proc' = [proc EXCEPT !["watch"] =
                  [Idle EXCEPT !.pc = "run", !.todo = {p},
                               !.doomed = IF Exists(p) /\ prim[p].deleting THEN {p} ELSE {}]]
    /\ UNCHANGED <<prim, live, last, bounds, history, pass>>

\* Nothing is on its way, and nobody but the resync is at work.
Calm == pending = {} /\ proc["watch"] = Idle

StartResync ==
    /\ proc["resync"].pc = "idle"
    /\ proc' = [proc EXCEPT !["resync"] = Listing]
    /\ pass' = IF Calm THEN "undisturbed" ELSE "disturbed"
    /\ UNCHANGED <<prim, live, pending, last, bounds, history>>

Finish ==
    /\ proc["watch"].pc = "run" /\ proc["watch"].todo = {}
    /\ proc' = [proc EXCEPT !["watch"] = Idle]
    /\ UNCHANGED <<prim, live, pending, last, bounds, history, pass>>

-----------------------------------------------------------------------------
(* runSubReconciler *)

\* Mutant: what was known of the last primary is taken over to the next.
Onward_KeepsLocals(w) == [proc[w] EXCEPT !.pc = "run"]

\* The goroutine moves on to its next primary.
Onward(w) == [Idle EXCEPT !.pc = "run", !.todo = proc[w].todo, !.doomed = proc[w].doomed]

\* The primary is looked up; one that is gone or being deleted is left alone.
Begin(w, p) ==
    /\ proc[w].pc = "run" /\ p \in proc[w].todo \ proc[w].doomed
    /\ proc' = [proc EXCEPT ![w] =
                  IF Exists(p) /\ ~prim[p].deleting
                  THEN [proc[w] EXCEPT !.todo = @ \ {p}, !.pc = "start", !.cur = p]
                  ELSE [proc[w] EXCEPT !.todo = @ \ {p}]]
    /\ excused' = (excused \/ \E v \in Procs \ {w} : proc[v].cur = p /\ proc[v].cleanup)
    /\ UNCHANGED <<prim, live, pending, last, bounds, contributing, mixed, pass>>

\* Reconcile reads the primary again and calls the function; if the primary
\* has gone the run ends with an error.
ReadPrimary(w) ==
    LET p == proc[w].cur IN
    /\ proc[w].pc = "start"
    /\ proc' = [proc EXCEPT ![w] = IF ~Exists(p) THEN Onward(w)
                                   ELSE [proc[w] EXCEPT !.on = prim[p].on,
                                                        !.pc = IF prim[p].on THEN "get" ELSE "swap"]]
    /\ UNCHANGED <<prim, live, pending, last, bounds, history, pass>>

\* Goroutines between reading and writing the contributors, or deleting.
AtOutput(w) == proc[w].pc \in {"apply", "patch", "reread", "delete", "collect"}

\* Somebody else is there, or is coming.
Meeting(w) == mixed \/ \E v \in Procs \ {w} : AtOutput(v)

\* prepareDesired reads the output from the API server.
GetLive(w) ==
    /\ proc[w].pc = "get"
    /\ proc' = [proc EXCEPT ![w].pc = "apply", ![w].read = live]
    /\ mixed' = Meeting(w)
    /\ UNCHANGED <<prim, live, pending, last, bounds, contributing, excused, pass>>

\* The read fails; the output is applied without the annotation.
GetLiveFails(w) ==
    /\ proc[w].pc = "get"
    /\ failures < MaxFailures
    /\ failures' = failures + 1
    /\ proc' = [proc EXCEPT ![w].pc = "apply", ![w].read = Failed]
    /\ mixed' = TRUE
    /\ pass' = "disturbed"
    /\ UNCHANGED <<prim, live, pending, last, changes, contributing, excused>>

\* Mutant: the apply never reaches the API server.
Apply_NotSent(w) ==
    /\ proc[w].pc = "apply"
    /\ proc' = [proc EXCEPT ![w].pc = "swap", ![w].read = None]
    /\ UNCHANGED <<prim, live, pending, last, bounds, history, pass>>

\* Server-side apply replaces the annotation by what was read, with the
\* primary added.
Apply(w) ==
    LET p == proc[w].cur IN
    /\ proc[w].pc = "apply"
    /\ live' = (CASE proc[w].read = Failed -> {}
                 [] proc[w].read = Absent -> {p}
                 [] OTHER                 -> proc[w].read \cup {p})
    /\ contributing' = contributing \cup {p}
    /\ proc' = [proc EXCEPT ![w].pc = "swap", ![w].read = None]
    /\ UNCHANGED <<prim, pending, last, bounds, mixed, excused, pass>>

\* The apply failed; the output still counts as wanted.
ApplyFails(w) ==
    /\ proc[w].pc = "apply"
    /\ failures < MaxFailures
    /\ failures' = failures + 1
    /\ proc' = [proc EXCEPT ![w].pc = "swap", ![w].read = None]
    /\ pass' = "disturbed"
    /\ UNCHANGED <<prim, live, pending, last, changes, history>>

\* Mutant: a stale output is not released.
SwapLastOutputs_NoRelease(w) ==
    LET p == proc[w].cur IN
    /\ proc[w].pc = "swap"
    /\ last' = IF proc[w].on THEN last \cup {p} ELSE last \ {p}
    /\ proc' = [proc EXCEPT ![w] = Onward(w)]
    /\ UNCHANGED <<prim, live, pending, bounds, history, pass>>

\* The record is replaced; an output on it that is no longer wanted is
\* released next.
SwapLastOutputs(w) ==
    LET p == proc[w].cur IN
    /\ proc[w].pc = "swap"
    /\ last' = IF proc[w].on THEN last \cup {p} ELSE last \ {p}
    /\ proc' = [proc EXCEPT ![w] = IF p \in last /\ ~proc[w].on
                                   THEN [proc[w] EXCEPT !.pc = "release"] ELSE Onward(w)]
    /\ UNCHANGED <<prim, live, pending, bounds, history, pass>>

-----------------------------------------------------------------------------
(* removeContributor, for a run and for a cleanup *)

\* The output is released: a run is over, a cleanup goes on.
Through(w) == IF proc[w].cleanup THEN [proc[w] EXCEPT !.pc = "finalize", !.read = None] ELSE Onward(w)

\* The primary is removed from the list that is read here.  A primary that
\* is not on it has nothing to remove; an empty list means delete.
ReadContributors(w) ==
    LET p == proc[w].cur IN
    /\ proc[w].pc = "release"
    /\ proc' = [proc EXCEPT ![w] =
                  CASE live = Absent -> Through(w)
                    [] live = {}     -> [proc[w] EXCEPT !.pc = "delete"]
                    [] OTHER         -> IF p \in live THEN [proc[w] EXCEPT !.pc = "patch", !.read = live]
                                                      ELSE Through(w)]
    /\ contributing' = contributing \ {p}
    /\ mixed' = Meeting(w)
    /\ UNCHANGED <<prim, live, pending, last, bounds, excused, pass>>

\* releaseOwnership returns an error: a run forgets the output, a cleanup
\* ends with the finalizer in place.
Unreleased(w) == /\ proc' = [proc EXCEPT ![w] = Onward(w)]
                 /\ excused' = (excused \/ ~proc[w].cleanup)

\* The list cannot be read, at first or after a conflict, or not be written
\* for another reason than a conflict.
ContributorsFail(w) ==
    /\ proc[w].pc \in {"release", "patch", "reread"}
    /\ failures < MaxFailures
    /\ failures' = failures + 1
    /\ Unreleased(w)
    /\ pass' = "disturbed"
    /\ UNCHANGED <<prim, live, pending, last, changes, contributing, mixed>>

\* What the list shall be without the primary.
Remaining(w) == proc[w].read \ {proc[w].cur}

\* The merge patch sets the annotation if the list has changed, whatever it
\* is by now.  The last one out deletes the output.
PatchContributors(w) ==
    /\ proc[w].pc = "patch" /\ live # Absent
    /\ live' = IF Remaining(w) = proc[w].read THEN live ELSE Remaining(w)
    /\ proc' = [proc EXCEPT ![w] = IF Remaining(w) = {} THEN [proc[w] EXCEPT !.pc = "delete", !.read = None]
                                                        ELSE Through(w)]
    /\ UNCHANGED <<prim, pending, last, bounds, history, pass>>

\* The output has gone meanwhile, which is an error here.
PatchGone(w) ==
    /\ proc[w].pc = "patch" /\ live = Absent
    /\ Unreleased(w)
    /\ UNCHANGED <<prim, live, pending, last, bounds, contributing, mixed, pass>>

\* The API server reports a conflict; the list is read again, up to
\* maxConflictRetries times.
PatchConflict(w) ==
    /\ proc[w].pc = "patch"
    /\ failures < MaxFailures
    /\ failures' = failures + 1
    /\ proc' = [proc EXCEPT ![w].pc = "reread", ![w].tries = @ + 1]
    /\ pass' = "disturbed"
    /\ UNCHANGED <<prim, live, pending, last, changes, history>>

\* Mutant: after a conflict only the resource is read again, and the list
\* that remained before is kept, as if nobody else were on it.
RereadContributors_Forgets(w) ==
    /\ proc[w].pc = "reread" /\ live # Absent
    /\ proc[w].tries < MaxRetries
    /\ proc' = [proc EXCEPT ![w].pc = "patch", ![w].read = {proc[w].cur}]
    /\ UNCHANGED <<prim, live, pending, last, bounds, history, pass>>

RereadContributors(w) ==
    /\ proc[w].pc = "reread" /\ live # Absent
    /\ proc[w].tries < MaxRetries
    /\ proc' = [proc EXCEPT ![w].pc = "patch", ![w].read = live]
    /\ mixed' = Meeting(w)
    /\ UNCHANGED <<prim, live, pending, last, bounds, contributing, excused, pass>>

\* The output is gone, or the retries are used up.
RereadGivesUp(w) ==
    /\ proc[w].pc = "reread"
    /\ live = Absent \/ proc[w].tries = MaxRetries
    /\ Unreleased(w)
    /\ UNCHANGED <<prim, live, pending, last, bounds, contributing, mixed, pass>>

\* deleteIfExists.
DeleteOutput(w) ==
    /\ proc[w].pc = "delete"
    /\ live' = Absent
    /\ proc' = [proc EXCEPT ![w] = Through(w)]
    /\ contributing' = {}
    /\ UNCHANGED <<prim, pending, last, bounds, mixed, excused, pass>>

\* The delete failed: run and cleanup alike go on.
DeleteOutputFails(w) ==
    /\ proc[w].pc = "delete"
    /\ failures < MaxFailures
    /\ failures' = failures + 1
    /\ proc' = [proc EXCEPT ![w] = Through(w)]
    /\ excused' = TRUE
    /\ pass' = "disturbed"
    /\ UNCHANGED <<prim, live, pending, last, changes, contributing, mixed>>

-----------------------------------------------------------------------------
(* runCleanup and gcOrphans *)

\* releaseAllOutputs copies the record under the lock.
BeginCleanup(w, p) ==
    /\ proc[w].pc = "run" /\ p \in proc[w].todo \cap proc[w].doomed
    /\ proc' = [proc EXCEPT ![w].todo = @ \ {p}, ![w].cur = p, ![w].cleanup = TRUE,
                            ![w].pc = IF p \in last THEN "release" ELSE "finalize"]
    /\ excused' = (excused \/ \E v \in Procs \ {w} : proc[v].cur = p)
    /\ UNCHANGED <<prim, live, pending, last, bounds, contributing, mixed, pass>>

\* removeFinalizer lets the primary go; of one that has gone it fails.
Finalize(w) ==
    LET p == proc[w].cur IN
    /\ proc[w].pc = "finalize"
    /\ prim' = [prim EXCEPT ![p] = IF Exists(p) /\ prim[p].deleting THEN Absent ELSE prim[p]]
    /\ proc' = [proc EXCEPT ![w] = IF Exists(p) THEN [proc[w] EXCEPT !.pc = "forget"] ELSE Onward(w)]
    /\ UNCHANGED <<live, pending, last, bounds, history, pass>>

\* The error ends the cleanup.
FinalizeFails(w) ==
    /\ proc[w].pc = "finalize"
    /\ failures < MaxFailures
    /\ failures' = failures + 1
    /\ proc' = [proc EXCEPT ![w] = Onward(w)]
    /\ pass' = "disturbed"
    /\ UNCHANGED <<prim, live, pending, last, changes, history>>

\* lastOutputs is cleared.
Forget(w) ==
    /\ proc[w].pc = "forget"
    /\ last' = last \ {proc[w].cur}
    /\ proc' = [proc EXCEPT ![w] = Onward(w)]
    /\ UNCHANGED <<prim, live, pending, bounds, history, pass>>

\* gcOrphans: is the output on record, as seen under the lock?
SnapshotWanted ==
    /\ proc["resync"].pc = "run" /\ proc["resync"].todo = {}
    /\ proc' = [proc EXCEPT !["resync"].pc = "list", !["resync"].on = (last # {})]
    /\ UNCHANGED <<prim, live, pending, last, bounds, history, pass>>

\* Mutant: the list finds no orphan.
ListManaged_WrongLabel ==
    /\ proc["resync"].pc = "list"
    /\ proc' = [proc EXCEPT !["resync"].pc = "end"]
    /\ UNCHANGED <<prim, live, pending, last, bounds, history, pass>>

\* gcOrphans lists the outputs that carry the managed-by label.
ListManaged ==
    /\ proc["resync"].pc = "list"
    /\ proc' = [proc EXCEPT !["resync"].pc = IF live # Absent /\ ~proc["resync"].on THEN "collect" ELSE "end"]
    /\ mixed' = Meeting("resync")
    /\ UNCHANGED <<prim, live, pending, last, bounds, contributing, excused, pass>>

\* Either call of gcOrphans failed; that is logged, and the output is left
\* for the next pass.
CollectFails ==
    /\ proc["resync"].pc \in {"list", "collect"}
    /\ failures < MaxFailures
    /\ failures' = failures + 1
    /\ proc' = [proc EXCEPT !["resync"].pc = "end"]
    /\ pass' = "disturbed"
    /\ UNCHANGED <<prim, live, pending, last, changes, history>>

CollectOrphan ==
    /\ proc["resync"].pc = "collect"
    /\ live' = Absent
    /\ proc' = [proc EXCEPT !["resync"].pc = "end"]
    /\ contributing' = {}
    /\ UNCHANGED <<prim, pending, last, bounds, mixed, excused, pass>>

EndResync ==
    /\ proc["resync"].pc = "end"
    /\ proc' = [proc EXCEPT !["resync"] = Idle]
    /\ pass' = IF pass = "undisturbed" THEN "complete" ELSE pass
    /\ UNCHANGED <<prim, live, pending, last, bounds, history>>

-----------------------------------------------------------------------------
Users == \E p \in Primaries : Create(p) \/ Switch(p) \/ Delete(p)

Trouble == \/ \E w \in Procs : \/ GetLiveFails(w) \/ ApplyFails(w) \/ ContributorsFail(w)
                               \/ PatchConflict(w) \/ DeleteOutputFails(w) \/ FinalizeFails(w)
           \/ CollectFails

\* What goroutine w does next when no call of it fails.
Run(w) == \/ \E p \in Primaries : Begin(w, p) \/ BeginCleanup(w, p)
          \/ ReadPrimary(w) \/ GetLive(w) \/ Apply(w) \/ SwapLastOutputs(w)
          \/ ReadContributors(w) \/ PatchContributors(w) \/ PatchGone(w)
          \/ RereadContributors(w) \/ RereadGivesUp(w) \/ DeleteOutput(w)
          \/ Finalize(w) \/ Forget(w)

Watch == (\E p \in Primaries : TakePrimary(p)) \/ Run("watch") \/ Finish

Resync == \/ StartResync \/ Run("resync")
          \/ SnapshotWanted \/ ListManaged \/ CollectOrphan \/ EndResync

Next == Users \/ Trouble \/ Resync \/ Watch

Spec == Init /\ [][Next]_vars

\* The scheduler runs every goroutine, and the ticker ticks.
Fairness == WF_vars(Resync) /\ WF_vars(Watch)

FairSpec == Spec /\ Fairness

-----------------------------------------------------------------------------
(* Properties *)

ProcRecord ==
    [pc : {"idle", "run", "start", "get", "apply", "swap", "release", "patch", "reread", "delete",
           "finalize", "forget", "list", "collect", "end"},
     todo : SUBSET Primaries, doomed : SUBSET Primaries, cur : Primaries \cup {None},
     on : BOOLEAN, cleanup : BOOLEAN,
     read : {None, Absent, Failed} \cup SUBSET Primaries, tries : 0..MaxRetries]

TypeOK ==
    /\ prim \in [Primaries -> {Absent} \cup [on : BOOLEAN, deleting : BOOLEAN]]
    /\ live \in {Absent} \cup SUBSET Primaries
    /\ pending \in SUBSET Primaries /\ last \in SUBSET Primaries
    /\ proc \in [Procs -> ProcRecord]
    /\ \A w \in Procs : proc[w].pc \in {"idle", "run"} => proc[w].cur = None /\ proc[w].tries = 0
    /\ changes \in 0..MaxChanges /\ failures \in 0..MaxFailures
    /\ contributing \in SUBSET Primaries /\ mixed \in BOOLEAN /\ excused \in BOOLEAN
    /\ pass \in {"disturbed", "undisturbed", "complete"}

\* Goroutine w is going to record the output, or to release it.
InHand(w) == \/ proc[w].pc = "swap" /\ proc[w].on
             \/ proc[w].pc \in {"release", "patch", "reread", "delete"}

\* The output of several primaries, whose runs and cleanups overlap, is never
\* forgotten: while it exists it is on record for one of them or in the hands
\* of a goroutine.  What loses the record is a failure, a cleanup and a run
\* that are under way for the same primary at the same time, or two releases
\* that overlap and each leave the other's contributor on the list.
OutputRemembered ==
    live # Absent => last # {} \/ (\E w \in Procs : InHand(w)) \/ excused \/ mixed

\* A release deletes the output.
DeletedByRelease == /\ live # Absent /\ live' = Absent
                    /\ \E w \in Procs : proc[w].pc = "delete" /\ proc'[w] # proc[w]

\* "The output is only deleted when the last contributor is removed."
DeletedOnlyByLast == [][DeletedByRelease => contributing = {}]_vars

\* That is so, conflicts and failed calls included, as long as only one
\* goroutine at a time is between reading the contributors and writing them,
\* and no read of them for an apply has failed.
DeletedByLastUnlessMixed == [][DeletedByRelease => contributing = {} \/ mixed]_vars

\* A run that was under way when its primary went has put the output on the
\* record of a primary that nobody will ever clean up again.
Stranded == \E p \in last : ~Exists(p)

\* Contributors get lost, and lost ones come back, when reads and writes of
\* the list overlap.  A full reconcile with gcOrphans that begins when
\* nothing else is on its way makes up for all of it once it and what it
\* sets off have come to rest: the output is there if it is wanted, and only
\* then unless it is stranded.
InPlace == /\ Wanting # {} => live # Absent
           /\ live # Absent => Wanting # {} \/ Stranded

ResyncRepairs == pass = "complete" /\ Calm => InPlace

\* Once users leave the primaries alone, the output is there for good if one
\* of them wants it, and gone for good if none does.
EventuallyInPlace == <>[]InPlace
=============================================================================
