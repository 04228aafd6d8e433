---------------------- MODULE AnnotationOwnership_proofs ----------------------
(***************************************************************************)
(* However many primaries share the output and however many calls fail: as *)
(* long as the two goroutines keep out of each other's way, the list of    *)
(* contributors is right, the output is deleted by the last one only, and  *)
(* it is never forgotten; where they do not, a full reconcile that nobody  *)
(* disturbs makes up for it.                                               *)
(***************************************************************************)
EXTENDS AnnotationOwnership, TLAPS

\* Where a goroutine has no primary in work.
Resting == {"idle", "run", "list", "collect", "end"}
Running == {"start", "get", "apply", "swap"}

\* What the local variables of a goroutine are at each of its steps.
Shape(r) ==
    /\ IF r.pc \in Resting THEN r.cur = None ELSE r.cur \in Primaries
    /\ r.pc \in Resting \cup Running => ~r.cleanup
    /\ r.pc \in Resting \cup Running \cup {"release"} => r.tries = 0
    /\ r.pc \in {"get", "apply"} => r.on
    /\ r.pc = "apply" => r.read \in {Absent, Failed} \cup SUBSET Primaries
    /\ r.pc = "patch" => r.read \in SUBSET Primaries /\ r.tries < MaxRetries
    /\ r.pc \in {"finalize", "forget"} => r.cleanup

ShapeInv == \A w \in Procs : Shape(proc[w])

\* As long as nothing is mixed, one goroutine at most is at the output; what
\* it has read is what the output says, and who contributes is on the list.
AtList(r) == r.pc \in {"apply", "patch", "reread", "delete", "collect"}

Fresh(r, out, by) == /\ r.pc \in {"apply", "patch"} => r.read = out
                     /\ r.pc \in {"patch", "reread"} => r.cur \notin by
                     /\ r.pc = "delete" => by = {}

Listed(out, by) == by # {} => out # Absent /\ by \subseteq out

Orderly == ~mixed => /\ \A v, w \in Procs : v # w /\ AtList(proc[v]) => ~AtList(proc[w])
                     /\ Listed(live, contributing)
                     /\ \A w \in Procs : Fresh(proc[w], live, contributing)

\* As long as nothing is excused, a cleanup has its primary to itself, and
\* the output stays on its record until it has been released.
CleansUp(r, record) ==
    r.cleanup /\ r.pc \in {"release", "patch", "reread", "delete"} => r.cur \in record

Tended == ~excused => /\ \A v, w \in Procs : v # w /\ proc[v].cur = proc[w].cur => ~proc[w].cleanup
                      /\ \A w \in Procs : CleansUp(proc[w], last)

\* The goroutine is going to put the output on record for p, or to release it.
Holds(r, p) == r.cur = p /\ \/ r.pc = "swap" /\ r.on
                            \/ r.pc \in {"release", "patch", "reread", "delete"}

\* A cleanup that has released the output has left the list.
Left(r, out) == r.pc \in {"finalize", "forget"} => r.cur \notin out

\* Whoever is on the list has the output on record or a goroutine that minds
\* it; an output without contributors is about to be deleted.
Minded == ~mixed /\ ~excused /\ live # Absent =>
    /\ \A p \in live : p \in last \/ \E w \in Procs : Holds(proc[w], p)
    /\ live = {} => \E w \in Procs : proc[w].pc = "delete"
    /\ \A w \in Procs : Left(proc[w], live)

IInv == TypeOK /\ ShapeInv /\ Orderly /\ Tended /\ Minded

-----------------------------------------------------------------------------
(* What every step of a goroutine has to show *)

Typed == /\ prim' \in [Primaries -> {Absent} \cup [on : BOOLEAN, deleting : BOOLEAN]]
         /\ live' \in {Absent} \cup SUBSET Primaries
         /\ pending' \in SUBSET Primaries /\ last' \in SUBSET Primaries
         /\ changes' \in 0..MaxChanges /\ failures' \in 0..MaxFailures
         /\ contributing' \in SUBSET Primaries /\ mixed' \in BOOLEAN /\ excused' \in BOOLEAN
         /\ pass' \in {"disturbed", "undisturbed", "complete"}

\* Goroutine w takes the record r.
LEMMA StepInv ==
    ASSUME IInv, NEW w \in Procs, NEW r \in ProcRecord, proc' = [proc EXCEPT ![w] = r],
           Shape(r), Typed,
           mixed => mixed', excused => excused',
           ~mixed' => /\ AtList(r) => \A v \in Procs \ {w} : ~AtList(proc[v])
                      /\ Listed(live', contributing')
                      /\ Fresh(r, live', contributing')
                      /\ \A v \in Procs \ {w} : Fresh(proc[v], live', contributing'),
           ~excused' => /\ \A v \in Procs \ {w} : proc[v].cur = r.cur => ~proc[v].cleanup /\ ~r.cleanup
                        /\ CleansUp(r, last')
                        /\ \A v \in Procs \ {w} : CleansUp(proc[v], last'),
           ~mixed' /\ ~excused' /\ live' # Absent =>
              /\ \A p \in live' : p \in last' \/ Holds(r, p) \/ \E v \in Procs \ {w} : Holds(proc[v], p)
              /\ live' = {} => r.pc = "delete" \/ \E v \in Procs \ {w} : proc[v].pc = "delete"
              /\ Left(r, live')
              /\ \A v \in Procs \ {w} : Left(proc[v], live')
    PROVE  IInv'
<1>1. /\ proc' \in [Procs -> ProcRecord]
      /\ proc'[w] = r
      /\ \A v \in Procs \ {w} : proc'[v] = proc[v]
    BY DEF IInv, TypeOK
<1>2. TypeOK'
    BY <1>1 DEF Typed, IInv, TypeOK, Shape, Resting
<1>3. ShapeInv'
    BY <1>1 DEF IInv, ShapeInv
<1>4. Orderly'
    BY <1>1 DEF IInv, Orderly
<1>5. Tended'
    BY <1>1 DEF IInv, Tended
<1>6. Minded'
    BY <1>1 DEF Minded
<1> QED
    BY <1>2, <1>3, <1>4, <1>5, <1>6 DEF IInv

\* The same when output, record and contributors stay, for a goroutine that
\* goes on to mind what it has minded.
LEMMA QuietStepInv ==
    ASSUME IInv, NEW w \in Procs, NEW r \in ProcRecord, proc' = [proc EXCEPT ![w] = r],
           Shape(r), Typed, UNCHANGED <<live, last, contributing>>,
           mixed => mixed', excused => excused',
           ~mixed' => /\ AtList(r) => AtList(proc[w]) \/ \A v \in Procs \ {w} : ~AtList(proc[v])
                      /\ Fresh(r, live, contributing),
           ~excused' => /\ r.cur \in {proc[w].cur, None} /\ (r.cleanup => proc[w].cleanup)
                        /\ CleansUp(r, last),
           ~mixed' /\ ~excused' /\ live # Absent =>
              /\ \A p \in live : Holds(proc[w], p) => p \in last \/ Holds(r, p)
              /\ live = {} /\ proc[w].pc = "delete" => r.pc = "delete"
              /\ Left(r, live)
    PROVE  IInv'
<1>1. ~mixed' => /\ AtList(r) => \A v \in Procs \ {w} : ~AtList(proc[v])
                 /\ Listed(live', contributing')
                 /\ Fresh(r, live', contributing')
                 /\ \A v \in Procs \ {w} : Fresh(proc[v], live', contributing')
    BY DEF IInv, Orderly
<1>2. \A v \in Procs : proc[v].cur = None => ~proc[v].cleanup
    BY ValuesAssumption DEF IInv, ShapeInv, Shape
<1>3. r.cur = None => ~r.cleanup
    BY ValuesAssumption DEF Shape
<1>4. ~excused' => /\ \A v \in Procs \ {w} : proc[v].cur = r.cur => ~proc[v].cleanup /\ ~r.cleanup
                   /\ CleansUp(r, last')
                   /\ \A v \in Procs \ {w} : CleansUp(proc[v], last')
    BY <1>2, <1>3 DEF IInv, Tended
<1>5. ~mixed' /\ ~excused' /\ live' # Absent =>
         /\ \A p \in live' : p \in last' \/ Holds(r, p) \/ \E v \in Procs \ {w} : Holds(proc[v], p)
         /\ live' = {} => r.pc = "delete" \/ \E v \in Procs \ {w} : proc[v].pc = "delete"
         /\ Left(r, live')
         /\ \A v \in Procs \ {w} : Left(proc[v], live')
    BY DEF IInv, Minded
<1> QED
    BY <1>1, <1>4, <1>5, StepInv

-----------------------------------------------------------------------------
(* The records that goroutines take *)

LEMMA IdleType ==
    /\ Idle \in ProcRecord /\ Idle.pc = "idle" /\ Idle.cur = None /\ ~Idle.cleanup
    /\ Shape(Idle)
    BY BoundsAssumption DEF Idle, ProcRecord, Shape, Resting, Running

LEMMA ListingType ==
    /\ Listing \in ProcRecord /\ Listing.pc = "run" /\ Listing.cur = None /\ ~Listing.cleanup
    /\ Shape(Listing)
<1>1. Listing \in ProcRecord
    BY IdleType DEF Listing, ProcRecord
<1>2. Listing.pc = "run" /\ Listing.cur = None /\ Listing.cleanup = FALSE /\ Listing.tries = 0
    BY DEF Listing, Idle
<1> QED
    BY <1>1, <1>2 DEF Shape, Resting, Running

LEMMA OnwardType ==
    ASSUME TypeOK, NEW w \in Procs
    PROVE  /\ Onward(w) \in ProcRecord /\ Onward(w).pc = "run" /\ Onward(w).cur = None
           /\ ~Onward(w).cleanup /\ Shape(Onward(w))
<1>1. proc[w] \in ProcRecord
    BY DEF TypeOK
<1>2. Onward(w) \in ProcRecord
    BY <1>1, IdleType DEF Onward, ProcRecord
<1>3. Onward(w).pc = "run" /\ Onward(w).cur = None /\ Onward(w).cleanup = FALSE /\ Onward(w).tries = 0
    BY DEF Onward, Idle
<1> QED
    BY <1>2, <1>3 DEF Shape, Resting, Running

\* A goroutine takes a record without a primary; it minds no output, or the
\* record of its primary does.
LEMMA RestInv ==
    ASSUME IInv, NEW w \in Procs, NEW r \in ProcRecord, proc' = [proc EXCEPT ![w] = r],
           Shape(r), r.pc \in {"idle", "run", "list", "end"}, Typed,
           UNCHANGED <<live, last, contributing>>,
           mixed => mixed', excused => excused',
           \/ \A p \in Primaries : ~Holds(proc[w], p)
           \/ live = Absent
           \/ ~excused' => proc[w].cur \in last /\ proc[w].pc # "delete"
    PROVE  IInv'
<1>1. r.cur = None /\ ~r.cleanup
    BY DEF Shape, Resting
<1>2. Fresh(r, live, contributing) /\ CleansUp(r, last) /\ Left(r, live) /\ ~AtList(r)
    BY <1>1 DEF Fresh, CleansUp, Left, AtList
<1>3. \A p \in Primaries : Holds(proc[w], p) => p = proc[w].cur
    BY DEF Holds
<1>4. live # Absent => live \in SUBSET Primaries
    BY DEF IInv, TypeOK
<1>5. proc[w].pc = "delete" => \E p \in Primaries : Holds(proc[w], p)
    BY DEF IInv, ShapeInv, Shape, Resting, Holds
<1>6. ~mixed' /\ ~excused' /\ live # Absent =>
        /\ \A p \in live : Holds(proc[w], p) => p \in last \/ Holds(r, p)
        /\ live = {} /\ proc[w].pc = "delete" => r.pc = "delete"
        /\ Left(r, live)
    BY <1>2, <1>3, <1>4, <1>5
<1> QED
    BY <1>1, <1>2, <1>6, QuietStepInv

-----------------------------------------------------------------------------
(* The initial states, users and failures *)

LEMMA InitInv == Init => IInv
<1> SUFFICES ASSUME Init
             PROVE  IInv
    OBVIOUS
<1>1. /\ proc \in [Procs -> ProcRecord]
      /\ \A w \in Procs : /\ proc[w].pc \in {"idle", "run"} /\ proc[w].cur = None
                          /\ ~proc[w].cleanup /\ Shape(proc[w])
    BY IdleType, ListingType DEF Init
<1>2. TypeOK
    <2>1. [on : BOOLEAN, deleting : {FALSE}] \subseteq [on : BOOLEAN, deleting : BOOLEAN]
        OBVIOUS
    <2>2. prim \in [Primaries -> {Absent} \cup [on : BOOLEAN, deleting : BOOLEAN]]
        BY <2>1 DEF Init
    <2>3. \A w \in Procs : proc[w].cur = None /\ proc[w].tries = 0
        BY <1>1 DEF Shape, Resting
    <2>4. /\ live = Absent /\ pending \in SUBSET Primaries /\ last = {}
          /\ changes = 0 /\ failures = 0
          /\ contributing = {} /\ mixed = FALSE /\ excused = FALSE /\ pass = "disturbed"
        BY DEF Init
    <2>5. changes \in 0..MaxChanges /\ failures \in 0..MaxFailures
        BY <2>4, BoundsAssumption
    <2>6. mixed \in BOOLEAN /\ excused \in BOOLEAN
        BY <2>4
    <2>7. live \in {Absent} \cup SUBSET Primaries /\ last \in SUBSET Primaries
          /\ contributing \in SUBSET Primaries /\ pass \in {"disturbed", "undisturbed", "complete"}
        BY <2>4
    <2> QED
        BY <1>1, <2>2, <2>3, <2>4, <2>5, <2>6, <2>7 DEF TypeOK
<1>3. Orderly
    BY <1>1 DEF Init, Orderly, AtList, Listed, Fresh
<1>4. ShapeInv /\ Tended /\ Minded
    BY <1>1 DEF Init, ShapeInv, Tended, CleansUp, Minded
<1> QED
    BY <1>2, <1>3, <1>4 DEF IInv

LEMMA UsersInv == IInv /\ Users => IInv'
<1> SUFFICES ASSUME IInv, Users
             PROVE  IInv'
    OBVIOUS
<1>1. PICK p \in Primaries, obj \in [on : BOOLEAN, deleting : BOOLEAN] : Change(p, obj)
    <2>1. PICK p \in Primaries : Create(p) \/ Switch(p) \/ Delete(p)
        BY DEF Users
    <2>2. CASE Create(p)
        BY <2>2 DEF Create
    <2>3. CASE Switch(p)
        <3>1. prim[p] \in [on : BOOLEAN, deleting : BOOLEAN]
            BY <2>3 DEF Switch, Exists, IInv, TypeOK
        <3> DEFINE obj == [prim[p] EXCEPT !.on = ~@]
        <3>2. obj \in [on : BOOLEAN, deleting : BOOLEAN]
            BY <3>1, ZenonT(30)
        <3> QED
            BY <2>3, <3>2 DEF Switch
    <2>4. CASE Delete(p)
        <3>1. prim[p] \in [on : BOOLEAN, deleting : BOOLEAN]
            BY <2>4 DEF Delete, Exists, IInv, TypeOK
        <3> DEFINE obj == [prim[p] EXCEPT !.deleting = TRUE]
        <3>2. obj \in [on : BOOLEAN, deleting : BOOLEAN]
            BY <3>1
        <3> QED
            BY <2>4, <3>2 DEF Delete
    <2> QED
        BY <2>1, <2>2, <2>3, <2>4
<1>2. UNCHANGED <<live, last, proc, contributing, mixed, excused>>
    BY <1>1 DEF Change, history
<1>3. TypeOK'
    BY <1>1, BoundsAssumption DEF Change, history, IInv, TypeOK
<1>4. ShapeInv' /\ Orderly' /\ Tended' /\ Minded'
    BY <1>2 DEF IInv, ShapeInv, Orderly, Tended, Minded
<1> QED
    BY <1>3, <1>4 DEF IInv

-----------------------------------------------------------------------------
(* The goroutines take up work, and the resync collects orphans *)

LEMMA TakingUpInv ==
    ASSUME IInv, (\E p \in Primaries : TakePrimary(p)) \/ StartResync \/ Finish
    PROVE  IInv'
<1>1. CASE \E p \in Primaries : TakePrimary(p)
    <2>1. PICK p \in Primaries : TakePrimary(p)
        BY <1>1
    <2> DEFINE r == [Idle EXCEPT !.pc = "run", !.todo = {p},
                                 !.doomed = IF Exists(p) /\ prim[p].deleting THEN {p} ELSE {}]
    <2>2. r \in ProcRecord
        BY IdleType DEF ProcRecord
    <2>3. r.pc = "run" /\ r.cur = None /\ r.cleanup = FALSE /\ r.tries = 0
        BY DEF Idle
    <2>4. "watch" \in Procs /\ proc["watch"].pc = "idle" /\ proc' = [proc EXCEPT !["watch"] = r]
        BY <2>1 DEF TakePrimary, Procs
    <2>5. Typed /\ UNCHANGED <<live, last, contributing, mixed, excused>>
        BY <2>1 DEF TakePrimary, Typed, bounds, history, IInv, TypeOK
    <2> HIDE DEF r
    <2> QED
        BY <2>2, <2>3, <2>4, <2>5, RestInv DEF Shape, Resting, Running, Holds
<1>2. CASE StartResync
    <2>1. "resync" \in Procs /\ proc["resync"].pc = "idle" /\ proc' = [proc EXCEPT !["resync"] = Listing]
        BY <1>2 DEF StartResync, Procs
    <2>2. Typed /\ UNCHANGED <<live, last, contributing, mixed, excused>>
        BY <1>2 DEF StartResync, Typed, bounds, history, IInv, TypeOK
    <2> QED
        BY <2>1, <2>2, ListingType, RestInv DEF Holds
<1>3. CASE Finish
    <2>1. "watch" \in Procs /\ proc["watch"].pc = "run" /\ proc' = [proc EXCEPT !["watch"] = Idle]
        BY <1>3 DEF Finish, Procs
    <2>2. Typed /\ UNCHANGED <<live, last, contributing, mixed, excused>>
        BY <1>3 DEF Finish, Typed, bounds, history, IInv, TypeOK
    <2> QED
        BY <2>1, <2>2, IdleType, RestInv DEF Holds
<1> QED
    BY <1>1, <1>2, <1>3

LEMMA OrphansInv ==
    ASSUME IInv, SnapshotWanted \/ ListManaged \/ CollectFails \/ CollectOrphan \/ EndResync
    PROVE  IInv'
<1> DEFINE w == "resync"
<1>1. w \in Procs /\ proc[w] \in ProcRecord /\ Shape(proc[w])
    BY DEF Procs, IInv, TypeOK, ShapeInv
<1>2. CASE SnapshotWanted
    <2> DEFINE r == [proc[w] EXCEPT !.pc = "list", !.on = (last # {})]
    <2>1. r \in ProcRecord
        BY <1>1 DEF ProcRecord
    <2>2. proc[w].pc = "run" /\ proc' = [proc EXCEPT ![w] = r]
        BY <1>2 DEF SnapshotWanted
    <2>3. r.pc = "list" /\ r.cur = proc[w].cur /\ r.cleanup = proc[w].cleanup /\ r.tries = proc[w].tries
        BY <1>1 DEF ProcRecord
    <2>4. Typed /\ UNCHANGED <<live, last, contributing, mixed, excused>>
        BY <1>2 DEF SnapshotWanted, Typed, bounds, history, IInv, TypeOK
    <2> HIDE DEF r
    <2> QED
        BY <1>1, <2>1, <2>2, <2>3, <2>4, RestInv DEF Shape, Resting, Running, Holds
<1>3. ASSUME NEW at \in {"collect", "end"}, proc[w].pc \in {"list", "collect"},
             proc' = [proc EXCEPT ![w].pc = at], Typed, UNCHANGED <<live, last, contributing, excused>>,
             mixed => mixed', at = "collect" => mixed' = Meeting(w)
      PROVE  IInv'
    <2> DEFINE r == [proc[w] EXCEPT !.pc = at]
    <2>1. r \in ProcRecord
        BY <1>1 DEF ProcRecord
    <2>2. proc' = [proc EXCEPT ![w] = r]
        BY <1>3
    <2>3. r.pc = at /\ r.cur = None /\ ~r.cleanup /\ r.tries = 0
        BY <1>1, <1>3 DEF ProcRecord, Shape, Resting
    <2>4. ~mixed' /\ at = "collect" => \A v \in Procs \ {w} : ~AtList(proc[v])
        BY <1>3 DEF Meeting, AtOutput, AtList
    <2> HIDE DEF r
    <2>5. /\ Shape(r) /\ Fresh(r, live, contributing) /\ CleansUp(r, last) /\ Left(r, live)
          /\ AtList(r) => at = "collect"
          /\ \A p \in Primaries : ~Holds(proc[w], p)
        BY <1>3, <2>3 DEF Shape, Resting, Running, Fresh, CleansUp, Left, AtList, Holds
    <2>6. live # Absent => live \in SUBSET Primaries
        BY DEF IInv, TypeOK
    <2> QED
        BY <1>1, <1>3, <2>1, <2>2, <2>3, <2>4, <2>5, <2>6, QuietStepInv
<1>4. CASE ListManaged
    <2>1. Typed /\ (mixed => mixed')
        BY <1>4 DEF ListManaged, Meeting, Typed, bounds, IInv, TypeOK
    <2> QED
        BY <1>3, <1>4, <2>1 DEF ListManaged
<1>5. CASE CollectFails
    <2>1. Typed /\ UNCHANGED <<live, last, contributing, mixed, excused>>
        BY <1>5, BoundsAssumption DEF CollectFails, Typed, history, IInv, TypeOK
    <2> QED
        BY <1>3, <1>5, <2>1 DEF CollectFails
<1>6. CASE EndResync
    <2>1. proc[w].pc = "end" /\ proc' = [proc EXCEPT ![w] = Idle]
        BY <1>6 DEF EndResync
    <2>2. Typed /\ UNCHANGED <<live, last, contributing, mixed, excused>>
        BY <1>6 DEF EndResync, Typed, bounds, history, IInv, TypeOK
    <2> QED
        BY <1>1, <2>1, <2>2, IdleType, RestInv DEF Holds
<1>7. CASE CollectOrphan
    <2> DEFINE r == [proc[w] EXCEPT !.pc = "end"]
    <2>1. r \in ProcRecord
        BY <1>1 DEF ProcRecord
    <2>2. proc[w].pc = "collect" /\ proc' = [proc EXCEPT ![w] = r]
        BY <1>7 DEF CollectOrphan
    <2>3. r.pc = "end" /\ r.cur = None /\ ~r.cleanup /\ r.tries = 0
        BY <1>1, <2>2 DEF ProcRecord, Shape, Resting
    <2>4. Typed /\ UNCHANGED <<last, mixed, excused>> /\ live' = Absent /\ contributing' = {}
        BY <1>7 DEF CollectOrphan, Typed, bounds, IInv, TypeOK
    <2> HIDE DEF r
    <2>5. Shape(r) /\ ~AtList(r) /\ Fresh(r, live', contributing') /\ CleansUp(r, last')
        BY <2>3 DEF Shape, Resting, Running, AtList, Fresh, CleansUp
    <2>6. ~mixed' => \A v \in Procs \ {w} : ~AtList(proc[v])
        BY <1>1, <2>2, <2>4 DEF IInv, Orderly, AtList
    <2>7. ~mixed' => Listed(live', contributing') /\ \A v \in Procs \ {w} : Fresh(proc[v], live', contributing')
        BY <2>4, <2>6 DEF Listed, Fresh, AtList
    <2>8. \A v \in Procs \ {w} : proc[v].cur = r.cur => ~proc[v].cleanup
        BY <2>3, ValuesAssumption DEF IInv, ShapeInv, Shape
    <2>9. ~excused' => \A v \in Procs \ {w} : CleansUp(proc[v], last')
        BY <2>4 DEF IInv, Tended
    <2> QED
        BY <1>1, <2>1, <2>2, <2>3, <2>4, <2>5, <2>6, <2>7, <2>8, <2>9, StepInv
<1> QED
    BY <1>2, <1>4, <1>5, <1>6, <1>7

-----------------------------------------------------------------------------
(* A run up to its apply *)

LEMMA Here ==
    ASSUME IInv, NEW w \in Procs
    PROVE  /\ proc[w] \in ProcRecord /\ Shape(proc[w])
           /\ live # Absent => live \in SUBSET Primaries
    BY DEF IInv, TypeOK, ShapeInv

LEMMA BeginInv ==
    ASSUME IInv, NEW w \in Procs, NEW p \in Primaries, Begin(w, p)
    PROVE  IInv'
<1>1. proc[w] \in ProcRecord /\ Shape(proc[w]) /\ proc[w].pc = "run"
    BY Here DEF Begin
<1>2. Typed /\ UNCHANGED <<live, last, contributing, mixed>>
    BY DEF Begin, Typed, bounds, IInv, TypeOK
<1>3. /\ excused => excused'
      /\ ~excused' => \A v \in Procs \ {w} : proc[v].cur = p => ~proc[v].cleanup
    BY DEF Begin
<1>4. \A q \in Primaries : ~Holds(proc[w], q)
    BY <1>1 DEF Holds
<1>5. CASE Exists(p) /\ ~prim[p].deleting
    <2> DEFINE r == [proc[w] EXCEPT !.todo = @ \ {p}, !.pc = "start", !.cur = p]
    <2>1. r \in ProcRecord
        BY <1>1 DEF ProcRecord
    <2>2. proc' = [proc EXCEPT ![w] = r]
        BY <1>5 DEF Begin
    <2>3. r.pc = "start" /\ r.cur = p /\ r.cleanup = proc[w].cleanup /\ r.tries = proc[w].tries
        BY <1>1 DEF ProcRecord
    <2>4. ~proc[w].cleanup /\ proc[w].tries = 0
        BY <1>1 DEF Shape, Resting
    <2> HIDE DEF r
    <2>5. /\ Shape(r) /\ ~AtList(r) /\ Fresh(r, live, contributing) /\ CleansUp(r, last)
          /\ Left(r, live)
        BY <2>3, <2>4 DEF Shape, Resting, Running, AtList, Fresh, CleansUp, Left
    <2>6. ~mixed' => /\ Listed(live', contributing')
                     /\ \A v \in Procs \ {w} : Fresh(proc[v], live', contributing')
        BY <1>2 DEF IInv, Orderly
    <2>7. ~excused' => \A v \in Procs \ {w} : CleansUp(proc[v], last')
        BY <1>2, <1>3 DEF IInv, Tended
    <2>8. ~mixed' /\ ~excused' /\ live' # Absent =>
             /\ \A q \in live' : q \in last' \/ \E v \in Procs \ {w} : Holds(proc[v], q)
             /\ live' = {} => \E v \in Procs \ {w} : proc[v].pc = "delete"
             /\ \A v \in Procs \ {w} : Left(proc[v], live')
        BY <1>1, <1>2, <1>3, <1>4, Here DEF IInv, Minded
    <2> QED
        BY <1>2, <1>3, <2>1, <2>2, <2>3, <2>4, <2>5, <2>6, <2>7, <2>8, StepInv
<1>6. CASE ~(Exists(p) /\ ~prim[p].deleting)
    <2> DEFINE r == [proc[w] EXCEPT !.todo = @ \ {p}]
    <2>1. r \in ProcRecord
        BY <1>1 DEF ProcRecord
    <2>2. proc' = [proc EXCEPT ![w] = r]
        BY <1>6 DEF Begin
    <2>3. /\ r.pc = "run" /\ r.cur = proc[w].cur /\ r.cleanup = proc[w].cleanup
          /\ r.tries = proc[w].tries
        BY <1>1 DEF ProcRecord
    <2> HIDE DEF r
    <2>4. Shape(r)
        BY <1>1, <2>3 DEF Shape, Resting, Running
    <2> QED
        BY <1>2, <1>3, <1>4, <2>1, <2>2, <2>3, <2>4, RestInv
<1> QED
    BY <1>5, <1>6

\* A goroutine goes on to a step of the same run at which it minds nothing,
\* or the output if the function wants it.
LEMMA RunningInv ==
    ASSUME IInv, NEW w \in Procs, NEW r \in ProcRecord, proc' = [proc EXCEPT ![w] = r],
           Typed, UNCHANGED <<live, last, contributing>>,
           mixed => mixed', excused => excused',
           proc[w].pc \in {"start", "get", "apply"}, r.pc \in {"get", "apply", "swap"},
           r.cur = proc[w].cur, r.cleanup = proc[w].cleanup, r.tries = proc[w].tries,
           r.pc \in {"get", "apply"} => r.on,
           r.pc = "apply" => r.read \in {Absent, Failed} \cup SUBSET Primaries,
           ~mixed' /\ r.pc = "apply" => r.read = live /\ \A v \in Procs \ {w} : ~AtList(proc[v])
    PROVE  IInv'
<1>1. Shape(r)
    BY Here DEF Shape, Resting, Running
<1>2. /\ ~mixed' => Fresh(r, live, contributing)
      /\ CleansUp(r, last) /\ Left(r, live) /\ (AtList(r) => r.pc = "apply")
    BY DEF Fresh, CleansUp, Left, AtList
<1>3. \A p \in Primaries : ~Holds(proc[w], p)
    BY DEF Holds
<1> QED
    BY <1>1, <1>2, <1>3, Here, QuietStepInv

LEMMA RunInv ==
    ASSUME IInv, NEW w \in Procs,
           ReadPrimary(w) \/ GetLive(w) \/ GetLiveFails(w) \/ ApplyFails(w)
    PROVE  IInv'
<1>1. proc[w] \in ProcRecord /\ Shape(proc[w])
    BY Here
<1>2. CASE ReadPrimary(w)
    <2>1. Typed /\ UNCHANGED <<live, last, contributing, mixed, excused>> /\ proc[w].pc = "start"
        BY <1>2 DEF ReadPrimary, Typed, bounds, history, IInv, TypeOK
    <2>2. CASE ~Exists(proc[w].cur)
        <3>1. proc' = [proc EXCEPT ![w] = Onward(w)]
            BY <1>2, <2>2 DEF ReadPrimary
        <3> QED
            BY <2>1, <3>1, OnwardType, RestInv DEF IInv, Holds
    <2>3. CASE Exists(proc[w].cur)
        <3> DEFINE o == prim[proc[w].cur].on
                   r == [proc[w] EXCEPT !.on = o, !.pc = IF o THEN "get" ELSE "swap"]
        <3>1. proc[w].cur \in Primaries
            BY <1>1, <2>1 DEF Shape, Resting
        <3>2. o \in BOOLEAN
            BY <2>3, <3>1 DEF Exists, IInv, TypeOK
        <3>3. proc' = [proc EXCEPT ![w] = r]
            BY <1>2, <2>3 DEF ReadPrimary
        <3> HIDE DEF o
        <3>4. r \in ProcRecord
            BY <1>1, <3>2 DEF ProcRecord
        <3>5. /\ r.pc = IF o THEN "get" ELSE "swap"
              /\ r.on = o /\ r.cur = proc[w].cur /\ r.cleanup = proc[w].cleanup /\ r.tries = proc[w].tries
            BY <1>1 DEF ProcRecord
        <3> HIDE DEF r
        <3> QED
            BY <2>1, <3>2, <3>3, <3>4, <3>5, RunningInv
    <2> QED
        BY <2>2, <2>3
<1>3. ASSUME NEW v \in {live, Failed}, proc[w].pc = "get", Typed,
             proc' = [proc EXCEPT ![w].pc = "apply", ![w].read = v],
             UNCHANGED <<live, last, contributing, excused>>, mixed => mixed',
             v # live => mixed', mixed' = TRUE \/ mixed' = Meeting(w)
      PROVE  IInv'
    <2> DEFINE r == [proc[w] EXCEPT !.pc = "apply", !.read = v]
    <2>1. v \in {Absent, Failed} \cup SUBSET Primaries
        BY Here
    <2>2. proc' = [proc EXCEPT ![w] = r]
        BY <1>3
    <2>3. r \in ProcRecord
        BY <1>1, <2>1 DEF ProcRecord
    <2>4. /\ r.pc = "apply" /\ r.read = v /\ r.on = proc[w].on
          /\ r.cur = proc[w].cur /\ r.cleanup = proc[w].cleanup /\ r.tries = proc[w].tries
        BY <1>1 DEF ProcRecord
    <2>5. ~mixed' => \A u \in Procs \ {w} : ~AtList(proc[u])
        BY <1>3 DEF Meeting, AtOutput, AtList
    <2>6. r.on
        BY <1>1, <1>3, <2>4 DEF Shape
    <2> HIDE DEF r
    <2> QED
        BY <1>3, <2>1, <2>2, <2>3, <2>4, <2>5, <2>6, RunningInv
<1>4. CASE GetLive(w)
    <2>1. Typed /\ (mixed => mixed') /\ mixed' = Meeting(w)
        BY <1>4 DEF GetLive, Meeting, Typed, bounds, IInv, TypeOK
    <2> QED
        BY <1>3, <1>4, <2>1 DEF GetLive
<1>5. CASE GetLiveFails(w)
    <2>1. Typed
        BY <1>5, BoundsAssumption DEF GetLiveFails, Typed, IInv, TypeOK
    <2> QED
        BY <1>3, <1>5, <2>1 DEF GetLiveFails
<1>6. CASE ApplyFails(w)
    <2> DEFINE r == [proc[w] EXCEPT !.pc = "swap", !.read = None]
    <2>1. r \in ProcRecord
        BY <1>1 DEF ProcRecord
    <2>2. proc[w].pc = "apply" /\ proc' = [proc EXCEPT ![w] = r]
        BY <1>6 DEF ApplyFails
    <2>3. r.pc = "swap" /\ r.cur = proc[w].cur /\ r.cleanup = proc[w].cleanup /\ r.tries = proc[w].tries
        BY <1>1 DEF ProcRecord
    <2>4. Typed /\ UNCHANGED <<live, last, contributing, mixed, excused>>
        BY <1>6, BoundsAssumption DEF ApplyFails, Typed, history, IInv, TypeOK
    <2> HIDE DEF r
    <2> QED
        BY <2>1, <2>2, <2>3, <2>4, RunningInv
<1> QED
    BY <1>2, <1>4, <1>5, <1>6

\* The apply adds the primary to the list that it has read.
LEMMA ApplyInv ==
    ASSUME IInv, NEW w \in Procs, Apply(w)
    PROVE  IInv'
<1> DEFINE p == proc[w].cur
           r == [proc[w] EXCEPT !.pc = "swap", !.read = None]
<1>1. /\ proc[w] \in ProcRecord /\ Shape(proc[w]) /\ proc[w].pc = "apply"
      /\ proc' = [proc EXCEPT ![w] = r]
    BY Here DEF Apply
<1>2. r \in ProcRecord
    BY <1>1 DEF ProcRecord
<1>3. /\ r.pc = "swap" /\ r.cur = p /\ r.on = proc[w].on
      /\ r.cleanup = proc[w].cleanup /\ r.tries = proc[w].tries
    BY <1>1 DEF ProcRecord
<1>4. p \in Primaries /\ proc[w].on /\ ~proc[w].cleanup /\ proc[w].tries = 0
    BY <1>1 DEF Shape, Resting, Running
<1>5. live' \in SUBSET Primaries
    <2>1. CASE proc[w].read = Failed
        BY <2>1, ValuesAssumption DEF Apply
    <2>2. CASE proc[w].read = Absent
        BY <1>4, <2>2, ValuesAssumption DEF Apply
    <2>3. CASE proc[w].read \notin {Absent, Failed}
        BY <1>1, <1>4, <2>3 DEF Apply, Shape
    <2> QED
        BY <2>1, <2>2, <2>3
<1>6. ~mixed => /\ live = Absent => live' = {p}
                /\ live # Absent => live' = live \cup {p}
    <2>1. ~mixed => proc[w].read = live
        BY <1>1 DEF IInv, Orderly, Fresh
    <2>2. live # Failed
        BY Here, ValuesAssumption
    <2> QED
        BY <2>1, <2>2 DEF Apply
<1>7. /\ UNCHANGED <<last, mixed, excused>>
      /\ contributing' = contributing \cup {p}
    BY DEF Apply
<1>8. Typed
    BY <1>4, <1>5 DEF Apply, Typed, bounds, IInv, TypeOK
<1> HIDE DEF r
<1>9. /\ Shape(r) /\ ~AtList(r) /\ Fresh(r, live', contributing') /\ CleansUp(r, last')
      /\ Left(r, live')
    BY <1>3, <1>4 DEF Shape, Resting, Running, AtList, Fresh, CleansUp, Left
<1>10. ASSUME ~mixed'
       PROVE  /\ Listed(live', contributing')
              /\ \A v \in Procs \ {w} : Fresh(proc[v], live', contributing')
    <2>1. Listed(live', contributing')
        BY <1>6, <1>7, <1>10, ValuesAssumption, <1>5 DEF IInv, Orderly, Listed
    <2>2. \A v \in Procs \ {w} : ~AtList(proc[v])
        BY <1>1, <1>7, <1>10 DEF IInv, Orderly, AtList
    <2> QED
        BY <2>1, <2>2 DEF Fresh, AtList
<1>11. ~excused' => /\ \A v \in Procs \ {w} : proc[v].cur = p => ~proc[v].cleanup
                    /\ \A v \in Procs \ {w} : CleansUp(proc[v], last')
    BY <1>7 DEF IInv, Tended
<1>12. ASSUME ~mixed', ~excused'
       PROVE  /\ \A q \in live' : q \in last' \/ Holds(r, q) \/ \E v \in Procs \ {w} : Holds(proc[v], q)
              /\ live' # {}
              /\ \A v \in Procs \ {w} : Left(proc[v], live')
    <2>1. Holds(r, p) /\ \A q \in Primaries : ~Holds(proc[w], q)
        BY <1>1, <1>3, <1>4 DEF Holds
    <2>2. ASSUME NEW q \in live'
          PROVE  q \in last' \/ Holds(r, q) \/ \E v \in Procs \ {w} : Holds(proc[v], q)
        BY <1>5, <1>6, <1>7, <1>12, <2>1 DEF IInv, Minded
    <2>3. ASSUME NEW v \in Procs \ {w}
          PROVE  Left(proc[v], live')
        <3>1. proc[v].pc \in {"finalize", "forget"} => proc[v].cur # p
            BY <1>11, <1>12 DEF IInv, ShapeInv, Shape
        <3> QED
            BY <1>6, <1>7, <1>12, <3>1 DEF IInv, Minded, Left
    <2> QED
        BY <1>6, <1>7, <1>12, <2>2, <2>3
<1> HIDE DEF p
<1> QED
    BY <1>1, <1>2, <1>3, <1>4, <1>7, <1>8, <1>9, <1>10, <1>11, <1>12, StepInv

\* The record is replaced; what is on it and not wanted is released.
LEMMA SwapInv ==
    ASSUME IInv, NEW w \in Procs, SwapLastOutputs(w)
    PROVE  IInv'
<1> DEFINE p == proc[w].cur
           r == IF p \in last /\ ~proc[w].on THEN [proc[w] EXCEPT !.pc = "release"] ELSE Onward(w)
<1>1. /\ proc[w] \in ProcRecord /\ Shape(proc[w]) /\ proc[w].pc = "swap"
      /\ proc' = [proc EXCEPT ![w] = r]
      /\ last' = IF proc[w].on THEN last \cup {p} ELSE last \ {p}
    BY Here DEF SwapLastOutputs
<1>2. p \in Primaries /\ ~proc[w].cleanup /\ proc[w].tries = 0
    BY <1>1 DEF Shape, Resting, Running
<1>3. Typed /\ UNCHANGED <<live, contributing, mixed, excused>>
    BY <1>1, <1>2 DEF SwapLastOutputs, Typed, bounds, history, IInv, TypeOK
<1>4. /\ r \in ProcRecord /\ Shape(r) /\ ~r.cleanup
      /\ r.pc = IF p \in last /\ ~proc[w].on THEN "release" ELSE "run"
      /\ r.cur = IF p \in last /\ ~proc[w].on THEN p ELSE None
    <2>1. CASE p \in last /\ ~proc[w].on
        <3>1. [proc[w] EXCEPT !.pc = "release"] \in ProcRecord
            BY <1>1 DEF ProcRecord
        <3>2. r.pc = "release" /\ r.cur = p /\ r.cleanup = proc[w].cleanup /\ r.tries = proc[w].tries
            BY <1>1, <2>1 DEF ProcRecord
        <3> QED
            BY <1>2, <2>1, <3>1, <3>2 DEF Shape, Resting, Running
    <2>2. CASE ~(p \in last /\ ~proc[w].on)
        BY <2>2, OnwardType DEF IInv
    <2> QED
        BY <2>1, <2>2
<1> HIDE DEF r
<1>5. /\ ~AtList(r) /\ Fresh(r, live', contributing') /\ CleansUp(r, last') /\ Left(r, live')
    BY <1>4 DEF AtList, Fresh, CleansUp, Left
<1>6. ~mixed' => /\ Listed(live', contributing')
                 /\ \A v \in Procs \ {w} : Fresh(proc[v], live', contributing')
    BY <1>3 DEF IInv, Orderly
<1>7. ASSUME ~excused', NEW v \in Procs \ {w}
      PROVE  /\ proc[v].cur = r.cur => ~proc[v].cleanup
             /\ CleansUp(proc[v], last')
    <2>1. CleansUp(proc[v], last) /\ (proc[v].cur = p => ~proc[v].cleanup)
        BY <1>3, <1>7 DEF IInv, Tended
    <2>2. proc[v].cur = None => ~proc[v].cleanup
        BY ValuesAssumption DEF IInv, ShapeInv, Shape
    <2> QED
        BY <1>1, <1>4, <2>1, <2>2 DEF CleansUp
<1>8. ASSUME ~mixed', ~excused', live' # Absent
      PROVE  /\ \A q \in live' : q \in last' \/ Holds(r, q) \/ \E v \in Procs \ {w} : Holds(proc[v], q)
             /\ live' = {} => \E v \in Procs \ {w} : proc[v].pc = "delete"
             /\ \A v \in Procs \ {w} : Left(proc[v], live')
    <2>1. ASSUME NEW q \in live
          PROVE  q \in last' \/ Holds(r, q) \/ \E v \in Procs \ {w} : Holds(proc[v], q)
        BY <1>1, <1>3, <1>4, <1>8, <2>1 DEF IInv, Minded, Holds
    <2> QED
        BY <1>1, <1>3, <1>8, <2>1 DEF IInv, Minded
<1> QED
    BY <1>1, <1>3, <1>4, <1>5, <1>6, <1>7, <1>8, StepInv

-----------------------------------------------------------------------------
(* The release of an output *)

LEMMA ThroughType ==
    ASSUME IInv, NEW w \in Procs, proc[w].pc \in {"release", "patch", "delete"}
    PROVE  /\ Through(w) \in ProcRecord /\ Shape(Through(w)) /\ ~AtList(Through(w))
           /\ \/ /\ Through(w).pc = "finalize" /\ Through(w).cur = proc[w].cur
                 /\ proc[w].cleanup
              \/ Through(w).pc = "run" /\ Through(w).cur = None /\ ~Through(w).cleanup
<1>1. proc[w] \in ProcRecord /\ Shape(proc[w])
    BY Here
<1>2. CASE proc[w].cleanup
    <2> DEFINE r == [proc[w] EXCEPT !.pc = "finalize", !.read = None]
    <2>1. r \in ProcRecord /\ Through(w) = r
        BY <1>1, <1>2 DEF ProcRecord, Through
    <2>2. r.pc = "finalize" /\ r.cur = proc[w].cur /\ r.cleanup = proc[w].cleanup
        BY <1>1 DEF ProcRecord
    <2> HIDE DEF r
    <2> QED
        BY <1>1, <1>2, <2>1, <2>2 DEF Shape, Resting, Running, AtList
<1>3. CASE ~proc[w].cleanup
    BY <1>3, OnwardType DEF IInv, Through, AtList
<1> QED
    BY <1>2, <1>3

\* A release that fails leaves the output on the record of the primary that
\* is being cleaned up; after a run, nobody remembers it.
LEMMA UnreleasedInv ==
    ASSUME IInv, NEW w \in Procs,
           ContributorsFail(w) \/ PatchGone(w) \/ RereadGivesUp(w)
    PROVE  IInv'
<1>1. proc' = [proc EXCEPT ![w] = Onward(w)] /\ excused' = (excused \/ ~proc[w].cleanup)
    BY DEF ContributorsFail, PatchGone, RereadGivesUp, Unreleased
<1>2. UNCHANGED <<live, last, contributing, mixed>> /\ proc[w].pc \in {"release", "patch", "reread"}
    BY DEF ContributorsFail, PatchGone, RereadGivesUp
<1>3. Typed
    <2>1. CASE ContributorsFail(w)
        BY <1>1, <2>1, BoundsAssumption DEF ContributorsFail, Typed, IInv, TypeOK
    <2>2. CASE PatchGone(w) \/ RereadGivesUp(w)
        BY <1>1, <2>2 DEF PatchGone, RereadGivesUp, Typed, bounds, IInv, TypeOK
    <2> QED
        BY <2>1, <2>2
<1>4. ~excused' => proc[w].cur \in last
    BY <1>1, <1>2 DEF IInv, Tended, CleansUp
<1> QED
    BY <1>1, <1>2, <1>3, <1>4, OnwardType, RestInv DEF IInv

\* The list is read: the primary stops contributing, and what is left to be
\* done depends on who else is on the list.
LEMMA ReadListInv ==
    ASSUME IInv, NEW w \in Procs, ReadContributors(w)
    PROVE  IInv'
<1> DEFINE p == proc[w].cur
           r == IF live = Absent THEN Through(w)
                ELSE IF live = {} THEN [proc[w] EXCEPT !.pc = "delete"]
                ELSE IF p \in live THEN [proc[w] EXCEPT !.pc = "patch", !.read = live]
                ELSE Through(w)
<1>1. /\ proc[w] \in ProcRecord /\ Shape(proc[w]) /\ proc[w].pc = "release"
      /\ live # Absent => live \in SUBSET Primaries
    BY Here DEF ReadContributors
<1>2. p \in Primaries /\ proc[w].tries = 0
    BY <1>1 DEF Shape, Resting, Running
<1>3. proc' = [proc EXCEPT ![w] = r]
    <2>1. CASE live = Absent
        BY <2>1, ValuesAssumption DEF ReadContributors
    <2>2. CASE live = {} /\ live # Absent
        BY <2>2 DEF ReadContributors
    <2>3. CASE live # {} /\ live # Absent
        BY <2>3 DEF ReadContributors
    <2> QED
        BY <2>1, <2>2, <2>3
<1>4. /\ UNCHANGED <<live, last, excused>> /\ contributing' = contributing \ {p}
      /\ mixed' = Meeting(w) /\ (mixed => mixed')
    BY DEF ReadContributors, Meeting
<1>5. Typed
    BY DEF ReadContributors, Meeting, Typed, bounds, IInv, TypeOK
<1>6. /\ r \in ProcRecord /\ Shape(r)
      /\ \/ live = {} /\ r.pc = "delete" /\ r.cur = p /\ r.cleanup = proc[w].cleanup
         \/ p \in live /\ r.pc = "patch" /\ r.read = live /\ r.cur = p /\ r.cleanup = proc[w].cleanup
         \/ /\ live = Absent \/ (live # {} /\ p \notin live)
            /\ r.pc = "finalize" /\ r.cur = p /\ proc[w].cleanup
         \/ /\ live = Absent \/ (live # {} /\ p \notin live)
            /\ r.pc = "run" /\ r.cur = None /\ ~r.cleanup
    <2>1. CASE live = Absent \/ (live # {} /\ p \notin live)
        BY <1>1, <2>1, ThroughType
    <2>2. CASE live # Absent /\ live = {}
        <3> DEFINE d == [proc[w] EXCEPT !.pc = "delete"]
        <3>1. d \in ProcRecord /\ r = d
            BY <1>1, <2>2 DEF ProcRecord
        <3>2. d.pc = "delete" /\ d.cur = p /\ d.cleanup = proc[w].cleanup
            BY <1>1 DEF ProcRecord
        <3> HIDE DEF d, r
        <3> QED
            BY <1>2, <2>2, <3>1, <3>2 DEF Shape, Resting, Running
    <2>3. CASE live # Absent /\ p \in live
        <3> DEFINE d == [proc[w] EXCEPT !.pc = "patch", !.read = live]
        <3>1. d \in ProcRecord /\ r = d
            BY <1>1, <2>3 DEF ProcRecord
        <3>2. d.pc = "patch" /\ d.read = live /\ d.cur = p /\ d.cleanup = proc[w].cleanup /\ d.tries = 0
            BY <1>1, <1>2 DEF ProcRecord
        <3> HIDE DEF d, r
        <3>3. 0 < MaxRetries
            BY BoundsAssumption
        <3> QED
            BY <1>1, <1>2, <2>3, <3>1, <3>2, <3>3 DEF Shape, Resting, Running
    <2> HIDE DEF r
    <2> QED
        BY <2>1, <2>2, <2>3
<1> HIDE DEF r, p
<1>7. ASSUME ~mixed'
      PROVE  /\ \A v \in Procs \ {w} : ~AtList(proc[v])
             /\ Listed(live', contributing')
             /\ Fresh(r, live', contributing')
             /\ \A v \in Procs \ {w} : Fresh(proc[v], live', contributing')
    <2>1. \A v \in Procs \ {w} : ~AtList(proc[v])
        BY <1>4, <1>7 DEF Meeting, AtOutput, AtList
    <2>2. Listed(live, contributing)
        BY <1>4, <1>7 DEF IInv, Orderly
    <2>3. Fresh(r, live', contributing')
        BY <1>4, <1>6, <2>2 DEF Fresh, Listed
    <2> QED
        BY <1>4, <2>1, <2>2, <2>3 DEF Listed, Fresh, AtList
<1>8. ASSUME ~excused'
      PROVE  /\ \A v \in Procs \ {w} : proc[v].cur = r.cur => ~proc[v].cleanup /\ ~r.cleanup
             /\ CleansUp(r, last')
             /\ \A v \in Procs \ {w} : CleansUp(proc[v], last')
    <2>1. \A v \in Procs \ {w} : proc[v].cur = p => ~proc[v].cleanup /\ ~proc[w].cleanup
        BY <1>4, <1>8 DEF IInv, Tended, p
    <2>2. \A v \in Procs : proc[v].cur = None => ~proc[v].cleanup
        BY ValuesAssumption DEF IInv, ShapeInv, Shape
    <2>3. \A v \in Procs : CleansUp(proc[v], last')
        BY <1>4, <1>8 DEF IInv, Tended
    <2>4. CleansUp(r, last')
        BY <1>1, <1>6, <2>3 DEF CleansUp, p
    <2> QED
        BY <1>6, <2>1, <2>2, <2>3, <2>4
<1>9. ASSUME ~mixed', ~excused', live' # Absent
      PROVE  /\ \A q \in live' : q \in last' \/ Holds(r, q) \/ \E v \in Procs \ {w} : Holds(proc[v], q)
             /\ live' = {} => r.pc = "delete"
             /\ Left(r, live')
             /\ \A v \in Procs \ {w} : Left(proc[v], live')
    <2>1. /\ \A q \in live : q \in last \/ \E v \in Procs : Holds(proc[v], q)
          /\ \A v \in Procs : Left(proc[v], live)
        BY <1>4, <1>9 DEF IInv, Minded
    <2>2. \A q \in live : Holds(proc[w], q) => Holds(r, q)
        BY <1>4, <1>6, <1>9 DEF Holds, p
    <2>3. live = {} => r.pc = "delete"
        BY <1>4, <1>6, <1>9
    <2>4. Left(r, live)
        BY <1>4, <1>6, <1>9 DEF Left
    <2> QED
        BY <1>4, <2>1, <2>2, <2>3, <2>4
<1> QED
    BY <1>3, <1>4, <1>5, <1>6, <1>7, <1>8, <1>9, StepInv

\* The patch takes the primary off the list.
LEMMA PatchInv ==
    ASSUME IInv, NEW w \in Procs, PatchContributors(w)
    PROVE  IInv'
<1> DEFINE p == proc[w].cur
           d == [proc[w] EXCEPT !.pc = "delete", !.read = None]
           r == IF Remaining(w) = {} THEN d ELSE Through(w)
<1>1. /\ proc[w] \in ProcRecord /\ Shape(proc[w]) /\ proc[w].pc = "patch"
      /\ live # Absent /\ live \in SUBSET Primaries
      /\ proc' = [proc EXCEPT ![w] = r]
    BY Here DEF PatchContributors
<1>2. p \in Primaries /\ Remaining(w) \in SUBSET Primaries
    BY <1>1 DEF Shape, Resting, Remaining
<1>3. /\ UNCHANGED <<last, contributing, mixed, excused>>
      /\ live' \in {live, Remaining(w)}
      /\ proc[w].read = live => live' = live \ {p} /\ Remaining(w) = live'
    BY DEF PatchContributors, history, Remaining
<1>4. Typed /\ live' # Absent
    BY <1>1, <1>2, <1>3, ValuesAssumption DEF PatchContributors, Typed, bounds, history, IInv, TypeOK
<1>5. /\ r \in ProcRecord /\ Shape(r)
      /\ \/ Remaining(w) = {} /\ r.pc = "delete" /\ r.cur = p /\ r.cleanup = proc[w].cleanup
         \/ Remaining(w) # {} /\ r.pc = "finalize" /\ r.cur = p /\ proc[w].cleanup
         \/ Remaining(w) # {} /\ r.pc = "run" /\ r.cur = None /\ ~r.cleanup
    <2>1. d \in ProcRecord
        BY <1>1 DEF ProcRecord
    <2>2. d.pc = "delete" /\ d.cur = p /\ d.cleanup = proc[w].cleanup
        BY <1>1 DEF ProcRecord
    <2> HIDE DEF d
    <2>3. Shape(d)
        BY <1>2, <2>2 DEF Shape, Resting, Running
    <2> QED
        BY <1>1, <2>1, <2>2, <2>3, ThroughType
<1> HIDE DEF r, d, p
<1>6. ASSUME ~mixed'
      PROVE  /\ \A v \in Procs \ {w} : ~AtList(proc[v])
             /\ live' = live \ {p} /\ Remaining(w) = live'
             /\ Listed(live', contributing')
             /\ Fresh(r, live', contributing')
             /\ \A v \in Procs \ {w} : Fresh(proc[v], live', contributing')
    <2>1. \A v \in Procs \ {w} : ~AtList(proc[v])
        BY <1>1, <1>3, <1>6 DEF IInv, Orderly, AtList
    <2>2. Listed(live, contributing) /\ proc[w].read = live /\ p \notin contributing
        BY <1>1, <1>3, <1>6 DEF IInv, Orderly, Fresh, p
    <2>3. live' = live \ {p} /\ Remaining(w) = live'
        BY <1>3, <2>2
    <2>4. Listed(live', contributing')
        BY <1>3, <1>4, <2>2, <2>3 DEF Listed
    <2>5. Fresh(r, live', contributing')
        BY <1>5, <2>3, <2>4 DEF Fresh, Listed
    <2> QED
        BY <2>1, <2>3, <2>4, <2>5 DEF Fresh, AtList
<1>7. ASSUME ~excused'
      PROVE  /\ \A v \in Procs \ {w} : proc[v].cur = r.cur => ~proc[v].cleanup /\ ~r.cleanup
             /\ CleansUp(r, last')
             /\ \A v \in Procs \ {w} : CleansUp(proc[v], last')
    <2>1. \A v \in Procs \ {w} : proc[v].cur = p => ~proc[v].cleanup /\ ~proc[w].cleanup
        BY <1>3, <1>7 DEF IInv, Tended, p
    <2>2. \A v \in Procs : proc[v].cur = None => ~proc[v].cleanup
        BY ValuesAssumption DEF IInv, ShapeInv, Shape
    <2>3. \A v \in Procs : CleansUp(proc[v], last')
        BY <1>3, <1>7 DEF IInv, Tended
    <2>4. CleansUp(r, last')
        BY <1>1, <1>5, <2>3 DEF CleansUp, p
    <2> QED
        BY <1>5, <2>1, <2>2, <2>3, <2>4
<1>8. ASSUME ~mixed', ~excused'
      PROVE  /\ \A q \in live' : q \in last' \/ \E v \in Procs \ {w} : Holds(proc[v], q)
             /\ live' = {} => r.pc = "delete"
             /\ Left(r, live')
             /\ \A v \in Procs \ {w} : Left(proc[v], live')
    <2>1. /\ \A q \in live : q \in last \/ \E v \in Procs : Holds(proc[v], q)
          /\ \A v \in Procs : Left(proc[v], live)
        BY <1>1, <1>3, <1>8 DEF IInv, Minded
    <2>2. live' = live \ {p} /\ Remaining(w) = live'
        BY <1>6, <1>8
    <2>3. \A q \in live' : ~Holds(proc[w], q)
        BY <2>2 DEF Holds, p
    <2> QED
        BY <1>3, <1>5, <2>1, <2>2, <2>3 DEF Left
<1> QED
    BY <1>1, <1>3, <1>4, <1>5, <1>6, <1>7, <1>8, StepInv

\* Steps of a release at which the list stays as it is.
LEMMA ReleasingInv ==
    ASSUME IInv, NEW w \in Procs,
           PatchConflict(w) \/ RereadContributors(w) \/ DeleteOutputFails(w)
    PROVE  IInv'
<1>1. proc[w] \in ProcRecord /\ Shape(proc[w])
    BY Here
<1>2. CASE PatchConflict(w)
    <2> DEFINE r == [proc[w] EXCEPT !.pc = "reread", !.tries = @ + 1]
    <2>1. /\ proc[w].pc = "patch" /\ proc' = [proc EXCEPT ![w] = r]
          /\ UNCHANGED <<live, last, contributing, mixed, excused>>
        BY <1>2 DEF PatchConflict, history
    <2>2. proc[w].tries + 1 \in 0..MaxRetries
        BY <1>1, <2>1, BoundsAssumption DEF ProcRecord, Shape
    <2>3. r \in ProcRecord
        BY <1>1, <2>2 DEF ProcRecord
    <2>4. r.pc = "reread" /\ r.cur = proc[w].cur /\ r.cleanup = proc[w].cleanup
        BY <1>1 DEF ProcRecord
    <2>5. Typed
        BY <1>2, BoundsAssumption DEF PatchConflict, Typed, history, IInv, TypeOK
    <2> HIDE DEF r
    <2>6. /\ Shape(r) /\ AtList(proc[w]) /\ Left(r, live)
          /\ \A p \in Primaries : Holds(proc[w], p) => Holds(r, p)
        BY <1>1, <2>1, <2>4 DEF Shape, Resting, Running, AtList, Left, Holds
    <2>7. /\ ~mixed' => Fresh(r, live, contributing)
          /\ ~excused' => CleansUp(r, last)
        BY <2>1, <2>4 DEF IInv, Orderly, Tended, Fresh, CleansUp
    <2> QED
        BY <2>1, <2>3, <2>4, <2>5, <2>6, <2>7, Here, QuietStepInv
<1>3. CASE RereadContributors(w)
    <2> DEFINE r == [proc[w] EXCEPT !.pc = "patch", !.read = live]
    <2>1. /\ proc[w].pc = "reread" /\ proc[w].tries < MaxRetries /\ live \in SUBSET Primaries
          /\ proc' = [proc EXCEPT ![w] = r]
          /\ UNCHANGED <<live, last, contributing, excused>> /\ (mixed => mixed')
        BY <1>3, Here DEF RereadContributors, Meeting
    <2>2. r \in ProcRecord
        BY <1>1, <2>1 DEF ProcRecord
    <2>3. /\ r.pc = "patch" /\ r.read = live /\ r.cur = proc[w].cur
          /\ r.cleanup = proc[w].cleanup /\ r.tries = proc[w].tries
        BY <1>1 DEF ProcRecord
    <2>4. Typed
        BY <1>3 DEF RereadContributors, Meeting, Typed, bounds, IInv, TypeOK
    <2> HIDE DEF r
    <2>5. /\ Shape(r) /\ AtList(proc[w]) /\ Left(r, live)
          /\ \A p \in Primaries : Holds(proc[w], p) => Holds(r, p)
        BY <1>1, <2>1, <2>3 DEF Shape, Resting, Running, AtList, Left, Holds
    <2>6. /\ ~mixed' => Fresh(r, live, contributing)
          /\ ~excused' => CleansUp(r, last)
        BY <2>1, <2>3 DEF IInv, Orderly, Tended, Fresh, CleansUp
    <2> QED
        BY <2>1, <2>2, <2>3, <2>4, <2>5, <2>6, Here, QuietStepInv
<1>4. CASE DeleteOutputFails(w)
    <2>1. /\ proc[w].pc = "delete" /\ proc' = [proc EXCEPT ![w] = Through(w)]
          /\ UNCHANGED <<live, last, contributing, mixed>> /\ excused' = TRUE
        BY <1>4 DEF DeleteOutputFails
    <2>2. Typed
        BY <1>4, BoundsAssumption DEF DeleteOutputFails, Typed, IInv, TypeOK
    <2>3. Through(w) \in ProcRecord /\ Shape(Through(w)) /\ ~AtList(Through(w))
        BY <2>1, ThroughType
    <2>4. Fresh(Through(w), live, contributing)
        BY <2>3 DEF Fresh, AtList
    <2> QED
        BY <2>1, <2>2, <2>3, <2>4, QuietStepInv
<1> QED
    BY <1>2, <1>3, <1>4

LEMMA DeleteInv ==
    ASSUME IInv, NEW w \in Procs, DeleteOutput(w)
    PROVE  IInv'
<1>1. /\ proc[w].pc = "delete" /\ proc' = [proc EXCEPT ![w] = Through(w)]
      /\ UNCHANGED <<last, mixed, excused>> /\ live' = Absent /\ contributing' = {}
    BY DEF DeleteOutput
<1>2. Typed
    BY DEF DeleteOutput, Typed, bounds, IInv, TypeOK
<1>3. /\ Through(w) \in ProcRecord /\ Shape(Through(w)) /\ ~AtList(Through(w))
      /\ \/ /\ Through(w).pc = "finalize" /\ Through(w).cur = proc[w].cur
            /\ proc[w].cleanup
         \/ Through(w).pc = "run" /\ Through(w).cur = None /\ ~Through(w).cleanup
    BY <1>1, ThroughType
<1>4. Fresh(Through(w), live', contributing') /\ CleansUp(Through(w), last')
    BY <1>3 DEF Fresh, AtList, CleansUp
<1>5. ~mixed' => \A v \in Procs \ {w} : ~AtList(proc[v])
    BY <1>1 DEF IInv, Orderly, AtList
<1>6. ~mixed' => Listed(live', contributing') /\ \A v \in Procs \ {w} : Fresh(proc[v], live', contributing')
    BY <1>1, <1>5 DEF Listed, Fresh, AtList
<1>7. ASSUME ~excused', NEW v \in Procs \ {w}
      PROVE  /\ proc[v].cur = Through(w).cur => ~proc[v].cleanup /\ ~Through(w).cleanup
             /\ CleansUp(proc[v], last')
    <2>1. proc[v].cur = proc[w].cur => ~proc[v].cleanup /\ ~proc[w].cleanup
        BY <1>1, <1>7 DEF IInv, Tended
    <2>2. proc[v].cur = None => ~proc[v].cleanup
        BY ValuesAssumption DEF IInv, ShapeInv, Shape
    <2>3. CleansUp(proc[v], last')
        BY <1>1, <1>7 DEF IInv, Tended
    <2> QED
        BY <1>3, <2>1, <2>2, <2>3
<1> QED
    BY <1>1, <1>2, <1>3, <1>4, <1>5, <1>6, <1>7, StepInv

-----------------------------------------------------------------------------
(* Cleanups *)

LEMMA BeginCleanupInv ==
    ASSUME IInv, NEW w \in Procs, NEW p \in Primaries, BeginCleanup(w, p)
    PROVE  IInv'
<1> DEFINE r == [proc[w] EXCEPT !.todo = @ \ {p}, !.cur = p, !.cleanup = TRUE,
                                !.pc = IF p \in last THEN "release" ELSE "finalize"]
<1>1. /\ proc[w] \in ProcRecord /\ Shape(proc[w]) /\ proc[w].pc = "run"
      /\ proc' = [proc EXCEPT ![w] = r]
    BY Here DEF BeginCleanup
<1>2. r \in ProcRecord
    BY <1>1 DEF ProcRecord
<1>3. /\ r.pc = IF p \in last THEN "release" ELSE "finalize"
      /\ r.cur = p /\ r.cleanup /\ r.tries = proc[w].tries
    BY <1>1 DEF ProcRecord
<1>4. Typed /\ UNCHANGED <<live, last, contributing, mixed>>
    BY DEF BeginCleanup, Typed, bounds, IInv, TypeOK
<1>5. /\ excused => excused'
      /\ ~excused' => \A v \in Procs \ {w} : proc[v].cur # p
    BY DEF BeginCleanup
<1> HIDE DEF r
<1>6. /\ Shape(r) /\ ~AtList(r) /\ Fresh(r, live', contributing') /\ CleansUp(r, last')
    BY <1>1, <1>3, <1>4 DEF Shape, Resting, Running, AtList, Fresh, CleansUp
<1>7. ~mixed' => /\ Listed(live', contributing')
                 /\ \A v \in Procs \ {w} : Fresh(proc[v], live', contributing')
    BY <1>4 DEF IInv, Orderly
<1>8. ~excused' => \A v \in Procs \ {w} : CleansUp(proc[v], last')
    BY <1>4, <1>5 DEF IInv, Tended
<1>9. ASSUME ~mixed', ~excused', live' # Absent
      PROVE  /\ \A q \in live' : q \in last' \/ \E v \in Procs \ {w} : Holds(proc[v], q)
             /\ live' = {} => \E v \in Procs \ {w} : proc[v].pc = "delete"
             /\ Left(r, live')
             /\ \A v \in Procs \ {w} : Left(proc[v], live')
    <2>1. /\ \A q \in live : q \in last \/ \E v \in Procs : Holds(proc[v], q)
          /\ live = {} => \E v \in Procs : proc[v].pc = "delete"
          /\ \A v \in Procs : Left(proc[v], live)
        BY <1>4, <1>5, <1>9 DEF IInv, Minded
    <2>2. \A q : ~Holds(proc[w], q)
        BY <1>1 DEF Holds
    <2>3. \A v \in Procs \ {w} : ~Holds(proc[v], p)
        BY <1>5, <1>9 DEF Holds
    <2>4. p \in live => p \in last
        BY <2>1, <2>2, <2>3
    <2> QED
        BY <1>1, <1>3, <1>4, <2>1, <2>2, <2>4 DEF Left
<1> QED
    BY <1>1, <1>2, <1>3, <1>4, <1>5, <1>6, <1>7, <1>8, <1>9, StepInv

\* The finalizer is removed, or that fails, and the record is cleared.
LEMMA FinalizingInv ==
    ASSUME IInv, NEW w \in Procs, Finalize(w) \/ FinalizeFails(w)
    PROVE  IInv'
<1>1. /\ proc[w] \in ProcRecord /\ Shape(proc[w]) /\ proc[w].pc = "finalize"
      /\ UNCHANGED <<live, last, contributing, mixed, excused>>
    BY Here DEF Finalize, FinalizeFails, history
<1>2. \A p \in Primaries : ~Holds(proc[w], p)
    BY <1>1 DEF Holds
<1>3. Typed
    <2>1. CASE Finalize(w)
        <3>1. prim' \in [Primaries -> {Absent} \cup [on : BOOLEAN, deleting : BOOLEAN]]
            BY <2>1 DEF Finalize, IInv, TypeOK
        <3> QED
            BY <2>1, <3>1 DEF Finalize, Typed, bounds, history, IInv, TypeOK
    <2>2. CASE FinalizeFails(w)
        BY <2>2, BoundsAssumption DEF FinalizeFails, Typed, history, IInv, TypeOK
    <2> QED
        BY <2>1, <2>2
<1>4. CASE proc' = [proc EXCEPT ![w] = Onward(w)]
    BY <1>1, <1>2, <1>3, <1>4, OnwardType, RestInv DEF IInv
<1>5. CASE proc' = [proc EXCEPT ![w].pc = "forget"]
    <2> DEFINE r == [proc[w] EXCEPT !.pc = "forget"]
    <2>1. r \in ProcRecord /\ proc' = [proc EXCEPT ![w] = r]
        BY <1>1, <1>5 DEF ProcRecord
    <2>2. r.pc = "forget" /\ r.cur = proc[w].cur /\ r.cleanup = proc[w].cleanup
        BY <1>1 DEF ProcRecord
    <2> HIDE DEF r
    <2>3. Shape(r) /\ ~AtList(r) /\ Fresh(r, live, contributing) /\ CleansUp(r, last)
        BY <1>1, <2>2 DEF Shape, Resting, Running, AtList, Fresh, CleansUp
    <2>4. ~mixed' /\ ~excused' /\ live # Absent => Left(r, live)
        BY <1>1, <2>2 DEF IInv, Minded, Left
    <2> QED
        BY <1>1, <1>2, <1>3, <2>1, <2>2, <2>3, <2>4, Here, QuietStepInv
<1> QED
    BY <1>4, <1>5 DEF Finalize, FinalizeFails

LEMMA ForgetInv ==
    ASSUME IInv, NEW w \in Procs, Forget(w)
    PROVE  IInv'
<1> DEFINE p == proc[w].cur
<1>1. /\ Shape(proc[w]) /\ proc[w].pc = "forget" /\ proc' = [proc EXCEPT ![w] = Onward(w)]
      /\ last' = last \ {p}
      /\ UNCHANGED <<live, contributing, mixed, excused>>
    BY Here DEF Forget, history
<1>2. proc[w].cleanup
    BY <1>1 DEF Shape
<1>3. Typed
    BY DEF Forget, Typed, bounds, history, IInv, TypeOK
<1>4. /\ Onward(w) \in ProcRecord /\ Onward(w).pc = "run" /\ Onward(w).cur = None
      /\ ~Onward(w).cleanup /\ Shape(Onward(w))
    BY OnwardType DEF IInv
<1>5. /\ ~AtList(Onward(w)) /\ Fresh(Onward(w), live', contributing')
      /\ CleansUp(Onward(w), last') /\ Left(Onward(w), live')
    BY <1>4 DEF AtList, Fresh, CleansUp, Left
<1>6. ~mixed' => /\ Listed(live', contributing')
                 /\ \A v \in Procs \ {w} : Fresh(proc[v], live', contributing')
    BY <1>1 DEF IInv, Orderly
<1>7. ASSUME ~excused', NEW v \in Procs \ {w}
      PROVE  /\ proc[v].cur = Onward(w).cur => ~proc[v].cleanup
             /\ CleansUp(proc[v], last')
    <2>1. CleansUp(proc[v], last) /\ proc[v].cur # p
        BY <1>1, <1>2, <1>7 DEF IInv, Tended
    <2>2. proc[v].cur = None => ~proc[v].cleanup
        BY ValuesAssumption DEF IInv, ShapeInv, Shape
    <2> QED
        BY <1>1, <1>4, <2>1, <2>2 DEF CleansUp
<1>8. ASSUME ~mixed', ~excused', live' # Absent
      PROVE  /\ \A q \in live' : q \in last' \/ \E v \in Procs \ {w} : Holds(proc[v], q)
             /\ live' = {} => \E v \in Procs \ {w} : proc[v].pc = "delete"
             /\ \A v \in Procs \ {w} : Left(proc[v], live')
    <2>1. /\ \A q \in live : q \in last \/ \E v \in Procs : Holds(proc[v], q)
          /\ live = {} => \E v \in Procs : proc[v].pc = "delete"
          /\ \A v \in Procs : Left(proc[v], live)
        BY <1>1, <1>8 DEF IInv, Minded
    <2>2. p \notin live /\ \A q : ~Holds(proc[w], q)
        BY <1>1, <2>1 DEF Left, Holds
    <2> QED
        BY <1>1, <2>1, <2>2
<1> QED
    BY <1>1, <1>3, <1>4, <1>5, <1>6, <1>7, <1>8, StepInv

-----------------------------------------------------------------------------
(* The theorems *)

LEMMA TroubleInv == IInv /\ Trouble => IInv'
    BY RunInv, UnreleasedInv, ReleasingInv, FinalizingInv, OrphansInv DEF Trouble

LEMMA GoroutineInv ==
    ASSUME IInv, NEW w \in Procs, Run(w)
    PROVE  IInv'
    BY BeginInv, RunInv, ApplyInv, SwapInv, ReadListInv, PatchInv, UnreleasedInv, ReleasingInv,
       DeleteInv, BeginCleanupInv, FinalizingInv, ForgetInv
       DEF Run

LEMMA StutterInv == IInv /\ UNCHANGED vars => IInv'
<1> SUFFICES ASSUME IInv, UNCHANGED vars
             PROVE  IInv'
    OBVIOUS
<1>1. UNCHANGED <<prim, live, pending, last, proc, changes, failures, contributing, mixed, excused, pass>>
    BY DEF vars, bounds, history
<1>2. TypeOK' /\ ShapeInv'
    BY <1>1 DEF IInv, TypeOK, ShapeInv
<1>3. Orderly' /\ Tended' /\ Minded'
    BY <1>1 DEF IInv, Orderly, Tended, Minded
<1> QED
    BY <1>2, <1>3 DEF IInv

LEMMA NextInv == IInv /\ [Next]_vars => IInv'
<1>1. "watch" \in Procs /\ "resync" \in Procs
    BY DEF Procs
<1> QED
    BY <1>1, UsersInv, TroubleInv, TakingUpInv, OrphansInv, GoroutineInv, StutterInv
       DEF Next, Resync, Watch

LEMMA Invariant == Spec => []IInv
    BY InitInv, NextInv, PTL DEF Spec

\* The variables keep their types, whatever the goroutines and the calls
\* that fail do: no retry goes past maxConflictRetries.
THEOREM TypeCorrect == Spec => []TypeOK
<1>1. IInv => TypeOK
    BY DEF IInv
<1> QED
    BY <1>1, Invariant, PTL

\* The output is on the record of a primary, or in the hands of a goroutine,
\* as long as it exists and nothing has failed or met.
THEOREM NeverForgotten == Spec => []OutputRemembered
<1>1. ASSUME IInv, live # Absent, ~excused, ~mixed
      PROVE  last # {} \/ \E w \in Procs : InHand(w)
    <2>1. CASE live = {}
        BY <1>1, <2>1 DEF IInv, Minded, InHand
    <2>2. CASE live # {}
        BY <1>1, <2>2 DEF IInv, Minded, Holds, InHand
    <2> QED
        BY <2>1, <2>2
<1>2. IInv => OutputRemembered
    BY <1>1 DEF OutputRemembered
<1> QED
    BY <1>2, Invariant, PTL

\* A release deletes the output only when nobody contributes to it any more.
THEOREM LastOneOut == Spec => DeletedByLastUnlessMixed
<1>1. IInv => [DeletedByRelease => contributing = {} \/ mixed]_vars
    BY DEF IInv, Orderly, Fresh, DeletedByRelease
<1> QED
    BY <1>1, Invariant, PTL DEF DeletedByLastUnlessMixed

-----------------------------------------------------------------------------
(* What a full reconcile makes up for *)

\* The output is as p wants it, as far as p is concerned.
Served(p) == /\ ~prim[p].deleting
             /\ IF prim[p].on THEN p \in last /\ live # Absent /\ p \in live
                              ELSE p \notin last

\* A cleanup or a run that releases the output has reason to.
Releasing(r) == /\ Exists(r.cur)
                /\ IF r.cleanup THEN prim[r.cur].deleting
                                ELSE ~prim[r.cur].deleting /\ ~prim[r.cur].on /\ r.cur \notin last

\* What the goroutine of an undisturbed full reconcile has read is still so.
Current(r) ==
    /\ r.pc \in Running => Exists(r.cur) /\ ~prim[r.cur].deleting
    /\ r.pc \in {"get", "apply"} => prim[r.cur].on
    /\ r.pc = "apply" => r.read = live
    /\ r.pc = "swap" => r.on = prim[r.cur].on /\ (r.on => live # Absent /\ r.cur \in live)
    /\ r.pc \in {"release", "patch", "delete"} => Releasing(r)
    /\ r.pc = "patch" => live # Absent /\ r.read = live /\ r.cur \in live
    /\ r.pc = "delete" => live = {}
    /\ r.pc = "finalize" => Exists(r.cur) /\ prim[r.cur].deleting
    /\ r.pc = "forget" => ~Exists(r.cur)
    /\ r.pc = "list" => r.on = (last # {})
    /\ r.pc = "collect" => last = {}
    /\ r.pc \in {"end", "idle"} /\ live # Absent => last # {}

\* How far it is: what is neither ahead of it nor in work is served.
Progress(r) ==
    /\ pass = "undisturbed" <=> r.pc # "idle"
    /\ r.pc # "reread"
    /\ r.pc \in {"idle", "list", "collect", "end"} => r.todo = {}
    /\ r.cur \notin r.todo
    /\ \A p \in r.todo : Exists(p) /\ (p \in r.doomed <=> prim[p].deleting)
    /\ \A p \in Primaries : Exists(p) => p \in r.todo \/ p = r.cur \/ Served(p)
    /\ Current(r)

Repairs == pass # "disturbed" => Calm /\ Progress(proc["resync"])

\* In an undisturbed pass the resync goes on from s, with nobody else at work.
AtPass(s) == IInv /\ Repairs /\ pass # "disturbed" /\ s = proc["resync"]

LEMMA Passing ==
    ASSUME NEW s, AtPass(s)
    PROVE  /\ s \in ProcRecord /\ Shape(s) /\ Progress(s) /\ "resync" \in Procs
           /\ pending = {} /\ proc["watch"] = Idle
           /\ TypeOK /\ (live # Absent => live \in SUBSET Primaries)
    BY Here DEF AtPass, IInv, Repairs, Calm, Procs

LEMMA PassStep ==
    ASSUME NEW s, AtPass(s), NEW r, proc' = [proc EXCEPT !["resync"] = r], pending' = pending,
           Progress(r)'
    PROVE  Repairs'
<1>1. proc'["resync"] = r /\ proc'["watch"] = proc["watch"]
    BY Passing DEF TypeOK, Procs
<1>2. Calm'
    BY <1>1, Passing DEF Calm
<1> QED
    BY <1>1, <1>2 DEF Repairs, Progress, Current, Releasing, Served, Exists

LEMMA OnwardPass ==
    ASSUME NEW s, AtPass(s)
    PROVE  LET r == Onward("resync") IN
           r.pc = "run" /\ r.cur = None /\ r.todo = s.todo /\ r.doomed = s.doomed
    BY DEF Onward, Idle, AtPass

\* A run or a cleanup of p is over and p is served, or has gone.
LEMMA Over ==
    ASSUME NEW s, AtPass(s), proc' = [proc EXCEPT !["resync"] = Onward("resync")],
           UNCHANGED <<prim, pending, pass>>, s.cur \in Primaries, s.pc # "idle",
           Exists(s.cur) => Served(s.cur)',
           \A p \in Primaries \ {s.cur} : Exists(p) /\ Served(p) => Served(p)'
    PROVE  Repairs'
<1>1. PICK r : r = Onward("resync")
    OBVIOUS
<1>2. r.pc = "run" /\ r.cur = None /\ r.todo = s.todo /\ r.doomed = s.doomed
    BY <1>1, OnwardPass
<1>3. s \in ProcRecord /\ Progress(s)
    BY Passing
<1>4. r.cur \notin r.todo
    BY <1>2, <1>3, ValuesAssumption DEF ProcRecord
<1>5. \A p \in Primaries : Exists(p)' => p \in r.todo \/ Served(p)'
    BY <1>2, <1>3 DEF Progress, Exists
<1>6. \A p \in r.todo : Exists(p)' /\ (p \in r.doomed <=> prim'[p].deleting)
    BY <1>2, <1>3 DEF Progress, Exists
<1>7. Current(r)'
    BY <1>2 DEF Current, Running
<1>8. Progress(r)'
    BY <1>2, <1>3, <1>4, <1>5, <1>6, <1>7 DEF Progress
<1> QED
    BY <1>1, <1>8, PassStep

\* The run or cleanup goes on with the same primary.
LEMMA GoesOn ==
    ASSUME NEW s, AtPass(s), NEW r, proc' = [proc EXCEPT !["resync"] = r],
           UNCHANGED <<prim, pending, pass>>,
           s.cur \in Primaries, r.cur = s.cur, r.todo = s.todo, r.doomed = s.doomed,
           r.pc \notin {"idle", "reread", "list", "collect", "end"}, s.pc # "idle",
           Current(r)',
           \A p \in Primaries \ {s.cur} : Exists(p) /\ Served(p) => Served(p)'
    PROVE  Repairs'
<1>1. s \in ProcRecord /\ Progress(s)
    BY Passing
<1>2. \A p \in Primaries : Exists(p)' => p \in r.todo \/ p = r.cur \/ Served(p)'
    BY <1>1 DEF Progress, Exists
<1>3. \A p \in r.todo : Exists(p)' /\ (p \in r.doomed <=> prim'[p].deleting)
    BY <1>1 DEF Progress, Exists
<1>4. Progress(r)'
    BY <1>1, <1>2, <1>3 DEF Progress
<1> QED
    BY <1>4, PassStep

LEMMA BeginPass ==
    ASSUME NEW s, AtPass(s), NEW p \in Primaries, Begin("resync", p) \/ BeginCleanup("resync", p)
    PROVE  Repairs'
<1> DEFINE w == "resync"
<1>1. /\ s \in ProcRecord /\ Shape(s) /\ Progress(s) /\ s.pc = "run" /\ s.cur = None /\ ~s.cleanup
      /\ s = proc[w] /\ p \in s.todo
      /\ UNCHANGED <<prim, live, pending, last, pass>>
    BY Passing DEF Begin, BeginCleanup, Shape, Resting, AtPass, bounds
<1>2. Exists(p) /\ (p \in s.doomed <=> prim[p].deleting)
    BY <1>1 DEF Progress
<1>3. PICK r : /\ proc' = [proc EXCEPT ![w] = r]
               /\ r.todo = s.todo \ {p} /\ r.doomed = s.doomed /\ r.cur = p
               /\ \/ r.pc = "start" /\ ~prim[p].deleting
                  \/ /\ r.pc \in {"release", "finalize"} /\ r.cleanup /\ prim[p].deleting
    <2>1. CASE Begin(w, p)
        <3>1. PICK r : r = [s EXCEPT !.todo = @ \ {p}, !.pc = "start", !.cur = p]
            OBVIOUS
        <3>2. proc' = [proc EXCEPT ![w] = r] /\ ~prim[p].deleting
            BY <1>1, <1>2, <2>1, <3>1 DEF Begin
        <3>3. r.todo = s.todo \ {p} /\ r.doomed = s.doomed /\ r.cur = p /\ r.pc = "start"
            BY <1>1, <3>1 DEF ProcRecord
        <3> QED
            BY <3>2, <3>3
    <2>2. CASE BeginCleanup(w, p)
        <3>1. PICK r : r = [s EXCEPT !.todo = @ \ {p}, !.cur = p, !.cleanup = TRUE,
                                     !.pc = IF p \in last THEN "release" ELSE "finalize"]
            OBVIOUS
        <3>2. proc' = [proc EXCEPT ![w] = r] /\ prim[p].deleting
            BY <1>1, <1>2, <2>2, <3>1 DEF BeginCleanup, TypeOK, AtPass, IInv
        <3>3. /\ r.todo = s.todo \ {p} /\ r.doomed = s.doomed /\ r.cur = p
              /\ r.pc \in {"release", "finalize"} /\ r.cleanup
            BY <1>1, <3>1 DEF ProcRecord
        <3> QED
            BY <3>2, <3>3
    <2> QED
        BY <2>1, <2>2
<1>4. Current(r)'
    BY <1>1, <1>2, <1>3 DEF Current, Releasing, Running, Exists
<1>5. \A q \in Primaries : Exists(q)' => q \in r.todo \/ q = r.cur \/ Served(q)'
    BY <1>1, <1>3, ValuesAssumption DEF Progress, Served, Exists
<1>6. Progress(r)'
    BY <1>1, <1>3, <1>4, <1>5 DEF Progress, Exists
<1> QED
    BY <1>1, <1>3, <1>6, PassStep

\* What stays so when the output and the record do.
LEMMA StillServed ==
    ASSUME UNCHANGED <<prim, live, last>>
    PROVE  \A p \in Primaries : Served(p) => Served(p)'
    BY DEF Served

LEMMA RunPass ==
    ASSUME NEW s, AtPass(s), ReadPrimary("resync") \/ GetLive("resync") \/ Apply("resync")
    PROVE  Repairs'
<1> DEFINE w == "resync"
<1>1. /\ s \in ProcRecord /\ Shape(s) /\ Progress(s) /\ s = proc[w]
      /\ s.pc \in {"start", "get", "apply"} /\ s.cur \in Primaries
      /\ live # Absent => live \in SUBSET Primaries
    BY Passing DEF ReadPrimary, GetLive, Apply, Shape, Resting, AtPass
<1>2. Exists(s.cur) /\ ~prim[s.cur].deleting /\ Current(s)
    BY <1>1 DEF Progress, Current, Running
<1>3. CASE ReadPrimary(w)
    <2>1. PICK r : r = [s EXCEPT !.on = prim[s.cur].on, !.pc = IF prim[s.cur].on THEN "get" ELSE "swap"]
        OBVIOUS
    <2>2. /\ proc' = [proc EXCEPT ![w] = r] /\ UNCHANGED <<prim, live, pending, last, pass>>
        BY <1>1, <1>2, <1>3, <2>1 DEF ReadPrimary, bounds
    <2>3. /\ r.pc = IF prim[s.cur].on THEN "get" ELSE "swap"
          /\ r.on = prim[s.cur].on
          /\ r.cur = s.cur /\ r.todo = s.todo /\ r.doomed = s.doomed
        BY <1>1, <2>1 DEF ProcRecord
    <2>4. Current(r)'
        BY <1>2, <2>2, <2>3 DEF Current, Running, Exists
    <2> QED
        BY <1>1, <2>2, <2>3, <2>4, GoesOn, StillServed
<1>4. CASE GetLive(w)
    <2>1. PICK r : r = [s EXCEPT !.pc = "apply", !.read = live]
        OBVIOUS
    <2>2. /\ proc' = [proc EXCEPT ![w] = r] /\ UNCHANGED <<prim, live, pending, last, pass>>
          /\ s.pc = "get"
        BY <1>1, <1>4, <2>1 DEF GetLive, bounds, TypeOK, AtPass, IInv
    <2>3. r.pc = "apply" /\ r.read = live /\ r.cur = s.cur /\ r.todo = s.todo /\ r.doomed = s.doomed
        BY <1>1, <2>1 DEF ProcRecord
    <2>4. Current(r)'
        BY <1>2, <2>2, <2>3 DEF Current, Running, Exists
    <2> QED
        BY <1>1, <2>2, <2>3, <2>4, GoesOn, StillServed
<1>5. CASE Apply(w)
    <2>1. PICK r : r = [s EXCEPT !.pc = "swap", !.read = None]
        OBVIOUS
    <2>2. /\ proc' = [proc EXCEPT ![w] = r] /\ UNCHANGED <<prim, pending, last, pass>>
          /\ s.pc = "apply"
          /\ live' = (CASE s.read = Failed -> {} [] s.read = Absent -> {s.cur}
                        [] OTHER -> s.read \cup {s.cur})
        BY <1>1, <1>5, <2>1 DEF Apply, bounds, TypeOK, AtPass, IInv
    <2>3. r.pc = "swap" /\ r.on = s.on /\ r.cur = s.cur /\ r.todo = s.todo /\ r.doomed = s.doomed
        BY <1>1, <2>1 DEF ProcRecord
    <2>4. s.read = live /\ s.read # Failed
        BY <1>1, <1>2, <2>2, ValuesAssumption DEF Current
    <2>5. live' \in SUBSET Primaries /\ s.cur \in live' /\ (live # Absent => live \subseteq live')
        BY <1>1, <2>2, <2>4
    <2>6. live' # Absent
        BY <2>5, ValuesAssumption
    <2>7. s.on /\ prim[s.cur].on
        BY <1>1, <1>2, <2>2 DEF Shape, Current
    <2>8. s.on = prim[s.cur].on
        BY <1>1, <1>2, <2>7 DEF ProcRecord, Exists, AtPass, IInv, TypeOK
    <2>9. Current(r)'
        BY <1>2, <2>2, <2>3, <2>5, <2>6, <2>8 DEF Current, Running, Exists
    <2>10. \A q \in Primaries : Served(q) => Served(q)'
        BY <2>2, <2>5, <2>6 DEF Served
    <2> QED
        BY <1>1, <2>2, <2>3, <2>9, <2>10, GoesOn
<1> QED
    BY <1>3, <1>4, <1>5

LEMMA SwapPass ==
    ASSUME NEW s, AtPass(s), SwapLastOutputs("resync")
    PROVE  Repairs'
<1> DEFINE w == "resync"
<1>1. /\ s \in ProcRecord /\ Shape(s) /\ Progress(s) /\ s = proc[w]
      /\ s.pc = "swap" /\ s.cur \in Primaries
      /\ UNCHANGED <<prim, live, pending, pass>>
      /\ last' = IF s.on THEN last \cup {s.cur} ELSE last \ {s.cur}
    BY Passing DEF SwapLastOutputs, Shape, Resting, AtPass, bounds, history
<1>2. /\ Exists(s.cur) /\ ~prim[s.cur].deleting /\ s.on = prim[s.cur].on
      /\ s.on => live # Absent /\ s.cur \in live
      /\ ~s.cleanup
    BY <1>1 DEF Progress, Current, Running, Shape
<1>3. \A q \in Primaries \ {s.cur} : Served(q) => Served(q)'
    BY <1>1 DEF Served
<1>4. Served(s.cur)'
    <2>1. PICK p : p = s.cur
        OBVIOUS
    <2> QED
        BY <1>1, <1>2, <2>1 DEF Served
<1>5. CASE s.cur \in last /\ ~s.on
    <2>1. PICK r : r = [s EXCEPT !.pc = "release"]
        OBVIOUS
    <2>2. proc' = [proc EXCEPT ![w] = r]
        BY <1>1, <1>5, <2>1 DEF SwapLastOutputs, TypeOK, AtPass, IInv
    <2>3. r.pc = "release" /\ r.cur = s.cur /\ r.todo = s.todo /\ r.doomed = s.doomed /\ r.cleanup = s.cleanup
        BY <1>1, <2>1 DEF ProcRecord
    <2>4. Current(r)'
        BY <1>1, <1>2, <1>5, <2>3 DEF Current, Running, Releasing, Exists
    <2> QED
        BY <1>1, <1>3, <2>2, <2>3, <2>4, GoesOn
<1>6. CASE ~(s.cur \in last /\ ~s.on)
    <2>1. proc' = [proc EXCEPT ![w] = Onward(w)]
        BY <1>1, <1>6 DEF SwapLastOutputs
    <2> QED
        BY <1>1, <1>3, <1>4, <2>1, Over
<1> QED
    BY <1>5, <1>6

LEMMA ThroughPass ==
    ASSUME NEW s, AtPass(s), proc' = [proc EXCEPT !["resync"] = Through("resync")],
           s.pc \in {"release", "patch", "delete"}, UNCHANGED <<prim, pending, last, pass>>,
           \A p \in Primaries \ {s.cur} : Exists(p) /\ Served(p) => Served(p)'
    PROVE  Repairs'
<1>1. s \in ProcRecord /\ Shape(s) /\ Progress(s) /\ s = proc["resync"]
    BY Passing DEF AtPass
<1>2. s.cur \in Primaries /\ Releasing(s)
    BY <1>1 DEF Shape, Resting, Progress, Current
<1>3. CASE s.cleanup
    <2>1. PICK r : r = [s EXCEPT !.pc = "finalize", !.read = None]
        OBVIOUS
    <2>2. proc' = [proc EXCEPT !["resync"] = r]
        BY <1>1, <1>3, <2>1 DEF Through
    <2>3. r.pc = "finalize" /\ r.cur = s.cur /\ r.todo = s.todo /\ r.doomed = s.doomed
        BY <1>1, <2>1 DEF ProcRecord
    <2>4. Current(r)'
        BY <1>2, <1>3, <2>3 DEF Current, Running, Releasing, Exists
    <2> QED
        BY <1>2, <2>2, <2>3, <2>4, GoesOn
<1>4. CASE ~s.cleanup
    <2>1. PICK p : p = s.cur
        OBVIOUS
    <2>2. Served(s.cur)'
        BY <1>2, <1>4, <2>1 DEF Releasing, Served
    <2>3. proc' = [proc EXCEPT !["resync"] = Onward("resync")]
        BY <1>1, <1>4 DEF Through
    <2> QED
        BY <1>2, <2>2, <2>3, Over
<1> QED
    BY <1>3, <1>4

LEMMA ReadContributorsPass ==
    ASSUME NEW s, AtPass(s), ReadContributors("resync")
    PROVE  Repairs'
<1> DEFINE w == "resync"
<1>1. /\ s \in ProcRecord /\ Shape(s) /\ Progress(s) /\ s = proc[w] /\ s.pc = "release"
      /\ s.cur \in Primaries /\ UNCHANGED <<prim, live, pending, last, pass>>
    BY Passing DEF ReadContributors, Shape, Resting, AtPass, bounds
<1>2. Releasing(s)
    BY <1>1 DEF Progress, Current
<1>3. \A p \in Primaries : Served(p) => Served(p)'
    BY <1>1, StillServed
<1>4. CASE live # Absent /\ live = {}
    <2>1. PICK r : r = [s EXCEPT !.pc = "delete"]
        OBVIOUS
    <2>2. proc' = [proc EXCEPT ![w] = r]
        BY <1>1, <1>4, <2>1 DEF ReadContributors, TypeOK, AtPass, IInv
    <2>3. r.pc = "delete" /\ r.cur = s.cur /\ r.todo = s.todo /\ r.doomed = s.doomed /\ r.cleanup = s.cleanup
        BY <1>1, <2>1 DEF ProcRecord
    <2>4. Current(r)'
        BY <1>1, <1>2, <1>4, <2>3 DEF Current, Running, Releasing, Exists
    <2> QED
        BY <1>1, <1>3, <2>2, <2>3, <2>4, GoesOn
<1>5. CASE live # Absent /\ live # {} /\ s.cur \in live
    <2>1. PICK r : r = [s EXCEPT !.pc = "patch", !.read = live]
        OBVIOUS
    <2>2. proc' = [proc EXCEPT ![w] = r]
        BY <1>1, <1>5, <2>1 DEF ReadContributors, TypeOK, AtPass, IInv
    <2>3. /\ r.pc = "patch" /\ r.read = live /\ r.cleanup = s.cleanup
          /\ r.cur = s.cur /\ r.todo = s.todo /\ r.doomed = s.doomed
        BY <1>1, <2>1 DEF ProcRecord
    <2>4. Current(r)'
        BY <1>1, <1>2, <1>5, <2>3 DEF Current, Running, Releasing, Exists
    <2> QED
        BY <1>1, <1>3, <2>2, <2>3, <2>4, GoesOn
<1>6. CASE live = Absent \/ (live # {} /\ s.cur \notin live)
    <2>1. proc' = [proc EXCEPT ![w] = Through(w)]
        <3>1. CASE live = Absent
            <4>1. Absent # {}
                BY ValuesAssumption
            <4> QED
                BY <1>1, <3>1, <4>1 DEF ReadContributors
        <3>2. CASE live # Absent
            BY <1>1, <1>6, <3>2 DEF ReadContributors
        <3> QED
            BY <3>1, <3>2
    <2> QED
        BY <1>1, <1>3, <2>1, ThroughPass
<1> QED
    BY <1>4, <1>5, <1>6

\* The list that is written back is the one that was read: no other primary
\* gets lost.
LEMMA PatchPass ==
    ASSUME NEW s, AtPass(s), PatchContributors("resync")
    PROVE  Repairs'
<1> DEFINE w == "resync"
<1>1. /\ s \in ProcRecord /\ Shape(s) /\ Progress(s) /\ s = proc[w] /\ s.pc = "patch"
      /\ s.cur \in Primaries /\ UNCHANGED <<prim, pending, last, pass>>
      /\ live \in SUBSET Primaries
    BY Passing DEF PatchContributors, Shape, Resting, AtPass, bounds, history
<1>2. Releasing(s) /\ s.read = live /\ s.cur \in live
    BY <1>1 DEF Progress, Current
<1>3. Remaining(w) = live \ {s.cur} /\ Remaining(w) # s.read
    BY <1>1, <1>2 DEF Remaining
<1>4. live' = live \ {s.cur} /\ live' # Absent
    BY <1>1, <1>3, ValuesAssumption DEF PatchContributors
<1>5. \A p \in Primaries \ {s.cur} : Served(p) => Served(p)'
    BY <1>1, <1>4 DEF Served
<1>6. CASE Remaining(w) = {}
    <2>1. PICK r : r = [s EXCEPT !.pc = "delete", !.read = None]
        OBVIOUS
    <2>2. proc' = [proc EXCEPT ![w] = r]
        BY <1>1, <1>6, <2>1 DEF PatchContributors
    <2>3. r.pc = "delete" /\ r.cur = s.cur /\ r.todo = s.todo /\ r.doomed = s.doomed /\ r.cleanup = s.cleanup
        BY <1>1, <2>1 DEF ProcRecord
    <2>4. Current(r)'
        BY <1>1, <1>2, <1>3, <1>4, <1>6, <2>3 DEF Current, Running, Releasing, Exists
    <2> QED
        BY <1>1, <1>5, <2>2, <2>3, <2>4, GoesOn
<1>7. CASE Remaining(w) # {}
    <2>1. proc' = [proc EXCEPT ![w] = Through(w)]
        BY <1>7 DEF PatchContributors
    <2> QED
        BY <1>1, <1>5, <2>1, ThroughPass
<1> QED
    BY <1>6, <1>7

\* Nobody who wants the output is on an empty list.
LEMMA DeletePass ==
    ASSUME NEW s, AtPass(s), DeleteOutput("resync")
    PROVE  Repairs'
<1>1. /\ Progress(s) /\ s.pc = "delete" /\ live' = Absent
      /\ proc' = [proc EXCEPT !["resync"] = Through("resync")]
      /\ UNCHANGED <<prim, pending, last, pass>>
    BY Passing DEF DeleteOutput, AtPass, bounds
<1>2. live = {}
    BY <1>1 DEF Progress, Current
<1>3. \A p \in Primaries : Served(p) => Served(p)'
    BY <1>1, <1>2 DEF Served
<1> QED
    BY <1>1, <1>3, ThroughPass

LEMMA FinalizePass ==
    ASSUME NEW s, AtPass(s), Finalize("resync")
    PROVE  Repairs'
<1> DEFINE w == "resync"
<1>1. /\ s \in ProcRecord /\ Shape(s) /\ Progress(s) /\ s = proc[w] /\ s.pc = "finalize"
      /\ s.cur \in Primaries /\ UNCHANGED <<live, pending, last, pass>>
    BY Passing DEF Finalize, Shape, Resting, AtPass, bounds
<1>2. PICK p \in Primaries : p = s.cur
    BY <1>1
<1>3. Exists(p) /\ prim[p].deleting
    BY <1>1, <1>2 DEF Progress, Current
<1>4. PICK r : r = [s EXCEPT !.pc = "forget"]
    OBVIOUS
<1>5. proc' = [proc EXCEPT ![w] = r] /\ prim' = [prim EXCEPT ![p] = Absent]
    BY <1>1, <1>2, <1>3, <1>4 DEF Finalize, TypeOK, AtPass, IInv
<1>6. r.pc = "forget" /\ r.cur = p /\ r.todo = s.todo /\ r.doomed = s.doomed
    BY <1>1, <1>2, <1>4 DEF ProcRecord
<1>7. /\ prim'[p] = Absent /\ \A q \in Primaries \ {p} : prim'[q] = prim[q]
      /\ p \notin s.todo /\ s.todo \subseteq Primaries
    BY <1>1, <1>2, <1>5 DEF TypeOK, AtPass, IInv, Progress, ProcRecord
<1>8. \A q \in Primaries : Exists(q)' => q \in r.todo \/ q = r.cur \/ Served(q)'
    BY <1>1, <1>2, <1>6, <1>7 DEF Progress, Exists, Served
<1>9. \A q \in r.todo : Exists(q)' /\ (q \in r.doomed <=> prim'[q].deleting)
    BY <1>1, <1>6, <1>7 DEF Progress, Exists
<1>10. Current(r)'
    BY <1>6, <1>7 DEF Current, Running, Exists
<1>11. Progress(r)'
    BY <1>1, <1>2, <1>6, <1>8, <1>9, <1>10 DEF Progress
<1> QED
    BY <1>1, <1>5, <1>11, PassStep

LEMMA ForgetPass ==
    ASSUME NEW s, AtPass(s), Forget("resync")
    PROVE  Repairs'
<1>1. /\ Shape(s) /\ Progress(s) /\ s.pc = "forget" /\ s.cur \in Primaries
      /\ last' = last \ {s.cur} /\ proc' = [proc EXCEPT !["resync"] = Onward("resync")]
      /\ UNCHANGED <<prim, live, pending, pass>>
    BY Passing DEF Forget, Shape, Resting, AtPass, bounds
<1>2. ~Exists(s.cur)
    BY <1>1 DEF Progress, Current
<1>3. \A p \in Primaries \ {s.cur} : Served(p) => Served(p)'
    BY <1>1 DEF Served
<1> QED
    BY <1>1, <1>2, <1>3, Over

\* gcOrphans: the output is collected only when it is on nobody's record.
LEMMA CollectingPass ==
    ASSUME NEW s, AtPass(s), SnapshotWanted \/ ListManaged \/ CollectOrphan \/ EndResync
    PROVE  Repairs'
<1> DEFINE w == "resync"
<1>1. /\ s \in ProcRecord /\ Shape(s) /\ Progress(s) /\ s = proc[w] /\ w \in Procs
      /\ s.pc \in {"run", "list", "collect", "end"} /\ s.cur = None /\ s.todo = {}
      /\ UNCHANGED <<prim, pending, last>>
    BY Passing DEF SnapshotWanted, ListManaged, CollectOrphan, EndResync, Shape, Resting, AtPass,
                   Progress, bounds
<1>2. Current(s) /\ pass = "undisturbed" /\ \A p \in Primaries : Exists(p) => Served(p)
    BY <1>1, ValuesAssumption DEF Progress
<1>3. ASSUME NEW r, proc' = [proc EXCEPT ![w] = r], r.cur = None, r.todo = {}, r.pc \in Resting,
             (pass' = "undisturbed" /\ r.pc # "idle") \/ (pass' = "complete" /\ r.pc = "idle"),
             Current(r)', \A p \in Primaries : Served(p) => Served(p)'
      PROVE  Repairs'
    <2>1. \A p \in Primaries : Exists(p)' => Served(p)'
        BY <1>1, <1>2, <1>3 DEF Exists
    <2>2. Progress(r)'
        BY <1>3, <2>1 DEF Progress, Resting
    <2> QED
        BY <1>1, <1>3, <2>2, PassStep
<1>4. CASE SnapshotWanted
    <2>1. PICK r : r = [s EXCEPT !.pc = "list", !.on = (last # {})]
        OBVIOUS
    <2>2. /\ proc' = [proc EXCEPT ![w] = r] /\ UNCHANGED <<prim, live, last, pass>>
        BY <1>1, <1>4, <2>1 DEF SnapshotWanted, bounds, TypeOK, AtPass, IInv
    <2>3. r.pc = "list" /\ r.on = (last # {}) /\ r.cur = None /\ r.todo = {}
        BY <1>1, <2>1 DEF ProcRecord
    <2>4. Current(r)'
        BY <2>2, <2>3 DEF Current, Running
    <2> QED
        BY <1>2, <1>3, <2>2, <2>3, <2>4, StillServed DEF Resting
<1>5. CASE ListManaged
    <2>1. PICK r : r = [s EXCEPT !.pc = IF live # Absent /\ ~s.on THEN "collect" ELSE "end"]
        OBVIOUS
    <2>2. /\ proc' = [proc EXCEPT ![w] = r] /\ UNCHANGED <<prim, live, last, pass>> /\ s.pc = "list"
        BY <1>1, <1>5, <2>1 DEF ListManaged, bounds, TypeOK, AtPass, IInv
    <2>3. r.pc = (IF live # Absent /\ ~s.on THEN "collect" ELSE "end") /\ r.cur = None /\ r.todo = {}
        BY <1>1, <2>1 DEF ProcRecord
    <2>4. s.on = (last # {})
        BY <1>2, <2>2 DEF Current
    <2>5. Current(r)'
        BY <2>2, <2>3, <2>4 DEF Current, Running
    <2> QED
        BY <1>2, <1>3, <2>2, <2>3, <2>5, StillServed DEF Resting
<1>6. CASE CollectOrphan
    <2>1. PICK r : r = [s EXCEPT !.pc = "end"]
        OBVIOUS
    <2>2. /\ proc' = [proc EXCEPT ![w] = r] /\ UNCHANGED <<prim, last, pass>>
          /\ live' = Absent /\ s.pc = "collect"
        BY <1>1, <1>6, <2>1 DEF CollectOrphan, bounds, TypeOK, AtPass, IInv
    <2>3. r.pc = "end" /\ r.cur = None /\ r.todo = {}
        BY <1>1, <2>1 DEF ProcRecord
    <2>4. last = {}
        BY <1>2, <2>2 DEF Current
    <2>5. Current(r)' /\ \A p \in Primaries : Served(p) => Served(p)'
        BY <2>2, <2>3, <2>4 DEF Current, Running, Served
    <2> QED
        BY <1>2, <1>3, <2>2, <2>3, <2>5 DEF Resting
<1>7. CASE EndResync
    <2>1. /\ proc' = [proc EXCEPT ![w] = Idle] /\ UNCHANGED <<prim, live, last>>
          /\ pass' = "complete" /\ s.pc = "end"
        BY <1>1, <1>2, <1>7 DEF EndResync, bounds
    <2>2. Idle.pc = "idle" /\ Idle.cur = None /\ Idle.todo = {}
        BY DEF Idle
    <2>3. Current(Idle)'
        BY <1>2, <2>1, <2>2 DEF Current, Running
    <2>4. PICK r : r = Idle
        OBVIOUS
    <2> QED
        BY <1>3, <2>1, <2>2, <2>3, <2>4, StillServed DEF Resting, Current
<1> QED
    BY <1>4, <1>5, <1>6, <1>7

-----------------------------------------------------------------------------
LEMMA StartPass == IInv /\ StartResync => Repairs'
<1> SUFFICES ASSUME IInv, StartResync, Calm
             PROVE  Repairs'
    BY DEF StartResync, Repairs
<1>1. PICK r : r = Listing
    OBVIOUS
<1>2. /\ proc' = [proc EXCEPT !["resync"] = r] /\ pass' = "undisturbed"
      /\ UNCHANGED <<prim, live, pending, last>>
    BY <1>1 DEF StartResync, bounds
<1>3. /\ r.pc = "run" /\ r.cur = None
      /\ r.todo = {p \in Primaries : Exists(p)}
      /\ r.doomed = {p \in Primaries : Exists(p) /\ prim[p].deleting}
    BY <1>1 DEF Listing, Idle
<1>4. proc'["resync"] = r /\ proc'["watch"] = proc["watch"]
    BY <1>2 DEF IInv, TypeOK, Procs
<1>5. Progress(r)'
    BY <1>2, <1>3, ValuesAssumption DEF Progress, Current, Running, Exists
<1>6. Calm'
    BY <1>2, <1>4 DEF Calm
<1> QED
    BY <1>4, <1>5, <1>6 DEF Repairs, Progress, Current, Releasing, Served, Exists

\* Nobody but the resync takes a step in an undisturbed pass.
LEMMA OthersRest ==
    ASSUME NEW s, AtPass(s)
    PROVE  ~Watch
<1>1. proc["watch"].pc = "idle" /\ pending = {}
    BY Passing, IdleType
<1> QED
    BY <1>1 DEF Watch, TakePrimary, Run, Begin, BeginCleanup, ReadPrimary, GetLive, Apply,
           SwapLastOutputs, ReadContributors, PatchContributors, PatchGone, RereadContributors,
           RereadGivesUp, DeleteOutput, Finalize, Forget, Finish

LEMMA NoConflict ==
    ASSUME NEW s, AtPass(s)
    PROVE  ~PatchGone("resync") /\ ~RereadContributors("resync") /\ ~RereadGivesUp("resync")
<1>1. Progress(s) /\ s = proc["resync"]
    BY Passing DEF AtPass
<1> QED
    BY <1>1 DEF Progress, Current, PatchGone, RereadContributors, RereadGivesUp

LEMMA NextRepairs == IInv /\ Repairs /\ [Next]_vars => Repairs'
<1> SUFFICES ASSUME IInv, Repairs, [Next]_vars
             PROVE  Repairs'
    OBVIOUS
<1>1. CASE UNCHANGED vars
    <2>1. UNCHANGED <<prim, live, pending, last, proc, pass>>
        BY <1>1 DEF vars
    <2> QED
        BY <2>1 DEF Repairs, Calm, Progress, Current, Releasing, Served, Exists
<1>2. CASE Users \/ Trouble
    <2>1. pass' = "disturbed"
        BY <1>2 DEF Users, Create, Switch, Delete, Change, Trouble, GetLiveFails, ApplyFails,
               ContributorsFail, PatchConflict, DeleteOutputFails, FinalizeFails, CollectFails
    <2> QED
        BY <2>1 DEF Repairs
<1>3. CASE StartResync
    BY <1>3, StartPass
<1>4. CASE pass = "disturbed" /\ (Resync \/ Watch) /\ ~StartResync
    <2>1. pass' = "disturbed"
        BY <1>4 DEF Resync, Watch, TakePrimary, Finish, SnapshotWanted, ListManaged, CollectOrphan,
               EndResync, Run, Begin, BeginCleanup, ReadPrimary, GetLive, Apply, SwapLastOutputs,
               ReadContributors, PatchContributors, PatchGone, RereadContributors, RereadGivesUp,
               DeleteOutput, Finalize, Forget, history
    <2> QED
        BY <2>1 DEF Repairs
<1>5. CASE pass # "disturbed" /\ (Resync \/ Watch) /\ ~StartResync
    <2>1. PICK s : AtPass(s)
        BY <1>5 DEF AtPass
    <2>2. Run("resync") \/ SnapshotWanted \/ ListManaged \/ CollectOrphan \/ EndResync
        BY <1>5, <2>1, OthersRest DEF Resync
    <2> QED
        BY <2>1, <2>2, NoConflict, BeginPass, RunPass, SwapPass, ReadContributorsPass, PatchPass,
           DeletePass, FinalizePass, ForgetPass, CollectingPass DEF Run
<1> QED
    BY <1>1, <1>2, <1>3, <1>4, <1>5 DEF Next

\* A full reconcile that begins with nothing else on its way and meets no
\* failure makes up for every contributor that was lost or came back: it
\* leaves the output on the cluster if a primary wants it, and takes away one
\* that is on nobody's record.
THEOREM ResyncMakesGood == Spec => []ResyncRepairs
<1>1. ASSUME IInv, Repairs, pass = "complete"
      PROVE  InPlace
    <2>1. PICK s : s = proc["resync"]
        OBVIOUS
    <2>2. Progress(s) /\ s.pc = "idle" /\ s.todo = {} /\ s.cur = None
        BY <1>1, <2>1 DEF Repairs, Progress, IInv, TypeOK, Procs
    <2>3. (\A p \in Primaries : Exists(p) => Served(p)) /\ (live # Absent => last # {})
        BY <2>2, ValuesAssumption DEF Progress, Current
    <2>4. last \subseteq Primaries
        BY <1>1 DEF IInv, TypeOK
    <2> QED
        BY <2>3, <2>4 DEF InPlace, Wanting, Stranded, Served
<1>2. Init => IInv /\ Repairs
    BY InitInv DEF Init, Repairs
<1>3. IInv /\ Repairs /\ [Next]_vars => IInv' /\ Repairs'
    BY NextInv, NextRepairs
<1>4. IInv /\ Repairs => ResyncRepairs
    BY <1>1 DEF ResyncRepairs
<1> QED
    BY <1>2, <1>3, <1>4, PTL DEF Spec
===============================================================================
