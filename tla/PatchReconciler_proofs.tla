----------------------- MODULE PatchReconciler_proofs -----------------------
(***************************************************************************)
(* However many primaries, targets and calls that fail there are: as long  *)
(* as no two goroutines work on the same primary at the same time and no   *)
(* crash loses the record, no contribution is forgotten, and the finalizer *)
(* goes only after the contributions have gone.                            *)
(***************************************************************************)
EXTENDS PatchReconciler, FiniteSetTheorems, TLAPS

\* The goroutine whose record is r is going to put t on record for p.
Holds(r, p, t) == /\ r.cur = p
                  /\ \/ r.pc \in {"apply", "clone"} /\ t \in r.want
                     \/ r.pc = "revert" /\ t \in r.left \cup r.final

\* If the goroutine works on p, to which t still belongs, then what it has
\* left to do includes t.
Minds(r, p, t) == r.cur = p => /\ r.pc = "revert" => t \in r.left \cup r.final
                               /\ r.pc = "undo" => t \in r.left
                               /\ r.pc # "forget"

Exempt(p, t) == <<t, p>> \in lost \/ p \in overlapped

Recorded == \A p \in Primaries, t \in Targets :
    p \in api[t] => \/ Exempt(p, t)
                    \/ /\ t \in lastPatches[p] \/ \E w \in Procs : Holds(proc[w], p, t)
                       /\ \A w \in Procs : Minds(proc[w], p, t)

\* Two goroutines at work on the same primary have been noticed.
Alone == \A p \in Primaries : \A v, w \in Procs :
    v # w /\ proc[v].cur = p /\ proc[w].cur = p => p \in overlapped

Working == {"guard", "read", "call", "apply", "clone", "revert", "undo", "forget", "untrack"}

\* A run under way has a primary, and what it still has to apply is part of
\* what it wants.
UnderWay(r) == /\ r.pc \in Working => r.cur \in Primaries
               /\ r.pc = "call" => r.spec \in Specs
               /\ r.pc = "apply" => r.left \subseteq r.want

RunInv == \A w \in Procs : UnderWay(proc[w])

IInv == TypeOK /\ RunInv /\ Alone /\ Recorded

-----------------------------------------------------------------------------
(* Facts about the values the actions write *)

LEMMA SequenceOfSet ==
    ASSUME NEW S, IsFiniteSet(S)
    PROVE  SetToSeq(S) \in Seq(S)
<1>1. PICK f \in [1..Cardinality(S) -> S] : IsInjective(f)
    BY FS_CardinalityType DEF ExistsBijection, Bijection, Injection, IsInjective
<1>2. SetToSeq(S) \in [1..Cardinality(S) -> S]
    BY <1>1 DEF SetToSeq
<1>3. Cardinality(S) \in Nat
    BY FS_CardinalityType
<1> QED
    BY <1>2, <1>3

LEMMA StartQueueType ==
    ASSUME NEW store
    PROVE  StartQueue(store) \in [Handlers -> Seq(Keys)]
<1> SUFFICES ASSUME NEW h \in Handlers
             PROVE  SetToSeq({k \in KeysOf(h) : k \in Primaries => store[k] # Absent}) \in Seq(Keys)
    BY DEF StartQueue
<1> DEFINE S == {k \in KeysOf(h) : k \in Primaries => store[k] # Absent}
<1>1. S \subseteq Keys
    BY DEF KeysOf, Keys
<1>2. IsFiniteSet(S)
    BY <1>1, FS_Subset, BoundsAssumption
<1>3. SetToSeq(S) \in Seq(S)
    BY <1>2, SequenceOfSet
<1> QED
    BY <1>1, <1>3

\* A goroutine without a primary in work.
LEMMA IdleType ==
    /\ Idle \in ProcRecord /\ Idle.pc = "idle" /\ Idle.cur = None
    /\ UnderWay(Idle)
    BY DEF Idle, ProcRecord, UnderWay, Working

LEMMA ListingType ==
    ASSUME NEW store
    PROVE  /\ Listing(store) \in ProcRecord /\ Listing(store).pc = "run"
           /\ Listing(store).cur = None
           /\ UnderWay(Listing(store))
    BY DEF Listing, Idle, ProcRecord, UnderWay, Working

LEMMA OnwardType ==
    ASSUME TypeOK, NEW w \in Procs
    PROVE  /\ Onward(w) \in ProcRecord /\ Onward(w).pc = "run" /\ Onward(w).cur = None
           /\ UnderWay(Onward(w))
    BY DEF TypeOK, Onward, Idle, ProcRecord, UnderWay, Working

LEMMA StartProcsType ==
    ASSUME NEW store
    PROVE  /\ StartProcs(store) \in [Procs -> ProcRecord]
           /\ \A w \in Procs : /\ UnderWay(StartProcs(store)[w])
                                /\ StartProcs(store)[w].cur = None
    BY IdleType, ListingType DEF StartProcs

\* One object is replaced by one of its kind.
LEMMA StoreUpdate ==
    ASSUME NEW store, StoreOK(store), NEW k \in Keys, NEW obj,
           k \in Primaries => obj \in PrimaryObject \cup {Absent},
           k \in Targets => obj \in SUBSET Primaries
    PROVE  StoreOK([store EXCEPT ![k] = obj])
    BY DEF StoreOK, Keys

-----------------------------------------------------------------------------
LEMMA InitInv == Init => IInv
<1> SUFFICES ASSUME Init
             PROVE  IInv
    OBVIOUS
<1>1. PICK spec \in [Primaries -> Specs \cup {Absent}] :
          api = [k \in Keys |->
                   IF k \in Targets THEN {}
                   ELSE IF spec[k] = Absent THEN Absent
                   ELSE [spec |-> spec[k], fin |-> FALSE, deleting |-> FALSE]]
    BY DEF Init
<1>2. /\ \A t \in Targets : api[t] = {}
      /\ \A p \in Primaries : api[p] = IF spec[p] = Absent THEN Absent
                  ELSE [spec |-> spec[p], fin |-> FALSE, deleting |-> FALSE]
      /\ api = [k \in Keys |-> api[k]]
    BY <1>1, FunctionAssumption DEF Keys
<1>3. ASSUME NEW p \in Primaries, spec[p] # Absent
      PROVE  [spec |-> spec[p], fin |-> FALSE, deleting |-> FALSE] \in PrimaryObject
    <2>1. spec[p] \in Specs
        BY <1>3
    <2> QED
        BY <2>1 DEF PrimaryObject
<1>4. StoreOK(api)
    BY <1>2, <1>3 DEF StoreOK
<1>5. TypeOK
    BY <1>4, StartQueueType, StartProcsType, BoundsAssumption DEF TypeOK, Init
<1>6. RunInv /\ Alone
    BY StartProcsType, NoneAssumption DEF Init, RunInv, Alone
<1>7. Recorded
    BY <1>2 DEF Recorded
<1> QED
    BY <1>5, <1>6, <1>7 DEF IInv

-----------------------------------------------------------------------------
(* Users, the watch and crashes *)

LEMMA ChangeInv ==
    ASSUME IInv, NEW k \in Keys, NEW obj, Change(k, obj),
           k \in Primaries => obj \in PrimaryObject \cup {Absent},
           k \in Targets => obj \in SUBSET api[k]
    PROVE  IInv'
<1>1. k \in Targets => obj \in SUBSET Primaries
    BY DEF IInv, TypeOK, StoreOK
<1>2. StoreOK(api') /\ \A t \in Targets : api'[t] \subseteq api[t]
    <2>1. StoreOK(api) /\ api' = [api EXCEPT ![k] = obj]
        BY DEF Change, IInv, TypeOK
    <2>2. StoreOK(api')
        BY <1>1, <2>1, StoreUpdate
    <2>3. \A x \in Keys : api'[x] = IF x = k THEN obj ELSE api[x]
        BY <2>1 DEF StoreOK
    <2> QED
        BY <2>2, <2>3 DEF Keys
<1>3. TypeOK'
    BY <1>2, BoundsAssumption DEF Change, manager, history, IInv, TypeOK, StoreOK
<1>4. RunInv' /\ Alone'
    BY DEF Change, manager, history, IInv, RunInv, Alone
<1>5. Recorded'
    BY <1>2 DEF Change, manager, history, IInv, Recorded, Exempt
<1> QED
    BY <1>3, <1>4, <1>5 DEF IInv

LEMMA UsersInv == IInv /\ Users => IInv'
<1> SUFFICES ASSUME IInv, Users
             PROVE  IInv'
    OBVIOUS
<1>1. ASSUME NEW p \in Primaries, NEW s \in Specs, CreatePrimary(p, s)
      PROVE  IInv'
    <2> DEFINE obj == [spec |-> s, fin |-> FALSE, deleting |-> FALSE]
    <2>1. obj \in PrimaryObject /\ Change(p, obj)
        BY <1>1 DEF CreatePrimary, PrimaryObject
    <2> HIDE DEF obj
    <2> QED
        BY <2>1, ChangeInv, FunctionAssumption DEF Keys
<1>2. ASSUME NEW p \in Primaries, NEW s \in Specs, UpdatePrimary(p, s)
      PROVE  IInv'
    <2> DEFINE obj == [api[p] EXCEPT !.spec = s]
    <2>1. api[p] \in PrimaryObject
        BY <1>2 DEF UpdatePrimary, Exists, IInv, TypeOK, StoreOK
    <2>2. obj \in PrimaryObject /\ Change(p, obj)
        BY <1>2, <2>1 DEF UpdatePrimary, PrimaryObject
    <2> HIDE DEF obj
    <2> QED
        BY <2>2, ChangeInv, FunctionAssumption DEF Keys
<1>3. ASSUME NEW p \in Primaries, DeletePrimary(p)
      PROVE  IInv'
    <2> DEFINE obj == IF api[p].fin THEN [api[p] EXCEPT !.deleting = TRUE] ELSE Absent
    <2>1. api[p] \in PrimaryObject
        BY <1>3 DEF DeletePrimary, Exists, IInv, TypeOK, StoreOK
    <2>2. obj \in PrimaryObject \cup {Absent} /\ Change(p, obj)
        BY <1>3, <2>1 DEF DeletePrimary, PrimaryObject
    <2> HIDE DEF obj
    <2> QED
        BY <2>2, ChangeInv, FunctionAssumption DEF Keys
<1>4. ASSUME NEW t \in Targets, NEW p \in Primaries, Overwrite(t, p)
      PROVE  IInv'
    BY <1>4, ChangeInv, FunctionAssumption DEF Overwrite, Keys
<1> QED
    BY <1>1, <1>2, <1>3, <1>4 DEF Users

LEMMA ClusterInv == IInv /\ Cluster => IInv'
<1> SUFFICES ASSUME IInv, Cluster
             PROVE  IInv'
    OBVIOUS
<1>1. PICK k \in Keys : /\ cache' = [cache EXCEPT ![k] = api[k]]
                        /\ \/ queue' = queue
                           \/ \E h \in Handlers : queue' = [queue EXCEPT ![h] = Append(@, k)]
    BY DEF Cluster, Deliver, Refresh, manager, KeysOf, Keys
<1>2. UNCHANGED <<api, tracked, lastPatches, proc, bounds, history>>
    BY DEF Cluster, Deliver, Refresh, manager
<1>3. queue' \in [Handlers -> Seq(Keys)]
    <2>1. queue \in [Handlers -> Seq(Keys)]
        BY DEF IInv, TypeOK
    <2>2. ASSUME NEW h \in Handlers, queue' = [queue EXCEPT ![h] = Append(@, k)]
          PROVE  queue' \in [Handlers -> Seq(Keys)]
        BY <2>1, <2>2
    <2> QED
        BY <1>1, <2>1, <2>2
<1>4. StoreOK(cache')
    <2>1. /\ StoreOK(cache)
          /\ k \in Primaries => api[k] \in PrimaryObject \cup {Absent}
          /\ k \in Targets => api[k] \in SUBSET Primaries
        BY DEF IInv, TypeOK, StoreOK
    <2> QED
        BY <1>1, <2>1, StoreUpdate
<1>5. TypeOK'
    BY <1>2, <1>3, <1>4 DEF bounds, history, IInv, TypeOK, StoreOK
<1>6. RunInv' /\ Alone' /\ Recorded'
    BY <1>2 DEF history, IInv, RunInv, Alone, Recorded, Exempt
<1> QED
    BY <1>5, <1>6 DEF IInv

LEMMA RestartInv == IInv /\ Restart => IInv'
<1> SUFFICES ASSUME IInv, Restart
             PROVE  IInv'
    OBVIOUS
<1>1. proc' = StartProcs(api) /\ queue' = StartQueue(api) /\ lost' = Contributions
    BY DEF Restart
<1>2. TypeOK'
    BY <1>1, StartQueueType, StartProcsType, BoundsAssumption
       DEF Restart, Contributions, IInv, TypeOK, StoreOK
<1>3. RunInv' /\ Alone'
    BY <1>1, StartProcsType, NoneAssumption DEF RunInv, Alone
<1>4. \A p \in Primaries, t \in Targets : p \in api'[t] => <<t, p>> \in lost'
    BY <1>1 DEF Restart, Contributions
<1>5. Recorded'
    BY <1>4 DEF Recorded, Exempt
<1> QED
    BY <1>2, <1>3, <1>5 DEF IInv

-----------------------------------------------------------------------------
(* The goroutines *)

\* What a goroutine's own step never changes, and the types of the rest.
Typed == /\ UNCHANGED <<cache, changes, restarts, lost>>
         /\ StoreOK(api')
         /\ queue' \in [Handlers -> Seq(Keys)]
         /\ tracked' \in [Primaries -> SUBSET Targets]
         /\ lastPatches' \in [Primaries -> SUBSET Targets]
         /\ failures' \in 0..MaxFailures
         /\ overlapped' \in SUBSET Primaries

\* A goroutine takes the record r.
LEMMA ProcStepInv ==
    ASSUME IInv, NEW w \in Procs, NEW r \in ProcRecord, proc' = [proc EXCEPT ![w] = r],
           UnderWay(r), Typed, overlapped \subseteq overlapped',
           \A p \in Primaries : \A v \in Procs \ {w} :
               r.cur = p /\ proc[v].cur = p => p \in overlapped',
           \A p \in Primaries, t \in Targets :
               p \in api'[t] /\ <<t, p>> \notin lost /\ p \notin overlapped' =>
                  /\ \/ t \in lastPatches'[p]
                     \/ Holds(r, p, t)
                     \/ \E v \in Procs \ {w} : Holds(proc[v], p, t)
                  /\ Minds(r, p, t)
                  /\ \A v \in Procs \ {w} : Minds(proc[v], p, t)
    PROVE  IInv'
<1>1. /\ proc' \in [Procs -> ProcRecord]
      /\ proc'[w] = r
      /\ \A v \in Procs \ {w} : proc'[v] = proc[v]
    BY DEF IInv, TypeOK
<1>2. TypeOK'
    BY <1>1 DEF Typed, IInv, TypeOK, StoreOK
<1>3. RunInv'
    BY <1>1 DEF IInv, RunInv
<1>4. Alone'
    BY <1>1 DEF IInv, Alone
<1>5. Recorded'
    <2> SUFFICES ASSUME NEW p \in Primaries, NEW t \in Targets,
                        p \in api'[t], <<t, p>> \notin lost, p \notin overlapped'
                 PROVE  /\ t \in lastPatches'[p] \/ \E v \in Procs : Holds(proc'[v], p, t)
                        /\ \A v \in Procs : Minds(proc'[v], p, t)
        BY DEF Recorded, Exempt, Typed
    <2> QED
        BY <1>1
<1> QED
    BY <1>2, <1>3, <1>4, <1>5 DEF IInv

\* The same when contributions, records and history stay: what the goroutine
\* was going to put on record it still is.
LEMMA QuietStepInv ==
    ASSUME IInv, NEW w \in Procs, NEW r \in ProcRecord, proc' = [proc EXCEPT ![w] = r],
           UnderWay(r), Typed, UNCHANGED <<lastPatches, overlapped>>,
           \A t \in Targets : api'[t] = api[t],
           r.cur \in {proc[w].cur, None},
           \A p \in Primaries, t \in Targets : Holds(proc[w], p, t) => Holds(r, p, t),
           \A p \in Primaries, t \in Targets : Minds(proc[w], p, t) => Minds(r, p, t)
    PROVE  IInv'
<1>1. \A p \in Primaries : \A v \in Procs \ {w} :
          r.cur = p /\ proc[v].cur = p => p \in overlapped'
    BY NoneAssumption DEF IInv, Alone
<1>2. ASSUME NEW p \in Primaries, NEW t \in Targets,
             p \in api'[t], <<t, p>> \notin lost, p \notin overlapped'
      PROVE  /\ \/ t \in lastPatches'[p]
                \/ Holds(r, p, t)
                \/ \E v \in Procs \ {w} : Holds(proc[v], p, t)
             /\ Minds(r, p, t)
             /\ \A v \in Procs \ {w} : Minds(proc[v], p, t)
    <2>1. /\ t \in lastPatches[p] \/ \E v \in Procs : Holds(proc[v], p, t)
          /\ \A v \in Procs : Minds(proc[v], p, t)
        BY <1>2 DEF IInv, Recorded, Exempt
    <2> QED
        BY <2>1
<1> QED
    BY <1>1, <1>2, ProcStepInv

\* Before the first apply: the handler and the ticker take up work, a run
\* looks its primary up and updates the tracker.
LEMMA StartingInv ==
    ASSUME IInv, NEW w \in Procs,
           \/ w \in Handlers /\ Dequeue(w)
           \/ w = "resync" /\ StartResync
           \/ Finish(w)
    PROVE  IInv'
<1>1. proc[w] \in ProcRecord /\ TypeOK
    BY DEF IInv, TypeOK
<1>2. CASE w \in Handlers /\ Dequeue(w)
    <2> DEFINE k == Head(queue[w])
               refs == IF k \in Primaries THEN {k} ELSE {p \in Primaries : k \in tracked[p]}
               r == [Idle EXCEPT !.pc = "run", !.todo = refs,
                                 !.doomed = {p \in {k} \cap Primaries : Deleting(cache[p])}]
    <2>1. k \in Keys /\ queue' \in [Handlers -> Seq(Keys)]
        BY <1>2 DEF Dequeue, IInv, TypeOK
    <2>2. r \in ProcRecord /\ r.pc = "run" /\ r.cur = None
        BY DEF Idle, ProcRecord
    <2>3. proc' = [proc EXCEPT ![w] = r] /\ proc[w].pc = "idle"
        BY <1>2 DEF Dequeue
    <2>4. Typed /\ UNCHANGED <<api, lastPatches, overlapped>>
        BY <1>2, <2>1 DEF Dequeue, Typed, bounds, history, IInv, TypeOK
    <2> HIDE DEF r
    <2> QED
        BY <2>2, <2>3, <2>4, QuietStepInv, NoneAssumption DEF UnderWay, Working, Holds, Minds
<1>3. CASE w = "resync" /\ StartResync
    <2> DEFINE r == Listing(cache)
    <2>1. r \in ProcRecord /\ UnderWay(r) /\ r.pc = "run" /\ r.cur = None
        BY ListingType
    <2>2. proc' = [proc EXCEPT ![w] = r] /\ proc[w].pc = "idle"
        BY <1>3 DEF StartResync
    <2>3. Typed /\ UNCHANGED <<api, lastPatches, overlapped>>
        BY <1>3 DEF StartResync, Typed, bounds, history, IInv, TypeOK
    <2> HIDE DEF r
    <2> QED
        BY <2>1, <2>2, <2>3, QuietStepInv, NoneAssumption DEF Holds, Minds
<1>4. CASE Finish(w)
    <2>1. proc' = [proc EXCEPT ![w] = Idle] /\ proc[w].pc = "run"
        BY <1>4 DEF Finish
    <2>2. Typed /\ UNCHANGED <<api, lastPatches, overlapped>>
        BY <1>4 DEF Finish, Typed, bounds, history, IInv, TypeOK
    <2> QED
        BY <2>1, <2>2, IdleType, QuietStepInv, NoneAssumption DEF Holds, Minds
<1> QED
    BY <1>2, <1>3, <1>4

\* A goroutine turns to p: if another one is at work on it, that is noticed.
LEMMA MeetingNoticed ==
    ASSUME IInv, NEW w \in Procs, NEW p \in Primaries, overlapped' = Meeting(w, p)
    PROVE  /\ overlapped' \in SUBSET Primaries /\ overlapped \subseteq overlapped'
           /\ \A v \in Procs \ {w} : proc[v].cur = p => p \in overlapped'
    BY DEF Meeting, IInv, TypeOK

LEMMA BeginInv ==
    ASSUME IInv, NEW w \in Procs, NEW p \in Primaries, Begin(w, p)
    PROVE  IInv'
<1> DEFINE r == [proc[w] EXCEPT
                    !.todo = @ \ {p},
                    !.cur = IF cache[p] = Absent \/ Deleting(cache[p]) THEN None ELSE p,
                    !.pc = CASE cache[p] = Absent \/ Deleting(cache[p]) -> "run"
                             [] OTHER -> IF cache[p].fin THEN "read" ELSE "guard"]
<1>1. proc[w] \in ProcRecord /\ proc[w].pc = "run"
    BY DEF Begin, IInv, TypeOK
<1>2. proc' = [proc EXCEPT ![w] = r]
    BY DEF Begin
<1>3. /\ r \in ProcRecord /\ r.pc \in {"run", "read", "guard"} /\ r.cur \in {p, None}
      /\ r.pc # "run" => r.cur = p
    BY <1>1 DEF ProcRecord
<1>4. Typed /\ UNCHANGED <<api, lastPatches>>
    BY MeetingNoticed DEF Begin, Typed, bounds, IInv, TypeOK
<1> HIDE DEF r
<1>5. UnderWay(r) /\ \A q \in Primaries, t \in Targets : Minds(r, q, t)
    BY <1>3 DEF UnderWay, Working, Minds
<1>6. /\ overlapped \subseteq overlapped'
      /\ \A v \in Procs \ {w} : proc[v].cur = p => p \in overlapped'
    BY MeetingNoticed DEF Begin
<1>7. \A q \in Primaries, t \in Targets : ~Holds(proc[w], q, t)
    BY <1>1 DEF Holds
<1>8. ASSUME NEW q \in Primaries, NEW t \in Targets,
             q \in api'[t], <<t, q>> \notin lost, q \notin overlapped'
      PROVE  /\ t \in lastPatches'[q] \/ \E v \in Procs \ {w} : Holds(proc[v], q, t)
             /\ \A v \in Procs \ {w} : Minds(proc[v], q, t)
    <2>1. /\ t \in lastPatches[q] \/ \E v \in Procs : Holds(proc[v], q, t)
          /\ \A v \in Procs : Minds(proc[v], q, t)
        BY <1>4, <1>6, <1>8 DEF IInv, Recorded, Exempt
    <2> QED
        BY <1>4, <1>7, <2>1
<1> QED
    BY <1>2, <1>3, <1>4, <1>5, <1>6, <1>8, ProcStepInv, NoneAssumption

\* The finalizer is added, the primary is read again, the function is called.
LEMMA ReadingInv ==
    ASSUME IInv, NEW w \in Procs,
           AddFinalizer(w) \/ AddFinalizerFails(w) \/ Read(w) \/ SetDeps(w)
    PROVE  IInv'
<1>1. /\ proc[w] \in ProcRecord /\ TypeOK
      /\ proc[w].pc \in {"guard", "read", "call"}
      /\ proc[w].cur \in Primaries
    BY DEF AddFinalizer, AddFinalizerFails, Read, SetDeps, IInv, TypeOK, RunInv, UnderWay, Working
<1>2. CASE AddFinalizer(w) \/ AddFinalizerFails(w)
    <2> DEFINE r == [proc[w] EXCEPT !.pc = "read"]
               p == proc[w].cur
    <2>1. r \in ProcRecord /\ r.pc = "read" /\ r.cur = proc[w].cur
        BY <1>1 DEF ProcRecord
    <2>2. proc' = [proc EXCEPT ![w] = r]
        BY <1>2 DEF AddFinalizer, AddFinalizerFails
    <2>3. api' = api \/ (api[p] \in PrimaryObject /\ api' = [api EXCEPT ![p] = [api[p] EXCEPT !.fin = TRUE]])
        BY <1>1, <1>2 DEF AddFinalizer, AddFinalizerFails, Exists, IInv, TypeOK, StoreOK
    <2>4. StoreOK(api') /\ \A t \in Targets : api'[t] = api[t]
        <3>1. CASE api' = api
            BY <3>1 DEF IInv, TypeOK, StoreOK
        <3>2. CASE api[p] \in PrimaryObject /\ api' = [api EXCEPT ![p] = [api[p] EXCEPT !.fin = TRUE]]
            <4> DEFINE obj == [api[p] EXCEPT !.fin = TRUE]
            <4>1. obj \in PrimaryObject
                BY <3>2 DEF PrimaryObject
            <4> HIDE DEF obj
            <4>2. StoreOK(api')
                BY <1>1, <3>2, <4>1, StoreUpdate, FunctionAssumption DEF TypeOK, Keys, obj
            <4>3. \A k \in Keys : k # p => api'[k] = api[k]
                BY <1>1, <3>2 DEF TypeOK, StoreOK
            <4> QED
                BY <1>1, <4>2, <4>3, FunctionAssumption DEF Keys
        <3> QED
            BY <2>3, <3>1, <3>2
    <2>5. Typed /\ UNCHANGED <<lastPatches, overlapped>>
        BY <1>2, <2>4, BoundsAssumption
           DEF AddFinalizer, AddFinalizerFails, Typed, bounds, history, IInv, TypeOK
    <2> HIDE DEF r
    <2> QED
        BY <1>1, <2>1, <2>2, <2>4, <2>5, QuietStepInv DEF UnderWay, Working, Holds, Minds, AddFinalizer
<1>3. CASE Read(w)
    <2> DEFINE p == proc[w].cur
               r == IF cache[p] = Absent THEN Onward(w)
                    ELSE [proc[w] EXCEPT !.pc = "call", !.spec = cache[p].spec]
    <2>1. cache[p] # Absent => cache[p].spec \in Specs
        BY <1>1 DEF TypeOK, StoreOK, PrimaryObject
    <2>2. /\ r \in ProcRecord
          /\ \/ r.pc = "run" /\ r.cur = None
             \/ r.pc = "call" /\ r.cur = p /\ r.spec \in Specs
        BY <1>1, <2>1, OnwardType DEF ProcRecord
    <2>3. proc' = [proc EXCEPT ![w] = r] /\ proc[w].pc = "read"
        BY <1>3 DEF Read
    <2>4. Typed /\ UNCHANGED <<api, lastPatches, overlapped>>
        BY <1>3 DEF Read, Typed, bounds, history, IInv, TypeOK
    <2> HIDE DEF r
    <2> QED
        BY <1>1, <2>2, <2>3, <2>4, QuietStepInv, NoneAssumption DEF UnderWay, Working, Holds, Minds
<1>4. CASE SetDeps(w)
    <2> DEFINE want == Wanted(proc[w].cur, proc[w].spec)
               r == [proc[w] EXCEPT !.pc = "apply", !.want = want, !.left = want]
    <2>1. proc[w].pc = "call" /\ proc[w].spec \in Specs
        BY <1>4 DEF SetDeps, IInv, RunInv, UnderWay
    <2>2. want \in SUBSET Targets
        BY <1>1, <2>1, FunctionAssumption
    <2> HIDE DEF want
    <2>3. r \in ProcRecord /\ r.pc = "apply" /\ r.cur = proc[w].cur /\ r.left = r.want
        BY <1>1, <2>2 DEF ProcRecord
    <2>4. proc' = [proc EXCEPT ![w] = r]
        BY <1>4 DEF SetDeps, want
    <2>5. Typed /\ UNCHANGED <<api, lastPatches, overlapped>>
        BY <1>1, <1>4 DEF SetDeps, Typed, bounds, history, IInv, TypeOK
    <2> HIDE DEF r
    <2> QED
        BY <1>1, <2>1, <2>3, <2>4, <2>5, QuietStepInv DEF UnderWay, Working, Holds, Minds
<1> QED
    BY <1>2, <1>3, <1>4

\* A target gains or loses contributions.
LEMMA TargetUpdate ==
    ASSUME StoreOK(api), NEW t \in Targets, NEW obj \in SUBSET Primaries,
           api' = [api EXCEPT ![t] = obj]
    PROVE  StoreOK(api') /\ \A x \in Targets : api'[x] = IF x = t THEN obj ELSE api[x]
<1>1. StoreOK(api')
    BY StoreUpdate, FunctionAssumption DEF Keys
<1>2. \A k \in Keys : api'[k] = IF k = t THEN obj ELSE api[k]
    BY DEF StoreOK
<1> QED
    BY <1>1, <1>2 DEF Keys

\* A goroutine that is alone with its primary p knows about p's contributions.
LEMMA OwnContributions ==
    ASSUME IInv, NEW w \in Procs, NEW p \in Primaries, proc[w].cur = p, p \notin overlapped
    PROVE  /\ \A v \in Procs \ {w} : proc[v].cur # p
           /\ \A t \in Targets : p \in api[t] /\ <<t, p>> \notin lost =>
                 /\ t \in lastPatches[p] \/ Holds(proc[w], p, t)
                 /\ Minds(proc[w], p, t)
<1>1. \A v \in Procs \ {w} : proc[v].cur # p
    BY DEF IInv, Alone
<1>2. \A v \in Procs \ {w}, t \in Targets : ~Holds(proc[v], p, t)
    BY <1>1 DEF Holds
<1> QED
    BY <1>1, <1>2 DEF IInv, Recorded, Exempt

\* A step of w that changes contributions or records of its primary only:
\* what has to be shown is that it leaves those in order.
LEMMA OwnStepInv ==
    ASSUME IInv, NEW w \in Procs, NEW r \in ProcRecord, proc' = [proc EXCEPT ![w] = r],
           NEW p \in Primaries, proc[w].cur = p, r.cur \in {p, None},
           UnderWay(r), Typed, overlapped' = overlapped,
           \A q \in Primaries \ {p}, t \in Targets : q \in api'[t] => q \in api[t],
           \A q \in Primaries \ {p} : lastPatches'[q] = lastPatches[q],
           \A t \in Targets : p \in api'[t] /\ <<t, p>> \notin lost /\ p \notin overlapped =>
               (t \in lastPatches'[p] \/ Holds(r, p, t)) /\ Minds(r, p, t)
    PROVE  IInv'
<1>1. \A q \in Primaries : \A v \in Procs \ {w} :
          r.cur = q /\ proc[v].cur = q => q \in overlapped'
    BY NoneAssumption DEF IInv, Alone
<1>2. ASSUME NEW q \in Primaries, NEW t \in Targets,
             q \in api'[t], <<t, q>> \notin lost, q \notin overlapped'
      PROVE  /\ \/ t \in lastPatches'[q]
                \/ Holds(r, q, t)
                \/ \E v \in Procs \ {w} : Holds(proc[v], q, t)
             /\ Minds(r, q, t)
             /\ \A v \in Procs \ {w} : Minds(proc[v], q, t)
    <2>1. CASE q = p
        <3>1. (t \in lastPatches'[q] \/ Holds(r, q, t)) /\ Minds(r, q, t)
            BY <1>2, <2>1
        <3>2. \A v \in Procs \ {w} : proc[v].cur # q
            BY <1>2, <2>1, OwnContributions
        <3> QED
            BY <3>1, <3>2 DEF Minds
    <2>2. CASE q # p
        <3>1. q \in api[t] /\ lastPatches'[q] = lastPatches[q]
            BY <1>2, <2>2
        <3>2. ~Holds(proc[w], q, t) /\ Minds(r, q, t)
            BY <2>2, NoneAssumption DEF Holds, Minds
        <3>3. /\ t \in lastPatches[q] \/ \E v \in Procs : Holds(proc[v], q, t)
              /\ \A v \in Procs : Minds(proc[v], q, t)
            BY <1>2, <3>1 DEF IInv, Recorded, Exempt
        <3> QED
            BY <3>1, <3>2, <3>3
    <2> QED
        BY <2>1, <2>2
<1> QED
    BY <1>1, <1>2, ProcStepInv

\* Applying: what is applied is going to be put on record.
LEMMA ApplyInv ==
    ASSUME IInv, NEW w \in Procs, NEW t \in Targets, Apply(w, t) \/ ApplyFails(w, t)
    PROVE  IInv'
<1> DEFINE p == proc[w].cur
           r == [proc[w] EXCEPT !.left = @ \ {t}]
<1>1. /\ proc[w] \in ProcRecord /\ TypeOK
      /\ proc[w].pc = "apply" /\ p \in Primaries
      /\ t \in proc[w].want /\ proc[w].left \subseteq proc[w].want
    BY DEF Apply, ApplyFails, IInv, TypeOK, RunInv, UnderWay, Working
<1>2. /\ r \in ProcRecord /\ r.pc = "apply" /\ r.cur = p /\ r.want = proc[w].want
      /\ r.left \subseteq r.want
    BY <1>1 DEF ProcRecord
<1>3. proc' = [proc EXCEPT ![w] = r]
    BY DEF Apply, ApplyFails
<1> HIDE DEF r
<1>4. UnderWay(r)
    BY <1>1, <1>2 DEF UnderWay
<1>5. CASE Apply(w, t)
    <2>1. api' = [api EXCEPT ![t] = api[t] \cup {p}] /\ StoreOK(api)
          /\ api[t] \cup {p} \in SUBSET Primaries
        BY <1>1, <1>5 DEF Apply, TypeOK, StoreOK
    <2>2. StoreOK(api') /\ \A x \in Targets : api'[x] = IF x = t THEN api[t] \cup {p} ELSE api[x]
        BY <2>1, TargetUpdate
    <2>3. Typed /\ lastPatches' = lastPatches /\ overlapped' = overlapped
        BY <1>5, <2>2 DEF Apply, Typed, bounds, history, IInv, TypeOK
    <2>4. ASSUME NEW x \in Targets, p \in api'[x], <<x, p>> \notin lost, p \notin overlapped
          PROVE  (x \in lastPatches'[p] \/ Holds(r, p, x)) /\ Minds(r, p, x)
        <3>1. CASE x = t
            BY <1>1, <1>2, <3>1 DEF Holds, Minds
        <3>2. CASE x # t
            <4>1. x \in lastPatches[p] \/ Holds(proc[w], p, x)
                BY <1>1, <2>2, <2>4, <3>2, OwnContributions
            <4> QED
                BY <1>1, <1>2, <2>3, <4>1 DEF Holds, Minds
        <3> QED
            BY <3>1, <3>2
    <2> HIDE DEF p
    <2> QED
        BY <1>1, <1>2, <1>3, <1>4, <2>2, <2>3, <2>4, OwnStepInv DEF p
<1>6. CASE ApplyFails(w, t)
    <2>1. Typed /\ UNCHANGED <<api, lastPatches, overlapped>>
        BY <1>6, BoundsAssumption DEF ApplyFails, Typed, history, IInv, TypeOK
    <2> QED
        BY <1>1, <1>2, <1>3, <1>4, <2>1, QuietStepInv DEF Holds, Minds
<1> QED
    BY <1>5, <1>6

LEMMA TrackTargetsInv ==
    ASSUME IInv, NEW w \in Procs, TrackTargets(w)
    PROVE  IInv'
<1> DEFINE r == [proc[w] EXCEPT !.pc = "clone"]
<1>1. /\ proc[w] \in ProcRecord /\ proc[w].pc = "apply" /\ proc[w].cur \in Primaries
      /\ proc[w].want \in SUBSET Targets
    BY DEF TrackTargets, IInv, TypeOK, RunInv, UnderWay, Working, ProcRecord
<1>2. r \in ProcRecord /\ r.pc = "clone" /\ r.cur = proc[w].cur /\ r.want = proc[w].want
    BY <1>1 DEF ProcRecord
<1>3. proc' = [proc EXCEPT ![w] = r]
    BY DEF TrackTargets
<1>4. Typed /\ UNCHANGED <<api, lastPatches, overlapped>>
    BY <1>1 DEF TrackTargets, Typed, bounds, history, IInv, TypeOK
<1> HIDE DEF r
<1> QED
    BY <1>1, <1>2, <1>3, <1>4, QuietStepInv DEF UnderWay, Working, Holds, Minds

\* Copying the record: every contribution is wanted or about to be reverted.
LEMMA ClonePreviousInv ==
    ASSUME IInv, NEW w \in Procs, ClonePrevious(w)
    PROVE  IInv'
<1> DEFINE p == proc[w].cur
           r == [proc[w] EXCEPT !.pc = "revert", !.final = proc[w].want,
                                !.left = lastPatches[proc[w].cur] \ proc[w].want]
<1>1. proc[w] \in ProcRecord /\ proc[w].pc = "clone" /\ p \in Primaries
    BY DEF ClonePrevious, IInv, TypeOK, RunInv, UnderWay, Working
<1>2. lastPatches[p] \in SUBSET Targets
    BY <1>1 DEF IInv, TypeOK
<1>3. /\ r \in ProcRecord /\ r.pc = "revert" /\ r.cur = p /\ r.final = proc[w].want
      /\ r.left = lastPatches[p] \ proc[w].want
    BY <1>1, <1>2 DEF ProcRecord
<1>4. proc' = [proc EXCEPT ![w] = r]
    BY DEF ClonePrevious
<1>5. Typed /\ UNCHANGED <<api, lastPatches, overlapped>>
    BY DEF ClonePrevious, Typed, bounds, history, IInv, TypeOK
<1> HIDE DEF r
<1>6. UnderWay(r)
    BY <1>1, <1>3 DEF UnderWay
<1>7. ASSUME NEW x \in Targets, p \in api'[x], <<x, p>> \notin lost, p \notin overlapped
      PROVE  (x \in lastPatches'[p] \/ Holds(r, p, x)) /\ Minds(r, p, x)
    <2>1. x \in lastPatches[p] \/ Holds(proc[w], p, x)
        BY <1>1, <1>5, <1>7, OwnContributions
    <2>2. x \in r.left \cup r.final
        BY <1>1, <1>3, <2>1 DEF Holds
    <2> QED
        BY <1>3, <2>2 DEF Holds, Minds
<1> HIDE DEF p
<1> QED
    BY <1>1, <1>3, <1>4, <1>5, <1>6, <1>7, OwnStepInv DEF p

\* Reverting: a target leaves the list when its contribution is gone, or goes
\* back on record.
LEMMA RevertInv ==
    ASSUME IInv, NEW w \in Procs, NEW t \in Targets, Revert(w, t) \/ RevertFails(w, t)
    PROVE  IInv'
<1> DEFINE p == proc[w].cur
<1>1. /\ proc[w] \in ProcRecord /\ TypeOK
      /\ proc[w].pc = "revert" /\ t \in proc[w].left /\ p \in Primaries
    BY DEF Revert, RevertFails, IInv, TypeOK, RunInv, UnderWay, Working
<1>2. CASE Revert(w, t)
    <2> DEFINE r == [proc[w] EXCEPT !.left = @ \ {t}]
    <2>1. /\ r \in ProcRecord /\ r.pc = "revert" /\ r.cur = p
          /\ r.left = proc[w].left \ {t} /\ r.final = proc[w].final
        BY <1>1 DEF ProcRecord
    <2>2. proc' = [proc EXCEPT ![w] = r]
        BY <1>2 DEF Revert
    <2> HIDE DEF r
    <2>3. /\ api' = [api EXCEPT ![t] = api[t] \ {p}] /\ StoreOK(api)
          /\ api[t] \ {p} \in SUBSET Primaries
        BY <1>1, <1>2 DEF Revert, TypeOK, StoreOK
    <2>4. StoreOK(api') /\ \A x \in Targets : api'[x] = IF x = t THEN api[t] \ {p} ELSE api[x]
        BY <2>3, TargetUpdate
    <2>5. Typed /\ UNCHANGED <<lastPatches, overlapped>>
        BY <1>2, <2>4 DEF Revert, Typed, bounds, history, IInv, TypeOK
    <2>6. ASSUME NEW x \in Targets, p \in api'[x], <<x, p>> \notin lost, p \notin overlapped
          PROVE  (x \in lastPatches'[p] \/ Holds(r, p, x)) /\ Minds(r, p, x)
        <3>1. x # t /\ p \in api[x]
            BY <2>4, <2>6
        <3>2. Minds(proc[w], p, x)
            BY <1>1, <2>6, <3>1, OwnContributions
        <3> QED
            BY <1>1, <2>1, <3>1, <3>2 DEF Holds, Minds
    <2>7. UnderWay(r)
        BY <1>1, <2>1 DEF UnderWay
    <2> HIDE DEF p
    <2> QED
        BY <1>1, <2>1, <2>2, <2>4, <2>5, <2>6, <2>7, OwnStepInv DEF p
<1>3. CASE RevertFails(w, t)
    <2> DEFINE r == [proc[w] EXCEPT !.left = @ \ {t}, !.final = @ \cup {t}]
    <2>1. /\ r \in ProcRecord /\ r.pc = "revert" /\ r.cur = p
          /\ r.left = proc[w].left \ {t} /\ r.final = proc[w].final \cup {t}
        BY <1>1 DEF ProcRecord
    <2>2. proc' = [proc EXCEPT ![w] = r]
        BY <1>3 DEF RevertFails
    <2>3. Typed /\ UNCHANGED <<api, lastPatches, overlapped>>
        BY <1>3, BoundsAssumption DEF RevertFails, Typed, history, IInv, TypeOK
    <2> HIDE DEF r
    <2>4. \A q \in Primaries, x \in Targets :
              /\ Holds(proc[w], q, x) => Holds(r, q, x)
              /\ Minds(proc[w], q, x) => Minds(r, q, x)
        BY <1>1, <2>1 DEF Holds, Minds
    <2>5. UnderWay(r)
        BY <1>1, <2>1 DEF UnderWay
    <2> QED
        BY <2>1, <2>2, <2>3, <2>4, <2>5, QuietStepInv
<1> QED
    BY <1>2, <1>3

\* Writing the record: what is left of the contributions is on it.
LEMMA RecordPatchesInv ==
    ASSUME IInv, NEW w \in Procs, RecordPatches(w)
    PROVE  IInv'
<1> DEFINE p == proc[w].cur
           r == Onward(w)
<1>1. /\ proc[w] \in ProcRecord /\ proc[w].pc = "revert" /\ proc[w].left = {}
      /\ p \in Primaries /\ TypeOK /\ proc[w].final \in SUBSET Targets
    BY DEF RecordPatches, IInv, TypeOK, RunInv, UnderWay, Working, ProcRecord
<1>2. /\ r \in ProcRecord /\ UnderWay(r) /\ r.cur = None
      /\ proc' = [proc EXCEPT ![w] = r]
    BY <1>1, OnwardType DEF RecordPatches
<1>3. lastPatches' = [lastPatches EXCEPT ![p] = proc[w].final]
    BY DEF RecordPatches
<1>4. Typed /\ UNCHANGED <<api, overlapped>>
    BY <1>1, <1>3 DEF RecordPatches, Typed, bounds, history, TypeOK
<1> HIDE DEF r
<1>5. ASSUME NEW x \in Targets, p \in api'[x], <<x, p>> \notin lost, p \notin overlapped
      PROVE  (x \in lastPatches'[p] \/ Holds(r, p, x)) /\ Minds(r, p, x)
    <2>1. Minds(proc[w], p, x)
        BY <1>1, <1>4, <1>5, OwnContributions
    <2>2. x \in proc[w].final
        BY <1>1, <2>1 DEF Minds
    <2> QED
        BY <1>1, <1>2, <1>3, <2>2, NoneAssumption DEF Minds, TypeOK
<1>6. \A q \in Primaries \ {p} : lastPatches'[q] = lastPatches[q]
    BY <1>1, <1>3 DEF TypeOK
<1> HIDE DEF p
<1> QED
    BY <1>1, <1>2, <1>4, <1>5, <1>6, OwnStepInv DEF p

-----------------------------------------------------------------------------
(* runCleanup *)

\* A cleanup starts from the record, which lists every contribution unless
\* another goroutine has some in hand, and that is noticed.
LEMMA BeginCleanupInv ==
    ASSUME IInv, NEW w \in Procs, NEW p \in Primaries, BeginCleanup(w, p)
    PROVE  IInv'
<1> DEFINE r == [proc[w] EXCEPT !.todo = @ \ {p}, !.cur = p, !.pc = "undo", !.left = lastPatches[p]]
<1>1. proc[w] \in ProcRecord /\ proc[w].pc = "run" /\ lastPatches[p] \in SUBSET Targets
    BY DEF BeginCleanup, IInv, TypeOK
<1>2. proc' = [proc EXCEPT ![w] = r]
    BY DEF BeginCleanup
<1>3. r \in ProcRecord /\ r.pc = "undo" /\ r.cur = p /\ r.left = lastPatches[p]
    BY <1>1 DEF ProcRecord
<1>4. Typed /\ UNCHANGED <<api, lastPatches>>
    BY MeetingNoticed DEF BeginCleanup, Typed, bounds, IInv, TypeOK
<1> HIDE DEF r
<1>5. UnderWay(r)
    BY <1>3 DEF UnderWay
<1>6. /\ overlapped \subseteq overlapped'
      /\ \A v \in Procs \ {w} : proc[v].cur = p => p \in overlapped'
    BY MeetingNoticed DEF BeginCleanup
<1>7. ASSUME NEW q \in Primaries, NEW t \in Targets,
             q \in api'[t], <<t, q>> \notin lost, q \notin overlapped'
      PROVE  /\ t \in lastPatches'[q] \/ \E v \in Procs \ {w} : Holds(proc[v], q, t)
             /\ Minds(r, q, t)
             /\ \A v \in Procs \ {w} : Minds(proc[v], q, t)
    <2>1. /\ t \in lastPatches[q] \/ \E v \in Procs : Holds(proc[v], q, t)
          /\ \A v \in Procs : Minds(proc[v], q, t)
        BY <1>4, <1>6, <1>7 DEF IInv, Recorded, Exempt
    <2>2. ~Holds(proc[w], q, t)
        BY <1>1 DEF Holds
    <2>3. q = p => \A v \in Procs \ {w} : ~Holds(proc[v], q, t)
        BY <1>6, <1>7 DEF Holds
    <2>4. Minds(r, q, t)
        BY <1>3, <2>1, <2>2, <2>3 DEF Minds
    <2> QED
        BY <1>4, <2>1, <2>2, <2>4
<1> QED
    BY <1>2, <1>3, <1>4, <1>5, <1>6, <1>7, ProcStepInv

LEMMA UndoInv ==
    ASSUME IInv, NEW w \in Procs, NEW t \in Targets, Undo(w, t)
    PROVE  IInv'
<1> DEFINE p == proc[w].cur
           r == [proc[w] EXCEPT !.left = @ \ {t}]
<1>1. proc[w] \in ProcRecord /\ TypeOK /\ proc[w].pc = "undo" /\ p \in Primaries
    BY DEF Undo, IInv, TypeOK, RunInv, UnderWay, Working
<1>2. /\ r \in ProcRecord /\ r.pc = "undo" /\ r.cur = p /\ r.left = proc[w].left \ {t}
      /\ proc' = [proc EXCEPT ![w] = r]
    BY <1>1 DEF ProcRecord, Undo
<1> HIDE DEF r
<1>3. /\ api' = [api EXCEPT ![t] = api[t] \ {p}] /\ StoreOK(api)
      /\ api[t] \ {p} \in SUBSET Primaries
    BY <1>1 DEF Undo, TypeOK, StoreOK
<1>4. StoreOK(api') /\ \A x \in Targets : api'[x] = IF x = t THEN api[t] \ {p} ELSE api[x]
    BY <1>3, TargetUpdate
<1>5. Typed /\ UNCHANGED <<lastPatches, overlapped>>
    BY <1>4 DEF Undo, Typed, bounds, history, IInv, TypeOK
<1>6. ASSUME NEW x \in Targets, p \in api'[x], <<x, p>> \notin lost, p \notin overlapped
      PROVE  (x \in lastPatches'[p] \/ Holds(r, p, x)) /\ Minds(r, p, x)
    <2>1. x # t /\ p \in api[x]
        BY <1>4, <1>6
    <2>2. (x \in lastPatches[p] \/ Holds(proc[w], p, x)) /\ Minds(proc[w], p, x)
        BY <1>1, <1>6, <2>1, OwnContributions
    <2> QED
        BY <1>1, <1>2, <1>5, <2>1, <2>2 DEF Holds, Minds
<1>7. UnderWay(r)
    BY <1>1, <1>2 DEF UnderWay
<1> HIDE DEF p
<1> QED
    BY <1>1, <1>2, <1>4, <1>5, <1>6, <1>7, OwnStepInv DEF p

\* A cleanup that ends early leaves the record as it is.
LEMMA GiveUpInv ==
    ASSUME IInv, NEW w \in Procs,
           (\E t \in Targets : UndoFails(w, t)) \/ ReleaseFails(w) \/ Untrack(w)
    PROVE  IInv'
<1> DEFINE r == Onward(w)
<1>1. TypeOK /\ proc[w].pc \in {"undo", "untrack"} /\ proc[w].cur \in Primaries
    BY DEF UndoFails, ReleaseFails, Untrack, IInv, RunInv, UnderWay, Working
<1>2. /\ r \in ProcRecord /\ UnderWay(r) /\ r.cur = None /\ r.pc = "run"
      /\ proc' = [proc EXCEPT ![w] = r]
    BY <1>1, OnwardType DEF UndoFails, ReleaseFails, Untrack
<1>3. Typed /\ UNCHANGED <<api, lastPatches, overlapped>>
    BY <1>1, BoundsAssumption DEF UndoFails, ReleaseFails, Untrack, Typed, bounds, history, TypeOK
<1> HIDE DEF r
<1> QED
    BY <1>1, <1>2, <1>3, QuietStepInv, NoneAssumption DEF Holds, Minds

\* Nothing is left to revert: no contribution of p outlives its finalizer.
LEMMA NothingLeft ==
    ASSUME IInv, NEW w \in Procs, NEW p \in Primaries, NEW t \in Targets,
           proc[w].cur = p, \/ proc[w].pc = "undo" /\ proc[w].left = {}
                            \/ proc[w].pc = "forget"
    PROVE  p \notin api[t] \/ <<t, p>> \in lost \/ p \in overlapped
    BY DEF IInv, Recorded, Exempt, Minds

\* Removing the finalizer does nothing to the targets.
LEMMA ReleaseStore ==
    ASSUME IInv, NEW w \in Procs, ReleasePrimary(w)
    PROVE  /\ proc[w].cur \in Primaries
           /\ StoreOK(api')
           /\ \A k \in Keys \ {proc[w].cur} : api'[k] = api[k]
<1> DEFINE p == proc[w].cur
           obj == IF api[p].deleting THEN Absent ELSE [api[p] EXCEPT !.fin = FALSE]
<1>1. p \in Primaries /\ TypeOK
    BY DEF ReleasePrimary, IInv, RunInv, UnderWay, Working
<1>2. CASE ~Exists(p)
    BY <1>1, <1>2 DEF ReleasePrimary, TypeOK
<1>3. CASE Exists(p)
    <2>1. api[p] \in PrimaryObject
        BY <1>1, <1>3 DEF Exists, TypeOK, StoreOK
    <2>2. obj \in PrimaryObject \cup {Absent}
        BY <2>1 DEF PrimaryObject
    <2>3. api' = [api EXCEPT ![p] = obj]
        BY <1>3 DEF ReleasePrimary
    <2> HIDE DEF obj
    <2>4. StoreOK(api')
        BY <1>1, <2>2, <2>3, StoreUpdate, FunctionAssumption DEF TypeOK, Keys
    <2>5. \A k \in Keys \ {p} : api'[k] = api[k]
        BY <1>1, <2>3 DEF TypeOK, StoreOK
    <2> QED
        BY <1>1, <2>4, <2>5
<1> QED
    BY <1>2, <1>3

LEMMA ReleaseInv ==
    ASSUME IInv, NEW w \in Procs, ReleasePrimary(w)
    PROVE  IInv'
<1> DEFINE p == proc[w].cur
           r == IF Exists(p) THEN [proc[w] EXCEPT !.pc = "forget"] ELSE Onward(w)
<1>1. /\ proc[w] \in ProcRecord /\ TypeOK /\ p \in Primaries
      /\ proc[w].pc = "undo" /\ proc[w].left = {}
    BY DEF ReleasePrimary, IInv, TypeOK, RunInv, UnderWay, Working
<1>2. /\ r \in ProcRecord
      /\ \/ r.pc = "forget" /\ r.cur = p
         \/ r.pc = "run" /\ r.cur = None
    BY <1>1, OnwardType DEF ProcRecord
<1>3. proc' = [proc EXCEPT ![w] = r]
    BY DEF ReleasePrimary
<1>4. StoreOK(api') /\ \A t \in Targets : api'[t] = api[t]
    BY <1>1, ReleaseStore, FunctionAssumption DEF Keys
<1>5. Typed /\ UNCHANGED <<lastPatches, overlapped>>
    BY <1>4 DEF ReleasePrimary, Typed, bounds, history, IInv, TypeOK
<1> HIDE DEF r
<1>6. UnderWay(r)
    BY <1>1, <1>2 DEF UnderWay, Working
<1>7. \A t \in Targets : ~(p \in api'[t] /\ <<t, p>> \notin lost /\ p \notin overlapped)
    BY <1>1, <1>4, NothingLeft
<1> HIDE DEF p
<1> QED
    BY <1>1, <1>2, <1>3, <1>4, <1>5, <1>6, <1>7, OwnStepInv DEF p

LEMMA ForgetInv ==
    ASSUME IInv, NEW w \in Procs, ForgetPatches(w)
    PROVE  IInv'
<1> DEFINE p == proc[w].cur
           r == [proc[w] EXCEPT !.pc = "untrack"]
<1>1. /\ proc[w] \in ProcRecord /\ TypeOK /\ p \in Primaries /\ proc[w].pc = "forget"
    BY DEF ForgetPatches, IInv, TypeOK, RunInv, UnderWay, Working
<1>2. r \in ProcRecord /\ r.pc = "untrack" /\ r.cur = p /\ proc' = [proc EXCEPT ![w] = r]
    BY <1>1 DEF ProcRecord, ForgetPatches
<1>3. lastPatches' = [lastPatches EXCEPT ![p] = {}]
    BY DEF ForgetPatches
<1>4. Typed /\ UNCHANGED <<api, overlapped>>
    BY <1>1, <1>3 DEF ForgetPatches, Typed, bounds, history, TypeOK
<1> HIDE DEF r
<1>5. UnderWay(r)
    BY <1>1, <1>2 DEF UnderWay
<1>6. \A t \in Targets : ~(p \in api'[t] /\ <<t, p>> \notin lost /\ p \notin overlapped)
    BY <1>1, <1>4, NothingLeft
<1>7. \A q \in Primaries \ {p} : lastPatches'[q] = lastPatches[q]
    BY <1>1, <1>3 DEF TypeOK
<1> HIDE DEF p
<1> QED
    BY <1>1, <1>2, <1>4, <1>5, <1>6, <1>7, OwnStepInv DEF p

-----------------------------------------------------------------------------
LEMMA RunStepInv ==
    ASSUME IInv, NEW w \in Procs, Run(w)
    PROVE  IInv'
    BY StartingInv, BeginInv, ReadingInv, ApplyInv, TrackTargetsInv, ClonePreviousInv,
       RevertInv, RecordPatchesInv, BeginCleanupInv, UndoInv, GiveUpInv, ReleaseInv,
       ForgetInv DEF Run

LEMMA TroubleInv == IInv /\ Trouble => IInv'
    BY RestartInv, ReadingInv, GiveUpInv, ApplyInv, RevertInv DEF Trouble

LEMMA StepInv == IInv /\ [Next]_vars => IInv'
<1> SUFFICES ASSUME IInv, [Next]_vars
             PROVE  IInv'
    OBVIOUS
<1>1. CASE UNCHANGED vars
    BY <1>1 DEF vars, manager, bounds, history, IInv, TypeOK, StoreOK, RunInv, Alone, Recorded, Exempt
<1>2. CASE StartResync
    BY <1>2, StartingInv DEF Procs
<1>3. ASSUME NEW h \in Handlers, Dequeue(h)
      PROVE  IInv'
    BY <1>3, StartingInv DEF Procs
<1> QED
    BY <1>1, <1>2, <1>3, UsersInv, ClusterInv, TroubleInv, RunStepInv DEF Next

LEMMA AlwaysInv == Spec => []IInv
    BY InitInv, StepInv, PTL DEF Spec

-----------------------------------------------------------------------------
\* The store, the queues, the manager's records and every goroutine's local
\* variables keep their types.
THEOREM TypeCorrect == Spec => []TypeOK
<1>1. IInv => TypeOK
    BY DEF IInv
<1> QED
    BY <1>1, AlwaysInv, PTL

\* runPatchReconciler and runCleanup never drop a contribution from the
\* record, in whatever order calls fail, as long as one goroutine at a time
\* works on the primary.
THEOREM NoContributionIsForgotten == Spec => []NoContributionForgotten
<1>1. IInv => NoContributionForgotten
    BY DEF IInv, Recorded, Exempt, Holds, NoContributionForgotten, InHand
<1> QED
    BY <1>1, AlwaysInv, PTL

\* Only ReleasePrimary takes the finalizer off a primary.
LEMMA ReleasedByCleanup ==
    ASSUME IInv, Next, NEW p \in Primaries, Released(p)
    PROVE  \E w \in Procs : ReleasePrimary(w) /\ proc[w].cur = p
<1>1. api'[p] # api[p] /\ proc' # proc
    BY DEF Released, Exists
<1>2. ~Users /\ ~Cluster
    BY <1>1 DEF Users, CreatePrimary, UpdatePrimary, DeletePrimary, Overwrite, Change,
                Cluster, Deliver, Refresh, manager
<1>3. ~Trouble /\ ~StartResync /\ \A h \in Handlers : ~Dequeue(h)
    BY <1>1 DEF Trouble, Restart, AddFinalizerFails, ReleaseFails, ApplyFails, RevertFails,
                UndoFails, StartResync, Dequeue
<1>4. PICK w \in Procs : Run(w)
    BY <1>2, <1>3 DEF Next
<1>5. api = [k \in Keys |-> api[k]] /\ p \in Keys /\ p \notin Targets
    BY FunctionAssumption DEF IInv, TypeOK, StoreOK, Keys
<1>6. ~AddFinalizer(w)
    <2> SUFFICES ASSUME AddFinalizer(w)
                 PROVE  FALSE
        OBVIOUS
    <2>1. proc[w].cur = p
        BY <1>1, <1>5 DEF AddFinalizer
    <2>2. api' = [api EXCEPT ![p].fin = TRUE] /\ Exists(p) /\ api[p] \in PrimaryObject
        BY <1>1, <2>1 DEF AddFinalizer, Exists, IInv, TypeOK, StoreOK
    <2>3. api'[p] = [api[p] EXCEPT !.fin = TRUE]
        BY <1>5, <2>2
    <2>4. api'[p].fin = TRUE /\ api'[p] = api[p]
        BY <2>2, <2>3 DEF PrimaryObject, Released
    <2> QED
        BY <1>1, <2>4
<1>7. \A t \in Targets : ~Apply(w, t) /\ ~Revert(w, t) /\ ~Undo(w, t)
    BY <1>1, <1>5 DEF Apply, Revert, Undo
<1>8. ReleasePrimary(w)
    BY <1>1, <1>4, <1>6, <1>7 DEF Run, Begin, BeginCleanup, Read, SetDeps, TrackTargets,
       ClonePrevious, RecordPatches, ForgetPatches, Untrack, Finish
<1> QED
    BY <1>1, <1>5, <1>8, ReleaseStore

\* runCleanup holds the deletion until every contribution has been reverted,
\* whichever calls fail: the record it reverts is complete, unless a crash
\* lost it or another goroutine is at work on the primary.
THEOREM ReleaseIsLast == Spec => RevertsRecorded
<1>1. ASSUME IInv, [Next]_vars, NEW p \in Primaries, NEW t \in Targets, Released(p)
      PROVE  p \notin api[t] \/ <<t, p>> \in lost \/ p \in overlapped
    <2>1. Next
        BY <1>1 DEF Released, vars, manager
    <2>2. PICK w \in Procs : ReleasePrimary(w) /\ proc[w].cur = p
        BY <1>1, <2>1, ReleasedByCleanup
    <2> QED
        BY <1>1, <2>2, NothingLeft DEF ReleasePrimary
<1>2. IInv /\ [Next]_vars =>
        [\A p \in Primaries, t \in Targets :
            Released(p) => p \notin api[t] \/ <<t, p>> \in lost \/ p \in overlapped]_vars
    BY <1>1
<1> QED
    BY <1>2, AlwaysInv, PTL DEF Spec, RevertsRecorded
=============================================================================
