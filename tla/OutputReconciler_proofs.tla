---------------------- MODULE OutputReconciler_proofs -----------------------
(***************************************************************************)
(* Whatever number of primaries, outputs and goroutines' steps there is, no*)
(* run of the reconciler makes another one forget an output, and a full    *)
(* reconcile that nobody disturbs repairs what overlapping runs have done. *)
(* The first invariant adds to NoOutputForgotten what the local variables of*)
(* a run under way stand for; the second says how far an undisturbed full  *)
(* reconcile has come, and that all runs meanwhile see the same cluster.   *)
(***************************************************************************)
EXTENDS OutputReconciler, FiniteSetTheorems, TLAPS

\* A run under way has a primary and its spec, and what it still has to
\* apply is part of what it wants.
RunInv == \A w \in Procs :
    /\ proc[w].pc \in {"fetch", "apply", "send", "swap", "delete"} =>
          proc[w].cur \in Primaries /\ proc[w].spec \in Specs
    /\ proc[w].pc \in {"apply", "send"} => proc[w].left \subseteq proc[w].want

IInv == TypeOK /\ RunInv /\ NoOutputForgotten

-----------------------------------------------------------------------------
(* Facts about the values the actions write *)

LEMMA SequenceOfSet ==
    ASSUME NEW S, IsFiniteSet(S)
    PROVE  SetToSeq(S) \in Seq(S)
<1>1. PICK f \in [1..Cardinality(S) -> S] : IsInjective(f)
    BY FS_CardinalityType DEF ExistsBijection, Bijection, Injection, IsInjective
<1>2. SetToSeq(S) \in [1..Cardinality(S) -> S]
    BY <1>1 DEF SetToSeq
<1>3. Cardinality(S) \in Nat
    BY FS_CardinalityType
<1> QED
    BY <1>2, <1>3

LEMMA StartQueueType ==
    ASSUME NEW store
    PROVE  StartQueue(store) \in [Handlers -> Seq(Keys)]
<1> SUFFICES ASSUME NEW h \in Handlers
             PROVE  SetToSeq({k \in KeysOf[h] : store[k] # Absent}) \in Seq(Keys)
    BY DEF StartQueue
<1> DEFINE S == {k \in KeysOf[h] : store[k] # Absent}
<1>1. S \subseteq Keys
    BY DEF KeysOf, Handlers, Keys
<1>2. IsFiniteSet(S)
    BY <1>1, FS_Subset, BoundsAssumption
<1>3. SetToSeq(S) \in Seq(S)
    BY <1>2, SequenceOfSet
<1> QED
    BY <1>1, <1>3

LEMMA IdleType == Idle \in ProcRecord
    BY DEF Idle, ProcRecord, Unread, NoOwner

LEMMA StartProcsType ==
    ASSUME NEW store
    PROVE  /\ StartProcs(store) \in [Procs -> ProcRecord]
           /\ \A w \in Procs : StartProcs(store)[w].pc \in {"idle", "run"}
    BY IdleType DEF StartProcs, Idle, ProcRecord, Unread, NoOwner, Listed, Procs, Handlers

\* An action that gives one goroutine a new record and leaves the others.
LEMMA OneProcStep ==
    ASSUME RunInv, proc \in [Procs -> ProcRecord], NEW w \in Procs, NEW r \in ProcRecord,
           proc' = [proc EXCEPT ![w] = r],
           r.pc \in {"fetch", "apply", "send", "swap", "delete"} => r.cur \in Primaries /\ r.spec \in Specs,
           r.pc \in {"apply", "send"} => r.left \subseteq r.want
    PROVE  /\ proc' \in [Procs -> ProcRecord]
           /\ RunInv'
           /\ proc'[w] = r
           /\ \A v \in Procs \ {w} : proc'[v] = proc[v]
    BY DEF RunInv

-----------------------------------------------------------------------------
LEMMA InitInv == Init => IInv
<1> SUFFICES ASSUME Init
             PROVE  IInv
    OBVIOUS
<1>1. PICK spec \in [Primaries -> Specs \cup {Absent}], val \in [Deps -> Vals \cup {Absent}] :
          api = [k \in Keys |->
                   CASE k \in Primaries -> IF spec[k] = Absent THEN Absent
                                           ELSE [uid |-> <<k, 1>>, spec |-> spec[k]]
                     [] k \in Deps      -> val[k]
                     [] OTHER           -> Absent]
    BY DEF Init
<1>2. /\ \A p \in Primaries : api[p] = IF spec[p] = Absent THEN Absent
                                       ELSE [uid |-> <<p, 1>>, spec |-> spec[p]]
      /\ \A d \in Deps : api[d] = val[d]
      /\ \A o \in Outputs : api[o] = Absent
      /\ api = [k \in Keys |-> api[k]]
    BY <1>1, KeysDistinct DEF Keys
<1>3. /\ \A p \in Primaries : api[p] \in PrimaryObject \cup {Absent}
      /\ \A d \in Deps : api[d] \in Vals \cup {Absent}
      /\ \A o \in Outputs : api[o] \in OutputObject \cup {Absent}
    <2>1. ASSUME NEW p \in Primaries, spec[p] # Absent
          PROVE  [uid |-> <<p, 1>>, spec |-> spec[p]] \in PrimaryObject
        <3>1. <<p, 1>> \in Uids
            BY DEF Uids
        <3>2. spec[p] \in Specs
            BY <2>1
        <3> QED
            BY <3>1, <3>2 DEF PrimaryObject
    <2> QED
        BY <1>2, <2>1
<1>4. StoreOK(api)
    BY <1>2, <1>3 DEF StoreOK, Keys
<1>5. TypeOK
    BY <1>4, StartQueueType, StartProcsType, BoundsAssumption DEF TypeOK, Init
<1>6. RunInv
    BY StartProcsType DEF Init, RunInv
<1>7. NoOutputForgotten
    BY <1>2 DEF NoOutputForgotten, Exists
<1> QED
    BY <1>5, <1>6, <1>7 DEF IInv

-----------------------------------------------------------------------------
(* Users, the cluster and crashes *)

\* One object of the API server is replaced by one of its kind.
LEMMA StoreUpdate ==
    ASSUME NEW store, StoreOK(store), NEW k \in Keys, NEW obj,
           k \in Primaries => obj \in PrimaryObject \cup {Absent},
           k \in Deps => obj \in Vals \cup {Absent},
           k \in Outputs => obj \in OutputObject \cup {Absent}
    PROVE  StoreOK([store EXCEPT ![k] = obj])
    BY DEF StoreOK, Keys

LEMMA ChangeInv ==
    ASSUME IInv, NEW k \in Keys, NEW obj, Change(k, obj), born' \in [Primaries -> Nat],
           k \in Primaries => obj \in PrimaryObject \cup {Absent},
           k \in Deps => obj \in Vals \cup {Absent},
           k \in Outputs => obj = Absent
    PROVE  IInv'
<1>1. StoreOK(api')
    BY StoreUpdate DEF Change, IInv, TypeOK
<1>2. TypeOK'
    BY <1>1, BoundsAssumption DEF Change, manager, IInv, TypeOK, StoreOK
<1>3. RunInv'
    BY DEF Change, manager, IInv, RunInv
<1>4. \A o \in Outputs : Exists(o)' => Exists(o)
    BY KeysDistinct DEF Change, IInv, TypeOK, StoreOK, Exists, Keys
<1>5. NoOutputForgotten'
    BY <1>4 DEF Change, manager, IInv, NoOutputForgotten, InHand
<1> QED
    BY <1>2, <1>3, <1>5 DEF IInv

LEMMA UsersInv == IInv /\ Users => IInv'
<1> SUFFICES ASSUME IInv, Users
             PROVE  IInv'
    OBVIOUS
<1>1. ASSUME NEW p \in Primaries, NEW s \in Specs, CreatePrimary(p, s)
      PROVE  IInv'
    <2> DEFINE obj == [uid |-> <<p, born[p] + 1>>, spec |-> s]
    <2>1. born' \in [Primaries -> Nat] /\ born[p] + 1 \in Nat
        BY <1>1 DEF CreatePrimary, IInv, TypeOK
    <2>2. <<p, born[p] + 1>> \in Uids
        BY <2>1 DEF Uids
    <2>3. obj \in PrimaryObject
        BY <2>2 DEF PrimaryObject
    <2>4. Change(p, obj)
        BY <1>1 DEF CreatePrimary
    <2> HIDE DEF obj
    <2> QED
        BY <2>1, <2>3, <2>4, ChangeInv, KeysDistinct DEF Keys
<1>2. ASSUME NEW p \in Primaries, NEW s \in Specs, UpdatePrimary(p, s)
      PROVE  IInv'
    <2> DEFINE obj == [api[p] EXCEPT !.spec = s]
    <2>1. api[p] \in PrimaryObject
        BY <1>2 DEF UpdatePrimary, Exists, IInv, TypeOK, StoreOK
    <2>2. obj \in PrimaryObject
        BY <2>1 DEF PrimaryObject
    <2>3. Change(p, obj) /\ born' = born /\ born \in [Primaries -> Nat]
        BY <1>2 DEF UpdatePrimary, IInv, TypeOK
    <2> HIDE DEF obj
    <2> QED
        BY <2>2, <2>3, ChangeInv, KeysDistinct DEF Keys
<1>3. ASSUME NEW p \in Primaries, DeletePrimary(p)
      PROVE  IInv'
    <2>1. Change(p, Absent) /\ born' \in [Primaries -> Nat]
        BY <1>3 DEF DeletePrimary, IInv, TypeOK
    <2> QED
        BY <2>1, ChangeInv, KeysDistinct DEF Keys
<1>4. ASSUME NEW d \in Deps, NEW v \in Vals \cup {Absent}, ChangeDep(d, v)
      PROVE  IInv'
    <2>1. Change(d, v) /\ born' \in [Primaries -> Nat]
        BY <1>4 DEF ChangeDep, IInv, TypeOK
    <2> QED
        BY <2>1, ChangeInv, KeysDistinct DEF Keys
<1>5. ASSUME NEW o \in Outputs, DeleteOutput(o)
      PROVE  IInv'
    <2>1. Change(o, Absent) /\ born' \in [Primaries -> Nat]
        BY <1>5 DEF DeleteOutput, IInv, TypeOK
    <2> QED
        BY <2>1, ChangeInv, KeysDistinct DEF Keys
<1> QED
    BY <1>1, <1>2, <1>3, <1>4, <1>5 DEF Users

LEMMA ClusterInv == IInv /\ Cluster => IInv'
<1> SUFFICES ASSUME IInv, Cluster
             PROVE  IInv'
    OBVIOUS
<1>1. ASSUME NEW h \in Handlers, NEW k \in KeysOf[h], Deliver(h, k)
      PROVE  IInv'
    <2>1. k \in Keys
        BY DEF KeysOf, Handlers, Keys
    <2>2. /\ k \in Primaries => api[k] \in PrimaryObject \cup {Absent}
          /\ k \in Deps => api[k] \in Vals \cup {Absent}
          /\ k \in Outputs => api[k] \in OutputObject \cup {Absent}
        BY DEF IInv, TypeOK, StoreOK
    <2>3. StoreOK(cache')
        BY <1>1, <2>1, <2>2, StoreUpdate DEF Deliver, IInv, TypeOK
    <2>4. queue' \in [Handlers -> Seq(Keys)]
        BY <1>1, <2>1 DEF Deliver, IInv, TypeOK
    <2>5. TypeOK'
        BY <1>1, <2>3, <2>4 DEF Deliver, bounds, IInv, TypeOK, StoreOK
    <2>6. RunInv' /\ NoOutputForgotten'
        BY <1>1 DEF Deliver, IInv, RunInv, NoOutputForgotten, Exists, InHand
    <2> QED
        BY <2>5, <2>6 DEF IInv
<1>2. ASSUME NEW o \in Outputs, CollectGarbage(o)
      PROVE  IInv'
    <2>1. StoreOK(api')
        BY <1>2, StoreUpdate, KeysDistinct DEF CollectGarbage, IInv, TypeOK, Keys
    <2>2. TypeOK'
        BY <1>2, <2>1 DEF CollectGarbage, manager, bounds, IInv, TypeOK, StoreOK
    <2>3. \A x \in Outputs : Exists(x)' => Exists(x)
        BY <1>2 DEF CollectGarbage, IInv, TypeOK, StoreOK, Exists, Keys
    <2>4. RunInv' /\ NoOutputForgotten'
        BY <1>2, <2>3 DEF CollectGarbage, manager, bounds, IInv, RunInv, NoOutputForgotten, InHand
    <2> QED
        BY <2>2, <2>4 DEF IInv
<1> QED
    BY <1>1, <1>2 DEF Cluster

LEMMA RestartInv == IInv /\ Restart => IInv'
<1> SUFFICES ASSUME IInv, Restart
             PROVE  IInv'
    OBVIOUS
<1>1. proc' = StartProcs(api) /\ queue' = StartQueue(api)
    BY DEF Restart
<1>2. TypeOK'
    BY <1>1, StartQueueType, StartProcsType, BoundsAssumption DEF Restart, IInv, TypeOK, StoreOK
<1>3. RunInv'
    BY <1>1, StartProcsType DEF RunInv
<1>4. NoOutputForgotten'
    BY DEF Restart, NoOutputForgotten, Exists
<1> QED
    BY <1>2, <1>3, <1>4 DEF IInv

-----------------------------------------------------------------------------
(* The goroutines *)

\* What a goroutine's own step leaves alone, and the types of the rest.
Quiet == /\ UNCHANGED <<api, cache, lastOutputs, born, changes, restarts, excused>>
         /\ queue' \in [Handlers -> Seq(Keys)]
         /\ tracked' \in [Primaries -> SUBSET Keys]
         /\ failures' \in 0..MaxFailures
         /\ pass' \in {"disturbed", "undisturbed", "complete"}

\* A step that only moves goroutine w on, and perhaps writes the tracker.
\* The outputs w had in hand stay in hand.
LEMMA LocalStepInv ==
    ASSUME IInv, NEW w \in Procs, NEW r \in ProcRecord,
           proc' = [proc EXCEPT ![w] = r],
           r.pc \in {"fetch", "apply", "send", "swap", "delete"} => r.cur \in Primaries /\ r.spec \in Specs,
           r.pc \in {"apply", "send"} => r.left \subseteq r.want,
           \A o \in Outputs : InHand(w, o) => \/ r.pc \in {"apply", "send", "swap"} /\ o \in r.want
                                              \/ r.pc = "delete" /\ o \in r.left,
           Quiet
    PROVE  IInv'
<1>1. /\ proc' \in [Procs -> ProcRecord]
      /\ RunInv'
      /\ proc'[w] = r
      /\ \A v \in Procs \ {w} : proc'[v] = proc[v]
    BY OneProcStep DEF IInv, TypeOK
<1>2. TypeOK'
    BY <1>1 DEF Quiet, IInv, TypeOK, StoreOK
<1>3. \A v \in Procs, o \in Outputs : InHand(v, o) => InHand(v, o)'
    BY <1>1 DEF InHand
<1>4. NoOutputForgotten'
    BY <1>3 DEF Quiet, IInv, NoOutputForgotten, Exists
<1> QED
    BY <1>1, <1>2, <1>4 DEF IInv

\* The record of a goroutine that has no primary in work.
LEMMA OnwardType ==
    ASSUME NEW w \in Procs, NEW r \in ProcRecord, r.pc = "run"
    PROVE  Onward(w, r) \in ProcRecord /\ Onward(w, r).pc \in {"idle", "run"}
    BY IdleType DEF Onward, Idle

LEMMA RunOverType ==
    ASSUME IInv, NEW w \in Procs
    PROVE  RunOver(w) \in ProcRecord /\ RunOver(w).pc \in {"idle", "run"}
<1> DEFINE r == [Idle EXCEPT !.pc = "run", !.key = proc[w].key, !.todo = proc[w].todo]
<1>1. r \in ProcRecord /\ r.pc = "run"
    BY IdleType DEF Idle, ProcRecord, IInv, TypeOK
<1> HIDE DEF r
<1>2. Onward(w, r) \in ProcRecord /\ Onward(w, r).pc \in {"idle", "run"}
    BY <1>1, OnwardType
<1> QED
    BY <1>2 DEF RunOver, r

\* Dequeue and Lookup: the handler's own steps.
LEMMA HandlerInv ==
    ASSUME IInv, NEW h \in Handlers, Dequeue(h) \/ Lookup(h)
    PROVE  IInv'
<1>1. h \in Procs /\ proc[h] \in ProcRecord
    BY DEF Procs, IInv, TypeOK
<1>2. CASE Dequeue(h)
    <2> DEFINE k == Head(queue[h])
               r == [Idle EXCEPT !.pc = "run", !.key = k, !.todo = {k} \cap Primaries]
    <2>1. k \in Keys /\ queue' \in [Handlers -> Seq(Keys)]
        BY <1>2 DEF Dequeue, IInv, TypeOK
    <2>2. r \in ProcRecord /\ r.pc = "run"
        BY <2>1, IdleType DEF Idle, ProcRecord
    <2>3. proc' = [proc EXCEPT ![h] = r] /\ proc[h].pc = "idle"
        BY <1>2 DEF Dequeue
    <2>4. Quiet
        BY <1>2, <2>1 DEF Dequeue, Quiet, bounds, IInv, TypeOK
    <2> HIDE DEF r
    <2> QED
        BY <1>1, <2>2, <2>3, <2>4, LocalStepInv DEF InHand
<1>3. CASE Lookup(h)
    <2> DEFINE q == [proc[h] EXCEPT !.key = None,
                                    !.todo = {p \in Primaries : proc[h].key \in tracked[p]}]
               r == Onward(h, q)
    <2>1. q \in ProcRecord /\ q.pc = "run"
        BY <1>1, <1>3 DEF Lookup, ProcRecord
    <2>2. proc' = [proc EXCEPT ![h] = r] /\ proc[h].pc = "run"
        BY <1>3 DEF Lookup
    <2> HIDE DEF q
    <2>3. r \in ProcRecord /\ r.pc \in {"idle", "run"}
        BY <1>1, <2>1, OnwardType
    <2>4. Quiet
        BY <1>3 DEF Lookup, Quiet, bounds, IInv, TypeOK
    <2> HIDE DEF r
    <2> QED
        BY <1>1, <2>2, <2>3, <2>4, LocalStepInv DEF InHand
<1> QED
    BY <1>2, <1>3

\* Up to the first apply, a run reads the cache and writes the tracker.
LEMMA ReadingInv ==
    ASSUME IInv, NEW w \in Procs,
           \/ \E p \in Primaries : GetPrimary(w, p)
           \/ \E d \in Deps : Fetch(w, d)
           \/ SetDeps(w)
    PROVE  IInv'
<1>1. proc[w] \in ProcRecord
    BY DEF IInv, TypeOK
<1>2. ASSUME NEW p \in Primaries, GetPrimary(w, p)
      PROVE  IInv'
    <2>1. Quiet /\ proc[w].pc = "run" /\ proc' = [proc EXCEPT ![w] = Begun(w, p)]
        BY <1>2 DEF GetPrimary, Quiet, bounds, IInv, TypeOK
    <2>2. CASE cache[p] = Absent
        <3> DEFINE q == [proc[w] EXCEPT !.todo = @ \ {p}]
        <3>1. q \in ProcRecord /\ q.pc = "run"
            BY <1>1, <2>1 DEF ProcRecord
        <3>2. Begun(w, p) = Onward(w, q)
            BY <2>2 DEF Begun
        <3> HIDE DEF q
        <3>3. Begun(w, p) \in ProcRecord /\ Begun(w, p).pc \in {"idle", "run"}
            BY <3>1, <3>2, OnwardType
        <3> QED
            BY <2>1, <3>3, LocalStepInv DEF InHand
    <2>3. CASE cache[p] # Absent
        <3>1. cache[p].spec \in Specs
            BY <2>3 DEF IInv, TypeOK, StoreOK, PrimaryObject
        <3>2. /\ Begun(w, p) \in ProcRecord /\ Begun(w, p).pc = "fetch"
              /\ Begun(w, p).cur = p /\ Begun(w, p).spec \in Specs
            BY <1>1, <2>3, <3>1 DEF Begun, ProcRecord
        <3> QED
            BY <2>1, <3>2, LocalStepInv DEF InHand
    <2> QED
        BY <2>2, <2>3
<1>3. ASSUME NEW d \in Deps, Fetch(w, d)
      PROVE  IInv'
    <2> DEFINE r == [proc[w] EXCEPT !.seen[d] = cache[d]]
    <2>1. cache[d] \in Vals \cup {Absent}
        BY DEF IInv, TypeOK, StoreOK
    <2>2. r \in ProcRecord /\ r.pc = "fetch" /\ r.cur = proc[w].cur /\ r.spec = proc[w].spec
        BY <1>1, <1>3, <2>1 DEF Fetch, ProcRecord
    <2>3. proc' = [proc EXCEPT ![w] = r] /\ proc[w].pc = "fetch"
        BY <1>3 DEF Fetch
    <2>4. Quiet
        BY <1>3 DEF Fetch, Quiet, bounds, IInv, TypeOK
    <2>5. r.cur \in Primaries /\ r.spec \in Specs
        BY <2>2, <2>3 DEF IInv, RunInv
    <2> HIDE DEF r
    <2> QED
        BY <2>2, <2>3, <2>4, <2>5, LocalStepInv DEF InHand
<1>4. ASSUME SetDeps(w)
      PROVE  IInv'
    <2> DEFINE p == proc[w].cur
               reads == Fetches(p, proc[w].spec)
               want == Desired(p, proc[w].spec, proc[w].seen)
               r == [proc[w] EXCEPT !.pc = "apply", !.want = want, !.left = want]
    <2>1. proc[w].pc = "fetch" /\ p \in Primaries /\ proc[w].spec \in Specs
        BY <1>4 DEF SetDeps, IInv, RunInv
    <2>2. proc[w].seen \in [Deps -> Vals \cup {Absent, None}]
        BY <1>1 DEF ProcRecord
    <2>3. reads \in SUBSET Deps /\ want \in SUBSET Outputs
        BY <2>1, <2>2, FunctionAssumption
    <2>4. Quiet /\ proc' = [proc EXCEPT ![w] = r]
        BY <1>4, <2>1, <2>3 DEF SetDeps, Quiet, bounds, IInv, TypeOK, Keys
    <2> HIDE DEF want
    <2>5. /\ r \in ProcRecord /\ r.pc = "apply" /\ r.left \subseteq r.want
          /\ r.cur \in Primaries /\ r.spec \in Specs
        BY <1>1, <2>1, <2>3 DEF ProcRecord
    <2> HIDE DEF r
    <2> QED
        BY <2>1, <2>4, <2>5, LocalStepInv DEF InHand
<1> QED
    BY <1>2, <1>3, <1>4

\* Reading the owner for the next apply.
LEMMA ReadOwnerInv ==
    ASSUME IInv, NEW w \in Procs, ReadOwner(w)
    PROVE  IInv'
<1> DEFINE p == proc[w].cur
           own == IF cache[p] = Absent THEN NoOwner ELSE cache[p].uid
           r == [proc[w] EXCEPT !.pc = "send", !.owner = own]
<1>1. /\ proc[w] \in ProcRecord /\ proc[w].pc = "apply" /\ proc[w].left \subseteq proc[w].want
      /\ p \in Primaries /\ proc[w].spec \in Specs
    BY DEF ReadOwner, IInv, TypeOK, RunInv
<1>2. own \in Uids \cup {NoOwner}
    BY <1>1 DEF IInv, TypeOK, StoreOK, PrimaryObject
<1>3. proc' = [proc EXCEPT ![w] = r]
    BY DEF ReadOwner
<1>4. Quiet
    BY DEF ReadOwner, Quiet, bounds, IInv, TypeOK
<1> HIDE DEF own
<1>5. /\ r \in ProcRecord /\ r.pc = "send" /\ r.want = proc[w].want
      /\ r.left \subseteq r.want /\ r.cur = p /\ r.spec = proc[w].spec
    BY <1>1, <1>2 DEF ProcRecord
<1> HIDE DEF r
<1> QED
    BY <1>1, <1>3, <1>4, <1>5, LocalStepInv DEF InHand

\* The record of a run that has an apply behind it.
LEMMA SentType ==
    ASSUME IInv, NEW w \in Procs, NEW o \in Outputs, proc[w].pc = "send"
    PROVE  /\ Sent(w, o) \in ProcRecord /\ Sent(w, o).pc = "apply"
           /\ Sent(w, o).want = proc[w].want /\ Sent(w, o).left \subseteq proc[w].want
           /\ Sent(w, o).cur \in Primaries /\ Sent(w, o).spec \in Specs
<1>1. /\ proc[w] \in ProcRecord /\ proc[w].left \subseteq proc[w].want
      /\ proc[w].cur \in Primaries /\ proc[w].spec \in Specs
    BY DEF IInv, TypeOK, RunInv
<1> QED
    BY <1>1 DEF Sent, ProcRecord

\* Applying: what is applied is in hand, and stays so until it is recorded.
LEMMA ApplyInv ==
    ASSUME IInv, NEW w \in Procs, NEW o \in Outputs, Apply(w, o)
    PROVE  IInv'
<1> DEFINE r == Sent(w, o)
<1>1. /\ proc[w] \in ProcRecord /\ proc[w].pc = "send" /\ o \in proc[w].want
      /\ proc[w].spec \in Specs
    BY DEF Apply, IInv, TypeOK, RunInv
<1>2. Applied(w) \in OutputObject
    BY <1>1 DEF Applied, OutputObject, ProcRecord
<1>3. StoreOK(api')
    BY <1>2, StoreUpdate, KeysDistinct DEF Apply, IInv, TypeOK, Keys
<1>4. proc' = [proc EXCEPT ![w] = r]
    BY DEF Apply
<1>5. /\ r \in ProcRecord /\ r.pc = "apply" /\ r.want = proc[w].want
      /\ r.left \subseteq r.want /\ r.cur \in Primaries /\ r.spec \in Specs
    BY <1>1, SentType
<1> HIDE DEF r
<1>6. /\ proc' \in [Procs -> ProcRecord]
      /\ RunInv'
      /\ proc'[w] = r
      /\ \A v \in Procs \ {w} : proc'[v] = proc[v]
    BY <1>4, <1>5, OneProcStep DEF IInv, TypeOK
<1>7. TypeOK'
    BY <1>3, <1>6 DEF Apply, bounds, IInv, TypeOK, StoreOK
<1>8. /\ InHand(w, o)'
      /\ \A v \in Procs, x \in Outputs : InHand(v, x) => InHand(v, x)'
    BY <1>1, <1>5, <1>6 DEF InHand
<1>9. \A x \in Outputs : Exists(x)' => Exists(x) \/ x = o
    BY DEF Apply, Exists, IInv, TypeOK, StoreOK, Keys
<1>10. NoOutputForgotten'
    BY <1>8, <1>9 DEF Apply, IInv, NoOutputForgotten
<1> QED
    BY <1>6, <1>7, <1>10 DEF IInv

LEMMA ApplyingInv ==
    ASSUME IInv, NEW w \in Procs,
           (\E o \in Outputs : ApplyFails(w, o)) \/ TrackOutputs(w)
    PROVE  IInv'
<1>1. proc[w] \in ProcRecord
    BY DEF IInv, TypeOK
<1>2. proc[w].pc \in {"apply", "send"}
    BY DEF ApplyFails, TrackOutputs
<1>3. proc[w].cur \in Primaries /\ proc[w].spec \in Specs
    BY <1>2 DEF IInv, RunInv
<1>4. ASSUME NEW o \in Outputs, ApplyFails(w, o)
      PROVE  IInv'
    <2> DEFINE r == Sent(w, o)
    <2>1. proc[w].pc = "send" /\ proc' = [proc EXCEPT ![w] = r]
        BY <1>4 DEF ApplyFails
    <2>2. /\ r \in ProcRecord /\ r.pc = "apply" /\ r.want = proc[w].want
          /\ r.left \subseteq r.want /\ r.cur \in Primaries /\ r.spec \in Specs
        BY <2>1, SentType
    <2>3. Quiet
        BY <1>4, BoundsAssumption DEF ApplyFails, Quiet, IInv, TypeOK
    <2> HIDE DEF r
    <2> QED
        BY <2>1, <2>2, <2>3, LocalStepInv DEF InHand
<1>5. ASSUME TrackOutputs(w)
      PROVE  IInv'
    <2> DEFINE r == [proc[w] EXCEPT !.pc = "swap"]
    <2>1. /\ r \in ProcRecord /\ r.pc = "swap" /\ r.want = proc[w].want
          /\ r.cur = proc[w].cur /\ r.spec = proc[w].spec
        BY <1>1 DEF ProcRecord
    <2>2. proc' = [proc EXCEPT ![w] = r] /\ proc[w].pc = "apply"
        BY <1>5 DEF TrackOutputs
    <2>3. proc[w].want \subseteq Keys
        BY <1>1 DEF ProcRecord, Keys
    <2>4. Quiet
        BY <1>5, <2>3 DEF TrackOutputs, Quiet, bounds, IInv, TypeOK
    <2> HIDE DEF r
    <2> QED
        BY <1>3, <2>1, <2>2, <2>4, LocalStepInv DEF InHand
<1> QED
    BY <1>4, <1>5

\* Replacing the record: an output that leaves it is in hand, to be deleted.
LEMMA SwapInv ==
    ASSUME IInv, NEW w \in Procs, SwapLastOutputs(w)
    PROVE  IInv'
<1> DEFINE p == proc[w].cur
           stale == lastOutputs[p] \ proc[w].want
           r == IF stale = {} THEN RunOver(w)
                ELSE [proc[w] EXCEPT !.pc = "delete", !.left = stale]
<1>1. /\ proc[w] \in ProcRecord /\ proc[w].pc = "swap"
      /\ p \in Primaries /\ proc[w].spec \in Specs
      /\ proc[w].want \in SUBSET Outputs
    BY DEF SwapLastOutputs, IInv, TypeOK, RunInv, ProcRecord
<1>2. proc' = [proc EXCEPT ![w] = r]
    BY DEF SwapLastOutputs
<1>3. stale \in SUBSET Outputs
    BY <1>1 DEF IInv, TypeOK
<1>4. /\ r \in ProcRecord
      /\ stale = {} => r.pc \in {"idle", "run"}
      /\ stale # {} => r.pc = "delete" /\ r.left = stale /\ r.cur = p /\ r.spec = proc[w].spec
    BY <1>1, <1>3, RunOverType DEF ProcRecord
<1>5. lastOutputs' = [lastOutputs EXCEPT ![p] = proc[w].want]
    BY DEF SwapLastOutputs
<1> HIDE DEF r
<1>6. /\ proc' \in [Procs -> ProcRecord]
      /\ RunInv'
      /\ proc'[w] = r
      /\ \A v \in Procs \ {w} : proc'[v] = proc[v]
    BY <1>1, <1>2, <1>4, OneProcStep DEF IInv, TypeOK
<1>7. TypeOK'
    BY <1>1, <1>5, <1>6 DEF SwapLastOutputs, bounds, IInv, TypeOK, StoreOK
<1>8. ASSUME NEW o \in Outputs, o \in lastOutputs[p] \/ InHand(w, o)
      PROVE  o \in lastOutputs'[p] \/ InHand(w, o)'
    BY <1>1, <1>4, <1>5, <1>6, <1>8 DEF InHand, IInv, TypeOK
<1>9. /\ \A v \in Procs \ {w}, o \in Outputs : InHand(v, o) => InHand(v, o)'
      /\ \A q \in Primaries \ {p} : lastOutputs'[q] = lastOutputs[q]
    BY <1>5, <1>6 DEF InHand, IInv, TypeOK
<1>10. NoOutputForgotten'
    <2> SUFFICES ASSUME NEW o \in Outputs, Exists(o)'
                 PROVE  \/ \E q \in Primaries : o \in lastOutputs'[q]
                        \/ \E v \in Procs : InHand(v, o)'
                        \/ o \in excused'
        BY DEF NoOutputForgotten
    <2>1. Exists(o) /\ excused' = excused
        BY DEF SwapLastOutputs, Exists
    <2>2. \/ \E q \in Primaries : o \in lastOutputs[q]
          \/ \E v \in Procs : InHand(v, o)
          \/ o \in excused
        BY <2>1 DEF IInv, NoOutputForgotten
    <2> HIDE DEF p
    <2> QED
        BY <1>1, <1>8, <1>9, <2>1, <2>2
<1> QED
    BY <1>6, <1>7, <1>10 DEF IInv

\* Deleting: an output that leaves the hands of w is gone, or excused.
LEMMA DeletingInv ==
    ASSUME IInv, NEW w \in Procs, NEW o \in Outputs,
           DeleteStale(w, o) \/ DeleteStaleFails(w, o)
    PROVE  IInv'
<1> DEFINE r == StaleLeft(w, o)
<1>1. /\ proc[w] \in ProcRecord /\ proc[w].pc = "delete" /\ o \in proc[w].left
      /\ proc[w].cur \in Primaries /\ proc[w].spec \in Specs
    BY DEF DeleteStale, DeleteStaleFails, IInv, TypeOK, RunInv
<1>2. proc' = [proc EXCEPT ![w] = r]
    BY DEF DeleteStale, DeleteStaleFails
<1>3. /\ r \in ProcRecord
      /\ proc[w].left = {o} => r.pc \in {"idle", "run"}
      /\ proc[w].left # {o} => /\ r.pc = "delete" /\ r.left = proc[w].left \ {o}
                               /\ r.cur = proc[w].cur /\ r.spec = proc[w].spec
    BY <1>1, RunOverType DEF StaleLeft, ProcRecord
<1> HIDE DEF r
<1>4. /\ proc' \in [Procs -> ProcRecord]
      /\ RunInv'
      /\ proc'[w] = r
      /\ \A v \in Procs \ {w} : proc'[v] = proc[v]
    BY <1>1, <1>2, <1>3, OneProcStep DEF IInv, TypeOK
<1>5. /\ InHand(w, o) /\ \A x \in Outputs \ {o} : InHand(w, x) => InHand(w, x)'
      /\ \A v \in Procs \ {w}, x \in Outputs : InHand(v, x) => InHand(v, x)'
    BY <1>1, <1>3, <1>4 DEF InHand
<1>6. CASE DeleteStale(w, o)
    <2>1. StoreOK(api')
        BY <1>6, StoreUpdate, KeysDistinct DEF DeleteStale, IInv, TypeOK, Keys
    <2>2. TypeOK'
        BY <1>4, <1>6, <2>1 DEF DeleteStale, bounds, IInv, TypeOK, StoreOK
    <2>3. \A x \in Outputs : Exists(x)' => Exists(x) /\ x # o
        BY <1>6 DEF DeleteStale, Exists, IInv, TypeOK, StoreOK, Keys
    <2>4. NoOutputForgotten'
        BY <1>5, <1>6, <2>3 DEF DeleteStale, IInv, NoOutputForgotten
    <2> QED
        BY <1>4, <2>2, <2>4 DEF IInv
<1>7. CASE DeleteStaleFails(w, o)
    <2>1. TypeOK'
        BY <1>4, <1>7, BoundsAssumption DEF DeleteStaleFails, IInv, TypeOK, StoreOK
    <2>2. \A x \in Outputs : Exists(x)' => Exists(x)
        BY <1>7 DEF DeleteStaleFails, Exists
    <2>3. NoOutputForgotten'
        BY <1>5, <1>7, <2>2 DEF DeleteStaleFails, IInv, NoOutputForgotten
    <2> QED
        BY <1>4, <2>1, <2>3 DEF IInv
<1> QED
    BY <1>6, <1>7

\* The resync's own steps: no outputs are in hand between its runs.
LEMMA ResyncInv ==
    ASSUME IInv, \/ StartResync \/ SnapshotWanted \/ ListManaged \/ EndResync
                 \/ ListManagedFails
                 \/ \E o \in Outputs : CollectOrphan(o) \/ CollectOrphanFails(o)
    PROVE  IInv'
<1> DEFINE w == "resync"
<1>1. w \in Procs /\ proc[w] \in ProcRecord
    BY DEF Procs, IInv, TypeOK
<1>2. CASE StartResync
    <2> DEFINE r == [proc[w] EXCEPT !.pc = "run", !.todo = Listed(cache)]
    <2>1. r \in ProcRecord /\ r.pc = "run"
        BY <1>1 DEF ProcRecord, Listed
    <2>2. proc' = [proc EXCEPT ![w] = r] /\ proc[w].pc = "idle"
        BY <1>2 DEF StartResync
    <2>3. Quiet
        BY <1>2 DEF StartResync, Quiet, bounds, IInv, TypeOK
    <2> HIDE DEF r
    <2> QED
        BY <1>1, <2>1, <2>2, <2>3, LocalStepInv DEF InHand
<1>3. CASE SnapshotWanted
    <2> DEFINE r == [proc[w] EXCEPT !.pc = "list",
                                    !.want = UNION {lastOutputs[p] : p \in Primaries}]
    <2>1. UNION {lastOutputs[p] : p \in Primaries} \subseteq Outputs
        BY DEF IInv, TypeOK
    <2>2. r \in ProcRecord /\ r.pc = "list"
        BY <1>1, <2>1 DEF ProcRecord
    <2>3. proc' = [proc EXCEPT ![w] = r] /\ proc[w].pc = "run"
        BY <1>3 DEF SnapshotWanted
    <2>4. Quiet
        BY <1>3 DEF SnapshotWanted, Quiet, bounds, IInv, TypeOK
    <2> HIDE DEF r
    <2> QED
        BY <1>1, <2>2, <2>3, <2>4, LocalStepInv DEF InHand
<1>4. CASE ListManaged
    <2> DEFINE r == [proc[w] EXCEPT !.pc = "collect",
                                    !.left = {o \in Outputs : Exists(o)} \ proc[w].want]
    <2>1. r \in ProcRecord /\ r.pc = "collect"
        BY <1>1 DEF ProcRecord
    <2>2. proc' = [proc EXCEPT ![w] = r] /\ proc[w].pc = "list"
        BY <1>4 DEF ListManaged
    <2>3. Quiet
        BY <1>4 DEF ListManaged, Quiet, bounds, IInv, TypeOK
    <2> HIDE DEF r
    <2> QED
        BY <1>1, <2>1, <2>2, <2>3, LocalStepInv DEF InHand
<1>5. CASE EndResync
    <2>1. proc' = [proc EXCEPT ![w] = Idle] /\ proc[w].pc = "collect" /\ Idle.pc = "idle"
        BY <1>5 DEF EndResync, Idle
    <2>2. Quiet
        BY <1>5 DEF EndResync, Quiet, bounds, IInv, TypeOK
    <2> QED
        BY <1>1, <2>1, <2>2, IdleType, LocalStepInv DEF InHand
<1>6. ASSUME NEW o \in Outputs, CollectOrphan(o)
      PROVE  IInv'
    <2> DEFINE r == [proc[w] EXCEPT !.left = @ \ {o}]
    <2>1. r \in ProcRecord /\ r.pc = "collect" /\ proc[w].pc = "collect"
        BY <1>1, <1>6 DEF CollectOrphan, ProcRecord
    <2>2. proc' = [proc EXCEPT ![w] = r]
        BY <1>6 DEF CollectOrphan
    <2> HIDE DEF r
    <2>3. /\ proc' \in [Procs -> ProcRecord]
          /\ RunInv'
          /\ proc'[w] = r
          /\ \A v \in Procs \ {w} : proc'[v] = proc[v]
        BY <1>1, <2>1, <2>2, OneProcStep DEF IInv, TypeOK
    <2>4. StoreOK(api')
        BY <1>6, StoreUpdate, KeysDistinct DEF CollectOrphan, IInv, TypeOK, Keys
    <2>5. TypeOK'
        BY <1>6, <2>3, <2>4 DEF CollectOrphan, bounds, IInv, TypeOK, StoreOK
    <2>6. \A v \in Procs, x \in Outputs : InHand(v, x) => InHand(v, x)'
        BY <2>1, <2>3 DEF InHand
    <2>7. \A x \in Outputs : Exists(x)' => Exists(x)
        BY <1>6 DEF CollectOrphan, Exists, IInv, TypeOK, StoreOK, Keys
    <2>8. NoOutputForgotten'
        BY <1>6, <2>6, <2>7 DEF CollectOrphan, IInv, NoOutputForgotten
    <2> QED
        BY <2>3, <2>5, <2>8 DEF IInv
<1>7. CASE ListManagedFails
    <2> DEFINE r == [proc[w] EXCEPT !.pc = "collect"]
    <2>1. r \in ProcRecord /\ r.pc = "collect"
        BY <1>1 DEF ProcRecord
    <2>2. proc' = [proc EXCEPT ![w] = r] /\ proc[w].pc = "list"
        BY <1>7 DEF ListManagedFails
    <2>3. Quiet
        BY <1>7, BoundsAssumption DEF ListManagedFails, Quiet, IInv, TypeOK
    <2> HIDE DEF r
    <2> QED
        BY <1>1, <2>1, <2>2, <2>3, LocalStepInv DEF InHand
<1>8. ASSUME NEW o \in Outputs, CollectOrphanFails(o)
      PROVE  IInv'
    <2> DEFINE r == [proc[w] EXCEPT !.left = @ \ {o}]
    <2>1. r \in ProcRecord /\ r.pc = "collect" /\ proc[w].pc = "collect"
        BY <1>1, <1>8 DEF CollectOrphanFails, ProcRecord
    <2>2. proc' = [proc EXCEPT ![w] = r]
        BY <1>8 DEF CollectOrphanFails
    <2>3. Quiet
        BY <1>8, BoundsAssumption DEF CollectOrphanFails, Quiet, IInv, TypeOK
    <2> HIDE DEF r
    <2> QED
        BY <1>1, <2>1, <2>2, <2>3, LocalStepInv DEF InHand
<1> QED
    BY <1>2, <1>3, <1>4, <1>5, <1>6, <1>7, <1>8

\* What any goroutine does in a run.
LEMMA RunsInv ==
    ASSUME IInv, NEW w \in Procs, Run(w)
    PROVE  IInv'
    BY ReadingInv, ReadOwnerInv, ApplyInv, ApplyingInv, SwapInv, DeletingInv DEF Run

LEMMA StepInv == IInv /\ [Next]_vars => IInv'
<1> SUFFICES ASSUME IInv, [Next]_vars
             PROVE  IInv'
    OBVIOUS
<1>1. CASE UNCHANGED vars
    BY <1>1 DEF vars, manager, bounds, IInv, TypeOK, StoreOK, RunInv, NoOutputForgotten, Exists, InHand
<1>2. CASE Users
    BY <1>2, UsersInv
<1>3. CASE Cluster
    BY <1>3, ClusterInv
<1>4. CASE Trouble
    <2>1. CASE Restart
        BY <2>1, RestartInv
    <2>2. ASSUME NEW w \in Procs, NEW o \in Outputs, ApplyFails(w, o)
          PROVE  IInv'
        BY <2>2, ApplyingInv
    <2>3. ASSUME NEW w \in Procs, NEW o \in Outputs, DeleteStaleFails(w, o)
          PROVE  IInv'
        BY <2>3, DeletingInv
    <2>4. ASSUME ListManagedFails \/ \E o \in Outputs : CollectOrphanFails(o)
          PROVE  IInv'
        BY <2>4, ResyncInv
    <2> QED
        BY <1>4, <2>1, <2>2, <2>3, <2>4 DEF Trouble
<1>5. CASE Resync
    BY <1>5, RunsInv, ResyncInv DEF Resync, Procs
<1>6. ASSUME NEW h \in Handlers, Handle(h)
      PROVE  IInv'
    BY <1>6, RunsInv, HandlerInv DEF Handle, Procs
<1> QED
    BY <1>1, <1>2, <1>3, <1>4, <1>5, <1>6 DEF Next

LEMMA AlwaysInv == Spec => []IInv
    BY InitInv, StepInv, PTL DEF Spec

-----------------------------------------------------------------------------
\* The store, the queues, the manager's records and every goroutine's local
\* variables keep their types.
THEOREM TypeCorrect == Spec => []TypeOK
<1>1. IInv => TypeOK
    BY DEF IInv
<1> QED
    BY <1>1, AlwaysInv, PTL

\* The critical section that reads and replaces lastOutputs is enough: no
\* overlap of runs drops an output between apply, record and delete.
THEOREM NoOutputIsForgotten == Spec => []NoOutputForgotten
<1>1. IInv => NoOutputForgotten
    BY DEF IInv
<1> QED
    BY <1>1, AlwaysInv, PTL
-----------------------------------------------------------------------------
(* What a full reconcile repairs *)

\* The outputs that the function may return for p.
Makes(p) == UNION {Desired(p, s, seen) : s \in Specs, seen \in [Deps -> Vals \cup {Absent, None}]}

\* No two primaries make the same output.
OwnOutputs == \A p, q \in Primaries : Makes(p) \cap Makes(q) # {} => p = q

\* What a goroutine has made is its primary's.
OriginOK(r) ==
    /\ r.pc \in {"apply", "send", "swap"} => r.want \subseteq Makes(r.cur)
    /\ r.pc = "send" /\ r.owner # NoOwner => r.owner[1] = r.cur
    /\ r.pc \in {"idle", "run"} => r.seen = Unread

\* Whose an output is: by record, by owner reference, and in a run.
Origins ==
    /\ \A p \in Primaries : /\ lastOutputs[p] \subseteq Makes(p)
                            /\ api[p] # Absent => api[p].uid[1] = p
                            /\ cache[p] # Absent => cache[p].uid[1] = p
    /\ \A o \in Outputs : Exists(o) /\ api[o].owner # NoOwner => o \in Makes(api[o].owner[1])
    /\ \A w \in Procs : OriginOK(proc[w])

\* A run sees the cluster as it is, has in place what it has applied, and
\* holds nothing that is wanted for deletion.
Current(r) ==
    /\ r.pc \in {"fetch", "apply", "send", "swap"} => Exists(r.cur) /\ r.spec = api[r.cur].spec
    /\ r.pc = "fetch" =>
          \A d \in Deps : r.seen[d] # None => d \in Fetches(r.cur, r.spec) /\ r.seen[d] = api[d]
    /\ r.pc \in {"apply", "send", "swap"} => r.seen = ReadNow(r.cur) /\ r.want = WantedNow(r.cur)
    /\ r.pc \in {"apply", "send"} => \A o \in r.want \ r.left : api[o] = ProperNow(r.cur)
    /\ r.pc = "send" => r.owner = api[r.cur].uid
    /\ r.pc = "swap" => \A o \in r.want : api[o] = ProperNow(r.cur)
    /\ r.pc \in {"delete", "collect"} => \A p \in Primaries : r.left \cap WantedNow(p) = {}

Steady ==
    /\ \A k \in Primaries \cup Deps : cache[k] = api[k]
    /\ \A o \in Outputs : ~Garbage(o)
    /\ \A w \in Procs : Current(proc[w])

\* The run for p is still before the resync, or behind it.
Ahead(r, p) == \/ p \in r.todo
               \/ r.pc \in {"fetch", "apply", "send", "swap"} /\ p = r.cur
Done(p)     == lastOutputs[p] = WantedNow(p) /\ \A o \in WantedNow(p) : api[o] = ProperNow(p)
OnRecord    == UNION {lastOutputs[p] : p \in Primaries}

\* How far the resync is: what it has not reached yet, what it lists, and
\* from then on that nothing else exists.
Progress == LET r == proc["resync"] IN
    /\ pass = "undisturbed" <=> r.pc # "idle"
    /\ r.pc \in {"idle", "list", "collect"} => r.todo = {}
    /\ \A p \in Primaries : Exists(p) => Ahead(r, p) \/ Done(p)
    /\ r.pc = "list" => r.want = OnRecord
    /\ r.pc = "collect" => \A o \in Outputs : Exists(o) => o \in r.left \cup OnRecord
    /\ r.pc = "idle" => \A o \in Outputs : Exists(o) => o \in OnRecord

Repairs == pass # "disturbed" => Steady /\ Progress

RInv == IInv /\ Origins /\ Repairs

\* The function's results are among what it makes.
LEMMA WantedMade ==
    ASSUME TypeOK, NEW p \in Primaries
    PROVE  WantedNow(p) \subseteq Makes(p) /\ WantedNow(p) \subseteq Outputs
<1>1. CASE Exists(p)
    <2>1. api[p].spec \in Specs
        BY <1>1 DEF Exists, TypeOK, StoreOK, PrimaryObject
    <2>2. ReadNow(p) \in [Deps -> Vals \cup {Absent, None}]
        BY DEF ReadNow, TypeOK, StoreOK
    <2> QED
        BY <1>1, <2>1, <2>2, FunctionAssumption DEF WantedNow, Makes
<1>2. CASE ~Exists(p)
    BY <1>2 DEF WantedNow
<1> QED
    BY <1>1, <1>2

LEMMA InitOrigins == Init => Origins
<1> SUFFICES ASSUME Init
             PROVE  Origins
    OBVIOUS
<1>1. PICK spec \in [Primaries -> Specs \cup {Absent}], val \in [Deps -> Vals \cup {Absent}] :
          api = [k \in Keys |->
                   CASE k \in Primaries -> IF spec[k] = Absent THEN Absent
                                           ELSE [uid |-> <<k, 1>>, spec |-> spec[k]]
                     [] k \in Deps      -> val[k]
                     [] OTHER           -> Absent]
    BY DEF Init
<1>2. /\ \A p \in Primaries : api[p] # Absent => api[p].uid[1] = p
      /\ \A o \in Outputs : api[o] = Absent
    BY <1>1, KeysDistinct DEF Keys
<1>3. cache = api /\ proc = StartProcs(api) /\ \A p \in Primaries : lastOutputs[p] = {}
    BY DEF Init
<1>4. \A w \in Procs : OriginOK(proc[w])
    BY <1>3 DEF StartProcs, OriginOK, Idle
<1> QED
    BY <1>2, <1>3, <1>4 DEF Origins, Exists

LEMMA ChangeOrigins ==
    ASSUME IInv, Origins, NEW k \in Keys, NEW obj, Change(k, obj),
           k \in Primaries /\ obj # Absent => obj.uid[1] = k,
           k \in Outputs => obj = Absent
    PROVE  Origins'
<1>1. /\ \A p \in Primaries : api'[p] # Absent => api'[p].uid[1] = p
      /\ \A o \in Outputs : Exists(o)' => api'[o] = api[o] /\ Exists(o)
    BY DEF Change, Exists, Origins, IInv, TypeOK, StoreOK, Keys
<1>2. UNCHANGED <<cache, lastOutputs, proc>>
    BY DEF Change, manager
<1> QED
    BY <1>1, <1>2 DEF Origins

LEMMA UsersOrigins == IInv /\ Origins /\ Users => Origins'
<1> SUFFICES ASSUME IInv, Origins, Users
             PROVE  Origins'
    OBVIOUS
<1>1. ASSUME NEW p \in Primaries, NEW s \in Specs, CreatePrimary(p, s)
      PROVE  Origins'
    BY <1>1, ChangeOrigins, KeysDistinct DEF CreatePrimary, Keys
<1>2. ASSUME NEW p \in Primaries, NEW s \in Specs, UpdatePrimary(p, s)
      PROVE  Origins'
    <2> DEFINE obj == [api[p] EXCEPT !.spec = s]
    <2>1. Change(p, obj) /\ api[p] \in PrimaryObject /\ api[p].uid[1] = p
        BY <1>2 DEF UpdatePrimary, Exists, IInv, TypeOK, StoreOK, Origins
    <2>2. obj.uid = api[p].uid
        BY <2>1 DEF PrimaryObject
    <2> HIDE DEF obj
    <2> QED
        BY <2>1, <2>2, ChangeOrigins, KeysDistinct DEF Keys
<1>3. ASSUME NEW p \in Primaries, DeletePrimary(p)
      PROVE  Origins'
    BY <1>3, ChangeOrigins, KeysDistinct DEF DeletePrimary, Keys
<1>4. ASSUME NEW d \in Deps, NEW v \in Vals \cup {Absent}, ChangeDep(d, v)
      PROVE  Origins'
    BY <1>4, ChangeOrigins, KeysDistinct DEF ChangeDep, Keys
<1>5. ASSUME NEW o \in Outputs, DeleteOutput(o)
      PROVE  Origins'
    BY <1>5, ChangeOrigins, KeysDistinct DEF DeleteOutput, Keys
<1> QED
    BY <1>1, <1>2, <1>3, <1>4, <1>5 DEF Users

LEMMA ClusterOrigins == IInv /\ Origins /\ Cluster => Origins'
<1> SUFFICES ASSUME IInv, Origins, Cluster
             PROVE  Origins'
    OBVIOUS
<1>1. ASSUME NEW h \in Handlers, NEW k \in KeysOf[h], Deliver(h, k)
      PROVE  Origins'
    <2>1. /\ cache' = [cache EXCEPT ![k] = api[k]] /\ DOMAIN cache = Keys
          /\ UNCHANGED <<api, lastOutputs, proc>>
        BY <1>1 DEF Deliver, IInv, TypeOK, StoreOK
    <2>2. \A p \in Primaries : cache'[p] = cache[p] \/ cache'[p] = api[p]
        BY <2>1 DEF Keys
    <2> QED
        BY <2>1, <2>2 DEF Origins, Exists
<1>2. ASSUME NEW o \in Outputs, CollectGarbage(o)
      PROVE  Origins'
    <2>1. /\ api' = [api EXCEPT ![o] = Absent] /\ DOMAIN api = Keys
          /\ UNCHANGED <<cache, lastOutputs, proc>>
        BY <1>2 DEF CollectGarbage, manager, IInv, TypeOK, StoreOK
    <2>2. /\ \A p \in Primaries : api'[p] = api[p]
          /\ \A x \in Outputs : api'[x] # Absent => api'[x] = api[x]
        BY <2>1, KeysDistinct DEF Keys
    <2> QED
        BY <2>1, <2>2 DEF Origins, Exists
<1> QED
    BY <1>1, <1>2 DEF Cluster

LEMMA RestartOrigins == Origins /\ Restart => Origins'
<1> SUFFICES ASSUME Origins, Restart
             PROVE  Origins'
    OBVIOUS
<1>1. /\ api' = api /\ cache' = api /\ proc' = StartProcs(api)
      /\ \A p \in Primaries : lastOutputs'[p] = {}
    BY DEF Restart
<1>2. \A w \in Procs : OriginOK(proc'[w])
    BY <1>1 DEF StartProcs, OriginOK, Idle
<1> QED
    BY <1>1, <1>2 DEF Origins, Exists

\* A step of one goroutine that writes no more than a record of what it makes,
\* or one output.
LEMMA LocalOrigins ==
    ASSUME IInv, Origins, NEW w \in Procs, NEW r, proc' = [proc EXCEPT ![w] = r], OriginOK(r), cache' = cache,
           \/ lastOutputs' = lastOutputs
           \/ \E p \in Primaries : \E s \in SUBSET Makes(p) : lastOutputs' = [lastOutputs EXCEPT ![p] = s],
           \/ api' = api
           \/ \E o \in Outputs : api' = [api EXCEPT ![o] = Absent]
           \/ \E o \in Outputs : \E x : /\ api' = [api EXCEPT ![o] = x]
                                        /\ x.owner # NoOwner => o \in Makes(x.owner[1])
    PROVE  Origins'
<1>1. \A v \in Procs : OriginOK(proc'[v])
    BY DEF Origins, IInv, TypeOK
<1>2. \A p \in Primaries : lastOutputs'[p] \subseteq Makes(p)
    BY DEF Origins, IInv, TypeOK
<1>3. \A p \in Primaries : api'[p] = api[p]
    BY KeysDistinct DEF IInv, TypeOK, StoreOK, Keys
<1>4. \A o \in Outputs : Exists(o)' /\ api'[o].owner # NoOwner => o \in Makes(api'[o].owner[1])
    BY KeysDistinct DEF Origins, Exists, IInv, TypeOK, StoreOK, Keys
<1> QED
    BY <1>1, <1>2, <1>3, <1>4 DEF Origins

-----------------------------------------------------------------------------
\* What a step does to the outputs and the records while nobody disturbs the
\* manager: it applies what is wanted, deletes what nobody wants, or records
\* what is wanted.
Applies  == \E p \in Primaries : Exists(p) /\ \E o \in WantedNow(p) : api' = [api EXCEPT ![o] = ProperNow(p)]
Deletes  == \E o \in Outputs : /\ \A p \in Primaries : o \notin WantedNow(p)
                               /\ api' = [api EXCEPT ![o] = Absent]
Records  == \E p \in Primaries : Exists(p) /\ lastOutputs' = [lastOutputs EXCEPT ![p] = WantedNow(p)]
Mends    == \/ (api' = api \/ Applies \/ Deletes) /\ lastOutputs' = lastOutputs
            \/ api' = api /\ Records

\* The primaries and dependencies, and so what is wanted, stay the same.
LEMMA SameInputs ==
    ASSUME \A k \in Primaries \cup Deps : api'[k] = api[k], NEW p \in Primaries
    PROVE  /\ Exists(p)' <=> Exists(p)
           /\ ReadNow(p)' = ReadNow(p) /\ WantedNow(p)' = WantedNow(p) /\ ProperNow(p)' = ProperNow(p)
<1>1. api'[p] = api[p] /\ (Exists(p)' <=> Exists(p))
    BY DEF Exists
<1>2. ReadNow(p)' = ReadNow(p)
    BY <1>1 DEF ReadNow
<1> QED
    BY <1>1, <1>2 DEF WantedNow, ProperNow

LEMMA MendsInputs ==
    ASSUME TypeOK, Mends
    PROVE  \A k \in Primaries \cup Deps : api'[k] = api[k]
<1>1. \A p \in Primaries : WantedNow(p) \subseteq Outputs
    BY WantedMade
<1>2. \A o \in Outputs, k \in Primaries \cup Deps : o # k
    BY KeysDistinct
<1>3. api' = api \/ \E o \in Outputs : \E x : api' = [api EXCEPT ![o] = x]
    BY <1>1 DEF Mends, Applies, Deletes
<1> QED
    BY <1>2, <1>3 DEF TypeOK, StoreOK, Keys

\* What is in place stays so, and nothing comes to exist that nobody wants.
LEMMA MendsKeeps ==
    ASSUME OwnOutputs, TypeOK, Mends
    PROVE  /\ \A p \in Primaries : \A o \in WantedNow(p) : api[o] = ProperNow(p) => api'[o] = ProperNow(p)
           /\ \A o \in Outputs : Exists(o)' => Exists(o) \/ \E p \in Primaries : Exists(p) /\ o \in WantedNow(p)
<1>1. \A p, q \in Primaries : \A o \in WantedNow(p) : o \in WantedNow(q) => p = q
    BY WantedMade DEF OwnOutputs
<1>2. \A p \in Primaries : WantedNow(p) \subseteq Outputs
    BY WantedMade
<1>3. Outputs \subseteq DOMAIN api
    BY DEF TypeOK, StoreOK, Keys
<1>4. CASE api' = api
    BY <1>4 DEF Exists
<1>5. CASE Applies
    <2>1. PICK q \in Primaries : Exists(q) /\ \E x \in WantedNow(q) : api' = [api EXCEPT ![x] = ProperNow(q)]
        BY <1>5 DEF Applies
    <2>2. PICK x \in WantedNow(q) : api' = [api EXCEPT ![x] = ProperNow(q)]
        BY <2>1
    <2> QED
        BY <1>1, <1>2, <1>3, <2>1, <2>2 DEF Exists
<1>6. CASE Deletes
    BY <1>2, <1>3, <1>6 DEF Deletes, Exists
<1> QED
    BY <1>4, <1>5, <1>6 DEF Mends

LEMMA MendsDone ==
    ASSUME OwnOutputs, TypeOK, Mends
    PROVE  /\ \A p \in Primaries : Done(p) => Done(p)'
           /\ (\A p \in Primaries : Exists(p) => Done(p)) => OnRecord' = OnRecord
<1>1. \A p \in Primaries : WantedNow(p)' = WantedNow(p) /\ ProperNow(p)' = ProperNow(p)
    BY MendsInputs, SameInputs
<1>2. DOMAIN lastOutputs = Primaries
    BY DEF TypeOK
<1>3. \A p \in Primaries : lastOutputs[p] = WantedNow(p) => lastOutputs'[p] = WantedNow(p)
    BY <1>2 DEF Mends, Records
<1>4. \A p \in Primaries : Done(p) => Done(p)'
    BY <1>1, <1>3, MendsKeeps DEF Done
<1>5. (\A p \in Primaries : Exists(p) => Done(p)) => lastOutputs' = lastOutputs
    BY <1>2 DEF Mends, Records, Done, TypeOK
<1> QED
    BY <1>4, <1>5 DEF OnRecord

\* No output loses its owner.
LEMMA MendsGarbage ==
    ASSUME TypeOK, Mends, \A o \in Outputs : ~Garbage(o)
    PROVE  \A o \in Outputs : ~Garbage(o)'
<1>1. \A p \in Primaries : api'[p] = api[p]
    BY MendsInputs
<1>2. \A p \in Primaries : WantedNow(p) \subseteq Outputs
    BY WantedMade
<1>3. DOMAIN api = Keys /\ Outputs \subseteq Keys
    BY DEF TypeOK, StoreOK, Keys
<1>4. ASSUME NEW o \in Outputs, Exists(o)', api'[o].owner # NoOwner
      PROVE  \E p \in Primaries : Exists(p) /\ api[p].uid = api'[o].owner
    <2>1. CASE api'[o] = api[o]
        BY <1>4, <2>1 DEF Garbage, Exists
    <2>2. CASE api'[o] # api[o]
        <3>1. CASE Applies
            <4>1. PICK q \in Primaries : Exists(q) /\ \E x \in WantedNow(q) : api' = [api EXCEPT ![x] = ProperNow(q)]
                BY <3>1 DEF Applies
            <4>2. api'[o] = ProperNow(q)
                BY <1>2, <1>3, <2>2, <4>1
            <4> QED
                BY <4>1, <4>2 DEF ProperNow
        <3>2. CASE Deletes
            BY <1>3, <1>4, <2>2, <3>2 DEF Deletes, Exists
        <3> QED
            BY <2>2, <3>1, <3>2 DEF Mends
    <2> QED
        BY <2>1, <2>2
<1> QED
    BY <1>1, <1>4 DEF Garbage, Exists

\* What a run has seen is still so, and what it has applied still in place.
LEMMA MendsCurrent ==
    ASSUME OwnOutputs, TypeOK, Mends, NEW r, Current(r),
           r.pc \in {"fetch", "apply", "send", "swap"} => r.cur \in Primaries,
           r.pc \in {"apply", "send"} => r.left \subseteq r.want
    PROVE  Current(r)'
<1>1. \A k \in Primaries \cup Deps : api'[k] = api[k]
    BY MendsInputs
<1>2. \A p \in Primaries : /\ Exists(p)' <=> Exists(p)
                           /\ ReadNow(p)' = ReadNow(p) /\ WantedNow(p)' = WantedNow(p) /\ ProperNow(p)' = ProperNow(p)
    BY <1>1, SameInputs
<1>3. \A p \in Primaries : \A o \in WantedNow(p) : api[o] = ProperNow(p) => api'[o] = ProperNow(p)
    BY MendsKeeps
<1> QED
    BY <1>1, <1>2, <1>3 DEF Current

-----------------------------------------------------------------------------
(* The goroutines' steps, in any case and in an undisturbed pass *)

\* Goroutine w goes on to r and leaves the informers alone.
Moves(w, r) == proc' = [proc EXCEPT ![w] = r] /\ cache' = cache /\ pass' = pass

\* While nobody disturbs the manager, a goroutine's step keeps what is steady,
\* and the resync keeps its place.
LEMMA SteadyStep ==
    ASSUME OwnOutputs, IInv, Steady, NEW w \in Procs, NEW r, Moves(w, r), Mends, Current(r)'
    PROVE  Steady'
<1>1. \A k \in Primaries \cup Deps : cache'[k] = api'[k]
    BY MendsInputs DEF IInv, Steady, Moves
<1>2. \A o \in Outputs : ~Garbage(o)'
    BY MendsGarbage DEF IInv, Steady
<1>3. ASSUME NEW v \in Procs, v # w
      PROVE  Current(proc[v])' /\ proc'[v] = proc[v]
    <2>1. proc'[v] = proc[v]
        BY <1>3 DEF Moves, IInv, TypeOK
    <2>2. PICK r0 : r0 = proc[v]
        OBVIOUS
    <2>3. /\ Current(r0)
          /\ r0.pc \in {"fetch", "apply", "send", "swap"} => r0.cur \in Primaries
          /\ r0.pc \in {"apply", "send"} => r0.left \subseteq r0.want
        BY <2>2 DEF Steady, IInv, RunInv
    <2>4. Current(r0)'
        BY <2>3, MendsCurrent DEF IInv
    <2> QED
        BY <2>1, <2>2, <2>4 DEF Current
<1> QED
    BY <1>1, <1>2, <1>3 DEF Steady, Moves, IInv, TypeOK

LEMMA HandlerProgress ==
    ASSUME OwnOutputs, IInv, Progress, proc'["resync"] = proc["resync"], pass' = pass, Mends
    PROVE  Progress'
<1> DEFINE rs == proc["resync"]
<1>1. \A p \in Primaries : (Exists(p)' <=> Exists(p)) /\ (Ahead(rs, p)' <=> Ahead(rs, p))
    BY MendsInputs, SameInputs DEF IInv, Ahead
<1>2. \A p \in Primaries : Exists(p)' => Ahead(rs, p)' \/ Done(p)'
    BY <1>1, MendsDone DEF IInv, Progress
<1>3. ASSUME rs.pc \in {"idle", "list", "collect"}
      PROVE  /\ OnRecord' = OnRecord
             /\ \A o \in Outputs : Exists(o)' => Exists(o) \/ o \in OnRecord
    <2>1. \A p \in Primaries : Exists(p) => Done(p)
        BY <1>3 DEF Progress, Ahead
    <2>2. \A p \in Primaries : \A o \in WantedNow(p) : Exists(p) => o \in OnRecord
        BY <2>1 DEF Done, OnRecord
    <2> QED
        BY <2>1, <2>2, MendsDone, MendsKeeps DEF IInv
<1>4. rs' = rs
    OBVIOUS
<1> QED
    BY <1>2, <1>3, <1>4 DEF Progress

LEMMA ResyncProgress ==
    ASSUME OwnOutputs, IInv, Progress, NEW r, Moves("resync", r), Mends,
           proc["resync"].pc \notin {"idle", "list", "collect"}, r.pc \notin {"idle", "list", "collect"},
           \A p \in Primaries : Exists(p) /\ Ahead(proc["resync"], p) => Ahead(r, p) \/ Done(p)'
    PROVE  Progress'
<1>1. proc'["resync"] = r
    BY DEF Moves, IInv, TypeOK, Procs
<1>2. \A p \in Primaries : Exists(p)' => Exists(p)
    BY MendsInputs, SameInputs DEF IInv
<1>3. \A p \in Primaries : Exists(p)' => Ahead(r, p) \/ Done(p)'
    BY <1>2, MendsDone DEF IInv, Progress
<1> QED
    BY <1>1, <1>3 DEF Progress, Moves, Ahead

\* A step of a run is a step forward.
LEMMA RunRepairs ==
    ASSUME OwnOutputs, IInv, Steady, Progress, NEW w \in Procs, NEW r, Moves(w, r), Mends, Current(r)',
           proc[w].pc \notin {"idle", "list", "collect"}, r.pc \notin {"list", "collect"},
           w = "resync" => r.pc # "idle",
           w = "resync" => \A p \in Primaries : Exists(p) /\ Ahead(proc[w], p) => Ahead(r, p) \/ Done(p)'
    PROVE  Repairs'
<1>1. Steady'
    BY SteadyStep
<1>2. CASE w = "resync"
    <2>1. Progress'
        BY <1>2, ResyncProgress
    <2> QED
        BY <1>1, <2>1 DEF Repairs
<1>3. CASE w # "resync"
    <2>1. proc'["resync"] = proc["resync"] /\ pass' = pass
        BY <1>3 DEF Moves, IInv, TypeOK, Procs
    <2>2. Progress'
        BY <2>1, HandlerProgress
    <2> QED
        BY <1>1, <2>2 DEF Repairs
<1> QED
    BY <1>2, <1>3

\* The resync of a run that ended, or never began, goes on.
LEMMA OnwardRepairs ==
    ASSUME NEW w \in Procs, NEW r, r.pc = "run", r.seen = Unread
    PROVE  /\ OriginOK(Onward(w, r)) /\ Onward(w, r).pc \in {"idle", "run"}
           /\ w = "resync" => Onward(w, r) = r
    BY DEF Onward, Idle, OriginOK, Handlers

LEMMA GetPrimaryRepairs ==
    ASSUME OwnOutputs, RInv, NEW w \in Procs, NEW p \in Primaries, GetPrimary(w, p)
    PROVE  Origins' /\ Repairs'
<1> DEFINE q == [proc[w] EXCEPT !.todo = @ \ {p}]
           f == [q EXCEPT !.pc = "fetch", !.cur = p, !.spec = cache[p].spec]
<1>1. PICK r : r = Begun(w, p)
    OBVIOUS
<1>2. /\ Moves(w, r) /\ api' = api /\ lastOutputs' = lastOutputs
      /\ proc[w].pc = "run" /\ proc[w].seen = Unread /\ proc[w] \in ProcRecord
    BY <1>1 DEF GetPrimary, Moves, RInv, IInv, TypeOK, Origins, OriginOK
<1>3. Mends
    BY <1>2 DEF Mends
<1>4. CASE cache[p] = Absent
    <2>1. PICK s : s = q
        OBVIOUS
    <2>2. s.pc = "run" /\ s.seen = Unread /\ s.todo = proc[w].todo \ {p}
        BY <1>2, <2>1 DEF ProcRecord
    <2>3. r = Onward(w, s)
        BY <1>1, <1>4, <2>1 DEF Begun
    <2>4. OriginOK(r) /\ r.pc \in {"idle", "run"} /\ (w = "resync" => r = s)
        BY <2>2, <2>3, OnwardRepairs
    <2>5. Origins'
        BY <1>2, <2>4, LocalOrigins DEF RInv, Moves
    <2>6. ASSUME pass # "disturbed"
          PROVE  Repairs'
        <3>1. Steady /\ Progress /\ ~Exists(p)
            BY <1>4, <2>6 DEF RInv, Repairs, Steady, Exists
        <3>2. Current(r)'
            BY <2>4 DEF Current
        <3>3. w = "resync" => \A x \in Primaries : Exists(x) /\ Ahead(proc[w], x) => Ahead(r, x)
            BY <1>2, <2>2, <2>4, <3>1 DEF Ahead
        <3> QED
            BY <1>2, <1>3, <2>2, <2>4, <3>1, <3>2, <3>3, RunRepairs DEF RInv
    <2> QED
        BY <1>2, <2>5, <2>6 DEF Moves, Repairs
<1>5. CASE cache[p] # Absent
    <2>1. /\ r.pc = "fetch" /\ r.cur = p /\ r.spec = cache[p].spec /\ r.seen = Unread
          /\ r.todo = proc[w].todo \ {p}
        BY <1>1, <1>2, <1>5 DEF Begun, ProcRecord
    <2>2. Origins'
        BY <1>2, <2>1, LocalOrigins DEF RInv, Moves, OriginOK
    <2>3. ASSUME pass # "disturbed"
          PROVE  Repairs'
        <3>1. Steady /\ Progress /\ cache[p] = api[p]
            BY <2>3 DEF RInv, Repairs, Steady
        <3>2. Current(r)'
            BY <1>2, <1>5, <2>1, <3>1 DEF Current, Exists, Unread
        <3>3. \A x \in Primaries : Ahead(proc[w], x) => Ahead(r, x)
            BY <1>2, <2>1 DEF Ahead
        <3> QED
            BY <1>2, <1>3, <2>1, <3>1, <3>2, <3>3, RunRepairs DEF RInv
    <2> QED
        BY <1>2, <2>2, <2>3 DEF Moves, Repairs
<1> QED
    BY <1>4, <1>5

LEMMA FetchRepairs ==
    ASSUME OwnOutputs, RInv, NEW w \in Procs, NEW d \in Deps, Fetch(w, d)
    PROVE  Origins' /\ Repairs'
<1>1. PICK r : r = [proc[w] EXCEPT !.seen[d] = cache[d]]
    OBVIOUS
<1>2. /\ Moves(w, r) /\ api' = api /\ lastOutputs' = lastOutputs
      /\ proc[w].pc = "fetch" /\ proc[w] \in ProcRecord
      /\ d \in Fetches(proc[w].cur, proc[w].spec)
    BY <1>1 DEF Fetch, Moves, RInv, IInv, TypeOK
<1>3. /\ r.pc = "fetch" /\ r.cur = proc[w].cur /\ r.spec = proc[w].spec /\ r.todo = proc[w].todo
      /\ r.seen = [proc[w].seen EXCEPT ![d] = cache[d]]
      /\ proc[w].seen \in [Deps -> Vals \cup {Absent, None}]
    BY <1>1, <1>2 DEF ProcRecord
<1>4. Mends
    BY <1>2 DEF Mends
<1>5. Origins'
    BY <1>2, <1>3, LocalOrigins DEF RInv, Moves, OriginOK
<1>6. ASSUME pass # "disturbed"
      PROVE  Repairs'
    <2>1. Steady /\ Progress /\ cache[d] = api[d]
        BY <1>6 DEF RInv, Repairs, Steady
    <2>2. Current(proc[w])
        BY <2>1 DEF Steady
    <2>3. Current(r)'
        BY <1>2, <1>3, <2>1, <2>2 DEF Current, Exists
    <2>4. \A x \in Primaries : Ahead(proc[w], x) => Ahead(r, x)
        BY <1>2, <1>3 DEF Ahead
    <2> QED
        BY <1>2, <1>3, <1>4, <2>1, <2>3, <2>4, RunRepairs DEF RInv
<1> QED
    BY <1>2, <1>5, <1>6 DEF Moves, Repairs

LEMMA SetDepsRepairs ==
    ASSUME OwnOutputs, RInv, NEW w \in Procs, SetDeps(w)
    PROVE  Origins' /\ Repairs'
<1> DEFINE p    == proc[w].cur
           want == Desired(p, proc[w].spec, proc[w].seen)
<1>1. PICK r : r = [proc[w] EXCEPT !.pc = "apply", !.want = want, !.left = want]
    OBVIOUS
<1>2. /\ Moves(w, r) /\ api' = api /\ lastOutputs' = lastOutputs
      /\ proc[w].pc = "fetch" /\ proc[w] \in ProcRecord /\ p \in Primaries /\ proc[w].spec \in Specs
      /\ \A d \in Fetches(p, proc[w].spec) : proc[w].seen[d] # None
    BY <1>1 DEF SetDeps, Moves, RInv, IInv, TypeOK, RunInv
<1>3. /\ r.pc = "apply" /\ r.cur = p /\ r.spec = proc[w].spec /\ r.todo = proc[w].todo
      /\ r.seen = proc[w].seen /\ r.want = want /\ r.left = want
      /\ proc[w].seen \in [Deps -> Vals \cup {Absent, None}]
    BY <1>1, <1>2 DEF ProcRecord
<1>4. want \subseteq Makes(p)
    BY <1>2, <1>3 DEF Makes
<1>5. Mends
    BY <1>2 DEF Mends
<1>6. Origins'
    BY <1>2, <1>3, <1>4, LocalOrigins DEF RInv, Moves, OriginOK
<1>7. ASSUME pass # "disturbed"
      PROVE  Repairs'
    <2>1. Steady /\ Progress
        BY <1>7 DEF RInv, Repairs
    <2>2. Current(proc[w])
        BY <2>1 DEF Steady
    <2>3. Exists(p) /\ proc[w].spec = api[p].spec
        BY <1>2, <2>2 DEF Current
    <2>4. \A d \in Deps : proc[w].seen[d] = IF d \in Fetches(p, api[p].spec) THEN api[d] ELSE None
        BY <1>2, <2>2, <2>3 DEF Current
    <2>5. proc[w].seen = ReadNow(p)
        BY <1>3, <2>4 DEF ReadNow
    <2>6. want = WantedNow(p)
        BY <2>3, <2>5 DEF WantedNow
    <2>7. Current(r)
        BY <1>3, <2>3, <2>5, <2>6 DEF Current
    <2>8. Current(r)'
        BY <1>2, <2>7 DEF Current, Exists, ReadNow, WantedNow, ProperNow
    <2>9. \A x \in Primaries : Ahead(proc[w], x) => Ahead(r, x)
        BY <1>2, <1>3 DEF Ahead
    <2> QED
        BY <1>2, <1>3, <1>5, <2>1, <2>8, <2>9, RunRepairs DEF RInv
<1> QED
    BY <1>2, <1>6, <1>7 DEF Moves, Repairs

LEMMA ReadOwnerRepairs ==
    ASSUME OwnOutputs, RInv, NEW w \in Procs, ReadOwner(w)
    PROVE  Origins' /\ Repairs'
<1> DEFINE p     == proc[w].cur
           owner == IF cache[p] = Absent THEN NoOwner ELSE cache[p].uid
<1>1. PICK r : r = [proc[w] EXCEPT !.pc = "send", !.owner = owner]
    OBVIOUS
<1>2. /\ Moves(w, r) /\ api' = api /\ lastOutputs' = lastOutputs
      /\ proc[w].pc = "apply" /\ proc[w] \in ProcRecord /\ p \in Primaries
    BY <1>1 DEF ReadOwner, Moves, RInv, IInv, TypeOK, RunInv
<1>3. /\ r.pc = "send" /\ r.owner = owner /\ r.cur = p /\ r.spec = proc[w].spec /\ r.todo = proc[w].todo
      /\ r.seen = proc[w].seen /\ r.want = proc[w].want /\ r.left = proc[w].left
    BY <1>1, <1>2 DEF ProcRecord
<1>4. OriginOK(r)
    BY <1>2, <1>3 DEF RInv, Origins, OriginOK
<1>5. Mends
    BY <1>2 DEF Mends
<1>6. Origins'
    BY <1>2, <1>4, LocalOrigins DEF RInv, Moves
<1>7. ASSUME pass # "disturbed"
      PROVE  Repairs'
    <2>1. Steady /\ Progress
        BY <1>7 DEF RInv, Repairs
    <2>2. Current(proc[w]) /\ cache[p] = api[p]
        BY <1>2, <2>1 DEF Steady
    <2>3. Current(r)
        BY <1>2, <1>3, <2>2 DEF Current, Exists
    <2>4. Current(r)'
        BY <1>2, <2>3 DEF Current, Exists, ReadNow, WantedNow, ProperNow
    <2>5. \A x \in Primaries : Ahead(proc[w], x) => Ahead(r, x)
        BY <1>2, <1>3 DEF Ahead
    <2> QED
        BY <1>2, <1>3, <1>5, <2>1, <2>4, <2>5, RunRepairs DEF RInv
<1> QED
    BY <1>2, <1>6, <1>7 DEF Moves, Repairs

LEMMA ApplyRepairs ==
    ASSUME OwnOutputs, RInv, NEW w \in Procs, NEW o \in Outputs, Apply(w, o)
    PROVE  Origins' /\ Repairs'
<1>0. PICK p : p = proc[w].cur
    OBVIOUS
<1>1. PICK r : r = Sent(w, o)
    OBVIOUS
<1>2. /\ Moves(w, r) /\ api' = [api EXCEPT ![o] = Applied(w)] /\ lastOutputs' = lastOutputs
      /\ proc[w].pc = "send" /\ proc[w] \in ProcRecord /\ p \in Primaries
      /\ o \in proc[w].left /\ proc[w].left \subseteq proc[w].want
    BY <1>0, <1>1 DEF Apply, Moves, RInv, IInv, TypeOK, RunInv
<1>3. /\ r.pc = "apply" /\ r.cur = p /\ r.spec = proc[w].spec /\ r.todo = proc[w].todo
      /\ r.seen = proc[w].seen /\ r.want = proc[w].want /\ r.left = proc[w].left \ {o}
    BY <1>0, <1>1, <1>2 DEF ProcRecord, Sent
<1>4. OriginOK(proc[w])
    BY DEF RInv, Origins
<1>5. Applied(w).owner # NoOwner => o \in Makes(Applied(w).owner[1])
    BY <1>2, <1>4 DEF Applied, OriginOK
<1>6. OriginOK(r)
    BY <1>0, <1>2, <1>3, <1>4 DEF OriginOK
<1>7. Origins'
    BY <1>2, <1>5, <1>6, LocalOrigins DEF RInv, Moves
<1>8. ASSUME pass # "disturbed"
      PROVE  Repairs'
    <2>1. Steady /\ Progress
        BY <1>8 DEF RInv, Repairs
    <2>2. Current(proc[w])
        BY <2>1 DEF Steady
    <2>3. /\ Exists(p) /\ proc[w].want = WantedNow(p) /\ proc[w].seen = ReadNow(p)
          /\ Applied(w) = ProperNow(p)
          /\ \A x \in proc[w].want \ proc[w].left : api[x] = ProperNow(p)
        BY <1>0, <1>2, <2>2 DEF Current, Applied, ProperNow
    <2>4. Mends
        BY <1>2, <2>3 DEF Mends, Applies
    <2>5. /\ \A k \in Primaries \cup Deps : api'[k] = api[k]
          /\ \A x \in WantedNow(p) : api[x] = ProperNow(p) => api'[x] = ProperNow(p)
        BY <1>2, <2>4, MendsInputs, MendsKeeps DEF RInv, IInv
    <2>6. /\ Exists(p)' /\ ReadNow(p)' = ReadNow(p) /\ WantedNow(p)' = WantedNow(p)
          /\ ProperNow(p)' = ProperNow(p) /\ api'[p] = api[p]
        BY <1>2, <2>3, <2>5, SameInputs
    <2>7. api'[o] = ProperNow(p)
        BY <1>2, <2>3 DEF RInv, IInv, TypeOK, StoreOK, Keys
    <2>8. \A x \in r.want \ r.left : api'[x] = ProperNow(p)
        BY <1>3, <2>3, <2>5, <2>7
    <2>9. r.spec = api'[p].spec
        BY <1>0, <1>2, <1>3, <2>2, <2>6 DEF Current
    <2>10. Current(r)'
        BY <1>3, <2>3, <2>6, <2>8, <2>9 DEF Current
    <2>11. \A x \in Primaries : Ahead(proc[w], x) => Ahead(r, x)
        BY <1>0, <1>2, <1>3 DEF Ahead
    <2> QED
        BY <1>2, <1>3, <2>1, <2>4, <2>10, <2>11, RunRepairs DEF RInv
<1> QED
    BY <1>2, <1>7, <1>8 DEF Moves, Repairs

LEMMA TrackOutputsRepairs ==
    ASSUME OwnOutputs, RInv, NEW w \in Procs, TrackOutputs(w)
    PROVE  Origins' /\ Repairs'
<1> DEFINE p == proc[w].cur
<1>1. PICK r : r = [proc[w] EXCEPT !.pc = "swap"]
    OBVIOUS
<1>2. /\ Moves(w, r) /\ api' = api /\ lastOutputs' = lastOutputs
      /\ proc[w].pc = "apply" /\ proc[w].left = {} /\ proc[w] \in ProcRecord
    BY <1>1 DEF TrackOutputs, Moves, RInv, IInv, TypeOK
<1>3. /\ r.pc = "swap" /\ r.cur = p /\ r.spec = proc[w].spec /\ r.todo = proc[w].todo
      /\ r.seen = proc[w].seen /\ r.want = proc[w].want
    BY <1>1, <1>2 DEF ProcRecord
<1>4. OriginOK(r)
    BY <1>2, <1>3 DEF RInv, Origins, OriginOK
<1>5. Mends
    BY <1>2 DEF Mends
<1>6. Origins'
    BY <1>2, <1>4, LocalOrigins DEF RInv, Moves
<1>7. ASSUME pass # "disturbed"
      PROVE  Repairs'
    <2>1. Steady /\ Progress
        BY <1>7 DEF RInv, Repairs
    <2>2. Current(proc[w])
        BY <2>1 DEF Steady
    <2>3. Current(r)
        BY <1>2, <1>3, <2>2 DEF Current
    <2>4. Current(r)'
        BY <1>2, <2>3 DEF Current, Exists, ReadNow, WantedNow, ProperNow
    <2>5. \A x \in Primaries : Ahead(proc[w], x) => Ahead(r, x)
        BY <1>2, <1>3 DEF Ahead
    <2> QED
        BY <1>2, <1>3, <1>5, <2>1, <2>4, <2>5, RunRepairs DEF RInv
<1> QED
    BY <1>2, <1>6, <1>7 DEF Moves, Repairs

\* The end of a run: nothing of it is left but what is still to do.
LEMMA RunOverRepairs ==
    ASSUME IInv, NEW w \in Procs
    PROVE  /\ OriginOK(RunOver(w)) /\ RunOver(w).pc \in {"idle", "run"}
           /\ w = "resync" => RunOver(w).pc = "run" /\ RunOver(w).todo = proc[w].todo
<1>1. PICK q : q = [Idle EXCEPT !.pc = "run", !.key = proc[w].key, !.todo = proc[w].todo]
    OBVIOUS
<1>2. q.pc = "run" /\ q.seen = Unread /\ q.todo = proc[w].todo
    BY <1>1 DEF Idle
<1>3. RunOver(w) = Onward(w, q)
    BY <1>1 DEF RunOver
<1> QED
    BY <1>2, <1>3, OnwardRepairs

LEMMA SwapRepairs ==
    ASSUME OwnOutputs, RInv, NEW w \in Procs, SwapLastOutputs(w)
    PROVE  Origins' /\ Repairs'
<1>0. PICK p : p = proc[w].cur
    OBVIOUS
<1> DEFINE stale == lastOutputs[p] \ proc[w].want
<1>1. PICK r : r = IF stale = {} THEN RunOver(w) ELSE [proc[w] EXCEPT !.pc = "delete", !.left = stale]
    OBVIOUS
<1>2. /\ Moves(w, r) /\ api' = api /\ lastOutputs' = [lastOutputs EXCEPT ![p] = proc[w].want]
      /\ proc[w].pc = "swap" /\ proc[w] \in ProcRecord /\ p \in Primaries
    BY <1>0, <1>1 DEF SwapLastOutputs, Moves, RInv, IInv, TypeOK, RunInv
<1>3. /\ r.pc \in {"idle", "run", "delete"} /\ (r.pc = "delete" => r.left = stale)
      /\ w = "resync" => r.pc # "idle" /\ r.todo = proc[w].todo
      /\ OriginOK(r)
    BY <1>1, <1>2, RunOverRepairs DEF RInv, ProcRecord, OriginOK
<1>4. proc[w].want \subseteq Makes(p)
    BY <1>0, <1>2 DEF RInv, Origins, OriginOK
<1>5. Origins'
    BY <1>2, <1>3, <1>4, LocalOrigins DEF RInv, Moves
<1>6. ASSUME pass # "disturbed"
      PROVE  Repairs'
    <2>1. Steady /\ Progress
        BY <1>6 DEF RInv, Repairs
    <2>2. Current(proc[w])
        BY <2>1 DEF Steady
    <2>3. /\ Exists(p) /\ proc[w].want = WantedNow(p)
          /\ \A o \in WantedNow(p) : api[o] = ProperNow(p)
        BY <1>0, <1>2, <2>2 DEF Current
    <2>4. Mends
        BY <1>2, <2>3 DEF Mends, Records
    <2>5. \A q \in Primaries : stale \cap WantedNow(q) = {}
        <3> SUFFICES ASSUME NEW q \in Primaries, NEW o \in stale, o \in WantedNow(q)
                     PROVE  FALSE
            OBVIOUS
        <3>1. o \in Makes(p) /\ o \in Makes(q)
            BY <1>2, WantedMade DEF RInv, Origins, IInv
        <3>2. p = q
            BY <1>2, <3>1 DEF OwnOutputs
        <3> QED
            BY <2>3, <3>2
    <2>6. Current(r)
        BY <1>3, <2>5 DEF Current
    <2>7. Current(r)'
        BY <1>2, <2>6 DEF Current, Exists, ReadNow, WantedNow, ProperNow
    <2>8. \A q \in Primaries : WantedNow(q)' = WantedNow(q) /\ ProperNow(q)' = ProperNow(q)
        BY <1>2, SameInputs
    <2>9. Done(p)'
        BY <1>2, <2>3, <2>8 DEF Done, RInv, IInv, TypeOK
    <2>10. w = "resync" => \A x \in Primaries : Ahead(proc[w], x) => Ahead(r, x) \/ Done(x)'
        BY <1>0, <1>2, <1>3, <2>9 DEF Ahead
    <2> QED
        BY <1>2, <1>3, <2>1, <2>4, <2>7, <2>10, RunRepairs DEF RInv
<1> QED
    BY <1>2, <1>5, <1>6 DEF Moves, Repairs

LEMMA DeleteStaleRepairs ==
    ASSUME OwnOutputs, RInv, NEW w \in Procs, NEW o \in Outputs, DeleteStale(w, o)
    PROVE  Origins' /\ Repairs'
<1>1. PICK r : r = StaleLeft(w, o)
    OBVIOUS
<1>2. /\ Moves(w, r) /\ api' = [api EXCEPT ![o] = Absent] /\ lastOutputs' = lastOutputs
      /\ proc[w].pc = "delete" /\ o \in proc[w].left /\ proc[w] \in ProcRecord
    BY <1>1 DEF DeleteStale, Moves, RInv, IInv, TypeOK
<1>3. /\ r.pc \in {"idle", "run", "delete"} /\ (r.pc = "delete" => r.left \subseteq proc[w].left)
      /\ w = "resync" => r.pc # "idle" /\ r.todo = proc[w].todo
      /\ OriginOK(r)
    BY <1>1, <1>2, RunOverRepairs DEF RInv, ProcRecord, OriginOK, StaleLeft
<1>4. Origins'
    BY <1>2, <1>3, LocalOrigins DEF RInv, Moves
<1>5. ASSUME pass # "disturbed"
      PROVE  Repairs'
    <2>1. Steady /\ Progress
        BY <1>5 DEF RInv, Repairs
    <2>2. Current(proc[w])
        BY <2>1 DEF Steady
    <2>3. Mends
        BY <1>2, <2>2 DEF Mends, Deletes, Current
    <2>4. Current(r)
        BY <1>2, <1>3, <2>2 DEF Current
    <2>5. Current(r)'
        BY <1>3, <2>3, <2>4, MendsCurrent DEF RInv, IInv
    <2>6. w = "resync" => \A x \in Primaries : Ahead(proc[w], x) => Ahead(r, x)
        BY <1>2, <1>3 DEF Ahead
    <2> QED
        BY <1>2, <1>3, <2>1, <2>3, <2>5, <2>6, RunRepairs DEF RInv
<1> QED
    BY <1>2, <1>4, <1>5 DEF Moves, Repairs

LEMMA RunsRepair ==
    ASSUME OwnOutputs, RInv, NEW w \in Procs, Run(w)
    PROVE  Origins' /\ Repairs'
    BY GetPrimaryRepairs, FetchRepairs, SetDepsRepairs, ReadOwnerRepairs, ApplyRepairs,
       TrackOutputsRepairs, SwapRepairs, DeleteStaleRepairs DEF Run

\* Taking a notification and looking up who depends on it.
LEMMA HandlerRepairs ==
    ASSUME OwnOutputs, RInv, NEW h \in Handlers, Dequeue(h) \/ Lookup(h)
    PROVE  Origins' /\ Repairs'
<1>1. h \in Procs /\ h # "resync" /\ proc[h] \in ProcRecord
    BY DEF Procs, Handlers, RInv, IInv, TypeOK
<1>2. PICK r : /\ Moves(h, r) /\ api' = api /\ lastOutputs' = lastOutputs
               /\ r.pc \in {"idle", "run"} /\ OriginOK(r)
    <2>1. CASE Dequeue(h)
        <3>1. PICK q : q = [Idle EXCEPT !.pc = "run", !.key = Head(queue[h]),
                                        !.todo = {Head(queue[h])} \cap Primaries]
            OBVIOUS
        <3>2. Moves(h, q) /\ api' = api /\ lastOutputs' = lastOutputs
            BY <2>1, <3>1 DEF Dequeue, Moves
        <3>3. q.pc = "run" /\ q.seen = Unread
            BY <3>1 DEF Idle
        <3> QED
            BY <3>2, <3>3 DEF OriginOK
    <2>2. CASE Lookup(h)
        <3>1. PICK q : q = [proc[h] EXCEPT !.key = None,
                                           !.todo = {p \in Primaries : proc[h].key \in tracked[p]}]
            OBVIOUS
        <3>2. /\ Moves(h, Onward(h, q)) /\ api' = api /\ lastOutputs' = lastOutputs /\ proc[h].pc = "run"
            BY <2>2, <3>1 DEF Lookup, Moves
        <3>3. q.pc = "run" /\ q.seen = Unread
            BY <1>1, <3>1, <3>2 DEF ProcRecord, RInv, Origins, OriginOK
        <3> QED
            BY <1>1, <3>2, <3>3, OnwardRepairs
    <2> QED
        BY <2>1, <2>2
<1>3. Mends
    BY <1>2 DEF Mends
<1>4. Origins'
    BY <1>1, <1>2, LocalOrigins DEF RInv, Moves
<1>5. ASSUME pass # "disturbed"
      PROVE  Repairs'
    <2>1. Steady /\ Progress
        BY <1>5 DEF RInv, Repairs
    <2>2. Current(r)'
        BY <1>2 DEF Current
    <2>3. Steady'
        BY <1>1, <1>2, <1>3, <2>1, <2>2, SteadyStep DEF RInv
    <2>4. proc'["resync"] = proc["resync"]
        BY <1>1, <1>2 DEF Moves, RInv, IInv, TypeOK, Procs
    <2>5. Progress'
        BY <1>2, <1>3, <2>1, <2>4, HandlerProgress DEF RInv, Moves
    <2> QED
        BY <2>3, <2>5 DEF Repairs
<1> QED
    BY <1>2, <1>4, <1>5 DEF Moves, Repairs

\* A pass begins: with nothing else on its way, every primary is still ahead.
LEMMA StartResyncRepairs ==
    ASSUME RInv, StartResync
    PROVE  Origins' /\ Repairs'
<1> DEFINE w == "resync"
<1>1. PICK r : r = [proc[w] EXCEPT !.pc = "run", !.todo = Listed(cache)]
    OBVIOUS
<1>2. /\ proc' = [proc EXCEPT ![w] = r] /\ UNCHANGED <<api, cache, queue, lastOutputs>>
      /\ w \in Procs /\ proc[w] \in ProcRecord /\ proc[w].pc = "idle" /\ OriginOK(proc[w])
      /\ pass' = IF Calm THEN "undisturbed" ELSE "disturbed"
    BY <1>1 DEF StartResync, RInv, IInv, TypeOK, Procs, Origins
<1>3. r.pc = "run" /\ r.todo = Listed(cache) /\ OriginOK(r)
    BY <1>1, <1>2 DEF ProcRecord, OriginOK
<1>4. Origins'
    BY <1>2, <1>3, LocalOrigins DEF RInv
<1>5. ASSUME Calm
      PROVE  Steady' /\ Progress'
    <2>1. cache = api /\ (\A h \in Handlers : proc[h] = Idle) /\ \A o \in Outputs : ~Garbage(o)
        BY <1>5 DEF Calm
    <2>2. proc'[w] = r /\ \A h \in Handlers : proc'[h] = Idle
        BY <1>2, <2>1 DEF RInv, IInv, TypeOK, Procs, Handlers
    <2>3. \A v \in Procs : proc'[v].pc \in {"idle", "run"}
        BY <1>3, <2>2 DEF Procs, Idle
    <2>4. \A v \in Procs : Current(proc[v])'
        BY <2>3 DEF Current
    <2>5. Steady'
        BY <1>2, <2>1, <2>4 DEF Steady, Garbage, Exists
    <2>6. \A p \in Primaries : Exists(p)' => Ahead(r, p)
        BY <1>2, <1>3, <2>1 DEF Exists, Ahead, Listed
    <2>7. Progress'
        BY <1>2, <1>3, <1>5, <2>2, <2>6 DEF Progress, Ahead
    <2> QED
        BY <2>5, <2>7
<1> QED
    BY <1>2, <1>4, <1>5 DEF Repairs

\* gcOrphans: with every primary done, nothing that is wanted is an orphan,
\* and once the orphans are gone nothing is left but what is on record.
LEMMA CollectingRepairs ==
    ASSUME OwnOutputs, RInv,
           SnapshotWanted \/ ListManaged \/ (\E o \in Outputs : CollectOrphan(o)) \/ EndResync
    PROVE  Origins' /\ Repairs'
<1> DEFINE w == "resync"
<1>1. w \in Procs /\ proc[w] \in ProcRecord /\ OriginOK(proc[w])
    BY DEF RInv, IInv, TypeOK, Procs, Origins
<1>2. ASSUME pass # "disturbed", proc[w].pc \in {"list", "collect"} \/ (proc[w].pc = "run" /\ proc[w].todo = {})
      PROVE  /\ Steady /\ Progress
             /\ \A p \in Primaries : Exists(p) => Done(p)
             /\ \A p \in Primaries : WantedNow(p) \subseteq OnRecord
    <2>1. Steady /\ Progress
        BY <1>2 DEF RInv, Repairs
    <2>2. \A p \in Primaries : Exists(p) => Done(p)
        BY <1>2, <2>1 DEF Progress, Ahead
    <2>3. \A p \in Primaries : ~Exists(p) => WantedNow(p) = {}
        BY DEF WantedNow
    <2> QED
        BY <2>1, <2>2, <2>3 DEF Done, OnRecord
<1>3. CASE SnapshotWanted
    <2>1. PICK r : r = [proc[w] EXCEPT !.pc = "list", !.want = OnRecord]
        OBVIOUS
    <2>2. /\ Moves(w, r) /\ api' = api /\ lastOutputs' = lastOutputs
          /\ proc[w].pc = "run" /\ proc[w].todo = {}
        BY <1>3, <2>1 DEF SnapshotWanted, Moves, OnRecord
    <2>3. r.pc = "list" /\ r.todo = {} /\ r.want = OnRecord /\ OriginOK(r)
        BY <1>1, <2>1, <2>2 DEF ProcRecord, OriginOK
    <2>4. Origins'
        BY <1>1, <2>2, <2>3, LocalOrigins DEF RInv, Moves
    <2>5. ASSUME pass # "disturbed"
          PROVE  Repairs'
        <3>1. Mends /\ Current(r)'
            BY <2>2, <2>3 DEF Mends, Current
        <3>2. Steady'
            BY <1>1, <1>2, <2>2, <2>5, <3>1, SteadyStep DEF RInv
        <3>3. \A p \in Primaries : Exists(p)' => Done(p)'
            BY <1>2, <2>2, <2>5, <3>1, MendsDone, MendsInputs, SameInputs DEF RInv, IInv
        <3>4. OnRecord' = OnRecord /\ proc'[w] = r /\ pass' = pass /\ pass = "undisturbed"
            BY <1>1, <1>2, <2>2, <2>5 DEF OnRecord, Moves, Progress, RInv, IInv, TypeOK
        <3>5. Progress'
            BY <2>3, <3>3, <3>4 DEF Progress
        <3> QED
            BY <3>2, <3>5 DEF Repairs
    <2> QED
        BY <2>2, <2>4, <2>5 DEF Moves, Repairs
<1>4. CASE ListManaged
    <2>1. PICK r : r = [proc[w] EXCEPT !.pc = "collect", !.left = {o \in Outputs : Exists(o)} \ proc[w].want]
        OBVIOUS
    <2>2. /\ Moves(w, r) /\ api' = api /\ lastOutputs' = lastOutputs /\ proc[w].pc = "list"
        BY <1>4, <2>1 DEF ListManaged, Moves
    <2>3. /\ r.pc = "collect" /\ r.todo = proc[w].todo /\ OriginOK(r)
          /\ r.left = {o \in Outputs : Exists(o)} \ proc[w].want
        BY <1>1, <2>1, <2>2 DEF ProcRecord, OriginOK
    <2>4. Origins'
        BY <1>1, <2>2, <2>3, LocalOrigins DEF RInv, Moves
    <2>5. ASSUME pass # "disturbed"
          PROVE  Repairs'
        <3>1. proc[w].want = OnRecord /\ proc[w].todo = {} /\ pass = "undisturbed"
            BY <1>2, <2>2, <2>5 DEF Progress
        <3>2. Mends
            BY <2>2 DEF Mends
        <3>3. Current(r)
            BY <1>2, <2>2, <2>3, <2>5, <3>1 DEF Current
        <3>4. Current(r)'
            BY <2>2, <3>3 DEF Current, Exists, ReadNow, WantedNow, ProperNow
        <3>5. Steady'
            BY <1>1, <1>2, <2>2, <2>5, <3>2, <3>4, SteadyStep DEF RInv
        <3>6. \A p \in Primaries : Exists(p)' => Done(p)'
            BY <1>2, <2>2, <2>5, <3>2, MendsDone, MendsInputs, SameInputs DEF RInv, IInv
        <3>7. OnRecord' = OnRecord /\ proc'[w] = r /\ pass' = pass
            BY <1>1, <2>2 DEF OnRecord, Moves, RInv, IInv, TypeOK
        <3>8. \A o \in Outputs : Exists(o)' => o \in r.left \cup OnRecord
            BY <2>2, <2>3, <3>1 DEF Exists
        <3>9. Progress'
            BY <2>3, <3>1, <3>6, <3>7, <3>8 DEF Progress
        <3> QED
            BY <3>5, <3>9 DEF Repairs
    <2> QED
        BY <2>2, <2>4, <2>5 DEF Moves, Repairs
<1>5. ASSUME NEW o \in Outputs, CollectOrphan(o)
      PROVE  Origins' /\ Repairs'
    <2>1. PICK r : r = [proc[w] EXCEPT !.left = @ \ {o}]
        OBVIOUS
    <2>2. /\ Moves(w, r) /\ api' = [api EXCEPT ![o] = Absent] /\ lastOutputs' = lastOutputs
          /\ proc[w].pc = "collect" /\ o \in proc[w].left
        BY <1>5, <2>1 DEF CollectOrphan, Moves
    <2>3. r.pc = "collect" /\ r.todo = proc[w].todo /\ r.left = proc[w].left \ {o} /\ OriginOK(r)
        BY <1>1, <2>1, <2>2 DEF ProcRecord, OriginOK
    <2>4. Origins'
        BY <1>1, <2>2, <2>3, LocalOrigins DEF RInv, Moves
    <2>5. ASSUME pass # "disturbed"
          PROVE  Repairs'
        <3>1. /\ proc[w].todo = {} /\ pass = "undisturbed" /\ Current(proc[w])
              /\ \A x \in Outputs : Exists(x) => x \in proc[w].left \cup OnRecord
            BY <1>1, <1>2, <2>2, <2>5 DEF Progress, Steady
        <3>2. Mends
            BY <2>2, <3>1 DEF Mends, Deletes, Current
        <3>3. Current(r)
            BY <2>2, <2>3, <3>1 DEF Current
        <3>4. Current(r)'
            BY <2>3, <3>2, <3>3, MendsCurrent DEF RInv, IInv
        <3>5. Steady'
            BY <1>1, <1>2, <2>2, <2>5, <3>2, <3>4, SteadyStep DEF RInv
        <3>6. \A p \in Primaries : Exists(p)' => Done(p)'
            BY <1>2, <2>2, <2>5, <3>2, MendsDone, MendsInputs, SameInputs DEF RInv, IInv
        <3>7. OnRecord' = OnRecord /\ proc'[w] = r /\ pass' = pass
            BY <1>1, <2>2 DEF OnRecord, Moves, RInv, IInv, TypeOK
        <3>8. \A x \in Outputs : Exists(x)' => x \in r.left \cup OnRecord
            BY <2>2, <2>3, <3>1 DEF Exists, RInv, IInv, TypeOK, StoreOK, Keys
        <3>9. Progress'
            BY <2>3, <3>1, <3>6, <3>7, <3>8 DEF Progress
        <3> QED
            BY <3>5, <3>9 DEF Repairs
    <2> QED
        BY <2>2, <2>4, <2>5 DEF Moves, Repairs
<1>6. CASE EndResync
    <2>1. /\ proc' = [proc EXCEPT ![w] = Idle] /\ UNCHANGED <<api, cache, lastOutputs>>
          /\ proc[w].pc = "collect" /\ proc[w].left = {}
          /\ pass' = IF pass = "undisturbed" THEN "complete" ELSE pass
        BY <1>6 DEF EndResync
    <2>2. Idle.pc = "idle" /\ Idle.todo = {} /\ OriginOK(Idle)
        BY DEF Idle, OriginOK
    <2>3. Origins'
        BY <1>1, <2>1, <2>2, LocalOrigins DEF RInv
    <2>4. ASSUME pass # "disturbed"
          PROVE  Repairs'
        <3>1. /\ pass = "undisturbed" /\ pass' = "complete" /\ Steady
              /\ \A x \in Outputs : Exists(x) => x \in OnRecord
            BY <1>2, <2>1, <2>4 DEF Progress
        <3>2. Current(Idle)'
            BY <2>2 DEF Current
        <3>3. \A v \in Procs : Current(proc[v])'
            <4>1. \A v \in Procs : v # w => proc'[v] = proc[v]
                BY <2>1 DEF RInv, IInv, TypeOK
            <4>2. proc'[w] = Idle
                BY <1>1, <2>1 DEF RInv, IInv, TypeOK
            <4>3. ASSUME NEW v \in Procs, v # w
                  PROVE  Current(proc[v])'
                BY <2>1, <3>1, <4>1, <4>3 DEF Steady, Current, Exists, ReadNow, WantedNow, ProperNow
            <4> QED
                BY <2>2, <4>2, <4>3 DEF Current
        <3>4. Steady'
            BY <2>1, <3>1, <3>3 DEF Steady, Garbage, Exists
        <3>5. Mends
            BY <2>1 DEF Mends
        <3>6. \A p \in Primaries : Exists(p)' => Done(p)'
            BY <1>2, <2>1, <2>4, <3>5, MendsDone, MendsInputs, SameInputs DEF RInv, IInv
        <3>7. OnRecord' = OnRecord /\ proc'[w] = Idle /\ \A x \in Outputs : Exists(x)' => Exists(x)
            BY <1>1, <2>1 DEF OnRecord, Exists, RInv, IInv, TypeOK
        <3>8. Progress'
            BY <2>2, <3>1, <3>6, <3>7 DEF Progress
        <3> QED
            BY <3>4, <3>8 DEF Repairs
    <2> QED
        BY <2>1, <2>3, <2>4 DEF Repairs
<1> QED
    BY <1>3, <1>4, <1>5, <1>6

\* A delivery in an undisturbed pass is about an output.
LEMMA ClusterRepairs ==
    ASSUME RInv, Cluster
    PROVE  Repairs'
<1>1. ASSUME NEW h \in Handlers, NEW k \in KeysOf[h], Deliver(h, k)
      PROVE  Repairs'
    <2>1. cache' = [cache EXCEPT ![k] = api[k]] /\ UNCHANGED <<api, lastOutputs, proc, pass>>
        BY <1>1 DEF Deliver
    <2>2. DOMAIN cache = Keys
        BY DEF RInv, IInv, TypeOK, StoreOK
    <2>3. Steady => Steady'
        BY <2>1, <2>2 DEF Steady, Current, Garbage, Exists, ReadNow, WantedNow, ProperNow, Keys
    <2>4. Progress => Progress'
        BY <2>1 DEF Progress, Ahead, Done, OnRecord, Exists, ReadNow, WantedNow, ProperNow
    <2> QED
        BY <2>1, <2>3, <2>4 DEF RInv, Repairs
<1>2. ASSUME NEW o \in Outputs, CollectGarbage(o)
      PROVE  Repairs'
    BY <1>2 DEF CollectGarbage, RInv, Repairs, Steady
<1> QED
    BY <1>1, <1>2 DEF Cluster

\* A failed call of one goroutine.
LEMMA FailureOrigins ==
    ASSUME RInv, NEW w \in Procs, NEW o \in Outputs, ApplyFails(w, o) \/ DeleteStaleFails(w, o)
    PROVE  Origins'
<1>1. proc[w] \in ProcRecord /\ OriginOK(proc[w])
    BY DEF RInv, IInv, TypeOK, Origins
<1>2. CASE ApplyFails(w, o)
    <2>1. PICK r : r = Sent(w, o)
        OBVIOUS
    <2>2. /\ proc' = [proc EXCEPT ![w] = r] /\ UNCHANGED <<api, cache, lastOutputs>>
          /\ proc[w].pc = "send"
        BY <1>2, <2>1 DEF ApplyFails
    <2>3. OriginOK(r)
        BY <1>1, <2>1, <2>2 DEF Sent, OriginOK, ProcRecord
    <2> QED
        BY <2>2, <2>3, LocalOrigins DEF RInv
<1>3. CASE DeleteStaleFails(w, o)
    <2>1. PICK r : r = StaleLeft(w, o)
        OBVIOUS
    <2>2. /\ proc' = [proc EXCEPT ![w] = r] /\ UNCHANGED <<api, cache, lastOutputs>>
          /\ proc[w].pc = "delete"
        BY <1>3, <2>1 DEF DeleteStaleFails
    <2>3. OriginOK(r)
        BY <1>1, <2>1, <2>2, RunOverRepairs DEF RInv, StaleLeft, OriginOK, ProcRecord
    <2> QED
        BY <2>2, <2>3, LocalOrigins DEF RInv
<1> QED
    BY <1>2, <1>3

LEMMA CollectFailsOrigins ==
    ASSUME RInv, ListManagedFails \/ \E o \in Outputs : CollectOrphanFails(o)
    PROVE  Origins'
<1> DEFINE w == "resync"
<1>1. w \in Procs /\ proc[w] \in ProcRecord /\ OriginOK(proc[w])
    BY DEF RInv, IInv, TypeOK, Procs, Origins
<1>2. CASE ListManagedFails
    <2>1. PICK r : r = [proc[w] EXCEPT !.pc = "collect"]
        OBVIOUS
    <2>2. /\ proc' = [proc EXCEPT ![w] = r] /\ UNCHANGED <<api, cache, lastOutputs>>
          /\ OriginOK(r)
        BY <1>1, <1>2, <2>1 DEF ListManagedFails, OriginOK, ProcRecord
    <2> QED
        BY <1>1, <2>2, LocalOrigins DEF RInv
<1>3. ASSUME NEW o \in Outputs, CollectOrphanFails(o)
      PROVE  Origins'
    <2>1. PICK r : r = [proc[w] EXCEPT !.left = @ \ {o}]
        OBVIOUS
    <2>2. /\ proc' = [proc EXCEPT ![w] = r] /\ UNCHANGED <<api, cache, lastOutputs>>
          /\ OriginOK(r)
        BY <1>1, <1>3, <2>1 DEF CollectOrphanFails, OriginOK, ProcRecord
    <2> QED
        BY <1>1, <2>2, LocalOrigins DEF RInv
<1> QED
    BY <1>2, <1>3

LEMMA StepRepairs ==
    ASSUME OwnOutputs
    PROVE  RInv /\ [Next]_vars => RInv'
<1> SUFFICES ASSUME RInv, [Next]_vars
             PROVE  Origins' /\ Repairs'
    BY StepInv DEF RInv
<1>1. CASE UNCHANGED vars
    <2>1. UNCHANGED <<api, cache, lastOutputs, proc, pass>>
        BY <1>1 DEF vars, manager
    <2>2. Origins'
        BY <2>1 DEF RInv, Origins, OriginOK, Exists
    <2>3. Steady => Steady'
        BY <2>1 DEF Steady, Current, Garbage, Exists, ReadNow, WantedNow, ProperNow
    <2>4. Progress => Progress'
        BY <2>1 DEF Progress, Ahead, Done, OnRecord, Exists, ReadNow, WantedNow, ProperNow
    <2> QED
        BY <2>1, <2>2, <2>3, <2>4 DEF RInv, Repairs
<1>2. CASE Users
    <2>1. pass' = "disturbed"
        BY <1>2 DEF Users, CreatePrimary, UpdatePrimary, DeletePrimary, ChangeDep, DeleteOutput, Change
    <2> QED
        BY <1>2, <2>1, UsersOrigins DEF RInv, Repairs
<1>3. CASE Cluster
    BY <1>3, ClusterOrigins, ClusterRepairs DEF RInv
<1>4. CASE Trouble
    <2>1. pass' = "disturbed"
        BY <1>4 DEF Trouble, Restart, ListManagedFails, CollectOrphanFails, ApplyFails, DeleteStaleFails
    <2>2. Origins'
        BY <1>4, RestartOrigins, FailureOrigins, CollectFailsOrigins DEF Trouble, RInv
    <2> QED
        BY <2>1, <2>2 DEF Repairs
<1>5. CASE Resync
    <2>1. "resync" \in Procs
        BY DEF Procs
    <2> QED
        BY <1>5, <2>1, RunsRepair, StartResyncRepairs, CollectingRepairs DEF Resync
<1>6. ASSUME NEW h \in Handlers, Handle(h)
      PROVE  Origins' /\ Repairs'
    BY <1>6, RunsRepair, HandlerRepairs DEF Handle, Procs
<1> QED
    BY <1>1, <1>2, <1>3, <1>4, <1>5, <1>6 DEF Next

LEMMA RepairsRestored ==
    ASSUME OwnOutputs, RInv
    PROVE  ResyncRepairs
<1> SUFFICES ASSUME pass = "complete"
             PROVE  Restored
    BY DEF ResyncRepairs
<1>1. Steady /\ Progress /\ proc["resync"].pc = "idle" /\ proc["resync"].todo = {}
    BY DEF RInv, Repairs, Progress
<1>2. \A p \in Primaries : Exists(p) => Done(p)
    BY <1>1 DEF Progress, Ahead
<1>3. OutputsInPlace
    BY <1>2 DEF OutputsInPlace, Done, WantedNow
<1>4. ASSUME NEW o \in Outputs, Exists(o)
      PROVE  (\E p \in Primaries : o \in WantedNow(p)) \/ Stranded(o)
    <2>1. PICK p \in Primaries : o \in lastOutputs[p]
        BY <1>1, <1>4 DEF Progress, OnRecord
    <2>2. CASE Exists(p)
        BY <1>2, <2>1, <2>2 DEF Done
    <2>3. CASE ~Exists(p)
        <3>1. CASE api[o].owner = NoOwner
            BY <2>1, <2>3, <3>1 DEF Stranded
        <3>2. CASE api[o].owner # NoOwner
            <4>1. PICK q \in Primaries : Exists(q) /\ api[q].uid = api[o].owner
                BY <1>1, <1>4, <3>2 DEF Steady, Garbage
            <4>2. o \in Makes(q) /\ o \in Makes(p)
                BY <1>4, <2>1, <3>2, <4>1 DEF RInv, Origins, Exists
            <4>3. p = q
                BY <4>2 DEF OwnOutputs
            <4> QED
                BY <2>3, <4>1, <4>3
        <3> QED
            BY <3>1, <3>2
    <2> QED
        BY <2>2, <2>3
<1> QED
    BY <1>3, <1>4 DEF Restored

\* A full reconcile with gcOrphans that begins with nothing else on its way
\* leaves every output as its reconciler wants it and no other, whatever the
\* handlers do meanwhile, and so it stays until the next change, failure or
\* crash.  This holds for a reconciler that never makes one output for two
\* primaries: without annotation ownership each run for one of them overwrites
\* what the other has applied.
THEOREM ResyncMakesGood ==
    ASSUME OwnOutputs
    PROVE  Spec => []ResyncRepairs
<1>1. Init => RInv
    <2>1. Init => Repairs
        BY DEF Init, Repairs
    <2> QED
        BY <2>1, InitInv, InitOrigins DEF RInv
<1>2. RInv /\ [Next]_vars => RInv'
    BY StepRepairs
<1>3. RInv => ResyncRepairs
    BY RepairsRestored
<1> QED
    BY <1>1, <1>2, <1>3, PTL DEF Spec
=============================================================================
