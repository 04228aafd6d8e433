-------------------------- MODULE EventLoop_proofs --------------------------
(***************************************************************************)
(* The theorems of EventLoop: its types, that the loop leaves nothing for  *)
(* the next resync (UpToDate), and three promises about its steps          *)
(* (CallbackBeforeGone, ForeignKept, OrphansUnlessUnrecorded), for every   *)
(* set of objects, registration, function and predicate.                   *)
(*                                                                         *)
(* All follow from one inductive invariant, IInv.  Next to the types it    *)
(* says of each invocation that it is Covered: it is waiting to be run, or *)
(* the tracker knows what it reads and an event of that is on its way, or  *)
(* what it made is what its function makes of the cache; of each cleanup   *)
(* that the copy it was given is still followed by the object; of each     *)
(* output made for a primary in the cache that it is on record.  One lemma *)
(* per action shows that it is kept, from what the action does, stated     *)
(* without the action's detail (ByUser, RanOutput, CleanedUp).             *)
(***************************************************************************)
EXTENDS EventLoop, SequenceTheorems, TLAPS

-----------------------------------------------------------------------------
\* The inductive invariant: types.

\* UIDs that the cluster has given to o when there have been n changes.
Given(o, n) == {o} \X (0 .. n)

IsPrimaryObject(x, o, n) ==
    /\ DOMAIN x = {"spec", "status", "finalizers", "deleting", "uid"}
    /\ x.finalizers \subseteq {Own, Foreign}
    /\ x.deleting \in BOOLEAN
    /\ x.deleting => x.finalizers # {}
    /\ x.uid \in Given(o, n)

IsOutputObject(x, o, n) ==
    /\ DOMAIN x = {"spec", "status", "owner"}
    /\ x.owner \in Given(o, n)

StoreOK(store, n) ==
    /\ DOMAIN store = Objects
    /\ \A o \in Primaries : store[o] # Absent => IsPrimaryObject(store[o], o, n)
    /\ \A ref \in OutputRuns :
          store[OutputOf(ref)] # Absent => IsOutputObject(store[OutputOf(ref)], Primary(ref), n)

QueueOK ==
    /\ queue \in [GVKs -> Seq(Objects)]
    /\ \A k \in GVKs : \A i \in DOMAIN queue[k] : queue[k][i].gvk = k

IsCleanup(t, n) ==
    /\ t.do = "cleanup" /\ t.primary \in Primaries /\ NeedsFinalizer(t.primary.gvk)
    /\ IsPrimaryObject(t.base, t.primary, n) /\ t.base.deleting

TaskOK(t, n) ==
    \/ \E ref \in OutputRuns : t = Run(ref)
    \/ \E ref \in Runs(statusReconcilers) : t = RunStatus(ref)
    \/ IsCleanup(t, n)

Registered == {All[i] : i \in DOMAIN All}

\* What a goroutine is at: a watch handles an event, the resync goes through
\* its plan.
JobOK(j, p, n) ==
    /\ DOMAIN j = DOMAIN Idle
    /\ j.at \in (IF p = "resync" THEN {"idle", "resync"} ELSE {"idle", "own", "deleting", "routed"})
    /\ j.at = "idle" => j = Idle
    /\ j.at = "routed" => j.todo # <<>>
    /\ j.todo # <<>> => Tasks(j.todo) # {}
    /\ j.at \in {"own", "deleting"} => j.event \in Objects /\ j.event.gvk = p /\ IsPrimary(p)
    /\ j.plan \in Seq(Registered)
    /\ \A t \in Tasks(j.todo) : TaskOK(t, n)

RecordsOK ==
    /\ DOMAIN lastOutputs = OutputRuns
    /\ \A ref \in OutputRuns : lastOutputs[ref] \subseteq {OutputOf(ref)}
    /\ DOMAIN declared = Invocations
    /\ missed \subseteq Invocations
    /\ called \cup held \cup stripped \subseteq Primaries \X (0 .. changes)

Types ==
    /\ changes \in 0 .. MaxChanges
    /\ StoreOK(server, changes) /\ StoreOK(cache, changes)
    /\ QueueOK
    /\ DOMAIN job = Procs /\ \A p \in Procs : JobOK(job[p], p, changes)
    /\ RecordsOK

-----------------------------------------------------------------------------
\* The inductive invariant: what keeps one part of the state in step with
\* another.

\* The cache shows the object that there is, if it shows one, perhaps before
\* its deletion; from then on finalizers only go.
Follows(c, s) ==
    c # Absent /\ s # Absent =>
        /\ c.uid = s.uid
        /\ c.deleting => s.deleting /\ (Foreign \in s.finalizers => Foreign \in c.finalizers)
CacheFollows == \A o \in Primaries : Follows(cache[o], server[o])

\* The tasks that any goroutine has before it.
Hands == UNION {Tasks(job[p].todo) : p \in Procs}

\* So does the copy that a cleanup was given, which the cache may have left
\* behind.
BaseFollowed(b, c, s) ==
    /\ c # Absent /\ c.uid = b.uid => c.deleting
    /\ s # Absent /\ s.uid = b.uid =>
          c # Absent /\ (Foreign \in s.finalizers => Foreign \in b.finalizers)
BasesFollowed ==
    \A t \in Hands : t.do = "cleanup" => BaseFollowed(t.base, cache[t.primary], server[t.primary])

\* An object that has had the finalizer has it still, or its callback has
\* succeeded, or it was stripped of it.
HeldOrCalled ==
    \A o \in Primaries : server[o] # Absent /\ server[o].uid \in held =>
        Own \in server[o].finalizers \/ server[o].uid \in called \cup stripped

Made(ref, uid) == server[OutputOf(ref)] # Absent /\ server[OutputOf(ref)].owner = uid

\* Nothing has been made for an object that the cache does not show yet.
UnseenOwnNothing ==
    \A ref \in OutputRuns :
        cache[Primary(ref)] = Absent /\ server[Primary(ref)] # Absent => ~Made(ref, server[Primary(ref)].uid)

\* What has been made for a primary is on record.
OnRecord ==
    \A ref \in OutputRuns : Active(ref) /\ Made(ref, cache[Primary(ref)].uid) =>
        OutputOf(ref) \in lastOutputs[ref] \cup unrecorded

Accepted(ref) == Accepts(ref.id, cache[Primary(ref)].spec)

\* The invocation will be run: it is a task, an event of its primary will make
\* it one, or the resync will.
Queued(o) == \E i \in DOMAIN queue[o.gvk] : queue[o.gvk][i] = o
Planned(id) == \E i \in DOMAIN job["resync"].plan : job["resync"].plan[i].id = id
Direct(ref) ==
    LET o == Primary(ref) IN
    \/ Run(ref) \in Hands \/ RunStatus(ref) \in Hands
    \/ Queued(o)
    \/ job[o.gvk].at = "own" /\ job[o.gvk].event = o /\ ref \notin OutputRuns
    \/ Planned(ref.id)

\* The tracker will be asked who reads x.
Announced(x) == Queued(x) \/ (job[x.gvk].at \in {"own", "deleting"} /\ job[x.gvk].event = x)

\* Nothing is left to do for it, as far as the cache shows.
Settled(ref) ==
    LET o == Primary(ref) IN
    IF ref \in OutputRuns
    THEN IF Accepted(ref) THEN Made(ref, cache[o].uid) /\ server[OutputOf(ref)].spec = View(ref)
         ELSE ~Made(ref, cache[o].uid)
    ELSE Accepted(ref) => server[o].status = Seen(ref)

\* The tracker knows what it reads, and an event of that is under way.
Known(ref)   == Accepted(ref) => Fetches(ref) \subseteq declared[ref].narrow
ToLearn(ref) == Accepted(ref) /\ \E x \in Fetches(ref) : Announced(x)

Covered(ref) ==
    Active(ref) =>
        \/ ref \in missed \/ OffRecord(ref)
        \/ server[Primary(ref)] = Absent
        \/ Direct(ref)
        \/ Known(ref) /\ (Settled(ref) \/ ToLearn(ref))
AllCovered == \A ref \in Invocations : Covered(ref)

IInv == Types /\ CacheFollows /\ BasesFollowed /\ HeldOrCalled /\ UnseenOwnNothing /\ OnRecord /\ AllCovered

-----------------------------------------------------------------------------
\* The registrations.

LEMMA AllTypes ==
    /\ All \in Seq([id : STRING, primary : STRING])
    /\ Len(All) = Len(reconcilers) + Len(statusReconcilers)
    /\ \A i \in DOMAIN reconcilers : i \in DOMAIN All /\ All[i] = reconcilers[i]
    /\ \A i \in DOMAIN statusReconcilers :
          Len(reconcilers) + i \in DOMAIN All /\ All[Len(reconcilers) + i] = statusReconcilers[i]
    /\ \A i \in DOMAIN All : \/ i \in DOMAIN reconcilers
                             \/ i - Len(reconcilers) \in DOMAIN statusReconcilers
BY RegistrationAssumption DEF All

LEMMA IDDetermines ==
    ASSUME NEW i \in DOMAIN All
    PROVE  PrimaryGVK(All[i].id) = All[i].primary
<1>1. (CHOOSE j \in DOMAIN All : All[j].id = All[i].id) = i
  BY RegistrationAssumption
<1>2. QED BY <1>1 DEF PrimaryGVK

\* An object of a reconciler's type is the primary of an invocation of it.
LEMMA Invoked ==
    ASSUME NEW i \in DOMAIN All, NEW o \in Objects, o.gvk = All[i].primary
    PROVE  /\ Of(All[i], o) \in Invocations /\ Primary(Of(All[i], o)) = o
           /\ Of(All[i], o).id = All[i].id /\ Of(All[i], o).key = Key(o)
           /\ i \in DOMAIN reconcilers => Of(All[i], o) \in OutputRuns
           /\ i - Len(reconcilers) \in DOMAIN statusReconcilers => Of(All[i], o) \in Runs(statusReconcilers)
<1> DEFINE ref == Of(All[i], o)
<1>1. o \in Primaries BY DEF Primaries, IsPrimary
<1>2. ref.id = All[i].id /\ ref.key = Key(o) BY DEF Of
<1>3. Object(PrimaryGVK(ref.id), ref.key) = o
  BY <1>2, IDDetermines, ObjectsAssumption
<1>4. ref \in RefsOf(All) BY <1>1 DEF RefsOf
<1>5. ref \in Invocations BY <1>3, <1>4 DEF Invocations, Runs
<1>6. Primary(ref) = o BY <1>3, <1>5 DEF Primary, PrimaryOf
<1>7. ASSUME i \in DOMAIN reconcilers PROVE ref \in OutputRuns
  <2>1. ref \in RefsOf(reconcilers) BY <1>1, <1>7, AllTypes DEF RefsOf
  <2>2. QED BY <1>3, <2>1 DEF OutputRuns, Runs
<1>8. ASSUME i - Len(reconcilers) \in DOMAIN statusReconcilers PROVE ref \in Runs(statusReconcilers)
  <2>1. All[i] = statusReconcilers[i - Len(reconcilers)] BY <1>8, AllTypes
  <2>2. ref \in RefsOf(statusReconcilers) BY <1>1, <1>8, <2>1 DEF RefsOf
  <2>3. QED BY <1>3, <2>2 DEF Runs
<1>9. QED BY <1>2, <1>5, <1>6, <1>7, <1>8

\* And an invocation is that of one reconciler for one primary.
LEMMA InvocationOf ==
    ASSUME NEW ref \in Invocations
    PROVE  /\ Primary(ref) \in Primaries /\ Primary(ref) \in Objects
           /\ Primary(ref).gvk \in GVKs
           /\ ref.key = Key(Primary(ref))
           /\ \E i \in DOMAIN All : /\ All[i].primary = Primary(ref).gvk /\ ref.id = All[i].id
                                    /\ ref = Of(All[i], Primary(ref))
<1>1. PICK i \in DOMAIN All, o \in Primaries : ref = Of(All[i], o)
  BY DEF Invocations, Runs, RefsOf
<1>2. ref.id = All[i].id /\ ref.key = Key(o) BY <1>1 DEF Of
<1>3. Primary(ref) = Object(All[i].primary, Key(o)) /\ Primary(ref) \in Objects
  BY <1>2, IDDetermines DEF Invocations, Runs, Primary, PrimaryOf
<1>4. Primary(ref).gvk = All[i].primary /\ Key(Primary(ref)) = Key(o)
  BY <1>3 DEF Object, Key
<1>5. Primary(ref) \in Primaries BY <1>3, <1>4 DEF Primaries, IsPrimary
<1>6. ref = Of(All[i], Primary(ref)) BY <1>1, <1>4 DEF Of
<1>7. QED BY <1>2, <1>3, <1>4, <1>5, <1>6 DEF GVKs

LEMMA RunKinds ==
    /\ OutputRuns \subseteq Invocations /\ Runs(statusReconcilers) \subseteq Invocations
    /\ Invocations \subseteq OutputRuns \cup Runs(statusReconcilers)
    /\ OutputRuns \cap Runs(statusReconcilers) = {}
<1>1. RefsOf(reconcilers) \subseteq RefsOf(All) BY AllTypes DEF RefsOf
<1>2. RefsOf(statusReconcilers) \subseteq RefsOf(All) BY AllTypes DEF RefsOf
<1>3. OutputRuns \subseteq Invocations /\ Runs(statusReconcilers) \subseteq Invocations
  BY <1>1, <1>2 DEF OutputRuns, Invocations, Runs
<1>4. ASSUME NEW ref \in Invocations PROVE ref \in OutputRuns \cup Runs(statusReconcilers)
  <2>1. PICK i \in DOMAIN All : All[i].primary = Primary(ref).gvk /\ ref = Of(All[i], Primary(ref))
    BY InvocationOf
  <2>2. QED BY <2>1, Invoked, InvocationOf, AllTypes
<1>5. ASSUME NEW ref \in OutputRuns, ref \in Runs(statusReconcilers) PROVE FALSE
  <2>1. PICK i \in DOMAIN reconcilers : ref.id = reconcilers[i].id BY DEF OutputRuns, Runs, RefsOf, Of
  <2>2. PICK j \in DOMAIN statusReconcilers : ref.id = statusReconcilers[j].id BY <1>5 DEF Runs, RefsOf, Of
  <2>3. i \in DOMAIN All /\ All[i].id = ref.id BY <2>1, AllTypes
  <2>4. Len(reconcilers) + j \in DOMAIN All /\ All[Len(reconcilers) + j].id = ref.id BY <2>2, AllTypes
  <2>5. i = Len(reconcilers) + j BY <2>3, <2>4, RegistrationAssumption
  <2>6. QED BY <2>5, RegistrationAssumption
<1>6. QED BY <1>3, <1>4, <1>5

\* A type has one status reconciler: a primary has one status run.
LEMMA OneStatusRun ==
    ASSUME NEW ref \in Runs(statusReconcilers), NEW other \in Runs(statusReconcilers),
           Primary(ref) = Primary(other)
    PROVE  ref = other
<1>1. PICK i \in DOMAIN statusReconcilers : ref.id = statusReconcilers[i].id BY DEF Runs, RefsOf, Of
<1>2. PICK j \in DOMAIN statusReconcilers : other.id = statusReconcilers[j].id BY DEF Runs, RefsOf, Of
<1>3. PICK a \in DOMAIN All : /\ All[a].primary = Primary(ref).gvk /\ ref.id = All[a].id
                              /\ ref = Of(All[a], Primary(ref))
  BY InvocationOf, RunKinds
<1>4. PICK b \in DOMAIN All : /\ All[b].primary = Primary(ref).gvk /\ other.id = All[b].id
                              /\ other = Of(All[b], Primary(ref))
  BY InvocationOf, RunKinds
<1>5. a = Len(reconcilers) + i /\ b = Len(reconcilers) + j
  <2>1. Len(reconcilers) + i \in DOMAIN All /\ All[Len(reconcilers) + i].id = ref.id BY <1>1, AllTypes
  <2>2. Len(reconcilers) + j \in DOMAIN All /\ All[Len(reconcilers) + j].id = other.id BY <1>2, AllTypes
  <2>3. QED BY <1>3, <1>4, <2>1, <2>2, RegistrationAssumption
<1>6. statusReconcilers[i].primary = statusReconcilers[j].primary BY <1>3, <1>4, <1>5, AllTypes
<1>7. QED BY <1>3, <1>4, <1>5, <1>6, RegistrationAssumption

LEMMA OutputFacts ==
    ASSUME NEW ref \in OutputRuns
    PROVE  /\ OutputOf(ref) \in Outputs /\ OutputOf(ref) \in Objects /\ OutputOf(ref) \notin Primaries
           /\ Primary(ref) \in Primaries /\ ref \in Invocations
           /\ \A other \in OutputRuns : OutputOf(ref) = OutputOf(other) => ref = other
BY OutputAssumption, RunKinds, InvocationOf DEF Outputs

-----------------------------------------------------------------------------
\* Batches.

LEMMA TasksOfBatches ==
    ASSUME NEW todo
    PROVE  /\ Tasks(Batches(todo)) = Tasks(todo)
           /\ Batches(todo) # <<>> => Tasks(Batches(todo)) # {}
<1>1. Tasks(<<>>) = {} BY DEF Tasks
<1>2. QED BY <1>1 DEF Batches

LEMMA TasksOfOne ==
    ASSUME NEW batch
    PROVE  Tasks(<<batch>>) = batch
<1>1. DOMAIN <<batch>> = {1} /\ <<batch>>[1] = batch OBVIOUS
<1>2. QED BY <1>1 DEF Tasks

LEMMA TasksWithout ==
    ASSUME NEW todo, NEW t
    PROVE  /\ Tasks(Without(todo, t)) \subseteq Tasks(todo)
           /\ Tasks(todo) \ {t} \subseteq Tasks(Without(todo, t))
           /\ Without(todo, t) # <<>> => Tasks(Without(todo, t)) # {}
<1> DEFINE rest == [i \in DOMAIN todo |-> IF Begun(todo, i) THEN todo[i] \ {t} ELSE todo[i]]
<1>1. Tasks(rest) \subseteq Tasks(todo) /\ Tasks(todo) \ {t} \subseteq Tasks(rest) BY DEF Tasks
<1>2. QED BY <1>1, TasksOfBatches DEF Without

LEMMA CurrentTasks ==
    ASSUME NEW todo, NEW t \in Current(todo)
    PROVE  t \in Tasks(todo)
BY DEF Current, Tasks

LEMMA TasksOfConcat ==
    ASSUME NEW batch, NEW n \in Nat, NEW F, DOMAIN F = 1 .. n, F = [i \in 1 .. n |-> F[i]]
    PROVE  Tasks(<<batch>> \o F) = batch \cup UNION {F[i] : i \in 1 .. n}
<1> DEFINE S == {batch} \cup {F[i] : i \in 1 .. n}
<1>1. F \in Seq(S) /\ <<batch>> \in Seq(S) /\ Len(F) = n BY IsASeq
<1> DEFINE C == <<batch>> \o F
<1>2. DOMAIN C = 1 .. n + 1 /\ C[1] = batch /\ \A i \in 1 .. n : C[i + 1] = F[i]
  BY <1>1
<1>3. \A i \in DOMAIN C : i = 1 \/ i - 1 \in 1 .. n BY <1>2
<1>4. {C[i] : i \in DOMAIN C} = S
  <2>1. ASSUME NEW i \in DOMAIN C PROVE C[i] \in S
    <3>1. CASE i = 1 BY <3>1, <1>2
    <3>2. CASE i - 1 \in 1 .. n
      <4>1. C[(i - 1) + 1] = F[i - 1] BY <3>2, <1>2
      <4>2. C[i] = F[i - 1] /\ F[i - 1] \in S BY <3>2, <4>1, <1>2
      <4>3. QED BY <4>2
    <3>3. QED BY <1>3, <3>1, <3>2
  <2>2. ASSUME NEW i \in 1 .. n PROVE i + 1 \in DOMAIN C /\ C[i + 1] = F[i] BY <1>2
  <2>3. 1 \in DOMAIN C /\ C[1] = batch BY <1>2
  <2>4. ASSUME NEW x \in S PROVE x \in {C[i] : i \in DOMAIN C}
    <3>1. CASE x = batch BY <3>1, <2>3
    <3>2. CASE x \in {F[i] : i \in 1 .. n}
      <4>1. PICK i \in 1 .. n : x = F[i] BY <3>2
      <4>2. QED BY <4>1, <2>2
    <3>3. QED BY <3>1, <3>2
  <2>5. QED BY <2>1, <2>4
<1>5. Tasks(C) = UNION S BY <1>4 DEF Tasks
<1>6. QED BY <1>5

-----------------------------------------------------------------------------
\* Objects and stores.

LEMMA AbsentFields ==
    /\ "uid" \notin DOMAIN Absent /\ "owner" \notin DOMAIN Absent
    /\ \A x, o, n : IsPrimaryObject(x, o, n) => x # Absent
    /\ \A x, o, n : IsOutputObject(x, o, n) => x # Absent
<1>1. DOMAIN Absent = {"absent"} BY DEF Absent
<1>2. QED BY <1>1 DEF IsPrimaryObject, IsOutputObject

LEMMA NewPrimaryOK ==
    ASSUME NEW o \in Primaries, NEW n \in Nat
    PROVE  IsPrimaryObject(NewPrimary(o, n), o, n) /\ IsPrimaryObject(WaitingPrimary(o), o, n)
BY DEF IsPrimaryObject, NewPrimary, WaitingPrimary, Given

\* UIDs that have been given stay given.
LEMMA MoreGiven ==
    ASSUME NEW m \in Nat, NEW n \in Nat, m <= n
    PROVE  /\ \A o : Given(o, m) \subseteq Given(o, n)
           /\ \A store : StoreOK(store, m) => StoreOK(store, n)
           /\ \A j, p : JobOK(j, p, m) => JobOK(j, p, n)
<1>1. \A o : Given(o, m) \subseteq Given(o, n) BY DEF Given
<1>2. \A x, o : IsPrimaryObject(x, o, m) => IsPrimaryObject(x, o, n) BY <1>1 DEF IsPrimaryObject
<1>3. \A x, o : IsOutputObject(x, o, m) => IsOutputObject(x, o, n) BY <1>1 DEF IsOutputObject
<1>4. \A store : StoreOK(store, m) => StoreOK(store, n) BY <1>2, <1>3 DEF StoreOK
<1>5. \A t : TaskOK(t, m) => TaskOK(t, n) BY <1>2 DEF TaskOK, IsCleanup
<1>6. \A j, p : JobOK(j, p, m) => JobOK(j, p, n) BY <1>5 DEF JobOK
<1>7. QED BY <1>1, <1>4, <1>6

LEMMA PutPrimary ==
    ASSUME NEW store, NEW n \in Nat, StoreOK(store, n), NEW o \in Primaries,
           NEW new, DOMAIN new = Objects, \A other \in Objects \ {o} : new[other] = store[other],
           new[o] = Absent \/ IsPrimaryObject(new[o], o, n)
    PROVE  StoreOK(new, n)
<1>1. o \in Objects BY DEF Primaries
<1>2. QED BY <1>1, OutputFacts DEF StoreOK, Primaries

LEMMA PutOutput ==
    ASSUME NEW store, NEW n \in Nat, StoreOK(store, n), NEW ref \in OutputRuns,
           NEW new, DOMAIN new = Objects, \A other \in Objects \ {OutputOf(ref)} : new[other] = store[other],
           new[OutputOf(ref)] = Absent \/ IsOutputObject(new[OutputOf(ref)], Primary(ref), n)
    PROVE  StoreOK(new, n)
<1>1. \A o \in Primaries : new[o] = store[o] BY OutputFacts DEF Primaries
<1>2. ASSUME NEW other \in OutputRuns, new[OutputOf(other)] # Absent
      PROVE  IsOutputObject(new[OutputOf(other)], Primary(other), n)
  <2>1. CASE other = ref BY <1>2, <2>1
  <2>2. CASE other # ref
    <3>1. new[OutputOf(other)] = store[OutputOf(other)] BY <2>2, OutputFacts
    <3>2. QED BY <1>2, <3>1 DEF StoreOK
  <2>3. QED BY <2>1, <2>2
<1>3. QED BY <1>1, <1>2 DEF StoreOK

\* Some outputs are deleted.
LEMMA DropOutputs ==
    ASSUME NEW store, NEW n \in Nat, StoreOK(store, n),
           NEW new, DOMAIN new = Objects, \A x \in Objects : new[x] \in {store[x], Absent}
    PROVE  StoreOK(new, n)
BY OutputFacts DEF StoreOK, Primaries

\* The finalizers of an object are replaced, and it goes if none is left.
LEMMA Refinalized ==
    ASSUME NEW o, NEW n \in Nat, NEW x, IsPrimaryObject(x, o, n),
           NEW z, DOMAIN z = DOMAIN x, z.finalizers \subseteq {Own, Foreign}, z.uid = x.uid,
           z.deleting = x.deleting, z.status = x.status
    PROVE  /\ Dropped(z) = Absent \/ IsPrimaryObject(Dropped(z), o, n)
           /\ Dropped(z) = Absent <=> x.deleting /\ z.finalizers = {}
           /\ Dropped(z) # Absent => Dropped(z) = z
<1>1. z # Absent
  <2>1. "uid" \in DOMAIN z BY DEF IsPrimaryObject
  <2>2. QED BY <2>1, AbsentFields
<1>2. CASE x.deleting /\ z.finalizers = {}
  <2>1. Dropped(z) = Absent BY <1>2 DEF Dropped
  <2>2. QED BY <1>2, <2>1
<1>3. CASE ~(x.deleting /\ z.finalizers = {})
  <2>1. Dropped(z) = z BY <1>3 DEF Dropped
  <2>2. IsPrimaryObject(z, o, n) BY <1>3 DEF IsPrimaryObject
  <2>3. QED BY <1>1, <1>3, <2>1, <2>2
<1>4. QED BY <1>2, <1>3

-----------------------------------------------------------------------------
\* Users and other controllers.

\* What becomes of an object that stays.
Turned(x, y) ==
    /\ y.uid = x.uid /\ y.status = x.status
    /\ x.deleting => y.deleting /\ (Foreign \in y.finalizers => Foreign \in x.finalizers)
    /\ Own \in x.finalizers <=> Own \in y.finalizers

ByUser(o, y) ==
    /\ server' = [server EXCEPT ![o] = y]
    /\ y = Absent \/ IsPrimaryObject(y, o, changes')
    /\ \/ server[o] = Absent /\ cache[o] = Absent /\ y = NewPrimary(o, changes') /\ changes' = changes + 1
       \/ server[o] # Absent /\ y # Absent /\ Turned(server[o], y)
       \/ server[o] # Absent /\ y = Absent /\ Own \notin server[o].finalizers
    /\ changes' \in 0 .. MaxChanges /\ changes <= changes'
    /\ Outside

UserStep(o) == Create(o) \/ ChangeSpec(o) \/ Delete(o) \/ AddForeign(o) \/ RemoveForeign(o)

LEMMA UserChanges ==
    ASSUME Types, NEW o \in Primaries, UserStep(o)
    PROVE  \E y : ByUser(o, y)
<1> DEFINE x == server[o]
<1>1. changes \in Nat /\ DOMAIN server = Objects /\ o \in Objects
  BY BoundsAssumption DEF Types, StoreOK, Primaries
<1>2. x # Absent => IsPrimaryObject(x, o, changes) BY DEF Types, StoreOK
<1>3. ASSUME Change PROVE changes' \in 0 .. MaxChanges /\ changes' = changes + 1
  BY <1>1, <1>3, BoundsAssumption DEF Change
<1>4. CASE Create(o)
  <2>1. IsPrimaryObject(NewPrimary(o, changes'), o, changes')
    BY <1>1, <1>3, <1>4, NewPrimaryOK DEF Create
  <2>2. ByUser(o, NewPrimary(o, changes')) BY <1>1, <1>3, <1>4, <2>1 DEF Create, ByUser
  <2>3. QED BY <2>2
<1>5. CASE ChangeSpec(o)
  <2> DEFINE y == [x EXCEPT !.spec = @ + 1]
  <2>1. server' = [server EXCEPT ![o] = y] /\ Outside /\ Change /\ x # Absent BY <1>5, <1>1 DEF ChangeSpec
  <2>2. IsPrimaryObject(y, o, changes) /\ Turned(x, y) BY <1>2, <2>1 DEF IsPrimaryObject, Turned
  <2>3. IsPrimaryObject(y, o, changes') BY <1>1, <1>3, <2>1, <2>2, MoreGiven DEF IsPrimaryObject
  <2>4. ByUser(o, y) BY <1>1, <1>3, <2>1, <2>2, <2>3, AbsentFields DEF ByUser
  <2>5. QED BY <2>4
<1>6. CASE Delete(o)
  <2> DEFINE z == [x EXCEPT !.deleting = TRUE]
             y == Dropped(z)
  <2>1. server' = [server EXCEPT ![o] = y] /\ Outside /\ Change /\ x # Absent /\ ~x.deleting
    BY <1>6, <1>1 DEF Delete
  <2>2. /\ DOMAIN z = DOMAIN x /\ z.finalizers = x.finalizers /\ z.deleting /\ z.uid = x.uid
        /\ z.status = x.status
    BY <1>2, <2>1 DEF IsPrimaryObject
  <2>3. CASE x.finalizers = {}
    <3>1. y = Absent BY <2>2, <2>3 DEF Dropped
    <3>2. ByUser(o, y) BY <1>1, <1>3, <2>1, <2>3, <3>1 DEF ByUser
    <3>3. QED BY <3>2
  <2>4. CASE x.finalizers # {}
    <3>1. y = z BY <2>2, <2>4 DEF Dropped
    <3>2. z.deleting = TRUE BY <1>2, <2>1 DEF IsPrimaryObject
    <3>3. IsPrimaryObject(z, o, changes) BY <1>2, <2>1, <2>2, <2>4, <3>2 DEF IsPrimaryObject
    <3>4. IsPrimaryObject(z, o, changes') BY <1>1, <1>3, <2>1, <3>3, MoreGiven DEF IsPrimaryObject
    <3>5. Turned(x, z) BY <2>1, <2>2 DEF Turned
    <3>6. ByUser(o, y) BY <1>1, <1>3, <2>1, <3>1, <3>4, <3>5, AbsentFields DEF ByUser
    <3>7. QED BY <3>6
  <2>5. QED BY <2>3, <2>4
<1>7. CASE AddForeign(o)
  <2> DEFINE y == [x EXCEPT !.finalizers = @ \cup {Foreign}]
  <2>1. server' = [server EXCEPT ![o] = y] /\ Outside /\ Change /\ x # Absent /\ ~x.deleting
    BY <1>7, <1>1 DEF AddForeign
  <2>2. /\ DOMAIN y = DOMAIN x /\ y.finalizers = x.finalizers \cup {Foreign} /\ y.deleting = x.deleting
        /\ y.uid = x.uid /\ y.status = x.status
    BY <1>2, <2>1 DEF IsPrimaryObject
  <2>3. Own # Foreign BY DEF Own, Foreign
  <2>4. IsPrimaryObject(y, o, changes) /\ Turned(x, y) BY <1>2, <2>1, <2>2, <2>3 DEF IsPrimaryObject, Turned
  <2>5. IsPrimaryObject(y, o, changes') BY <1>1, <1>3, <2>1, <2>4, MoreGiven DEF IsPrimaryObject
  <2>6. y # Absent BY <2>5, AbsentFields
  <2>7. ByUser(o, y) BY <1>1, <1>3, <2>1, <2>4, <2>5, <2>6 DEF ByUser
  <2>8. QED BY <2>7
<1>8. CASE RemoveForeign(o)
  <2> DEFINE z == [x EXCEPT !.finalizers = x.finalizers \ {Foreign}]
             y == Dropped(z)
  <2>1. Outside /\ changes' = changes /\ x # Absent /\ x.deleting BY <1>8 DEF RemoveForeign
  <2>2. server' = [server EXCEPT ![o] = y] BY <1>8 DEF RemoveForeign
  <2>3. /\ DOMAIN z = DOMAIN x /\ z.finalizers = x.finalizers \ {Foreign} /\ z.uid = x.uid
        /\ z.deleting = x.deleting /\ z.status = x.status
    BY <1>2, <2>1 DEF IsPrimaryObject
  <2>4. Own # Foreign /\ z.finalizers \subseteq {Own, Foreign}
    BY <1>2, <2>1, <2>3 DEF Own, Foreign, IsPrimaryObject
  <2>5. /\ y = Absent \/ IsPrimaryObject(y, o, changes)
        /\ y = Absent <=> x.deleting /\ z.finalizers = {}
        /\ y # Absent => y = z
    BY <1>1, <1>2, <2>1, <2>3, <2>4, Refinalized
  <2> HIDE DEF z, y
  <2>6. y # Absent => Turned(x, y) BY <2>3, <2>4, <2>5 DEF Turned
  <2>7. y = Absent => Own \notin x.finalizers BY <2>3, <2>4, <2>5
  <2>8. changes' \in 0 .. MaxChanges /\ changes <= changes' BY <1>1, <2>1 DEF Types
  <2>9. ByUser(o, y) BY <2>1, <2>2, <2>5, <2>6, <2>7, <2>8 DEF ByUser
  <2>10. QED BY <2>9
<1>9. QED BY <1>4, <1>5, <1>6, <1>7, <1>8 DEF UserStep

\* Of the server only one object is another, and what the manager has is as it
\* was: what is said of an object is said again of what it has become.
LEMMA UserKeeps ==
    ASSUME IInv, NEW o \in Primaries, UserStep(o)
    PROVE  IInv'
<1>1. PICK y : ByUser(o, y) BY UserChanges DEF IInv
<1> DEFINE x == server[o]
<1>2. /\ changes \in Nat /\ changes' \in Nat /\ changes <= changes' /\ changes' \in 0 .. MaxChanges
      /\ UNCHANGED <<cache, queue, job, declared, lastOutputs, missed, called, held, stripped, unrecorded>>
  BY <1>1, BoundsAssumption DEF ByUser, Outside, manager, IInv, Types
<1>3. \A u : Given(u, changes) \subseteq Given(u, changes') BY <1>2, MoreGiven
<1>4. StoreOK(server, changes') /\ StoreOK(cache, changes')
  BY <1>2, MoreGiven DEF IInv, Types
<1>5. /\ StoreOK(server', changes')
      /\ server'[o] = y /\ \A other \in Objects \ {o} : server'[other] = server[other]
  <2>1. /\ DOMAIN server' = Objects /\ server'[o] = y
        /\ \A other \in Objects \ {o} : server'[other] = server[other]
    BY <1>1, <1>4 DEF ByUser, StoreOK, Primaries
  <2>2. server'[o] = Absent \/ IsPrimaryObject(server'[o], o, changes') BY <1>1, <2>1 DEF ByUser
  <2>3. StoreOK(server', changes') BY <1>2, <1>4, <2>1, <2>2, PutPrimary
  <2>4. QED BY <2>1, <2>3
<1>6. \A ref \in OutputRuns : server'[OutputOf(ref)] = server[OutputOf(ref)]
  BY <1>5, OutputFacts
<1>7. Hands' = Hands BY <1>2 DEF Hands
<1>8. x # Absent => IsPrimaryObject(x, o, changes) BY DEF IInv, Types, StoreOK
<1>9. x = Absent => /\ cache[o] = Absent /\ y # Absent /\ y.uid = <<o, changes'>>
                    /\ y.deleting = FALSE /\ changes' = changes + 1
  BY <1>1, <1>2, NewPrimaryOK, AbsentFields DEF ByUser, NewPrimary
<1>10. x # Absent => \/ y # Absent /\ Turned(x, y)
                     \/ y = Absent
  BY <1>1 DEF ByUser
<1>11. x = Absent => \A u : y.uid \notin Given(u, changes)
  BY <1>2, <1>9 DEF Given
<1>12. Types'
  <2>1. QueueOK' BY <1>2 DEF IInv, Types, QueueOK
  <2>2. DOMAIN job' = Procs /\ \A p \in Procs : JobOK(job'[p], p, changes')
    BY <1>2, MoreGiven DEF IInv, Types
  <2>3. RecordsOK' BY <1>2 DEF IInv, Types, RecordsOK
  <2>4. QED BY <1>2, <1>4, <1>5, <2>1, <2>2, <2>3 DEF Types
<1>13. CacheFollows'
  <2>1. Follows(cache[o], y)
    <3>1. CASE x = Absent BY <1>9, <3>1 DEF Follows
    <3>2. CASE x # Absent BY <1>10, <3>2 DEF Follows, Turned, IInv, CacheFollows
    <3>3. QED BY <3>1, <3>2
  <2>2. QED BY <1>2, <1>5, <2>1 DEF CacheFollows, IInv, Primaries
<1>14. BasesFollowed'
  <2> SUFFICES ASSUME NEW t \in Hands, t.do = "cleanup"
               PROVE  BaseFollowed(t.base, cache[t.primary], server'[t.primary])
    BY <1>2, <1>7 DEF BasesFollowed
  <2>1. BaseFollowed(t.base, cache[t.primary], server[t.primary]) BY DEF IInv, BasesFollowed
  <2>2. IsCleanup(t, changes) BY DEF IInv, Types, JobOK, TaskOK, Hands, Run, RunStatus
  <2>3. CASE t.primary # o BY <1>5, <2>1, <2>2, <2>3 DEF IsCleanup, Primaries
  <2>4. CASE t.primary = o /\ x = Absent
    <3>1. y.uid # t.base.uid BY <1>11, <2>2, <2>4 DEF IsCleanup, IsPrimaryObject
    <3>2. QED BY <1>5, <2>1, <2>4, <3>1 DEF BaseFollowed
  <2>5. CASE t.primary = o /\ x # Absent
    <3>1. Follows(cache[o], x) BY DEF IInv, CacheFollows
    <3>2. QED BY <1>5, <1>10, <2>1, <2>5, <3>1 DEF BaseFollowed, Follows, Turned
  <2>6. QED BY <2>3, <2>4, <2>5
<1>15. HeldOrCalled'
  <2> SUFFICES ASSUME NEW p \in Primaries, server'[p] # Absent, server'[p].uid \in held
               PROVE  Own \in server'[p].finalizers \/ server'[p].uid \in called \cup stripped
    BY <1>2 DEF HeldOrCalled
  <2>1. CASE p # o BY <1>5, <2>1 DEF IInv, HeldOrCalled, Primaries
  <2>2. CASE p = o /\ x = Absent
    <3>1. y.uid \in Primaries \X (0 .. changes) BY <1>5, <2>2 DEF IInv, Types, RecordsOK
    <3>2. y.uid \in Given(o, changes) BY <1>9, <2>2, <3>1 DEF Given
    <3>3. QED BY <1>11, <2>2, <3>2
  <2>3. CASE p = o /\ x # Absent BY <1>5, <1>10, <2>3 DEF IInv, HeldOrCalled, Turned
  <2>4. QED BY <2>1, <2>2, <2>3
<1>16. UnseenOwnNothing'
  <2> SUFFICES ASSUME NEW ref \in OutputRuns, cache[Primary(ref)] = Absent, server'[Primary(ref)] # Absent,
                      server[OutputOf(ref)] # Absent
               PROVE  server[OutputOf(ref)].owner # server'[Primary(ref)].uid
    BY <1>2, <1>6 DEF UnseenOwnNothing, Made
  <2>1. Primary(ref) \in Primaries BY OutputFacts
  <2>2. CASE Primary(ref) # o BY <1>5, <2>1, <2>2 DEF IInv, UnseenOwnNothing, Made, Primaries
  <2>3. CASE Primary(ref) = o /\ x = Absent
    <3>1. server[OutputOf(ref)].owner \in Given(o, changes)
      BY <2>3 DEF IInv, Types, StoreOK, IsOutputObject
    <3>2. QED BY <1>5, <1>11, <2>3, <3>1
  <2>4. CASE Primary(ref) = o /\ x # Absent
    BY <1>5, <1>10, <2>4 DEF IInv, UnseenOwnNothing, Made, Turned
  <2>5. QED BY <2>2, <2>3, <2>4
<1>17. OnRecord'
  BY <1>2, <1>6, OutputFacts DEF IInv, OnRecord, Made, Active, IsDeleting
<1>18. AllCovered'
  <2> SUFFICES ASSUME NEW ref \in Invocations PROVE Covered(ref)'
    BY DEF AllCovered
  <2>1. Covered(ref) BY DEF IInv, AllCovered
  <2>2. Active(ref)' <=> Active(ref) BY <1>2 DEF Active, IsDeleting
  <2>3. (ref \in missed \/ OffRecord(ref))' <=> ref \in missed \/ OffRecord(ref) BY <1>2 DEF OffRecord
  <2>4. Direct(ref)' <=> Direct(ref) BY <1>2, <1>7 DEF Direct, Queued, Planned
  <2>5. Known(ref)' <=> Known(ref) BY <1>2 DEF Known, Accepted
  <2>6. ToLearn(ref)' <=> ToLearn(ref) BY <1>2 DEF ToLearn, Accepted, Announced, Queued
  <2>7. Active(ref) /\ server[Primary(ref)] = Absent => server'[Primary(ref)] = Absent
    BY <1>5, <1>9, InvocationOf DEF Active
  <2>8. Active(ref) /\ server[Primary(ref)] # Absent /\ Settled(ref)
           => Settled(ref)' \/ server'[Primary(ref)] = Absent
    <3>1. CASE ref \in OutputRuns
      BY <1>2, <1>6, <3>1 DEF Settled, Made, Accepted, View, Seen, StatusOf
    <3>2. CASE ref \notin OutputRuns
      <4>1. server'[Primary(ref)] = Absent \/ server'[Primary(ref)].status = server[Primary(ref)].status
            \/ server[Primary(ref)] = Absent
        BY <1>5, <1>10, InvocationOf DEF Turned
      <4>2. QED BY <1>2, <3>2, <4>1 DEF Settled, Accepted, Seen, StatusOf
    <3>3. QED BY <3>1, <3>2
  <2>9. QED BY <2>1, <2>2, <2>3, <2>4, <2>5, <2>6, <2>7, <2>8 DEF Covered
<1>19. QED BY <1>12, <1>13, <1>14, <1>15, <1>16, <1>17, <1>18 DEF IInv

-----------------------------------------------------------------------------
\* The outputs: their controllers, the garbage collector, orphan collection.

\* An output goes if its owner has gone, or if it is on no record.
OutputsLeft ==
    \A ref \in OutputRuns : LET o == OutputOf(ref) IN
        \/ server[o] # Absent /\ server'[o] # Absent
           /\ server'[o].owner = server[o].owner /\ server'[o].spec = server[o].spec
        \/ server'[o] = Absent /\ (server[o] = Absent \/ Garbage(ref) \/ o \notin lastOutputs[ref])

LEMMA OutputsKeep ==
    ASSUME IInv, Types', OutputsLeft, \A o \in Primaries : server'[o] = server[o],
           UNCHANGED <<cache, queue, declared, lastOutputs, missed, called, held, stripped, unrecorded>>,
           Hands' = Hands, \A k \in GVKs : job'[k] = job[k], job'["resync"].plan = job["resync"].plan
    PROVE  IInv'
<1>1. \A ref \in OutputRuns : server'[OutputOf(ref)] # Absent =>
          /\ server[OutputOf(ref)] # Absent
          /\ server'[OutputOf(ref)].owner = server[OutputOf(ref)].owner
          /\ server'[OutputOf(ref)].spec = server[OutputOf(ref)].spec
  BY DEF OutputsLeft
<1>2. CacheFollows' BY DEF IInv, CacheFollows
<1>3. BasesFollowed'
  <2> SUFFICES ASSUME NEW t \in Hands, t.do = "cleanup"
               PROVE  BaseFollowed(t.base, cache[t.primary], server'[t.primary])
    BY DEF BasesFollowed
  <2>1. IsCleanup(t, changes) BY DEF IInv, Types, JobOK, TaskOK, Hands, Run, RunStatus
  <2>2. QED BY <2>1 DEF IInv, BasesFollowed, IsCleanup
<1>4. HeldOrCalled' BY DEF IInv, HeldOrCalled
<1>5. UnseenOwnNothing' BY <1>1, OutputFacts DEF IInv, UnseenOwnNothing, Made
<1>6. OnRecord' BY <1>1, OutputFacts DEF IInv, OnRecord, Made, Active, IsDeleting
<1>7. AllCovered'
  <2> SUFFICES ASSUME NEW ref \in Invocations PROVE Covered(ref)'
    BY DEF AllCovered
  <2>1. Covered(ref) BY DEF IInv, AllCovered
  <2>2. Active(ref)' <=> Active(ref) BY DEF Active, IsDeleting
  <2>3. (ref \in missed \/ OffRecord(ref))' <=> ref \in missed \/ OffRecord(ref) BY DEF OffRecord
  <2>4. Direct(ref)' <=> Direct(ref) BY InvocationOf DEF Direct, Queued, Planned
  <2>5. Known(ref)' <=> Known(ref) BY DEF Known, Accepted
  <2>6. ToLearn(ref)' <=> ToLearn(ref)
    BY FetchAssumption DEF ToLearn, Accepted, Announced, Queued, GVKs
  <2>7. server'[Primary(ref)] = server[Primary(ref)] BY InvocationOf
  <2>8. Active(ref) /\ server[Primary(ref)] # Absent /\ Settled(ref) => Settled(ref)' \/ OffRecord(ref)
    <3>1. CASE ref \in OutputRuns /\ Accepted(ref)
      <4> SUFFICES ASSUME Active(ref), server[Primary(ref)] # Absent, Settled(ref)
                   PROVE  Settled(ref)' \/ OffRecord(ref)
        OBVIOUS
      <4>1. Made(ref, cache[Primary(ref)].uid) /\ server[OutputOf(ref)].spec = View(ref)
        BY <3>1 DEF Settled
      <4>2. Follows(cache[Primary(ref)], server[Primary(ref)]) /\ cache[Primary(ref)] # Absent
        BY InvocationOf DEF IInv, CacheFollows, Active
      <4>3. ~Garbage(ref) BY <4>1, <4>2 DEF Garbage, Made, Follows
      <4>4. OutputOf(ref) \in lastOutputs[ref] \/ OffRecord(ref)
        BY <3>1, <4>1 DEF IInv, OnRecord, OffRecord
      <4>5. CASE server'[OutputOf(ref)] = Absent
        BY <3>1, <4>1, <4>3, <4>4, <4>5 DEF OutputsLeft, Made
      <4>6. CASE server'[OutputOf(ref)] # Absent
        BY <1>1, <3>1, <4>1, <4>6 DEF Settled, Made, Accepted, View, Seen, StatusOf
      <4>7. QED BY <4>5, <4>6
    <3>2. CASE ref \in OutputRuns /\ ~Accepted(ref)
      BY <1>1, <3>2 DEF Settled, Made, Accepted
    <3>3. CASE ref \notin OutputRuns
      BY <2>7, <3>3 DEF Settled, Accepted, Seen, StatusOf
    <3>4. QED BY <3>1, <3>2, <3>3
  <2>9. QED BY <2>1, <2>2, <2>3, <2>4, <2>5, <2>6, <2>7, <2>8 DEF Covered
<1>8. QED BY <1>2, <1>3, <1>4, <1>5, <1>6, <1>7 DEF IInv

LEMMA ReportKeeps ==
    ASSUME IInv, NEW o \in Outputs, Report(o)
    PROVE  IInv'
<1>1. PICK ref \in OutputRuns : o = OutputOf(ref) BY DEF Outputs
<1>2. /\ changes \in Nat /\ changes' \in Nat /\ changes <= changes' /\ changes' \in 0 .. MaxChanges
      /\ UNCHANGED <<cache, queue, job, declared, lastOutputs, missed, called, held, stripped, unrecorded>>
  BY BoundsAssumption DEF Report, Change, Outside, manager, IInv, Types
<1>3. StoreOK(server, changes') /\ StoreOK(cache, changes') BY <1>2, MoreGiven DEF IInv, Types
<1>4. /\ server[o] # Absent /\ server' = [server EXCEPT ![o].status = "ready"]
      /\ IsOutputObject(server[o], Primary(ref), changes')
  BY <1>1, <1>3 DEF Report, StoreOK
<1>5. o \in Objects /\ o \notin Primaries BY <1>1, OutputFacts
<1>6. /\ DOMAIN server' = Objects /\ \A x \in Objects \ {o} : server'[x] = server[x]
      /\ IsOutputObject(server'[o], Primary(ref), changes')
      /\ server'[o].owner = server[o].owner /\ server'[o].spec = server[o].spec
  BY <1>3, <1>4, <1>5 DEF StoreOK, IsOutputObject
<1>7. server'[o] # Absent BY <1>6, AbsentFields
<1>8. StoreOK(server', changes') BY <1>1, <1>2, <1>3, <1>6, PutOutput
<1>9. Types'
  <2>1. QueueOK' BY <1>2 DEF IInv, Types, QueueOK
  <2>2. DOMAIN job' = Procs /\ \A p \in Procs : JobOK(job'[p], p, changes')
    BY <1>2, MoreGiven DEF IInv, Types
  <2>3. RecordsOK' BY <1>2 DEF IInv, Types, RecordsOK
  <2>4. QED BY <1>2, <1>3, <1>8, <2>1, <2>2, <2>3 DEF Types
<1>10. OutputsLeft
  <2> SUFFICES ASSUME NEW other \in OutputRuns
               PROVE  \/ /\ server[OutputOf(other)] # Absent /\ server'[OutputOf(other)] # Absent
                         /\ server'[OutputOf(other)].owner = server[OutputOf(other)].owner
                         /\ server'[OutputOf(other)].spec = server[OutputOf(other)].spec
                      \/ server'[OutputOf(other)] = Absent /\ server[OutputOf(other)] = Absent
    BY DEF OutputsLeft
  <2>1. CASE OutputOf(other) = o BY <1>4, <1>6, <1>7, <2>1
  <2>2. CASE OutputOf(other) # o BY <1>6, <2>2, OutputFacts
  <2>3. QED BY <2>1, <2>2
<1>11. \A x \in Primaries : server'[x] = server[x] BY <1>5, <1>6 DEF Primaries
<1>12. Hands' = Hands BY <1>2 DEF Hands
<1>13. QED BY <1>2, <1>9, <1>10, <1>11, <1>12, OutputsKeep

LEMMA CollectGarbageKeeps ==
    ASSUME IInv, NEW ref \in OutputRuns, CollectGarbage(ref)
    PROVE  IInv'
<1>1. /\ UNCHANGED <<cache, queue, job, declared, lastOutputs, missed, called, held, stripped, unrecorded, changes>>
      /\ Garbage(ref) /\ server' = [server EXCEPT ![OutputOf(ref)] = Absent]
  BY DEF CollectGarbage, Outside, manager
<1>2. OutputOf(ref) \in Objects /\ OutputOf(ref) \notin Primaries BY OutputFacts
<1>3. /\ DOMAIN server' = Objects /\ server'[OutputOf(ref)] = Absent
      /\ \A x \in Objects \ {OutputOf(ref)} : server'[x] = server[x]
  BY <1>1, <1>2 DEF IInv, Types, StoreOK
<1>4. changes \in Nat BY BoundsAssumption DEF IInv, Types
<1>5. StoreOK(server', changes)
  BY <1>3, <1>4, PutOutput DEF IInv, Types
<1>6. Types'
  <2>1. QueueOK' BY <1>1 DEF IInv, Types, QueueOK
  <2>2. RecordsOK' BY <1>1 DEF IInv, Types, RecordsOK
  <2>3. QED BY <1>1, <1>5, <2>1, <2>2 DEF IInv, Types
<1>7. OutputsLeft
  <2> SUFFICES ASSUME NEW other \in OutputRuns, other # ref
               PROVE  server'[OutputOf(other)] = server[OutputOf(other)]
    BY <1>1, <1>3 DEF OutputsLeft
  <2>1. QED BY <1>3, OutputFacts
<1>8. \A x \in Primaries : server'[x] = server[x] BY <1>2, <1>3 DEF Primaries
<1>9. Hands' = Hands BY <1>1 DEF Hands
<1>10. QED BY <1>1, <1>6, <1>7, <1>8, <1>9, OutputsKeep

LEMMA GcOrphansKeeps ==
    ASSUME IInv, GcOrphans
    PROVE  IInv'
<1>1. UNCHANGED <<cache, queue, declared, lastOutputs, missed, called, held, stripped, unrecorded, changes>>
  BY DEF GcOrphans, bounds, history
<1>2. /\ job["resync"].todo = <<>> /\ job["resync"].plan = <<>>
      /\ job' = [job EXCEPT !["resync"] = Idle]
      /\ server' = [x \in Objects |-> IF x \in Outputs \ Wanted THEN Absent ELSE server[x]]
  BY DEF GcOrphans
<1>3. /\ DOMAIN job' = Procs /\ job'["resync"] = Idle /\ "resync" \in Procs
      /\ \A p \in Procs \ {"resync"} : job'[p] = job[p]
  BY <1>2 DEF IInv, Types, Procs
<1>4. changes \in Nat BY BoundsAssumption DEF IInv, Types
<1>5. StoreOK(server', changes) BY <1>2, <1>4, DropOutputs DEF IInv, Types, StoreOK
<1>6. JobOK(Idle, "resync", changes)
  <2>1. Tasks(Idle.todo) = {} BY DEF Idle, Tasks
  <2>2. Idle.plan \in Seq(Registered) BY DEF Idle
  <2>3. QED BY <2>1, <2>2 DEF JobOK, Idle
<1>7. Types'
  <2>1. QueueOK' BY <1>1 DEF IInv, Types, QueueOK
  <2>2. RecordsOK' BY <1>1 DEF IInv, Types, RecordsOK
  <2>3. \A p \in Procs : JobOK(job'[p], p, changes) BY <1>3, <1>6 DEF IInv, Types
  <2>4. QED BY <1>1, <1>3, <1>5, <2>1, <2>2, <2>3 DEF IInv, Types
<1>8. OutputsLeft
  <2> SUFFICES ASSUME NEW ref \in OutputRuns
               PROVE  \/ server'[OutputOf(ref)] = server[OutputOf(ref)]
                      \/ server'[OutputOf(ref)] = Absent /\ OutputOf(ref) \notin lastOutputs[ref]
    BY DEF OutputsLeft
  <2>1. QED BY <1>2, OutputFacts DEF Wanted
<1>9. \A x \in Primaries : server'[x] = server[x]
  BY <1>2, OutputAssumption DEF Primaries
<1>10. Hands' = Hands
  <2>1. Tasks(job["resync"].todo) = {} /\ Tasks(Idle.todo) = {} BY <1>2 DEF Idle, Tasks
  <2>2. QED BY <1>3, <2>1 DEF Hands
<1>11. /\ \A k \in GVKs : job'[k] = job[k]
       /\ job'["resync"].plan = job["resync"].plan
  BY <1>2, <1>3, ObjectsAssumption DEF Procs, Idle
<1>12. QED BY <1>1, <1>7, <1>8, <1>9, <1>10, <1>11, OutputsKeep

-----------------------------------------------------------------------------
\* The watch brings the cache up to date.

LEMMA RefreshKeeps ==
    ASSUME IInv, NEW o \in Objects, Refresh(o)
    PROVE  IInv'
<1> DEFINE passes == Passes(o, cache[o], server[o])
<1>1. /\ UNCHANGED <<server, job, declared, lastOutputs, changes, called, held, stripped, unrecorded>>
      /\ cache' = [cache EXCEPT ![o] = server[o]]
      /\ passes => queue' = [queue EXCEPT ![o.gvk] = Append(@, o)] /\ missed' = missed
      /\ ~passes => missed' = missed \cup Tracker!Affected(o) /\ queue' = queue
  BY DEF Refresh, manager, bounds
<1>2. /\ DOMAIN cache' = Objects /\ cache'[o] = server[o]
      /\ \A x \in Objects \ {o} : cache'[x] = cache[x]
  BY <1>1 DEF IInv, Types, StoreOK
<1>3. o.gvk \in GVKs BY DEF GVKs
<1>4. QueueOK' /\ \A x \in Objects : Queued(x) => Queued(x)'
  <2>1. CASE ~passes BY <1>1, <2>1 DEF IInv, Types, QueueOK, Queued
  <2>2. CASE passes
    <3> DEFINE q == queue[o.gvk]
    <3>1. q \in Seq(Objects) BY <1>3 DEF IInv, Types, QueueOK
    <3>2. /\ Append(q, o) \in Seq(Objects) /\ DOMAIN Append(q, o) = 1 .. Len(q) + 1
          /\ \A i \in 1 .. Len(q) : Append(q, o)[i] = q[i]
          /\ Append(q, o)[Len(q) + 1] = o /\ DOMAIN q = 1 .. Len(q)
      BY <3>1
    <3> HIDE DEF q
    <3>3. queue'[o.gvk] = Append(q, o) /\ \A k \in GVKs \ {o.gvk} : queue'[k] = queue[k]
      BY <1>1, <1>3, <2>2 DEF IInv, Types, QueueOK, q
    <3>4. queue' \in [GVKs -> Seq(Objects)]
      BY <1>1, <1>3, <2>2, <3>2 DEF IInv, Types, QueueOK, q
    <3>5. \A i \in 1 .. Len(q) + 1 : Append(q, o)[i].gvk = o.gvk
      BY <1>3, <3>2 DEF IInv, Types, QueueOK, q
    <3>6. \A k \in GVKs : \A i \in DOMAIN queue'[k] : queue'[k][i].gvk = k
      BY <3>2, <3>3, <3>5 DEF IInv, Types, QueueOK
    <3>7. ASSUME NEW x \in Objects, Queued(x) PROVE Queued(x)'
      <4>1. x.gvk \in GVKs BY DEF GVKs
      <4>2. CASE x.gvk # o.gvk BY <3>3, <3>7, <4>1, <4>2 DEF Queued
      <4>3. CASE x.gvk = o.gvk
        <5>1. PICK i \in DOMAIN q : q[i] = x BY <3>7, <4>3 DEF Queued, q
        <5>2. i \in DOMAIN Append(q, o) /\ Append(q, o)[i] = x BY <3>1, <3>2, <5>1
        <5>3. QED BY <3>3, <4>3, <5>2 DEF Queued
      <4>4. QED BY <4>2, <4>3
    <3>8. QED BY <3>4, <3>6, <3>7 DEF QueueOK
  <2>3. QED BY <2>1, <2>2
<1>5. passes => Queued(o)'
  <2> SUFFICES ASSUME passes PROVE Queued(o)'
    OBVIOUS
  <2> DEFINE q == queue[o.gvk]
  <2>1. q \in Seq(Objects) BY <1>3 DEF IInv, Types, QueueOK
  <2>2. Append(q, o)[Len(q) + 1] = o /\ Len(q) + 1 \in DOMAIN Append(q, o) BY <2>1
  <2>3. queue'[o.gvk] = Append(q, o) BY <1>1, <1>3 DEF IInv, Types, QueueOK
  <2>4. QED BY <2>2, <2>3 DEF Queued
<1>6. \A x \in Objects : Announced(x) => Announced(x)' BY <1>1, <1>4 DEF Announced
<1>7. \A ref \in Invocations : Direct(ref) => Direct(ref)'
  BY <1>1, <1>4, InvocationOf DEF Direct, Hands, Planned
<1>8. Types'
  <2>1. StoreOK(cache', changes) BY <1>2, OutputFacts DEF IInv, Types, StoreOK, Primaries
  <2>2. missed' \subseteq Invocations BY <1>1 DEF IInv, Types, RecordsOK, Tracker!Affected
  <2>3. RecordsOK' BY <1>1, <2>2 DEF IInv, Types, RecordsOK
  <2>4. QED BY <1>1, <1>4, <2>1, <2>3 DEF IInv, Types
<1>9. o \in Primaries => Follows(cache[o], server[o]) BY DEF IInv, CacheFollows
<1>10. CacheFollows' BY <1>1, <1>2 DEF IInv, CacheFollows, Follows, Primaries
<1>11. BasesFollowed'
  <2> SUFFICES ASSUME NEW t \in Hands, t.do = "cleanup"
               PROVE  BaseFollowed(t.base, cache'[t.primary], server[t.primary])
    BY <1>1 DEF BasesFollowed, Hands
  <2>1. BaseFollowed(t.base, cache[t.primary], server[t.primary]) BY DEF IInv, BasesFollowed
  <2>2. t.primary \in Primaries /\ t.primary \in Objects
    BY DEF IInv, Types, JobOK, TaskOK, Hands, Run, RunStatus, IsCleanup, Primaries
  <2>3. CASE t.primary # o BY <1>2, <2>1, <2>2, <2>3
  <2>4. CASE t.primary = o BY <1>2, <1>9, <2>1, <2>2, <2>4 DEF BaseFollowed, Follows
  <2>5. QED BY <2>3, <2>4
<1>12. HeldOrCalled' BY <1>1 DEF IInv, HeldOrCalled
<1>13. UnseenOwnNothing'
  BY <1>1, <1>2, OutputFacts DEF IInv, UnseenOwnNothing, Made, Primaries
<1>14. ASSUME NEW ref \in Invocations, Active(ref)', cache[Primary(ref)] # Absent
       PROVE  Active(ref) /\ cache'[Primary(ref)].uid = cache[Primary(ref)].uid
  <2>1. Primary(ref) \in Primaries /\ Primary(ref) \in Objects BY InvocationOf
  <2>2. CASE Primary(ref) # o BY <1>2, <1>14, <2>1, <2>2 DEF Active, IsDeleting
  <2>3. CASE Primary(ref) = o BY <1>2, <1>9, <1>14, <2>1, <2>3 DEF Active, IsDeleting, Follows
  <2>4. QED BY <2>2, <2>3
<1>15. OnRecord'
  <2> SUFFICES ASSUME NEW ref \in OutputRuns, Active(ref)', Made(ref, cache'[Primary(ref)].uid)
               PROVE  OutputOf(ref) \in lastOutputs[ref] \cup unrecorded
    BY <1>1 DEF OnRecord, Made
  <2>1. ref \in Invocations BY OutputFacts
  <2>2. CASE cache[Primary(ref)] # Absent
    BY <1>14, <2>1, <2>2 DEF IInv, OnRecord
  <2>3. CASE cache[Primary(ref)] = Absent
    <3>1. Primary(ref) = o BY <1>2, <2>1, <2>3, InvocationOf DEF Active
    <3>2. cache'[o] = server[o] /\ server[o] # Absent BY <1>2, <3>1 DEF Active
    <3>3. QED BY <2>3, <3>1, <3>2 DEF IInv, UnseenOwnNothing
  <2>4. QED BY <2>2, <2>3
<1>16. AllCovered'
  <2> SUFFICES ASSUME NEW ref \in Invocations, Active(ref)'
               PROVE  \/ ref \in missed' \/ OffRecord(ref)'
                      \/ server'[Primary(ref)] = Absent
                      \/ Direct(ref)'
                      \/ Known(ref)' /\ (Settled(ref)' \/ ToLearn(ref)')
    BY DEF AllCovered, Covered
  <2> DEFINE p == Primary(ref)
  <2>1. p \in Primaries /\ p \in Objects /\ Fetches(ref) \subseteq Objects BY InvocationOf, FetchAssumption
  <2>2. CASE passes /\ p = o BY <1>5, <2>2 DEF Direct
  <2>3. CASE ~(passes /\ p = o)
    <3>1. cache[p] # Absent
      <4>1. CASE p # o BY <1>2, <2>1, <4>1 DEF Active
      <4>2. CASE p = o BY <2>3, <4>2 DEF Passes
      <4>3. QED BY <4>1, <4>2
    <3>2. Active(ref) /\ cache'[p].uid = cache[p].uid BY <1>14, <3>1
    <3>3. cache'[p].spec = cache[p].spec
      <4>1. CASE p # o BY <1>2, <2>1, <4>1
      <4>2. CASE p = o BY <1>2, <2>3, <4>2 DEF Passes
      <4>3. QED BY <4>1, <4>2
    <3>4. (Accepted(ref)' <=> Accepted(ref)) /\ (Known(ref)' <=> Known(ref))
      BY <1>1, <3>3 DEF Known, Accepted
    <3>5. ToLearn(ref) => ToLearn(ref)' BY <1>6, <2>1, <3>4 DEF ToLearn
    <3>6. missed \subseteq missed' /\ (OffRecord(ref)' <=> OffRecord(ref)) /\ server' = server
      BY <1>1 DEF OffRecord
    <3>7. Covered(ref) BY DEF IInv, AllCovered
    <3>8. CASE Known(ref) /\ Settled(ref) /\ Accepted(ref) /\ o \in Fetches(ref)
      <4>1. CASE passes BY <1>5, <3>4, <3>8, <4>1 DEF ToLearn, Announced
      <4>2. CASE ~passes
        <5>1. o \in declared[ref].narrow BY <3>8 DEF Known
        <5>2. ref \in Tracker!Affected(o) BY <5>1 DEF Tracker!Affected
        <5>3. QED BY <1>1, <4>2, <5>2
      <4>3. QED BY <4>1, <4>2
    <3>9. CASE Known(ref) /\ Settled(ref) /\ ~(Accepted(ref) /\ o \in Fetches(ref))
      <4>1. Accepted(ref) => Seen(ref)' = Seen(ref)
        BY <1>2, <2>1, <3>9 DEF Seen, StatusOf
      <4>2. Accepted(ref) => View(ref)' = View(ref) BY <3>3, <4>1 DEF View
      <4>3. Settled(ref)' BY <3>2, <3>4, <3>6, <3>9, <4>1, <4>2 DEF Settled, Made
      <4>4. QED BY <3>4, <3>9, <4>3
    <3>10. QED BY <1>7, <3>2, <3>4, <3>5, <3>6, <3>7, <3>8, <3>9 DEF Covered
  <2>4. QED BY <2>2, <2>3
<1>17. QED BY <1>8, <1>10, <1>11, <1>12, <1>13, <1>15, <1>16 DEF IInv

-----------------------------------------------------------------------------
\* What a goroutine takes up next.

\* An event, or a reconciler of the resync, is passed on to what has to be run:
\* only the goroutine's own work and the queue of its type change.
LEMMA PassOnKeeps ==
    ASSUME IInv, Types', BasesFollowed',
           UNCHANGED <<server, cache, declared, lastOutputs, missed, called, held, stripped, unrecorded>>,
           \A ref \in Invocations : Active(ref) /\ Direct(ref) => Direct(ref)',
           \A ref \in Invocations : Known(ref) /\ ToLearn(ref) => Direct(ref)' \/ ToLearn(ref)'
    PROVE  IInv'
<1>1. CacheFollows' BY DEF IInv, CacheFollows
<1>2. HeldOrCalled' BY DEF IInv, HeldOrCalled
<1>3. UnseenOwnNothing' BY DEF IInv, UnseenOwnNothing, Made
<1>4. OnRecord' BY DEF IInv, OnRecord, Made, Active, IsDeleting
<1>5. AllCovered'
  <2> SUFFICES ASSUME NEW ref \in Invocations PROVE Covered(ref)'
    BY DEF AllCovered
  <2>1. Covered(ref) BY DEF IInv, AllCovered
  <2>2. Active(ref)' <=> Active(ref) BY DEF Active, IsDeleting
  <2>3. OffRecord(ref)' <=> OffRecord(ref) BY DEF OffRecord
  <2>4. Known(ref)' <=> Known(ref) BY DEF Known, Accepted
  <2>5. Settled(ref)' <=> Settled(ref) BY DEF Settled, Accepted, Made, View, Seen, StatusOf
  <2>6. QED BY <2>1, <2>2, <2>3, <2>4, <2>5 DEF Covered
<1>6. QED BY <1>1, <1>2, <1>3, <1>4, <1>5 DEF IInv

\* A goroutine without a task takes up a job.
LEMMA NewJob ==
    ASSUME NEW p \in Procs, NEW j, DOMAIN job' = Procs, job'[p] = j,
           \A q \in Procs \ {p} : job'[q] = job[q], Tasks(job[p].todo) = {}
    PROVE  Hands' = Hands \cup Tasks(j.todo)
<1>1. ASSUME NEW t \in Hands PROVE t \in Hands' BY <1>1 DEF Hands
<1>2. ASSUME NEW t \in Tasks(j.todo) PROVE t \in Hands' BY <1>2 DEF Hands
<1>3. ASSUME NEW t \in Hands' PROVE t \in Hands \cup Tasks(j.todo) BY <1>3 DEF Hands
<1>4. QED BY <1>1, <1>2, <1>3

\* The readers of a resource, and the statuses of the primaries concerned.
LEMMA RoutedJob ==
    ASSUME NEW o \in Objects, NEW alive \in BOOLEAN, alive => IsPrimary(o.gvk),
           NEW k \in GVKs, NEW n
    PROVE  /\ JobOK(Routed(o, alive), k, n)
           /\ Routed(o, alive).at # "own" /\ Routed(o, alive).at # "deleting"
           /\ \A t \in Tasks(Routed(o, alive).todo) : t.do # "cleanup"
           /\ \A ref \in Invocations :
                 ref \in Tracker!Affected(o) \/ (alive /\ Primary(ref) = o /\ ref \notin OutputRuns)
                    => \/ Run(ref) \in Tasks(Routed(o, alive).todo)
                       \/ RunStatus(ref) \in Tasks(Routed(o, alive).todo)
<1> DEFINE outs  == {Run(ref) : ref \in Tracker!Affected(o) \cap OutputRuns}
           m     == Len(statusReconcilers)
           stats == [i \in DOMAIN statusReconcilers |->
                        {RunStatus(Of(statusReconcilers[i], a)) :
                            a \in {b \in AffectedPrimaries(o, alive) : b.gvk = statusReconcilers[i].primary}}]
           todo  == Batches(<<outs>> \o stats)
           tasks == outs \cup UNION {stats[i] : i \in 1 .. m}
<1>1. m \in Nat /\ DOMAIN statusReconcilers = 1 .. m BY RegistrationAssumption
<1>2. DOMAIN stats = 1 .. m /\ stats = [i \in 1 .. m |-> stats[i]] BY <1>1
<1>3. Tasks(<<outs>> \o stats) = tasks BY <1>1, <1>2, TasksOfConcat
<1>4. Tasks(todo) = tasks /\ (todo # <<>> => tasks # {}) BY <1>3, TasksOfBatches
<1>5. Routed(o, alive) = IF todo = <<>> THEN Idle ELSE [Idle EXCEPT !.at = "routed", !.todo = todo]
  BY DEF Routed
<1>6. AffectedPrimaries(o, alive) \subseteq Objects
  BY InvocationOf DEF AffectedPrimaries, Tracker!Affected
<1>7. ASSUME NEW i \in 1 .. m, NEW a \in Objects, a.gvk = statusReconcilers[i].primary
      PROVE  /\ Of(statusReconcilers[i], a) \in Runs(statusReconcilers)
             /\ Primary(Of(statusReconcilers[i], a)) = a
  <2>1. Len(reconcilers) + i \in DOMAIN All /\ All[Len(reconcilers) + i] = statusReconcilers[i]
    BY <1>1, AllTypes
  <2>2. (Len(reconcilers) + i) - Len(reconcilers) \in DOMAIN statusReconcilers
    BY <1>1, RegistrationAssumption
  <2>3. QED BY <1>7, <2>1, <2>2, Invoked
<1>8. ASSUME NEW t \in tasks
      PROVE  \/ \E ref \in OutputRuns : t = Run(ref)
             \/ \E ref \in Runs(statusReconcilers) : t = RunStatus(ref)
  <2>1. CASE t \in outs BY <2>1
  <2>2. CASE t \notin outs
    <3>1. PICK i \in 1 .. m : t \in stats[i] BY <1>8, <2>2
    <3>2. PICK a \in AffectedPrimaries(o, alive) : /\ a.gvk = statusReconcilers[i].primary
                                                   /\ t = RunStatus(Of(statusReconcilers[i], a))
      BY <1>1, <3>1
    <3>3. QED BY <1>6, <1>7, <3>2
  <2>3. QED BY <2>1, <2>2
<1>9. ASSUME NEW ref \in Invocations,
             ref \in Tracker!Affected(o) \/ (alive /\ Primary(ref) = o /\ ref \notin OutputRuns)
      PROVE  Run(ref) \in tasks \/ RunStatus(ref) \in tasks
  <2>1. CASE ref \in OutputRuns BY <1>9, <2>1
  <2>2. CASE ref \notin OutputRuns
    <3>1. Primary(ref) \in AffectedPrimaries(o, alive) BY <1>9 DEF AffectedPrimaries
    <3>2. PICK x \in DOMAIN All : All[x].primary = Primary(ref).gvk /\ ref = Of(All[x], Primary(ref))
      BY InvocationOf
    <3>3. x \notin DOMAIN reconcilers BY <2>2, <3>2, Invoked, InvocationOf
    <3>4. PICK i \in 1 .. m : All[x] = statusReconcilers[i]
      <4>1. x - Len(reconcilers) \in DOMAIN statusReconcilers BY <3>3, AllTypes
      <4>2. Len(reconcilers) + (x - Len(reconcilers)) = x
        BY AllTypes, RegistrationAssumption
      <4>3. QED BY <1>1, <4>1, <4>2, AllTypes
    <3>5. RunStatus(ref) \in stats[i] BY <1>1, <3>1, <3>2, <3>4
    <3>6. QED BY <3>5
  <2>3. QED BY <2>1, <2>2
<1> HIDE DEF outs, m, stats, todo, tasks
<1>10. CASE todo = <<>>
  <2>1. Routed(o, alive) = Idle BY <1>5, <1>10
  <2>2. Tasks(Idle.todo) = tasks BY <1>4, <1>10 DEF Idle
  <2>3. tasks = {} BY <2>2 DEF Idle, Tasks
  <2>4. JobOK(Idle, k, n)
    <3>1. Idle.plan \in Seq(Registered) BY DEF Idle
    <3>2. k # "resync" BY ObjectsAssumption
    <3>3. QED BY <2>2, <2>3, <3>1, <3>2 DEF JobOK, Idle
  <2>5. Idle.at = "idle" BY DEF Idle
  <2>6. QED BY <1>9, <2>1, <2>2, <2>3, <2>4, <2>5
<1>11. CASE todo # <<>>
  <2> DEFINE j == [Idle EXCEPT !.at = "routed", !.todo = todo]
  <2>1. Routed(o, alive) = j BY <1>5, <1>11
  <2>2. DOMAIN j = DOMAIN Idle /\ j.at = "routed" /\ j.todo = todo /\ j.plan = <<>> BY DEF Idle
  <2> HIDE DEF j
  <2>3. k # "resync" BY ObjectsAssumption
  <2>4. \A t \in tasks : TaskOK(t, n) BY <1>8 DEF TaskOK
  <2>5. JobOK(j, k, n) BY <1>4, <1>11, <2>2, <2>3, <2>4 DEF JobOK
  <2>6. \A t \in tasks : t.do # "cleanup" BY <1>8 DEF Run, RunStatus
  <2>7. QED BY <1>4, <1>9, <2>1, <2>2, <2>5, <2>6
<1>12. QED BY <1>10, <1>11

\* A cleanup is given the copy that the cache has.
LEMMA NewCleanup ==
    ASSUME IInv, NEW o \in Primaries, NeedsFinalizer(o.gvk), IsDeleting(o, cache)
    PROVE  /\ IsCleanup(Cleanup(o, cache[o]), changes)
           /\ BaseFollowed(cache[o], cache[o], server[o])
           /\ Cleanup(o, cache[o]).base = cache[o] /\ Cleanup(o, cache[o]).primary = o
<1>1. cache[o] # Absent /\ cache[o].deleting BY DEF IsDeleting
<1>2. IsPrimaryObject(cache[o], o, changes) BY <1>1 DEF IInv, Types, StoreOK
<1>3. Follows(cache[o], server[o]) BY DEF IInv, CacheFollows
<1>4. BaseFollowed(cache[o], cache[o], server[o]) BY <1>1, <1>3 DEF BaseFollowed, Follows
<1>5. QED BY <1>1, <1>2, <1>4 DEF IsCleanup, Cleanup

LEMMA StartResyncKeeps ==
    ASSUME IInv, StartResync
    PROVE  IInv'
<1> DEFINE j == [Idle EXCEPT !.at = "resync", !.plan = All]
<1>1. /\ UNCHANGED <<server, cache, queue, declared, lastOutputs, missed, called, held, stripped, unrecorded, changes>>
      /\ job["resync"] = Idle /\ job' = [job EXCEPT !["resync"] = j]
  BY DEF StartResync, world, bounds, history
<1>2. DOMAIN j = DOMAIN Idle /\ j.at = "resync" /\ j.todo = <<>> /\ j.plan = All BY DEF Idle
<1> HIDE DEF j
<1>3. /\ "resync" \in Procs /\ DOMAIN job' = Procs /\ job'["resync"] = j
      /\ \A q \in Procs \ {"resync"} : job'[q] = job[q]
  BY <1>1 DEF IInv, Types, Procs
<1>4. Tasks(job["resync"].todo) = {} /\ Tasks(j.todo) = {} BY <1>1, <1>2 DEF Idle, Tasks
<1>5. Hands' = Hands BY <1>3, <1>4, NewJob
<1>6. All \in Seq(Registered) BY AllTypes DEF Registered
<1>7. JobOK(j, "resync", changes) BY <1>2, <1>4, <1>6 DEF JobOK
<1>8. Types'
  <2>1. QueueOK' /\ RecordsOK' BY <1>1 DEF IInv, Types, QueueOK, RecordsOK
  <2>2. QED BY <1>1, <1>3, <1>7, <2>1 DEF IInv, Types
<1>9. BasesFollowed' BY <1>1, <1>5 DEF IInv, BasesFollowed
<1>10. \A k \in GVKs : job'[k] = job[k] BY <1>3, ObjectsAssumption DEF Procs
<1>11. \A ref \in Invocations : Direct(ref) => Direct(ref)'
  <2>1. job["resync"].plan = <<>> BY <1>1 DEF Idle
  <2>2. \A id : ~Planned(id) BY <2>1 DEF Planned
  <2>3. QED BY <1>1, <1>5, <1>10, <2>2, InvocationOf DEF Direct, Queued
<1>12. \A ref \in Invocations : ToLearn(ref) => ToLearn(ref)'
  BY <1>1, <1>10, FetchAssumption DEF ToLearn, Accepted, Announced, Queued, GVKs
<1>13. QED BY <1>1, <1>8, <1>9, <1>11, <1>12, PassOnKeeps

LEMMA HandleKeeps ==
    ASSUME IInv, NEW k \in GVKs, Handle(k)
    PROVE  IInv'
<1> DEFINE o   == Head(queue[k])
           own == [i \in DOMAIN reconcilers |->
                      IF reconcilers[i].primary = k THEN {Run(Of(reconcilers[i], o))} ELSE {}]
           d1  == [Idle EXCEPT !.at = "deleting", !.event = o, !.todo = <<{Cleanup(o, cache[o])}>>]
           d2  == [Idle EXCEPT !.at = "own", !.event = o, !.todo = own]
           gone == IsPrimary(k) /\ NeedsFinalizer(k) /\ IsDeleting(o, cache)
           j   == job'[k]
<1>1. /\ UNCHANGED <<server, cache, declared, lastOutputs, missed, called, held, stripped, unrecorded, changes>>
      /\ job[k] = Idle /\ queue[k] # <<>> /\ queue' = [queue EXCEPT ![k] = Tail(@)]
  BY DEF Handle, CanStart, bounds, history
<1>2. job' = [job EXCEPT ![k] = IF gone THEN d1 ELSE IF Tasks(own) # {} THEN d2
                                ELSE Routed(o, IsPrimary(k))]
  BY DEF Handle
<1>3. queue[k] \in Seq(Objects) /\ o \in Objects /\ o.gvk = k
  <2>1. queue[k] \in Seq(Objects) BY DEF IInv, Types, QueueOK
  <2>2. 1 \in DOMAIN queue[k] /\ o = queue[k][1] BY <1>1, <2>1
  <2>3. QED BY <2>1, <2>2 DEF IInv, Types, QueueOK
<1>4. QueueOK' /\ \A x \in Objects : Queued(x) => x = o \/ Queued(x)'
  <2> DEFINE q == queue[k]
  <2>1. /\ Tail(q) \in Seq(Objects) /\ q \in Seq(Objects) /\ q # <<>>
        /\ \A i \in DOMAIN Tail(q) : i + 1 \in DOMAIN q /\ Tail(q)[i] = q[i + 1]
        /\ \A i \in DOMAIN q : i = 1 \/ (i - 1 \in DOMAIN Tail(q) /\ Tail(q)[i - 1] = q[i])
    BY <1>1, <1>3
  <2>2. queue'[k] = Tail(q) /\ \A l \in GVKs \ {k} : queue'[l] = queue[l]
    BY <1>1 DEF IInv, Types, QueueOK
  <2>3. queue' \in [GVKs -> Seq(Objects)] BY <1>1, <2>1 DEF IInv, Types, QueueOK
  <2>4. \A l \in GVKs : \A i \in DOMAIN queue'[l] : queue'[l][i].gvk = l
    BY <2>1, <2>2 DEF IInv, Types, QueueOK
  <2>5. ASSUME NEW x \in Objects, Queued(x), x # o PROVE Queued(x)'
    <3>1. CASE x.gvk # k BY <2>2, <2>5, <3>1 DEF Queued, GVKs
    <3>2. CASE x.gvk = k
      <4>1. PICK i \in DOMAIN q : q[i] = x BY <2>5, <3>2 DEF Queued
      <4>2. i # 1 BY <1>1, <1>3, <2>5, <4>1
      <4>3. i - 1 \in DOMAIN Tail(q) /\ Tail(q)[i - 1] = x BY <2>1, <4>1, <4>2
      <4>4. QED BY <2>2, <3>2, <4>3 DEF Queued
    <3>3. QED BY <3>1, <3>2
  <2>6. QED BY <2>3, <2>4, <2>5 DEF QueueOK
<1>5. /\ k \in Procs /\ k # "resync" /\ DOMAIN job' = Procs
      /\ \A q \in Procs \ {k} : job'[q] = job[q]
  BY <1>2, ObjectsAssumption DEF IInv, Types, Procs
<1>6. j = IF gone THEN d1 ELSE IF Tasks(own) # {} THEN d2 ELSE Routed(o, IsPrimary(k))
  BY <1>2, <1>5 DEF IInv, Types
<1>7. IsPrimary(k) => o \in Primaries BY <1>3 DEF Primaries
<1>8. \A i \in DOMAIN reconcilers : reconcilers[i].primary = k =>
          Of(reconcilers[i], o) \in OutputRuns /\ Primary(Of(reconcilers[i], o)) = o
  BY <1>3, Invoked, AllTypes
<1>9. ASSUME NEW ref \in OutputRuns, Primary(ref) = o PROVE Run(ref) \in Tasks(own)
  <2>1. PICK i \in DOMAIN All : All[i].primary = k /\ ref = Of(All[i], o)
    BY <1>3, <1>9, InvocationOf, OutputFacts
  <2>2. i \in DOMAIN reconcilers
    <3>1. ASSUME i - Len(reconcilers) \in DOMAIN statusReconcilers PROVE FALSE
      BY <1>3, <1>9, <2>1, <3>1, Invoked, RunKinds
    <3>2. QED BY <3>1, AllTypes
  <2>3. reconcilers[i].primary = k /\ ref = Of(reconcilers[i], o) BY <2>1, <2>2, AllTypes
  <2>4. own[i] = {Run(ref)} /\ i \in DOMAIN own BY <2>2, <2>3
  <2>5. QED BY <2>4 DEF Tasks
<1>10. ASSUME NEW t \in Tasks(own) PROVE \E ref \in OutputRuns : t = Run(ref)
  <2>1. PICK i \in DOMAIN reconcilers : t \in own[i] BY <1>10 DEF Tasks
  <2>2. QED BY <1>8, <2>1
<1> HIDE DEF j, own
<1>11. /\ JobOK(j, k, changes)
       /\ \A t \in Tasks(j.todo) : t.do = "cleanup" => BaseFollowed(t.base, cache[t.primary], server[t.primary])
       /\ \A ref \in Invocations : Primary(ref) = o /\ Active(ref) =>
             \/ Run(ref) \in Tasks(j.todo) \/ RunStatus(ref) \in Tasks(j.todo)
             \/ j.at = "own" /\ j.event = o /\ ref \notin OutputRuns
       /\ \A ref \in Tracker!Affected(o) :
             \/ Run(ref) \in Tasks(j.todo) \/ RunStatus(ref) \in Tasks(j.todo)
             \/ j.at \in {"own", "deleting"} /\ j.event = o
  <2>1. CASE gone
    <3>1. /\ j.at = "deleting" /\ j.event = o /\ j.todo = <<{Cleanup(o, cache[o])}>> /\ j.plan = <<>>
          /\ DOMAIN j = DOMAIN Idle
      <4>1. j = d1 BY <1>6, <2>1
      <4>2. QED BY <4>1 DEF Idle
    <3>2. Tasks(j.todo) = {Cleanup(o, cache[o])} BY <3>1, TasksOfOne
    <3>3. /\ IsCleanup(Cleanup(o, cache[o]), changes) /\ BaseFollowed(cache[o], cache[o], server[o])
          /\ Cleanup(o, cache[o]).base = cache[o] /\ Cleanup(o, cache[o]).primary = o
      BY <1>3, <1>7, <2>1, NewCleanup
    <3>4. JobOK(j, k, changes)
      <4>1. \A t \in Tasks(j.todo) : TaskOK(t, changes) BY <3>2, <3>3 DEF TaskOK
      <4>2. Cleanup(o, cache[o]) \in Tasks(j.todo) BY <3>2
      <4>3. j.plan \in Seq(Registered) BY <3>1
      <4>4. QED BY <1>3, <1>5, <2>1, <3>1, <4>1, <4>2, <4>3 DEF JobOK
    <3>5. \A ref \in Invocations : Primary(ref) = o => ~Active(ref)
      BY <1>3, <2>1 DEF Active
    <3>6. QED BY <3>1, <3>2, <3>3, <3>4, <3>5
  <2>2. CASE ~gone /\ Tasks(own) # {}
    <3>1. j.at = "own" /\ j.event = o /\ j.todo = own /\ j.plan = <<>> /\ DOMAIN j = DOMAIN Idle
      BY <1>6, <2>2 DEF Idle
    <3>2. \A t \in Tasks(own) : TaskOK(t, changes) /\ t.do # "cleanup"
      BY <1>10 DEF TaskOK, Run
    <3>3. IsPrimary(k)
      <4>1. PICK i \in DOMAIN reconcilers : own[i] # {} BY <2>2 DEF Tasks, own
      <4>2. reconcilers[i].primary = k BY <4>1 DEF own
      <4>3. QED BY <4>2, AllTypes DEF IsPrimary
    <3>4. JobOK(j, k, changes) BY <1>3, <1>5, <2>2, <3>1, <3>2, <3>3 DEF JobOK
    <3>5. QED BY <1>9, <3>1, <3>2, <3>4
  <2>3. CASE ~gone /\ Tasks(own) = {}
    <3>1. j = Routed(o, IsPrimary(k)) BY <1>6, <2>3
    <3>2. IsPrimary(k) \in BOOLEAN BY DEF IsPrimary
    <3>3. \A ref \in Invocations : Primary(ref) = o => IsPrimary(k) /\ ref \notin OutputRuns
      BY <1>3, <1>9, <2>3, InvocationOf DEF IsPrimary
    <3>4. /\ JobOK(j, k, changes)
          /\ \A t \in Tasks(j.todo) : t.do # "cleanup"
          /\ \A ref \in Invocations :
                ref \in Tracker!Affected(o) \/ (IsPrimary(k) /\ Primary(ref) = o /\ ref \notin OutputRuns)
                   => Run(ref) \in Tasks(j.todo) \/ RunStatus(ref) \in Tasks(j.todo)
      BY <1>3, <3>1, <3>2, RoutedJob
    <3>5. QED BY <3>3, <3>4 DEF Tracker!Affected
  <2>4. QED BY <2>1, <2>2, <2>3
<1>12. Hands' = Hands \cup Tasks(j.todo)
  <2>1. Tasks(job[k].todo) = {} BY <1>1 DEF Idle, Tasks
  <2>2. QED BY <1>5, <2>1, NewJob DEF j
<1>13. Types'
  <2>1. RecordsOK' BY <1>1 DEF IInv, Types, RecordsOK
  <2>2. \A p \in Procs : JobOK(job'[p], p, changes) BY <1>5, <1>11 DEF IInv, Types, j
  <2>3. QED BY <1>1, <1>4, <1>5, <2>1, <2>2 DEF IInv, Types
<1>14. BasesFollowed' BY <1>1, <1>11, <1>12 DEF IInv, BasesFollowed
<1>15. \A l \in GVKs \ {k} : job'[l] = job[l] BY <1>5 DEF Procs
<1>16. job'["resync"] = job["resync"] BY <1>5 DEF Procs
<1>17. job[k].at = "idle" BY <1>1 DEF Idle
<1>18. ASSUME NEW ref \in Invocations, Active(ref), Direct(ref) PROVE Direct(ref)'
  <2>1. Primary(ref) \in Objects /\ Primary(ref).gvk \in GVKs BY InvocationOf
  <2>2. CASE Queued(Primary(ref)) /\ Primary(ref) = o
    BY <1>3, <1>11, <1>12, <1>18, <2>2 DEF Direct, j
  <2>3. CASE Queued(Primary(ref)) /\ Primary(ref) # o
    BY <1>4, <2>1, <2>3 DEF Direct
  <2>4. CASE ~Queued(Primary(ref))
    BY <1>12, <1>15, <1>16, <1>17, <1>18, <2>1, <2>4 DEF Direct, Planned
  <2>5. QED BY <2>2, <2>3, <2>4
<1>19. ASSUME NEW ref \in Invocations, Known(ref), ToLearn(ref) PROVE Direct(ref)' \/ ToLearn(ref)'
  <2>1. PICK x \in Fetches(ref) : Accepted(ref) /\ Announced(x) BY <1>19 DEF ToLearn
  <2>2. x \in Objects /\ x.gvk \in GVKs BY FetchAssumption DEF GVKs
  <2>3. x \in declared[ref].narrow BY <1>19, <2>1 DEF Known
  <2>4. Accepted(ref)' BY <1>1, <2>1 DEF Accepted
  <2>5. CASE x = o
    <3>1. ref \in Tracker!Affected(o) BY <2>3, <2>5 DEF Tracker!Affected
    <3>2. CASE Run(ref) \in Tasks(j.todo) \/ RunStatus(ref) \in Tasks(j.todo)
      BY <1>12, <3>2 DEF Direct
    <3>3. CASE j.at \in {"own", "deleting"} /\ j.event = o
      BY <1>3, <2>1, <2>4, <2>5, <3>3 DEF ToLearn, Announced, j
    <3>4. QED BY <1>11, <3>1, <3>2, <3>3
  <2>6. CASE x # o
    <3>1. Announced(x)' BY <1>4, <1>15, <1>17, <2>1, <2>2, <2>6 DEF Announced
    <3>2. QED BY <2>1, <2>4, <3>1 DEF ToLearn
  <2>7. QED BY <2>5, <2>6
<1>20. QED BY <1>1, <1>13, <1>14, <1>18, <1>19, PassOnKeeps

LEMMA RouteKeeps ==
    ASSUME IInv, NEW k \in GVKs, Route(k)
    PROVE  IInv'
<1> DEFINE o == job[k].event
           alive == job[k].at = "own"
           j == Routed(o, alive)
<1>1. /\ UNCHANGED <<server, cache, queue, declared, lastOutputs, missed, called, held, stripped, unrecorded, changes>>
      /\ job[k].at \in {"own", "deleting"} /\ job[k].todo = <<>> /\ job' = [job EXCEPT ![k] = j]
  BY DEF Route, world, bounds, history
<1>2. /\ k \in Procs /\ k # "resync" /\ DOMAIN job' = Procs /\ job'[k] = j
      /\ \A q \in Procs \ {k} : job'[q] = job[q]
  BY <1>1, ObjectsAssumption DEF IInv, Types, Procs
<1>3. o \in Objects /\ o.gvk = k /\ IsPrimary(o.gvk) BY <1>1, <1>2 DEF IInv, Types, JobOK
<1>4. alive \in BOOLEAN OBVIOUS
<1>5. /\ JobOK(j, k, changes) /\ j.at # "own" /\ j.at # "deleting"
      /\ \A t \in Tasks(j.todo) : t.do # "cleanup"
      /\ \A ref \in Invocations :
            ref \in Tracker!Affected(o) \/ (alive /\ Primary(ref) = o /\ ref \notin OutputRuns)
               => Run(ref) \in Tasks(j.todo) \/ RunStatus(ref) \in Tasks(j.todo)
  BY <1>3, <1>4, RoutedJob
<1> HIDE DEF j
<1>6. Hands' = Hands \cup Tasks(j.todo)
  <2>1. Tasks(job[k].todo) = {} BY <1>1 DEF Tasks
  <2>2. QED BY <1>2, <2>1, NewJob
<1>7. Types'
  <2>1. QueueOK' /\ RecordsOK' BY <1>1 DEF IInv, Types, QueueOK, RecordsOK
  <2>2. QED BY <1>1, <1>2, <1>5, <2>1 DEF IInv, Types
<1>8. BasesFollowed' BY <1>1, <1>5, <1>6 DEF IInv, BasesFollowed
<1>9. (\A l \in GVKs \ {k} : job'[l] = job[l]) /\ job'["resync"] = job["resync"]
  BY <1>2 DEF Procs
<1>10. ASSUME NEW ref \in Invocations, Active(ref), Direct(ref) PROVE Direct(ref)'
  <2>1. CASE job[Primary(ref).gvk].at = "own" /\ job[Primary(ref).gvk].event = Primary(ref) /\ ref \notin OutputRuns
    <3>1. CASE Primary(ref).gvk = k BY <1>5, <1>6, <2>1, <3>1 DEF Direct
    <3>2. CASE Primary(ref).gvk # k BY <1>9, <2>1, <3>2, InvocationOf DEF Direct
    <3>3. QED BY <3>1, <3>2
  <2>2. CASE ~(job[Primary(ref).gvk].at = "own" /\ job[Primary(ref).gvk].event = Primary(ref) /\ ref \notin OutputRuns)
    BY <1>1, <1>6, <1>9, <1>10, <2>2 DEF Direct, Queued, Planned
  <2>3. QED BY <2>1, <2>2
<1>11. ASSUME NEW ref \in Invocations, Known(ref), ToLearn(ref) PROVE Direct(ref)' \/ ToLearn(ref)'
  <2>1. PICK x \in Fetches(ref) : Accepted(ref) /\ Announced(x) BY <1>11 DEF ToLearn
  <2>2. x \in Objects /\ x.gvk \in GVKs BY FetchAssumption DEF GVKs
  <2>3. x \in declared[ref].narrow BY <1>11, <2>1 DEF Known
  <2>4. Accepted(ref)' BY <1>1, <2>1 DEF Accepted
  <2>5. CASE x = o
    <3>1. ref \in Tracker!Affected(o) BY <2>3, <2>5 DEF Tracker!Affected
    <3>2. QED BY <1>5, <1>6, <3>1 DEF Direct
  <2>6. CASE x # o
    <3>1. Announced(x)' BY <1>1, <1>9, <2>1, <2>2, <2>6 DEF Announced, Queued
    <3>2. QED BY <2>1, <2>4, <3>1 DEF ToLearn
  <2>7. QED BY <2>5, <2>6
<1>12. QED BY <1>1, <1>7, <1>8, <1>10, <1>11, PassOnKeeps

LEMMA NextReconcilerKeeps ==
    ASSUME IInv, NextReconciler
    PROVE  IInv'
<1> DEFINE j == job["resync"]
           r == Head(j.plan)
           tasks == Listed(r, j.cleanedUp)
           n == [j EXCEPT !.todo = Batches(<<tasks>>), !.plan = Tail(j.plan),
                          !.cleanedUp = j.cleanedUp \cup {t.primary : t \in {u \in tasks : u.do = "cleanup"}}]
<1>1. /\ UNCHANGED <<server, cache, queue, declared, lastOutputs, missed, called, held, stripped, unrecorded, changes>>
      /\ j.at = "resync" /\ j.todo = <<>> /\ j.plan # <<>> /\ job' = [job EXCEPT !["resync"] = n]
  BY DEF NextReconciler, world, bounds, history
<1>2. "resync" \in Procs /\ JobOK(j, "resync", changes) BY DEF IInv, Types, Procs
<1>3. /\ DOMAIN n = DOMAIN Idle /\ n.at = "resync" /\ n.todo = Batches(<<tasks>>) /\ n.plan = Tail(j.plan)
  BY <1>1, <1>2 DEF JobOK, Idle
<1>4. /\ DOMAIN job' = Procs /\ job'["resync"] = n
      /\ \A q \in Procs \ {"resync"} : job'[q] = job[q]
  BY <1>1, <1>2 DEF IInv, Types
<1>5. \A k \in GVKs : job'[k] = job[k] BY <1>4, ObjectsAssumption DEF Procs
<1> HIDE DEF n
<1>6. /\ j.plan \in Seq(Registered) /\ r \in Registered /\ Tail(j.plan) \in Seq(Registered)
      /\ \A i \in DOMAIN j.plan : i = 1 \/ (i - 1 \in DOMAIN Tail(j.plan) /\ Tail(j.plan)[i - 1] = j.plan[i])
      /\ r = j.plan[1]
  BY <1>1, <1>2 DEF JobOK
<1>7. PICK x \in DOMAIN All : r = All[x] BY <1>6 DEF Registered
<1> DEFINE items == {o \in Objects : o.gvk = r.primary /\ cache[o] # Absent}
           gone  == {o \in items : NeedsFinalizer(o.gvk) /\ cache[o].deleting}
           isStatus == \E i \in DOMAIN statusReconcilers : statusReconcilers[i].id = r.id
<1>8. tasks = IF isStatus THEN {RunStatus(Of(r, o)) : o \in items \ gone}
              ELSE {Run(Of(r, o)) : o \in items \ gone} \cup {Cleanup(o, cache[o]) : o \in gone \ j.cleanedUp}
  BY DEF Listed
<1>9. isStatus => x - Len(reconcilers) \in DOMAIN statusReconcilers
  <2> SUFFICES ASSUME isStatus PROVE x - Len(reconcilers) \in DOMAIN statusReconcilers
    OBVIOUS
  <2>1. PICK i \in DOMAIN statusReconcilers : statusReconcilers[i].id = r.id OBVIOUS
  <2>2. Len(reconcilers) + i \in DOMAIN All /\ All[Len(reconcilers) + i].id = r.id BY <2>1, AllTypes
  <2>3. x = Len(reconcilers) + i BY <1>7, <2>2, RegistrationAssumption
  <2>4. (Len(reconcilers) + i) - Len(reconcilers) = i BY RegistrationAssumption
  <2>5. QED BY <2>3, <2>4
<1>10. ~isStatus => x \in DOMAIN reconcilers
  <2>1. ASSUME x - Len(reconcilers) \in DOMAIN statusReconcilers PROVE isStatus
    <3>1. Len(reconcilers) + (x - Len(reconcilers)) = x BY AllTypes, RegistrationAssumption
    <3>2. All[x] = statusReconcilers[x - Len(reconcilers)] BY <2>1, <3>1, AllTypes
    <3>3. QED BY <1>7, <2>1, <3>2
  <2>2. QED BY <2>1, AllTypes
<1>11. \A o \in items : /\ Of(r, o) \in Invocations /\ Primary(Of(r, o)) = o /\ o \in Primaries
                        /\ isStatus => Of(r, o) \in Runs(statusReconcilers)
                        /\ ~isStatus => Of(r, o) \in OutputRuns
  BY <1>7, <1>9, <1>10, Invoked, InvocationOf
<1>12. \A o \in gone : /\ IsCleanup(Cleanup(o, cache[o]), changes) /\ BaseFollowed(cache[o], cache[o], server[o])
                       /\ Cleanup(o, cache[o]).base = cache[o] /\ Cleanup(o, cache[o]).primary = o
  BY <1>11, NewCleanup DEF IsDeleting
<1>13. Tasks(n.todo) = tasks /\ (n.todo # <<>> => tasks # {})
  BY <1>3, TasksOfOne, TasksOfBatches
<1>14. Hands' = Hands \cup tasks
  <2>1. Tasks(j.todo) = {} BY <1>1 DEF Tasks
  <2>2. QED BY <1>2, <1>4, <1>13, <2>1, NewJob
<1> HIDE DEF isStatus, items, gone, tasks
<1>15. \A t \in tasks : /\ TaskOK(t, changes)
                        /\ t.do = "cleanup" => BaseFollowed(t.base, cache[t.primary], server[t.primary])
  <2> SUFFICES ASSUME NEW t \in tasks
               PROVE  /\ TaskOK(t, changes)
                      /\ t.do = "cleanup" => BaseFollowed(t.base, cache[t.primary], server[t.primary])
    OBVIOUS
  <2>1. CASE t \in {RunStatus(Of(r, o)) : o \in items \ gone} /\ isStatus
    BY <1>11, <2>1 DEF TaskOK, RunStatus
  <2>2. CASE t \in {Run(Of(r, o)) : o \in items \ gone} /\ ~isStatus
    BY <1>11, <2>2 DEF TaskOK, Run
  <2>3. CASE t \in {Cleanup(o, cache[o]) : o \in gone \ j.cleanedUp}
    BY <1>12, <2>3 DEF TaskOK
  <2>4. QED BY <1>8, <2>1, <2>2, <2>3
<1>16. Types'
  <2>1. QueueOK' /\ RecordsOK' BY <1>1 DEF IInv, Types, QueueOK, RecordsOK
  <2>2. JobOK(n, "resync", changes) BY <1>3, <1>6, <1>13, <1>15 DEF JobOK
  <2>3. QED BY <1>1, <1>4, <2>1, <2>2 DEF IInv, Types
<1>17. BasesFollowed' BY <1>1, <1>14, <1>15 DEF IInv, BasesFollowed
<1>18. ASSUME NEW ref \in Invocations, Active(ref), Direct(ref) PROVE Direct(ref)'
  <2>1. CASE Planned(ref.id)
    <3>1. PICK i \in DOMAIN j.plan : j.plan[i].id = ref.id BY <2>1 DEF Planned
    <3>2. CASE i = 1
      <4>1. PICK y \in DOMAIN All : /\ All[y].primary = Primary(ref).gvk /\ ref.id = All[y].id
                                    /\ ref = Of(All[y], Primary(ref))
        BY InvocationOf
      <4>2. x = y BY <1>6, <1>7, <3>1, <3>2, <4>1, RegistrationAssumption
      <4>3. Primary(ref) \in items \ gone /\ ref = Of(r, Primary(ref))
        BY <1>7, <1>18, <4>1, <4>2, InvocationOf DEF Active, IsDeleting, items, gone
      <4>4. Run(ref) \in tasks \/ RunStatus(ref) \in tasks BY <1>8, <4>3
      <4>5. QED BY <1>14, <4>4 DEF Direct
    <3>3. CASE i # 1
      <4>1. i - 1 \in DOMAIN Tail(j.plan) /\ Tail(j.plan)[i - 1].id = ref.id BY <1>6, <3>1, <3>3
      <4>2. QED BY <1>3, <1>4, <4>1 DEF Direct, Planned
    <3>4. QED BY <3>2, <3>3
  <2>2. CASE ~Planned(ref.id)
    BY <1>1, <1>5, <1>14, <1>18, <2>2, InvocationOf DEF Direct, Queued
  <2>3. QED BY <2>1, <2>2
<1>19. \A ref \in Invocations : ToLearn(ref) => ToLearn(ref)'
  BY <1>1, <1>5, FetchAssumption DEF ToLearn, Accepted, Announced, Queued, GVKs
<1>20. QED BY <1>1, <1>16, <1>17, <1>18, <1>19, PassOnKeeps

-----------------------------------------------------------------------------
\* The tasks.

\* One task fewer: the other ones, the events to route and the plan of the
\* resync are as they were.
TaskDone(t) ==
    /\ DOMAIN job' = Procs /\ \A p \in Procs : JobOK(job'[p], p, changes)
    /\ Hands' \subseteq Hands /\ Hands \ {t} \subseteq Hands'
    /\ \A k \in GVKs : job[k].at \in {"own", "deleting"} =>
          job'[k].at = job[k].at /\ job'[k].event = job[k].event
    /\ job'["resync"].plan = job["resync"].plan

LEMMA TaskLeaves ==
    ASSUME Types, NEW p \in Procs, NEW t \in Current(job[p].todo), NEW j,
           DOMAIN j = DOMAIN Idle, j.at = job[p].at, j.todo = job[p].todo, j.plan = job[p].plan,
           j.event = job[p].event, DOMAIN job' = Procs, job'[p] = After(j, t),
           \A q \in Procs \ {p} : job'[q] = job[q]
    PROVE  TaskDone(t) /\ TaskOK(t, changes) /\ t \in Hands
<1> DEFINE rest == Without(job[p].todo, t)
<1>1. JobOK(job[p], p, changes) BY DEF Types
<1>2. t \in Tasks(job[p].todo) BY CurrentTasks
<1>3. t \in Hands /\ TaskOK(t, changes) BY <1>1, <1>2 DEF Hands, JobOK
<1>4. job[p].at # "idle"
  <2>1. Tasks(Idle.todo) = {} BY DEF Idle, Tasks
  <2>2. QED BY <1>1, <1>2, <2>1 DEF JobOK
<1>5. /\ Tasks(rest) \subseteq Tasks(job[p].todo) /\ Tasks(job[p].todo) \ {t} \subseteq Tasks(rest)
      /\ rest # <<>> => Tasks(rest) # {}
  BY TasksWithout
<1> HIDE DEF rest
<1>6. JobOK(job'[p], p, changes) /\ Tasks(job'[p].todo) = Tasks(rest)
  <2>1. CASE job[p].at = "routed" /\ rest = <<>>
    <3>1. job'[p] = Idle BY <2>1 DEF After, rest
    <3>2. Tasks(rest) = {} /\ Tasks(Idle.todo) = {} BY <2>1 DEF Idle, Tasks
    <3>3. Idle.plan \in Seq(Registered) BY DEF Idle
    <3>4. JobOK(Idle, p, changes)  BY <3>2, <3>3 DEF JobOK, Idle
    <3>5. QED BY <3>1, <3>2, <3>4
  <2>2. CASE ~(job[p].at = "routed" /\ rest = <<>>)
    <3>1. job'[p] = [j EXCEPT !.todo = rest] BY <2>2 DEF After, rest
    <3>2. /\ DOMAIN job'[p] = DOMAIN Idle /\ job'[p].at = job[p].at /\ job'[p].todo = rest
          /\ job'[p].plan = job[p].plan /\ job'[p].event = job[p].event
      BY <3>1 DEF Idle
    <3>3. JobOK(job'[p], p, changes)
      BY <1>1, <1>4, <1>5, <2>2, <3>2 DEF JobOK
    <3>4. QED BY <3>2, <3>3
  <2>3. QED BY <2>1, <2>2
<1>7. Hands' \subseteq Hands
  <2> SUFFICES ASSUME NEW q \in Procs, NEW u \in Tasks(job'[q].todo) PROVE u \in Hands
    BY DEF Hands
  <2>1. CASE q = p BY <1>5, <1>6, <2>1 DEF Hands
  <2>2. CASE q # p BY <2>2 DEF Hands
  <2>3. QED BY <2>1, <2>2
<1>8. Hands \ {t} \subseteq Hands'
  <2> SUFFICES ASSUME NEW q \in Procs, NEW u \in Tasks(job[q].todo), u # t PROVE u \in Hands'
    BY DEF Hands
  <2>1. CASE q = p BY <1>5, <1>6, <2>1 DEF Hands
  <2>2. CASE q # p BY <2>2 DEF Hands
  <2>3. QED BY <2>1, <2>2
<1>9. job[p].at # "routed" => job'[p].at = job[p].at /\ job'[p].event = job[p].event /\ job'[p].plan = job[p].plan
  <2> SUFFICES ASSUME job[p].at # "routed"
               PROVE  job'[p].at = job[p].at /\ job'[p].event = job[p].event /\ job'[p].plan = job[p].plan
    OBVIOUS
  <2>1. job'[p] = [j EXCEPT !.todo = rest] BY DEF After, rest
  <2>2. QED BY <2>1 DEF Idle
<1>10. job'["resync"].plan = job["resync"].plan
  <2>1. CASE p = "resync"
    <3>1. job[p].at # "routed" BY <1>1, <2>1 DEF JobOK
    <3>2. QED BY <1>9, <2>1, <3>1
  <2>2. CASE p # "resync" BY <2>2 DEF Procs
  <2>3. QED BY <2>1, <2>2
<1>11. \A k \in GVKs : job[k].at \in {"own", "deleting"} =>
          job'[k].at = job[k].at /\ job'[k].event = job[k].event
  BY <1>9 DEF Procs
<1>12. \A q \in Procs : JobOK(job'[q], q, changes) BY <1>6 DEF Types
<1>13. QED BY <1>3, <1>7, <1>8, <1>10, <1>11, <1>12 DEF TaskDone

LEMMA DoneLeaves ==
    ASSUME Types, NEW p \in Procs, NEW t \in Current(job[p].todo), Done(p, t)
    PROVE  TaskDone(t) /\ TaskOK(t, changes) /\ t \in Hands
<1>1. /\ DOMAIN job' = Procs /\ job'[p] = After(job[p], t)
      /\ \A q \in Procs \ {p} : job'[q] = job[q]
  BY DEF Done, Types
<1>2. DOMAIN job[p] = DOMAIN Idle BY DEF Types, JobOK
<1>3. QED BY <1>1, <1>2, TaskLeaves

\* The other invocations that were to be run are still to be run.
LEMMA OthersStay ==
    ASSUME IInv, NEW t, TaskDone(t), UNCHANGED <<cache, queue>>
    PROVE  /\ \A ref \in Invocations :
                 t # Run(ref) /\ t # RunStatus(ref) /\ Direct(ref) => Direct(ref)'
           /\ \A ref \in Invocations : ToLearn(ref) => ToLearn(ref)'
<1>1. \A ref \in Invocations : t # Run(ref) /\ t # RunStatus(ref) /\ Direct(ref) => Direct(ref)'
  BY InvocationOf DEF TaskDone, Direct, Queued, Planned
<1>2. \A ref \in Invocations : ToLearn(ref) => ToLearn(ref)'
  BY FetchAssumption DEF TaskDone, ToLearn, Accepted, Announced, Queued, GVKs
<1>3. QED BY <1>1, <1>2

\* A task that is left undone: its invocation has nothing to do, or is counted
\* among those that were missed.
LEMMA NothingDone ==
    ASSUME IInv, NEW t, TaskDone(t),
           UNCHANGED <<server, cache, queue, declared, lastOutputs, held, stripped, unrecorded, changes>>,
           missed \subseteq missed', missed' \subseteq Invocations,
           called \subseteq called', called' \subseteq Primaries \X (0 .. changes),
           \A ref \in Invocations : t = Run(ref) \/ t = RunStatus(ref) => ~Active(ref) \/ ref \in missed'
    PROVE  IInv'
<1>1. Types'
  <2>1. QueueOK' BY DEF IInv, Types, QueueOK
  <2>2. RecordsOK' BY DEF IInv, Types, RecordsOK
  <2>3. QED BY <2>1, <2>2 DEF IInv, Types, TaskDone
<1>2. CacheFollows' BY DEF IInv, CacheFollows
<1>3. BasesFollowed' BY DEF IInv, BasesFollowed, TaskDone
<1>4. HeldOrCalled' BY DEF IInv, HeldOrCalled
<1>5. UnseenOwnNothing' BY DEF IInv, UnseenOwnNothing, Made
<1>6. OnRecord' BY DEF IInv, OnRecord, Made, Active, IsDeleting
<1>7. AllCovered'
  <2> SUFFICES ASSUME NEW ref \in Invocations PROVE Covered(ref)'
    BY DEF AllCovered
  <2>1. Covered(ref) BY DEF IInv, AllCovered
  <2>2. Active(ref)' <=> Active(ref) BY DEF Active, IsDeleting
  <2>3. OffRecord(ref)' <=> OffRecord(ref) BY DEF OffRecord
  <2>4. Known(ref)' <=> Known(ref) BY DEF Known, Accepted
  <2>5. Settled(ref)' <=> Settled(ref) BY DEF Settled, Accepted, Made, View, Seen, StatusOf
  <2>6. QED BY <2>1, <2>2, <2>3, <2>4, <2>5, OthersStay DEF Covered
<1>8. QED BY <1>1, <1>2, <1>3, <1>4, <1>5, <1>6, <1>7 DEF IInv

LEMMA RunRefs ==
    /\ \A a, b : Run(a) = Run(b) => a = b
    /\ \A a, b : RunStatus(a) = RunStatus(b) => a = b
    /\ \A a, b : Run(a) # RunStatus(b)
    /\ \A a : Run(a).do = "output" /\ Run(a).ref = a
    /\ \A a : RunStatus(a).do = "status" /\ RunStatus(a).ref = a
BY DEF Run, RunStatus

LEMMA TaskKinds ==
    ASSUME NEW t, NEW n, TaskOK(t, n)
    PROVE  /\ t.do = "output" => t.ref \in OutputRuns /\ t = Run(t.ref)
           /\ t.do = "status" => t.ref \in Runs(statusReconcilers) /\ t = RunStatus(t.ref)
           /\ t.do = "cleanup" => IsCleanup(t, n)
BY RunRefs DEF TaskOK, IsCleanup

LEMMA NotRunKeeps ==
    ASSUME IInv, NEW p \in Procs, NEW t, NotRun(p, t)
    PROVE  IInv'
<1>1. /\ UNCHANGED <<server, cache, queue, declared, lastOutputs, missed, called, held, stripped, unrecorded, changes>>
      /\ t \in Current(job[p].todo) /\ t.do = "output" /\ Done(p, t)
      /\ cache[Primary(t.ref)] = Absent \/ (NeedsFinalizer(Primary(t.ref).gvk) /\ IsDeleting(Primary(t.ref), cache))
  BY DEF NotRun, Task, world, bounds, history
<1>2. TaskDone(t) /\ t = Run(t.ref) BY <1>1, DoneLeaves, TaskKinds DEF IInv
<1>3. \A ref \in Invocations : t = Run(ref) \/ t = RunStatus(ref) => ~Active(ref)
  BY <1>1, <1>2, RunRefs DEF Active
<1>4. missed \subseteq Invocations /\ called \subseteq Primaries \X (0 .. changes) BY DEF IInv, Types, RecordsOK
<1>5. QED BY <1>1, <1>2, <1>3, <1>4, NothingDone

LEMMA NotReportedKeeps ==
    ASSUME IInv, NEW p \in Procs, NEW t, NotReported(p, t)
    PROVE  IInv'
<1> DEFINE o == Primary(t.ref)
           deleting == p # "resync" /\ NeedsFinalizer(o.gvk) /\ IsDeleting(o, cache)
           namesake == p # "resync" /\ Key(o) \in job[p].names
           j == [job[p] EXCEPT !.names = job[p].names \cup (IF deleting THEN {Key(o)} ELSE {})]
<1>1. /\ UNCHANGED <<server, cache, queue, declared, lastOutputs, called, held, stripped, unrecorded, changes>>
      /\ t \in Current(job[p].todo) /\ t.do = "status"
      /\ deleting \/ namesake \/ cache[o] = Absent
      /\ job' = [job EXCEPT ![p] = After(j, t)]
      /\ missed' = IF namesake THEN missed \cup {t.ref} ELSE missed
  BY DEF NotReported, Task, world, bounds
<1>2. DOMAIN job[p] = DOMAIN Idle /\ DOMAIN job = Procs BY DEF IInv, Types, JobOK
<1>3. /\ DOMAIN j = DOMAIN Idle /\ j.at = job[p].at /\ j.todo = job[p].todo /\ j.plan = job[p].plan
      /\ j.event = job[p].event
  BY <1>2 DEF Idle
<1> HIDE DEF j
<1>4. DOMAIN job' = Procs /\ job'[p] = After(j, t) /\ \A q \in Procs \ {p} : job'[q] = job[q]
  BY <1>1, <1>2
<1>5. TaskDone(t) /\ t = RunStatus(t.ref) /\ t.ref \in Invocations
  BY <1>1, <1>3, <1>4, TaskLeaves, TaskKinds, RunKinds DEF IInv
<1>6. \A ref \in Invocations : t = Run(ref) \/ t = RunStatus(ref) => ~Active(ref) \/ ref \in missed'
  BY <1>1, <1>5, RunRefs DEF Active
<1>7. missed' \subseteq Invocations /\ called \subseteq Primaries \X (0 .. changes)
  BY <1>1, <1>5 DEF IInv, Types, RecordsOK
<1>8. QED BY <1>1, <1>5, <1>6, <1>7, NothingDone

LEMMA FailedCleanupKeeps ==
    ASSUME IInv, NEW p \in Procs, NEW t, CallbackFails(p, t) \/ ReleaseFails(p, t)
    PROVE  IInv'
<1>1. /\ UNCHANGED <<server, cache, queue, declared, lastOutputs, missed, held, stripped, unrecorded, changes>>
      /\ t \in Current(job[p].todo) /\ t.do = "cleanup" /\ Done(p, t)
      /\ called' = called \/ called' = called \cup {t.base.uid}
  BY DEF CallbackFails, ReleaseFails, Task, world, history
<1>2. TaskDone(t) /\ IsCleanup(t, changes) BY <1>1, DoneLeaves, TaskKinds DEF IInv
<1>3. \A ref \in Invocations : t # Run(ref) /\ t # RunStatus(ref) BY <1>1, RunRefs
<1>4. t.base.uid \in Primaries \X (0 .. changes) BY <1>2 DEF IsCleanup, IsPrimaryObject, Given
<1>5. missed \subseteq Invocations /\ called \subseteq called' /\ called' \subseteq Primaries \X (0 .. changes)
  BY <1>1, <1>4 DEF IInv, Types, RecordsOK
<1>6. QED BY <1>1, <1>2, <1>3, <1>5, NothingDone

-----------------------------------------------------------------------------
\* A run of an output reconciler.

\* The finalizer has been added to the primary, or nothing has happened to it.
Finalized(o, x) ==
    \/ x = server[o]
    \/ /\ NeedsFinalizer(o.gvk) /\ ~cache[o].deleting
       /\ server[o] # Absent /\ x # Absent /\ IsPrimaryObject(x, o, changes)
       /\ x.uid = server[o].uid /\ x.deleting = server[o].deleting /\ x.status = server[o].status
       /\ Own \in x.finalizers

RanOutput(ref, applied) ==
    LET o == Primary(ref) out == OutputOf(ref) accepted == Accepted(ref) IN
    /\ Active(ref)
    /\ applied \/ accepted
    /\ DOMAIN server' = Objects
    /\ \A x \in Objects \ {o, out} : server'[x] = server[x]
    /\ Finalized(o, server'[o])
    /\ accepted /\ applied => /\ IsOutputObject(server'[out], o, changes)
                              /\ server'[out].owner = cache[o].uid /\ server'[out].spec = View(ref)
    /\ accepted /\ ~applied => server'[out] = server[out]
    /\ ~accepted => server'[out] = IF out \in lastOutputs[ref] THEN Absent ELSE server[out]
    /\ lastOutputs' = [lastOutputs EXCEPT ![ref] = IF accepted THEN {out} ELSE {}]
    /\ DOMAIN declared' = Invocations
    /\ \A other \in Invocations \ {ref} : declared'[other] = declared[other]
    /\ accepted => Fetches(ref) \subseteq declared'[ref].narrow
    /\ missed' = IF applied THEN missed \ {ref} ELSE missed \cup {ref}
    /\ unrecorded' = unrecorded \ (IF accepted THEN {out} ELSE {})
    /\ held \subseteq held'
    /\ \A u \in held' \ held : server'[o] # Absent /\ u = server'[o].uid /\ Own \in server'[o].finalizers
    /\ UNCHANGED <<cache, queue, changes, called, stripped>>

LEMMA RunOutputRan ==
    ASSUME IInv, NEW p \in Procs, NEW t, RunOutput(p, t)
    PROVE  /\ TaskDone(t) /\ t.ref \in OutputRuns /\ t = Run(t.ref)
           /\ \E applied \in BOOLEAN : RanOutput(t.ref, applied)
<1> DEFINE ref == t.ref
           o   == Primary(ref)
           c   == cache[o]
           out == OutputOf(ref)
           adds     == NeedsFinalizer(o.gvk) /\ Own \notin c.finalizers
           list     == c.finalizers \cup {Own}
           accepted == Accepts(ref.id, c.spec)
           wantKeys == IF accepted THEN {out} ELSE {}
           S1(finalized) == IF adds /\ finalized /\ PatchAccepted(o, list) THEN Patched(o, list) ELSE server
           S2(finalized, applied) ==
               IF accepted /\ applied
               THEN [S1(finalized) EXCEPT ![out] = [spec |-> View(ref), owner |-> c.uid,
                                                    status |-> IF @ = Absent THEN None ELSE @.status]]
               ELSE S1(finalized)
<1>1. /\ t \in Current(job[p].todo) /\ t.do = "output" /\ Done(p, t)
      /\ UNCHANGED <<cache, queue, changes, called, stripped>>
      /\ c # Absent /\ ~(NeedsFinalizer(o.gvk) /\ c.deleting)
  BY DEF RunOutput, Task
<1>2. TaskDone(t) /\ ref \in OutputRuns /\ t = Run(ref) BY <1>1, DoneLeaves, TaskKinds DEF IInv
<1>3. PICK finalized \in BOOLEAN, applied \in BOOLEAN :
          /\ applied \/ accepted
          /\ server' = [x \in Objects |-> IF x \in lastOutputs[ref] \ wantKeys THEN Absent
                                          ELSE S2(finalized, applied)[x]]
          /\ lastOutputs' = [lastOutputs EXCEPT ![ref] = wantKeys]
          /\ Tracker!Replace(ref, Depends(ref, accepted), {})
          /\ missed' = IF applied THEN missed \ {ref} ELSE missed \cup {ref}
          /\ unrecorded' = unrecorded \ wantKeys
          /\ held' = held \cup {x.uid : x \in {y \in {S1(finalized)[o]} \ {Absent} : Own \in y.finalizers}}
  BY DEF RunOutput
<1> DEFINE s1 == S1(finalized)
           s2 == S2(finalized, applied)
<1>4. /\ o \in Primaries /\ o \in Objects /\ out \in Objects /\ out # o /\ ref \in Invocations
      /\ out \notin Primaries
  BY <1>2, OutputFacts, InvocationOf
<1>5. /\ DOMAIN server = Objects /\ DOMAIN s1 = Objects
      /\ \A x \in Objects \ {o} : s1[x] = server[x]
      /\ Finalized(o, s1[o])
  <2>1. DOMAIN server = Objects BY DEF IInv, Types, StoreOK
  <2>2. CASE s1 = server BY <2>1, <2>2 DEF Finalized
  <2>3. CASE s1 # server
    <3>1. /\ NeedsFinalizer(o.gvk) /\ server[o] # Absent /\ s1 = Patched(o, list)
      BY <2>3 DEF PatchAccepted
    <3> DEFINE z == [server[o] EXCEPT !.finalizers = list]
    <3>2. IsPrimaryObject(server[o], o, changes) /\ IsPrimaryObject(c, o, changes)
      BY <1>1, <1>4, <3>1 DEF IInv, Types, StoreOK
    <3>3. /\ DOMAIN z = DOMAIN server[o] /\ z.finalizers = list /\ z.uid = server[o].uid
          /\ z.deleting = server[o].deleting /\ z.status = server[o].status
      BY <3>2 DEF IsPrimaryObject
    <3>4. list \subseteq {Own, Foreign} /\ Own \in list BY <3>2 DEF IsPrimaryObject
    <3>5. changes \in Nat BY BoundsAssumption DEF IInv, Types
    <3>6. /\ Dropped(z) = Absent \/ IsPrimaryObject(Dropped(z), o, changes)
          /\ Dropped(z) = Absent <=> server[o].deleting /\ z.finalizers = {}
          /\ Dropped(z) # Absent => Dropped(z) = z
      BY <3>2, <3>3, <3>4, <3>5, Refinalized
    <3>7. s1 = [server EXCEPT ![o] = Dropped(z)] BY <3>1 DEF Patched
    <3> HIDE DEF z, s1
    <3>8. DOMAIN s1 = Objects /\ s1[o] = Dropped(z) /\ \A x \in Objects \ {o} : s1[x] = server[x]
      BY <1>4, <2>1, <3>7
    <3>9. Dropped(z) # Absent BY <3>3, <3>4, <3>6
    <3>10. Finalized(o, s1[o]) BY <1>1, <3>1, <3>3, <3>4, <3>6, <3>8, <3>9 DEF Finalized
    <3>11. QED BY <2>1, <3>8, <3>10
  <2>4. QED BY <2>2, <2>3
<1> HIDE DEF s1
<1>6. s2 = IF accepted /\ applied
           THEN [s1 EXCEPT ![out] = [spec |-> View(ref), owner |-> c.uid,
                                     status |-> IF @ = Absent THEN None ELSE @.status]]
           ELSE s1
  BY DEF s1
<1> HIDE DEF s2
<1>7. /\ \A x \in Objects \ {out} : s2[x] = s1[x]
      /\ accepted /\ applied => /\ DOMAIN s2[out] = {"spec", "status", "owner"}
                                /\ s2[out].owner = c.uid /\ s2[out].spec = View(ref)
      /\ ~(accepted /\ applied) => s2[out] = s1[out]
  <2>1. CASE accepted /\ applied
    <3> DEFINE made == [spec |-> View(ref), owner |-> c.uid,
                        status |-> IF s1[out] = Absent THEN None ELSE s1[out].status]
    <3>1. s2 = [s1 EXCEPT ![out] = made] BY <1>6, <2>1
    <3>2. DOMAIN made = {"spec", "status", "owner"} /\ made.owner = c.uid /\ made.spec = View(ref)
      OBVIOUS
    <3> HIDE DEF made
    <3>3. s2[out] = made /\ \A x \in Objects \ {out} : s2[x] = s1[x] BY <1>4, <1>5, <3>1
    <3>4. QED BY <2>1, <3>2, <3>3
  <2>2. CASE ~(accepted /\ applied) BY <1>6, <2>2
  <2>3. QED BY <2>1, <2>2
<1>8. /\ DOMAIN server' = Objects
      /\ \A x \in Objects : server'[x] = IF x \in lastOutputs[ref] \ wantKeys THEN Absent ELSE s2[x]
  BY <1>3 DEF s2
<1>9. lastOutputs[ref] \subseteq {out} BY <1>2 DEF IInv, Types, RecordsOK
<1>10. \A x \in Objects \ {out} : server'[x] = s1[x] BY <1>7, <1>8, <1>9
<1>11. server'[out] = IF ~accepted /\ out \in lastOutputs[ref] THEN Absent ELSE s2[out]
  BY <1>4, <1>8
<1>12. accepted /\ applied => /\ IsOutputObject(server'[out], o, changes)
                              /\ server'[out].owner = c.uid /\ server'[out].spec = View(ref)
  <2>1. IsPrimaryObject(c, o, changes) BY <1>1, <1>4 DEF IInv, Types, StoreOK
  <2>2. QED BY <1>7, <1>11, <2>1 DEF IsPrimaryObject, IsOutputObject
<1>13. server'[out] = s2[out] \/ ~accepted BY <1>11
<1>14. declared' = [declared EXCEPT ![ref] = [narrow |-> Depends(ref, accepted), broad |-> {}]]
  BY <1>3 DEF Tracker!Replace
<1>15. /\ DOMAIN declared' = Invocations /\ declared'[ref].narrow = Depends(ref, accepted)
       /\ \A other \in Invocations \ {ref} : declared'[other] = declared[other]
  BY <1>4, <1>14 DEF IInv, Types, RecordsOK
<1>16. accepted => Fetches(ref) \subseteq declared'[ref].narrow BY <1>15 DEF Depends
<1>17. /\ held \subseteq held'
       /\ \A u \in held' \ held : server'[o] # Absent /\ u = server'[o].uid /\ Own \in server'[o].finalizers
  <2>1. held' = held \cup {x.uid : x \in {y \in {s1[o]} \ {Absent} : Own \in y.finalizers}}
    BY <1>3 DEF s1
  <2>2. server'[o] = s1[o] BY <1>4, <1>10
  <2>3. QED BY <2>1, <2>2
<1>18. Active(ref) /\ (accepted <=> Accepted(ref))
  BY <1>1 DEF Active, IsDeleting, Accepted
<1>19. /\ applied \/ accepted
       /\ lastOutputs' = [lastOutputs EXCEPT ![ref] = wantKeys]
       /\ missed' = IF applied THEN missed \ {ref} ELSE missed \cup {ref}
       /\ unrecorded' = unrecorded \ wantKeys
  BY <1>3
<1>20. \A x \in Objects \ {o, out} : server'[x] = server[x] BY <1>5, <1>10
<1>21. Finalized(o, server'[o]) BY <1>4, <1>5, <1>10
<1>22. accepted /\ ~applied => server'[out] = server[out] BY <1>4, <1>5, <1>7, <1>11
<1>23. ~accepted => server'[out] = IF out \in lastOutputs[ref] THEN Absent ELSE server[out]
  BY <1>4, <1>5, <1>7, <1>11
<1> HIDE DEF accepted
<1>24. RanOutput(ref, applied)
  BY <1>1, <1>8, <1>12, <1>15, <1>16, <1>17, <1>18, <1>19, <1>20, <1>21, <1>22, <1>23 DEF RanOutput
<1>25. QED BY <1>2, <1>24

LEMMA RunOutputKeeps ==
    ASSUME IInv, NEW p \in Procs, NEW t, RunOutput(p, t)
    PROVE  IInv'
<1> DEFINE ref == t.ref
           o   == Primary(ref)
           out == OutputOf(ref)
<1>1. TaskDone(t) /\ ref \in OutputRuns /\ t = Run(ref) BY RunOutputRan
<1>2. PICK applied \in BOOLEAN : RanOutput(ref, applied) BY RunOutputRan
<1>3. /\ o \in Primaries /\ o \in Objects /\ out \in Objects /\ out # o /\ ref \in Invocations
      /\ out \notin Primaries
  BY <1>1, OutputFacts, InvocationOf
<1>4. UNCHANGED <<cache, queue, changes, called, stripped>> BY <1>2 DEF RanOutput
<1>5. /\ \A x \in Objects \ {o, out} : server'[x] = server[x]
      /\ Finalized(o, server'[o]) /\ DOMAIN server' = Objects
  BY <1>2 DEF RanOutput
<1>6. \A other \in OutputRuns \ {ref} : OutputOf(other) \in Objects \ {o, out}
  BY <1>1, <1>3, OutputFacts
<1>7. \A x \in Primaries \ {o} : server'[x] = server[x] BY <1>3, <1>5 DEF Primaries
<1>8. cache[o] # Absent BY <1>2 DEF RanOutput, Active
<1>9. changes \in Nat BY BoundsAssumption DEF IInv, Types
<1>10. \A other \in OutputRuns \ {ref} : lastOutputs'[other] = lastOutputs[other]
  BY <1>2 DEF RanOutput, IInv, Types, RecordsOK
<1>11. lastOutputs'[ref] = IF Accepted(ref) THEN {out} ELSE {}
  BY <1>1, <1>2 DEF RanOutput, IInv, Types, RecordsOK
<1>12. server'[o] # Absent => IsPrimaryObject(server'[o], o, changes)
  BY <1>3, <1>5 DEF Finalized, IInv, Types, StoreOK
<1>13. server'[out] # Absent => IsOutputObject(server'[out], o, changes)
  BY <1>1, <1>2 DEF RanOutput, IInv, Types, StoreOK
<1>14. Types'
  <2>1. StoreOK(server', changes)
    <3>1. \A x \in Primaries : server'[x] # Absent => IsPrimaryObject(server'[x], x, changes)
      BY <1>7, <1>12 DEF IInv, Types, StoreOK
    <3>2. \A other \in OutputRuns : server'[OutputOf(other)] # Absent =>
              IsOutputObject(server'[OutputOf(other)], Primary(other), changes)
      BY <1>5, <1>6, <1>13 DEF IInv, Types, StoreOK
    <3>3. QED BY <1>5, <3>1, <3>2 DEF StoreOK
  <2>2. QueueOK' BY <1>4 DEF IInv, Types, QueueOK
  <2>3. RecordsOK'
    <3>1. DOMAIN lastOutputs' = OutputRuns BY <1>2 DEF RanOutput, IInv, Types, RecordsOK
    <3>2. \A other \in OutputRuns : lastOutputs'[other] \subseteq {OutputOf(other)}
      BY <1>10, <1>11 DEF IInv, Types, RecordsOK
    <3>3. DOMAIN declared' = Invocations BY <1>2 DEF RanOutput
    <3>4. missed' \subseteq Invocations BY <1>2, <1>3 DEF RanOutput, IInv, Types, RecordsOK
    <3>5. held' \subseteq Primaries \X (0 .. changes)
      <4>1. \A u \in held' \ held : u \in Given(o, changes)
        BY <1>2, <1>12 DEF RanOutput, IsPrimaryObject
      <4>2. QED BY <1>3, <4>1 DEF Given, IInv, Types, RecordsOK
    <3>6. QED BY <1>4, <3>1, <3>2, <3>3, <3>4, <3>5 DEF IInv, Types, RecordsOK
  <2>4. QED BY <1>1, <1>4, <2>1, <2>2, <2>3 DEF IInv, Types, TaskDone
<1>15. Follows(cache[o], server[o]) BY <1>3 DEF IInv, CacheFollows
<1>16. CacheFollows'
  <2>1. Follows(cache[o], server'[o]) BY <1>5, <1>15 DEF Finalized, Follows
  <2>2. QED BY <1>4, <1>7, <2>1 DEF IInv, CacheFollows
<1>17. BasesFollowed'
  <2> SUFFICES ASSUME NEW u \in Hands, u.do = "cleanup"
               PROVE  BaseFollowed(u.base, cache[u.primary], server'[u.primary])
    BY <1>1, <1>4 DEF BasesFollowed, TaskDone
  <2>1. BaseFollowed(u.base, cache[u.primary], server[u.primary]) BY DEF IInv, BasesFollowed
  <2>2. u.primary \in Primaries BY DEF IInv, Types, JobOK, TaskOK, Hands, Run, RunStatus, IsCleanup
  <2>3. CASE u.primary # o BY <1>7, <2>1, <2>2, <2>3
  <2>4. CASE u.primary = o
    <3>1. CASE server'[o] = server[o] BY <2>1, <2>4, <3>1
    <3>2. CASE server'[o] # server[o]
      BY <1>5, <1>8, <1>15, <2>1, <2>4, <3>2 DEF Finalized, BaseFollowed, Follows
    <3>3. QED BY <3>1, <3>2
  <2>5. QED BY <2>3, <2>4
<1>18. HeldOrCalled'
  <2> SUFFICES ASSUME NEW x \in Primaries, server'[x] # Absent, server'[x].uid \in held'
               PROVE  Own \in server'[x].finalizers \/ server'[x].uid \in called \cup stripped
    BY <1>4 DEF HeldOrCalled
  <2>1. CASE server'[x].uid \in held /\ server'[x] = server[x] BY <2>1 DEF IInv, HeldOrCalled
  <2>2. CASE server'[x] # server[x] BY <1>5, <1>7, <2>2 DEF Finalized
  <2>3. CASE server'[x].uid \notin held
    <3>1. /\ server'[o] # Absent /\ server'[x].uid = server'[o].uid /\ Own \in server'[o].finalizers
      BY <1>2, <2>3 DEF RanOutput
    <3>2. server'[x].uid \in Given(x, changes) /\ server'[o].uid \in Given(o, changes)
      BY <1>3, <1>4, <1>14, <3>1 DEF Types, StoreOK, IsPrimaryObject
    <3>3. x = o BY <3>1, <3>2 DEF Given
    <3>4. QED BY <3>1, <3>3
  <2>4. QED BY <2>1, <2>2, <2>3
<1>19. UnseenOwnNothing'
  <2> SUFFICES ASSUME NEW other \in OutputRuns, cache[Primary(other)] = Absent, server'[Primary(other)] # Absent,
                      server'[OutputOf(other)] # Absent
               PROVE  server'[OutputOf(other)].owner # server'[Primary(other)].uid
    BY <1>4 DEF UnseenOwnNothing, Made
  <2>1. Primary(other) # o /\ other # ref BY <1>8
  <2>2. /\ server'[Primary(other)] = server[Primary(other)]
        /\ server'[OutputOf(other)] = server[OutputOf(other)]
    BY <1>5, <1>6, <1>7, <2>1, OutputFacts
  <2>3. QED BY <2>2 DEF IInv, UnseenOwnNothing, Made
<1>20. \A r \in Invocations : Active(r)' <=> Active(r) BY <1>4 DEF Active, IsDeleting
<1>21. unrecorded' = unrecorded \ (IF Accepted(ref) THEN {out} ELSE {}) BY <1>2 DEF RanOutput
<1>22. ASSUME ~Accepted(ref), server'[out] # Absent
       PROVE  out \notin lastOutputs[ref] /\ server'[out] = server[out]
  BY <1>2, <1>22 DEF RanOutput
<1>23. OnRecord'
  <2> SUFFICES ASSUME NEW other \in OutputRuns, Active(other), Made(other, cache[Primary(other)].uid)'
               PROVE  OutputOf(other) \in lastOutputs'[other] \cup unrecorded'
    BY <1>4, <1>20, OutputFacts DEF OnRecord
  <2>1. CASE other = ref /\ Accepted(ref) BY <1>11, <2>1
  <2>2. CASE other = ref /\ ~Accepted(ref)
    BY <1>4, <1>21, <1>22, <2>2 DEF IInv, OnRecord, Made
  <2>3. CASE other # ref
    <3>1. /\ server'[OutputOf(other)] = server[OutputOf(other)] /\ OutputOf(other) # out
          /\ lastOutputs'[other] = lastOutputs[other]
      BY <1>5, <1>6, <1>10, <2>3
    <3>2. QED BY <1>4, <1>21, <3>1 DEF IInv, OnRecord, Made
  <2>4. QED BY <2>1, <2>2, <2>3
<1>24. Covered(ref)'
  <2>1. CASE ~applied BY <1>2, <2>1 DEF RanOutput, Covered
  <2>2. CASE applied /\ Accepted(ref)
    <3>1. Accepted(ref)' /\ View(ref)' = View(ref)
      BY <1>4, <2>2 DEF Accepted, View, Seen, StatusOf
    <3>2. Known(ref)' BY <1>2, <2>2 DEF RanOutput, Known
    <3>3. Settled(ref)'
      <4>1. /\ IsOutputObject(server'[out], o, changes)
            /\ server'[out].owner = cache[o].uid /\ server'[out].spec = View(ref)
        BY <1>2, <2>2 DEF RanOutput
      <4>2. server'[out] # Absent BY <4>1, AbsentFields
      <4>3. QED BY <1>1, <1>4, <3>1, <4>1, <4>2 DEF Settled, Made
    <3>4. QED BY <3>2, <3>3 DEF Covered
  <2>3. CASE ~Accepted(ref)
    <3>1. ~Accepted(ref)' BY <1>4, <2>3 DEF Accepted
    <3>2. Known(ref)' BY <3>1 DEF Known
    <3>3. CASE Made(ref, cache[o].uid)'
      <4>1. out \notin lastOutputs[ref] /\ Made(ref, cache[o].uid)
        BY <1>4, <1>22, <2>3, <3>3 DEF Made
      <4>2. out \in unrecorded BY <1>1, <1>2, <4>1 DEF IInv, OnRecord, RanOutput
      <4>3. QED BY <1>1, <1>21, <2>3, <4>2 DEF Covered, OffRecord
    <3>4. CASE ~Made(ref, cache[o].uid)'
      <4>1. Settled(ref)' BY <1>1, <1>4, <3>1, <3>4 DEF Settled
      <4>2. QED BY <3>2, <4>1 DEF Covered
    <3>5. QED BY <3>3, <3>4
  <2>4. QED BY <2>1, <2>2, <2>3
<1>25. ASSUME NEW other \in Invocations, other # ref PROVE Covered(other)'
  <2>1. Covered(other) BY DEF IInv, AllCovered
  <2>2. Active(other)' <=> Active(other) BY <1>20
  <2>3. (other \in missed)' <=> other \in missed BY <1>2, <1>25 DEF RanOutput
  <2>4. OffRecord(other)' <=> OffRecord(other) BY <1>6, <1>21, <1>25 DEF OffRecord
  <2>5. Primary(other) \in Primaries BY InvocationOf
  <2>6. server[Primary(other)] = Absent => server'[Primary(other)] = Absent
    BY <1>5, <1>7, <2>5 DEF Finalized
  <2>7. Direct(other) => Direct(other)'
    BY <1>1, <1>4, <1>25, OthersStay, RunRefs
  <2>8. ToLearn(other) => ToLearn(other)' BY <1>1, <1>4, OthersStay
  <2>9. declared'[other] = declared[other] BY <1>2, <1>25 DEF RanOutput
  <2>10. Known(other)' <=> Known(other) BY <1>4, <2>9 DEF Known, Accepted
  <2>11. Settled(other) => Settled(other)' \/ server[Primary(other)] = Absent
    <3>1. CASE other \in OutputRuns
      <4>1. server'[OutputOf(other)] = server[OutputOf(other)] BY <1>5, <1>6, <1>25, <3>1
      <4>2. QED BY <1>4, <3>1, <4>1 DEF Settled, Made, Accepted, View, Seen, StatusOf
    <3>2. CASE other \notin OutputRuns
      <4>1. server'[Primary(other)] = server[Primary(other)] \/ server'[Primary(other)].status = server[Primary(other)].status
        BY <1>5, <1>7, <2>5 DEF Finalized
      <4>2. QED BY <1>4, <3>2, <4>1 DEF Settled, Accepted, Seen, StatusOf
    <3>3. QED BY <3>1, <3>2
  <2>12. QED BY <2>1, <2>2, <2>3, <2>4, <2>6, <2>7, <2>8, <2>10, <2>11 DEF Covered
<1>26. AllCovered' BY <1>24, <1>25 DEF AllCovered
<1>27. QED BY <1>14, <1>16, <1>17, <1>18, <1>19, <1>23, <1>26 DEF IInv

-----------------------------------------------------------------------------
\* A run of a status reconciler.

LEMMA RunStatusKeeps ==
    ASSUME IInv, NEW p \in Procs, NEW t, RunStatusOf(p, t)
    PROVE  IInv'
<1> DEFINE ref == t.ref
           o   == Primary(ref)
<1>1. /\ t \in Current(job[p].todo) /\ t.do = "status" /\ Done(p, t)
      /\ UNCHANGED <<cache, queue, lastOutputs, changes, called, held, stripped, unrecorded>>
  BY DEF RunStatusOf, Task
<1>2. TaskDone(t) /\ ref \in Runs(statusReconcilers) /\ t = RunStatus(ref)
  BY <1>1, DoneLeaves, TaskKinds DEF IInv
<1>3. ref \in Invocations /\ ref \notin OutputRuns /\ o \in Primaries /\ o \in Objects
  BY <1>2, RunKinds, InvocationOf
<1>4. PICK applied \in BOOLEAN :
          /\ applied \/ Accepted(ref)
          /\ server' = IF Accepted(ref) /\ applied /\ server[o] # Absent
                       THEN [server EXCEPT ![o].status = Seen(ref)] ELSE server
          /\ missed' = IF applied THEN missed \ {ref} ELSE missed \cup {ref}
          /\ Tracker!Replace(ref, IF Accepted(ref) THEN Fetches(ref) ELSE {}, {})
  BY DEF RunStatusOf, Accepted
<1>5. declared' = [declared EXCEPT ![ref] = [narrow |-> IF Accepted(ref) THEN Fetches(ref) ELSE {}, broad |-> {}]]
  BY <1>4 DEF Tracker!Replace
<1>6. /\ DOMAIN declared' = Invocations
      /\ Accepted(ref) => declared'[ref].narrow = Fetches(ref)
      /\ \A other \in Invocations \ {ref} : declared'[other] = declared[other]
  BY <1>3, <1>5 DEF IInv, Types, RecordsOK
<1>7. server[o] # Absent => IsPrimaryObject(server[o], o, changes)
  BY <1>3 DEF IInv, Types, StoreOK
<1>8. /\ DOMAIN server' = Objects /\ \A x \in Objects \ {o} : server'[x] = server[x]
      /\ server'[o] = Absent <=> server[o] = Absent
      /\ server[o] # Absent =>
            /\ IsPrimaryObject(server'[o], o, changes)
            /\ server'[o].uid = server[o].uid /\ server'[o].deleting = server[o].deleting
            /\ server'[o].finalizers = server[o].finalizers
            /\ Accepted(ref) /\ applied => server'[o].status = Seen(ref)
  <2>1. DOMAIN server = Objects BY DEF IInv, Types, StoreOK
  <2>2. CASE ~(Accepted(ref) /\ applied /\ server[o] # Absent)
    <3>1. server' = server BY <1>4, <2>2
    <3>2. QED BY <1>7, <2>1, <2>2, <3>1
  <2>3. CASE Accepted(ref) /\ applied /\ server[o] # Absent
    <3> DEFINE x == [server[o] EXCEPT !.status = Seen(ref)]
    <3>1. server' = [server EXCEPT ![o] = x] BY <1>4, <2>3
    <3>2. /\ DOMAIN x = DOMAIN server[o] /\ x.uid = server[o].uid /\ x.deleting = server[o].deleting
          /\ x.finalizers = server[o].finalizers /\ x.status = Seen(ref)
      BY <1>7, <2>3 DEF IsPrimaryObject
    <3> HIDE DEF x
    <3>3. IsPrimaryObject(x, o, changes) BY <1>7, <2>3, <3>2 DEF IsPrimaryObject
    <3>4. server'[o] = x /\ DOMAIN server' = Objects /\ \A y \in Objects \ {o} : server'[y] = server[y]
      BY <1>3, <2>1, <3>1
    <3>5. x # Absent BY <3>3, AbsentFields
    <3>6. QED BY <2>3, <3>2, <3>3, <3>4, <3>5
  <2>4. QED BY <2>2, <2>3
<1>9. changes \in Nat BY BoundsAssumption DEF IInv, Types
<1>10. \A r \in OutputRuns : server'[OutputOf(r)] = server[OutputOf(r)]
  BY <1>3, <1>8, OutputFacts
<1>11. \A x \in Primaries \ {o} : server'[x] = server[x] BY <1>8 DEF Primaries
<1>12. Types'
  <2>1. StoreOK(server', changes)
    <3>1. \A x \in Primaries : server'[x] # Absent => IsPrimaryObject(server'[x], x, changes)
      BY <1>8, <1>11 DEF IInv, Types, StoreOK
    <3>2. QED BY <1>8, <1>10, <3>1 DEF IInv, Types, StoreOK
  <2>2. QueueOK' BY <1>1 DEF IInv, Types, QueueOK
  <2>3. missed' \subseteq Invocations BY <1>3, <1>4 DEF IInv, Types, RecordsOK
  <2>4. RecordsOK' BY <1>1, <1>6, <2>3 DEF IInv, Types, RecordsOK
  <2>5. QED BY <1>1, <1>2, <2>1, <2>2, <2>4 DEF IInv, Types, TaskDone
<1>13. CacheFollows'
  <2>1. Follows(cache[o], server'[o]) BY <1>3, <1>8 DEF IInv, CacheFollows, Follows
  <2>2. QED BY <1>1, <1>11, <2>1 DEF IInv, CacheFollows
<1>14. BasesFollowed'
  <2> SUFFICES ASSUME NEW u \in Hands, u.do = "cleanup"
               PROVE  BaseFollowed(u.base, cache[u.primary], server'[u.primary])
    BY <1>1, <1>2 DEF BasesFollowed, TaskDone
  <2>1. BaseFollowed(u.base, cache[u.primary], server[u.primary]) BY DEF IInv, BasesFollowed
  <2>2. u.primary \in Primaries BY DEF IInv, Types, JobOK, TaskOK, Hands, Run, RunStatus, IsCleanup
  <2>3. QED BY <1>8, <1>11, <2>1, <2>2 DEF BaseFollowed
<1>15. HeldOrCalled' BY <1>1, <1>8, <1>11 DEF IInv, HeldOrCalled
<1>16. UnseenOwnNothing'
  <2> SUFFICES ASSUME NEW r \in OutputRuns, cache[Primary(r)] = Absent, server'[Primary(r)] # Absent,
                      server'[OutputOf(r)] # Absent
               PROVE  server'[OutputOf(r)].owner # server'[Primary(r)].uid
    BY <1>1 DEF UnseenOwnNothing, Made
  <2>1. server[Primary(r)] # Absent /\ server'[Primary(r)].uid = server[Primary(r)].uid
    BY <1>8, <1>11, OutputFacts
  <2>2. QED BY <1>10, <2>1 DEF IInv, UnseenOwnNothing, Made
<1>17. OnRecord' BY <1>1, <1>10, OutputFacts DEF IInv, OnRecord, Made, Active, IsDeleting
<1>18. Covered(ref)'
  <2>1. CASE ~applied BY <1>4, <2>1 DEF Covered
  <2>2. CASE applied /\ server[o] = Absent BY <1>8, <2>2 DEF Covered
  <2>3. CASE applied /\ server[o] # Absent
    <3>1. (Accepted(ref)' <=> Accepted(ref)) /\ Seen(ref)' = Seen(ref)
      BY <1>1 DEF Accepted, Seen, StatusOf
    <3>2. Known(ref)' BY <1>6, <3>1 DEF Known
    <3>3. Settled(ref)' BY <1>3, <1>8, <2>3, <3>1 DEF Settled
    <3>4. QED BY <3>2, <3>3 DEF Covered
  <2>4. QED BY <2>1, <2>2, <2>3
<1>19. ASSUME NEW other \in Invocations, other # ref PROVE Covered(other)'
  <2>1. Covered(other) BY DEF IInv, AllCovered
  <2>2. Active(other)' <=> Active(other) BY <1>1 DEF Active, IsDeleting
  <2>3. (other \in missed)' <=> other \in missed BY <1>4, <1>19
  <2>4. OffRecord(other)' <=> OffRecord(other) BY <1>1 DEF OffRecord
  <2>5. Primary(other) \in Primaries BY InvocationOf
  <2>6. server[Primary(other)] = Absent => server'[Primary(other)] = Absent BY <1>8, <1>11, <2>5
  <2>7. Direct(other) => Direct(other)' BY <1>1, <1>2, <1>19, OthersStay, RunRefs
  <2>8. ToLearn(other) => ToLearn(other)' BY <1>1, <1>2, OthersStay
  <2>9. Known(other)' <=> Known(other) BY <1>1, <1>6, <1>19 DEF Known, Accepted
  <2>10. Settled(other) => Settled(other)'
    <3>1. CASE other \in OutputRuns
      BY <1>1, <1>10, <3>1 DEF Settled, Made, Accepted, View, Seen, StatusOf
    <3>2. CASE other \notin OutputRuns
      <4>1. Primary(other) # o BY <1>2, <1>19, <3>2, OneStatusRun, RunKinds
      <4>2. server'[Primary(other)] = server[Primary(other)] BY <1>11, <2>5, <4>1
      <4>3. QED BY <1>1, <3>2, <4>2 DEF Settled, Accepted, Seen, StatusOf
    <3>3. QED BY <3>1, <3>2
  <2>11. QED BY <2>1, <2>2, <2>3, <2>4, <2>6, <2>7, <2>8, <2>9, <2>10 DEF Covered
<1>20. AllCovered' BY <1>18, <1>19 DEF AllCovered
<1>21. QED BY <1>12, <1>13, <1>14, <1>15, <1>16, <1>17, <1>20 DEF IInv

-----------------------------------------------------------------------------
\* A cleanup.

\* The finalizer has been taken off the object, which goes with the last one;
\* or there was none to take off.
Finished(o, b, x) ==
    \/ x = server[o] /\ Own \notin b.finalizers
    \/ /\ server[o] # Absent /\ (server[o].deleting => b.finalizers \ {Own} \subseteq server[o].finalizers)
       /\ x = Absent \/ (/\ IsPrimaryObject(x, o, changes)
                         /\ x.uid = server[o].uid /\ x.deleting = server[o].deleting
                         /\ x.status = server[o].status /\ x.finalizers = b.finalizers \ {Own})
       /\ x = Absent => b.finalizers \ {Own} = {}
       /\ Own \in b.finalizers

CleanedUp(o, b) ==
    LET later  == cache[o] # Absent /\ cache[o].uid # b.uid
        others == {ref \in OutputRuns : ref.key = Key(o) /\ (Primary(ref) # o \/ later)}
    IN  /\ DOMAIN server' = Objects
        /\ \A x \in Objects \ {o} : server'[x] = server[x]
        /\ Finished(o, b, server'[o])
        /\ Own \in b.finalizers /\ server[o].uid # b.uid => server[o].uid \in stripped'
        /\ stripped \subseteq stripped'
        /\ stripped' \subseteq Primaries \X (0 .. changes)
        /\ lastOutputs' = [ref \in OutputRuns |-> IF ref.key = Key(o) THEN {} ELSE lastOutputs[ref]]
        /\ DOMAIN declared' = Invocations
        /\ \A ref \in Invocations : Primary(ref) # o => declared'[ref] = declared[ref]
        /\ unrecorded' = unrecorded \cup UNION {lastOutputs[ref] : ref \in others}
        /\ missed' = IF later THEN missed \cup {ref \in Invocations : Primary(ref) = o} ELSE missed
        /\ called' = called \cup {b.uid}
        /\ UNCHANGED <<cache, queue, changes, held>>

LEMMA CleanUpCleaned ==
    ASSUME IInv, NEW p \in Procs, NEW t, CleanUp(p, t)
    PROVE  /\ TaskDone(t) /\ t.do = "cleanup" /\ IsCleanup(t, changes) /\ t \in Hands
           /\ CleanedUp(t.primary, t.base)
<1> DEFINE o == t.primary
           b == t.base
           list == b.finalizers \ {Own}
<1>1. /\ t \in Current(job[p].todo) /\ t.do = "cleanup" /\ Done(p, t)
      /\ UNCHANGED <<cache, queue, changes, held>>
      /\ called' = called \cup {b.uid}
  BY DEF CleanUp, Task, bounds
<1>2. TaskDone(t) /\ IsCleanup(t, changes) /\ t \in Hands BY <1>1, DoneLeaves, TaskKinds DEF IInv
<1>3. o \in Primaries /\ o \in Objects /\ IsPrimaryObject(b, o, changes) BY <1>2 DEF IsCleanup, Primaries
<1>4. /\ Own \in b.finalizers => PatchAccepted(o, list)
      /\ server' = IF Own \in b.finalizers THEN Patched(o, list) ELSE server
      /\ stripped' = stripped \cup (IF Own \in b.finalizers /\ server[o].uid # b.uid
                                    THEN {server[o].uid} ELSE {})
  BY DEF CleanUp, Released
<1>5. DOMAIN server = Objects BY DEF IInv, Types, StoreOK
<1>6. /\ DOMAIN server' = Objects /\ \A x \in Objects \ {o} : server'[x] = server[x]
      /\ Finished(o, b, server'[o])
  <2>1. CASE Own \notin b.finalizers BY <1>4, <1>5, <2>1 DEF Finished
  <2>2. CASE Own \in b.finalizers
    <3> DEFINE z == [server[o] EXCEPT !.finalizers = list]
    <3>1. server[o] # Absent /\ (server[o].deleting => list \subseteq server[o].finalizers)
      BY <1>4, <2>2 DEF PatchAccepted
    <3>2. server' = [server EXCEPT ![o] = Dropped(z)] BY <1>4, <2>2 DEF Patched
    <3>3. IsPrimaryObject(server[o], o, changes) BY <1>3, <3>1 DEF IInv, Types, StoreOK
    <3>4. /\ DOMAIN z = DOMAIN server[o] /\ z.finalizers = list /\ z.uid = server[o].uid
          /\ z.deleting = server[o].deleting /\ z.status = server[o].status
      BY <3>3 DEF IsPrimaryObject
    <3>5. list \subseteq {Own, Foreign} BY <1>3 DEF IsPrimaryObject
    <3>6. changes \in Nat BY BoundsAssumption DEF IInv, Types
    <3> HIDE DEF z
    <3>7. /\ Dropped(z) = Absent \/ IsPrimaryObject(Dropped(z), o, changes)
          /\ Dropped(z) = Absent <=> server[o].deleting /\ z.finalizers = {}
          /\ Dropped(z) # Absent => Dropped(z) = z
      <4>1. z.finalizers \subseteq {Own, Foreign} BY <3>4, <3>5
      <4>2. QED BY <3>3, <3>4, <3>6, <4>1, Refinalized
    <3>8. DOMAIN server' = Objects /\ server'[o] = Dropped(z) /\ \A x \in Objects \ {o} : server'[x] = server[x]
      BY <1>3, <1>5, <3>2
    <3>9. Finished(o, b, server'[o]) BY <2>2, <3>1, <3>4, <3>7, <3>8 DEF Finished
    <3>10. QED BY <3>8, <3>9
  <2>3. QED BY <2>1, <2>2
<1>7. stripped' \subseteq Primaries \X (0 .. changes)
  <2>1. CASE Own \in b.finalizers
    <3>1. server[o] # Absent BY <1>4, <2>1 DEF PatchAccepted
    <3>2. server[o].uid \in Given(o, changes) BY <1>3, <3>1 DEF IInv, Types, StoreOK, IsPrimaryObject
    <3>3. server[o].uid \in Primaries \X (0 .. changes) BY <1>3, <3>2 DEF Given
    <3>4. QED BY <1>4, <3>3 DEF IInv, Types, RecordsOK
  <2>2. CASE Own \notin b.finalizers BY <1>4, <2>2 DEF IInv, Types, RecordsOK
  <2>3. QED BY <2>1, <2>2
<1>8. DOMAIN declared' = Invocations /\ \A ref \in Invocations : Primary(ref) # o => declared'[ref] = declared[ref]
  BY DEF CleanUp
<1> DEFINE later  == cache[o] # Absent /\ cache[o].uid # b.uid
           others == {ref \in OutputRuns : ref.key = Key(o) /\ (Primary(ref) # o \/ later)}
<1>9. /\ lastOutputs' = [ref \in OutputRuns |-> IF ref.key = Key(o) THEN {} ELSE lastOutputs[ref]]
      /\ unrecorded' = unrecorded \cup UNION {lastOutputs[ref] : ref \in others}
      /\ missed' = IF later THEN missed \cup {ref \in Invocations : Primary(ref) = o} ELSE missed
  BY DEF CleanUp
<1>10. /\ stripped \subseteq stripped'
       /\ Own \in b.finalizers /\ server[o].uid # b.uid => server[o].uid \in stripped'
  BY <1>4
<1>11. CleanedUp(o, b) BY <1>1, <1>6, <1>7, <1>8, <1>9, <1>10 DEF CleanedUp
<1>12. QED BY <1>1, <1>2, <1>11

LEMMA CleanUpKeeps ==
    ASSUME IInv, NEW p \in Procs, NEW t, CleanUp(p, t)
    PROVE  IInv'
<1> DEFINE o == t.primary
           b == t.base
           later == cache[o] # Absent /\ cache[o].uid # b.uid
           s == server[o]
           x == server'[o]
<1>1. TaskDone(t) /\ t.do = "cleanup" /\ IsCleanup(t, changes) /\ t \in Hands /\ CleanedUp(o, b)
  BY CleanUpCleaned
<1>2. /\ o \in Primaries /\ o \in Objects /\ NeedsFinalizer(o.gvk)
      /\ IsPrimaryObject(b, o, changes) /\ b.deleting
  BY <1>1 DEF IsCleanup, Primaries
<1>3. BaseFollowed(b, cache[o], s) /\ Follows(cache[o], s) BY <1>1, <1>2 DEF IInv, BasesFollowed, CacheFollows
<1>4. UNCHANGED <<cache, queue, changes, held>> /\ called' = called \cup {b.uid} /\ stripped \subseteq stripped'
  BY <1>1 DEF CleanedUp
<1>5. /\ DOMAIN server' = Objects /\ \A y \in Objects \ {o} : server'[y] = server[y]
      /\ Finished(o, b, x)
  BY <1>1 DEF CleanedUp
<1>6. \A r \in OutputRuns : server'[OutputOf(r)] = server[OutputOf(r)] BY <1>2, <1>5, OutputFacts
<1>7. \A y \in Primaries \ {o} : server'[y] = server[y] BY <1>5 DEF Primaries
<1>8. changes \in Nat BY BoundsAssumption DEF IInv, Types
<1>9. Types'
  <2>1. StoreOK(server', changes)
    <3>1. x # Absent => IsPrimaryObject(x, o, changes)
      BY <1>2, <1>5 DEF Finished, IInv, Types, StoreOK
    <3>2. \A y \in Primaries : server'[y] # Absent => IsPrimaryObject(server'[y], y, changes)
      BY <1>7, <3>1 DEF IInv, Types, StoreOK
    <3>3. QED BY <1>5, <1>6, <3>2 DEF IInv, Types, StoreOK
  <2>2. QueueOK' BY <1>4 DEF IInv, Types, QueueOK
  <2>3. b.uid \in Primaries \X (0 .. changes) BY <1>2 DEF IsPrimaryObject, Given
  <2>4. called' \cup held' \cup stripped' \subseteq Primaries \X (0 .. changes)
    BY <1>1, <1>4, <2>3 DEF CleanedUp, IInv, Types, RecordsOK
  <2>5. missed' \subseteq Invocations BY <1>1 DEF CleanedUp, IInv, Types, RecordsOK
  <2>6. /\ DOMAIN lastOutputs' = OutputRuns /\ DOMAIN declared' = Invocations
        /\ \A ref \in OutputRuns : lastOutputs'[ref] \subseteq {OutputOf(ref)}
    BY <1>1 DEF CleanedUp, IInv, Types, RecordsOK
  <2>7. RecordsOK' BY <1>4, <2>4, <2>5, <2>6 DEF RecordsOK
  <2>8. QED BY <1>1, <1>4, <2>1, <2>2, <2>7 DEF IInv, Types, TaskDone
<1>10. CacheFollows'
  <2>1. Follows(cache[o], x) BY <1>3, <1>5 DEF Finished, Follows
  <2>2. QED BY <1>4, <1>7, <2>1 DEF IInv, CacheFollows
<1>11. BasesFollowed'
  <2> SUFFICES ASSUME NEW u \in Hands, u.do = "cleanup"
               PROVE  BaseFollowed(u.base, cache[u.primary], server'[u.primary])
    BY <1>1, <1>4 DEF BasesFollowed, TaskDone
  <2>1. BaseFollowed(u.base, cache[u.primary], server[u.primary]) BY DEF IInv, BasesFollowed
  <2>2. u.primary \in Primaries BY DEF IInv, Types, JobOK, TaskOK, Hands, Run, RunStatus, IsCleanup
  <2>3. CASE u.primary # o BY <1>7, <2>1, <2>2, <2>3
  <2>4. CASE u.primary = o /\ x = s BY <2>1, <2>4
  <2>5. CASE u.primary = o /\ x # s
    BY <1>3, <1>5, <2>1, <2>5 DEF Finished, BaseFollowed, Follows
  <2>6. QED BY <2>3, <2>4, <2>5
<1>12. HeldOrCalled'
  <2> SUFFICES ASSUME NEW y \in Primaries, server'[y] # Absent, server'[y].uid \in held
               PROVE  Own \in server'[y].finalizers \/ server'[y].uid \in called' \cup stripped'
    BY <1>4 DEF HeldOrCalled
  <2>1. CASE server'[y] = server[y] BY <1>4, <2>1 DEF IInv, HeldOrCalled
  <2>2. CASE server'[y] # server[y]
    <3>1. y = o /\ x.uid = s.uid /\ Own \in b.finalizers BY <1>5, <1>7, <2>2 DEF Finished
    <3>2. s.uid = b.uid \/ s.uid \in stripped' BY <1>1, <3>1 DEF CleanedUp
    <3>3. QED BY <1>4, <3>1, <3>2
  <2>3. QED BY <2>1, <2>2
<1>13. UnseenOwnNothing'
  <2> SUFFICES ASSUME NEW r \in OutputRuns, cache[Primary(r)] = Absent, server'[Primary(r)] # Absent,
                      server'[OutputOf(r)] # Absent
               PROVE  server'[OutputOf(r)].owner # server'[Primary(r)].uid
    BY <1>4 DEF UnseenOwnNothing, Made
  <2>1. server[Primary(r)] # Absent /\ server'[Primary(r)].uid = server[Primary(r)].uid
    BY <1>5, <1>7, OutputFacts DEF Finished
  <2>2. QED BY <1>6, <2>1 DEF IInv, UnseenOwnNothing, Made
<1>14. \A r \in Invocations : Active(r)' <=> Active(r) BY <1>4 DEF Active, IsDeleting
<1>15. \A r \in Invocations : Primary(r) = o /\ Active(r) => later
  BY <1>2, <1>3 DEF Active, IsDeleting, BaseFollowed
<1>16. unrecorded \subseteq unrecorded' BY <1>1 DEF CleanedUp
<1>17. OnRecord'
  <2> SUFFICES ASSUME NEW r \in OutputRuns, Active(r), Made(r, cache[Primary(r)].uid)'
               PROVE  OutputOf(r) \in lastOutputs'[r] \cup unrecorded'
    BY <1>4, <1>14, OutputFacts DEF OnRecord
  <2>1. OutputOf(r) \in lastOutputs[r] \cup unrecorded
    BY <1>4, <1>6 DEF IInv, OnRecord, Made
  <2>2. CASE OutputOf(r) \in unrecorded BY <1>16, <2>2
  <2>3. CASE OutputOf(r) \in lastOutputs[r] /\ r.key # Key(o) BY <1>1, <2>3 DEF CleanedUp
  <2>4. CASE OutputOf(r) \in lastOutputs[r] /\ r.key = Key(o)
    <3>1. Primary(r) # o \/ later BY <1>15, OutputFacts
    <3>2. OutputOf(r) \in UNION {lastOutputs[ref] : ref \in {ref \in OutputRuns : ref.key = Key(o) /\ (Primary(ref) # o \/ later)}}
      BY <2>4, <3>1
    <3>3. QED BY <1>1, <3>2 DEF CleanedUp
  <2>5. QED BY <2>1, <2>2, <2>3, <2>4
<1>18. ASSUME NEW ref \in Invocations PROVE Covered(ref)'
  <2>1. Covered(ref) BY DEF IInv, AllCovered
  <2>2. missed \subseteq missed' BY <1>1 DEF CleanedUp
  <2>3. CASE Primary(ref) = o
    <3>1. Active(ref) => ref \in missed' BY <1>1, <1>15, <2>3 DEF CleanedUp
    <3>2. QED BY <1>14, <3>1 DEF Covered
  <2>4. CASE Primary(ref) # o
    <3>1. OffRecord(ref) => OffRecord(ref)' BY <1>16 DEF OffRecord
    <3>2. server'[Primary(ref)] = server[Primary(ref)] BY <1>7, <2>4, InvocationOf
    <3>3. Direct(ref) => Direct(ref)' BY <1>1, <1>4, OthersStay, RunRefs
    <3>4. ToLearn(ref) => ToLearn(ref)' BY <1>1, <1>4, OthersStay
    <3>5. declared'[ref] = declared[ref] BY <1>1, <2>4 DEF CleanedUp
    <3>6. Known(ref)' <=> Known(ref) BY <1>4, <3>5 DEF Known, Accepted
    <3>7. Settled(ref)' <=> Settled(ref)
      BY <1>4, <1>6, <3>2 DEF Settled, Made, Accepted, View, Seen, StatusOf
    <3>8. QED BY <1>14, <2>1, <2>2, <3>1, <3>2, <3>3, <3>4, <3>6, <3>7 DEF Covered
  <2>5. QED BY <2>3, <2>4
<1>19. AllCovered' BY <1>18 DEF AllCovered
<1>20. QED BY <1>9, <1>10, <1>11, <1>12, <1>13, <1>17, <1>19 DEF IInv

-----------------------------------------------------------------------------
\* The start.

\* What a manager finds that starts with these primaries waiting.
Found(waiting) ==
    /\ DOMAIN server = Objects
    /\ \A o \in waiting : o \in Primaries /\ NeedsFinalizer(o.gvk) /\ server[o] = WaitingPrimary(o)
    /\ \A o \in Primaries \ waiting : server[o] = NewPrimary(o, 0)
    /\ \A ref \in OutputRuns :
          server[OutputOf(ref)] = IF Primary(ref) \in waiting THEN LeftOver(ref) ELSE Absent
    /\ held = {<<o, 0>> : o \in waiting}

LEMMA InitFound ==
    ASSUME Init
    PROVE  \E waiting : Found(waiting)
<1> DEFINE Left(waiting) == {ref \in OutputRuns : Primary(ref) \in waiting}
<1>1. PICK waiting \in Interrupted :
          /\ server = [o \in Objects |->
                 CASE o \in waiting -> WaitingPrimary(o)
                   [] o \in Primaries \ waiting -> NewPrimary(o, 0)
                   [] \E ref \in Left(waiting) : OutputOf(ref) = o ->
                         LeftOver(CHOOSE ref \in Left(waiting) : OutputOf(ref) = o)
                   [] OTHER -> Absent]
          /\ held = {WaitingPrimary(o).uid : o \in waiting}
  BY DEF Init
<1>2. \A o \in waiting : o \in Primaries /\ o \in Objects /\ NeedsFinalizer(o.gvk)
  BY InterruptedAssumption DEF Primaries
<1>3. \A o \in waiting : server[o] = WaitingPrimary(o)
  <2> TAKE o \in waiting
  <2>1. o \notin Primaries \ waiting OBVIOUS
  <2>2. ~\E ref \in Left(waiting) : OutputOf(ref) = o BY <1>2, OutputFacts
  <2>3. QED BY <1>1, <1>2, <2>1, <2>2
<1>4. \A o \in Primaries \ waiting : server[o] = NewPrimary(o, 0)
  <2> TAKE o \in Primaries \ waiting
  <2>1. ~\E ref \in Left(waiting) : OutputOf(ref) = o BY OutputFacts
  <2>2. o \in Objects BY DEF Primaries
  <2>3. QED BY <1>1, <2>1, <2>2
<1>5. ASSUME NEW ref \in OutputRuns
      PROVE  server[OutputOf(ref)] = IF Primary(ref) \in waiting THEN LeftOver(ref) ELSE Absent
  <2> DEFINE o == OutputOf(ref)
  <2>1. o \in Objects /\ o \notin waiting /\ o \notin Primaries \ waiting BY <1>2, OutputFacts
  <2>2. CASE ref \in Left(waiting)
    <3>1. (CHOOSE other \in Left(waiting) : OutputOf(other) = o) = ref BY <2>2, OutputFacts
    <3>2. server[o] = LeftOver(CHOOSE other \in Left(waiting) : OutputOf(other) = o)
      BY <1>1, <2>1, <2>2
    <3>3. QED BY <2>2, <3>1, <3>2
  <2>3. CASE ref \notin Left(waiting)
    <3>1. ~\E other \in Left(waiting) : OutputOf(other) = o BY <2>3, OutputFacts
    <3>2. QED BY <1>1, <2>1, <2>3, <3>1
  <2>4. QED BY <2>2, <2>3
<1>6. held = {<<o, 0>> : o \in waiting} BY <1>1 DEF WaitingPrimary, NewPrimary
<1>7. DOMAIN server = Objects BY <1>1
<1>8. QED BY <1>2, <1>3, <1>4, <1>5, <1>6, <1>7 DEF Found

LEMMA InitInv == Init => IInv
<1> SUFFICES ASSUME Init PROVE IInv OBVIOUS
<1>1. PICK waiting : Found(waiting) BY InitFound
<1>2. /\ cache = server /\ queue = [k \in GVKs |-> <<>>]
      /\ job = [p \in Procs |->
                   IF p = "resync" THEN [Idle EXCEPT !.at = "resync", !.plan = All] ELSE Idle]
      /\ declared = [ref \in Invocations |-> Tracker!NoDeps]
      /\ lastOutputs = [ref \in OutputRuns |-> {}]
      /\ changes = 0 /\ missed = {} /\ called = {} /\ stripped = {} /\ unrecorded = {}
  BY DEF Init, Tracker!Init
<1>3. \A o : /\ WaitingPrimary(o).finalizers = {Own, Foreign} /\ WaitingPrimary(o).deleting
             /\ WaitingPrimary(o).uid = <<o, 0>> /\ NewPrimary(o, 0).uid = <<o, 0>>
  BY DEF WaitingPrimary, NewPrimary
<1>4. ASSUME NEW p \in Procs
      PROVE  /\ job[p].todo = <<>> /\ JobOK(job[p], p, 0) /\ DOMAIN job = Procs
  <2>1. All \in Seq(Registered) BY AllTypes, IsASeq DEF Registered
  <2>2. Tasks(<<>>) = {} BY DEF Tasks
  <2>3. CASE p = "resync"
    <3> DEFINE j == [Idle EXCEPT !.at = "resync", !.plan = All]
    <3>1. job[p] = j BY <1>2, <2>3
    <3>2. DOMAIN j = DOMAIN Idle /\ j.at = "resync" /\ j.plan = All /\ j.todo = <<>> BY DEF Idle
    <3> HIDE DEF j
    <3>3. JobOK(j, p, 0) BY <2>1, <2>2, <2>3, <3>2 DEF JobOK
    <3>4. QED BY <1>2, <3>1, <3>2, <3>3
  <2>4. CASE p # "resync"
    <3>1. job[p] = Idle BY <1>2, <2>4
    <3>2. Idle.at = "idle" /\ Idle.plan = <<>> /\ Idle.todo = <<>> BY DEF Idle
    <3>3. <<>> \in Seq(Registered) OBVIOUS
    <3>4. JobOK(Idle, p, 0) BY <2>2, <2>4, <3>2, <3>3 DEF JobOK
    <3>5. QED BY <1>2, <3>1, <3>2, <3>4
  <2>5. QED BY <2>3, <2>4
<1>5. Hands = {} BY <1>4 DEF Hands, Tasks
<1>6. Types
  <2>1. StoreOK(server, 0)
    <3>1. \A o \in Primaries : IsPrimaryObject(server[o], o, 0) BY <1>1, NewPrimaryOK DEF Found
    <3>2. ASSUME NEW ref \in OutputRuns, server[OutputOf(ref)] # Absent
          PROVE  IsOutputObject(server[OutputOf(ref)], Primary(ref), 0)
      <4>1. server[OutputOf(ref)] = LeftOver(ref) BY <1>1, <3>2 DEF Found
      <4>2. DOMAIN LeftOver(ref) = {"spec", "status", "owner"} /\ LeftOver(ref).owner = <<Primary(ref), 0>>
        BY <1>3 DEF LeftOver
      <4>3. <<Primary(ref), 0>> \in Given(Primary(ref), 0) BY DEF Given
      <4>4. QED BY <4>1, <4>2, <4>3 DEF IsOutputObject
    <3>3. QED BY <1>1, <3>1, <3>2 DEF StoreOK, Found
  <2>2. QueueOK BY <1>2 DEF QueueOK
  <2>3. held \subseteq Primaries \X (0 .. 0) BY <1>1 DEF Found
  <2>4. RecordsOK BY <1>2, <2>3 DEF RecordsOK
  <2>5. DOMAIN job = Procs BY <1>2
  <2>6. QED BY <1>2, <1>4, <2>1, <2>2, <2>4, <2>5, BoundsAssumption DEF Types
<1>7. CacheFollows BY <1>2 DEF CacheFollows, Follows
<1>8. BasesFollowed BY <1>5 DEF BasesFollowed
<1>9. HeldOrCalled
  <2> SUFFICES ASSUME NEW o \in Primaries, server[o].uid \in held
               PROVE  Own \in server[o].finalizers
    BY DEF HeldOrCalled
  <2>1. server[o].uid = <<o, 0>> BY <1>1, <1>3 DEF Found
  <2>2. o \in waiting BY <1>1, <2>1 DEF Found
  <2>3. QED BY <1>1, <1>3, <2>2 DEF Found
<1>10. UnseenOwnNothing BY <1>2 DEF UnseenOwnNothing
<1>11. OnRecord
  <2> SUFFICES ASSUME NEW ref \in OutputRuns, Active(ref), Made(ref, cache[Primary(ref)].uid) PROVE FALSE
    BY DEF OnRecord
  <2>1. Primary(ref) \in waiting BY <1>1 DEF Found, Made
  <2>2. QED BY <1>1, <1>2, <1>3, <2>1 DEF Found, Active, IsDeleting
<1>12. AllCovered
  <2> SUFFICES ASSUME NEW ref \in Invocations PROVE Planned(ref.id) BY DEF AllCovered, Covered, Direct
  <2>1. job["resync"].plan = All BY <1>2 DEF Procs, Idle
  <2>2. PICK i \in DOMAIN All : ref.id = All[i].id BY InvocationOf
  <2>3. QED BY <2>1, <2>2 DEF Planned
<1>13. QED BY <1>6, <1>7, <1>8, <1>9, <1>10, <1>11, <1>12 DEF IInv

-----------------------------------------------------------------------------
\* Every step.

LEMMA StutterKeeps ==
    ASSUME IInv, UNCHANGED vars
    PROVE  IInv'
<1>1. /\ UNCHANGED <<server, cache, queue, job, declared, lastOutputs, changes>>
      /\ UNCHANGED <<missed, called, held, stripped, unrecorded>>
  BY DEF vars, world, manager, bounds, history
<1>2. Hands' = Hands BY <1>1 DEF Hands
<1>3. Types' BY <1>1 DEF IInv, Types, QueueOK, RecordsOK
<1>4. BasesFollowed' BY <1>1, <1>2 DEF IInv, BasesFollowed
<1>5. \A ref \in Invocations : (Direct(ref) => Direct(ref)') /\ (ToLearn(ref) => ToLearn(ref)')
  BY <1>1, <1>2 DEF Direct, Queued, Planned, ToLearn, Accepted, Announced
<1>6. QED BY <1>1, <1>3, <1>4, <1>5, PassOnKeeps

\* The actions, by what they are about.
LEMMA Steps ==
    ASSUME [Next]_vars
    PROVE  \/ UNCHANGED vars
           \/ \E o \in Primaries : UserStep(o)
           \/ \E o \in Outputs : Report(o)
           \/ \E ref \in OutputRuns : CollectGarbage(ref)
           \/ \E o \in Objects : Refresh(o)
           \/ StartResync \/ NextReconciler \/ GcOrphans
           \/ \E k \in GVKs : Handle(k) \/ Route(k)
           \/ \E p \in Procs, t \in UNION {Current(job[q].todo) : q \in Procs} :
                 NotRun(p, t) \/ RunOutput(p, t) \/ NotReported(p, t) \/ RunStatusOf(p, t)
                    \/ CallbackFails(p, t) \/ ReleaseFails(p, t) \/ CleanUp(p, t)
<1>1. CASE \E p \in Procs : Work(p)
  <2>1. PICK p \in Procs : Work(p) BY <1>1
  <2>2. \A t \in Current(job[p].todo) : t \in UNION {Current(job[q].todo) : q \in Procs} OBVIOUS
  <2>3. QED BY <2>1, <2>2 DEF Work
<1>2. CASE ~\E p \in Procs : Work(p) BY <1>2 DEF Next, UserStep
<1>3. QED BY <1>1, <1>2

LEMMA NextKeeps == IInv /\ [Next]_vars => IInv'
<1> SUFFICES ASSUME IInv, [Next]_vars PROVE IInv' OBVIOUS
<1>1. CASE UNCHANGED vars BY <1>1, StutterKeeps
<1>2. CASE \E o \in Primaries : UserStep(o) BY <1>2, UserKeeps
<1>3. CASE \E o \in Outputs : Report(o) BY <1>3, ReportKeeps
<1>4. CASE \E ref \in OutputRuns : CollectGarbage(ref) BY <1>4, CollectGarbageKeeps
<1>5. CASE \E o \in Objects : Refresh(o) BY <1>5, RefreshKeeps
<1>6. CASE StartResync \/ NextReconciler \/ GcOrphans
  BY <1>6, StartResyncKeeps, NextReconcilerKeeps, GcOrphansKeeps
<1>7. CASE \E k \in GVKs : Handle(k) \/ Route(k) BY <1>7, HandleKeeps, RouteKeeps
<1>8. ASSUME NEW p \in Procs, NEW t, NotRun(p, t) \/ NotReported(p, t) PROVE IInv'
  BY <1>8, NotRunKeeps, NotReportedKeeps
<1>9. ASSUME NEW p \in Procs, NEW t, RunOutput(p, t) \/ RunStatusOf(p, t) PROVE IInv'
  BY <1>9, RunOutputKeeps, RunStatusKeeps
<1>10. ASSUME NEW p \in Procs, NEW t, CallbackFails(p, t) \/ ReleaseFails(p, t) \/ CleanUp(p, t) PROVE IInv'
  BY <1>10, FailedCleanupKeeps, CleanUpKeeps
<1>11. QED BY <1>1, <1>2, <1>3, <1>4, <1>5, <1>6, <1>7, <1>8, <1>9, <1>10, Steps

LEMMA Invariant == Spec => []IInv
BY InitInv, NextKeeps, PTL DEF Spec

-----------------------------------------------------------------------------
\* What it implies.

LEMMA InvTypes == IInv => TypeOK
<1> SUFFICES ASSUME IInv PROVE TypeOK OBVIOUS
<1>1. ASSUME NEW store, StoreOK(store, changes)
      PROVE  /\ DOMAIN store = Objects
             /\ \A o \in Primaries : store[o] # Absent =>
                   /\ store[o].finalizers \subseteq {Own, Foreign}
                   /\ store[o].deleting => store[o].finalizers # {}
             /\ \A o \in Outputs : store[o] # Absent => store[o].owner \in UIDs
  <2>1. \A o \in Primaries : store[o] # Absent =>
           /\ store[o].finalizers \subseteq {Own, Foreign}
           /\ store[o].deleting => store[o].finalizers # {}
    BY <1>1 DEF StoreOK, IsPrimaryObject
  <2>2. ASSUME NEW o \in Outputs, store[o] # Absent PROVE store[o].owner \in UIDs
    <3>1. PICK ref \in OutputRuns : o = OutputOf(ref) BY DEF Outputs
    <3>2. store[o].owner \in Given(Primary(ref), changes) BY <1>1, <2>2, <3>1 DEF StoreOK, IsOutputObject
    <3>3. Primary(ref) \in Primaries /\ 0 .. changes \subseteq 0 .. MaxChanges
      BY OutputFacts, BoundsAssumption DEF IInv, Types
    <3>4. QED BY <3>2, <3>3 DEF Given, UIDs
  <2>3. QED BY <1>1, <2>1, <2>2 DEF StoreOK
<1>2. \A k \in GVKs : \A i \in DOMAIN queue[k] : queue[k][i] \in Objects /\ queue[k][i].gvk = k
  BY DEF IInv, Types, QueueOK
<1>3. \A p \in Procs : /\ job[p].todo # <<>> => Tasks(job[p].todo) # {}
                      /\ job[p].at = "routed" => job[p].todo # <<>>
  BY DEF IInv, Types, JobOK
<1>4. \A ref \in OutputRuns : lastOutputs[ref] \subseteq {OutputOf(ref)} BY DEF IInv, Types, RecordsOK
<1>5. missed \subseteq Invocations /\ called \cup held \cup stripped \subseteq UIDs
  <2>1. 0 .. changes \subseteq 0 .. MaxChanges BY BoundsAssumption DEF IInv, Types
  <2>2. QED BY <2>1 DEF IInv, Types, RecordsOK, UIDs
<1>6. QED BY <1>1, <1>2, <1>3, <1>4, <1>5 DEF IInv, Types, TypeOK

\* When all is quiet nothing is direct, announced or still to be shown.
LEMMA InvUpToDate == IInv => UpToDate
<1> SUFFICES ASSUME IInv, Quiet, NEW ref \in Invocations, Active(ref), ref \notin missed, ~OffRecord(ref)
             PROVE  InPlace(ref)
  BY DEF UpToDate
<1>1. cache = server /\ (\A k \in GVKs : queue[k] = <<>>) /\ (\A p \in Procs : job[p] = Idle)
  BY DEF Quiet
<1>2. Idle.todo = <<>> /\ Idle.plan = <<>> /\ Idle.at = "idle" BY DEF Idle
<1>3. Hands = {} BY <1>1, <1>2 DEF Hands, Tasks
<1>4. Primary(ref).gvk \in Procs /\ Primary(ref).gvk \in GVKs /\ "resync" \in Procs
  BY InvocationOf DEF Procs
<1>5. ~Direct(ref) BY <1>1, <1>2, <1>3, <1>4 DEF Direct, Queued, Planned
<1>6. ~ToLearn(ref)
  <2>1. ASSUME NEW x \in Objects PROVE ~Announced(x)
    <3>1. x.gvk \in GVKs /\ x.gvk \in Procs BY DEF GVKs, Procs
    <3>2. QED BY <1>1, <1>2, <3>1 DEF Announced, Queued
  <2>2. QED BY <2>1, FetchAssumption DEF ToLearn
<1>7. server[Primary(ref)] # Absent BY <1>1 DEF Active
<1>8. Settled(ref) BY <1>5, <1>6, <1>7 DEF IInv, AllCovered, Covered
<1>9. CASE ref \in OutputRuns BY <1>1, <1>7, <1>8, <1>9 DEF Settled, InPlace, Made, Accepted, Garbage
<1>10. CASE ref \notin OutputRuns BY <1>8, <1>10 DEF Settled, InPlace, Accepted
<1>11. QED BY <1>9, <1>10

\* The report on a primary leaves its finalizers as they are.
LEMMA StatusWritten ==
    ASSUME IInv, NEW p \in Procs, NEW t, RunStatusOf(p, t), NEW x \in Primaries, server[x] # Absent
    PROVE  server'[x] # Absent /\ server'[x].finalizers = server[x].finalizers
<1> DEFINE o == Primary(t.ref)
           y == [server[o] EXCEPT !.status = Seen(t.ref)]
<1>1. server' = server \/ server' = [server EXCEPT ![o] = y]
  BY DEF RunStatusOf
<1>2. IsPrimaryObject(server[x], x, changes) /\ x \in Objects /\ DOMAIN server = Objects
  BY DEF IInv, Types, StoreOK, Primaries
<1>3. CASE server'[x] = server[x] BY <1>3
<1>4. CASE x = o /\ server'[x] = y
  <2>1. DOMAIN y = DOMAIN server[x] /\ y.finalizers = server[x].finalizers
    BY <1>2, <1>4 DEF IsPrimaryObject
  <2>2. "uid" \in DOMAIN y BY <1>2, <2>1 DEF IsPrimaryObject
  <2> HIDE DEF y
  <2>3. QED BY <1>4, <2>1, <2>2, AbsentFields
<1> HIDE DEF y
<1>5. QED BY <1>1, <1>2, <1>3, <1>4

\* The steps that change a primary.
LEMMA PrimarySteps ==
    ASSUME IInv, [Next]_vars, NEW o \in Primaries, server[o] # Absent, server'[o] # server[o]
    PROVE  \/ \E y : ByUser(o, y) /\ server'[o] = y
           \/ Finalized(o, server'[o])
           \/ server'[o] # Absent /\ server'[o].finalizers = server[o].finalizers
           \/ \E b : CleanedUp(o, b) /\ BaseFollowed(b, cache[o], server[o])
<1>1. DOMAIN server = Objects /\ o \in Objects BY DEF IInv, Types, StoreOK, Primaries
<1>2. CASE UNCHANGED vars BY <1>2 DEF vars, world
<1>3. CASE \E x \in Primaries : UserStep(x)
  <2>1. PICK x \in Primaries : \E y : ByUser(x, y) BY <1>3, UserChanges DEF IInv
  <2>2. PICK y : ByUser(x, y) BY <2>1
  <2>3. server' = [server EXCEPT ![x] = y] BY <2>2 DEF ByUser
  <2>4. x = o /\ server'[o] = y BY <1>1, <2>3
  <2>5. QED BY <2>2, <2>4
<1>4. CASE \E x \in Outputs : Report(x)
  <2>1. PICK x \in Outputs : server' = [server EXCEPT ![x].status = "ready"] BY <1>4 DEF Report
  <2>2. x # o BY OutputAssumption
  <2>3. QED BY <1>1, <2>1, <2>2
<1>5. CASE \E ref \in OutputRuns : CollectGarbage(ref)
  <2>1. PICK ref \in OutputRuns : server' = [server EXCEPT ![OutputOf(ref)] = Absent]
    BY <1>5 DEF CollectGarbage
  <2>2. QED BY <1>1, <2>1, OutputFacts
<1>6. CASE GcOrphans BY <1>1, <1>6, OutputAssumption DEF GcOrphans
<1>7. CASE \/ \E x \in Objects : Refresh(x)
           \/ StartResync \/ NextReconciler
           \/ \E k \in GVKs : Handle(k) \/ Route(k)
  BY <1>7 DEF Refresh, StartResync, NextReconciler, Handle, Route, world
<1>8. ASSUME NEW p \in Procs, NEW t,
             NotRun(p, t) \/ NotReported(p, t) \/ CallbackFails(p, t) \/ ReleaseFails(p, t)
      PROVE  server' = server
  BY <1>8 DEF NotRun, NotReported, CallbackFails, ReleaseFails, world
<1>9. ASSUME NEW p \in Procs, NEW t, RunOutput(p, t)
      PROVE  Finalized(o, server'[o])
  <2>1. t.ref \in OutputRuns BY <1>9, RunOutputRan
  <2>2. PICK applied \in BOOLEAN : RanOutput(t.ref, applied) BY <1>9, RunOutputRan
  <2>3. o # OutputOf(t.ref) BY <2>1, OutputFacts
  <2>4. o = Primary(t.ref) BY <1>1, <2>2, <2>3 DEF RanOutput
  <2>5. QED BY <2>2, <2>4 DEF RanOutput
<1>10. ASSUME NEW p \in Procs, NEW t, RunStatusOf(p, t)
       PROVE  server'[o] # Absent /\ server'[o].finalizers = server[o].finalizers
  BY <1>10, StatusWritten
<1>11. ASSUME NEW p \in Procs, NEW t, CleanUp(p, t)
       PROVE  CleanedUp(o, t.base) /\ BaseFollowed(t.base, cache[o], server[o])
  <2>1. t \in Hands /\ t.do = "cleanup" /\ CleanedUp(t.primary, t.base) BY <1>11, CleanUpCleaned
  <2>2. t.primary = o BY <1>1, <2>1 DEF CleanedUp
  <2>3. QED BY <2>1, <2>2 DEF IInv, BasesFollowed
<1>12. QED BY <1>2, <1>3, <1>4, <1>5, <1>6, <1>7, <1>8, <1>9, <1>10, <1>11, Steps

-----------------------------------------------------------------------------
\* Each step by itself, from the invariant.

\* CallbackBeforeGone.
LEMMA GoneCalled ==
    ASSUME IInv, [Next]_vars, NEW o \in Primaries,
           server[o] # Absent, server'[o] = Absent, server[o].uid \in held
    PROVE  server[o].uid \in called' \cup stripped'
<1>1. Own \in server[o].finalizers \/ server[o].uid \in called \cup stripped
  BY DEF IInv, HeldOrCalled
<1>2. ASSUME NEW y, ByUser(o, y), server'[o] = y PROVE server[o].uid \in called' \cup stripped'
  <2>1. Own \notin server[o].finalizers BY <1>2 DEF ByUser
  <2>2. called' = called /\ stripped' = stripped BY <1>2 DEF ByUser, Outside
  <2>3. QED BY <1>1, <2>1, <2>2
<1>3. ~Finalized(o, server'[o]) BY DEF Finalized
<1>4. ASSUME NEW b, CleanedUp(o, b) PROVE server[o].uid \in called' \cup stripped'
  <2>1. Own \in b.finalizers BY <1>4 DEF CleanedUp, Finished
  <2>2. QED BY <1>4, <2>1 DEF CleanedUp
<1>5. QED BY <1>2, <1>3, <1>4, PrimarySteps

\* ForeignKept.
LEMMA ForeignLeft ==
    ASSUME IInv, [Next]_vars, NEW o \in Primaries,
           IsDeleting(o, cache), server[o] # Absent, Foreign \in server[o].finalizers,
           server'[o] = Absent \/ Foreign \notin server'[o].finalizers
    PROVE  UNCHANGED job \/ server[o].uid \in stripped'
<1>1. server'[o] # server[o] OBVIOUS
<1>2. ASSUME NEW y, ByUser(o, y) PROVE UNCHANGED job BY <1>2 DEF ByUser, Outside, manager
<1>3. ~Finalized(o, server'[o]) BY <1>1 DEF Finalized, IsDeleting
<1>4. ASSUME NEW b, CleanedUp(o, b), BaseFollowed(b, cache[o], server[o])
      PROVE  server[o].uid \in stripped'
  <2>1. /\ Own \in b.finalizers
        /\ server'[o] = Absent => b.finalizers \ {Own} = {}
        /\ server'[o] # Absent => server'[o].finalizers = b.finalizers \ {Own}
    BY <1>1, <1>4 DEF CleanedUp, Finished
  <2>2. Foreign \notin b.finalizers BY <2>1 DEF Own, Foreign
  <2>3. server[o].uid # b.uid BY <1>4, <2>2 DEF BaseFollowed
  <2>4. QED BY <1>4, <2>1, <2>3 DEF CleanedUp
<1>5. QED BY <1>1, <1>2, <1>3, <1>4, PrimarySteps

\* OrphansUnlessUnrecorded.
LEMMA UnclaimedCollected ==
    ASSUME IInv, GcOrphans, NEW o \in Outputs, server[o] # Absent, server'[o] = Absent, Claimed(o)
    PROVE  o \in unrecorded
<1>1. PICK ref \in OutputRuns : OutputOf(ref) = o /\ Active(ref) /\ server[o].owner = cache[Primary(ref)].uid
  BY DEF Claimed
<1>2. o \in lastOutputs[ref] \cup unrecorded BY <1>1 DEF IInv, OnRecord, Made
<1>3. o \notin Wanted BY OutputFacts, <1>1 DEF GcOrphans
<1>4. QED BY <1>2, <1>3 DEF Wanted

-----------------------------------------------------------------------------
\* The theorems.

\* Type correctness: the stores of the API server and the cache hold objects
\* of their type and an object that is being deleted is kept by a finalizer,
\* a queue holds events of its own type, a goroutine that has tasks has one
\* left to do, a record holds nothing but the invocation's own output.
THEOREM TypeCorrect == Spec => []TypeOK
BY Invariant, InvTypes, PTL

\* When every event has been handled, each invocation that the manager would
\* run has its output or its status in place, but for the exceptions that
\* UpToDate names: eventHandler.handle and the tracker have left nothing to
\* the next fullReconcile.
THEOREM NothingLeftBehind == Spec => []UpToDate
BY Invariant, InvUpToDate, PTL

\* runCleanup: a primary that has had the finalizer does not leave before its
\* OnDelete callback has succeeded.
THEOREM CallbackFirst == Spec => CallbackBeforeGone
<1>1. IInv /\ [Next]_vars =>
        [\A o \in Primaries :
            server[o] # Absent /\ server'[o] = Absent /\ server[o].uid \in held
               => server[o].uid \in called' \cup stripped']_vars
  BY GoneCalled
<1>2. QED BY <1>1, Invariant, PTL DEF Spec, CallbackBeforeGone

\* ensureFinalizer and removeFinalizer: no patch of the manager takes another
\* controller's finalizer off a primary that it sees being deleted.
THEOREM OthersFinalizersKept == Spec => ForeignKept
<1>1. IInv /\ [Next]_vars =>
        [\A o \in Primaries :
          (/\ IsDeleting(o, cache) /\ server[o] # Absent /\ server[o].uid = cache[o].uid
           /\ Foreign \in server[o].finalizers
           /\ server'[o] = Absent \/ Foreign \notin server'[o].finalizers)
             => UNCHANGED job \/ server[o].uid \in stripped']_vars
  BY ForeignLeft
<1>2. QED BY <1>1, Invariant, PTL DEF Spec, ForeignKept

\* gcOrphans: the records of the reconcilers name every output that has been
\* made for a primary and is still wanted, so that none of those is deleted.
THEOREM WantedNotCollected == Spec => OrphansUnlessUnrecorded
<1>1. IInv /\ [Next]_vars =>
        [GcOrphans => \A o \in Outputs :
            server[o] # Absent /\ server'[o] = Absent => ~Claimed(o) \/ o \in unrecorded]_vars
  BY UnclaimedCollected
<1>2. QED BY <1>1, Invariant, PTL DEF Spec, OrphansUnlessUnrecorded
=============================================================================
