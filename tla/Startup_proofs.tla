---------------------------- MODULE Startup_proofs ----------------------------
(***************************************************************************)
(* Startup for every set of types, every program that registers and every  *)
(* number of failures: where a watched type waits for its handler, what    *)
(* the IDs tell apart, and that what a late CRD held up has been made up   *)
(* for when everything has been handled.                                   *)
(*                                                                         *)
(* Three invariants, each on top of the one before: IInv accounts for the  *)
(* handlers; Registration for the numbers that reconcilers get and for     *)
(* where they come from; Kinds, Recorded and AllCovered for the runs.      *)
(***************************************************************************)
EXTENDS Startup, SequenceTheorems, FiniteSetTheorems, TLAPS

Call == [form : Forms, primary : GVKs, output : GVKs]

\* A watched type has its one handler, or has none and is to get it.
OneOf(k, waiting) == \/ k \notin waiting /\ handlers[k] = 1
                     \/ k \in waiting /\ handlers[k] = 0

Types ==
    /\ program \in Seq(Call) /\ watchedGVKs \subseteq GVKs
    /\ handlers \in [GVKs -> Nat]
    /\ {"at", "left", "pending", "plan", "started"} \subseteq DOMAIN start
    /\ {"at", "batch", "still", "resolved", "plan"} \subseteq DOMAIN retry
    /\ start.left \cup start.pending \cup pendingWatches \subseteq watchedGVKs
    /\ retry.batch \cup retry.still \subseteq watchedGVKs

\* Where Start is, and what that says about retryPendingWatches.
Phases ==
    /\ start.at \in {"setup", "register", "failed", "reconcile", "collected", "serve"}
    /\ start.at \in {"setup", "register", "failed", "collected"} => ~start.started
    /\ start.at = "serve" => start.started
    /\ start.at # "register" => start.left = {} \/ start.at = "failed"
    /\ ~start.started => retry.at = "none"
    /\ start.started => start.at \in {"reconcile", "serve"}

\* What waits for its handler: on the lists of Start, of the round of
\* retryPendingWatches that is under way, or of the manager.
Waiting == IF ~start.started THEN start.left \cup start.pending
           ELSE IF retry.at = "register" THEN retry.batch \cup retry.still
           ELSE pendingWatches

Accounted ==
    /\ start.at = "setup" => start.pending = {} /\ \A k \in GVKs : handlers[k] = 0
    /\ start.at \notin {"setup", "failed"} => \A k \in watchedGVKs : OneOf(k, Waiting)
    /\ start.at # "failed" => start.left \cap start.pending = {}
    /\ retry.at = "register" => /\ retry.batch \cap retry.still = {}
                                /\ retry.batch \cup retry.still \subseteq pendingWatches

IInv == Types /\ Phases /\ Accounted

-----------------------------------------------------------------------------
LEMMA InitInv == Init => IInv
<1> SUFFICES ASSUME Init
             PROVE  IInv
    OBVIOUS
<1>1. program \in Seq(Call)
    BY ProgramsAssumption DEF Init, Call
<1>2. Types
    BY <1>1 DEF Init, Types, NoRetry
<1>3. Phases /\ Accounted
    BY DEF Init, Phases, Accounted, NoRetry
<1> QED
    BY <1>2, <1>3 DEF IInv

\* The variables that the invariant is about.
Same == UNCHANGED <<program, watchedGVKs, handlers, pendingWatches>>

LEMMA QuietInv ==
    ASSUME IInv, Same, UNCHANGED <<start, retry>>
    PROVE  IInv'
<1>1. Types' /\ Phases'
    BY DEF Same, IInv, Types, Phases
<1>2. Accounted'
    BY DEF Same, IInv, Accounted, OneOf, Waiting
<1> QED
    BY <1>1, <1>2 DEF IInv

LEMMA ClusterInv ==
    ASSUME IInv, NEW k \in GVKs, Serve(k) \/ Create(k) \/ Refresh(k) \/ Handling(k)
    PROVE  IInv'
<1>1. Same /\ UNCHANGED <<start, retry>>
    BY DEF Serve, Create, Refresh, Handling, Handle, Route, RunOne, Same, setup, watches
<1> QED
    BY <1>1, QuietInv

LEMMA RegisterInv ==
    ASSUME IInv, Register
    PROVE  IInv'
<1> DEFINE c == Head(program)
<1>1. /\ start.at = "setup" /\ program \in Seq(Call) /\ program # <<>>
      /\ program' = Tail(program) /\ watchedGVKs' = watchedGVKs \cup {c.primary, c.output}
      /\ UNCHANGED <<start, retry, handlers, pendingWatches>>
    BY DEF Register, Watch, watches, IInv, Types
<1>2. c \in Call /\ program' \in Seq(Call)
    BY <1>1
<1>3. Types'
    BY <1>1, <1>2 DEF IInv, Types, Call
<1>4. Phases' /\ Accounted'
    BY <1>1 DEF IInv, Phases, Accounted
<1> QED
    BY <1>3, <1>4 DEF IInv

LEMMA BeginInv ==
    ASSUME IInv, Begin
    PROVE  IInv'
<1>1. /\ start.at = "setup" /\ start' = [start EXCEPT !.at = "register", !.left = watchedGVKs]
      /\ Same /\ UNCHANGED retry
    BY DEF Begin, setup, watches, Same
<1>2. /\ start'.at = "register" /\ start'.left = watchedGVKs
      /\ start'.pending = start.pending /\ start'.started = start.started
      /\ DOMAIN start' = DOMAIN start
    BY <1>1 DEF IInv, Types
<1>3. Types' /\ Phases'
    BY <1>1, <1>2 DEF Same, IInv, Types, Phases
<1>4. Accounted'
    BY <1>1, <1>2 DEF Same, IInv, Types, Phases, Accounted, OneOf, Waiting
<1> QED
    BY <1>3, <1>4 DEF IInv

LEMMA RegisterWatchInv ==
    ASSUME IInv, NEW k \in GVKs, RegisterWatch(k)
    PROVE  IInv'
<1>1. /\ start.at = "register" /\ k \in start.left /\ ~start.started
      /\ UNCHANGED <<program, watchedGVKs, pendingWatches, retry>>
      /\ start.left \subseteq watchedGVKs /\ OneOf(k, Waiting) /\ handlers \in [GVKs -> Nat]
    BY DEF RegisterWatch, setup, IInv, Types, Phases, Accounted
<1>2. CASE /\ handlers' = [handlers EXCEPT ![k] = @ + 1]
           /\ start' = [start EXCEPT !.left = @ \ {k}]
    <2>1. /\ start'.at = start.at /\ start'.left = start.left \ {k}
          /\ start'.pending = start.pending /\ start'.started = start.started
          /\ DOMAIN start' = DOMAIN start
        BY <1>2 DEF IInv, Types
    <2>2. Types' /\ Phases'
        BY <1>1, <1>2, <2>1 DEF IInv, Types, Phases
    <2>3. handlers'[k] = 1 /\ \A q \in GVKs \ {k} : handlers'[q] = handlers[q]
        BY <1>1, <1>2 DEF OneOf, Waiting
    <2>4. Accounted'
        BY <1>1, <2>1, <2>3 DEF IInv, Types, Accounted, OneOf, Waiting
    <2> QED
        BY <2>2, <2>4 DEF IInv
<1>3. CASE /\ start' = [start EXCEPT !.left = @ \ {k}, !.pending = @ \cup {k}]
           /\ UNCHANGED handlers
    <2>1. /\ start'.at = start.at /\ start'.left = start.left \ {k}
          /\ start'.pending = start.pending \cup {k} /\ start'.started = start.started
          /\ DOMAIN start' = DOMAIN start
        BY <1>3 DEF IInv, Types
    <2>2. Types' /\ Phases'
        BY <1>1, <1>3, <2>1 DEF IInv, Types, Phases
    <2>3. Accounted'
        BY <1>1, <1>3, <2>1 DEF IInv, Types, Accounted, OneOf, Waiting
    <2> QED
        BY <2>2, <2>3 DEF IInv
<1>4. CASE start' = [start EXCEPT !.at = "failed"] /\ UNCHANGED handlers
    <2>1. /\ start'.at = "failed" /\ start'.left = start.left
          /\ start'.pending = start.pending /\ start'.started = start.started
          /\ DOMAIN start' = DOMAIN start
        BY <1>4 DEF IInv, Types
    <2>2. Types' /\ Phases' /\ Accounted'
        BY <1>1, <1>4, <2>1 DEF IInv, Types, Phases, Accounted
    <2> QED
        BY <2>2 DEF IInv
<1> QED
    BY <1>2, <1>3, <1>4 DEF RegisterWatch

\* Start goes on to a step at which nothing changes hands.
LEMMA StartStepInv ==
    ASSUME IInv, Same, UNCHANGED retry, DOMAIN start' = DOMAIN start,
           UNCHANGED <<start.left, start.pending, start.started>>,
           start.at \in {"register", "reconcile", "serve"},
           start.at = "register" => start.left = {},
           \/ start'.at = "reconcile"
           \/ start'.at = (IF start.started THEN "serve" ELSE "collected")
    PROVE  IInv'
<1>1. Types' /\ Phases'
    BY DEF Same, IInv, Types, Phases
<1>2. Accounted'
    BY DEF Same, IInv, Types, Accounted, OneOf, Waiting
<1> QED
    BY <1>1, <1>2 DEF IInv

LEMMA StartInv ==
    ASSUME IInv, CacheSync \/ FullReconcile \/ GcOrphans \/ Resync
    PROVE  IInv'
<1>1. Same /\ UNCHANGED retry /\ {"at", "left", "pending", "plan", "started"} \subseteq DOMAIN start
    BY DEF CacheSync, FullReconcile, GcOrphans, Resync, setup, watches, Same, IInv, Types
<1>2. CASE CacheSync
    BY <1>1, <1>2, StartStepInv DEF CacheSync
<1>3. CASE FullReconcile
    BY <1>1, <1>3, StartStepInv DEF FullReconcile
<1>4. CASE GcOrphans
    BY <1>1, <1>4, StartStepInv DEF GcOrphans
<1>5. CASE Resync
    BY <1>1, <1>5, StartStepInv DEF Resync
<1> QED
    BY <1>2, <1>3, <1>4, <1>5

LEMMA StartRetryInv ==
    ASSUME IInv, StartRetry
    PROVE  IInv'
<1>1. /\ start.at = "collected" /\ start' = [start EXCEPT !.at = "serve", !.started = TRUE]
      /\ pendingWatches' = start.pending
      /\ retry' = IF start.pending = {} THEN retry ELSE [retry EXCEPT !.at = "wait"]
      /\ UNCHANGED <<program, watchedGVKs, handlers>>
    BY DEF StartRetry, setup
<1>2. /\ start'.at = "serve" /\ start'.left = {} /\ start'.pending = start.pending /\ start'.started
      /\ DOMAIN start' = DOMAIN start /\ ~start.started /\ start.left = {} /\ retry.at = "none"
    BY <1>1 DEF IInv, Types, Phases
<1>3. /\ retry'.at \in {"none", "wait"} /\ retry'.batch = retry.batch /\ retry'.still = retry.still
      /\ DOMAIN retry' = DOMAIN retry
    BY <1>1, <1>2 DEF IInv, Types
<1>4. Types' /\ Phases'
    BY <1>1, <1>2, <1>3 DEF IInv, Types, Phases
<1>5. Accounted'
    BY <1>1, <1>2, <1>3 DEF IInv, Accounted, OneOf, Waiting
<1> QED
    BY <1>4, <1>5 DEF IInv

-----------------------------------------------------------------------------
(* retryPendingWatches *)

LEMMA RetryTickInv ==
    ASSUME IInv, RetryTick
    PROVE  IInv'
<1>1. /\ retry.at = "wait" /\ start.started /\ Same /\ UNCHANGED start
      /\ retry' = IF pendingWatches = {} THEN [NoRetry EXCEPT !.at = "done"]
                  ELSE [NoRetry EXCEPT !.at = "register", !.batch = pendingWatches]
    BY DEF RetryTick, setup, watches, Same, IInv, Phases
<1>2. /\ retry'.at \in {"done", "register"} /\ retry'.still = {}
      /\ retry'.batch \in SUBSET pendingWatches
      /\ retry'.at = "register" => retry'.batch = pendingWatches
      /\ DOMAIN retry' = {"at", "batch", "still", "resolved", "plan"}
    BY <1>1 DEF NoRetry
<1>3. Types' /\ Phases'
    BY <1>1, <1>2 DEF Same, IInv, Types, Phases
<1>4. Accounted'
    BY <1>1, <1>2 DEF Same, IInv, Accounted, OneOf, Waiting
<1> QED
    BY <1>3, <1>4 DEF IInv

\* One type of the round gets its handler or stays on the list.
LEMMA RetryWatchInv ==
    ASSUME IInv, NEW k \in GVKs, RetryWatch(k)
    PROVE  IInv'
<1>1. /\ retry.at = "register" /\ k \in retry.batch /\ start.started
      /\ UNCHANGED <<program, watchedGVKs, pendingWatches, start>>
      /\ retry.batch \subseteq watchedGVKs /\ k \notin retry.still /\ OneOf(k, Waiting)
      /\ handlers \in [GVKs -> Nat] /\ start.at \notin {"setup", "failed"}
    BY DEF RetryWatch, setup, IInv, Types, Phases, Accounted
<1>2. CASE /\ handlers' = [handlers EXCEPT ![k] = @ + 1]
           /\ retry' = [retry EXCEPT !.batch = @ \ {k}, !.resolved = TRUE]
    <2>1. /\ retry'.at = "register" /\ retry'.batch = retry.batch \ {k}
          /\ retry'.still = retry.still /\ DOMAIN retry' = DOMAIN retry
        BY <1>1, <1>2 DEF IInv, Types
    <2>2. handlers'[k] = 1 /\ \A q \in GVKs \ {k} : handlers'[q] = handlers[q]
        BY <1>1, <1>2 DEF OneOf, Waiting
    <2>3. Types' /\ Phases'
        BY <1>1, <1>2, <2>1 DEF IInv, Types, Phases
    <2>4. Accounted'
        BY <1>1, <2>1, <2>2 DEF IInv, Types, Accounted, OneOf, Waiting
    <2> QED
        BY <2>3, <2>4 DEF IInv
<1>3. CASE /\ UNCHANGED handlers
           /\ retry' = [retry EXCEPT !.batch = @ \ {k}, !.still = retry.still \cup {k}]
    <2>1. /\ retry'.at = "register" /\ retry'.batch = retry.batch \ {k}
          /\ retry'.still = retry.still \cup {k} /\ DOMAIN retry' = DOMAIN retry
        BY <1>1, <1>3 DEF IInv, Types
    <2>2. Types' /\ Phases'
        BY <1>1, <1>3, <2>1 DEF IInv, Types, Phases
    <2>3. Accounted'
        BY <1>1, <1>3, <2>1 DEF IInv, Types, Accounted, OneOf, Waiting
    <2> QED
        BY <2>2, <2>3 DEF IInv
<1> QED
    BY <1>2, <1>3 DEF RetryWatch, AddHandler, StillPending

LEMMA RetryRoundInv ==
    ASSUME IInv, RetryRound
    PROVE  IInv'
<1>1. /\ retry.at = "register" /\ retry.batch = {} /\ pendingWatches' = retry.still /\ start.started
      /\ UNCHANGED <<program, watchedGVKs, handlers, start>>
      /\ \/ retry' = [NoRetry EXCEPT !.at = "wait"]
         \/ retry' = [NoRetry EXCEPT !.at = "reconcile", !.plan = Reconcilers]
    BY DEF RetryRound, Resolved, setup, IInv, Phases
<1>2. /\ retry'.at # "register" /\ retry'.batch = {} /\ retry'.still = {}
      /\ DOMAIN retry' = {"at", "batch", "still", "resolved", "plan"}
    <2>1. CASE retry' = [NoRetry EXCEPT !.at = "wait"]
        BY <2>1 DEF NoRetry
    <2>2. CASE retry' = [NoRetry EXCEPT !.at = "reconcile", !.plan = Reconcilers]
        BY <2>2 DEF NoRetry
    <2> QED
        BY <1>1, <2>1, <2>2
<1>3. Types' /\ Phases'
    BY <1>1, <1>2 DEF IInv, Types, Phases
<1>4. Accounted'
    BY <1>1, <1>2 DEF IInv, Phases, Accounted, OneOf, Waiting
<1> QED
    BY <1>3, <1>4 DEF IInv

LEMMA RetryReconcileInv ==
    ASSUME IInv, RetryReconcile
    PROVE  IInv'
<1>1. /\ retry.at = "reconcile" /\ Same /\ UNCHANGED start
      /\ \/ retry' = [retry EXCEPT !.at = "wait"]
         \/ retry' = [retry EXCEPT !.plan = Tail(@)]
    BY DEF RetryReconcile, setup, watches, Same
<1>2. /\ retry'.at \in {"wait", "reconcile"} /\ retry'.batch = retry.batch
      /\ retry'.still = retry.still /\ DOMAIN retry' = DOMAIN retry
    BY <1>1 DEF IInv, Types
<1>3. Types' /\ Phases'
    BY <1>1, <1>2 DEF Same, IInv, Types, Phases
<1>4. Accounted'
    BY <1>1, <1>2 DEF Same, IInv, Accounted, OneOf, Waiting
<1> QED
    BY <1>3, <1>4 DEF IInv

-----------------------------------------------------------------------------
(* The first of them *)

LEMMA NextInv == IInv /\ [Next]_vars => IInv'
<1> SUFFICES ASSUME IInv, [Next]_vars
             PROVE  IInv'
    OBVIOUS
<1>1. CASE Starting
    BY <1>1, BeginInv, RegisterWatchInv, StartInv, StartRetryInv DEF Starting
<1>2. CASE Retrying
    BY <1>2, RetryTickInv, RetryWatchInv, RetryRoundInv, RetryReconcileInv DEF Retrying
<1>3. CASE Register \/ Resync \/ \E k \in GVKs : Serve(k) \/ Create(k) \/ Refresh(k) \/ Handling(k)
    BY <1>3, RegisterInv, StartInv, ClusterInv
<1>4. CASE UNCHANGED vars
    BY <1>4, QuietInv DEF vars, setup, watches, Same
<1> QED
    BY <1>1, <1>2, <1>3, <1>4 DEF Next

LEMMA Invariant == Spec => []IInv
    BY InitInv, NextInv, PTL DEF Spec

\* Once Start has handed over, every watched type has its one event handler
\* or is among the pending ones, however many types and calls that fail there
\* are.
THEOREM OneHandlerEach == Spec => []WatchedOnce
<1>1. IInv => WatchedOnce
    <2> SUFFICES ASSUME IInv, start.started, NEW k \in watchedGVKs
                 PROVE  handlers[k] = 1 \/ (handlers[k] = 0 /\ k \in pendingWatches)
        BY DEF WatchedOnce
    <2>1. OneOf(k, Waiting)
        BY DEF IInv, Phases, Accounted
    <2> QED
        BY <2>1 DEF IInv, Accounted, OneOf, Waiting
<1> QED
    BY <1>1, Invariant, PTL
-----------------------------------------------------------------------------
(* Registration *)

Entry == [form : Forms, primary : GVKs, output : GVKs, nth : Nat]
SameTypes(r, s) == r.primary = s.primary /\ r.output = s.output

\* The reconcilers of a list that have the same types have different numbers,
\* which go up to how many there are.
WellNumbered(q, list) ==
    /\ list \in Seq(Entry)
    /\ \A i \in DOMAIN list :
          /\ Registry(list[i].form) = q /\ list[i].nth \in 1 .. Count(list[i], list)
          /\ \A j \in DOMAIN list : i # j /\ SameTypes(list[j], list[i]) => list[j].nth # list[i].nth
Numbered == DOMAIN registered = Registries /\ \A q \in Registries : WellNumbered(q, registered[q])

\* The calls that have been made are the first d of p.
Made(p, d, list) ==
    /\ Len(list) = Cardinality({i \in 1 .. d : IsMaker(p[i])})
    /\ \A i \in DOMAIN list : \E c \in 1 .. d :
          IsMaker(p[c]) /\ list[i] = Number(p[c], list[i].nth)
Follows(p, d) == Len(program) = Len(p) - d /\ \A i \in 1 .. Len(program) : program[i] = p[d + i]
Carried == \E p \in Programs : \E d \in 0 .. Len(p) : Follows(p, d) /\ Made(p, d, Reconcilers)

Registration == Numbered /\ Carried

LEMMA RegistryOf ==
    ASSUME NEW form \in Forms
    PROVE  Registry(form) \in Registries
<1>1. CASE form \in {"->", "->[]"} BY <1>1 DEF Registry, Registries
<1>2. CASE form \in {"~>", "~>[]"} BY <1>2 DEF Registry, Registries
<1>3. CASE form = "status" BY <1>3 DEF Registry, Registries
<1> QED
    BY <1>1, <1>2, <1>3 DEF Forms

LEMMA CountBounds ==
    ASSUME NEW c, NEW list \in Seq(Entry)
    PROVE  /\ IsFiniteSet({i \in DOMAIN list : list[i].primary = c.primary /\ list[i].output = c.output})
           /\ Count(c, list) \in 0 .. Len(list)
<1> DEFINE S == {i \in DOMAIN list : list[i].primary = c.primary /\ list[i].output = c.output}
<1>1. IsFiniteSet(1 .. Len(list)) /\ Cardinality(1 .. Len(list)) = Len(list)
    <2>1. Len(list) \in Nat /\ 1 \in Int /\ Len(list) \in Int
        OBVIOUS
    <2>2. /\ IsFiniteSet(1 .. Len(list))
          /\ Cardinality(1 .. Len(list)) = IF 1 > Len(list) THEN 0 ELSE Len(list) - 1 + 1
        BY <2>1, FS_Interval
    <2> QED
        BY <2>1, <2>2
<1>2. S \subseteq 1 .. Len(list)
    OBVIOUS
<1>3. IsFiniteSet(S) /\ Cardinality(S) <= Len(list)
    BY <1>1, <1>2, FS_Subset
<1>4. Cardinality(S) \in Nat
    BY <1>3, FS_CardinalityType
<1> QED
    BY <1>3, <1>4 DEF Count

LEMMA CountType ==
    ASSUME NEW c, NEW list \in Seq(Entry)
    PROVE  Count(c, list) \in Nat /\ Count(c, list) <= Len(list)
<1>1. Count(c, list) \in 0 .. Len(list)
    BY CountBounds
<1>2. Len(list) \in Nat
    OBVIOUS
<1> QED
    BY <1>1, <1>2

LEMMA CountAppend ==
    ASSUME NEW c, NEW list \in Seq(Entry), NEW e \in Entry
    PROVE  Count(c, Append(list, e)) = IF SameTypes(e, c) THEN Count(c, list) + 1 ELSE Count(c, list)
<1> DEFINE S == {i \in DOMAIN list : list[i].primary = c.primary /\ list[i].output = c.output}
           more == Append(list, e)
           T == {i \in DOMAIN more : more[i].primary = c.primary /\ more[i].output = c.output}
           n == Len(list) + 1
<1>1. /\ DOMAIN more = 1 .. n /\ more[n] = e /\ DOMAIN list = 1 .. Len(list) /\ n \notin DOMAIN list
      /\ \A i \in DOMAIN list : more[i] = list[i]
    OBVIOUS
<1>2. T = IF SameTypes(e, c) THEN S \cup {n} ELSE S
    BY <1>1 DEF SameTypes
<1>3. IsFiniteSet(S) /\ n \notin S
    BY <1>1, CountBounds
<1>4. Cardinality(S \cup {n}) = Cardinality(S) + 1
    BY <1>3, FS_AddElement
<1> QED
    BY <1>2, <1>4 DEF Count

LEMMA NumberedAppend ==
    ASSUME NEW q, NEW list, WellNumbered(q, list), NEW c \in Call, Registry(c.form) = q,
           NEW e, e = Number(c, 1 + Count(c, list))
    PROVE  WellNumbered(q, Append(list, e))
<1> DEFINE more == Append(list, e)
           n == Len(list) + 1
<1>1. list \in Seq(Entry) /\ Count(c, list) \in Nat
    <2>1. list \in Seq(Entry)
        BY DEF WellNumbered
    <2>2. Count(c, list) \in Nat
        BY <2>1, CountType
    <2> QED
        BY <2>1, <2>2
<1>2. /\ e \in Entry /\ e.form = c.form /\ e.nth = 1 + Count(c, list)
      /\ e.primary = c.primary /\ e.output = c.output
    BY <1>1 DEF Number, Call, Entry
<1>3. /\ DOMAIN more = 1 .. n /\ more[n] = e /\ DOMAIN list = 1 .. Len(list) /\ more \in Seq(Entry)
      /\ \A i \in DOMAIN list : more[i] = list[i]
    BY <1>1, <1>2
<1>4. \A r : SameTypes(e, r) => Count(r, list) = Count(c, list)
    BY <1>2 DEF SameTypes, Count
<1>5. ASSUME NEW r
      PROVE  /\ Count(r, list) \in Nat
             /\ Count(r, more) = IF SameTypes(e, r) THEN Count(r, list) + 1 ELSE Count(r, list)
    <2>1. Count(r, list) \in Nat
        BY <1>1, CountType
    <2>2. Count(r, more) = IF SameTypes(e, r) THEN Count(r, list) + 1 ELSE Count(r, list)
        BY <1>1, <1>2, CountAppend
    <2> QED
        BY <2>1, <2>2
<1> HIDE DEF more, n
<1>6. ASSUME NEW i \in DOMAIN list
      PROVE  /\ Registry(list[i].form) = q /\ list[i].nth \in 1 .. Count(list[i], more)
             /\ \A j \in DOMAIN list : i # j /\ SameTypes(list[j], list[i]) => list[j].nth # list[i].nth
             /\ SameTypes(e, list[i]) => e.nth # list[i].nth
    <2>1. list[i].nth \in 1 .. Count(list[i], list)
        BY DEF WellNumbered
    <2>2. SameTypes(e, list[i]) => e.nth = 1 + Count(list[i], list)
        BY <1>2, <1>4
    <2> QED
        BY <1>5, <2>1, <2>2 DEF WellNumbered
<1>7. Registry(e.form) = q /\ e.nth \in 1 .. Count(e, more)
    <2>1. Count(e, more) = Count(c, list) + 1
        BY <1>4, <1>5 DEF SameTypes
    <2> QED
        BY <1>1, <1>2, <2>1
<1>8. \A r, s : SameTypes(r, s) <=> SameTypes(s, r)
    BY DEF SameTypes
<1>9. \A i \in DOMAIN more : i = n \/ i \in DOMAIN list
    BY <1>1, <1>3 DEF n
<1>10. n \notin DOMAIN list
    BY <1>1, <1>3 DEF n
<1>11. ASSUME NEW i \in DOMAIN more
       PROVE  /\ Registry(more[i].form) = q /\ more[i].nth \in 1 .. Count(more[i], more)
              /\ \A j \in DOMAIN more : i # j /\ SameTypes(more[j], more[i]) => more[j].nth # more[i].nth
    <2>1. CASE i = n
        BY <1>3, <1>6, <1>7, <1>8, <1>9, <1>10, <2>1
    <2>2. CASE i \in DOMAIN list
        BY <1>3, <1>6, <1>9, <1>10, <2>2
    <2> QED
        BY <1>9, <2>1, <2>2
<1> QED
    BY <1>3, <1>11 DEF WellNumbered, more

LEMMA MadeAppend ==
    ASSUME NEW p \in Programs, NEW d \in 0 .. Len(p) - 1, NEW list \in Seq(Entry), Made(p, d, list), NEW n \in Nat
    PROVE  /\ IsMaker(p[d + 1]) => Made(p, d + 1, Append(list, Number(p[d + 1], n)))
           /\ ~IsMaker(p[d + 1]) => Made(p, d + 1, list)
<1> DEFINE S == {i \in 1 .. d : IsMaker(p[i])}
           T == {i \in 1 .. d + 1 : IsMaker(p[i])}
           e == Number(p[d + 1], n)
           more == Append(list, e)
<1>1. d \in Nat /\ d + 1 \in Nat
    <2>1. p \in Seq(Call)
        BY ProgramsAssumption DEF Call
    <2> QED
        BY <2>1
<1>2. IsFiniteSet(S) /\ d + 1 \notin S
    <2>1. IsFiniteSet(1 .. d)
        BY <1>1, FS_Interval
    <2> QED
        BY <1>1, <2>1, FS_Subset
<1>3. Cardinality(S \cup {d + 1}) = Cardinality(S) + 1
    BY <1>2, FS_AddElement
<1>4. ASSUME IsMaker(p[d + 1])
      PROVE  Made(p, d + 1, more)
    <2>1. T = S \cup {d + 1}
        BY <1>1, <1>4
    <2>2. e.nth = n /\ e = Number(p[d + 1], e.nth)
        BY DEF Number
    <2>3. /\ DOMAIN more = 1 .. Len(list) + 1 /\ more[Len(list) + 1] = e /\ Len(more) = Len(list) + 1
          /\ DOMAIN list = 1 .. Len(list) /\ \A i \in DOMAIN list : more[i] = list[i]
        OBVIOUS
    <2> HIDE DEF e, more
    <2>4. Len(more) = Cardinality(T)
        BY <1>3, <2>1, <2>3 DEF Made
    <2>5. \A i \in DOMAIN list : \E c \in 1 .. d + 1 :
             IsMaker(p[c]) /\ list[i] = Number(p[c], list[i].nth)
        BY <1>1 DEF Made
    <2>6. \A i \in DOMAIN more : i = Len(list) + 1 \/ i \in DOMAIN list
        BY <2>3
    <2>7. d + 1 \in 1 .. d + 1
        BY <1>1
    <2>8. \A i \in DOMAIN more : \E c \in 1 .. d + 1 :
             IsMaker(p[c]) /\ more[i] = Number(p[c], more[i].nth)
        BY <1>4, <2>2, <2>3, <2>5, <2>6, <2>7
    <2> QED
        BY <2>4, <2>8 DEF Made
<1>5. ASSUME ~IsMaker(p[d + 1])
      PROVE  Made(p, d + 1, list)
    <2>1. T = S
        BY <1>1, <1>5
    <2> QED
        BY <1>1, <2>1 DEF Made
<1> QED
    BY <1>4, <1>5
LEMMA RegistrationInit == Init => Registration
<1> SUFFICES ASSUME Init
             PROVE  Registration
    OBVIOUS
<1>1. program \in Programs /\ registered = [q \in Registries |-> <<>>]
    BY DEF Init
<1>2. \A q \in Registries : registered[q] \in Seq(Entry) /\ DOMAIN registered[q] = {}
    BY <1>1
<1>3. Numbered
    BY <1>1, <1>2 DEF Numbered, WellNumbered
<1>4. Follows(program, 0)
    BY <1>1, ProgramsAssumption DEF Follows
<1>5. Made(program, 0, Reconcilers)
    <2>1. Reconcilers = <<>>
        BY <1>1 DEF Reconcilers, Registries
    <2>2. {i \in 1 .. 0 : IsMaker(program[i])} = {}
        OBVIOUS
    <2>3. Cardinality({}) = 0
        BY FS_EmptySet
    <2> QED
        BY <2>1, <2>2, <2>3 DEF Made
<1>6. 0 \in 0 .. Len(program)
    BY <1>1, ProgramsAssumption
<1> QED
    BY <1>1, <1>3, <1>4, <1>5, <1>6 DEF Registration, Carried

LEMMA RegistrationInv ==
    ASSUME IInv, Registration, Register
    PROVE  Registration'
<1> DEFINE c == Head(program)
           q == Registry(c.form)
           list == registered[q]
           e == Number(c, 1 + Count(c, list))
<1>1. /\ program # <<>> /\ program' = Tail(program)
      /\ registered' = [registered EXCEPT ![q] = Append(list, e)]
    BY DEF Register
<1>2. program \in Seq(Call) /\ c \in Call
    BY <1>1 DEF IInv, Types
<1>3. q \in Registries
    BY <1>2, RegistryOf DEF Call
<1>4. /\ DOMAIN registered' = Registries /\ registered'[q] = Append(list, e)
      /\ \A p \in Registries \ {q} : registered'[p] = registered[p]
    BY <1>1, <1>3 DEF Registration, Numbered
<1>5. WellNumbered(q, list) /\ list \in Seq(Entry)
    BY <1>3 DEF Registration, Numbered, WellNumbered
<1>6. WellNumbered(q, Append(list, e))
    BY <1>2, <1>5, NumberedAppend
<1>7. Numbered'
    BY <1>4, <1>6 DEF Registration, Numbered
<1>a. PICK p \in Programs : \E d \in 0 .. Len(p) : Follows(p, d) /\ Made(p, d, Reconcilers)
    BY DEF Registration, Carried
<1>8. PICK d \in 0 .. Len(p) : Follows(p, d) /\ Made(p, d, Reconcilers)
    BY <1>a
<1>9. p \in Seq(Call) /\ Len(program) \in Nat \ {0} /\ Len(program) = Len(p) - d
    BY <1>1, <1>2, <1>8, ProgramsAssumption DEF Call, Follows
<1>10. d \in 0 .. Len(p) - 1 /\ d + 1 \in 0 .. Len(p) /\ c = p[d + 1]
    <2>1. c = program[1] /\ 1 \in 1 .. Len(program)
        BY <1>1, <1>2, <1>9
    <2>2. program[1] = p[d + 1]
        BY <1>8, <2>1 DEF Follows
    <2>3. Len(p) \in Nat
        BY <1>9
    <2> QED
        BY <1>9, <2>1, <2>2, <2>3
<1>11. Follows(p, d + 1)'
    <2>1. /\ Len(program') = Len(program) - 1
          /\ \A i \in 1 .. Len(program') : program'[i] = program[i + 1] /\ i + 1 \in 1 .. Len(program)
        BY <1>1, <1>2, <1>9
    <2>2. \A i \in 1 .. Len(program') : program'[i] = p[d + (i + 1)]
        BY <1>8, <2>1 DEF Follows
    <2>3. \A i \in 1 .. Len(program') : d + (i + 1) = (d + 1) + i
        BY <1>10
    <2> QED
        BY <1>9, <1>10, <2>1, <2>2, <2>3 DEF Follows
<1>12. Made(p, d + 1, Reconcilers')
    <2>1. 1 + Count(c, list) \in Nat
        BY <1>5, CountType
    <2>2. CASE IsMaker(c)
        <3>1. q = "outputs"
            BY <2>2 DEF IsMaker
        <3>2. Reconcilers = list /\ Reconcilers' = Append(list, e)
            BY <1>4, <3>1 DEF Reconcilers
        <3> QED
            BY <1>5, <1>8, <1>10, <2>1, <2>2, <3>2, MadeAppend
    <2>3. CASE ~IsMaker(c)
        <3>1. q # "outputs" /\ "outputs" \in Registries
            BY <2>3 DEF IsMaker, Registries
        <3>2. Reconcilers' = Reconcilers /\ Reconcilers \in Seq(Entry)
            BY <1>4, <3>1 DEF Reconcilers, Registration, Numbered, WellNumbered
        <3> QED
            BY <1>8, <1>10, <2>1, <2>3, <3>2, MadeAppend
    <2> QED
        BY <2>2, <2>3
<1>13. Carried'
    BY <1>10, <1>11, <1>12 DEF Carried
<1> QED
    BY <1>7, <1>13 DEF Registration

\* The records have a place for every reconciler.
LEMMA AllMakers ==
    ASSUME Registration
    PROVE  RangeOf(Reconcilers) \subseteq Makers
<1>1. WellNumbered("outputs", Reconcilers) /\ Reconcilers \in Seq(Entry)
    BY DEF Registration, Numbered, Reconcilers, Registries, WellNumbered
<1>a. PICK p \in Programs : \E d \in 0 .. Len(p) : Made(p, d, Reconcilers)
    BY DEF Registration, Carried
<1>2. PICK d \in 0 .. Len(p) : Made(p, d, Reconcilers)
    BY <1>a
<1>3. p \in Seq(Call)
    BY ProgramsAssumption DEF Call
<1> DEFINE makers == {i \in DOMAIN p : IsMaker(p[i])}
           done == {i \in 1 .. d : IsMaker(p[i])}
<1>4. Cardinality(done) <= Cardinality(makers) /\ Cardinality(makers) \in Nat
    <2>1. Len(p) \in Nat /\ DOMAIN p = 1 .. Len(p) /\ done \subseteq makers
        BY <1>3
    <2>2. IsFiniteSet(1 .. Len(p))
        BY <2>1, FS_Interval
    <2>3. IsFiniteSet(makers)
        BY <2>1, <2>2, FS_Subset
    <2>4. Cardinality(done) <= Cardinality(makers)
        BY <2>1, <2>3, FS_Subset
    <2> QED
        BY <2>3, <2>4, FS_CardinalityType
<1> SUFFICES ASSUME NEW i \in DOMAIN Reconcilers
             PROVE  Reconcilers[i] \in Makers
    BY DEF RangeOf
<1> DEFINE r == Reconcilers[i]
<1>5. PICK c \in 1 .. d : IsMaker(p[c]) /\ r = Number(p[c], r.nth)
    BY <1>2 DEF Made
<1>6. c \in makers
    BY <1>3, <1>5
<1>7. r.nth \in 1 .. Cardinality(makers)
    <2>1. r.nth \in 1 .. Count(r, Reconcilers)
        BY <1>1 DEF WellNumbered
    <2>2. Count(r, Reconcilers) \in Nat /\ Count(r, Reconcilers) <= Cardinality(done)
        BY <1>1, <1>2, CountType DEF Made
    <2>3. Cardinality(done) \in Nat
        BY <1>1, <1>2 DEF Made
    <2> QED
        BY <1>4, <2>1, <2>2, <2>3
<1> HIDE DEF r, makers
<1>8. r \in {Number(p[j], n) : j \in makers, n \in 1 .. Cardinality(makers)}
    BY <1>5, <1>6, <1>7
<1> USE DEF makers
<1>9. r \in Makers
    BY <1>8 DEF Makers
<1> QED
    BY <1>9 DEF r

LEMMA RegistrationApart == Registration => IDsApart
<1> SUFFICES ASSUME Registration,
                    NEW q \in Registries, NEW p \in Registries,
                    NEW i \in DOMAIN registered[q], NEW j \in DOMAIN registered[p],
                    <<q, i>> # <<p, j>>, ID(registered[q][i]) = ID(registered[p][j])
             PROVE  ~SameTypes(registered[q][i], registered[p][j])
    BY DEF IDsApart, SameTypes
<1>1. registered[q][i].form = registered[p][j].form /\ registered[q][i].nth = registered[p][j].nth
    BY DEF ID
<1>2. q = p
    BY <1>1 DEF Registration, Numbered, WellNumbered
<1> QED
    BY <1>1, <1>2 DEF Registration, Numbered, WellNumbered
-----------------------------------------------------------------------------
(* Runs, records and what is left to do *)

JobOK(j) == /\ j \in [at : {"idle", "own", "routed"}, todo : SUBSET RangeOf(Reconcilers)]
            /\ j.at = "idle" => j = Idle

\* Until the cache has synced nothing is handled or run.
Unsynced == start.at \in {"setup", "register", "failed"}

Kinds ==
    /\ cached \subseteq exists \cap informers /\ exists \cup informers \subseteq served /\ served \subseteq GVKs
    /\ events \subseteq informers /\ \A k \in GVKs : handlers[k] > 0 => k \in informers
    /\ made \in [Makers -> {"absent", "partial", "full"}]
    /\ DOMAIN lastOutputs = IDs
    /\ \A id \in IDs : lastOutputs[id] \subseteq {r \in RangeOf(Reconcilers) : ID(r) = id}
    /\ ran \subseteq RangeOf(Reconcilers)
    /\ start.plan \in Seq(RangeOf(Reconcilers)) /\ retry.plan \in Seq(RangeOf(Reconcilers))
    /\ DOMAIN job = GVKs /\ \A k \in GVKs : JobOK(job[k])
    /\ failures \in Nat
    /\ start.at # "reconcile" => start.plan = <<>>
    /\ retry.at # "reconcile" => retry.plan = <<>>
    /\ Unsynced => events = {} /\ ran = {} /\ \A k \in GVKs : job[k] = Idle

\* A reconciler that has been run has its output on record.
Recorded == \A r \in ran : ~Collides(r) => r \in lastOutputs[ID(r)]

\* Each type that r has to do with has its handler.
Reached(r) == \A k \in {r.primary, r.output} \cup Fetched(r) : handlers[k] > 0

\* r will be run: by a full reconcile that is under way or will follow the
\* round of retryPendingWatches, or by the handler of its primary.
ToRun(r) ==
    \/ r \in RangeOf(start.plan) \/ r \in RangeOf(retry.plan)
    \/ retry.at = "register" /\ retry.resolved
    \/ r.primary \in events \/ \E k \in GVKs : r \in job[k].todo

\* The tracker will be asked who has fetched what r has.
ToRoute(r) == r \in ran /\ \E x \in Fetched(r) : x \in events \/ job[x].at = "own"

\* What it made is what the cache calls for.
Fresh(r)   == r \in ran /\ made[r] = IF Fetched(r) \subseteq cached THEN "full" ELSE "partial"
Covered(r) == Reached(r) /\ r.primary \in cached => ToRun(r) \/ ToRoute(r) \/ Fresh(r)
AllCovered ==
    failures = 0 /\ ~Unsynced => \A r \in RangeOf(Reconcilers) : Collides(r) \/ Covered(r)

Inv == IInv /\ Registration /\ Kinds /\ Recorded /\ AllCovered

LEMMA ReconcilerTypes ==
    ASSUME Registration, NEW r \in RangeOf(Reconcilers)
    PROVE  /\ r \in Makers /\ ID(r) \in IDs
           /\ r.primary \in GVKs /\ r.output \in GVKs /\ Fetched(r) \subseteq GVKs
<1>1. r \in Makers
    BY AllMakers
<1>2. r \in Entry
    BY DEF RangeOf, Registration, Numbered, WellNumbered, Reconcilers, Registries
<1> QED
    BY <1>1, <1>2, FetchedAssumption DEF IDs, Entry

\* The types that a reconciler has to do with have an informer.
LEMMA ReachedInformed ==
    ASSUME Registration, Kinds, NEW r \in RangeOf(Reconcilers), Reached(r)
    PROVE  {r.primary, r.output} \cup Fetched(r) \subseteq informers
BY ReconcilerTypes DEF Reached, Kinds

\* Two reconcilers of one ID collide.
LEMMA SameID ==
    ASSUME NEW r \in RangeOf(Reconcilers), NEW s \in RangeOf(Reconcilers), r # s, ID(r) = ID(s)
    PROVE  Collides(r)
BY DEF RangeOf, Collides

-----------------------------------------------------------------------------
(* A run *)

\* The informers that are started, and what the cache shows with them.
HasRead ==
    /\ informers \subseteq informers' /\ informers' \subseteq served
    /\ cached \subseteq cached' /\ cached' \subseteq exists \cap informers'
    /\ \A k \in informers : k \in cached' => k \in cached

\* What r may have done: made its own output, and deleted that of others that
\* have its ID.
HasRun(r) ==
    /\ failures' \in Nat /\ (failures' = 0 => failures = 0)
    /\ made' \in [Makers -> {"absent", "partial", "full"}]
    /\ ran \subseteq ran' /\ ran' \subseteq ran \cup {r}
    /\ DOMAIN lastOutputs' = IDs
    /\ \A id \in IDs : lastOutputs'[id] \subseteq {s \in RangeOf(Reconcilers) : ID(s) = id}
    /\ \A s \in ran' : ~Collides(s) => s \in lastOutputs'[ID(s)]
    /\ \A s \in RangeOf(Reconcilers) : s # r /\ ~Collides(s) => made'[s] = made[s]

IsFresh(r) == r \in ran' /\ made'[r] = IF Fetched(r) \subseteq cached' THEN "full" ELSE "partial"

Tried(r) ==
    /\ HasRead /\ HasRun(r)
    /\ failures' = 0 /\ Reached(r) /\ r.primary \in cached' => IsFresh(r)

LEMMA ReadsRead ==
    ASSUME Kinds, NEW ks, Reads(ks)
    PROVE  HasRead
BY DEF Reads, HasRead, Kinds

LEMMA NotRunRuns ==
    ASSUME Inv, NEW r, NotRun
    PROVE  HasRun(r) /\ failures' = failures
BY DEF NotRun, HasRun, Inv, Kinds, Recorded

LEMMA RunRuns ==
    ASSUME Inv, NEW r \in RangeOf(Reconcilers), NEW applied \in BOOLEAN, Run(r, applied)
    PROVE  /\ HasRun(r)
           /\ failures' = 0 /\ Reached(r) => IsFresh(r)
<1>1. r \in Makers /\ ID(r) \in IDs
    BY ReconcilerTypes DEF Inv
<1>2. /\ lastOutputs' = [lastOutputs EXCEPT ![ID(r)] = {r}] /\ ran' = ran \cup {r}
      /\ IF applied THEN failures' = failures ELSE failures' = failures + 1
    BY DEF Run, Failure
<1>3. failures \in Nat /\ failures' \in Nat /\ (failures' = 0 => failures = 0 /\ applied)
    BY <1>2 DEF Inv, Kinds
<1>4. ASSUME NEW m \in Makers
      PROVE  /\ m = r /\ applied /\ r.output \in served
                   => made'[m] = IF Fetched(r) \subseteq cached' THEN "full" ELSE "partial"
             /\ m \in lastOutputs[ID(r)] \ {r} => made'[m] = "absent"
             /\ ~(m = r /\ applied /\ r.output \in served) /\ m \notin lastOutputs[ID(r)] \ {r} => made'[m] = made[m]
    BY DEF Run
<1>5. made' \in [Makers -> {"absent", "partial", "full"}]
    <2>1. made' = [m \in Makers |-> made'[m]]
        BY DEF Run
    <2>2. \A m \in Makers : made'[m] \in {"absent", "partial", "full"}
        BY <1>4 DEF Inv, Kinds
    <2> QED
        BY <2>1, <2>2
<1>6. /\ DOMAIN lastOutputs' = IDs /\ lastOutputs'[ID(r)] = {r}
      /\ \A id \in IDs \ {ID(r)} : lastOutputs'[id] = lastOutputs[id]
    BY <1>1, <1>2 DEF Inv, Kinds
<1>7. \A id \in IDs : lastOutputs'[id] \subseteq {s \in RangeOf(Reconcilers) : ID(s) = id}
    BY <1>6 DEF Inv, Kinds
<1>8. ASSUME NEW s \in ran', ~Collides(s)
      PROVE  s \in lastOutputs'[ID(s)]
    <2>1. CASE s = r
        BY <1>6, <2>1
    <2>2. CASE s # r
        <3>1. s \in ran /\ s \in RangeOf(Reconcilers)
            BY <1>2, <2>2 DEF Inv, Kinds
        <3>2. ID(s) # ID(r) /\ ID(s) \in IDs
            BY <1>8, <2>2, <3>1, SameID, ReconcilerTypes DEF Inv
        <3> QED
            BY <1>6, <1>8, <3>1, <3>2 DEF Inv, Recorded
    <2> QED
        BY <2>1, <2>2
<1>9. ASSUME NEW s \in RangeOf(Reconcilers), s # r, ~Collides(s)
      PROVE  made'[s] = made[s]
    <2>1. s \in Makers /\ ID(s) # ID(r)
        BY <1>9, SameID, ReconcilerTypes DEF Inv
    <2>2. s \notin lastOutputs[ID(r)]
        BY <1>1, <2>1 DEF Inv, Kinds
    <2> QED
        BY <1>4, <1>9, <2>1, <2>2
<1>10. ASSUME failures' = 0, Reached(r)
       PROVE  IsFresh(r)
    <2>1. applied /\ r.output \in served
        BY <1>3, <1>10, ReachedInformed DEF Inv, Kinds
    <2> QED
        BY <1>1, <1>2, <1>4, <2>1 DEF IsFresh
<1> QED
    BY <1>2, <1>3, <1>5, <1>6, <1>7, <1>8, <1>9, <1>10 DEF HasRun

LEMMA ReconcileOneTried ==
    ASSUME Inv, NEW r \in RangeOf(Reconcilers), ReconcileOne(r)
    PROVE  Tried(r)
<1>1. CASE r.primary \notin served /\ NotRun /\ UNCHANGED store
    <2>1. HasRead
        BY <1>1 DEF store, HasRead, Inv, Kinds
    <2>2. r.primary \notin cached'
        BY <1>1 DEF store, Inv, Kinds
    <2> QED
        BY <1>1, <2>1, <2>2, NotRunRuns DEF Tried
<1>2. CASE Failure /\ UNCHANGED <<store, ran, made, lastOutputs>>
    <2>1. HasRead
        BY <1>2 DEF store, HasRead, Inv, Kinds
    <2>2. failures' \in Nat \ {0}
        BY <1>2 DEF Failure, Inv, Kinds
    <2>3. HasRun(r)
        BY <1>2, <2>2 DEF HasRun, Inv, Kinds, Recorded
    <2> QED
        BY <2>1, <2>2, <2>3 DEF Tried
<1>3. CASE /\ Reads({r.primary} \cup Fetched(r))
           /\ IF r.primary \in cached' THEN \E applied \in BOOLEAN : Run(r, applied) ELSE NotRun
    BY <1>3, ReadsRead, NotRunRuns, RunRuns DEF Tried, Inv
<1> QED
    BY <1>1, <1>2, <1>3 DEF ReconcileOne

\* Once r has been tried, the others are still covered and so is r.
LEMMA TriedCovers ==
    ASSUME Inv, NEW r \in RangeOf(Reconcilers), Tried(r), UNCHANGED <<registered, handlers, events>>,
           ~Unsynced, DOMAIN job' = GVKs, \A k \in GVKs : job'[k].at = job[k].at,
           \A s \in RangeOf(Reconcilers) : s # r /\ ToRun(s) => ToRun(s)'
    PROVE  Recorded' /\ AllCovered'
<1>1. /\ Reconcilers' = Reconcilers
      /\ \A s : (Collides(s)' <=> Collides(s)) /\ (Reached(s)' <=> Reached(s))
    BY DEF Reconcilers, Collides, Reached
<1>2. Recorded'
    BY <1>1 DEF Recorded, Tried, HasRun
<1>3. ASSUME NEW s \in RangeOf(Reconcilers), failures' = 0, ~Collides(s), Reached(s), s.primary \in cached'
      PROVE  (ToRun(s) \/ ToRoute(s) \/ Fresh(s))'
    <2>1. CASE s = r
        BY <1>3, <2>1 DEF Tried, IsFresh, Fresh
    <2>2. CASE s # r
        <3>1. {s.primary, s.output} \cup Fetched(s) \subseteq informers /\ Fetched(s) \subseteq GVKs
            BY <1>3, ReachedInformed, ReconcilerTypes DEF Inv
        <3>2. s.primary \in cached /\ failures = 0
            BY <1>3, <3>1 DEF Tried, HasRead, HasRun
        <3>3. ToRun(s) \/ ToRoute(s) \/ Fresh(s)
            BY <1>3, <3>2 DEF Inv, AllCovered, Covered
        <3>4. ToRoute(s) => ToRoute(s)'
            BY <3>1 DEF ToRoute, Tried, HasRun
        <3>5. Fetched(s) \subseteq cached' <=> Fetched(s) \subseteq cached
            BY <3>1 DEF Tried, HasRead
        <3>6. Fresh(s) => Fresh(s)'
            BY <1>3, <2>2, <3>5 DEF Fresh, Tried, HasRun
        <3> QED
            BY <2>2, <3>3, <3>4, <3>6
    <2> QED
        BY <2>1, <2>2
<1>4. AllCovered'
    BY <1>1, <1>3 DEF AllCovered, Covered
<1> QED
    BY <1>2, <1>4
-----------------------------------------------------------------------------
(* Each action *)

Main == Kinds /\ Recorded /\ AllCovered

LEMMA InitMain == Init => Main
<1> SUFFICES ASSUME Init
             PROVE  Main
    OBVIOUS
<1>1. <<>> \in Seq(RangeOf(Reconcilers))
    OBVIOUS
<1>2. Kinds
    BY <1>1 DEF Init, Kinds, JobOK, Idle, NoRetry
<1>3. Recorded /\ AllCovered
    BY DEF Init, Recorded, AllCovered, Unsynced
<1> QED
    BY <1>2, <1>3 DEF Main

\* Nothing has been run yet.
LEMMA UnsyncedMain ==
    ASSUME Kinds', Unsynced'
    PROVE  Main'
BY DEF Main, Kinds, Recorded, AllCovered

\* Nothing is lost of what is to be done.
LEMMA QuietMain ==
    ASSUME Inv, Kinds', UNCHANGED <<registered, handlers, cached, ran, made, lastOutputs>>,
           failures' = 0 /\ ~Unsynced' => failures = 0 /\ ~Unsynced,
           \A r \in RangeOf(Reconcilers) : failures' = 0 /\ ToRun(r) => ToRun(r)',
           \A k \in GVKs : /\ k \in events => k \in events' \/ job'[k].at = "own"
                           /\ job[k].at = "own" =>
                                 \/ job'[k].at = "own"
                                 \/ \A r \in ran : k \in Fetched(r) => \E q \in GVKs : r \in job'[q].todo
    PROVE  Main'
<1>1. /\ Reconcilers' = Reconcilers
      /\ \A s : (Collides(s)' <=> Collides(s)) /\ (Reached(s)' <=> Reached(s))
    BY DEF Reconcilers, Collides, Reached
<1>2. Recorded'
    BY <1>1 DEF Inv, Recorded
<1>3. ASSUME NEW s \in RangeOf(Reconcilers), failures' = 0, ~Unsynced', ~Collides(s), Reached(s), s.primary \in cached
      PROVE  (ToRun(s) \/ ToRoute(s) \/ Fresh(s))'
    <2>1. ToRun(s) \/ ToRoute(s) \/ Fresh(s)
        BY <1>3 DEF Inv, AllCovered, Covered
    <2>2. ToRoute(s) => ToRoute(s)' \/ ToRun(s)'
        <3>1. Fetched(s) \subseteq GVKs
            BY ReconcilerTypes DEF Inv
        <3> QED
            BY <3>1 DEF ToRoute, ToRun
    <2>3. Fresh(s) => Fresh(s)'
        BY DEF Fresh
    <2> QED
        BY <1>3, <2>1, <2>2, <2>3
<1>4. AllCovered'
    BY <1>1, <1>3 DEF AllCovered, Covered
<1> QED
    BY <1>2, <1>4 DEF Main

\* All reconcilers will be run.
LEMMA AllToRun ==
    ASSUME Inv, Kinds', UNCHANGED <<registered, ran, lastOutputs>>,
           \A r \in RangeOf(Reconcilers) : failures' = 0 => ToRun(r)'
    PROVE  Main'
<1>1. Reconcilers' = Reconcilers /\ \A s : Collides(s)' <=> Collides(s)
    BY DEF Reconcilers, Collides
<1>2. Recorded'
    BY <1>1 DEF Inv, Recorded
<1>3. AllCovered'
    BY <1>1 DEF AllCovered, Covered
<1> QED
    BY <1>2, <1>3 DEF Main

\* The variables that the cluster leaves alone.
LEMMA StutterMain ==
    ASSUME Inv, UNCHANGED <<store, setup, start, retry, watches, job, results, failures>>,
           served \subseteq served', served' \subseteq GVKs, exists \subseteq exists', exists' \subseteq served'
    PROVE  Main'
<1>1. UNCHANGED <<informers, cached, registered, start, retry, events, handlers, job, ran, made, lastOutputs, failures>>
    BY DEF store, setup, watches, results
<1>2. Kinds'
    <2>1. Reconcilers' = Reconcilers
        BY <1>1 DEF Reconcilers
    <2>2. \A j : JobOK(j)' <=> JobOK(j)
        BY <2>1 DEF JobOK
    <2> QED
        BY <1>1, <2>1, <2>2 DEF Inv, Kinds, Unsynced
<1> QED
    BY <1>1, <1>2, QuietMain DEF Inv, Unsynced, ToRun

LEMMA ClusterMain ==
    ASSUME Inv, NEW k \in GVKs, Serve(k) \/ Create(k)
    PROVE  Main'
<1>1. /\ UNCHANGED <<store, setup, start, retry, watches, job, results, failures>>
      /\ \/ served' = served \cup {k} /\ exists' = exists
         \/ served' = served /\ exists' = exists \cup {k} /\ k \in served
    BY DEF Serve, Create
<1>2. /\ served \subseteq served' /\ served' \subseteq GVKs
      /\ exists \subseteq exists' /\ exists' \subseteq served'
    BY <1>1 DEF Inv, Kinds
<1> QED
    BY <1>1, <1>2, StutterMain

LEMMA RegisterMain ==
    ASSUME Inv, Register
    PROVE  Main'
<1> DEFINE c == Head(program)
           list == registered[Registry(c.form)]
           e == Number(c, 1 + Count(c, list))
<1>1. /\ start.at = "setup" /\ registered' = [registered EXCEPT ![Registry(c.form)] = Append(list, e)]
      /\ program # <<>>
      /\ UNCHANGED <<cluster, store, start, retry, watches, job, results, failures>>
    BY DEF Register
<1>2. UNCHANGED <<served, exists, informers, cached, start, retry, events, handlers, job, ran, made, lastOutputs, failures>>
    BY <1>1 DEF cluster, store, watches, results
<1>3. RangeOf(Reconcilers) \subseteq RangeOf(Reconcilers')
    <2>1. Registry(c.form) \in Registries
        <3>1. program \in Seq(Call)
            BY DEF Inv, IInv, Types
        <3>2. c \in Call
            BY <1>1, <3>1
        <3>3. c.form \in Forms
            BY <3>2 DEF Call
        <3> QED
            BY <3>3, RegistryOf
    <2>2. list \in Seq(Entry)
        BY <2>1 DEF Inv, Registration, Numbered, WellNumbered
    <2>3. CASE Registry(c.form) = "outputs"
        <3>1. Reconcilers = list /\ Reconcilers' = Append(list, e)
            BY <1>1, <2>3 DEF Reconcilers, Inv, Registration, Numbered, Registries
        <3>2. \A i \in DOMAIN list : i \in DOMAIN Append(list, e) /\ Append(list, e)[i] = list[i]
            BY <2>2
        <3> QED
            BY <3>1, <3>2 DEF RangeOf
    <2>4. CASE Registry(c.form) # "outputs"
        BY <1>1, <2>4 DEF Reconcilers
    <2> QED
        BY <2>3, <2>4
<1>4. start.plan = <<>> /\ retry.plan = <<>>
    BY <1>1 DEF Inv, Kinds, IInv, Phases
<1>5. <<>> \in Seq(RangeOf(Reconcilers'))
    OBVIOUS
<1>6. \A k \in GVKs : JobOK(job[k])'
    BY <1>2, <1>3 DEF Inv, Kinds, JobOK
<1>7. Kinds'
    BY <1>2, <1>3, <1>4, <1>5, <1>6 DEF Inv, Kinds, Unsynced
<1> QED
    BY <1>1, <1>2, <1>7, UnsyncedMain DEF Unsynced

\* What Kinds says of the parts that Start and retryPendingWatches change.
LEMMA StartMain ==
    ASSUME Inv, Begin \/ \E k \in GVKs : RegisterWatch(k)
    PROVE  Main'
<1>1. /\ UNCHANGED <<served, exists, cached, registered, retry, events, job, ran, lastOutputs>>
      /\ start.at \in {"setup", "register"} /\ start'.at \in {"register", "failed"}
      /\ start'.plan = start.plan
    BY DEF Begin, RegisterWatch, cluster, store, setup, watches, results, Inv, IInv, Types
<1>2. /\ informers \subseteq informers' /\ informers' \subseteq served
      /\ \A k \in GVKs : handlers'[k] > 0 => k \in informers'
      /\ failures' \in Nat
    <2>1. CASE Begin
        BY <2>1 DEF Begin, store, watches, Inv, Kinds
    <2>2. ASSUME NEW k \in GVKs, RegisterWatch(k)
          PROVE  /\ informers \subseteq informers' /\ informers' \subseteq served
                 /\ \A q \in GVKs : handlers'[q] > 0 => q \in informers'
                 /\ failures' \in Nat
        <3>1. handlers \in [GVKs -> Nat]
            BY DEF Inv, IInv, Types
        <3>2. informers \subseteq served /\ failures \in Nat /\ \A q \in GVKs : handlers[q] > 0 => q \in informers
            BY DEF Inv, Kinds
        <3>3. CASE /\ k \in served /\ UNCHANGED failures
                   /\ handlers' = [handlers EXCEPT ![k] = @ + 1] /\ informers' = informers \cup {k}
            BY <3>1, <3>2, <3>3
        <3>4. CASE UNCHANGED <<handlers, informers>> /\ (UNCHANGED failures \/ Failure)
            BY <3>1, <3>2, <3>4 DEF Failure
        <3> QED
            BY <2>2, <3>3, <3>4 DEF RegisterWatch
    <2> QED
        BY <2>1, <2>2
<1>3. made' \in [Makers -> {"absent", "partial", "full"}]
    <2>1. CASE Begin
        BY <2>1 DEF Begin
    <2>2. CASE \E k \in GVKs : RegisterWatch(k)
        BY <2>2 DEF RegisterWatch, results, Inv, Kinds
    <2> QED
        BY <2>1, <2>2
<1>4. Reconcilers' = Reconcilers /\ \A j : JobOK(j)' <=> JobOK(j)
    BY <1>1 DEF Reconcilers, JobOK
<1>5. start'.plan = <<>> /\ events = {} /\ ran = {} /\ \A k \in GVKs : job[k] = Idle
    BY <1>1 DEF Inv, Kinds, Unsynced
<1>6. Kinds'
    BY <1>1, <1>2, <1>3, <1>4, <1>5 DEF Inv, Kinds
<1> QED
    BY <1>1, <1>6, UnsyncedMain DEF Unsynced
\* A plan is a list of reconcilers, and Head and Tail make up what is in it.
LEMMA PlanParts ==
    ASSUME NEW plan \in Seq(RangeOf(Reconcilers)), plan # <<>>
    PROVE  /\ Head(plan) \in RangeOf(Reconcilers) /\ Tail(plan) \in Seq(RangeOf(Reconcilers))
           /\ \A r \in RangeOf(plan) : r = Head(plan) \/ r \in RangeOf(Tail(plan))
<1>1. Len(plan) \in Nat \ {0} /\ DOMAIN plan = 1 .. Len(plan)
    OBVIOUS
<1>2. /\ Head(plan) = plan[1] /\ DOMAIN Tail(plan) = 1 .. Len(plan) - 1
      /\ \A i \in 1 .. Len(plan) - 1 : Tail(plan)[i] = plan[i + 1]
    BY <1>1
<1>3. ASSUME NEW i \in DOMAIN plan, i # 1
      PROVE  i - 1 \in DOMAIN Tail(plan) /\ Tail(plan)[i - 1] = plan[i]
    BY <1>1, <1>2, <1>3
<1>4. Head(plan) \in RangeOf(Reconcilers) /\ Tail(plan) \in Seq(RangeOf(Reconcilers))
    OBVIOUS
<1>5. ASSUME NEW r \in RangeOf(plan)
      PROVE  r = Head(plan) \/ r \in RangeOf(Tail(plan))
    <2>1. PICK i \in DOMAIN plan : r = plan[i]
        BY DEF RangeOf
    <2> QED
        BY <1>2, <1>3, <2>1 DEF RangeOf
<1> QED
    BY <1>4, <1>5

LEMMA ReconcilersPlan ==
    ASSUME Registration
    PROVE  Reconcilers \in Seq(RangeOf(Reconcilers))
<1>1. Reconcilers \in Seq(Entry)
    BY DEF Registration, Numbered, WellNumbered, Reconcilers, Registries
<1> QED
    BY <1>1 DEF RangeOf

LEMMA CacheSyncMain ==
    ASSUME Inv, CacheSync
    PROVE  Main'
<1>1. /\ start.at = "register" /\ start'.at = "reconcile" /\ start'.plan = Reconcilers
      /\ cached' = informers \cap exists /\ events' \subseteq cached'
      /\ UNCHANGED <<served, exists, informers, registered, retry, handlers, job, ran, made, lastOutputs, failures>>
    BY DEF CacheSync, cluster, setup, results, Inv, IInv, Types
<1>2. Reconcilers' = Reconcilers /\ \A j : JobOK(j)' <=> JobOK(j)
    BY <1>1 DEF Reconcilers, JobOK
<1>3. Reconcilers \in Seq(RangeOf(Reconcilers))
    BY ReconcilersPlan DEF Inv
<1>4. Kinds'
    BY <1>1, <1>2, <1>3 DEF Inv, Kinds, Unsynced
<1> QED
    BY <1>1, <1>2, <1>4, AllToRun DEF ToRun

LEMMA RefreshMain ==
    ASSUME Inv, NEW k \in GVKs, Refresh(k)
    PROVE  Main'
<1>1. /\ ~Unsynced /\ k \in informers \cap exists /\ cached' = cached \cup {k}
      /\ events' = IF handlers[k] > 0 THEN events \cup {k} ELSE events
      /\ UNCHANGED <<served, exists, informers, registered, start, retry, handlers, job, ran, made, lastOutputs, failures>>
    BY DEF Refresh, cluster, setup, results, Unsynced
<1>2. /\ Reconcilers' = Reconcilers /\ (\A j : JobOK(j)' <=> JobOK(j))
      /\ \A s : (Collides(s)' <=> Collides(s)) /\ (Reached(s)' <=> Reached(s))
    BY <1>1 DEF Reconcilers, JobOK, Collides, Reached
<1>3. Kinds'
    BY <1>1, <1>2 DEF Inv, Kinds, Unsynced
<1>4. Recorded'
    BY <1>1, <1>2 DEF Inv, Recorded
<1>5. ASSUME NEW s \in RangeOf(Reconcilers), failures = 0, ~Collides(s), Reached(s), s.primary \in cached'
      PROVE  (ToRun(s) \/ ToRoute(s) \/ Fresh(s))'
    <2>1. CASE s.primary \notin cached
        BY <1>1, <1>5, <2>1 DEF Reached, ToRun
    <2>2. CASE s.primary \in cached
        <3>1. ToRun(s) \/ ToRoute(s) \/ Fresh(s)
            BY <1>1, <1>5, <2>2 DEF Inv, AllCovered, Covered
        <3>2. (ToRun(s) => ToRun(s)') /\ (ToRoute(s) => ToRoute(s)')
            BY <1>1 DEF ToRun, ToRoute
        <3>3. CASE k \in Fetched(s) /\ Fresh(s)
            BY <1>1, <1>5, <3>3 DEF Reached, Fresh, ToRoute
        <3>4. CASE k \notin Fetched(s) /\ Fresh(s)
            BY <1>1, <3>4 DEF Fresh
        <3> QED
            BY <3>1, <3>2, <3>3, <3>4
    <2> QED
        BY <2>1, <2>2
<1>6. AllCovered'
    BY <1>1, <1>2, <1>5 DEF AllCovered, Covered
<1> QED
    BY <1>3, <1>4, <1>6 DEF Main

LEMMA FullReconcileMain ==
    ASSUME Inv, FullReconcile
    PROVE  Main'
<1> DEFINE r == Head(start.plan)
<1>1. /\ start.at = "reconcile" /\ start.plan # <<>> /\ ReconcileOne(r)
      /\ start' = [start EXCEPT !.plan = Tail(start.plan)]
      /\ UNCHANGED <<served, exists, registered, retry, handlers, events, job>>
    BY DEF FullReconcile, cluster, setup, watches
<1>2. start'.at = start.at /\ start'.plan = Tail(start.plan)
    BY <1>1 DEF Inv, IInv, Types
<1>3. /\ r \in RangeOf(Reconcilers) /\ start'.plan \in Seq(RangeOf(Reconcilers))
      /\ \A s \in RangeOf(start.plan) : s = r \/ s \in RangeOf(start'.plan)
    BY <1>1, <1>2, PlanParts DEF Inv, Kinds
<1>4. Tried(r)
    BY <1>1, <1>3, ReconcileOneTried
<1>5. Reconcilers' = Reconcilers /\ \A j : JobOK(j)' <=> JobOK(j)
    BY <1>1 DEF Reconcilers, JobOK
<1>6. Kinds'
    BY <1>1, <1>2, <1>3, <1>4, <1>5 DEF Inv, Kinds, Unsynced, Tried, HasRead, HasRun
<1>7. \A s \in RangeOf(Reconcilers) : s # r /\ ToRun(s) => ToRun(s)'
    BY <1>1, <1>3 DEF ToRun
<1>8. ~Unsynced /\ DOMAIN job' = GVKs
    BY <1>1 DEF Unsynced, Inv, Kinds
<1> QED
    BY <1>1, <1>3, <1>4, <1>6, <1>7, <1>8, TriedCovers DEF Main

LEMMA GcOrphansKeep ==
    ASSUME Inv, GcOrphans, NEW r \in ran, ~Collides(r)
    PROVE  made'[r] = made[r]
<1>1. r \in RangeOf(Reconcilers) /\ r \in lastOutputs[ID(r)]
    BY DEF Inv, Kinds, Recorded
<1>2. r \in Makers /\ ID(r) \in IDs
    BY <1>1, ReconcilerTypes DEF Inv
<1> QED
    BY <1>1, <1>2 DEF GcOrphans, Wanted

LEMMA GcOrphansMain ==
    ASSUME Inv, GcOrphans
    PROVE  Main'
<1>1. /\ start.at = "reconcile" /\ start.plan = <<>>
      /\ start' = [start EXCEPT !.at = IF start.started THEN "serve" ELSE "collected"]
      /\ made' = [r \in Makers |-> IF r.output \in served /\ r \notin Wanted THEN "absent" ELSE made[r]]
      /\ UNCHANGED <<served, exists, informers, cached, registered, retry, handlers, events, job, ran, lastOutputs, failures>>
    BY DEF GcOrphans, cluster, store, setup, watches
<1>2. start'.at \in {"serve", "collected"} /\ start'.plan = <<>>
    BY <1>1 DEF Inv, IInv, Types
<1>3. /\ Reconcilers' = Reconcilers /\ (\A j : JobOK(j)' <=> JobOK(j))
      /\ \A s : (Collides(s)' <=> Collides(s)) /\ (Reached(s)' <=> Reached(s))
    BY <1>1 DEF Reconcilers, JobOK, Collides, Reached
<1>4. Kinds'
    <2>1. made' \in [Makers -> {"absent", "partial", "full"}]
        BY <1>1 DEF Inv, Kinds
    <2> QED
        BY <1>1, <1>2, <1>3, <2>1 DEF Inv, Kinds, Unsynced
<1>5. Recorded'
    BY <1>1, <1>3 DEF Inv, Recorded
<1>6. ASSUME NEW s \in RangeOf(Reconcilers), failures = 0, ~Collides(s), Reached(s), s.primary \in cached
      PROVE  (ToRun(s) \/ ToRoute(s) \/ Fresh(s))'
    <2>1. ToRun(s) \/ ToRoute(s) \/ Fresh(s)
        BY <1>1, <1>6 DEF Inv, AllCovered, Covered, Unsynced
    <2>2. ToRun(s) => ToRun(s)'
        BY <1>1, <1>2 DEF ToRun, RangeOf
    <2>3. ToRoute(s) => ToRoute(s)'
        BY <1>1 DEF ToRoute
    <2>4. Fresh(s) => Fresh(s)'
        BY <1>1, <1>6, GcOrphansKeep DEF Fresh
    <2> QED
        BY <2>1, <2>2, <2>3, <2>4
<1>7. AllCovered'
    BY <1>1, <1>3, <1>6 DEF AllCovered, Covered
<1> QED
    BY <1>4, <1>5, <1>7 DEF Main

LEMMA StartRetryMain ==
    ASSUME Inv, StartRetry
    PROVE  Main'
<1>1. /\ start.at = "collected" /\ start'.at = "serve" /\ start'.plan = start.plan
      /\ retry.at = "none" /\ retry'.at \in {"none", "wait"} /\ retry'.plan = retry.plan
      /\ UNCHANGED <<served, exists, informers, cached, registered, handlers, events, job, ran, made, lastOutputs, failures>>
    BY DEF StartRetry, cluster, store, setup, results, Inv, IInv, Types, Phases
<1>2. Reconcilers' = Reconcilers /\ \A j : JobOK(j)' <=> JobOK(j)
    BY <1>1 DEF Reconcilers, JobOK
<1>3. Kinds'
    BY <1>1, <1>2 DEF Inv, Kinds, Unsynced
<1> QED
    BY <1>1, <1>2, <1>3, QuietMain DEF Inv, Unsynced, ToRun

LEMMA ResyncMain ==
    ASSUME Inv, Resync
    PROVE  Main'
<1>1. /\ start.at = "serve" /\ start'.at = "reconcile" /\ start'.plan = Reconcilers
      /\ UNCHANGED <<served, exists, informers, cached, registered, retry, handlers, events, job, ran, made, lastOutputs, failures>>
    BY DEF Resync, cluster, store, setup, watches, results, Inv, IInv, Types
<1>2. Reconcilers' = Reconcilers /\ \A j : JobOK(j)' <=> JobOK(j)
    BY <1>1 DEF Reconcilers, JobOK
<1>3. Reconcilers \in Seq(RangeOf(Reconcilers))
    BY ReconcilersPlan DEF Inv
<1>4. Kinds'
    BY <1>1, <1>2, <1>3 DEF Inv, Kinds, Unsynced
<1> QED
    BY <1>1, <1>2, <1>4, AllToRun DEF ToRun
LEMMA RetryTickMain ==
    ASSUME Inv, RetryTick
    PROVE  Main'
<1>1. /\ retry.at = "wait" /\ retry'.at \in {"done", "register"} /\ retry'.plan = <<>>
      /\ UNCHANGED <<served, exists, informers, cached, registered, start, handlers, events, job, ran, made, lastOutputs, failures>>
    BY DEF RetryTick, NoRetry, cluster, store, setup, watches, results
<1>2. Reconcilers' = Reconcilers /\ \A j : JobOK(j)' <=> JobOK(j)
    BY <1>1 DEF Reconcilers, JobOK
<1>3. Kinds'
    BY <1>1, <1>2 DEF Inv, Kinds, Unsynced
<1>4. retry.plan = <<>>
    BY <1>1 DEF Inv, Kinds
<1> QED
    BY <1>1, <1>2, <1>3, <1>4, QuietMain DEF Inv, Unsynced, ToRun, RangeOf

\* A type that gets its handler here is made up for at the end of the round.
LEMMA RetryWatchMain ==
    ASSUME Inv, NEW k \in GVKs, RetryWatch(k)
    PROVE  Main'
<1>1. /\ retry.at = "register" /\ start.started
      /\ UNCHANGED <<served, exists, registered, start, job, ran, made, lastOutputs>>
    BY DEF RetryWatch, cluster, setup, results, Inv, IInv, Phases
<1>2. /\ Reconcilers' = Reconcilers /\ (\A j : JobOK(j)' <=> JobOK(j)) /\ ~Unsynced
    BY <1>1 DEF Reconcilers, JobOK, Unsynced, Inv, IInv, Phases
<1>3. retry.plan = <<>> /\ <<>> \in Seq(RangeOf(Reconcilers))
    BY <1>1 DEF Inv, Kinds
<1>4. CASE /\ k \in served /\ AddHandler(k) /\ UNCHANGED failures
           /\ retry' = [retry EXCEPT !.batch = @ \ {k}, !.resolved = TRUE]
    <2>1. retry'.at = "register" /\ retry'.resolved = TRUE /\ retry'.plan = <<>>
        BY <1>1, <1>3, <1>4 DEF Inv, IInv, Types
    <2>2. HasRead
        BY <1>4, ReadsRead DEF AddHandler, Inv
    <2>3. /\ handlers' = [handlers EXCEPT ![k] = @ + 1]
          /\ events' = IF k \in cached' THEN events \cup {k} ELSE events
        BY <1>4 DEF AddHandler
    <2>4. k \in informers'
        BY <1>4 DEF AddHandler, Reads
    <2>5. handlers \in [GVKs -> Nat] /\ \A q \in GVKs : handlers[q] > 0 => q \in informers
        BY DEF Inv, IInv, Types, Kinds
    <2>6. \A q \in GVKs : handlers'[q] > 0 => q \in informers'
        BY <2>2, <2>3, <2>4, <2>5 DEF HasRead
    <2>7. Kinds'
        BY <1>1, <1>2, <1>3, <1>4, <2>1, <2>2, <2>3, <2>6 DEF Inv, Kinds, Unsynced, HasRead
    <2> QED
        BY <1>1, <2>1, <2>7, AllToRun DEF ToRun
<1>5. CASE /\ retry' = [retry EXCEPT !.batch = @ \ {k}, !.still = retry.still \cup {k}]
           /\ UNCHANGED <<handlers, store, events>> /\ (UNCHANGED failures \/ Failure)
    <2>1. /\ retry'.at = "register" /\ retry'.plan = <<>> /\ retry'.resolved = retry.resolved
          /\ UNCHANGED <<informers, cached>>
        BY <1>1, <1>3, <1>5 DEF store, Inv, IInv, Types
    <2>2. failures' \in Nat /\ (failures' = 0 => failures = 0)
        BY <1>5 DEF Failure, Inv, Kinds
    <2>3. Kinds'
        BY <1>1, <1>2, <1>3, <1>5, <2>1, <2>2 DEF Inv, Kinds, Unsynced
    <2> QED
        BY <1>1, <1>2, <1>3, <1>5, <2>1, <2>2, <2>3, QuietMain DEF Inv, ToRun
<1> QED
    BY <1>4, <1>5 DEF RetryWatch, StillPending

LEMMA RetryRoundMain ==
    ASSUME Inv, RetryRound
    PROVE  Main'
<1>1. /\ retry.at = "register" /\ start.started
      /\ UNCHANGED <<served, exists, informers, cached, registered, start, handlers, events, job, ran, made, lastOutputs>>
    BY DEF RetryRound, cluster, store, setup, results, Inv, IInv, Phases
<1>2. /\ Reconcilers' = Reconcilers /\ (\A j : JobOK(j)' <=> JobOK(j))
      /\ ~Unsynced
    BY <1>1 DEF Reconcilers, JobOK, Unsynced, Inv, IInv, Phases
<1>3. retry.plan = <<>> /\ <<>> \in Seq(RangeOf(Reconcilers)) /\ Reconcilers \in Seq(RangeOf(Reconcilers))
    BY <1>1, ReconcilersPlan DEF Inv, Kinds
<1>4. CASE retry' = [NoRetry EXCEPT !.at = "reconcile", !.plan = Reconcilers] /\ UNCHANGED failures
    <2>1. retry'.at = "reconcile" /\ retry'.plan = Reconcilers
        BY <1>4 DEF NoRetry
    <2>2. Kinds'
        BY <1>1, <1>2, <1>3, <1>4, <2>1 DEF Inv, Kinds, Unsynced
    <2> QED
        BY <1>1, <1>2, <2>1, <2>2, AllToRun DEF ToRun
<1>5. CASE /\ retry' = [NoRetry EXCEPT !.at = "wait"]
           /\ (~retry.resolved /\ UNCHANGED failures) \/ Failure
    <2>1. retry'.at = "wait" /\ retry'.plan = <<>>
        BY <1>5 DEF NoRetry
    <2>2. failures' \in Nat /\ (failures' = 0 => failures = 0 /\ ~retry.resolved)
        BY <1>5 DEF Failure, Inv, Kinds
    <2>3. Kinds'
        BY <1>1, <1>2, <1>3, <2>1, <2>2 DEF Inv, Kinds, Unsynced
    <2> QED
        BY <1>1, <1>2, <1>3, <2>1, <2>2, <2>3, QuietMain DEF Inv, ToRun
<1> QED
    BY <1>4, <1>5 DEF RetryRound, Resolved

LEMMA RetryReconcileMain ==
    ASSUME Inv, RetryReconcile
    PROVE  Main'
<1>1. /\ retry.at = "reconcile" /\ start.started
      /\ UNCHANGED <<served, exists, registered, start, handlers, events, job>>
    BY DEF RetryReconcile, cluster, setup, watches, Inv, IInv, Phases
<1>2. /\ Reconcilers' = Reconcilers /\ (\A j : JobOK(j)' <=> JobOK(j))
      /\ ~Unsynced /\ DOMAIN job' = GVKs
    BY <1>1 DEF Reconcilers, JobOK, Unsynced, Inv, IInv, Phases, Kinds
<1>3. CASE retry.plan = <<>>
    <2>1. /\ retry'.at = "wait" /\ retry'.plan = <<>>
          /\ UNCHANGED <<informers, cached, ran, made, lastOutputs, failures>>
        BY <1>3 DEF RetryReconcile, NotRun, store, Inv, IInv, Types
    <2>2. Kinds'
        BY <1>1, <1>2, <1>3, <2>1 DEF Inv, Kinds, Unsynced
    <2> QED
        BY <1>1, <1>2, <1>3, <2>1, <2>2, QuietMain DEF Inv, Unsynced, ToRun
<1>4. CASE retry.plan # <<>>
    <2> DEFINE r == Head(retry.plan)
    <2>1. ReconcileOne(r) /\ retry' = [retry EXCEPT !.plan = Tail(retry.plan)]
        BY <1>4 DEF RetryReconcile
    <2>2. retry'.at = retry.at /\ retry'.plan = Tail(retry.plan)
        BY <2>1 DEF Inv, IInv, Types
    <2>3. /\ r \in RangeOf(Reconcilers) /\ retry'.plan \in Seq(RangeOf(Reconcilers))
          /\ \A s \in RangeOf(retry.plan) : s = r \/ s \in RangeOf(retry'.plan)
        BY <1>4, <2>2, PlanParts DEF Inv, Kinds
    <2>4. Tried(r)
        BY <2>1, <2>3, ReconcileOneTried
    <2>5. Kinds'
        BY <1>1, <1>2, <2>2, <2>3, <2>4 DEF Inv, Kinds, Unsynced, Tried, HasRead, HasRun
    <2>6. \A s \in RangeOf(Reconcilers) : s # r /\ ToRun(s) => ToRun(s)'
        BY <1>1, <2>2, <2>3 DEF ToRun
    <2> QED
        BY <1>1, <1>2, <2>3, <2>4, <2>5, <2>6, TriedCovers DEF Main
<1> QED
    BY <1>3, <1>4

LEMMA HandleMain ==
    ASSUME Inv, NEW k \in GVKs, Handle(k)
    PROVE  Main'
<1> DEFINE j == [at |-> "own", todo |-> {r \in RangeOf(Reconcilers) : r.primary = k}]
<1>1. /\ job[k] = Idle /\ k \in events /\ events' = events \ {k} /\ job' = [job EXCEPT ![k] = j]
      /\ UNCHANGED <<served, exists, informers, cached, registered, start, retry, handlers, ran, made, lastOutputs, failures>>
    BY DEF Handle, cluster, store, setup, results
<1>2. /\ DOMAIN job' = GVKs /\ job'[k] = j /\ \A q \in GVKs \ {k} : job'[q] = job[q]
    BY <1>1 DEF Inv, Kinds
<1>3. Reconcilers' = Reconcilers /\ \A i : JobOK(i)' <=> JobOK(i)
    BY <1>1 DEF Reconcilers, JobOK
<1>4. JobOK(j)
    BY DEF JobOK
<1>5. ~Unsynced
    BY <1>1 DEF Inv, Kinds
<1>6. Kinds'
    <2>1. \A q \in GVKs : JobOK(job'[q])
        BY <1>2, <1>4 DEF Inv, Kinds
    <2> QED
        BY <1>1, <1>2, <1>3, <1>5, <2>1 DEF Inv, Kinds, Unsynced
<1>7. ASSUME NEW r \in RangeOf(Reconcilers), ToRun(r)
      PROVE  ToRun(r)'
    <2>1. CASE r.primary = k
        BY <1>2, <2>1 DEF ToRun
    <2>2. ASSUME NEW q \in GVKs, r \in job[q].todo
          PROVE  r \in job'[q].todo
        BY <1>1, <1>2, <2>2 DEF Idle
    <2> QED
        BY <1>1, <1>7, <2>1, <2>2 DEF ToRun
<1>8. \A q \in GVKs : /\ q \in events => q \in events' \/ job'[q].at = "own"
                      /\ job[q].at = "own" => job'[q].at = "own"
    BY <1>1, <1>2
<1> QED
    BY <1>1, <1>5, <1>6, <1>7, <1>8, QuietMain

LEMMA RouteMain ==
    ASSUME Inv, NEW k \in GVKs, Route(k)
    PROVE  Main'
<1> DEFINE j == IF job[k].at = "own" THEN [at |-> "routed", todo |-> {r \in ran : k \in Fetched(r)}] ELSE Idle
<1>1. /\ job[k].at # "idle" /\ job[k].todo = {} /\ job' = [job EXCEPT ![k] = j]
      /\ UNCHANGED <<served, exists, informers, cached, registered, start, retry, events, handlers, ran, made, lastOutputs, failures>>
    BY DEF Route, cluster, store, setup, watches, results
<1>2. /\ DOMAIN job' = GVKs /\ job'[k] = j /\ \A q \in GVKs \ {k} : job'[q] = job[q]
    BY <1>1 DEF Inv, Kinds
<1>3. Reconcilers' = Reconcilers /\ \A i : JobOK(i)' <=> JobOK(i)
    BY <1>1 DEF Reconcilers, JobOK
<1>4. JobOK(j)
    BY DEF JobOK, Idle, Inv, Kinds
<1>5. ~Unsynced
    BY <1>1 DEF Inv, Kinds, Idle
<1>6. Kinds'
    <2>1. \A q \in GVKs : JobOK(job'[q])
        BY <1>2, <1>4 DEF Inv, Kinds
    <2> QED
        BY <1>1, <1>2, <1>3, <1>5, <2>1 DEF Inv, Kinds, Unsynced
<1>7. \A r \in RangeOf(Reconcilers) : ToRun(r) => ToRun(r)'
    <2>1. \A q \in GVKs : \A r : r \in job[q].todo => r \in job'[q].todo
        BY <1>1, <1>2
    <2> QED
        BY <1>1, <2>1 DEF ToRun
<1>8. \A q \in GVKs : job[q].at = "own" =>
         job'[q].at = "own" \/ \A r \in ran : q \in Fetched(r) => r \in job'[q].todo
    BY <1>2
<1> QED
    BY <1>1, <1>5, <1>6, <1>7, <1>8, QuietMain

LEMMA RunOneMain ==
    ASSUME Inv, NEW k \in GVKs, NEW r, RunOne(k, r)
    PROVE  Main'
<1> DEFINE j == [job[k] EXCEPT !.todo = @ \ {r}]
<1>1. /\ r \in job[k].todo /\ job' = [job EXCEPT ![k] = j] /\ Reads({r.primary} \cup Fetched(r))
      /\ IF r.primary \in cached' THEN \E applied \in BOOLEAN : Run(r, applied) ELSE NotRun
      /\ UNCHANGED <<served, exists, registered, start, retry, handlers, events>>
    BY DEF RunOne, cluster, setup, watches
<1>2. r \in RangeOf(Reconcilers) /\ JobOK(job[k])
    BY <1>1 DEF Inv, Kinds, JobOK
<1>3. j.at = job[k].at /\ j.todo = job[k].todo \ {r} /\ j \in [at : {"idle", "own", "routed"}, todo : SUBSET RangeOf(Reconcilers)]
    BY <1>2 DEF JobOK
<1>4. JobOK(j) /\ ~Unsynced
    BY <1>1, <1>2, <1>3 DEF JobOK, Idle, Inv, Kinds
<1> HIDE DEF j
<1>5. /\ DOMAIN job' = GVKs /\ job'[k] = j /\ \A q \in GVKs \ {k} : job'[q] = job[q]
    BY <1>1 DEF Inv, Kinds
<1>6. Tried(r)
    BY <1>1, <1>2, ReadsRead, NotRunRuns, RunRuns DEF Tried, Inv
<1>7. Reconcilers' = Reconcilers /\ \A i : JobOK(i)' <=> JobOK(i)
    BY <1>1 DEF Reconcilers, JobOK
<1>8. Kinds'
    <2>1. \A q \in GVKs : JobOK(job'[q])
        BY <1>4, <1>5 DEF Inv, Kinds
    <2>2. /\ UNCHANGED <<served, exists, start, retry, handlers, events>>
          /\ HasRead /\ HasRun(r)
        BY <1>1, <1>6 DEF Tried
    <2>3. /\ cached' \subseteq exists' \cap informers' /\ exists' \cup informers' \subseteq served'
          /\ served' \subseteq GVKs /\ events' \subseteq informers'
          /\ \A q \in GVKs : handlers'[q] > 0 => q \in informers'
        BY <2>2 DEF Inv, Kinds, HasRead
    <2>4. /\ made' \in [Makers -> {"absent", "partial", "full"}] /\ DOMAIN lastOutputs' = IDs
          /\ \A id \in IDs : lastOutputs'[id] \subseteq {s \in RangeOf(Reconcilers) : ID(s) = id}
          /\ ran' \subseteq RangeOf(Reconcilers) /\ failures' \in Nat
        BY <1>2, <2>2 DEF Inv, Kinds, HasRun
    <2>5. ~Unsynced'
        BY <1>4, <2>2 DEF Unsynced
    <2>6. start'.plan \in Seq(RangeOf(Reconcilers)) /\ retry'.plan \in Seq(RangeOf(Reconcilers))
          /\ (start'.at # "reconcile" => start'.plan = <<>>) /\ (retry'.at # "reconcile" => retry'.plan = <<>>)
        BY <2>2 DEF Inv, Kinds
    <2>7. \A q \in GVKs : JobOK(job[q])'
        BY <1>7, <2>1
    <2> QED
        BY <1>5, <1>7, <2>3, <2>4, <2>5, <2>6, <2>7 DEF Kinds
<1>9. \A s \in RangeOf(Reconcilers) : s # r /\ ToRun(s) => ToRun(s)'
    <2>1. \A q \in GVKs : \A s : s # r /\ s \in job[q].todo => s \in job'[q].todo
        BY <1>3, <1>5
    <2> QED
        BY <1>1, <2>1 DEF ToRun
<1>10. \A q \in GVKs : job'[q].at = job[q].at
    BY <1>3, <1>5
<1> QED
    BY <1>1, <1>2, <1>4, <1>5, <1>6, <1>8, <1>9, <1>10, TriedCovers DEF Main
-----------------------------------------------------------------------------
(* The theorems *)

LEMMA StepMain == ASSUME Inv, Next PROVE Main'
<1>1. CASE Starting
    BY <1>1, StartMain, CacheSyncMain, FullReconcileMain, GcOrphansMain, StartRetryMain DEF Starting
<1>2. CASE Retrying
    BY <1>2, RetryTickMain, RetryWatchMain, RetryRoundMain, RetryReconcileMain DEF Retrying
<1>3. CASE \E k \in GVKs : Serve(k) \/ Create(k) \/ Refresh(k)
    BY <1>3, ClusterMain, RefreshMain
<1>4. CASE \E k \in GVKs : Handling(k)
    BY <1>4, HandleMain, RouteMain, RunOneMain DEF Handling
<1> QED
    BY <1>1, <1>2, <1>3, <1>4, RegisterMain, ResyncMain DEF Next

\* Only Register changes what is registered.
LEMMA RegistrationStands ==
    ASSUME Inv, [Next]_vars
    PROVE  Registration'
<1>1. CASE Register
    BY <1>1, RegistrationInv DEF Inv
<1>2. CASE UNCHANGED <<program, registered>>
    <2>1. Numbered'
        BY <1>2 DEF Inv, Registration, Numbered
    <2>2. Reconcilers' = Reconcilers /\ \A p, d : Follows(p, d)' <=> Follows(p, d)
        BY <1>2 DEF Reconcilers, Follows
    <2>3. Carried'
        BY <2>2 DEF Inv, Registration, Carried
    <2> QED
        BY <2>1, <2>3 DEF Registration
<1>3. UNCHANGED setup => UNCHANGED <<program, registered>>
    BY DEF setup
<1>4. CASE Starting \/ Retrying \/ Resync
    BY <1>2, <1>3, <1>4 DEF Starting, Begin, RegisterWatch, CacheSync, FullReconcile, GcOrphans, StartRetry,
                            Retrying, RetryTick, RetryWatch, RetryRound, RetryReconcile, Resync
<1>5. CASE \E k \in GVKs : Serve(k) \/ Create(k) \/ Refresh(k) \/ Handling(k)
    BY <1>2, <1>3, <1>5 DEF Serve, Create, Refresh, Handling, Handle, Route, RunOne
<1>6. CASE UNCHANGED vars
    BY <1>2, <1>6 DEF vars, setup
<1> QED
    BY <1>1, <1>4, <1>5, <1>6 DEF Next

LEMMA InvKeeps == Inv /\ [Next]_vars => Inv'
<1> SUFFICES ASSUME Inv, [Next]_vars
             PROVE  Inv'
    OBVIOUS
<1>1. IInv'
    BY NextInv DEF Inv
<1>2. Registration'
    BY RegistrationStands
<1>3. CASE UNCHANGED vars
    <2>1. UNCHANGED <<store, setup, start, retry, watches, job, results, failures, served, exists>>
        BY <1>3 DEF vars, cluster
    <2>2. served \subseteq GVKs /\ exists \subseteq served
        BY DEF Inv, Kinds
    <2> QED
        BY <1>1, <1>2, <2>1, <2>2, StutterMain DEF Inv, Main
<1>4. CASE Next
    BY <1>1, <1>2, <1>4, StepMain DEF Inv, Main
<1> QED
    BY <1>3, <1>4

LEMMA Invariants == Spec => []Inv
<1>1. Init => Inv
    BY InitInv, RegistrationInit, InitMain DEF Inv, Main
<1> QED
    BY <1>1, InvKeeps, PTL DEF Spec

\* The type invariant: what the cache shows is there, in a type that is
\* served; an event is of a type with an informer; what waits for a handler is
\* watched; an output is on record under the ID of a reconciler that has been
\* registered.
THEOREM TypeCorrect == Spec => []TypeOK
<1>1. Inv => TypeOK
    BY DEF Inv, IInv, Types, Kinds, TypeOK
<1> QED
    BY <1>1, Invariants, PTL

\* The numbers keep the IDs of two reconcilers with the same types in full
\* apart, in whatever order a program registers them.
THEOREM IDsKeptApart == Spec => []IDsApart
<1>1. Inv => IDsApart
    BY RegistrationApart DEF Inv
<1> QED
    BY <1>1, Invariants, PTL

\* When everything has been handled and no call has failed, the outputs of a
\* reconciler whose types have their handlers are what the objects call for:
\* no CRD that came late leaves work for the next resync, in any order of the
\* rounds, the events and the runs.
THEOREM ResyncNotNeeded == Spec => []NothingLeftToResync
<1>1. ASSUME Inv, Settled, failures = 0, NEW r \in RangeOf(Reconcilers),
             r.primary \in exists, ~Collides(r),
             \A k \in {r.primary, r.output} \cup Fetched(r) : Watched(k)
      PROVE  InPlace(r)
    <2>1. Reached(r)
        BY <1>1 DEF Reached, Watched
    <2>2. {r.primary, r.output} \cup Fetched(r) \subseteq informers
        BY <1>1, <2>1, ReachedInformed DEF Inv
    <2>3. /\ \A k \in {r.primary, r.output} \cup Fetched(r) : k \in cached <=> k \in exists
          /\ r.primary \in cached
        BY <1>1, <2>2 DEF Settled, Inv, Kinds
    <2>4. ToRun(r) \/ ToRoute(r) \/ Fresh(r)
        BY <1>1, <2>1, <2>3 DEF Settled, Unsynced, Inv, AllCovered, Covered
    <2>5. start.plan = <<>> /\ retry.plan = <<>> /\ retry.at # "register"
        BY <1>1 DEF Settled, Inv, Kinds
    <2>6. ~ToRun(r)
        BY <1>1, <2>5 DEF Settled, ToRun, RangeOf, Idle
    <2>7. ~ToRoute(r)
        <3>1. Fetched(r) \subseteq GVKs
            BY <1>1, ReconcilerTypes DEF Inv
        <3> QED
            BY <1>1, <3>1 DEF Settled, ToRoute, Idle
    <2> QED
        BY <2>3, <2>4, <2>6, <2>7 DEF Fresh, InPlace
<1>2. Inv => NothingLeftToResync
    BY <1>1 DEF NothingLeftToResync
<1> QED
    BY <1>2, Invariants, PTL

\* gcOrphans deletes no output of a reconciler that some goroutine has run
\* since the start, unless its ID is another's too: what has been run is on
\* record, whether or not its apply has succeeded.
THEOREM RunNotCollected == Spec => OnlyOrphansCollected
<1> DEFINE Keeps == GcOrphans => \A r \in RangeOf(Reconcilers) :
                        made[r] # "absent" /\ made'[r] = "absent" => r \notin ran \/ Collides(r)
<1>1. Inv /\ [Next]_vars => [Keeps]_vars
    <2> SUFFICES ASSUME Inv, GcOrphans, NEW r \in ran, ~Collides(r)
                 PROVE  made'[r] = made[r]
        OBVIOUS
    <2> QED
        BY GcOrphansKeep
<1> QED
    BY <1>1, Invariants, PTL DEF Spec, OnlyOrphansCollected
===============================================================================
