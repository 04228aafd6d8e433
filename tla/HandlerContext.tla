---------------------------- MODULE HandlerContext ----------------------------
(***************************************************************************)
(* context.go: what a reconciler function reads through its                *)
(* HandlerContext, and the dependencies that the reads declare.            *)
(***************************************************************************)
EXTENDS ObjectStore, SequencesExt, TLC

NoLabels == [l \in {} |-> l]

\* A Filter with its fields unset, and the constructors.
NoFilter            == [name |-> Unset, ns |-> Unset, labels |-> NoLabels]
FilterName(nm, ns)  == [NoFilter EXCEPT !.name = nm, !.ns = ns]
FilterNamespace(ns) == [NoFilter EXCEPT !.ns = ns]
FilterLabel(labels) == [NoFilter EXCEPT !.labels = labels]

\* mergeFilters: a later name or namespace wins, labels add up.
mergeFilters(filters) ==
    LET Later(old, new) == IF new = Unset THEN old ELSE new IN
    FoldLeft(LAMBDA m, f : [name   |-> Later(m.name, f.name), ns |-> Later(m.ns, f.ns),
                            labels |-> f.labels @@ m.labels],
             NoFilter, filters)

\* A read is [all, gvk, filters]: FetchAll or Fetch.  A Fetch without a name
\* is a FetchAll of which it takes the first.
IsBroad(read) == read.all \/ mergeFilters(read.filters).name = Unset

\* Mutant: the namespace of the filter is not taken over.
KeyRead_AnyNamespace(read) ==
    [gvk |-> read.gvk, ns |-> Unset, name |-> mergeFilters(read.filters).name]

\* The key that a read by name is for.
KeyRead(read) ==
    LET f == mergeFilters(read.filters) IN [gvk |-> read.gvk, ns |-> f.ns, name |-> f.name]

narrowDeps(reads) == {KeyRead(r) : r \in {q \in reads : ~IsBroad(q)}}

\* Mutant: reads of a list are not followed.
broadDeps_None(reads) == {}

\* The namespace may be unset; labels do not narrow the dependency.
broadDeps(reads) ==
    {[gvk |-> r.gvk, ns |-> mergeFilters(r.filters).ns] : r \in {q \in reads : IsBroad(q)}}

\* What the read returns, as a set: empty for the zero value.
Fetched(s, read) ==
    LET f    == mergeFilters(read.filters)
        list == List(s, read.gvk, f.ns, f.labels)
    IN  IF ~IsBroad(read) THEN {Get(s, KeyRead(read))} \ {None}
        ELSE IF read.all \/ list = {} THEN list
        ELSE {CHOOSE o \in list : TRUE}
=============================================================================
