-------------------------------- MODULE Loops --------------------------------
(***************************************************************************)
(* A loop over a list as a recursive function, the form that the calls of  *)
(* TestHarness have.  Step is the body of the loop, with what stays the    *)
(* same during the loop as its first argument; Inv(s, _) is what the body  *)
(* preserves.  A module that proves about a loop takes the two lemmas with *)
(* INSTANCE, once for each body.                                           *)
(*                                                                         *)
(* The induction is that of the least counterexample: the natural numbers  *)
(* are well founded, which the library states without a parameter.         *)
(***************************************************************************)
EXTENDS Integers, Sequences, WellFoundedInduction, TLAPS

CONSTANTS Step(_, _, _), Inv(_, _)

\* A set of numbers that holds 0 and is closed under successor holds them all.
LEMMA AllNumbers ==
    ASSUME NEW T \in SUBSET Nat, 0 \in T, \A n \in T : n + 1 \in T
    PROVE  T = Nat
<1> DEFINE R == OpToRel(<, Nat)
<1>1. IsWellFoundedOn(R, Nat) BY NatLessThanWellFounded, Zenon
<1>2. SUFFICES ASSUME Nat \ T # {} PROVE FALSE OBVIOUS
<1>3. PICK x \in Nat \ T : \A y \in Nat \ T : <<y, x>> \notin R
  <2> HIDE DEF R
  <2> QED BY <1>1, <1>2, WFMin
<1>4. x - 1 \in Nat /\ x - 1 < x
  <2> HIDE DEF R
  <2>1. x # 0 BY <1>3
  <2>2. QED BY <2>1
<1>5. x - 1 \in Nat \ T BY <1>4
<1>6. <<x - 1, x>> \in R BY <1>4 DEF OpToRel
<1>7. QED BY <1>3, <1>5, <1>6

\* The same, up to the end of a list.
LEMMA UpTo ==
    ASSUME NEW N \in Nat, NEW T, 0 \in T, \A n \in 1 .. N : n - 1 \in T => n \in T
    PROVE  0 .. N \subseteq T
<1> DEFINE U == {n \in Nat : n <= N => n \in T}
<1>1. 0 \in U OBVIOUS
<1>2. ASSUME NEW n \in U PROVE n + 1 \in U
  <2>1. CASE n + 1 > N BY <2>1
  <2>2. CASE n + 1 <= N
    <3>1. n \in T /\ n + 1 \in 1 .. N /\ (n + 1) - 1 = n BY <2>2
    <3>2. QED BY <3>1
  <2>3. QED BY <2>1, <2>2
<1>3. U = Nat
  <2> HIDE DEF U
  <2> QED BY <1>1, <1>2, AllNumbers DEF U
<1>4. QED BY <1>3

Loop(c, h, items) ==
    LET after[n \in 0 .. Len(items)] == IF n = 0 THEN h ELSE Step(c, after[n - 1], items[n])
    IN  after[Len(items)]

\* There is a sequence of states from the first to the last, each made of the
\* one before it by the body of the loop.
LEMMA Unfolds ==
    ASSUME NEW c, NEW h, NEW items, Len(items) \in Nat
    PROVE  \E f : /\ f[0] = h
                  /\ \A n \in 1 .. Len(items) : f[n] = Step(c, f[n - 1], items[n])
                  /\ Loop(c, h, items) = f[Len(items)]
<1> DEFINE N == Len(items)
           Is(f, m) == f = [n \in 0 .. m |-> IF n = 0 THEN h ELSE Step(c, f[n - 1], items[n])]
           T == {m \in 0 .. N : \E f : Is(f, m)}
           w == CHOOSE f : Is(f, N)
<1>1. 0 \in T
  <2>1. Is([n \in 0 .. 0 |-> h], 0) OBVIOUS
  <2>2. 0 \in 0 .. N OBVIOUS
  <2> HIDE DEF Is, N
  <2>3. QED BY <2>1, <2>2
<1>2. ASSUME NEW m \in 1 .. N, m - 1 \in T PROVE m \in T
  <2>1. PICK f : Is(f, m - 1) BY <1>2
  <2> DEFINE g == [n \in 0 .. m |-> IF n = m THEN Step(c, f[m - 1], items[m]) ELSE f[n]]
  <2>2. ASSUME NEW n \in 0 .. m PROVE g[n] = IF n = 0 THEN h ELSE Step(c, g[n - 1], items[n])
    <3>1. CASE n = m BY <3>1
    <3>2. CASE n # m
      <4>1. n \in 0 .. (m - 1) /\ g[n] = f[n] BY <3>2
      <4>2. f[n] = IF n = 0 THEN h ELSE Step(c, f[n - 1], items[n]) BY <4>1, <2>1
      <4>3. n # 0 => n - 1 \in 0 .. m /\ n - 1 # m BY <4>1
      <4>4. QED BY <4>1, <4>2, <4>3
    <3>3. QED BY <3>1, <3>2
  <2>3. Is(g, m)
    <3> HIDE DEF g
    <3>1. g = [n \in 0 .. m |-> g[n]] BY DEF g
    <3>2. QED BY <2>2, <3>1
  <2>4. m \in 0 .. N BY <1>2
  <2> HIDE DEF Is, N, g
  <2>5. QED BY <2>3, <2>4
<1>3. N \in T
  <2>1. N \in Nat OBVIOUS
  <2> HIDE DEF T, N
  <2>2. QED BY <1>1, <1>2, <2>1, UpTo
<1>4. Is(w, N)
  <2>1. \E f : Is(f, N) BY <1>3
  <2> HIDE DEF Is, N
  <2>2. QED BY <2>1
<1>5. w[0] = h /\ \A n \in 1 .. N : w[n] = Step(c, w[n - 1], items[n])
  <2> HIDE DEF w
  <2> QED BY <1>4
<1>6. Loop(c, h, items) = w[N] BY DEF Loop
<1> HIDE DEF w
<1>7. QED BY <1>5, <1>6

\* What holds at the start and is preserved by the body, for every item of the
\* list, holds at the end.
LEMMA Preserves ==
    ASSUME NEW c, NEW s, NEW h, Inv(s, h), NEW items, Len(items) \in Nat,
           \A n \in 1 .. Len(items) : \A g : Inv(s, g) => Inv(s, Step(c, g, items[n]))
    PROVE  Inv(s, Loop(c, h, items))
<1> DEFINE N == Len(items)
<1>1. PICK f : /\ f[0] = h
               /\ \A n \in 1 .. N : f[n] = Step(c, f[n - 1], items[n])
               /\ Loop(c, h, items) = f[N]
  BY Unfolds
<1> DEFINE T == {n \in 0 .. N : Inv(s, f[n])}
<1>2. N \in T
  <2>1. 0 \in T BY <1>1
  <2>2. ASSUME NEW n \in 1 .. N, n - 1 \in T PROVE n \in T BY <1>1, <2>2
  <2>3. N \in Nat OBVIOUS
  <2> HIDE DEF T, N
  <2>4. 0 .. N \subseteq T BY <2>1, <2>2, <2>3, UpTo
  <2>5. QED BY <2>3, <2>4
<1>3. QED BY <1>1, <1>2
=============================================================================
