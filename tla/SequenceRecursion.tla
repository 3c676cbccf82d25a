--------------------------- MODULE SequenceRecursion ---------------------------
(***************************************************************************)
(* Induction and recursion over sequences, for the proofs about recursive  *)
(* functions of the modules.  A property is a set and a recursive step is  *)
(* a function, so that every fact here is first-order and can be cited.    *)
(***************************************************************************)
EXTENDS Naturals, Sequences, SequenceTheorems, WellFoundedInduction, TLAPS

\* Every nonempty set of natural numbers has a least element.
LEMMA LeastElement ==
  ASSUME NEW T \in SUBSET Nat, T # {}
  PROVE  \E n \in T : \A m \in T : n <= m
<1>1. PICK n \in T : \A m \in T : ~ (<<m, n>> \in OpToRel(<, Nat))
  BY NatLessThanWellFounded, WFMin
<1>2. ASSUME NEW m \in T PROVE n <= m
  <2>1. <<m, n>> \in Nat \X Nat
    OBVIOUS
  <2>2. ~ (m < n)
    BY <1>1, <2>1 DEF OpToRel
  <2> QED
    BY <2>1, <2>2
<1> QED
  BY <1>2

\* Induction over the natural numbers, for the property of being in T.
LEMMA NatSetInduction ==
  ASSUME NEW T, 0 \in T, \A n \in Nat : n \in T => n + 1 \in T
  PROVE  Nat \subseteq T
<1> SUFFICES ASSUME Nat \ T # {} PROVE FALSE
  OBVIOUS
<1>1. PICK n \in Nat \ T : \A m \in Nat \ T : n <= m
  BY LeastElement, Nat \ T \in SUBSET Nat
<1>2. n - 1 \in Nat /\ n = (n - 1) + 1
  BY n # 0
<1> QED
  BY <1>1, <1>2

\* Induction over sequences: what holds of the empty sequence, and of every
\* sequence of whose tail it holds, holds of all.
LEMMA SeqSetInduction ==
  ASSUME NEW S, NEW T, <<>> \in T,
         \A s \in Seq(S) : s # <<>> /\ Tail(s) \in T => s \in T
  PROVE  Seq(S) \subseteq T
<1> DEFINE N == {n \in Nat : \A s \in Seq(S) : Len(s) = n => s \in T}
<1>1. 0 \in N
  BY EmptySeq
<1>2. ASSUME NEW n \in Nat, n \in N PROVE n + 1 \in N
  <2> SUFFICES ASSUME NEW s \in Seq(S), Len(s) = n + 1 PROVE s \in T
    OBVIOUS
  <2>1. s # <<>>
    BY EmptySeq
  <2>2. Tail(s) \in Seq(S) /\ Len(Tail(s)) = n
    BY <2>1, HeadTailProperties
  <2> QED
    BY <1>2, <2>1, <2>2
<1>3. Nat \subseteq N
  <2> HIDE DEF N
  <2> QED
    BY <1>1, <1>2, NatSetInduction
<1> QED
  BY <1>3, LenProperties

\* f is the recursive function with this base and step.
IsRecursive(f, S, base, step) ==
  \A s \in Seq(S) :
    f[s] = IF s = <<>> THEN base ELSE step[<<Head(s), f[Tail(s)]>>]

\* g is that function for sequences up to a length.
Solves(g, S, base, step, n) ==
  \A s \in Seq(S) : Len(s) <= n =>
    g[s] = IF s = <<>> THEN base ELSE step[<<Head(s), g[Tail(s)]>>]

\* The base and the step determine a recursive function on sequences, up to
\* any length.
LEMMA SeqRecursionUnique ==
  ASSUME NEW S, NEW base, NEW step, NEW n \in Nat, NEW g, NEW h,
         Solves(g, S, base, step, n), Solves(h, S, base, step, n)
  PROVE  \A s \in Seq(S) : Len(s) <= n => g[s] = h[s]
<1> DEFINE T == {s \in Seq(S) : Len(s) <= n => g[s] = h[s]}
<1>1. <<>> \in T
  BY EmptySeq DEF Solves
<1>2. ASSUME NEW s \in Seq(S), s # <<>>, Tail(s) \in T PROVE s \in T
  <2>1. Tail(s) \in Seq(S) /\ Len(Tail(s)) = Len(s) - 1 /\ Len(s) \in Nat
    BY <1>2, HeadTailProperties, LenProperties
  <2> SUFFICES ASSUME Len(s) <= n PROVE g[s] = h[s]
    OBVIOUS
  <2>2. g[Tail(s)] = h[Tail(s)]
    BY <1>2, <2>1
  <2>3. g[s] = step[<<Head(s), g[Tail(s)]>>] /\ h[s] = step[<<Head(s), h[Tail(s)]>>]
    BY <1>2 DEF Solves
  <2> QED
    BY <2>2, <2>3
<1>3. Seq(S) \subseteq T
  <2> HIDE DEF T
  <2> QED
    BY <1>1, <1>2, SeqSetInduction
<1> QED
  BY <1>3

\* There is one for every length.
LEMMA SeqRecursionBounded ==
  ASSUME NEW S, NEW V, NEW base \in V, NEW step \in [S \X V -> V], NEW n \in Nat
  PROVE  \E g \in [Seq(S) -> V] : Solves(g, S, base, step, n)
<1> DEFINE N == {m \in Nat : \E g \in [Seq(S) -> V] : Solves(g, S, base, step, m)}
<1>1. 0 \in N
  <2>1. [s \in Seq(S) |-> base] \in [Seq(S) -> V]
    OBVIOUS
  <2>2. \A s \in Seq(S) : Len(s) <= 0 => s = <<>>
    BY EmptySeq, LenProperties
  <2>3. Solves([s \in Seq(S) |-> base], S, base, step, 0)
    BY <2>2 DEF Solves
  <2> QED
    BY <2>1, <2>3
<1>2. ASSUME NEW m \in Nat, m \in N PROVE m + 1 \in N
  <2>1. PICK g \in [Seq(S) -> V] : Solves(g, S, base, step, m)
    BY <1>2
  <2>2. PICK h : h = [s \in Seq(S) |->
                       IF s = <<>> THEN base ELSE step[<<Head(s), g[Tail(s)]>>]]
    OBVIOUS
  <2>3. h \in [Seq(S) -> V]
    BY <2>2, HeadTailProperties
  <2>4. ASSUME NEW s \in Seq(S), Len(s) <= m + 1, s # <<>>
        PROVE  h[Tail(s)] = g[Tail(s)]
    <3>1. Tail(s) \in Seq(S) /\ Len(Tail(s)) <= m
      BY <2>4, HeadTailProperties, LenProperties
    <3> QED
      BY <2>1, <2>2, <3>1 DEF Solves
  <2>5. Solves(h, S, base, step, m + 1)
    BY <2>2, <2>4 DEF Solves
  <2> QED
    BY <2>3, <2>5
<1>3. Nat \subseteq N
  <2> HIDE DEF N
  <2> QED
    BY <1>1, <1>2, NatSetInduction
<1> QED
  BY <1>3

\* A recursive function on sequences exists: it has a base for the empty
\* sequence and computes its value from the head and its value of the tail.
THEOREM SeqRecursion ==
  ASSUME NEW S, NEW V, NEW base \in V, NEW step \in [S \X V -> V]
  PROVE  \E f \in [Seq(S) -> V] : IsRecursive(f, S, base, step)
<1>1. PICK sol : \A n \in Nat :
        sol[n] \in [Seq(S) -> V] /\ Solves(sol[n], S, base, step, n)
  <2> DEFINE Sol(n) == {g \in [Seq(S) -> V] : Solves(g, S, base, step, n)}
  <2>1. PICK sol : sol = [n \in Nat |-> CHOOSE g \in Sol(n) : TRUE]
    OBVIOUS
  <2>2. ASSUME NEW n \in Nat PROVE sol[n] \in Sol(n)
    <3>1. Sol(n) # {}
      BY SeqRecursionBounded
    <3> HIDE DEF Sol
    <3> QED
      BY <2>1, <3>1
  <2> QED
    BY <2>2
<1>2. PICK f : f = [s \in Seq(S) |-> sol[Len(s)][s]]
  OBVIOUS
<1>3. f \in [Seq(S) -> V]
  BY <1>1, <1>2, LenProperties
<1>4. ASSUME NEW s \in Seq(S)
      PROVE  f[s] = IF s = <<>> THEN base ELSE step[<<Head(s), f[Tail(s)]>>]
  <2>1. Len(s) \in Nat
    BY LenProperties
  <2>2. f[s] = IF s = <<>> THEN base ELSE step[<<Head(s), sol[Len(s)][Tail(s)]>>]
    BY <1>1, <1>2, <2>1 DEF Solves
  <2>3. CASE s = <<>>
    BY <2>2, <2>3
  <2>4. CASE s # <<>>
    <3>1. PICK n \in Nat : n = Len(Tail(s)) /\ Len(s) = n + 1 /\ Tail(s) \in Seq(S)
      <4>1. Tail(s) \in Seq(S) /\ Len(Tail(s)) = Len(s) - 1
        BY <2>4, HeadTailProperties
      <4>2. Len(Tail(s)) \in Nat
        BY <4>1, LenProperties
      <4>3. Len(s) = Len(Tail(s)) + 1
        BY <2>1, <4>1
      <4> QED
        BY <4>1, <4>2, <4>3
    <3>2. PICK g, h : g = sol[n] /\ h = sol[Len(s)]
      OBVIOUS
    <3>3. Solves(g, S, base, step, n) /\ Solves(h, S, base, step, Len(s))
      BY <1>1, <2>1, <3>2
    <3>4. Solves(h, S, base, step, n)
      BY <2>1, <3>1, <3>3, LenProperties DEF Solves
    <3>5. \A t \in Seq(S) : Len(t) <= n => g[t] = h[t]
      BY <3>3, <3>4, SeqRecursionUnique
    <3>6. g[Tail(s)] = h[Tail(s)]
      <4>1. Len(Tail(s)) <= n
        BY <3>1
      <4> QED
        BY <3>1, <3>5, <4>1, Zenon
    <3> QED
      BY <1>2, <2>2, <2>4, <3>1, <3>2, <3>6
  <2> QED
    BY <2>3, <2>4
<1> QED
  BY <1>3, <1>4 DEF IsRecursive
=============================================================================
