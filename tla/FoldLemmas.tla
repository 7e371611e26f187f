----------------------------- MODULE FoldLemmas -----------------------------
(***************************************************************************)
(* What FoldLeft computes, for any step and start, and induction over the  *)
(* naturals and over sequences.  Both inductions are about a set instead   *)
(* of a predicate, which is what a first-order prover can be given; they   *)
(* rest on the well-foundedness of < alone.  A module that folds with some *)
(* Step of its own takes the lemmas with INSTANCE ... WITH Step <- ...     *)
(***************************************************************************)
EXTENDS SequencesExt, SequenceTheorems, WellFoundedInduction, TLAPS

CONSTANTS Step(_, _), Base

Fold(s) == FoldLeft(Step, Base, s)

-----------------------------------------------------------------------------
(* Induction *)

\* A set of numbers that is not empty has a least one.
LEMMA NatMinimum ==
    ASSUME NEW S \in SUBSET Nat, S # {}
    PROVE  \E m \in S : \A n \in S : m <= n
  <1> DEFINE R == {ss \in Nat \X Nat : ss[1] < ss[2]}
  <1>1. IsWellFoundedOn(R, Nat)
    BY NatLessThanWellFounded, Zenon DEF OpToRel
  <1>2. PICK m \in S : \A n \in S : <<n, m>> \notin R
    <2> HIDE DEF R
    <2> QED BY <1>1, WFMin, Zenon
  <1>3. ASSUME NEW n \in S PROVE m <= n
    <2>1. <<n, m>> \notin R BY <1>2, Zenon
    <2> QED BY <2>1, SMT
  <1> QED BY <1>3

\* A set of numbers that is not empty has its Min.
LEMMA MinOfSet ==
    ASSUME NEW S \in SUBSET Nat, S # {}
    PROVE  Min(S) \in S /\ \A n \in S : Min(S) <= n
  <1>1. \E m \in S : \A n \in S : m <= n BY NatMinimum
  <1> QED BY <1>1, Zenon DEF Min

\* Induction over the naturals: S holds 0 and with n also n + 1.
LEMMA NatInduct ==
    ASSUME NEW S, 0 \in S, \A n \in Nat : n \in S => n + 1 \in S
    PROVE  Nat \subseteq S
  <1> DEFINE T == Nat \ S
  <1> SUFFICES ASSUME T # {} PROVE FALSE
    OBVIOUS
  <1>1. PICK m \in T : \A n \in T : m <= n
    <2>1. T \in SUBSET Nat OBVIOUS
    <2> HIDE DEF T
    <2> QED BY <2>1, NatMinimum
  <1> QED BY <1>1, m - 1 \in Nat \/ m = 0, m - 1 + 1 = m

\* Induction over sequences: S holds the empty one and with s also s and one item more.
LEMMA SeqInduct ==
    ASSUME NEW C, NEW S, <<>> \in S,
           \A s \in Seq(C), c \in C : s \in S => Append(s, c) \in S
    PROVE  Seq(C) \subseteq S
  <1> DEFINE T == {n \in Nat : \A s \in Seq(C) : Len(s) = n => s \in S}
  <1>1. 0 \in T
    <2>1. \A s \in Seq(C) : Len(s) = 0 => s = <<>> BY EmptySeq
    <2> QED BY <2>1
  <1>2. ASSUME NEW n \in Nat, n \in T PROVE n + 1 \in T
    <2> SUFFICES ASSUME NEW s \in Seq(C), Len(s) = n + 1 PROVE s \in S
      OBVIOUS
    <2> DEFINE r == SubSeq(s, 1, n)
    <2>1. r \in Seq(C) /\ Len(r) = n /\ s[n + 1] \in C OBVIOUS
    <2>2. s = Append(r, s[n + 1]) BY <2>1
    <2>3. r \in S BY <1>2, <2>1
    <2> HIDE DEF r
    <2> QED BY <2>1, <2>2, <2>3
  <1>3. Nat \subseteq T
    <2> HIDE DEF T
    <2> QED BY <1>1, <1>2, NatInduct
  <1> QED BY <1>3

-----------------------------------------------------------------------------
(* The fold *)

\* The function by which the community modules define a fold, over the set D of indices.
Rec(f, D, s) ==
    f = [T \in SUBSET D |-> IF T = {} THEN Base ELSE Step(f[T \ {Max(T)}], s[Max(T)])]

\* FoldLeft is the function that MapThenFoldSet chooses, which takes the last item away.
LEMMA FoldIsRec == \A s : Fold(s) = (CHOOSE f : Rec(f, DOMAIN s, s))[DOMAIN s]
  BY Zenon DEF Fold, FoldLeft, MapThenFoldSet, Rec

\* The greatest position of a sequence.
LEMMA MaxTop == ASSUME NEW n \in Nat, NEW T \in SUBSET (1..n+1), n + 1 \in T PROVE Max(T) = n + 1
  <1>1. \A x \in T : n + 1 >= x BY SMT
  <1>2. \A x \in T : (\A y \in T : x >= y) => x = n + 1 BY SMT
  <1> QED BY <1>1, <1>2, Zenon DEF Max

\* There is such a function for the positions up to n.
LEMMA RecExists == ASSUME NEW s, NEW n \in Nat PROVE \E f : Rec(f, 1..n, s)
  <1> DEFINE S == {k \in Nat : \E f : Rec(f, 1..k, s)}
  <1>1. 0 \in S
    <2> DEFINE f == [T \in SUBSET (1..0) |-> Base]
    <2>1. \A T \in SUBSET (1..0) : T = {} BY SMT
    <2>2. Rec(f, 1..0, s) BY <2>1, Zenon DEF Rec
    <2> QED BY <2>2, Zenon
  <1>2. ASSUME NEW k \in Nat, k \in S PROVE k + 1 \in S
    <2>1. PICK f : Rec(f, 1..k, s) BY <1>2
    <2> DEFINE V(T, g) == IF T = {} THEN Base ELSE Step(g[T \ {Max(T)}], s[Max(T)])
               g == [T \in SUBSET (1..k+1) |->
                        IF k + 1 \in T THEN Step(f[T \ {k + 1}], s[k + 1]) ELSE f[T]]
    <2>2. ASSUME NEW T \in SUBSET (1..k+1) PROVE g[T] = V(T, g)
      <3>1. CASE k + 1 \in T
        <4>1. Max(T) = k + 1 BY <3>1, MaxTop
        <4>2. T \ {k + 1} \in SUBSET (1..k+1) /\ k + 1 \notin T \ {k + 1} OBVIOUS
        <4>3. g[T \ {k + 1}] = f[T \ {k + 1}] BY <4>2, Zenon
        <4>4. g[T] = Step(f[T \ {k + 1}], s[k + 1]) BY <3>1, Zenon
        <4>5. T # {} BY <3>1
        <4> QED BY <4>1, <4>3, <4>4, <4>5, Zenon
      <3>2. CASE k + 1 \notin T
        <4>1. T \in SUBSET (1..k) BY <3>2, SMT
        <4>2. g[T] = f[T] BY <3>2, Zenon
        <4>3. f[T] = V(T, f) BY <4>1, <2>1, Zenon DEF Rec
        <4>4. CASE T = {} BY <4>2, <4>3, <4>4, Zenon
        <4>5. CASE T # {}
          <5>1. T \ {Max(T)} \in SUBSET (1..k+1) /\ k + 1 \notin T \ {Max(T)}
            BY <3>2, Zenon
          <5>2. g[T \ {Max(T)}] = f[T \ {Max(T)}] BY <5>1, Zenon
          <5> QED BY <4>2, <4>3, <4>5, <5>2, Zenon
        <4> QED BY <4>4, <4>5, Zenon
      <3> QED BY <3>1, <3>2, Zenon
    <2>3. Rec(g, 1..k+1, s)
      <3>1. g = [T \in SUBSET (1..k+1) |-> g[T]] BY Zenon
      <3> HIDE DEF g
      <3>2. g = [T \in SUBSET (1..k+1) |-> V(T, g)] BY <3>1, <2>2, Zenon
      <3> QED BY <3>2, Zenon DEF Rec
    <2>4. \E h : Rec(h, 1..k+1, s) BY <2>3, Zenon
    <2> QED BY <2>4, SMT
  <1>3. n \in S
    <2> HIDE DEF S
    <2> QED BY <1>1, <1>2, NatInduct
  <1> QED BY <1>3

\* Two such functions agree where their sequences do.
LEMMA RecSame ==
    ASSUME NEW s, NEW t, NEW m \in Nat, NEW n \in Nat, m <= n,
           \A i \in 1..m : s[i] = t[i],
           NEW f, NEW g, Rec(f, 1..m, s), Rec(g, 1..n, t)
    PROVE  f[1..m] = g[1..m]
  <1> DEFINE S == {k \in Nat : k <= m => f[1..k] = g[1..k]}
  <1>1. 0 \in S
    <2>1. {} \in SUBSET (1..m) /\ {} \in SUBSET (1..n) OBVIOUS
    <2>2. f[{}] = Base /\ g[{}] = Base BY <2>1, Zenon DEF Rec
    <2>3. 1..0 = {} BY SMT
    <2> QED BY <2>2, <2>3
  <1>2. ASSUME NEW k \in Nat, k \in S PROVE k + 1 \in S
    <2> SUFFICES ASSUME k + 1 <= m PROVE f[1..k+1] = g[1..k+1]
      BY SMT
    <2> DEFINE T == 1..k+1
    <2>0. (\A x \in T : x \in 1..m /\ x \in 1..n) /\ k + 1 \in T BY SMT
    <2>1. T \in SUBSET (1..m) /\ T \in SUBSET (1..n) /\ k + 1 \in T /\ T # {}
      <3> HIDE DEF T
      <3> QED BY <2>0
    <2>2. Max(T) = k + 1 BY MaxTop
    <2>3. T \ {k + 1} = 1..k BY SMT
    <2>4. f[1..k] = g[1..k] BY <1>2, SMT
    <2>5. s[k+1] = t[k+1] BY SMT
    <2> HIDE DEF T
    <2>6. f[T] = Step(f[1..k], s[k+1]) BY <2>1, <2>2, <2>3, ZenonT(30) DEF Rec
    <2>7. g[T] = Step(g[1..k], t[k+1]) BY <2>1, <2>2, <2>3, Zenon DEF Rec
    <2>8. f[T] = g[T] BY <2>4, <2>5, <2>6, <2>7
    <2> QED BY <2>8 DEF T
  <1>3. m \in S
    <2> HIDE DEF S
    <2> QED BY <1>1, <1>2, NatInduct
  <1> QED BY <1>3

\* The fold of the empty sequence is Base.
LEMMA FoldEmpty == Fold(<<>>) = Base
  <1> DEFINE f == CHOOSE f : Rec(f, DOMAIN <<>>, <<>>)
  <1>1. DOMAIN <<>> = 1..0 BY SMT
  <1>2. Rec(f, DOMAIN <<>>, <<>>) BY <1>1, RecExists, Zenon
  <1>3. 1..0 = {} BY SMT
  <1> HIDE DEF f
  <1>4. f[{}] = Base BY <1>1, <1>2, <1>3, Zenon DEF Rec
  <1> QED BY <1>1, <1>3, <1>4, FoldIsRec, Zenon DEF f

\* The fold of one item more is one Step from the fold before.
LEMMA FoldAppend ==
    ASSUME NEW C, NEW s \in Seq(C), NEW c \in C
    PROVE  Fold(Append(s, c)) = Step(Fold(s), c)
  <1> DEFINE t == Append(s, c)
             n == Len(s)
             f == CHOOSE f : Rec(f, DOMAIN s, s)
             g == CHOOSE g : Rec(g, DOMAIN t, t)
  <1>1. /\ n \in Nat /\ DOMAIN s = 1..n /\ DOMAIN t = 1..n+1 /\ t[n+1] = c
        /\ \A i \in 1..n : s[i] = t[i]
    OBVIOUS
  <1>2. Rec(f, 1..n, s) BY <1>1, RecExists, Zenon
  <1>3. Rec(g, 1..n+1, t)
    <2>1. n + 1 \in Nat BY <1>1
    <2> QED BY <1>1, <2>1, RecExists, Zenon
  <1>4. Fold(s) = f[1..n] /\ Fold(t) = g[1..n+1] BY <1>1, FoldIsRec, Zenon
  <1> HIDE DEF f, g, t, n
  <1>5. f[1..n] = g[1..n]
    <2>1. n + 1 \in Nat /\ n <= n + 1 BY <1>1
    <2> QED BY <1>1, <1>2, <1>3, <2>1, RecSame
  <1>6. n + 1 \in 1..n+1 /\ (1..n+1) \ {n + 1} = 1..n
    BY <1>1, SMT
  <1>7. Max(1..n+1) = n + 1 BY <1>1, <1>6, MaxTop
  <1>8. g[1..n+1] = Step(g[1..n], t[n+1])
    <2> DEFINE T == 1..n+1
    <2> HIDE DEF T
    <2>1. ASSUME T \in SUBSET T, T # {}, Max(T) = n + 1, T \ {n + 1} = 1..n, Rec(g, T, t)
          PROVE  g[T] = Step(g[1..n], t[n+1])
      BY <2>1, Zenon DEF Rec
    <2>2. T # {} BY <1>6, Zenon DEF T
    <2> QED BY <1>3, <1>6, <1>7, <2>1, <2>2, Zenon DEF T
  <1> QED BY <1>1, <1>4, <1>5, <1>8 DEF t
=============================================================================
