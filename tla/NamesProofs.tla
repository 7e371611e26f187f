----------------------------- MODULE NamesProofs -----------------------------
(***************************************************************************)
(* Labels, names and zones: what the run names checks on short strings     *)
(* holds for strings of every length over any alphabet.  The functions are *)
(* folds over a text; each is first described by what one character more   *)
(* adds to it (FoldLemmas), and the rest is induction over the text.       *)
(***************************************************************************)
EXTENDS NamesAndMarkers, SequenceTheorems, TLAPS

-----------------------------------------------------------------------------
(* Random labels *)

\* The bytes drawn always hold enough base 32 digits, whatever is rounded away.
LEMMA EnoughDigits ==
    ASSUME NEW length \in Nat \ {0} PROVE Digits(ByteCount(length)) >= length
  <1> DEFINE n == ByteCount(length)
  <1>1. n \in Nat /\ 8 * n >= 5 * length + 1
    BY SMT DEF ByteCount, CeilDiv
  <1> HIDE DEF n
  <1>2. (8 * n + 4) \div 5 >= length
    BY <1>1, SMT
  <1> QED BY <1>1, <1>2, SMT DEF Digits, CeilDiv, n

\* A random label is never shorter than dns.label_length, whatever length is set.
THEOREM DrawnLabels == \A length \in Nat \ {0} : DrawnLength(length) = length
  <1> SUFFICES ASSUME NEW length \in Nat \ {0} PROVE DrawnLength(length) = length
    OBVIOUS
  <1>1. Digits(ByteCount(length)) >= length BY EnoughDigits
  <1>2. Digits(ByteCount(length)) \in Int BY SMT DEF Digits, ByteCount, CeilDiv
  <1> QED BY <1>1, <1>2, SMT DEF DrawnLength

-----------------------------------------------------------------------------
(* Labels of projects *)

D == INSTANCE FoldLemmas WITH Step <- Dash, Base <- <<>>
J == INSTANCE FoldLemmas WITH Step <- Join, Base <- <<>>

\* Dashed is a fold, one character at a time.
LEMMA DashedIsFold == \A s : Dashed(s) = D!Fold(s)
  BY Zenon DEF Dashed, D!Fold, FoldLeft, D!FoldLeft, MapThenFoldSet, D!MapThenFoldSet, Max, D!Max

\* Nothing makes no dashed text.
LEMMA DashedEmpty == Dashed(<<>>) = <<>>
  BY DashedIsFold, D!FoldEmpty, Zenon

\* What one character more adds to the dashed text.
LEMMA DashedAppend ==
    ASSUME NEW C, NEW s \in Seq(C), NEW c \in C
    PROVE  Dashed(Append(s, c)) = Dash(Dashed(s), c)
  BY DashedIsFold, D!FoldAppend, Zenon

Lowered(s) == Dashed(LowerAll(s))

\* The same of the dashed text in lower case.
LEMMA LoweredEmpty == Lowered(<<>>) = <<>>
  <1>1. LowerAll(<<>>) = <<>> BY DEF LowerAll
  <1> QED BY <1>1, DashedEmpty DEF Lowered

\* The same of the dashed text in lower case, one character more.
LEMMA LoweredAppend ==
    ASSUME NEW C, NEW s \in Seq(C), NEW c \in C
    PROVE  Lowered(Append(s, c)) = Dash(Lowered(s), Lower(c))
  <1> DEFINE E == C \cup {"x"}
  <1>1. LowerAll(s) \in Seq(E) /\ Lower(c) \in E BY DEF LowerAll, Lower
  <1>2. LowerAll(Append(s, c)) = Append(LowerAll(s), Lower(c)) BY DEF LowerAll, Lower
  <1> HIDE DEF E
  <1> QED BY <1>1, <1>2, DashedAppend DEF Lowered

Kept(s) == {i \in DOMAIN s : Safe(Lower(s[i]))}
Piece(s, i) == IF i \notin Kept(s) THEN <<>>
               ELSE IF i = Min(Kept(s)) \/ i - 1 \in Kept(s) THEN <<Lower(s[i])>>
               ELSE <<"-", Lower(s[i])>>
Pieces(s) == [i \in DOMAIN s |-> Piece(s, i)]

\* The documented label puts one piece for each character together.
LEMMA DocumentedIsFold == \A s : Documented(s) = J!Fold(Pieces(s))
  <1>1. \A s : Documented(s) = FoldLeft(Join, <<>>, Pieces(s))
    BY Zenon DEF Documented, Pieces, Piece, Kept
  <1>2. \A s : FoldLeft(Join, <<>>, s) = J!Fold(s)
    BY Zenon DEF J!Fold, FoldLeft, J!FoldLeft, MapThenFoldSet, J!MapThenFoldSet, Max, J!Max
  <1> QED BY <1>1, <1>2, Zenon

\* An empty identifier has an empty documented label.
LEMMA DocumentedEmpty == Documented(<<>>) = <<>>
  <1>1. Pieces(<<>>) = <<>> BY DEF Pieces
  <1> QED BY <1>1, DocumentedIsFold, J!FoldEmpty, Zenon

\* A set of numbers that is not empty holds its Min.
LEMMA MinOf ==
    ASSUME NEW S \in SUBSET Nat, S # {}
    PROVE  Min(S) \in S /\ \A n \in S : Min(S) <= n
  BY D!MinOfSet, Zenon DEF Min, D!Min

\* The piece of a letter or digit that is not the first one.
LEMMA PieceAt ==
    \A s, i : i \in Kept(s) /\ i # Min(Kept(s)) =>
        Piece(s, i) = IF i - 1 \in Kept(s) THEN <<Lower(s[i])>> ELSE <<"-", Lower(s[i])>>
  BY DEF Piece

\* One character more adds one piece and leaves the others.
LEMMA PiecesAppend ==
    ASSUME NEW C, NEW s \in Seq(C), NEW c \in C
    PROVE  LET piece == IF ~Safe(Lower(c)) THEN <<>>
                        ELSE IF Kept(s) = {} \/ Len(s) \in Kept(s) THEN <<Lower(c)>>
                        ELSE <<"-", Lower(c)>>
           IN  Pieces(Append(s, c)) = Append(Pieces(s), piece)
  <1> DEFINE t == Append(s, c)
             n == Len(s)
             piece == IF ~Safe(Lower(c)) THEN <<>>
                      ELSE IF Kept(s) = {} \/ Len(s) \in Kept(s) THEN <<Lower(c)>>
                      ELSE <<"-", Lower(c)>>
  <1>1. /\ n \in Nat /\ DOMAIN s = 1..n /\ DOMAIN t = 1..n+1 /\ t[n+1] = c
        /\ \A i \in 1..n : t[i] = s[i]
    OBVIOUS
  <1>2. Kept(s) \subseteq 1..n /\ Kept(t) \subseteq 1..n+1 BY <1>1 DEF Kept
  <1>3. \A i \in 1..n : i \in Kept(t) <=> i \in Kept(s)
    <2> HIDE DEF t, n
    <2> QED BY <1>1 DEF Kept
  <1>4. n + 1 \in Kept(t) <=> Safe(Lower(c))
    <2> HIDE DEF t, n
    <2> QED BY <1>1 DEF Kept
  <1>5. Kept(s) # {} => Min(Kept(t)) = Min(Kept(s))
    <2> SUFFICES ASSUME Kept(s) # {} PROVE Min(Kept(t)) = Min(Kept(s))
      OBVIOUS
    <2> HIDE DEF t, n
    <2>1. Min(Kept(s)) \in Kept(s) /\ \A i \in Kept(s) : Min(Kept(s)) <= i
      <3>1. Kept(s) \in SUBSET Nat BY <1>1, <1>2
      <3> QED BY <3>1, MinOf
    <2>2. Min(Kept(t)) \in Kept(t) /\ \A i \in Kept(t) : Min(Kept(t)) <= i
      <3>1. Kept(t) \in SUBSET Nat BY <1>1, <1>2
      <3>2. Kept(t) # {} BY <1>2, <1>3
      <3> QED BY <3>1, <3>2, MinOf
    <2>3. Min(Kept(s)) \in 1..n /\ Min(Kept(s)) \in Kept(t) BY <2>1, <1>2, <1>3
    <2>4. Min(Kept(t)) <= Min(Kept(s)) BY <2>2, <2>3
    <2>5. Min(Kept(t)) \in 1..n BY <2>2, <2>3, <2>4, <1>1, <1>2
    <2>6. Min(Kept(s)) <= Min(Kept(t)) BY <2>1, <2>2, <2>5, <1>3
    <2> QED BY <2>3, <2>4, <2>5, <2>6, <1>1
  <1>6. ASSUME NEW i \in 1..n PROVE Piece(t, i) = Piece(s, i)
    <2> HIDE DEF t, n
    <2>1. i - 1 \in Kept(t) <=> i - 1 \in Kept(s)
      BY <1>1, <1>2, <1>3
    <2>2. t[i] = s[i] /\ (i \in Kept(t) <=> i \in Kept(s)) BY <1>1, <1>3
    <2>3. i \in Kept(s) => Kept(s) # {} OBVIOUS
    <2> QED BY <2>1, <2>2, <2>3, <1>5, Zenon DEF Piece
  <1>7. Piece(t, n + 1) = piece
    <2> HIDE DEF t, n
    <2>0. n = Len(s) BY DEF n
    <2>1. CASE ~Safe(Lower(c)) BY <2>1, <1>4, Zenon DEF Piece
    <2>2. CASE Safe(Lower(c)) /\ Kept(s) = {}
      <3>1. Kept(t) \in SUBSET Nat /\ Kept(t) # {} /\ \A i \in Kept(t) : i = n + 1
        BY <1>1, <1>2, <1>3, <1>4, <2>2
      <3>2. Min(Kept(t)) = n + 1 BY <3>1, MinOf
      <3> QED BY <2>2, <3>2, <1>1, <1>4, Zenon DEF Piece
    <2>3. CASE Safe(Lower(c)) /\ Kept(s) # {}
      <3>1. Min(Kept(s)) \in Kept(s)
        <4>1. Kept(s) \in SUBSET Nat BY <1>1, <1>2
        <4> QED BY <4>1, <2>3, MinOf
      <3>2. Min(Kept(t)) # n + 1 BY <3>1, <1>1, <1>2, <1>5, <2>3
      <3>3. n + 1 - 1 = n BY <1>1
      <3>4. n \in Kept(t) <=> n \in Kept(s)
        BY <1>1, <1>2, <1>3
      <3>5. \A m : m = n + 1 => Piece(t, m) = piece
        <4> SUFFICES ASSUME NEW m, m = n + 1 PROVE Piece(t, m) = piece
          BY Zenon
        <4>1. m \in Kept(t) /\ t[m] = c /\ m # Min(Kept(t)) BY <1>1, <1>4, <2>3, <3>2
        <4>2. m - 1 = n BY <1>1
        <4>3. Piece(t, m) = IF n \in Kept(s) THEN <<Lower(c)>> ELSE <<"-", Lower(c)>>
          BY <4>1, <4>2, <3>4, PieceAt, Zenon
        <4> QED BY <4>3, <2>0, <2>3, Zenon
      <3> QED BY <3>5, Zenon
    <2> QED BY <2>1, <2>2, <2>3
  <1>8. Pieces(t) = [i \in 1..n+1 |-> IF i = n + 1 THEN piece ELSE Piece(s, i)]
    <2> HIDE DEF t, n, piece
    <2>1. \A i \in 1..n+1 : i = n + 1 \/ i \in 1..n BY <1>1
    <2>2. \A i \in 1..n+1 : Piece(t, i) = IF i = n + 1 THEN piece ELSE Piece(s, i)
      BY <2>1, <1>6, <1>7, Zenon
    <2>3. Pieces(t) = [i \in 1..n+1 |-> Piece(t, i)] BY <1>1, Zenon DEF Pieces
    <2> QED BY <2>2, <2>3, Zenon
  <1>9. Append(Pieces(s), piece) = [i \in 1..n+1 |-> IF i = n + 1 THEN piece ELSE Piece(s, i)]
    <2> HIDE DEF t, piece
    <2>1. Pieces(s) = [i \in 1..n |-> Piece(s, i)] BY <1>1 DEF Pieces
    <2> HIDE DEF n
    <2>2. Pieces(s) \in Seq({Piece(s, i) : i \in 1..n}) /\ Len(Pieces(s)) = n
      BY <1>1, <2>1
    <2> QED BY <1>1, <2>1, <2>2
  <1> QED BY <1>8, <1>9

\* Which letters and digits there are after one character more.
LEMMA KeptAppend ==
    ASSUME NEW C, NEW s \in Seq(C), NEW c \in C
    PROVE  /\ Kept(Append(s, c)) = {} <=> Kept(s) = {} /\ ~Safe(Lower(c))
           /\ Len(Append(s, c)) \in Kept(Append(s, c)) <=> Safe(Lower(c))
  BY DEF Kept

LastKept(s) == s # <<>> /\ Safe(Lower(s[Len(s)]))

\* One character more of an identifier: what it adds to the documented label.
Grown(d, after, c) ==
    IF ~Safe(Lower(c)) THEN d
    ELSE IF d = <<>> \/ after THEN Append(d, Lower(c))
    ELSE d \o <<"-", Lower(c)>>

\* What one character more adds to the documented label.
LEMMA DocumentedAppend ==
    ASSUME NEW C, NEW s \in Seq(C)
    PROVE  /\ Documented(s) \in Seq({"x", "-"})
           /\ \A c \in C : Documented(Append(s, c)) = Grown(Documented(s), LastKept(s), c)
  <1> DEFINE S == {r \in Seq(C) : Documented(r) \in Seq({"x", "-"}) /\
                                 (Documented(r) = <<>> <=> Kept(r) = {})}
  <1>0. <<>> \in S
    <2>1. Kept(<<>>) = {} BY DEF Kept
    <2>2. <<>> \in Seq(C) /\ <<>> \in Seq({"x", "-"}) OBVIOUS
    <2> QED BY <2>1, <2>2, DocumentedEmpty, Zenon
  <1>1. ASSUME NEW r \in Seq(C), NEW c \in C, r \in S
        PROVE  Documented(Append(r, c)) = Grown(Documented(r), LastKept(r), c)
    <2> DEFINE piece == IF ~Safe(Lower(c)) THEN <<>>
                        ELSE IF Kept(r) = {} \/ Len(r) \in Kept(r) THEN <<Lower(c)>>
                        ELSE <<"-", Lower(c)>>
    <2>1. Pieces(Append(r, c)) = Append(Pieces(r), piece) BY PiecesAppend
    <2>2. Pieces(r) \in Seq({Piece(r, i) : i \in DOMAIN r} \cup {piece}) BY DEF Pieces
    <2>3. Documented(Append(r, c)) = Documented(r) \o piece
      <3> DEFINE E == {Piece(r, i) : i \in DOMAIN r} \cup {piece}
      <3>1. piece \in E OBVIOUS
      <3> HIDE DEF E, piece
      <3>2. J!Fold(Append(Pieces(r), piece)) = Join(J!Fold(Pieces(r)), piece)
        <4>1. Pieces(r) \in Seq(E) BY <2>2 DEF E
        <4> QED BY <3>1, <4>1, J!FoldAppend
      <3> QED BY <2>1, <3>2, DocumentedIsFold DEF Join
    <2>4. Documented(r) \in Seq({"x", "-"}) /\ (Documented(r) = <<>> <=> Kept(r) = {}) BY <1>1
    <2>5. Len(r) \in Kept(r) <=> LastKept(r) BY DEF Kept, LastKept
    <2> QED BY <2>3, <2>4, <2>5 DEF Grown, Lower, Safe
  <1>2. ASSUME NEW r \in Seq(C), NEW c \in C, r \in S PROVE Append(r, c) \in S
    <2>1. Documented(Append(r, c)) = Grown(Documented(r), LastKept(r), c) BY <1>1, <1>2
    <2>2. Append(r, c) \in Seq(C) OBVIOUS
    <2>3. Documented(r) \in Seq({"x", "-"}) /\ (Documented(r) = <<>> <=> Kept(r) = {}) BY <1>2
    <2>4. \A d \in Seq({"x", "-"}), after \in BOOLEAN : Grown(d, after, c) \in Seq({"x", "-"})
      <3> SUFFICES ASSUME NEW d \in Seq({"x", "-"}), NEW after \in BOOLEAN, Safe(Lower(c))
                   PROVE  Grown(d, after, c) \in Seq({"x", "-"})
        BY DEF Grown
      <3>1. Lower(c) = "x" BY DEF Safe
      <3>2. Append(d, Lower(c)) \in Seq({"x", "-"}) /\ d \o <<"-", Lower(c)>> \in Seq({"x", "-"})
        BY <3>1
      <3> QED BY <3>2 DEF Grown
    <2>7. LastKept(r) \in BOOLEAN BY Zenon DEF LastKept
    <2>6. Documented(Append(r, c)) \in Seq({"x", "-"}) BY <2>1, <2>3, <2>4, <2>7, Zenon
    <2>5. Documented(Append(r, c)) = <<>> <=> Documented(r) = <<>> /\ ~Safe(Lower(c))
      <3>1. Append(Documented(r), Lower(c)) # <<>> /\ Documented(r) \o <<"-", Lower(c)>> # <<>>
        BY <2>3
      <3> QED BY <2>1, <2>3, <3>1, Zenon DEF Grown
    <2> QED BY <2>2, <2>3, <2>6, <2>5, KeptAppend
  <1>3. Seq(C) \subseteq S
    <2> HIDE DEF S
    <2> QED BY <1>0, <1>2, D!SeqInduct
  <1> QED BY <1>1, <1>3, Zenon
-----------------------------------------------------------------------------
(* str.strip *)

\* The one element of a set that none is below is its Min.
LEMMA MinIs ==
    ASSUME NEW S \in SUBSET Nat, NEW m \in S, \A n \in S : m <= n PROVE Min(S) = m
  <1>1. Min(S) \in S /\ \A n \in S : Min(S) <= n BY MinOf
  <1>2. Min(S) <= m /\ m <= Min(S) /\ m \in Nat /\ Min(S) \in Nat BY <1>1
  <1> QED BY <1>2

\* A set of positions that is not empty holds its Max.
LEMMA MaxOf ==
    ASSUME NEW n \in Nat, NEW S \in SUBSET (1..n), S # {}
    PROVE  Max(S) \in S /\ \A k \in S : Max(S) >= k
  <1> DEFINE T == {k \in Nat : n - k \in S}
  <1>1. PICK i \in S : TRUE OBVIOUS
  <1>2. n - i \in T BY <1>1
  <1>3. T \in SUBSET Nat /\ T # {} BY <1>2
  <1>4. Min(T) \in T /\ \A k \in T : Min(T) <= k
    <2> HIDE DEF T
    <2> QED BY <1>3, MinOf
  <1>5. \A k \in S : n - k \in T BY DEF T
  <1>6. n - Min(T) \in S /\ Min(T) \in Nat BY <1>4
  <1>7. \A k \in S : n - Min(T) >= k
    <2> HIDE DEF T
    <2> QED BY <1>4, <1>5, <1>6
  <1> HIDE DEF T
  <1> QED BY <1>6, <1>7, Zenon DEF Max

\* The one position of a set that none is above is its Max.
LEMMA MaxIs ==
    ASSUME NEW n \in Nat, NEW S \in SUBSET (1..n), NEW m \in S, \A k \in S : m >= k
    PROVE  Max(S) = m
  <1>1. Max(S) \in S /\ \A k \in S : Max(S) >= k BY MaxOf
  <1>0. \A k \in S : k \in Nat OBVIOUS
  <1>2. Max(S) <= m /\ m <= Max(S) /\ m \in Nat /\ Max(S) \in Nat BY <1>0, <1>1
  <1> QED BY <1>2

\* Strip takes away what surrounds a text that begins and ends with other characters.
LEMMA StripMiddle ==
    ASSUME NEW C, NEW E, NEW u \in Seq(C), NEW v \in Seq(C), NEW d \in Seq(E),
           d # <<>> => d[1] \notin C /\ d[Len(d)] \notin C
    PROVE  Strip((u \o d) \o v, C) = d
  <1> DEFINE s == (u \o d) \o v
             kept == {i \in DOMAIN s : s[i] \notin C}
             k == Len(u)
             n == Len(d)
  <1>1. /\ k \in Nat /\ n \in Nat /\ Len(v) \in Nat /\ Len(s) = k + n + Len(v)
        /\ DOMAIN s = 1..(k + n + Len(v))
        /\ \A i \in 1..k : s[i] = u[i]
        /\ \A i \in 1..n : s[k + i] = d[i]
        /\ \A i \in 1..Len(v) : s[k + n + i] = v[i]
    OBVIOUS
  <1>2. \A i \in 1..k : s[i] \in C BY <1>1
  <1>3. \A i \in k+n+1..k+n+Len(v) : s[i] \in C
    <2> SUFFICES ASSUME NEW i \in k+n+1..k+n+Len(v) PROVE s[i] \in C
      OBVIOUS
    <2>1. i - (k + n) \in 1..Len(v) /\ k + n + (i - (k + n)) = i BY <1>1
    <2> HIDE DEF s, k, n
    <2>2. s[i] = v[i - (k + n)] BY <1>1, <2>1
    <2> QED BY <2>1, <2>2
  <1>4. kept \subseteq k+1..k+n
    <2> HIDE DEF s, k, n
    <2> QED BY <1>1, <1>2, <1>3
  <1>5. CASE d = <<>>
    <2>1. n = 0 BY <1>5
    <2>2. kept = {}
      <3> HIDE DEF kept, k, n
      <3> QED BY <1>1, <1>4, <2>1
    <2> QED BY <1>5, <2>2, Zenon DEF Strip
  <1>6. CASE d # <<>>
    <2>1. n >= 1 /\ d[1] \notin C /\ d[n] \notin C BY <1>6
    <2>2. k + 1 \in kept /\ k + n \in kept
      <3> HIDE DEF s, k, n
      <3> QED BY <1>1, <2>1
    <2>3. Min(kept) = k + 1
      <3>1. kept \in SUBSET Nat /\ \A i \in kept : k + 1 <= i
        <4> HIDE DEF kept, k, n
        <4> QED BY <1>1, <1>4
      <3> HIDE DEF kept, k, n
      <3> QED BY <2>2, <3>1, MinIs
    <2>4. Max(kept) = k + n
      <3>1. kept \in SUBSET (1..k+n) /\ k + n \in Nat /\ \A i \in kept : k + n >= i
        <4> HIDE DEF kept, k, n
        <4> QED BY <1>1, <1>4
      <3> HIDE DEF kept, k, n
      <3> QED BY <2>2, <3>1, MaxIs
    <2>5. Strip(s, C) = SubSeq(s, k + 1, k + n) BY <2>2, <2>3, <2>4, Zenon DEF Strip
    <2>6. SubSeq(s, k + 1, k + n) = d BY <2>1
    <2> QED BY <2>5, <2>6
  <1> QED BY <1>5, <1>6

\* What Strip takes away lies before and after what it leaves.
LEMMA StripSplit ==
    ASSUME NEW C, NEW E, NEW s \in Seq(E)
    PROVE  \E u \in Seq(C), v \in Seq(C) : s = (u \o Strip(s, C)) \o v
  <1> DEFINE kept == {i \in DOMAIN s : s[i] \notin C}
             n == Len(s)
  <1>1. n \in Nat /\ DOMAIN s = 1..n OBVIOUS
  <1>2. CASE kept = {}
    <2>1. s \in Seq(C) BY <1>2
    <2>2. Strip(s, C) = <<>> BY <1>2, Zenon DEF Strip
    <2>3. s = (<<>> \o <<>>) \o s /\ <<>> \in Seq(C) OBVIOUS
    <2> QED BY <2>1, <2>2, <2>3
  <1>3. CASE kept # {}
    <2> DEFINE m == Min(kept)
               x == Max(kept)
    <2>1. kept \in SUBSET (1..n) /\ kept \in SUBSET Nat BY <1>1
    <2>2. m \in kept /\ (\A i \in kept : m <= i)
      <3> HIDE DEF kept
      <3> QED BY <1>3, <2>1, MinOf
    <2>3. x \in kept /\ (\A i \in kept : x >= i)
      <3> HIDE DEF kept
      <3> QED BY <1>1, <1>3, <2>1, MaxOf
    <2>4. m \in 1..n /\ x \in 1..n /\ m <= x
      <3> HIDE DEF kept, m, x
      <3> QED BY <2>1, <2>2, <2>3
    <2>5. Strip(s, C) = SubSeq(s, m, x) BY <1>3, Zenon DEF Strip
    <2> HIDE DEF m, x
    <2>6. SubSeq(s, 1, m - 1) \in Seq(C) /\ SubSeq(s, x + 1, n) \in Seq(C)
      <3>1. \A i \in 1..n : i < m => s[i] \in C BY <2>2, <2>4
      <3>2. \A i \in 1..n : i > x => s[i] \in C BY <2>3, <2>4
      <3> QED BY <3>1, <3>2, <2>4
    <2>7. s = (SubSeq(s, 1, m - 1) \o SubSeq(s, m, x)) \o SubSeq(s, x + 1, n)
      <3> DEFINE p == SubSeq(s, 1, m - 1)
                 q == SubSeq(s, m, x)
                 r == SubSeq(s, x + 1, n)
      <3>1. p \in Seq(E) /\ q \in Seq(E) /\ r \in Seq(E) BY <2>4
      <3>2. q \o r = SubSeq(s, m, n)
        <4>1. m \in 1..Len(s)+1 /\ x \in m-1..Len(s) /\ n \in x..Len(s) BY <1>1, <2>4
        <4> QED BY <4>1, ConcatAdjacentSubSeq, Zenon
      <3>3. p \o SubSeq(s, m, n) = SubSeq(s, 1, n)
        <4>1. /\ m - 1 + 1 = m /\ 1 \in 1..Len(s)+1
              /\ m - 1 \in 1-1..Len(s) /\ n \in m-1..Len(s)
          BY <1>1, <2>4
        <4>2. p \o SubSeq(s, m - 1 + 1, n) = SubSeq(s, 1, n)
          BY <4>1, ConcatAdjacentSubSeq, Zenon
        <4> QED BY <4>1, <4>2
      <3>4. SubSeq(s, 1, n) = s BY SubSeqFull
      <3> HIDE DEF p, q, r
      <3>5. (p \o q) \o r = p \o (q \o r) BY <3>1, ConcatAssociative
      <3>6. s = (p \o q) \o r BY <3>2, <3>3, <3>4, <3>5
      <3> QED BY <3>6 DEF p, q, r
    <2> QED BY <2>5, <2>6, <2>7
  <1> QED BY <1>2, <1>3

\* Strip leaves a text of the same characters.
LEMMA StripType ==
    ASSUME NEW C, NEW E, NEW s \in Seq(E) PROVE Strip(s, C) \in Seq(E)
  <1> DEFINE kept == {i \in DOMAIN s : s[i] \notin C}
  <1>1. CASE kept = {}
    <2>1. Strip(s, C) = <<>> BY <1>1, Zenon DEF Strip
    <2> QED BY <2>1
  <1>2. CASE kept # {}
    <2>1. Strip(s, C) = SubSeq(s, Min(kept), Max(kept)) BY <1>2, Zenon DEF Strip
    <2>2. kept \in SUBSET (1..Len(s)) /\ kept \in SUBSET Nat /\ Len(s) \in Nat OBVIOUS
    <2> HIDE DEF kept
    <2>3. Min(kept) \in 1..Len(s) /\ Max(kept) \in 1..Len(s)
      <3>1. Min(kept) \in kept BY <1>2, <2>2, MinOf
      <3>2. Max(kept) \in kept BY <1>2, <2>2, MaxOf
      <3> QED BY <2>2, <3>1, <3>2
    <2> QED BY <2>1, <2>3
  <1> QED BY <1>1, <1>2

-----------------------------------------------------------------------------
(* Sanitizing *)

\* A label is extended at its end.
LEMMA AppendConcat ==
    ASSUME NEW p \in Seq({"x", "-"}), NEW q \in Seq({"x", "-"})
    PROVE  /\ Append(p \o q, "x") = p \o Append(q, "x")
           /\ Append(p \o q, "-") = p \o Append(q, "-")
  BY SMTT(30)

Dashes == Seq({"-"})

Shape(s, lead) ==
    IF Documented(s) = <<>> THEN Lowered(s) = lead /\ lead \in {<<>>, <<"-">>}
    ELSE /\ Lowered(s) = IF LastKept(s) THEN lead \o Documented(s)
                         ELSE Append(lead \o Documented(s), "-")
         /\ Documented(s)[1] = "x" /\ Documented(s)[Len(Documented(s))] = "x"

\* The dashed text is the documented label between hyphens.
LEMMA DocumentedShape ==
    ASSUME NEW C
    PROVE  \A s \in Seq(C) : \E lead \in Dashes : Shape(s, lead)
  <1> DEFINE S == {s \in Seq(C) : \E lead \in Dashes : Shape(s, lead)}
  <1>1. <<>> \in S
    <2>1. <<>> \in Dashes /\ <<>> \in Seq(C) BY DEF Dashes
    <2> QED BY <2>1, LoweredEmpty, DocumentedEmpty DEF Shape
  <1>2. ASSUME NEW s \in Seq(C), NEW c \in C, s \in S PROVE Append(s, c) \in S
    <2>1. PICK lead \in Dashes : Shape(s, lead) BY <1>2
    <2> DEFINE t == Append(s, c)
               d == Documented(s)
               l == Lowered(s)
    <2>2. t \in Seq(C) OBVIOUS
    <2>3. Lowered(t) = Dash(l, Lower(c)) BY LoweredAppend
    <2>4. d \in Seq({"x", "-"}) /\ Documented(t) = Grown(d, LastKept(s), c) BY DocumentedAppend
    <2>5. LastKept(t) <=> Safe(Lower(c)) BY DEF LastKept
    <2> SUFFICES \E new \in Dashes : Shape(t, new)
      BY <2>2
    <2> HIDE DEF t, d, l
    <2>6. CASE ~Safe(Lower(c)) /\ d = <<>>
      <3>1. Documented(t) = <<>> BY <2>4, <2>6 DEF Grown
      <3>2. l = lead /\ lead \in {<<>>, <<"-">>} BY <2>1, <2>6 DEF Shape, d, l
      <3>3. Dash(l, Lower(c)) = <<"-">>
        <4>1. CASE l = <<>> BY <4>1, <2>6 DEF Dash
        <4>2. CASE l = <<"-">> BY <4>2, <2>6 DEF Dash, Last
        <4> QED BY <3>2, <4>1, <4>2
      <3>4. <<"-">> \in Dashes BY DEF Dashes
      <3> QED BY <2>3, <3>1, <3>3, <3>4 DEF Shape
    <2>7. CASE ~Safe(Lower(c)) /\ d # <<>>
      <3>1. Documented(t) = d /\ ~LastKept(t) BY <2>4, <2>5, <2>7 DEF Grown
      <3>2. d[1] = "x" /\ d[Len(d)] = "x" BY <2>1, <2>7 DEF Shape, d
      <3>3. Dash(l, Lower(c)) = Append(lead \o d, "-")
        <4>1. CASE LastKept(s)
          <5>1. l = lead \o d BY <2>1, <2>7, <4>1 DEF Shape, d, l
          <5>2. l # <<>> /\ l[Len(l)] = "x" BY <5>1, <2>4, <2>7, <3>2 DEF Dashes
          <5> QED BY <2>7, <5>1, <5>2 DEF Dash, Last
        <4>2. CASE ~LastKept(s)
          <5>1. l = Append(lead \o d, "-") BY <2>1, <2>7, <4>2 DEF Shape, d, l
          <5>2. l # <<>> /\ l[Len(l)] = "-" BY <5>1, <2>4, SMTT(30) DEF Dashes
          <5> QED BY <2>7, <5>1, <5>2 DEF Dash, Last
        <4> QED BY <4>1, <4>2
      <3> QED BY <2>3, <2>7, <3>1, <3>2, <3>3 DEF Shape
    <2>8. CASE Safe(Lower(c))
      <3>0. Lower(c) = "x" /\ LastKept(t) BY <2>5, <2>8 DEF Safe
      <3>1. Dash(l, Lower(c)) = Append(l, "x") BY <2>8, <3>0 DEF Dash
      <3>2. CASE d = <<>>
        <4>1. Documented(t) = <<"x">> BY <2>4, <3>2, <2>8, <3>0 DEF Grown
        <4>2. l = lead BY <2>1, <3>2 DEF Shape, d, l
        <4>3. Append(lead, "x") = lead \o <<"x">> BY DEF Dashes
        <4>4. <<"x">> # <<>> /\ <<"x">>[1] = "x" /\ <<"x">>[Len(<<"x">>)] = "x" OBVIOUS
        <4> QED BY <2>3, <3>0, <3>1, <4>1, <4>2, <4>3, <4>4 DEF Shape
      <3>3. CASE d # <<>> /\ LastKept(s)
        <4>1. Documented(t) = Append(d, "x") BY <2>4, <3>3, <2>8, <3>0 DEF Grown
        <4>2. l = lead \o d BY <2>1, <3>3 DEF Shape, d, l
        <4>3. d[1] = "x" BY <2>1, <3>3 DEF Shape, d
        <4>4. Append(l, "x") = lead \o Append(d, "x")
          <5>1. lead \in Seq({"x", "-"}) /\ "x" \in {"x", "-"} BY DEF Dashes
          <5> QED BY <2>4, <4>2, <5>1, AppendConcat, Zenon
        <4>5. Append(d, "x") # <<>> /\ Append(d, "x")[1] = "x"
              /\ Append(d, "x")[Len(Append(d, "x"))] = "x"
          BY <2>4, <3>3, <4>3
        <4> QED BY <2>3, <3>0, <3>1, <4>1, <4>4, <4>5 DEF Shape
      <3>4. CASE d # <<>> /\ ~LastKept(s)
        <4> DEFINE e == d \o <<"-", "x">>
        <4>1. Documented(t) = e BY <2>4, <3>4, <2>8, <3>0 DEF Grown
        <4>2. l = Append(lead \o d, "-") BY <2>1, <3>4 DEF Shape, d, l
        <4>3. d[1] = "x" BY <2>1, <3>4 DEF Shape, d
        <4>6. e = Append(Append(d, "-"), "x") BY <2>4
        <4>4. Append(l, "x") = lead \o e
          <5>1. /\ lead \in Seq({"x", "-"}) /\ Append(d, "-") \in Seq({"x", "-"})
                /\ "x" \in {"x", "-"} /\ "-" \in {"x", "-"}
            BY <2>4 DEF Dashes
          <5>2. Append(lead \o d, "-") = lead \o Append(d, "-")
            BY <2>4, <5>1, AppendConcat, Zenon
          <5>3. Append(lead \o Append(d, "-"), "x") = lead \o Append(Append(d, "-"), "x")
            BY <5>1, AppendConcat, Zenon
          <5> QED BY <4>2, <4>6, <5>2, <5>3
        <4>5. e # <<>> /\ e[1] = "x" /\ e[Len(e)] = "x" BY <2>4, <3>4, <4>3
        <4> HIDE DEF e
        <4> QED BY <2>3, <3>0, <3>1, <4>1, <4>4, <4>5 DEF Shape
      <3> QED BY <3>2, <3>3, <3>4
    <2> QED BY <2>6, <2>7, <2>8
  <1>3. Seq(C) \subseteq S
    <2> HIDE DEF S
    <2> QED BY <1>1, <1>2, D!SeqInduct
  <1> QED BY <1>3

\* Trimming hyphens off the dashed text gives the documented label.
LEMMA TrimmedIsDocumented ==
    ASSUME NEW C, NEW s \in Seq(C) PROVE Strip(Lowered(s), {"-"}) = Documented(s)
  <1> DEFINE d == Documented(s)
  <1>1. PICK lead \in Dashes : Shape(s, lead) BY DocumentedShape
  <1>2. d \in Seq({"x", "-"}) BY DocumentedAppend
  <1>3. d # <<>> => d[1] \notin {"-"} /\ d[Len(d)] \notin {"-"} BY <1>1 DEF Shape
  <1>4. \E v \in Dashes : Lowered(s) = (lead \o d) \o v
    <2>1. <<>> \in Dashes /\ <<"-">> \in Dashes BY DEF Dashes
    <2>2. d = <<>> => lead = (lead \o d) \o <<>> BY DEF Dashes
    <2>3. CASE d = <<>> BY <1>1, <2>1, <2>2, <2>3 DEF Shape
    <2>4. CASE d # <<>>
      <3>0. lead \o d = (lead \o d) \o <<>> /\ Append(lead \o d, "-") = (lead \o d) \o <<"-">>
        BY <1>2 DEF Dashes
      <3>1. CASE LastKept(s) BY <1>1, <2>1, <2>4, <3>0, <3>1 DEF Shape
      <3>2. CASE ~LastKept(s) BY <1>1, <2>1, <2>4, <3>0, <3>2 DEF Shape
      <3> QED BY <3>1, <3>2
    <2> QED BY <2>3, <2>4
  <1>5. PICK v \in Dashes : Lowered(s) = (lead \o d) \o v BY <1>4
  <1> HIDE DEF d
  <1>6. Strip((lead \o d) \o v, {"-"}) = d BY <1>2, <1>3, StripMiddle DEF Dashes
  <1> QED BY <1>5, <1>6 DEF d

\* Characters that are not kept add nothing at the end.
LEMMA DocumentedTrailing ==
    ASSUME NEW E, NEW w \in Seq(E), NEW C, \A c \in C : ~Safe(Lower(c)), NEW v \in Seq(C)
    PROVE  Documented(w \o v) = Documented(w)
  <1> DEFINE S == {r \in Seq(C) : Documented(w \o r) = Documented(w)}
  <1>1. <<>> \in S OBVIOUS
  <1>2. ASSUME NEW r \in Seq(C), NEW c \in C, r \in S PROVE Append(r, c) \in S
    <2>1. w \o Append(r, c) = Append(w \o r, c) OBVIOUS
    <2>2. w \o r \in Seq(C \cup E) /\ c \in C \cup E OBVIOUS
    <2>3. Documented(Append(w \o r, c)) = Grown(Documented(w \o r), LastKept(w \o r), c)
      BY <2>2, DocumentedAppend
    <2>4. ~Safe(Lower(c)) OBVIOUS
    <2>5. Documented(Append(w \o r, c)) = Documented(w \o r) BY <2>3, <2>4, Zenon DEF Grown
    <2>6. Append(r, c) \in Seq(C) OBVIOUS
    <2> QED BY <2>1, <2>5, <2>6, <1>2
  <1>3. Seq(C) \subseteq S
    <2> HIDE DEF S
    <2> QED BY <1>1, <1>2, D!SeqInduct
  <1> QED BY <1>3

\* Characters that are not kept add nothing at the beginning.
LEMMA DocumentedLeading ==
    ASSUME NEW E, NEW w \in Seq(E), NEW C, \A c \in C : ~Safe(Lower(c)), NEW u \in Seq(C)
    PROVE  Documented(u \o w) = Documented(w)
  <1> DEFINE S == {r \in Seq(E) : Documented(u \o r) = Documented(r)}
  <1>1. <<>> \in S
    <2>1. Documented(<<>> \o u) = Documented(<<>>)
      <3>1. <<>> \in Seq(E) OBVIOUS
      <3> QED BY <3>1, DocumentedTrailing
    <2>2. <<>> \o u = u /\ u \o <<>> = u OBVIOUS
    <2> QED BY <2>1, <2>2
  <1>2. ASSUME NEW r \in Seq(E), NEW c \in E, r \in S PROVE Append(r, c) \in S
    <2>1. u \o Append(r, c) = Append(u \o r, c) OBVIOUS
    <2>2. u \o r \in Seq(C \cup E) /\ c \in C \cup E OBVIOUS
    <2>3. Documented(Append(u \o r, c)) = Grown(Documented(u \o r), LastKept(u \o r), c)
      BY <2>2, DocumentedAppend
    <2>4. Documented(Append(r, c)) = Grown(Documented(r), LastKept(r), c)
      BY DocumentedAppend
    <2>5. Documented(u \o r) = Documented(r) BY <1>2
    <2>6. Grown(Documented(r), LastKept(u \o r), c) = Grown(Documented(r), LastKept(r), c)
      <3>1. CASE r = <<>>
        BY <3>1, DocumentedEmpty, Zenon DEF Grown
      <3>2. CASE r # <<>>
        <4>1. u \o r # <<>> /\ (u \o r)[Len(u \o r)] = r[Len(r)] BY <3>2
        <4>2. LastKept(u \o r) = LastKept(r) BY <4>1, <3>2, Zenon DEF LastKept
        <4> QED BY <4>2
      <3> QED BY <3>1, <3>2
    <2>7. Append(r, c) \in Seq(E) OBVIOUS
    <2> QED BY <2>1, <2>3, <2>4, <2>5, <2>6, <2>7
  <1>3. Seq(E) \subseteq S
    <2> HIDE DEF S
    <2> QED BY <1>1, <1>2, D!SeqInduct
  <1> QED BY <1>3

\* What lies before the first and after the last letter or digit does not matter.
LEMMA DocumentedPadded ==
    ASSUME NEW C, \A c \in C : ~Safe(Lower(c)), NEW E, NEW d \in Seq(E),
           NEW u \in Seq(C), NEW v \in Seq(C)
    PROVE  Documented((u \o d) \o v) = Documented(d)
  <1>1. u \o d \in Seq(C \cup E) OBVIOUS
  <1>2. Documented((u \o d) \o v) = Documented(u \o d) BY <1>1, DocumentedTrailing
  <1>3. Documented(u \o d) = Documented(d) BY DocumentedLeading
  <1> QED BY <1>2, <1>3

\* Sanitize computes what the documentation says, for identifiers of any length.
LEMMA SanitizeIsDocumented ==
    ASSUME NEW E, NEW s \in Seq(E) PROVE Sanitize(s) = Documented(s)
  <1> DEFINE t == Strip(s, {" "})
  <1>1. PICK u \in Seq({" "}), v \in Seq({" "}) : s = (u \o t) \o v BY StripSplit
  <1>2. t \in Seq(E) BY StripType
  <1>3. \A c \in {" "} : ~Safe(Lower(c)) BY DEF Safe, Lower
  <1> HIDE DEF t
  <1>4. Documented((u \o t) \o v) = Documented(t) BY <1>2, <1>3, DocumentedPadded
  <1>5. Strip(Lowered(t), {"-"}) = Documented(t) BY <1>2, TrimmedIsDocumented
  <1> QED BY <1>1, <1>4, <1>5 DEF Sanitize, Lowered, t

\* A documented label begins and ends with a letter or digit.
LEMMA DocumentedEnds ==
    ASSUME NEW E, NEW s \in Seq(E), Documented(s) # <<>>
    PROVE  Documented(s)[1] = "x" /\ Documented(s)[Len(Documented(s))] = "x"
  <1>1. PICK lead \in Dashes : Shape(s, lead) BY DocumentedShape
  <1> QED BY <1>1 DEF Shape

-----------------------------------------------------------------------------
(* The theorems *)

Strings == a \in Seq(Alphabet) /\ b \in Seq(Alphabet)

\* a and b are texts over the alphabet.
LEMMA StringsInductive == Spec => []Strings
  <1>1. Init => Strings BY DEF Init, Strings
  <1>2. Strings /\ [Next]_<<a, b>> => Strings'
    BY SMTT(30) DEF Strings, Next, WriteA, WriteB
  <1> QED BY <1>1, <1>2, PTL DEF Spec

\* An identifier is sanitized as the documentation says, however long it is and whatever
\* characters it has (ProjectIdLabelGenerator._sanitize).
THEOREM SanitizedForms == Spec => []SanitizedAsDocumented
  <1>1. Strings => SanitizedAsDocumented
    BY SanitizeIsDocumented DEF Strings, SanitizedAsDocumented
  <1> QED BY <1>1, StringsInductive, PTL

\* The cut of a documented label is a DNS label unless it is empty, too long or ends in a hyphen.
LEMMA CutValid ==
    ASSUME NEW w \in Seq({"x", "-"}), w # <<>> => w[1] = "x" /\ w[Len(w)] = "x",
           NEW mode \in Modes, NEW short \in 1..MaxLabel
    PROVE  ValidLabel(Cut(mode, short, w)) <=>
              ~ \/ w = <<>>
                \/ mode = "full" /\ Len(w) > MaxLabel
                \/ mode = "short" /\ Len(w) > short /\ w[short] = "-"
  <1>0. MaxLabel \in Nat /\ Len(w) \in Nat /\ short \in Nat BY LabelLimitAssumption
  <1>1. CASE mode = "full"
    <2>1. Cut(mode, short, w) = w BY <1>1 DEF Cut
    <2>2. w # <<>> => Len(w) >= 1 /\ Head(w) = "x" /\ Last(w) = "x" BY DEF Last
    <2>3. \A i \in DOMAIN w : w[i] = "x" \/ w[i] = "-" OBVIOUS
    <2> QED BY <1>0, <1>1, <2>1, <2>2, <2>3 DEF ValidLabel, Safe
  <1>2. CASE mode = "short"
    <2> DEFINE n == IF short <= Len(w) THEN short ELSE Len(w)
    <2>1. Min({short, Len(w)}) = n
      <3>1. {short, Len(w)} \in SUBSET Nat /\ n \in {short, Len(w)}
            /\ \A k \in {short, Len(w)} : n <= k
        BY <1>0
      <3> HIDE DEF n
      <3> QED BY <3>1, MinIs
    <2>2. Cut(mode, short, w) = SubSeq(w, 1, n) BY <1>2, <2>1 DEF Cut
    <2>3. n \in 0..Len(w) /\ n <= MaxLabel /\ (n = 0 <=> w = <<>>) BY <1>0
    <2> HIDE DEF n
    <2> DEFINE l == SubSeq(w, 1, n)
    <2>4. /\ Len(l) = n /\ \A i \in 1..n : l[i] = w[i] /\ l[i] \in {"x", "-"}
          /\ n > 0 => Head(l) = w[1] /\ Last(l) = w[n]
      BY <1>0, <2>3 DEF Last
    <2>5. l \in Seq({"x", "-"}) BY <2>3
    <2> HIDE DEF l
    <2>6. ValidLabel(l) <=> n > 0 /\ w[n] = "x"
      <3>1. n > 0 => w[1] = "x" /\ w[n] \in {"x", "-"} BY <2>3
      <3>2. DOMAIN l = 1..n BY <2>4, <2>5
      <3> QED BY <1>0, <2>3, <2>4, <3>1, <3>2 DEF ValidLabel, Safe
    <2>7. n > 0 => (w[n] # "x" <=> Len(w) > short /\ w[short] = "-")
      <3>1. CASE short <= Len(w) BY <1>0, <2>3, <3>1 DEF n
      <3>2. CASE ~(short <= Len(w)) BY <1>0, <2>3, <3>2 DEF n
      <3> QED BY <3>1, <3>2
    <2>8. n > 0 => w[n] \in {"x", "-"} BY <2>3
    <2>9. ValidLabel(l) <=> ~(w = <<>> \/ (Len(w) > short /\ w[short] = "-"))
      <3>1. CASE n = 0 BY <2>3, <2>6, <3>1
      <3>2. CASE n > 0 BY <2>3, <2>6, <2>7, <2>8, <3>2
      <3> QED BY <2>3, <3>1, <3>2
    <2>10. mode # "full" BY <1>2
    <2> QED BY <1>2, <2>2, <2>9, <2>10, Zenon DEF l
  <1> QED BY <1>1, <1>2 DEF Modes

\* A project gets no label in exactly the cases LabelsFailOnlyFor lists, and every label is a
\* DNS label (ProjectIdLabelGenerator.generate), for identifiers of any length.
THEOREM LabelFailures == Spec => []LabelsFailOnlyFor
  <1>1. Strings => LabelsFailOnlyFor
    <2> SUFFICES ASSUME Strings, NEW mode \in Modes, NEW short \in 1..MaxLabel
                 PROVE  LET label == Generate(mode, short, a)
                            wanted == Documented(a)
                        IN  /\ label = NoLabel <=>
                                  \/ wanted = <<>>
                                  \/ mode = "full" /\ Len(wanted) > MaxLabel
                                  \/ mode = "short" /\ Len(wanted) > short /\ wanted[short] = "-"
                            /\ label # NoLabel => ValidLabel(label)
      BY Zenon DEF LabelsFailOnlyFor
    <2> DEFINE w == Documented(a)
    <2>1. a \in Seq(Alphabet) BY DEF Strings
    <2>2. Sanitize(a) = w BY <2>1, SanitizeIsDocumented
    <2>3. w \in Seq({"x", "-"}) BY <2>1, DocumentedAppend
    <2>4. w # <<>> => w[1] = "x" /\ w[Len(w)] = "x" BY <2>1, DocumentedEnds
    <2>5. ValidLabel(Cut(mode, short, w)) <=>
              ~ \/ w = <<>>
                \/ mode = "full" /\ Len(w) > MaxLabel
                \/ mode = "short" /\ Len(w) > short /\ w[short] = "-"
      <3> HIDE DEF w
      <3> QED BY <2>3, <2>4, CutValid
    <2>6. ~ValidLabel(NoLabel) BY DEF ValidLabel, NoLabel
    <2>7. Generate(mode, short, a) = IF ValidLabel(Cut(mode, short, w))
                                     THEN Cut(mode, short, w) ELSE NoLabel
      BY <2>2, Zenon DEF Generate
    <2> HIDE DEF w
    <2> QED BY <2>5, <2>6, <2>7, Zenon DEF w
  <1> QED BY <1>1, StringsInductive, PTL

\* Two projects share a label only if their sanitized identifiers agree as far as it goes.
THEOREM LabelsShared == Spec => []SharedLabelsAlike
  <1>1. Strings => SharedLabelsAlike
    <2> SUFFICES ASSUME Strings, NEW mode \in Modes, NEW short \in 1..MaxLabel,
                        Generate(mode, short, a) # NoLabel, Collide(mode, short, a, b)
                 PROVE  Cut(mode, short, Documented(a)) = Cut(mode, short, Documented(b))
      BY Zenon DEF SharedLabelsAlike
    <2>1. Sanitize(a) = Documented(a) /\ Sanitize(b) = Documented(b)
      BY SanitizeIsDocumented DEF Strings
    <2>2. Generate(mode, short, b) = Generate(mode, short, a) BY DEF Collide
    <2> QED BY <2>1, <2>2, Zenon DEF Generate
  <1> QED BY <1>1, StringsInductive, PTL

-----------------------------------------------------------------------------
(* Names and zones *)

A == INSTANCE FoldLemmas WITH Step <- AddTo, Base <- <<<<>>>>

Labels(s) == FoldLeft(AddTo, <<<<>>>>, s)
Trim(s) == SubSeq(s, 1, Max({0} \cup {i \in DOMAIN s : s[i] # "."}))

\* A sequence with another last item.
LEMMA LastChanged ==
    ASSUME NEW E, NEW l \in Seq(E), l # <<>>, NEW e \in E, NEW m, m = [l EXCEPT ![Len(l)] = e]
    PROVE  /\ m \in Seq(E) /\ Len(m) = Len(l) /\ Len(l) \in Nat /\ Len(l) > 0
           /\ \A i \in 1..Len(l) : m[i] = IF i = Len(l) THEN e ELSE l[i]
  <1>1. Len(l) \in 1..Len(l) /\ Len(l) \in Nat /\ Len(l) > 0 OBVIOUS
  <1>2. /\ m \in Seq(E) /\ Len(m) = Len(l)
        /\ \A i \in 1..Len(l) : m[i] = IF i = Len(l) THEN e ELSE l[i]
    BY <1>1, ExceptSeq
  <1> QED BY <1>1, <1>2

\* Labels is a fold, one character at a time.
LEMMA LabelsIsFold == \A s : Labels(s) = A!Fold(s)
  BY Zenon DEF Labels, A!Fold, FoldLeft, A!FoldLeft, MapThenFoldSet, A!MapThenFoldSet, Max, A!Max

\* An empty text is one empty label.
LEMMA LabelsEmpty == Labels(<<>>) = <<<<>>>>
  BY LabelsIsFold, A!FoldEmpty, Zenon

\* What one character more does to the labels.
LEMMA LabelsAppend ==
    ASSUME NEW C, NEW s \in Seq(C), NEW c \in C
    PROVE  Labels(Append(s, c)) = AddTo(Labels(s), c)
  BY LabelsIsFold, A!FoldAppend, Zenon

\* There is always a label, of the characters of the text.
LEMMA LabelsType ==
    ASSUME NEW C, NEW s \in Seq(C)
    PROVE  Labels(s) \in Seq(Seq(C)) /\ Labels(s) # <<>>
  <1> DEFINE S == {r \in Seq(C) : Labels(r) \in Seq(Seq(C)) /\ Labels(r) # <<>>}
  <1>1. <<>> \in S
    <2>1. <<>> \in Seq(C) /\ <<<<>>>> \in Seq(Seq(C)) /\ <<<<>>>> # <<>> OBVIOUS
    <2> QED BY <2>1, LabelsEmpty
  <1>2. ASSUME NEW r \in Seq(C), NEW c \in C, r \in S PROVE Append(r, c) \in S
    <2>1. Labels(Append(r, c)) = AddTo(Labels(r), c) BY LabelsAppend
    <2>2. \A l \in Seq(Seq(C)) : l # <<>> => AddTo(l, c) \in Seq(Seq(C)) /\ AddTo(l, c) # <<>>
      <3> SUFFICES ASSUME NEW l \in Seq(Seq(C)), l # <<>>
                   PROVE  AddTo(l, c) \in Seq(Seq(C)) /\ AddTo(l, c) # <<>>
        OBVIOUS
      <3>1. Append(l, <<>>) \in Seq(Seq(C)) /\ Append(l, <<>>) # <<>>
        <4>1. <<>> \in Seq(C) OBVIOUS
        <4> QED BY <4>1, AppendProperties, Zenon
      <3> DEFINE m == [l EXCEPT ![Len(l)] = Append(@, c)]
      <3>2. m \in Seq(Seq(C)) /\ m # <<>>
        <4>1. Len(l) \in DOMAIN l /\ Append(l[Len(l)], c) \in Seq(C) OBVIOUS
        <4>2. m \in Seq(Seq(C)) /\ Len(m) = Len(l) BY <4>1, ExceptSeq
        <4> HIDE DEF m
        <4> QED BY <4>2
      <3> HIDE DEF m
      <3> QED BY <3>1, <3>2 DEF AddTo, m
    <2>3. Append(r, c) \in Seq(C) OBVIOUS
    <2>4. Labels(r) \in Seq(Seq(C)) /\ Labels(r) # <<>> BY <1>2
    <2> QED BY <2>1, <2>2, <2>3, <2>4
  <1>3. Seq(C) \subseteq S
    <2> HIDE DEF S
    <2> QED BY <1>1, <1>2, D!SeqInduct
  <1> QED BY <1>3

\* Splitting at a dot.
LEMMA LabelsSplit ==
    ASSUME NEW C, NEW u \in Seq(C), "." \in C, NEW w \in Seq(C)
    PROVE  Labels((u \o Dot) \o w) = Labels(u) \o Labels(w)
  <1> DEFINE S == {r \in Seq(C) : Labels((u \o Dot) \o r) = Labels(u) \o Labels(r)}
  <1>1. <<>> \in S
    <2>1. (u \o Dot) \o <<>> = Append(u, ".") BY DEF Dot
    <2>2. Labels(Append(u, ".")) = AddTo(Labels(u), ".") BY LabelsAppend
    <2>3. AddTo(Labels(u), ".") = Labels(u) \o <<<<>>>> BY LabelsType DEF AddTo
    <2>4. <<>> \in Seq(C) OBVIOUS
    <2> QED BY <2>1, <2>2, <2>3, <2>4, LabelsEmpty
  <1>2. ASSUME NEW r \in Seq(C), NEW c \in C, r \in S PROVE Append(r, c) \in S
    <2> DEFINE v == (u \o Dot) \o r
               p == Labels(u)
               q == Labels(r)
    <2>1. (u \o Dot) \o Append(r, c) = Append(v, c) /\ v \in Seq(C) BY DEF Dot
    <2>2. Labels(Append(v, c)) = AddTo(Labels(v), c) BY <2>1, LabelsAppend
    <2>3. Labels(Append(r, c)) = AddTo(q, c) BY LabelsAppend
    <2>4. Labels(v) = p \o q BY <1>2
    <2>5. p \in Seq(Seq(C)) /\ q \in Seq(Seq(C)) /\ q # <<>> BY LabelsType
    <2> HIDE DEF p, q, v
    <2>6. AddTo(p \o q, c) = p \o AddTo(q, c)
      <3>1. CASE c = "."
        <4>0. <<>> \in Seq(C) OBVIOUS
        <4>1. Append(p \o q, <<>>) = p \o Append(q, <<>>)
          <5> DEFINE Q == Seq(C)
                     e == <<>>
          <5>1. e \in Q /\ p \in Seq(Q) /\ q \in Seq(Q) BY <2>5
          <5> HIDE DEF Q, e
          <5>2. Append(p \o q, e) = p \o Append(q, e) BY <5>1
          <5> QED BY <5>2 DEF e
        <4> QED BY <3>1, <4>1 DEF AddTo
      <3>2. CASE c # "."
        <4> DEFINE t == p \o q
                   f == [t EXCEPT ![Len(t)] = Append(@, c)]
                   g == [q EXCEPT ![Len(q)] = Append(@, c)]
        <4>1. t \in Seq(Seq(C)) /\ Len(t) = Len(p) + Len(q) /\ Len(q) \in DOMAIN q
              /\ Len(t) \in DOMAIN t /\ t[Len(t)] = q[Len(q)] /\ Append(q[Len(q)], c) \in Seq(C)
              /\ Len(p) \in Nat /\ Len(q) \in Nat
          BY <2>5
        <4>2. g \in Seq(Seq(C)) /\ Len(g) = Len(q)
              /\ \A i \in 1..Len(q) : g[i] = IF i = Len(q) THEN Append(q[i], c) ELSE q[i]
          BY <2>5, <4>1, ExceptSeq
        <4>3. f \in Seq(Seq(C)) /\ Len(f) = Len(t)
              /\ \A i \in 1..Len(t) : f[i] = IF i = Len(t) THEN Append(t[i], c) ELSE t[i]
          <5> HIDE DEF t
          <5> QED BY <4>1, ExceptSeq
        <4>4. p \o g \in Seq(Seq(C)) /\ Len(p \o g) = Len(f)
          <5> HIDE DEF g, f, t
          <5>1. p \o g \in Seq(Seq(C)) /\ Len(p \o g) = Len(p) + Len(g)
            BY <2>5, <4>2, ConcatProperties, Zenon
          <5> QED BY <5>1, <4>1, <4>2, <4>3
        <4>5. ASSUME NEW i \in 1..Len(f) PROVE f[i] = (p \o g)[i]
          <5>0. Len(f) = Len(p) + Len(q) BY <4>1, <4>3
          <5>1. \A j \in 1..Len(p) : t[j] = p[j] BY <2>5
          <5>2. \A j \in 1..Len(q) : t[Len(p) + j] = q[j] BY <2>5
          <5> HIDE DEF f, t, g
          <5>3. CASE i <= Len(p)
            <6>1. (p \o g)[i] = p[i] BY <2>5, <4>2, <5>3
            <6>2. i # Len(t) /\ i \in 1..Len(t) /\ i \in 1..Len(p) BY <5>0, <5>3, <4>1, <4>2, <2>5
            <6> QED BY <4>3, <5>1, <6>1, <6>2
          <5>4. CASE i > Len(p)
            <6> DEFINE j == i - Len(p)
            <6>1. /\ j \in 1..Len(q) /\ Len(p) + j = i
                  /\ (j = Len(q) <=> i = Len(t)) /\ i \in 1..Len(t)
              BY <5>0, <5>4, <4>1
            <6>2. (p \o g)[i] = g[j] BY <2>5, <4>2, <5>4, <6>1
            <6> HIDE DEF j
            <6>3. t[i] = q[j] BY <5>2, <6>1
            <6> QED BY <4>2, <4>3, <6>1, <6>2, <6>3
          <5>5. i <= Len(p) \/ i > Len(p) BY <4>1, <5>0
          <5> QED BY <5>3, <5>4, <5>5
        <4>6. f = p \o g
          <5> HIDE DEF f, g, t
          <5> QED BY <4>3, <4>4, <4>5, SeqEqual
        <4> QED BY <3>2, <4>6, Zenon DEF AddTo
      <3> QED BY <3>1, <3>2
    <2>7. Append(r, c) \in Seq(C) OBVIOUS
    <2> QED BY <2>1, <2>2, <2>3, <2>4, <2>6, <2>7 DEF p, q, v
  <1>3. Seq(C) \subseteq S
    <2> HIDE DEF S
    <2> QED BY <1>1, <1>2, D!SeqInduct
  <1> QED BY <1>3

\* A text without dots is one label.
LEMMA LabelsAlone ==
    ASSUME NEW C, "." \notin C, NEW s \in Seq(C) PROVE Labels(s) = <<s>>
  <1> DEFINE S == {r \in Seq(C) : Labels(r) = <<r>>}
  <1>1. <<>> \in S BY LabelsEmpty
  <1>2. ASSUME NEW r \in Seq(C), NEW c \in C, r \in S PROVE Append(r, c) \in S
    <2>1. Labels(Append(r, c)) = AddTo(<<r>>, c) BY <1>2, LabelsAppend
    <2>2. c # "." OBVIOUS
    <2>3. AddTo(<<r>>, c) = <<Append(r, c)>> BY <2>2 DEF AddTo
    <2> QED BY <2>1, <2>3
  <1>3. Seq(C) \subseteq S
    <2> HIDE DEF S
    <2> QED BY <1>1, <1>2, D!SeqInduct
  <1> QED BY <1>3

\* Every character that is not a dot is in a label.
LEMMA LabelsCover ==
    ASSUME NEW C, NEW s \in Seq(C), NEW E,
           \A i \in DOMAIN Labels(s) : Labels(s)[i] \in Seq(E)
    PROVE  s \in Seq(E \cup {"."})
  <1> DEFINE In(r) == \A i \in DOMAIN Labels(r) : Labels(r)[i] \in Seq(E)
             S == {r \in Seq(C) : In(r) => r \in Seq(E \cup {"."})}
  <1>1. <<>> \in S
    <2>1. <<>> \in Seq(C) /\ <<>> \in Seq(E \cup {"."}) OBVIOUS
    <2> QED BY <2>1
  <1>2. ASSUME NEW r \in Seq(C), NEW c \in C, r \in S PROVE Append(r, c) \in S
    <2>1. Append(r, c) \in Seq(C) OBVIOUS
    <2> SUFFICES ASSUME In(Append(r, c)) PROVE Append(r, c) \in Seq(E \cup {"."})
      BY <2>1
    <2> DEFINE l == Labels(r)
               n == Len(l)
               m == Labels(Append(r, c))
    <2>2. l \in Seq(Seq(C)) /\ l # <<>> /\ m = AddTo(l, c) BY LabelsType, LabelsAppend
    <2>3. \A i \in DOMAIN m : m[i] \in Seq(E) OBVIOUS
    <2>4. In(r) /\ (c = "." \/ c \in E)
      <3> SUFFICES (\A i \in DOMAIN l : l[i] \in Seq(E)) /\ (c = "." \/ c \in E)
        OBVIOUS
      <3> HIDE DEF l, m
      <3>0. n \in Nat /\ n > 0 /\ DOMAIN l = 1..n BY <2>2
      <3>1. CASE c = "."
        <4>1. m = Append(l, <<>>) BY <2>2, <3>1 DEF AddTo
        <4>2. \A i \in 1..n : i \in DOMAIN m /\ m[i] = l[i] BY <2>2, <4>1
        <4> QED BY <2>3, <3>0, <3>1, <4>2
      <3>2. CASE c # "."
        <4>1. l[n] \in Seq(C) /\ Append(l[n], c) \in Seq(C) BY <2>2, <3>0
        <4>2. /\ m \in Seq(Seq(C)) /\ Len(m) = n
              /\ \A i \in 1..n : m[i] = IF i = n THEN Append(l[n], c) ELSE l[i]
          <5>1. m = [l EXCEPT ![Len(l)] = Append(l[n], c)] BY <2>2, <3>2, Zenon DEF AddTo
          <5>2. /\ m \in Seq(Seq(C)) /\ Len(m) = Len(l)
                /\ \A i \in 1..Len(l) : m[i] = IF i = Len(l) THEN Append(l[n], c) ELSE l[i]
            <6> DEFINE Q == Seq(C)
                       e == Append(l[n], c)
            <6>1. e \in Q /\ l \in Seq(Q) /\ l # <<>> BY <2>2, <4>1
            <6>2. m = [l EXCEPT ![Len(l)] = e] BY <5>1
            <6> HIDE DEF Q, e, l, m
            <6>3. /\ m \in Seq(Q) /\ Len(m) = Len(l)
                  /\ \A i \in 1..Len(l) : m[i] = IF i = Len(l) THEN e ELSE l[i]
              BY <6>1, <6>2, LastChanged
            <6> QED BY <6>3 DEF Q, e
          <5> QED BY <5>2
        <4>3. DOMAIN m = 1..n /\ Append(l[n], c) \in Seq(E)
          <5>1. DOMAIN m = 1..n BY <4>2
          <5>2. n \in 1..n BY <3>0
          <5> QED BY <2>3, <4>2, <5>1, <5>2, Zenon
        <4>4. l[n] \in Seq(E) /\ c \in E
          <5>1. \A q \in Seq(C) : Append(q, c) \in Seq(E) => q \in Seq(E) /\ c \in E
            <6> SUFFICES ASSUME NEW q \in Seq(C), Append(q, c) \in Seq(E)
                         PROVE  q \in Seq(E) /\ c \in E
              OBVIOUS
            <6>1. \A i \in 1..Len(q)+1 : Append(q, c)[i] \in E BY ElementOfSeq
            <6>2. c = Append(q, c)[Len(q) + 1] /\ \A i \in 1..Len(q) : q[i] = Append(q, c)[i]
              OBVIOUS
            <6> QED BY <6>1, <6>2
          <5> QED BY <4>1, <4>3, <5>1
        <4>5. \A i \in 1..n : l[i] \in Seq(E)
          BY <2>3, <4>2, <4>3, <4>4, Zenon
        <4> QED BY <3>0, <4>4, <4>5
      <3> QED BY <3>1, <3>2
    <2>5. r \in Seq(E \cup {"."}) /\ c \in E \cup {"."} BY <1>2, <2>4
    <2> QED BY <2>5
  <1>3. Seq(C) \subseteq S
    <2> HIDE DEF S
    <2> QED BY <1>1, <1>2, D!SeqInduct
  <1> QED BY <1>3
-----------------------------------------------------------------------------
(* Suffixes *)

\* A suffix is what is left behind some beginning.
LEMMA SuffixIs ==
    ASSUME NEW E, NEW s \in Seq(E), NEW t \in Seq(E)
    PROVE  IsSuffix(s, t) <=> \E u \in Seq(E) : t = u \o s
  <1> DEFINE k == Len(s)
             n == Len(t)
  <1>1. /\ k \in Nat /\ n \in Nat /\ Reverse(s) \in Seq(E) /\ Reverse(t) \in Seq(E)
        /\ Len(Reverse(s)) = k /\ Len(Reverse(t)) = n
        /\ \A i \in 1..k : Reverse(s)[i] = s[k - i + 1]
        /\ \A i \in 1..n : Reverse(t)[i] = t[n - i + 1]
    BY DEF Reverse
  <1>2. IsSuffix(s, t) <=> k <= n /\ \A i \in 1..k : s[k - i + 1] = t[n - i + 1]
    <2>1. CASE ~(k <= n) BY <1>1, <2>1 DEF IsSuffix, IsPrefix
    <2>2. CASE k <= n
      <3> DEFINE x == SubSeq(Reverse(s), 1, k)
                 y == SubSeq(Reverse(t), 1, k)
      <3>1. x \in Seq(E) /\ Len(x) = k /\ \A i \in 1..k : x[i] = s[k - i + 1]
        BY <1>1
      <3>2. y \in Seq(E) /\ Len(y) = k /\ \A i \in 1..k : y[i] = t[n - i + 1]
        BY <1>1, <2>2
      <3>3. IsSuffix(s, t) <=> x = y BY <1>1, <2>2 DEF IsSuffix, IsPrefix
      <3> HIDE DEF x, y
      <3>4. x = y <=> \A i \in 1..k : x[i] = y[i]
        <4>1. (\A i \in 1..k : x[i] = y[i]) => x = y BY <3>1, <3>2, SeqEqual
        <4> QED BY <4>1
      <3> QED BY <2>2, <3>1, <3>2, <3>3, <3>4
    <2> QED BY <2>1, <2>2
  <1>3. ASSUME IsSuffix(s, t) PROVE \E u \in Seq(E) : t = u \o s
    <2>1. k <= n /\ \A i \in 1..k : s[k - i + 1] = t[n - i + 1] BY <1>2, <1>3
    <2> DEFINE u == SubSeq(t, 1, n - k)
    <2>2. u \in Seq(E) /\ Len(u) = n - k /\ \A i \in 1..n-k : u[i] = t[i] BY <1>1, <2>1
    <2> DEFINE r == u \o s
    <2>3. /\ r \in Seq(E) /\ Len(r) = n
          /\ \A i \in 1..n : r[i] = IF i <= n - k THEN u[i] ELSE s[i - (n - k)]
      <3> HIDE DEF u
      <3> QED BY <1>1, <2>1, <2>2
    <2>4. ASSUME NEW i \in 1..n PROVE t[i] = r[i]
      <3>1. CASE i <= n - k BY <1>1, <2>1, <2>2, <2>3, <3>1
      <3>2. CASE i > n - k
        <4> DEFINE j == n - i + 1
        <4>1. j \in 1..k /\ k - j + 1 = i - (n - k) /\ n - j + 1 = i BY <1>1, <2>1, <3>2
        <4>2. s[k - j + 1] = t[n - j + 1] BY <2>1, <4>1
        <4>3. r[i] = s[i - (n - k)] BY <1>1, <2>1, <2>3, <3>2
        <4> QED BY <4>1, <4>2, <4>3
      <3> QED BY <1>1, <3>1, <3>2
    <2> HIDE DEF r
    <2>5. t = r BY <1>1, <2>3, <2>4, SeqEqual
    <2> QED BY <2>2, <2>5 DEF r
  <1>4. ASSUME NEW u \in Seq(E), t = u \o s PROVE IsSuffix(s, t)
    <2>1. Len(u) \in Nat /\ n = Len(u) + k BY <1>4
    <2>2. ASSUME NEW i \in 1..k PROVE s[k - i + 1] = t[n - i + 1]
      <3>1. k - i + 1 \in 1..k /\ n - i + 1 = Len(u) + (k - i + 1) BY <1>1, <2>1
      <3>2. \A j \in 1..k : t[Len(u) + j] = s[j] BY <1>4
      <3> QED BY <3>1, <3>2
    <2> QED BY <1>1, <1>2, <2>1, <2>2
  <1> QED BY <1>3, <1>4

-----------------------------------------------------------------------------
(* Names *)

\* Trim takes the dots at the end away.
LEMMA TrimIs ==
    ASSUME NEW E, NEW t \in Seq(E), t # <<>> => t[Len(t)] # ".", NEW v \in Seq({"."})
    PROVE  Trim(t \o v) = t
  <1> DEFINE s == t \o v
             kept == {i \in DOMAIN s : s[i] # "."}
             n == Len(t)
  <1>1. /\ n \in Nat /\ Len(v) \in Nat /\ Len(s) = n + Len(v) /\ DOMAIN s = 1..(n + Len(v))
        /\ \A i \in 1..n : s[i] = t[i]
        /\ \A i \in 1..n+Len(v) : i > n => s[i] = "."
    OBVIOUS
  <1>2. \A i \in {0} \cup kept : i \in 0..n
    <2> HIDE DEF s, n
    <2> QED BY <1>1
  <1>3. n \in {0} \cup kept
    <2>1. n = 0 \/ t[n] # "." OBVIOUS
    <2> HIDE DEF s, n
    <2> QED BY <1>1, <2>1
  <1>4. Max({0} \cup kept) = n
    <2> DEFINE S == {0} \cup kept
    <2>1. n \in S /\ \A i \in S : n >= i
      <3> HIDE DEF kept, n
      <3> QED BY <1>1, <1>2, <1>3
    <2>2. \A i \in S : (\A j \in S : i >= j) => i = n
      <3> HIDE DEF kept, n
      <3> QED BY <1>1, <1>2, <1>3
    <2> HIDE DEF S, n
    <2>3. Max(S) = n BY <2>1, <2>2, Zenon DEF Max
    <2> QED BY <2>3 DEF S
  <1>5. Trim(s) = SubSeq(s, 1, n) BY <1>4, Zenon DEF Trim
  <1>6. SubSeq(s, 1, n) = t OBVIOUS
  <1> QED BY <1>5, <1>6

\* What Trim takes away are dots at the end.
LEMMA TrimSplit ==
    ASSUME NEW E, NEW s \in Seq(E)
    PROVE  \E t \in Seq(E), v \in Seq({"."}) : s = t \o v /\ (t # <<>> => t[Len(t)] # ".")
  <1>0. \A x \in Seq(E), y \in Seq(E), e \in E : Append(x \o y, e) = x \o Append(y, e)
    OBVIOUS
  <1> DEFINE S == {r \in Seq(E) : \E t \in Seq(E), v \in Seq({"."}) :
                                     r = t \o v /\ (t # <<>> => t[Len(t)] # ".")}
  <1>1. <<>> \in S
    <2>1. <<>> \in Seq(E) /\ <<>> \in Seq({"."}) /\ <<>> = <<>> \o <<>> OBVIOUS
    <2> QED BY <2>1
  <1>2. ASSUME NEW r \in Seq(E), NEW c \in E, r \in S PROVE Append(r, c) \in S
    <2>1. PICK t \in Seq(E), v \in Seq({"."}) : r = t \o v /\ (t # <<>> => t[Len(t)] # ".")
      BY <1>2
    <2>2. Append(r, c) \in Seq(E) OBVIOUS
    <2>3. CASE c = "."
      <3>1. Append(v, c) \in Seq({"."}) BY <2>3
      <3>2. v \in Seq(E) BY <2>3
      <3>3. Append(t \o v, c) = t \o Append(v, c)
        <4> QED BY <1>0, <3>2, Zenon
      <3> QED BY <2>1, <2>2, <3>1, <3>3
    <2>4. CASE c # "."
      <3> DEFINE w == Append(r, c)
      <3>1. w = w \o <<>> /\ w[Len(w)] = c /\ <<>> \in Seq({"."}) OBVIOUS
      <3> HIDE DEF w
      <3> QED BY <2>2, <2>4, <3>1 DEF w
    <2> QED BY <2>3, <2>4
  <1>3. Seq(E) \subseteq S
    <2> HIDE DEF S
    <2> QED BY <1>1, <1>2, D!SeqInduct
  <1> QED BY <1>3

\* The labels of a name do not depend on its last dot.
LEMMA LabelsOfTrim == \A s : LabelsOf(s) = Labels(Trim(s))
  BY Zenon DEF LabelsOf, Labels, Trim

NameChars == {"x", "-", "."}
LabelSeqs == Seq({"x", "-"})
\* The names the program works with.
Name(n) ==
    /\ n \in Seq(NameChars) /\ n # <<>> /\ n[Len(n)] = "."
    /\ \A i \in DOMAIN LabelsOf(n) : ValidLabel(LabelsOf(n)[i])
AllLabels == {l \in LabelSeqs : ValidLabel(l)}

\* A label is not empty.
LEMMA NoEmptyLabel == ~ValidLabel(<<>>)
  BY DEF ValidLabel

\* A name all of whose labels are valid is more than dots.
LEMMA NameTrim ==
    ASSUME NEW E, NEW n \in Seq(E), \A i \in DOMAIN LabelsOf(n) : ValidLabel(LabelsOf(n)[i])
    PROVE  \E t \in Seq(E), v \in Seq({"."}) :
              n = t \o v /\ t # <<>> /\ t[Len(t)] # "." /\ LabelsOf(n) = Labels(t)
  <1>1. PICK t \in Seq(E), v \in Seq({"."}) : n = t \o v /\ (t # <<>> => t[Len(t)] # ".")
    BY TrimSplit
  <1>2. Trim(n) = t BY <1>1, TrimIs
  <1>3. LabelsOf(n) = Labels(t) BY <1>2, LabelsOfTrim
  <1>4. t # <<>>
    <2> SUFFICES ASSUME t = <<>> PROVE FALSE
      OBVIOUS
    <2>1. LabelsOf(n) = <<<<>>>> BY <1>3, LabelsEmpty
    <2>2. 1 \in DOMAIN LabelsOf(n) /\ LabelsOf(n)[1] = <<>> BY <2>1
    <2> QED BY <2>2, NoEmptyLabel
  <1> QED BY <1>1, <1>3, <1>4

\* The labels of a name under a domain.
LEMMA LabelsBelow ==
    ASSUME NEW E, "." \in E, NEW u \in Seq(E), NEW n \in Seq(E),
           \A i \in DOMAIN LabelsOf(n) : ValidLabel(LabelsOf(n)[i])
    PROVE  LabelsOf((u \o Dot) \o n) = Labels(u) \o LabelsOf(n)
  <1>1. PICK t \in Seq(E), v \in Seq({"."}) :
              n = t \o v /\ t # <<>> /\ t[Len(t)] # "." /\ LabelsOf(n) = Labels(t)
    BY NameTrim
  <1> DEFINE w == (u \o Dot) \o t
  <1>2. (u \o Dot) \in Seq(E) BY DEF Dot
  <1>3. (u \o Dot) \o n = w \o v
    <2> DEFINE p == u \o Dot
    <2>1. p \in Seq(E) /\ v \in Seq(E) BY <1>2
    <2> HIDE DEF p
    <2>2. (p \o t) \o v = p \o (t \o v) BY <2>1, ConcatAssociative, SMTT(30)
    <2> QED BY <1>1, <2>2 DEF p
  <1>4. w \in Seq(E) /\ w[Len(w)] # "." BY <1>1, <1>2
  <1> HIDE DEF w
  <1>5. Trim(w \o v) = w BY <1>4, TrimIs
  <1>6. Labels(w) = Labels(u) \o Labels(t) BY LabelsSplit DEF w
  <1> QED BY <1>1, <1>3, <1>5, <1>6, LabelsOfTrim

\* A sequence and its items.
LEMMA SeqFacts ==
    ASSUME NEW E, NEW s \in Seq(E)
    PROVE  /\ \A i \in DOMAIN s : s[i] \in E
           /\ s = [i \in DOMAIN s |-> s[i]]
           /\ <<>> \o s = s /\ s \o <<>> = s
  <1>1. s \in [1..Len(s) -> E] OBVIOUS
  <1>2. s = [i \in DOMAIN s |-> s[i]] BY <1>1, Zenon
  <1> QED BY <1>2

\* A text in lower case.
LEMMA LowerAllType ==
    ASSUME NEW E, NEW s \in Seq(E), NEW C, \A c \in E : Lower(c) \in C
    PROVE  LowerAll(s) \in Seq(C)
  BY DEF LowerAll

\* A name that ends in a dot is normalized already.
LEMMA NameNormalized ==
    ASSUME NEW n \in Seq(NameChars), n # <<>>, n[1] # " ", n[Len(n)] = "."
    PROVE  Normalized(n) = n
  <1>1. Strip(n, {" "}) = n
    <2>0. <<>> \o n = n /\ n \o <<>> = n BY SeqFacts, Zenon
    <2>1. <<>> \in Seq({" "}) /\ (<<>> \o n) \o <<>> = n
      <3>1. <<>> \in Seq({" "}) BY EmptySeq, Zenon
      <3> QED BY <2>0, <3>1, Zenon
    <2>2. n[1] \notin {" "} /\ n[Len(n)] \notin {" "} OBVIOUS
    <2>3. Strip((<<>> \o n) \o <<>>, {" "}) = n BY <2>1, <2>2, StripMiddle
    <2> QED BY <2>1, <2>3
  <1>2. LowerAll(n) = n
    <2>0. \A i \in DOMAIN n : n[i] \in NameChars BY SeqFacts, Zenon
    <2>1. \A i \in DOMAIN n : Lower(n[i]) = n[i] BY <2>0 DEF Lower, NameChars
    <2>2. LowerAll(n) = [i \in DOMAIN n |-> n[i]] BY <2>1, Zenon DEF LowerAll
    <2>3. n = [i \in DOMAIN n |-> n[i]] BY SeqFacts, ZenonT(30)
    <2> QED BY <2>2, <2>3
  <1>3. EndDot(n) = n BY DEF EndDot, Last
  <1> QED BY <1>1, <1>2, <1>3 DEF Normalized

\* A name of the program is accepted as a base domain, as it is.
LEMMA NameZone == ASSUME NEW n, Name(n) PROVE Normalized(n) = n /\ ZoneName(n) = n
  <1>1. n \in Seq(NameChars) /\ n # <<>> /\ n[Len(n)] = "." BY DEF Name
  <1>2. n[1] # " "
    <2>1. n[1] \in NameChars BY <1>1
    <2> QED BY <2>1 DEF NameChars
  <1>3. Normalized(n) = n BY <1>1, <1>2, NameNormalized
  <1>4. \A i \in DOMAIN LabelsOf(n) : ValidLabel(LabelsOf(n)[i]) BY DEF Name
  <1> QED BY <1>3, <1>4, Zenon DEF ZoneName

\* A base domain that is accepted is such a name.
LEMMA ZoneNameIsName ==
    ASSUME NEW E, NEW s \in Seq(E), ZoneName(s) # NoName PROVE Name(ZoneName(s))
  <1> DEFINE n == Normalized(s)
             C == E \cup {"x", "."}
  <1>1. n \in Seq(C) /\ n # <<>> /\ n[Len(n)] = "."
    <2> DEFINE t == LowerAll(Strip(s, {" "}))
    <2>1. t \in Seq(C)
      <3>1. Strip(s, {" "}) \in Seq(E) BY StripType
      <3>2. \A c \in E : Lower(c) \in C BY DEF Lower
      <3> HIDE DEF C
      <3> QED BY <3>1, <3>2, LowerAllType
    <2> HIDE DEF t
    <2>2. EndDot(t) \in Seq(C) /\ EndDot(t) # <<>> /\ EndDot(t)[Len(EndDot(t))] = "."
      <3>1. CASE t # <<>> /\ Last(t) = "." BY <2>1, <3>1 DEF EndDot, Last
      <3>2. CASE ~(t # <<>> /\ Last(t) = ".")
        <4>1. EndDot(t) = t \o <<".">> BY <3>2 DEF EndDot, Dot
        <4> HIDE DEF C
        <4>2. "." \in C BY DEF C
        <4> QED BY <2>1, <4>1, <4>2
      <3> QED BY <3>1, <3>2
    <2> QED BY <2>2 DEF Normalized, t
  <1>2. ZoneName(s) = n /\ \A i \in DOMAIN LabelsOf(n) : ValidLabel(LabelsOf(n)[i])
    BY Zenon DEF ZoneName
  <1> HIDE DEF n, C
  <1>3. PICK t \in Seq(C), v \in Seq({"."}) :
              n = t \o v /\ t # <<>> /\ t[Len(t)] # "." /\ LabelsOf(n) = Labels(t)
    BY <1>1, <1>2, NameTrim
  <1>4. t \in Seq(NameChars)
    <2>1. \A i \in DOMAIN Labels(t) : Labels(t)[i] \in Seq(C) /\ ValidLabel(Labels(t)[i])
      BY <1>2, <1>3, LabelsType
    <2>2. \A l \in Seq(C) : ValidLabel(l) => l \in Seq({"x", "-"})
      BY DEF ValidLabel, Safe
    <2>3. t \in Seq({"x", "-"} \cup {"."}) BY <2>1, <2>2, LabelsCover
    <2>4. {"x", "-"} \cup {"."} = NameChars BY DEF NameChars
    <2> QED BY <2>3, <2>4
  <1>5. n \in Seq(NameChars)
    <2>1. v \in Seq(NameChars) BY DEF NameChars
    <2> QED BY <1>3, <1>4, <2>1
  <1> QED BY <1>1, <1>2, <1>5 DEF Name

\* A label under a name gives a name.
LEMMA NameBelow ==
    ASSUME NEW n, Name(n), NEW l \in AllLabels
    PROVE  Name((l \o Dot) \o n) /\ LabelsOf((l \o Dot) \o n) = <<l>> \o LabelsOf(n)
  <1> DEFINE w == (l \o Dot) \o n
  <1>1. /\ n \in Seq(NameChars) /\ n # <<>> /\ n[Len(n)] = "."
        /\ \A i \in DOMAIN LabelsOf(n) : ValidLabel(LabelsOf(n)[i])
    BY DEF Name
  <1>2. l \in LabelSeqs /\ ValidLabel(l) BY DEF AllLabels
  <1>3. l \in Seq(NameChars) BY <1>2 DEF LabelSeqs, NameChars
  <1>4. LabelsOf(w) = Labels(l) \o LabelsOf(n)
    <2>1. "." \in NameChars BY DEF NameChars
    <2> QED BY <1>1, <1>3, <2>1, LabelsBelow
  <1>5. Labels(l) = <<l>>
    <2>1. "." \notin {"x", "-"} OBVIOUS
    <2> QED BY <1>2, <2>1, LabelsAlone DEF LabelSeqs
  <1>6. w \in Seq(NameChars) /\ w # <<>> /\ w[Len(w)] = "."
    <2>1. Dot \in Seq(NameChars) BY DEF Dot, NameChars
    <2> QED BY <1>1, <1>3, <2>1
  <1>7. LabelsOf(n) \in Seq(Seq(NameChars))
    <2>1. PICK t \in Seq(NameChars) : LabelsOf(n) = Labels(t) BY <1>1, NameTrim
    <2> QED BY <2>1, LabelsType
  <1> DEFINE r == LabelsOf(n)
  <1>8. \A i \in DOMAIN LabelsOf(w) : ValidLabel(LabelsOf(w)[i])
    <2> DEFINE x == <<l>> \o r
    <2>1. \A i \in DOMAIN x : x[i] = l \/ (i - 1 \in DOMAIN r /\ x[i] = r[i - 1])
      <3> HIDE DEF r
      <3>1. r \in Seq(Seq(NameChars)) BY <1>7 DEF r
      <3>2. DOMAIN x = 1..Len(r)+1 /\ Len(r) \in Nat /\ DOMAIN r = 1..Len(r) BY <3>1
      <3>3. \A i \in 1..Len(r)+1 : x[i] = IF i <= 1 THEN l ELSE r[i - 1] BY <3>1
      <3> QED BY <3>2, <3>3
    <2>2. LabelsOf(w) = x BY <1>4, <1>5
    <2> HIDE DEF x
    <2> QED BY <1>1, <1>2, <2>1, <2>2
  <1> QED BY <1>4, <1>5, <1>6, <1>8 DEF Name
\* Where a name ends below another one.
LEMMA BelowLabels ==
    ASSUME NEW z, Name(z), NEW n, Name(n), IsSuffix(Dot \o z, n)
    PROVE  \E u \in Seq(NameChars) : LabelsOf(n) = Labels(u) \o LabelsOf(z)
  <1>1. z \in Seq(NameChars) /\ n \in Seq(NameChars) /\ "." \in NameChars
        /\ \A i \in DOMAIN LabelsOf(z) : ValidLabel(LabelsOf(z)[i])
    BY DEF Name, NameChars
  <1>2. Dot \in Seq(NameChars) /\ Dot \o z \in Seq(NameChars) BY <1>1 DEF Dot
  <1>3. PICK u \in Seq(NameChars) : n = u \o (Dot \o z) BY <1>1, <1>2, SuffixIs, ZenonT(30)
  <1>4. n = (u \o Dot) \o z BY <1>1, <1>2, <1>3, ConcatAssociative
  <1> QED BY <1>1, <1>4, LabelsBelow

\* What is put before a zone with a dot lies below the zone.
LEMMA BelowSuffix ==
    ASSUME NEW z, Name(z), NEW u \in Seq(NameChars)
    PROVE  IsSuffix(Dot \o z, (u \o Dot) \o z)
  <1>1. z \in Seq(NameChars) /\ Dot \in Seq(NameChars) BY DEF Name, Dot, NameChars
  <1>2. (u \o Dot) \o z = u \o (Dot \o z) BY <1>1, ConcatAssociative
  <1>3. Dot \o z \in Seq(NameChars) /\ (u \o Dot) \o z \in Seq(NameChars) BY <1>1
  <1> QED BY <1>2, <1>3, SuffixIs

\* The name that is built for two labels, label by label.
LEMMA BuiltIs ==
    ASSUME NEW base, Name(base), NEW l \in AllLabels, NEW p \in AllLabels
    PROVE  /\ Name((p \o Dot) \o base)
           /\ Name((l \o Dot) \o ((p \o Dot) \o base))
           /\ Built(base, l, p) = (l \o Dot) \o ((p \o Dot) \o base)
           /\ ZoneFor("per_project_zone", base, p) = (p \o Dot) \o base
           /\ LabelsOf((p \o Dot) \o base) = <<p>> \o LabelsOf(base)
           /\ LabelsOf((l \o Dot) \o ((p \o Dot) \o base)) = <<l>> \o (<<p>> \o LabelsOf(base))
  <1> DEFINE zone == (p \o Dot) \o base
             n == (l \o Dot) \o zone
  <1>1. Name(zone) /\ LabelsOf(zone) = <<p>> \o LabelsOf(base) BY NameBelow
  <1>2. Name(n) /\ LabelsOf(n) = <<l>> \o LabelsOf(zone)
    <2> HIDE DEF zone
    <2> QED BY <1>1, NameBelow
  <1>3. ZoneFor("per_project_zone", base, p) = zone
    <2>1. ZoneName(zone) = zone BY <1>1, NameZone
    <2> QED BY <2>1 DEF ZoneFor
  <1>4. Built(base, l, p) = n
    <2>1. (((l \o Dot) \o p) \o Dot) \o base = n
      <3> DEFINE x == l \o Dot
      <3>1. /\ x \in Seq(NameChars) /\ p \in Seq(NameChars) /\ Dot \in Seq(NameChars)
            /\ base \in Seq(NameChars)
        BY DEF AllLabels, LabelSeqs, Dot, NameChars, Name
      <3> HIDE DEF x
      <3>2. (x \o p) \o Dot = x \o (p \o Dot) BY <3>1, ConcatAssociative
      <3>3. p \o Dot \in Seq(NameChars) BY <3>1
      <3>4. (x \o (p \o Dot)) \o base = x \o ((p \o Dot) \o base)
        <4> DEFINE y == p \o Dot
        <4>1. y \in Seq(NameChars) BY <3>3
        <4> HIDE DEF y
        <4>2. (x \o y) \o base = x \o (y \o base) BY <3>1, <4>1, ConcatAssociative, SMTT(30)
        <4> QED BY <4>2 DEF y
      <3> QED BY <3>2, <3>4 DEF x
    <2>2. Normalized(n) = n /\ ZoneName(n) = n
      <3> HIDE DEF n
      <3> QED BY <1>2, NameZone
    <2>3. ValidLabel(l) /\ ValidLabel(p) BY DEF AllLabels
    <2> HIDE DEF n
    <2> QED BY <2>1, <2>2, <2>3, Zenon DEF Built
  <1> QED BY <1>1, <1>2, <1>3, <1>4, Zenon

\* The labels of a name are texts.
LEMMA LabelsOfType == ASSUME NEW n, Name(n) PROVE LabelsOf(n) \in Seq(Seq(NameChars))
  <1>1. n \in Seq(NameChars) /\ \A i \in DOMAIN LabelsOf(n) : ValidLabel(LabelsOf(n)[i])
    BY DEF Name
  <1>2. PICK t \in Seq(NameChars) : LabelsOf(n) = Labels(t) BY <1>1, NameTrim
  <1> QED BY <1>2, LabelsType

\* Equal sequences agree in their heads and in their tails.
LEMMA ConsEqual ==
    ASSUME NEW E, NEW x \in Seq(E), NEW y \in Seq(E), NEW l \in E, NEW m \in E,
           <<l>> \o x = <<m>> \o y
    PROVE  l = m /\ x = y
  <1>1. (<<l>> \o x)[1] = l /\ (<<m>> \o y)[1] = m OBVIOUS
  <1>2. l = m BY <1>1
  <1>3. <<l>> \in Seq(E) OBVIOUS
  <1>4. x = y BY <1>2, <1>3, ConcatSimplifications
  <1> QED BY <1>2, <1>4

\* What a sequence has in front of the same rest.
LEMMA SecondEqual ==
    ASSUME NEW E, NEW r \in Seq(E), NEW k \in Seq(E), k # <<>>, NEW l \in E, NEW p \in E,
           NEW q \in E, k \o (<<q>> \o r) = <<l>> \o (<<p>> \o r)
    PROVE  q = p
  <1> DEFINE x == <<l>> \o (<<p>> \o r)
             y == k \o (<<q>> \o r)
  <1>1. Len(x) = 2 + Len(r) /\ Len(y) = Len(k) + 1 + Len(r)
        /\ Len(k) \in Nat /\ Len(r) \in Nat /\ x[2] = p
    OBVIOUS
  <1>2. Len(k) = 1 BY <1>1
  <1>3. y[2] = q BY <1>2
  <1> QED BY <1>1, <1>3

\* The names are in their zones for all labels there are, not only for SomeLabels.
LEMMA NamesInAll ==
    ASSUME NEW base, Name(base), NEW labels \in SUBSET AllLabels PROVE NamesIn(base, labels)
  <1> SUFFICES ASSUME NEW strategy \in Strategies, NEW l \in labels, NEW p \in labels
        PROVE  LET below(q) == Dot \o ZoneFor(strategy, base, q)
                   name(m, q) == Built(base, m, q)
               IN  /\ name(l, p) # NoName /\ Head(LabelsOf(name(l, p))) = l
                   /\ IsSuffix(below(p), name(l, p))
                   /\ Managed(strategy, base, ZoneFor(strategy, base, p))
                   /\ \A m, q \in labels :
                         /\ <<m, q>> # <<l, p>> => name(m, q) # name(l, p)
                         /\ strategy = "per_project_zone" /\ q # p =>
                               ~IsSuffix(below(q), name(l, p))
    BY Zenon DEF NamesIn
  <1> DEFINE zone(q) == (q \o Dot) \o base
             n(m, q) == (m \o Dot) \o zone(q)
             r == LabelsOf(base)
  <1>1. ASSUME NEW m \in labels, NEW q \in labels
        PROVE  /\ Name(zone(q)) /\ Name(n(m, q)) /\ Built(base, m, q) = n(m, q)
               /\ ZoneFor("per_project_zone", base, q) = zone(q)
               /\ LabelsOf(zone(q)) = <<q>> \o r
               /\ LabelsOf(n(m, q)) = <<m>> \o (<<q>> \o r)
               /\ m \in Seq(NameChars) /\ q \in Seq(NameChars)
    <2>1. m \in AllLabels /\ q \in AllLabels OBVIOUS
    <2>2. m \in Seq(NameChars) /\ q \in Seq(NameChars)
      BY <2>1 DEF AllLabels, LabelSeqs, NameChars
    <2> QED BY <2>1, <2>2, BuiltIs, Zenon
  <1>2. r \in Seq(Seq(NameChars)) BY LabelsOfType
  <1> DEFINE T == Seq(NameChars)
  <1>3. \A m, q \in labels : <<q>> \o r \in Seq(T) /\ <<m>> \o (<<q>> \o r) \in Seq(T)
    <2> SUFFICES ASSUME NEW m \in labels, NEW q \in labels
                 PROVE  <<q>> \o r \in Seq(T) /\ <<m>> \o (<<q>> \o r) \in Seq(T)
      OBVIOUS
    <2>1. m \in T /\ q \in T /\ r \in Seq(T) BY <1>1, <1>2
    <2> HIDE DEF T, r
    <2>2. <<q>> \o r \in Seq(T) BY <2>1
    <2> DEFINE x == <<q>> \o r
    <2> HIDE DEF x
    <2>3. <<m>> \o x \in Seq(T) BY <2>1, <2>2 DEF x
    <2> QED BY <2>2, <2>3 DEF x
  <1>4. Built(base, l, p) # NoName /\ Head(LabelsOf(Built(base, l, p))) = l
    <2>1. n(l, p) # <<>> BY <1>1 DEF Name
    <2>2. Head(<<l>> \o (<<p>> \o r)) = l
      <3> DEFINE x == <<p>> \o r
      <3>1. x \in Seq(T) /\ l \in T BY <1>1, <1>3
      <3> HIDE DEF x, T
      <3>2. Head(<<l>> \o x) = l BY <3>1
      <3> QED BY <3>2 DEF x
    <2> QED BY <1>1, <2>1, <2>2 DEF NoName
  <1>5. IsSuffix(Dot \o zone(p), n(l, p)) BY <1>1, BelowSuffix
  <1>6. IsSuffix(Dot \o base, zone(p)) BY <1>1, BelowSuffix
  <1>7. IsSuffix(Dot \o base, n(l, p))
    <2> DEFINE x == l \o Dot
               y == p \o Dot
    <2>1. x \in Seq(NameChars) /\ y \in Seq(NameChars) /\ base \in Seq(NameChars)
          /\ x \o p \in Seq(NameChars) /\ p \in Seq(NameChars) /\ Dot \in Seq(NameChars)
      <3>1. base \in Seq(NameChars) /\ Dot \in Seq(NameChars) BY DEF Dot, NameChars, Name
      <3>2. l \in Seq(NameChars) /\ p \in Seq(NameChars) BY <1>1
      <3> QED BY <3>1, <3>2
    <2>2. x \o (y \o base) = (x \o y) \o base BY <2>1, ConcatAssociative, SMTT(30)
    <2>3. x \o y = (x \o p) \o Dot
      <3> HIDE DEF x
      <3> QED BY <2>1, ConcatAssociative, SMTT(30)
    <2>4. IsSuffix(Dot \o base, ((x \o p) \o Dot) \o base) BY <2>1, BelowSuffix
    <2> QED BY <2>2, <2>3, <2>4
  <1>8. ASSUME NEW m \in labels, NEW q \in labels, n(m, q) = n(l, p) PROVE m = l /\ q = p
    <2>1. <<m>> \o (<<q>> \o r) = <<l>> \o (<<p>> \o r) BY <1>1, <1>8, ZenonT(30)
    <2>2. m \in T /\ q \in T /\ l \in T /\ p \in T BY <1>1
    <2>3. m = l /\ <<q>> \o r = <<p>> \o r
      <3> DEFINE x == <<q>> \o r
                 y == <<p>> \o r
      <3>1. x \in Seq(T) /\ y \in Seq(T) /\ <<m>> \o x = <<l>> \o y BY <1>3, <2>1
      <3> HIDE DEF x, y, T
      <3>2. m = l /\ x = y BY <2>2, <3>1, ConsEqual
      <3> QED BY <3>2 DEF x, y
    <2> HIDE DEF T, r
    <2>4. q = p BY <1>2, <2>2, <2>3, ConsEqual DEF T
    <2> QED BY <2>3, <2>4
  <1>9. ASSUME NEW q \in labels, IsSuffix(Dot \o zone(q), n(l, p)) PROVE q = p
    <2>1. Name(zone(q)) /\ Name(n(l, p)) BY <1>1
    <2>2. PICK u \in Seq(NameChars) : LabelsOf(n(l, p)) = Labels(u) \o LabelsOf(zone(q))
      BY <1>9, <2>1, BelowLabels
    <2> DEFINE k == Labels(u)
               x == <<l>> \o (<<p>> \o r)
    <2>3. k \o (<<q>> \o r) = x BY <1>1, <2>2
    <2>4. k \in Seq(T) /\ k # <<>> BY LabelsType
    <2>5. r \in Seq(T) /\ q \in T /\ l \in T /\ p \in T BY <1>1, <1>2
    <2> HIDE DEF T, r, k
    <2> QED BY <2>3, <2>4, <2>5, SecondEqual
  <1>10. Managed(strategy, base, ZoneFor(strategy, base, p))
    <2>1. Normalized(base) = base /\ Normalized(zone(p)) = zone(p) BY <1>1, NameZone
    <2>2. CASE strategy = "single_zone" BY <2>1, <2>2 DEF Managed, ZoneFor
    <2>3. CASE strategy = "per_project_zone" BY <1>1, <1>6, <2>1, <2>3 DEF Managed
    <2> QED BY <2>2, <2>3 DEF Strategies
  <1>11. IsSuffix(Dot \o ZoneFor(strategy, base, p), Built(base, l, p))
    <2>1. CASE strategy = "single_zone" BY <1>1, <1>7, <2>1 DEF ZoneFor
    <2>2. CASE strategy = "per_project_zone" BY <1>1, <1>5, <2>2
    <2> QED BY <2>1, <2>2 DEF Strategies
  <1>12. ASSUME NEW m \in labels, NEW q \in labels
         PROVE  /\ <<m, q>> # <<l, p>> => Built(base, m, q) # Built(base, l, p)
                /\ strategy = "per_project_zone" /\ q # p =>
                      ~IsSuffix(Dot \o ZoneFor(strategy, base, q), Built(base, l, p))
    <2>1. Built(base, m, q) = n(m, q) /\ Built(base, l, p) = n(l, p)
          /\ ZoneFor("per_project_zone", base, q) = zone(q)
      BY <1>1
    <2> HIDE DEF n, zone
    <2> QED BY <1>8, <1>9, <2>1
  <1> QED BY <1>4, <1>10, <1>11, <1>12, Zenon

\* No zone is taken across base domains, for all labels there are.
LEMMA TakenApartAll ==
    ASSUME NEW base, Name(base), NEW other, Name(other), NEW labels \in SUBSET AllLabels
    PROVE  TakenApart(base, other, labels)
  <1> SUFFICES ASSUME NEW strategy \in Strategies, NEW zone \in ZonesOf(other, labels),
                      Managed(strategy, base, zone)
               PROVE  IsSuffix(LabelsOf(base), LabelsOf(zone))
    BY Zenon DEF TakenApart
  <1>1. Name(zone)
    <2>1. CASE zone = other BY <2>1
    <2>2. CASE zone # other
      <3>1. PICK p \in labels : zone = ZoneFor("per_project_zone", other, p)
        BY <2>2 DEF ZonesOf
      <3>2. p \in AllLabels OBVIOUS
      <3>3. Name((p \o Dot) \o other) BY <3>2, NameBelow
      <3>4. ZoneFor("per_project_zone", other, p) = (p \o Dot) \o other
        BY <3>2, BuiltIs
      <3> QED BY <3>1, <3>3, <3>4
    <2> QED BY <2>1, <2>2
  <1>2. Normalized(zone) = zone BY <1>1, NameZone
  <1> DEFINE T == Seq(NameChars)
             r == LabelsOf(base)
             y == LabelsOf(zone)
  <1>3. r \in Seq(T) /\ y \in Seq(T) BY <1>1, LabelsOfType
  <1>4. \E k \in Seq(T) : y = k \o r
    <2>1. CASE strategy = "single_zone"
      <3>1. zone = base BY <1>2, <2>1 DEF Managed
      <3>2. y = r BY <3>1
      <3> HIDE DEF T, r, y
      <3>3. <<>> \in Seq(T) /\ <<>> \o r = r BY <1>3
      <3> QED BY <3>2, <3>3
    <2>2. CASE strategy = "per_project_zone"
      <3>1. IsSuffix(Dot \o base, zone) BY <1>2, <2>2 DEF Managed
      <3>2. PICK u \in Seq(NameChars) : y = Labels(u) \o r BY <1>1, <3>1, BelowLabels
      <3>3. Labels(u) \in Seq(T) BY LabelsType
      <3> QED BY <3>2, <3>3
    <2> QED BY <2>1, <2>2 DEF Strategies
  <1> HIDE DEF T, r, y
  <1>5. IsSuffix(r, y) BY <1>3, <1>4, SuffixIs
  <1> QED BY <1>5 DEF r, y

\* SomeLabels are labels.
LEMMA SomeLabelsValid == SomeLabels \in SUBSET AllLabels
  <1>1. <<"x">> \in LabelSeqs /\ <<"x", "x">> \in LabelSeqs /\ <<"x", "-", "x">> \in LabelSeqs
    BY DEF LabelSeqs
  <1> QED BY <1>1, Zenon DEF SomeLabels, AllLabels

\* Names are in their zones and in no other project's, and are all different, whatever base
\* domain was accepted: for the labels of the runs, and for all DNS labels.
THEOREM NamesZones ==
    Spec => []/\ NamesInTheirZones
              /\ ZoneName(a) # NoName => NamesIn(ZoneName(a), AllLabels)
  <1>1. Strings => \/ ZoneName(a) = NoName
                   \/ NamesIn(ZoneName(a), SomeLabels) /\ NamesIn(ZoneName(a), AllLabels)
    BY ZoneNameIsName, NamesInAll, SomeLabelsValid DEF Strings
  <1>2. Strings => /\ NamesInTheirZones
                   /\ ZoneName(a) # NoName => NamesIn(ZoneName(a), AllLabels)
    BY <1>1 DEF NamesInTheirZones
  <1> QED BY <1>2, StringsInductive, PTL

\* A deployment never takes a zone for its own that is not at its base domain
\* (ZoneResolver.is_managed_zone): for the labels of the runs, and for all DNS labels.
THEOREM ZonesApart ==
    Spec => []/\ BasesApart
              /\ ZoneName(a) # NoName /\ ZoneName(b) # NoName =>
                    TakenApart(ZoneName(a), ZoneName(b), AllLabels)
  <1>1. Strings /\ ZoneName(a) # NoName /\ ZoneName(b) # NoName =>
            TakenApart(ZoneName(a), ZoneName(b), SomeLabels)
            /\ TakenApart(ZoneName(a), ZoneName(b), AllLabels)
    BY ZoneNameIsName, TakenApartAll, SomeLabelsValid DEF Strings
  <1>2. Strings => /\ BasesApart
                   /\ ZoneName(a) # NoName /\ ZoneName(b) # NoName =>
                         TakenApart(ZoneName(a), ZoneName(b), AllLabels)
    BY <1>1 DEF BasesApart
  <1> QED BY <1>2, StringsInductive, PTL
=============================================================================
