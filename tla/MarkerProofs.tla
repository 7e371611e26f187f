----------------------------- MODULE MarkerProofs -----------------------------
(***************************************************************************)
(* Ownership markers: what the run names checks on short strings holds for *)
(* strings of every length over any alphabet.  Three arguments carry it: a *)
(* plain text is split at its blanks; without quotes and backslashes no    *)
(* blank is left in a word; and of the quotes and backslashes of a text no *)
(* word keeps them all, so that a value with one is never read back.       *)
(***************************************************************************)
EXTENDS NamesProofs

-----------------------------------------------------------------------------
(* Reading a text, one character at a time *)

R == INSTANCE FoldLemmas WITH Step <- Read, Base <- Start

\* What the reader holds after a text.
After(text) == FoldLeft(Read, Start, text)

\* Reading is a fold, one character at a time.
LEMMA AfterIsFold == \A s : After(s) = R!Fold(s)
  BY Zenon DEF After, R!Fold, FoldLeft, R!FoldLeft, MapThenFoldSet, R!MapThenFoldSet, Max, R!Max

\* Nothing was read.
LEMMA AfterEmpty == After(<<>>) = Start
  BY AfterIsFold, R!FoldEmpty, Zenon

\* One character more is read.
LEMMA AfterAppend ==
    ASSUME NEW E, NEW s \in Seq(E), NEW c \in E
    PROVE  After(Append(s, c)) = Read(After(s), c)
  BY AfterIsFold, R!FoldAppend, Zenon

Readers(E) ==
    [at : {"gap", "word", "escape", "'", "\""}, back : {"word", "'", "\""},
     word : Seq(E), quoted : BOOLEAN, words : Seq(Seq(E))]

\* One and two items more.
LEMMA AppendTwo ==
    ASSUME NEW E, NEW w \in Seq(E), NEW d \in E, NEW c \in E
    PROVE  w \o <<c>> = Append(w, c) /\ w \o <<d, c>> = Append(Append(w, d), c)
  OBVIOUS

\* What a character adds to the word in hand and to the words of the reader r, which becomes n.
Added(r, n, c) ==
    \/ /\ n.words \in {r.words, Append(r.words, r.word)}
       /\ n.word = <<>> /\ n.at = "gap"
       /\ c = " " /\ r.at \in {"gap", "word"}
    \/ /\ n.words = r.words
       /\ \/ /\ n.word = r.word /\ c \in {"\\", "'", "\""}
             /\ \/ n.at = "escape" /\ c = "\\"
                   /\ (n.back \in Quotes => r.at \in Quotes)
                \/ n.at # "escape"
             /\ r.at # "escape"
          \/ /\ n.word = Append(r.word, c)
             /\ n.at # "escape"
             /\ c = " " => r.at \notin {"gap", "word"}
             /\ c \in {"\\", "'", "\""} => r.at \notin {"gap", "word"}
          \/ /\ n.word = Append(Append(r.word, "\\"), c)
             /\ n.at # "escape"
             /\ r.at = "escape" /\ r.back \in Quotes

\* One character more: what is added to the word in hand, and to the words.
LEMMA ReadStep ==
    ASSUME NEW E, "\\" \in E, NEW r \in Readers(E), NEW c \in E
    PROVE  /\ Read(r, c) \in Readers(E)
           /\ Added(r, Read(r, c), c)
           /\ c \notin {" ", "\\", "'", "\""} /\ r.at \in {"gap", "word"} =>
                 Read(r, c) = [r EXCEPT !.at = "word", !.word = Append(r.word, c)]
  <1> USE DEF Added
  <1>0. /\ r.at \in {"gap", "word", "escape", "'", "\""} /\ r.back \in {"word", "'", "\""}
        /\ r.word \in Seq(E) /\ r.quoted \in BOOLEAN /\ r.words \in Seq(Seq(E))
        /\ r = [at |-> r.at, back |-> r.back, word |-> r.word, quoted |-> r.quoted,
                 words |-> r.words]
    BY DEF Readers
  <1>1. /\ Append(r.word, c) \in Seq(E) /\ Append(Append(r.word, "\\"), c) \in Seq(E)
        /\ Append(r.words, r.word) \in Seq(Seq(E)) /\ <<>> \in Seq(E)
        /\ r.word \o <<c>> = Append(r.word, c)
        /\ r.word \o <<"\\", c>> = Append(Append(r.word, "\\"), c)
    <2> DEFINE w == r.word
               ws == r.words
               T == Seq(E)
    <2>1. w \in Seq(E) /\ ws \in Seq(T) /\ w \in T BY <1>0
    <2>2. <<>> \in Seq(E) OBVIOUS
    <2> HIDE DEF w, ws
    <2>3. Append(w, c) \in Seq(E) /\ Append(Append(w, "\\"), c) \in Seq(E) BY <2>1
    <2> HIDE DEF T
    <2>4. Append(ws, w) \in Seq(T) BY <2>1
    <2> DEFINE d == "\\"
    <2>5. d \in E OBVIOUS
    <2> HIDE DEF d
    <2>6. w \o <<c>> = Append(w, c) /\ w \o <<d, c>> = Append(Append(w, d), c)
      BY <2>1, <2>5, AppendTwo
    <2> QED BY <2>2, <2>3, <2>4, <2>6 DEF w, ws, T, d
  <1>2. CASE r.at \in {"gap", "word"}
    <2>0. Read(r, c) = Outside(r, c) BY <1>2 DEF Read
    <2>1. CASE c = " "
      <3>1. Read(r, c) = [Start EXCEPT !.words = Ended(r)] BY <2>0, <2>1 DEF Outside, Quotes
      <3>2. Ended(r) \in {r.words, Append(r.words, r.word)} BY Zenon DEF Ended
      <3>3. Ended(r) \in Seq(Seq(E)) BY <1>0, <1>1, <3>2
      <3>4. Read(r, c) = [at |-> "gap", back |-> "word", word |-> <<>>, quoted |-> FALSE,
                          words |-> Ended(r)]
        BY <3>1 DEF Start
      <3>5. Read(r, c) \in Readers(E)
        <4>1. \A x \in Seq(Seq(E)), y \in Seq(E) : [at |-> "gap", back |-> "word", word |-> y,
                                      quoted |-> FALSE, words |-> x] \in Readers(E)
          BY Zenon DEF Readers
        <4> QED BY <1>1, <3>3, <3>4, <4>1
      <3>6. Read(r, c).words = Ended(r) /\ Read(r, c).word = <<>> /\ Read(r, c).at = "gap"
        BY <3>4
      <3> QED BY <1>2, <2>1, <3>2, <3>5, <3>6
    <2>2. CASE c = "\\"
      <3>1. Read(r, c) = [r EXCEPT !.at = "escape", !.back = "word"]
        BY <2>0, <2>2 DEF Outside, Quotes
      <3> QED BY <1>0, <1>1, <1>2, <2>2, <3>1 DEF Readers, Quotes
    <2>3. CASE c \in Quotes
      <3>1. Read(r, c) = [r EXCEPT !.at = c] BY <2>0, <2>3 DEF Outside, Quotes
      <3> QED BY <1>0, <1>1, <1>2, <2>3, <3>1 DEF Readers, Quotes
    <2>4. CASE c \notin {" ", "\\", "'", "\""}
      <3>1. Read(r, c) = [r EXCEPT !.at = "word", !.word = Append(r.word, c)]
        BY <2>0, <2>4 DEF Outside, Quotes
      <3> QED BY <1>0, <1>1, <1>2, <2>4, <3>1 DEF Readers, Quotes
    <2> QED BY <2>1, <2>2, <2>3, <2>4 DEF Quotes
  <1>3. CASE r.at = "escape"
    <2>0. Read(r, c) = Escaped(r, c) BY <1>3 DEF Read
    <2>1. CASE r.back \in Quotes /\ c \notin {"\\", r.back}
      <3>1. Read(r, c) = [r EXCEPT !.at = r.back, !.word = @ \o <<"\\", c>>]
        BY <2>0, <2>1 DEF Escaped
      <3>2. r.word \o <<"\\", c>> = Append(Append(r.word, "\\"), c) BY <1>1
      <3>3. Read(r, c) \in Readers(E) BY <1>0, <1>1, <2>1, <3>1, <3>2 DEF Readers, Quotes
      <3>4. /\ Read(r, c).words = r.words /\ Read(r, c).word = Append(Append(r.word, "\\"), c)
            /\ Read(r, c).at # "escape"
        BY <1>0, <2>1, <3>1, <3>2 DEF Quotes
      <3> QED BY <1>3, <2>1, <3>3, <3>4
    <2>2. CASE ~(r.back \in Quotes /\ c \notin {"\\", r.back})
      <3>1. Read(r, c) = [r EXCEPT !.at = r.back, !.word = @ \o <<c>>]
        BY <2>0, <2>2 DEF Escaped
      <3>2. r.word \o <<c>> = Append(r.word, c) BY <1>1
      <3> QED BY <1>0, <1>1, <1>3, <2>2, <3>1, <3>2, ZenonT(30) DEF Readers, Quotes
    <2> QED BY <2>1, <2>2
  <1>4. CASE r.at \in Quotes
    <2>0. Read(r, c) = Inside(r, c) BY <1>4 DEF Read, Quotes
    <2>1. CASE c = r.at
      <3>1. Read(r, c) = [r EXCEPT !.at = "word", !.quoted = TRUE] BY <2>0, <2>1 DEF Inside
      <3> QED BY <1>0, <1>1, <1>4, <2>1, <3>1 DEF Readers, Quotes
    <2>2. CASE c # r.at /\ c = "\\" /\ r.at = "\""
      <3>1. Read(r, c) = [r EXCEPT !.at = "escape", !.back = r.at, !.quoted = TRUE]
        BY <2>0, <2>2 DEF Inside
      <3> QED BY <1>0, <1>1, <1>4, <2>2, <3>1 DEF Readers, Quotes
    <2>3. CASE c # r.at /\ ~(c = "\\" /\ r.at = "\"")
      <3>1. Read(r, c) = [r EXCEPT !.word = Append(r.word, c), !.quoted = TRUE]
        BY <2>0, <2>3 DEF Inside
      <3> QED BY <1>0, <1>1, <1>4, <2>3, <3>1 DEF Readers, Quotes
    <2> QED BY <2>1, <2>2, <2>3
  <1> QED BY <1>0, <1>2, <1>3, <1>4 DEF Quotes

\* The characters that the shell takes away.
Specials == {"\\", "'", "\""}

\* A text over some characters is one over more characters.
LEMMA SeqGrow == ASSUME NEW F, NEW E, F \subseteq E PROVE Seq(F) \subseteq Seq(E)
  OBVIOUS

\* The empty text, before and after any other.
LEMMA EmptyTypes ==
    ASSUME NEW E, NEW t \in Seq(E)
    PROVE  \A F : t \o <<>> = t /\ <<>> \o t = t /\ <<>> \in Seq(F)
  OBVIOUS

\* A reader of words over some characters is one over more characters.
LEMMA ReadersGrow ==
    ASSUME NEW F, NEW E, F \subseteq E, NEW r \in Readers(F) PROVE r \in Readers(E)
  <1>1. Seq(F) \subseteq Seq(E) BY SeqGrow, Zenon
  <1>2. Seq(Seq(F)) \subseteq Seq(Seq(E)) BY <1>1, SeqGrow, Zenon
  <1> QED BY <1>1, <1>2, Zenon DEF Readers

\* Reading on with the characters F, from a reader that has met no other in its words.
LEMMA AfterFrom ==
    ASSUME NEW E, NEW F, "\\" \in F, NEW t \in Seq(E), After(t) \in Readers(F), NEW s \in Seq(F)
    PROVE  After(t \o s) \in Readers(F)
  <1> DEFINE S == {r \in Seq(F) : After(t \o r) \in Readers(F)}
  <1>1. <<>> \in S
    <2>1. t \o <<>> = t /\ <<>> \in Seq(F) BY EmptyTypes, Zenon
    <2> QED BY <2>1, Zenon
  <1>2. ASSUME NEW r \in Seq(F), NEW c \in F, r \in S PROVE Append(r, c) \in S
    <2>1. /\ t \o Append(r, c) = Append(t \o r, c) /\ Append(r, c) \in Seq(F)
          /\ t \o r \in Seq(E \cup F) /\ c \in E \cup F
      OBVIOUS
    <2>3. After(Append(t \o r, c)) = Read(After(t \o r), c) BY <2>1, AfterAppend, Zenon
    <2>4. Read(After(t \o r), c) \in Readers(F)
      <3>1. After(t \o r) \in Readers(F) BY <1>2
      <3> QED BY <3>1, ReadStep, Zenon
    <2> QED BY <2>1, <2>3, <2>4, Zenon
  <1>3. Seq(F) \subseteq S
    <2> HIDE DEF S
    <2> QED BY <1>1, <1>2, D!SeqInduct
  <1> QED BY <1>3, Zenon

\* The reader that has read nothing.
LEMMA StartType == \A E : Start \in Readers(E)
  <1>1. ASSUME NEW E PROVE Start \in Readers(E)
    <2>1. <<>> \in Seq(E) /\ <<>> \in Seq(Seq(E)) OBVIOUS
    <2> QED BY <2>1, Zenon DEF Start, Readers
  <1> QED BY <1>1

\* The words read are of the characters of the text.
LEMMA AfterType ==
    ASSUME NEW E, "\\" \in E, NEW s \in Seq(E) PROVE After(s) \in Readers(E)
  <1>1. After(<<>>) \in Readers(E) BY AfterEmpty, StartType, Zenon
  <1>2. <<>> \in Seq(E) /\ <<>> \o s = s BY EmptyTypes, Zenon
  <1>3. After(<<>> \o s) \in Readers(E) BY <1>1, <1>2, AfterFrom, Zenon
  <1> QED BY <1>2, <1>3, Zenon

\* Between two words or in one, and not in quotes.
Calm(r) == r.at \in {"gap", "word"}

\* A reader all of whose words are of fewer characters.
LEMMA ReadersShrink ==
    ASSUME NEW E, NEW r \in Readers(E), NEW G, r.word \in Seq(G), r.words \in Seq(Seq(G))
    PROVE  r \in Readers(G)
  BY DEF Readers

\* One character more, outside quotes.
LEMMA ReadCalm ==
    ASSUME NEW F, NEW r \in Readers(F), Calm(r), NEW c, c \notin Specials
    PROVE  /\ Calm(Read(r, c))
           /\ Read(r, c) \in Readers(F \cup ({c} \ {" "}))
  <1> DEFINE G == F \cup ({c} \ {" "})
             E == (F \cup {c}) \cup {"\\"}
  <1>1. F \subseteq E /\ c \in E /\ "\\" \in E /\ F \subseteq G BY Zenon
  <1> HIDE DEF E
  <1>2. r \in Readers(E) BY <1>1, ReadersGrow, Zenon
  <1>3. /\ Read(r, c) \in Readers(E)
        /\ \/ /\ Read(r, c).words \in {r.words, Append(r.words, r.word)}
              /\ Read(r, c).word = <<>> /\ Read(r, c).at = "gap" /\ c = " "
           \/ Read(r, c) = [r EXCEPT !.at = "word", !.word = Append(r.word, c)] /\ c # " "
    <2>1. Read(r, c) \in Readers(E) BY <1>1, <1>2, ReadStep, Zenon
    <2>2. CASE c = " "
      <3>1. /\ Read(r, c).words \in {r.words, Append(r.words, r.word)}
            /\ Read(r, c).word = <<>> /\ Read(r, c).at = "gap"
        BY <1>1, <1>2, <2>2, ReadStep DEF Calm, Added
      <3> QED BY <2>1, <2>2, <3>1
    <2>3. CASE c # " "
      <3>1. c \notin {" ", "\\", "'", "\""} BY <2>3 DEF Specials
      <3>2. Read(r, c) = [r EXCEPT !.at = "word", !.word = Append(r.word, c)]
        BY <1>1, <1>2, <3>1, ReadStep, Zenon DEF Calm
      <3> QED BY <2>1, <2>3, <3>2
    <2> QED BY <2>2, <2>3
  <1>4. r.word \in Seq(G) /\ r.words \in Seq(Seq(G)) /\ r.back \in {"word", "'", "\""}
        /\ r.quoted \in BOOLEAN
        /\ r = [at |-> r.at, back |-> r.back, word |-> r.word, quoted |-> r.quoted,
                 words |-> r.words]
    <2>1. r \in Readers(G) BY <1>1, ReadersGrow, Zenon
    <2> HIDE DEF G
    <2> QED BY <2>1 DEF Readers
  <1>5. CASE c = " "
    <2>1. Append(r.words, r.word) \in Seq(Seq(G)) /\ <<>> \in Seq(G)
      <3> DEFINE ws == r.words
                 w == r.word
                 T == Seq(G)
      <3>1. ws \in Seq(T) /\ w \in T BY <1>4
      <3> HIDE DEF ws, w, T
      <3>2. Append(ws, w) \in Seq(T) BY <3>1, AppendProperties, Zenon
      <3>3. <<>> \in Seq(G) BY EmptySeq, Zenon
      <3> QED BY <3>2, <3>3 DEF ws, w, T
    <2>2. Read(r, c).words \in Seq(Seq(G)) /\ Read(r, c).word \in Seq(G)
      BY <1>3, <1>4, <1>5, <2>1, Zenon
    <2> HIDE DEF G
    <2>3. Read(r, c) \in Readers(G) BY <1>3, <2>2 DEF Readers
    <2>4. Calm(Read(r, c)) BY <1>3, <1>5, Zenon DEF Calm
    <2> QED BY <2>3, <2>4 DEF G
  <1>6. CASE c # " "
    <2>1. Append(r.word, c) \in Seq(G)
      <3> DEFINE w == r.word
      <3>1. w \in Seq(G) /\ c \in G BY <1>4, <1>6, Zenon
      <3> HIDE DEF w, G
      <3>2. Append(w, c) \in Seq(G) BY <3>1, AppendProperties, Zenon
      <3> QED BY <3>2 DEF w
    <2>2. /\ Read(r, c).at = "word" /\ Read(r, c).word = Append(r.word, c)
          /\ Read(r, c).words = r.words
      <3>1. Read(r, c) = [r EXCEPT !.at = "word", !.word = Append(r.word, c)] BY <1>3, <1>6
      <3> DEFINE n == Read(r, c)
                 w == Append(r.word, c)
      <3>2. n = [r EXCEPT !.at = "word", !.word = w] BY <3>1
      <3> HIDE DEF n, w
      <3>3. n.at = "word" /\ n.word = w /\ n.words = r.words BY <1>2, <3>2 DEF Readers
      <3> QED BY <3>3 DEF n, w
    <2> HIDE DEF G
    <2>3. Read(r, c) \in Readers(G) BY <1>3, <1>4, <2>1, <2>2, ReadersShrink, Zenon
    <2>4. Calm(Read(r, c)) BY <2>2 DEF Calm
    <2> QED BY <2>3, <2>4 DEF G
  <1> QED BY <1>5, <1>6

\* A text without quotes and backslashes: no word has a blank, and the reader is in a word or
\* between two.
LEMMA AfterCalm ==
    ASSUME NEW G, \A c \in G : c \notin Specials, NEW s \in Seq(G)
    PROVE  After(s) \in Readers(G \ {" "}) /\ Calm(After(s))
  <1> DEFINE F == G \ {" "}
             S == {t \in Seq(G) : After(t) \in Readers(F) /\ Calm(After(t))}
  <1>1. <<>> \in S
    <2>1. Start \in Readers(F) BY StartType, Zenon
    <2>2. Calm(Start) BY DEF Start, Calm
    <2>3. <<>> \in Seq(G) BY EmptySeq, Zenon
    <2> HIDE DEF F
    <2> QED BY <2>1, <2>2, <2>3, AfterEmpty, Zenon
  <1>2. ASSUME NEW t \in Seq(G), NEW c \in G, t \in S PROVE Append(t, c) \in S
    <2>1. After(Append(t, c)) = Read(After(t), c) /\ Append(t, c) \in Seq(G)
      BY AfterAppend, AppendProperties, Zenon
    <2>2. After(t) \in Readers(F) /\ Calm(After(t)) /\ c \notin Specials BY <1>2, Zenon
    <2>3. F \cup ({c} \ {" "}) = F BY Zenon
    <2> HIDE DEF F
    <2>4. Calm(Read(After(t), c)) /\ Read(After(t), c) \in Readers(F) BY <2>2, <2>3, ReadCalm
    <2> QED BY <2>1, <2>4, Zenon
  <1>3. Seq(G) \subseteq S
    <2> HIDE DEF S
    <2> QED BY <1>1, <1>2, D!SeqInduct
  <1> QED BY <1>3, Zenon

-----------------------------------------------------------------------------
(* Plain words *)

\* Neither a blank nor a special character.
Plain(c) == c \notin {" ", "\\", "'", "\""}

Gap(ws) == [at |-> "gap", back |-> "word", word |-> <<>>, quoted |-> FALSE, words |-> ws]
InWord(ws, w) == [at |-> "word", back |-> "word", word |-> w, quoted |-> FALSE, words |-> ws]

\* A plain character begins a word.
LEMMA WordStarts ==
    ASSUME NEW ws, NEW c, Plain(c) PROVE Read(Gap(ws), c) = InWord(ws, Append(<<>>, c))
  <1>1. Read(Gap(ws), c) = [Gap(ws) EXCEPT !.at = "word", !.word = Append(<<>>, c)]
    BY DEF Plain, Read, Outside, Quotes, Gap
  <1> QED BY <1>1 DEF Gap, InWord

\* A plain character goes on with the word.
LEMMA WordGrows ==
    ASSUME NEW ws, NEW w, NEW c, Plain(c)
    PROVE  Read(InWord(ws, w), c) = InWord(ws, Append(w, c))
  <1>1. Read(InWord(ws, w), c) = [InWord(ws, w) EXCEPT !.at = "word", !.word = Append(w, c)]
    BY DEF Plain, Read, Outside, Quotes, InWord
  <1> QED BY <1>1 DEF InWord

\* A blank, or the end of the text, ends the word.
LEMMA WordEnds ==
    ASSUME NEW ws, NEW w, w # <<>>
    PROVE  /\ Read(InWord(ws, w), " ") = Gap(Append(ws, w))
           /\ Ended(InWord(ws, w)) = Append(ws, w)
           /\ InWord(ws, w).at \notin Quotes \cup {"escape"}
  <1>1. Read(InWord(ws, w), " ") = [Start EXCEPT !.words = Ended(InWord(ws, w))]
    BY DEF Read, Outside, InWord, Quotes
  <1>2. Ended(InWord(ws, w)) = Append(ws, w) BY DEF Ended, InWord
  <1>3. InWord(ws, w).at \notin Quotes \cup {"escape"} BY DEF InWord, Quotes
  <1> QED BY <1>1, <1>2, <1>3 DEF Start, Gap

\* A plain word is read as it is, and the blank after it ends it.
LEMMA ReadWord ==
    ASSUME NEW E, NEW t \in Seq(E), NEW ws, After(t) = Gap(ws),
           NEW G, \A c \in G : Plain(c), NEW w \in Seq(G), w # <<>>
    PROVE  /\ After(t \o w) = InWord(ws, w)
           /\ After(Append(t \o w, " ")) = Gap(Append(ws, w))
  <1> DEFINE S == {x \in Seq(G) : After(t \o x) = IF x = <<>> THEN Gap(ws) ELSE InWord(ws, x)}
  <1>1. <<>> \in S
    <2>1. t \o <<>> = t /\ <<>> \in Seq(G) OBVIOUS
    <2> QED BY <2>1
  <1>2. ASSUME NEW x \in Seq(G), NEW c \in G, x \in S PROVE Append(x, c) \in S
    <2>1. /\ t \o Append(x, c) = Append(t \o x, c)
          /\ t \o x \in Seq(E \cup G) /\ c \in E \cup G
          /\ Append(x, c) \in Seq(G) /\ Append(x, c) # <<>>
      <3> HIDE DEF S
      <3>1. t \o Append(x, c) = Append(t \o x, c) OBVIOUS
      <3>2. t \o x \in Seq(E \cup G) OBVIOUS
      <3>3. Append(x, c) \in Seq(G) /\ Append(x, c) # <<>> OBVIOUS
      <3> QED BY <3>1, <3>2, <3>3, Zenon
    <2>2. After(Append(t \o x, c)) = Read(After(t \o x), c) BY <2>1, AfterAppend, Zenon
    <2>3. After(t \o x) = IF x = <<>> THEN Gap(ws) ELSE InWord(ws, x) BY <1>2, Zenon
    <2>4. Read(After(t \o x), c) = InWord(ws, Append(x, c))
      <3>1. CASE x = <<>> BY <2>3, <3>1, WordStarts, Zenon
      <3>2. CASE x # <<>>
        <4>1. After(t \o x) = InWord(ws, x) BY <2>3, <3>2
        <4>2. Plain(c) BY Zenon
        <4>3. Read(InWord(ws, x), c) = InWord(ws, Append(x, c)) BY <4>2, WordGrows, Zenon
        <4> QED BY <4>1, <4>3
      <3> QED BY <3>1, <3>2, Zenon
    <2>5. After(t \o Append(x, c)) = InWord(ws, Append(x, c)) BY <2>1, <2>2, <2>4
    <2> QED BY <2>1, <2>5
  <1>3. Seq(G) \subseteq S
    <2> HIDE DEF S
    <2> QED BY <1>1, <1>2, D!SeqInduct
  <1>4. After(t \o w) = InWord(ws, w) BY <1>3
  <1>5. After(Append(t \o w, " ")) = Gap(Append(ws, w))
    <2> DEFINE C == (E \cup G) \cup {" "}
               x == t \o w
    <2>1. x \in Seq(C)
      <3> DEFINE blank == {" "}
      <3> HIDE DEF blank
      <3>1. t \o w \in Seq((E \cup G) \cup blank) OBVIOUS
      <3> QED BY <3>1 DEF blank
    <2>2. " " \in C OBVIOUS
    <2> HIDE DEF C, x
    <2>3. After(Append(x, " ")) = Read(After(x), " ") BY <2>1, <2>2, AfterAppend, Zenon
    <2> QED BY <1>4, <2>3, WordEnds, Zenon DEF x
  <1> QED BY <1>4, <1>5

\* One, two and three items.
LEMMA AppendEmpty ==
    ASSUME NEW T, NEW u \in T, NEW v \in T, NEW w \in T
    PROVE  /\ Append(<<>>, u) = <<u>> /\ Append(<<u>>, v) = <<u, v>>
           /\ Append(<<u, v>>, w) = <<u, v, w>>
  <1>1. Append(<<>>, u) = <<u>> OBVIOUS
  <1>2. Append(<<u>>, v) = <<u, v>>
    <2>1. <<u>> \in Seq(T) /\ Len(<<u>>) = 1 /\ <<u>>[1] = u OBVIOUS
    <2>2. <<u, v>> \in Seq(T) /\ Len(<<u, v>>) = 2 /\ <<u, v>>[1] = u /\ <<u, v>>[2] = v OBVIOUS
    <2> DEFINE p == <<u>>
               q == <<u, v>>
    <2> HIDE DEF p, q
    <2>3. Append(p, v) \in Seq(T) /\ Len(Append(p, v)) = 2 /\ Append(p, v)[1] = u
          /\ Append(p, v)[2] = v
      BY <2>1 DEF p
    <2>4. \A i \in 1..2 : Append(p, v)[i] = q[i] BY <2>2, <2>3 DEF q
    <2>5. Append(p, v) = q BY <2>2, <2>3, <2>4, SeqEqual DEF q
    <2> QED BY <2>5 DEF p, q
  <1>3. Append(<<u, v>>, w) = <<u, v, w>>
    <2>1. <<u, v>> \in Seq(T) /\ Len(<<u, v>>) = 2 /\ <<u, v>>[1] = u /\ <<u, v>>[2] = v OBVIOUS
    <2>2. /\ <<u, v, w>> \in Seq(T) /\ Len(<<u, v, w>>) = 3 /\ <<u, v, w>>[1] = u
          /\ <<u, v, w>>[2] = v /\ <<u, v, w>>[3] = w
      OBVIOUS
    <2> DEFINE p == <<u, v>>
               q == <<u, v, w>>
    <2> HIDE DEF p, q
    <2>3. Append(p, w) \in Seq(T) /\ Len(Append(p, w)) = 3 /\ Append(p, w)[1] = u
          /\ Append(p, w)[2] = v /\ Append(p, w)[3] = w
      BY <2>1 DEF p
    <2>4. \A i \in 1..3 : Append(p, w)[i] = q[i] BY <2>2, <2>3 DEF q
    <2>5. Append(p, w) = q BY <2>2, <2>3, <2>4, SeqEqual DEF q
    <2> QED BY <2>5 DEF p, q
  <1> QED BY <1>1, <1>2, <1>3

\* After a plain word and a blank that word has been read.
LEMMA FirstWord ==
    ASSUME NEW G, \A c \in G : Plain(c), NEW u \in Seq(G), u # <<>>
    PROVE  After(Append(u, " ")) = Gap(<<u>>)
  <1>1. <<>> \o u = u /\ <<>> \in Seq(G) BY EmptyTypes, Zenon
  <1>2. After(<<>>) = Gap(<<>>) BY AfterEmpty DEF Start, Gap
  <1>3. After(Append(<<>> \o u, " ")) = Gap(Append(<<>>, u)) BY <1>1, <1>2, ReadWord
  <1>4. Append(<<>>, u) = <<u>>
    <2> DEFINE T == Seq(G)
    <2>1. u \in T OBVIOUS
    <2> HIDE DEF T
    <2> QED BY <2>1, AppendEmpty, Zenon
  <1> QED BY <1>1, <1>3, <1>4

\* Three plain words with blanks between them.
LEMMA ThreeWords ==
    ASSUME NEW G, \A c \in G : Plain(c),
           NEW u \in Seq(G), u # <<>>, NEW v \in Seq(G), v # <<>>, NEW w \in Seq(G), w # <<>>
    PROVE  Split((Append(Append(u, " ") \o v, " ")) \o w) = <<u, v, w>>
  <1> DEFINE E == G \cup {" "}
             s == Append(u, " ")
             t == Append(s \o v, " ")
  <1>1. s \in Seq(E) /\ t \in Seq(E)
    <2> DEFINE blank == " "
    <2>1. blank \in E OBVIOUS
    <2>2. G \subseteq E OBVIOUS
    <2> HIDE DEF E, blank
    <2>3. Append(u, blank) \in Seq(E) BY <2>1, <2>2
    <2> DEFINE x == Append(u, blank)
    <2> HIDE DEF x
    <2>4. Append(x \o v, blank) \in Seq(E) BY <2>1, <2>2, <2>3 DEF x
    <2> QED BY <2>3, <2>4 DEF x, blank
  <1>2. After(s) = Gap(<<u>>) BY FirstWord
  <1>3. After(t) = Gap(<<u, v>>)
    <2> HIDE DEF s, E
    <2>1. After(Append(s \o v, " ")) = Gap(Append(<<u>>, v)) BY <1>1, <1>2, ReadWord
    <2>2. Append(<<u>>, v) = <<u, v>> BY AppendEmpty, Zenon
    <2> QED BY <2>1, <2>2
  <1> HIDE DEF t
  <1>4. After(t \o w) = InWord(<<u, v>>, w)
    <2> HIDE DEF E
    <2> QED BY <1>1, <1>3, ReadWord
  <1>5. Ended(InWord(<<u, v>>, w)) = <<u, v, w>>
    <2>1. Append(<<u, v>>, w) = <<u, v, w>> BY AppendEmpty, Zenon
    <2>2. Ended(InWord(<<u, v>>, w)) = Append(<<u, v>>, w) BY WordEnds, Zenon
    <2> QED BY <2>1, <2>2
  <1>6. InWord(<<u, v>>, w).at \notin Quotes \cup {"escape"} BY WordEnds, Zenon
  <1>7. Split(t \o w) = Ended(After(t \o w)) BY <1>4, <1>6, Zenon DEF Split, After
  <1> QED BY <1>4, <1>5, <1>7 DEF t

-----------------------------------------------------------------------------
(* Fields *)

\* Three items are one and two.
LEMMA ThreeParts ==
    ASSUME NEW E, NEW x \in E, NEW y \in E, NEW z \in E,
           NEW s, s = <<x, y, z>>, NEW p, p = <<x>>, NEW q, q = <<y, z>>
    PROVE  s = p \o q
  <1>1. p \o q \in Seq(E) /\ s \in Seq(E) /\ Len(p \o q) = 3 /\ Len(s) = 3
        /\ \A i \in 1..3 : s[i] = (p \o q)[i]
    OBVIOUS
  <1> DEFINE t == p \o q
  <1> HIDE DEF t
  <1>2. s = t BY <1>1, SeqEqual DEF t
  <1> QED BY <1>2 DEF t

\* Four items are one and three.
LEMMA FourParts ==
    ASSUME NEW E, NEW x \in E, NEW y \in E, NEW z \in E, NEW g \in E,
           NEW s, s = <<x, y, z, g>>, NEW p, p = <<x>>, NEW q, q = <<y, z, g>>
    PROVE  s = p \o q
  <1>1. p \o q \in Seq(E) /\ s \in Seq(E) /\ Len(p \o q) = 4 /\ Len(s) = 4
        /\ \A i \in 1..4 : s[i] = (p \o q)[i]
    OBVIOUS
  <1> DEFINE t == p \o q
  <1> HIDE DEF t
  <1>2. s = t BY <1>1, SeqEqual DEF t
  <1> QED BY <1>2 DEF t

\* A word of a marker: a key and its value.
Pair(k, v) == <<k, "=">> \o v
Value(w) == SubSeq(w, 3, Len(w))

\* A word key=value, and its value.
LEMMA KeyAndValue ==
    ASSUME NEW E, NEW v \in Seq(E), NEW k \in E, "=" \in E
    PROVE  /\ Pair(k, v) \in Seq(E) /\ Len(Pair(k, v)) = 2 + Len(v) /\ Len(v) \in Nat
           /\ Pair(k, v)[1] = k /\ Pair(k, v)[2] = "="
           /\ Value(Pair(k, v)) = v
  <1> DEFINE eq == "="
             w == <<k, eq>> \o v
  <1>0. eq \in E OBVIOUS
  <1> HIDE DEF eq
  <1>1. w \in Seq(E) /\ Len(w) = 2 + Len(v) /\ w[1] = k /\ w[2] = eq /\ Len(v) \in Nat
        /\ \A i \in 1..Len(v) : w[i + 2] = v[i]
    BY <1>0
  <1> HIDE DEF w
  <1>2. SubSeq(w, 3, Len(w)) \in Seq(E) /\ Len(SubSeq(w, 3, Len(w))) = Len(v)
        /\ \A i \in 1..Len(v) : SubSeq(w, 3, Len(w))[i] = v[i]
    BY <1>1
  <1>3. SubSeq(w, 3, Len(w)) = v BY <1>2, SeqEqual
  <1>4. Pair(k, v) = w BY DEF Pair, w, eq
  <1> QED BY <1>1, <1>3, <1>4 DEF eq, Value

\* A field that is given has the value of one of the words.
LEMMA FieldValue ==
    ASSUME NEW E, NEW words \in Seq(Seq(E)), NEW key, Field(words, key) # {}
    PROVE  \E i \in DOMAIN words :
              Len(words[i]) > 1 /\ Field(words, key) = {Value(words[i])}
  <1> DEFINE S == Given(words, key)
             i == Max(S)
  <1>1. S # {} /\ Field(words, key) = {Value(words[i])}
    BY Zenon DEF Field, Value
  <1>2. S \in SUBSET (1..Len(words)) /\ Len(words) \in Nat
    <2>1. DOMAIN words = 1..Len(words) /\ Len(words) \in Nat OBVIOUS
    <2> QED BY <2>1, Zenon DEF Given
  <1>3. i \in S
    <2> HIDE DEF S
    <2> QED BY <1>1, <1>2, MaxOf
  <1>4. i \in DOMAIN words /\ Len(words[i]) > 1 /\ words[i][1] = key /\ words[i][2] = "="
    BY <1>3, Zenon DEF Given
  <1> QED BY <1>1, <1>4, Zenon

\* A field that one word gives has its value.
LEMMA FieldOnly ==
    ASSUME NEW words, NEW key, NEW i \in 1..3, Given(words, key) = {i}
    PROVE  Field(words, key) = {Value(words[i])}
  <1>1. {i} \in SUBSET (1..3) /\ 3 \in Nat /\ i \in {i} /\ \A k \in {i} : i >= k BY SMT
  <1> DEFINE S == {i}
  <1> HIDE DEF S
  <1>2. Max(S) = i BY <1>1, MaxIs DEF S
  <1>3. S # {} BY Zenon DEF S
  <1> QED BY <1>2, <1>3, Zenon DEF Field, Value, S

\* The three fields of a marker.
LEMMA MarkFields ==
    ASSUME NEW E, NEW u \in Seq(E), NEW v \in Seq(E), NEW w \in Seq(E),
           NEW words, words = <<Pair("managed-by", u), Pair("fip_id", v), Pair("project_id", w)>>
    PROVE  /\ Field(words, "managed-by") = {u} /\ Field(words, "fip_id") = {v}
           /\ Field(words, "project_id") = {w}
  <1> DEFINE x == Pair("managed-by", u)
             y == Pair("fip_id", v)
             z == Pair("project_id", w)
             C == E \cup {"managed-by", "fip_id", "project_id", "="}
  <1>0. u \in Seq(C) /\ v \in Seq(C) /\ w \in Seq(C)
    <2>1. E \subseteq C BY Zenon
    <2> HIDE DEF C
    <2> QED BY <2>1, SeqGrow, Zenon
  <1>1. Len(x) > 1 /\ x[1] = "managed-by" /\ x[2] = "=" /\ Value(x) = u
    <2>1. "managed-by" \in C /\ "=" \in C OBVIOUS
    <2> HIDE DEF C
    <2>2. /\ Len(x) = 2 + Len(u) /\ Len(u) \in Nat /\ x[1] = "managed-by" /\ x[2] = "="
          /\ Value(x) = u
      BY <1>0, <2>1, KeyAndValue, Zenon
    <2> HIDE DEF x
    <2> QED BY <2>2
  <1>2. Len(y) > 1 /\ y[1] = "fip_id" /\ y[2] = "=" /\ Value(y) = v
    <2>1. "fip_id" \in C /\ "=" \in C OBVIOUS
    <2> HIDE DEF C
    <2>2. /\ Len(y) = 2 + Len(v) /\ Len(v) \in Nat /\ y[1] = "fip_id" /\ y[2] = "="
          /\ Value(y) = v
      BY <1>0, <2>1, KeyAndValue, Zenon
    <2> HIDE DEF y
    <2> QED BY <2>2
  <1>3. Len(z) > 1 /\ z[1] = "project_id" /\ z[2] = "=" /\ Value(z) = w
    <2>1. "project_id" \in C /\ "=" \in C OBVIOUS
    <2> HIDE DEF C
    <2>2. /\ Len(z) = 2 + Len(w) /\ Len(w) \in Nat /\ z[1] = "project_id" /\ z[2] = "="
          /\ Value(z) = w
      BY <1>0, <2>1, KeyAndValue, Zenon
    <2> HIDE DEF z
    <2> QED BY <2>2
  <1>4. words = <<x, y, z>> OBVIOUS
  <1> HIDE DEF x, y, z
  <1>5. DOMAIN words = 1..3 /\ words[1] = x /\ words[2] = y /\ words[3] = z BY <1>4
  <1>6. /\ Given(words, "managed-by") = {1} /\ Given(words, "fip_id") = {2}
        /\ Given(words, "project_id") = {3}
    <2>1. \A i \in 1..3 : i = 1 \/ i = 2 \/ i = 3 BY SMT
    <2>2. \A i \in DOMAIN words : i = 1 \/ i = 2 \/ i = 3 BY <1>5, <2>1
    <2>3. 1 \in DOMAIN words /\ 2 \in DOMAIN words /\ 3 \in DOMAIN words BY <1>5
    <2>4. ASSUME NEW i \in DOMAIN words
          PROVE  /\ (Len(words[i]) > 1 /\ words[i][1] = "managed-by" /\ words[i][2] = "=") <=> i = 1
                 /\ (Len(words[i]) > 1 /\ words[i][1] = "fip_id" /\ words[i][2] = "=") <=> i = 2
                 /\ (Len(words[i]) > 1 /\ words[i][1] = "project_id" /\ words[i][2] = "=") <=> i = 3
      <3>1. CASE i = 1 BY <1>1, <1>5, <3>1
      <3>2. CASE i = 2 BY <1>2, <1>5, <3>2
      <3>3. CASE i = 3 BY <1>3, <1>5, <3>3
      <3> QED BY <2>2, <3>1, <3>2, <3>3
    <2> QED BY <2>3, <2>4, ZenonT(30) DEF Given
  <1>7. 3 \in Nat /\ 1 \in 1..3 /\ 2 \in 1..3 /\ 3 \in 1..3 OBVIOUS
  <1>8. \A key, i : i \in 1..3 /\ Given(words, key) = {i} => Field(words, key) = {Value(words[i])}
    BY FieldOnly, Zenon
  <1> HIDE DEF C
  <1>9. Field(words, "managed-by") = {Value(words[1])} BY <1>6, <1>7, <1>8, Zenon
  <1>10. Field(words, "fip_id") = {Value(words[2])} BY <1>6, <1>7, <1>8, Zenon
  <1>11. Field(words, "project_id") = {Value(words[3])} BY <1>6, <1>7, <1>8, Zenon
  <1> QED BY <1>1, <1>2, <1>3, <1>5, <1>9, <1>10, <1>11

-----------------------------------------------------------------------------
(* Markers *)

\* The symbols of the markers whose values are written with the symbols E.
Symbols(E) == E \cup {"managed-by", "fip_id", "project_id", "=", " ", Project}

\* A value is written with the symbols of the markers.
LEMMA SymbolsFacts ==
    ASSUME NEW E, NEW s \in Seq(E)
    PROVE  /\ s \in Seq(Symbols(E))
           /\ "managed-by" \in Symbols(E) /\ "fip_id" \in Symbols(E) /\ "project_id" \in Symbols(E)
           /\ "=" \in Symbols(E) /\ " " \in Symbols(E) /\ Project \in Symbols(E)
  <1>1. E \subseteq Symbols(E) BY Zenon DEF Symbols
  <1>2. s \in Seq(Symbols(E)) BY <1>1, SeqGrow, Zenon
  <1> QED BY <1>2, Zenon DEF Symbols

\* Two items and one more.
LEMMA PairOne ==
    ASSUME NEW C, NEW z \in C, NEW y \in C, NEW g \in C PROVE <<z, y>> \o <<g>> = <<z, y, g>>
  <1> DEFINE p == <<z, y>> \o <<g>>
             q == <<z, y, g>>
  <1>1. p \in Seq(C) /\ q \in Seq(C) /\ Len(p) = 3 /\ Len(q) = 3 /\ \A i \in 1..3 : p[i] = q[i]
    OBVIOUS
  <1> HIDE DEF p, q
  <1>2. p = q BY <1>1, SeqEqual
  <1> QED BY <1>2 DEF p, q

\* A marker is three words with blanks between them.
LEMMA MarkerWords ==
    ASSUME NEW E, NEW m \in Seq(E), NEW f \in Seq(E)
    PROVE  MarkerText(m, f) =
             Append(Append(Pair("managed-by", m), " ") \o Pair("fip_id", f), " ")
                 \o Pair("project_id", <<Project>>)
  <1> DEFINE C == Symbols(E)
             k == "managed-by"
             x == "fip_id"
             z == "project_id"
             y == "="
             sp == " "
             r == Pair("managed-by", m)
             B == <<sp>>
             p == <<x, y>>
             q == <<z, y, Project>>
             v == <<sp, x, y>>
             w == <<sp, z, y, Project>>
  <1>1. m \in Seq(C) /\ f \in Seq(C) /\ k \in C /\ x \in C /\ y \in C /\ z \in C /\ sp \in C
        /\ Project \in C
    BY SymbolsFacts, Zenon
  <1>2. r = <<k, y>> \o m /\ Pair("fip_id", f) = p \o f
        /\ Pair("project_id", <<Project>>) = <<z, y>> \o <<Project>>
    BY Zenon DEF Pair
  <1>3. MarkerText(m, f) = (((<<k, y>> \o m) \o v) \o f) \o w BY Zenon DEF MarkerText
  <1> HIDE DEF C, k, x, z, y, sp, r
  <1>5. <<z, y>> \o <<Project>> = q BY <1>1, PairOne
  <1>6. r \in Seq(C) BY <1>1, <1>2
  <1>11. B \in Seq(C) /\ p \in Seq(C) /\ q \in Seq(C) BY <1>1
  <1>12. B = <<sp>> /\ p = <<x, y>> /\ q = <<z, y, Project>> /\ v = <<sp, x, y>>
        /\ w = <<sp, z, y, Project>>
    OBVIOUS
  <1>13. \A s \in Seq(C) : Append(s, sp) = s \o B BY <1>1
  <1> HIDE DEF B, p, q, v, w
  <1>14. v = B \o p BY <1>1, <1>12, ThreeParts
  <1>15. w = B \o q BY <1>1, <1>12, FourParts, SMTT(30)
  <1>16. ((r \o (B \o p)) \o f) \o (B \o q) = (((r \o B) \o (p \o f)) \o B) \o q
    <2>0. B \in Seq(C) /\ p \in Seq(C) /\ q \in Seq(C) /\ r \in Seq(C) /\ f \in Seq(C)
      BY <1>1, <1>6, <1>11
    <2>1. r \o B \in Seq(C) /\ p \o f \in Seq(C) BY <2>0
    <2>7. \A t \in Seq(C) : (t \o B) \o p = t \o (B \o p) BY <2>0, ConcatAssociative, SMTT(30)
    <2>2. r \o (B \o p) = (r \o B) \o p BY <2>0, <2>7
    <2>3. ((r \o B) \o p) \o f = (r \o B) \o (p \o f)
      <3> DEFINE n == r \o B
      <3> HIDE DEF n
      <3>1. n \in Seq(C) BY <2>1 DEF n
      <3>2. (n \o p) \o f = n \o (p \o f) BY <2>0, <3>1, ConcatAssociative, SMTT(30)
      <3> QED BY <3>2 DEF n
    <2>4. \A t \in Seq(C) : (t \o B) \o q = t \o (B \o q) BY <2>0, ConcatAssociative, SMTT(30)
    <2>5. (r \o B) \o (p \o f) \in Seq(C) BY <2>1
    <2>6. (((r \o B) \o (p \o f)) \o B) \o q = ((r \o B) \o (p \o f)) \o (B \o q) BY <2>4, <2>5
    <2> QED BY <2>2, <2>3, <2>6
  <1>17. Append(Append(r, sp) \o (p \o f), sp) = ((r \o B) \o (p \o f)) \o B
    <2>1. Append(r, sp) = r \o B BY <1>6, <1>13
    <2>2. (r \o B) \o (p \o f) \in Seq(C) BY <1>1, <1>6, <1>11
    <2> QED BY <1>13, <2>1, <2>2
  <1>18. ((r \o v) \o f) \o w = Append(Append(r, sp) \o (p \o f), sp) \o q
    BY <1>14, <1>15, <1>16, <1>17
  <1>20. MarkerText(m, f) =
           Append(Append(r, sp) \o Pair("fip_id", f), sp) \o Pair("project_id", <<Project>>)
    BY <1>2, <1>3, <1>5, <1>18
  <1> QED BY <1>20 DEF r, sp

\* A marker neither begins nor ends with a blank or a quote.
LEMMA MarkerEnds ==
    ASSUME NEW E, NEW m \in Seq(E), NEW f \in Seq(E)
    PROVE  LET t == MarkerText(m, f)
           IN  t \in Seq(Symbols(E)) /\ t # <<>> /\ t[1] = "managed-by" /\ t[Len(t)] = Project
  <1> DEFINE C == Symbols(E)
             u == Pair("managed-by", m)
             v == Pair("fip_id", f)
             w == Pair("project_id", <<Project>>)
             blank == " "
             t == MarkerText(m, f)
  <1>0. /\ m \in Seq(C) /\ f \in Seq(C) /\ Project \in C /\ "=" \in C /\ blank \in C
        /\ "managed-by" \in C /\ "fip_id" \in C /\ "project_id" \in C
    BY SymbolsFacts, Zenon
  <1> HIDE DEF C
  <1>1. <<Project>> \in Seq(C) /\ Len(<<Project>>) = 1
    <2>1. Project \in C BY <1>0
    <2> QED BY <2>1
  <1>2. u \in Seq(C) /\ Len(u) = 2 + Len(m) /\ Len(m) \in Nat /\ u[1] = "managed-by"
    BY <1>0, KeyAndValue, Zenon
  <1>3. v \in Seq(C) BY <1>0, KeyAndValue, Zenon
  <1>4. w \in Seq(C) /\ Len(w) = 2 + Len(<<Project>>) /\ Value(w) = <<Project>>
    BY <1>0, <1>1, KeyAndValue, Zenon
  <1>5. t = Append(Append(u, blank) \o v, blank) \o w BY MarkerWords, Zenon
  <1> HIDE DEF u, v, w, blank, t
  <1>6. u # <<>> BY <1>2
  <1>7. Len(w) = 3 BY <1>1, <1>4
  <1>8. w # <<>>
    <2>1. w \in Seq(C) BY <1>4
    <2>2. Len(w) # 0 BY <1>7
    <2> QED BY <2>1, <2>2, EmptySeq, Zenon
  <1>9. w[Len(w)] = Project
    <2>1. SubSeq(w, 3, 3) = <<Project>> BY <1>4, <1>7, Zenon DEF Value
    <2>2. w \in Seq(C) BY <1>4
    <2>3. SubSeq(w, 3, 3)[1] = w[3] BY <1>7, <2>2
    <2>4. <<Project>>[1] = Project OBVIOUS
    <2>5. w[3] = Project BY <2>1, <2>3, <2>4, Zenon
    <2> QED BY <1>7, <2>5, Zenon
  <1>10. t \in Seq(C) /\ t # <<>> /\ t[1] = u[1] /\ t[Len(t)] = w[Len(w)]
    <2> DEFINE s == Append(Append(u, blank) \o v, blank)
    <2>1. u \in Seq(C) /\ v \in Seq(C) /\ w \in Seq(C) /\ blank \in C BY <1>0, <1>2, <1>3, <1>4
    <2>2. s \in Seq(C) /\ s # <<>> /\ s[1] = u[1] BY <1>6, <2>1
    <2> HIDE DEF s
    <2>3. t = s \o w BY <1>5 DEF s
    <2> QED BY <1>8, <2>1, <2>2, <2>3
  <1> QED BY <1>2, <1>9, <1>10 DEF C, t

\* Nothing is taken away from a text that begins and ends with other characters.
LEMMA StripNothing ==
    ASSUME NEW C, NEW E, NEW s \in Seq(E), s # <<>>, s[1] \notin C, s[Len(s)] \notin C
    PROVE  Strip(s, C) = s
  <1>1. <<>> \in Seq(C) /\ (<<>> \o s) \o <<>> = s
    <2>1. <<>> \o s = s /\ s \o <<>> = s /\ <<>> \in Seq(C) BY EmptyTypes, Zenon
    <2> QED BY <2>1
  <1>2. Strip((<<>> \o s) \o <<>>, C) = s BY <1>1, StripMiddle
  <1> QED BY <1>1, <1>2

\* Cleaned leaves a marker as it is, and takes away the quotes around it.
LEMMA CleanedMarker ==
    ASSUME NEW E, NEW m \in Seq(E), NEW f \in Seq(E)
    PROVE  /\ Cleaned(MarkerText(m, f)) = MarkerText(m, f)
           /\ Cleaned(InQuotes(MarkerText(m, f))) = MarkerText(m, f)
  <1> DEFINE t == MarkerText(m, f)
             C == Symbols(E)
             B == {" "}
             Q == {"\""}
             q == "\""
  <1>1. t \in Seq(C) /\ t # <<>> /\ t[1] = "managed-by" /\ t[Len(t)] = Project
    BY MarkerEnds
  <1> HIDE DEF t, C
  <1>2. t[1] \notin B /\ t[Len(t)] \notin B /\ t[1] \notin Q /\ t[Len(t)] \notin Q
    BY <1>1, ProjectAssumption
  <1>3. q \in Q /\ q \notin B OBVIOUS
  <1>4. InQuotes(t) = (<<q>> \o t) \o <<q>> BY Zenon DEF InQuotes
  <1>5. \A s : Cleaned(s) = Strip(Strip(s, B), Q) BY Zenon DEF Cleaned
  <1> HIDE DEF B, Q, q
  <1>6. Strip(t, B) = t /\ Strip(t, Q) = t BY <1>1, <1>2, StripNothing
  <1>7. Strip(Strip(InQuotes(t), B), Q) = t
    <2> DEFINE v == <<q>>
               s == (v \o t) \o v
    <2>1. v \in Seq(Q) BY <1>3
    <2>2. s \in Seq(C \cup Q) /\ s # <<>> /\ s[1] = q /\ s[Len(s)] = q BY <1>1, <1>3
    <2> HIDE DEF v
    <2>3. Strip(s, Q) = t BY <1>1, <1>2, <2>1, StripMiddle
    <2> HIDE DEF s
    <2>4. Strip(s, B) = s BY <1>3, <2>2, StripNothing
    <2> QED BY <1>4, <2>3, <2>4 DEF s, v
  <1>8. Cleaned(t) = t /\ Cleaned(InQuotes(t)) = t BY <1>5, <1>6, <1>7
  <1> QED BY <1>8 DEF t

-----------------------------------------------------------------------------
(* Markers of plain words *)

PlainSymbols(E) == {c \in Symbols(E) : Plain(c)}

\* The symbols of the program are plain, the project among them.
LEMMA PlainFacts ==
    ASSUME NEW E
    PROVE  /\ "managed-by" \in PlainSymbols(E) /\ "fip_id" \in PlainSymbols(E)
           /\ "project_id" \in PlainSymbols(E) /\ "=" \in PlainSymbols(E)
           /\ Project \in PlainSymbols(E)
           /\ \A c \in PlainSymbols(E) : Plain(c)
  BY ProjectAssumption DEF PlainSymbols, Symbols, Plain

\* A plain word has plain symbols only.
LEMMA PlainType ==
    ASSUME NEW E, NEW m \in Seq(E), PlainWord(m) PROVE m \in Seq(PlainSymbols(E)) /\ m # <<>>
  <1> DEFINE C == Symbols(E)
             G == PlainSymbols(E)
  <1>1. m \in Seq(C) /\ m # <<>> BY SymbolsFacts, Zenon DEF PlainWord
  <1>2. \A i \in DOMAIN m : Plain(m[i]) BY DEF PlainWord, Plain, Quotes
  <1>3. \A c \in C : Plain(c) => c \in G BY Zenon DEF PlainSymbols
  <1> HIDE DEF C, G
  <1>4. \A i \in DOMAIN m : m[i] \in G BY <1>1, <1>2, <1>3
  <1>5. m \in Seq(G) BY <1>1, <1>4
  <1> QED BY <1>1, <1>5 DEF G

\* A word key=value is not empty.
LEMMA PairNonEmpty ==
    ASSUME NEW E, NEW v \in Seq(E), NEW k \in E, "=" \in E
    PROVE  Pair(k, v) \in Seq(E) /\ Pair(k, v) # <<>>
  <1>1. Pair(k, v) \in Seq(E) /\ Len(Pair(k, v)) = 2 + Len(v) /\ Len(v) \in Nat
    BY KeyAndValue
  <1> DEFINE w == Pair(k, v)
  <1>2. w \in Seq(E) /\ Len(w) # 0 BY <1>1
  <1> HIDE DEF w
  <1>3. w # <<>> BY <1>2, EmptySeq, Zenon
  <1> QED BY <1>2, <1>3 DEF w

\* A marker of plain words is read as its three words.
LEMMA PlainSplit ==
    ASSUME NEW E, NEW m \in Seq(E), NEW f \in Seq(E), PlainWord(m), PlainWord(f)
    PROVE  Split(MarkerText(m, f)) =
             <<Pair("managed-by", m), Pair("fip_id", f), Pair("project_id", <<Project>>)>>
  <1> DEFINE G == PlainSymbols(E)
             u == Pair("managed-by", m)
             v == Pair("fip_id", f)
             w == Pair("project_id", <<Project>>)
  <1>1. m \in Seq(G) /\ f \in Seq(G) BY PlainType, Zenon
  <1>2. "managed-by" \in G /\ "fip_id" \in G /\ "project_id" \in G /\ "=" \in G /\ Project \in G
        /\ \A c \in G : Plain(c)
    BY PlainFacts, Zenon
  <1> HIDE DEF G
  <1>3. <<Project>> \in Seq(G)
    <2>1. Project \in G BY <1>2
    <2> QED BY <2>1
  <1>4. u \in Seq(G) /\ u # <<>> BY <1>1, <1>2, PairNonEmpty, Zenon
  <1>5. v \in Seq(G) /\ v # <<>> BY <1>1, <1>2, PairNonEmpty, Zenon
  <1>6. w \in Seq(G) /\ w # <<>> BY <1>3, <1>2, PairNonEmpty, Zenon
  <1>7. MarkerText(m, f) = Append(Append(u, " ") \o v, " ") \o w BY MarkerWords, Zenon
  <1> HIDE DEF u, v, w
  <1>8. \A c \in G : Plain(c) BY <1>2
  <1>9. Split(Append(Append(u, " ") \o v, " ") \o w) = <<u, v, w>>
    BY <1>4, <1>5, <1>6, <1>8, ThreeWords
  <1>10. Split(MarkerText(m, f)) = <<u, v, w>> BY <1>7, <1>9
  <1> QED BY <1>10 DEF u, v, w

\* The fields of a marker of plain words.
LEMMA PlainFields ==
    ASSUME NEW E, NEW m \in Seq(E), NEW f \in Seq(E), PlainWord(m), PlainWord(f),
           NEW words, words = Split(MarkerText(m, f))
    PROVE  /\ Field(words, "managed-by") = {m} /\ Field(words, "fip_id") = {f}
           /\ Field(words, "project_id") = {<<Project>>}
  <1> DEFINE C == Symbols(E)
             w == <<Project>>
  <1>1. m \in Seq(C) /\ f \in Seq(C) /\ Project \in C BY SymbolsFacts, Zenon
  <1>2. words = <<Pair("managed-by", m), Pair("fip_id", f), Pair("project_id", w)>>
    BY PlainSplit, Zenon
  <1> HIDE DEF C
  <1>3. w \in Seq(C)
    <2>1. Project \in C BY <1>1
    <2> QED BY <2>1
  <1> HIDE DEF w
  <1>4. /\ Field(words, "managed-by") = {m} /\ Field(words, "fip_id") = {f}
        /\ Field(words, "project_id") = {w}
    BY <1>1, <1>2, <1>3, MarkFields
  <1> QED BY <1>4 DEF w

\* A value that is not empty and that begins with something else than a blank.
LEMMA PlainAccepted ==
    ASSUME NEW E, NEW m \in Seq(E), PlainWord(m) PROVE ~Refused(m)
  <1>1. m # <<>> /\ \A i \in DOMAIN m : m[i] # " " BY Zenon DEF PlainWord
  <1>2. m # <<>> => 1 \in DOMAIN m OBVIOUS
  <1> QED BY <1>1, <1>2, Zenon DEF Refused

\* A project identifier is not refused.
LEMMA ProjectAccepted == ~Refused(<<Project>>) /\ <<Project>> # <<>>
  <1>1. Project # " " BY ProjectAssumption
  <1>2. 1 \in DOMAIN <<Project>> /\ <<Project>>[1] = Project OBVIOUS
  <1>3. <<Project>> # <<>> OBVIOUS
  <1> QED BY <1>1, <1>2, <1>3, Zenon DEF Refused

\* What is read of a marker of plain words, in quotes or not.
LEMMA PlainParse ==
    ASSUME NEW E, NEW m \in Seq(E), NEW f \in Seq(E), PlainWord(m), PlainWord(f),
           NEW text, Cleaned(text) = MarkerText(m, f), NEW ours
    PROVE  Parse(ours, text) = IF ours = m THEN MarkOf(f) ELSE NotOurs
  <1> DEFINE words == Split(Cleaned(text))
             fip == Field(words, "fip_id")
             project == Field(words, "project_id")
  <1>1. Field(words, "managed-by") = {m} /\ fip = {f} /\ project = {<<Project>>}
    <2>1. words = Split(MarkerText(m, f)) BY Zenon
    <2> HIDE DEF words
    <2> QED BY <2>1, PlainFields
  <1>2. ~Refused(m) /\ ~Refused(f) /\ f # <<>> BY PlainAccepted, Zenon DEF PlainWord
  <1>3. Parse(ours, text) =
           IF Field(words, "managed-by") # {ours} \/ {} \in {fip \ {<<>>}, project \ {<<>>}}
           THEN NotOurs
           ELSE IF \E v \in {ours} \cup fip \cup project : Refused(v) THEN Raises
           ELSE <<fip, project>>
    BY Zenon DEF Parse
  <1> HIDE DEF words, fip, project
  <1>4. CASE ours = m
    <2>1. Field(words, "managed-by") = {ours} BY <1>1, <1>4
    <2>2. f \in fip \ {<<>>} /\ <<Project>> \in project \ {<<>>} BY <1>1, <1>2, ProjectAccepted
    <2>3. {} \notin {fip \ {<<>>}, project \ {<<>>}} BY <2>2, Zenon
    <2>4. \A v \in {ours} \cup fip \cup project : ~Refused(v)
      BY <1>1, <1>2, <1>4, ProjectAccepted, Zenon
    <2>5. Parse(ours, text) = <<fip, project>> BY <1>3, <2>1, <2>3, <2>4, Zenon
    <2> QED BY <1>1, <1>4, <2>5 DEF MarkOf
  <1>5. CASE ours # m
    <2>1. Field(words, "managed-by") # {ours} BY <1>1, <1>5
    <2> QED BY <1>3, <1>5, <2>1, Zenon
  <1> QED BY <1>4, <1>5

-----------------------------------------------------------------------------
(* Quotes and backslashes are lost *)

\* How many quotes and backslashes a text has.
Count(n, c) == IF c \in Specials THEN n + 1 ELSE n
Marks(s) == FoldLeft(Count, 0, s)

K == INSTANCE FoldLemmas WITH Step <- Count, Base <- 0

\* Counting is a fold, one character at a time.
LEMMA MarksIsFold == \A s : Marks(s) = K!Fold(s)
  BY Zenon DEF Marks, K!Fold, FoldLeft, K!FoldLeft, MapThenFoldSet, K!MapThenFoldSet, Max, K!Max

\* There are none in an empty text.
LEMMA MarksEmpty == Marks(<<>>) = 0
  BY MarksIsFold, K!FoldEmpty, Zenon

\* One character more is counted.
LEMMA MarksAppend ==
    ASSUME NEW E, NEW s \in Seq(E), NEW c \in E
    PROVE  Marks(Append(s, c)) = Count(Marks(s), c)
  BY MarksIsFold, K!FoldAppend, Zenon

\* A count is a number, and never goes down.
LEMMA CountType == \A n \in Nat : \A c : Count(n, c) \in Nat /\ Count(n, c) >= n
  BY DEF Count

\* How many there are is a number.
LEMMA MarksType == ASSUME NEW E, NEW s \in Seq(E) PROVE Marks(s) \in Nat
  <1> DEFINE S == {r \in Seq(E) : Marks(r) \in Nat}
  <1>1. <<>> \in S
    <2>1. <<>> \in Seq(E) /\ 0 \in Nat OBVIOUS
    <2> QED BY <2>1, MarksEmpty, Zenon
  <1>2. ASSUME NEW r \in Seq(E), NEW c \in E, r \in S PROVE Append(r, c) \in S
    <2>1. Append(r, c) \in Seq(E) OBVIOUS
    <2> QED BY <1>2, <2>1, MarksAppend, CountType, Zenon
  <1>3. Seq(E) \subseteq S
    <2> HIDE DEF S
    <2> QED BY <1>1, <1>2, D!SeqInduct
  <1> QED BY <1>3, Zenon

\* Two texts together have those of both.
LEMMA MarksConcat ==
    ASSUME NEW E, NEW t \in Seq(E), NEW s \in Seq(E) PROVE Marks(t \o s) = Marks(t) + Marks(s)
  <1> DEFINE S == {r \in Seq(E) : Marks(t \o r) = Marks(t) + Marks(r)}
  <1>1. <<>> \in S
    <2>1. t \o <<>> = t /\ <<>> \in Seq(E) BY EmptyTypes, Zenon
    <2>2. Marks(t) \in Nat BY MarksType, Zenon
    <2>3. Marks(t) + 0 = Marks(t) BY <2>2
    <2> QED BY <2>1, <2>3, MarksEmpty, Zenon
  <1>2. ASSUME NEW r \in Seq(E), NEW c \in E, r \in S PROVE Append(r, c) \in S
    <2>1. /\ t \o Append(r, c) = Append(t \o r, c) /\ Append(r, c) \in Seq(E) /\ t \o r \in Seq(E)
      OBVIOUS
    <2>2. Marks(Append(t \o r, c)) = Count(Marks(t \o r), c)
          /\ Marks(Append(r, c)) = Count(Marks(r), c)
      BY <2>1, MarksAppend, Zenon
    <2>3. Marks(t \o r) = Marks(t) + Marks(r) BY <1>2, Zenon
    <2>4. Marks(t) \in Nat /\ Marks(r) \in Nat BY MarksType, Zenon
    <2>5. Count(Marks(t) + Marks(r), c) = Marks(t) + Count(Marks(r), c) BY <2>4 DEF Count
    <2>6. Marks(t \o Append(r, c)) = Marks(t) + Marks(Append(r, c)) BY <2>1, <2>2, <2>3, <2>5, Zenon
    <2> QED BY <2>1, <2>6, Zenon
  <1>3. Seq(E) \subseteq S
    <2> HIDE DEF S
    <2> QED BY <1>1, <1>2, D!SeqInduct
  <1> QED BY <1>3, Zenon

\* A text of other characters has none.
LEMMA MarksNone ==
    ASSUME NEW G, \A c \in G : c \notin Specials, NEW s \in Seq(G) PROVE Marks(s) = 0
  <1> DEFINE S == {r \in Seq(G) : Marks(r) = 0}
  <1>1. <<>> \in S
    <2>1. <<>> \in Seq(G) OBVIOUS
    <2> QED BY <2>1, MarksEmpty, Zenon
  <1>2. ASSUME NEW r \in Seq(G), NEW c \in G, r \in S PROVE Append(r, c) \in S
    <2>1. Append(r, c) \in Seq(G) OBVIOUS
    <2>2. Marks(Append(r, c)) = Count(0, c) BY <1>2, MarksAppend, Zenon
    <2>3. Count(0, c) = 0 BY Zenon DEF Count
    <2> QED BY <2>1, <2>2, <2>3, Zenon
  <1>3. Seq(G) \subseteq S
    <2> HIDE DEF S
    <2> QED BY <1>1, <1>2, D!SeqInduct
  <1> QED BY <1>3, Zenon

\* A backslash was read in quotes, which may still be kept.
Waiting(r) == r.at = "escape" /\ r.back \in Quotes

\* Of n quotes and backslashes that were read no word has kept them all.
Lost(r, n) ==
    /\ IF Waiting(r) THEN Marks(r.word) + 1 < n ELSE Marks(r.word) < n
    /\ \A i \in DOMAIN r.words : Marks(r.words[i]) < n

\* One character more, by what it adds to the word in hand.
LEMMA ReadKinds ==
    ASSUME NEW E, "\\" \in E, NEW r \in Readers(E), NEW c \in E
    PROVE  /\ \/ /\ Read(r, c).words \in {r.words, Append(r.words, r.word)}
                 /\ Read(r, c).word = <<>> /\ ~Waiting(Read(r, c)) /\ c \notin Specials
                 /\ ~Waiting(r) /\ c = " " /\ Calm(r)
              \/ /\ Read(r, c).words = r.words /\ Read(r, c).word = r.word /\ c \in Specials
                 /\ ~Waiting(r) /\ (Waiting(Read(r, c)) => ~Calm(r))
              \/ /\ Read(r, c).words = r.words /\ Read(r, c).word = Append(r.word, c)
                 /\ ~Waiting(Read(r, c)) /\ (c \in Specials => ~Calm(r))
              \/ /\ Read(r, c).words = r.words /\ Read(r, c).word = Append(Append(r.word, "\\"), c)
                 /\ ~Waiting(Read(r, c)) /\ Waiting(r)
           /\ Calm(r) => ~Waiting(r)
  <1>1. Added(r, Read(r, c), c)
    BY ReadStep, Zenon
  <1> DEFINE n == Read(r, c)
  <1> HIDE DEF n
  <1> DEFINE w1 == Append(r.word, c)
             w2 == Append(Append(r.word, "\\"), c)
             ws == Append(r.words, r.word)
             w0 == <<>>
  <1>2. \/ /\ n.words \in {r.words, ws}
           /\ n.word = w0 /\ n.at = "gap" /\ c = " " /\ r.at \in {"gap", "word"}
        \/ /\ n.words = r.words
           /\ \/ /\ n.word = r.word /\ c \in {"\\", "'", "\""}
                 /\ \/ n.at = "escape" /\ c = "\\" /\ (n.back \in Quotes => r.at \in Quotes)
                    \/ n.at # "escape"
                 /\ r.at # "escape"
              \/ /\ n.word = w1 /\ n.at # "escape"
                 /\ c \in {"\\", "'", "\""} => r.at \notin {"gap", "word"}
              \/ /\ n.word = w2 /\ n.at # "escape"
                 /\ r.at = "escape" /\ r.back \in Quotes
    BY <1>1, Zenon DEF Added, n
  <1> HIDE DEF w1, w2, ws, w0
  <1>3. \/ n.words \in {r.words, ws} /\ n.word = w0 /\ ~Waiting(n) /\ c \notin Specials
             /\ ~Waiting(r) /\ c = " " /\ Calm(r)
        \/ n.words = r.words /\ n.word = r.word /\ c \in Specials /\ ~Waiting(r)
             /\ (Waiting(n) => ~Calm(r))
        \/ n.words = r.words /\ n.word = w1 /\ ~Waiting(n) /\ (c \in Specials => ~Calm(r))
        \/ n.words = r.words /\ n.word = w2 /\ ~Waiting(n) /\ Waiting(r)
    BY <1>2 DEF Waiting, Calm, Specials, Quotes
  <1>4. Calm(r) => ~Waiting(r) BY DEF Calm, Waiting
  <1> QED BY <1>3, <1>4, Zenon DEF n, w0, w1, w2, ws

\* What is lost stays lost.
LEMMA LostStep ==
    ASSUME NEW E, "\\" \in E, NEW r \in Readers(E), NEW c \in E, NEW n \in Nat, Lost(r, n)
    PROVE  Lost(Read(r, c), Count(n, c))
  <1> DEFINE q == Read(r, c)
             k == Count(n, c)
             m == Marks(r.word)
  <1>0. r.word \in Seq(E) /\ r.words \in Seq(Seq(E)) BY DEF Readers
  <1>1. m \in Nat BY <1>0, MarksType, Zenon
  <1>2. k \in Nat /\ k >= n /\ (c \in Specials => k = n + 1) /\ (c \notin Specials => k = n)
    BY CountType DEF Count
  <1>3. Marks(Append(r.word, c)) = Count(m, c)
        /\ Marks(Append(Append(r.word, "\\"), c)) = Count(Count(m, "\\"), c)
    <2> DEFINE w == r.word
               d == "\\"
    <2>0. w \in Seq(E) /\ d \in E BY <1>0
    <2> HIDE DEF w, d
    <2>1. Append(w, d) \in Seq(E) BY <2>0
    <2>2. Marks(Append(w, c)) = Count(Marks(w), c) BY <2>0, MarksAppend, Zenon
    <2>3. Marks(Append(w, d)) = Count(Marks(w), d) BY <2>0, MarksAppend, Zenon
    <2>4. Marks(Append(Append(w, d), c)) = Count(Marks(Append(w, d)), c)
      BY <2>1, MarksAppend, Zenon
    <2> QED BY <2>2, <2>3, <2>4, Zenon DEF w, d
  <1>4. Count(m, "\\") = m + 1 BY DEF Count, Specials
  <1>5. /\ c \in Specials => Count(m, c) = m + 1 /\ Count(m + 1, c) = m + 2
        /\ c \notin Specials => Count(m, c) = m /\ Count(m + 1, c) = m + 1
    BY <1>1 DEF Count
  <1>6. /\ IF Waiting(r) THEN m + 1 < n ELSE m < n
        /\ \A i \in DOMAIN r.words : Marks(r.words[i]) < n
    BY Zenon DEF Lost
  <1>7. m < n BY <1>1, <1>6
  <1>8. \A vs \in {r.words, Append(r.words, r.word)} : \A i \in DOMAIN vs : Marks(vs[i]) < n
    <2> DEFINE ws == r.words
               w == r.word
               T == Seq(E)
    <2>1. ws \in Seq(T) /\ w \in T BY <1>0
    <2>2. Marks(w) < n /\ \A i \in DOMAIN ws : Marks(ws[i]) < n BY <1>6, <1>7, Zenon
    <2> HIDE DEF w, ws, T
    <2>3. \A vs \in {ws, Append(ws, w)} : \A i \in DOMAIN vs :
             vs[i] = w \/ (i \in DOMAIN ws /\ vs[i] = ws[i])
      BY <2>1
    <2>4. \A vs \in {ws, Append(ws, w)} : \A i \in DOMAIN vs : Marks(vs[i]) < n
      BY <2>2, <2>3, Zenon
    <2> QED BY <2>4, Zenon DEF w, ws
  <1>9. \A x : Marks(x) < n => Marks(x) < n + 1 \/ Marks(x) \notin Int OBVIOUS
  <1>10. q.words \in {r.words, Append(r.words, r.word)} BY ReadKinds, Zenon
  <1>11. \A i \in DOMAIN q.words : Marks(q.words[i]) < n BY <1>8, <1>10, Zenon
  <1>12. \A i \in DOMAIN q.words : Marks(q.words[i]) < k
    <2>1. q \in Readers(E) BY ReadStep, Zenon
    <2>2. \A i \in DOMAIN q.words : q.words[i] \in Seq(E)
      <3>1. q.words \in Seq(Seq(E)) BY <2>1 DEF Readers
      <3> DEFINE vs == q.words
                 T == Seq(E)
      <3>2. vs \in Seq(T) BY <3>1
      <3> HIDE DEF vs, T
      <3>3. \A i \in DOMAIN vs : vs[i] \in T BY <3>2
      <3> QED BY <3>3 DEF vs, T
    <2>3. \A i \in DOMAIN q.words : Marks(q.words[i]) \in Nat BY <2>2, MarksType, Zenon
    <2>4. \A x \in Nat : x < n => x < k BY <1>2
    <2> QED BY <1>11, <2>3, <2>4, Zenon
  <1>13. IF Waiting(q) THEN Marks(q.word) + 1 < k ELSE Marks(q.word) < k
    <2> DEFINE u == Marks(q.word)
    <2>1. \/ u = 0 /\ ~Waiting(q) /\ c \notin Specials
          \/ u = m /\ c \in Specials
          \/ u = Count(m, c) /\ ~Waiting(q)
          \/ u = Count(m + 1, c) /\ ~Waiting(q) /\ Waiting(r)
      BY <1>3, <1>4, ReadKinds, MarksEmpty, Zenon
    <2> HIDE DEF q, k, m, u
    <2>2. CASE u = 0 /\ ~Waiting(q) /\ c \notin Specials
      <3>1. u < k BY <1>1, <1>2, <1>7, <2>2
      <3> QED BY <2>2, <3>1, Zenon DEF u
    <2>3. CASE u = m /\ c \in Specials
      <3>1. u < k /\ u + 1 < k BY <1>1, <1>2, <1>7, <2>3
      <3> QED BY <3>1, Zenon DEF u
    <2>4. CASE u = Count(m, c) /\ ~Waiting(q)
      <3>1. u < k BY <1>1, <1>2, <1>5, <1>7, <2>4
      <3> QED BY <2>4, <3>1, Zenon DEF u
    <2>5. CASE u = Count(m + 1, c) /\ ~Waiting(q) /\ Waiting(r)
      <3>1. m + 1 < n BY <1>6, <2>5, Zenon
      <3>2. u < k BY <1>1, <1>2, <1>5, <2>5, <3>1
      <3> QED BY <2>5, <3>2, Zenon DEF u
    <2> QED BY <2>1, <2>2, <2>3, <2>4, <2>5, Zenon
  <1> QED BY <1>12, <1>13, Zenon DEF Lost

\* The first quote or backslash of a text is lost.
LEMMA LostStart ==
    ASSUME NEW F, \A x \in F : x \notin Specials, NEW r \in Readers(F), Calm(r), NEW c \in Specials
    PROVE  Lost(Read(r, c), 1)
  <1> DEFINE E == F \cup Specials
             q == Read(r, c)
  <1>1. r \in Readers(E)
    <2>1. F \subseteq E OBVIOUS
    <2> HIDE DEF E
    <2> QED BY <2>1, ReadersGrow, Zenon
  <1>2. "\\" \in E /\ c \in E BY DEF Specials
  <1> HIDE DEF E
  <1>3. q.words = r.words /\ q.word = r.word /\ ~Waiting(q)
    BY <1>1, <1>2, ReadKinds, Zenon
  <1>4. r.word \in Seq(F) /\ r.words \in Seq(Seq(F)) BY DEF Readers
  <1>5. Marks(r.word) = 0 BY <1>4, MarksNone, Zenon
  <1>6. \A i \in DOMAIN r.words : Marks(r.words[i]) = 0
    <2> DEFINE ws == r.words
               T == Seq(F)
    <2>1. ws \in Seq(T) BY <1>4
    <2> HIDE DEF ws, T
    <2>2. \A i \in DOMAIN ws : ws[i] \in T BY <2>1
    <2> QED BY <2>2, MarksNone, Zenon DEF ws, T
  <1>7. \A x : x = 0 => x < 1 OBVIOUS
  <1> QED BY <1>3, <1>5, <1>6, <1>7, Zenon DEF Lost

\* Of the quotes and backslashes of a text no word keeps them all.
LEMMA LostAll ==
    ASSUME NEW E, "\\" \in E, NEW s \in Seq(E)
    PROVE  s \in Seq(E \ Specials) \/ Lost(After(s), Marks(s))
  <1> DEFINE F == E \ Specials
             S == {t \in Seq(E) : t \in Seq(F) \/ Lost(After(t), Marks(t))}
  <1>0. \A x \in F : x \notin Specials OBVIOUS
  <1>1. <<>> \in S OBVIOUS
  <1>2. ASSUME NEW t \in Seq(E), NEW c \in E, t \in S PROVE Append(t, c) \in S
    <2>1. Append(t, c) \in Seq(E) OBVIOUS
    <2>2. After(Append(t, c)) = Read(After(t), c) BY AfterAppend, Zenon
    <2>3. Marks(Append(t, c)) = Count(Marks(t), c) BY MarksAppend, Zenon
    <2>4. CASE t \in Seq(F) /\ c \in F
      <3> HIDE DEF F
      <3>1. Append(t, c) \in Seq(F) BY <2>4
      <3> QED BY <2>1, <3>1, Zenon
    <2>5. CASE t \in Seq(F) /\ c \notin F
      <3>1. c \in Specials BY <2>5
      <3> HIDE DEF F
      <3>2. After(t) \in Readers(F \ {" "}) /\ Calm(After(t)) BY <1>0, <2>5, AfterCalm, Zenon
      <3>3. F \ {" "} \subseteq F BY Zenon
      <3>4. After(t) \in Readers(F) BY <3>2, <3>3, ReadersGrow, Zenon
      <3>5. Lost(Read(After(t), c), 1) BY <1>0, <3>1, <3>2, <3>4, LostStart, Zenon
      <3>6. Marks(t) = 0 BY <1>0, <2>5, MarksNone, Zenon
      <3>7. Count(0, c) = 1 BY <3>1 DEF Count
      <3> QED BY <2>1, <2>2, <2>3, <3>5, <3>6, <3>7, Zenon
    <2>6. CASE Lost(After(t), Marks(t))
      <3>1. Marks(t) \in Nat BY MarksType, Zenon
      <3>2. After(t) \in Readers(E) BY AfterType, Zenon
      <3>3. Lost(Read(After(t), c), Count(Marks(t), c)) BY <2>6, <3>1, <3>2, LostStep, Zenon
      <3> QED BY <2>1, <2>2, <2>3, <3>3, Zenon
    <2> QED BY <1>2, <2>4, <2>5, <2>6, Zenon
  <1>3. Seq(E) \subseteq S
    <2> HIDE DEF S
    <2> QED BY <1>1, <1>2, D!SeqInduct
  <1> QED BY <1>3, Zenon

\* The word w is one of those read, or the word in hand.
WordOf(r, w) == w = r.word \/ \E i \in DOMAIN r.words : w = r.words[i]

\* A text that ends in quotes or after a backslash has no words.
LEMMA SplitEnds == ASSUME NEW s, Split(s) # <<>> PROVE ~Waiting(After(s))
  BY Zenon DEF Split, After, Waiting

\* The words of a text are those read, with the word in hand if there is one.
LEMMA SplitWords ==
    ASSUME NEW E, "\\" \in E, NEW s \in Seq(E), NEW words, words = Split(s)
    PROVE  /\ words \in Seq(Seq(E))
           /\ \A i \in DOMAIN words : WordOf(After(s), words[i])
  <1> DEFINE r == After(s)
             ws == r.words
             w == r.word
             T == Seq(E)
  <1>1. r \in Readers(E) BY AfterType, Zenon
  <1>2. ws \in Seq(T) /\ w \in T BY <1>1 DEF Readers
  <1>3. words = IF r.at \in Quotes \cup {"escape"} THEN <<>> ELSE Ended(r) BY Zenon DEF Split, After
  <1>4. words = <<>> \/ (~Waiting(r) /\ words \in {ws, Append(ws, w)})
    BY <1>3, Zenon DEF Ended, Waiting
  <1>5. <<>> \in Seq(T) BY EmptySeq, Zenon
  <1> HIDE DEF ws, w, T
  <1>6. /\ words \in Seq(T)
        /\ \A i \in DOMAIN words : words[i] = w \/ (i \in DOMAIN ws /\ words[i] = ws[i])
    <2>1. CASE words = <<>>
      <3>1. DOMAIN words = {} BY <2>1
      <3> QED BY <1>5, <2>1, <3>1, Zenon
    <2>2. CASE words = ws BY <1>2, <2>2
    <2>3. CASE words = Append(ws, w) BY <1>2, <2>3
    <2> QED BY <1>4, <2>1, <2>2, <2>3, Zenon
  <1> QED BY <1>4, <1>6, Zenon DEF ws, w, T, WordOf

-----------------------------------------------------------------------------
(* A value that is not plain is not read back *)

\* The value is the end of its word.
LEMMA ValueOf ==
    ASSUME NEW E, NEW w \in Seq(E), Len(w) > 1
    PROVE  Value(w) \in Seq(E) /\ \E h \in Seq(E) : w = h \o Value(w)
  <1> DEFINE h == SubSeq(w, 1, 2)
             v == SubSeq(w, 3, Len(w))
  <1>1. Len(w) \in Nat /\ 2 \in 1..Len(w) OBVIOUS
  <1>2. h \in Seq(E) /\ v \in Seq(E) /\ h \o v = w BY <1>1
  <1> HIDE DEF h, v
  <1>3. Value(w) = v BY DEF Value, v
  <1> QED BY <1>2, <1>3

\* A text has at least those of its end.
LEMMA MarksMore ==
    ASSUME NEW E, NEW h \in Seq(E), NEW v \in Seq(E) PROVE Marks(h \o v) >= Marks(v)
  <1>1. Marks(h \o v) = Marks(h) + Marks(v) BY MarksConcat, Zenon
  <1>2. Marks(h) \in Nat /\ Marks(v) \in Nat BY MarksType, Zenon
  <1> QED BY <1>1, <1>2

\* Two, three and four items are a sequence.
LEMMA TupleTypes ==
    ASSUME NEW G, NEW u \in G, NEW v \in G, NEW x \in G, NEW y \in G
    PROVE  <<u, v>> \in Seq(G) /\ <<u, v, x>> \in Seq(G) /\ <<u, v, x, y>> \in Seq(G)
  OBVIOUS

\* Of the symbols of a marker only those of its values can be quotes or backslashes.
LEMMA MarkerMarks ==
    ASSUME NEW E, NEW m \in Seq(E), NEW f \in Seq(E), Marks(f) = 0
    PROVE  Marks(MarkerText(m, f)) = Marks(m)
  <1> DEFINE C == Symbols(E)
             G == {"managed-by", "fip_id", "project_id", "=", " ", Project}
             p == <<"managed-by", "=">>
             q == <<" ", "fip_id", "=">>
             t == <<" ", "project_id", "=", Project>>
  <1>1. \A c \in G : c \notin Specials BY ProjectAssumption DEF Specials
  <1>2. G \subseteq C BY Zenon DEF Symbols
  <1>3. p \in Seq(G) /\ q \in Seq(G) /\ t \in Seq(G)
    <2>1. "managed-by" \in G /\ "fip_id" \in G /\ "project_id" \in G /\ "=" \in G /\ " " \in G
          /\ Project \in G
      OBVIOUS
    <2> HIDE DEF G
    <2>2. p \in Seq(G) BY <2>1, TupleTypes, Zenon
    <2>3. q \in Seq(G) BY <2>1, TupleTypes, Zenon
    <2>4. t \in Seq(G) BY <2>1, TupleTypes, Zenon
    <2> QED BY <2>2, <2>3, <2>4
  <1>4. MarkerText(m, f) = (((p \o m) \o q) \o f) \o t BY Zenon DEF MarkerText
  <1> HIDE DEF p, q, t, C, G
  <1>5. Marks(p) = 0 /\ Marks(q) = 0 /\ Marks(t) = 0 BY <1>1, <1>3, MarksNone, Zenon
  <1>6. p \in Seq(C) /\ q \in Seq(C) /\ t \in Seq(C) BY <1>2, <1>3, SeqGrow, Zenon
  <1>7. m \in Seq(C) /\ f \in Seq(C) BY SymbolsFacts, Zenon DEF C
  <1>8. Marks(m) \in Nat BY MarksType, Zenon
  <1>9. p \o m \in Seq(C) /\ (p \o m) \o q \in Seq(C) /\ ((p \o m) \o q) \o f \in Seq(C)
    BY <1>6, <1>7
  <1>10. Marks(p \o m) = Marks(p) + Marks(m) BY <1>6, <1>7, MarksConcat, Zenon
  <1>11. Marks((p \o m) \o q) = Marks(p \o m) + Marks(q) BY <1>6, <1>9, MarksConcat, Zenon
  <1>12. Marks(((p \o m) \o q) \o f) = Marks((p \o m) \o q) + Marks(f)
    BY <1>7, <1>9, MarksConcat, Zenon
  <1>13. Marks((((p \o m) \o q) \o f) \o t) = Marks(((p \o m) \o q) \o f) + Marks(t)
    BY <1>6, <1>9, MarksConcat, Zenon
  <1>14. \A n \in Nat : ((0 + n) + 0) + 0 + 0 = n OBVIOUS
  <1> QED BY <1>4, <1>5, <1>8, <1>10, <1>11, <1>12, <1>13

\* A value that the shell would change is not read back.
LEMMA OthersLost ==
    ASSUME NEW E, NEW m \in Seq(E), NEW f \in Seq(E), Marks(f) = 0,
           ~PlainWord(m), ~Refused(m)
    PROVE  Parse(m, MarkerText(m, f)) = NotOurs
  <1> DEFINE C == Symbols(E) \cup Specials
             F == C \ Specials
             G == F \ {" "}
             s == MarkerText(m, f)
             words == Split(s)
             r == After(s)
  <1>1. s \in Seq(C) /\ m \in Seq(C)
    <2>1. s \in Seq(Symbols(E)) /\ m \in Seq(Symbols(E)) BY MarkerEnds, SymbolsFacts, Zenon
    <2>2. Symbols(E) \subseteq C BY Zenon
    <2> HIDE DEF C, s
    <2> QED BY <2>1, <2>2, SeqGrow, Zenon
  <1>2. "\\" \in C BY DEF Specials
  <1>3. Marks(s) = Marks(m) BY MarkerMarks, Zenon
  <1>4. Cleaned(s) = s BY CleanedMarker, Zenon
  <1>5. Field(words, "managed-by") # {m} => Parse(m, s) = NotOurs BY <1>4, Zenon DEF Parse
  <1>6. \A c \in F : c \notin Specials OBVIOUS
  <1>7. \E i \in DOMAIN m : m[i] \notin G
    <2>1. m # <<>>
      <3>1. m = <<>> => DOMAIN m = {} OBVIOUS
      <3> QED BY <3>1, Zenon DEF Refused
    <2>2. \E i \in DOMAIN m : m[i] \in Quotes \cup {" ", "\\"} BY <2>1, Zenon DEF PlainWord
    <2>3. \A c \in G : c \notin Quotes \cup {" ", "\\"} BY DEF Quotes, Specials
    <2> QED BY <2>2, <2>3, Zenon
  <1> HIDE DEF C, F, G, s, words
  <1>8. SUFFICES ASSUME Field(words, "managed-by") = {m} PROVE FALSE BY <1>5, Zenon DEF s
  <1>9. words \in Seq(Seq(C)) /\ (words # <<>> => ~Waiting(r))
        /\ \A i \in DOMAIN words : WordOf(r, words[i])
    <2>1. words = Split(s) BY DEF words
    <2>2. words \in Seq(Seq(C)) BY <1>1, <1>2, <2>1, SplitWords, Zenon
    <2>3. words # <<>> => ~Waiting(After(s)) BY <2>1, SplitEnds, Zenon
    <2>4. \A i \in DOMAIN words : WordOf(After(s), words[i])
      BY <1>1, <1>2, <2>1, SplitWords, Zenon
    <2> QED BY <2>2, <2>3, <2>4, Zenon
  <1>10. PICK i \in DOMAIN words : Len(words[i]) > 1 /\ Value(words[i]) = m
    <2>1. Field(words, "managed-by") # {} BY <1>8, Zenon
    <2>2. PICK i \in DOMAIN words :
             Len(words[i]) > 1 /\ Field(words, "managed-by") = {Value(words[i])}
      <3>1. words \in Seq(Seq(C)) BY <1>9, Zenon
      <3> QED BY <2>1, <3>1, FieldValue, Zenon
    <2>3. \A v : {m} = {v} => v = m OBVIOUS
    <2>4. Value(words[i]) = m BY <1>8, <2>2, <2>3, Zenon
    <2> QED BY <2>2, <2>4, Zenon
  <1>11. words # <<>> /\ words[i] \in Seq(C)
    <2> DEFINE T == Seq(C)
    <2>1. words \in Seq(T) BY <1>9
    <2> HIDE DEF T
    <2>2. words # <<>> /\ words[i] \in T BY <1>10, <2>1
    <2> QED BY <2>2 DEF T
  <1>12. CASE s \in Seq(F)
    <2>1. r \in Readers(G) BY <1>6, <1>12, AfterCalm, Zenon DEF G
    <2>2. r.word \in Seq(G) /\ r.words \in Seq(Seq(G)) BY <2>1 DEF Readers
    <2>3. words[i] \in Seq(G)
      <3> DEFINE ws == r.words
                 T == Seq(G)
      <3>1. ws \in Seq(T) /\ r.word \in T BY <2>2
      <3> HIDE DEF ws, T
      <3>2. \A j \in DOMAIN ws : ws[j] \in T BY <3>1
      <3>3. words[i] \in T BY <1>9, <1>10, <3>1, <3>2, Zenon DEF ws, WordOf
      <3> QED BY <3>3 DEF T
    <2>4. m \in Seq(G) BY <1>10, <2>3, ValueOf, Zenon
    <2> QED BY <1>7, <2>4
  <1>13. CASE Lost(r, Marks(s))
    <2>1. Marks(r.word) < Marks(s)
      <3> DEFINE n == Marks(r.word)
                 k == Marks(s)
      <3>1. n < k BY <1>9, <1>11, <1>13, Zenon DEF Lost
      <3> QED BY <3>1
    <2>2. Marks(words[i]) < Marks(s) BY <1>9, <1>10, <1>13, <2>1, Zenon DEF Lost, WordOf
    <2>3. PICK h \in Seq(C) : words[i] = h \o m BY <1>10, <1>11, ValueOf, Zenon
    <2>4. Marks(h \o m) >= Marks(m) BY <1>1, MarksMore, Zenon
    <2>5. Marks(m) \in Nat BY <1>1, MarksType, Zenon
    <2>6. Marks(words[i]) \in Nat BY <1>11, MarksType, Zenon
    <2>7. Marks(words[i]) >= Marks(s) BY <1>3, <2>3, <2>4, Zenon
    <2>8. Marks(s) \in Nat BY <1>3, <2>5, Zenon
    <2> QED BY <2>2, <2>6, <2>7, <2>8
  <1> QED BY <1>1, <1>2, <1>12, <1>13, LostAll, Zenon DEF F

-----------------------------------------------------------------------------
(* Blanks at the end of a word *)

\* The items of a sequence.
LEMMA ItemType == ASSUME NEW T, NEW ws \in Seq(T), NEW j \in DOMAIN ws PROVE ws[j] \in T
  OBVIOUS

\* A plain character is kept.
LEMMA ReadPlain ==
    ASSUME NEW E, "\\" \in E, NEW r \in Readers(E), NEW c \in E, Plain(c)
    PROVE  /\ Read(r, c) \in Readers(E) /\ Read(r, c).words = r.words
           /\ \E x \in Seq(E) : Read(r, c).word = Append(x, c)
  <1> DEFINE n == Read(r, c)
             u == r.word
             d == "\\"
  <1>1. u \in Seq(E) /\ d \in E BY DEF Readers
  <1>2. c # " " /\ c \notin {"\\", "'", "\""} BY DEF Plain
  <1>3. n \in Readers(E) /\ Added(r, n, c) BY ReadStep, Zenon
  <1>4. n.words = r.words /\ (n.word = Append(u, c) \/ n.word = Append(Append(u, d), c))
    BY <1>2, <1>3, Zenon DEF Added
  <1> HIDE DEF u, d
  <1>5. Append(u, d) \in Seq(E) BY <1>1
  <1> QED BY <1>1, <1>3, <1>4, <1>5, Zenon

GoesOn(t, x, y, z) == Append(Append(Append(Append(t, " "), x), y), z)

\* The word w is written with F only, or ends with z.
Tailed(E, F, z, w) == w \in Seq(F) \/ \E v \in Seq(E) : w = Append(v, z)

\* A text goes on with a blank and three plain characters: the words read before are as they
\* were, and the last one ends with the last of the three.
LEMMA LastWords ==
    ASSUME NEW E, "\\" \in E, " " \in E, NEW t \in Seq(E), NEW F, After(t) \in Readers(F),
           NEW x \in E, NEW y \in E, NEW z \in E, Plain(x), Plain(y), Plain(z),
           NEW i \in DOMAIN Split(GoesOn(t, x, y, z))
    PROVE  Tailed(E, F, z, Split(GoesOn(t, x, y, z))[i])
  <1> DEFINE s == GoesOn(t, x, y, z)
             r == After(t)
             r0 == Read(r, " ")
             r1 == Read(r0, x)
             r2 == Read(r1, y)
             r3 == Read(r2, z)
             words == Split(s)
  <1>1. s \in Seq(E) /\ After(s) = r3
    <2> DEFINE sp == " "
               t0 == Append(t, sp)
               t1 == Append(t0, x)
               t2 == Append(t1, y)
    <2>0. sp \in E OBVIOUS
    <2>9. s = Append(t2, z) BY DEF GoesOn
    <2> HIDE DEF sp, s
    <2>1. t0 \in Seq(E) BY <2>0, AppendProperties, Zenon
    <2>2. After(t0) = Read(r, sp) BY <2>0, AfterAppend, Zenon
    <2> HIDE DEF t0
    <2>3. t1 \in Seq(E) BY <2>1, AppendProperties, Zenon
    <2>4. After(t1) = Read(After(t0), x) BY <2>1, AfterAppend, Zenon
    <2> HIDE DEF t1
    <2>5. t2 \in Seq(E) BY <2>3, AppendProperties, Zenon
    <2>6. After(t2) = Read(After(t1), y) BY <2>3, AfterAppend, Zenon
    <2> HIDE DEF t2
    <2>7. Append(t2, z) \in Seq(E) BY <2>5, AppendProperties, Zenon
    <2>8. After(Append(t2, z)) = Read(After(t2), z) BY <2>5, AfterAppend, Zenon
    <2>10. s \in Seq(E) /\ After(s) = Read(After(t2), z) BY <2>7, <2>8, <2>9
    <2> QED BY <2>2, <2>4, <2>6, <2>10 DEF sp
  <1>20. s = GoesOn(t, x, y, z) OBVIOUS
  <1> HIDE DEF s
  <1>2. r \in Readers(E) BY AfterType, Zenon
  <1>3. r.words \in Seq(Seq(F)) /\ r.word \in Seq(F) BY DEF Readers
  <1>4. r0 \in Readers(E) /\ Added(r, r0, " ") BY <1>2, ReadStep, Zenon
  <1>5. r0.words \in {r.words, Append(r.words, r.word)} BY <1>4, Zenon DEF Added
  <1>6. r0.words \in Seq(Seq(F))
    <2> DEFINE ws == r.words
               w == r.word
               T == Seq(F)
    <2>1. ws \in Seq(T) /\ w \in T BY <1>3
    <2>2. r0.words \in {ws, Append(ws, w)} BY <1>5
    <2> HIDE DEF ws, w, T, r0
    <2>3. r0.words \in Seq(T)
      <3>1. Append(ws, w) \in Seq(T) BY <2>1, AppendProperties, Zenon
      <3> QED BY <2>1, <2>2, <3>1
    <2> QED BY <2>3 DEF T
  <1> HIDE DEF r0
  <1>7. r1 \in Readers(E) /\ r1.words = r0.words BY <1>4, ReadPlain, Zenon
  <1> HIDE DEF r1
  <1>8. r2 \in Readers(E) /\ r2.words = r1.words BY <1>7, ReadPlain, Zenon
  <1> HIDE DEF r2
  <1>9. r3.words = r2.words /\ \E v \in Seq(E) : r3.word = Append(v, z)
    BY <1>8, ReadPlain, Zenon
  <1> HIDE DEF r3, words, r
  <1>10. r3.words \in Seq(Seq(F)) BY <1>6, <1>7, <1>8, <1>9, Zenon
  <1>11. \A j \in DOMAIN r3.words : r3.words[j] \in Seq(F)
    <2> DEFINE ws == r3.words
               T == Seq(F)
    <2>1. ws \in Seq(T) BY <1>10
    <2> HIDE DEF ws, T
    <2>2. \A j \in DOMAIN ws : ws[j] \in T BY <2>1, ItemType, Zenon
    <2> QED BY <2>2 DEF ws, T
  <1>12. words = Split(s) /\ i \in DOMAIN words BY DEF words, s
  <1>13. WordOf(After(s), words[i]) BY <1>1, <1>12, SplitWords, Zenon
  <1> QED BY <1>1, <1>9, <1>11, <1>12, <1>13, <1>20, <1>3, Zenon DEF WordOf, Tailed

\* A value that is refused, and is not empty, ends its word with a blank.
LEMMA RefusedEnds ==
    ASSUME NEW E, NEW w \in Seq(E), Len(w) > 1, Value(w) # <<>>, Refused(Value(w))
    PROVE  w # <<>> /\ w[Len(w)] = " "
  <1> DEFINE v == Value(w)
  <1>1. v \in Seq(E) BY ValueOf, Zenon
  <1>2. PICK h \in Seq(E) : w = h \o v BY ValueOf, Zenon
  <1>3. \A i \in DOMAIN v : v[i] = " " BY Zenon DEF Refused
  <1>4. v # <<>> OBVIOUS
  <1> HIDE DEF v
  <1>5. Len(v) \in DOMAIN v BY <1>1, <1>4
  <1>6. w[Len(w)] = v[Len(v)] BY <1>1, <1>2, <1>4
  <1>7. w # <<>> OBVIOUS
  <1> QED BY <1>3, <1>5, <1>6, <1>7, Zenon

\* The listing stops only at a word that ends with a blank.
LEMMA RaisesAt ==
    ASSUME NEW E, NEW m \in Seq(E), PlainWord(m), NEW text, NEW words, words = Split(Cleaned(text)),
           NEW C, words \in Seq(Seq(C)), Parse(m, text) = Raises
    PROVE  \E i \in DOMAIN words : words[i] # <<>> /\ words[i][Len(words[i])] = " "
  <1> DEFINE fip == Field(words, "fip_id")
             project == Field(words, "project_id")
  <1>1. Parse(m, text) =
           IF Field(words, "managed-by") # {m} \/ {} \in {fip \ {<<>>}, project \ {<<>>}}
           THEN NotOurs
           ELSE IF \E v \in {m} \cup fip \cup project : Refused(v) THEN Raises
           ELSE <<fip, project>>
    BY Zenon DEF Parse
  <1>2. ~Refused(m) BY PlainAccepted, Zenon
  <1>3. NotOurs # Raises BY DEF NotOurs, Raises
  <1>4. \A S, T : <<S, T>> # Raises BY DEF Raises
  <1> HIDE DEF fip, project
  <1>5. /\ {} \notin {fip \ {<<>>}, project \ {<<>>}}
        /\ \E v \in {m} \cup fip \cup project : Refused(v)
    BY <1>1, <1>3, <1>4, Zenon
  <1>6. PICK v : Refused(v) /\ (v \in fip \/ v \in project) BY <1>2, <1>5
  <1>7. fip \ {<<>>} # {} /\ project \ {<<>>} # {} BY <1>5
  <1>8. PICK key : v \in Field(words, key) /\ Field(words, key) \ {<<>>} # {}
    BY <1>6, <1>7, Zenon DEF fip, project
  <1> DEFINE S == Field(words, key)
  <1>9. PICK i \in DOMAIN words : Len(words[i]) > 1 /\ S = {Value(words[i])}
    <2>1. S # {} BY <1>8
    <2> QED BY <2>1, FieldValue, Zenon
  <1>10. v \in S /\ S \ {<<>>} # {} BY <1>8
  <1> HIDE DEF S
  <1>11. v = Value(words[i]) /\ v # <<>> BY <1>9, <1>10
  <1>12. words[i] \in Seq(C)
    <2> DEFINE T == Seq(C)
    <2> HIDE DEF T
    <2>1. words \in Seq(T) BY DEF T
    <2>2. words[i] \in T BY <2>1, ItemType, Zenon
    <2> QED BY <2>2 DEF T
  <1>13. words[i] # <<>> /\ words[i][Len(words[i])] = " "
    BY <1>6, <1>9, <1>11, <1>12, RefusedEnds, Zenon
  <1> QED BY <1>13, Zenon

\* A sequence is one over every set that holds its items.
LEMMA ItemsType ==
    ASSUME NEW E, NEW s \in Seq(E), NEW T, \A j \in DOMAIN s : s[j] \in T PROVE s \in Seq(T)
  OBVIOUS

\* Three items more, one by one.
LEMMA ThreeMore ==
    ASSUME NEW E, NEW p \in Seq(E), NEW x \in E, NEW y \in E, NEW z \in E
    PROVE  p \o <<x, y, z>> = Append(Append(Append(p, x), y), z)
  OBVIOUS

\* The last item is one of those the sequence is over.
LEMMA LastItem ==
    ASSUME NEW G, NEW w \in Seq(G), w # <<>>, NEW c, c \notin G PROVE w[Len(w)] # c
  <1>1. Len(w) \in DOMAIN w OBVIOUS
  <1>2. w[Len(w)] \in G BY <1>1, ItemType, Zenon
  <1> QED BY <1>2, Zenon

\* Without quotes and backslashes no blank is left in a word.
LEMMA NoBlanks ==
    ASSUME NEW G, \A c \in G : c \notin Specials, NEW s \in Seq(G), NEW i \in DOMAIN Split(s)
    PROVE  Split(s)[i] \in Seq(G \ {" "})
  <1> DEFINE E == G \cup Specials
             F == G \ {" "}
             T == Seq(F)
             r == After(s)
             ws == r.words
             words == Split(s)
  <1>1. "\\" \in E BY DEF Specials
  <1>2. G \subseteq E BY Zenon
  <1> HIDE DEF E
  <1>3. s \in Seq(E) BY <1>2, SeqGrow, Zenon
  <1>4. r \in Readers(F) BY AfterCalm, Zenon
  <1>5. ws \in Seq(T) /\ r.word \in T BY <1>4 DEF Readers
  <1> HIDE DEF T, ws
  <1>6. \A j \in DOMAIN ws : ws[j] \in T BY <1>5, ItemType, Zenon
  <1>7. words = Split(s) /\ i \in DOMAIN words OBVIOUS
  <1> HIDE DEF words
  <1>8. WordOf(r, words[i]) BY <1>1, <1>3, <1>7, SplitWords, Zenon
  <1>9. words[i] \in T BY <1>5, <1>6, <1>8, Zenon DEF WordOf, ws
  <1> QED BY <1>7, <1>9, Zenon DEF T

\* A marker whose floating IP has no quote and no backslash stops nothing.
LEMMA EditedWithout ==
    ASSUME NEW E, NEW m \in Seq(E), PlainWord(m), NEW f \in Seq(E),
           \A j \in DOMAIN f : f[j] \notin Specials
    PROVE  Parse(m, MarkerText(m, f)) # Raises
  <1> DEFINE M == {c \in E : c \notin Specials}
             C == Symbols(M)
             s == MarkerText(m, f)
             words == Split(s)
  <1>1. m \in Seq(M) /\ f \in Seq(M)
    <2>1. \A j \in DOMAIN m : m[j] \in M
      <3>1. \A j \in DOMAIN m : m[j] \in E BY ItemType, Zenon
      <3>2. \A j \in DOMAIN m : m[j] \notin Specials BY DEF PlainWord, Quotes, Specials
      <3> QED BY <3>1, <3>2, Zenon
    <2>2. \A j \in DOMAIN f : f[j] \in M
      <3>1. \A j \in DOMAIN f : f[j] \in E BY ItemType, Zenon
      <3> QED BY <3>1, Zenon
    <2> HIDE DEF M
    <2> QED BY <2>1, <2>2, ItemsType, Zenon
  <1>2. \A c \in C : c \notin Specials BY ProjectAssumption DEF Symbols, Specials
  <1>3. s \in Seq(C) BY <1>1, MarkerEnds, Zenon
  <1>4. Cleaned(s) = s BY CleanedMarker, Zenon
  <1> HIDE DEF C, M, s
  <1>5. \A i \in DOMAIN words : words[i] \in Seq(C \ {" "}) BY <1>2, <1>3, NoBlanks, Zenon
  <1>6. \A i \in DOMAIN words : words[i] # <<>> => words[i][Len(words[i])] # " "
    <2>1. " " \notin C \ {" "} OBVIOUS
    <2> HIDE DEF words
    <2> QED BY <1>5, <2>1, LastItem, Zenon
  <1>7. words \in Seq(Seq(C \cup Specials))
    <2> DEFINE P == C \cup Specials
    <2>1. "\\" \in P /\ C \subseteq P BY DEF Specials
    <2> HIDE DEF P
    <2>2. s \in Seq(P) BY <1>3, <2>1, SeqGrow, Zenon
    <2>3. words = Split(s) OBVIOUS
    <2> HIDE DEF words
    <2> QED BY <2>1, <2>2, <2>3, SplitWords, Zenon DEF P
  <1>8. words = Split(Cleaned(s)) BY <1>4
  <1> HIDE DEF words
  <1>9. SUFFICES ASSUME Parse(m, s) = Raises PROVE FALSE BY Zenon DEF s
  <1>10. \E i \in DOMAIN words : words[i] # <<>> /\ words[i][Len(words[i])] = " "
    BY <1>7, <1>8, <1>9, <1>1, RaisesAt, Zenon
  <1> QED BY <1>6, <1>10, Zenon

Unbroken(f) == \A j \in DOMAIN f : f[j] # " "

\* A marker whose floating IP has no blank stops nothing.
LEMMA EditedUnbroken ==
    ASSUME NEW E, NEW m \in Seq(E), PlainWord(m), NEW f \in Seq(E),
           Unbroken(f)
    PROVE  Parse(m, MarkerText(m, f)) # Raises
  <1> DEFINE M == {c \in E : c # " "} \cup Specials
             C == Symbols(M)
             F == C \ {" "}
             s == MarkerText(m, f)
             words == Split(s)
             u == Pair("managed-by", m)
             v == Pair("fip_id", f)
             w == Pair("project_id", <<Project>>)
             sp == " "
             x == "project_id"
             y == "="
             t == Append(u, sp) \o v
  <1>1. m \in Seq(M) /\ f \in Seq(M)
    <2>1. \A j \in DOMAIN m : m[j] \in M
      <3>1. \A j \in DOMAIN m : m[j] \in E BY ItemType, Zenon
      <3>2. \A j \in DOMAIN m : m[j] # " " BY DEF PlainWord, Quotes
      <3> QED BY <3>1, <3>2, Zenon
    <2>2. \A j \in DOMAIN f : f[j] \in M
      <3>1. \A j \in DOMAIN f : f[j] \in E BY ItemType, Zenon
      <3> QED BY <3>1, Zenon DEF Unbroken
    <2> HIDE DEF M
    <2> QED BY <2>1, <2>2, ItemsType, Zenon
  <1>2. /\ "\\" \in F /\ "managed-by" \in F /\ "fip_id" \in F /\ x \in F /\ y \in F /\ Project \in F
        /\ sp \in C /\ F \subseteq C /\ sp \notin F
    BY ProjectAssumption DEF Symbols, Specials
  <1>3. Plain(x) /\ Plain(y) /\ Plain(Project) BY ProjectAssumption DEF Plain
  <1>4. m \in Seq(F) /\ f \in Seq(F)
    <2>1. m \in Seq(C) /\ f \in Seq(C) BY <1>1, SymbolsFacts, Zenon
    <2>2. \A j \in DOMAIN m : m[j] # " " BY DEF PlainWord, Quotes
    <2>3. \A c : c \in C /\ c # " " => c \in F BY Zenon
    <2> HIDE DEF C, F
    <2>4. \A j \in DOMAIN m : m[j] \in F BY <2>1, <2>2, <2>3, ItemType, Zenon
    <2>5. \A j \in DOMAIN f : f[j] \in F BY <2>1, <2>3, ItemType, Zenon DEF Unbroken
    <2> QED BY <2>4, <2>5, ItemsType, Zenon
  <1>5. s \in Seq(C) BY <1>1, MarkerEnds, Zenon
  <1>6. Cleaned(s) = s BY CleanedMarker, Zenon
  <1>7. s = Append(t, sp) \o w BY <1>1, MarkerWords, Zenon
  <1>8. After(Append(u, sp)) = Gap(<<u>>)
    <2> DEFINE G == PlainSymbols(M)
    <2>1. m \in Seq(G) BY <1>1, PlainType, Zenon
    <2>2. "managed-by" \in G /\ "=" \in G /\ \A c \in G : Plain(c) BY PlainFacts, Zenon
    <2> HIDE DEF G
    <2>3. u \in Seq(G) /\ u # <<>> BY <2>1, <2>2, PairNonEmpty, Zenon
    <2> HIDE DEF u
    <2> QED BY <2>2, <2>3, FirstWord
  <1> HIDE DEF C, M, F, s
  <1>9. u \in Seq(F) /\ v \in Seq(F) BY <1>2, <1>4, PairNonEmpty, Zenon
  <1> HIDE DEF u, v
  <1>10. w = <<x, y, Project>>
    <2>1. w = <<x, y>> \o <<Project>> BY Zenon DEF Pair
    <2> HIDE DEF w, x, y
    <2> QED BY <1>2, <2>1, PairOne, Zenon
  <1> HIDE DEF w, x, y
  <1>11. Append(u, sp) \in Seq(C) /\ t \in Seq(C)
    <2>1. u \in Seq(C) /\ v \in Seq(C) BY <1>2, <1>9, SeqGrow, Zenon
    <2> HIDE DEF sp
    <2> QED BY <1>2, <2>1
  <1>12. After(t) \in Readers(F)
    <2>1. Gap(<<u>>) \in Readers(F)
      <3> DEFINE T == Seq(F)
                 ws == <<u>>
      <3>1. u \in T BY <1>9
      <3>2. <<>> \in T OBVIOUS
      <3> HIDE DEF T
      <3>3. ws \in Seq(T) BY <3>1
      <3> HIDE DEF ws
      <3>4. Gap(ws) \in Readers(F) BY <3>2, <3>3 DEF Gap, Readers, T
      <3> QED BY <3>4 DEF ws
    <2> HIDE DEF sp
    <2> QED BY <1>2, <1>8, <1>9, <1>11, <2>1, AfterFrom, Zenon
  <1>13. s = GoesOn(t, x, y, Project)
    <2> HIDE DEF t, sp
    <2>1. t \in Seq(C) /\ sp \in C /\ x \in C /\ y \in C /\ Project \in C BY <1>2, <1>11
    <2>2. Append(t, sp) \in Seq(C) BY <2>1
    <2> DEFINE p == Append(t, sp)
    <2> HIDE DEF p
    <2>3. p \in Seq(C) BY <2>2 DEF p
    <2>4. p \o <<x, y, Project>> = Append(Append(Append(p, x), y), Project)
      BY <2>1, <2>3, ThreeMore
    <2>5. s = Append(Append(Append(Append(t, sp), x), y), Project) BY <1>7, <1>10, <2>4 DEF p
    <2> QED BY <2>5, Zenon DEF GoesOn, sp
  <1> HIDE DEF t
  <1>14. \A i \in DOMAIN words :
            words[i] \in Seq(F) \/ \E q \in Seq(C) : words[i] = Append(q, Project)
    <2>1. "\\" \in C /\ " " \in C /\ x \in C /\ y \in C /\ Project \in C BY <1>2, Zenon DEF sp
    <2>2. \A i \in DOMAIN Split(GoesOn(t, x, y, Project)) :
             Tailed(C, F, Project, Split(GoesOn(t, x, y, Project))[i])
      BY <1>3, <1>11, <1>12, <2>1, LastWords, Zenon
    <2> QED BY <1>13, <2>2, Zenon DEF Tailed
  <1>15. \A i \in DOMAIN words : words[i] # <<>> => words[i][Len(words[i])] # " "
    <2>1. ASSUME NEW q \in Seq(C) PROVE Append(q, Project)[Len(Append(q, Project))] = Project
      <3> HIDE DEF C
      <3>1. Project \in C BY <1>2
      <3> QED BY <3>1
    <2>2. Project # " " BY ProjectAssumption
    <2>3. " " \notin F BY <1>2
    <2> HIDE DEF words
    <2>4. ASSUME NEW i \in DOMAIN words, words[i] # <<>> PROVE words[i][Len(words[i])] # " "
      <3>1. CASE words[i] \in Seq(F) BY <2>3, <2>4, <3>1, LastItem, Zenon
      <3>2. ASSUME NEW q \in Seq(C), words[i] = Append(q, Project)
            PROVE  words[i][Len(words[i])] # " "
        BY <2>1, <2>2, <3>2, Zenon
      <3> QED BY <1>14, <3>1, <3>2, Zenon
    <2> QED BY <2>4, Zenon
  <1>16. words \in Seq(Seq(C))
    <2>1. "\\" \in C /\ words = Split(s) BY <1>2
    <2> HIDE DEF words
    <2> QED BY <1>5, <2>1, SplitWords, Zenon
  <1>17. words = Split(Cleaned(s)) BY <1>6
  <1> HIDE DEF words
  <1>18. SUFFICES ASSUME Parse(m, s) = Raises PROVE FALSE BY Zenon DEF s
  <1>19. \E i \in DOMAIN words : words[i] # <<>> /\ words[i][Len(words[i])] = " "
    BY <1>1, <1>16, <1>17, <1>18, RaisesAt, Zenon
  <1> QED BY <1>15, <1>19, Zenon

-----------------------------------------------------------------------------
(* The theorems *)

\* MarkersKnownAgain and OthersIgnored, of the marker of any floating IP.
KnownAgain(m, f) ==
    LET text == MarkerText(m, f)
    IN  IF PlainWord(m)
        THEN Parse(m, text) = MarkOf(f) /\ Parse(m, InQuotes(text)) = MarkOf(f)
        ELSE Refused(m) \/ Parse(m, text) = NotOurs
Ignored(m, other, f) == m # other /\ PlainWord(m) => Parse(other, MarkerText(m, f)) = NotOurs

\* A plain word has no quote and no backslash.
LEMMA PlainMarks == ASSUME NEW E, NEW f \in Seq(E), PlainWord(f) PROVE Marks(f) = 0
  <1>1. f \in Seq(PlainSymbols(E)) BY PlainType, Zenon
  <1>2. \A c \in PlainSymbols(E) : Plain(c) BY PlainFacts, Zenon
  <1>3. \A c : Plain(c) => c \notin Specials BY DEF Plain, Specials
  <1>4. \A c \in PlainSymbols(E) : c \notin Specials BY <1>2, <1>3, Zenon
  <1> QED BY <1>1, <1>4, MarksNone, Zenon

\* KnownAgain holds for every value and every floating IP that is a plain word.
LEMMA MarkersKnown ==
    ASSUME NEW E, NEW m \in Seq(E), NEW f \in Seq(E), PlainWord(f) PROVE KnownAgain(m, f)
  <1> DEFINE text == MarkerText(m, f)
  <1>1. CASE PlainWord(m)
    <2>1. Cleaned(text) = text /\ Cleaned(InQuotes(text)) = text BY CleanedMarker, Zenon
    <2>2. Parse(m, text) = MarkOf(f) /\ Parse(m, InQuotes(text)) = MarkOf(f)
      BY <1>1, <2>1, PlainParse, Zenon
    <2> QED BY <1>1, <2>2, Zenon DEF KnownAgain
  <1>2. CASE ~PlainWord(m)
    <2>1. Marks(f) = 0 BY PlainMarks, Zenon
    <2>2. Refused(m) \/ Parse(m, text) = NotOurs BY <1>2, <2>1, OthersLost, Zenon
    <2> QED BY <1>2, <2>2, Zenon DEF KnownAgain
  <1> QED BY <1>1, <1>2, Zenon

\* Ignored holds for all values and every floating IP that is a plain word.
LEMMA MarkersIgnored ==
    ASSUME NEW E, NEW m \in Seq(E), NEW f \in Seq(E), PlainWord(f), NEW other
    PROVE  Ignored(m, other, f)
  <1>1. ASSUME m # other, PlainWord(m) PROVE Parse(other, MarkerText(m, f)) = NotOurs
    <2>1. Cleaned(MarkerText(m, f)) = MarkerText(m, f) BY CleanedMarker, Zenon
    <2> QED BY <1>1, <2>1, PlainParse, Zenon
  <1> QED BY <1>1, Zenon DEF Ignored

\* The floating IP of the runs is a plain word.
LEMMA AnIdPlain == PlainWord(AnId) /\ \A E, m : m \in Seq(E) =>
                       \E F : m \in Seq(F) /\ AnId \in Seq(F)
  <1>1. PlainWord(AnId)
    <2>1. AnId # <<>> /\ \A i \in DOMAIN AnId : AnId[i] = "x" BY DEF AnId
    <2>2. "x" \notin Quotes \cup {" ", "\\"} BY DEF Quotes
    <2> QED BY <2>1, <2>2, Zenon DEF PlainWord
  <1>2. ASSUME NEW E, NEW m \in Seq(E) PROVE m \in Seq(E \cup {"x"}) /\ AnId \in Seq(E \cup {"x"})
    <2> DEFINE F == E \cup {"x"}
               x == "x"
    <2>1. E \subseteq F /\ x \in F BY Zenon
    <2> HIDE DEF F, x
    <2>2. m \in Seq(F) BY <2>1, SeqGrow, Zenon
    <2>3. <<x>> \in Seq(F) BY <2>1
    <2> QED BY <2>2, <2>3, Zenon DEF AnId, F, x
  <1> QED BY <1>1, <1>2, Zenon

\* The program knows its own markers again if managed_by is a plain word, and never if it is
\* anything else that is not refused (OwnershipParser.parse): for the floating IP of the
\* runs, and for every identifier that is a plain word.
THEOREM KnownMarkers ==
    Spec => []/\ MarkersKnownAgain
              /\ \A f \in Seq(Alphabet) : PlainWord(f) => KnownAgain(a, f)
  <1>1. Strings => \A f \in Seq(Alphabet) : PlainWord(f) => KnownAgain(a, f)
    BY MarkersKnown, Zenon DEF Strings
  <1>2. Strings => KnownAgain(a, AnId)
    BY AnIdPlain, MarkersKnown, Zenon DEF Strings
  <1>3. Strings => MarkersKnownAgain BY <1>2, Zenon DEF KnownAgain, MarkersKnownAgain
  <1>4. Strings => /\ MarkersKnownAgain
                   /\ \A f \in Seq(Alphabet) : PlainWord(f) => KnownAgain(a, f)
    BY <1>1, <1>3, Zenon
  <1> QED BY <1>4, StringsInductive, PTL

\* A marker of another deployment is ignored if the two values of managed_by differ and the
\* other one is a plain word: for the floating IP of the runs, and for every plain word.
THEOREM IgnoredMarkers ==
    Spec => []/\ OthersIgnored
              /\ \A f \in Seq(Alphabet) : PlainWord(f) => Ignored(a, b, f)
  <1>1. Strings => \A f \in Seq(Alphabet) : PlainWord(f) => Ignored(a, b, f)
    BY MarkersIgnored, Zenon DEF Strings
  <1>2. Strings => Ignored(a, b, AnId)
    BY AnIdPlain, MarkersIgnored, Zenon DEF Strings
  <1>3. Strings => OthersIgnored BY <1>2, Zenon DEF Ignored, OthersIgnored
  <1>4. Strings => /\ OthersIgnored
                   /\ \A f \in Seq(Alphabet) : PlainWord(f) => Ignored(a, b, f)
    BY <1>1, <1>3, Zenon
  <1> QED BY <1>4, StringsInductive, PTL

\* An edited floating IP is read as written, and stops the listing only if it has a blank
\* and a quote or backslash (OwnershipParser.parse, RecordOwnership.__post_init__).
THEOREM EditedMarkers == Spec => []EditedMarkersRead
  <1>1. ASSUME Strings, PlainWord(a), PlainWord(b) PROVE Parse(a, MarkerText(a, b)) = MarkOf(b)
    <2>1. a \in Seq(Alphabet) /\ b \in Seq(Alphabet) BY <1>1 DEF Strings
    <2>2. Cleaned(MarkerText(a, b)) = MarkerText(a, b) BY <2>1, CleanedMarker, Zenon
    <2> QED BY <1>1, <2>1, <2>2, PlainParse, Zenon
  <1>2. ASSUME Strings, PlainWord(a), Parse(a, MarkerText(a, b)) = Raises
        PROVE  " " \in ToSet(b) /\ ToSet(b) \cap {"'", "\"", "\\"} # {}
    <2>1. a \in Seq(Alphabet) /\ b \in Seq(Alphabet) BY <1>2 DEF Strings
    <2>2. ~ Unbroken(b) BY <1>2, <2>1, EditedUnbroken, Zenon
    <2>3. \E j \in DOMAIN b : b[j] \in Specials BY <1>2, <2>1, EditedWithout, Zenon
    <2>4. ToSet(b) = {b[j] : j \in DOMAIN b} BY Zenon DEF ToSet
    <2>5. " " \in ToSet(b) BY <2>2, <2>4, Zenon DEF Unbroken
    <2>6. PICK c \in ToSet(b) : c \in Specials BY <2>3, <2>4, Zenon
    <2>7. c \in ToSet(b) \cap {"'", "\"", "\\"} BY <2>6 DEF Specials
    <2> QED BY <2>5, <2>7, Zenon
  <1>3. Strings => EditedMarkersRead BY <1>1, <1>2, Zenon DEF EditedMarkersRead
  <1> QED BY <1>3, StringsInductive, PTL
=============================================================================
