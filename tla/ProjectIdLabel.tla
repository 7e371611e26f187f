---------------------------- MODULE ProjectIdLabel ----------------------------
(***************************************************************************)
(* The DNS labels: ProjectIdLabelGenerator, what a DnsLabel is, and the    *)
(* length of the random labels.  A string is a sequence of characters, and *)
(* one character stands for each class the conversion tells apart: "x" for *)
(* a-z and 0-9, "X" for A-Z, "-", " " for white space, and any other       *)
(* character for those that no label has.                                  *)
(***************************************************************************)
EXTENDS Naturals, SequencesExt

CONSTANT MaxLabel   \* 63, the DNS limit

ASSUME LabelLimitAssumption == MaxLabel \in Nat \ {0}

Lower(c) == IF c = "X" THEN "x" ELSE c
Safe(c) == c = "x"

\* str.strip: the string without its first and last characters that are in C.
Strip(s, C) ==
    LET kept == {i \in DOMAIN s : s[i] \notin C}
    IN  IF kept = {} THEN <<>> ELSE SubSeq(s, Min(kept), Max(kept))

\* DnsLabel
ValidLabel(s) ==
    /\ Len(s) \in 1..MaxLabel
    /\ \A i \in DOMAIN s : Safe(s[i]) \/ s[i] = "-"
    /\ Safe(Head(s)) /\ Safe(Last(s))

-----------------------------------------------------------------------------
(* sanitize_project_id and generate; NoLabel where they raise DomainError *)

NoLabel == <<>>

\* Variant with a bug: each invalid character becomes a hyphen of its own.
Dashed_Each(s) == [i \in DOMAIN s |-> IF Safe(s[i]) THEN s[i] ELSE "-"]
\* Both regular expressions: a run of invalid characters becomes one hyphen.
Dash(t, c) ==
    IF Safe(c) THEN Append(t, c)
    ELSE IF t # <<>> /\ Last(t) = "-" THEN t ELSE Append(t, "-")
Dashed(s) == FoldLeft(Dash, <<>>, s)

LowerAll(s) == [i \in DOMAIN s |-> Lower(s[i])]
Sanitize(s) == Strip(Dashed(LowerAll(Strip(s, {" "}))), {"-"})

Modes == {"full", "short"}
\* In short mode the label is cut after it was trimmed.
Cut(mode, short, s) ==
    IF mode = "short" THEN SubSeq(s, 1, Min({short, Len(s)})) ELSE s
\* Variant with a bug: the cut label is not checked again.
Generate_Unchecked(mode, short, s) == Cut(mode, short, Sanitize(s))
\* Variant with a bug: the identifier is cut before it is sanitized.
Generate_CutFirst(mode, short, s) ==
    LET label == Sanitize(Cut(mode, short, s))
    IN  IF ValidLabel(label) THEN label ELSE NoLabel
Generate(mode, short, s) ==
    LET label == Cut(mode, short, Sanitize(s))
    IN  IF ValidLabel(label) THEN label ELSE NoLabel

\* detect_collisions finds the two identifiers, once generate gave both a label.
Collide(mode, short, s, t) ==
    s # t /\ Generate(mode, short, s) = Generate(mode, short, t)

-----------------------------------------------------------------------------
(* Base32DnsLabelGenerator *)

CeilDiv(n, d) == (n + d - 1) \div d
ByteCount(length) == CeilDiv(length * 5, 8) + 1
\* The base 32 digits of that many bytes, without the padding; the label is cut from them.
Digits(bytes) == CeilDiv(bytes * 8, 5)
DrawnLength(length) ==
    IF Digits(ByteCount(length)) < length THEN Digits(ByteCount(length)) ELSE length
=============================================================================
