---------------------------- MODULE NamesAndMarkers ----------------------------
(***************************************************************************)
(* Checks ProjectIdLabel, DnsNames and OwnershipMarker on every pair of    *)
(* short strings: a and b are two project identifiers, two values of       *)
(* dns.base_domain or two of records.managed_by, written one character at  *)
(* a time.                                                                 *)
(***************************************************************************)
EXTENDS OwnershipMarker, DnsNames

CONSTANTS
    Alphabet,            \* one character of each class
    MaxAlone, MaxPair    \* bounds: length of a while b is empty; of both

VARIABLES a, b

Init == a = <<>> /\ b = <<>>
WriteA == /\ b = <<>> /\ Len(a) < MaxAlone
          /\ \E c \in Alphabet : a' = Append(a, c)
          /\ UNCHANGED b
WriteB == /\ Len(a) <= MaxPair /\ Len(b) < MaxPair
          /\ \E c \in Alphabet : b' = Append(b, c)
          /\ UNCHANGED a
Next == WriteA \/ WriteB
Spec == Init /\ [][Next]_<<a, b>>

-----------------------------------------------------------------------------
(* Labels *)

\* What the documentation says of a sanitized identifier, character by character: the
\* letters and digits in lower case, with one hyphen wherever others lay between them.
Join(t, piece) == t \o piece
Documented(s) ==
    LET kept == {i \in DOMAIN s : Safe(Lower(s[i]))}
        piece(i) == IF i \notin kept THEN <<>>
                    ELSE IF i = Min(kept) \/ i - 1 \in kept THEN <<Lower(s[i])>>
                    ELSE <<"-", Lower(s[i])>>
    IN  FoldLeft(Join, <<>>, [i \in DOMAIN s |-> piece(i)])
SanitizedAsDocumented == Sanitize(a) = Documented(a)

\* A project gets no label, and stops every pass, in exactly these cases: no letter or
\* digit in its identifier, too long a one in full mode, and in short mode one whose cut
\* falls right after a hyphen.  Every label that is given is a DNS label.
LabelsFailOnlyFor ==
    \A mode \in Modes, short \in 1..MaxLabel :
        LET label == Generate(mode, short, a)
            wanted == Documented(a)
        IN  /\ label = NoLabel <=>
                  \/ wanted = <<>>
                  \/ mode = "full" /\ Len(wanted) > MaxLabel
                  \/ mode = "short" /\ Len(wanted) > short /\ wanted[short] = "-"
            /\ label # NoLabel => ValidLabel(label)

\* Whatever the mode, two projects share a label only if their identifiers agree, but for
\* case and for what lies between their letters, as far as the label goes.
SharedLabelsAlike ==
    \A mode \in Modes, short \in 1..MaxLabel :
        Generate(mode, short, a) # NoLabel /\ Collide(mode, short, a, b) =>
            Cut(mode, short, Documented(a)) = Cut(mode, short, Documented(b))

-----------------------------------------------------------------------------
(* Names and zones *)

\* Random labels and project labels.
SomeLabels == {l \in {<<"x">>, <<"x", "x">>, <<"x", "-", "x">>} : ValidLabel(l)}

\* With these labels, every name that is built is in its zone and in no other project's, its
\* first label is the random label, another pair of labels gives another name, and the next
\* pass finds the zone among those it lists.
NamesIn(base, labels) ==
    LET name(l, p) == Built(base, l, p)
        below(strategy, p) == Dot \o ZoneFor(strategy, base, p)
    IN  \A strategy \in Strategies, l, p \in labels :
            /\ name(l, p) # NoName /\ Head(LabelsOf(name(l, p))) = l
            /\ IsSuffix(below(strategy, p), name(l, p))
            /\ Managed(strategy, base, ZoneFor(strategy, base, p))
            /\ \A m, q \in labels :
                  /\ <<m, q>> # <<l, p>> => name(m, q) # name(l, p)
                  /\ strategy = "per_project_zone" /\ q # p =>
                        ~IsSuffix(below(strategy, q), name(l, p))

\* The names are in their zones whatever base domain is accepted.  (It says nothing of b,
\* which is not varied.)
NamesInTheirZones == b = <<>> /\ ZoneName(a) # NoName => NamesIn(ZoneName(a), SomeLabels)

\* The zones that a deployment makes or uses: its base zone and those of its projects.
ZonesOf(base, labels) == {base} \cup {ZoneFor("per_project_zone", base, p) : p \in labels}
TakenApart(base, other, labels) ==
    \A strategy \in Strategies, zone \in ZonesOf(other, labels) :
        Managed(strategy, base, zone) => IsSuffix(LabelsOf(base), LabelsOf(zone))

\* A deployment never takes a zone for its own that is not at its base domain, label by
\* label: not the base zone of another deployment, and not a project zone of it.
BasesApart ==
    ZoneName(a) # NoName /\ ZoneName(b) # NoName =>
        TakenApart(ZoneName(a), ZoneName(b), SomeLabels)

-----------------------------------------------------------------------------
(* Markers *)

\* managed_by is one word to the shell, and means itself.
PlainWord(s) == s # <<>> /\ \A i \in DOMAIN s : s[i] \notin Quotes \cup {" ", "\\"}
InQuotes(text) == <<"\"">> \o text \o <<"\"">>
MarkOf(fip) == <<{fip}, {<<Project>>}>>
AnId == <<"x">>

\* The program knows its own markers again, in quotes or not, if managed_by is a plain
\* word; with any other value that it does not refuse it never does, and takes every
\* floating IP for a new one at every pass.
MarkersKnownAgain ==
    LET text == MarkerText(a, AnId)
    IN  IF PlainWord(a)
        THEN Parse(a, text) = MarkOf(AnId) /\ Parse(a, InQuotes(text)) = MarkOf(AnId)
        ELSE Refused(a) \/ Parse(a, text) = NotOurs

\* Of two deployments whose managed_by are different plain words neither ever takes a
\* recordset of the other for its own.
OthersIgnored ==
    a # b /\ PlainWord(a) => Parse(b, MarkerText(a, AnId)) = NotOurs

\* Somebody edits the floating IP in a marker: it is read as written, and it stops the
\* whole listing only if what is left is a blank that was quoted or escaped.
EditedMarkersRead ==
    PlainWord(a) =>
        LET read == Parse(a, MarkerText(a, b))
        IN  /\ PlainWord(b) => read = MarkOf(b)
            /\ read = Raises => " " \in ToSet(b) /\ ToSet(b) \cap {"'", "\"", "\\"} # {}
=============================================================================
