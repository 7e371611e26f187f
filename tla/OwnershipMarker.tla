---------------------------- MODULE OwnershipMarker ----------------------------
(***************************************************************************)
(* RecordOwnership and OwnershipParser: the text that marks a recordset as *)
(* the program's, and what is read back from a text.  A text is a sequence *)
(* of symbols: a field name and the identifier of a project are one symbol *)
(* each; the setting records.managed_by, which may be any string, and what *)
(* somebody may have made of the identifier of a floating IP are sequences *)
(* of characters.                                                          *)
(***************************************************************************)
EXTENDS ProjectIdLabel

CONSTANT Project           \* a project identifier

\* Keystone gives out identifiers of letters, digits, hyphens and underscores.
ASSUME ProjectAssumption == Project \notin {" ", "\\", "'", "\""}

NotOurs == <<"not ours">>  \* parse returned None
Raises == <<"raises">>     \* parse raised DomainError, and the listing fails with it

\* RecordOwnership.__post_init__ raises: a field is blank.
Refused(v) == \A i \in DOMAIN v : v[i] = " "

\* RecordOwnership.to_txt_value
MarkerText(manager, fip) ==
    <<"managed-by", "=">> \o manager \o <<" ", "fip_id", "=">> \o fip
        \o <<" ", "project_id", "=", Project>>

-----------------------------------------------------------------------------
(* shlex.split *)

Quotes == {"'", "\""}
Start == [at |-> "gap", back |-> "word", word |-> <<>>, quoted |-> FALSE, words |-> <<>>]

\* What the word in hand adds to the words read.
Ended(r) == IF r.word # <<>> \/ r.quoted THEN Append(r.words, r.word) ELSE r.words

Outside(r, c) ==
    CASE c = " "       -> [Start EXCEPT !.words = Ended(r)]
      [] c = "\\"      -> [r EXCEPT !.at = "escape", !.back = "word"]
      [] c \in Quotes  -> [r EXCEPT !.at = c]
      [] OTHER         -> [r EXCEPT !.at = "word", !.word = Append(@, c)]

Inside(r, c) ==
    CASE c = r.at                  -> [r EXCEPT !.at = "word", !.quoted = TRUE]
      [] c = "\\" /\ r.at = "\""  -> [r EXCEPT !.at = "escape", !.back = r.at, !.quoted = TRUE]
      [] OTHER                     -> [r EXCEPT !.word = Append(@, c), !.quoted = TRUE]

\* Inside quotes a backslash only escapes itself and the quote.
Escaped(r, c) ==
    LET kept == IF r.back \in Quotes /\ c \notin {"\\", r.back} THEN <<"\\", c>> ELSE <<c>>
    IN  [r EXCEPT !.at = r.back, !.word = @ \o kept]

\* Variant with a bug: quotes and backslashes are ordinary characters.
Read_Plain(r, c) ==
    IF c = " " THEN [Start EXCEPT !.words = Ended(r)]
               ELSE [r EXCEPT !.at = "word", !.word = Append(@, c)]
Read(r, c) ==
    CASE r.at \in {"gap", "word"} -> Outside(r, c)
      [] r.at = "escape"          -> Escaped(r, c)
      [] OTHER                    -> Inside(r, c)

\* A text that ends in quotes or after a backslash has no words: ValueError.
Split(text) ==
    LET r == FoldLeft(Read, Start, text)
    IN  IF r.at \in Quotes \cup {"escape"} THEN <<>> ELSE Ended(r)

-----------------------------------------------------------------------------
(* OwnershipParser.parse *)

\* The words key=value, by their positions.
Given(words, key) ==
    {i \in DOMAIN words : Len(words[i]) > 1 /\ words[i][1] = key /\ words[i][2] = "="}
\* Variant with a bug: the separator stays with the value.
Field_Separator(words, key) ==
    LET i == Max(Given(words, key))
    IN  IF Given(words, key) = {} THEN {} ELSE {SubSeq(words[i], 2, Len(words[i]))}
\* fields.get(key), as a set: of several words key=value the last one counts.
Field(words, key) ==
    LET i == Max(Given(words, key))
    IN  IF Given(words, key) = {} THEN {} ELSE {SubSeq(words[i], 3, Len(words[i]))}

\* Designate may return the text of a TXT record in quotes.
Cleaned(text) == Strip(Strip(text, {" "}), {"\""})

\* Variant with a bug: the marker of any manager will do.
Parse_AnyManager(ours, text) ==
    LET words == Split(Cleaned(text))
    IN  IF Field(words, "managed-by") = {} THEN NotOurs
        ELSE <<Field(words, "fip_id"), Field(words, "project_id")>>
Parse(ours, text) ==
    LET words == Split(Cleaned(text))
        fip == Field(words, "fip_id")
        project == Field(words, "project_id")
    IN  IF Field(words, "managed-by") # {ours} \/ {} \in {fip \ {<<>>}, project \ {<<>>}}
        THEN NotOurs
        ELSE IF \E v \in {ours} \cup fip \cup project : Refused(v)
        THEN Raises
        ELSE <<fip, project>>
=============================================================================
