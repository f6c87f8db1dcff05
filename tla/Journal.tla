------------------------------ MODULE Journal -------------------------------
(***************************************************************************)
(* The text of a journal: the encoder and the parser of json.rs, and the   *)
(* reading of a journal line by line (record.rs). A text is a sequence of  *)
(* characters, where a run of characters without a meaning of its own to   *)
(* the parser, and a decimal number, count as one.                         *)
(***************************************************************************)
EXTENDS Integers, Sequences, SequencesExt

CONSTANT MAX_NUMERAL   \* the largest number in an entry (u64)

ASSUME JournalAssumption == MAX_NUMERAL \in Nat

Numeral(n) == <<ToString(n)>>
Numerals == {ToString(n) : n \in 0 .. MAX_NUMERAL}
Whitespace == {" "}

\* Stands for every other character below U+0020.
CONTROL == "U+0001"
HexDigits == {"0", "1"}

\* The characters that `quote` escapes, with their escapes.
Escapes ==
    [c \in {"\"", "\\", "\n", "\r", "\t", CONTROL} |->
        CASE c = "\n" -> <<"\\", "n">>
          [] c = "\r" -> <<"\\", "r">>
          [] c = "\t" -> <<"\\", "t">>
          [] c = CONTROL -> <<"\\", "u", "0", "0", "0", "1">>
          [] OTHER -> <<"\\", c>>]

\* Mutant of Quote: line breaks are written as they are.
QuoteRaw(text) ==
    <<"\"">>
    \o FlattenSeq([i \in DOMAIN text |->
           IF text[i] \in DOMAIN Escapes \ {"\n"} THEN Escapes[text[i]] ELSE <<text[i]>>])
    \o <<"\"">>

Quote(text) ==
    <<"\"">>
    \o FlattenSeq([i \in DOMAIN text |->
           IF text[i] \in DOMAIN Escapes THEN Escapes[text[i]] ELSE <<text[i]>>])
    \o <<"\"">>

\* Object::string, Object::number and Object::encode: an object is the sequence
\* of its fields, a field its key and its encoded value.
StringOf(key, text) == Quote(<<key>>) \o <<":">> \o Quote(text)
NumberOf(key, n) == Quote(<<key>>) \o <<":">> \o Numeral(n)

Encode(fields) ==
    <<"{">>
    \o FlattenSeq([i \in DOMAIN fields |->
           (IF i = 1 THEN <<>> ELSE <<",">>) \o fields[i]])
    \o <<"}">>

-----------------------------------------------------------------------------
(* parse_flat_object, one character after the other. `at` is the place in   *)
(* the parser that waits for the next one; `part` says whether a string is  *)
(* a key or a value, `text` is what has been read of it.                    *)

Nothing == [at |-> "object", part |-> "key", key |-> <<>>, text |-> <<>>,
            hex |-> 0, fields |-> <<>>]

To(p, place) == [p EXCEPT !.at = place]
Opens(p, part) == [p EXCEPT !.at = "string", !.part = part, !.text = <<>>]
Adds(p, c) == [p EXCEPT !.at = "string", !.text = Append(@, c)]

Field(p, type) ==
    [p EXCEPT !.at = "separator",
              !.fields = Append(@, [key |-> p.key, type |-> type, text |-> p.text])]

EndString(p) ==
    IF p.part = "key" THEN [p EXCEPT !.at = "colon", !.key = p.text]
    ELSE Field(p, "string")

\* parse_escape; of the characters of \u only the one quote writes is told apart.
Escaped(p, c) ==
    CASE c \in {"\"", "\\", "/"} -> Adds(p, c)
      [] c = "n" -> Adds(p, "\n")
      [] c = "r" -> Adds(p, "\r")
      [] c = "t" -> Adds(p, "\t")
      [] c \in {"b", "f"} -> Adds(p, CONTROL)
      [] c = "u" -> [p EXCEPT !.at = "unicode", !.hex = 0]
      [] OTHER -> To(p, "error")

Unicode(p, c) ==
    IF c \notin HexDigits THEN To(p, "error")
    ELSE IF p.hex < 3 THEN [p EXCEPT !.hex = @ + 1]
    ELSE Adds(p, CONTROL)

InString(p, c) ==
    CASE c = "\"" -> EndString(p)
      [] c = "\\" -> To(p, "escape")
      [] OTHER -> Adds(p, c)

\* What may follow between two tokens: the place to go to for each character.
Expected(p, c) ==
    CASE c = "{" /\ p.at = "object" -> To(p, "first")
      [] c = "}" /\ p.at \in {"first", "separator"} -> To(p, "done")
      [] c = "\"" /\ p.at \in {"first", "key"} -> Opens(p, "key")
      [] c = ":" /\ p.at = "colon" -> To(p, "value")
      [] c = "\"" /\ p.at = "value" -> Opens(p, "value")
      [] c \in Numerals /\ p.at = "value" -> [p EXCEPT !.at = "number", !.text = <<c>>]
      [] c = "," /\ p.at = "separator" -> To(p, "key")
      [] c \in Whitespace -> p
      [] OTHER -> To(p, "error")

\* The loop of parse_flat_object. It returns at the first closing brace, whatever
\* follows.
Character(p, c) ==
    CASE p.at \in {"done", "error"} -> p
      [] p.at = "string" -> InString(p, c)
      [] p.at = "escape" -> Escaped(p, c)
      [] p.at = "unicode" -> Unicode(p, c)
      [] p.at = "number" -> Expected(Field(p, "number"), c)
      [] OTHER -> Expected(p, c)

-----------------------------------------------------------------------------
(* JournalEntry::parse and RunRecord::entries. *)

\* string_field and number_field: the text of the first field of the name and
\* type, with a default.
FieldOr(p, name, type, default) ==
    LET found == SelectSeq(p.fields, LAMBDA f : f.key = <<name>> /\ f.type = type) IN
    IF found = <<>> THEN default ELSE Head(found).text

HasString(p, name) ==
    \E i \in DOMAIN p.fields : p.fields[i].key = <<name>> /\ p.fields[i].type = "string"

IsEntry(p) ==
    /\ p.at = "done"
    /\ \A name \in {"segment", "status", "evidence_identity"} : HasString(p, name)

EntryOf(p) ==
    [segment |-> FieldOr(p, "segment", "string", <<>>),
     attempt |-> FieldOr(p, "attempt", "number", Numeral(0)),
     status |-> FieldOr(p, "status", "string", <<>>),
     evidence_identity |-> FieldOr(p, "evidence_identity", "string", <<>>),
     evidence |-> FieldOr(p, "evidence", "string", <<>>)]

\* The parser before a text, followed by the parser after each character of it.
ReadOn(p, text) ==
    LET read[i \in 0 .. Len(text)] ==
            IF i = 0 THEN <<p>>
            ELSE LET past == read[i - 1] IN Append(past, Character(Last(past), text[i]))
    IN read[Len(text)]

\* The same for a line from its beginning, in pieces for no other reason than a
\* shallow recursion.
PIECE == 12

Parsers(line) ==
    LET read[k \in 0 .. Len(line) \div PIECE + 1] ==
            IF k = 0 THEN <<Nothing>>
            ELSE LET past == read[k - 1] IN
                 Front(past) \o ReadOn(Last(past), SubSeq(line, PIECE * (k - 1) + 1,
                                                          Min({PIECE * k, Len(line)})))
    IN read[Len(line) \div PIECE + 1]

Parsed(line) == Last(Parsers(line))

\* str::lines, without the lines that are blank.
Lines(text) ==
    LET ends == SetToSortSeq({i \in DOMAIN text : text[i] = "\n"} \cup {Len(text) + 1}, <)
        line == [k \in DOMAIN ends |->
                    SubSeq(text, (IF k = 1 THEN 0 ELSE ends[k - 1]) + 1, ends[k] - 1)] IN
    SelectSeq(line, LAMBDA l : ~(ToSet(l) \subseteq Whitespace))

\* RunRecord::entries: the entry of every line; one line that has none fails it.
ReadJournal(text) ==
    LET lines == Lines(text)
        parsed == [k \in DOMAIN lines |-> Parsed(lines[k])] IN
    [ok |-> \A k \in DOMAIN parsed : IsEntry(parsed[k]),
     entries |-> [k \in DOMAIN parsed |-> EntryOf(parsed[k])]]

=============================================================================
