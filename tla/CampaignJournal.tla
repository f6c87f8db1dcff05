-------------------------- MODULE CampaignJournal ---------------------------
(***************************************************************************)
(* The journal of a campaign as text. Campaign says which entries a later  *)
(* run can read of a journal that was cut off anywhere; Journal has the    *)
(* encoder and the parser; here the one is compared with the other.        *)
(***************************************************************************)
EXTENDS Campaign, Journal

CONSTANT ErrorText   \* what an operating system may say of a program

ASSUME CampaignJournalAssumption ==
    ErrorText \in Seq(STRING) /\ MaxRuns <= MAX_NUMERAL

\* evidence_reference, the digest of an identity, and the notes of the outcomes:
\* only a pass has none.
EvidenceReference(f) == <<"segments/", f[1], "-", ToString(f[2]), ".txt">>
Digest(identity) == <<"digest ", ToString(identity)>>
Note(status) ==
    IF status = "pass" THEN <<>>
    ELSE <<StringOf("note", <<"program ", status, ": ">> \o ErrorText)>>

\* journal_entry as text, without the times and the revision, which nothing
\* reads back.
EntryText(e) ==
    Encode(<<StringOf("segment", <<e.segment>>), NumberOf("attempt", e.attempt),
             StringOf("status", <<e.status>>),
             StringOf("evidence_identity", Digest(e.identity)),
             StringOf("evidence", EvidenceReference(e.evidence))>>
           \o Note(e.status))

\* The file: an entry that is followed by a hidden one has no line break.
JournalText(r) ==
    FlattenSeq([k \in DOMAIN r.journal |->
        EntryText(r.journal[k])
        \o (IF (IF k = Len(r.journal) THEN r.ending = "open" ELSE r.journal[k + 1].hidden)
            THEN <<>> ELSE <<"\n">>)])

\* What JournalEntry has of an entry.
ReadAs(e) ==
    [segment |-> <<e.segment>>, attempt |-> Numeral(e.attempt), status |-> <<e.status>>,
     evidence_identity |-> Digest(e.identity), evidence |-> EvidenceReference(e.evidence)]

\* When a later run reads a journal, its text gives the entries in the order
\* they were recorded, whatever their notes hold: all of them when every entry has
\* its newline, and otherwise all but those on one line with the entry before,
\* which is what `hidden` stands for. The loss of these contradicts the comment of
\* entries and is the beginning of what refutes EarlierAttemptsKept. Of an entry
\* about to be appended any part may get there: no part but the whole is an entry,
\* so that none is read that nobody wrote and a torn one fails the reading
\* (append_journal, json::quote, parse_flat_object, entries).
JournalReadsBack ==
    /\ run.at = "select" /\ records # <<>> /\ ~Unreadable(Current) =>
         LET firstOnLine == SelectSeq(Current.journal, LAMBDA e : ~e.hidden) IN
         ReadJournal(JournalText(Current)) =
             [ok |-> TRUE,
              entries |-> [k \in DOMAIN firstOnLine |-> ReadAs(firstOnLine[k])]]
    /\ run.at = "append" =>
         LET line == Parsers(EntryText(Entry)) IN
         {n \in DOMAIN line : IsEntry(line[n])} = {Len(line)}

=============================================================================
