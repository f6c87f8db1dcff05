--------------------------- MODULE CampaignProofs ---------------------------
(***************************************************************************)
(* What the records of a campaign are worth, for every list of segments,   *)
(* every number of runs, interruptions and changes of the repository.      *)
(***************************************************************************)
EXTENDS Campaign, FiniteSetTheorems, SequenceTheorems, WellFoundedInduction, TLAPS

-----------------------------------------------------------------------------
(* The inductive invariant *)

Results == [id : Segments, status : Statuses, identity : Identities]

\* The places between select_record and the end of a run.
Executing == {"segment", "probe", "step", "append"}
Recording == {"tree", "manifest", "summary"} \cup Executing

RunStates ==
    [at : {"idle", "select"} \cup Recording, identity : Identities \cup {NoIdentity},
     resume : BOOLEAN, clean : BOOLEAN, results : Seq(Results), step : Nat,
     elapsed : 0 .. Budget + 1, child : {"none", "running", "ok", "bad"}, status : Statuses]

Typed ==
    /\ head \in Identities /\ dirty \in BOOLEAN
    /\ records \in Seq(Records) /\ Len(records) <= MAX_SEQUENCE
    /\ run \in RunStates
    /\ runs \in 0 .. MaxRuns /\ interruptions \in 0 .. MaxInterruptions
    /\ changes \in 0 .. MaxChanges
    /\ exit \in {"none", "success", "failure"}

\* How far the run is, and that its results are those of the first segments.
Placed ==
    /\ run.at = "idle" => run = Idle
    /\ run.at # "idle" => run.identity \in Identities /\ runs > 0
    /\ run.at \in Recording => records # <<>>
    /\ run.at \in {"select", "tree", "manifest"} => run.results = <<>>
    /\ run.at \in Executing => Len(run.results) < Len(Required)
    /\ run.at = "summary" => Len(run.results) = Len(Required)
    /\ \A i \in DOMAIN run.results :
          run.results[i].id = Required[i] /\ run.results[i].identity = run.identity

\* A run adds at most one attempt of each segment.
Counted ==
    /\ \A k \in DOMAIN records : \A s \in Segments : AttemptsFor(records[k], s) <= runs
    /\ run.at = "select" =>
          \A k \in DOMAIN records : \A s \in Segments : AttemptsFor(records[k], s) < runs
    /\ run.at \in Recording =>
          \A j \in (Len(run.results) + 1) .. Len(Required) :
              AttemptsFor(Current, Required[j]) < runs

\* The journal has an executed pass of s under identity i.
Passed(r, s, i) ==
    \E k \in DOMAIN r.journal :
        r.journal[k].segment = s /\ r.journal[k].status = "pass" /\ r.journal[k].identity = i

Sound(r) ==
    /\ r.ending = "open" => r.journal # <<>>
    /\ r.journal # <<>> => ~r.journal[1].hidden
    /\ \A k, n \in DOMAIN r.journal : r.journal[k].identity = r.journal[n].identity
    /\ \A k \in DOMAIN r.journal : r.manifest \in {r.journal[k].identity, NoIdentity}
    /\ \A k \in EntriesOf(r) :
          LET e == r.journal[k] IN
          /\ e.evidence[1] = e.segment
          /\ e.evidence[2] <= AttemptsFor(r, e.segment)
          /\ Kept(r, e)
    /\ OwnFiles(r)
    /\ \A k \in DOMAIN r.journal :
          LET e == r.journal[k] IN Holds(e.status) => Passed(r, e.segment, e.identity)
    /\ r.summary = "sealed" => Backed(r)

\* What the run knows of the record it works on.
Underway ==
    /\ run.at \in Recording =>
          \A k \in DOMAIN Current.journal : Current.journal[k].identity = run.identity
    /\ run.at \in Executing \cup {"summary"} => Current.manifest = run.identity
    /\ run.at = "append" =>
          IF run.status = "cached" THEN Reusable(Current, Segment)
          ELSE Current.evidence[Evidence] = run.status
    /\ \A i \in DOMAIN run.results :
          Holds(run.results[i].status) => Passed(Current, Required[i], run.identity)
    /\ exit = "success" => run.at = "idle" /\ Backed(Current)

CampaignInv ==
    /\ Typed /\ Placed /\ Counted
    /\ \A k \in DOMAIN records : Sound(records[k])
    /\ Underway

-----------------------------------------------------------------------------
(* Sequences, sets of places and their largest one *)

LEMMA SegmentNames ==
    /\ Len(Required) \in Nat \ {0}
    /\ \A j \in 1 .. Len(Required) : Required[j] \in Segments
    /\ \A j, n \in 1 .. Len(Required) : Required[j] = Required[n] => j = n
    /\ \A s \in Segments : \E j \in 1 .. Len(Required) : Required[j] = s
<1>1. Required \in Seq(Segments) /\ Required # <<>> /\ IsInjective(Required)
  BY Zenon, CampaignAssumption
<1>2. Len(Required) \in Nat /\ DOMAIN Required = 1 .. Len(Required) /\ Len(Required) # 0
  BY Zenon, <1>1, LenProperties, EmptySeq
<1>3. \A s \in Segments : \E j \in 1 .. Len(Required) : Required[j] = s
  BY Zenon, <1>2 DEF Segments, Range
<1>4. \A j, n \in 1 .. Len(Required) : Required[j] = Required[n] => j = n
  BY Zenon, <1>1, <1>2 DEF IsInjective
<1>5. \A j \in 1 .. Len(Required) : Required[j] \in Segments
  BY Zenon, <1>2 DEF Segments, Range
<1> QED  BY <1>2, <1>3, <1>4, <1>5

\* A set of places of a sequence has a largest one.
LEMMA MaxInside ==
    ASSUME NEW n \in Nat, NEW S \in SUBSET (1 .. n), S # {}
    PROVE  Max(S) \in S
<1> DEFINE T == {m \in Nat : \E k \in S : m = n - k}
<1>1. PICK k \in S : TRUE
  BY Zenon
<1>2. T # {}
  <2>1. k \in 1 .. n
    BY <1>1
  <2>2. n - k \in T
    BY <1>1, <2>1
  <2> QED  BY Zenon, <2>2
<1>3. PICK m \in T : \A y \in T : ~(<<y, m>> \in OpToRel(<, Nat))
  <2>1. T \in SUBSET Nat
    OBVIOUS
  <2> QED  BY Zenon, <1>2, <2>1, NatLessThanWellFounded, WFMin
<1>4. \A y \in T : ~(y < m)
  BY Zenon, <1>3 DEF OpToRel
<1>5. PICK x \in S : m = n - x
  OBVIOUS
<1>6. \A y \in S : x >= y
  <2> SUFFICES ASSUME NEW y \in S PROVE x >= y
    OBVIOUS
  <2>1. x \in 1 .. n /\ y \in 1 .. n
    OBVIOUS
  <2>2. n - y \in T
    BY <2>1
  <2>3. ~(n - y < n - x)
    BY Zenon, <1>4, <1>5, <2>2
  <2> QED  BY <2>1, <2>3
<1> HIDE DEF T
<1> QED  BY Zenon, <1>6 DEF Max

-----------------------------------------------------------------------------
(* One record *)

LEMMA RecordTypes ==
    ASSUME NEW r \in Records
    PROVE  /\ r.journal \in Seq(Entries) /\ Len(r.journal) \in Nat
           /\ DOMAIN r.journal = 1 .. Len(r.journal)
           /\ \A k \in DOMAIN r.journal : r.journal[k] \in Entries
<1>1. r.journal \in Seq(Entries)
  BY DEF Records
<1> QED  BY Zenon, <1>1, LenProperties, ElementOfSeq

LEMMA PlacesFinite ==
    ASSUME NEW r \in Records, NEW s
    PROVE  /\ EntriesOf(r) \in SUBSET (1 .. Len(r.journal))
           /\ EntriesFor(r, s) \in SUBSET (1 .. Len(r.journal))
           /\ IsFiniteSet(EntriesFor(r, s)) /\ AttemptsFor(r, s) \in Nat
<1>1. /\ EntriesOf(r) \in SUBSET (1 .. Len(r.journal))
      /\ EntriesFor(r, s) \in SUBSET (1 .. Len(r.journal))
  BY Zenon, RecordTypes DEF EntriesOf, EntriesFor
<1>2. IsFiniteSet(1 .. Len(r.journal))
  <2>1. Len(r.journal) \in Int /\ 1 \in Int
    BY RecordTypes
  <2> QED  BY <2>1, FS_Interval
<1>3. IsFiniteSet(EntriesFor(r, s))
  BY Zenon, <1>1, <1>2, FS_Subset
<1> QED  BY Zenon, <1>1, <1>3, FS_CardinalityType DEF AttemptsFor

\* The last entry of a segment, and of the journal, is one.
LEMMA LastInside ==
    ASSUME NEW r \in Records, NEW s
    PROVE  /\ EntriesFor(r, s) # {} => Max(EntriesFor(r, s)) \in EntriesFor(r, s)
           /\ EntriesOf(r) # {} => Max(EntriesOf(r)) \in EntriesOf(r)
<1>1. Len(r.journal) \in Nat
  BY Zenon, RecordTypes
<1> QED  BY Zenon, <1>1, PlacesFinite, MaxInside

\* A record after append_journal, with all of the entry or without its newline.
Extended(r, e, x) == [r EXCEPT !.journal = Append(r.journal, e), !.ending = x]

LEMMA ExtendedTypes ==
    ASSUME NEW r \in Records, NEW e \in Entries, NEW x \in {"whole", "open", "torn"}
    PROVE  /\ Extended(r, e, x) \in Records
           /\ Extended(r, e, x).journal = Append(r.journal, e) /\ Extended(r, e, x).ending = x
           /\ Extended(r, e, x).manifest = r.manifest /\ Extended(r, e, x).evidence = r.evidence
           /\ Extended(r, e, x).segmentsDir = r.segmentsDir /\ Extended(r, e, x).summary = r.summary
<1>1. Append(r.journal, e) \in Seq(Entries)
  BY Zenon, RecordTypes, AppendProperties
<1> QED  BY Zenon, <1>1 DEF Extended, Records

LEMMA ExtendedEntries ==
    ASSUME NEW r \in Records, NEW e \in Entries, NEW x \in {"whole", "open", "torn"}
    PROVE  /\ DOMAIN Extended(r, e, x).journal = (DOMAIN r.journal) \cup {Len(r.journal) + 1}
           /\ Len(r.journal) + 1 \notin DOMAIN r.journal
           /\ \A k \in DOMAIN r.journal : Extended(r, e, x).journal[k] = r.journal[k]
           /\ Extended(r, e, x).journal[Len(r.journal) + 1] = e
<1>1. /\ r.journal \in Seq(Entries) /\ Len(r.journal) \in Nat
      /\ DOMAIN r.journal = 1 .. Len(r.journal) /\ Extended(r, e, x).journal = Append(r.journal, e)
  BY Zenon, RecordTypes, ExtendedTypes
<1>2. /\ Append(r.journal, e) \in Seq(Entries)
      /\ Len(Append(r.journal, e)) = Len(r.journal) + 1
      /\ \A k \in 1 .. Len(r.journal) : Append(r.journal, e)[k] = r.journal[k]
      /\ Append(r.journal, e)[Len(r.journal) + 1] = e
  BY <1>1, AppendProperties
<1>3. DOMAIN Append(r.journal, e) = 1 .. (Len(r.journal) + 1)
  BY Zenon, <1>2, LenProperties
<1>4. /\ 1 .. (Len(r.journal) + 1) = (1 .. Len(r.journal)) \cup {Len(r.journal) + 1}
      /\ Len(r.journal) + 1 \notin 1 .. Len(r.journal)
  BY <1>1
<1> QED  BY Zenon, <1>1, <1>2, <1>3, <1>4

LEMMA ExtendedPlaces ==
    ASSUME NEW r \in Records, NEW e \in Entries, NEW x \in {"whole", "open", "torn"}, NEW s
    PROVE  /\ EntriesOf(Extended(r, e, x)) =
                 EntriesOf(r) \cup (IF e.hidden THEN {} ELSE {Len(r.journal) + 1})
           /\ AttemptsFor(Extended(r, e, x), s) =
                 IF ~e.hidden /\ e.segment = s THEN AttemptsFor(r, s) + 1 ELSE AttemptsFor(r, s)
<1>1. EntriesOf(Extended(r, e, x)) =
          EntriesOf(r) \cup (IF e.hidden THEN {} ELSE {Len(r.journal) + 1})
  BY ExtendedEntries DEF EntriesOf
<1>2. CASE ~e.hidden /\ e.segment = s
  <2>1. EntriesFor(Extended(r, e, x), s) = EntriesFor(r, s) \cup {Len(r.journal) + 1}
    BY <1>2, ExtendedEntries DEF EntriesFor, EntriesOf
  <2>2. Len(r.journal) + 1 \notin EntriesFor(r, s)
    BY Zenon, ExtendedEntries DEF EntriesFor, EntriesOf
  <2>3. AttemptsFor(Extended(r, e, x), s) = AttemptsFor(r, s) + 1
    BY Zenon, <2>1, <2>2, PlacesFinite, FS_AddElement DEF AttemptsFor
  <2> QED  BY Zenon, <1>1, <1>2, <2>3
<1>3. CASE ~(~e.hidden /\ e.segment = s)
  <2>1. EntriesFor(Extended(r, e, x), s) = EntriesFor(r, s)
    BY <1>3, ExtendedEntries DEF EntriesFor, EntriesOf
  <2> QED  BY Zenon, <1>1, <1>3, <2>1 DEF AttemptsFor
<1> QED  BY Zenon, <1>2, <1>3

LEMMA EntryTypes ==
    ASSUME NEW e \in Entries
    PROVE  /\ e.segment \in Segments /\ e.status \in Statuses /\ e.identity \in Identities
           /\ e.evidence \in Files /\ e.evidence[2] \in Nat
<1>1. /\ e.segment \in Segments /\ e.status \in Statuses /\ e.identity \in Identities
      /\ e.evidence \in Files
  BY DEF Entries
<1>2. \A f \in Files : f[2] \in Nat
  BY DEF Files, Attempts
<1> QED  BY Zenon, <1>1, <1>2

LEMMA BackedIsPassed ==
    \A r : Backed(r) <=> \E i \in Identities : \A s \in Segments : Passed(r, s, i)
BY Zenon DEF Backed, Journaled, Passed

\* Nothing is lost of a journal that grows, and a new pass is in it.
LEMMA PassedKept ==
    ASSUME NEW r \in Records, NEW e \in Entries, NEW x \in {"whole", "open", "torn"}
    PROVE  /\ \A s, i : Passed(r, s, i) => Passed(Extended(r, e, x), s, i)
           /\ Backed(r) => Backed(Extended(r, e, x))
           /\ e.status = "pass" => Passed(Extended(r, e, x), e.segment, e.identity)
<1>1. \A s, i : Passed(r, s, i) => Passed(Extended(r, e, x), s, i)
  BY ExtendedEntries DEF Passed
<1>2. e.status = "pass" => Passed(Extended(r, e, x), e.segment, e.identity)
  BY ExtendedEntries DEF Passed
<1> QED  BY Zenon, <1>1, <1>2, BackedIsPassed

\* The entry fits the record, whose results are all under its identity.
Fits(r, e) ==
    /\ e.hidden <=> r.ending = "open"
    /\ r.manifest = e.identity
    /\ \A k \in DOMAIN r.journal : r.journal[k].identity = e.identity
    /\ e.evidence[1] = e.segment
    /\ e.evidence[2] <= AttemptsFor(r, e.segment) + 1
    /\ Kept(r, e)
    /\ e.status = "cached" => Passed(r, e.segment, e.identity)
    /\ e.status # "cached" => e.evidence[2] = AttemptsFor(r, e.segment) + 1

LEMMA SoundExtended ==
    ASSUME NEW r \in Records, NEW e \in Entries, NEW x \in {"whole", "open"},
           Sound(r), Fits(r, e)
    PROVE  Sound(Extended(r, e, x))
<1> DEFINE w == Extended(r, e, x)
           n == Len(r.journal) + 1
<1> x \in {"whole", "open", "torn"}
  OBVIOUS
<1>1. /\ w \in Records /\ w.journal = Append(r.journal, e) /\ w.ending = x
      /\ w.manifest = r.manifest /\ w.evidence = r.evidence /\ w.summary = r.summary
  BY Zenon, ExtendedTypes
<1>2. /\ DOMAIN w.journal = (DOMAIN r.journal) \cup {n} /\ n \notin DOMAIN r.journal
      /\ \A k \in DOMAIN r.journal : w.journal[k] = r.journal[k]
      /\ w.journal[n] = e
  BY ExtendedEntries
<1>3. /\ EntriesOf(w) = EntriesOf(r) \cup (IF e.hidden THEN {} ELSE {n})
      /\ \A s : AttemptsFor(w, s) =
                  IF ~e.hidden /\ e.segment = s THEN AttemptsFor(r, s) + 1 ELSE AttemptsFor(r, s)
  BY ZenonT(40), ExtendedPlaces
<1>4. /\ \A s, i : Passed(r, s, i) => Passed(w, s, i)
      /\ Backed(r) => Backed(w)
      /\ e.status = "pass" => Passed(w, e.segment, e.identity)
  BY Zenon, PassedKept
<1>5. /\ Len(r.journal) \in Nat /\ DOMAIN r.journal = 1 .. Len(r.journal)
      /\ r.journal \in Seq(Entries)
      /\ \A s : AttemptsFor(r, s) \in Nat
  BY Zenon, RecordTypes, PlacesFinite
<1> HIDE DEF w, n
<1>6. w.journal # <<>> /\ ~w.journal[1].hidden
  <2>1. w.journal # <<>>
    BY <1>2
  <2>2. CASE r.journal = <<>>
    <3>1. n = 1
      BY <2>2 DEF n
    <3>2. ~e.hidden
      BY Zenon, <2>2 DEF Fits, Sound
    <3> QED  BY Zenon, <1>2, <2>1, <3>1, <3>2
  <2>3. CASE r.journal # <<>>
    <3>1. 1 \in DOMAIN r.journal
      BY <1>5, <2>3, EmptySeq
    <3> QED  BY Zenon, <1>2, <2>1, <2>3, <3>1 DEF Sound
  <2> QED  BY Zenon, <2>2, <2>3
<1>7. /\ \A k, m \in DOMAIN w.journal : w.journal[k].identity = w.journal[m].identity
      /\ \A k \in DOMAIN w.journal : w.manifest \in {w.journal[k].identity, NoIdentity}
  <2>1. \A k \in DOMAIN w.journal : w.journal[k].identity = e.identity
    BY Zenon, <1>2 DEF Fits
  <2> QED  BY Zenon, <1>1, <2>1 DEF Fits
<1>8. ASSUME NEW k \in EntriesOf(w)
      PROVE  /\ w.journal[k].evidence[1] = w.journal[k].segment
             /\ w.journal[k].evidence[2] <= AttemptsFor(w, w.journal[k].segment)
             /\ Kept(w, w.journal[k])
  <2>1. CASE k \in EntriesOf(r)
    <3> DEFINE d == r.journal[k]
    <3>1. w.journal[k] = d /\ k \in DOMAIN r.journal
      BY Zenon, <1>2, <2>1 DEF EntriesOf
    <3>2. d.evidence[1] = d.segment /\ d.evidence[2] <= AttemptsFor(r, d.segment) /\ Kept(r, d)
      BY Zenon, <2>1 DEF Sound
    <3>3. d.evidence[2] \in Nat
      <4>1. d \in Entries
        BY Zenon, <3>1, RecordTypes
      <4> QED  BY Zenon, <4>1, EntryTypes
    <3> HIDE DEF d
    <3>4. AttemptsFor(r, d.segment) <= AttemptsFor(w, d.segment) /\ AttemptsFor(w, d.segment) \in Nat
      BY <1>3, <1>5
    <3>5. d.evidence[2] <= AttemptsFor(w, d.segment)
      BY <1>5, <3>2, <3>3, <3>4
    <3> QED  BY Zenon, <1>1, <3>1, <3>2, <3>5 DEF Kept
  <2>2. CASE ~e.hidden /\ k = n
    <3>1. AttemptsFor(w, e.segment) = AttemptsFor(r, e.segment) + 1
      BY Zenon, <1>3, <2>2
    <3> QED  BY Zenon, <1>1, <1>2, <2>2, <3>1 DEF Kept, Fits
  <2> QED  BY Zenon, <1>3, <2>1, <2>2
<1>9. ASSUME NEW k \in DOMAIN w.journal, Holds(w.journal[k].status)
      PROVE  Passed(w, w.journal[k].segment, w.journal[k].identity)
  <2>1. CASE k \in DOMAIN r.journal
    BY Zenon, <1>2, <1>4, <1>9, <2>1 DEF Sound
  <2>2. CASE k = n
    BY Zenon, <1>2, <1>4, <1>9, <2>2 DEF Fits, Holds
  <2> QED  BY Zenon, <1>2, <2>1, <2>2
<1>10. w.summary = "sealed" => Backed(w)
  BY Zenon, <1>1, <1>4 DEF Sound
<1>11. OwnFiles(w)
  <2> SUFFICES ASSUME NEW m \in DOMAIN w.journal, NEW k \in DOMAIN w.journal, m < k,
                      w.journal[k].status # "cached",
                      w.journal[m].evidence = w.journal[k].evidence
               PROVE  w.journal[m].hidden
    BY Zenon DEF OwnFiles
  <2>1. CASE k \in DOMAIN r.journal
    <3>1. m \in DOMAIN r.journal
      BY <1>2, <1>5, <2>1 DEF n
    <3> QED  BY Zenon, <1>2, <2>1, <3>1 DEF Sound, OwnFiles
  <2>2. CASE k = n
    <3>1. m \in DOMAIN r.journal /\ w.journal[m] = r.journal[m] /\ w.journal[k] = e
      BY <1>2, <1>5, <2>2 DEF n
    <3> DEFINE d == r.journal[m]
    <3>2. d.evidence = e.evidence /\ e.status # "cached" /\ d \in Entries
      BY Zenon, <3>1, RecordTypes
    <3>3. /\ e.evidence[1] = e.segment /\ e.evidence[2] = AttemptsFor(r, e.segment) + 1
      BY Zenon, <3>2 DEF Fits
    <3>4. ~d.hidden => /\ d.evidence[1] = d.segment
                       /\ d.evidence[2] <= AttemptsFor(r, d.segment)
      BY Zenon, <3>1 DEF Sound, EntriesOf
    <3> HIDE DEF d
    <3>5. ASSUME ~d.hidden PROVE FALSE
      <4>1. AttemptsFor(r, e.segment) + 1 <= AttemptsFor(r, e.segment)
        BY Zenon, <3>2, <3>3, <3>4, <3>5
      <4>2. AttemptsFor(r, e.segment) \in Nat
        BY Zenon, <1>5
      <4> QED  BY <4>1, <4>2
    <3>6. d.hidden \in BOOLEAN
      BY <3>2 DEF Entries
    <3> QED  BY Zenon, <3>1, <3>5, <3>6 DEF d
  <2> QED  BY Zenon, <1>2, <2>1, <2>2
<1> QED  BY Zenon, <1>6, <1>7, <1>8, <1>9, <1>10, <1>11 DEF Sound, w

\* What depends on the journal alone.
LEMMA SameJournal ==
    ASSUME NEW r, NEW o, o.journal = r.journal
    PROVE  /\ EntriesOf(o) = EntriesOf(r) /\ (Backed(o) <=> Backed(r))
           /\ OwnFiles(o) <=> OwnFiles(r)
           /\ \A s : EntriesFor(o, s) = EntriesFor(r, s)
           /\ \A s : AttemptsFor(o, s) = AttemptsFor(r, s)
           /\ \A s : LastEntryFor(o, s) = LastEntryFor(r, s)
           /\ \A s, i : Passed(o, s, i) <=> Passed(r, s, i)
<1>1. EntriesOf(o) = EntriesOf(r)
  BY Zenon DEF EntriesOf
<1>2. \A s : EntriesFor(o, s) = EntriesFor(r, s)
  BY Zenon, <1>1 DEF EntriesFor
<1>3. \A s : AttemptsFor(o, s) = AttemptsFor(r, s)
  BY Zenon, <1>2 DEF AttemptsFor
<1>4. \A s : LastEntryFor(o, s) = LastEntryFor(r, s)
  BY Zenon, <1>2 DEF LastEntryFor
<1>5. \A s, i : Passed(o, s, i) <=> Passed(r, s, i)
  BY Zenon DEF Passed
<1>6. Backed(o) <=> Backed(r)
  BY Zenon, <1>5, BackedIsPassed
<1>7. OwnFiles(o) <=> OwnFiles(r)
  BY Zenon DEF OwnFiles
<1> QED  BY Zenon, <1>1, <1>2, <1>3, <1>4, <1>5, <1>6, <1>7

\* The output of an attempt goes to a file that no entry names.
LEMMA SoundOutput ==
    ASSUME NEW r \in Records, NEW f \in Files, NEW c \in Statuses \cup {"none", "partial"},
           f[2] = AttemptsFor(r, f[1]) + 1
    PROVE  LET o == [r EXCEPT !.evidence[f] = c] IN
           /\ o \in Records /\ o.journal = r.journal /\ o.manifest = r.manifest
           /\ o.segmentsDir = r.segmentsDir /\ o.evidence[f] = c
           /\ Sound(r) => Sound(o)
<1> DEFINE o == [r EXCEPT !.evidence[f] = c]
<1>1. /\ o \in Records /\ o.journal = r.journal /\ o.manifest = r.manifest
      /\ o.ending = r.ending /\ o.summary = r.summary /\ o.segmentsDir = r.segmentsDir
      /\ o.evidence = [r.evidence EXCEPT ![f] = c]
      /\ r.evidence \in [Files -> Statuses \cup {"none", "partial"}]
  BY DEF Records
<1>2. o.evidence[f] = c /\ \A g \in Files : g # f => o.evidence[g] = r.evidence[g]
  BY Zenon, <1>1
<1> HIDE DEF o
<1>3. ASSUME Sound(r) PROVE Sound(o)
  <2>1. /\ EntriesOf(o) = EntriesOf(r) /\ (Backed(o) <=> Backed(r))
        /\ OwnFiles(o) <=> OwnFiles(r)
        /\ \A s : AttemptsFor(o, s) = AttemptsFor(r, s)
        /\ \A s, i : Passed(o, s, i) <=> Passed(r, s, i)
    BY Zenon, <1>1, SameJournal
  <2>2. ASSUME NEW k \in EntriesOf(r) PROVE Kept(o, r.journal[k])
    <3> DEFINE e == r.journal[k]
    <3>1. e \in Entries
      BY Zenon, RecordTypes DEF EntriesOf
    <3>2. e.evidence[1] = e.segment /\ e.evidence[2] <= AttemptsFor(r, e.segment) /\ Kept(r, e)
      BY Zenon, <1>3 DEF Sound
    <3> HIDE DEF e
    <3>3. AttemptsFor(r, e.segment) \in Nat /\ e.evidence[2] \in Nat /\ e.evidence \in Files
      BY Zenon, <3>1, EntryTypes, PlacesFinite
    <3>4. ASSUME e.evidence = f PROVE FALSE
      <4>1. f[2] <= AttemptsFor(r, f[1]) /\ AttemptsFor(r, f[1]) \in Nat
        BY Zenon, <3>2, <3>3, <3>4
      <4> QED  BY <4>1
    <3> QED  BY Zenon, <1>2, <3>2, <3>3, <3>4 DEF Kept, e
  <2> QED  BY ZenonT(40), <1>1, <1>3, <2>1, <2>2 DEF Sound
<1> QED  BY Zenon, <1>1, <1>2, <1>3 DEF o

LEMMA SoundManifest ==
    ASSUME NEW r \in Records, NEW i \in Identities \cup {NoIdentity}
    PROVE  LET o == [r EXCEPT !.manifest = i] IN
           /\ o \in Records /\ o.journal = r.journal /\ o.manifest = i
           /\ (\A k \in DOMAIN r.journal : i \in {r.journal[k].identity, NoIdentity}) =>
                 (Sound(r) => Sound(o))
<1> DEFINE o == [r EXCEPT !.manifest = i]
<1>1. /\ o \in Records /\ o.journal = r.journal /\ o.manifest = i
      /\ o.ending = r.ending /\ o.summary = r.summary /\ o.evidence = r.evidence
  BY DEF Records
<1> HIDE DEF o
<1>2. /\ EntriesOf(o) = EntriesOf(r) /\ (Backed(o) <=> Backed(r))
      /\ OwnFiles(o) <=> OwnFiles(r)
      /\ \A s : AttemptsFor(o, s) = AttemptsFor(r, s)
      /\ \A s, j : Passed(o, s, j) <=> Passed(r, s, j)
  BY Zenon, <1>1, SameJournal
<1>3. ASSUME \A k \in DOMAIN r.journal : i \in {r.journal[k].identity, NoIdentity}, Sound(r)
      PROVE  Sound(o)
  <2>1. \A k \in DOMAIN o.journal : o.manifest \in {o.journal[k].identity, NoIdentity}
    BY Zenon, <1>1, <1>3
  <2>2. /\ o.ending = "open" => o.journal # <<>>
        /\ o.journal # <<>> => ~o.journal[1].hidden
        /\ \A k, n \in DOMAIN o.journal : o.journal[k].identity = o.journal[n].identity
    BY Zenon, <1>1, <1>3 DEF Sound
  <2>3. \A k \in EntriesOf(o) :
           LET e == o.journal[k] IN
           /\ e.evidence[1] = e.segment
           /\ e.evidence[2] <= AttemptsFor(o, e.segment)
           /\ Kept(o, e)
    BY Zenon, <1>1, <1>2, <1>3 DEF Sound, Kept
  <2>4. /\ \A k \in DOMAIN o.journal :
              LET e == o.journal[k] IN Holds(e.status) => Passed(o, e.segment, e.identity)
        /\ o.summary = "sealed" => Backed(o)
        /\ OwnFiles(o)
    BY Zenon, <1>1, <1>2, <1>3 DEF Sound
  <2> QED  BY Zenon, <2>1, <2>2, <2>3, <2>4 DEF Sound
<1> QED  BY Zenon, <1>1, <1>3 DEF o

LEMMA SoundSummary ==
    ASSUME NEW r \in Records, NEW x \in {"none", "empty", "partial", "sealed", "failed"},
           Sound(r), x = "sealed" => Backed(r)
    PROVE  LET o == [r EXCEPT !.summary = x] IN
           o \in Records /\ o.journal = r.journal /\ Sound(o)
<1> DEFINE o == [r EXCEPT !.summary = x]
<1>1. /\ o \in Records /\ o.journal = r.journal /\ o.manifest = r.manifest
      /\ o.ending = r.ending /\ o.summary = x /\ o.evidence = r.evidence
  BY DEF Records
<1> HIDE DEF o
<1>2. /\ EntriesOf(o) = EntriesOf(r) /\ (Backed(o) <=> Backed(r))
      /\ OwnFiles(o) <=> OwnFiles(r)
      /\ \A s : AttemptsFor(o, s) = AttemptsFor(r, s)
      /\ \A s, j : Passed(o, s, j) <=> Passed(r, s, j)
  BY Zenon, <1>1, SameJournal
<1>3. Sound(o)
  BY ZenonT(40), <1>1, <1>2 DEF Sound, Kept
<1> QED  BY Zenon, <1>1, <1>3 DEF o

LEMMA SoundTorn ==
    ASSUME NEW r \in Records, Sound(r)
    PROVE  LET o == [r EXCEPT !.ending = "torn"] IN
           o \in Records /\ o.journal = r.journal /\ Sound(o)
<1> DEFINE o == [r EXCEPT !.ending = "torn"]
<1>1. /\ o \in Records /\ o.journal = r.journal /\ o.manifest = r.manifest
      /\ o.ending # "open" /\ o.summary = r.summary /\ o.evidence = r.evidence
  BY DEF Records
<1> HIDE DEF o
<1>2. /\ EntriesOf(o) = EntriesOf(r) /\ (Backed(o) <=> Backed(r))
      /\ OwnFiles(o) <=> OwnFiles(r)
      /\ \A s : AttemptsFor(o, s) = AttemptsFor(r, s)
      /\ \A s, j : Passed(o, s, j) <=> Passed(r, s, j)
  BY Zenon, <1>1, SameJournal
<1>3. Sound(o)
  BY ZenonT(40), <1>1, <1>2 DEF Sound, Kept
<1> QED  BY Zenon, <1>1, <1>3 DEF o

LEMMA SoundNew ==
    ASSUME NEW b \in BOOLEAN
    PROVE  /\ NewRecord(b) \in Records /\ Sound(NewRecord(b)) /\ NewRecord(b).journal = <<>>
           /\ \A s : AttemptsFor(NewRecord(b), s) = 0
<1> DEFINE o == NewRecord(b)
<1>1. /\ o.journal = <<>> /\ o.ending = "whole" /\ o.summary = "none"
      /\ o.manifest = NoIdentity /\ o.segmentsDir = b /\ o.evidence = [f \in Files |-> "none"]
  BY DEF NewRecord
<1>2. o \in Records
  BY DEF NewRecord, Records
<1> HIDE DEF o
<1>3. DOMAIN o.journal = {}
  BY <1>1
<1>4. EntriesOf(o) = {} /\ \A s : EntriesFor(o, s) = {}
  BY <1>3 DEF EntriesOf, EntriesFor
<1>5. \A s : AttemptsFor(o, s) = 0
  BY Zenon, <1>4, FS_EmptySet DEF AttemptsFor
<1>6. o.ending # "open" /\ o.summary # "sealed"
  BY <1>1
<1>7. Sound(o)
  BY Zenon, <1>1, <1>3, <1>4, <1>6 DEF Sound, OwnFiles
<1> QED  BY Zenon, <1>1, <1>2, <1>5, <1>7 DEF o

-----------------------------------------------------------------------------
(* The run and its record *)

LEMMA RunTypes ==
    ASSUME CampaignInv
    PROVE  /\ run \in RunStates /\ run.results \in Seq(Results) /\ Len(run.results) \in Nat
           /\ DOMAIN run.results = 1 .. Len(run.results)
           /\ run.status \in Statuses /\ runs \in Nat
           /\ run.at # "idle" => run.identity \in Identities
<1>1. run \in RunStates /\ runs \in 0 .. MaxRuns /\ (run.at # "idle" => run.identity \in Identities)
  BY Zenon DEF CampaignInv, Typed, Placed
<1>2. run.results \in Seq(Results) /\ run.status \in Statuses
  BY <1>1 DEF RunStates
<1>3. runs \in Nat
  BY <1>1, CampaignAssumption
<1> QED  BY Zenon, <1>1, <1>2, <1>3, LenProperties

LEMMA CurrentFacts ==
    ASSUME CampaignInv, records # <<>>
    PROVE  /\ Len(records) \in DOMAIN records /\ Current = records[Len(records)]
           /\ Current \in Records /\ Sound(Current)
           /\ \A s \in Segments : AttemptsFor(Current, s) <= runs
<1>1. records \in Seq(Records)
  BY Zenon DEF CampaignInv, Typed
<1>2. Len(records) \in Nat /\ DOMAIN records = 1 .. Len(records) /\ Len(records) # 0
  BY Zenon, <1>1, LenProperties, EmptySeq
<1>3. Len(records) \in DOMAIN records
  BY <1>2
<1>4. Current = records[Len(records)]
  BY Zenon DEF Current
<1>5. Current \in Records
  BY Zenon, <1>1, <1>2, <1>3, <1>4, ElementOfSeq
<1> QED  BY Zenon, <1>3, <1>4, <1>5 DEF CampaignInv, Counted

\* The current record is replaced, or one is added.
LEMMA CurrentSet ==
    ASSUME CampaignInv, records # <<>>, NEW o \in Records,
           records' = [records EXCEPT ![Len(records)] = o]
    PROVE  /\ records' \in Seq(Records) /\ Len(records') = Len(records) /\ records' # <<>>
           /\ Current' = o /\ DOMAIN records' = DOMAIN records
           /\ \A k \in DOMAIN records : records'[k] = o \/ records'[k] = records[k]
<1>1. /\ records \in Seq(Records) /\ Len(records) \in Nat /\ DOMAIN records = 1 .. Len(records)
      /\ Len(records) \in DOMAIN records
  BY Zenon, CurrentFacts, LenProperties DEF CampaignInv, Typed
<1>2. records' \in Seq(Records) /\ Len(records') = Len(records)
  BY Zenon, <1>1, ExceptSeq
<1>3. DOMAIN records' = DOMAIN records
  BY Zenon
<1>4. /\ \A k \in DOMAIN records : records'[k] = IF k = Len(records) THEN o ELSE records[k]
  BY Zenon
<1>5. Current' = records'[Len(records')]
  BY Zenon DEF Current
<1>6. records' # <<>>
  BY <1>1, <1>3
<1> QED  BY Zenon, <1>1, <1>2, <1>3, <1>4, <1>5, <1>6

LEMMA RecordAdded ==
    ASSUME CampaignInv, NEW o \in Records, records' = Append(records, o)
    PROVE  /\ records' \in Seq(Records) /\ Len(records') = Len(records) + 1 /\ records' # <<>>
           /\ Current' = o
           /\ \A k \in DOMAIN records' : records'[k] = o \/ (k \in DOMAIN records /\ records'[k] = records[k])
<1>1. /\ records \in Seq(Records) /\ Len(records) \in Nat /\ DOMAIN records = 1 .. Len(records)
  BY Zenon, LenProperties DEF CampaignInv, Typed
<1>2. /\ records' \in Seq(Records) /\ Len(records') = Len(records) + 1
      /\ \A k \in 1 .. Len(records) : records'[k] = records[k]
      /\ records'[Len(records) + 1] = o
  BY <1>1, AppendProperties
<1>3. DOMAIN records' = 1 .. Len(records')
  BY Zenon, <1>2, LenProperties
<1>4. Len(records') # 0 /\ \A k \in 1 .. Len(records') : k = Len(records) + 1 \/ k \in 1 .. Len(records)
  BY <1>1, <1>2
<1>5. records' # <<>>
  BY Zenon, <1>2, <1>4, EmptySeq
<1>6. Current' = records'[Len(records')]
  BY Zenon DEF Current
<1> QED  BY Zenon, <1>1, <1>2, <1>3, <1>4, <1>5, <1>6

LEMMA ExecutingFacts ==
    ASSUME CampaignInv, run.at \in Executing
    PROVE  /\ records # <<>> /\ run.identity \in Identities
           /\ Len(run.results) + 1 \in 1 .. Len(Required)
           /\ Segment \in Segments /\ Attempt \in Attempts /\ Evidence \in Files
           /\ Evidence[1] = Segment /\ Evidence[2] = AttemptsFor(Current, Segment) + 1
           /\ AttemptsFor(Current, Segment) \in Nat
<1>1. /\ run.at \in Recording /\ run.at # "idle"
  BY DEF Executing, Recording
<1>2. /\ records # <<>> /\ run.identity \in Identities /\ Len(run.results) < Len(Required)
      /\ runs \in 0 .. MaxRuns
      /\ \A j \in (Len(run.results) + 1) .. Len(Required) : AttemptsFor(Current, Required[j]) < runs
  BY Zenon, <1>1 DEF CampaignInv, Placed, Counted, Typed
<1>3. Len(run.results) \in Nat /\ Len(Required) \in Nat
  BY Zenon, RunTypes, SegmentNames
<1>4. /\ Len(run.results) + 1 \in 1 .. Len(Required)
      /\ Len(run.results) + 1 \in (Len(run.results) + 1) .. Len(Required)
  BY <1>2, <1>3
<1>5. Segment \in Segments /\ AttemptsFor(Current, Segment) < runs
  BY Zenon, <1>2, <1>4, SegmentNames DEF Segment
<1>6. AttemptsFor(Current, Segment) \in Nat
  BY Zenon, <1>2, CurrentFacts, PlacesFinite
<1>7. Attempt \in Attempts
  <2>1. MaxRuns \in Nat
    BY CampaignAssumption
  <2> QED  BY <1>2, <1>5, <1>6, <2>1 DEF Attempt, Attempts
<1>8. Evidence \in Files /\ Evidence[1] = Segment /\ Evidence[2] = Attempt
  BY <1>5, <1>7 DEF Evidence, Files
<1> QED  BY Zenon, <1>2, <1>4, <1>5, <1>6, <1>7, <1>8 DEF Attempt

\* What the run is about to append fits the record.
LEMMA EntryFacts ==
    ASSUME CampaignInv, run.at = "append"
    PROVE  /\ Entry \in Entries /\ Fits(Current, Entry)
           /\ Entry.segment = Segment /\ Entry.identity = run.identity
           /\ Entry.status = run.status
<1>1. run.at \in Executing /\ run.at \in Recording
  BY DEF Executing, Recording
<1>2. /\ records # <<>> /\ run.identity \in Identities /\ Segment \in Segments
      /\ Attempt \in Attempts /\ Evidence \in Files /\ Evidence[1] = Segment
      /\ Evidence[2] = AttemptsFor(Current, Segment) + 1 /\ AttemptsFor(Current, Segment) \in Nat
  BY Zenon, <1>1, ExecutingFacts
<1>3. /\ Current \in Records /\ Sound(Current) /\ run.status \in Statuses
      /\ run.clean \in BOOLEAN
  <2>1. run \in RunStates /\ run.status \in Statuses
    BY Zenon, RunTypes
  <2>2. run.clean \in BOOLEAN
    BY <2>1 DEF RunStates
  <2> QED  BY Zenon, <1>2, <2>1, <2>2, CurrentFacts
<1>4. /\ \A k \in DOMAIN Current.journal : Current.journal[k].identity = run.identity
      /\ Current.manifest = run.identity
      /\ run.status = "cached" => Reusable(Current, Segment)
      /\ run.status # "cached" => Current.evidence[Evidence] = run.status
  BY Zenon, <1>1 DEF CampaignInv, Underway
<1> DEFINE last == LastEntryFor(Current, Segment)
           e == Entry
<1>5. /\ e.segment = Segment /\ e.attempt = Attempt /\ e.status = run.status
      /\ e.identity = run.identity /\ e.hidden = (Current.ending = "open")
      /\ e.evidence = IF run.status = "cached" THEN last.evidence ELSE Evidence
      /\ e.clean = IF run.status = "cached" THEN last.clean ELSE run.clean
      /\ e = [segment |-> e.segment, attempt |-> e.attempt, status |-> e.status,
              identity |-> e.identity, evidence |-> e.evidence, hidden |-> e.hidden,
              clean |-> e.clean]
  BY DEF Entry
<1>6. ASSUME run.status = "cached"
      PROVE  /\ last.evidence \in Files /\ last.clean \in BOOLEAN /\ last.evidence[1] = Segment
             /\ last.evidence[2] <= AttemptsFor(Current, Segment) + 1
             /\ Current.evidence[last.evidence] = "pass"
             /\ Passed(Current, Segment, run.identity)
  <2>1. /\ Max(EntriesFor(Current, Segment)) \in EntriesFor(Current, Segment)
        /\ Holds(last.status) /\ last.identity = run.identity
    BY Zenon, <1>3, <1>4, <1>6, LastInside DEF Reusable
  <2> DEFINE k == Max(EntriesFor(Current, Segment))
  <2>2. k \in EntriesOf(Current) /\ k \in DOMAIN Current.journal /\ last = Current.journal[k]
        /\ last.segment = Segment
    BY Zenon, <2>1 DEF EntriesFor, EntriesOf, LastEntryFor
  <2> HIDE DEF k, last
  <2>3. last \in Entries
    BY Zenon, <1>3, <2>2, RecordTypes
  <2>4. /\ last.evidence[1] = last.segment /\ last.evidence[2] <= AttemptsFor(Current, last.segment)
        /\ Kept(Current, last) /\ Passed(Current, last.segment, last.identity)
    BY Zenon, <1>3, <2>1, <2>2 DEF Sound
  <2>5. last.evidence \in Files /\ last.evidence[2] \in Nat
    BY Zenon, <2>3, EntryTypes
  <2>6. last.clean \in BOOLEAN
    BY <2>3 DEF Entries
  <2>7. last.evidence[2] <= AttemptsFor(Current, Segment) + 1
    <3>1. last.evidence[2] <= AttemptsFor(Current, Segment)
      BY Zenon, <2>2, <2>4
    <3> QED  BY <1>2, <2>5, <3>1
  <2>8. Current.evidence[last.evidence] = "pass"
    BY Zenon, <2>1, <2>4 DEF Kept, Holds
  <2> QED  BY Zenon, <2>1, <2>2, <2>4, <2>5, <2>6, <2>7, <2>8
<1> HIDE DEF last, e
<1>7. e.evidence \in Files /\ e.clean \in BOOLEAN
  BY Zenon, <1>2, <1>3, <1>5, <1>6
<1>8. e \in Entries
  <2>1. /\ e.segment \in Segments /\ e.attempt \in Attempts /\ e.status \in Statuses
        /\ e.identity \in Identities /\ e.hidden \in BOOLEAN
    BY Zenon, <1>2, <1>3, <1>5
  <2> QED  BY Zenon, <1>5, <1>7, <2>1 DEF Entries
<1>9. /\ e.evidence[1] = e.segment
      /\ e.evidence[2] <= AttemptsFor(Current, e.segment) + 1
      /\ Kept(Current, e)
      /\ e.status = "cached" => Passed(Current, e.segment, e.identity)
      /\ e.status # "cached" => e.evidence[2] = AttemptsFor(Current, e.segment) + 1
  <2>1. CASE run.status = "cached"
    BY Zenon, <1>5, <1>6, <2>1 DEF Kept
  <2>2. CASE run.status # "cached"
    <3>1. Evidence[2] <= AttemptsFor(Current, Segment) + 1
      BY <1>2
    <3> QED  BY Zenon, <1>2, <1>4, <1>5, <2>2, <3>1 DEF Kept
  <2> QED  BY Zenon, <2>1, <2>2
<1>10. Fits(Current, e)
  BY Zenon, <1>4, <1>5, <1>9 DEF Fits
<1> QED  BY Zenon, <1>5, <1>8, <1>10 DEF e

-----------------------------------------------------------------------------
(* One lemma for each action *)

LEMMA IdleFacts ==
    Idle \in RunStates /\ Idle.at = "idle" /\ Idle.results = <<>>
<1>1. <<>> \in Seq(Results) /\ 0 \in 0 .. Budget + 1
  BY CampaignAssumption
<1> QED  BY <1>1 DEF Idle, RunStates, Statuses

\* A run that ends leaves sound records.
LEMMA EndsInv ==
    ASSUME CampaignInv, run' = Idle, UNCHANGED <<head, dirty, runs, changes>>,
           interruptions' \in 0 .. MaxInterruptions, exit' \in {"success", "failure"},
           records' \in Seq(Records), Len(records') <= MAX_SEQUENCE,
           \A k \in DOMAIN records' :
               /\ Sound(records'[k])
               /\ \A s \in Segments : AttemptsFor(records'[k], s) <= runs,
           exit' = "success" => Backed(Current')
    PROVE  CampaignInv'
<1>1. run' \in RunStates /\ run'.at = "idle" /\ run'.results = <<>>
  BY Zenon, IdleFacts
<1>2. run'.at \notin Recording /\ run'.at \notin Executing /\ DOMAIN run'.results = {}
      /\ run'.at \notin {"select", "tree", "manifest", "summary", "append"}
  BY <1>1 DEF Recording, Executing
<1>3. Typed'
  <2>1. exit' \in {"none", "success", "failure"}
    OBVIOUS
  <2> QED  BY Zenon, <1>1, <2>1 DEF CampaignInv, Typed
<1>4. Placed'
  BY Zenon, <1>1, <1>2 DEF Placed
<1>5. Counted'
  BY Zenon, <1>2 DEF Counted
<1>6. Underway'
  BY Zenon, <1>1, <1>2 DEF Underway
<1> QED  BY Zenon, <1>3, <1>4, <1>5, <1>6 DEF CampaignInv

LEMMA SameRecords ==
    ASSUME CampaignInv, records' = records
    PROVE  /\ records' \in Seq(Records) /\ Len(records') <= MAX_SEQUENCE /\ Current' = Current
           /\ \A k \in DOMAIN records' :
                 /\ Sound(records'[k])
                 /\ \A s \in Segments : AttemptsFor(records'[k], s) <= runs
BY Zenon DEF CampaignInv, Typed, Counted, Current

LEMMA InitInv == Init => CampaignInv
<1> SUFFICES ASSUME Init PROVE CampaignInv
  OBVIOUS
<1>1. run \in RunStates /\ run.at = "idle" /\ run.results = <<>> /\ run = Idle
  BY Zenon, IdleFacts DEF Init
<1>2. run.at \notin Recording /\ run.at \notin Executing /\ DOMAIN run.results = {}
      /\ run.at \notin {"select", "tree", "manifest", "summary", "append"}
  BY <1>1 DEF Recording, Executing
<1>3. records \in Seq(Records) /\ DOMAIN records = {} /\ Len(records) <= MAX_SEQUENCE
  BY CampaignAssumption DEF Init
<1>4. /\ head \in Identities /\ dirty \in BOOLEAN /\ runs \in 0 .. MaxRuns
      /\ interruptions \in 0 .. MaxInterruptions /\ changes \in 0 .. MaxChanges
  <2>1. 1 \in Identities
    <3>1. <<1, FALSE>>[1] = 1 /\ <<1, FALSE>> \in Repositories
      BY CampaignAssumption
    <3> QED  BY Zenon, <3>1 DEF Identities
  <2>2. MaxRuns \in Nat /\ MaxInterruptions \in Nat /\ MaxChanges \in Nat
    BY CampaignAssumption
  <2>3. head = 1 /\ dirty \in BOOLEAN /\ runs = 0 /\ interruptions = 0 /\ changes = 0
    BY Zenon DEF Init
  <2> QED  BY <2>1, <2>2, <2>3
<1>5. exit \in {"none", "success", "failure"} /\ exit # "success"
  BY DEF Init
<1> QED
  BY Zenon, <1>1, <1>2, <1>3, <1>4, <1>5 DEF CampaignInv, Typed, Placed, Counted, Underway

LEMMA StartInv == CampaignInv /\ Start => CampaignInv'
<1> SUFFICES ASSUME CampaignInv, Start PROVE CampaignInv'
  OBVIOUS
<1>1. /\ run = Idle /\ runs < MaxRuns /\ runs' = runs + 1 /\ exit' = "none"
      /\ UNCHANGED <<head, dirty, records, interruptions, changes>>
  BY Zenon DEF Start, Repository
<1>2. PICK b \in BOOLEAN :
          run' = [Idle EXCEPT !.at = "select", !.identity = head, !.resume = b]
  BY Zenon DEF Start
<1>3. head \in Identities /\ runs \in 0 .. MaxRuns /\ MaxRuns \in Nat
  BY CampaignAssumption DEF CampaignInv, Typed
<1>4. run' \in RunStates /\ run'.at = "select" /\ run'.identity = head /\ run'.results = <<>>
  <2>1. Idle.results = <<>>
    BY Zenon, IdleFacts
  <2>2. run' \in RunStates
    BY Zenon, <1>2, <1>3, IdleFacts DEF RunStates
  <2>3. DOMAIN Idle = {"at", "identity", "resume", "clean", "results", "step", "elapsed",
                       "child", "status"}
    BY DEF Idle
  <2>4. run'.at = "select" /\ run'.identity = head /\ run'.results = Idle.results
    BY <1>2, <2>3
  <2> QED  BY Zenon, <2>1, <2>2, <2>4
<1>5. run'.at \notin Recording /\ run'.at \notin Executing /\ DOMAIN run'.results = {}
      /\ run'.at # "summary" /\ run'.at # "append" /\ run'.at # "idle" /\ exit' # "success"
  BY <1>1, <1>4 DEF Recording, Executing
<1>6. runs' \in 0 .. MaxRuns /\ runs' > 0
  BY <1>1, <1>3
<1>7. Typed'
  <2>1. exit' \in {"none", "success", "failure"}
    BY <1>1
  <2> QED  BY Zenon, <1>1, <1>4, <1>6, <2>1 DEF CampaignInv, Typed
<1>8. Placed'
  BY Zenon, <1>3, <1>4, <1>5, <1>6 DEF Placed
<1>9. Counted'
  <2>1. ASSUME NEW k \in DOMAIN records, NEW s \in Segments
        PROVE  AttemptsFor(records[k], s) < runs' /\ AttemptsFor(records[k], s) <= runs'
    <3>1. AttemptsFor(records[k], s) <= runs
      BY Zenon DEF CampaignInv, Counted
    <3>2. AttemptsFor(records[k], s) \in Nat
      BY Zenon, PlacesFinite, ElementOfSeq, LenProperties DEF CampaignInv, Typed
    <3> QED  BY <1>1, <1>3, <3>1, <3>2
  <2> QED  BY Zenon, <1>1, <1>5, <2>1 DEF Counted
<1>10. Underway'
  BY Zenon, <1>5 DEF Underway
<1>11. \A k \in DOMAIN records' : Sound(records'[k])
  BY Zenon, <1>1 DEF CampaignInv
<1> QED  BY Zenon, <1>7, <1>8, <1>9, <1>10, <1>11 DEF CampaignInv

\* A run that goes on.
LEMMA GoesOnInv ==
    ASSUME CampaignInv, UNCHANGED <<head, dirty, runs, interruptions, changes, exit>>,
           run.at # "idle", run' \in RunStates, run'.at \in Recording,
           run'.identity = run.identity,
           run'.at \in {"tree", "manifest"} => run'.results = <<>>,
           run'.at \in Executing => Len(run'.results) < Len(Required),
           run'.at = "summary" => Len(run'.results) = Len(Required),
           \A i \in DOMAIN run'.results :
               /\ run'.results[i].id = Required[i] /\ run'.results[i].identity = run.identity
               /\ Holds(run'.results[i].status) => Passed(Current', Required[i], run.identity),
           records' \in Seq(Records), Len(records') <= MAX_SEQUENCE, records' # <<>>,
           \A k \in DOMAIN records' :
               /\ Sound(records'[k])
               /\ \A s \in Segments : AttemptsFor(records'[k], s) <= runs,
           \A j \in (Len(run'.results) + 1) .. Len(Required) :
               AttemptsFor(Current', Required[j]) < runs,
           \A k \in DOMAIN Current'.journal : Current'.journal[k].identity = run.identity,
           run'.at \in Executing \cup {"summary"} => Current'.manifest = run.identity,
           run'.at = "append" => IF run'.status = "cached" THEN Reusable(Current, Segment)'
                                 ELSE Current'.evidence[Evidence'] = run'.status
    PROVE  CampaignInv'
<1>1. run'.at # "idle" /\ run'.at # "select"
  BY DEF Recording, Executing
<1>2. run.identity \in Identities /\ runs > 0 /\ exit # "success"
  BY Zenon DEF CampaignInv, Placed, Underway
<1>3. Typed'
  BY Zenon DEF CampaignInv, Typed
<1>4. Placed'
  <2>1. run'.at \in {"select", "tree", "manifest"} => run'.results = <<>>
    BY Zenon, <1>1
  <2> QED  BY Zenon, <1>1, <1>2, <2>1 DEF Placed
<1>5. Counted'
  BY Zenon, <1>1 DEF Counted
<1>6. Underway'
  BY Zenon, <1>2 DEF Underway
<1> QED  BY Zenon, <1>3, <1>4, <1>5, <1>6 DEF CampaignInv

LEMMA SelectRecordInv == CampaignInv /\ SelectRecord => CampaignInv'
<1> SUFFICES ASSUME CampaignInv, SelectRecord PROVE CampaignInv'
  OBVIOUS
<1>1. run.at = "select" /\ UNCHANGED <<head, dirty, runs, interruptions, changes>>
  BY Zenon DEF SelectRecord, Repository, Counters
<1>2. /\ run.at # "idle" /\ run.results = <<>> /\ run \in RunStates /\ runs > 0 /\ runs \in Nat
      /\ \A k \in DOMAIN records : \A s \in Segments : AttemptsFor(records[k], s) < runs
      /\ interruptions \in 0 .. MaxInterruptions
      /\ \A k \in DOMAIN records : Sound(records[k])
  <2>1. run.at # "idle" /\ run.at \in {"select", "tree", "manifest"}
    BY <1>1
  <2> QED  BY Zenon, <1>1, <2>1, RunTypes DEF CampaignInv, Placed, Counted, Typed
<1>3. CASE Ends("failure") /\ UNCHANGED records
  <2>1. "failure" \in {"success", "failure"} /\ "failure" # "success"
    OBVIOUS
  <2>2. run' = Idle /\ exit' = "failure"
    BY Zenon, <1>3 DEF Ends
  <2> QED  BY Zenon, <1>1, <1>2, <1>3, <2>1, <2>2, SameRecords, EndsInv
<1>4. ASSUME NEW b \in BOOLEAN, run' = [run EXCEPT !.at = "tree", !.resume = b]
      PROVE  /\ run' \in RunStates /\ run'.at = "tree" /\ run'.identity = run.identity
             /\ run'.results = <<>> /\ DOMAIN run'.results = {} /\ run'.at \in Recording
             /\ run'.at \notin Executing \cup {"summary"} /\ run'.at # "append"
             /\ run'.at # "summary" /\ run'.at \notin Executing
  <2>1. run' \in RunStates /\ run'.at = "tree" /\ run'.identity = run.identity
        /\ run'.results = run.results
    BY Zenon, <1>2, <1>4 DEF RunStates, Recording
  <2> QED  BY <1>2, <2>1 DEF Recording, Executing
<1>5. CASE Creates /\ Create /\ NextSequence
  <2>1. /\ records' = Append(records, NewRecord(TRUE)) /\ exit' = exit
        /\ run' = [run EXCEPT !.at = "tree", !.resume = FALSE]
    BY Zenon, <1>5 DEF Create
  <2>2. /\ NewRecord(TRUE) \in Records /\ Sound(NewRecord(TRUE)) /\ NewRecord(TRUE).journal = <<>>
        /\ \A s : AttemptsFor(NewRecord(TRUE), s) = 0
    BY Zenon, SoundNew
  <2>3. /\ records' \in Seq(Records) /\ Len(records') = Len(records) + 1 /\ records' # <<>>
        /\ Current' = NewRecord(TRUE)
        /\ \A k \in DOMAIN records' :
              records'[k] = NewRecord(TRUE) \/ (k \in DOMAIN records /\ records'[k] = records[k])
    BY Zenon, <2>1, <2>2, RecordAdded
  <2>4. Len(records') <= MAX_SEQUENCE
    BY Zenon, <1>5, <2>3 DEF NextSequence
  <2>5. 0 <= runs /\ 0 < runs
    BY <1>2
  <2>6. \A k \in DOMAIN records' :
            /\ Sound(records'[k])
            /\ \A s \in Segments : AttemptsFor(records'[k], s) <= runs
    BY Zenon, <1>2, <2>2, <2>3, <2>5 DEF CampaignInv, Counted
  <2>7. DOMAIN Current'.journal = {}
    <3>1. DOMAIN <<>> = {}
      OBVIOUS
    <3> QED  BY Zenon, <2>2, <2>3, <3>1
  <2>8. \A j \in (Len(run'.results) + 1) .. Len(Required) : AttemptsFor(Current', Required[j]) < runs
    BY Zenon, <2>2, <2>3, <2>5
  <2>9. FALSE \in BOOLEAN
    OBVIOUS
  <2> QED
    BY Zenon, <1>1, <1>2, <1>4, <2>1, <2>3, <2>4, <2>6, <2>7, <2>8, <2>9, GoesOnInv
<1>6. CASE /\ ~Creates /\ ~Unreadable(Current)
           /\ run' = [run EXCEPT !.at = "tree"] /\ UNCHANGED <<records, exit>>
  <2>1. run.resume /\ records # <<>> /\ Continues(Current, run.identity)
    BY Zenon, <1>6 DEF Creates
  <2>2. Current \in Records /\ Sound(Current) /\ Len(records) \in DOMAIN records
        /\ Current = records[Len(records)]
    BY Zenon, <2>1, CurrentFacts
  <2>3. \A k \in DOMAIN Current.journal : Current.journal[k].identity = run.identity
    <3> SUFFICES ASSUME NEW k \in DOMAIN Current.journal
                 PROVE  Current.journal[k].identity = run.identity
      OBVIOUS
    <3>1. Current.journal # <<>> /\ 1 \in DOMAIN Current.journal
      <4>1. Len(Current.journal) \in Nat /\ DOMAIN Current.journal = 1 .. Len(Current.journal)
        BY Zenon, <2>2, RecordTypes
      <4> QED  BY <4>1
    <3>2. EntriesOf(Current) # {}
      BY Zenon, <2>2, <3>1 DEF Sound, EntriesOf
    <3>3. Max(EntriesOf(Current)) \in DOMAIN Current.journal
      BY Zenon, <2>2, <3>2, LastInside DEF EntriesOf
    <3>4. Current.journal[Max(EntriesOf(Current))].identity = run.identity
      BY Zenon, <2>1, <3>2 DEF Continues
    <3> QED  BY Zenon, <2>2, <3>3, <3>4 DEF Sound
  <2>4. run' = [run EXCEPT !.at = "tree", !.resume = run.resume] /\ run.resume \in BOOLEAN
    BY Zenon, <1>2, <1>6 DEF RunStates
  <2>5. \A j \in (Len(run'.results) + 1) .. Len(Required) : AttemptsFor(Current, Required[j]) < runs
    <3>1. Len(run'.results) = 0
      BY Zenon, <1>4, <2>4, EmptySeq
    <3>2. \A j \in 1 .. Len(Required) : AttemptsFor(Current, Required[j]) < runs
      BY Zenon, <1>2, <2>2, SegmentNames
    <3> QED  BY <3>1, <3>2
  <2> QED
    BY Zenon, <1>1, <1>2, <1>4, <1>6, <2>1, <2>3, <2>4, <2>5, SameRecords, GoesOnInv
<1> QED  BY Zenon, <1>3, <1>5, <1>6 DEF SelectRecord, Create

\* The run goes on, and its record is replaced by one with the same journal.
Replaces(o) ==
    \/ records' = records /\ o = Current
    \/ records' = [records EXCEPT ![Len(records)] = o]

LEMMA ReplacedRecords ==
    ASSUME CampaignInv, records # <<>>, NEW o \in Records, Sound(o), Replaces(o),
           \A s \in Segments : AttemptsFor(o, s) <= runs
    PROVE  /\ records' \in Seq(Records) /\ Len(records') <= MAX_SEQUENCE /\ records' # <<>>
           /\ Current' = o
           /\ \A k \in DOMAIN records' :
                 /\ Sound(records'[k])
                 /\ \A s \in Segments : AttemptsFor(records'[k], s) <= runs
<1>1. Len(records) <= MAX_SEQUENCE
  BY Zenon DEF CampaignInv, Typed
<1>2. CASE records' = records /\ o = Current
  BY Zenon, <1>2, SameRecords
<1>3. CASE records' = [records EXCEPT ![Len(records)] = o]
  <2>1. /\ records' \in Seq(Records) /\ Len(records') = Len(records) /\ records' # <<>>
        /\ Current' = o /\ DOMAIN records' = DOMAIN records
        /\ \A k \in DOMAIN records : records'[k] = o \/ records'[k] = records[k]
    BY Zenon, <1>3, CurrentSet
  <2> QED  BY Zenon, <1>1, <2>1 DEF CampaignInv, Counted
<1> QED  BY Zenon, <1>2, <1>3 DEF Replaces

LEMMA ReplacedInv ==
    ASSUME CampaignInv, UNCHANGED <<head, dirty, runs, interruptions, changes, exit>>,
           run.at \in Recording, run' \in RunStates, run'.at \in Recording,
           run'.identity = run.identity, run'.results = run.results,
           run'.at \in {"tree", "manifest"} => run.results = <<>>,
           run'.at \in Executing => Len(run.results) < Len(Required),
           run'.at # "summary",
           NEW o \in Records, Sound(o), o.journal = Current.journal, Replaces(o),
           run'.at \in Executing => o.manifest = run.identity,
           run'.at = "append" => IF run'.status = "cached" THEN Reusable(Current, Segment)'
                                 ELSE o.evidence[Evidence'] = run'.status
    PROVE  CampaignInv'
<1>1. run.at # "idle"
  BY DEF Recording, Executing
<1>2. /\ records # <<>>
      /\ \A j \in (Len(run.results) + 1) .. Len(Required) : AttemptsFor(Current, Required[j]) < runs
      /\ \A k \in DOMAIN Current.journal : Current.journal[k].identity = run.identity
      /\ \A i \in DOMAIN run.results :
            /\ run.results[i].id = Required[i] /\ run.results[i].identity = run.identity
            /\ Holds(run.results[i].status) => Passed(Current, Required[i], run.identity)
  BY Zenon, <1>1 DEF CampaignInv, Placed, Counted, Underway
<1>3. /\ \A s : AttemptsFor(o, s) = AttemptsFor(Current, s)
      /\ \A s, i : Passed(o, s, i) <=> Passed(Current, s, i)
  BY Zenon, SameJournal
<1>4. \A s \in Segments : AttemptsFor(o, s) <= runs
  BY Zenon, <1>2, <1>3, CurrentFacts
<1>5. /\ records' \in Seq(Records) /\ Len(records') <= MAX_SEQUENCE /\ records' # <<>>
      /\ Current' = o
      /\ \A k \in DOMAIN records' :
            /\ Sound(records'[k])
            /\ \A s \in Segments : AttemptsFor(records'[k], s) <= runs
  BY Zenon, <1>2, <1>4, ReplacedRecords
<1>6. \A i \in DOMAIN run'.results :
          /\ run'.results[i].id = Required[i] /\ run'.results[i].identity = run.identity
          /\ Holds(run'.results[i].status) => Passed(Current', Required[i], run.identity)
  BY Zenon, <1>2, <1>3, <1>5
<1>7. \A j \in (Len(run'.results) + 1) .. Len(Required) : AttemptsFor(Current', Required[j]) < runs
  BY Zenon, <1>2, <1>3, <1>5
<1>8. \A k \in DOMAIN Current'.journal : Current'.journal[k].identity = run.identity
  BY Zenon, <1>2, <1>5
<1>9. /\ run'.at \in {"tree", "manifest"} => run'.results = <<>>
      /\ run'.at \in Executing => Len(run'.results) < Len(Required)
      /\ run'.at = "summary" => Len(run'.results) = Len(Required)
      /\ run'.at \in Executing \cup {"summary"} => Current'.manifest = run.identity
      /\ run'.at = "append" => IF run'.status = "cached" THEN Reusable(Current, Segment)'
                               ELSE Current'.evidence[Evidence'] = run'.status
  BY Zenon, <1>5
<1> QED  BY Zenon, <1>1, <1>5, <1>6, <1>7, <1>8, <1>9, GoesOnInv

LEMMA ReadTreeInv == CampaignInv /\ ReadTree => CampaignInv'
<1> SUFFICES ASSUME CampaignInv, ReadTree PROVE CampaignInv'
  OBVIOUS
<1>1. /\ run.at = "tree" /\ run' = [run EXCEPT !.at = "manifest", !.clean = ~dirty]
      /\ UNCHANGED <<head, dirty, records, runs, interruptions, changes, exit>>
  BY Zenon DEF ReadTree, Repository, Counters
<1>2. run.at \in Recording /\ run.at \in {"select", "tree", "manifest"}
  BY <1>1 DEF Recording
<1>3. records # <<>> /\ run.results = <<>>
  BY Zenon, <1>2 DEF CampaignInv, Placed
<1>4. run \in RunStates /\ (~dirty) \in BOOLEAN
  BY Zenon, RunTypes
<1>5. /\ run' \in RunStates /\ run'.at = "manifest" /\ run'.identity = run.identity
      /\ run'.results = run.results
  BY Zenon, <1>1, <1>4 DEF RunStates, Recording
<1>6. /\ run'.at \in Recording /\ run'.at \notin Executing /\ run'.at # "append"
      /\ run'.at # "summary"
  BY <1>5 DEF Recording, Executing
<1>7. Current \in Records /\ Sound(Current) /\ Replaces(Current)
  BY Zenon, <1>1, <1>3, CurrentFacts DEF Replaces
<1> QED  BY Zenon, <1>1, <1>2, <1>3, <1>5, <1>6, <1>7, ReplacedInv

LEMMA WriteManifestInv == CampaignInv /\ WriteManifest => CampaignInv'
<1> SUFFICES ASSUME CampaignInv, WriteManifest PROVE CampaignInv'
  OBVIOUS
<1> DEFINE o == [Current EXCEPT !.manifest = run.identity]
<1>1. /\ run.at = "manifest" /\ run' = [run EXCEPT !.at = "segment"]
      /\ records' = [records EXCEPT ![Len(records)] = o]
      /\ UNCHANGED <<head, dirty, runs, interruptions, changes, exit>>
  BY Zenon DEF WriteManifest, SetCurrent, With, Repository, Counters
<1>2. run.at \in Recording /\ run.at \in {"select", "tree", "manifest"} /\ run.at # "idle"
  BY <1>1 DEF Recording
<1>3. /\ records # <<>> /\ run.results = <<>> /\ run.identity \in Identities
      /\ \A k \in DOMAIN Current.journal : Current.journal[k].identity = run.identity
  BY Zenon, <1>2 DEF CampaignInv, Placed, Underway
<1>4. run \in RunStates
  BY Zenon, RunTypes
<1>5. /\ run' \in RunStates /\ run'.at = "segment" /\ run'.identity = run.identity
      /\ run'.results = run.results
  BY Zenon, <1>1, <1>4 DEF RunStates, Recording, Executing
<1>6. /\ run'.at \in Recording /\ run'.at \notin {"tree", "manifest"} /\ run'.at # "append"
      /\ run'.at # "summary"
  BY <1>5 DEF Recording, Executing
<1>7. o \in Records /\ o.journal = Current.journal /\ o.manifest = run.identity /\ Sound(o)
  BY Zenon, <1>3, CurrentFacts, SoundManifest
<1>8. Len(run.results) < Len(Required)
  <2>1. Len(run.results) = 0 /\ Len(Required) \in Nat \ {0}
    BY Zenon, <1>3, EmptySeq, SegmentNames
  <2> QED  BY <2>1
<1> HIDE DEF o
<1>9. Replaces(o)
  BY Zenon, <1>1 DEF Replaces
<1> QED  BY Zenon, <1>1, <1>2, <1>5, <1>6, <1>7, <1>8, <1>9, ReplacedInv

\* The output of the attempt under way: the record stays sound, and the next
\* entry would name the file that is written.
LEMMA OutputFacts ==
    ASSUME CampaignInv, run.at \in Executing, NEW c \in Statuses \cup {"none", "partial"}, Output(c)
    PROVE  LET o == [Current EXCEPT !.evidence[Evidence] = c] IN
           /\ o \in Records /\ Sound(o) /\ o.journal = Current.journal
           /\ o.manifest = run.identity /\ o.evidence[Evidence] = c
           /\ Replaces(o) /\ Current' = o
<1>1. /\ records # <<>> /\ Evidence \in Files
      /\ Evidence[2] = AttemptsFor(Current, Evidence[1]) + 1
  BY Zenon, ExecutingFacts
<1>2. Current \in Records /\ Sound(Current) /\ Current.manifest = run.identity
  BY Zenon, <1>1, CurrentFacts DEF CampaignInv, Underway
<1> DEFINE o == [Current EXCEPT !.evidence[Evidence] = c]
<1>3. /\ o \in Records /\ Sound(o) /\ o.journal = Current.journal
      /\ o.manifest = run.identity /\ o.evidence[Evidence] = c
  BY ZenonT(40), <1>1, <1>2, SoundOutput
<1>4. records' = [records EXCEPT ![Len(records)] = o]
  BY Zenon DEF Output, SetCurrent, With
<1> HIDE DEF o
<1>5. Current' = o
  BY Zenon, <1>1, <1>3, <1>4, CurrentSet
<1>6. Replaces(o)
  BY Zenon, <1>4 DEF Replaces
<1> QED  BY Zenon, <1>3, <1>5, <1>6 DEF o

LEMMA SameAttempt ==
    ASSUME run'.results = run.results, Current'.journal = Current.journal
    PROVE  /\ Segment' = Segment /\ Evidence' = Evidence
           /\ run'.resume = run.resume /\ run'.identity = run.identity =>
                 (Reusable(Current, Segment)' <=> Reusable(Current, Segment))
<1>1. Segment' = Segment
  BY Zenon DEF Segment
<1>2. /\ \A s : EntriesFor(Current', s) = EntriesFor(Current, s)
      /\ \A s : AttemptsFor(Current', s) = AttemptsFor(Current, s)
      /\ \A s : LastEntryFor(Current', s) = LastEntryFor(Current, s)
  BY Zenon, SameJournal
<1>3. Attempt' = Attempt
  BY Zenon, <1>1, <1>2 DEF Attempt
<1>4. Evidence' = Evidence
  BY Zenon, <1>1, <1>3 DEF Evidence
<1> QED  BY Zenon, <1>1, <1>2, <1>4 DEF Reusable

\* The run goes on with the same segment.
LEMMA AttemptInv ==
    ASSUME CampaignInv, UNCHANGED <<head, dirty, runs, interruptions, changes, exit>>,
           run.at \in Executing, run' \in RunStates, run'.at \in {"probe", "step", "append"},
           run'.identity = run.identity, run'.results = run.results, run'.resume = run.resume,
           \/ records' = records /\ run'.at # "append"
           \/ /\ records' = records /\ run'.at = "append" /\ run'.status = "cached"
              /\ Reusable(Current, Segment)
           \/ \E c \in Statuses \cup {"none", "partial"} :
                 Output(c) /\ (run'.at = "append" => run'.status = c /\ c # "cached")
    PROVE  CampaignInv'
<1>1. /\ run.at \in Recording /\ run'.at \in Recording /\ run'.at \in Executing
      /\ run'.at \notin {"tree", "manifest"} /\ run'.at # "summary"
  BY DEF Recording, Executing
<1>2. records # <<>> /\ Len(run.results) < Len(Required) /\ Current.manifest = run.identity
  BY Zenon, <1>1 DEF CampaignInv, Placed, Underway
<1>3. Current \in Records /\ Sound(Current)
  BY Zenon, <1>2, CurrentFacts
<1>4. CASE /\ records' = records
           /\ \/ run'.at # "append"
              \/ run'.at = "append" /\ run'.status = "cached" /\ Reusable(Current, Segment)
  <2>1. Current' = Current
    BY Zenon, <1>4 DEF Current
  <2>2. run'.at = "append" => run'.status = "cached" /\ Reusable(Current, Segment)'
    BY Zenon, <1>4, <2>1, SameAttempt
  <2>3. Replaces(Current)
    BY Zenon, <1>4 DEF Replaces
  <2> QED  BY Zenon, <1>1, <1>2, <1>3, <2>2, <2>3, ReplacedInv
<1>5. ASSUME NEW c \in Statuses \cup {"none", "partial"}, Output(c),
             run'.at = "append" => run'.status = c /\ c # "cached"
      PROVE  CampaignInv'
  <2> DEFINE o == [Current EXCEPT !.evidence[Evidence] = c]
  <2>1. /\ o \in Records /\ Sound(o) /\ o.journal = Current.journal
        /\ o.manifest = run.identity /\ o.evidence[Evidence] = c
        /\ Replaces(o) /\ Current' = o
    BY Zenon, <1>5, OutputFacts
  <2> HIDE DEF o
  <2>2. Evidence' = Evidence
    BY Zenon, <2>1, SameAttempt
  <2> QED  BY Zenon, <1>1, <1>2, <1>5, <2>1, <2>2, ReplacedInv
<1> QED  BY Zenon, <1>4, <1>5

LEMMA UnrecordedInv ==
    ASSUME CampaignInv, Unrecorded, UNCHANGED <<head, dirty, runs, interruptions, changes>>
    PROVE  CampaignInv'
<1>1. "failure" \in {"success", "failure"} /\ "failure" # "success"
  OBVIOUS
<1>2. run' = Idle /\ exit' = "failure" /\ records' = records
  BY Zenon DEF Unrecorded, Ends
<1>3. interruptions \in 0 .. MaxInterruptions
  BY Zenon DEF CampaignInv, Typed
<1> QED  BY Zenon, <1>1, <1>2, <1>3, SameRecords, EndsInv

LEMMA ExecuteInv ==
    ASSUME CampaignInv, Execute, run.at \in Executing,
           UNCHANGED <<head, dirty, runs, interruptions, changes>>
    PROVE  CampaignInv'
<1>1. run \in RunStates
  BY Zenon, RunTypes
<1>2. ASSUME NEW b \in {"running", "bad"}, Output("partial"), UNCHANGED exit,
             run' = [run EXCEPT !.at = "step", !.step = 1, !.child = b]
      PROVE  CampaignInv'
  <2>1. /\ run' \in RunStates /\ run'.at = "step" /\ run'.identity = run.identity
        /\ run'.results = run.results /\ run'.resume = run.resume
    <3>1. 1 \in Nat
      OBVIOUS
    <3> QED  BY Zenon, <1>1, <1>2, <3>1 DEF RunStates, Recording, Executing
  <2>2. /\ run'.at \in {"probe", "step", "append"} /\ run'.at # "append"
        /\ "partial" \in Statuses \cup {"none", "partial"}
    BY <2>1
  <2> QED  BY Zenon, <1>2, <2>1, <2>2, AttemptInv
<1> QED  BY Zenon, <1>2, UnrecordedInv DEF Execute

LEMMA NextSegmentInv == CampaignInv /\ NextSegment => CampaignInv'
<1> SUFFICES ASSUME CampaignInv, NextSegment PROVE CampaignInv'
  OBVIOUS
<1>1. run.at = "segment" /\ UNCHANGED <<head, dirty, runs, interruptions, changes>>
  BY Zenon DEF NextSegment, Repository, Counters
<1>2. run.at \in Executing /\ run \in RunStates
  BY <1>1, RunTypes DEF Executing
<1>3. CASE /\ Reusable(Current, Segment) /\ UNCHANGED <<records, exit>>
           /\ run' = [run EXCEPT !.at = "append", !.status = "cached"]
  <2>1. /\ run' \in RunStates /\ run'.at = "append" /\ run'.identity = run.identity
        /\ run'.results = run.results /\ run'.resume = run.resume /\ run'.status = "cached"
    BY Zenon, <1>2, <1>3 DEF RunStates, Recording, Executing, Statuses
  <2>2. run'.at \in {"probe", "step", "append"}
    BY <2>1
  <2> QED  BY Zenon, <1>1, <1>2, <1>3, <2>1, <2>2, AttemptInv
<1>4. ASSUME NEW b \in {"running", "bad"}, UNCHANGED <<records, exit>>,
             run' = [run EXCEPT !.at = "probe", !.child = b]
      PROVE  CampaignInv'
  <2>1. /\ run' \in RunStates /\ run'.at = "probe" /\ run'.identity = run.identity
        /\ run'.results = run.results /\ run'.resume = run.resume
    BY Zenon, <1>2, <1>4 DEF RunStates, Recording, Executing
  <2>2. run'.at \in {"probe", "step", "append"} /\ run'.at # "append"
    BY <2>1
  <2> QED  BY Zenon, <1>1, <1>2, <1>4, <2>1, <2>2, AttemptInv
<1>5. CASE Execute
  BY Zenon, <1>1, <1>2, <1>5, ExecuteInv
<1> QED  BY Zenon, <1>3, <1>4, <1>5 DEF NextSegment

LEMMA ProbeEndsInv == CampaignInv /\ ProbeEnds => CampaignInv'
<1> SUFFICES ASSUME CampaignInv, ProbeEnds PROVE CampaignInv'
  OBVIOUS
<1>1. run.at = "probe" /\ UNCHANGED <<head, dirty, runs, interruptions, changes>>
  BY Zenon DEF ProbeEnds, Repository, Counters
<1>2. run.at \in Executing /\ run \in RunStates
  BY <1>1, RunTypes DEF Executing
<1>3. CASE Execute
  BY Zenon, <1>1, <1>2, <1>3, ExecuteInv
<1>4. CASE Unrecorded
  BY Zenon, <1>1, <1>4, UnrecordedInv
<1>5. CASE /\ Output("skipped") /\ UNCHANGED exit
           /\ run' = [run EXCEPT !.at = "append", !.status = "skipped", !.child = "none"]
  <2>1. /\ run' \in RunStates /\ run'.at = "append" /\ run'.identity = run.identity
        /\ run'.results = run.results /\ run'.resume = run.resume /\ run'.status = "skipped"
    BY Zenon, <1>2, <1>5 DEF RunStates, Recording, Executing, Statuses
  <2>2. /\ run'.at \in {"probe", "step", "append"} /\ "skipped" # "cached"
        /\ "skipped" \in Statuses \cup {"none", "partial"}
    BY <2>1 DEF Statuses
  <2> QED  BY Zenon, <1>1, <1>2, <1>5, <2>1, <2>2, AttemptInv
<1> QED  BY Zenon, <1>3, <1>4, <1>5 DEF ProbeEnds

LEMMA ChildExitsInv == CampaignInv /\ ChildExits => CampaignInv'
<1> SUFFICES ASSUME CampaignInv, ChildExits PROVE CampaignInv'
  OBVIOUS
<1>1. /\ run.at \in {"probe", "step"}
      /\ UNCHANGED <<head, dirty, records, runs, interruptions, changes, exit>>
  BY Zenon DEF ChildExits, Repository, Counters
<1>2. PICK b \in {"ok", "bad"} : run' = [run EXCEPT !.child = b]
  BY Zenon DEF ChildExits
<1>3. run.at \in Executing /\ run \in RunStates
  BY <1>1, RunTypes DEF Executing
<1>4. /\ run' \in RunStates /\ run'.at = run.at /\ run'.identity = run.identity
      /\ run'.results = run.results /\ run'.resume = run.resume
  BY <1>2, <1>3 DEF RunStates
<1>5. run'.at \in {"probe", "step", "append"} /\ run'.at # "append"
  BY <1>1, <1>4
<1> QED  BY Zenon, <1>1, <1>3, <1>4, <1>5, AttemptInv

LEMMA PollInv == CampaignInv /\ Poll => CampaignInv'
<1> SUFFICES ASSUME CampaignInv, Poll PROVE CampaignInv'
  OBVIOUS
<1>1. run.at = "step" /\ UNCHANGED <<head, dirty, runs, interruptions, changes, exit>>
  BY Zenon DEF Poll, Repository, Counters
<1>2. run.at \in Executing /\ run \in RunStates /\ Budget \in Nat
  BY <1>1, RunTypes, CampaignAssumption DEF Executing
<1>3. ASSUME NEW c \in {"pass", "timeout", "fail"}, Outcome(c) PROVE CampaignInv'
  <2>1. /\ Output(c)
        /\ run' = [run EXCEPT !.at = "append", !.status = c, !.step = 0,
                              !.elapsed = 0, !.child = "none"]
    BY Zenon, <1>3 DEF Outcome
  <2>2. /\ run' \in RunStates /\ run'.at = "append" /\ run'.identity = run.identity
        /\ run'.results = run.results /\ run'.resume = run.resume /\ run'.status = c
    <3>1. 0 \in 0 .. Budget + 1 /\ c \in Statuses
      BY <1>2 DEF Statuses
    <3>2. run' \in RunStates
      BY Zenon, <1>2, <2>1, <3>1 DEF RunStates, Recording, Executing
    <3>3. DOMAIN run = {"at", "identity", "resume", "clean", "results", "step", "elapsed",
                        "child", "status"}
      BY <1>2 DEF RunStates
    <3> QED  BY <2>1, <3>2, <3>3
  <2>3. /\ run'.at \in {"probe", "step", "append"} /\ c \in Statuses \cup {"none", "partial"}
        /\ c # "cached"
    BY <2>2 DEF Statuses
  <2> QED  BY Zenon, <1>1, <1>2, <2>1, <2>2, <2>3, AttemptInv
<1>4. ASSUME NEW b \in {"running", "bad"}, UNCHANGED records,
             run' = [run EXCEPT !.step = @ + 1, !.child = b]
      PROVE  CampaignInv'
  <2>1. /\ run' \in RunStates /\ run'.at = "step" /\ run'.identity = run.identity
        /\ run'.results = run.results /\ run'.resume = run.resume
        /\ run'.at \in {"probe", "step", "append"} /\ run'.at # "append"
    <3>1. run.step + 1 \in Nat /\ run' = [run EXCEPT !.step = run.step + 1, !.child = b]
      BY <1>2, <1>4 DEF RunStates
    <3> QED  BY Zenon, <1>1, <1>2, <3>1 DEF RunStates
  <2> QED  BY Zenon, <1>1, <1>2, <1>4, <2>1, AttemptInv
<1>5. CASE Sleeps
  <2>1. PICK t \in 1 .. 2 : run' = [run EXCEPT !.elapsed = @ + t]
    BY Zenon, <1>5 DEF Sleeps
  <2>2. run.elapsed < Budget /\ records' = records
    BY Zenon, <1>5 DEF Sleeps
  <2>3. run.elapsed + t \in 0 .. Budget + 1
    <3>1. run.elapsed \in 0 .. Budget + 1
      BY <1>2 DEF RunStates
    <3> QED  BY <1>2, <2>2, <3>1
  <2>4. /\ run' \in RunStates /\ run'.at = "step" /\ run'.identity = run.identity
        /\ run'.results = run.results /\ run'.resume = run.resume
        /\ run'.at \in {"probe", "step", "append"} /\ run'.at # "append"
    BY <1>1, <1>2, <2>1, <2>3 DEF RunStates
  <2> QED  BY Zenon, <1>1, <1>2, <2>2, <2>4, AttemptInv
<1>6. "pass" \in {"pass", "timeout", "fail"} /\ "timeout" \in {"pass", "timeout", "fail"}
      /\ "fail" \in {"pass", "timeout", "fail"}
  OBVIOUS
<1>7. CASE StepPassed
  BY Zenon, <1>3, <1>4, <1>6, <1>7 DEF StepPassed
<1>8. CASE StepFailed
  BY Zenon, <1>3, <1>6, <1>8 DEF StepFailed
<1>9. CASE StepRunning
  BY Zenon, <1>3, <1>5, <1>6, <1>9 DEF StepRunning
<1> QED  BY Zenon, <1>7, <1>8, <1>9 DEF Poll

\* The record with the entry, as a run that goes on or an interruption leaves it.
LEMMA AppendedFacts ==
    ASSUME CampaignInv, run.at = "append", NEW x \in {"whole", "open"},
           records' = [records EXCEPT ![Len(records)] = Extended(Current, Entry, x)]
    PROVE  LET o == Extended(Current, Entry, x) IN
           /\ records' \in Seq(Records) /\ Len(records') <= MAX_SEQUENCE /\ records' # <<>>
           /\ Current' = o /\ o.manifest = run.identity
           /\ \A k \in DOMAIN records' :
                 /\ Sound(records'[k])
                 /\ \A s \in Segments : AttemptsFor(records'[k], s) <= runs
           /\ \A j \in (Len(run.results) + 2) .. Len(Required) : AttemptsFor(o, Required[j]) < runs
           /\ \A k \in DOMAIN o.journal : o.journal[k].identity = run.identity
           /\ \A s, i : Passed(Current, s, i) => Passed(o, s, i)
           /\ Holds(run.status) => Passed(o, Segment, run.identity)
<1> DEFINE o == Extended(Current, Entry, x)
<1>1. run.at \in Executing /\ run.at \in Recording /\ x \in {"whole", "open", "torn"}
  BY DEF Executing, Recording
<1>2. /\ Entry \in Entries /\ Fits(Current, Entry) /\ Entry.segment = Segment
      /\ Entry.identity = run.identity /\ Entry.status = run.status
  BY Zenon, EntryFacts
<1>3. /\ records # <<>> /\ Len(run.results) + 1 \in 1 .. Len(Required)
      /\ AttemptsFor(Current, Segment) \in Nat /\ Segment \in Segments
      /\ \A j \in (Len(run.results) + 1) .. Len(Required) : AttemptsFor(Current, Required[j]) < runs
  BY Zenon, <1>1, ExecutingFacts DEF CampaignInv, Counted
<1>4. Current \in Records /\ Sound(Current) /\ \A s \in Segments : AttemptsFor(Current, s) <= runs
  BY Zenon, <1>3, CurrentFacts
<1>5. o \in Records /\ Sound(o) /\ o.manifest = run.identity
  BY Zenon, <1>1, <1>2, <1>4, SoundExtended, ExtendedTypes DEF Fits
<1>6. \A s : AttemptsFor(o, s) = IF ~Entry.hidden /\ Segment = s
                                 THEN AttemptsFor(Current, s) + 1 ELSE AttemptsFor(Current, s)
  <2>1. \A s : AttemptsFor(o, s) = IF ~Entry.hidden /\ Entry.segment = s
                                   THEN AttemptsFor(Current, s) + 1 ELSE AttemptsFor(Current, s)
    BY <1>1, <1>2, <1>4, ExtendedPlaces
  <2> QED  BY Zenon, <1>2, <2>1
<1>7. /\ DOMAIN o.journal = (DOMAIN Current.journal) \cup {Len(Current.journal) + 1}
      /\ \A k \in DOMAIN Current.journal : o.journal[k] = Current.journal[k]
      /\ o.journal[Len(Current.journal) + 1] = Entry
  BY <1>1, <1>2, <1>4, ExtendedEntries
<1>8. /\ \A s, i : Passed(Current, s, i) => Passed(o, s, i)
      /\ run.status = "pass" => Passed(o, Segment, run.identity)
  BY Zenon, <1>1, <1>2, <1>4, PassedKept
<1> HIDE DEF o
<1>9. Len(run.results) \in Nat /\ Len(Required) \in Nat /\ runs \in Nat
  BY Zenon, RunTypes, SegmentNames
<1>10. \A s \in Segments : AttemptsFor(o, s) <= runs
  <2>1. AttemptsFor(Current, Segment) < runs
    <3>1. Len(run.results) + 1 \in (Len(run.results) + 1) .. Len(Required)
      BY <1>3, <1>9
    <3> QED  BY Zenon, <1>3, <3>1 DEF Segment
  <2>2. AttemptsFor(Current, Segment) + 1 <= runs
    BY <1>3, <1>9, <2>1
  <2> QED  BY Zenon, <1>4, <1>6, <2>2
<1>11. \A j \in (Len(run.results) + 2) .. Len(Required) : AttemptsFor(o, Required[j]) < runs
  <2> SUFFICES ASSUME NEW j \in (Len(run.results) + 2) .. Len(Required)
               PROVE  AttemptsFor(o, Required[j]) < runs
    OBVIOUS
  <2>1. /\ j \in (Len(run.results) + 1) .. Len(Required) /\ j \in 1 .. Len(Required)
        /\ j # Len(run.results) + 1
    BY <1>9
  <2>2. Required[j] # Segment
    BY Zenon, <1>3, <2>1, SegmentNames DEF Segment
  <2> QED  BY Zenon, <1>3, <1>6, <2>1, <2>2
<1>12. \A k \in DOMAIN o.journal : o.journal[k].identity = run.identity
  BY Zenon, <1>2, <1>7 DEF Fits
<1>13. Holds(run.status) => Passed(o, Segment, run.identity)
  BY Zenon, <1>2, <1>8 DEF Holds, Fits
<1>14. Replaces(o)
  BY Zenon DEF Replaces, o
<1>15. /\ records' \in Seq(Records) /\ Len(records') <= MAX_SEQUENCE /\ records' # <<>>
       /\ Current' = o
       /\ \A k \in DOMAIN records' :
             /\ Sound(records'[k])
             /\ \A s \in Segments : AttemptsFor(records'[k], s) <= runs
  BY Zenon, <1>3, <1>5, <1>10, <1>14, ReplacedRecords
<1> QED  BY Zenon, <1>5, <1>8, <1>11, <1>12, <1>13, <1>15 DEF o

LEMMA AppendJournalInv == CampaignInv /\ AppendJournal => CampaignInv'
<1> SUFFICES ASSUME CampaignInv, AppendJournal PROVE CampaignInv'
  OBVIOUS
<1> DEFINE result == [id |-> Segment, status |-> run.status, identity |-> run.identity]
           results == Append(run.results, result)
           place == IF Len(results) = Len(Required) THEN "summary" ELSE "segment"
<1>1. /\ run.at = "append" /\ UNCHANGED <<head, dirty, runs, interruptions, changes, exit>>
      /\ run' = [run EXCEPT !.results = results, !.status = "pass", !.at = place]
      /\ records' = [records EXCEPT ![Len(records)] = Extended(Current, Entry, "whole")]
  BY Zenon DEF AppendJournal, SetCurrent, With, Extended, Repository, Counters
<1>2. /\ run.at \in Executing /\ run.at \in Recording /\ run.at # "idle"
      /\ "whole" \in {"whole", "open"}
  BY <1>1 DEF Executing, Recording
<1> DEFINE o == Extended(Current, Entry, "whole")
<1>3. /\ records' \in Seq(Records) /\ Len(records') <= MAX_SEQUENCE /\ records' # <<>>
      /\ Current' = o /\ o.manifest = run.identity
      /\ \A k \in DOMAIN records' :
            /\ Sound(records'[k])
            /\ \A s \in Segments : AttemptsFor(records'[k], s) <= runs
      /\ \A j \in (Len(run.results) + 2) .. Len(Required) : AttemptsFor(o, Required[j]) < runs
      /\ \A k \in DOMAIN o.journal : o.journal[k].identity = run.identity
      /\ \A s, i : Passed(Current, s, i) => Passed(o, s, i)
      /\ Holds(run.status) => Passed(o, Segment, run.identity)
  BY Zenon, <1>1, <1>2, AppendedFacts
<1> HIDE DEF o
<1>4. /\ run \in RunStates /\ run.results \in Seq(Results) /\ Len(run.results) \in Nat
      /\ DOMAIN run.results = 1 .. Len(run.results) /\ run.status \in Statuses
      /\ run.identity \in Identities /\ Segment \in Segments
      /\ Len(run.results) + 1 \in 1 .. Len(Required) /\ Len(Required) \in Nat
  BY Zenon, <1>2, RunTypes, ExecutingFacts, SegmentNames
<1>5. result \in Results
  BY <1>4 DEF Results
<1>6. result.id = Segment /\ result.status = run.status /\ result.identity = run.identity
  OBVIOUS
<1> HIDE DEF result
<1>7. /\ results \in Seq(Results) /\ Len(results) = Len(run.results) + 1
      /\ \A i \in 1 .. Len(run.results) : results[i] = run.results[i]
      /\ results[Len(run.results) + 1] = result
  BY <1>4, <1>5, AppendProperties
<1>8. DOMAIN results = 1 .. Len(results)
  BY Zenon, <1>7, LenProperties
<1>9. \A i \in DOMAIN results : i \in DOMAIN run.results \/ i = Len(run.results) + 1
  BY <1>4, <1>7, <1>8
<1> HIDE DEF results
<1>10. place \in {"summary", "segment"} /\ (place = "summary" <=> Len(results) = Len(Required))
  OBVIOUS
<1>11. Len(results) # Len(Required) => Len(results) < Len(Required)
  BY <1>4, <1>7
<1> HIDE DEF place
<1>12. run' \in RunStates /\ run'.at = place /\ run'.identity = run.identity /\ run'.results = results
  BY Zenon, <1>1, <1>4, <1>7, <1>10 DEF RunStates, Recording, Executing, Statuses
<1>13. /\ run'.at \in Recording /\ run'.at \notin {"tree", "manifest"} /\ run'.at # "append"
       /\ run'.at \in Executing => place = "segment"
  BY <1>10, <1>12 DEF Recording, Executing
<1>14. /\ run'.at \in Executing => Len(run'.results) < Len(Required)
       /\ run'.at = "summary" => Len(run'.results) = Len(Required)
  <2>1. "segment" # "summary"
    OBVIOUS
  <2> QED  BY Zenon, <1>10, <1>11, <1>12, <1>13, <2>1
<1>15. \A i \in DOMAIN run'.results :
           /\ run'.results[i].id = Required[i] /\ run'.results[i].identity = run.identity
           /\ Holds(run'.results[i].status) => Passed(Current', Required[i], run.identity)
  <2>1. ASSUME NEW i \in DOMAIN run.results
        PROVE  /\ results[i].id = Required[i] /\ results[i].identity = run.identity
               /\ Holds(results[i].status) => Passed(o, Required[i], run.identity)
    BY Zenon, <1>3, <1>4, <1>7 DEF CampaignInv, Placed, Underway
  <2>2. /\ result.id = Required[Len(run.results) + 1]
        /\ Holds(result.status) => Passed(o, Required[Len(run.results) + 1], run.identity)
    BY Zenon, <1>3, <1>6 DEF Segment
  <2> QED  BY Zenon, <1>3, <1>6, <1>7, <1>9, <1>12, <2>1, <2>2
<1>16. \A j \in (Len(run'.results) + 1) .. Len(Required) : AttemptsFor(Current', Required[j]) < runs
  <2>1. Len(run'.results) + 1 = Len(run.results) + 2
    BY <1>4, <1>7, <1>12
  <2> QED  BY Zenon, <1>3, <2>1
<1> QED
  BY Zenon, <1>1, <1>2, <1>3, <1>12, <1>13, <1>14, <1>15, <1>16, GoesOnInv

\* A campaign all of whose results hold has passed every segment.
LEMMA AllHold ==
    ASSUME CampaignInv, run.at = "summary",
           \A i \in DOMAIN run.results : Holds(run.results[i].status)
    PROVE  Backed(Current)
<1>1. run.at \in Recording /\ run.at # "idle"
  BY DEF Recording
<1>2. /\ run.identity \in Identities /\ Len(run.results) = Len(Required)
      /\ \A i \in DOMAIN run.results : Passed(Current, Required[i], run.identity)
  BY Zenon, <1>1 DEF CampaignInv, Placed, Underway
<1>3. DOMAIN run.results = 1 .. Len(Required)
  BY Zenon, <1>2, RunTypes
<1>4. \A s \in Segments : Passed(Current, s, run.identity)
  <2> SUFFICES ASSUME NEW s \in Segments PROVE Passed(Current, s, run.identity)
    OBVIOUS
  <2>1. PICK j \in 1 .. Len(Required) : Required[j] = s
    BY Zenon, SegmentNames
  <2>2. Passed(Current, Required[j], run.identity)
    BY Zenon, <1>2, <1>3
  <2> QED  BY Zenon, <2>1, <2>2
<1> QED  BY Zenon, <1>2, <1>4, BackedIsPassed

LEMMA WriteSummaryInv == CampaignInv /\ WriteSummary => CampaignInv'
<1> SUFFICES ASSUME CampaignInv, WriteSummary PROVE CampaignInv'
  OBVIOUS
<1> DEFINE final == SealState(run.results, run.identity, run.clean)
           hold == \A i \in DOMAIN run.results : Holds(run.results[i].status)
           o == [Current EXCEPT !.summary = final]
<1>1. /\ run.at = "summary" /\ UNCHANGED <<head, dirty, runs, interruptions, changes>>
      /\ records' = [records EXCEPT ![Len(records)] = o] /\ run' = Idle
      /\ exit' = IF Closes(run.results, final) THEN "success" ELSE "failure"
  BY Zenon DEF WriteSummary, SetCurrent, With, Ends, Repository, Counters
<1>2. /\ final \in {"failed", "sealed", "partial"} /\ (final = "sealed" => hold)
  BY DEF SealState
<1>3. Closes(run.results, final) => hold
  BY Zenon, <1>2 DEF Closes
<1>4. hold => Backed(Current)
  BY Zenon, <1>1, AllHold
<1> HIDE DEF final, hold
<1>5. run.at \in Recording
  BY <1>1 DEF Recording
<1>6. records # <<>> /\ interruptions \in 0 .. MaxInterruptions
  BY Zenon, <1>5 DEF CampaignInv, Placed, Typed
<1>7. Current \in Records /\ Sound(Current) /\ \A s \in Segments : AttemptsFor(Current, s) <= runs
  BY Zenon, <1>6, CurrentFacts
<1>8. final \in {"none", "empty", "partial", "sealed", "failed"}
  BY <1>2
<1>9. o \in Records /\ o.journal = Current.journal /\ Sound(o)
  BY Zenon, <1>2, <1>4, <1>7, <1>8, SoundSummary
<1> HIDE DEF o
<1>10. Replaces(o) /\ (Backed(o) <=> Backed(Current))
       /\ \A s : AttemptsFor(o, s) = AttemptsFor(Current, s)
  BY Zenon, <1>1, <1>9, SameJournal DEF Replaces
<1>11. /\ records' \in Seq(Records) /\ Len(records') <= MAX_SEQUENCE /\ Current' = o
       /\ \A k \in DOMAIN records' :
             /\ Sound(records'[k])
             /\ \A s \in Segments : AttemptsFor(records'[k], s) <= runs
  BY Zenon, <1>6, <1>7, <1>9, <1>10, ReplacedRecords
<1>12. exit' \in {"success", "failure"} /\ (exit' = "success" => Closes(run.results, final))
  BY <1>1
<1>13. exit' = "success" => Backed(Current')
  BY Zenon, <1>3, <1>4, <1>10, <1>11, <1>12
<1> QED  BY Zenon, <1>1, <1>6, <1>11, <1>12, <1>13, EndsInv

LEMMA InterruptInv == CampaignInv /\ Interrupt => CampaignInv'
<1> SUFFICES ASSUME CampaignInv, Interrupt PROVE CampaignInv'
  OBVIOUS
<1>1. /\ run # Idle /\ interruptions < MaxInterruptions /\ interruptions' = interruptions + 1
      /\ records' \in LeftBehind /\ run' = Idle /\ exit' = "failure"
      /\ UNCHANGED <<head, dirty, runs, changes>>
  BY Zenon DEF Interrupt, Ends, Repository
<1>2. interruptions' \in 0 .. MaxInterruptions
  <2>1. interruptions \in 0 .. MaxInterruptions /\ MaxInterruptions \in Nat
    BY CampaignAssumption DEF CampaignInv, Typed
  <2> QED  BY <1>1, <2>1
<1>3. exit' \in {"success", "failure"} /\ exit' # "success"
  BY <1>1
<1>4. ASSUME records' \in Seq(Records), Len(records') <= MAX_SEQUENCE,
             \A k \in DOMAIN records' :
                 /\ Sound(records'[k])
                 /\ \A s \in Segments : AttemptsFor(records'[k], s) <= runs
      PROVE  CampaignInv'
  BY Zenon, <1>1, <1>2, <1>3, <1>4, EndsInv
<1>5. CASE records' = records
  BY Zenon, <1>4, <1>5, SameRecords
<1>6. run.at \in {"manifest", "probe", "append", "summary"} => run.at \in Recording /\ run.at # "idle"
  BY DEF Recording, Executing
<1>7. ASSUME records # <<>>, NEW o \in Records, Sound(o), o.journal = Current.journal,
             records' = [records EXCEPT ![Len(records)] = o]
      PROVE  CampaignInv'
  <2>1. Replaces(o)
    BY Zenon, <1>7 DEF Replaces
  <2>2. \A s \in Segments : AttemptsFor(o, s) <= runs
    BY Zenon, <1>7, CurrentFacts, SameJournal
  <2> QED  BY Zenon, <1>4, <1>7, <2>1, <2>2, ReplacedRecords
<1>8. CASE run.at = "select" /\ NextSequence /\ records' = Append(records, NewRecord(FALSE))
  <2>1. FALSE \in BOOLEAN
    OBVIOUS
  <2>2. /\ NewRecord(FALSE) \in Records /\ Sound(NewRecord(FALSE))
        /\ \A s : AttemptsFor(NewRecord(FALSE), s) = 0
    BY Zenon, <2>1, SoundNew
  <2>3. /\ records' \in Seq(Records) /\ Len(records') = Len(records) + 1
        /\ \A k \in DOMAIN records' :
              records'[k] = NewRecord(FALSE) \/ (k \in DOMAIN records /\ records'[k] = records[k])
    BY Zenon, <1>8, <2>2, RecordAdded
  <2>4. 0 <= runs
    BY RunTypes
  <2>5. Len(records') <= MAX_SEQUENCE
    BY Zenon, <1>8, <2>3 DEF NextSequence
  <2>6. \A k \in DOMAIN records' :
            /\ Sound(records'[k])
            /\ \A s \in Segments : AttemptsFor(records'[k], s) <= runs
    BY Zenon, <2>2, <2>3, <2>4 DEF CampaignInv, Counted
  <2> QED  BY Zenon, <1>4, <2>3, <2>5, <2>6
<1>9. ASSUME run.at \in {"manifest", "probe", "append", "summary"}
      PROVE  /\ records # <<>> /\ Current \in Records /\ Sound(Current)
             /\ Current = records[Len(records)]
  <2>1. records # <<>>
    BY Zenon, <1>6, <1>9 DEF CampaignInv, Placed
  <2> QED  BY Zenon, <2>1, CurrentFacts
<1>10. CASE /\ run.at = "manifest"
            /\ records' = With([Current EXCEPT !.manifest = NoIdentity])
  <2>1. run.at \in {"manifest", "probe", "append", "summary"}
    BY <1>10
  <2> DEFINE o == [Current EXCEPT !.manifest = NoIdentity]
  <2>2. o \in Records /\ o.journal = Current.journal /\ Sound(o)
    BY Zenon, <1>9, <2>1, SoundManifest
  <2>3. records' = [records EXCEPT ![Len(records)] = o]
    BY Zenon, <1>10 DEF With
  <2> HIDE DEF o
  <2> QED  BY Zenon, <1>7, <1>9, <2>1, <2>2, <2>3
<1>11. CASE /\ run.at = "summary"
            /\ records' = With([Current EXCEPT !.summary = "empty"])
  <2>1. run.at \in {"manifest", "probe", "append", "summary"} /\ "empty" # "sealed"
        /\ "empty" \in {"none", "empty", "partial", "sealed", "failed"}
    BY <1>11
  <2> DEFINE o == [Current EXCEPT !.summary = "empty"]
  <2>2. o \in Records /\ o.journal = Current.journal /\ Sound(o)
    BY Zenon, <1>9, <2>1, SoundSummary
  <2>3. records' = [records EXCEPT ![Len(records)] = o]
    BY Zenon, <1>11 DEF With
  <2> HIDE DEF o
  <2> QED  BY Zenon, <1>7, <1>9, <2>1, <2>2, <2>3
<1>12. CASE /\ run.at = "append"
            /\ records' = With([Current EXCEPT !.ending = "torn"])
  <2>1. run.at \in {"manifest", "probe", "append", "summary"}
    BY <1>12
  <2> DEFINE o == [Current EXCEPT !.ending = "torn"]
  <2>2. o \in Records /\ o.journal = Current.journal /\ Sound(o)
    BY Zenon, <1>9, <2>1, SoundTorn
  <2>3. records' = [records EXCEPT ![Len(records)] = o]
    BY Zenon, <1>12 DEF With
  <2> HIDE DEF o
  <2> QED  BY Zenon, <1>7, <1>9, <2>1, <2>2, <2>3
<1>13. CASE /\ run.at = "append"
            /\ records' = With(Extended(Current, Entry, "open"))
  <2>1. run.at \in {"manifest", "probe", "append", "summary"} /\ "open" \in {"whole", "open"}
    BY <1>13
  <2>2. records' = [records EXCEPT ![Len(records)] = Extended(Current, Entry, "open")]
    BY Zenon, <1>13 DEF With
  <2> QED  BY Zenon, <1>4, <1>13, <2>1, <2>2, AppendedFacts
<1>14. CASE /\ run.at = "probe"
            /\ records' = With([Current EXCEPT !.evidence[Evidence] = "partial"])
  <2>1. /\ run.at \in {"manifest", "probe", "append", "summary"} /\ run.at \in Executing
        /\ "partial" \in Statuses \cup {"none", "partial"}
    BY <1>14 DEF Executing
  <2> DEFINE o == [Current EXCEPT !.evidence[Evidence] = "partial"]
  <2>2. o \in Records /\ o.journal = Current.journal /\ Sound(o)
    <3>1. Output("partial")
      BY Zenon, <1>14 DEF Output, SetCurrent
    <3> QED  BY Zenon, <2>1, <3>1, OutputFacts
  <2>3. records' = [records EXCEPT ![Len(records)] = o]
    BY Zenon, <1>14 DEF With
  <2> HIDE DEF o
  <2> QED  BY Zenon, <1>7, <1>9, <2>1, <2>2, <2>3
<1>15. \/ records' = records
       \/ run.at = "select" /\ NextSequence /\ records' = Append(records, NewRecord(FALSE))
       \/ /\ run.at = "manifest"
          /\ records' = With([Current EXCEPT !.manifest = NoIdentity])
       \/ /\ run.at = "summary"
          /\ records' = With([Current EXCEPT !.summary = "empty"])
       \/ /\ run.at = "append"
          /\ records' = With([Current EXCEPT !.ending = "torn"])
       \/ /\ run.at = "append"
          /\ records' = With(Extended(Current, Entry, "open"))
       \/ /\ run.at = "probe"
          /\ records' = With([Current EXCEPT !.evidence[Evidence] = "partial"])
  BY <1>1 DEF LeftBehind, Extended
<1> QED  BY Zenon, <1>5, <1>8, <1>10, <1>11, <1>12, <1>13, <1>14, <1>15

LEMMA WorkInv == CampaignInv /\ WorkOnRepository => CampaignInv'
<1> SUFFICES ASSUME CampaignInv, WorkOnRepository PROVE CampaignInv'
  OBVIOUS
<1>1. /\ changes < MaxChanges /\ changes' = changes + 1
      /\ UNCHANGED <<records, run, runs, interruptions, exit>>
  BY Zenon DEF WorkOnRepository
<1>2. PICK r \in Repositories : head' = r[1] /\ dirty' = r[2]
  BY Zenon DEF WorkOnRepository
<1>3. head' \in Identities
  BY Zenon, <1>2 DEF Identities
<1>4. dirty' \in BOOLEAN
  BY <1>2, CampaignAssumption
<1>5. changes' \in 0 .. MaxChanges
  <2>1. changes \in 0 .. MaxChanges /\ MaxChanges \in Nat
    BY CampaignAssumption DEF CampaignInv, Typed
  <2> QED  BY <1>1, <2>1
<1>6. Typed'
  BY Zenon, <1>1, <1>3, <1>4, <1>5 DEF CampaignInv, Typed
<1>7. Placed'
  BY Zenon, <1>1 DEF CampaignInv, Placed
<1>8. Counted'
  BY Zenon, <1>1 DEF CampaignInv, Counted, Current
<1>9. Underway'
  BY Zenon, <1>1 DEF CampaignInv, Underway, Current, Reusable, Evidence, Segment, Attempt
<1> QED  BY Zenon, <1>1, <1>6, <1>7, <1>8, <1>9 DEF CampaignInv

LEMMA StutterInv == CampaignInv /\ UNCHANGED vars => CampaignInv'
<1> SUFFICES ASSUME CampaignInv, UNCHANGED vars PROVE CampaignInv'
  OBVIOUS
<1>1. UNCHANGED <<head, dirty, records, run, runs, interruptions, changes, exit>>
  BY Zenon DEF vars
<1>2. Typed' /\ Placed'
  BY Zenon, <1>1 DEF CampaignInv, Typed, Placed
<1>3. Counted'
  BY Zenon, <1>1 DEF CampaignInv, Counted, Current
<1>4. Underway'
  BY Zenon, <1>1 DEF CampaignInv, Underway, Current, Reusable, Evidence, Segment, Attempt
<1> QED  BY Zenon, <1>1, <1>2, <1>3, <1>4 DEF CampaignInv

LEMMA CampaignInvariant == Spec => []CampaignInv
<1>1. CampaignInv /\ [Next]_vars => CampaignInv'
  BY Zenon, StartInv, SelectRecordInv, ReadTreeInv, WriteManifestInv, NextSegmentInv,
     ProbeEndsInv, PollInv, AppendJournalInv, WriteSummaryInv, ChildExitsInv, InterruptInv, WorkInv, StutterInv
     DEF Next, Runner
<1> QED  BY <1>1, InitInv, PTL DEF Spec

-----------------------------------------------------------------------------
(* Theorems *)

\* Every record, file and run is of its type, however runs are interrupted and
\* resumed: an attempt is numbered by at most the number of runs (attempts_for),
\* and a date holds at most MAX_SEQUENCE records (next_sequence).
THEOREM TypeCorrect == Spec => []TypeOK
<1>1. CampaignInv => TypeOK
  <2> SUFFICES ASSUME CampaignInv PROVE TypeOK
    OBVIOUS
  <2>1. run \in RunStates /\ Len(run.results) \in Nat
    BY Zenon, RunTypes
  <2>2. /\ run.at \in {"idle", "select", "tree", "manifest", "segment", "probe", "step", "append",
                      "summary"}
        /\ run.identity \in Identities \cup {NoIdentity}
        /\ run.elapsed \in 0 .. Budget + 1
    BY <2>1 DEF RunStates, Recording, Executing
  <2>3. Len(run.results) <= Len(Required)
    <3>1. Len(Required) \in Nat \ {0}
      BY Zenon, SegmentNames
    <3>2. CASE run.at \in Executing
      <4>1. Len(run.results) < Len(Required)
        BY Zenon, <3>2 DEF CampaignInv, Placed
      <4> QED  BY <2>1, <3>1, <4>1
    <3>3. CASE run.at = "summary"
      <4>1. Len(run.results) = Len(Required)
        BY Zenon, <3>3 DEF CampaignInv, Placed
      <4> QED  BY <3>1, <4>1
    <3>4. CASE run.at \notin Executing \cup {"summary"}
      <4>1. run.at = "idle" \/ run.at \in {"select", "tree", "manifest"}
        BY <2>2, <3>4 DEF Executing
      <4>2. run.results = <<>>
        BY Zenon, <4>1, IdleFacts DEF CampaignInv, Placed
      <4>3. Len(run.results) = 0
        BY Zenon, <4>2, EmptySeq
      <4> QED  BY <3>1, <4>3
    <3> QED  BY Zenon, <3>2, <3>3, <3>4
  <2> QED  BY Zenon, <2>2, <2>3 DEF CampaignInv, Typed, TypeOK
<1> QED  BY <1>1, CampaignInvariant, PTL

\* A record that is sealed, and a run that reports success, rest on an executed
\* pass of every required segment under one identity, whatever was reused,
\* interrupted or lost on the way (reusable, seal_state, closes).
THEOREM SealedIsBackedHolds == Spec => []SealedIsBacked
<1>1. CampaignInv => SealedIsBacked
  BY Zenon DEF CampaignInv, Sound, Underway, SealedIsBacked
<1> QED  BY <1>1, CampaignInvariant, PTL

\* The evidence of every entry that can be read stays as its attempt left it, and
\* no attempt takes the file of an earlier entry that can be read, although
\* attempts are numbered by counting entries and some are lost to a missing
\* newline (attempts_for, evidence_path). Entries that cannot be read may lose
\* their evidence.
THEOREM EvidenceKeptHolds == Spec => []EvidenceKept
<1>1. CampaignInv => EvidenceKept
  BY Zenon DEF CampaignInv, Sound, EvidenceKept
<1> QED  BY <1>1, CampaignInvariant, PTL

\* All results in one record are under one identity, the one its manifest states
\* (select_record), although only the last entry is compared.
THEOREM OneIdentityHolds == Spec => []OneIdentity
<1>1. CampaignInv => OneIdentity
  <2> SUFFICES ASSUME CampaignInv, NEW k \in DOMAIN records
               PROVE  LET r == records[k] IN
                      /\ \A e, f \in Range(r.journal) : e.identity = f.identity
                      /\ \A e \in Range(r.journal) : r.manifest \in {e.identity, NoIdentity}
    BY Zenon DEF OneIdentity
  <2>1. Sound(records[k])
    BY Zenon DEF CampaignInv
  <2> QED  BY Zenon, <2>1 DEF Sound, Range
<1> QED  BY <1>1, CampaignInvariant, PTL

=============================================================================
