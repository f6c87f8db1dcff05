------------------------------ MODULE Campaign ------------------------------
(***************************************************************************)
(* The validation runner (tools/validation-runner): runs that record a     *)
(* campaign segment by segment, are interrupted anywhere, and resume the   *)
(* latest record. One tier and one date: tiers have directories of their   *)
(* own, and the names of one date sort in the order of creation.           *)
(*                                                                         *)
(* An interruption is a killed process or a full disk. It leaves of the    *)
(* operation under way what the calls already made have left: writeln!     *)
(* writes an entry and its newline apart, File::create truncates before    *)
(* anything is written, create_dir_all makes one directory after another.  *)
(***************************************************************************)
EXTENDS Integers, Sequences, FiniteSetsExt

CONSTANTS
    Required,        \* the segments of the tier, in the order of execution
    Prerequisites,   \* those that need a capability of the host
    Steps,           \* the number of steps of each
    Budget,          \* SEGMENT_BUDGET, in polls
    Repositories,    \* what it may be at: <<identity, whether its tree has changes>>
    Tier,
    MAX_SEQUENCE,
    MaxRuns, MaxInterruptions, MaxChanges   \* bounds

Segments == Range(Required)

ASSUME CampaignAssumption ==
    /\ Required \in Seq(Segments) /\ IsInjective(Required) /\ Required # <<>>
    /\ Prerequisites \subseteq Segments
    /\ Steps \in [Segments -> Nat \ {0}]
    /\ Repositories \subseteq (Nat \ {0}) \X BOOLEAN /\ <<1, FALSE>> \in Repositories
    /\ {Budget, MAX_SEQUENCE, MaxRuns} \subseteq Nat \ {0}
    /\ {MaxInterruptions, MaxChanges} \subseteq Nat
    /\ Tier \in {"dev", "gate"}

\* Digests of revision, definition, toolchain and target, numbered as they come.
Identities == {r[1] : r \in Repositories}
NoIdentity == 0

Statuses == {"pass", "fail", "timeout", "skipped", "cached"}

\* The numbers an attempt can have: at most one attempt of a segment per run.
Attempts == 1 .. MaxRuns

\* A file with the output of one attempt, named after segment and attempt.
Files == Segments \X Attempts

\* `hidden`: written behind an entry that lacked its newline, on one line with
\* it, where parse_flat_object stops at the first closing brace. `clean` is not in
\* the journal: the segment was executed on an unmodified tree.
Entries ==
    [segment: Segments, attempt: Attempts, status: Statuses, identity: Identities,
     evidence: Files, hidden: BOOLEAN, clean: BOOLEAN]

\* `ending`: the journal ends with a newline, with an entry that lacks it, or
\* inside an entry. `segmentsDir`: the directory of the evidence exists.
Records ==
    [manifest: Identities \cup {NoIdentity}, journal: Seq(Entries),
     ending: {"whole", "open", "torn"},
     evidence: [Files -> Statuses \cup {"none", "partial"}],
     segmentsDir: BOOLEAN, summary: {"none", "empty", "partial", "sealed", "failed"}]

VARIABLES
    head, dirty,     \* the repository: its identity, changes in its tree
    records,         \* the records of the tier, in the order of their names
    run,             \* the run in progress
    runs, interruptions, changes, \* how many there were
    exit             \* the exit code of the last run that ended

vars == <<head, dirty, records, run, runs, interruptions, changes, exit>>

NewRecord(complete) ==
    [manifest |-> NoIdentity, journal |-> <<>>, ending |-> "whole",
     evidence |-> [f \in Files |-> "none"], segmentsDir |-> complete,
     summary |-> "none"]

\* `at` is the place in main::execute and Campaign::execute; `resume` the
\* argument, then the decision of select_record; `clean` the tree state as read;
\* the fields after `results` belong to the attempt under way.
Idle ==
    [at |-> "idle", identity |-> NoIdentity, resume |-> FALSE, clean |-> FALSE,
     results |-> <<>>, step |-> 0, elapsed |-> 0, child |-> "none",
     status |-> "pass"]

Init ==
    /\ head = 1
    /\ dirty = FALSE
    /\ records = <<>>
    /\ run = Idle
    /\ runs = 0 /\ interruptions = 0 /\ changes = 0
    /\ exit = "none"

-----------------------------------------------------------------------------
(* Status, RunRecord and the decisions of a campaign. *)

\* Mutant of Holds: a segment that did not run counts.
HoldsSkipped(status) == status \in {"pass", "cached", "skipped"}

Holds(status) == status \in {"pass", "cached"}

\* entries: the lines that parse, by their places in the journal; a torn line makes
\* the whole read fail.
Unreadable(r) == r.ending = "torn"
EntriesOf(r) == {k \in DOMAIN r.journal : ~r.journal[k].hidden}
EntriesFor(r, s) == {k \in EntriesOf(r) : r.journal[k].segment = s}

\* Mutant of AttemptsFor: only attempts that hold are counted.
AttemptsForHolding(r, s) ==
    Cardinality({k \in EntriesFor(r, s) : Holds(r.journal[k].status)})

AttemptsFor(r, s) == Cardinality(EntriesFor(r, s))

LastEntryFor(r, s) == r.journal[Max(EntriesFor(r, s))]

\* Mutant of NextSequence: one record too many.
NextSequenceUnbounded == Len(records) <= MAX_SEQUENCE

\* next_sequence: whether the date has a number left.
NextSequence == Len(records) + 1 <= MAX_SEQUENCE

\* Mutant of Continues: the identity of the record is not compared.
ContinuesAny(r, identity) == TRUE

\* select_record: a record holding results under another identity is left alone.
Continues(r, identity) ==
    EntriesOf(r) # {} => r.journal[Max(EntriesOf(r))].identity = identity

\* reusable
Reusable(r, s) ==
    /\ run.resume
    /\ EntriesFor(r, s) # {}
    /\ Holds(LastEntryFor(r, s).status)
    /\ LastEntryFor(r, s).identity = run.identity

SealState(finals, identity, clean) ==
    LET missing == {s \in Segments : \A i \in DOMAIN finals : finals[i].id # s}
        mismatched == {i \in DOMAIN finals : finals[i].identity # identity} IN
    IF \E i \in DOMAIN finals : ~Holds(finals[i].status) THEN "failed"
    ELSE IF missing = {} /\ mismatched = {} /\ clean THEN "sealed"
    ELSE "partial"

\* closes, and the exit code main makes of it.
Closes(finals, state) ==
    IF Tier = "gate" THEN state = "sealed"
    ELSE \A i \in DOMAIN finals : Holds(finals[i].status)

-----------------------------------------------------------------------------
(* One run. It always works on the last record: the one it creates, or the *)
(* latest.                                                                 *)

Current == records[Len(records)]
Segment == Required[Len(run.results) + 1]
Attempt == AttemptsFor(Current, Segment) + 1
Evidence == <<Segment, Attempt>>

\* The records, with r in the place of the current one.
With(r) == [records EXCEPT ![Len(records)] = r]
SetCurrent(r) == records' = With(r)
Output(content) == SetCurrent([Current EXCEPT !.evidence[Evidence] = content])

\* The run ends and reports `code`.
Ends(code) ==
    /\ run' = Idle
    /\ exit' = code

Repository == <<head, dirty>>
Counters == <<runs, interruptions, changes>>

\* main::execute up to the identity.
Start ==
    /\ run = Idle
    /\ runs < MaxRuns
    /\ runs' = runs + 1
    /\ \E resume \in BOOLEAN :
         run' = [Idle EXCEPT !.at = "select", !.identity = head, !.resume = resume]
    /\ exit' = "none"
    /\ UNCHANGED <<Repository, records, interruptions, changes>>

\* RunRecord::create
Create ==
    IF NextSequence
    THEN /\ records' = Append(records, NewRecord(TRUE))
         /\ run' = [run EXCEPT !.at = "tree", !.resume = FALSE]
         /\ UNCHANGED exit
    ELSE Ends("failure") /\ UNCHANGED records

Creates ==
    IF run.resume /\ records # <<>>
    THEN ~Unreadable(Current) /\ ~Continues(Current, run.identity)
    ELSE TRUE

SelectRecord ==
    /\ run.at = "select"
    /\ \/ Creates /\ Create
       \/ ~Creates /\ Unreadable(Current) /\ Ends("failure") /\ UNCHANGED records
       \/ /\ ~Creates /\ ~Unreadable(Current)
          /\ run' = [run EXCEPT !.at = "tree"]
          /\ UNCHANGED <<records, exit>>
    /\ UNCHANGED <<Repository, Counters>>

ReadTree ==
    /\ run.at = "tree"
    /\ run' = [run EXCEPT !.at = "manifest", !.clean = ~dirty]
    /\ UNCHANGED <<Repository, records, Counters, exit>>

WriteManifest ==
    /\ run.at = "manifest"
    /\ SetCurrent([Current EXCEPT !.manifest = run.identity])
    /\ run' = [run EXCEPT !.at = "segment"]
    /\ UNCHANGED <<Repository, Counters, exit>>

\* Without its directory the evidence file cannot be created.
Unrecorded == ~Current.segmentsDir /\ Ends("failure") /\ UNCHANGED records

\* segment::execute creates the evidence file and starts the first step. A
\* program that cannot be started is "bad" at once.
Execute ==
    \/ Unrecorded
    \/ /\ Current.segmentsDir
       /\ Output("partial")
       /\ \E child \in {"running", "bad"} :
            run' = [run EXCEPT !.at = "step", !.step = 1, !.child = child]
       /\ UNCHANGED exit

\* The loop of Campaign::execute: a prior result is reused, or an attempt
\* begins, with the probe of the capability the segment needs.
NextSegment ==
    /\ run.at = "segment"
    /\ \/ /\ Reusable(Current, Segment)
          /\ run' = [run EXCEPT !.at = "append", !.status = "cached"]
          /\ UNCHANGED <<records, exit>>
       \/ /\ ~Reusable(Current, Segment) /\ Segment \in Prerequisites
          /\ \E child \in {"running", "bad"} :
               run' = [run EXCEPT !.at = "probe", !.child = child]
          /\ UNCHANGED <<records, exit>>
       \/ /\ ~Reusable(Current, Segment) /\ Segment \notin Prerequisites
          /\ Execute
    /\ UNCHANGED <<Repository, Counters>>

\* segment::probe waits for its program without a limit; a capability that is
\* missing is recorded in place of the output.
ProbeEnds ==
    /\ run.at = "probe"
    /\ \/ run.child = "ok" /\ Execute
       \/ run.child = "bad" /\ Unrecorded
       \/ /\ run.child = "bad" /\ Current.segmentsDir
          /\ Output("skipped")
          /\ run' = [run EXCEPT !.at = "append", !.status = "skipped", !.child = "none"]
          /\ UNCHANGED exit
    /\ UNCHANGED <<Repository, Counters>>

\* The program of a probe or of a step ends.
ChildExits ==
    /\ run.at \in {"probe", "step"}
    /\ run.child = "running"
    /\ \E child \in {"ok", "bad"} : run' = [run EXCEPT !.child = child]
    /\ UNCHANGED <<Repository, records, Counters, exit>>

\* The attempt ends with `status`.
Outcome(status) ==
    /\ Output(status)
    /\ run' = [run EXCEPT !.at = "append", !.status = status, !.step = 0,
                          !.elapsed = 0, !.child = "none"]

\* A poll that finds a successful step: the last one passes the segment, the
\* next one starts unless the budget is exceeded.
StepPassed ==
    /\ run.child = "ok"
    /\ IF run.step = Steps[Segment] THEN Outcome("pass")
       ELSE IF run.elapsed > Budget THEN Outcome("timeout")
       ELSE /\ \E child \in {"running", "bad"} :
                  run' = [run EXCEPT !.step = @ + 1, !.child = child]
            /\ UNCHANGED records

StepFailed == run.child = "bad" /\ Outcome("fail")

\* A poll that finds the step running sleeps, for one interval or longer, or
\* kills it. The budget left to a step counts from its start, so that every
\* step ends when the segment has used up the budget.
Sleeps ==
    /\ run.elapsed < Budget
    /\ \E time \in 1 .. 2 : run' = [run EXCEPT !.elapsed = @ + time]
    /\ UNCHANGED records

\* Mutant of StepRunning: the budget is only looked at between two steps.
StepRunningUnlimited == run.child = "running" /\ Sleeps

StepRunning ==
    /\ run.child = "running"
    /\ Sleeps \/ (run.elapsed >= Budget /\ Outcome("timeout"))

Poll ==
    /\ run.at = "step"
    /\ StepPassed \/ StepFailed \/ StepRunning
    /\ UNCHANGED <<Repository, Counters, exit>>

\* journal_entry of the attempt's result, or of the prior one it reuses.
Entry ==
    LET prior == LastEntryFor(Current, Segment)
        cached == run.status = "cached" IN
    [segment |-> Segment, attempt |-> Attempt, status |-> run.status,
     identity |-> run.identity,
     evidence |-> IF cached THEN prior.evidence ELSE Evidence,
     hidden |-> Current.ending = "open",
     clean |-> IF cached THEN prior.clean ELSE run.clean]

AppendJournal ==
    LET results == Append(run.results, [id |-> Segment, status |-> run.status,
                                        identity |-> run.identity]) IN
    /\ run.at = "append"
    /\ SetCurrent([Current EXCEPT !.journal = Append(Current.journal, Entry),
                                  !.ending = "whole"])
    /\ run' = [run EXCEPT !.results = results, !.status = "pass",
                          !.at = IF Len(results) = Len(Required) THEN "summary"
                                 ELSE "segment"]
    /\ UNCHANGED <<Repository, Counters, exit>>

WriteSummary ==
    LET state == SealState(run.results, run.identity, run.clean) IN
    /\ run.at = "summary"
    /\ SetCurrent([Current EXCEPT !.summary = state])
    /\ Ends(IF Closes(run.results, state) THEN "success" ELSE "failure")
    /\ UNCHANGED <<Repository, Counters>>

-----------------------------------------------------------------------------
(* What surrounds the runs. *)

\* What the operation under way may have left when it is interrupted. Bytes
\* behind an entry that lacks its newline are never read.
LeftBehind ==
    {records} \cup
    CASE run.at = "select" /\ Creates /\ NextSequence ->
           {Append(records, NewRecord(FALSE))}
      [] run.at = "manifest" ->
           {With([Current EXCEPT !.manifest = NoIdentity])}
      [] run.at = "probe" /\ run.child = "bad" /\ Current.segmentsDir ->
           {With([Current EXCEPT !.evidence[Evidence] = "partial"])}
      [] run.at = "append" ->
           {With([Current EXCEPT !.journal = Append(Current.journal, Entry),
                                 !.ending = "open"])}
           \cup (IF Current.ending = "open" THEN {}
                 ELSE {With([Current EXCEPT !.ending = "torn"])})
      [] run.at = "summary" ->
           {With([Current EXCEPT !.summary = "empty"])}
      [] OTHER -> {}

Interrupt ==
    /\ run # Idle
    /\ interruptions < MaxInterruptions
    /\ interruptions' = interruptions + 1
    /\ records' \in LeftBehind
    /\ Ends("failure")
    /\ UNCHANGED <<Repository, runs, changes>>

\* Someone edits, reverts, commits or changes the toolchain, between two runs.
WorkOnRepository ==
    /\ run = Idle
    /\ changes < MaxChanges
    /\ changes' = changes + 1
    /\ \E r \in Repositories \ {Repository} : head' = r[1] /\ dirty' = r[2]
    /\ UNCHANGED <<records, run, runs, interruptions, exit>>

Runner ==
    \/ SelectRecord \/ ReadTree \/ WriteManifest
    \/ NextSegment \/ ProbeEnds \/ Poll \/ AppendJournal \/ WriteSummary

Next == Start \/ Runner \/ ChildExits \/ Interrupt \/ WorkOnRepository

\* The process of the runner is scheduled; a step or a probe may run for ever.
Spec == Init /\ [][Next]_vars /\ WF_run(Runner)

-----------------------------------------------------------------------------
(* Properties *)

\* Every record, file and run is of its type, and a date holds at most
\* MAX_SEQUENCE records.
TypeOK ==
    /\ head \in Identities /\ dirty \in BOOLEAN
    /\ records \in Seq(Records) /\ Len(records) <= MAX_SEQUENCE
    /\ run.at \in {"idle", "select", "tree", "manifest", "segment", "probe",
                   "step", "append", "summary"}
    /\ run.identity \in Identities \cup {NoIdentity}
    /\ run.elapsed \in 0 .. Budget + 1
    /\ Len(run.results) <= Len(Required)
    /\ runs \in 0 .. MaxRuns /\ interruptions \in 0 .. MaxInterruptions
    /\ changes \in 0 .. MaxChanges
    /\ exit \in {"none", "success", "failure"}

Journaled(r, test(_)) == \E k \in DOMAIN r.journal : test(r.journal[k])

\* Each required segment was executed and passed, under one identity, and the
\* journal of this record says so.
Backed(r) ==
    \E i \in Identities : \A s \in Segments :
        Journaled(r, LAMBDA e : e.segment = s /\ e.status = "pass" /\ e.identity = i)

\* However often runs were interrupted and resumed, a record that is sealed,
\* and a run that reports success, rest on executed passes of every required
\* segment: no chain of reused results (reuse) is without its beginning, and
\* nothing skipped, timed out or lost stands in for a pass (seal_state).
SealedIsBacked ==
    /\ \A k \in DOMAIN records : records[k].summary = "sealed" => Backed(records[k])
    /\ exit = "success" => Backed(Current)

\* What the file an entry names holds while nothing has overwritten it: the
\* output of that attempt, or of the passing one whose result was reused.
Kept(r, e) == r.evidence[e.evidence] = IF e.status = "cached" THEN "pass" ELSE e.status

\* An attempt takes the file of an earlier entry only when that entry cannot be
\* read.
OwnFiles(r) ==
    \A m, n \in DOMAIN r.journal :
        (/\ m < n /\ r.journal[n].status # "cached"
         /\ r.journal[m].evidence = r.journal[n].evidence) => r.journal[m].hidden

\* The evidence of every entry that can be read back is kept, and an attempt
\* takes the file of an earlier entry only when that entry cannot be read:
\* attempts number themselves by counting the entries they read (attempts_for),
\* so the numbers of these never collide. What happens to the others is the
\* subject of EarlierAttemptsKept.
EvidenceKept ==
    \A k \in DOMAIN records :
        LET r == records[k] IN
        /\ \A n \in EntriesOf(r) : Kept(r, r.journal[n])
        /\ OwnFiles(r)

\* All results in one record are under one identity, the one its manifest
\* states, unless an interruption emptied it (select_record: "a record that mixed
\* two identities could not state which one it proves").
OneIdentity ==
    \A k \in DOMAIN records :
        LET r == records[k] IN
        /\ \A e, f \in Range(r.journal) : e.identity = f.identity
        /\ \A e \in Range(r.journal) : r.manifest \in {e.identity, NoIdentity}

\* Again and again no run is in progress: a run ends, though a step may never end
\* by itself, because run_step stops it when the budget of the segment is used
\* up. Only the probe of a prerequisite, which has no budget, can keep a run for
\* ever, and only by never ending.
RunEnds == []<>(run = Idle) \/ <>[](run.at = "probe" /\ run.child = "running")

-----------------------------------------------------------------------------
(* What the documentation says and the code does not do. Each of these is  *)
(* refuted by a run of its own.                                            *)

\* The comment of append_journal says that a later attempt never edits or
\* removes an earlier one. An entry behind one that lost its newline is never
\* read, so the next run counts one attempt less, takes its number and writes
\* over its evidence.
EarlierAttemptsKept ==
    \A k \in DOMAIN records : \A n \in DOMAIN records[k].journal :
        Kept(records[k], records[k].journal[n])

\* CONTRIBUTING.md says that a campaign seals only when every required segment
\* passes "with a working tree that carries nothing the recorded revision does
\* not". The tree is read once per run and is not part of the identity, so that
\* passes on a modified tree are reused when the changes are gone.
SealedMeansClean ==
    \A k \in DOMAIN records : records[k].summary = "sealed" =>
        \A s \in Segments :
            Journaled(records[k],
                      LAMBDA e : e.segment = s /\ e.status = "pass" /\ e.clean)

=============================================================================
