----------------------------- MODULE MCCampaign -----------------------------
(* Instances of Campaign for TLC.                                          *)
EXTENDS CampaignJournal

\* Two segments: one with two steps, one that needs a tool of the host.
MCRequired == <<"build", "fuzz">>
MCPrerequisites == {"fuzz"}
MCSteps == [s \in {"build", "fuzz"} |-> IF s = "build" THEN 2 ELSE 1]

\* A clean revision, and another one with changes; or one with and without.
TwoRevisions == {<<1, FALSE>>, <<2, TRUE>>}
OneRevision == {1} \X BOOLEAN

\* With everything that quote escapes, and a brace.
MCErrorText == <<"no such ", "\"", "}", "\\", "\n", "\r", "\t", CONTROL>>

=============================================================================
