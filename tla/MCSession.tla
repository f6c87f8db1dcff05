----------------------------- MODULE MCSession -----------------------------
(* Instances of Session for TLC.                                           *)
EXTENDS Session, TLC

\* Calls are interchangeable, and so are closers.
Symmetry == Permutations(Calls) \cup Permutations(Closers)

=============================================================================
