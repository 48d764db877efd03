--------------------------- MODULE MCPresentation ---------------------------
(* Presentation with small sets of calls, for TLC.  Submissions are            *)
(* interchangeable, and the runs that say so check only safety properties.     *)
EXTENDS Presentation, TLC

SubmissionSymmetry == Permutations(Verifies)
=============================================================================
