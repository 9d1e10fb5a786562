--------------------------- MODULE MCSessionJobs ---------------------------
(***************************************************************************)
(* Instances of SessionJobs for TLC.                                       *)
(***************************************************************************)
EXTENDS SessionJobs, TLC

JobSymmetry == Permutations(Procs) \cup Permutations(Tasks) \cup Permutations(Names)
=============================================================================
