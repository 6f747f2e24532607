------------------------- MODULE MCRegistrationJobs -------------------------
(***************************************************************************)
(* Instances of RegistrationJobs for TLC.                                  *)
(***************************************************************************)
EXTENDS RegistrationJobs, TLC

Symmetry == Permutations(Job) \cup Permutations(Stream)

=============================================================================
