-------------------------- MODULE MCSessionManager --------------------------
(***************************************************************************)
(* Instances of SessionManager for TLC.                                    *)
(***************************************************************************)
EXTENDS SessionManager, TLC

\* Requests, session objects and accounts are interchangeable.
Symmetry == Permutations(Request) \cup Permutations(Session) \cup Permutations(Account)

=============================================================================
