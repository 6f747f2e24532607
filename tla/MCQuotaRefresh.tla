--------------------------- MODULE MCQuotaRefresh ---------------------------
(***************************************************************************)
(* Instances of QuotaRefresh for TLC.                                      *)
(***************************************************************************)
EXTENDS QuotaRefresh, TLC

Symmetry == Permutations(Proc)

\* Each import brings a new login, or all bring the same.
OwnTokens == [a \in Account |-> a]
SameToken == [a \in Account |-> NoAccount]

=============================================================================
