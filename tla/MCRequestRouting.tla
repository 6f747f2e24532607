-------------------------- MODULE MCRequestRouting --------------------------
(***************************************************************************)
(* Instances of RequestRouting for TLC: one login with two workspaces, a   *)
(* second login with a better plan, and new credentials for a workspace of *)
(* the first.                                                              *)
(***************************************************************************)
EXTENDS RequestRouting, TLC

CONSTANTS a1, a2, b1, c1, w1, w2, w3, la, lb, ta, tb, tc

Of(table) == [a \in Account |-> table[a]]

Workspaces == Of(a1 :> w1 @@ a2 :> w2 @@ b1 :> w3 @@ c1 :> w1)
Logins == Of(a1 :> la @@ a2 :> la @@ b1 :> lb @@ c1 :> la)
Tokens == Of(a1 :> ta @@ a2 :> ta @@ b1 :> tb @@ c1 :> tc)
Tiers == Of(a1 :> 1 @@ a2 :> 1 @@ b1 :> 2 @@ c1 :> 1)

Symmetry == Permutations(Request)

=============================================================================
