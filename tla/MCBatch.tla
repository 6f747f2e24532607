------------------------------- MODULE MCBatch -------------------------------
(***************************************************************************)
(* An instance of BatchJobs for TLC, for the batch jobs alone.             *)
(***************************************************************************)
EXTENDS BatchJobs, TLC

CONSTANTS a1, a2, m1  \* two accounts, and the e-mail of both

Mails == a1 :> m1 @@ a2 :> m1
Sel == {{a1, m1}}
=============================================================================
