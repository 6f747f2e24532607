--------------------------- MODULE MCAccountFiles ---------------------------
(***************************************************************************)
(* Instances of AccountFiles for TLC: two workspaces, of one Notion user   *)
(* or of two, and tokens to import again with.                             *)
(***************************************************************************)
EXTENDS AccountFiles, TLC

CONSTANTS a1, a2, t1, t2, t3

\* Two workspaces of one user with two tokens, or of two users.
BothLogins ==
  { a1 :> 1 @@ a2 :> 1 @@ t1 :> 1 @@ t2 :> 1 @@ t3 :> 3,
    a1 :> 1 @@ a2 :> 2 @@ t1 :> 1 @@ t2 :> 2 @@ t3 :> 1 }

\* The calls that come together.
Together ==
  { {"import", "delete", "refresh", "reject"},
    {"register", "delete", "reject"},
    {"toggle", "refresh", "reject"},
    {"download", "restore", "delete"},
    {"restore", "import"},
    {"erase", "import"},
    {"erase", "register"} }

\* A rejected login alone, and, once the pool knows its directory, during a restore.
Rejects == { {"reject"} }
RejectsInRestore == { {"import", "reject", "restore"} }

\* A deletion of an account that is imported, or reloaded, at the same time.
Erases == { {"import", "erase"}, {"register", "erase"} }

\* The calls of the backup handler: one among imports, two among deletions.
Visits == [s \in Scenarios |-> IF "import" \in s THEN 1 ELSE 2]

\* Handlers are interchangeable.
Symmetry == Permutations(Handler)

=============================================================================
