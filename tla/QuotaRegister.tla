---------------------------- MODULE QuotaRegister ----------------------------
(***************************************************************************)
(* What the pool promises of the quota of a workspace, whoever checks it   *)
(* and however the answers overtake each other: a register that follows    *)
(* the checks in the order in which they were started.  A check that fails *)
(* or comes late leaves no trace, and a new import starts over.            *)
(***************************************************************************)
EXTENDS Naturals

CONSTANTS
  Object,   \* the imports of the workspace
  NoObject, \* the workspace is not in the pool
  Value     \* what is known of the quota

VARIABLES
  object, \* the import in the pool
  last,   \* the number of checks started
  newest, \* the check that answered and was started last
  value   \* its answer, or what the import brought

regVars == <<object, last, newest, value>>

Init ==
  /\ object = NoObject
  /\ last = 0 /\ newest = 0
  /\ value \in Value

\* An import, a deletion or a restore.
Replace ==
  /\ object' \in (Object \cup {NoObject}) \ {object}
  /\ last' = 0 /\ newest' = 0
  /\ value' \in Value

\* A check is started.
Ask ==
  /\ object # NoObject
  /\ last' = last + 1
  /\ UNCHANGED <<object, newest, value>>

\* A check answers that was started after the newest one.
Answer ==
  /\ object # NoObject
  /\ newest' \in (newest + 1) .. last
  /\ value' \in Value
  /\ UNCHANGED <<object, last>>

Next == Replace \/ Ask \/ Answer

Spec == Init /\ [][Next]_regVars

==============================================================================
