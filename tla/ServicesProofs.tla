-------------------------- MODULE ServicesProofs --------------------------
(***************************************************************************)
(* Proofs about RequestHistory and UsageTotals, which the server keeps     *)
(* about the requests it has answered, and about the four services that    *)
(* MCServices puts side by side.                                           *)
(*                                                                         *)
(* RequestHistory: recorded rows are final, a flush loop that sleeps has   *)
(* saved them all, and rows that were cleared do not come back.  One       *)
(* inductive invariant, HInv, in four parts: the types; what is known of   *)
(* every row wherever it is kept (Final); what is known of the save in     *)
(* progress (Saves); where rows that are being cleared cannot be (Clears). *)
(* With it, lists keep their limits and usage is counted once.             *)
(*                                                                         *)
(* UsageTotals: the totals of the file never fall, and few days are kept.  *)
(*                                                                         *)
(* MCServices: side by side each service behaves as its specification      *)
(* says, so that the theorems about each hold there.                       *)
(***************************************************************************)
EXTENDS MCServices, BatchJobsProofs, AnswerStreamProofs, FiniteSetTheorems, SequenceTheorems, TLAPS

\* The flush loop is not a request of the dashboard.
HistoryAssumption == MaxEntries \in Nat /\ "flush" \notin Admin

Elems(s) == {s[i] : i \in DOMAIN s}
Attempts == Seq({"open", "completed", "error"})
Diagnostics == [attempts : Attempts, tokens : Nat, failed : BOOLEAN]
Snapshot == [at : Nat, rows : Seq(Row), renamed : BOOLEAN]

HistoryTypes ==
  /\ diagnostic \in [Request -> Diagnostics]
  /\ handler \in [Request -> {"new", "open", "over"}]
  /\ worker \in [Request -> {"idle", "calling", "counted", "gone"}]
  /\ entries \in Seq(Row) /\ historyFile \in Seq(Row)
  /\ revision \in Nat /\ savedAtRev \in Nat
  /\ saves \in [Saver -> Snapshot \cup {None}]
  /\ clearing \in [Admin -> (SUBSET Request) \cup {None}]
  /\ cleared \in SUBSET Request

SavedRows(s) == IF saves[s] = None THEN {} ELSE Elems(saves[s].rows)
AllRows == Elems(entries) \cup Elems(historyFile) \cup UNION {SavedRows(s) : s \in Saver}

\* No attempt of a row is open in the diagnostic it shares them with.
Shared(x) ==
  /\ DOMAIN x.attempts \subseteq DOMAIN diagnostic[x.id].attempts
  /\ \A i \in DOMAIN x.attempts : diagnostic[x.id].attempts[i] # "open"

Final ==
  /\ \A x \in AllRows : handler[x.id] = "over" /\ (worker[x.id] = "gone" \/ Shared(x))
  /\ \A x, y \in AllRows : x.id = y.id => x = y

SaveOK(s) ==
  saves[s] # None =>
    /\ savedAtRev <= saves[s].at /\ saves[s].at <= revision
    /\ saves[s].at = revision => saves[s].rows = entries
    /\ saves[s].renamed => historyFile = saves[s].rows

Saves ==
  /\ \A s, t \in Saver : saves[s] # None /\ saves[t] # None => s = t
  /\ savedAtRev <= revision
  /\ \A s \in Saver : SaveOK(s)
  /\ CleanHistoryIsOnDisk

Without(rows, ids) == \A x \in Elems(rows) : x.id \notin ids

Clears ==
  /\ \A r \in cleared : handler[r] = "over"
  /\ Without(entries, cleared) /\ Without(historyFile, cleared)
  /\ \A s \in Saver : saves[s] # None => Without(saves[s].rows, cleared)
  /\ \A a \in Admin : clearing[a] # None =>
       /\ \A r \in clearing[a] : handler[r] = "over"
       /\ Without(entries, clearing[a])
  /\ \A a \in Admin : saves[a] # None =>
       clearing[a] # None /\ Without(saves[a].rows, clearing[a])

HInv == HistoryTypes /\ Final /\ Saves /\ Clears
-----------------------------------------------------------------------------
(* Sequences. *)

LEMMA LastKeeps ==
  ASSUME NEW S, NEW s \in Seq(S), NEW n \in Nat
  PROVE  Last(n, s) \in Seq(S) /\ Elems(Last(n, s)) \subseteq Elems(s)
<1> DEFINE m == IF Len(s) > n THEN Len(s) - n + 1 ELSE 1
<1>1. m \in 1 .. Len(s) + 1 /\ Last(n, s) = SubSeq(s, m, Len(s))
  BY DEF Last
<1> HIDE DEF m
<1>2. \A i \in m .. Len(s) : s[i] \in S
  BY <1>1
<1>3. SubSeq(s, m, Len(s)) = [i \in 1 .. Len(s) - m + 1 |-> s[i + m - 1]]
  BY <1>1
<1>4. SubSeq(s, m, Len(s)) \in Seq(S)
  BY <1>1, <1>2
<1>5. ASSUME NEW i \in DOMAIN Last(n, s) PROVE Last(n, s)[i] \in Elems(s)
  <2>1. i \in 1 .. Len(s) - m + 1
    BY <1>1, <1>3
  <2>2. Last(n, s)[i] = s[i + m - 1] /\ i + m - 1 \in DOMAIN s
    BY <1>1, <1>3, <2>1
  <2> QED BY <2>2 DEF Elems
<1> QED BY <1>1, <1>4, <1>5 DEF Elems

LEMMA AppendAdds ==
  ASSUME NEW S, NEW s \in Seq(S), NEW x \in S
  PROVE  Append(s, x) \in Seq(S) /\ Elems(Append(s, x)) \subseteq Elems(s) \cup {x}
BY DEF Elems

LEMMA ElemsTyped ==
  ASSUME NEW S, NEW s \in Seq(S)
  PROVE  Elems(s) \subseteq S
BY DEF Elems

LEMMA IdsAreOfElems ==
  ASSUME NEW s
  PROVE  IdsOf(s) = {x.id : x \in Elems(s)}
BY DEF IdsOf, Elems

-----------------------------------------------------------------------------
(* The steps. *)

LEMMA RowsTyped == HistoryTypes => AllRows \subseteq Row
<1> SUFFICES ASSUME HistoryTypes PROVE AllRows \subseteq Row
  OBVIOUS
<1>1. Elems(entries) \subseteq Row /\ Elems(historyFile) \subseteq Row
  BY ElemsTyped DEF HistoryTypes
<1>2. ASSUME NEW s \in Saver PROVE SavedRows(s) \subseteq Row
  <2>1. CASE saves[s] = None
    BY <2>1 DEF SavedRows
  <2>2. CASE saves[s] # None
    <3>1. saves[s].rows \in Seq(Row)
      BY <2>2 DEF HistoryTypes, Snapshot
    <3> QED BY <2>2, <3>1, ElemsTyped DEF SavedRows
  <2> QED BY <2>1, <2>2
<1> QED BY <1>1, <1>2 DEF AllRows

\* The outcome of a late attempt is not written into a row.
LEMMA LateAttempt ==
  ASSUME HInv, NEW r \in Request, FinishAttempt(r)
  PROVE  entries' = entries
<1> DEFINE list == diagnostic[r].attempts
           open == {i \in DOMAIN list : list[i] = "open"}
           set(o, l) == [i \in DOMAIN l |-> IF i \in open /\ \A j \in open : j <= i THEN o ELSE l[i]]
<1>1. PICK o \in {"completed", "error"} :
        entries' = [i \in DOMAIN entries |->
                      IF entries[i].id = r THEN [entries[i] EXCEPT !.attempts = set(o, @)]
                      ELSE entries[i]]
  BY DEF FinishAttempt
<1>2. ASSUME NEW i \in DOMAIN entries, entries[i].id = r
      PROVE  [entries[i] EXCEPT !.attempts = set(o, @)] = entries[i]
  <2> DEFINE x == entries[i]
  <2>1. x \in Elems(entries) /\ x \in AllRows
    BY DEF Elems, AllRows
  <2>2. x \in Row
    BY <2>1, RowsTyped DEF HInv
  <2>3. Shared(x)
    <3>1. worker[r] = "counted"
      BY DEF FinishAttempt
    <3> QED BY <1>2, <2>1, <3>1 DEF HInv, Final
  <2>4. \A j \in DOMAIN x.attempts : j \notin open
    BY <1>2, <2>3 DEF Shared
  <2>5. x.attempts \in Attempts
    BY <2>2 DEF Row, Attempts
  <2>6. x.attempts = [j \in DOMAIN x.attempts |-> x.attempts[j]]
    BY <2>5 DEF Attempts
  <2>7. set(o, x.attempts) = x.attempts
    BY <2>4, <2>6
  <2> HIDE DEF x, set
  <2>8. [x EXCEPT !.attempts = x.attempts] = x
    BY <2>2 DEF Row
  <2> QED BY <2>7, <2>8 DEF x
<1> HIDE DEF set
<1>3. entries' = [i \in DOMAIN entries |-> entries[i]]
  BY <1>1, <1>2
<1> QED BY <1>3 DEF HInv, HistoryTypes

\* What Record does, for a status.
RowOf(r, failed) ==
  [id |-> r, attempts |-> Finish(diagnostic[r], failed).attempts,
   tokens |-> diagnostic[r].tokens, failed |-> failed]

RecordedAs(r, failed) ==
  /\ diagnostic' = [diagnostic EXCEPT ![r] = Finish(diagnostic[r], failed)]
  /\ entries' = Last(MaxEntries, Append(entries, RowOf(r, failed)))

LEMMA FinishTyped ==
  ASSUME HistoryTypes, NEW r \in Request, NEW failed \in BOOLEAN
  PROVE  /\ Finish(diagnostic[r], failed) \in Diagnostics
         /\ Finish(diagnostic[r], failed).tokens = diagnostic[r].tokens
         /\ DOMAIN Finish(diagnostic[r], failed).attempts = DOMAIN diagnostic[r].attempts
         /\ \A i \in DOMAIN diagnostic[r].attempts :
              Finish(diagnostic[r], failed).attempts[i] # "open"
<1> DEFINE d == diagnostic[r]
           ended == [i \in DOMAIN d.attempts |-> IF d.attempts[i] # "open" THEN d.attempts[i]
                                                 ELSE IF failed THEN "error" ELSE "completed"]
<1>1. d \in Diagnostics
  BY DEF HistoryTypes
<1>2. ended \in Attempts
  <2>1. d.attempts \in Attempts
    BY <1>1 DEF Diagnostics
  <2> HIDE DEF d
  <2>2. \A i \in 1 .. Len(d.attempts) : ended[i] \in {"open", "completed", "error"}
    BY <2>1 DEF Attempts
  <2>3. DOMAIN ended = 1 .. Len(d.attempts) /\ Len(d.attempts) \in Nat
    BY <2>1 DEF Attempts
  <2>4. ended \in [1 .. Len(d.attempts) -> {"open", "completed", "error"}]
    BY <2>2, <2>3
  <2> HIDE DEF ended
  <2> QED BY <2>3, <2>4, SeqDef DEF Attempts
<1>3. /\ DOMAIN ended = DOMAIN d.attempts
      /\ \A i \in DOMAIN d.attempts : ended[i] # "open"
  OBVIOUS
<1>4. Finish(d, failed) = [d EXCEPT !.failed = failed, !.attempts = ended]
  BY DEF Finish
<1> HIDE DEF d, ended
<1>5. Finish(d, failed) = [attempts |-> ended, tokens |-> d.tokens, failed |-> failed]
  BY <1>1, <1>4 DEF Diagnostics
<1> QED BY <1>1, <1>2, <1>3, <1>5 DEF d, Diagnostics

LEMMA RecordStep ==
  ASSUME HistoryTypes, NEW r \in Request, Record(r)
  PROVE  \E failed \in BOOLEAN : RecordedAs(r, failed)
<1>1. PICK failed \in BOOLEAN :
        LET d == Finish(diagnostic[r], failed)
        IN /\ diagnostic' = [diagnostic EXCEPT ![r] = d]
           /\ entries' = Last(MaxEntries, Append(entries, [id |-> r, attempts |-> d.attempts,
                                                           tokens |-> d.tokens, failed |-> failed]))
  BY DEF Record
<1>2. Finish(diagnostic[r], failed).tokens = diagnostic[r].tokens
  BY FinishTyped
<1> QED BY <1>1, <1>2 DEF RecordedAs, RowOf

LEMMA RecordedTyped ==
  ASSUME HistoryAssumption, HistoryTypes, NEW r \in Request, NEW failed \in BOOLEAN, RecordedAs(r, failed)
  PROVE  /\ diagnostic' \in [Request -> Diagnostics]
         /\ entries' \in Seq(Row)
         /\ RowOf(r, failed) \in Row
         /\ Elems(entries') \subseteq Elems(entries) \cup {RowOf(r, failed)}
<1>1. RowOf(r, failed) \in Row
  BY FinishTyped DEF RowOf, Row, Attempts, HistoryTypes, Diagnostics
<1>2. /\ Append(entries, RowOf(r, failed)) \in Seq(Row)
      /\ Elems(Append(entries, RowOf(r, failed))) \subseteq Elems(entries) \cup {RowOf(r, failed)}
  BY <1>1, AppendAdds DEF HistoryTypes
<1>3. /\ entries' \in Seq(Row)
      /\ Elems(entries') \subseteq Elems(Append(entries, RowOf(r, failed)))
  BY <1>2, LastKeeps DEF RecordedAs, HistoryAssumption
<1>4. diagnostic' \in [Request -> Diagnostics]
  BY FinishTyped DEF RecordedAs, HistoryTypes
<1> QED BY <1>1, <1>2, <1>3, <1>4

LEMMA SnapshotTyped ==
  ASSUME HistoryTypes, NEW s \in Saver, saves[s] # None
  PROVE  saves[s] \in Snapshot
BY DEF HistoryTypes

LEMMA TypesStep ==
  ASSUME HistoryAssumption, HInv, [Next]_vars
  PROVE  HistoryTypes'
<1> USE DEF HInv, HistoryTypes, request, history, saving, bounds
<1>1. CASE \E r \in Request : Open(r)
  BY <1>1 DEF Open
<1>2. ASSUME NEW r \in Request, BeginAttempt(r) PROVE HistoryTypes'
  <2>1. Append(diagnostic[r].attempts, "open") \in Attempts
    BY DEF Attempts, Diagnostics
  <2>2. [diagnostic[r] EXCEPT !.attempts = Append(diagnostic[r].attempts, "open")] \in Diagnostics
    BY <2>1 DEF Diagnostics
  <2>3. diagnostic' = [diagnostic EXCEPT ![r] = [diagnostic[r] EXCEPT !.attempts = Append(diagnostic[r].attempts, "open")]]
    BY <1>2 DEF BeginAttempt
  <2> QED BY <1>2, <2>2, <2>3 DEF BeginAttempt
<1>3. ASSUME NEW r \in Request, CountUsage(r) PROVE HistoryTypes'
  <2>1. diagnostic' \in [Request -> Diagnostics]
    <3>1. [diagnostic[r] EXCEPT !.tokens = diagnostic[r].tokens + 1] \in Diagnostics
      <4>1. diagnostic[r] \in Diagnostics
        OBVIOUS
      <4>2. diagnostic[r].tokens + 1 \in Nat
        BY <4>1 DEF Diagnostics
      <4> HIDE DEF HistoryTypes, HInv
      <4> QED BY <4>1, <4>2 DEF Diagnostics
    <3>2. \/ diagnostic' = [diagnostic EXCEPT ![r] = [diagnostic[r] EXCEPT !.tokens = diagnostic[r].tokens + 1]]
          \/ diagnostic' = diagnostic
      BY <1>3 DEF CountUsage
    <3> QED BY <3>1, <3>2
  <2> QED BY <1>3, <2>1 DEF CountUsage
<1>4. ASSUME NEW r \in Request, FinishAttempt(r) PROVE HistoryTypes'
  <2> DEFINE list == diagnostic[r].attempts
             open == {i \in DOMAIN list : list[i] = "open"}
             set(o) == [i \in DOMAIN list |-> IF i \in open /\ \A j \in open : j <= i THEN o ELSE list[i]]
  <2>1. PICK o \in {"completed", "error"} :
          diagnostic' = [diagnostic EXCEPT ![r].attempts = set(o)]
    BY <1>4 DEF FinishAttempt
  <2>2. list \in Attempts
    BY DEF Diagnostics
  <2>3. set(o) \in Attempts
    <3>1. \A i \in DOMAIN list : set(o)[i] \in {"open", "completed", "error"}
      BY <2>2 DEF Attempts
    <3>2. DOMAIN set(o) = 1 .. Len(list) /\ Len(list) \in Nat
      BY <2>2 DEF Attempts
    <3> HIDE DEF list
    <3> QED BY <3>1, <3>2 DEF Attempts
  <2> HIDE DEF set
  <2>4. diagnostic' \in [Request -> Diagnostics]
    <3>1. [diagnostic[r] EXCEPT !.attempts = set(o)] \in Diagnostics
      BY <2>3 DEF Diagnostics
    <3>2. diagnostic' = [diagnostic EXCEPT ![r] = [diagnostic[r] EXCEPT !.attempts = set(o)]]
      BY <2>1
    <3> QED BY <3>1, <3>2
  <2>5. entries' = entries
    BY <1>4, LateAttempt
  <2> QED BY <1>4, <2>4, <2>5 DEF FinishAttempt
<1>5. CASE \E r \in Request : Leave(r)
  BY <1>5 DEF Leave
<1>6. ASSUME NEW r \in Request, Record(r) PROVE HistoryTypes'
  <2>1. PICK failed \in BOOLEAN : RecordedAs(r, failed)
    BY <1>6, RecordStep
  <2>2. diagnostic' \in [Request -> Diagnostics] /\ entries' \in Seq(Row)
    BY <2>1, RecordedTyped
  <2>3. handler' \in [Request -> {"new", "open", "over"}]
    BY <1>6 DEF Record
  <2>4. worker' \in [Request -> {"idle", "calling", "counted", "gone"}]
    BY <1>6 DEF Record
  <2>5. UNCHANGED <<historyFile, savedAtRev, saves, clearing, cleared>> /\ revision' = revision + 1
    BY <1>6 DEF Record
  <2> QED BY <2>2, <2>3, <2>4, <2>5
<1>7. ASSUME NEW a \in Admin, Clear(a) PROVE HistoryTypes'
  <2>1. IdsOf(entries) \in SUBSET Request
    <3>1. Elems(entries) \subseteq Row
      BY ElemsTyped
    <3> QED BY <3>1, IdsAreOfElems DEF Row
  <2>2. <<>> \in Seq(Row)
    OBVIOUS
  <2> QED BY <1>7, <2>1, <2>2 DEF Clear
<1>8. ASSUME NEW s \in Saver, BeginSave(s) PROVE HistoryTypes'
  <2>1. [at |-> revision, rows |-> entries, renamed |-> FALSE] \in Snapshot
    BY DEF Snapshot
  <2> QED BY <1>8, <2>1 DEF BeginSave
<1>9. ASSUME NEW s \in Saver, Rename(s) PROVE HistoryTypes'
  <2>1. saves[s] \in Snapshot
    BY <1>9, SnapshotTyped DEF Rename
  <2>2. [saves[s] EXCEPT !.renamed = TRUE] \in Snapshot
    BY <2>1 DEF Snapshot
  <2>3. saves' = [saves EXCEPT ![s] = [saves[s] EXCEPT !.renamed = TRUE]]
    BY <1>9 DEF Rename
  <2>4. saves[s].rows \in Seq(Row)
    BY <2>1 DEF Snapshot
  <2> QED BY <1>9, <2>2, <2>3, <2>4 DEF Rename
<1>10. ASSUME NEW s \in Saver, FailSave(s) PROVE HistoryTypes'
  <2>1. clearing' \in [Admin -> (SUBSET Request) \cup {None}]
    BY <1>10 DEF FailSave
  <2>2. saves' \in [Saver -> Snapshot \cup {None}]
    BY <1>10 DEF FailSave
  <2> QED BY <1>10, <2>1, <2>2 DEF FailSave
<1>11. ASSUME NEW s \in Saver, EndSave(s) PROVE HistoryTypes'
  <2>1. savedAtRev' \in Nat
    BY <1>11 DEF EndSave
  <2>2. cleared' \in SUBSET Request
    <3>1. CASE s \in Admin
      <4>1. clearing[s] # None
        BY <1>11, <3>1 DEF EndSave, Clears
      <4>2. clearing[s] \in SUBSET Request
        BY <3>1, <4>1
      <4> QED BY <1>11, <3>1, <4>2 DEF EndSave, Answer
    <3>2. CASE s \notin Admin
      BY <1>11, <3>2 DEF EndSave, Answer
    <3> QED BY <3>1, <3>2
  <2>3. clearing' \in [Admin -> (SUBSET Request) \cup {None}]
    BY <1>11 DEF EndSave, Answer
  <2>4. saves' \in [Saver -> Snapshot \cup {None}]
    BY <1>11 DEF EndSave, Answer
  <2> QED BY <1>11, <2>1, <2>2, <2>3, <2>4 DEF EndSave, Answer
<1>12. CASE Restart
  <2>1. NewDiagnostic \in Diagnostics
    BY DEF NewDiagnostic, Attempts, Diagnostics
  <2>2. handler' \in [Request -> {"new", "open", "over"}]
    BY <1>12 DEF Restart
  <2>3. clearing' \in [Admin -> (SUBSET Request) \cup {None}] /\ saves' \in [Saver -> Snapshot \cup {None}]
    BY <1>12 DEF Restart
  <2> QED BY <1>12, <2>1, <2>2, <2>3 DEF Restart
<1>13. CASE UNCHANGED vars
  BY <1>13 DEF vars
<1> QED BY <1>1, <1>2, <1>3, <1>4, <1>5, <1>6, <1>7, <1>8, <1>9, <1>10, <1>11, <1>12, <1>13 DEF Next

-----------------------------------------------------------------------------
(* Rows. *)

\* What is in none of the three places after a step was there before, or is the new row.
LEMMA RowsFrom ==
  ASSUME NEW E, Elems(entries)' \subseteq E, Elems(historyFile)' \subseteq E,
         \A s \in Saver : saves'[s] # None => Elems(saves'[s].rows) \subseteq E
  PROVE  AllRows' \subseteq E
BY DEF AllRows, SavedRows

LEMMA RowsKept ==
  ASSUME HInv, Next, \A r \in Request : ~Record(r)
  PROVE  AllRows' \subseteq AllRows
<1> DEFINE SavesIn(f) == \A s \in Saver : f[s] # None => Elems(f[s].rows) \subseteq AllRows
<1>1. Elems(entries) \subseteq AllRows /\ Elems(historyFile) \subseteq AllRows
  BY DEF AllRows
<1>2. SavesIn(saves)
  BY DEF AllRows, SavedRows
<1>3. saves \in [Saver -> Snapshot \cup {None}]
  BY DEF HInv, HistoryTypes
<1> HIDE DEF SavesIn
<1>4. CASE UNCHANGED <<entries, historyFile, saves>>
  BY <1>4 DEF AllRows, SavedRows
<1>5. CASE \E r \in Request : FinishAttempt(r)
  <2>1. UNCHANGED <<entries, historyFile, saves>>
    BY <1>5, LateAttempt DEF FinishAttempt, saving
  <2> QED BY <2>1, <1>4
<1>6. CASE \E a \in Admin : Clear(a)
  <2>1. Elems(entries)' \subseteq AllRows /\ UNCHANGED <<historyFile, saves>>
    BY <1>6 DEF Clear, Elems
  <2> QED BY <2>1, <1>1, <1>2, RowsFrom DEF SavesIn
<1>7. ASSUME NEW s \in Saver, BeginSave(s) PROVE AllRows' \subseteq AllRows
  <2>1. /\ UNCHANGED <<entries, historyFile>>
        /\ saves' = [saves EXCEPT ![s] = [at |-> revision, rows |-> entries, renamed |-> FALSE]]
    BY <1>7 DEF BeginSave, history
  <2>2. SavesIn(saves')
    BY <2>1, <1>1, <1>2, <1>3 DEF SavesIn
  <2> QED BY <2>1, <2>2, <1>1, RowsFrom DEF SavesIn
<1>8. ASSUME NEW s \in Saver, Rename(s) PROVE AllRows' \subseteq AllRows
  <2>1. /\ UNCHANGED entries /\ historyFile' = saves[s].rows /\ saves[s] # None
        /\ saves' = [saves EXCEPT ![s] = [saves[s] EXCEPT !.renamed = TRUE]]
    BY <1>8 DEF Rename
  <2>2. saves[s] \in Snapshot
    BY <2>1, <1>3
  <2>3. [saves[s] EXCEPT !.renamed = TRUE].rows = saves[s].rows
    BY <2>2 DEF Snapshot
  <2>4. SavesIn(saves')
    BY <2>1, <2>3, <1>2, <1>3 DEF SavesIn
  <2>5. Elems(historyFile)' \subseteq AllRows
    BY <2>1, <1>2 DEF SavesIn, Elems
  <2> QED BY <2>1, <2>4, <2>5, <1>1, RowsFrom DEF SavesIn
<1>9. ASSUME NEW s \in Saver, FailSave(s) \/ EndSave(s) PROVE AllRows' \subseteq AllRows
  <2>1. UNCHANGED <<entries, historyFile>> /\ saves' = [saves EXCEPT ![s] = None]
    BY <1>9 DEF FailSave, EndSave, Answer, history
  <2>2. SavesIn(saves')
    BY <2>1, <1>2, <1>3 DEF SavesIn
  <2> QED BY <2>1, <2>2, <1>1, RowsFrom DEF SavesIn
<1>10. CASE Restart
  <2>1. UNCHANGED historyFile /\ entries' = historyFile /\ saves' = [s \in Saver |-> None]
    BY <1>10 DEF Restart
  <2> QED BY <2>1, <1>1, RowsFrom DEF Elems
<1> QED BY <1>4, <1>5, <1>6, <1>7, <1>8, <1>9, <1>10
        DEF Next, Open, BeginAttempt, CountUsage, Leave, history, saving

LEMMA RowsRecorded ==
  ASSUME HistoryAssumption, HInv, NEW r \in Request, NEW failed \in BOOLEAN,
         Record(r), RecordedAs(r, failed)
  PROVE  AllRows' \subseteq AllRows \cup {RowOf(r, failed)}
<1>1. Elems(entries)' \subseteq AllRows \cup {RowOf(r, failed)}
  BY RecordedTyped DEF HInv, AllRows, Elems
<1>2. UNCHANGED <<historyFile, saves>>
  BY DEF Record, saving
<1> QED BY <1>1, <1>2 DEF AllRows, SavedRows

\* Known of a row: its handler is over, and no attempt of it can be written any more.
Closed(x) == handler[x.id] = "over" /\ (worker[x.id] = "gone" \/ Shared(x))

LEMMA FinishedAttempts ==
  ASSUME HistoryTypes, NEW r \in Request, FinishAttempt(r)
  PROVE  /\ \A q \in Request \ {r} : diagnostic'[q] = diagnostic[q]
         /\ DOMAIN diagnostic'[r].attempts = DOMAIN diagnostic[r].attempts
         /\ \A i \in DOMAIN diagnostic[r].attempts :
              diagnostic[r].attempts[i] # "open" => diagnostic'[r].attempts[i] # "open"
<1> DEFINE list == diagnostic[r].attempts
           open == {i \in DOMAIN list : list[i] = "open"}
           set(o) == [i \in DOMAIN list |-> IF i \in open /\ \A j \in open : j <= i THEN o ELSE list[i]]
<1>1. PICK o \in {"completed", "error"} :
        diagnostic' = [diagnostic EXCEPT ![r].attempts = set(o)]
  BY DEF FinishAttempt
<1>2. /\ DOMAIN set(o) = DOMAIN list
      /\ \A i \in DOMAIN list : list[i] # "open" => set(o)[i] # "open"
  BY <1>1
<1> HIDE DEF set, list
<1>3. diagnostic[r] \in Diagnostics
  BY DEF HistoryTypes
<1>4. diagnostic' = [diagnostic EXCEPT ![r] = [diagnostic[r] EXCEPT !.attempts = set(o)]]
  BY <1>1
<1>5. diagnostic'[r].attempts = set(o)
  BY <1>3, <1>4 DEF HistoryTypes, Diagnostics
<1> QED BY <1>2, <1>4, <1>5 DEF HistoryTypes, list

LEMMA ClosedKept ==
  ASSUME HInv, Next, \A r \in Request : ~Record(r)
  PROVE  \A x \in AllRows : Closed(x)'
<1> SUFFICES ASSUME NEW x \in AllRows PROVE Closed(x)'
  OBVIOUS
<1>1. x \in Row /\ x.id \in Request
  BY RowsTyped DEF HInv, Row
<1>2. Closed(x)
  BY DEF HInv, Final, Closed
<1>3. HistoryTypes
  BY DEF HInv
<1> USE DEF Closed, Shared
<1>4. CASE UNCHANGED <<diagnostic, handler, worker>>
  BY <1>2, <1>4
<1>5. ASSUME NEW r \in Request, Open(r) PROVE Closed(x)'
  BY <1>1, <1>2, <1>3, <1>5 DEF Open, HistoryTypes
<1>6. ASSUME NEW r \in Request, BeginAttempt(r) PROVE Closed(x)'
  <2>1. x.id # r => Closed(x)'
    BY <1>1, <1>2, <1>3, <1>6 DEF BeginAttempt, HistoryTypes
  <2>2. CASE x.id = r
    <3>1. Shared(x) /\ handler'[r] = "over"
      BY <1>2, <1>6, <2>2 DEF BeginAttempt
    <3>2. diagnostic[r] \in Diagnostics /\ diagnostic[r].attempts \in Attempts
      BY <1>3 DEF HistoryTypes, Diagnostics
    <3>3. diagnostic'[r].attempts = Append(diagnostic[r].attempts, "open")
      BY <1>3, <1>6, <3>2 DEF BeginAttempt, HistoryTypes, Diagnostics
    <3>4. /\ DOMAIN diagnostic[r].attempts \subseteq DOMAIN diagnostic'[r].attempts
          /\ \A i \in DOMAIN diagnostic[r].attempts :
               diagnostic'[r].attempts[i] = diagnostic[r].attempts[i]
      BY <3>2, <3>3 DEF Attempts
    <3> QED BY <2>2, <3>1, <3>4
  <2> QED BY <2>1, <2>2
<1>7. ASSUME NEW r \in Request, CountUsage(r) PROVE Closed(x)'
  <2>1. x.id # r => Closed(x)'
    BY <1>1, <1>2, <1>3, <1>7 DEF CountUsage, HistoryTypes
  <2>2. CASE x.id = r
    <3>1. Shared(x) /\ handler'[r] = "over"
      BY <1>2, <1>7, <2>2 DEF CountUsage
    <3>2. diagnostic[r] \in Diagnostics
      BY <1>3 DEF HistoryTypes
    <3>3. diagnostic'[r].attempts = diagnostic[r].attempts
      BY <1>3, <1>7, <3>2 DEF CountUsage, HistoryTypes, Diagnostics
    <3> QED BY <2>2, <3>1, <3>3
  <2> QED BY <2>1, <2>2
<1>8. ASSUME NEW r \in Request, FinishAttempt(r) PROVE Closed(x)'
  <2>1. /\ \A q \in Request \ {r} : diagnostic'[q] = diagnostic[q]
        /\ DOMAIN diagnostic'[r].attempts = DOMAIN diagnostic[r].attempts
        /\ \A i \in DOMAIN diagnostic[r].attempts :
             diagnostic[r].attempts[i] # "open" => diagnostic'[r].attempts[i] # "open"
    BY <1>3, <1>8, FinishedAttempts
  <2>2. handler' = handler /\ worker[r] = "counted" /\ worker' = [worker EXCEPT ![r] = "idle"]
    BY <1>8 DEF FinishAttempt
  <2>3. CASE x.id = r
    BY <1>2, <2>1, <2>2, <2>3
  <2>4. CASE x.id # r
    BY <1>1, <1>2, <1>3, <2>1, <2>2, <2>4 DEF HistoryTypes
  <2> QED BY <2>3, <2>4
<1>9. ASSUME NEW r \in Request, Leave(r) PROVE Closed(x)'
  BY <1>1, <1>2, <1>3, <1>9 DEF Leave, HistoryTypes
<1>10. CASE Restart
  BY <1>1, <1>2, <1>3, <1>10 DEF Restart, HistoryTypes
<1> QED BY <1>4, <1>5, <1>6, <1>7, <1>8, <1>9, <1>10
        DEF Next, Clear, BeginSave, Rename, FailSave, EndSave, Answer, request

LEMMA FinalStep ==
  ASSUME HistoryAssumption, HInv, [Next]_vars
  PROVE  Final'
<1>1. CASE Next /\ \A r \in Request : ~Record(r)
  <2>1. AllRows' \subseteq AllRows /\ \A x \in AllRows : Closed(x)'
    BY <1>1, RowsKept, ClosedKept
  <2> QED BY <2>1 DEF HInv, Final, Closed
<1>2. ASSUME NEW r \in Request, Record(r) PROVE Final'
  <2>1. PICK failed \in BOOLEAN : RecordedAs(r, failed)
    BY <1>2, RecordStep DEF HInv
  <2> PICK new : new = RowOf(r, failed)
    OBVIOUS
  <2>2. AllRows' \subseteq AllRows \cup {new}
    BY <1>2, <2>1, RowsRecorded
  <2>3. new.id = r /\ new.attempts = Finish(diagnostic[r], failed).attempts
    BY DEF RowOf
  <2>4. ASSUME NEW x \in AllRows PROVE x.id # r /\ Closed(x)'
    <3>1. x.id \in Request /\ Closed(x)
      BY RowsTyped DEF HInv, Row, Final, Closed
    <3>2. x.id # r
      BY <1>2, <3>1 DEF Record, Closed
    <3>3. /\ diagnostic'[x.id] = diagnostic[x.id] /\ handler'[x.id] = handler[x.id]
          /\ worker'[x.id] = worker[x.id]
      BY <1>2, <2>1, <3>1, <3>2 DEF Record, RecordedAs, HInv, HistoryTypes
    <3> QED BY <3>1, <3>2, <3>3 DEF Closed, Shared
  <2>5. Closed(new)'
    <3>1. handler'[r] = "over" /\ diagnostic'[r] = Finish(diagnostic[r], failed)
      BY <1>2, <2>1 DEF Record, RecordedAs, HInv, HistoryTypes
    <3>2. /\ DOMAIN new.attempts = DOMAIN diagnostic[r].attempts
          /\ \A i \in DOMAIN new.attempts : new.attempts[i] # "open"
      BY <2>3, FinishTyped DEF HInv
    <3>3. diagnostic'[r].attempts = new.attempts
      BY <2>3, <3>1
    <3> QED BY <2>3, <3>1, <3>2, <3>3 DEF Closed, Shared
  <2>6. \A x \in AllRows' : Closed(x)'
    BY <2>2, <2>4, <2>5
  <2>7. \A x, y \in AllRows' : x.id = y.id => x = y
    BY <2>2, <2>3, <2>4 DEF HInv, Final
  <2> QED BY <2>6, <2>7 DEF Final, Closed
<1>3. CASE UNCHANGED vars
  BY <1>3 DEF HInv, Final, AllRows, SavedRows, Shared, vars, request, history, saving
<1> QED BY <1>1, <1>2, <1>3

-----------------------------------------------------------------------------
(* Saves. *)

\* The parts of the state that Saves is about.
LEMMA SavesSame ==
  ASSUME Saves, UNCHANGED <<entries, historyFile, revision, savedAtRev, saves>>
  PROVE  Saves'
BY DEF Saves, SaveOK, CleanHistoryIsOnDisk

\* The rows change, and their revision with them.
LEMMA SavesGrow ==
  ASSUME HistoryTypes, Saves, revision' = revision + 1, UNCHANGED <<historyFile, savedAtRev, saves>>
  PROVE  Saves'
<1>1. revision \in Nat /\ savedAtRev \in Nat
  BY DEF HistoryTypes
<1>2. ASSUME NEW s \in Saver PROVE SaveOK(s)'
  <2>1. saves[s] # None => saves[s].at \in Nat
    BY SnapshotTyped DEF Snapshot
  <2> QED BY <1>1, <2>1 DEF Saves, SaveOK
<1>3. savedAtRev' < revision'
  BY <1>1 DEF Saves
<1> QED BY <1>1, <1>2, <1>3 DEF Saves, CleanHistoryIsOnDisk

LEMMA SavesStep ==
  ASSUME HInv, [Next]_vars
  PROVE  Saves'
<1>0. /\ HistoryTypes /\ Saves /\ revision \in Nat /\ savedAtRev \in Nat
      /\ saves \in [Saver -> Snapshot \cup {None}]
  BY DEF HInv, HistoryTypes
<1>1. CASE \E r \in Request : Open(r) \/ BeginAttempt(r) \/ CountUsage(r) \/ Leave(r)
  BY <1>0, <1>1, SavesSame DEF Open, BeginAttempt, CountUsage, Leave, history, saving
<1>2. ASSUME NEW r \in Request, FinishAttempt(r) PROVE Saves'
  BY <1>0, <1>2, LateAttempt, SavesSame DEF FinishAttempt, saving
<1>3. ASSUME NEW r \in Request, Record(r) PROVE Saves'
  BY <1>0, <1>3, SavesGrow DEF Record, saving
<1>4. ASSUME NEW a \in Admin, Clear(a) PROVE Saves'
  BY <1>0, <1>4, SavesGrow DEF Clear
<1>5. ASSUME NEW s \in Saver, BeginSave(s) PROVE Saves'
  <2> DEFINE copy == [at |-> revision, rows |-> entries, renamed |-> FALSE]
  <2>1. /\ \A t \in Saver : saves[t] = None
        /\ saves' = [saves EXCEPT ![s] = copy]
        /\ UNCHANGED <<entries, historyFile, revision, savedAtRev>>
    BY <1>5 DEF BeginSave, history
  <2>2. \A t \in Saver : saves'[t] # None => t = s
    BY <1>0, <2>1
  <2>3. saves'[s] = copy
    BY <1>0, <2>1
  <2>4. SaveOK(s)'
    BY <1>0, <2>1, <2>3 DEF SaveOK, Saves
  <2>5. \A t \in Saver : SaveOK(t)'
    BY <2>2, <2>4 DEF SaveOK
  <2> QED BY <1>0, <2>1, <2>2, <2>5 DEF Saves, CleanHistoryIsOnDisk
<1>6. ASSUME NEW s \in Saver, Rename(s) PROVE Saves'
  <2>1. /\ saves[s] # None /\ historyFile' = saves[s].rows
        /\ saves' = [saves EXCEPT ![s] = [saves[s] EXCEPT !.renamed = TRUE]]
        /\ UNCHANGED <<entries, revision, savedAtRev>>
    BY <1>6 DEF Rename
  <2>2. saves[s] \in Snapshot
    BY <1>0, <2>1
  <2>3. saves'[s].at = saves[s].at /\ saves'[s].rows = saves[s].rows
    BY <1>0, <2>1, <2>2 DEF Snapshot
  <2>4. \A t \in Saver : saves'[t] # None => t = s
    BY <1>0, <2>1 DEF Saves
  <2>5. SaveOK(s)'
    BY <1>0, <2>1, <2>3 DEF SaveOK, Saves
  <2>6. \A t \in Saver : SaveOK(t)'
    BY <2>4, <2>5 DEF SaveOK
  <2>7. CleanHistoryIsOnDisk'
    <3>1. saves[s].at \in Nat /\ savedAtRev <= saves[s].at /\ saves[s].at <= revision
      BY <1>0, <2>1, <2>2 DEF Snapshot, Saves, SaveOK
    <3>2. revision = savedAtRev => saves[s].at = revision
      BY <1>0, <3>1
    <3> QED BY <1>0, <2>1, <3>2 DEF Saves, SaveOK, CleanHistoryIsOnDisk
  <2> QED BY <1>0, <2>1, <2>4, <2>6, <2>7 DEF Saves
<1>7. ASSUME NEW s \in Saver, FailSave(s) PROVE Saves'
  <2>1. /\ saves' = [saves EXCEPT ![s] = None]
        /\ UNCHANGED <<entries, historyFile, revision, savedAtRev>>
    BY <1>7 DEF FailSave, history
  <2>2. \A t \in Saver : saves'[t] # None => saves'[t] = saves[t]
    BY <1>0, <2>1
  <2> QED BY <1>0, <2>1, <2>2 DEF Saves, SaveOK, CleanHistoryIsOnDisk
<1>8. ASSUME NEW s \in Saver, EndSave(s) PROVE Saves'
  <2>1. /\ saves[s] # None /\ saves[s].renamed
        /\ saves' = [saves EXCEPT ![s] = None]
        /\ savedAtRev' = IF revision = saves[s].at THEN revision ELSE savedAtRev
        /\ UNCHANGED <<entries, historyFile, revision>>
    BY <1>8 DEF EndSave, Answer
  <2>2. \A t \in Saver : saves'[t] = None
    BY <1>0, <2>1 DEF Saves
  <2>3. historyFile = saves[s].rows /\ (saves[s].at = revision => saves[s].rows = entries)
    BY <1>0, <2>1 DEF Saves, SaveOK
  <2> QED BY <1>0, <2>1, <2>2, <2>3 DEF Saves, SaveOK, CleanHistoryIsOnDisk
<1>9. CASE Restart
  <2>1. /\ entries' = historyFile /\ UNCHANGED historyFile /\ revision' = 0 /\ savedAtRev' = 0
        /\ \A t \in Saver : saves'[t] = None
    BY <1>9 DEF Restart
  <2> QED BY <2>1 DEF Saves, SaveOK, CleanHistoryIsOnDisk
<1>10. CASE UNCHANGED vars
  BY <1>0, <1>10, SavesSame DEF vars, history, saving
<1> QED BY <1>1, <1>2, <1>3, <1>4, <1>5, <1>6, <1>7, <1>8, <1>9, <1>10 DEF Next

-----------------------------------------------------------------------------
(* Clearings. *)

LEMMA ClearsSame ==
  ASSUME HistoryTypes, Clears, UNCHANGED <<entries, historyFile, saves, clearing, cleared>>,
         \A r \in Request : handler[r] = "over" => handler'[r] = "over"
  PROVE  Clears'
BY DEF Clears, Without, Elems, HistoryTypes

LEMMA ClearsStep ==
  ASSUME HistoryAssumption, HInv, [Next]_vars
  PROVE  Clears'
<1>0. /\ HistoryTypes /\ Clears
      /\ saves \in [Saver -> Snapshot \cup {None}]
      /\ clearing \in [Admin -> (SUBSET Request) \cup {None}]
      /\ Admin \subseteq Saver /\ "flush" \notin Admin
  BY DEF HInv, HistoryTypes, Saver, HistoryAssumption
<1>1. ASSUME NEW r \in Request, Open(r) PROVE Clears'
  <2>1. \A q \in Request : handler[q] = "over" => handler'[q] = "over"
    BY <1>0, <1>1 DEF Open, HistoryTypes
  <2> QED BY <1>0, <1>1, <2>1, ClearsSame DEF Open, history, saving
<1>2. CASE \E r \in Request : BeginAttempt(r) \/ CountUsage(r) \/ Leave(r)
  BY <1>0, <1>2, ClearsSame DEF BeginAttempt, CountUsage, Leave, history, saving
<1>3. ASSUME NEW r \in Request, FinishAttempt(r) PROVE Clears'
  BY <1>0, <1>3, LateAttempt, ClearsSame DEF FinishAttempt, saving
<1>4. ASSUME NEW r \in Request, Record(r) PROVE Clears'
  <2>1. PICK failed \in BOOLEAN : RecordedAs(r, failed)
    BY <1>0, <1>4, RecordStep
  <2> PICK new : new = RowOf(r, failed)
    OBVIOUS
  <2>2. Elems(entries') \subseteq Elems(entries) \cup {new} /\ new.id = r
    BY <1>0, <2>1, RecordedTyped DEF RowOf
  <2>3. \A q \in Request : handler[q] = "over" => q # r /\ handler'[q] = "over"
    BY <1>0, <1>4 DEF Record, HistoryTypes
  <2>4. r \notin cleared /\ \A a \in Admin : clearing[a] # None => r \notin clearing[a]
    BY <1>4 , <1>0 DEF Clears, Record
  <2>6. UNCHANGED <<historyFile, saves, clearing, cleared>>
    BY <1>4 DEF Record, saving
  <2>7. Without(entries, cleared)' /\ Without(historyFile, cleared)'
    BY <1>0, <2>2, <2>4, <2>6 DEF Clears, Without, Elems
  <2>8. ASSUME NEW a \in Admin, clearing'[a] # None
        PROVE  /\ \A q \in clearing'[a] : handler'[q] = "over"
               /\ Without(entries, clearing[a])'
    <3>1. /\ clearing[a] # None /\ clearing[a] \subseteq Request
          /\ \A q \in clearing[a] : handler[q] = "over"
          /\ Without(entries, clearing[a]) /\ r \notin clearing[a]
      BY <1>0, <2>4, <2>6, <2>8 DEF Clears
    <3> QED BY <2>2, <2>3, <2>6, <3>1 DEF Without
  <2>9. \A q \in cleared' : handler'[q] = "over"
    BY <1>0, <2>3, <2>6 DEF Clears, HistoryTypes
  <2> QED BY <1>0, <2>6, <2>7, <2>8, <2>9 DEF Clears, Without, Elems
<1>5. ASSUME NEW a \in Admin, Clear(a) PROVE Clears'
  <2>1. /\ clearing[a] = None /\ entries' = <<>>
        /\ clearing' = [clearing EXCEPT ![a] = IdsOf(entries)]
        /\ UNCHANGED <<handler, historyFile, saves, cleared>>
    BY <1>5 DEF Clear, request
  <2>2. Elems(entries)' = {}
    BY <2>1 DEF Elems
  <2>3. \A q \in IdsOf(entries) : handler[q] = "over"
    <3>1. \A x \in Elems(entries) : handler[x.id] = "over"
      BY DEF HInv, Final, AllRows
    <3> QED BY <3>1, IdsAreOfElems
  <2>4. \A b \in Admin : saves[b] # None => b # a
    BY <1>0, <2>1 DEF Clears
  <2>5. \A b \in Admin : b # a => clearing'[b] = clearing[b]
    BY <1>0, <2>1
  <2>6. clearing'[a] = IdsOf(entries)
    BY <1>0, <2>1
  <2>8. \A b \in Admin : clearing'[b] # None =>
          (\A q \in clearing'[b] : handler'[q] = "over") /\ Without(entries, clearing[b])'
    BY <1>0, <2>1, <2>3, <2>5, <2>6, <2>2 DEF Clears, Without
  <2>9. \A b \in Admin : saves'[b] # None =>
          clearing'[b] # None /\ Without(saves[b].rows, clearing[b])'
    BY <1>0, <2>1, <2>4, <2>5 DEF Clears, Without, Elems
  <2> QED BY <1>0, <2>1, <2>2, <2>8, <2>9 DEF Clears, Without, Elems
<1>6. ASSUME NEW s \in Saver, BeginSave(s) PROVE Clears'
  <2> DEFINE copy == [at |-> revision, rows |-> entries, renamed |-> FALSE]
  <2>1. /\ \A t \in Saver : saves[t] = None
        /\ Due(s) /\ saves' = [saves EXCEPT ![s] = copy]
        /\ UNCHANGED <<handler, entries, historyFile, clearing, cleared>>
    BY <1>6 DEF BeginSave, request, history
  <2>2. saves'[s].rows = entries /\ \A t \in Saver : saves'[t] # None => t = s
    BY <1>0, <2>1
  <2>3. Without(saves'[s].rows, cleared)
    BY <1>0, <2>2 DEF Clears
  <2>4. s \in Admin => clearing[s] # None /\ Without(saves'[s].rows, clearing[s])
    BY <1>0, <2>1, <2>2 DEF Clears, Due
  <2> QED BY <1>0, <2>1, <2>2, <2>3, <2>4 DEF Clears, Without, Elems
<1>7. ASSUME NEW s \in Saver, Rename(s) PROVE Clears'
  <2>1. /\ saves[s] # None /\ historyFile' = saves[s].rows
        /\ saves' = [saves EXCEPT ![s] = [saves[s] EXCEPT !.renamed = TRUE]]
        /\ UNCHANGED <<handler, entries, clearing, cleared>>
    BY <1>7 DEF Rename, request
  <2>2. saves[s] \in Snapshot
    BY <1>0, <2>1
  <2>3. saves'[s].rows = saves[s].rows
    BY <1>0, <2>1, <2>2 DEF Snapshot
  <2>4. \A t \in Saver : saves'[t] # None => saves[t] # None /\ saves'[t].rows = saves[t].rows
    BY <1>0, <2>1, <2>3
  <2>5. Without(historyFile, cleared)'
    BY <1>0, <2>1 DEF Clears, Without, Elems
  <2> QED BY <1>0, <2>1, <2>4, <2>5 DEF Clears, Without, Elems
<1>8. ASSUME NEW s \in Saver, FailSave(s) PROVE Clears'
  <2>1. /\ saves' = [saves EXCEPT ![s] = None]
        /\ clearing' = [a \in Admin |-> IF a = s THEN None ELSE clearing[a]]
        /\ UNCHANGED <<handler, entries, historyFile, cleared>>
    BY <1>8 DEF FailSave, request, history
  <2>2. \A t \in Saver : saves'[t] # None => t # s /\ saves'[t] = saves[t]
    BY <1>0, <2>1
  <2>3. \A a \in Admin : clearing'[a] # None => clearing'[a] = clearing[a]
    BY <1>0, <2>1
  <2>4. \A a \in Admin : a # s => clearing'[a] = clearing[a]
    BY <1>0, <2>1
  <2> QED BY <1>0, <2>1, <2>2, <2>3, <2>4 DEF Clears, Without, Elems
<1>9. ASSUME NEW s \in Saver, EndSave(s) PROVE Clears'
  <2>1. /\ saves[s] # None /\ saves[s].renamed /\ saves' = [saves EXCEPT ![s] = None]
        /\ clearing' = [a \in Admin |-> IF a = s THEN None ELSE clearing[a]]
        /\ cleared' = IF s \in Admin THEN cleared \cup clearing[s] ELSE cleared
        /\ UNCHANGED <<handler, entries, historyFile>>
    BY <1>9 DEF EndSave, Answer, request
  <2>2. \A t \in Saver : saves'[t] = None
    BY <1>0, <2>1 DEF HInv, Saves
  <2>3. historyFile = saves[s].rows
    BY <2>1 DEF HInv, Saves, SaveOK
  <2>4. s \in Admin => /\ \A r \in clearing[s] : handler[r] = "over"
                       /\ Without(entries, clearing[s]) /\ Without(historyFile, clearing[s])
    BY <1>0, <2>1, <2>3 DEF Clears
  <2>5. /\ \A r \in cleared' : handler[r] = "over"
        /\ Without(entries, cleared') /\ Without(historyFile, cleared')
    BY <1>0, <2>1, <2>4 DEF Clears, Without
  <2>6. \A a \in Admin : clearing'[a] # None => clearing'[a] = clearing[a]
    BY <1>0, <2>1
  <2> QED BY <1>0, <2>1, <2>2, <2>5, <2>6 DEF Clears, Without, Elems
<1>10. CASE Restart
  <2>1. /\ entries' = historyFile /\ UNCHANGED <<historyFile, cleared>>
        /\ \A t \in Saver : saves'[t] = None
        /\ \A a \in Admin : clearing'[a] = None
    BY <1>10 DEF Restart
  <2>2. \A r \in Request : handler[r] = "over" => handler'[r] = "over"
    BY <1>10 DEF Restart
  <2>3. cleared \subseteq Request
    BY <1>0 DEF HistoryTypes
  <2> QED BY <1>0, <2>1, <2>2, <2>3 DEF Clears, Without, Elems
<1>11. CASE UNCHANGED vars
  BY <1>0, <1>11, ClearsSame DEF vars, request, history, saving
<1> QED BY <1>1, <1>2, <1>3, <1>4, <1>5, <1>6, <1>7, <1>8, <1>9, <1>10, <1>11 DEF Next

-----------------------------------------------------------------------------
(* Theorems. *)

LEMMA HInvInit == Init => HInv
<1> SUFFICES ASSUME Init PROVE HInv
  OBVIOUS
<1> USE DEF Init
<1>1. Elems(entries) = {} /\ Elems(historyFile) = {} /\ \A s \in Saver : saves[s] = None
  BY DEF Elems
<1>2. NewDiagnostic \in Diagnostics /\ <<>> \in Seq(Row)
  BY DEF NewDiagnostic, Diagnostics, Attempts
<1>3. HistoryTypes
  BY <1>2 DEF HistoryTypes
<1>4. AllRows = {}
  BY <1>1 DEF AllRows, SavedRows
<1>5. Final
  BY <1>4 DEF Final
<1>6. Saves
  BY <1>1 DEF Saves, SaveOK, CleanHistoryIsOnDisk
<1>7. Clears
  BY <1>1 DEF Clears, Without, Saver
<1> QED BY <1>3, <1>5, <1>6, <1>7 DEF HInv

LEMMA HInvAlways == ASSUME HistoryAssumption PROVE Spec => []HInv
<1>1. HInv /\ [Next]_vars => HInv'
  BY TypesStep, FinalStep, SavesStep, ClearsStep DEF HInv
<1> QED BY <1>1, HInvInit, PTL DEF Spec

\* A history that is marked as saved is in the file, for any number of requests, of
\* dashboard requests that clear it, of failing writes and restarts.
THEOREM CleanIsSaved == ASSUME HistoryAssumption PROVE Spec => []CleanHistoryIsOnDisk
<1>1. HInv => CleanHistoryIsOnDisk
  BY DEF HInv, Saves
<1> QED BY <1>1, HInvAlways, PTL

\* Rows whose clearing was answered with ok never come back.
THEOREM ClearedForGood == ASSUME HistoryAssumption PROVE Spec => []ClearedStaysCleared
<1>1. HInv => ClearedStaysCleared
  BY IdsAreOfElems DEF HInv, Clears, Without, ClearedStaysCleared
<1> QED BY <1>1, HInvAlways, PTL

\* A row never changes once it is recorded, though a bridged call goes on to write the
\* attempts it shares with its row.
THEOREM RowsFinal == ASSUME HistoryAssumption PROVE Spec => RowsAreFinal
<1> DEFINE RowsSame == \A i \in DOMAIN entries, j \in DOMAIN entries' :
                     entries[i].id = entries'[j].id => entries[i] = entries'[j]
<1>1. HInv /\ [Next]_vars => [RowsSame]_vars
  <2> SUFFICES ASSUME HInv, Next,
                      NEW i \in DOMAIN entries, NEW j \in DOMAIN entries',
                      entries[i].id = entries'[j].id
               PROVE  entries[i] = entries'[j]
    BY DEF vars
  <2>1. entries[i] \in AllRows /\ entries'[j] \in AllRows'
    BY DEF AllRows, Elems
  <2>2. CASE \A r \in Request : ~Record(r)
    BY <2>1, <2>2, RowsKept DEF HInv, Final
  <2>3. ASSUME NEW r \in Request, Record(r) PROVE entries[i] = entries'[j]
    <3>1. PICK failed \in BOOLEAN : RecordedAs(r, failed)
      BY <2>3, RecordStep DEF HInv
    <3>2. AllRows' \subseteq AllRows \cup {RowOf(r, failed)}
      BY <2>3, <3>1, RowsRecorded
    <3>3. RowOf(r, failed).id = r /\ handler[entries[i].id] = "over" /\ handler[r] = "open"
      BY <2>1, <2>3 DEF RowOf, HInv, Final, Record
    <3>4. entries'[j] \in AllRows
      BY <2>1, <3>2, <3>3
    <3> QED BY <2>1, <3>4 DEF HInv, Final
  <2> QED BY <2>2, <2>3
<1> QED BY <1>1, HInvAlways, PTL DEF Spec, RowsAreFinal

-----------------------------------------------------------------------------
(* The sizes of the history. *)

\* A list keeps its limit, and usage is counted once for an attempt that was begun.
SmallLists ==
  /\ Len(entries) <= MaxEntries /\ Len(historyFile) <= MaxEntries
  /\ \A s \in Saver : saves[s] # None => Len(saves[s].rows) <= MaxEntries

Uncounted(w) == IF w = "calling" THEN 1 ELSE 0
CountedOnce(d, w) ==
  /\ Len(d.attempts) <= MaxAttempts
  /\ d.tokens + Uncounted(w) <= Len(d.attempts)
FewAttempts == \A r \in Request : CountedOnce(diagnostic[r], worker[r])

LEMMA LastFits ==
  ASSUME NEW S, NEW s \in Seq(S), NEW n \in Nat
  PROVE  Len(Last(n, s)) <= n
<1>1. Len(s) \in Nat
  OBVIOUS
<1>2. CASE Len(s) > n
  <2> DEFINE m == Len(s) - n + 1
  <2>1. Last(n, s) = SubSeq(s, m, Len(s)) /\ m \in 1 .. Len(s) + 1
    BY <1>1, <1>2 DEF Last
  <2>2. \A i \in m .. Len(s) : s[i] \in S
    BY <2>1
  <2>3. Len(SubSeq(s, m, Len(s))) = IF m <= Len(s) THEN Len(s) - m + 1 ELSE 0
    BY <1>1, <2>1, <2>2, SubSeqProperties
  <2> QED BY <1>1, <2>1, <2>3
<1>3. CASE ~(Len(s) > n)
  <2>1. Last(n, s) = SubSeq(s, 1, Len(s))
    BY <1>3 DEF Last
  <2>2. \A i \in 1 .. Len(s) : s[i] \in S
    OBVIOUS
  <2>3. Len(SubSeq(s, 1, Len(s))) = IF 1 <= Len(s) THEN Len(s) - 1 + 1 ELSE 0
    BY <1>1, <2>2, SubSeqProperties
  <2> QED BY <1>1, <1>3, <2>1, <2>3
<1> QED BY <1>2, <1>3

LEMMA ListsStep == ASSUME HistoryAssumption PROVE HInv /\ SmallLists /\ [Next]_vars => SmallLists'
<1> SUFFICES ASSUME HInv, SmallLists, [Next]_vars PROVE SmallLists'
  OBVIOUS
<1> USE DEF SmallLists
<1>1. MaxEntries \in Nat
  BY DEF HistoryAssumption
<1>2. ASSUME NEW r \in Request, Record(r) PROVE SmallLists'
  <2>1. PICK failed \in BOOLEAN : RecordedAs(r, failed)
    BY <1>2, RecordStep DEF HInv
  <2>2. Append(entries, RowOf(r, failed)) \in Seq(Row)
    BY <2>1, RecordedTyped, AppendAdds DEF HInv, HistoryTypes
  <2>3. Len(entries') <= MaxEntries
    BY <1>1, <2>1, <2>2, LastFits DEF RecordedAs
  <2> QED BY <1>2, <2>3 DEF Record, saving
<1>3. ASSUME NEW r \in Request, FinishAttempt(r) PROVE SmallLists'
  BY <1>3, LateAttempt DEF FinishAttempt, saving
<1>4. ASSUME NEW s \in Saver, BeginSave(s) PROVE SmallLists'
  <2> DEFINE x == [at |-> revision, rows |-> entries, renamed |-> FALSE]
  <2>1. saves' = [saves EXCEPT ![s] = x] /\ x.rows = entries
    BY <1>4 DEF BeginSave
  <2>2. UNCHANGED <<entries, historyFile>> /\ saves \in [Saver -> Snapshot \cup {None}]
    BY <1>4 DEF BeginSave, history, HInv, HistoryTypes
  <2> HIDE DEF x
  <2> QED BY <2>1, <2>2
<1>5. ASSUME NEW s \in Saver, Rename(s) PROVE SmallLists'
  <2>1. /\ historyFile' = saves[s].rows /\ UNCHANGED entries /\ saves[s] # None
        /\ saves' = [saves EXCEPT ![s].renamed = TRUE]
        /\ saves \in [Saver -> Snapshot \cup {None}]
    BY <1>5 DEF Rename, HInv, HistoryTypes
  <2>2. \A t \in Saver : saves'[t] # None => saves[t] # None /\ saves'[t].rows = saves[t].rows
    BY <2>1 DEF Snapshot
  <2> QED BY <2>1, <2>2
<1>6. ASSUME NEW s \in Saver, FailSave(s) \/ EndSave(s) PROVE SmallLists'
  BY <1>6 DEF FailSave, EndSave, Answer, history, HInv, HistoryTypes
<1>7. ASSUME NEW a \in Admin, Clear(a) PROVE SmallLists'
  <2>1. Len(entries') = 0 /\ UNCHANGED <<historyFile, saves>>
    BY <1>7 DEF Clear
  <2> QED BY <1>1, <2>1
<1>8. CASE Restart
  BY <1>8 DEF Restart
<1>9. ASSUME NEW r \in Request, Open(r) \/ BeginAttempt(r) \/ CountUsage(r) \/ Leave(r)
      PROVE  SmallLists'
  BY <1>9 DEF Open, BeginAttempt, CountUsage, Leave, history, saving
<1>10. CASE UNCHANGED vars
  BY <1>10 DEF vars, history, saving
<1> QED
  BY <1>2, <1>3, <1>4, <1>5, <1>6, <1>7, <1>8, <1>9, <1>10 DEF Next

LEMMA AttemptsAt ==
  ASSUME HistoryTypes, FewAttempts, NEW r \in Request, NEW d, NEW w, CountedOnce(d, w),
         diagnostic' = [diagnostic EXCEPT ![r] = d], worker' = [worker EXCEPT ![r] = w]
  PROVE  FewAttempts'
<1>1. /\ diagnostic'[r] = d /\ worker'[r] = w
      /\ \A q \in Request : q # r => diagnostic'[q] = diagnostic[q] /\ worker'[q] = worker[q]
  BY DEF HistoryTypes
<1>2. ASSUME NEW q \in Request PROVE CountedOnce(diagnostic'[q], worker'[q])
  <2>1. CASE q = r
    BY <1>1, <2>1
  <2>2. CASE q # r
    BY <1>1, <2>2 DEF FewAttempts
  <2> QED BY <2>1, <2>2
<1> QED BY <1>2 DEF FewAttempts

LEMMA AttemptsStep ==
  ASSUME HistoryAssumption, MaxAttempts \in Nat
  PROVE  HInv /\ FewAttempts /\ [Next]_vars => FewAttempts'
<1> SUFFICES ASSUME HInv, FewAttempts, [Next]_vars PROVE FewAttempts'
  OBVIOUS
<1>1. HistoryTypes
  BY DEF HInv
<1>2. ASSUME NEW r \in Request
      PROVE  /\ diagnostic[r] \in Diagnostics /\ Len(diagnostic[r].attempts) \in Nat
             /\ diagnostic[r].tokens \in Nat /\ CountedOnce(diagnostic[r], worker[r])
             /\ diagnostic = [diagnostic EXCEPT ![r] = diagnostic[r]]
             /\ worker = [worker EXCEPT ![r] = worker[r]]
  BY <1>1 DEF HistoryTypes, Diagnostics, Attempts, FewAttempts
<1>3. ASSUME NEW r \in Request, NEW w, w # "calling",
             diagnostic' = diagnostic, worker' = [worker EXCEPT ![r] = w]
      PROVE  FewAttempts'
  <2>1. CountedOnce(diagnostic[r], w)
    <3>1. Uncounted(worker[r]) \in {0, 1} /\ Uncounted(w) = 0
      BY <1>3 DEF Uncounted
    <3> QED BY <1>2, <3>1 DEF CountedOnce
  <2> QED BY <1>1, <1>2, <1>3, <2>1, AttemptsAt
<1>4. ASSUME NEW r \in Request, Open(r) \/ Leave(r) PROVE FewAttempts'
  BY <1>3, <1>4 DEF Open, Leave
<1>5. ASSUME NEW r \in Request, BeginAttempt(r) PROVE FewAttempts'
  <2> DEFINE d == [diagnostic[r] EXCEPT !.attempts = Append(diagnostic[r].attempts, "open")]
  <2>1. diagnostic' = [diagnostic EXCEPT ![r] = d] /\ worker' = [worker EXCEPT ![r] = "calling"]
    BY <1>5 DEF BeginAttempt
  <2>2. Len(d.attempts) = Len(diagnostic[r].attempts) + 1 /\ d.tokens = diagnostic[r].tokens
    BY <1>2 DEF Diagnostics, Attempts
  <2>3. Len(diagnostic[r].attempts) < MaxAttempts /\ worker[r] = "idle"
    BY <1>5 DEF BeginAttempt
  <2> HIDE DEF d
  <2>4. CountedOnce(d, "calling")
    BY <1>2, <2>2, <2>3 DEF CountedOnce, Uncounted
  <2> QED BY <1>1, <2>1, <2>4, AttemptsAt
<1>6. ASSUME NEW r \in Request, CountUsage(r) PROVE FewAttempts'
  <2>1. worker[r] = "calling" /\ worker' = [worker EXCEPT ![r] = "counted"]
    BY <1>6 DEF CountUsage
  <2>2. CASE diagnostic' = diagnostic
    BY <1>3, <2>1, <2>2
  <2>3. CASE diagnostic' = [diagnostic EXCEPT ![r].tokens = diagnostic[r].tokens + 1]
    <3> DEFINE d == [diagnostic[r] EXCEPT !.tokens = diagnostic[r].tokens + 1]
    <3>1. diagnostic' = [diagnostic EXCEPT ![r] = d]
      BY <2>3
    <3>2. d.attempts = diagnostic[r].attempts /\ d.tokens = diagnostic[r].tokens + 1
      BY <1>2 DEF Diagnostics
    <3> HIDE DEF d
    <3>3. CountedOnce(d, "counted")
      BY <1>2, <2>1, <3>2 DEF CountedOnce, Uncounted
    <3> QED BY <1>1, <2>1, <3>1, <3>3, AttemptsAt
  <2> QED BY <1>6, <2>2, <2>3 DEF CountUsage
<1>7. ASSUME NEW r \in Request, FinishAttempt(r) PROVE FewAttempts'
  <2> DEFINE list == diagnostic[r].attempts
             open == {i \in DOMAIN list : list[i] = "open"}
             set(o) == [i \in DOMAIN list |-> IF i \in open /\ \A j \in open : j <= i THEN o ELSE list[i]]
  <2>1. PICK o \in {"completed", "error"} :
          diagnostic' = [diagnostic EXCEPT ![r].attempts = set(o)]
    BY <1>7 DEF FinishAttempt
  <2> DEFINE d == [diagnostic[r] EXCEPT !.attempts = set(o)]
  <2>2. diagnostic' = [diagnostic EXCEPT ![r] = d] /\ worker' = [worker EXCEPT ![r] = "idle"]
    BY <1>7, <2>1 DEF FinishAttempt
  <2>3. DOMAIN set(o) = 1 .. Len(list) /\ Len(list) \in Nat
    BY <1>2 DEF Diagnostics, Attempts
  <2> HIDE DEF set
  <2>4. d.attempts = set(o) /\ d.tokens = diagnostic[r].tokens
    BY <1>2 DEF Diagnostics
  <2>5. Len(set(o)) = Len(list)
    BY <2>3
  <2> HIDE DEF d
  <2>6. CountedOnce(d, "idle")
    <3>1. worker[r] = "counted"
      BY <1>7 DEF FinishAttempt
    <3> QED BY <1>2, <2>4, <2>5, <3>1 DEF CountedOnce, Uncounted
  <2> QED BY <1>1, <2>2, <2>6, AttemptsAt
<1>8. ASSUME NEW r \in Request, Record(r) PROVE FewAttempts'
  <2>1. PICK failed \in BOOLEAN : RecordedAs(r, failed)
    BY <1>1, <1>8, RecordStep
  <2> DEFINE d == Finish(diagnostic[r], failed)
             w == IF r \in Bridged THEN worker[r] ELSE "gone"
  <2>2. diagnostic' = [diagnostic EXCEPT ![r] = d] /\ worker' = [worker EXCEPT ![r] = w]
    BY <1>8, <2>1 DEF RecordedAs, Record
  <2>3. /\ d \in Diagnostics /\ d.tokens = diagnostic[r].tokens
        /\ DOMAIN d.attempts = DOMAIN diagnostic[r].attempts
    BY <1>1, FinishTyped
  <2> HIDE DEF d
  <2>4. Len(d.attempts) = Len(diagnostic[r].attempts)
    BY <1>2, <2>3 DEF Diagnostics, Attempts
  <2>5. Uncounted(w) <= Uncounted(worker[r]) /\ Uncounted(w) \in {0, 1} /\ Uncounted(worker[r]) \in {0, 1}
    BY DEF Uncounted
  <2> HIDE DEF w
  <2>6. CountedOnce(d, w)
    BY <1>2, <2>3, <2>4, <2>5 DEF CountedOnce
  <2> QED BY <1>1, <2>2, <2>6, AttemptsAt
<1>9. CASE Restart
  <2>1. \A r \in Request : diagnostic'[r] = NewDiagnostic /\ worker'[r] = "gone"
    BY <1>9 DEF Restart
  <2>2. CountedOnce(NewDiagnostic, "gone")
    BY DEF CountedOnce, Uncounted, NewDiagnostic
  <2> QED BY <2>1, <2>2 DEF FewAttempts
<1>10. CASE UNCHANGED <<diagnostic, worker>>
  BY <1>10 DEF FewAttempts
<1>11. \/ \E r \in Request : \/ Open(r) \/ BeginAttempt(r) \/ CountUsage(r) \/ FinishAttempt(r)
                             \/ Leave(r) \/ Record(r)
       \/ Restart \/ UNCHANGED <<diagnostic, worker>>
  BY DEF Next, Clear, BeginSave, Rename, FailSave, EndSave, Answer, vars, request
<1> QED
  BY <1>4, <1>5, <1>6, <1>7, <1>8, <1>9, <1>10, <1>11

\* The history, its file and what is being saved keep their limit, and of an attempt that was
\* begun usage is counted once, in whatever order a late attempt of a bridged call ends.
THEOREM HistoryTypeCorrect ==
  ASSUME HistoryAssumption, MaxAttempts \in Nat
  PROVE  Spec => []TypeOK
<1>1. Init => SmallLists /\ FewAttempts
  BY DEF Init, SmallLists, FewAttempts, CountedOnce, Uncounted, NewDiagnostic, HistoryAssumption
<1>2. HInv /\ SmallLists /\ FewAttempts => TypeOK
  <2> SUFFICES ASSUME HInv, SmallLists, FewAttempts PROVE TypeOK
    OBVIOUS
  <2>1. ASSUME NEW r \in Request
        PROVE  Len(diagnostic[r].attempts) <= MaxAttempts /\ diagnostic[r].tokens \in 0 .. MaxAttempts
    <3>1. /\ Len(diagnostic[r].attempts) \in Nat /\ diagnostic[r].tokens \in Nat
          /\ CountedOnce(diagnostic[r], worker[r])
      BY DEF HInv, HistoryTypes, Diagnostics, Attempts, FewAttempts
    <3>2. Uncounted(worker[r]) \in {0, 1}
      BY DEF Uncounted
    <3> QED BY <3>1, <3>2 DEF CountedOnce
  <2> QED BY <2>1 DEF HInv, HistoryTypes, Saves, SmallLists, TypeOK
<1> QED
  BY <1>1, <1>2, ListsStep, AttemptsStep, HInvAlways, PTL DEF Spec

-----------------------------------------------------------------------------
(* The totals. *)

\* What a flush has copied lies between the file and the memory, until it is in the file.
FileBehind ==
  /\ total \in Nat /\ onDisk.total \in Nat /\ onDisk.total <= total
  /\ flushing # NoFlush => /\ flushing = [copy |-> flushing.copy, renamed |-> flushing.renamed]
                        /\ flushing.copy.total \in Nat
                        /\ onDisk.total <= flushing.copy.total
                        /\ flushing.copy.total <= total

LEMMA FileBehindStep == FileBehind /\ [TotalsNext]_totalsVars => FileBehind'
<1> SUFFICES ASSUME FileBehind, [TotalsNext]_totalsVars PROVE FileBehind'
  OBVIOUS
<1> USE DEF FileBehind
<1>1. CASE NextDay
  BY <1>1 DEF NextDay
<1>2. CASE RecordUsage
  BY <1>2 DEF RecordUsage
<1>3. CASE BeginFlush
  <2>1. flushing' = [copy |-> Copy, renamed |-> FALSE]
    BY <1>3 DEF BeginFlush
  <2>2. flushing'.copy.total = total
    BY <2>1 DEF Copy
  <2> QED BY <1>3, <2>2 DEF BeginFlush
<1>4. CASE RenameTotals
  <2>1. flushing' = [flushing EXCEPT !.renamed = TRUE] /\ flushing # NoFlush
    BY <1>4 DEF RenameTotals
  <2>2. onDisk'.total = flushing.copy.total /\ total' = total
    BY <1>4 DEF RenameTotals
  <2>3. flushing' = [copy |-> flushing.copy, renamed |-> TRUE]
    BY <2>1
  <2>4. flushing'.copy = flushing.copy /\ flushing'.renamed = TRUE
    BY <2>3
  <2>5. flushing' = [copy |-> flushing'.copy, renamed |-> flushing'.renamed]
    BY <2>3, <2>4
  <2> QED BY <2>1, <2>2, <2>4, <2>5
<1>5. CASE FailFlush
  BY <1>5 DEF FailFlush
<1>6. CASE MarkClean
  BY <1>6 DEF MarkClean
<1>7. CASE RestartTotals
  BY <1>7 DEF RestartTotals
<1>8. CASE UNCHANGED totalsVars
  BY <1>8 DEF totalsVars
<1> QED BY <1>1, <1>2, <1>3, <1>4, <1>5, <1>6, <1>7, <1>8 DEF TotalsNext

LEMMA FileBehindAlways == TotalsSpec => []FileBehind
<1>1. TotalsInit => FileBehind
  BY DEF TotalsInit, FileBehind, Copy
<1> QED BY <1>1, FileBehindStep, PTL DEF TotalsSpec

\* Whatever fails in a flush and wherever the process dies, the total in the file does not fall.
THEOREM FileNeverFalls == TotalsSpec => TotalsNeverFall
<1>1. FileBehind /\ [TotalsNext]_totalsVars => [onDisk'.total >= onDisk.total]_totalsVars
  <2> SUFFICES ASSUME FileBehind, [TotalsNext]_totalsVars PROVE onDisk'.total >= onDisk.total
    OBVIOUS
  <2>1. CASE RenameTotals
    BY <2>1 DEF RenameTotals, FileBehind
  <2>2. CASE onDisk' = onDisk
    BY <2>2 DEF FileBehind
  <2> QED
    BY <2>1, <2>2 DEF TotalsNext, NextDay, RecordUsage, BeginFlush, FailFlush, MarkClean, RestartTotals, totalsVars
<1> QED BY <1>1, FileBehindAlways, PTL DEF TotalsSpec, TotalsNeverFall

-----------------------------------------------------------------------------
(* The days. *)

LEMMA TrimBounds ==
  ASSUME RetainDays \in Nat, today \in Nat, NEW d, d \subseteq 1 .. today
  PROVE  /\ Trim(d) \subseteq d
         /\ IsFiniteSet(Trim(d)) /\ Cardinality(Trim(d)) <= RetainDays + 1
<1>1. IsFiniteSet(d) /\ Cardinality(d) \in Nat
  <2>1. IsFiniteSet(1 .. today)
    BY FS_Interval
  <2>2. IsFiniteSet(d)
    BY <2>1, FS_Subset
  <2> QED BY <2>2, FS_CardinalityType
<1>2. CASE Cardinality(d) <= RetainDays
  BY <1>1, <1>2 DEF Trim
<1>3. CASE ~(Cardinality(d) <= RetainDays)
  <2> DEFINE W == (today - RetainDays) .. today
  <2>1. Trim(d) \subseteq W /\ Trim(d) \subseteq d
    <3>1. Trim(d) = {k \in d : k >= today - RetainDays}
      BY <1>3 DEF Trim
    <3>2. \A k \in d : k \in Int /\ k <= today
      OBVIOUS
    <3>3. ASSUME NEW k \in Trim(d) PROVE k \in d /\ k \in W
      <4>1. k \in d /\ k >= today - RetainDays
        BY <3>1
      <4>2. k \in Int /\ k <= today /\ today - RetainDays \in Int
        BY <4>1, <3>2
      <4> QED BY <4>1, <4>2
    <3> QED BY <3>3
  <2>2. IsFiniteSet(W) /\ Cardinality(W) = RetainDays + 1
    BY FS_Interval
  <2> HIDE DEF W
  <2>3. IsFiniteSet(Trim(d)) /\ Cardinality(Trim(d)) <= Cardinality(W)
    BY <2>1, <2>2, FS_Subset
  <2> QED BY <2>1, <2>2, <2>3
<1> QED BY <1>2, <1>3

DaysKept ==
  /\ today \in Nat \ {0}
  /\ days \subseteq 1 .. today /\ Cardinality(days) <= RetainDays + 1
  /\ onDisk.days \subseteq 1 .. today
  /\ flushing # NoFlush => /\ flushing = [copy |-> flushing.copy, renamed |-> flushing.renamed]
                        /\ flushing.copy.days \subseteq 1 .. today

LEMMA DaysStep == ASSUME RetainDays \in Nat PROVE DaysKept /\ [TotalsNext]_totalsVars => DaysKept'
<1> SUFFICES ASSUME DaysKept, [TotalsNext]_totalsVars PROVE DaysKept'
  OBVIOUS
<1> USE DEF DaysKept
<1>1. CASE NextDay
  BY <1>1 DEF NextDay
<1>2. CASE RecordUsage
  <2>1. days \cup {today} \subseteq 1 .. today
    OBVIOUS
  <2> QED BY <1>2, <2>1, TrimBounds DEF RecordUsage
<1>3. CASE BeginFlush
  <2>1. flushing' = [copy |-> Copy, renamed |-> FALSE] /\ Copy.days = days
    BY <1>3 DEF BeginFlush, Copy
  <2> QED BY <1>3, <2>1 DEF BeginFlush
<1>4. CASE RenameTotals
  <2>1. flushing' = [flushing EXCEPT !.renamed = TRUE] /\ flushing # NoFlush
    BY <1>4 DEF RenameTotals
  <2>2. flushing' = [copy |-> flushing.copy, renamed |-> TRUE]
    BY <2>1
  <2>3. flushing'.copy = flushing.copy /\ flushing'.renamed = TRUE
    BY <2>2
  <2>4. flushing' = [copy |-> flushing'.copy, renamed |-> flushing'.renamed]
    BY <2>2, <2>3
  <2> QED BY <1>4, <2>1, <2>3, <2>4 DEF RenameTotals
<1>5. CASE FailFlush
  BY <1>5 DEF FailFlush
<1>6. CASE MarkClean
  BY <1>6 DEF MarkClean
<1>7. CASE RestartTotals
  BY <1>7, TrimBounds DEF RestartTotals
<1>8. CASE UNCHANGED totalsVars
  BY <1>8 DEF totalsVars
<1> QED BY <1>1, <1>2, <1>3, <1>4, <1>5, <1>6, <1>7, <1>8 DEF TotalsNext

\* However many days pass and whatever a restart loads, no more than RetainDays + 1 of
\* them are kept, and none of them lies in the future.
THEOREM FewDays ==
  ASSUME RetainDays \in Nat
  PROVE  TotalsSpec => [](Cardinality(days) <= RetainDays + 1 /\ days \subseteq 1 .. today)
<1>1. TotalsInit => DaysKept
  BY FS_EmptySet DEF TotalsInit, DaysKept, Copy
<1>2. DaysKept => Cardinality(days) <= RetainDays + 1 /\ days \subseteq 1 .. today
  BY DEF DaysKept
<1> QED BY <1>1, <1>2, DaysStep, PTL DEF TotalsSpec

\* What the types of the totals ask for beyond the two invariants above.
TotalsKept == total <= MaxTotal /\ today <= MaxDay

\* The totals and the days keep their types: no total in the file exceeds the one in memory.
THEOREM TotalsTypeCorrect ==
  ASSUME RetainDays \in Nat, MaxTotal \in Nat, MaxDay \in Nat \ {0}
  PROVE  TotalsSpec => []TotalsTypeOK
<1> DEFINE TotalsInv == FileBehind /\ DaysKept /\ TotalsKept /\ dirty \in BOOLEAN
<1>1. TotalsInit => TotalsInv
  <2> SUFFICES ASSUME TotalsInit PROVE TotalsInv
    OBVIOUS
  <2>1. FileBehind
    BY DEF TotalsInit, FileBehind, Copy
  <2>2. DaysKept
    BY FS_EmptySet DEF TotalsInit, DaysKept, Copy
  <2>3. total = 0 /\ today = 1 /\ dirty = FALSE
    BY DEF TotalsInit
  <2>4. TotalsKept
    BY <2>3 DEF TotalsKept
  <2> QED BY <2>1, <2>2, <2>3, <2>4
<1>2. TotalsInv /\ [TotalsNext]_totalsVars => TotalsInv'
  <2> SUFFICES ASSUME TotalsInv, [TotalsNext]_totalsVars PROVE TotalsInv'
    OBVIOUS
  <2>1. FileBehind' /\ DaysKept'
    BY FileBehindStep, DaysStep
  <2>2. dirty' \in BOOLEAN
    BY DEF TotalsNext, NextDay, RecordUsage, BeginFlush, RenameTotals, FailFlush, MarkClean,
           RestartTotals, totalsVars
  <2>3. today' <= MaxDay
    BY DEF TotalsNext, NextDay, RecordUsage, BeginFlush, RenameTotals, FailFlush, MarkClean,
           RestartTotals, totalsVars, DaysKept, TotalsKept
  <2>4. total' <= MaxTotal
    BY DEF TotalsNext, NextDay, RecordUsage, BeginFlush, RenameTotals, FailFlush, MarkClean,
           RestartTotals, totalsVars, FileBehind, TotalsKept
  <2> QED BY <2>1, <2>2, <2>3, <2>4 DEF TotalsKept
<1>3. TotalsInv => TotalsTypeOK
  <2> SUFFICES ASSUME TotalsInv PROVE TotalsTypeOK
    OBVIOUS
  <2>1. total \in 0 .. MaxTotal /\ onDisk.total <= total
    BY DEF FileBehind, TotalsKept
  <2>2. today \in 1 .. MaxDay /\ \A k \in 1 .. today : k \in 1 .. MaxDay
    BY DEF DaysKept, TotalsKept
  <2> QED BY <2>1, <2>2 DEF DaysKept, TotalsTypeOK
<1> QED
  BY <1>1, <1>2, <1>3, PTL DEF TotalsSpec

-----------------------------------------------------------------------------
(* The services side by side. *)

\* A step of the services is a step of the one in focus.
LEMMA ServicesStep ==
  [ServicesNext]_<<focus, batchVars, vars, totalsVars, answerVars>> =>
    [BatchNext]_batchVars /\ [Next]_vars /\ [TotalsNext]_totalsVars /\ [AnswerNext]_answerVars
<1> SUFFICES ASSUME [ServicesNext]_<<focus, batchVars, vars, totalsVars, answerVars>>
             PROVE  /\ [BatchNext]_batchVars /\ [Next]_vars
                    /\ [TotalsNext]_totalsVars /\ [AnswerNext]_answerVars
  OBVIOUS
<1>1. CASE In("batch") /\ BatchNext
  BY <1>1 DEF In
<1>2. CASE In("history") /\ Next
  BY <1>2 DEF In
<1>3. CASE In("totals") /\ TotalsNext
  BY <1>3 DEF In
<1>4. CASE In("answer") /\ AnswerNext
  BY <1>4 DEF In
<1>5. CASE UNCHANGED <<focus, batchVars, vars, totalsVars, answerVars>>
  BY <1>5
<1>6. ServicesNext => \/ In("batch") /\ BatchNext
                      \/ In("history") /\ Next
                      \/ In("totals") /\ TotalsNext
                      \/ In("answer") /\ AnswerNext
  <2> SUFFICES ASSUME ServicesNext
               PROVE  \/ In("batch") /\ BatchNext
                      \/ In("history") /\ Next
                      \/ In("totals") /\ TotalsNext
                      \/ In("answer") /\ AnswerNext
    OBVIOUS
  <2>1. focus = "batch" => In("batch") /\ BatchNext
    BY DEF ServicesNext, In, BatchNext
  <2>2. focus = "history" => In("history") /\ Next
    BY DEF ServicesNext, In, Next
  <2>3. focus = "totals" => In("totals") /\ TotalsNext
    BY DEF ServicesNext, In, TotalsNext
  <2>4. focus = "answer" => In("answer") /\ AnswerNext
    BY DEF ServicesNext, In, AnswerNext
  <2>5. focus \in {"batch", "history", "totals", "answer"}
    BY DEF ServicesNext, In
  <2> QED BY <2>1, <2>2, <2>3, <2>4, <2>5
<1> QED
  BY <1>1, <1>2, <1>3, <1>4, <1>5, <1>6

\* Each of the services that the instance for TLC puts side by side behaves as its own
\* specification says, so that what is proved of one holds of it there too.
THEOREM ServicesCompose == ServicesSpec => BatchSpec /\ Spec /\ TotalsSpec /\ AnswerSpec
<1>1. ServicesInit => BatchInit /\ Init /\ TotalsInit /\ AnswerInit
  BY DEF ServicesInit
<1> QED
  BY <1>1, ServicesStep, PTL DEF ServicesSpec, BatchSpec, Spec, TotalsSpec, AnswerSpec

\* One of the four is in focus.
Focused == focus \in Foci

\* All of them keep their types, whichever is in focus.
THEOREM ServicesTypeCorrect ==
  ASSUME HistoryAssumption, MaxAttempts \in Nat, RetainDays \in Nat, MaxTotal \in Nat,
         MaxDay \in Nat \ {0}, Foci \subseteq {"batch", "history", "totals", "answer"}
  PROVE  ServicesSpec => []TypesOK
<1>1. ServicesInit => Focused
  BY DEF ServicesInit, Focused
<1>2. Focused /\ [ServicesNext]_<<focus, batchVars, vars, totalsVars, answerVars>>
        => Focused'
  BY DEF ServicesNext, In, Focused
<1>3. Focused /\ BatchTypeOK /\ TypeOK /\ TotalsTypeOK /\ AnswerTypeOK => TypesOK
  BY DEF TypesOK, Focused
<1>4. BatchConstants
  BY BatchAssumption
<1>5. /\ BatchSpec => []BatchTypeOK
      /\ Spec => []TypeOK
      /\ TotalsSpec => []TotalsTypeOK
      /\ AnswerSpec => []AnswerTypeOK
  BY <1>4, BatchTypeCorrect, HistoryTypeCorrect, TotalsTypeCorrect, AnswerTypeCorrect
<1>6. ServicesSpec => [](Focused)
  BY <1>1, <1>2, PTL DEF ServicesSpec
<1>7. ServicesSpec => [](BatchTypeOK /\ TypeOK /\ TotalsTypeOK /\ AnswerTypeOK)
  BY <1>5, ServicesCompose, PTL
<1> QED
  BY <1>3, <1>6, <1>7, PTL

=============================================================================
