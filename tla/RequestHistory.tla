--------------------------- MODULE RequestHistory ---------------------------
(***************************************************************************)
(* The history of requests (internal/proxy/request_history.go): the        *)
(* diagnostic of a request, the rows, their flush loop and their clearing. *)
(*                                                                         *)
(* The goroutine behind the OpenAI bridge fills in the diagnostic too, and *)
(* may outlive the handler that records the row.  A row shares its list of *)
(* attempts with the diagnostic.                                           *)
(***************************************************************************)
EXTENDS Integers, Sequences

CONSTANTS
  Request,     \* the requests
  Bridged,     \* the streamed OpenAI requests: their call runs in a goroutine
  Admin,       \* the dashboard requests that clear the history
  None,        \* nobody, nothing
  MaxEntries,  \* maxEntries of the history
  MaxAttempts, \* bound on the attempts of a request
  MaxClears,   \* bound on the clearings
  MaxFaults    \* bound on the writes that fail and the restarts

VARIABLES
  diagnostic,  \* RequestDiagnostic of every request
  handler,     \* the handler of a request: "new", "open", "over"
  worker,      \* who calls upstream for it: "idle", "calling", "counted" or "gone"
  entries,     \* the rows in memory
  revision, savedAtRev,
  historyFile, \* the rows on disk
  saves,       \* saver -> its snapshot of the rows under saveMu, or None
  clearing,    \* admin -> the rows it has cleared and not answered for, or None
  cleared,     \* the rows of the clearings that were answered with ok
  clears, faults  \* bounds

request == <<diagnostic, handler, worker>>
history == <<entries, revision, savedAtRev, historyFile>>
saving == <<saves, clearing, cleared>>
bounds == <<clears, faults>>
vars == <<request, history, saving, bounds>>

Saver == Admin \cup {"flush"}
NewDiagnostic == [attempts |-> <<>>, tokens |-> 0, failed |-> FALSE]
IdsOf(rows) == {rows[i].id : i \in DOMAIN rows}
Last(n, rows) == SubSeq(rows, IF Len(rows) > n THEN Len(rows) - n + 1 ELSE 1, Len(rows))

Row == [id : Request, attempts : Seq({"open", "completed", "error"}), tokens : Nat, failed : BOOLEAN]

TypeOK ==
  /\ \A r \in Request : /\ Len(diagnostic[r].attempts) <= MaxAttempts
                        /\ diagnostic[r].tokens \in 0 .. MaxAttempts
  /\ handler \in [Request -> {"new", "open", "over"}]
  /\ worker \in [Request -> {"idle", "calling", "counted", "gone"}]
  /\ entries \in Seq(Row) /\ historyFile \in Seq(Row)
  /\ Len(entries) <= MaxEntries /\ Len(historyFile) <= MaxEntries
  /\ savedAtRev <= revision

Init ==
  /\ diagnostic = [r \in Request |-> NewDiagnostic]
  /\ handler = [r \in Request |-> "new"] /\ worker = [r \in Request |-> "gone"]
  /\ entries = <<>> /\ revision = 0 /\ savedAtRev = 0 /\ historyFile = <<>>
  /\ saves = [s \in Saver |-> None] /\ clearing = [a \in Admin |-> None] /\ cleared = {}
  /\ clears = 0 /\ faults = 0

-----------------------------------------------------------------------------
(* Requests. *)

\* TrackRequestHistory wraps the handler; a bridged call is started in a goroutine.
Open(r) ==
  /\ handler[r] = "new"
  /\ handler' = [handler EXCEPT ![r] = "open"] /\ worker' = [worker EXCEPT ![r] = "idle"]
  /\ UNCHANGED <<diagnostic, history, saving, bounds>>

BeginAttempt(r) ==
  /\ worker[r] = "idle" /\ Len(diagnostic[r].attempts) < MaxAttempts
  /\ diagnostic' = [diagnostic EXCEPT ![r].attempts = Append(@, "open")]
  /\ worker' = [worker EXCEPT ![r] = "calling"]
  /\ UNCHANGED <<handler, history, saving, bounds>>

\* recordCompletedAttemptUsage, if usage was reported.
CountUsage(r) ==
  /\ worker[r] = "calling"
  /\ worker' = [worker EXCEPT ![r] = "counted"]
  /\ \/ diagnostic' = [diagnostic EXCEPT ![r].tokens = @ + 1]
     \/ UNCHANGED diagnostic
  /\ UNCHANGED <<handler, history, saving, bounds>>

\* The last attempt that is open gets the outcome; a row that shares the list sees it.
FinishAttempt(r) ==
  /\ worker[r] = "counted"
  /\ worker' = [worker EXCEPT ![r] = "idle"]
  /\ \E outcome \in {"completed", "error"} :
       LET list == diagnostic[r].attempts
           open == {i \in DOMAIN list : list[i] = "open"}
           set(l) == [i \in DOMAIN l |-> IF i \in open /\ \A j \in open : j <= i THEN outcome ELSE l[i]]
       IN /\ diagnostic' = [diagnostic EXCEPT ![r].attempts = set(@)]
          /\ entries' = [i \in DOMAIN entries |->
                           IF entries[i].id = r THEN [entries[i] EXCEPT !.attempts = set(@)]
                           ELSE entries[i]]
  /\ UNCHANGED <<handler, revision, savedAtRev, historyFile, saving, bounds>>

\* The call is answered.
Leave(r) ==
  /\ worker[r] = "idle"
  /\ worker' = [worker EXCEPT ![r] = "gone"]
  /\ UNCHANGED <<diagnostic, handler, history, saving, bounds>>

FinishOpen(d, failed) == [d EXCEPT !.failed = failed]

\* finish: the status is fixed, the attempts that are open end with it.
Finish(d, failed) ==
  [d EXCEPT !.failed = failed,
            !.attempts = [i \in DOMAIN @ |-> IF @[i] # "open" THEN @[i]
                                             ELSE IF failed THEN "error" ELSE "completed"]]

\* The handler returns or panics, and its row is recorded.  A bridged call may go on: the
\* client is gone, or a frame could not be mapped.
Record(r) ==
  /\ handler[r] = "open"
  /\ \E failed \in BOOLEAN :
       LET d == Finish(diagnostic[r], failed)
       IN /\ failed \/ worker[r] = "gone" \/ r \in Bridged
          /\ diagnostic' = [diagnostic EXCEPT ![r] = d]
          /\ entries' = Last(MaxEntries, Append(entries, [id |-> r, attempts |-> d.attempts,
                                                          tokens |-> d.tokens, failed |-> failed]))
  /\ handler' = [handler EXCEPT ![r] = "over"]
  /\ worker' = [worker EXCEPT ![r] = IF r \in Bridged THEN @ ELSE "gone"]
  /\ revision' = revision + 1
  /\ UNCHANGED <<savedAtRev, historyFile, saving, bounds>>

-----------------------------------------------------------------------------
(* The history is saved by its flush loop and by the handler that clears it. *)

\* HandleAdminRequestHistory, DELETE.
Clear(a) ==
  /\ clearing[a] = None /\ clears < MaxClears
  /\ clears' = clears + 1
  /\ clearing' = [clearing EXCEPT ![a] = IdsOf(entries)]
  /\ entries' = <<>> /\ revision' = revision + 1
  /\ UNCHANGED <<request, savedAtRev, historyFile, saves, cleared, faults>>

Due(s) == IF s = "flush" THEN revision # savedAtRev ELSE clearing[s] # None

BeginSaveUnlocked(s) ==
  /\ saves[s] = None /\ Due(s)
  /\ saves' = [saves EXCEPT ![s] = [at |-> revision, rows |-> entries, renamed |-> FALSE]]
  /\ UNCHANGED <<request, history, clearing, cleared, bounds>>

\* Save: saveMu is taken, revision and rows are copied.
BeginSave(s) ==
  /\ \A t \in Saver : saves[t] = None
  /\ Due(s)
  /\ saves' = [saves EXCEPT ![s] = [at |-> revision, rows |-> entries, renamed |-> FALSE]]
  /\ UNCHANGED <<request, history, clearing, cleared, bounds>>

\* The temporary file is renamed.
Rename(s) ==
  /\ saves[s] # None /\ ~saves[s].renamed
  /\ historyFile' = saves[s].rows
  /\ saves' = [saves EXCEPT ![s].renamed = TRUE]
  /\ UNCHANGED <<request, entries, revision, savedAtRev, clearing, cleared, bounds>>

\* Writing or renaming fails; a DELETE is answered with 500, the loop comes back to it.
FailSave(s) ==
  /\ saves[s] # None /\ ~saves[s].renamed /\ faults < MaxFaults
  /\ faults' = faults + 1
  /\ saves' = [saves EXCEPT ![s] = None]
  /\ clearing' = [a \in Admin |-> IF a = s THEN None ELSE clearing[a]]
  /\ UNCHANGED <<request, history, cleared, clears>>

Answer(s) ==
  /\ saves' = [saves EXCEPT ![s] = None]
  /\ clearing' = [a \in Admin |-> IF a = s THEN None ELSE clearing[a]]
  /\ cleared' = IF s \in Admin THEN cleared \cup clearing[s] ELSE cleared
  /\ UNCHANGED <<request, entries, revision, historyFile, bounds>>

EndSaveAlways(s) ==
  /\ saves[s] # None /\ saves[s].renamed
  /\ savedAtRev' = revision
  /\ Answer(s)

\* Only rows that have not changed since are marked as saved.
EndSave(s) ==
  /\ saves[s] # None /\ saves[s].renamed
  /\ savedAtRev' = IF revision = saves[s].at THEN revision ELSE savedAtRev
  /\ Answer(s)

\* The process dies and starts again; nothing is flushed on the way down.
Restart ==
  /\ faults < MaxFaults
  /\ faults' = faults + 1
  /\ diagnostic' = [r \in Request |-> NewDiagnostic]
  /\ handler' = [r \in Request |-> IF handler[r] = "open" THEN "over" ELSE handler[r]]
  /\ worker' = [r \in Request |-> "gone"]
  /\ entries' = historyFile /\ revision' = 0 /\ savedAtRev' = 0
  /\ saves' = [s \in Saver |-> None] /\ clearing' = [a \in Admin |-> None]
  /\ UNCHANGED <<historyFile, cleared, clears>>

Next ==
  \/ \E r \in Request : Open(r) \/ BeginAttempt(r) \/ CountUsage(r) \/ FinishAttempt(r)
                        \/ Leave(r) \/ Record(r)
  \/ \E a \in Admin : Clear(a)
  \/ \E s \in Saver : BeginSave(s) \/ Rename(s) \/ FailSave(s) \/ EndSave(s)
  \/ Restart

Spec == Init /\ [][Next]_vars

-----------------------------------------------------------------------------
(* Properties. *)

\* A row that was recorded never changes, though its list of attempts is shared with a
\* goroutine that still begins and finishes attempts of the request.
RowsAreFinal ==
  [][\A i \in DOMAIN entries, j \in DOMAIN entries' :
       entries[i].id = entries'[j].id => entries[i] = entries'[j]]_vars

\* The flush loop sleeps only when the file holds the rows in memory.
CleanHistoryIsOnDisk == revision = savedAtRev => historyFile = entries

\* Once the dashboard was told that the history is cleared, none of the rows it cleared
\* comes back, not even with a save that had begun before or with a restart.
ClearedStaysCleared == (IdsOf(entries) \cup IdsOf(historyFile)) \cap cleared = {}
=============================================================================
