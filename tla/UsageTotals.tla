---------------------------- MODULE UsageTotals ----------------------------
(***************************************************************************)
(* The totals of tokens (internal/proxy/usage_stats.go): Record, the days  *)
(* that are kept, the flush loop, and the restart that loads the file.     *)
(* The totals by model and by account are kept like the total, and are not *)
(* told apart; a request counts for one.                                   *)
(***************************************************************************)
EXTENDS Integers, FiniteSets

CONSTANTS
  RetainDays,  \* usageStatsRetainDays
  MaxTotal,    \* bound on the requests that are recorded
  MaxDay,      \* bound on the days that pass
  MaxCrashes,  \* bound on the writes that fail and the restarts
  NoFlush      \* no flush

VARIABLES
  total,     \* Requests, TotalInput and TotalOutput
  days,      \* the keys of ByDay
  dirty,
  today,
  onDisk,    \* the totals and the days in the file
  flushing,  \* what the flush loop is about to write, [copy, renamed], or None
  crashes

totalsVars == <<total, days, dirty, today, onDisk, flushing, crashes>>

Copy == [total |-> total, days |-> days]

TotalsTypeOK ==
  /\ total \in 0 .. MaxTotal /\ days \subseteq 1 .. MaxDay /\ dirty \in BOOLEAN
  /\ today \in 1 .. MaxDay /\ onDisk.total <= total
  /\ Cardinality(days) <= RetainDays + 1

TotalsInit ==
  /\ total = 0 /\ days = {} /\ dirty = FALSE /\ today = 1
  /\ onDisk = Copy /\ flushing = NoFlush /\ crashes = 0

TrimNothing(d) == d

\* trimByDayLocked: more days than are retained, the old ones are dropped.
Trim(d) == IF Cardinality(d) <= RetainDays THEN d ELSE {k \in d : k >= today - RetainDays}

NextDay ==
  /\ today < MaxDay
  /\ today' = today + 1
  /\ UNCHANGED <<total, days, dirty, onDisk, flushing, crashes>>

\* Record, for a request that used tokens.
RecordUsage ==
  /\ total < MaxTotal
  /\ total' = total + 1 /\ days' = Trim(days \cup {today}) /\ dirty' = TRUE
  /\ UNCHANGED <<today, onDisk, flushing, crashes>>

\* A tick of the flush loop: isDirty, then the copy under the read lock.
BeginFlush ==
  /\ flushing = NoFlush /\ dirty
  /\ flushing' = [copy |-> Copy, renamed |-> FALSE]
  /\ UNCHANGED <<total, days, dirty, today, onDisk, crashes>>

\* The temporary file is renamed.
RenameTotals ==
  /\ flushing # NoFlush /\ ~flushing.renamed
  /\ onDisk' = flushing.copy /\ flushing' = [flushing EXCEPT !.renamed = TRUE]
  /\ UNCHANGED <<total, days, dirty, today, crashes>>

FailFlush ==
  /\ flushing # NoFlush /\ ~flushing.renamed /\ crashes < MaxCrashes
  /\ crashes' = crashes + 1
  /\ flushing' = NoFlush
  /\ UNCHANGED <<total, days, dirty, today, onDisk>>

MarkClean ==
  /\ flushing # NoFlush /\ flushing.renamed
  /\ dirty' = FALSE /\ flushing' = NoFlush
  /\ UNCHANGED <<total, days, today, onDisk, crashes>>

\* With a file that is written in place a crash leaves half of it, and Load starts from zero.
RestartTorn ==
  /\ crashes < MaxCrashes
  /\ crashes' = crashes + 1
  /\ onDisk' = IF flushing = NoFlush THEN onDisk ELSE [total |-> 0, days |-> {}]
  /\ total' = onDisk'.total /\ days' = Trim(onDisk'.days) /\ dirty' = FALSE
  /\ flushing' = NoFlush
  /\ UNCHANGED today

\* The process dies, nothing is flushed on the way down, and Load reads the file.
RestartTotals ==
  /\ crashes < MaxCrashes
  /\ crashes' = crashes + 1
  /\ total' = onDisk.total /\ days' = Trim(onDisk.days) /\ dirty' = FALSE
  /\ flushing' = NoFlush
  /\ UNCHANGED <<today, onDisk>>

TotalsNext ==
  \/ NextDay \/ RecordUsage \/ BeginFlush \/ RenameTotals \/ FailFlush \/ MarkClean \/ RestartTotals

TotalsSpec == TotalsInit /\ [][TotalsNext]_totalsVars

-----------------------------------------------------------------------------
(* Properties. *)

\* The totals of the file never fall, whatever fails in a flush and wherever the process
\* dies: a dashboard that was reloaded never shows less than was saved.
TotalsNeverFall == [][onDisk'.total >= onDisk.total]_totalsVars

\* A flush loop that sleeps has written everything that was recorded.  The code does not
\* keep this: what is recorded between the copy and markClean is not written until
\* something else is recorded.
CleanTotalsAreOnDisk == ~dirty => onDisk.total = total
=============================================================================
