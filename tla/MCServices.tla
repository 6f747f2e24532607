----------------------------- MODULE MCServices -----------------------------
(***************************************************************************)
(* An instance for TLC of four components of notion-manager that share no  *)
(* state: the batch jobs, the history of requests, the totals and the      *)
(* stream of an answer.  A behavior is one of one component, its focus;    *)
(* the others stay in an initial state.  The components are extended, so   *)
(* that a run checks the very definitions that are proved.                 *)
(***************************************************************************)
EXTENDS BatchJobs, RequestHistory, UsageTotals, AnswerStream, TLC

CONSTANTS
  Foci,       \* the components that are run
  a1, a2, m1  \* two accounts, and the e-mail of both

VARIABLE focus

\* Both accounts, and a selection that names the first one twice, once by an e-mail that
\* is that of both while both are there.
Mails == a1 :> m1 @@ a2 :> m1
Selected == {{a1, m1}}

\* What the proofs ask of the constants.
ASSUME BatchAssumption == BatchConstants

ServicesInit ==
  /\ focus \in Foci
  /\ BatchInit /\ Init /\ TotalsInit /\ AnswerInit
  /\ focus # "answer" => client = "sse" /\ ask = "text"

In(f) ==
  /\ focus = f /\ UNCHANGED focus
  /\ f # "batch" => UNCHANGED batchVars
  /\ f # "history" => UNCHANGED vars
  /\ f # "totals" => UNCHANGED totalsVars
  /\ f # "answer" => UNCHANGED answerVars

ServicesNext ==
  \/ \E c \in Caller : In("batch") /\ StartJob(c)
  \/ \E c \in Caller : In("batch") /\ RetryJob(c)
  \/ \E c \in Caller : In("batch") /\ RefuseJob(c)
  \/ \E c \in Caller : In("batch") /\ List(c)
  \/ \E j \in DOMAIN jobs : In("batch") /\ Take(j)
  \/ \E j \in DOMAIN jobs : In("batch") /\ Execute(j)
  \/ \E j \in DOMAIN jobs : In("batch") /\ EndJob(j)
  \/ \E j \in runners : In("batch") /\ LeaveGate(j)
  \/ In("batch") /\ BeginRestore
  \/ In("batch") /\ EndRestore
  \/ In("batch") /\ RestartJobs
  \/ \E r \in Request : In("history") /\ Open(r)
  \/ \E r \in Request : In("history") /\ BeginAttempt(r)
  \/ \E r \in Request : In("history") /\ CountUsage(r)
  \/ \E r \in Request : In("history") /\ FinishAttempt(r)
  \/ \E r \in Request : In("history") /\ Leave(r)
  \/ \E r \in Request : In("history") /\ Record(r)
  \/ \E a \in Admin : In("history") /\ Clear(a)
  \/ \E s \in Saver : In("history") /\ BeginSave(s)
  \/ \E s \in Saver : In("history") /\ Rename(s)
  \/ \E s \in Saver : In("history") /\ FailSave(s)
  \/ \E s \in Saver : In("history") /\ EndSave(s)
  \/ In("history") /\ Restart
  \/ In("totals") /\ NextDay
  \/ In("totals") /\ RecordUsage
  \/ In("totals") /\ BeginFlush
  \/ In("totals") /\ RenameTotals
  \/ In("totals") /\ FailFlush
  \/ In("totals") /\ MarkClean
  \/ In("totals") /\ RestartTotals
  \/ In("answer") /\ Call
  \/ In("answer") /\ GiveUp
  \/ In("answer") /\ Think
  \/ In("answer") /\ ResearchThink
  \/ In("answer") /\ Text
  \/ In("answer") /\ NativeTool
  \/ In("answer") /\ CallEnds
  \/ In("answer") /\ ReportEnds
  \/ In("answer") /\ CallFails
  \/ In("answer") /\ AnswerEmpty
  \/ In("answer") /\ AnswerText
  \/ In("answer") /\ AnswerResearch
  \/ In("answer") /\ AnswerTools
  \/ In("answer") /\ AnswerWhole
  \/ In("answer") /\ ResearchWhole
  \/ In("answer") /\ SearchStepEnds
  \/ In("answer") /\ SearchText
  \/ In("answer") /\ SearchEnds
  \/ In("answer") /\ Write
  \/ In("answer") /\ Push
  \/ In("answer") /\ Close
  \/ In("answer") /\ Transcode
  \/ In("answer") /\ Drained
  \/ In("answer") /\ ClientLeaves

ServicesSpec == ServicesInit /\ [][ServicesNext]_<<focus, batchVars, vars, totalsVars, answerVars>>

\* The types of the component in focus; the state of the others is an initial one.
TypesOK ==
  CASE focus = "batch" -> BatchTypeOK
    [] focus = "history" -> TypeOK
    [] focus = "totals" -> TotalsTypeOK
    [] focus = "answer" -> AnswerTypeOK
=============================================================================
