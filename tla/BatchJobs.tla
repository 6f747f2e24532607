----------------------------- MODULE BatchJobs -----------------------------
(***************************************************************************)
(* The batch jobs over accounts (internal/proxy/account_batch_jobs.go):    *)
(* start, the workers of a job, retry, the history and its file, restarts. *)
(*                                                                         *)
(* A job keeps the maintenance gate from before it is listed until after   *)
(* its last worker; a restore needs the gate for itself.  The file is      *)
(* written in place when a job starts and when it ends, and in between     *)
(* never.                                                                  *)
(***************************************************************************)
EXTENDS Naturals, FiniteSets

CONSTANTS
  Account,      \* the accounts that may be in the pool
  MailOf,       \* the e-mail of every account, a selector too
  Actions,      \* the actions that are asked for, and
  Selections,   \* the sets of selectors
  Caller,       \* the dashboard tabs that start and retry jobs
  Concurrency,  \* the workers of a job
  HistoryLimit, \* accountBatchHistoryLimit
  MaxJobs,      \* bound on the jobs that are started
  MaxRestarts,  \* bound on the restarts
  Absent        \* no account, no result, no job; a file cut off in the middle

VARIABLES
  jobs,       \* the jobs in memory, numbered in the order of their creation
  file,       \* the jobs in the file
  hasPath,    \* the manager has a path: the file could be read at the start
  pool,       \* the accounts in the pool
  batch,      \* the job every caller is about to list
  runners,    \* the jobs whose goroutine has not left the gate
  gateUsers,  \* maintenanceMutations, as far as batch jobs enter it
  restoring,  \* maintenanceRestoring
  started, restarts  \* bounds

gate == <<gateUsers, restoring>>
batchBounds == <<started, restarts>>
batchVars == <<jobs, file, hasPath, pool, batch, runners, gate, batchBounds>>

Ended == {"success", "skipped", "failed"}
StepType == [acct : Account \cup {Absent}, status : {"pending", "running"} \cup Ended,
             configured : BOOLEAN \cup {Absent}]

StepsIn(job, S) == {s \in DOMAIN job.steps : job.steps[s].status \in S}
Running == {j \in DOMAIN jobs : jobs[j].state = "running"}
Trimmed(f) ==
  [j \in {j \in DOMAIN f : Cardinality({k \in DOMAIN f : k > j}) < HistoryLimit} |-> f[j]]

\* The account a selector names: one in the pool, or the only one with its e-mail.
Resolve(s) ==
  LET own == {a \in pool : a = s \/ MailOf[a] = s}
  IN IF Cardinality(own) = 1 THEN CHOOSE a \in own : TRUE ELSE Absent

NewStep(s) == [acct |-> Resolve(s), configured |-> Absent,
               status |-> IF Resolve(s) = Absent THEN "failed" ELSE "pending"]

NewJob(action, selectors) ==
  LET unknown == Cardinality({s \in selectors : Resolve(s) = Absent})
  IN [action |-> action, state |-> "running", steps |-> [s \in selectors |-> NewStep(s)],
      done |-> unknown, success |-> 0, skipped |-> 0, failed |-> unknown,
      configured |-> 0, missing |-> 0]

Selector == Account \cup UNION Selections

StepsType == UNION {[S -> StepType] : S \in SUBSET Selector}

JobWith(steps) ==
  [action : Actions, state : {"running", "done", "interrupted"}, steps : steps,
   done : Nat, success : Nat, skipped : Nat, failed : Nat, configured : Nat, missing : Nat]

JobType == JobWith(StepsType)

\* The same for one job, without the functions from all other sets.
JobOK(job) ==
  DOMAIN job.steps \subseteq Selector /\ job \in JobWith([DOMAIN job.steps -> StepType])

\* What the proofs ask of the constants.
BatchConstants ==
  /\ IsFiniteSet(Caller) /\ \A S \in Selections : IsFiniteSet(S)
  /\ Actions \subseteq {"toggle", "check", "delete", "delete_missing", "delete_unfit"}
  /\ MaxJobs \in Nat /\ MaxRestarts \in Nat
  /\ Absent \notin BOOLEAN /\ Absent \notin JobType

BatchTypeOK ==
  /\ \A j \in DOMAIN jobs : j \in 1 .. MaxJobs /\ JobOK(jobs[j])
  /\ file # Absent => \A j \in DOMAIN file : j \in 1 .. MaxJobs /\ JobOK(file[j])
  /\ DOMAIN batch = Caller /\ \A c \in Caller : batch[c] # Absent => JobOK(batch[c])
  /\ hasPath \in BOOLEAN /\ pool \subseteq Account /\ runners \subseteq 1 .. MaxJobs
  /\ gateUsers \in Nat /\ restoring \in BOOLEAN
  /\ started \in 0 .. MaxJobs /\ restarts \in 0 .. MaxRestarts

BatchInit ==
  /\ jobs = <<>> /\ file = <<>> /\ hasPath = TRUE
  /\ pool = Account
  /\ batch = [c \in Caller |-> Absent]
  /\ runners = {} /\ gateUsers = 0 /\ restoring = FALSE
  /\ started = 0 /\ restarts = 0

-----------------------------------------------------------------------------
(* Starting a job. *)

\* Start before the lock: the gate is entered, the selectors are resolved.
Enter(c, action, selectors) ==
  /\ batch[c] = Absent /\ ~restoring /\ selectors # {}
  /\ gateUsers' = gateUsers + 1
  /\ batch' = [batch EXCEPT ![c] = NewJob(action, selectors)]
  /\ UNCHANGED <<jobs, file, hasPath, pool, runners, restoring, batchBounds>>

StartJob(c) == \E action \in Actions, selectors \in Selections : Enter(c, action, selectors)

\* What Retry asks for again: the steps that failed, by account where it was known.
Again(job) ==
  {IF job.steps[s].acct = Absent THEN s ELSE job.steps[s].acct : s \in StepsIn(job, {"failed"})}

RetryJob(c) == \E j \in DOMAIN jobs : Enter(c, jobs[j].action, Again(jobs[j]))

\* The file is truncated and written; a write that fails at once leaves the old one.
Persist == file' \in IF hasPath THEN {file, jobs'} ELSE {file}

\* Start under the lock: another job runs, the gate is left again.
RefuseInGate(c) ==
  /\ batch[c] # Absent /\ Running # {}
  /\ batch' = [batch EXCEPT ![c] = Absent]
  /\ UNCHANGED <<jobs, file, hasPath, pool, runners, gate, batchBounds>>

RefuseJob(c) ==
  /\ batch[c] # Absent /\ Running # {}
  /\ gateUsers' = gateUsers - 1
  /\ batch' = [batch EXCEPT ![c] = Absent]
  /\ UNCHANGED <<jobs, file, hasPath, pool, runners, restoring, batchBounds>>

\* No other job runs: the job is listed, saved, and its goroutine is started.
List(c) ==
  /\ Running = {}
  /\ batch[c] # Absent /\ started < MaxJobs
  /\ LET j == started + 1
     IN /\ jobs' = Trimmed([k \in DOMAIN jobs \cup {j} |-> IF k = j THEN batch[c] ELSE jobs[k]])
        /\ runners' = runners \cup {j}
        /\ started' = j
  /\ Persist
  /\ batch' = [batch EXCEPT ![c] = Absent]
  /\ UNCHANGED <<hasPath, pool, gate, restarts>>

-----------------------------------------------------------------------------
(* Running a job. *)

\* What an action on an account may come to: the status of the step, what was found
\* out about the personal instructions, and whether the account is deleted.
Outcome(status, configured, gone) == [status |-> status, configured |-> configured, gone |-> gone]
Failures == {Outcome("failed", Absent, FALSE)}
Outcomes(action, a) ==
  LET removed(c) == IF a \in pool THEN {Outcome("success", c, TRUE)} ELSE {}
  IN Failures \cup
     CASE action = "toggle" -> {Outcome("success", Absent, FALSE)}
       [] action = "check" -> {Outcome(st, c, FALSE) : st \in {"success", "failed"}, c \in BOOLEAN}
       [] action = "delete" -> removed(Absent)
       [] action = "delete_missing" ->
            {Outcome("skipped", TRUE, FALSE), Outcome("failed", TRUE, FALSE),
             Outcome("failed", FALSE, FALSE)} \cup removed(FALSE)
       [] action = "delete_unfit" -> {Outcome("skipped", Absent, FALSE)} \cup removed(Absent)

\* A worker takes a step; it looks for the job again.
Take(j) ==
  /\ j \in runners \cap Running
  /\ Cardinality(StepsIn(jobs[j], {"running"})) < Concurrency
  /\ \E s \in StepsIn(jobs[j], {"pending"}) : jobs' = [jobs EXCEPT ![j].steps[s].status = "running"]
  /\ UNCHANGED <<file, hasPath, pool, batch, runners, gate, batchBounds>>

Bump(o, v) == IF o.configured = v THEN 1 ELSE 0

\* The job with the outcome of a step.
Recorded(job, s, o) ==
  [job EXCEPT !.steps[s] = [@ EXCEPT !.status = o.status, !.configured = o.configured],
              !.done = @ + 1, ![o.status] = @ + 1,
              !.configured = @ + Bump(o, TRUE), !.missing = @ + Bump(o, FALSE)]

\* A worker carries an action out and reports.
Execute(j) ==
  /\ j \in runners \cap Running
  /\ \E s \in StepsIn(jobs[j], {"running"}) :
       LET a == jobs[j].steps[s].acct
       IN \E o \in Outcomes(jobs[j].action, a) :
            /\ jobs' = [jobs EXCEPT ![j] = Recorded(@, s, o)]
            /\ pool' = IF o.gone THEN pool \ {a} ELSE pool
  /\ UNCHANGED <<file, hasPath, batch, runners, gate, batchBounds>>

\* All workers are done: the job ends and is saved.
EndJob(j) ==
  /\ j \in runners \cap Running
  /\ StepsIn(jobs[j], {"pending", "running"}) = {}
  /\ jobs' = [jobs EXCEPT ![j].state = "done"]
  /\ Persist
  /\ UNCHANGED <<hasPath, pool, batch, runners, gate, batchBounds>>

\* The deferred release of the gate.
LeaveGate(j) ==
  /\ j \in runners \ Running
  /\ runners' = runners \ {j} /\ gateUsers' = gateUsers - 1
  /\ UNCHANGED <<jobs, file, hasPath, pool, batch, restoring, batchBounds>>

-----------------------------------------------------------------------------
(* Restores, other handlers, restarts. *)

\* A restore waits for nobody: it is refused while a job holds the gate.
BeginRestore ==
  /\ ~restoring /\ gateUsers = 0
  /\ restoring' = TRUE
  /\ UNCHANGED <<jobs, file, hasPath, pool, batch, runners, gateUsers, batchBounds>>

\* The restore brings accounts back.
EndRestore ==
  /\ restoring
  /\ restoring' = FALSE /\ pool' = Account
  /\ UNCHANGED <<jobs, file, hasPath, batch, runners, gateUsers, batchBounds>>

InterruptedHalf(job) ==
  LET open == StepsIn(job, {"pending", "running"})
  IN [job EXCEPT !.state = "interrupted",
                 !.steps = [s \in DOMAIN @ |->
                              IF s \in open THEN [@[s] EXCEPT !.status = "failed"] ELSE @[s]],
                 !.failed = @ + Cardinality(open)]

\* A job that was running when the process died: what had not ended has failed.
InterruptedJob(job) ==
  LET open == StepsIn(job, {"pending", "running"})
  IN [job EXCEPT !.state = "interrupted",
                 !.steps = [s \in DOMAIN @ |->
                              IF s \in open THEN [@[s] EXCEPT !.status = "failed"] ELSE @[s]],
                 !.done = @ + Cardinality(open), !.failed = @ + Cardinality(open)]

\* NewAccountBatchManager; without a readable file it starts empty and saves nothing.
Loaded(f) ==
  IF f = Absent THEN <<>>
  ELSE Trimmed([j \in DOMAIN f |-> IF f[j].state = "running" THEN InterruptedJob(f[j]) ELSE f[j]])

\* The process dies, perhaps in the middle of a write, and starts again.
RestartJobs ==
  /\ restarts < MaxRestarts
  /\ restarts' = restarts + 1
  /\ file' \in {file} \cup (IF hasPath /\ runners # {} THEN {Absent} ELSE {})
  /\ jobs' = Loaded(file') /\ hasPath' = (file' # Absent)
  /\ pool' \in SUBSET pool
  /\ batch' = [c \in Caller |-> Absent]
  /\ runners' = {} /\ gateUsers' = 0 /\ restoring' = FALSE
  /\ UNCHANGED started

BatchNext ==
  \/ \E c \in Caller : StartJob(c) \/ RetryJob(c) \/ RefuseJob(c) \/ List(c)
  \/ \E j \in DOMAIN jobs : Take(j) \/ Execute(j) \/ EndJob(j)
  \/ \E j \in runners : LeaveGate(j)
  \/ BeginRestore \/ EndRestore \/ RestartJobs

BatchSpec == BatchInit /\ [][BatchNext]_batchVars

-----------------------------------------------------------------------------
(* Properties. *)

\* The counters of a job agree with its steps, in memory and in the file, whatever the
\* workers, a retry, the trimming and a restart did; a job that is over has no open step.
Consistent(job) ==
  /\ job.done = job.success + job.skipped + job.failed
  /\ \A st \in Ended : job[st] = Cardinality(StepsIn(job, {st}))
  /\ job.configured = Cardinality({s \in DOMAIN job.steps : job.steps[s].configured = TRUE})
  /\ job.missing = Cardinality({s \in DOMAIN job.steps : job.steps[s].configured = FALSE})
  /\ job.state # "running" => job.done = Cardinality(DOMAIN job.steps)

Counts ==
  /\ \A j \in DOMAIN jobs : Consistent(jobs[j])
  /\ file # Absent => \A j \in DOMAIN file : Consistent(file[j])

\* One job runs at a time, its goroutine is there to end it, and the gate is held for
\* every job that runs or is about to be listed and for nobody else: no restore replaces
\* the accounts under a job, and none is refused for a job that is over.
OneJob ==
  /\ Cardinality(Running) <= 1 /\ Running \subseteq runners
  /\ gateUsers = Cardinality({c \in Caller : batch[c] # Absent}) + Cardinality(runners)
  /\ restoring => gateUsers = 0
=============================================================================
