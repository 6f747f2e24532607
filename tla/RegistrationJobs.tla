-------------------------- MODULE RegistrationJobs --------------------------
(***************************************************************************)
(* Bulk registration: the job store and the runner of internal/regjob with *)
(* the handlers of internal/proxy/admin_register_jobs.go that start, retry,*)
(* delete and stream jobs.                                                 *)
(*                                                                         *)
(* A job has rows, one per credential.  Workers log the rows in, write an  *)
(* account file for each success and update the job in memory; every       *)
(* update is sent to the streams of the job, and a background loop saves   *)
(* the list of jobs to a file.  The process may stop at any moment and     *)
(* starts again from that file.                                            *)
(*                                                                         *)
(* Grain: one action per critical section of memoryStore.mu, per channel   *)
(* operation and per file operation.                                       *)
(***************************************************************************)
EXTENDS Naturals, FiniteSets, SequencesExt

CONSTANTS
  Job,          \* job ids, random in the code and never used twice
  Rows,         \* number of credentials of an upload
  Stream,       \* event streams; each subscribes once
  Concurrency,  \* workers of a job
  MemCap,       \* memoryStore.memCap
  ChannelCap,   \* events a subscription holds (32 in the code)
  Persistent,   \* the store has a path; without one nothing is written
  MaxRestarts,  \* bound: restarts of the process
  MaxFaults,    \* bound: failing disk writes
  NoJob

ASSUME RegistrationAssumption ==
  /\ IsFiniteSet(Job) /\ IsFiniteSet(Stream)
  /\ Rows \in Nat \ {0} /\ Concurrency \in Nat \ {0}
  /\ MemCap \in Nat \ {0} /\ ChannelCap \in Nat \ {0}
  /\ Persistent \in BOOLEAN
  /\ MaxRestarts \in Nat /\ MaxFaults \in Nat
  /\ NoJob \notin Job

VARIABLES
  jobs,      \* memoryStore.jobs, oldest first
  run,       \* the handler and the runner of a job
  work,      \* the workers of a job, by row
  stream,    \* the event streams
  saveDue,   \* memoryStore.saveCh holds a request
  save,      \* the saveSnapshot that holds saveMu
  file,      \* the history file
  inputs,    \* the sidecar files: the rows of a job with their credentials
  accounts,  \* rows whose account file was written
  del,       \* a DELETE handler
  panicked,  \* a goroutine panicked: the process is about to end
  restarts, faults,
  completed, \* ghost: jobs whose Finish returned, neither evicted nor deleted
  deleted    \* ghost: jobs whose Delete returned

vars == <<jobs, run, work, stream, saveDue, save, file, inputs, accounts,
          del, panicked, restarts, faults, completed, deleted>>

\* What the runner, the streams and the files leave alone of each other.
storeVars == <<saveDue, save, file>>
ghosts == <<restarts, faults, completed, deleted>>

-----------------------------------------------------------------------------
(* Jobs.                                                                   *)

Row == 1 .. Rows

Status == {"absent", "pending", "running", "ok", "fail"}

Terminal == {"ok", "fail"}

StepsOf(rows) == [i \in Row |-> IF i \in rows THEN "pending" ELSE "absent"]

WithStatus(steps, wanted) == {i \in Row : steps[i] \in wanted}

NewJob(j, rows) ==
  [id |-> j, state |-> "running", steps |-> StepsOf(rows), ok |-> 0, fail |-> 0]

Ids(list) == {list[n].id : n \in DOMAIN list}

Known(j) == j \in Ids(jobs)

\* findLocked.
Find(list, j) == CHOOSE n \in DOMAIN list : list[n].id = j

\* Mutant: the list is never trimmed.
NewestAll(list) == list

\* The newest MemCap jobs.
Newest(list) ==
  IF Len(list) > MemCap THEN SubSeq(list, Len(list) - MemCap + 1, Len(list)) ELSE list

\* What UpdateStep does to a job: the status, and the counters anew.
Updated(job, i, status) ==
  LET steps == [job.steps EXCEPT ![i] = status] IN
  [job EXCEPT !.steps = steps,
              !.ok = Cardinality(WithStatus(steps, {"ok"})),
              !.fail = Cardinality(WithStatus(steps, {"fail"}))]

-----------------------------------------------------------------------------
(* Streams.                                                                *)

NoStream ==
  [pc |-> "idle", job |-> NoJob, attached |-> FALSE, closed |-> FALSE,
   ch |-> <<>>, snap |-> [state |-> "running", steps |-> StepsOf({})],
   view |-> StepsOf({}), done |-> FALSE]

Attached(j) == {s \in Stream : stream[s].attached /\ stream[s].job = j}

StepEvent(i, status) == [kind |-> "step", row |-> i, status |-> status]
DoneEvent(steps) == [kind |-> "done", steps |-> steps]

\* broadcast, to one stream: a full channel drops the event, a closed one panics.
Send(s, event) ==
  /\ panicked' = stream[s].closed
  /\ stream' = IF stream[s].closed \/ Len(stream[s].ch) >= ChannelCap THEN stream
               ELSE [stream EXCEPT ![s].ch = Append(@, event)]

\* Subscribe: a copy of the job and a channel, in one critical section.
Subscribe(s) ==
  /\ stream[s].pc = "idle"
  /\ \E n \in DOMAIN jobs :
       stream' = [stream EXCEPT ![s] =
                    [NoStream EXCEPT !.pc = "snapshot", !.job = jobs[n].id,
                       !.attached = TRUE,
                       !.snap = [state |-> jobs[n].state, steps |-> jobs[n].steps]]]
  /\ UNCHANGED <<jobs, run, work, inputs, accounts, del, panicked, storeVars, ghosts>>

\* Mutant: the handler reads the job again before it writes the snapshot.
SendSnapshotReread(s) ==
  LET snap == IF Known(stream[s].job) THEN jobs[Find(jobs, stream[s].job)]
              ELSE stream[s].snap
  IN
  /\ stream[s].pc = "snapshot"
  /\ stream' = [stream EXCEPT ![s].view = snap.steps, ![s].done = (snap.state = "done"),
                  ![s].snap = NoStream.snap,
                  ![s].pc = IF snap.state = "done" THEN "cancel" ELSE "events"]
  /\ UNCHANGED <<jobs, run, work, inputs, accounts, del, panicked, storeVars, ghosts>>

\* serveJobEvents writes the snapshot; nothing follows for a finished job.
SendSnapshot(s) ==
  LET snap == stream[s].snap IN
  /\ stream[s].pc = "snapshot"
  /\ stream' = [stream EXCEPT ![s].view = snap.steps, ![s].done = (snap.state = "done"),
                  ![s].snap = NoStream.snap,
                  ![s].pc = IF snap.state = "done" THEN "cancel" ELSE "events"]
  /\ UNCHANGED <<jobs, run, work, inputs, accounts, del, panicked, storeVars, ghosts>>

\* One event is written to the client; the channel may have been closed.
Receive(s) ==
  /\ stream[s].pc = "events"
  /\ \/ /\ stream[s].ch # <<>>
        /\ LET event == Head(stream[s].ch) IN
           stream' = [stream EXCEPT ![s].ch = Tail(@),
             ![s].view = IF event.kind = "step" THEN [@ EXCEPT ![event.row] = event.status]
                         ELSE event.steps,
             ![s].done = (event.kind = "done"),
             ![s].pc = IF event.kind = "done" THEN "cancel" ELSE "events"]
     \/ /\ stream[s].ch = <<>> /\ stream[s].closed
        /\ stream' = [stream EXCEPT ![s].pc = "cancel"]
  /\ UNCHANGED <<jobs, run, work, inputs, accounts, del, panicked, storeVars, ghosts>>

\* The client goes away.
Disconnect(s) ==
  /\ stream[s].pc \in {"snapshot", "events"}
  /\ stream' = [stream EXCEPT ![s].pc = "cancel"]
  /\ UNCHANGED <<jobs, run, work, inputs, accounts, del, panicked, storeVars, ghosts>>

\* The deferred cancel: a subscription that Delete took is left alone.
Cancel(s) ==
  /\ stream[s].pc = "cancel"
  /\ stream' = [stream EXCEPT ![s].pc = "over", ![s].attached = FALSE,
                  ![s].closed = @ \/ stream[s].attached, ![s].ch = <<>>]
  /\ UNCHANGED <<jobs, run, work, inputs, accounts, del, panicked, storeVars, ghosts>>

-----------------------------------------------------------------------------
(* Starting and retrying a job.                                            *)

NoRun == [pc |-> "none", from |-> NoJob, rows |-> {}, to |-> {},
          steps |-> StepsOf({})]
NoWork == [i \in Row |-> [pc |-> "none", status |-> "absent", to |-> {}]]

\* Store.Create: the oldest jobs make room, finished or not.
Create(j, rows) ==
  /\ jobs' = Newest(Append(jobs, NewJob(j, rows)))
  /\ saveDue' = TRUE
  /\ completed' = completed \cap Ids(jobs')
  /\ run' = [run EXCEPT ![j] = [NoRun EXCEPT !.pc = "created", !.rows = rows]]

\* HandleAdminRegisterStart.
Start(j) ==
  /\ run[j].pc = "none"
  /\ Create(j, Row)
  /\ UNCHANGED <<work, stream, save, file, inputs, accounts, del, panicked,
                 restarts, faults, deleted>>

\* serveJobRetry: the failed rows of a finished job ...
Retry(j) ==
  /\ run[j].pc = "none"
  /\ \E n \in DOMAIN jobs :
       LET failed == WithStatus(jobs[n].steps, {"fail"}) IN
       /\ jobs[n].state = "done" /\ failed # {}
       /\ run' = [run EXCEPT ![j] = [NoRun EXCEPT !.pc = "asked",
                                       !.from = jobs[n].id, !.rows = failed]]
  /\ UNCHANGED <<jobs, work, stream, inputs, accounts, del, panicked, storeVars, ghosts>>

\* ... as far as their credentials are still there, in a job of their own.
RetryCreate(j) ==
  LET rows == inputs[run[j].from] \cap run[j].rows IN
  /\ run[j].pc = "asked"
  /\ \/ rows # {} /\ Create(j, rows)
     \/ /\ rows = {}
        /\ run' = [run EXCEPT ![j] = NoRun]
        /\ UNCHANGED <<jobs, saveDue, completed>>
  /\ UNCHANGED <<work, stream, save, file, inputs, accounts, del, panicked,
                 restarts, faults, deleted>>

\* saveRegisterInputs, a failure is only logged; then the runner is started.
SaveInputs(j) ==
  /\ run[j].pc = "created"
  /\ \/ inputs' = [inputs EXCEPT ![j] = IF Persistent THEN run[j].rows ELSE {}]
        /\ UNCHANGED faults
     \/ faults < MaxFaults /\ faults' = faults + 1 /\ UNCHANGED inputs
  /\ run' = [run EXCEPT ![j] = [NoRun EXCEPT !.pc = "running"]]
  /\ work' = [work EXCEPT ![j] = [i \in Row |->
                [pc |-> IF i \in run[j].rows THEN "todo" ELSE "none",
                 status |-> "absent", to |-> {}]]]
  /\ UNCHANGED <<jobs, stream, accounts, del, panicked, storeVars, restarts, completed,
                 deleted>>

-----------------------------------------------------------------------------
(* The runner.                                                             *)

\* The workers that hold a place in the semaphore.
Busy(j) == {i \in Row : work[j][i].pc \notin {"none", "todo", "over"}}

\* The next row gets a worker.
Dispatch(j, i) ==
  /\ run[j].pc = "running" /\ work[j][i].pc = "todo"
  /\ \A k \in Row : work[j][k].pc = "todo" => i <= k
  /\ Cardinality(Busy(j)) < Concurrency
  /\ work' = [work EXCEPT ![j][i].pc = "start"]
  /\ UNCHANGED <<jobs, run, stream, inputs, accounts, del, panicked, storeVars, ghosts>>

\* UpdateStep: a job that is not in memory any more is skipped, otherwise the
\* streams attached now are told, and then a save is scheduled.
UpdateStep(j, i, status) ==
  IF Known(j)
  THEN LET n == Find(jobs, j) IN
       /\ jobs' = [jobs EXCEPT ![n] = Updated(@, i, status)]
       /\ work' = [work EXCEPT ![j][i] = [pc |-> "send", status |-> status,
                                          to |-> Attached(j)]]
  ELSE /\ work' = [work EXCEPT ![j][i] =
                     [pc |-> IF status = "running" THEN "login" ELSE "over",
                      status |-> "absent", to |-> {}]]
       /\ UNCHANGED jobs

Begin(j, i) ==
  /\ work[j][i].pc = "start"
  /\ UpdateStep(j, i, "running")
  /\ UNCHANGED <<run, stream, inputs, accounts, del, panicked, storeVars, ghosts>>

\* Mutant: the row is reported before its account file is written.
LoginUnwritten(j, i) ==
  /\ work[j][i].pc = "login"
  /\ \E status \in Terminal : UpdateStep(j, i, status)
  /\ UNCHANGED <<run, stream, inputs, accounts, del, panicked, storeVars, ghosts>>

\* provider.Login and WriteAccountJSON: either may fail.
Login(j, i) ==
  /\ work[j][i].pc = "login"
  /\ \/ UpdateStep(j, i, "fail") /\ UNCHANGED accounts
     \/ /\ accounts' = accounts \cup {i}
        /\ work' = [work EXCEPT ![j][i].pc = "written"]
        /\ UNCHANGED jobs
  /\ UNCHANGED <<run, stream, inputs, del, panicked, storeVars, ghosts>>

\* The pool has the account (OnSuccessAccount): the row is done.
Succeed(j, i) ==
  /\ work[j][i].pc = "written"
  /\ UpdateStep(j, i, "ok")
  /\ UNCHANGED <<run, stream, inputs, accounts, del, panicked, storeVars, ghosts>>

SendStep(j, i, s) ==
  /\ work[j][i].pc = "send" /\ s \in work[j][i].to
  /\ Send(s, StepEvent(i, work[j][i].status))
  /\ work' = [work EXCEPT ![j][i].to = @ \ {s}]
  /\ UNCHANGED <<jobs, run, inputs, accounts, del, storeVars, ghosts>>

\* The broadcast is over; scheduleSave.
StepSent(j, i) ==
  /\ work[j][i].pc = "send" /\ work[j][i].to = {}
  /\ saveDue' = TRUE
  /\ work' = [work EXCEPT ![j][i] =
                [pc |-> IF work[j][i].status = "running" THEN "login" ELSE "over",
                 status |-> "absent", to |-> {}]]
  /\ UNCHANGED <<jobs, run, stream, save, file, inputs, accounts, del, panicked,
                 ghosts>>

\* Mutant: the runner does not wait for its workers.
FinishEarly(j) ==
  /\ run[j].pc = "running"
  /\ \A i \in Row : work[j][i].pc # "todo"
  /\ IF Known(j) /\ jobs[Find(jobs, j)].state = "running"
     THEN LET n == Find(jobs, j) IN
          /\ jobs' = [jobs EXCEPT ![n].state = "done"]
          /\ run' = [run EXCEPT ![j].pc = "send", ![j].to = Attached(j),
                                   ![j].steps = jobs[n].steps]
     ELSE run' = [run EXCEPT ![j].pc = "over"] /\ UNCHANGED jobs
  /\ UNCHANGED <<work, stream, inputs, accounts, del, panicked, storeVars, ghosts>>

\* Mutant: the end is told by the counters of the job in memory.
FinishCounted(j) ==
  /\ run[j].pc = "running"
  /\ Known(j)
  /\ LET n == Find(jobs, j) IN
       /\ jobs[n].ok + jobs[n].fail = Cardinality({i \in Row : work[j][i].pc # "none"})
       /\ jobs' = [jobs EXCEPT ![n].state = "done"]
       /\ run' = [run EXCEPT ![j].pc = "send", ![j].to = Attached(j),
                                ![j].steps = jobs[n].steps]
  /\ UNCHANGED <<work, stream, inputs, accounts, del, panicked, storeVars, ghosts>>

\* All workers are over (wg.Wait); Finish.
Finish(j) ==
  /\ run[j].pc = "running"
  /\ \A i \in Row : work[j][i].pc \in {"none", "over"}
  /\ IF Known(j) /\ jobs[Find(jobs, j)].state = "running"
     THEN LET n == Find(jobs, j) IN
          /\ jobs' = [jobs EXCEPT ![n].state = "done"]
          /\ run' = [run EXCEPT ![j].pc = "send", ![j].to = Attached(j),
                                   ![j].steps = jobs[n].steps]
     ELSE run' = [run EXCEPT ![j].pc = "over"] /\ UNCHANGED jobs
  /\ UNCHANGED <<work, stream, inputs, accounts, del, panicked, storeVars, ghosts>>

SendDone(j, s) ==
  /\ run[j].pc = "send" /\ s \in run[j].to
  /\ Send(s, DoneEvent(run[j].steps))
  /\ run' = [run EXCEPT ![j].to = @ \ {s}]
  /\ UNCHANGED <<jobs, work, inputs, accounts, del, storeVars, ghosts>>

\* Mutant: the last save is left to the background loop.
DoneSentLazily(j) ==
  /\ run[j].pc = "send" /\ run[j].to = {}
  /\ run' = [run EXCEPT ![j] = [NoRun EXCEPT !.pc = "over"]]
  /\ saveDue' = TRUE
  /\ completed' = completed \cup ({j} \cap Ids(jobs))
  /\ UNCHANGED <<jobs, work, stream, save, file, inputs, accounts, del, panicked,
                 restarts, faults, deleted>>

\* The broadcast is over; Finish saves before it returns.
DoneSent(j) ==
  /\ run[j].pc = "send" /\ run[j].to = {}
  /\ run' = [run EXCEPT ![j] = [NoRun EXCEPT !.pc = IF Persistent THEN "save" ELSE "over"]]
  /\ UNCHANGED <<jobs, work, stream, inputs, accounts, del, panicked, storeVars, ghosts>>

-----------------------------------------------------------------------------
(* Saving.                                                                 *)

NoSave == [by |-> "none", job |-> NoJob, snap |-> <<>>]

\* saveSnapshot: saveMu, then a copy of the jobs under mu ...
TakeSnapshot(by, j) ==
  /\ save.by = "none"
  /\ save' = [by |-> by, job |-> j, snap |-> jobs]

\* saveLoop takes the request, waits a little and saves; what changes after the
\* copy asks again.
LoopSnapshot ==
  /\ saveDue
  /\ saveDue' = FALSE
  /\ IF Persistent THEN TakeSnapshot("loop", NoJob) ELSE UNCHANGED save
  /\ UNCHANGED <<jobs, run, work, stream, file, inputs, accounts, del, panicked, ghosts>>

FinishSnapshot(j) ==
  /\ run[j].pc = "save"
  /\ TakeSnapshot("finish", j)
  /\ run' = [run EXCEPT ![j].pc = "saving"]
  /\ UNCHANGED <<jobs, work, stream, saveDue, file, inputs, accounts, del, panicked,
                 ghosts>>

DeleteSnapshot ==
  /\ del.pc = "save"
  /\ TakeSnapshot("delete", del.job)
  /\ del' = [del EXCEPT !.pc = "saving"]
  /\ UNCHANGED <<jobs, run, work, stream, saveDue, file, inputs, accounts, panicked,
                 ghosts>>

\* ... and a rename; a failed write leaves the old file, and nobody is told.
Written ==
  /\ save.by # "none"
  /\ \/ file' = save.snap /\ UNCHANGED faults
     \/ faults < MaxFaults /\ faults' = faults + 1 /\ UNCHANGED file
  /\ save' = NoSave
  /\ run' = IF save.by = "finish" THEN [run EXCEPT ![save.job].pc = "over"] ELSE run
  /\ completed' = completed \cup (IF save.by = "finish" THEN {save.job} \cap Ids(jobs) ELSE {})
  /\ del' = IF save.by = "delete" THEN [del EXCEPT !.pc = "sidecar"] ELSE del
  /\ UNCHANGED <<jobs, work, stream, saveDue, inputs, accounts, panicked, restarts, deleted>>

-----------------------------------------------------------------------------
(* Deleting.                                                               *)

NoDelete == [pc |-> "idle", job |-> NoJob, subs |-> {}]

\* Delete: the job and its subscriptions leave the store ...
Delete ==
  /\ del.pc = "idle"
  /\ \E n \in DOMAIN jobs :
       LET j == jobs[n].id IN
       /\ jobs' = RemoveAt(jobs, n)
       /\ del' = [pc |-> "close", job |-> j, subs |-> Attached(j)]
       /\ stream' = [s \in Stream |-> IF s \in Attached(j)
                                      THEN [stream[s] EXCEPT !.attached = FALSE]
                                      ELSE stream[s]]
       /\ completed' = completed \ {j}
  /\ UNCHANGED <<run, work, inputs, accounts, panicked, storeVars, restarts, faults, deleted>>

\* ... then the channels are closed ...
DeleteClose ==
  /\ del.pc = "close"
  /\ \/ \E s \in del.subs :
          /\ stream' = [stream EXCEPT ![s].closed = TRUE]
          /\ del' = [del EXCEPT !.subs = @ \ {s}]
     \/ /\ del.subs = {}
        /\ del' = [del EXCEPT !.pc = IF Persistent THEN "save" ELSE "sidecar"]
        /\ UNCHANGED stream
  /\ UNCHANGED <<jobs, run, work, inputs, accounts, panicked, storeVars, ghosts>>

\* ... and after the history is saved the credentials go.
DeleteSidecar ==
  /\ del.pc = "sidecar"
  /\ inputs' = [inputs EXCEPT ![del.job] = {}]
  /\ deleted' = deleted \cup {del.job}
  /\ del' = NoDelete
  /\ UNCHANGED <<jobs, run, work, stream, accounts, panicked, storeVars, restarts, faults,
                 completed>>

-----------------------------------------------------------------------------
(* The process.                                                            *)

\* The process stops, on its own or by a panic, and starts again: NewStore.
Restart ==
  /\ restarts < MaxRestarts
  /\ restarts' = restarts + 1
  /\ jobs' = Newest(file)
  /\ run' = [j \in Job |-> IF run[j].pc \in {"none", "asked"} THEN NoRun
                           ELSE [NoRun EXCEPT !.pc = "over"]]
  /\ work' = [j \in Job |-> NoWork]
  /\ stream' = [s \in Stream |-> IF stream[s].pc = "idle" THEN NoStream
                                 ELSE [stream[s] EXCEPT !.pc = "over", !.attached = FALSE,
                                                        !.closed = TRUE, !.ch = <<>>]]
  /\ saveDue' = FALSE /\ save' = NoSave
  /\ del' = NoDelete
  /\ panicked' = FALSE
  /\ UNCHANGED <<file, inputs, accounts, faults, completed, deleted>>

Init ==
  /\ jobs = <<>> /\ file = <<>>
  /\ run = [j \in Job |-> NoRun]
  /\ work = [j \in Job |-> NoWork]
  /\ stream = [s \in Stream |-> NoStream]
  /\ saveDue = FALSE /\ save = NoSave
  /\ inputs = [j \in Job |-> {}]
  /\ accounts = {}
  /\ del = NoDelete
  /\ panicked = FALSE
  /\ restarts = 0 /\ faults = 0
  /\ completed = {} /\ deleted = {}

HandlerStep(j) == Start(j) \/ Retry(j) \/ RetryCreate(j) \/ SaveInputs(j)

RunnerStep(j) ==
  \/ \E i \in Row : Dispatch(j, i) \/ Begin(j, i) \/ Login(j, i) \/ Succeed(j, i)
                      \/ StepSent(j, i) \/ \E s \in Stream : SendStep(j, i, s)
  \/ Finish(j) \/ DoneSent(j) \/ FinishSnapshot(j) \/ \E s \in Stream : SendDone(j, s)

StreamStep(s) == SendSnapshot(s) \/ Receive(s) \/ Cancel(s)

SaveStep == LoopSnapshot \/ Written

DeleteStep == DeleteClose \/ DeleteSnapshot \/ DeleteSidecar

Next ==
  \/ /\ ~panicked
     /\ \/ \E j \in Job : HandlerStep(j) \/ RunnerStep(j)
        \/ \E s \in Stream : Subscribe(s) \/ StreamStep(s) \/ Disconnect(s)
        \/ SaveStep \/ Delete \/ DeleteStep
  \/ Restart

Spec == Init /\ [][Next]_vars

\* The goroutines of the server run: a handler and a runner that can go on do,
\* so do the streams and the saves.  Nobody has to start, delete or disconnect.
Fairness ==
  /\ \A j \in Job : WF_vars(~panicked /\ (SaveInputs(j) \/ RetryCreate(j) \/ RunnerStep(j)))
  /\ \A s \in Stream : WF_vars(~panicked /\ StreamStep(s))
  /\ WF_vars(~panicked /\ SaveStep)
  /\ WF_vars(~panicked /\ DeleteStep)

FairSpec == Spec /\ Fairness

-----------------------------------------------------------------------------
(* Properties.                                                             *)

Steps == [Row -> Status]

JobRecord ==
  [id : Job, state : {"running", "done"}, steps : Steps, ok : 0 .. Rows, fail : 0 .. Rows]

Event ==
  [kind : {"step"}, row : Row, status : Status] \cup [kind : {"done"}, steps : Steps]

\* Every variable keeps its type; the list of jobs and every channel keep
\* their limits, and no job is listed twice.
TypeOK ==
  /\ jobs \in Seq(JobRecord) /\ Len(jobs) <= MemCap /\ IsInjective([n \in DOMAIN jobs |-> jobs[n].id])
  /\ file \in Seq(JobRecord) /\ Len(file) <= MemCap
  /\ run \in [Job -> [pc : {"none", "asked", "created", "running", "send", "save",
                            "saving", "over"},
                      from : Job \cup {NoJob}, rows : SUBSET Row, to : SUBSET Stream,
                      steps : Steps]]
  /\ work \in [Job -> [Row -> [pc : {"none", "todo", "start", "login", "written", "send",
                                     "over"},
                               status : Status, to : SUBSET Stream]]]
  /\ stream \in [Stream -> [pc : {"idle", "snapshot", "events", "cancel", "over"},
                            job : Job \cup {NoJob}, attached : BOOLEAN, closed : BOOLEAN,
                            ch : Seq(Event),
                            snap : [state : {"running", "done"}, steps : Steps],
                            view : Steps, done : BOOLEAN]]
  /\ \A s \in Stream : Len(stream[s].ch) <= ChannelCap
  /\ saveDue \in BOOLEAN
  /\ save \in [by : {"none", "loop", "finish", "delete"}, job : Job \cup {NoJob},
               snap : Seq(JobRecord)]
  /\ inputs \in [Job -> SUBSET Row] /\ accounts \in SUBSET Row
  /\ del \in [pc : {"idle", "close", "save", "saving", "sidecar"},
              job : Job \cup {NoJob}, subs : SUBSET Stream]
  /\ panicked \in BOOLEAN
  /\ restarts \in 0 .. MaxRestarts /\ faults \in 0 .. MaxFaults
  /\ completed \in SUBSET Job /\ deleted \in SUBSET Job

\* A job that is done, in memory, on disk or in a save under way, has no row
\* left to do, and its counters are those of its rows: Finish comes after the
\* last worker, also for the reader of the file after a crash.
DoneIsComplete ==
  \A list \in {jobs, file, save.snap} : \A n \in DOMAIN list :
    list[n].state = "done" =>
      /\ WithStatus(list[n].steps, {"pending", "running"}) = {}
      /\ list[n].ok = Cardinality(WithStatus(list[n].steps, {"ok"}))
      /\ list[n].fail = Cardinality(WithStatus(list[n].steps, {"fail"}))

\* A client that was told "done" has seen the outcome of every row of the job,
\* whatever events its stream dropped.
DoneViewIsFinal ==
  \A s \in Stream : stream[s].done =>
    /\ WithStatus(stream[s].view, {"pending", "running"}) = {}
    /\ \A n \in DOMAIN jobs :
         jobs[n].id = stream[s].job /\ jobs[n].state = "done"
           => jobs[n].steps = stream[s].view

\* A row reported as ok, in memory, on disk or to a client, has its account
\* file: a crash between the two leaves an account too many, never one too few.
OkHasAccount ==
  /\ \A list \in {jobs, file} : \A n \in DOMAIN list :
       WithStatus(list[n].steps, {"ok"}) \subseteq accounts
  /\ \A s \in Stream : WithStatus(stream[s].view, {"ok"}) \subseteq accounts

\* "so a crash never loses a 'completed' job": once Finish returned, the job is
\* in the file as done, until it is deleted or evicted.  A write that fails is
\* only logged.
CompletedDurable ==
  faults = 0 => \A j \in completed : \E n \in DOMAIN file : file[n].id = j /\ file[n].state = "done"

Rank == [absent |-> 0, pending |-> 1, running |-> 2, ok |-> 3, fail |-> 3]

\* What a client sees of a row never goes back: the snapshot and the events
\* after it fit together although they are taken under different locks.
ViewNeverGoesBack ==
  [][\A s \in Stream, i \in Row :
       Rank[stream[s].view[i]] <= Rank[stream'[s].view[i]]]_vars

\* A runner that waits for its rows has a worker that runs, a place for the next
\* one, or nothing left to wait for; Finish waits for its own save only.
JobGoesOn(j) ==
  \/ run[j].pc \in {"asked", "created", "send"}
  \/ /\ run[j].pc = "running"
     /\ \/ Busy(j) # {}
        \/ /\ \E i \in Row : work[j][i].pc = "todo"
           /\ Cardinality(Busy(j)) < Concurrency
        \/ \A i \in Row : work[j][i].pc \in {"none", "over"}
  \/ run[j].pc = "save" /\ save.by = "none"

DeleteGoesOn == del.pc \in {"close", "sidecar"} \/ (del.pc = "save" /\ save.by = "none")

\* Nobody waits for ever: a job that was asked for has a step of its own until
\* it is over, and so has a delete, or a save is under way that they wait for;
\* the one that waits for its own save is the one that save wakes up.
NobodyStuck ==
  /\ \A j \in Job : \/ run[j].pc \in {"none", "over"}
                    \/ JobGoesOn(j)
                    \/ run[j].pc = "save" /\ save.by # "none"
                    \/ run[j].pc = "saving" /\ save.by = "finish" /\ save.job = j
  /\ \/ del.pc = "idle"
     \/ DeleteGoesOn
     \/ del.pc = "save" /\ save.by # "none"
     \/ del.pc = "saving" /\ save.by = "delete"

\* The guards written out above are those of the steps.
GuardsExact ==
  ~panicked =>
    /\ \A j \in Job : JobGoesOn(j) <=> ENABLED (SaveInputs(j) \/ RetryCreate(j) \/ RunnerStep(j))
    /\ DeleteGoesOn <=> ENABLED DeleteStep
    /\ save.by # "none" => ENABLED Written

RunRank == [none |-> 0, asked |-> 1, created |-> 2, running |-> 3, send |-> 4,
            save |-> 5, saving |-> 6, over |-> 7]

WorkRank(w) ==
  CASE w.pc = "none" -> 0
    [] w.pc = "todo" -> 1
    [] w.pc = "start" -> 2
    [] w.pc = "send" /\ w.status = "running" -> 3
    [] w.pc = "login" -> 4
    [] w.pc = "written" -> 5
    [] w.pc = "send" /\ w.status # "running" -> 6
    [] w.pc = "over" -> 7

\* A worker takes the next place on its way, or has one stream less to tell.
RowForward(w, v) ==
  \/ w = v
  \/ WorkRank(w) < WorkRank(v)
  \/ /\ WorkRank(w) = WorkRank(v)
     /\ v.to \subseteq w.to
     /\ v.to # w.to

\* So does a runner; only a retry that finds no credentials is refused.
RunnerForward(r, q) ==
  \/ RunRank[r.pc] < RunRank[q.pc]
  \/ q.pc = r.pc /\ q.to \subseteq r.to
  \/ r.pc = "asked" /\ q.pc = "none"

\* Every step of a job is progress: the runner and each of its workers only go on,
\* and nothing is retried or taken back, whatever is deleted, evicted or restarted
\* meanwhile.
JobsGoForward ==
  [][\A j \in Job :
       /\ RunnerForward(run[j], run'[j])
       /\ run[j].pc = "running" /\ run'[j].pc = "running" =>
            \A i \in Row : RowForward(work[j][i], work'[j][i])]_vars

\* A job that was started ends, unless it leaves memory first.
JobsEnd ==
  \A j \in Job : run[j].pc = "created" ~> run[j].pc = "over" \/ panicked

\* "Implementations must be goroutine-safe": no event is sent on a channel that
\* was closed, which ends the whole process.
NoSendOnClosed == ~panicked

\* "Finish() and Create() also call saveSync": a job whose start was answered is
\* in the history file.
StartedDurable ==
  \A n \in DOMAIN jobs :
    run[jobs[n].id].pc = "running" => jobs[n].id \in Ids(file)

\* "finally `event: done` when the runner calls store.Finish": a stream whose
\* job is over ends.
StreamsEnd ==
  \A s \in Stream :
    stream[s].pc = "events" /\ run[stream[s].job].pc = "over" ~> stream[s].pc = "over"

\* "The associated input sidecar (if any) is also deleted": no credentials are
\* kept of a job whose Delete returned.
DeletedInputsGone == \A j \in deleted : inputs[j] = {}

\* "job still running": a job listed as running has a handler or a runner.
RunningHasRunner ==
  \A n \in DOMAIN jobs : jobs[n].state = "running" => run[jobs[n].id].pc # "over"

=============================================================================
