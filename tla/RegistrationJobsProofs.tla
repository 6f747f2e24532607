----------------------- MODULE RegistrationJobsProofs -----------------------
(***************************************************************************)
(* Proofs about RegistrationJobs, for any number of jobs, rows, streams,   *)
(* workers, restarts and failing writes.                                   *)
(*                                                                         *)
(* Struct says who exists when: an id that was not given out is known to   *)
(* nobody, workers only work while their runner waits for them, what a     *)
(* broadcast has left to do are streams of its job.  On top of it RowsOK   *)
(* ties the rows of a job in memory to its workers and its runner,         *)
(* AccountsOK follows every "ok" through the jobs, the broadcasts and the  *)
(* channels back to its account file, and Durable follows a finished job   *)
(* from memory through a save into the file.  For the streams, Finality    *)
(* says that a job ends in one way, and Order that a client, its channel   *)
(* and its job come in this order.  SaveWaits says whom a save wakes up.   *)
(*                                                                         *)
(* The steps of the model are sorted into a few kinds (StepKinds) and, for *)
(* one stream, into what happens to it (StreamKinds); each kind has a      *)
(* lemma that says what it does, which the invariants share.               *)
(***************************************************************************)
EXTENDS RegistrationJobs, SequenceTheorems, FiniteSetTheorems, TLAPS
-----------------------------------------------------------------------------
(* Lists of jobs.                                                          *)

\* A list of jobs: not too long, no id twice.
ListOK(list) ==
  /\ list \in Seq(JobRecord)
  /\ Len(list) <= MemCap
  /\ \A m, n \in DOMAIN list : list[m].id = list[n].id => m = n

\* Every job of the one list is in the other.
Part(part, list) ==
  \A m \in DOMAIN part : \E n \in DOMAIN list : part[m] = list[n]

\* The domain of a list and its elements.
LEMMA ListElements ==
  ASSUME NEW list \in Seq(JobRecord)
  PROVE  /\ Len(list) \in Nat /\ DOMAIN list = 1 .. Len(list)
         /\ \A n \in DOMAIN list : list[n] \in JobRecord /\ list[n].id \in Job
<1>1. Len(list) \in Nat /\ DOMAIN list = 1 .. Len(list) BY LenProperties
<1>2. \A n \in 1 .. Len(list) : list[n] \in JobRecord BY ElementOfSeq
<1>3. \A job \in JobRecord : job.id \in Job BY DEF JobRecord
<1>4. QED BY <1>1, <1>2, <1>3

\* The end of a list is a list.
LEMMA EndOfList ==
  ASSUME NEW list \in Seq(JobRecord), NEW d \in Nat, d <= Len(list),
         \A m, n \in DOMAIN list : list[m].id = list[n].id => m = n,
         Len(list) - d <= MemCap
  PROVE  /\ ListOK(SubSeq(list, d + 1, Len(list)))
         /\ Part(SubSeq(list, d + 1, Len(list)), list)
<1> DEFINE part == SubSeq(list, d + 1, Len(list))
<1>1. Len(list) \in Nat /\ DOMAIN list = 1 .. Len(list) BY ListElements
<1>2. \A n \in d + 1 .. Len(list) : list[n] \in JobRecord BY <1>1, ListElements
<1>3. /\ part \in Seq(JobRecord)
      /\ Len(part) = IF d + 1 <= Len(list) THEN Len(list) - (d + 1) + 1 ELSE 0
      /\ \A n \in 1 .. Len(list) - (d + 1) + 1 : part[n] = list[d + 1 + n - 1]
  BY <1>1, <1>2, SubSeqProperties
<1> HIDE DEF part
<1>4. Len(part) = Len(list) - d
  <2>1. Len(list) \in Nat BY <1>1
  <2>2. Len(part) = IF d + 1 <= Len(list) THEN Len(list) - (d + 1) + 1 ELSE 0 BY <1>3
  <2>3. QED BY <2>1, <2>2
<1>5. DOMAIN part = 1 .. Len(part) BY <1>3, LenProperties
<1>6. ASSUME NEW n \in DOMAIN part PROVE n + d \in DOMAIN list /\ part[n] = list[n + d]
  <2>1. Len(list) \in Nat BY <1>1
  <2>2. n \in 1 .. Len(list) - d BY <1>4, <1>5
  <2>3. n + d \in 1 .. Len(list) /\ n \in 1 .. Len(list) - (d + 1) + 1 /\ d + 1 + n - 1 = n + d
    BY <2>1, <2>2
  <2>4. part[n] = list[d + 1 + n - 1] BY <1>3, <2>3
  <2>5. QED BY <1>1, <2>3, <2>4
<1>7. Part(part, list) BY <1>6 DEF Part
<1>8. ASSUME NEW m \in DOMAIN part, NEW n \in DOMAIN part, part[m].id = part[n].id PROVE m = n
  <2>1. m + d = n + d BY <1>6, <1>8
  <2>2. m \in Nat /\ n \in Nat BY <1>5
  <2>3. QED BY <2>1, <2>2
<1>9. ListOK(part) BY <1>3, <1>4, <1>8 DEF ListOK
<1>10. QED BY <1>7, <1>9 DEF part

\* A list that fits is kept as it is.
LEMMA NewestFits ==
  ASSUME NEW list, ListOK(list)
  PROVE  Newest(list) = list
<1>1. Len(list) \in Nat /\ MemCap \in Nat /\ Len(list) <= MemCap
  BY ListElements, RegistrationAssumption DEF ListOK
<1>2. QED BY <1>1 DEF Newest

\* A new job comes last, and the oldest go.
LEMMA NewestAppend ==
  ASSUME NEW list, ListOK(list), NEW job \in JobRecord,
         \A n \in DOMAIN list : list[n].id # job.id
  PROVE  /\ ListOK(Newest(Append(list, job)))
         /\ \A m \in DOMAIN Newest(Append(list, job)) :
              \/ Newest(Append(list, job))[m] = job
              \/ \E n \in DOMAIN list : Newest(Append(list, job))[m] = list[n]
<1> DEFINE all == Append(list, job)
<1>1. Len(list) \in Nat /\ DOMAIN list = 1 .. Len(list) /\ list \in Seq(JobRecord)
  BY ListElements DEF ListOK
<1>2. /\ all \in Seq(JobRecord) /\ Len(all) = Len(list) + 1
      /\ \A n \in 1 .. Len(list) : all[n] = list[n]
      /\ all[Len(list) + 1] = job
  BY <1>1, AppendProperties
<1> HIDE DEF all
<1>3. DOMAIN all = 1 .. Len(list) + 1 BY <1>2, ListElements
<1>4. ASSUME NEW n \in DOMAIN all PROVE all[n] = job \/ \E m \in DOMAIN list : all[n] = list[m]
  <2>1. n = Len(list) + 1 \/ n \in 1 .. Len(list) BY <1>1, <1>3
  <2>2. QED BY <1>1, <1>2, <2>1
<1>5. \A m, n \in DOMAIN all : all[m].id = all[n].id => m = n
  <2> SUFFICES ASSUME NEW m \in DOMAIN all, NEW n \in DOMAIN all, all[m].id = all[n].id
               PROVE  m = n
    OBVIOUS
  <2>1. m = Len(list) + 1 \/ m \in DOMAIN list BY <1>1, <1>3
  <2>2. n = Len(list) + 1 \/ n \in DOMAIN list BY <1>1, <1>3
  <2>3. QED BY <1>1, <1>2, <2>1, <2>2 DEF ListOK
<1>6. MemCap \in Nat /\ MemCap >= 1 BY RegistrationAssumption
<1>7. CASE Len(all) > MemCap
  <2> DEFINE d == Len(all) - MemCap
  <2>1. d \in Nat /\ d <= Len(all) /\ Len(all) - d <= MemCap
    BY <1>1, <1>2, <1>6, <1>7
  <2>2. Newest(all) = SubSeq(all, d + 1, Len(all)) BY <1>7 DEF Newest
  <2> HIDE DEF d
  <2>3. ListOK(Newest(all)) /\ Part(Newest(all), all)
    BY <1>2, <1>5, <2>1, <2>2, EndOfList
  <2>4. QED BY <1>4, <2>3 DEF Part, all
<1>8. CASE ~(Len(all) > MemCap)
  <2>1. Newest(all) = all BY <1>8 DEF Newest
  <2>2. Len(all) <= MemCap BY <1>1, <1>2, <1>6, <1>8
  <2>3. QED BY <1>2, <1>4, <1>5, <2>1, <2>2 DEF ListOK, all
<1>9. QED BY <1>7, <1>8

\* A job is taken out of the list.
LEMMA RemovedJob ==
  ASSUME NEW list, ListOK(list), NEW n \in DOMAIN list
  PROVE  /\ ListOK(RemoveAt(list, n)) /\ Part(RemoveAt(list, n), list)
         /\ list[n].id \notin Ids(RemoveAt(list, n))
         /\ \A m \in DOMAIN list \ {n} :
              \E k \in DOMAIN RemoveAt(list, n) : RemoveAt(list, n)[k] = list[m]
<1> DEFINE before == SubSeq(list, 1, n - 1)
           after == SubSeq(list, n + 1, Len(list))
           rest == before \o after
<1>1. /\ list \in Seq(JobRecord) /\ Len(list) \in Nat /\ DOMAIN list = 1 .. Len(list)
      /\ n \in 1 .. Len(list) /\ n \in Int /\ Len(list) <= MemCap
  BY ListElements DEF ListOK
<1>2. \A m \in 1 .. Len(list) : list[m] \in JobRecord BY <1>1, ListElements
<1>3. /\ before \in Seq(JobRecord) /\ Len(before) = n - 1
      /\ \A m \in 1 .. n - 1 : before[m] = list[m]
  <2>1. \A m \in 1 .. n - 1 : list[m] \in JobRecord BY <1>1, <1>2
  <2>2. /\ before \in Seq(JobRecord) /\ Len(before) = IF 1 <= n - 1 THEN n - 1 - 1 + 1 ELSE 0
        /\ \A m \in 1 .. n - 1 - 1 + 1 : before[m] = list[1 + m - 1]
    BY <1>1, <2>1, SubSeqProperties
  <2> HIDE DEF before
  <2>3. QED BY <1>1, <2>2
<1>4. /\ after \in Seq(JobRecord) /\ Len(after) = Len(list) - n
      /\ \A m \in 1 .. Len(list) - n : after[m] = list[n + m]
  <2>1. \A m \in n + 1 .. Len(list) : list[m] \in JobRecord BY <1>1, <1>2
  <2>2. /\ after \in Seq(JobRecord)
        /\ Len(after) = IF n + 1 <= Len(list) THEN Len(list) - (n + 1) + 1 ELSE 0
        /\ \A m \in 1 .. Len(list) - (n + 1) + 1 : after[m] = list[n + 1 + m - 1]
    BY <1>1, <2>1, SubSeqProperties
  <2> HIDE DEF after
  <2>3. Len(list) \in Nat /\ n \in 1 .. Len(list) BY <1>1
  <2>4. Len(after) = Len(list) - n
    <3>1. Len(after) = IF n + 1 <= Len(list) THEN Len(list) - (n + 1) + 1 ELSE 0 BY <2>2
    <3>2. QED BY <2>3, <3>1
  <2>5. ASSUME NEW m \in 1 .. Len(list) - n PROVE after[m] = list[n + m]
    <3>1. m \in 1 .. Len(list) - (n + 1) + 1 /\ n + 1 + m - 1 = n + m BY <2>3
    <3>2. after[m] = list[n + 1 + m - 1] BY <2>2, <3>1
    <3>3. QED BY <3>1, <3>2
  <2>6. QED BY <2>2, <2>4, <2>5
<1> HIDE DEF before, after
<1>5. /\ rest \in Seq(JobRecord) /\ Len(rest) = Len(list) - 1
      /\ \A m \in 1 .. Len(list) - 1 :
           rest[m] = IF m <= n - 1 THEN before[m] ELSE after[m - (n - 1)]
  <2>1. Len(before) + Len(after) = Len(list) - 1
    <3>1. Len(list) \in Nat /\ n \in 1 .. Len(list) BY <1>1
    <3>2. Len(before) = n - 1 /\ Len(after) = Len(list) - n BY <1>3, <1>4
    <3>3. QED BY <3>1, <3>2
  <2>2. before \in Seq(JobRecord) /\ after \in Seq(JobRecord) BY <1>3, <1>4
  <2>3. /\ rest \in Seq(JobRecord) /\ Len(rest) = Len(before) + Len(after)
        /\ \A m \in 1 .. Len(before) + Len(after) :
             rest[m] = IF m <= Len(before) THEN before[m] ELSE after[m - Len(before)]
    BY <2>2, ConcatProperties
  <2> HIDE DEF rest
  <2>4. Len(before) = n - 1 BY <1>3
  <2>5. QED BY <2>1, <2>3, <2>4
<1>6. rest = RemoveAt(list, n) BY DEF RemoveAt, before, after
<1> HIDE DEF rest
<1>7. DOMAIN rest = 1 .. Len(list) - 1 BY <1>1, <1>5, ListElements
<1> DEFINE at(m) == IF m <= n - 1 THEN m ELSE m + 1
<1>8. ASSUME NEW m \in DOMAIN rest PROVE at(m) \in DOMAIN list \ {n} /\ rest[m] = list[at(m)]
  <2>1. CASE m <= n - 1 BY <1>1, <1>3, <1>5, <1>7, <2>1
  <2>2. CASE ~(m <= n - 1)
    <3>1. m - (n - 1) \in 1 .. Len(list) - n BY <1>1, <1>7, <2>2
    <3>2. rest[m] = list[n + (m - (n - 1))] BY <1>4, <1>5, <1>7, <2>2, <3>1
    <3>3. n + (m - (n - 1)) = m + 1 BY <1>1, <1>7
    <3>4. QED BY <1>1, <1>7, <2>2, <3>2, <3>3
  <2>3. QED BY <2>1, <2>2
<1>9. ASSUME NEW m \in DOMAIN rest, NEW k \in DOMAIN rest, rest[m].id = rest[k].id PROVE m = k
  <2>1. at(m) = at(k) BY <1>8, <1>9 DEF ListOK
  <2>2. QED BY <1>1, <1>7, <2>1
<1>10. ListOK(rest)
  <2>1. rest \in Seq(JobRecord) BY <1>5
  <2>2. Len(rest) <= MemCap
    <3>1. Len(list) \in Nat /\ Len(list) <= MemCap /\ Len(rest) = Len(list) - 1 BY <1>1, <1>5
    <3>2. MemCap \in Nat BY RegistrationAssumption
    <3>3. QED BY <3>1, <3>2
  <2>3. QED BY <2>1, <2>2, <1>9 DEF ListOK
<1>11. Part(rest, list) BY <1>8 DEF Part
<1>12. list[n].id \notin Ids(rest) BY <1>8 DEF Ids, ListOK
<1>13. ASSUME NEW m \in DOMAIN list \ {n} PROVE \E k \in DOMAIN rest : rest[k] = list[m]
  <2>1. CASE m < n
    <3>1. m \in DOMAIN rest /\ at(m) = m BY <1>1, <1>7, <2>1
    <3>2. QED BY <1>8, <3>1
  <2>2. CASE m > n
    <3>1. m - 1 \in DOMAIN rest /\ at(m - 1) = m BY <1>1, <1>7, <2>2
    <3>2. QED BY <1>8, <3>1
  <2>3. QED BY <1>1, <2>1, <2>2
<1>14. QED BY <1>6, <1>10, <1>11, <1>12, <1>13

\* A job is changed in its place.
LEMMA ChangedJob ==
  ASSUME NEW list, ListOK(list), NEW n \in DOMAIN list, NEW job \in JobRecord,
         job.id = list[n].id
  PROVE  /\ ListOK([list EXCEPT ![n] = job])
         /\ DOMAIN [list EXCEPT ![n] = job] = DOMAIN list
         /\ Ids([list EXCEPT ![n] = job]) = Ids(list)
         /\ \A m \in DOMAIN list : [list EXCEPT ![n] = job][m] = IF m = n THEN job ELSE list[m]
<1> DEFINE new == [list EXCEPT ![n] = job]
<1>1. list \in Seq(JobRecord) /\ DOMAIN list = 1 .. Len(list) BY ListElements DEF ListOK
<1>2. new \in Seq(JobRecord) /\ Len(new) = Len(list) BY <1>1, ExceptSeq
<1>3. /\ DOMAIN new = DOMAIN list
      /\ \A m \in DOMAIN list : new[m] = IF m = n THEN job ELSE list[m]
  OBVIOUS
<1> HIDE DEF new
<1>4. \A m \in DOMAIN list : new[m].id = list[m].id BY <1>3
<1>5. Ids(new) = Ids(list) BY <1>3, <1>4 DEF Ids
<1>6. ListOK(new) BY <1>2, <1>3, <1>4 DEF ListOK
<1>7. QED BY <1>3, <1>5, <1>6 DEF new

\* findLocked finds the job.
LEMMA FindWorks ==
  ASSUME NEW list, ListOK(list), NEW j \in Ids(list)
  PROVE  /\ Find(list, j) \in DOMAIN list /\ list[Find(list, j)].id = j
         /\ \A n \in DOMAIN list : list[n].id = j => n = Find(list, j)
<1>1. \E n \in DOMAIN list : list[n].id = j BY DEF Ids
<1>2. Find(list, j) \in DOMAIN list /\ list[Find(list, j)].id = j BY <1>1 DEF Find
<1>3. QED BY <1>2 DEF ListOK

-----------------------------------------------------------------------------
(* Who exists when.                                                        *)

RunRec ==
  [pc : {"none", "asked", "created", "running", "send", "save", "saving", "over"},
   from : Job \cup {NoJob}, rows : SUBSET Row, to : SUBSET Stream, steps : Steps]

WorkRec ==
  [pc : {"none", "todo", "start", "login", "written", "send", "over"},
   status : Status, to : SUBSET Stream]

StreamRec ==
  [pc : {"idle", "snapshot", "events", "cancel", "over"},
   job : Job \cup {NoJob}, attached : BOOLEAN, closed : BOOLEAN, ch : Seq(Event),
   snap : [state : {"running", "done"}, steps : Steps], view : Steps, done : BOOLEAN]

SaveRec ==
  [by : {"none", "loop", "finish", "delete"}, job : Job \cup {NoJob},
   snap : Seq(JobRecord)]

DelRec ==
  [pc : {"idle", "close", "save", "saving", "sidecar"},
   job : Job \cup {NoJob}, subs : SUBSET Stream]

Lists == {jobs, file, save.snap}

RunType == run \in [Job -> RunRec]
WorkType == work \in [Job -> [Row -> WorkRec]]
StreamType ==
  stream \in [Stream -> StreamRec] /\ \A s \in Stream : Len(stream[s].ch) <= ChannelCap

Types ==
  /\ ListOK(jobs) /\ ListOK(file) /\ ListOK(save.snap)
  /\ RunType /\ WorkType /\ StreamType
  /\ saveDue \in BOOLEAN /\ save \in SaveRec
  /\ inputs \in [Job -> SUBSET Row] /\ accounts \in SUBSET Row
  /\ del \in DelRec
  /\ panicked \in BOOLEAN
  /\ restarts \in 0 .. MaxRestarts /\ faults \in 0 .. MaxFaults
  /\ completed \in SUBSET Job /\ deleted \in SUBSET Job

\* The job ids that were not given out yet, and those somebody knows.
Fresh == {j \in Job : run[j].pc \in {"none", "asked"}}
Used ==
  Ids(jobs) \cup Ids(file) \cup Ids(save.snap) \cup {stream[s].job : s \in Stream}

\* What a broadcast has left to do are streams of its job.
RunLinks ==
  \A j \in Job :
    /\ run[j].pc = "asked" => run[j].from \in Job
    /\ run[j].to # {} => run[j].pc = "send"
    /\ \A s \in run[j].to : stream[s].job = j

\* Workers only work while their runner waits for them.
WorkLinks ==
  \A j \in Job, i \in Row :
    /\ work[j][i].pc \notin {"none", "over"} => run[j].pc = "running"
    /\ run[j].pc \in {"none", "asked", "created"} => work[j][i].pc = "none"
    /\ work[j][i].to # {} => work[j][i].pc = "send"
    /\ work[j][i].pc = "send" => work[j][i].status \in {"running", "ok", "fail"}
    /\ \A s \in work[j][i].to : stream[s].job = j

StreamLinks ==
  \A s \in Stream :
    /\ stream[s].pc = "idle" => stream[s] = NoStream
    /\ stream[s].pc # "idle" => stream[s].job \in Job

\* Only a Finish and a Delete that wait for it are saved for, and a Delete closes
\* what was a stream of a job.
SaveLinks ==
  /\ save.by = "none" => save = NoSave
  /\ save.by = "finish" => save.job \in Job /\ run[save.job].pc = "saving"
  /\ save.by = "delete" => del.pc = "saving"
  /\ del.pc # "idle" => del.job \in Job
  /\ \A s \in Stream : s \in del.subs => stream[s].job \in Job

Links ==
  /\ Fresh \cap Used = {}
  /\ RunLinks /\ WorkLinks /\ StreamLinks /\ SaveLinks

Struct == Types /\ Links

\* A stream that has a job keeps it.
JobsKept == \A s \in Stream : stream[s].job \in Job => stream'[s].job = stream[s].job

-----------------------------------------------------------------------------
(* What the records of the model are.                                      *)

\* There are finitely many rows.
LEMMA RowFinite ==
  /\ Rows \in Nat /\ IsFiniteSet(Row) /\ Cardinality(Row) = Rows
<1>1. Rows \in Nat /\ Rows >= 1 BY RegistrationAssumption
<1>2. QED BY <1>1, FS_Interval DEF Row

\* A count of rows is at most Rows.
LEMMA RowCount ==
  ASSUME NEW steps, NEW wanted
  PROVE  Cardinality(WithStatus(steps, wanted)) \in 0 .. Rows
<1>1. WithStatus(steps, wanted) \in SUBSET Row BY DEF WithStatus
<1>2. /\ IsFiniteSet(WithStatus(steps, wanted))
      /\ Cardinality(WithStatus(steps, wanted)) <= Rows
  BY <1>1, RowFinite, FS_Subset
<1>3. Cardinality(WithStatus(steps, wanted)) \in Nat BY <1>2, FS_CardinalityType
<1>4. QED BY <1>2, <1>3, RowFinite

\* A new job has a status for every row.
LEMMA StepsType == ASSUME NEW rows PROVE StepsOf(rows) \in Steps
BY DEF StepsOf, Steps, Status

\* A new job.
LEMMA NewJobType ==
  ASSUME NEW j \in Job, NEW rows
  PROVE  /\ NewJob(j, rows) \in JobRecord /\ NewJob(j, rows).id = j
         /\ NewJob(j, rows).state = "running" /\ NewJob(j, rows).steps = StepsOf(rows)
         /\ NewJob(j, rows).ok = 0 /\ NewJob(j, rows).fail = 0
BY StepsType, RowFinite DEF NewJob, JobRecord

\* A job after UpdateStep.
LEMMA UpdatedType ==
  ASSUME NEW job \in JobRecord, NEW i \in Row, NEW status \in Status
  PROVE  /\ Updated(job, i, status) \in JobRecord
         /\ Updated(job, i, status).id = job.id
         /\ Updated(job, i, status).state = job.state
         /\ Updated(job, i, status).steps = [job.steps EXCEPT ![i] = status]
         /\ Updated(job, i, status).ok
              = Cardinality(WithStatus([job.steps EXCEPT ![i] = status], {"ok"}))
         /\ Updated(job, i, status).fail
              = Cardinality(WithStatus([job.steps EXCEPT ![i] = status], {"fail"}))
<1> DEFINE steps == [job.steps EXCEPT ![i] = status]
           okay == Cardinality(WithStatus(steps, {"ok"}))
           failed == Cardinality(WithStatus(steps, {"fail"}))
<1>1. steps \in Steps BY DEF JobRecord, Steps
<1>2. okay \in 0 .. Rows /\ failed \in 0 .. Rows BY RowCount
<1>3. Updated(job, i, status) = [job EXCEPT !.steps = steps, !.ok = okay, !.fail = failed]
  BY DEF Updated
<1> HIDE DEF steps, okay, failed
<1>4. QED
  <2>1. /\ Updated(job, i, status) \in JobRecord
        /\ Updated(job, i, status).id = job.id
        /\ Updated(job, i, status).state = job.state
        /\ Updated(job, i, status).steps = steps
        /\ Updated(job, i, status).ok = okay
        /\ Updated(job, i, status).fail = failed
    BY <1>1, <1>2, <1>3 DEF JobRecord
  <2>2. QED BY <2>1 DEF steps, okay, failed

\* A stream that never subscribed.
LEMMA NoStreamType ==
  NoStream \in StreamRec /\ NoStream.job = NoJob /\ NoStream.ch = <<>> /\ NoStream.pc = "idle"
<1>1. <<>> \in Seq(Event) BY EmptySeq
<1>2. StepsOf({}) \in Steps BY StepsType
<1>3. QED BY <1>1, <1>2 DEF NoStream, StreamRec

\* A job id nobody asked for.
LEMMA NoRunType ==
  /\ NoRun \in RunRec /\ NoRun.pc = "none" /\ NoRun.to = {} /\ NoRun.from = NoJob
  /\ NoRun.steps = StepsOf({}) /\ NoRun.rows = {}
BY StepsType DEF NoRun, RunRec

\* Nothing of a stream without a job is in anybody's way.
LEMMA EventTypes ==
  /\ \A i \in Row, status \in Status : StepEvent(i, status) \in Event
  /\ \A steps \in Steps : DoneEvent(steps) \in Event
BY DEF StepEvent, DoneEvent, Event

-----------------------------------------------------------------------------
(* A step that changes one stream, one worker or one runner.               *)

\* One stream changes, and not its job.
LEMMA StreamChange ==
  ASSUME Struct, NEW s \in Stream, NEW x \in StreamRec, Len(x.ch) <= ChannelCap,
         x.pc # "idle", x.job \in Job \ Fresh,
         stream[s].pc # "idle" => x.job = stream[s].job,
         stream' = [stream EXCEPT ![s] = x]
  PROVE  /\ StreamType' /\ StreamLinks' /\ JobsKept
         /\ \A q \in Stream : stream'[q] = IF q = s THEN x ELSE stream[q]
         /\ {stream'[q].job : q \in Stream} \cap Fresh = {}
<1>1. stream \in [Stream -> StreamRec] BY DEF Struct, Types, StreamType
<1>2. \A q \in Stream : stream'[q] = IF q = s THEN x ELSE stream[q] BY <1>1
<1>3. stream' \in [Stream -> StreamRec] BY <1>1
<1>4. StreamType' BY <1>2, <1>3 DEF Struct, Types, StreamType
<1>5. StreamLinks' BY <1>2 DEF Struct, Links, StreamLinks
<1>6. stream[s].pc = "idle" => stream[s].job = NoJob
  BY NoStreamType DEF Struct, Links, StreamLinks
<1>7. JobsKept BY <1>2, <1>6, RegistrationAssumption DEF JobsKept
<1>8. {stream'[q].job : q \in Stream} \cap Fresh = {}
  BY <1>2 DEF Struct, Links, Used
<1>9. QED BY <1>2, <1>4, <1>5, <1>7, <1>8

\* Streams change, runners and workers do not.
LEMMA RunnersRest ==
  ASSUME Struct, JobsKept, run' = run, work' = work
  PROVE  RunType' /\ WorkType' /\ RunLinks' /\ WorkLinks' /\ Fresh' = Fresh
<1>1. RunType' /\ WorkType' BY DEF Struct, Types, RunType, WorkType
<1>2. RunLinks'
  <2>1. \A j \in Job : run[j].to \subseteq Stream BY DEF Struct, Types, RunType, RunRec
  <2>2. QED BY <2>1 DEF Struct, Links, RunLinks, JobsKept
<1>3. WorkLinks'
  <2>1. \A j \in Job, i \in Row : work[j][i].to \subseteq Stream
    BY DEF Struct, Types, WorkType, WorkRec
  <2>2. QED BY <2>1 DEF Struct, Links, WorkLinks, JobsKept
<1>4. QED BY <1>1, <1>2, <1>3 DEF Fresh

\* One worker changes.
LEMMA WorkChange ==
  ASSUME Struct, JobsKept, NEW j \in Job, NEW i \in Row, NEW w \in WorkRec,
         run[j].pc = "running",
         w.to # {} => w.pc = "send",
         w.pc = "send" => w.status \in {"running", "ok", "fail"},
         \A s \in w.to : stream[s].job = j,
         work' = [work EXCEPT ![j][i] = w], run' = run
  PROVE  /\ WorkType' /\ WorkLinks' /\ RunType' /\ RunLinks' /\ Fresh' = Fresh
         /\ \A k \in Job, m \in Row :
              work'[k][m] = IF k = j /\ m = i THEN w ELSE work[k][m]
<1>1. work \in [Job -> [Row -> WorkRec]] BY DEF Struct, Types, WorkType
<1>2. \A k \in Job, m \in Row : work'[k][m] = IF k = j /\ m = i THEN w ELSE work[k][m]
  BY <1>1
<1>3. WorkType' BY <1>1 DEF WorkType
<1>4. ASSUME NEW k \in Job, NEW m \in Row
      PROVE  /\ work'[k][m].pc \notin {"none", "over"} => run'[k].pc = "running"
             /\ run'[k].pc \in {"none", "asked", "created"} => work'[k][m].pc = "none"
             /\ work'[k][m].to # {} => work'[k][m].pc = "send"
             /\ work'[k][m].pc = "send" => work'[k][m].status \in {"running", "ok", "fail"}
             /\ \A s \in work'[k][m].to : stream'[s].job = k
  <2>1. CASE k = j /\ m = i
    <3>1. work'[k][m] = w BY <1>2, <2>1
    <3>2. w.to \subseteq Stream BY DEF WorkRec
    <3>3. QED BY <2>1, <3>1, <3>2 DEF JobsKept
  <2>2. CASE ~(k = j /\ m = i)
    <3>1. work'[k][m] = work[k][m] BY <1>2, <2>2
    <3>2. work[k][m].to \subseteq Stream BY <1>1 DEF WorkRec
    <3>3. QED BY <3>1, <3>2 DEF Struct, Links, WorkLinks, JobsKept
  <2>3. QED BY <2>1, <2>2
<1>5. WorkLinks' BY <1>4 DEF WorkLinks
<1>6. RunLinks'
  <2>1. \A k \in Job : run[k].to \subseteq Stream BY DEF Struct, Types, RunType, RunRec
  <2>2. QED BY <2>1 DEF Struct, Links, RunLinks, JobsKept
<1>7. QED BY <1>2, <1>3, <1>5, <1>6 DEF Struct, Types, RunType, Fresh

\* One runner changes.
LEMMA RunChange ==
  ASSUME Struct, JobsKept, NEW j \in Job, NEW x \in RunRec,
         x.pc = "asked" => x.from \in Job,
         x.to # {} => x.pc = "send",
         \A s \in x.to : stream[s].job = j,
         x.pc \in {"none", "asked", "created"} => run[j].pc \in {"none", "asked"},
         \A i \in Row : work[j][i].pc \notin {"none", "over"} => x.pc = "running",
         run' = [run EXCEPT ![j] = x], work' = work
  PROVE  /\ WorkType' /\ WorkLinks' /\ RunType' /\ RunLinks'
         /\ \A k \in Job : run'[k] = IF k = j THEN x ELSE run[k]
         /\ Fresh' \subseteq Fresh
<1>1. run \in [Job -> RunRec] BY DEF Struct, Types, RunType
<1>2. \A k \in Job : run'[k] = IF k = j THEN x ELSE run[k] BY <1>1
<1>3. RunType' BY <1>1 DEF RunType
<1>4. Fresh' \subseteq Fresh BY <1>2 DEF Fresh
<1>5. RunLinks'
  <2>1. \A k \in Job : run'[k].to \subseteq Stream BY <1>3 DEF RunType, RunRec
  <2>2. QED BY <1>2, <2>1 DEF Struct, Links, RunLinks, JobsKept
<1>6. WorkLinks'
  <2>1. \A k \in Job, i \in Row : work[k][i].to \subseteq Stream
    BY DEF Struct, Types, WorkType, WorkRec
  <2>2. QED BY <1>2, <2>1 DEF Struct, Links, WorkLinks, JobsKept
<1>7. QED BY <1>2, <1>3, <1>4, <1>5, <1>6 DEF Struct, Types, WorkType

-----------------------------------------------------------------------------
(* The streams.                                                            *)

\* What the types say of one stream, one runner and one worker.
LEMMA TypesOf ==
  ASSUME Struct
  PROVE  /\ \A s \in Stream : stream[s] \in StreamRec /\ Len(stream[s].ch) <= ChannelCap
         /\ \A j \in Job : run[j] \in RunRec
         /\ \A j \in Job, i \in Row : work[j][i] \in WorkRec
         /\ \A n \in DOMAIN jobs : jobs[n] \in JobRecord /\ jobs[n].id \in Job
         /\ \A n \in DOMAIN file : file[n] \in JobRecord /\ file[n].id \in Job
         /\ \A n \in DOMAIN save.snap : save.snap[n] \in JobRecord /\ save.snap[n].id \in Job
<1>1. \A s \in Stream : stream[s] \in StreamRec /\ Len(stream[s].ch) <= ChannelCap
  BY DEF Struct, Types, StreamType
<1>2. \A j \in Job : run[j] \in RunRec BY DEF Struct, Types, RunType
<1>3. \A j \in Job, i \in Row : work[j][i] \in WorkRec BY DEF Struct, Types, WorkType
<1>4. jobs \in Seq(JobRecord) /\ file \in Seq(JobRecord) /\ save.snap \in Seq(JobRecord)
  BY DEF Struct, Types, ListOK
<1>5. QED BY <1>1, <1>2, <1>3, <1>4, ListElements

\* A step that changes one stream and nothing else.
LEMMA StreamStruct ==
  ASSUME Struct, NEW s \in Stream, NEW x \in StreamRec, Len(x.ch) <= ChannelCap,
         x.pc # "idle", x.job \in Job \ Fresh,
         stream[s].pc # "idle" => x.job = stream[s].job,
         stream' = [stream EXCEPT ![s] = x],
         UNCHANGED <<jobs, run, work, inputs, accounts, del, panicked, storeVars, ghosts>>
  PROVE  Struct'
<1>1. /\ StreamType' /\ StreamLinks' /\ JobsKept
      /\ {stream'[q].job : q \in Stream} \cap Fresh = {}
  BY StreamChange
<1>2. RunType' /\ WorkType' /\ RunLinks' /\ WorkLinks' /\ Fresh' = Fresh
  BY <1>1, RunnersRest
<1>3. Types' BY <1>1, <1>2 DEF Struct, Types, storeVars, ghosts
<1>4. SaveLinks' BY <1>1 DEF Struct, Links, SaveLinks, storeVars, JobsKept
<1>5. (Fresh \cap Used)' = {}
  BY <1>1, <1>2 DEF Struct, Links, Used, storeVars
<1>6. QED BY <1>1, <1>2, <1>3, <1>4, <1>5 DEF Struct, Links

\* A stream that has begun has a job that exists.
LEMMA StreamJob ==
  ASSUME Struct, NEW s \in Stream, stream[s].pc # "idle"
  PROVE  stream[s].job \in Job \ Fresh
BY DEF Struct, Links, StreamLinks, Used

\* A stream subscribes to a job that exists.
LEMMA SubscribeStruct ==
  ASSUME Struct, NEW s \in Stream, Subscribe(s)
  PROVE  Struct'
<1>1. PICK n \in DOMAIN jobs :
        stream' = [stream EXCEPT ![s] =
                    [NoStream EXCEPT !.pc = "snapshot", !.job = jobs[n].id,
                       !.attached = TRUE,
                       !.snap = [state |-> jobs[n].state, steps |-> jobs[n].steps]]]
  BY DEF Subscribe
<1> DEFINE x == [NoStream EXCEPT !.pc = "snapshot", !.job = jobs[n].id,
                       !.attached = TRUE,
                       !.snap = [state |-> jobs[n].state, steps |-> jobs[n].steps]]
<1>2. jobs[n] \in JobRecord /\ jobs[n].id \in Job BY TypesOf
<1>3. jobs[n].id \in Job \ Fresh BY <1>2 DEF Struct, Links, Used, Ids
<1>4. x \in StreamRec /\ x.ch = <<>> /\ x.pc = "snapshot" /\ x.job = jobs[n].id
  BY <1>2, NoStreamType DEF StreamRec, JobRecord
<1>5. Len(x.ch) <= ChannelCap
  <2>1. Len(<<>>) = 0 BY EmptySeq
  <2>2. QED BY <1>4, <2>1, RegistrationAssumption
<1> HIDE DEF x
<1>6. QED BY <1>1, <1>3, <1>4, <1>5, StreamStruct DEF Subscribe, x

\* The snapshot is written to the client.
LEMMA SendSnapshotStruct ==
  ASSUME Struct, NEW s \in Stream, SendSnapshot(s)
  PROVE  Struct'
<1> DEFINE snap == stream[s].snap
           x == [stream[s] EXCEPT !.view = snap.steps, !.done = (snap.state = "done"),
                  !.snap = NoStream.snap,
                  !.pc = IF snap.state = "done" THEN "cancel" ELSE "events"]
<1>1. stream[s] \in StreamRec /\ Len(stream[s].ch) <= ChannelCap BY TypesOf
<1>2. stream[s].pc = "snapshot" BY DEF SendSnapshot
<1>3. stream[s].job \in Job \ Fresh BY <1>2, StreamJob
<1>4. /\ snap.steps \in Steps /\ (snap.state = "done") \in BOOLEAN
      /\ NoStream.snap \in [state : {"running", "done"}, steps : Steps]
      /\ (IF snap.state = "done" THEN "cancel" ELSE "events") \in {"cancel", "events"}
  BY <1>1, NoStreamType DEF StreamRec
<1>5. /\ x \in StreamRec /\ x.ch = stream[s].ch /\ x.job = stream[s].job
      /\ x.pc # "idle"
  <2> DEFINE steps == snap.steps
             done == (snap.state = "done")
             pc == IF snap.state = "done" THEN "cancel" ELSE "events"
             nosnap == NoStream.snap
  <2>1. /\ steps \in Steps /\ done \in BOOLEAN /\ pc \in {"cancel", "events"}
        /\ nosnap \in [state : {"running", "done"}, steps : Steps]
    BY <1>4
  <2>2. x = [stream[s] EXCEPT !.view = steps, !.done = done, !.snap = nosnap, !.pc = pc]
    OBVIOUS
  <2> HIDE DEF steps, done, pc, nosnap, x
  <2>3. QED BY <1>1, <2>1, <2>2 DEF StreamRec
<1>6. stream' = [stream EXCEPT ![s] = x] BY DEF SendSnapshot, Struct, Types, StreamType
<1> HIDE DEF x
<1>7. QED BY <1>1, <1>2, <1>3, <1>5, <1>6, StreamStruct DEF SendSnapshot

\* What the two ends of Receive do: the view and the rest of the channel.
Received(s, x) ==
  \/ LET event == Head(stream[s].ch) IN
     /\ stream[s].ch # <<>>
     /\ x = [stream[s] EXCEPT !.ch = Tail(@),
             !.view = IF event.kind = "step" THEN [@ EXCEPT ![event.row] = event.status]
                      ELSE event.steps,
             !.done = (event.kind = "done"),
             !.pc = IF event.kind = "done" THEN "cancel" ELSE "events"]
  \/ /\ stream[s].ch = <<>> /\ stream[s].closed
     /\ x = [stream[s] EXCEPT !.pc = "cancel"]

\* Receive is one of the changes that Received lists.
LEMMA ReceivedStep ==
  ASSUME Struct, NEW s \in Stream, Receive(s)
  PROVE  \E x : Received(s, x) /\ stream' = [stream EXCEPT ![s] = x]
<1>1. stream \in [Stream -> StreamRec] BY DEF Struct, Types, StreamType
<1>2. CASE stream[s].ch # <<>>
  <2> DEFINE event == Head(stream[s].ch)
             x == [stream[s] EXCEPT !.ch = Tail(@),
             !.view = IF event.kind = "step" THEN [@ EXCEPT ![event.row] = event.status]
                      ELSE event.steps,
             !.done = (event.kind = "done"),
             !.pc = IF event.kind = "done" THEN "cancel" ELSE "events"]
  <2>1. Received(s, x) BY <1>2 DEF Received
  <2>2. stream' = [stream EXCEPT ![s] = x] BY <1>1, <1>2 DEF Receive
  <2>3. QED BY <2>1, <2>2
<1>3. CASE stream[s].ch = <<>>
  <2> DEFINE x == [stream[s] EXCEPT !.pc = "cancel"]
  <2>1. Received(s, x) BY <1>3 DEF Received, Receive
  <2>2. stream' = [stream EXCEPT ![s] = x] BY <1>1, <1>3 DEF Receive
  <2>3. QED BY <2>1, <2>2
<1>4. QED BY <1>2, <1>3

\* Where the record of the stream is after Receive.
LEMMA ReceivedRecord ==
  ASSUME Struct, NEW s \in Stream, NEW x, Received(s, x)
  PROVE  /\ x \in StreamRec /\ x.job = stream[s].job /\ x.snap = stream[s].snap
         /\ x.attached = stream[s].attached
         /\ x.pc \in {"events", "cancel"} /\ Len(x.ch) <= ChannelCap
         /\ \/ /\ stream[s].ch # <<>> /\ Head(stream[s].ch) \in Event
               /\ x.ch = Tail(stream[s].ch)
               /\ \/ /\ Head(stream[s].ch).kind = "step" /\ x.pc = "events" /\ ~x.done
                     /\ x.view = [stream[s].view EXCEPT ![Head(stream[s].ch).row]
                                                        = Head(stream[s].ch).status]
                  \/ /\ Head(stream[s].ch).kind = "done" /\ x.pc = "cancel" /\ x.done
                     /\ x.view = Head(stream[s].ch).steps
            \/ /\ x.ch = <<>> /\ x.view = stream[s].view /\ x.pc = "cancel"
               /\ x.done = stream[s].done
<1>1. stream[s] \in StreamRec /\ Len(stream[s].ch) <= ChannelCap BY TypesOf
<1>2. stream[s].ch \in Seq(Event) /\ Len(stream[s].ch) \in Nat
  BY <1>1, LenProperties DEF StreamRec
<1>3. CASE stream[s].ch # <<>>
  <2> DEFINE event == Head(stream[s].ch)
             rest == Tail(stream[s].ch)
             view == IF event.kind = "step" THEN [stream[s].view EXCEPT ![event.row] = event.status]
                     ELSE event.steps
             done == (event.kind = "done")
             pc == IF event.kind = "done" THEN "cancel" ELSE "events"
  <2>1. /\ event \in Event /\ rest \in Seq(Event) /\ Len(rest) = Len(stream[s].ch) - 1
    BY <1>2, <1>3, HeadTailProperties
  <2>2. \/ event.kind = "step" /\ event.row \in Row /\ event.status \in Status
        \/ event.kind = "done" /\ event.steps \in Steps
    BY <2>1 DEF Event
  <2>3. view \in Steps /\ done \in BOOLEAN /\ pc \in {"cancel", "events"}
    BY <1>1, <2>2 DEF StreamRec, Steps
  <2>4. Len(rest) <= ChannelCap BY <1>1, <1>2, <2>1, RegistrationAssumption
  <2>5. x = [stream[s] EXCEPT !.ch = rest, !.view = view, !.done = done, !.pc = pc]
    BY <1>3 DEF Received
  <2>6. \/ event.kind = "step" /\ view = [stream[s].view EXCEPT ![event.row] = event.status]
           /\ ~done /\ pc = "events"
        \/ event.kind = "done" /\ view = event.steps /\ done /\ pc = "cancel"
    BY <2>2
  <2> HIDE DEF view, done, pc, rest, event
  <2>7. /\ x \in StreamRec /\ x.job = stream[s].job /\ x.snap = stream[s].snap
        /\ x.attached = stream[s].attached
        /\ x.pc = pc /\ x.view = view /\ x.ch = rest /\ x.done = done
    BY <1>1, <2>1, <2>3, <2>5 DEF StreamRec
  <2>8. QED BY <1>3, <2>1, <2>3, <2>4, <2>6, <2>7 DEF event, rest
<1>4. CASE stream[s].ch = <<>>
  <2>1. x = [stream[s] EXCEPT !.pc = "cancel"] BY <1>4 DEF Received
  <2>2. QED BY <1>1, <1>4, <2>1 DEF StreamRec
<1>5. QED BY <1>3, <1>4

\* An event is written to the client.
LEMMA ReceiveStruct ==
  ASSUME Struct, NEW s \in Stream, Receive(s)
  PROVE  Struct'
<1>1. PICK x : Received(s, x) /\ stream' = [stream EXCEPT ![s] = x] BY ReceivedStep
<1>2. x \in StreamRec /\ x.job = stream[s].job /\ x.pc # "idle" /\ Len(x.ch) <= ChannelCap
  BY <1>1, ReceivedRecord
<1>3. stream[s].pc = "events" BY DEF Receive
<1>4. stream[s].job \in Job \ Fresh BY <1>3, StreamJob
<1>5. QED BY <1>1, <1>2, <1>3, <1>4, StreamStruct DEF Receive

\* The client goes away, and the subscription after it.
LEMMA LeaveStruct ==
  ASSUME Struct, NEW s \in Stream, Disconnect(s) \/ Cancel(s)
  PROVE  Struct'
<1>1. stream[s] \in StreamRec /\ Len(stream[s].ch) <= ChannelCap BY TypesOf
<1>2. stream[s].pc # "idle" BY DEF Disconnect, Cancel
<1>3. stream[s].job \in Job \ Fresh BY <1>2, StreamJob
<1>4. stream \in [Stream -> StreamRec] BY DEF Struct, Types, StreamType
<1>5. CASE Disconnect(s)
  <2> DEFINE x == [stream[s] EXCEPT !.pc = "cancel"]
  <2>1. x \in StreamRec /\ x.job = stream[s].job /\ x.pc # "idle" /\ x.ch = stream[s].ch
    BY <1>1 DEF StreamRec
  <2>2. stream' = [stream EXCEPT ![s] = x] BY <1>4, <1>5 DEF Disconnect
  <2> HIDE DEF x
  <2>3. QED BY <1>1, <1>2, <1>3, <1>5, <2>1, <2>2, StreamStruct DEF Disconnect
<1>6. CASE Cancel(s)
  <2> DEFINE x == [stream[s] EXCEPT !.pc = "over", !.attached = FALSE,
                  !.closed = @ \/ stream[s].attached, !.ch = <<>>]
  <2>1. <<>> \in Seq(Event) /\ Len(<<>>) = 0 BY EmptySeq
  <2>2. (stream[s].closed \/ stream[s].attached) \in BOOLEAN BY <1>1 DEF StreamRec
  <2>3. x \in StreamRec /\ x.job = stream[s].job /\ x.pc # "idle" /\ x.ch = <<>>
    <3> DEFINE closed == stream[s].closed \/ stream[s].attached
    <3>1. x = [stream[s] EXCEPT !.pc = "over", !.attached = FALSE, !.closed = closed, !.ch = <<>>]
      BY <1>1 DEF StreamRec
    <3>2. closed \in BOOLEAN BY <2>2
    <3> HIDE DEF x, closed
    <3>3. QED BY <1>1, <2>1, <3>1, <3>2 DEF StreamRec
  <2>4. Len(x.ch) <= ChannelCap BY <2>1, <2>3, RegistrationAssumption
  <2>5. stream' = [stream EXCEPT ![s] = x] BY <1>4, <1>6 DEF Cancel
  <2> HIDE DEF x
  <2>6. QED BY <1>1, <1>2, <1>3, <1>6, <2>3, <2>4, <2>5, StreamStruct DEF Cancel
<1>7. QED BY <1>5, <1>6

-----------------------------------------------------------------------------
(* The workers.                                                            *)

\* broadcast to one stream: one event more, or nothing; and nothing else of any
\* stream changes.
LEMMA SendEffect ==
  ASSUME Struct, NEW s \in Stream, stream[s].job \in Job, NEW event \in Event, Send(s, event)
  PROVE  /\ StreamType' /\ StreamLinks' /\ JobsKept
         /\ {stream'[q].job : q \in Stream} = {stream[q].job : q \in Stream}
         /\ panicked' \in BOOLEAN
         /\ \A q \in Stream \ {s} : stream'[q] = stream[q]
         /\ \/ stream'[s] = stream[s]
            \/ stream'[s] = [stream[s] EXCEPT !.ch = Append(@, event)]
<1>1. stream \in [Stream -> StreamRec] /\ stream[s] \in StreamRec /\ Len(stream[s].ch) <= ChannelCap
  BY TypesOf DEF Struct, Types, StreamType
<1>2. panicked' \in BOOLEAN BY <1>1 DEF Send, StreamRec
<1>3. CASE stream[s].closed \/ Len(stream[s].ch) >= ChannelCap
  <2>1. stream' = stream BY <1>3 DEF Send
  <2>2. QED BY <1>2, <2>1 DEF Struct, Types, Links, StreamType, StreamLinks, JobsKept
<1>4. CASE ~(stream[s].closed \/ Len(stream[s].ch) >= ChannelCap)
  <2> DEFINE ch == Append(stream[s].ch, event)
             x == [stream[s] EXCEPT !.ch = ch]
  <2>1. stream' = [stream EXCEPT ![s] = x] BY <1>1, <1>4 DEF Send
  <2>2. Len(stream[s].ch) \in Nat /\ stream[s].ch \in Seq(Event)
    BY <1>1, LenProperties DEF StreamRec
  <2>3. ch \in Seq(Event) /\ Len(ch) = Len(stream[s].ch) + 1 BY <2>2, AppendProperties
  <2> HIDE DEF ch
  <2>4. x \in StreamRec /\ x.job = stream[s].job /\ x.pc = stream[s].pc /\ x.ch = ch
    BY <1>1, <2>3 DEF StreamRec
  <2>5. Len(ch) <= ChannelCap BY <1>4, <2>2, <2>3, RegistrationAssumption
  <2>6. stream[s].pc # "idle"
    BY NoStreamType, RegistrationAssumption DEF Struct, Links, StreamLinks
  <2>7. x.job \in Job \ Fresh BY <2>4, <2>6, StreamJob
  <2> HIDE DEF x
  <2>8. /\ StreamType' /\ StreamLinks' /\ JobsKept
        /\ \A q \in Stream : stream'[q] = IF q = s THEN x ELSE stream[q]
    BY <2>1, <2>4, <2>5, <2>6, <2>7, StreamChange
  <2>9. \A q \in Stream : stream'[q].job = stream[q].job BY <2>4, <2>8
  <2>10. QED BY <1>2, <2>8, <2>9 DEF x, ch
<1>5. QED BY <1>3, <1>4

\* Where UpdateStep leaves the worker.
Sending(j, status) == [pc |-> "send", status |-> status, to |-> Attached(j)]
Skipped(status) ==
  [pc |-> IF status = "running" THEN "login" ELSE "over", status |-> "absent", to |-> {}]

\* UpdateStep of a job in memory: its entry is changed, and its streams are to be told.
LEMMA UpdateKnown ==
  ASSUME Struct, NEW j \in Job, NEW i \in Row, NEW status \in {"running", "ok", "fail"},
         Known(j), UpdateStep(j, i, status)
  PROVE  /\ Find(jobs, j) \in DOMAIN jobs /\ jobs[Find(jobs, j)].id = j
         /\ ListOK(jobs') /\ DOMAIN jobs' = DOMAIN jobs /\ Ids(jobs') = Ids(jobs)
         /\ jobs'[Find(jobs, j)] = Updated(jobs[Find(jobs, j)], i, status)
         /\ \A m \in DOMAIN jobs \ {Find(jobs, j)} : jobs'[m] = jobs[m]
         /\ Sending(j, status) \in WorkRec
         /\ work' = [work EXCEPT ![j][i] = Sending(j, status)]
<1> DEFINE n == Find(jobs, j)
           job == Updated(jobs[n], i, status)
<1>1. ListOK(jobs) BY DEF Struct, Types
<1>2. n \in DOMAIN jobs /\ jobs[n].id = j BY <1>1, FindWorks DEF Known
<1>3. jobs[n] \in JobRecord BY <1>2, TypesOf
<1>4. status \in Status BY DEF Status
<1>5. job \in JobRecord /\ job.id = jobs[n].id BY <1>3, <1>4, UpdatedType
<1>6. jobs' = [jobs EXCEPT ![n] = job] /\ work' = [work EXCEPT ![j][i] = Sending(j, status)]
  BY <1>2 DEF UpdateStep, Sending
<1> HIDE DEF job, n
<1>7. /\ ListOK(jobs') /\ DOMAIN jobs' = DOMAIN jobs /\ Ids(jobs') = Ids(jobs)
      /\ \A m \in DOMAIN jobs : jobs'[m] = IF m = n THEN job ELSE jobs[m]
  BY <1>1, <1>2, <1>5, <1>6, ChangedJob
<1>8. Sending(j, status) \in WorkRec BY <1>4 DEF WorkRec, Attached, Sending
<1>9. QED BY <1>2, <1>6, <1>7, <1>8 DEF job, n

\* UpdateStep of a job that left memory.
LEMMA UpdateUnknown ==
  ASSUME Struct, NEW j \in Job, NEW i \in Row, NEW status \in {"running", "ok", "fail"},
         ~Known(j), UpdateStep(j, i, status)
  PROVE  /\ jobs' = jobs /\ Skipped(status) \in WorkRec
         /\ work' = [work EXCEPT ![j][i] = Skipped(status)]
BY DEF UpdateStep, WorkRec, Status, Skipped

\* What UpdateStep leaves in order.
LEMMA UpdateStruct ==
  ASSUME Struct, NEW j \in Job, NEW i \in Row, NEW status \in {"running", "ok", "fail"},
         run[j].pc = "running", run' = run, stream' = stream, UpdateStep(j, i, status)
  PROVE  /\ ListOK(jobs') /\ Ids(jobs') = Ids(jobs)
         /\ WorkType' /\ WorkLinks' /\ RunType' /\ RunLinks' /\ Fresh' = Fresh
<1>1. JobsKept BY DEF JobsKept
<1>2. CASE Known(j)
  <2>1. /\ ListOK(jobs') /\ Ids(jobs') = Ids(jobs)
        /\ Sending(j, status) \in WorkRec
        /\ work' = [work EXCEPT ![j][i] = Sending(j, status)]
    BY <1>2, UpdateKnown
  <2>2. /\ Sending(j, status).pc = "send" /\ Sending(j, status).status = status
        /\ \A s \in Sending(j, status).to : stream[s].job = j
    BY DEF Attached, Sending
  <2>3. QED BY <1>1, <2>1, <2>2, WorkChange
<1>3. CASE ~Known(j)
  <2>1. /\ jobs' = jobs /\ Skipped(status) \in WorkRec
        /\ work' = [work EXCEPT ![j][i] = Skipped(status)]
    BY <1>3, UpdateUnknown
  <2>2. Skipped(status).pc # "send" /\ Skipped(status).to = {} BY DEF Skipped
  <2>3. ListOK(jobs') /\ Ids(jobs') = Ids(jobs) BY <2>1 DEF Struct, Types
  <2>4. QED BY <1>1, <2>1, <2>2, <2>3, WorkChange
<1>4. QED BY <1>2, <1>3

\* A worker that is at work has its runner waiting.
LEMMA AtWork ==
  ASSUME Struct, NEW j \in Job, NEW i \in Row, work[j][i].pc \notin {"none", "over"}
  PROVE  run[j].pc = "running"
BY DEF Struct, Links, WorkLinks

\* What is left to show of a step of a worker.
LEMMA WorkerStruct ==
  ASSUME Struct, JobsKept, ListOK(jobs'), Ids(jobs') = Ids(jobs),
         WorkType', WorkLinks', RunType', RunLinks', Fresh' = Fresh,
         StreamType', StreamLinks',
         {stream'[q].job : q \in Stream} = {stream[q].job : q \in Stream},
         saveDue' \in BOOLEAN, accounts' \in SUBSET Row, panicked' \in BOOLEAN, run' = run,
         UNCHANGED <<inputs, del, save, file, ghosts>>
  PROVE  Struct'
<1>1. Types' BY DEF Struct, Types, ghosts
<1>2. SaveLinks' BY DEF Struct, Links, SaveLinks, JobsKept
<1>3. Used' = Used BY DEF Used
<1>4. QED BY <1>1, <1>2, <1>3 DEF Struct, Links

\* A worker gets its row.
LEMMA DispatchStruct ==
  ASSUME Struct, NEW j \in Job, NEW i \in Row, Dispatch(j, i)
  PROVE  Struct'
<1> DEFINE w == [work[j][i] EXCEPT !.pc = "start"]
<1>1. work[j][i] \in WorkRec /\ work[j][i].pc = "todo" BY TypesOf DEF Dispatch
<1>2. work[j][i].to = {} BY <1>1 DEF Struct, Links, WorkLinks
<1>3. w \in WorkRec /\ w.to = {} /\ w.pc = "start" BY <1>1, <1>2 DEF WorkRec
<1>4. work' = [work EXCEPT ![j][i] = w] BY DEF Dispatch, Struct, Types, WorkType
<1>5. JobsKept BY DEF JobsKept, Dispatch
<1> HIDE DEF w
<1>6. WorkType' /\ WorkLinks' /\ RunType' /\ RunLinks' /\ Fresh' = Fresh
  BY <1>3, <1>4, <1>5, WorkChange DEF Dispatch
<1>7. QED
  BY <1>5, <1>6, WorkerStruct
     DEF Dispatch, Struct, Types, Links, StreamType, StreamLinks, storeVars, ghosts

\* A worker reports its row.
LEMMA RowUpdateStruct ==
  ASSUME Struct, NEW j \in Job, NEW i \in Row, Begin(j, i) \/ Succeed(j, i) \/ Login(j, i)
  PROVE  Struct'
<1>1. work[j][i].pc \in {"start", "written", "login"} BY DEF Begin, Succeed, Login
<1>2. run[j].pc = "running" BY <1>1, AtWork
<1>3. accounts' \in SUBSET Row BY DEF Begin, Succeed, Login, Struct, Types
<1>4. /\ run' = run /\ stream' = stream
      /\ UNCHANGED <<inputs, del, panicked, storeVars, ghosts>>
  BY DEF Begin, Succeed, Login
<1>5. CASE \E status \in {"running", "ok", "fail"} : UpdateStep(j, i, status)
  <2>1. /\ ListOK(jobs') /\ Ids(jobs') = Ids(jobs)
        /\ WorkType' /\ WorkLinks' /\ RunType' /\ RunLinks' /\ Fresh' = Fresh
    BY <1>2, <1>4, <1>5, UpdateStruct
  <2>2. QED
    BY <1>3, <1>4, <2>1, WorkerStruct
       DEF Struct, Types, Links, StreamType, StreamLinks, storeVars, JobsKept
<1>6. CASE Login(j, i) /\ work' = [work EXCEPT ![j][i].pc = "written"] /\ jobs' = jobs
  <2> DEFINE w == [work[j][i] EXCEPT !.pc = "written"]
  <2>1. work[j][i] \in WorkRec /\ work[j][i].pc = "login" BY <1>6, TypesOf DEF Login
  <2>2. work[j][i].to = {} BY <2>1 DEF Struct, Links, WorkLinks
  <2>3. w \in WorkRec /\ w.to = {} /\ w.pc = "written" BY <2>1, <2>2 DEF WorkRec
  <2>4. work' = [work EXCEPT ![j][i] = w] BY <1>6 DEF Struct, Types, WorkType
  <2>5. JobsKept BY <1>4 DEF JobsKept
  <2> HIDE DEF w
  <2>6. WorkType' /\ WorkLinks' /\ RunType' /\ RunLinks' /\ Fresh' = Fresh
    BY <1>2, <1>4, <2>3, <2>4, <2>5, WorkChange
  <2>7. QED
    BY <1>3, <1>4, <1>6, <2>6, WorkerStruct
       DEF Struct, Types, Links, StreamType, StreamLinks, storeVars, JobsKept
<1>7. QED BY <1>5, <1>6 DEF Begin, Succeed, Login

\* The broadcast of a row reaches one stream.
LEMMA SendStepStruct ==
  ASSUME Struct, NEW j \in Job, NEW i \in Row, NEW s \in Stream, SendStep(j, i, s)
  PROVE  Struct'
<1> DEFINE w == [work[j][i] EXCEPT !.to = @ \ {s}]
           event == StepEvent(i, work[j][i].status)
<1>1. work[j][i] \in WorkRec /\ work[j][i].pc = "send" /\ s \in work[j][i].to
  BY TypesOf DEF SendStep
<1>2. stream[s].job = j /\ run[j].pc = "running" /\ work[j][i].status \in {"running", "ok", "fail"}
  BY <1>1 DEF Struct, Links, WorkLinks
<1>3. event \in Event BY <1>1, EventTypes DEF WorkRec
<1>4. /\ w \in WorkRec /\ w.pc = "send" /\ w.status = work[j][i].status
      /\ w.to \subseteq work[j][i].to
  BY <1>1 DEF WorkRec
<1>5. \A q \in w.to : stream[q].job = j BY <1>4 DEF Struct, Links, WorkLinks
<1>6. work' = [work EXCEPT ![j][i] = w] /\ Send(s, event) /\ run' = run
  BY DEF SendStep, Struct, Types, WorkType
<1> HIDE DEF w, event
<1>7. /\ StreamType' /\ StreamLinks' /\ JobsKept /\ panicked' \in BOOLEAN
      /\ {stream'[q].job : q \in Stream} = {stream[q].job : q \in Stream}
  BY <1>2, <1>3, <1>6, SendEffect
<1>8. WorkType' /\ WorkLinks' /\ RunType' /\ RunLinks' /\ Fresh' = Fresh
  BY <1>2, <1>4, <1>5, <1>6, <1>7, WorkChange
<1>9. QED
  BY <1>6, <1>7, <1>8, WorkerStruct DEF SendStep, Struct, Types, storeVars, ghosts

\* The broadcast of a row is over.
LEMMA StepSentStruct ==
  ASSUME Struct, NEW j \in Job, NEW i \in Row, StepSent(j, i)
  PROVE  Struct'
<1> DEFINE pc == IF work[j][i].status = "running" THEN "login" ELSE "over"
           w == [pc |-> pc, status |-> "absent", to |-> {}]
<1>1. work[j][i].pc = "send" BY DEF StepSent
<1>2. run[j].pc = "running" BY <1>1, AtWork
<1>3. pc \in {"login", "over"} OBVIOUS
<1> HIDE DEF pc
<1>4. w \in WorkRec /\ w.to = {} /\ w.pc # "send" BY <1>3 DEF WorkRec, Status
<1>5. work' = [work EXCEPT ![j][i] = w] /\ run' = run /\ stream' = stream
  BY DEF StepSent, pc
<1>6. JobsKept BY <1>5 DEF JobsKept
<1> HIDE DEF w
<1>7. WorkType' /\ WorkLinks' /\ RunType' /\ RunLinks' /\ Fresh' = Fresh
  BY <1>2, <1>4, <1>5, <1>6, WorkChange
<1>8. QED
  BY <1>5, <1>6, <1>7, WorkerStruct
     DEF StepSent, Struct, Types, Links, StreamType, StreamLinks, ghosts

-----------------------------------------------------------------------------
(* The handlers and the runners.                                           *)

\* What is left to show of a step of a handler or a runner that gives out no id.
LEMMA RunnerStruct ==
  ASSUME Struct, ListOK(jobs'), Ids(jobs') \subseteq Ids(jobs),
         WorkType', WorkLinks', RunType', RunLinks', Fresh' \subseteq Fresh,
         StreamType', StreamLinks',
         {stream'[q].job : q \in Stream} = {stream[q].job : q \in Stream},
         SaveLinks', inputs' \in [Job -> SUBSET Row], panicked' \in BOOLEAN,
         faults' \in 0 .. MaxFaults, saveDue' \in BOOLEAN,
         save' \in SaveRec, save'.snap = save.snap \/ save'.snap = jobs,
         UNCHANGED <<accounts, del, file, restarts, completed, deleted>>
  PROVE  Struct'
<1>1. ListOK(save'.snap) BY DEF Struct, Types
<1>2. Types' BY <1>1 DEF Struct, Types
<1>3. Used' \subseteq Used BY DEF Used
<1>4. QED BY <1>2, <1>3 DEF Struct, Links

\* Store.Create for an id that was not given out yet.
LEMMA CreateStruct ==
  ASSUME Struct, NEW j \in Fresh, NEW rows \in SUBSET Row, Create(j, rows),
         UNCHANGED <<work, stream, save, file, inputs, accounts, del, panicked,
                     restarts, faults, deleted>>
  PROVE  /\ Struct' /\ j \notin Used /\ Fresh' = Fresh \ {j}
         /\ \A n \in DOMAIN jobs' :
              jobs'[n] = NewJob(j, rows) \/ \E m \in DOMAIN jobs : jobs'[n] = jobs[m]
         /\ \A k \in Job \ {j} : run'[k] = run[k]
         /\ run'[j] = [NoRun EXCEPT !.pc = "created", !.rows = rows]
         /\ completed' = completed \cap Ids(jobs')
<1> DEFINE x == [NoRun EXCEPT !.pc = "created", !.rows = rows]
<1>1. /\ j \in Job /\ run[j].pc \in {"none", "asked"} /\ j \notin Used /\ j \notin Ids(jobs)
  BY DEF Fresh, Struct, Links, Used
<1>2. NewJob(j, rows) \in JobRecord /\ NewJob(j, rows).id = j BY <1>1, NewJobType
<1>3. \A n \in DOMAIN jobs : jobs[n].id # NewJob(j, rows).id BY <1>1, <1>2 DEF Ids
<1>4. /\ ListOK(jobs')
      /\ \A n \in DOMAIN jobs' :
           jobs'[n] = NewJob(j, rows) \/ \E m \in DOMAIN jobs : jobs'[n] = jobs[m]
  BY <1>2, <1>3, NewestAppend DEF Create, Struct, Types
<1>5. Ids(jobs') \subseteq Ids(jobs) \cup {j} BY <1>2, <1>4 DEF Ids
<1>6. x \in RunRec /\ x.pc = "created" /\ x.to = {} BY NoRunType DEF RunRec
<1>7. run' = [run EXCEPT ![j] = x] /\ completed' = completed \cap Ids(jobs') /\ saveDue' = TRUE
  BY DEF Create
<1>8. JobsKept BY DEF JobsKept
<1>9. \A i \in Row : work[j][i].pc = "none" BY <1>1 DEF Struct, Links, WorkLinks
<1> HIDE DEF x
<1>10. /\ WorkType' /\ WorkLinks' /\ RunType' /\ RunLinks'
       /\ \A k \in Job : run'[k] = IF k = j THEN x ELSE run[k]
  BY <1>1, <1>6, <1>7, <1>8, <1>9, RunChange
<1>11. Fresh' = Fresh \ {j} BY <1>1, <1>6, <1>10 DEF Fresh
<1>12. Used' \subseteq Used \cup {j} BY <1>5 DEF Used
<1>13. Types' BY <1>4, <1>7, <1>10 DEF Struct, Types, StreamType
<1>14. SaveLinks' BY <1>1, <1>10 DEF Struct, Links, SaveLinks
<1>15. StreamLinks' BY DEF Struct, Links, StreamLinks
<1>16. (Fresh \cap Used)' = {} BY <1>11, <1>12 DEF Struct, Links
<1>17. QED BY <1>1, <1>4, <1>7, <1>10, <1>11, <1>13, <1>14, <1>15, <1>16 DEF Struct, Links, x

\* An upload gives out an id.
LEMMA StartStruct ==
  ASSUME Struct, NEW j \in Job, Start(j)
  PROVE  Struct'
<1>1. j \in Fresh BY DEF Start, Fresh
<1>2. QED BY <1>1, CreateStruct DEF Start

\* A runner changes and the rest of the program does not.
LEMMA RunOnlyStruct ==
  ASSUME Struct, NEW j \in Job, NEW x \in RunRec,
         x.pc = "asked" => x.from \in Job,
         x.to # {} => x.pc = "send",
         \A s \in x.to : stream[s].job = j,
         x.pc \in {"none", "asked", "created"} => run[j].pc \in {"none", "asked"},
         \A i \in Row : work[j][i].pc \notin {"none", "over"} => x.pc = "running",
         run[j].pc # "saving",
         run' = [run EXCEPT ![j] = x],
         ListOK(jobs'), Ids(jobs') = Ids(jobs),
         UNCHANGED <<work, stream, inputs, accounts, del, panicked, storeVars, ghosts>>
  PROVE  Struct' /\ \A k \in Job : run'[k] = IF k = j THEN x ELSE run[k]
<1>1. JobsKept BY DEF JobsKept
<1>2. /\ WorkType' /\ WorkLinks' /\ RunType' /\ RunLinks' /\ Fresh' \subseteq Fresh
      /\ \A k \in Job : run'[k] = IF k = j THEN x ELSE run[k]
  BY <1>1, RunChange
<1>3. SaveLinks' BY <1>2 DEF Struct, Links, SaveLinks, storeVars
<1>4. StreamType' /\ StreamLinks' BY DEF Struct, Types, Links, StreamType, StreamLinks
<1>5. Struct' BY <1>2, <1>3, <1>4, RunnerStruct DEF Struct, Types, storeVars, ghosts
<1>6. QED BY <1>2, <1>5

\* A retry keeps an id for itself, which nobody knows yet.
LEMMA RetryStruct ==
  ASSUME Struct, NEW j \in Job, Retry(j)
  PROVE  Struct'
<1>1. PICK n \in DOMAIN jobs :
        run' = [run EXCEPT ![j] = [NoRun EXCEPT !.pc = "asked", !.from = jobs[n].id,
                                     !.rows = WithStatus(jobs[n].steps, {"fail"})]]
  BY DEF Retry
<1> DEFINE rows == WithStatus(jobs[n].steps, {"fail"})
           x == [NoRun EXCEPT !.pc = "asked", !.from = jobs[n].id, !.rows = rows]
<1>2. jobs[n].id \in Job /\ rows \subseteq Row BY TypesOf DEF WithStatus
<1> HIDE DEF rows
<1>3. x \in RunRec /\ x.pc = "asked" /\ x.from \in Job /\ x.to = {}
  BY <1>2, NoRunType DEF RunRec
<1>4. run' = [run EXCEPT ![j] = x] BY <1>1 DEF rows
<1>5. run[j].pc = "none" BY DEF Retry
<1>6. \A i \in Row : work[j][i].pc = "none" BY <1>5 DEF Struct, Links, WorkLinks
<1> HIDE DEF x
<1>7. QED BY <1>3, <1>4, <1>5, <1>6, RunOnlyStruct DEF Retry, Struct, Types

\* A retry gives out its id, or gives it back.
LEMMA RetryCreateStruct ==
  ASSUME Struct, NEW j \in Job, RetryCreate(j)
  PROVE  Struct'
<1> DEFINE rows == inputs[run[j].from] \cap run[j].rows
<1>1. j \in Fresh /\ run[j].pc = "asked" BY DEF RetryCreate, Fresh
<1>2. rows \in SUBSET Row BY TypesOf DEF RunRec
<1>3. CASE Create(j, rows) BY <1>1, <1>2, <1>3, CreateStruct DEF RetryCreate
<1>4. CASE run' = [run EXCEPT ![j] = NoRun] /\ UNCHANGED <<jobs, saveDue, completed>>
  <2>1. \A i \in Row : work[j][i].pc = "none" BY <1>1 DEF Struct, Links, WorkLinks
  <2>2. QED
    BY <1>1, <1>4, <2>1, NoRunType, RunOnlyStruct
       DEF RetryCreate, Struct, Types, storeVars, ghosts
<1>5. QED BY <1>3, <1>4 DEF RetryCreate

\* The runner starts: its rows wait for a worker.
LEMMA SaveInputsEffect ==
  ASSUME Struct, NEW j \in Job, SaveInputs(j)
  PROVE  /\ run[j].pc = "created" /\ run'[j] = [NoRun EXCEPT !.pc = "running"]
         /\ \A k \in Job \ {j} : run'[k] = run[k] /\ work'[k] = work[k]
         /\ \A i \in Row : work'[j][i] = [pc |-> IF i \in run[j].rows THEN "todo" ELSE "none",
                                          status |-> "absent", to |-> {}]
         /\ run' \in [Job -> RunRec] /\ work' \in [Job -> [Row -> WorkRec]]
         /\ [NoRun EXCEPT !.pc = "running"] \in RunRec
<1> DEFINE x == [NoRun EXCEPT !.pc = "running"]
           w == [i \in Row |-> [pc |-> IF i \in run[j].rows THEN "todo" ELSE "none",
                                status |-> "absent", to |-> {}]]
<1>1. run \in [Job -> RunRec] /\ work \in [Job -> [Row -> WorkRec]]
  BY DEF Struct, Types, RunType, WorkType
<1>2. x \in RunRec BY NoRunType DEF RunRec
<1>3. w \in [Row -> WorkRec] BY DEF WorkRec, Status
<1>4. run' = [run EXCEPT ![j] = x] /\ work' = [work EXCEPT ![j] = w] /\ run[j].pc = "created"
  BY DEF SaveInputs
<1>5. \A i \in Row : w[i] = [pc |-> IF i \in run[j].rows THEN "todo" ELSE "none",
                             status |-> "absent", to |-> {}]
  OBVIOUS
<1> HIDE DEF x, w
<1>6. QED BY <1>1, <1>2, <1>3, <1>4, <1>5 DEF x

\* The runner starts.
LEMMA SaveInputsStruct ==
  ASSUME Struct, NEW j \in Job, SaveInputs(j)
  PROVE  Struct'
<1>1. /\ run[j].pc = "created" /\ run'[j] = [NoRun EXCEPT !.pc = "running"]
      /\ \A k \in Job \ {j} : run'[k] = run[k] /\ work'[k] = work[k]
      /\ \A i \in Row : work'[j][i] = [pc |-> IF i \in run[j].rows THEN "todo" ELSE "none",
                                       status |-> "absent", to |-> {}]
      /\ run' \in [Job -> RunRec] /\ work' \in [Job -> [Row -> WorkRec]]
  BY SaveInputsEffect
<1>2. run'[j].pc = "running" /\ run'[j].to = {} BY <1>1, NoRunType DEF RunRec
<1>3. \A i \in Row : /\ work'[j][i].pc \in {"none", "todo"} /\ work'[j][i].to = {}
                     /\ work'[j][i].pc # "send"
  <2> TAKE i \in Row
  <2> DEFINE pc == IF i \in run[j].rows THEN "todo" ELSE "none"
  <2>1. work'[j][i] = [pc |-> pc, status |-> "absent", to |-> {}] BY <1>1
  <2>2. pc \in {"none", "todo"} OBVIOUS
  <2> HIDE DEF pc
  <2>3. QED BY <2>1, <2>2
<1>4. UNCHANGED <<jobs, stream, accounts, del, panicked, storeVars, restarts, completed, deleted>>
  BY DEF SaveInputs
<1>5. RunLinks' BY <1>1, <1>2, <1>4 DEF Struct, Links, RunLinks
<1>6. WorkLinks'
  <2> SUFFICES ASSUME NEW k \in Job, NEW i \in Row
               PROVE  /\ work'[k][i].pc \notin {"none", "over"} => run'[k].pc = "running"
                      /\ run'[k].pc \in {"none", "asked", "created"} => work'[k][i].pc = "none"
                      /\ work'[k][i].to # {} => work'[k][i].pc = "send"
                      /\ work'[k][i].pc = "send" => work'[k][i].status \in {"running", "ok", "fail"}
                      /\ \A s \in work'[k][i].to : stream'[s].job = k
    BY DEF WorkLinks
  <2>1. CASE k = j BY <1>2, <1>3, <2>1
  <2>2. CASE k # j
    <3>1. work'[k] = work[k] /\ run'[k] = run[k] /\ stream' = stream BY <1>1, <1>4, <2>2
    <3>2. QED BY <3>1 DEF Struct, Links, WorkLinks
  <2>3. QED BY <2>1, <2>2
<1>7. RunType' /\ WorkType' BY <1>1 DEF RunType, WorkType
<1>8. StreamType' /\ StreamLinks' BY <1>4 DEF Struct, Types, Links, StreamType, StreamLinks
<1>9. SaveLinks' BY <1>1, <1>4 DEF Struct, Links, SaveLinks, storeVars
<1>10. Fresh' \subseteq Fresh BY <1>1, <1>2 DEF Fresh
<1>11. inputs' \in [Job -> SUBSET Row] /\ faults' \in 0 .. MaxFaults
  <2>1. run[j].rows \subseteq Row BY TypesOf DEF RunRec
  <2>2. inputs' \in [Job -> SUBSET Row] BY <2>1 DEF SaveInputs, Struct, Types
  <2>3. faults' \in 0 .. MaxFaults BY RegistrationAssumption DEF SaveInputs, Struct, Types
  <2>4. QED BY <2>2, <2>3
<1>12. QED
  BY <1>4, <1>5, <1>6, <1>7, <1>8, <1>9, <1>10, <1>11, RunnerStruct
     DEF Struct, Types, storeVars

\* Finish of a job in memory, and of one that left it.
LEMMA FinishEffect ==
  ASSUME Struct, NEW j \in Job, Finish(j)
  PROVE  /\ Struct' /\ run[j].pc = "running"
         /\ \A k \in Job \ {j} : run'[k] = run[k]
         /\ \A i \in Row : work[j][i].pc \in {"none", "over"}
         /\ \/ /\ jobs' = jobs /\ run'[j] = [run[j] EXCEPT !.pc = "over"]
               /\ Known(j) => jobs[Find(jobs, j)].state # "running"
            \/ /\ Known(j) /\ jobs[Find(jobs, j)].state = "running"
               /\ DOMAIN jobs' = DOMAIN jobs /\ Find(jobs, j) \in DOMAIN jobs
               /\ jobs[Find(jobs, j)].id = j
               /\ jobs'[Find(jobs, j)] = [jobs[Find(jobs, j)] EXCEPT !.state = "done"]
               /\ \A m \in DOMAIN jobs \ {Find(jobs, j)} : jobs'[m] = jobs[m]
               /\ run'[j] = [run[j] EXCEPT !.pc = "send", !.to = Attached(j),
                                           !.steps = jobs[Find(jobs, j)].steps]
<1>1. run[j] \in RunRec /\ run[j].pc = "running" /\ \A i \in Row : work[j][i].pc \in {"none", "over"}
  BY TypesOf DEF Finish
<1>2. run[j].to = {} BY <1>1 DEF Struct, Links, RunLinks
<1>3. run \in [Job -> RunRec] /\ ListOK(jobs) BY DEF Struct, Types, RunType
<1>4. CASE Known(j) /\ jobs[Find(jobs, j)].state = "running"
  <2> DEFINE n == Find(jobs, j)
             job == [jobs[n] EXCEPT !.state = "done"]
             x == [run[j] EXCEPT !.pc = "send", !.to = Attached(j), !.steps = jobs[n].steps]
  <2>1. n \in DOMAIN jobs /\ jobs[n].id = j BY <1>3, <1>4, FindWorks DEF Known
  <2>2. jobs[n] \in JobRecord BY <2>1, TypesOf
  <2>3. job \in JobRecord /\ job.id = j BY <2>1, <2>2 DEF JobRecord
  <2>4. jobs' = [jobs EXCEPT ![n] = job]
    <3>1. jobs' = [jobs EXCEPT ![n].state = "done"] BY <1>4 DEF Finish
    <3>2. QED BY <2>1, <3>1
  <2>5. run' = [run EXCEPT ![j] = x]
    <3>1. run' = [run EXCEPT ![j].pc = "send", ![j].to = Attached(j), ![j].steps = jobs[n].steps]
      BY <1>4 DEF Finish
    <3>2. QED BY <1>3, <3>1
  <2>6. Attached(j) \subseteq Stream /\ \A s \in Attached(j) : stream[s].job = j BY DEF Attached
  <2>7. x \in RunRec /\ x.pc = "send" /\ x.to = Attached(j)
    BY <1>1, <2>2, <2>6 DEF RunRec, JobRecord
  <2> HIDE DEF job, x, n
  <2>8. /\ ListOK(jobs') /\ DOMAIN jobs' = DOMAIN jobs /\ Ids(jobs') = Ids(jobs)
        /\ \A m \in DOMAIN jobs : jobs'[m] = IF m = n THEN job ELSE jobs[m]
    BY <1>3, <2>1, <2>3, <2>4, ChangedJob
  <2>9. Struct' /\ \A k \in Job : run'[k] = IF k = j THEN x ELSE run[k]
    <3>1. UNCHANGED <<work, stream, inputs, accounts, del, panicked, storeVars, ghosts>>
      BY DEF Finish
    <3>2. /\ x.pc \notin {"none", "asked", "created"} /\ x.to # {} => x.pc = "send"
          /\ \A s \in x.to : stream[s].job = j
          /\ \A i \in Row : work[j][i].pc \notin {"none", "over"} => x.pc = "running"
          /\ run[j].pc # "saving"
      BY <1>1, <2>6, <2>7
    <3>3. QED BY <2>5, <2>7, <2>8, <3>1, <3>2, RunOnlyStruct
  <2>10. QED BY <1>1, <1>4, <2>1, <2>8, <2>9 DEF n, job, x
<1>5. CASE ~(Known(j) /\ jobs[Find(jobs, j)].state = "running")
  <2> DEFINE x == [run[j] EXCEPT !.pc = "over"]
  <2>1. run' = [run EXCEPT ![j] = x] /\ jobs' = jobs BY <1>3, <1>5 DEF Finish
  <2>2. x \in RunRec /\ x.pc = "over" /\ x.to = {} BY <1>1, <1>2 DEF RunRec
  <2> HIDE DEF x
  <2>3. Struct' /\ \A k \in Job : run'[k] = IF k = j THEN x ELSE run[k]
    BY <1>1, <1>3, <2>1, <2>2, RunOnlyStruct DEF Finish
  <2>4. QED BY <1>1, <1>5, <2>1, <2>3 DEF x
<1>6. QED BY <1>4, <1>5

\* broadcast of the end, to one stream.
LEMMA SendDoneEffect ==
  ASSUME Struct, NEW j \in Job, NEW s \in Stream, SendDone(j, s)
  PROVE  /\ Struct' /\ run[j].pc = "send" /\ stream[s].job = j
         /\ run[j] \in RunRec /\ DoneEvent(run[j].steps) \in Event
         /\ Send(s, DoneEvent(run[j].steps))
         /\ \A k \in Job \ {j} : run'[k] = run[k]
         /\ run'[j] = [run[j] EXCEPT !.to = @ \ {s}]
<1> DEFINE x == [run[j] EXCEPT !.to = @ \ {s}]
           event == DoneEvent(run[j].steps)
<1>1. run[j] \in RunRec /\ run[j].pc = "send" /\ s \in run[j].to
  BY TypesOf DEF SendDone
<1>2. stream[s].job = j BY <1>1 DEF Struct, Links, RunLinks
<1>3. event \in Event BY <1>1, EventTypes DEF RunRec
<1>4. x \in RunRec /\ x.pc = "send" /\ x.to \subseteq run[j].to BY <1>1 DEF RunRec
<1>5. \A q \in x.to : stream[q].job = j BY <1>4 DEF Struct, Links, RunLinks
<1>6. run' = [run EXCEPT ![j] = x] /\ Send(s, event)
  BY DEF SendDone, Struct, Types, RunType
<1>7. UNCHANGED <<jobs, work, inputs, accounts, del, storeVars, ghosts>> BY DEF SendDone
<1> HIDE DEF x, event
<1>8. /\ StreamType' /\ StreamLinks' /\ JobsKept /\ panicked' \in BOOLEAN
      /\ {stream'[q].job : q \in Stream} = {stream[q].job : q \in Stream}
  BY <1>2, <1>3, <1>6, SendEffect
<1>9. \A i \in Row : work[j][i].pc \in {"none", "over"} BY <1>1 DEF Struct, Links, WorkLinks
<1>10. /\ WorkType' /\ WorkLinks' /\ RunType' /\ RunLinks' /\ Fresh' \subseteq Fresh
       /\ \A k \in Job : run'[k] = IF k = j THEN x ELSE run[k]
  BY <1>4, <1>5, <1>6, <1>7, <1>8, <1>9, RunChange
<1>11. SaveLinks' BY <1>1, <1>7, <1>8, <1>10 DEF Struct, Links, SaveLinks, storeVars, JobsKept
<1>12. /\ ListOK(jobs') /\ Ids(jobs') = Ids(jobs)
       /\ inputs' \in [Job -> SUBSET Row] /\ faults' \in 0 .. MaxFaults
       /\ saveDue' \in BOOLEAN /\ save' \in SaveRec /\ save'.snap = save.snap
       /\ UNCHANGED <<accounts, del, file, restarts, completed, deleted>>
  BY <1>7 DEF Struct, Types, storeVars, ghosts
<1>13. Struct' BY <1>8, <1>10, <1>11, <1>12, RunnerStruct
<1>14. QED BY <1>1, <1>2, <1>3, <1>6, <1>10, <1>13 DEF x, event

\* The broadcast of the end is over.
LEMMA DoneSentStruct ==
  ASSUME Struct, NEW j \in Job, DoneSent(j)
  PROVE  Struct'
<1> DEFINE pc == IF Persistent THEN "save" ELSE "over"
           x == [NoRun EXCEPT !.pc = pc]
<1>1. run[j].pc = "send" /\ run' = [run EXCEPT ![j] = x]
      /\ UNCHANGED <<jobs, work, stream, inputs, accounts, del, panicked, storeVars, ghosts>>
  BY DEF DoneSent
<1>2. pc \in {"save", "over"} OBVIOUS
<1> HIDE DEF pc
<1>3. x \in RunRec /\ x.pc \in {"save", "over"} /\ x.to = {} BY <1>2, NoRunType DEF RunRec
<1>4. \A i \in Row : work[j][i].pc \in {"none", "over"} BY <1>1 DEF Struct, Links, WorkLinks
<1> HIDE DEF x
<1>5. QED BY <1>1, <1>3, <1>4, RunOnlyStruct DEF Struct, Types

-----------------------------------------------------------------------------
(* The saves and the deletions.                                            *)

\* No save is under way.
LEMMA NoSaveType == NoSave \in SaveRec /\ NoSave.by = "none" /\ NoSave.snap = <<>> /\ ListOK(<<>>)
<1>1. <<>> \in Seq(JobRecord) /\ Len(<<>>) = 0 /\ DOMAIN <<>> = {} BY EmptySeq
<1>2. ListOK(<<>>) BY <1>1, RegistrationAssumption DEF ListOK
<1>3. QED BY <1>1, <1>2 DEF NoSave, SaveRec

\* Finish copies the list.
LEMMA FinishSnapshotStruct ==
  ASSUME Struct, NEW j \in Job, FinishSnapshot(j)
  PROVE  Struct' /\ \A k \in Job \ {j} : run'[k] = run[k]
<1> DEFINE x == [run[j] EXCEPT !.pc = "saving"]
<1>1. run[j] \in RunRec /\ run[j].pc = "save" BY TypesOf DEF FinishSnapshot
<1>2. run[j].to = {} BY <1>1 DEF Struct, Links, RunLinks
<1>3. x \in RunRec /\ x.pc = "saving" /\ x.to = {} BY <1>1, <1>2 DEF RunRec
<1>4. run' = [run EXCEPT ![j] = x] BY DEF FinishSnapshot, Struct, Types, RunType
<1>5. /\ save.by = "none" /\ save' = [by |-> "finish", job |-> j, snap |-> jobs]
      /\ UNCHANGED <<jobs, work, stream, saveDue, file, inputs, accounts, del, panicked, ghosts>>
  BY DEF FinishSnapshot, TakeSnapshot
<1>6. \A i \in Row : work[j][i].pc \in {"none", "over"} BY <1>1 DEF Struct, Links, WorkLinks
<1>7. JobsKept BY <1>5 DEF JobsKept
<1> HIDE DEF x
<1>8. /\ WorkType' /\ WorkLinks' /\ RunType' /\ RunLinks' /\ Fresh' \subseteq Fresh
      /\ \A k \in Job : run'[k] = IF k = j THEN x ELSE run[k]
  BY <1>1, <1>3, <1>4, <1>5, <1>6, <1>7, RunChange
<1>9. jobs \in Seq(JobRecord) BY DEF Struct, Types, ListOK
<1>10. save' \in SaveRec /\ save'.snap = jobs BY <1>5, <1>9 DEF SaveRec
<1>11. SaveLinks' BY <1>3, <1>5, <1>8 DEF Struct, Links, SaveLinks
<1>12. StreamType' /\ StreamLinks' BY <1>5 DEF Struct, Types, Links, StreamType, StreamLinks
<1>13. Struct'
  BY <1>5, <1>8, <1>10, <1>11, <1>12, RunnerStruct DEF Struct, Types, ghosts
<1>14. QED BY <1>8, <1>13

\* The background loop copies the list.
LEMMA LoopSnapshotStruct ==
  ASSUME Struct, LoopSnapshot
  PROVE  Struct'
<1>1. UNCHANGED <<jobs, run, work, stream, file, inputs, accounts, del, panicked, ghosts>>
      /\ saveDue' = FALSE
  BY DEF LoopSnapshot
<1>2. JobsKept BY <1>1 DEF JobsKept
<1>3. WorkType' /\ WorkLinks' /\ RunType' /\ RunLinks' /\ Fresh' = Fresh
  BY <1>1, <1>2, RunnersRest
<1>4. jobs \in Seq(JobRecord) BY DEF Struct, Types, ListOK
<1>5. save' = save \/ save' = [by |-> "loop", job |-> NoJob, snap |-> jobs]
  BY DEF LoopSnapshot, TakeSnapshot
<1>6. save' \in SaveRec /\ (save'.snap = save.snap \/ save'.snap = jobs)
  BY <1>4, <1>5 DEF SaveRec, Struct, Types
<1>7. SaveLinks'
  <2>1. CASE save' = save BY <1>1, <2>1 DEF Struct, Links, SaveLinks
  <2>2. CASE save' = [by |-> "loop", job |-> NoJob, snap |-> jobs]
    BY <1>1, <2>2 DEF Struct, Links, SaveLinks
  <2>3. QED BY <1>5, <2>1, <2>2
<1>8. StreamType' /\ StreamLinks' BY <1>1 DEF Struct, Types, Links, StreamType, StreamLinks
<1>9. QED
  BY <1>1, <1>3, <1>6, <1>7, <1>8, RunnerStruct DEF Struct, Types, ghosts

\* The parts of Struct that a step of a save or a deletion may touch.
LEMMA StoreStruct ==
  ASSUME Struct, RunType', WorkType', RunLinks', WorkLinks', Fresh' \subseteq Fresh,
         ListOK(jobs'), ListOK(file'), ListOK(save'.snap), StreamType', StreamLinks',
         {stream'[q].job : q \in Stream} \cap Fresh = {},
         Ids(jobs') \subseteq Used, Ids(file') \subseteq Used, Ids(save'.snap) \subseteq Used,
         SaveLinks', save' \in SaveRec, del' \in DelRec,
         inputs' \in [Job -> SUBSET Row], faults' \in 0 .. MaxFaults,
         completed' \in SUBSET Job, deleted' \in SUBSET Job,
         UNCHANGED <<accounts, panicked, restarts, saveDue>>
  PROVE  Struct'
<1>1. Types' BY DEF Struct, Types
<1>2. (Fresh \cap Used)' = {} BY DEF Struct, Links, Used
<1>3. QED BY <1>1, <1>2 DEF Struct, Links

\* Delete copies the list.
LEMMA DeleteSnapshotStruct ==
  ASSUME Struct, DeleteSnapshot
  PROVE  Struct'
<1>1. /\ save.by = "none" /\ save' = [by |-> "delete", job |-> del.job, snap |-> jobs]
      /\ del.pc = "save" /\ del' = [del EXCEPT !.pc = "saving"]
      /\ UNCHANGED <<jobs, run, work, stream, saveDue, file, inputs, accounts, panicked, ghosts>>
  BY DEF DeleteSnapshot, TakeSnapshot
<1>2. del \in DelRec /\ jobs \in Seq(JobRecord) /\ ListOK(jobs)
  BY DEF Struct, Types, ListOK
<1>3. del' \in DelRec /\ del'.job = del.job /\ del.job \in Job /\ del'.subs = del.subs
      /\ del'.pc = "saving"
  BY <1>1, <1>2 DEF DelRec, Struct, Links, SaveLinks
<1>4. save' \in SaveRec /\ save'.snap = jobs BY <1>1, <1>2, <1>3 DEF SaveRec
<1>5. SaveLinks' BY <1>1, <1>3 DEF Struct, Links, SaveLinks
<1>6. StreamType' /\ StreamLinks' /\ JobsKept
  BY <1>1 DEF Struct, Types, Links, StreamType, StreamLinks, JobsKept
<1>7. /\ Ids(jobs') \subseteq Used /\ Ids(file') \subseteq Used /\ Ids(save'.snap) \subseteq Used
      /\ {stream'[q].job : q \in Stream} \cap Fresh = {}
  BY <1>1, <1>4 DEF Used, Struct, Links
<1>8. /\ inputs' \in [Job -> SUBSET Row] /\ faults' \in 0 .. MaxFaults
      /\ completed' \in SUBSET Job /\ deleted' \in SUBSET Job
      /\ UNCHANGED <<accounts, panicked, restarts, saveDue>>
      /\ ListOK(jobs') /\ ListOK(file') /\ ListOK(save'.snap)
  BY <1>1, <1>2, <1>4 DEF Struct, Types, ghosts
<1>9. RunType' /\ WorkType' /\ RunLinks' /\ WorkLinks' /\ Fresh' = Fresh
  BY <1>1, <1>6, RunnersRest
<1>10. QED BY <1>1, <1>3, <1>4, <1>5, <1>6, <1>7, <1>8, <1>9, StoreStruct

\* A write ends: the runner that waited for it is over.
LEMMA WrittenEffect ==
  ASSUME Struct, Written
  PROVE  /\ save.by # "none" /\ save' = NoSave /\ save'.snap = <<>>
         /\ UNCHANGED <<jobs, work, stream, saveDue, inputs, accounts, panicked, restarts, deleted>>
         /\ \/ file' = save.snap /\ faults' = faults
            \/ file' = file /\ faults' = faults + 1
         /\ faults' \in 0 .. MaxFaults
         /\ \/ save.by # "finish" /\ run' = run /\ completed' = completed
            \/ /\ save.by = "finish" /\ save.job \in Job /\ run[save.job].pc = "saving"
               /\ run[save.job] \in RunRec
               /\ run' = [run EXCEPT ![save.job] = [run[save.job] EXCEPT !.pc = "over"]]
               /\ completed' = completed \cup ({save.job} \cap Ids(jobs))
<1>1. save.by = "finish" => save.job \in Job /\ run[save.job].pc = "saving"
                            /\ run[save.job] \in RunRec
  BY TypesOf DEF Struct, Links, SaveLinks
<1>2. run \in [Job -> RunRec] BY DEF Struct, Types, RunType
<1>3. faults' \in 0 .. MaxFaults BY RegistrationAssumption DEF Written, Struct, Types
<1>4. CASE save.by = "finish"
  <2>1. run' = [run EXCEPT ![save.job].pc = "over"] BY <1>4 DEF Written
  <2>2. run' = [run EXCEPT ![save.job] = [run[save.job] EXCEPT !.pc = "over"]]
    BY <1>1, <1>2, <1>4, <2>1
  <2>3. QED BY <1>1, <1>3, <1>4, <2>2, NoSaveType DEF Written
<1>5. CASE save.by # "finish" BY <1>3, <1>5, NoSaveType DEF Written
<1>6. QED BY <1>4, <1>5

\* A save ends.
LEMMA WrittenStruct ==
  ASSUME Struct, Written
  PROVE  Struct'
<1>1. /\ save' = NoSave /\ save'.snap = <<>> /\ save.by # "none"
      /\ UNCHANGED <<jobs, work, stream, saveDue, inputs, accounts, panicked, restarts, deleted>>
      /\ file' = save.snap \/ file' = file
      /\ faults' \in 0 .. MaxFaults
  BY WrittenEffect
<1>2. /\ ListOK(save'.snap) /\ save' \in SaveRec /\ save'.by = "none" /\ Ids(save'.snap) = {}
  <2>1. DOMAIN <<>> = {} BY EmptySeq
  <2>2. Ids(<<>>) = {} BY <2>1 DEF Ids
  <2>3. QED BY <1>1, <2>2, NoSaveType
<1>3. ListOK(jobs') /\ ListOK(file') BY <1>1 DEF Struct, Types
<1>4. Ids(jobs') \subseteq Used /\ Ids(file') \subseteq Used /\ Ids(save'.snap) \subseteq Used
  BY <1>1, <1>2 DEF Used
<1>5. del' \in DelRec /\ del'.job = del.job /\ del'.subs = del.subs
      /\ (del'.pc # "idle" => del.pc # "idle")
  <2>1. del \in DelRec BY DEF Struct, Types
  <2>2. CASE del' = del BY <2>1, <2>2
  <2>3. CASE save.by = "delete" /\ del' = [del EXCEPT !.pc = "sidecar"]
    <3>1. del.pc # "idle" BY <2>3 DEF Struct, Links, SaveLinks
    <3>2. del' \in DelRec /\ del'.job = del.job /\ del'.subs = del.subs BY <2>1, <2>3 DEF DelRec
    <3>3. QED BY <3>1, <3>2
  <2>4. QED BY <2>2, <2>3 DEF Written
<1>6. SaveLinks'
  <2>1. del'.pc # "idle" => del'.job \in Job BY <1>5 DEF Struct, Links, SaveLinks
  <2>2. \A s \in Stream : s \in del'.subs => stream'[s].job \in Job
    BY <1>1, <1>5 DEF Struct, Links, SaveLinks
  <2>3. QED BY <1>1, <1>2, <2>1, <2>2 DEF SaveLinks
<1>7. JobsKept /\ StreamType' /\ StreamLinks'
  BY <1>1 DEF JobsKept, Struct, Types, Links, StreamType, StreamLinks
<1>8. completed' \in SUBSET Job
  BY WrittenEffect DEF Struct, Types
<1>9. RunType' /\ WorkType' /\ RunLinks' /\ WorkLinks' /\ Fresh' \subseteq Fresh
  <2>1. CASE run' = run BY <1>1, <1>7, <2>1, RunnersRest
  <2>2. CASE save.by = "finish"
    <3> DEFINE j == save.job
               x == [run[j] EXCEPT !.pc = "over"]
    <3>1. j \in Job /\ run[j].pc = "saving" /\ run[j] \in RunRec /\ run' = [run EXCEPT ![j] = x]
      BY <2>2, WrittenEffect
    <3>2. run[j].to = {} BY <3>1 DEF Struct, Links, RunLinks
    <3>3. x \in RunRec /\ x.pc = "over" /\ x.to = {} BY <3>1, <3>2 DEF RunRec
    <3>4. \A i \in Row : work[j][i].pc \in {"none", "over"}
      BY <3>1 DEF Struct, Links, WorkLinks
    <3> HIDE DEF x, j
    <3>5. QED BY <1>1, <1>7, <3>1, <3>3, <3>4, RunChange
  <2>3. QED BY <2>1, <2>2, WrittenEffect
<1>10. /\ {stream'[q].job : q \in Stream} \cap Fresh = {}
       /\ inputs' \in [Job -> SUBSET Row] /\ deleted' \in SUBSET Job
       /\ UNCHANGED <<accounts, panicked, restarts, saveDue>>
  BY <1>1 DEF Struct, Types, Links, Used
<1>11. QED
  BY <1>1, <1>2, <1>3, <1>4, <1>5, <1>6, <1>7, <1>8, <1>9, <1>10, StoreStruct

\* Delete takes one job out of memory, and its streams lose their subscription.
LEMMA DeleteEffect ==
  ASSUME Struct, Delete
  PROVE  \E n \in DOMAIN jobs :
           /\ jobs[n].id \in Job
           /\ ListOK(jobs') /\ Part(jobs', jobs) /\ jobs[n].id \notin Ids(jobs')
           /\ \A m \in DOMAIN jobs \ {n} : \E k \in DOMAIN jobs' : jobs'[k] = jobs[m]
           /\ del' = [pc |-> "close", job |-> jobs[n].id, subs |-> Attached(jobs[n].id)]
           /\ \A s \in Stream : \/ stream'[s] = stream[s]
                               \/ /\ s \in Attached(jobs[n].id)
                                  /\ stream'[s] = [stream[s] EXCEPT !.attached = FALSE]
           /\ stream' = [s \in Stream |-> stream'[s]]
           /\ completed' = completed \ {jobs[n].id}
<1>1. PICK n \in DOMAIN jobs :
        LET j == jobs[n].id IN
        /\ jobs' = RemoveAt(jobs, n)
        /\ del' = [pc |-> "close", job |-> j, subs |-> Attached(j)]
        /\ stream' = [s \in Stream |-> IF s \in Attached(j)
                                       THEN [stream[s] EXCEPT !.attached = FALSE]
                                       ELSE stream[s]]
        /\ completed' = completed \ {j}
  BY DEF Delete
<1>2. ListOK(jobs) BY DEF Struct, Types
<1>3. /\ ListOK(jobs') /\ Part(jobs', jobs) /\ jobs[n].id \notin Ids(jobs')
      /\ \A m \in DOMAIN jobs \ {n} : \E k \in DOMAIN jobs' : jobs'[k] = jobs[m]
  BY <1>1, <1>2, RemovedJob
<1>4. jobs[n].id \in Job BY TypesOf
<1>5. QED BY <1>1, <1>3, <1>4

\* A job is taken off the list.
LEMMA DeleteStruct ==
  ASSUME Struct, Delete
  PROVE  Struct'
<1>1. PICK n \in DOMAIN jobs :
        /\ jobs[n].id \in Job /\ ListOK(jobs') /\ Part(jobs', jobs)
        /\ del' = [pc |-> "close", job |-> jobs[n].id, subs |-> Attached(jobs[n].id)]
        /\ \A s \in Stream : \/ stream'[s] = stream[s]
                            \/ /\ s \in Attached(jobs[n].id)
                               /\ stream'[s] = [stream[s] EXCEPT !.attached = FALSE]
        /\ stream' = [s \in Stream |-> stream'[s]]
        /\ completed' = completed \ {jobs[n].id}
  BY DeleteEffect
<1>2. /\ UNCHANGED <<run, work, inputs, accounts, panicked, storeVars, restarts, faults, deleted>>
      /\ del.pc = "idle"
  BY DEF Delete
<1>3. \A s \in Stream : stream[s] \in StreamRec /\ Len(stream[s].ch) <= ChannelCap BY TypesOf
<1>4. ASSUME NEW s \in Stream
      PROVE  /\ stream'[s] \in StreamRec /\ stream'[s].ch = stream[s].ch
             /\ stream'[s].job = stream[s].job /\ stream'[s].pc = stream[s].pc
             /\ stream[s].pc = "idle" => stream'[s] = stream[s]
  <2>1. CASE stream'[s] = stream[s] BY <1>3, <2>1
  <2>2. CASE /\ s \in Attached(jobs[n].id)
             /\ stream'[s] = [stream[s] EXCEPT !.attached = FALSE]
    <3>1. stream[s].pc # "idle"
      <4>1. stream[s].job = jobs[n].id BY <2>2 DEF Attached
      <4>2. QED
        BY <1>1, <4>1, NoStreamType, RegistrationAssumption DEF Struct, Links, StreamLinks
    <3>2. stream[s] \in StreamRec BY <1>3
    <3>3. QED BY <2>2, <3>1, <3>2 DEF StreamRec
  <2>3. QED BY <1>1, <2>1, <2>2
<1>5. StreamType'
  <2>1. stream' \in [Stream -> StreamRec] BY <1>1, <1>4
  <2>2. QED BY <1>3, <1>4, <2>1 DEF StreamType
<1>6. StreamLinks' BY <1>4 DEF Struct, Links, StreamLinks
<1>7. JobsKept BY <1>4 DEF JobsKept
<1>8. {stream'[q].job : q \in Stream} \cap Fresh = {} BY <1>4 DEF Struct, Links, Used
<1>9. RunType' /\ WorkType' /\ RunLinks' /\ WorkLinks' /\ Fresh' = Fresh
  BY <1>2, <1>7, RunnersRest
<1>10. Ids(jobs') \subseteq Ids(jobs) BY <1>1 DEF Part, Ids
<1>11. Ids(jobs') \subseteq Used /\ Ids(file') \subseteq Used /\ Ids(save'.snap) \subseteq Used
  BY <1>2, <1>10 DEF Used, storeVars
<1>12. SaveLinks' /\ del' \in DelRec
  <2>1. del'.pc = "close" /\ del'.job = jobs[n].id /\ del'.subs = Attached(jobs[n].id)
    BY <1>1
  <2>2. \A s \in Stream : s \in del'.subs => stream'[s].job \in Job
    BY <1>1, <1>4, <2>1 DEF Attached
  <2>3. Attached(jobs[n].id) \subseteq Stream BY DEF Attached
  <2>4. del' \in DelRec BY <1>1, <2>3 DEF DelRec
  <2>5. save.by # "delete" BY <1>2 DEF Struct, Links, SaveLinks
  <2>6. SaveLinks' BY <1>1, <1>2, <2>1, <2>2, <2>5 DEF Struct, Links, SaveLinks, storeVars
  <2>7. QED BY <2>4, <2>6
<1>13. /\ ListOK(file') /\ ListOK(save'.snap) /\ save' \in SaveRec
       /\ inputs' \in [Job -> SUBSET Row] /\ faults' \in 0 .. MaxFaults
       /\ completed' \in SUBSET Job /\ deleted' \in SUBSET Job
       /\ UNCHANGED <<accounts, panicked, restarts, saveDue>>
  BY <1>1, <1>2 DEF Struct, Types, storeVars
<1>14. QED
  BY <1>1, <1>5, <1>6, <1>8, <1>9, <1>11, <1>12, <1>13, StoreStruct

\* Closing leaves everything of a stream but its mark.
LEMMA CloseEffect ==
  ASSUME Struct, DeleteClose
  PROVE  /\ UNCHANGED <<jobs, run, work, inputs, accounts, panicked, storeVars, ghosts>>
         /\ del' \in DelRec /\ del'.job = del.job /\ del.pc = "close" /\ del'.pc # "idle"
         /\ del'.subs \subseteq del.subs
         /\ stream' \in [Stream -> StreamRec]
         /\ \A s \in Stream : \/ stream'[s] = stream[s]
                             \/ /\ s \in del.subs
                                /\ stream'[s] = [stream[s] EXCEPT !.closed = TRUE]
<1>1. /\ UNCHANGED <<jobs, run, work, inputs, accounts, panicked, storeVars, ghosts>>
      /\ del.pc = "close"
  BY DEF DeleteClose
<1>2. stream \in [Stream -> StreamRec] /\ del \in DelRec
  BY DEF Struct, Types, StreamType
<1>3. CASE \E s \in del.subs : /\ stream' = [stream EXCEPT ![s].closed = TRUE]
                              /\ del' = [del EXCEPT !.subs = @ \ {s}]
  <2>1. PICK s \in del.subs : /\ stream' = [stream EXCEPT ![s].closed = TRUE]
                              /\ del' = [del EXCEPT !.subs = @ \ {s}]
    BY <1>3
  <2>2. s \in Stream BY <1>2 DEF DelRec
  <2> DEFINE x == [stream[s] EXCEPT !.closed = TRUE]
  <2>3. x \in StreamRec BY <1>2, <2>2 DEF StreamRec
  <2>4. stream' = [stream EXCEPT ![s] = x] BY <1>2, <2>1, <2>2
  <2>5. /\ del' \in DelRec /\ del'.job = del.job /\ del'.pc = del.pc
        /\ del'.subs \subseteq del.subs
    BY <1>2, <2>1 DEF DelRec
  <2>6. \A q \in Stream : stream'[q] = IF q = s THEN x ELSE stream[q] BY <1>2, <2>4
  <2>7. stream' \in [Stream -> StreamRec] BY <1>2, <2>3, <2>4
  <2>8. QED BY <1>1, <2>5, <2>6, <2>7
<1>4. CASE del' = [del EXCEPT !.pc = IF Persistent THEN "save" ELSE "sidecar"] /\ stream' = stream
  <2> DEFINE pc == IF Persistent THEN "save" ELSE "sidecar"
  <2>1. pc \in {"save", "sidecar"} OBVIOUS
  <2>2. del' = [del EXCEPT !.pc = pc] BY <1>4
  <2> HIDE DEF pc
  <2>3. /\ del' \in DelRec /\ del'.job = del.job /\ del'.pc # "idle"
        /\ del'.subs \subseteq del.subs
    BY <1>2, <2>1, <2>2 DEF DelRec
  <2>4. QED BY <1>1, <1>2, <1>4, <2>3
<1>5. QED BY <1>3, <1>4 DEF DeleteClose

\* The streams of a deleted job are closed.
LEMMA DeleteCloseStruct ==
  ASSUME Struct, DeleteClose
  PROVE  Struct'
<1>1. /\ UNCHANGED <<jobs, run, work, inputs, accounts, panicked, storeVars, ghosts>>
      /\ del' \in DelRec /\ del'.job = del.job /\ del.pc = "close" /\ del'.pc # "idle"
      /\ del'.subs \subseteq del.subs
      /\ stream' \in [Stream -> StreamRec]
      /\ \A s \in Stream : \/ stream'[s] = stream[s]
                          \/ /\ s \in del.subs
                             /\ stream'[s] = [stream[s] EXCEPT !.closed = TRUE]
  BY CloseEffect
<1>2. \A s \in Stream : stream[s] \in StreamRec /\ Len(stream[s].ch) <= ChannelCap BY TypesOf
<1>3. ASSUME NEW s \in Stream
      PROVE  /\ stream'[s].ch = stream[s].ch /\ stream'[s].job = stream[s].job
             /\ stream'[s].pc = stream[s].pc
             /\ stream[s].pc = "idle" => stream'[s] = stream[s]
  <2>1. CASE stream'[s] = stream[s] BY <2>1
  <2>2. CASE /\ s \in del.subs /\ stream'[s] = [stream[s] EXCEPT !.closed = TRUE]
    <3>1. stream[s].job \in Job BY <2>2 DEF Struct, Links, SaveLinks
    <3>2. stream[s].pc # "idle"
      BY <3>1, NoStreamType, RegistrationAssumption DEF Struct, Links, StreamLinks
    <3>3. stream[s] \in StreamRec BY <1>2
    <3>4. QED BY <2>2, <3>2, <3>3 DEF StreamRec
  <2>3. QED BY <1>1, <2>1, <2>2
<1>4. StreamType' BY <1>1, <1>2, <1>3 DEF StreamType
<1>5. StreamLinks' BY <1>3 DEF Struct, Links, StreamLinks
<1>6. JobsKept BY <1>3 DEF JobsKept
<1>7. {stream'[q].job : q \in Stream} \cap Fresh = {} BY <1>3 DEF Struct, Links, Used
<1>8. RunType' /\ WorkType' /\ RunLinks' /\ WorkLinks' /\ Fresh' = Fresh
  BY <1>1, <1>6, RunnersRest
<1>9. SaveLinks' BY <1>1, <1>3 DEF Struct, Links, SaveLinks, storeVars
<1>10. Ids(jobs') \subseteq Used /\ Ids(file') \subseteq Used /\ Ids(save'.snap) \subseteq Used
  BY <1>1 DEF Used, storeVars
<1>11. /\ ListOK(jobs') /\ ListOK(file') /\ ListOK(save'.snap) /\ save' \in SaveRec
       /\ inputs' \in [Job -> SUBSET Row] /\ faults' \in 0 .. MaxFaults
       /\ completed' \in SUBSET Job /\ deleted' \in SUBSET Job
       /\ UNCHANGED <<accounts, panicked, restarts, saveDue>>
  BY <1>1 DEF Struct, Types, storeVars, ghosts
<1>12. QED BY <1>1, <1>4, <1>5, <1>7, <1>8, <1>9, <1>10, <1>11, StoreStruct

\* The credentials of a deleted job go.
LEMMA DeleteSidecarStruct ==
  ASSUME Struct, DeleteSidecar
  PROVE  Struct'
<1>1. /\ del.pc = "sidecar" /\ inputs' = [inputs EXCEPT ![del.job] = {}]
      /\ deleted' = deleted \cup {del.job} /\ del' = NoDelete
      /\ UNCHANGED <<jobs, run, work, stream, accounts, panicked, storeVars, restarts, faults,
                     completed>>
  BY DEF DeleteSidecar
<1>2. del.job \in Job BY <1>1 DEF Struct, Links, SaveLinks
<1>3. NoDelete \in DelRec /\ NoDelete.pc = "idle" /\ NoDelete.subs = {} BY DEF NoDelete, DelRec
<1>4. inputs' \in [Job -> SUBSET Row] /\ deleted' \in SUBSET Job
  BY <1>1, <1>2 DEF Struct, Types
<1>5. SaveLinks' BY <1>1, <1>3 DEF Struct, Links, SaveLinks, storeVars
<1>6. StreamType' /\ StreamLinks' /\ JobsKept
  BY <1>1 DEF Struct, Types, Links, StreamType, StreamLinks, JobsKept
<1>7. RunType' /\ WorkType' /\ RunLinks' /\ WorkLinks' /\ Fresh' = Fresh
  BY <1>1, <1>6, RunnersRest
<1>8. /\ Ids(jobs') \subseteq Used /\ Ids(file') \subseteq Used /\ Ids(save'.snap) \subseteq Used
      /\ {stream'[q].job : q \in Stream} \cap Fresh = {}
  BY <1>1 DEF Used, Struct, Links, storeVars
<1>9. /\ ListOK(jobs') /\ ListOK(file') /\ ListOK(save'.snap) /\ save' \in SaveRec
      /\ del' \in DelRec /\ faults' \in 0 .. MaxFaults /\ completed' \in SUBSET Job
      /\ UNCHANGED <<accounts, panicked, restarts, saveDue>>
  BY <1>1, <1>3 DEF Struct, Types, storeVars
<1>10. QED BY <1>4, <1>5, <1>6, <1>7, <1>8, <1>9, StoreStruct

-----------------------------------------------------------------------------
(* The process.                                                            *)

\* After a restart the jobs are those of the file, and nobody is at work.
LEMMA RestartEffect ==
  ASSUME Struct, Restart
  PROVE  /\ jobs' = file /\ UNCHANGED <<file, inputs, accounts, faults, completed, deleted>>
         /\ \A j \in Job : /\ run'[j] \in RunRec /\ run'[j].to = {} /\ run'[j].steps = StepsOf({})
                          /\ run'[j].pc = IF j \in Fresh THEN "none" ELSE "over"
         /\ Fresh' = Fresh
         /\ \A j \in Job, i \in Row :
              work'[j][i] = [pc |-> "none", status |-> "absent", to |-> {}]
         /\ run' \in [Job -> RunRec] /\ work' \in [Job -> [Row -> WorkRec]]
         /\ stream' \in [Stream -> StreamRec]
         /\ \A s \in Stream :
              \/ stream[s].pc = "idle" /\ stream'[s] = stream[s]
              \/ /\ stream[s].pc # "idle" /\ stream'[s].pc = "over"
                 /\ stream'[s].ch = <<>> /\ stream'[s].job = stream[s].job
                 /\ stream'[s].view = stream[s].view /\ stream'[s].snap = stream[s].snap
                 /\ stream'[s].done = stream[s].done
         /\ saveDue' = FALSE /\ save' = NoSave /\ del' = NoDelete /\ panicked' = FALSE
         /\ restarts' \in 0 .. MaxRestarts
<1>1. jobs' = file BY NewestFits DEF Restart, Struct, Types
<1>2. restarts' \in 0 .. MaxRestarts
  <2>1. restarts \in 0 .. MaxRestarts BY DEF Struct, Types
  <2>2. restarts < MaxRestarts /\ restarts' = restarts + 1 BY DEF Restart
  <2>3. QED BY <2>1, <2>2, RegistrationAssumption
<1>3. ASSUME NEW j \in Job
      PROVE  /\ run'[j] \in RunRec /\ run'[j].to = {} /\ run'[j].steps = StepsOf({})
             /\ run'[j].pc = IF j \in Fresh THEN "none" ELSE "over"
  <2>1. run'[j] = IF run[j].pc \in {"none", "asked"} THEN NoRun ELSE [NoRun EXCEPT !.pc = "over"]
    BY DEF Restart
  <2>2. CASE j \in Fresh BY <2>1, <2>2, NoRunType DEF Fresh
  <2>3. CASE j \notin Fresh
    <3>1. run'[j] = [NoRun EXCEPT !.pc = "over"] BY <2>1, <2>3 DEF Fresh
    <3>2. QED BY <2>3, <3>1, NoRunType DEF RunRec
  <2>4. QED BY <2>2, <2>3
<1>4. run' \in [Job -> RunRec]
  <2>1. run' = [j \in Job |-> run'[j]] BY DEF Restart
  <2>2. QED BY <1>3, <2>1
<1>5. Fresh' = Fresh BY <1>3 DEF Fresh
<1>6. \A j \in Job, i \in Row : work'[j][i] = [pc |-> "none", status |-> "absent", to |-> {}]
  BY DEF Restart, NoWork
<1>7. work' \in [Job -> [Row -> WorkRec]]
  <2>1. NoWork \in [Row -> WorkRec] BY DEF NoWork, WorkRec, Status
  <2>2. QED BY <2>1 DEF Restart
<1>8. ASSUME NEW s \in Stream
      PROVE  /\ stream'[s] \in StreamRec
             /\ \/ stream[s].pc = "idle" /\ stream'[s] = stream[s]
                \/ /\ stream[s].pc # "idle" /\ stream'[s].pc = "over"
                   /\ stream'[s].ch = <<>> /\ stream'[s].job = stream[s].job
                   /\ stream'[s].view = stream[s].view /\ stream'[s].snap = stream[s].snap
                   /\ stream'[s].done = stream[s].done
  <2>1. stream[s] \in StreamRec BY TypesOf
  <2>2. CASE stream[s].pc = "idle"
    <3>1. stream'[s] = NoStream BY <2>2 DEF Restart
    <3>2. stream[s] = NoStream BY <2>2 DEF Struct, Links, StreamLinks
    <3>3. QED BY <2>1, <2>2, <3>1, <3>2
  <2>3. CASE stream[s].pc # "idle"
    <3>1. stream'[s] = [stream[s] EXCEPT !.pc = "over", !.attached = FALSE,
                                         !.closed = TRUE, !.ch = <<>>]
      BY <2>3 DEF Restart
    <3>2. <<>> \in Seq(Event) BY EmptySeq
    <3>3. QED BY <2>1, <2>3, <3>1, <3>2 DEF StreamRec
  <2>4. QED BY <2>2, <2>3
<1>9. stream' \in [Stream -> StreamRec]
  <2>1. stream' = [s \in Stream |-> stream'[s]] BY DEF Restart
  <2>2. QED BY <1>8, <2>1
<1>10. /\ UNCHANGED <<file, inputs, accounts, faults, completed, deleted>>
       /\ saveDue' = FALSE /\ save' = NoSave /\ del' = NoDelete /\ panicked' = FALSE
  BY DEF Restart
<1>11. QED BY <1>1, <1>2, <1>3, <1>4, <1>5, <1>6, <1>7, <1>8, <1>9, <1>10

\* After a restart only what was given out is known.
LEMMA RestartStruct ==
  ASSUME Struct, Restart
  PROVE  Struct'
<1>1. /\ jobs' = file /\ UNCHANGED <<file, inputs, accounts, faults, completed, deleted>>
      /\ \A j \in Job : run'[j].to = {} /\ run'[j].pc = IF j \in Fresh THEN "none" ELSE "over"
      /\ Fresh' = Fresh
      /\ \A j \in Job, i \in Row :
           work'[j][i] = [pc |-> "none", status |-> "absent", to |-> {}]
      /\ run' \in [Job -> RunRec] /\ work' \in [Job -> [Row -> WorkRec]]
      /\ stream' \in [Stream -> StreamRec]
      /\ saveDue' = FALSE /\ save' = NoSave /\ del' = NoDelete /\ panicked' = FALSE
      /\ restarts' \in 0 .. MaxRestarts
  BY RestartEffect
<1>2. \A s \in Stream : /\ stream'[s].pc = "idle" <=> stream[s].pc = "idle"
                        /\ stream[s].pc = "idle" => stream'[s] = stream[s]
                        /\ stream'[s].job = stream[s].job
                        /\ stream'[s].ch = <<>> \/ stream'[s].ch = stream[s].ch
  BY RestartEffect
<1>3. /\ NoDelete \in DelRec /\ NoDelete.pc = "idle" /\ NoDelete.subs = {}
      /\ NoSave \in SaveRec /\ NoSave.by = "none" /\ ListOK(NoSave.snap) /\ Ids(NoSave.snap) = {}
  <2>1. DOMAIN <<>> = {} BY EmptySeq
  <2>2. Ids(<<>>) = {} BY <2>1 DEF Ids
  <2>3. QED BY <2>2, NoSaveType DEF NoDelete, DelRec
<1>4. StreamType'
  <2>1. Len(<<>>) = 0 BY EmptySeq
  <2>2. \A s \in Stream : Len(stream'[s].ch) <= ChannelCap
    BY <1>2, <2>1, TypesOf, RegistrationAssumption
  <2>3. QED BY <1>1, <2>2 DEF StreamType
<1>5. RunLinks' BY <1>1 DEF RunLinks
<1>6. WorkLinks' BY <1>1 DEF WorkLinks
<1>7. StreamLinks' BY <1>2 DEF Struct, Links, StreamLinks
<1>8. SaveLinks' BY <1>1, <1>3 DEF SaveLinks
<1>9. (Fresh \cap Used)' = {}
  <2>1. Ids(jobs') \subseteq Used /\ Ids(file') \subseteq Used /\ Ids(save'.snap) = {}
    BY <1>1, <1>3 DEF Used
  <2>2. {stream'[s].job : s \in Stream} \subseteq Used BY <1>2 DEF Used
  <2>3. QED BY <1>1, <2>1, <2>2 DEF Struct, Links, Used
<1>10. Types'
  BY <1>1, <1>3, <1>4 DEF Struct, Types, RunType, WorkType
<1>11. QED BY <1>5, <1>6, <1>7, <1>8, <1>9, <1>10 DEF Struct, Links

\* Struct is inductive: the first state ...
LEMMA StructInit == Init => Struct
<1> SUFFICES ASSUME Init PROVE Struct
  OBVIOUS
<1>1. /\ jobs = <<>> /\ file = <<>> /\ save = NoSave
      /\ run = [j \in Job |-> NoRun] /\ work = [j \in Job |-> NoWork]
      /\ stream = [s \in Stream |-> NoStream]
      /\ saveDue = FALSE /\ inputs = [j \in Job |-> {}] /\ accounts = {} /\ del = NoDelete
      /\ panicked = FALSE /\ restarts = 0 /\ faults = 0 /\ completed = {} /\ deleted = {}
  BY DEF Init
<1>2. /\ NoDelete \in DelRec /\ NoDelete.pc = "idle" /\ NoDelete.subs = {}
      /\ NoSave \in SaveRec /\ NoSave.by = "none" /\ NoSave.snap = <<>>
      /\ ListOK(<<>>) /\ Ids(<<>>) = {}
  <2>1. DOMAIN <<>> = {} BY EmptySeq
  <2>2. Ids(<<>>) = {} BY <2>1 DEF Ids
  <2>3. QED BY <2>2, NoSaveType DEF NoDelete, DelRec
<1>3. StreamType
  <2>1. Len(<<>>) = 0 BY EmptySeq
  <2>2. QED BY <1>1, <2>1, NoStreamType, RegistrationAssumption DEF StreamType
<1>4. RunType BY <1>1, NoRunType DEF RunType
<1>5. WorkType
  <2>1. NoWork \in [Row -> WorkRec] BY DEF NoWork, WorkRec, Status
  <2>2. QED BY <1>1, <2>1 DEF WorkType
<1>6. Types
  <2>1. ListOK(jobs) /\ ListOK(file) /\ ListOK(save.snap) /\ save \in SaveRec /\ del \in DelRec
    BY <1>1, <1>2
  <2>2. /\ saveDue \in BOOLEAN /\ panicked \in BOOLEAN /\ inputs \in [Job -> SUBSET Row]
        /\ accounts \in SUBSET Row /\ completed \in SUBSET Job /\ deleted \in SUBSET Job
    BY <1>1
  <2>3. restarts \in 0 .. MaxRestarts /\ faults \in 0 .. MaxFaults
    BY <1>1, RegistrationAssumption
  <2>4. QED BY <1>3, <1>4, <1>5, <2>1, <2>2, <2>3 DEF Types
<1>7. RunLinks BY <1>1, NoRunType DEF RunLinks
<1>8. WorkLinks BY <1>1 DEF WorkLinks, NoWork
<1>9. StreamLinks BY <1>1, NoStreamType DEF StreamLinks
<1>10. SaveLinks BY <1>1, <1>2 DEF SaveLinks
<1>11. Fresh \cap Used = {}
  BY <1>1, <1>2, NoStreamType, RegistrationAssumption DEF Fresh, Used
<1>12. QED BY <1>6, <1>7, <1>8, <1>9, <1>10, <1>11 DEF Struct, Links

\* ... and every step.
LEMMA StructNext == Struct /\ [Next]_vars => Struct'
<1> SUFFICES ASSUME Struct, [Next]_vars PROVE Struct'
  OBVIOUS
<1>1. CASE UNCHANGED vars
  <2>1. UNCHANGED <<jobs, run, work, stream, saveDue, save, file, inputs, accounts, del,
                    panicked, restarts, faults, completed, deleted>>
    BY <1>1 DEF vars
  <2>2. Types' BY <2>1 DEF Struct, Types, RunType, WorkType, StreamType
  <2>3. RunLinks' /\ WorkLinks' BY <2>1 DEF Struct, Links, RunLinks, WorkLinks
  <2>4. StreamLinks' /\ SaveLinks' BY <2>1 DEF Struct, Links, StreamLinks, SaveLinks
  <2>5. (Fresh \cap Used)' = {} BY <2>1 DEF Struct, Links, Fresh, Used
  <2>6. QED BY <2>2, <2>3, <2>4, <2>5 DEF Struct, Links
<1>2. ASSUME NEW j \in Job, HandlerStep(j) PROVE Struct'
  BY <1>2, StartStruct, RetryStruct, RetryCreateStruct, SaveInputsStruct DEF HandlerStep
<1>3. ASSUME NEW j \in Job, RunnerStep(j) PROVE Struct'
  <2>1. CASE Finish(j) \/ DoneSent(j) \/ FinishSnapshot(j) \/ \E s \in Stream : SendDone(j, s)
    BY <2>1, FinishEffect, DoneSentStruct, FinishSnapshotStruct, SendDoneEffect
  <2>2. ASSUME NEW i \in Row,
               \/ Dispatch(j, i) \/ Begin(j, i) \/ Login(j, i) \/ Succeed(j, i)
               \/ StepSent(j, i) \/ \E s \in Stream : SendStep(j, i, s)
        PROVE  Struct'
    BY <2>2, DispatchStruct, RowUpdateStruct, StepSentStruct, SendStepStruct
  <2>3. QED BY <1>3, <2>1, <2>2 DEF RunnerStep
<1>4. ASSUME NEW s \in Stream, Subscribe(s) \/ StreamStep(s) \/ Disconnect(s) PROVE Struct'
  BY <1>4, SubscribeStruct, SendSnapshotStruct, ReceiveStruct, LeaveStruct DEF StreamStep
<1>5. CASE SaveStep \/ Delete \/ DeleteStep
  BY <1>5, LoopSnapshotStruct, WrittenStruct, DeleteStruct, DeleteCloseStruct,
     DeleteSnapshotStruct, DeleteSidecarStruct DEF SaveStep, DeleteStep
<1>6. CASE Restart BY <1>6, RestartStruct
<1>7. QED BY <1>1, <1>2, <1>3, <1>4, <1>5, <1>6 DEF Next

\* A job id is given out once: as long as it is free nothing in memory, on disk or
\* at a stream has it; and the goroutines of a job only work while they should.
THEOREM IdsAreNew == Spec => []Struct
<1>1. QED BY StructInit, StructNext, PTL DEF Spec

\* Every variable keeps its type, the list of jobs and every channel keep their
\* limits, and no job is listed twice.
THEOREM TypeCorrect == Spec => []TypeOK
<1>1. Struct => TypeOK
  <2> SUFFICES ASSUME Struct PROVE TypeOK
    OBVIOUS
  <2>1. /\ jobs \in Seq(JobRecord) /\ Len(jobs) <= MemCap
        /\ file \in Seq(JobRecord) /\ Len(file) <= MemCap
        /\ \A m, n \in DOMAIN jobs : jobs[m].id = jobs[n].id => m = n
    BY DEF Struct, Types, ListOK
  <2>2. IsInjective([n \in DOMAIN jobs |-> jobs[n].id]) BY <2>1 DEF IsInjective
  <2>3. run \in [Job -> RunRec] /\ work \in [Job -> [Row -> WorkRec]]
    BY DEF Struct, Types, RunType, WorkType
  <2>4. stream \in [Stream -> StreamRec] /\ \A s \in Stream : Len(stream[s].ch) <= ChannelCap
    BY DEF Struct, Types, StreamType
  <2>5. /\ saveDue \in BOOLEAN /\ save \in SaveRec
        /\ inputs \in [Job -> SUBSET Row] /\ accounts \in SUBSET Row
        /\ del \in DelRec
        /\ panicked \in BOOLEAN
        /\ restarts \in 0 .. MaxRestarts /\ faults \in 0 .. MaxFaults
        /\ completed \in SUBSET Job /\ deleted \in SUBSET Job
    BY DEF Struct, Types
  <2>6. QED
    BY <2>1, <2>2, <2>3, <2>4, <2>5 DEF TypeOK, RunRec, WorkRec, StreamRec, SaveRec, DelRec
<1>2. QED BY <1>1, IdsAreNew, PTL

-----------------------------------------------------------------------------
(* What the jobs say of their rows: DoneIsComplete.                        *)

JobsIn(list) == {list[n] : n \in DOMAIN list}

\* Every job that is written down somewhere.
Entries == JobsIn(jobs) \cup JobsIn(file) \cup JobsIn(save.snap)

\* What the workers did to a row is what the job says of it.
RowMatches(status, w) ==
  /\ w.pc = "none" => status = "absent"
  /\ w.pc \in {"todo", "start"} => status = "pending"
  /\ w.pc = "send" => status = w.status
  /\ w.pc \in {"login", "written"} => status = "running"
  /\ w.pc = "over" => status \in Terminal

Complete(steps) == WithStatus(steps, {"pending", "running"}) = {}

Counted(job) ==
  /\ job.ok = Cardinality(WithStatus(job.steps, {"ok"}))
  /\ job.fail = Cardinality(WithStatus(job.steps, {"fail"}))

Honest(job) == Counted(job) /\ (job.state = "done" => Complete(job.steps))

Progress(job, r, w) ==
  /\ r.pc = "created" => job.steps = StepsOf(r.rows)
  /\ r.pc = "running" => \A i \in Row : RowMatches(job.steps[i], w[i])
  /\ r.pc \in {"created", "running"} => job.state = "running"
  /\ r.pc \in {"send", "save", "saving"} => job.state = "done"

RowsOK ==
  /\ \A n \in DOMAIN jobs : Progress(jobs[n], run[jobs[n].id], work[jobs[n].id])
  /\ \A job \in Entries : Honest(job)

\* The kinds of steps: those that leave the jobs alone, those that move a runner,
\* those of a worker without and with an update of its row, and those that give out
\* an id.  Left are SaveInputs, Finish, Delete and Restart.
QuietStep ==
  \/ \E s \in Stream : Subscribe(s) \/ StreamStep(s) \/ Disconnect(s)
  \/ LoopSnapshot \/ DeleteClose \/ DeleteSnapshot \/ DeleteSidecar
  \/ UNCHANGED vars

JobMove(j) ==
  \/ Retry(j) \/ DoneSent(j) \/ FinishSnapshot(j)
  \/ RetryCreate(j) /\ run' = [run EXCEPT ![j] = NoRun] /\ jobs' = jobs
  \/ \E s \in Stream : SendDone(j, s)

RunnerMove == Written \/ \E j \in Job : JobMove(j)

WorkerMove(j, i) ==
  \/ Dispatch(j, i) \/ StepSent(j, i) \/ \E s \in Stream : SendStep(j, i, s)
  \/ Login(j, i) /\ work' = [work EXCEPT ![j][i].pc = "written"] /\ jobs' = jobs
     /\ accounts' = accounts \cup {i}

RowUpdate(j, i) ==
  \/ Begin(j, i) \/ Succeed(j, i)
  \/ Login(j, i) /\ UpdateStep(j, i, "fail") /\ accounts' = accounts

Creation(j) ==
  \/ Start(j)
  \/ RetryCreate(j) /\ ~(run' = [run EXCEPT ![j] = NoRun] /\ jobs' = jobs)

\* A job that is in memory is among the entries, with its type.
LEMMA EntryTypes ==
  ASSUME Struct
  PROVE  /\ \A job \in Entries : job \in JobRecord /\ job.id \in Job \ Fresh
         /\ \A n \in DOMAIN jobs : jobs[n] \in Entries
<1>1. \A job \in Entries : job \in JobRecord BY TypesOf DEF Entries, JobsIn
<1>2. \A job \in Entries : job.id \in Used BY DEF Entries, JobsIn, Used, Ids
<1>3. \A job \in Entries : job.id \in Job BY <1>1 DEF JobRecord
<1>4. \A job \in Entries : job.id \notin Fresh BY <1>2 DEF Struct, Links
<1>5. QED BY <1>1, <1>3, <1>4 DEF Entries, JobsIn

\* The steps that change no job: the jobs written down stay, or some of them.
LEMMA EntriesStay ==
  ASSUME jobs' = jobs \/ jobs' = file, file' = file \/ file' = save.snap,
         save'.snap = save.snap \/ save'.snap = jobs \/ save'.snap = <<>>
  PROVE  Entries' \subseteq Entries
<1>1. DOMAIN <<>> = {} BY EmptySeq
<1>2. JobsIn(<<>>) = {} BY <1>1 DEF JobsIn
<1>3. /\ JobsIn(jobs') \subseteq Entries /\ JobsIn(file') \subseteq Entries
      /\ JobsIn(save'.snap) \subseteq Entries
  BY <1>2 DEF Entries
<1>4. QED BY <1>3 DEF Entries, JobsIn

\* Steps of the streams and of most of the saving and deleting.
LEMMA QuietEffect ==
  ASSUME Struct, QuietStep
  PROVE  /\ UNCHANGED <<jobs, run, work, accounts, file, completed, faults>>
         /\ Entries' \subseteq Entries
<1>1. /\ UNCHANGED <<jobs, run, work, accounts, file, completed, faults>>
      /\ save'.snap = save.snap \/ save'.snap = jobs
  <2>1. CASE \E s \in Stream : Subscribe(s) \/ StreamStep(s) \/ Disconnect(s)
    BY <2>1 DEF Subscribe, StreamStep, SendSnapshot, Receive, Disconnect, Cancel, storeVars, ghosts
  <2>2. CASE LoopSnapshot BY <2>2 DEF LoopSnapshot, TakeSnapshot, ghosts
  <2>3. CASE DeleteClose \/ DeleteSidecar
    BY <2>3 DEF DeleteClose, DeleteSidecar, storeVars, ghosts
  <2>4. CASE DeleteSnapshot BY <2>4 DEF DeleteSnapshot, TakeSnapshot, ghosts
  <2>5. CASE UNCHANGED vars BY <2>5 DEF vars
  <2>6. QED BY <2>1, <2>2, <2>3, <2>4, <2>5 DEF QuietStep
<1>2. Entries' \subseteq Entries BY <1>1, EntriesStay
<1>3. QED BY <1>1, <1>2

\* Steps that move a runner and change no job.
LEMMA RunnerMoves ==
  ASSUME Struct, RunnerMove
  PROVE  /\ UNCHANGED <<jobs, work, accounts>>
         /\ Entries' \subseteq Entries
         /\ \A j \in Job :
              \/ run'[j] = run[j]
              \/ j \in Fresh /\ run'[j].pc \in {"none", "asked"} /\ run'[j].steps = StepsOf({})
              \/ run[j].pc = "send" /\ run'[j].pc = "send" /\ run'[j].steps = run[j].steps
              \/ /\ run[j].pc \in {"send", "save", "saving"}
                 /\ run'[j].pc \in {"save", "saving", "over"}
                 /\ run'[j].pc = "over" => run[j].pc = "saving" \/ ~Persistent
                 /\ run'[j].pc = "saving" => FinishSnapshot(j)
                 /\ run'[j].steps \in {run[j].steps, StepsOf({})}
<1>1. run \in [Job -> RunRec] BY DEF Struct, Types, RunType
<1>2. ASSUME NEW k \in Job, Retry(k) PROVE
        /\ UNCHANGED <<jobs, work, accounts, save, file>>
        /\ k \in Fresh /\ run'[k].pc = "asked" /\ run'[k].steps = StepsOf({})
        /\ \A j \in Job \ {k} : run'[j] = run[j]
  <2>1. PICK n \in DOMAIN jobs :
          run' = [run EXCEPT ![k] = [NoRun EXCEPT !.pc = "asked", !.from = jobs[n].id,
                                       !.rows = WithStatus(jobs[n].steps, {"fail"})]]
    BY <1>2 DEF Retry
  <2>2. run'[k].pc = "asked" /\ run'[k].steps = StepsOf({}) /\ \A j \in Job \ {k} : run'[j] = run[j]
    BY <1>1, <2>1, NoRunType DEF RunRec
  <2>3. QED BY <1>2, <2>2 DEF Retry, Fresh, storeVars
<1>3. ASSUME NEW k \in Job, DoneSent(k) PROVE
        /\ UNCHANGED <<jobs, work, accounts, save, file>>
        /\ run[k].pc = "send" /\ run'[k].pc = (IF Persistent THEN "save" ELSE "over")
        /\ run'[k].steps = StepsOf({})
        /\ \A j \in Job \ {k} : run'[j] = run[j]
  <2> DEFINE pc == IF Persistent THEN "save" ELSE "over"
  <2>1. run' = [run EXCEPT ![k] = [NoRun EXCEPT !.pc = pc]] BY <1>3 DEF DoneSent
  <2> HIDE DEF pc
  <2>2. run'[k].pc = pc /\ run'[k].steps = StepsOf({}) /\ \A j \in Job \ {k} : run'[j] = run[j]
    BY <1>1, <2>1, NoRunType DEF RunRec
  <2>3. QED BY <1>3, <2>2 DEF DoneSent, storeVars, pc
<1>4. ASSUME NEW k \in Job, FinishSnapshot(k) PROVE
        /\ UNCHANGED <<jobs, work, accounts, file>> /\ save'.snap = jobs
        /\ run[k].pc = "save" /\ run'[k].pc = "saving" /\ run'[k].steps = run[k].steps
        /\ \A j \in Job \ {k} : run'[j] = run[j]
  <2>1. run' = [run EXCEPT ![k].pc = "saving"] BY <1>4 DEF FinishSnapshot
  <2>2. run[k] \in RunRec BY <1>1
  <2>3. run'[k].pc = "saving" /\ run'[k].steps = run[k].steps /\ \A j \in Job \ {k} : run'[j] = run[j]
    BY <1>1, <2>1, <2>2 DEF RunRec
  <2>4. QED BY <1>4, <2>3 DEF FinishSnapshot, TakeSnapshot
<1>5. ASSUME NEW k \in Job, RetryCreate(k), run' = [run EXCEPT ![k] = NoRun], jobs' = jobs PROVE
        /\ UNCHANGED <<jobs, work, accounts, save, file>>
        /\ k \in Fresh /\ run'[k].pc = "none" /\ run'[k].steps = StepsOf({})
        /\ \A j \in Job \ {k} : run'[j] = run[j]
  BY <1>1, <1>5, NoRunType DEF RetryCreate, Fresh
<1>6. ASSUME NEW k \in Job, NEW s \in Stream, SendDone(k, s) PROVE
        /\ UNCHANGED <<jobs, work, accounts, save, file>>
        /\ run[k].pc = "send" /\ run'[k].pc = "send" /\ run'[k].steps = run[k].steps
        /\ \A j \in Job \ {k} : run'[j] = run[j]
  <2>1. /\ run[k].pc = "send" /\ run'[k] = [run[k] EXCEPT !.to = @ \ {s}] /\ run[k] \in RunRec
        /\ \A j \in Job \ {k} : run'[j] = run[j]
    BY <1>6, SendDoneEffect
  <2>2. QED BY <1>6, <2>1 DEF SendDone, storeVars, RunRec
<1>7. CASE Written
  <2>1. /\ save'.snap = <<>> /\ UNCHANGED <<jobs, work, accounts>>
        /\ file' = save.snap \/ file' = file
        /\ \/ run' = run
           \/ /\ save.job \in Job /\ run[save.job].pc = "saving" /\ run[save.job] \in RunRec
              /\ run' = [run EXCEPT ![save.job] = [run[save.job] EXCEPT !.pc = "over"]]
    BY <1>7, WrittenEffect
  <2>2. \A j \in Job : \/ run'[j] = run[j]
                       \/ /\ run[j].pc = "saving" /\ run'[j].pc = "over"
                          /\ run'[j].steps = run[j].steps
    BY <1>1, <2>1 DEF RunRec
  <2>3. Entries' \subseteq Entries BY <2>1, EntriesStay
  <2>4. QED BY <2>1, <2>2, <2>3
<1>8. QED
  <2>1. CASE \E k \in Job : Retry(k)
    BY <1>2, <2>1, EntriesStay
  <2>2. CASE \E k \in Job : DoneSent(k)
    BY <1>3, <2>2, EntriesStay
  <2>3. CASE \E k \in Job : FinishSnapshot(k)
    BY <1>4, <2>3, EntriesStay
  <2>4. CASE \E k \in Job : RetryCreate(k) /\ run' = [run EXCEPT ![k] = NoRun] /\ jobs' = jobs
    BY <1>5, <2>4, EntriesStay
  <2>5. CASE \E k \in Job, s \in Stream : SendDone(k, s)
    BY <1>6, <2>5, EntriesStay
  <2>6. QED BY <1>7, <2>1, <2>2, <2>3, <2>4, <2>5 DEF RunnerMove, JobMove

\* Steps of a worker that change no job.
LEMMA WorkerMoves ==
  ASSUME Struct, NEW j \in Job, NEW i \in Row, WorkerMove(j, i)
  PROVE  /\ UNCHANGED <<jobs, run, save, file, completed, faults>> /\ run[j].pc = "running"
         /\ work[j][i] \in WorkRec
         /\ \A k \in Job, m \in Row : k # j \/ m # i => work'[k][m] = work[k][m]
         /\ \/ accounts' = accounts /\ work[j][i].pc = "todo" /\ work'[j][i].pc = "start"
            \/ /\ accounts' = accounts \cup {i}
               /\ work[j][i].pc = "login" /\ work'[j][i].pc = "written"
            \/ /\ accounts' = accounts
               /\ work[j][i].pc = "send" /\ work'[j][i] = Skipped(work[j][i].status)
            \/ /\ accounts' = accounts
               /\ work[j][i].pc = "send" /\ work'[j][i].pc = "send"
               /\ work'[j][i].status = work[j][i].status
<1>1. work \in [Job -> [Row -> WorkRec]] /\ work[j][i] \in WorkRec
  BY DEF Struct, Types, WorkType
<1>2. run[j].pc = "running"
  <2>1. work[j][i].pc \notin {"none", "over"} BY DEF WorkerMove, Dispatch, StepSent, SendStep, Login
  <2>2. QED BY <2>1, AtWork
<1>3. ASSUME NEW w, work' = [work EXCEPT ![j][i] = w]
      PROVE  /\ work'[j][i] = w
             /\ \A k \in Job, m \in Row : k # j \/ m # i => work'[k][m] = work[k][m]
  BY <1>1, <1>3
<1>4. CASE Dispatch(j, i)
  <2>1. work' = [work EXCEPT ![j][i] = [work[j][i] EXCEPT !.pc = "start"]]
    BY <1>1, <1>4 DEF Dispatch
  <2>2. work'[j][i].pc = "start" BY <1>1, <1>3, <2>1 DEF WorkRec
  <2>3. QED BY <1>1, <1>2, <1>3, <1>4, <2>1, <2>2 DEF Dispatch, storeVars, ghosts
<1>5. CASE StepSent(j, i)
  <2>1. work' = [work EXCEPT ![j][i] = Skipped(work[j][i].status)]
    BY <1>5 DEF StepSent, Skipped
  <2>2. work'[j][i] = Skipped(work[j][i].status) BY <1>3, <2>1
  <2>3. QED BY <1>1, <1>2, <1>3, <1>5, <2>1, <2>2 DEF StepSent, ghosts
<1>6. CASE \E s \in Stream : SendStep(j, i, s)
  <2>1. PICK s \in Stream : SendStep(j, i, s) BY <1>6
  <2>2. work' = [work EXCEPT ![j][i] = [work[j][i] EXCEPT !.to = @ \ {s}]]
    BY <1>1, <2>1 DEF SendStep
  <2>3. work'[j][i].pc = work[j][i].pc /\ work'[j][i].status = work[j][i].status
    BY <1>1, <1>3, <2>2 DEF WorkRec
  <2>4. QED BY <1>1, <1>2, <1>3, <2>1, <2>2, <2>3 DEF SendStep, storeVars, ghosts
<1>7. CASE Login(j, i) /\ work' = [work EXCEPT ![j][i].pc = "written"] /\ jobs' = jobs
           /\ accounts' = accounts \cup {i}
  <2>1. work' = [work EXCEPT ![j][i] = [work[j][i] EXCEPT !.pc = "written"]]
    BY <1>1, <1>7
  <2>2. work'[j][i].pc = "written" BY <1>1, <1>3, <2>1 DEF WorkRec
  <2>3. QED BY <1>1, <1>2, <1>3, <1>7, <2>1, <2>2 DEF Login, storeVars, ghosts
<1>8. QED BY <1>4, <1>5, <1>6, <1>7 DEF WorkerMove

\* Steps of a worker that update its row.
LEMMA RowUpdates ==
  ASSUME Struct, NEW j \in Job, NEW i \in Row, RowUpdate(j, i)
  PROVE  /\ UNCHANGED <<run, save, file, stream, accounts, completed, faults>>
         /\ run[j].pc = "running" /\ work[j][i] \in WorkRec
         /\ \E status \in {"running", "ok", "fail"} :
              /\ UpdateStep(j, i, status)
              /\ \/ work[j][i].pc = "start" /\ status = "running"
                 \/ work[j][i].pc = "login" /\ status = "fail"
                 \/ work[j][i].pc = "written" /\ status = "ok"
              /\ \A k \in Job, m \in Row : k # j \/ m # i => work'[k][m] = work[k][m]
              /\ \/ /\ Known(j) /\ work'[j][i] = Sending(j, status)
                    /\ Find(jobs, j) \in DOMAIN jobs /\ jobs[Find(jobs, j)].id = j
                    /\ jobs[Find(jobs, j)] \in JobRecord
                    /\ DOMAIN jobs' = DOMAIN jobs
                    /\ jobs'[Find(jobs, j)] = Updated(jobs[Find(jobs, j)], i, status)
                    /\ \A m \in DOMAIN jobs : jobs[m].id # j => jobs'[m] = jobs[m]
                    /\ \A m \in DOMAIN jobs : jobs[m].id = j => m = Find(jobs, j)
                    /\ Entries' \subseteq Entries \cup {Updated(jobs[Find(jobs, j)], i, status)}
                 \/ /\ ~Known(j) /\ work'[j][i] = Skipped(status)
                    /\ jobs' = jobs /\ Entries' \subseteq Entries
<1>1. work \in [Job -> [Row -> WorkRec]] /\ work[j][i] \in WorkRec
  BY DEF Struct, Types, WorkType
<1>2. UNCHANGED <<run, save, file, stream, accounts, completed, faults>>
  BY DEF RowUpdate, Begin, Login, Succeed, storeVars, ghosts
<1>3. run[j].pc = "running"
  <2>1. work[j][i].pc \notin {"none", "over"} BY DEF RowUpdate, Begin, Succeed, Login
  <2>2. QED BY <2>1, AtWork
<1>4. ASSUME NEW w, work' = [work EXCEPT ![j][i] = w]
      PROVE  /\ work'[j][i] = w
             /\ \A k \in Job, m \in Row : k # j \/ m # i => work'[k][m] = work[k][m]
  BY <1>1, <1>4
<1>5. PICK status \in {"running", "ok", "fail"} :
        /\ UpdateStep(j, i, status)
        /\ \/ work[j][i].pc = "start" /\ status = "running"
           \/ work[j][i].pc = "login" /\ status = "fail"
           \/ work[j][i].pc = "written" /\ status = "ok"
  BY DEF RowUpdate, Begin, Succeed, Login
<1>6. CASE Known(j)
  <2> DEFINE n == Find(jobs, j)
             job == Updated(jobs[n], i, status)
  <2>1. /\ n \in DOMAIN jobs /\ jobs[n].id = j /\ DOMAIN jobs' = DOMAIN jobs
        /\ jobs'[n] = job /\ \A m \in DOMAIN jobs \ {n} : jobs'[m] = jobs[m]
        /\ work' = [work EXCEPT ![j][i] = Sending(j, status)]
    BY <1>5, <1>6, UpdateKnown
  <2>2. \A m \in DOMAIN jobs : jobs[m].id = j => m = n
    BY <1>6, FindWorks DEF Known, Struct, Types
  <2>3. jobs[n] \in JobRecord BY <2>1, TypesOf
  <2> HIDE DEF n, job
  <2>4. Entries' \subseteq Entries \cup {job}
    <3>1. JobsIn(jobs') \subseteq JobsIn(jobs) \cup {job} BY <2>1 DEF JobsIn
    <3>2. JobsIn(file') = JobsIn(file) /\ JobsIn(save'.snap) = JobsIn(save.snap)
      BY <1>2
    <3>3. QED BY <3>1, <3>2 DEF Entries
  <2>5. /\ work'[j][i] = Sending(j, status)
        /\ \A k \in Job, m \in Row : k # j \/ m # i => work'[k][m] = work[k][m]
    BY <1>4, <2>1
  <2>6. QED BY <1>1, <1>2, <1>3, <1>5, <1>6, <2>1, <2>2, <2>3, <2>4, <2>5 DEF n, job
<1>7. CASE ~Known(j)
  <2>1. jobs' = jobs /\ work' = [work EXCEPT ![j][i] = Skipped(status)]
    BY <1>5, <1>7, UpdateUnknown
  <2>2. Entries' \subseteq Entries BY <1>2, <2>1, EntriesStay
  <2>3. /\ work'[j][i] = Skipped(status)
        /\ \A k \in Job, m \in Row : k # j \/ m # i => work'[k][m] = work[k][m]
    BY <1>4, <2>1
  <2>4. QED BY <1>1, <1>2, <1>3, <1>5, <1>7, <2>1, <2>2, <2>3
<1>8. QED BY <1>6, <1>7

\* The steps that give out an id.
LEMMA Creates ==
  ASSUME Struct, NEW j \in Job, Creation(j)
  PROVE  /\ UNCHANGED <<work, stream, save, file, accounts, faults>>
         /\ j \in Fresh /\ j \notin Used
         /\ completed' = completed \cap Ids(jobs')
         /\ \A k \in Job \ {j} : run'[k] = run[k]
         /\ \E rows \in SUBSET Row :
              /\ run'[j].pc = "created" /\ run'[j].rows = rows /\ run'[j].steps = StepsOf({})
              /\ \A n \in DOMAIN jobs' :
                   jobs'[n] = NewJob(j, rows) \/ \E m \in DOMAIN jobs : jobs'[n] = jobs[m]
              /\ Entries' \subseteq Entries \cup {NewJob(j, rows)}
<1>1. j \in Fresh BY DEF Creation, Start, RetryCreate, Fresh
<1>2. \E rows \in SUBSET Row : Create(j, rows)
  <2>1. CASE Start(j) BY <2>1 DEF Start
  <2>2. CASE RetryCreate(j)
    <3>1. run[j].rows \subseteq Row BY TypesOf DEF RunRec
    <3>2. inputs[run[j].from] \cap run[j].rows \in SUBSET Row BY <3>1
    <3>3. Create(j, inputs[run[j].from] \cap run[j].rows)
      BY <2>2 DEF Creation, RetryCreate, Start
    <3>4. QED BY <3>2, <3>3
  <2>3. QED BY <2>1, <2>2 DEF Creation
<1>3. PICK rows \in SUBSET Row : Create(j, rows) BY <1>2
<1>4. UNCHANGED <<work, stream, save, file, inputs, accounts, del, panicked,
                  restarts, faults, deleted>>
  BY DEF Creation, Start, RetryCreate
<1>5. /\ j \notin Used
      /\ \A n \in DOMAIN jobs' :
           jobs'[n] = NewJob(j, rows) \/ \E m \in DOMAIN jobs : jobs'[n] = jobs[m]
      /\ \A k \in Job \ {j} : run'[k] = run[k]
      /\ run'[j] = [NoRun EXCEPT !.pc = "created", !.rows = rows]
      /\ completed' = completed \cap Ids(jobs')
  BY <1>1, <1>3, <1>4, CreateStruct
<1>6. run'[j].pc = "created" /\ run'[j].rows = rows /\ run'[j].steps = StepsOf({})
  BY <1>5, NoRunType DEF RunRec
<1>7. Entries' \subseteq Entries \cup {NewJob(j, rows)}
  <2>1. JobsIn(jobs') \subseteq JobsIn(jobs) \cup {NewJob(j, rows)} BY <1>5 DEF JobsIn
  <2>2. JobsIn(file') = JobsIn(file) /\ JobsIn(save'.snap) = JobsIn(save.snap)
    BY <1>4
  <2>3. QED BY <2>1, <2>2 DEF Entries
<1>8. QED BY <1>1, <1>4, <1>5, <1>6, <1>7

\* The end of a job.
LEMMA Finishes ==
  ASSUME Struct, NEW j \in Job, Finish(j)
  PROVE  /\ UNCHANGED <<work, stream, save, file, accounts, completed, faults>>
         /\ run[j].pc = "running" /\ \A i \in Row : work[j][i].pc \in {"none", "over"}
         /\ \A k \in Job \ {j} : run'[k] = run[k]
         /\ \/ /\ jobs' = jobs /\ Entries' \subseteq Entries
               /\ run'[j].pc = "over" /\ run'[j].steps = run[j].steps
               /\ Known(j) => \E n \in DOMAIN jobs : jobs[n].id = j /\ jobs[n].state # "running"
            \/ \E n \in DOMAIN jobs :
                 /\ jobs[n].id = j /\ jobs[n].state = "running" /\ jobs[n] \in JobRecord
                 /\ DOMAIN jobs' = DOMAIN jobs
                 /\ jobs'[n] = [jobs[n] EXCEPT !.state = "done"]
                 /\ \A m \in DOMAIN jobs : jobs[m].id # j => jobs'[m] = jobs[m]
                 /\ \A m \in DOMAIN jobs : jobs[m].id = j => m = n
                 /\ Entries' \subseteq Entries \cup {[jobs[n] EXCEPT !.state = "done"]}
                 /\ run'[j].pc = "send" /\ run'[j].steps = jobs[n].steps
                 /\ run'[j].to = Attached(j)
<1>1. UNCHANGED <<work, stream, save, file, accounts, completed, faults>>
  BY DEF Finish, storeVars, ghosts
<1>2. /\ run[j].pc = "running" /\ \A i \in Row : work[j][i].pc \in {"none", "over"}
      /\ \A k \in Job \ {j} : run'[k] = run[k]
  BY FinishEffect
<1>3. run[j] \in RunRec BY TypesOf
<1>4. CASE jobs' = jobs /\ run'[j] = [run[j] EXCEPT !.pc = "over"]
           /\ (Known(j) => jobs[Find(jobs, j)].state # "running")
  <2>1. Entries' \subseteq Entries BY <1>1, <1>4, EntriesStay
  <2>2. run'[j].pc = "over" /\ run'[j].steps = run[j].steps BY <1>3, <1>4 DEF RunRec
  <2>3. Known(j) => Find(jobs, j) \in DOMAIN jobs /\ jobs[Find(jobs, j)].id = j
    BY FindWorks DEF Known, Struct, Types
  <2>4. QED BY <1>1, <1>2, <1>4, <2>1, <2>2, <2>3
<1>5. CASE /\ Known(j) /\ jobs[Find(jobs, j)].state = "running"
           /\ DOMAIN jobs' = DOMAIN jobs /\ Find(jobs, j) \in DOMAIN jobs
           /\ jobs[Find(jobs, j)].id = j
           /\ jobs'[Find(jobs, j)] = [jobs[Find(jobs, j)] EXCEPT !.state = "done"]
           /\ \A m \in DOMAIN jobs \ {Find(jobs, j)} : jobs'[m] = jobs[m]
           /\ run'[j] = [run[j] EXCEPT !.pc = "send", !.to = Attached(j),
                                       !.steps = jobs[Find(jobs, j)].steps]
  <2> DEFINE n == Find(jobs, j)
             job == [jobs[n] EXCEPT !.state = "done"]
  <2>1. \A m \in DOMAIN jobs : jobs[m].id = j => m = n
    BY <1>5, FindWorks DEF Known, Struct, Types
  <2>2. jobs[n] \in JobRecord BY <1>5, TypesOf
  <2>3. run'[j].pc = "send" /\ run'[j].steps = jobs[n].steps /\ run'[j].to = Attached(j)
    BY <1>3, <1>5 DEF RunRec
  <2>4. Entries' \subseteq Entries \cup {job}
    <3>1. \A m \in DOMAIN jobs : jobs'[m] = job \/ jobs'[m] = jobs[m] BY <1>5
    <3>2. JobsIn(jobs') \subseteq JobsIn(jobs) \cup {job} BY <1>5, <3>1 DEF JobsIn
    <3>3. JobsIn(file') = JobsIn(file) /\ JobsIn(save'.snap) = JobsIn(save.snap)
      BY <1>1
    <3>4. QED BY <3>2, <3>3 DEF Entries
  <2>5. n \in DOMAIN jobs /\ jobs[n].id = j /\ jobs[n].state = "running" /\ jobs'[n] = job
        /\ DOMAIN jobs' = DOMAIN jobs
        /\ \A m \in DOMAIN jobs \ {n} : jobs'[m] = jobs[m]
    BY <1>5
  <2> HIDE DEF n, job
  <2>6. \A m \in DOMAIN jobs : jobs[m].id # j => jobs'[m] = jobs[m] BY <2>5
  <2>7. QED BY <1>1, <1>2, <2>1, <2>2, <2>3, <2>4, <2>5, <2>6 DEF job
<1>6. QED BY <1>4, <1>5, FinishEffect

\* Every step is of one of these kinds.
LEMMA StepKinds ==
  ASSUME Struct, [Next]_vars
  PROVE  \/ QuietStep
         \/ RunnerMove
         \/ \E j \in Job, i \in Row : WorkerMove(j, i) \/ RowUpdate(j, i)
         \/ \E j \in Job : Creation(j) \/ SaveInputs(j) \/ Finish(j)
         \/ Delete
         \/ Restart
<1>1. ASSUME NEW j \in Job, HandlerStep(j)
      PROVE  RunnerMove \/ Creation(j) \/ SaveInputs(j)
  <2>1. CASE Start(j) BY <2>1 DEF Creation
  <2>2. CASE Retry(j)
    <3>1. JobMove(j) BY <2>2 DEF JobMove
    <3>2. QED BY <3>1 DEF RunnerMove
  <2>3. CASE RetryCreate(j)
    <3>1. CASE run' = [run EXCEPT ![j] = NoRun] /\ jobs' = jobs
      BY <2>3, <3>1 DEF RunnerMove, JobMove
    <3>2. QED BY <2>3, <3>1 DEF Creation
  <2>4. QED BY <1>1, <2>1, <2>2, <2>3 DEF HandlerStep
<1>2. ASSUME NEW j \in Job, NEW i \in Row,
             \/ Dispatch(j, i) \/ Begin(j, i) \/ Login(j, i) \/ Succeed(j, i)
             \/ StepSent(j, i) \/ \E s \in Stream : SendStep(j, i, s)
      PROVE  WorkerMove(j, i) \/ RowUpdate(j, i)
  BY <1>2 DEF WorkerMove, RowUpdate, Login
<1>3. ASSUME NEW j \in Job, RunnerStep(j)
      PROVE  \/ RunnerMove \/ Finish(j)
             \/ \E i \in Row : WorkerMove(j, i) \/ RowUpdate(j, i)
  <2>1. CASE DoneSent(j) \/ FinishSnapshot(j) \/ \E s \in Stream : SendDone(j, s)
    <3>1. JobMove(j) BY <2>1 DEF JobMove
    <3>2. QED BY <3>1 DEF RunnerMove
  <2>2. ASSUME NEW i \in Row,
               \/ Dispatch(j, i) \/ Begin(j, i) \/ Login(j, i) \/ Succeed(j, i)
               \/ StepSent(j, i) \/ \E s \in Stream : SendStep(j, i, s)
        PROVE  \E m \in Row : WorkerMove(j, m) \/ RowUpdate(j, m)
    BY <1>2, <2>2
  <2>3. QED BY <1>3, <2>1, <2>2 DEF RunnerStep
<1>4. CASE SaveStep \/ Delete \/ DeleteStep
  BY <1>4 DEF SaveStep, DeleteStep, QuietStep, RunnerMove
<1>5. CASE \E s \in Stream : Subscribe(s) \/ StreamStep(s) \/ Disconnect(s)
  BY <1>5 DEF QuietStep
<1>6. CASE UNCHANGED vars BY <1>6 DEF QuietStep
<1>7. CASE Next
  <2>1. \/ \E j \in Job : HandlerStep(j) \/ RunnerStep(j)
        \/ \E s \in Stream : Subscribe(s) \/ StreamStep(s) \/ Disconnect(s)
        \/ SaveStep \/ Delete \/ DeleteStep
        \/ Restart
    BY <1>7 DEF Next
  <2>2. QED BY <1>1, <1>3, <1>4, <1>5, <2>1
<1>8. QED BY <1>6, <1>7

\* No row of a new job is done.
LEMMA NewJobHonest ==
  ASSUME NEW j \in Job, NEW rows
  PROVE  /\ Honest(NewJob(j, rows)) /\ NewJob(j, rows).state = "running"
         /\ WithStatus(NewJob(j, rows).steps, {"ok"}) = {}
<1>1. WithStatus(StepsOf(rows), {"ok"}) = {} /\ WithStatus(StepsOf(rows), {"fail"}) = {}
  BY DEF WithStatus, StepsOf
<1>2. Cardinality({}) = 0 BY FS_EmptySet
<1>3. QED BY <1>1, <1>2, NewJobType DEF Honest, Counted

\* Nobody starts or ends a job behind the back of its rows.
LEMMA RowsFrame ==
  ASSUME Struct, RowsOK, \A n \in DOMAIN jobs' : \E m \in DOMAIN jobs : jobs'[n] = jobs[m],
         Entries' \subseteq Entries,
         \A j \in Job \ Fresh :
           \/ run'[j] = run[j] /\ \A i \in Row : work'[j][i] = work[j][i]
           \/ run'[j].pc = "over"
           \/ run[j].pc \in {"send", "save", "saving"} /\ run'[j].pc \in {"send", "save", "saving"}
  PROVE  RowsOK'
<1>1. ASSUME NEW n \in DOMAIN jobs'
      PROVE  Progress(jobs'[n], run'[jobs'[n].id], work'[jobs'[n].id])
  <2>1. PICK m \in DOMAIN jobs : jobs'[n] = jobs[m] BY <1>1
  <2>2. Progress(jobs[m], run[jobs[m].id], work[jobs[m].id]) BY DEF RowsOK
  <2>3. jobs[m].id \in Job \ Fresh BY EntryTypes
  <2> DEFINE j == jobs[m].id
  <2>4. CASE run'[j] = run[j] /\ \A i \in Row : work'[j][i] = work[j][i]
    BY <2>1, <2>2, <2>4 DEF Progress
  <2>5. CASE run'[j].pc = "over" BY <2>1, <2>5 DEF Progress
  <2>6. CASE run[j].pc \in {"send", "save", "saving"} /\ run'[j].pc \in {"send", "save", "saving"}
    BY <2>1, <2>2, <2>6 DEF Progress
  <2>7. QED BY <2>3, <2>4, <2>5, <2>6
<1>2. \A job \in Entries' : Honest(job) BY DEF RowsOK
<1>3. QED BY <1>1, <1>2 DEF RowsOK

\* No job, no row.
LEMMA RowsInit == Init => RowsOK
<1>1. DOMAIN <<>> = {} BY EmptySeq
<1>2. QED BY <1>1 DEF Init, RowsOK, Entries, JobsIn, NoSave

\* A new job: its rows wait, as its runner says.
LEMMA RowsCreate ==
  ASSUME Struct, RowsOK, NEW j \in Job, Creation(j)
  PROVE  RowsOK'
<1>1. PICK rows \in SUBSET Row :
        /\ run'[j].pc = "created" /\ run'[j].rows = rows
        /\ \A n \in DOMAIN jobs' :
             jobs'[n] = NewJob(j, rows) \/ \E m \in DOMAIN jobs : jobs'[n] = jobs[m]
        /\ Entries' \subseteq Entries \cup {NewJob(j, rows)}
  BY Creates
<1>2. j \in Fresh /\ work' = work /\ \A k \in Job \ {j} : run'[k] = run[k] BY Creates
<1>3. \A job \in Entries' : Honest(job) BY <1>1, NewJobHonest DEF RowsOK
<1>4. ASSUME NEW n \in DOMAIN jobs'
      PROVE  Progress(jobs'[n], run'[jobs'[n].id], work'[jobs'[n].id])
  <2>1. CASE jobs'[n] = NewJob(j, rows)
    BY <1>1, <2>1, NewJobType DEF Progress
  <2>2. CASE \E m \in DOMAIN jobs : jobs'[n] = jobs[m]
    <3>1. PICK m \in DOMAIN jobs : jobs'[n] = jobs[m] BY <2>2
    <3>2. jobs[m].id \in Job \ Fresh BY EntryTypes
    <3>3. run'[jobs[m].id] = run[jobs[m].id] BY <1>2, <3>2
    <3>4. Progress(jobs[m], run[jobs[m].id], work[jobs[m].id]) BY DEF RowsOK
    <3>5. QED BY <1>2, <3>1, <3>3, <3>4 DEF Progress
  <2>3. QED BY <1>1, <2>1, <2>2
<1>5. QED BY <1>3, <1>4 DEF RowsOK

\* The workers take over the rows as they are.
LEMMA RowsSaveInputs ==
  ASSUME Struct, RowsOK, NEW j \in Job, SaveInputs(j)
  PROVE  RowsOK'
<1>1. /\ run[j].pc = "created" /\ run'[j] = [NoRun EXCEPT !.pc = "running"]
      /\ \A k \in Job \ {j} : run'[k] = run[k] /\ work'[k] = work[k]
      /\ \A i \in Row : work'[j][i] = [pc |-> IF i \in run[j].rows THEN "todo" ELSE "none",
                                       status |-> "absent", to |-> {}]
  BY SaveInputsEffect
<1>2. run'[j].pc = "running" BY <1>1, NoRunType DEF RunRec
<1>3. UNCHANGED <<jobs, save, file>> BY DEF SaveInputs, storeVars
<1>4. Entries' = Entries BY <1>3 DEF Entries
<1>5. ASSUME NEW n \in DOMAIN jobs
      PROVE  Progress(jobs[n], run'[jobs[n].id], work'[jobs[n].id])
  <2>1. Progress(jobs[n], run[jobs[n].id], work[jobs[n].id]) /\ jobs[n].id \in Job BY EntryTypes DEF RowsOK
  <2>2. CASE jobs[n].id = j
    <3>1. jobs[n].steps = StepsOf(run[j].rows) /\ jobs[n].state = "running"
      BY <1>1, <2>1, <2>2 DEF Progress
    <3>2. ASSUME NEW i \in Row PROVE RowMatches(jobs[n].steps[i], work'[j][i])
      <4>1. CASE i \in run[j].rows
        <5>1. jobs[n].steps[i] = "pending" BY <3>1, <4>1 DEF StepsOf
        <5>2. work'[j][i] = [pc |-> "todo", status |-> "absent", to |-> {}]
          BY <1>1, <4>1
        <5>3. QED BY <5>1, <5>2 DEF RowMatches
      <4>2. CASE i \notin run[j].rows
        <5>1. jobs[n].steps[i] = "absent" BY <3>1, <4>2 DEF StepsOf
        <5>2. work'[j][i] = [pc |-> "none", status |-> "absent", to |-> {}]
          BY <1>1, <4>2
        <5>3. QED BY <5>1, <5>2 DEF RowMatches
      <4>3. QED BY <4>1, <4>2
    <3>3. QED BY <1>2, <1>3, <2>2, <3>1, <3>2 DEF Progress
  <2>3. CASE jobs[n].id # j
    <3>1. run'[jobs[n].id] = run[jobs[n].id] /\ work'[jobs[n].id] = work[jobs[n].id]
      BY <1>1, <2>1, <2>3
    <3>2. QED BY <1>3, <2>1, <3>1 DEF Progress
  <2>4. QED BY <2>2, <2>3
<1>6. QED BY <1>3, <1>4, <1>5 DEF RowsOK

\* A worker moves and its row stays.
LEMMA RowsWorker ==
  ASSUME Struct, RowsOK, NEW j \in Job, NEW i \in Row, WorkerMove(j, i)
  PROVE  RowsOK'
<1>1. /\ UNCHANGED <<jobs, run, save, file>> /\ run[j].pc = "running"
      /\ \A k \in Job, m \in Row : k # j \/ m # i => work'[k][m] = work[k][m]
  BY WorkerMoves
<1>2. Entries' = Entries BY <1>1 DEF Entries
<1>3. ASSUME NEW status, RowMatches(status, work[j][i]) PROVE RowMatches(status, work'[j][i])
  <2>1. work[j][i].pc = "send" => work[j][i].status \in {"running", "ok", "fail"}
    BY DEF Struct, Links, WorkLinks
  <2>2. \/ work[j][i].pc = "todo" /\ work'[j][i].pc = "start"
        \/ work[j][i].pc = "login" /\ work'[j][i].pc = "written"
        \/ work[j][i].pc = "send" /\ work'[j][i] = Skipped(work[j][i].status)
        \/ /\ work[j][i].pc = "send" /\ work'[j][i].pc = "send"
           /\ work'[j][i].status = work[j][i].status
    BY WorkerMoves
  <2>3. QED BY <1>3, <2>1, <2>2 DEF RowMatches, Skipped, Terminal
<1>4. ASSUME NEW n \in DOMAIN jobs
      PROVE  Progress(jobs[n], run'[jobs[n].id], work'[jobs[n].id])
  <2>1. Progress(jobs[n], run[jobs[n].id], work[jobs[n].id]) /\ jobs[n].id \in Job BY EntryTypes DEF RowsOK
  <2>2. run[jobs[n].id].pc = "running" =>
          \A m \in Row : RowMatches(jobs[n].steps[m], work'[jobs[n].id][m])
    BY <1>1, <1>3, <2>1 DEF Progress
  <2>3. QED BY <1>1, <2>1, <2>2 DEF Progress
<1>5. QED BY <1>1, <1>2, <1>4 DEF RowsOK

\* A worker and its row move together.
LEMMA RowsUpdate ==
  ASSUME Struct, RowsOK, NEW j \in Job, NEW i \in Row, RowUpdate(j, i)
  PROVE  RowsOK'
<1>1. /\ UNCHANGED run /\ run[j].pc = "running" BY RowUpdates
<1>2. PICK status \in {"running", "ok", "fail"} :
        /\ \A k \in Job, m \in Row : k # j \/ m # i => work'[k][m] = work[k][m]
        /\ \/ /\ Known(j) /\ work'[j][i] = Sending(j, status)
              /\ Find(jobs, j) \in DOMAIN jobs /\ jobs[Find(jobs, j)].id = j
              /\ jobs[Find(jobs, j)] \in JobRecord
              /\ DOMAIN jobs' = DOMAIN jobs
              /\ jobs'[Find(jobs, j)] = Updated(jobs[Find(jobs, j)], i, status)
              /\ \A m \in DOMAIN jobs : jobs[m].id # j => jobs'[m] = jobs[m]
              /\ \A m \in DOMAIN jobs : jobs[m].id = j => m = Find(jobs, j)
              /\ Entries' \subseteq Entries \cup {Updated(jobs[Find(jobs, j)], i, status)}
           \/ /\ ~Known(j) /\ work'[j][i] = Skipped(status)
              /\ jobs' = jobs /\ Entries' \subseteq Entries
  BY RowUpdates
<1>3. ASSUME NEW n \in DOMAIN jobs, jobs[n].id # j, jobs'[n] = jobs[n]
      PROVE  Progress(jobs'[n], run'[jobs'[n].id], work'[jobs'[n].id])
  <2>1. Progress(jobs[n], run[jobs[n].id], work[jobs[n].id]) /\ jobs[n].id \in Job BY EntryTypes DEF RowsOK
  <2>2. \A m \in Row : work'[jobs[n].id][m] = work[jobs[n].id][m] BY <1>2, <1>3, <2>1
  <2>3. QED BY <1>1, <1>3, <2>1, <2>2 DEF Progress
<1>4. CASE ~Known(j)
  <2>1. \A n \in DOMAIN jobs : jobs[n].id # j BY <1>4 DEF Known, Ids
  <2>2. jobs' = jobs /\ Entries' \subseteq Entries BY <1>2, <1>4
  <2>3. QED BY <1>3, <2>1, <2>2 DEF RowsOK
<1>5. CASE Known(j)
  <2> DEFINE n == Find(jobs, j)
             job == Updated(jobs[n], i, status)
             steps == [jobs[n].steps EXCEPT ![i] = status]
  <2>1. /\ work'[j][i] = Sending(j, status) /\ n \in DOMAIN jobs /\ jobs[n].id = j
        /\ jobs[n] \in JobRecord /\ DOMAIN jobs' = DOMAIN jobs /\ jobs'[n] = job
        /\ \A m \in DOMAIN jobs : jobs[m].id # j => jobs'[m] = jobs[m]
        /\ \A m \in DOMAIN jobs : jobs[m].id = j => m = n
        /\ Entries' \subseteq Entries \cup {job}
    BY <1>2, <1>5
  <2>2. status \in Status BY DEF Status
  <2>3. /\ job \in JobRecord /\ job.id = j /\ job.state = jobs[n].state /\ job.steps = steps
        /\ job.ok = Cardinality(WithStatus(steps, {"ok"}))
        /\ job.fail = Cardinality(WithStatus(steps, {"fail"}))
    BY <2>1, <2>2, UpdatedType
  <2>4. Progress(jobs[n], run[jobs[n].id], work[jobs[n].id]) BY <2>1 DEF RowsOK
  <2>5. jobs[n].state = "running" BY <1>1, <2>1, <2>4 DEF Progress
  <2>6. \A m \in Row : steps[m] = IF m = i THEN status ELSE jobs[n].steps[m]
    BY <2>1 DEF JobRecord, Steps
  <2> HIDE DEF n, job, steps
  <2>7. Honest(job) BY <2>3, <2>5 DEF Honest, Counted
  <2>8. ASSUME NEW m \in Row PROVE RowMatches(steps[m], work'[j][m])
    <3>1. CASE m = i BY <2>1, <2>6, <3>1 DEF RowMatches, Sending
    <3>2. CASE m # i
      <4>1. RowMatches(jobs[n].steps[m], work[j][m]) BY <1>1, <2>1, <2>4 DEF Progress
      <4>2. steps[m] = jobs[n].steps[m] /\ work'[j][m] = work[j][m] BY <1>2, <2>6, <3>2
      <4>3. QED BY <4>1, <4>2
    <3>3. QED BY <3>1, <3>2
  <2>9. Progress(job, run'[j], work'[j]) BY <1>1, <2>3, <2>5, <2>8 DEF Progress
  <2>10. ASSUME NEW m \in DOMAIN jobs
        PROVE  Progress(jobs'[m], run'[jobs'[m].id], work'[jobs'[m].id])
    <3>1. CASE jobs[m].id = j
      <4>1. jobs'[m] = job BY <2>1, <3>1
      <4>2. jobs'[m].id = j BY <2>3, <4>1
      <4>3. QED BY <2>9, <4>1, <4>2
    <3>2. CASE jobs[m].id # j BY <1>3, <2>1, <3>2
    <3>3. QED BY <3>1, <3>2
  <2>11. \A e \in Entries' : Honest(e) BY <2>1, <2>7 DEF RowsOK
  <2>12. QED BY <2>1, <2>10, <2>11 DEF RowsOK
<1>6. QED BY <1>4, <1>5

\* No worker is left, so no row is.
LEMMA RowsFinish ==
  ASSUME Struct, RowsOK, NEW j \in Job, Finish(j)
  PROVE  RowsOK'
<1>1. /\ work' = work /\ run[j].pc = "running"
      /\ \A i \in Row : work[j][i].pc \in {"none", "over"}
      /\ \A k \in Job \ {j} : run'[k] = run[k]
  BY Finishes
<1>2. \A n \in DOMAIN jobs : /\ Progress(jobs[n], run[jobs[n].id], work[jobs[n].id])
                             /\ jobs[n].id \in Job
  BY EntryTypes DEF RowsOK
<1>3. \A n \in DOMAIN jobs : jobs[n].id = j =>
        /\ jobs[n].state = "running"
        /\ \A i \in Row : RowMatches(jobs[n].steps[i], work[j][i])
  BY <1>1, <1>2 DEF Progress
<1>4. \A n \in DOMAIN jobs : jobs[n].id # j =>
        Progress(jobs[n], run'[jobs[n].id], work'[jobs[n].id])
  BY <1>1, <1>2
<1>5. CASE /\ jobs' = jobs /\ Entries' \subseteq Entries
           /\ Known(j) => \E n \in DOMAIN jobs : jobs[n].id = j /\ jobs[n].state # "running"
  <2>1. \A n \in DOMAIN jobs : jobs[n].id # j BY <1>3, <1>5 DEF Known, Ids
  <2>2. QED BY <1>4, <1>5, <2>1 DEF RowsOK
<1>6. ASSUME NEW n \in DOMAIN jobs,
             /\ jobs[n].id = j /\ jobs[n] \in JobRecord
             /\ DOMAIN jobs' = DOMAIN jobs
             /\ jobs'[n] = [jobs[n] EXCEPT !.state = "done"]
             /\ \A m \in DOMAIN jobs : jobs[m].id # j => jobs'[m] = jobs[m]
             /\ \A m \in DOMAIN jobs : jobs[m].id = j => m = n
             /\ Entries' \subseteq Entries \cup {[jobs[n] EXCEPT !.state = "done"]}
             /\ run'[j].pc = "send"
      PROVE  RowsOK'
  <2> DEFINE job == [jobs[n] EXCEPT !.state = "done"]
  <2>1. /\ job.id = j /\ job.state = "done" /\ job.steps = jobs[n].steps
        /\ job.ok = jobs[n].ok /\ job.fail = jobs[n].fail
    BY <1>6 DEF JobRecord
  <2> HIDE DEF job
  <2>2. Complete(job.steps)
    <3>1. \A i \in Row : job.steps[i] = "absent" \/ job.steps[i] \in Terminal
      BY <1>1, <1>3, <1>6, <2>1 DEF RowMatches
    <3>2. QED BY <3>1 DEF Complete, WithStatus, Terminal
  <2>3. Honest(jobs[n]) BY EntryTypes DEF RowsOK
  <2>4. Honest(job) BY <2>1, <2>2, <2>3 DEF Honest, Counted
  <2>5. \A e \in Entries' : Honest(e) BY <1>6, <2>4 DEF RowsOK, job
  <2>6. Progress(job, run'[j], work'[j]) BY <1>6, <2>1 DEF Progress
  <2>7. ASSUME NEW m \in DOMAIN jobs
        PROVE  Progress(jobs'[m], run'[jobs'[m].id], work'[jobs'[m].id])
    <3>1. CASE jobs[m].id = j
      <4>1. jobs'[m] = job BY <1>6, <3>1 DEF job
      <4>2. jobs'[m].id = j BY <2>1, <4>1
      <4>3. QED BY <2>6, <4>1, <4>2
    <3>2. CASE jobs[m].id # j
      <4>1. jobs'[m] = jobs[m] BY <1>6, <3>2
      <4>2. QED BY <1>4, <3>2, <4>1
    <3>3. QED BY <3>1, <3>2
  <2>8. QED BY <1>6, <2>5, <2>7 DEF RowsOK
<1>7. \/ /\ jobs' = jobs /\ Entries' \subseteq Entries
         /\ Known(j) => \E n \in DOMAIN jobs : jobs[n].id = j /\ jobs[n].state # "running"
      \/ \E n \in DOMAIN jobs :
           /\ jobs[n].id = j /\ jobs[n] \in JobRecord
           /\ DOMAIN jobs' = DOMAIN jobs
           /\ jobs'[n] = [jobs[n] EXCEPT !.state = "done"]
           /\ \A m \in DOMAIN jobs : jobs[m].id # j => jobs'[m] = jobs[m]
           /\ \A m \in DOMAIN jobs : jobs[m].id = j => m = n
           /\ Entries' \subseteq Entries \cup {[jobs[n] EXCEPT !.state = "done"]}
           /\ run'[j].pc = "send"
  BY Finishes
<1>8. QED BY <1>5, <1>6, <1>7

\* RowsOK is inductive relative to Struct.
LEMMA RowsNext == Struct /\ RowsOK /\ [Next]_vars => RowsOK'
<1> SUFFICES ASSUME Struct, RowsOK, [Next]_vars PROVE RowsOK'
  OBVIOUS
<1>1. CASE QuietStep BY <1>1, QuietEffect, RowsFrame
<1>2. CASE RunnerMove
  <2>1. UNCHANGED <<jobs, work>> /\ Entries' \subseteq Entries BY <1>2, RunnerMoves
  <2>2. \A j \in Job \ Fresh :
           \/ run'[j] = run[j]
           \/ run'[j].pc = "over"
           \/ run[j].pc \in {"send", "save", "saving"} /\ run'[j].pc \in {"send", "save", "saving"}
    BY <1>2, RunnerMoves
  <2>3. QED BY <2>1, <2>2, RowsFrame
<1>3. CASE \E j \in Job, i \in Row : WorkerMove(j, i) \/ RowUpdate(j, i)
  BY <1>3, RowsWorker, RowsUpdate
<1>4. CASE \E j \in Job : Creation(j) \/ SaveInputs(j) \/ Finish(j)
  BY <1>4, RowsCreate, RowsSaveInputs, RowsFinish
<1>5. CASE Delete
  <2>1. Part(jobs', jobs) BY <1>5, DeleteEffect
  <2>2. UNCHANGED <<run, work, save, file>> BY <1>5 DEF Delete, storeVars
  <2>3. Entries' \subseteq Entries BY <2>1, <2>2 DEF Entries, JobsIn, Part
  <2>4. QED BY <2>1, <2>2, <2>3, RowsFrame DEF Part
<1>6. CASE Restart
  <2>1. jobs' = file /\ file' = file /\ save'.snap = <<>> BY <1>6, RestartEffect, NoSaveType
  <2>2. Entries' \subseteq Entries BY <2>1, EntriesStay
  <2>3. ASSUME NEW n \in DOMAIN jobs'
        PROVE  Progress(jobs'[n], run'[jobs'[n].id], work'[jobs'[n].id])
    <3>1. jobs'[n].id \in Job \ Fresh BY <2>1, EntryTypes DEF Entries, JobsIn
    <3>2. run'[jobs'[n].id].pc = "over" BY <1>6, <3>1, RestartEffect
    <3>3. QED BY <3>2 DEF Progress
  <2>4. QED BY <2>2, <2>3 DEF RowsOK
<1>7. QED BY <1>1, <1>2, <1>3, <1>4, <1>5, <1>6, StepKinds

\* The rows of a job in memory are where its workers have brought them, and wherever
\* a job is written down its counters are those of its rows.
THEOREM RowsInv == Spec => [](Struct /\ RowsOK)
<1>1. QED BY StructInit, StructNext, RowsInit, RowsNext, PTL DEF Spec

\* A job that is done, in memory, on disk or in a save under way, has no row left
\* to do, and its counters are those of its rows.
THEOREM DoneJobsAreComplete == Spec => []DoneIsComplete
<1>1. RowsOK => DoneIsComplete
  BY DEF RowsOK, Entries, JobsIn, Honest, Counted, Complete, DoneIsComplete
<1>2. QED BY <1>1, RowsInv, PTL

-----------------------------------------------------------------------------
(* What a step does to a stream.                                           *)

EventsIn(ch) == {ch[k] : k \in DOMAIN ch}

\* The client goes away, or only the subscription is touched.
Leaves(x, y) ==
  /\ y.job = x.job /\ y.view = x.view /\ y.snap = x.snap /\ y.done = x.done
  /\ \/ y.pc = x.pc /\ y.ch = x.ch
     \/ y.pc \in {"cancel", "over"} /\ y.ch \in {x.ch, <<>>}

\* The stream subscribes to a job in memory.
Begins(x, y) ==
  /\ x.pc = "idle" /\ y.pc = "snapshot" /\ y.ch = <<>> /\ y.view = StepsOf({}) /\ ~y.done
  /\ \E n \in DOMAIN jobs : /\ y.job = jobs[n].id /\ y.snap.state = jobs[n].state
                            /\ y.snap.steps = jobs[n].steps

\* The snapshot goes to the client.
Shows(x, y) ==
  /\ x.pc = "snapshot" /\ y.job = x.job /\ y.ch = x.ch /\ y.snap = NoStream.snap
  /\ y.view = x.snap.steps
  /\ \/ x.snap.state = "done" /\ y.done /\ y.pc = "cancel"
     \/ x.snap.state # "done" /\ ~y.done /\ y.pc = "events"

\* An event goes to the client.
Takes(x, y) ==
  /\ x.pc = "events" /\ y.job = x.job /\ y.snap = x.snap
  /\ x.ch # <<>> /\ Head(x.ch) \in Event /\ y.ch = Tail(x.ch)
  /\ \/ /\ Head(x.ch).kind = "step" /\ y.pc = "events" /\ ~y.done
        /\ y.view = [x.view EXCEPT ![Head(x.ch).row] = Head(x.ch).status]
     \/ /\ Head(x.ch).kind = "done" /\ y.pc = "cancel" /\ y.done
        /\ y.view = Head(x.ch).steps

\* A broadcast reaches the channel.
Hears(x, y, event) == y = [x EXCEPT !.ch = Append(@, event)]

\* The events of a channel after an Append and a Tail.
LEMMA ChannelEvents ==
  ASSUME NEW ch \in Seq(Event)
  PROVE  /\ \A event \in Event : EventsIn(Append(ch, event)) = EventsIn(ch) \cup {event}
         /\ ch # <<>> => Head(ch) \in EventsIn(ch) /\ EventsIn(Tail(ch)) \subseteq EventsIn(ch)
         /\ EventsIn(<<>>) = {} /\ EventsIn(ch) \subseteq Event
<1>1. Len(ch) \in Nat /\ DOMAIN ch = 1 .. Len(ch) /\ \A k \in 1 .. Len(ch) : ch[k] \in Event
  BY LenProperties, ElementOfSeq
<1>2. ASSUME NEW event \in Event PROVE EventsIn(Append(ch, event)) = EventsIn(ch) \cup {event}
  <2> DEFINE new == Append(ch, event)
  <2>1. /\ new \in Seq(Event) /\ Len(new) = Len(ch) + 1
        /\ \A k \in 1 .. Len(ch) : new[k] = ch[k]
        /\ new[Len(ch) + 1] = event
    BY AppendProperties
  <2>2. DOMAIN new = 1 .. Len(ch) + 1 BY <2>1, LenProperties
  <2>3. \A k \in 1 .. Len(ch) + 1 : k \in 1 .. Len(ch) \/ k = Len(ch) + 1 BY <1>1
  <2>4. 1 .. Len(ch) \subseteq 1 .. Len(ch) + 1 /\ Len(ch) + 1 \in 1 .. Len(ch) + 1 BY <1>1
  <2> HIDE DEF new
  <2>5. EventsIn(new) = EventsIn(ch) \cup {event}
    BY <1>1, <2>1, <2>2, <2>3, <2>4 DEF EventsIn
  <2>6. QED BY <2>5 DEF new
<1>3. ASSUME ch # <<>>
      PROVE  Head(ch) \in EventsIn(ch) /\ EventsIn(Tail(ch)) \subseteq EventsIn(ch)
  <2>1. /\ Len(ch) \in 1 .. Len(ch) /\ 1 \in DOMAIN ch
    BY <1>1, <1>3, EmptySeq
  <2>2. /\ Head(ch) = ch[1] /\ Tail(ch) \in Seq(Event) /\ Len(Tail(ch)) = Len(ch) - 1
        /\ \A k \in 1 .. Len(Tail(ch)) : Tail(ch)[k] = ch[k + 1]
    BY <1>3, HeadTailProperties
  <2>3. DOMAIN Tail(ch) = 1 .. Len(Tail(ch)) BY <2>2, LenProperties
  <2>4. \A k \in 1 .. Len(ch) - 1 : k + 1 \in 1 .. Len(ch) BY <1>1
  <2>5. \A k \in DOMAIN Tail(ch) : \E l \in DOMAIN ch : Tail(ch)[k] = ch[l]
    BY <1>1, <2>2, <2>3, <2>4
  <2>6. QED BY <2>1, <2>2, <2>5 DEF EventsIn
<1>4. DOMAIN <<>> = {} BY EmptySeq
<1>5. QED BY <1>1, <1>2, <1>3, <1>4 DEF EventsIn

\* Every step does one of these to a stream.
LEMMA StreamKinds ==
  ASSUME Struct, [Next]_vars, NEW s \in Stream
  PROVE  \/ Leaves(stream[s], stream'[s])
         \/ QuietStep /\ Begins(stream[s], stream'[s])
         \/ QuietStep /\ Shows(stream[s], stream'[s])
         \/ QuietStep /\ Takes(stream[s], stream'[s])
         \/ \E j \in Job, i \in Row :
              /\ WorkerMove(j, i) /\ work[j][i].pc = "send" /\ work'[j][i].pc = "send"
              /\ work'[j][i].status = work[j][i].status
              /\ stream[s].job = j /\ run[j].pc = "running"
              /\ Hears(stream[s], stream'[s], StepEvent(i, work[j][i].status))
         \/ \E j \in Job :
              /\ JobMove(j) /\ run[j].pc = "send" /\ run'[j].pc = "send"
              /\ run'[j].steps = run[j].steps
              /\ stream[s].job = j
              /\ Hears(stream[s], stream'[s], DoneEvent(run[j].steps))
<1>1. stream \in [Stream -> StreamRec] /\ stream[s] \in StreamRec
  BY DEF Struct, Types, StreamType
<1>2. CASE stream'[s] = stream[s] BY <1>2 DEF Leaves
<1>3. ASSUME NEW q \in Stream, Subscribe(q)
      PROVE  \/ stream'[s] = stream[s]
             \/ QuietStep /\ Begins(stream[s], stream'[s])
  <2>1. PICK n \in DOMAIN jobs :
          stream' = [stream EXCEPT ![q] =
                    [NoStream EXCEPT !.pc = "snapshot", !.job = jobs[n].id,
                       !.attached = TRUE,
                       !.snap = [state |-> jobs[n].state, steps |-> jobs[n].steps]]]
    BY <1>3 DEF Subscribe
  <2>2. CASE s = q
    <3>1. stream'[s] = [NoStream EXCEPT !.pc = "snapshot", !.job = jobs[n].id,
                       !.attached = TRUE,
                       !.snap = [state |-> jobs[n].state, steps |-> jobs[n].steps]]
      BY <1>1, <2>1, <2>2
    <3>2. /\ stream'[s].pc = "snapshot" /\ stream'[s].job = jobs[n].id
          /\ stream'[s].snap.state = jobs[n].state /\ stream'[s].snap.steps = jobs[n].steps
          /\ stream'[s].view = StepsOf({}) /\ ~stream'[s].done /\ stream'[s].ch = <<>>
      BY <3>1 DEF NoStream
    <3>3. stream[s].pc = "idle" BY <1>3, <2>2 DEF Subscribe
    <3>4. Begins(stream[s], stream'[s]) BY <3>2, <3>3 DEF Begins
    <3>5. QED BY <1>3, <3>4 DEF QuietStep
  <2>3. CASE s # q
    <3>1. stream'[s] = stream[s] BY <1>1, <2>1, <2>3
    <3>2. QED BY <3>1
  <2>4. QED BY <2>2, <2>3
<1>4. ASSUME NEW q \in Stream, SendSnapshot(q)
      PROVE  \/ stream'[s] = stream[s]
             \/ QuietStep /\ Shows(stream[s], stream'[s])
  <2> DEFINE snap == stream[q].snap
             done == (snap.state = "done")
             pc == IF snap.state = "done" THEN "cancel" ELSE "events"
  <2>1. stream' = [stream EXCEPT ![q].view = snap.steps, ![q].done = done,
                                 ![q].snap = NoStream.snap, ![q].pc = pc]
        /\ stream[q].pc = "snapshot"
    BY <1>4 DEF SendSnapshot
  <2>2. CASE s = q
    <3>1. stream[s].pc = "snapshot" BY <2>1, <2>2
    <3>2. \/ snap.state = "done" /\ done /\ pc = "cancel"
          \/ snap.state # "done" /\ ~done /\ pc = "events"
      OBVIOUS
    <3> HIDE DEF done, pc
    <3>3. /\ stream'[s].view = snap.steps /\ stream'[s].done = done
          /\ stream'[s].snap = NoStream.snap /\ stream'[s].pc = pc
          /\ stream'[s].job = stream[s].job /\ stream'[s].ch = stream[s].ch
      BY <1>1, <2>1, <2>2 DEF StreamRec
    <3>4. Shows(stream[s], stream'[s]) BY <2>2, <3>1, <3>2, <3>3 DEF Shows
    <3>5. QED BY <1>4, <3>4 DEF QuietStep, StreamStep
  <2>3. CASE s # q
    <3>1. stream'[s] = stream[s] BY <1>1, <2>1, <2>3
    <3>2. QED BY <3>1
  <2>4. QED BY <2>2, <2>3
<1>5. ASSUME NEW q \in Stream, Receive(q)
      PROVE  \/ Leaves(stream[s], stream'[s])
             \/ QuietStep /\ Takes(stream[s], stream'[s])
  <2>1. PICK x : Received(q, x) /\ stream' = [stream EXCEPT ![q] = x] BY <1>5, ReceivedStep
  <2>2. CASE s = q
    <3>1. stream'[s] = x BY <1>1, <2>1, <2>2
    <3>2. x.job = stream[s].job /\ x.snap = stream[s].snap BY <2>1, <2>2, ReceivedRecord
    <3>3. \/ /\ stream[s].ch # <<>> /\ Head(stream[s].ch) \in Event
             /\ x.ch = Tail(stream[s].ch)
             /\ \/ /\ Head(stream[s].ch).kind = "step" /\ x.pc = "events" /\ ~x.done
                   /\ x.view = [stream[s].view EXCEPT ![Head(stream[s].ch).row]
                                                      = Head(stream[s].ch).status]
                \/ /\ Head(stream[s].ch).kind = "done" /\ x.pc = "cancel" /\ x.done
                   /\ x.view = Head(stream[s].ch).steps
          \/ /\ x.ch = <<>> /\ x.view = stream[s].view /\ x.pc = "cancel"
             /\ x.done = stream[s].done
      BY <2>1, <2>2, ReceivedRecord
    <3>4. stream[s].pc = "events" BY <1>5, <2>2 DEF Receive
    <3>5. Leaves(stream[s], x) \/ Takes(stream[s], x)
      BY <3>2, <3>3, <3>4 DEF Leaves, Takes
    <3>6. QED BY <1>5, <3>1, <3>5 DEF QuietStep, StreamStep
  <2>3. CASE s # q BY <1>1, <2>1, <2>3 DEF Leaves
  <2>4. QED BY <2>2, <2>3
<1>6. ASSUME NEW q \in Stream, Disconnect(q) \/ Cancel(q)
      PROVE  Leaves(stream[s], stream'[s])
  <2>1. CASE Disconnect(q) BY <1>1, <2>1 DEF Disconnect, Leaves, StreamRec
  <2>2. CASE Cancel(q)
    <3>1. stream' = [stream EXCEPT ![q].pc = "over", ![q].attached = FALSE,
                       ![q].closed = @ \/ stream[q].attached, ![q].ch = <<>>]
      BY <2>2 DEF Cancel
    <3>2. CASE s = q
      <4>1. /\ stream'[s].pc = "over" /\ stream'[s].ch = <<>>
            /\ stream'[s].job = stream[s].job /\ stream'[s].view = stream[s].view
            /\ stream'[s].snap = stream[s].snap /\ stream'[s].done = stream[s].done
        BY <1>1, <3>1, <3>2 DEF StreamRec
      <4>2. QED BY <4>1 DEF Leaves
    <3>3. CASE s # q BY <1>1, <3>1, <3>3 DEF Leaves
    <3>4. QED BY <3>2, <3>3
  <2>3. QED BY <1>6, <2>1, <2>2
<1>7. CASE QuietStep
  <2>1. CASE LoopSnapshot \/ DeleteSnapshot \/ DeleteSidecar \/ UNCHANGED vars
    <3>1. stream' = stream BY <2>1 DEF LoopSnapshot, DeleteSnapshot, DeleteSidecar, vars
    <3>2. QED BY <1>2, <3>1
  <2>2. CASE DeleteClose
    <3>1. \/ stream'[s] = stream[s] \/ stream'[s] = [stream[s] EXCEPT !.closed = TRUE]
      BY <2>2, CloseEffect
    <3>2. QED BY <1>1, <1>2, <3>1 DEF Leaves, StreamRec
  <2>3. QED BY <1>2, <1>3, <1>4, <1>5, <1>6, <1>7, <2>1, <2>2 DEF QuietStep, StreamStep
<1>8. CASE RunnerMove
  <2>1. CASE \E j \in Job, q \in Stream : SendDone(j, q)
    <3>1. PICK j \in Job, q \in Stream : SendDone(j, q) BY <2>1
    <3>2. /\ run[j].pc = "send" /\ stream[q].job = j /\ run[j] \in RunRec
          /\ DoneEvent(run[j].steps) \in Event /\ Send(q, DoneEvent(run[j].steps))
          /\ run'[j] = [run[j] EXCEPT !.to = @ \ {q}]
      BY <3>1, SendDoneEffect
    <3>3. \/ stream'[s] = stream[s]
          \/ s = q /\ stream'[s] = [stream[s] EXCEPT !.ch = Append(@, DoneEvent(run[j].steps))]
      BY <3>2, SendEffect
    <3>4. run'[j].pc = "send" /\ run'[j].steps = run[j].steps BY <3>2 DEF RunRec
    <3>5. JobMove(j) BY <3>1 DEF JobMove
    <3>6. QED BY <1>2, <3>2, <3>3, <3>4, <3>5 DEF Hears
  <2>2. CASE ~\E j \in Job, q \in Stream : SendDone(j, q)
    <3>1. stream' = stream
      BY <1>8, <2>2 DEF RunnerMove, JobMove, Retry, DoneSent, FinishSnapshot, RetryCreate, Written
    <3>2. QED BY <1>2, <3>1
  <2>3. QED BY <2>1, <2>2
<1>9. ASSUME NEW j \in Job, NEW i \in Row, WorkerMove(j, i)
      PROVE  \/ stream'[s] = stream[s]
             \/ /\ work[j][i].pc = "send" /\ work'[j][i].pc = "send"
                /\ work'[j][i].status = work[j][i].status
                /\ stream[s].job = j /\ run[j].pc = "running"
                /\ Hears(stream[s], stream'[s], StepEvent(i, work[j][i].status))
  <2>1. CASE \E q \in Stream : SendStep(j, i, q)
    <3>1. PICK q \in Stream : SendStep(j, i, q) BY <2>1
    <3>2. work[j][i] \in WorkRec /\ work[j][i].pc = "send" /\ q \in work[j][i].to
      BY <3>1, TypesOf DEF SendStep
    <3>3. stream[q].job = j /\ run[j].pc = "running"
      BY <3>2 DEF Struct, Links, WorkLinks
    <3>4. StepEvent(i, work[j][i].status) \in Event BY <3>2, EventTypes DEF WorkRec
    <3>5. Send(q, StepEvent(i, work[j][i].status)) BY <3>1 DEF SendStep
    <3>6. \/ stream'[s] = stream[s]
          \/ s = q /\ stream'[s] = [stream[s] EXCEPT !.ch = Append(@, StepEvent(i, work[j][i].status))]
      BY <3>3, <3>4, <3>5, SendEffect
    <3>7. work'[j][i].pc = "send" /\ work'[j][i].status = work[j][i].status
      <4>1. work' = [work EXCEPT ![j][i] = [work[j][i] EXCEPT !.to = @ \ {q}]]
        BY <3>1 DEF SendStep, Struct, Types, WorkType
      <4>2. work'[j][i] = [work[j][i] EXCEPT !.to = @ \ {q}]
        BY <4>1 DEF Struct, Types, WorkType
      <4>3. QED BY <3>2, <4>2 DEF WorkRec
    <3>8. QED BY <3>2, <3>3, <3>6, <3>7 DEF Hears
  <2>2. CASE ~\E q \in Stream : SendStep(j, i, q)
    BY <1>9, <2>2 DEF WorkerMove, Dispatch, StepSent, Login
  <2>3. QED BY <2>1, <2>2
<1>10. ASSUME NEW j \in Job, Creation(j) \/ SaveInputs(j) \/ Finish(j) PROVE stream' = stream
  BY <1>10 DEF Creation, Start, RetryCreate, SaveInputs, Finish
<1>11. ASSUME NEW j \in Job, NEW i \in Row, RowUpdate(j, i) PROVE stream' = stream
  BY <1>11 DEF RowUpdate, Begin, Succeed, Login
<1>12. CASE Delete
  <2>1. stream'[s] = stream[s] \/ stream'[s] = [stream[s] EXCEPT !.attached = FALSE]
    BY <1>12, DeleteEffect
  <2>2. QED BY <1>1, <1>2, <2>1 DEF Leaves, StreamRec
<1>13. CASE Restart
  <2>1. \/ stream'[s] = stream[s]
        \/ /\ stream'[s].pc = "over" /\ stream'[s].ch = <<>> /\ stream'[s].job = stream[s].job
           /\ stream'[s].view = stream[s].view /\ stream'[s].snap = stream[s].snap
           /\ stream'[s].done = stream[s].done
    BY <1>13, RestartEffect
  <2>2. QED BY <1>2, <2>1 DEF Leaves
<1>14. CASE \E j \in Job, i \in Row : WorkerMove(j, i) BY <1>2, <1>9, <1>14
<1>15. CASE \/ \E j \in Job, i \in Row : RowUpdate(j, i)
            \/ \E j \in Job : Creation(j) \/ SaveInputs(j) \/ Finish(j)
  <2>1. stream' = stream BY <1>10, <1>11, <1>15
  <2>2. QED BY <1>2, <2>1
<1>16. QED BY <1>7, <1>8, <1>12, <1>13, <1>14, <1>15, StepKinds

-----------------------------------------------------------------------------
(* Accounts: OkHasAccount.                                                 *)

Within(steps, rows) == WithStatus(steps, {"ok"}) \subseteq rows

EventWithin(e, rows) ==
  IF e.kind = "done" THEN Within(e.steps, rows) ELSE e.status = "ok" => e.row \in rows

StreamWithin(x, rows) ==
  /\ Within(x.view, rows) /\ Within(x.snap.steps, rows)
  /\ \A e \in EventsIn(x.ch) : EventWithin(e, rows)

WorkerWithin(w, i, rows) ==
  w.pc = "written" \/ (w.pc = "send" /\ w.status = "ok") => i \in rows

RunnersBacked ==
  /\ \A job \in Entries : Within(job.steps, accounts)
  /\ \A j \in Job : Within(run[j].steps, accounts)
  /\ \A j \in Job, i \in Row : WorkerWithin(work[j][i], i, accounts)

StreamsBacked == \A s \in Stream : StreamWithin(stream[s], accounts)

\* Wherever a row is said to be ok its account is there, also in what is still on
\* its way to a client.
AccountsOK == RunnersBacked /\ StreamsBacked

\* A row that is not ok needs no account.
LEMMA NothingWithin == ASSUME NEW rows PROVE Within(StepsOf({}), rows)
BY DEF Within, WithStatus, StepsOf

\* More accounts never hurt.
LEMMA MoreWithin ==
  ASSUME NEW rows, NEW more, rows \subseteq more
  PROVE  /\ \A steps : Within(steps, rows) => Within(steps, more)
         /\ \A e : EventWithin(e, rows) => EventWithin(e, more)
         /\ \A x : StreamWithin(x, rows) => StreamWithin(x, more)
         /\ \A w, i : WorkerWithin(w, i, rows) => WorkerWithin(w, i, more)
<1>1. \A steps : Within(steps, rows) => Within(steps, more) BY DEF Within
<1>2. \A e : EventWithin(e, rows) => EventWithin(e, more) BY <1>1 DEF EventWithin
<1>3. \A x : StreamWithin(x, rows) => StreamWithin(x, more) BY <1>1, <1>2 DEF StreamWithin
<1>4. \A w, i : WorkerWithin(w, i, rows) => WorkerWithin(w, i, more) BY DEF WorkerWithin
<1>5. QED BY <1>1, <1>2, <1>3, <1>4

\* Nothing is ok at first.
LEMMA AccountsInit == Init => AccountsOK
<1> SUFFICES ASSUME Init PROVE AccountsOK
  OBVIOUS
<1>1. DOMAIN <<>> = {} BY EmptySeq
<1>2. Entries = {} BY <1>1 DEF Init, Entries, JobsIn, NoSave
<1>3. \A j \in Job : run[j].steps = StepsOf({}) BY NoRunType DEF Init
<1>4. \A j \in Job, i \in Row : work[j][i].pc = "none" BY DEF Init, NoWork
<1>5. \A s \in Stream : /\ stream[s].ch = <<>> /\ stream[s].view = StepsOf({})
                        /\ stream[s].snap.steps = StepsOf({})
  BY DEF Init, NoStream
<1>6. RunnersBacked BY <1>2, <1>3, <1>4, NothingWithin DEF RunnersBacked, WorkerWithin
<1>7. StreamsBacked BY <1>1, <1>5, NothingWithin DEF StreamsBacked, StreamWithin, EventsIn
<1>8. QED BY <1>6, <1>7 DEF AccountsOK

\* No account file is ever removed here.
LEMMA AccountsGrow == Struct /\ [Next]_vars => accounts \subseteq accounts'
<1> SUFFICES ASSUME Struct, [Next]_vars PROVE accounts \subseteq accounts'
  OBVIOUS
<1>1. CASE QuietStep \/ RunnerMove BY <1>1, QuietEffect, RunnerMoves
<1>2. CASE \E j \in Job, i \in Row : WorkerMove(j, i) \/ RowUpdate(j, i)
  BY <1>2, WorkerMoves, RowUpdates
<1>3. CASE \E j \in Job : Creation(j) \/ SaveInputs(j) \/ Finish(j)
  BY <1>3, Creates DEF SaveInputs, Finish
<1>4. CASE Delete \/ Restart BY <1>4 DEF Delete, Restart
<1>5. QED BY <1>1, <1>2, <1>3, <1>4, StepKinds

\* A step that says ok of no row without an account.
LEMMA RunnersFrame ==
  ASSUME RunnersBacked, accounts \subseteq accounts',
         \A e \in Entries' : e \in Entries \/ Within(e.steps, accounts),
         \A j \in Job : run'[j].steps = run[j].steps \/ Within(run'[j].steps, accounts),
         \A j \in Job, i \in Row :
            work'[j][i] = work[j][i] \/ WorkerWithin(work'[j][i], i, accounts')
  PROVE  RunnersBacked'
<1>1. \A job \in Entries' : Within(job.steps, accounts')
  BY MoreWithin DEF RunnersBacked
<1>2. \A j \in Job : Within(run'[j].steps, accounts')
  BY MoreWithin DEF RunnersBacked
<1>3. \A j \in Job, i \in Row : WorkerWithin(work'[j][i], i, accounts')
  BY MoreWithin DEF RunnersBacked
<1>4. QED BY <1>1, <1>2, <1>3 DEF RunnersBacked

\* A worker that has logged in has written the account file.
LEMMA BackedWorker ==
  ASSUME Struct, RunnersBacked, NEW j \in Job, NEW i \in Row, WorkerMove(j, i)
  PROVE  RunnersBacked'
<1>1. /\ UNCHANGED <<jobs, run, save, file>>
      /\ \A k \in Job, m \in Row : k # j \/ m # i => work'[k][m] = work[k][m]
  BY WorkerMoves
<1>2. WorkerWithin(work'[j][i], i, accounts')
  <2>1. WorkerWithin(work[j][i], i, accounts) BY DEF RunnersBacked
  <2>2. \/ work'[j][i].pc = "start"
        \/ accounts' = accounts \cup {i}
        \/ work'[j][i] = Skipped(work[j][i].status)
        \/ /\ accounts' = accounts
           /\ work[j][i].pc = "send" /\ work'[j][i].pc = "send"
           /\ work'[j][i].status = work[j][i].status
    BY WorkerMoves
  <2>3. QED BY <2>1, <2>2 DEF WorkerWithin, Skipped
<1>3. accounts \subseteq accounts' BY WorkerMoves
<1>4. Entries' = Entries BY <1>1 DEF Entries
<1>5. \A k \in Job, m \in Row :
        work'[k][m] = work[k][m] \/ WorkerWithin(work'[k][m], m, accounts')
  BY <1>1, <1>2
<1>6. QED BY <1>1, <1>3, <1>4, <1>5, RunnersFrame

\* Succeed comes from "written" only.
LEMMA BackedUpdate ==
  ASSUME Struct, RunnersBacked, NEW j \in Job, NEW i \in Row, RowUpdate(j, i)
  PROVE  RunnersBacked'
<1>1. UNCHANGED <<run, accounts>> BY RowUpdates
<1>2. PICK status \in {"running", "ok", "fail"} :
        /\ \/ work[j][i].pc = "start" /\ status = "running"
           \/ work[j][i].pc = "login" /\ status = "fail"
           \/ work[j][i].pc = "written" /\ status = "ok"
        /\ \A k \in Job, m \in Row : k # j \/ m # i => work'[k][m] = work[k][m]
        /\ \/ /\ Known(j) /\ work'[j][i] = Sending(j, status)
              /\ Find(jobs, j) \in DOMAIN jobs
              /\ jobs[Find(jobs, j)] \in JobRecord
              /\ Entries' \subseteq Entries \cup {Updated(jobs[Find(jobs, j)], i, status)}
           \/ work'[j][i] = Skipped(status) /\ Entries' \subseteq Entries
  BY RowUpdates
<1>3. status = "ok" => i \in accounts
  <2>1. WorkerWithin(work[j][i], i, accounts) BY DEF RunnersBacked
  <2>2. QED BY <1>2, <2>1 DEF WorkerWithin
<1>4. WorkerWithin(work'[j][i], i, accounts)
  BY <1>2, <1>3 DEF WorkerWithin, Sending, Skipped
<1>5. \A e \in Entries' : e \in Entries \/ Within(e.steps, accounts)
  <2>1. CASE Entries' \subseteq Entries BY <2>1
  <2>2. CASE /\ Find(jobs, j) \in DOMAIN jobs
             /\ jobs[Find(jobs, j)] \in JobRecord
             /\ Entries' \subseteq Entries \cup {Updated(jobs[Find(jobs, j)], i, status)}
    <3> DEFINE job == jobs[Find(jobs, j)]
               steps == [job.steps EXCEPT ![i] = status]
    <3>1. status \in Status BY DEF Status
    <3>2. Updated(job, i, status).steps = steps BY <2>2, <3>1, UpdatedType
    <3>3. Within(job.steps, accounts) BY <2>2, EntryTypes DEF RunnersBacked
    <3>4. \A m \in Row : steps[m] = IF m = i THEN status ELSE job.steps[m]
      BY <2>2 DEF JobRecord, Steps
    <3> HIDE DEF steps, job
    <3>5. Within(steps, accounts) BY <1>3, <3>3, <3>4 DEF Within, WithStatus
    <3>6. QED BY <2>2, <3>2, <3>5 DEF job
  <2>3. QED BY <1>2, <2>1, <2>2
<1>6. \A k \in Job, m \in Row :
        work'[k][m] = work[k][m] \/ WorkerWithin(work'[k][m], m, accounts')
  BY <1>1, <1>2, <1>4
<1>7. QED BY <1>1, <1>5, <1>6, RunnersFrame

\* Jobs, runners and workers keep to the accounts.
LEMMA RunnersBackedNext == Struct /\ RunnersBacked /\ [Next]_vars => RunnersBacked'
<1> SUFFICES ASSUME Struct, RunnersBacked, [Next]_vars PROVE RunnersBacked'
  OBVIOUS
<1>1. accounts \subseteq accounts' BY AccountsGrow
<1>2. CASE QuietStep BY <1>2, QuietEffect, RunnersFrame
<1>3. CASE RunnerMove
  <2>1. work' = work /\ Entries' \subseteq Entries BY <1>3, RunnerMoves
  <2>2. \A j \in Job : run'[j].steps = run[j].steps \/ run'[j].steps = StepsOf({})
    BY <1>3, RunnerMoves
  <2>3. QED BY <1>1, <2>1, <2>2, NothingWithin, RunnersFrame
<1>4. CASE \E j \in Job, i \in Row : WorkerMove(j, i) \/ RowUpdate(j, i)
  BY <1>4, BackedWorker, BackedUpdate
<1>5. ASSUME NEW j \in Job, Creation(j) PROVE RunnersBacked'
  <2>1. /\ work' = work /\ \A k \in Job \ {j} : run'[k] = run[k]
        /\ run'[j].steps = StepsOf({})
        /\ \E rows \in SUBSET Row : Entries' \subseteq Entries \cup {NewJob(j, rows)}
    BY <1>5, Creates
  <2>2. \A rows : Within(NewJob(j, rows).steps, accounts) BY NewJobHonest DEF Within
  <2>3. QED BY <1>1, <2>1, <2>2, NothingWithin, RunnersFrame
<1>6. ASSUME NEW j \in Job, SaveInputs(j) PROVE RunnersBacked'
  <2>1. /\ run'[j] = [NoRun EXCEPT !.pc = "running"]
        /\ \A k \in Job \ {j} : run'[k] = run[k] /\ work'[k] = work[k]
        /\ \A i \in Row : work'[j][i] = [pc |-> IF i \in run[j].rows THEN "todo" ELSE "none",
                                         status |-> "absent", to |-> {}]
    BY <1>6, SaveInputsEffect
  <2>2. run'[j].steps = StepsOf({}) BY <2>1 DEF NoRun
  <2>3. ASSUME NEW i \in Row PROVE WorkerWithin(work'[j][i], i, accounts')
    <3> DEFINE pc == IF i \in run[j].rows THEN "todo" ELSE "none"
    <3>1. work'[j][i] = [pc |-> pc, status |-> "absent", to |-> {}] BY <2>1
    <3>2. pc \in {"todo", "none"} OBVIOUS
    <3> HIDE DEF pc
    <3>3. QED BY <3>1, <3>2 DEF WorkerWithin
  <2>4. Entries' = Entries BY <1>6 DEF SaveInputs, storeVars, Entries
  <2>5. QED BY <1>1, <2>1, <2>2, <2>3, <2>4, NothingWithin, RunnersFrame
<1>7. ASSUME NEW j \in Job, Finish(j) PROVE RunnersBacked'
  <2>1. work' = work /\ \A k \in Job \ {j} : run'[k] = run[k] BY <1>7, Finishes
  <2>2. \/ Entries' \subseteq Entries /\ run'[j].steps = run[j].steps
        \/ \E n \in DOMAIN jobs :
             /\ jobs[n] \in JobRecord
             /\ Entries' \subseteq Entries \cup {[jobs[n] EXCEPT !.state = "done"]}
             /\ run'[j].steps = jobs[n].steps
    <3>1. \/ Entries' \subseteq Entries /\ run'[j].steps = run[j].steps
          \/ \E n \in DOMAIN jobs :
               /\ jobs[n].id = j /\ jobs[n].state = "running" /\ jobs[n] \in JobRecord
               /\ Entries' \subseteq Entries \cup {[jobs[n] EXCEPT !.state = "done"]}
               /\ run'[j].pc = "send" /\ run'[j].steps = jobs[n].steps
               /\ run'[j].to = Attached(j)
      BY <1>7, Finishes
    <3>2. QED BY <3>1
  <2>3. \A n \in DOMAIN jobs : Within(jobs[n].steps, accounts) BY EntryTypes DEF RunnersBacked
  <2>4. \A n \in DOMAIN jobs : jobs[n] \in JobRecord =>
          [jobs[n] EXCEPT !.state = "done"].steps = jobs[n].steps
    BY DEF JobRecord
  <2>5. QED BY <1>1, <2>1, <2>2, <2>3, <2>4, RunnersFrame
<1>8. CASE Delete
  <2>1. Part(jobs', jobs) BY <1>8, DeleteEffect
  <2>2. UNCHANGED <<run, work, save, file>> BY <1>8 DEF Delete, storeVars
  <2>3. Entries' \subseteq Entries BY <2>1, <2>2 DEF Entries, JobsIn, Part
  <2>4. QED BY <1>1, <2>2, <2>3, RunnersFrame
<1>9. CASE Restart
  <2>1. jobs' = file /\ file' = file /\ save'.snap = <<>> BY <1>9, RestartEffect, NoSaveType
  <2>2. Entries' \subseteq Entries BY <2>1, EntriesStay
  <2>3. /\ \A j \in Job : run'[j].steps = StepsOf({})
        /\ \A j \in Job, i \in Row : work'[j][i].pc = "none"
    BY <1>9, RestartEffect
  <2>4. \A j \in Job, i \in Row : WorkerWithin(work'[j][i], i, accounts')
    BY <2>3 DEF WorkerWithin
  <2>5. QED BY <1>1, <2>2, <2>3, <2>4, NothingWithin, RunnersFrame
<1>10. QED BY <1>2, <1>3, <1>4, <1>5, <1>6, <1>7, <1>8, <1>9, StepKinds

\* The streams keep to the accounts, since what they get is copied from these.
LEMMA StreamsBackedNext == Struct /\ AccountsOK /\ [Next]_vars => StreamsBacked'
<1> SUFFICES ASSUME Struct, AccountsOK, [Next]_vars, NEW s \in Stream
             PROVE  StreamWithin(stream'[s], accounts')
  BY DEF StreamsBacked
<1> DEFINE x == stream[s]
           y == stream'[s]
<1>1. /\ StreamWithin(x, accounts) /\ x \in StreamRec /\ x.ch \in Seq(Event)
      /\ RunnersBacked
  BY TypesOf DEF AccountsOK, StreamsBacked, StreamRec
<1>2. SUFFICES StreamWithin(y, accounts)
  BY <1>2, AccountsGrow, MoreWithin
<1> HIDE DEF x, y
<1>3. CASE Leaves(x, y) BY <1>1, <1>3, ChannelEvents DEF StreamWithin, Leaves
<1>4. CASE Begins(x, y)
  <2>1. \A n \in DOMAIN jobs : Within(jobs[n].steps, accounts) BY <1>1, EntryTypes DEF RunnersBacked
  <2>2. EventsIn(y.ch) = {} BY <1>1, <1>4, ChannelEvents DEF Begins
  <2>3. QED BY <1>4, <2>1, <2>2, NothingWithin DEF Begins, StreamWithin
<1>5. CASE Shows(x, y)
  <2>1. y.snap.steps = StepsOf({}) BY <1>5 DEF Shows, NoStream
  <2>2. QED BY <1>1, <1>5, <2>1, NothingWithin DEF Shows, StreamWithin
<1>6. CASE Takes(x, y)
  <2>1. /\ Head(x.ch) \in EventsIn(x.ch) /\ EventsIn(Tail(x.ch)) \subseteq EventsIn(x.ch)
        /\ Head(x.ch) \in Event /\ y.ch = Tail(x.ch)
    BY <1>1, <1>6, ChannelEvents DEF Takes
  <2>2. EventWithin(Head(x.ch), accounts) BY <1>1, <2>1 DEF StreamWithin
  <2>3. Within(y.view, accounts)
    <3>1. CASE Head(x.ch).kind = "done" BY <1>6, <2>2, <3>1 DEF Takes, EventWithin
    <3>2. CASE Head(x.ch).kind = "step"
      <4> DEFINE row == Head(x.ch).row
                 status == Head(x.ch).status
      <4>1. y.view = [x.view EXCEPT ![row] = status] BY <1>6, <3>2 DEF Takes
      <4>2. status = "ok" => row \in accounts BY <2>2, <3>2 DEF EventWithin
      <4> HIDE DEF row, status
      <4>3. \A m \in Row : y.view[m] = IF m = row THEN status ELSE x.view[m]
        BY <1>1, <4>1 DEF StreamRec, Steps
      <4>4. Within(x.view, accounts) BY <1>1 DEF StreamWithin
      <4>5. QED BY <4>2, <4>3, <4>4 DEF Within, WithStatus
    <3>3. QED BY <1>6, <3>1, <3>2 DEF Takes
  <2>4. QED BY <1>1, <1>6, <2>1, <2>3 DEF Takes, StreamWithin
<1>7. ASSUME NEW event \in Event, Hears(x, y, event), EventWithin(event, accounts)
      PROVE  StreamWithin(y, accounts)
  <2>1. /\ y.ch = Append(x.ch, event) /\ y.view = x.view /\ y.snap = x.snap
    BY <1>1, <1>7 DEF Hears, StreamRec
  <2>2. EventsIn(y.ch) = EventsIn(x.ch) \cup {event} BY <1>1, <2>1, ChannelEvents
  <2>3. QED BY <1>1, <1>7, <2>1, <2>2 DEF StreamWithin
<1>8. ASSUME NEW j \in Job, NEW i \in Row, work[j][i].pc = "send",
             Hears(x, y, StepEvent(i, work[j][i].status))
      PROVE  StreamWithin(y, accounts)
  <2>1. work[j][i].status \in Status BY TypesOf DEF WorkRec
  <2>2. WorkerWithin(work[j][i], i, accounts) BY <1>1 DEF RunnersBacked
  <2>3. EventWithin(StepEvent(i, work[j][i].status), accounts)
    BY <1>8, <2>2 DEF EventWithin, StepEvent, WorkerWithin
  <2>4. QED BY <1>7, <1>8, <2>1, <2>3, EventTypes
<1>9. ASSUME NEW j \in Job, Hears(x, y, DoneEvent(run[j].steps))
      PROVE  StreamWithin(y, accounts)
  <2>1. run[j].steps \in Steps BY TypesOf DEF RunRec
  <2>2. EventWithin(DoneEvent(run[j].steps), accounts)
    BY <1>1 DEF EventWithin, DoneEvent, RunnersBacked
  <2>3. QED BY <1>7, <1>9, <2>1, <2>2, EventTypes
<1>10. QED BY <1>3, <1>4, <1>5, <1>6, <1>8, <1>9, StreamKinds DEF x, y

\* Wherever a row is said to be ok, also in an event on its way to a client, its
\* account file is written.
THEOREM AccountsInv == Spec => [](Struct /\ AccountsOK)
<1>1. Struct /\ AccountsOK /\ [Next]_vars => AccountsOK'
  BY RunnersBackedNext, StreamsBackedNext DEF AccountsOK
<1>2. QED BY <1>1, StructInit, StructNext, AccountsInit, PTL DEF Spec

\* A row reported as ok, in memory, on disk or to a client, has its account file.
THEOREM OkRowsHaveAccounts == Spec => []OkHasAccount
<1>1. AccountsOK => OkHasAccount
  BY DEF AccountsOK, RunnersBacked, StreamsBacked, StreamWithin, Within, Entries, JobsIn,
         OkHasAccount
<1>2. QED BY <1>1, AccountsInv, PTL

-----------------------------------------------------------------------------
(* The history file: CompletedDurable.                                     *)

DoneIn(list, j) == \E n \in DOMAIN list : list[n].id = j /\ list[n].state = "done"

\* A job whose Finish returned is done in memory, in the file and in every copy
\* that will become the file; the copy that a Finish waits for has its job as done.
Durable ==
  /\ \A j \in completed : run[j].pc = "over"
  /\ faults = 0 =>
       \A j \in completed : /\ DoneIn(jobs, j) /\ DoneIn(file, j)
                            /\ save.by # "none" => DoneIn(save.snap, j)
  /\ save.by = "finish" /\ save.job \in Ids(jobs) => DoneIn(save.snap, save.job)

\* A step of neither Finish nor Written.
LEMMA DurableFrame ==
  ASSUME Durable, completed' \subseteq completed, file' = file,
         faults' = faults \/ faults' # 0,
         \A j \in completed : run'[j].pc = run[j].pc \/ run'[j].pc = "over",
         \A j \in completed' : DoneIn(jobs, j) => DoneIn(jobs', j),
         \/ /\ save' = save
            /\ save.by = "finish" /\ save.job \in Ids(jobs') => save.job \in Ids(jobs)
         \/ /\ save'.by \in {"loop", "delete"}
            /\ save'.snap = jobs
  PROVE  Durable'
<1>1. \A j \in completed' : run'[j].pc = "over" BY DEF Durable
<1>2. ASSUME faults' = 0, NEW j \in completed'
      PROVE  /\ DoneIn(jobs', j) /\ DoneIn(file', j)
             /\ save'.by # "none" => DoneIn(save'.snap, j)
  BY <1>2 DEF Durable
<1>3. save'.by = "finish" /\ save'.job \in Ids(jobs') => DoneIn(save'.snap, save'.job)
  BY DEF Durable
<1>4. QED BY <1>1, <1>2, <1>3 DEF Durable

\* No job is complete at first.
LEMMA DurableInit == Init => Durable
BY DEF Init, Durable, NoSave

\* Steps that leave the jobs alone; a copy that is taken has every finished job.
LEMMA DurableQuiet ==
  ASSUME Struct, Durable, QuietStep
  PROVE  Durable'
<1>1. UNCHANGED <<jobs, run, file, completed, faults>> BY QuietEffect
<1>2. \/ save' = save
      \/ save'.by \in {"loop", "delete"} /\ save'.snap = jobs
  <2>1. CASE \E s \in Stream : Subscribe(s) \/ StreamStep(s) \/ Disconnect(s)
    BY <2>1 DEF Subscribe, StreamStep, SendSnapshot, Receive, Disconnect, Cancel, storeVars
  <2>2. CASE LoopSnapshot \/ DeleteSnapshot
    BY <2>2 DEF LoopSnapshot, DeleteSnapshot, TakeSnapshot
  <2>3. CASE DeleteClose \/ DeleteSidecar \/ UNCHANGED vars
    BY <2>3 DEF DeleteClose, DeleteSidecar, storeVars, vars
  <2>4. QED BY <2>1, <2>2, <2>3 DEF QuietStep
<1>3. QED BY <1>1, <1>2, DurableFrame

\* A job that is in memory while its Finish saves is done.
LEMMA SavedIsDone ==
  ASSUME RowsOK, NEW j \in Ids(jobs), run[j].pc \in {"save", "saving"}
  PROVE  DoneIn(jobs, j)
<1>1. PICK n \in DOMAIN jobs : jobs[n].id = j BY DEF Ids
<1>2. jobs[n].state = "done" BY <1>1 DEF RowsOK, Progress
<1>3. QED BY <1>1, <1>2 DEF DoneIn

\* Finish copies the list with its job done; when it is written, the file has it.
LEMMA DurableRunner ==
  ASSUME Struct, RowsOK, Durable, RunnerMove
  PROVE  Durable'
<1>1. ASSUME NEW j \in Job, FinishSnapshot(j) PROVE Durable'
  <2>1. /\ run[j].pc = "save" /\ save.by = "none"
        /\ save' = [by |-> "finish", job |-> j, snap |-> jobs]
        /\ UNCHANGED <<jobs, file, completed, faults>>
    BY <1>1 DEF FinishSnapshot, TakeSnapshot, ghosts
  <2>2. \A k \in Job \ {j} : run'[k] = run[k] BY <1>1, FinishSnapshotStruct
  <2>3. j \notin completed BY <2>1 DEF Durable
  <2>4. \A k \in completed' : run'[k].pc = "over" BY <2>1, <2>2, <2>3 DEF Durable, Struct, Types
  <2>5. j \in Ids(jobs) => DoneIn(jobs, j) BY <2>1, SavedIsDone
  <2>6. QED BY <2>1, <2>4, <2>5 DEF Durable
<1>2. CASE Written
  <2>1. /\ save.by # "none" /\ save' = NoSave /\ jobs' = jobs
        /\ \/ file' = save.snap /\ faults' = faults
           \/ file' = file /\ faults' = faults + 1
    BY <1>2, WrittenEffect
  <2>2. \/ save.by # "finish" /\ run' = run /\ completed' = completed
        \/ /\ save.by = "finish" /\ save.job \in Job /\ run[save.job].pc = "saving"
           /\ run[save.job] \in RunRec
           /\ run' = [run EXCEPT ![save.job] = [run[save.job] EXCEPT !.pc = "over"]]
           /\ completed' = completed \cup ({save.job} \cap Ids(jobs))
    BY <1>2, WrittenEffect
  <2>3. \A j \in completed' : run'[j].pc = "over"
    <3>1. completed \subseteq Job /\ run \in [Job -> RunRec] BY DEF Struct, Types, RunType
    <3>2. QED BY <2>2, <3>1 DEF Durable, RunRec
  <2>4. ASSUME faults' = 0, NEW j \in completed' PROVE DoneIn(jobs', j) /\ DoneIn(file', j)
    <3>1. faults = 0 /\ file' = save.snap
      <4>1. faults \in Nat BY RegistrationAssumption DEF Struct, Types
      <4>2. QED BY <2>1, <2>4, <4>1
    <3>2. CASE j \in completed BY <2>1, <3>1, <3>2 DEF Durable
    <3>3. CASE j \notin completed
      <4>1. save.by = "finish" /\ run[save.job].pc = "saving" /\ j = save.job /\ j \in Ids(jobs)
        BY <2>2, <2>4, <3>3
      <4>2. DoneIn(jobs, j) BY <4>1, SavedIsDone
      <4>3. DoneIn(save.snap, j) BY <4>1 DEF Durable
      <4>4. QED BY <2>1, <3>1, <4>2, <4>3
    <3>4. QED BY <3>2, <3>3
  <2>5. save'.by = "none" BY <2>1 DEF NoSave
  <2>6. QED BY <2>3, <2>4, <2>5 DEF Durable
<1>3. CASE \E j \in Job : JobMove(j) /\ ~FinishSnapshot(j)
  <2>1. UNCHANGED <<jobs, save, file, completed, faults>>
    <3>1. PICK j \in Job : JobMove(j) /\ ~FinishSnapshot(j) BY <1>3
    <3>2. CASE RetryCreate(j) /\ run' = [run EXCEPT ![j] = NoRun] /\ jobs' = jobs
      <4>1. run'[j].pc = "none" BY <3>2, NoRunType DEF Struct, Types, RunType
      <4>2. \A rows : ~Create(j, rows)
        <5>1. ASSUME NEW rows, Create(j, rows) PROVE FALSE
          <6>1. run'[j] = [NoRun EXCEPT !.pc = "created", !.rows = rows]
            BY <5>1 DEF Create, Struct, Types, RunType
          <6>2. run'[j].pc = "created" BY <6>1 DEF NoRun
          <6>3. QED BY <4>1, <6>2
        <5>2. QED BY <5>1
      <4>3. QED BY <3>2, <4>2 DEF RetryCreate
    <3>3. CASE ~RetryCreate(j)
      BY <3>1, <3>3 DEF JobMove, Retry, DoneSent, SendDone, storeVars, ghosts
    <3>4. CASE Retry(j) \/ DoneSent(j) \/ \E s \in Stream : SendDone(j, s)
      BY <3>4 DEF Retry, DoneSent, SendDone, storeVars, ghosts
    <3>5. QED BY <3>1, <3>2, <3>3, <3>4 DEF JobMove
  <2>2. \A j \in completed : run[j].pc = "over" /\ j \in Job BY DEF Durable, Struct, Types
  <2>3. \A j \in completed : run'[j] = run[j]
    <3>1. \A j \in Fresh : run[j].pc \in {"none", "asked"} BY DEF Fresh
    <3>2. QED BY <2>2, <3>1, RunnerMoves
  <2>4. QED BY <2>1, <2>3, DurableFrame
<1>4. QED BY <1>1, <1>2, <1>3 DEF RunnerMove

\* A new job pushes finished ones out, and they are forgotten.
LEMMA DurableCreate ==
  ASSUME Struct, Durable, NEW j \in Job, Creation(j)
  PROVE  Durable'
<1>1. /\ UNCHANGED <<save, file, faults>> /\ j \in Fresh
      /\ completed' = completed \cap Ids(jobs')
      /\ \A k \in Job \ {j} : run'[k] = run[k]
  BY Creates
<1>2. \A n \in DOMAIN jobs' : jobs'[n].id = j \/ \E m \in DOMAIN jobs : jobs'[n] = jobs[m]
  BY Creates, NewJobType
<1>3. \A k \in completed : k \in Job \ {j} /\ run'[k] = run[k]
  <2>1. run[j].pc # "over" BY <1>1 DEF Fresh
  <2>2. QED BY <1>1, <2>1 DEF Durable, Struct, Types
<1>4. ASSUME NEW k \in completed', DoneIn(jobs, k) PROVE DoneIn(jobs', k)
  <2>1. k # j /\ k \in Ids(jobs') BY <1>1, <1>3
  <2>2. PICK n \in DOMAIN jobs' : jobs'[n].id = k BY <2>1 DEF Ids
  <2>3. PICK m \in DOMAIN jobs : jobs'[n] = jobs[m] BY <1>2, <2>1, <2>2
  <2>4. jobs[m].state = "done" BY <1>4, <2>2, <2>3 DEF DoneIn, Struct, Types, ListOK
  <2>5. QED BY <2>2, <2>3, <2>4 DEF DoneIn
<1>5. save.by = "finish" /\ save.job \in Ids(jobs') => save.job \in Ids(jobs)
  <2> SUFFICES ASSUME save.by = "finish", save.job \in Ids(jobs') PROVE save.job \in Ids(jobs)
    OBVIOUS
  <2>1. save.job # j BY <1>1 DEF Fresh, Struct, Links, SaveLinks
  <2>2. QED BY <1>2, <2>1 DEF Ids
<1>6. QED BY <1>1, <1>3, <1>4, <1>5, DurableFrame

\* The entries of the list keep their places and their ends.
LEMMA DurableInPlace ==
  ASSUME Struct, Durable, UNCHANGED <<save, file, completed, faults>>,
         DOMAIN jobs' = DOMAIN jobs,
         \A n \in DOMAIN jobs : /\ jobs'[n].id = jobs[n].id
                                /\ jobs[n].state = "done" => jobs'[n].state = "done",
         \A j \in completed : run'[j].pc = run[j].pc \/ run'[j].pc = "over"
  PROVE  Durable'
<1>1. \A j : DoneIn(jobs, j) => DoneIn(jobs', j) BY DEF DoneIn
<1>2. Ids(jobs') = Ids(jobs) BY DEF Ids
<1>3. QED BY <1>1, <1>2, DurableFrame

\* An update ends no job and reopens none.
LEMMA DurableUpdate ==
  ASSUME Struct, Durable, NEW j \in Job, NEW i \in Row, RowUpdate(j, i)
  PROVE  Durable'
<1>1. UNCHANGED <<run, save, file, completed, faults>> BY RowUpdates
<1>2. \/ jobs' = jobs
      \/ /\ Find(jobs, j) \in DOMAIN jobs /\ jobs[Find(jobs, j)].id = j
         /\ jobs[Find(jobs, j)] \in JobRecord
         /\ DOMAIN jobs' = DOMAIN jobs
         /\ \E status \in {"running", "ok", "fail"} :
              jobs'[Find(jobs, j)] = Updated(jobs[Find(jobs, j)], i, status)
         /\ \A m \in DOMAIN jobs : jobs[m].id # j => jobs'[m] = jobs[m]
         /\ \A m \in DOMAIN jobs : jobs[m].id = j => m = Find(jobs, j)
  BY RowUpdates
<1>3. ASSUME NEW job \in JobRecord, NEW status \in {"running", "ok", "fail"}
      PROVE  /\ Updated(job, i, status).id = job.id
             /\ Updated(job, i, status).state = job.state
  <2>1. status \in Status BY DEF Status
  <2>2. QED BY <2>1, UpdatedType
<1>4. /\ DOMAIN jobs' = DOMAIN jobs
      /\ \A n \in DOMAIN jobs : /\ jobs'[n].id = jobs[n].id
                                /\ jobs[n].state = "done" => jobs'[n].state = "done"
  BY <1>2, <1>3
<1>5. QED BY <1>1, <1>4, DurableInPlace

\* A job that ends leaves the other jobs alone.
LEMMA DurableFinish ==
  ASSUME Struct, Durable, NEW j \in Job, Finish(j)
  PROVE  Durable'
<1>1. /\ UNCHANGED <<save, file, completed, faults>> /\ run[j].pc = "running"
      /\ \A k \in Job \ {j} : run'[k] = run[k]
  BY Finishes
<1>2. \/ jobs' = jobs
      \/ \E n \in DOMAIN jobs :
           /\ jobs[n].id = j /\ jobs[n] \in JobRecord
           /\ DOMAIN jobs' = DOMAIN jobs
           /\ jobs'[n] = [jobs[n] EXCEPT !.state = "done"]
           /\ \A m \in DOMAIN jobs : jobs[m].id # j => jobs'[m] = jobs[m]
           /\ \A m \in DOMAIN jobs : jobs[m].id = j => m = n
  BY Finishes
<1>3. \A k \in completed : run'[k] = run[k]
  <2>1. j \notin completed BY <1>1 DEF Durable
  <2>2. QED BY <1>1, <2>1 DEF Struct, Types
<1>4. /\ DOMAIN jobs' = DOMAIN jobs
      /\ \A n \in DOMAIN jobs : /\ jobs'[n].id = jobs[n].id
                                /\ jobs[n].state = "done" => jobs'[n].state = "done"
  BY <1>2 DEF JobRecord
<1>5. QED BY <1>1, <1>3, <1>4, DurableInPlace

\* Durable is inductive relative to Struct and RowsOK.
LEMMA DurableNext == Struct /\ RowsOK /\ Durable /\ [Next]_vars => Durable'
<1> SUFFICES ASSUME Struct, RowsOK, Durable, [Next]_vars PROVE Durable'
  OBVIOUS
<1>1. CASE QuietStep BY <1>1, DurableQuiet
<1>2. CASE RunnerMove BY <1>2, DurableRunner
<1>3. ASSUME NEW j \in Job, NEW i \in Row, WorkerMove(j, i) PROVE Durable'
  <2>1. UNCHANGED <<jobs, run, save, file, completed, faults>> BY <1>3, WorkerMoves
  <2>2. QED BY <2>1, DurableFrame
<1>4. ASSUME NEW j \in Job, SaveInputs(j) PROVE Durable'
  <2>1. UNCHANGED <<jobs, save, file, completed>> BY <1>4 DEF SaveInputs, storeVars
  <2>2. faults' = faults \/ faults' # 0
    <3>1. faults \in Nat BY RegistrationAssumption DEF Struct, Types
    <3>2. faults' = faults \/ faults' = faults + 1 BY <1>4 DEF SaveInputs
    <3>3. QED BY <3>1, <3>2
  <2>3. run[j].pc = "created" /\ \A k \in Job \ {j} : run'[k] = run[k]
    BY <1>4, SaveInputsEffect
  <2>4. \A k \in completed : run'[k] = run[k]
    BY <2>3 DEF Durable, Struct, Types
  <2>5. QED BY <2>1, <2>2, <2>4, DurableFrame
<1>5. CASE Delete
  <2>1. UNCHANGED <<run, save, file, faults>> BY <1>5 DEF Delete, storeVars
  <2>2. PICK n \in DOMAIN jobs :
          /\ Part(jobs', jobs)
          /\ \A m \in DOMAIN jobs \ {n} : \E k \in DOMAIN jobs' : jobs'[k] = jobs[m]
          /\ completed' = completed \ {jobs[n].id}
    BY <1>5, DeleteEffect
  <2>3. Ids(jobs') \subseteq Ids(jobs) BY <2>2 DEF Part, Ids
  <2>4. ASSUME NEW j \in completed', DoneIn(jobs, j) PROVE DoneIn(jobs', j)
    <3>1. PICK m \in DOMAIN jobs : jobs[m].id = j /\ jobs[m].state = "done"
      BY <2>4 DEF DoneIn
    <3>2. m # n BY <2>2, <2>4, <3>1
    <3>3. QED BY <2>2, <3>1, <3>2 DEF DoneIn
  <2>5. QED BY <2>1, <2>2, <2>3, <2>4, DurableFrame
<1>6. CASE Restart
  <2>1. /\ jobs' = file /\ save' = NoSave /\ UNCHANGED <<file, faults, completed>>
        /\ \A j \in Job : j \notin Fresh => run'[j].pc = "over"
    BY <1>6, RestartEffect
  <2>2. \A j \in completed : j \in Job \ Fresh BY DEF Durable, Struct, Types, Fresh
  <2>3. save'.by = "none" BY <2>1 DEF NoSave
  <2>4. QED BY <2>1, <2>2, <2>3 DEF Durable
<1>7. QED
  BY <1>1, <1>2, <1>3, <1>4, <1>5, <1>6, DurableCreate, DurableUpdate, DurableFinish, StepKinds

\* A finished job is done in memory, in the file and in every copy that will become
\* the file, as long as no write failed.
THEOREM DurableInv == Spec => [](Struct /\ RowsOK /\ Durable)
<1>1. QED
  BY StructInit, StructNext, RowsInit, RowsNext, DurableInit, DurableNext, PTL DEF Spec

\* "so a crash never loses a 'completed' job": once Finish returned, the job is in
\* the file as done, until it is deleted or evicted; as long as no write failed.
THEOREM CompletedJobsAreDurable == Spec => []CompletedDurable
<1>1. Durable => CompletedDurable BY DEF Durable, DoneIn, CompletedDurable
<1>2. QED BY <1>1, DurableInv, PTL

-----------------------------------------------------------------------------
(***************************************************************************)
(* What the clients of a job are told.                                     *)
(*                                                                         *)
(* Finality says that a job ends once: some function gives each job its    *)
(* end, every copy that is done is that end, and nobody has an end of a    *)
(* job whose runner is still to come or at work.  Order compares the three *)
(* places a row is at: the client (or the snapshot it is about to get),    *)
(* the events in the channel in their order, and the row itself, whose     *)
(* Level is read from the runner and the worker and never falls.  A job    *)
(* that was deleted or evicted has no row in memory any more, so the       *)
(* level cannot be read from the list of jobs.                             *)
(***************************************************************************)

-----------------------------------------------------------------------------
(* The end of a job: DoneViewIsFinal.                                      *)

Ended(f, j, steps) == steps = f[j] /\ Complete(steps)

JobFinal(f, job) == job.state = "done" => Ended(f, job.id, job.steps)

RunFinal(f, j, r) == r.pc = "send" => Ended(f, j, r.steps)

StreamFinal(f, x) ==
  /\ x.done => Ended(f, x.job, x.view)
  /\ x.snap.state = "done" => Ended(f, x.job, x.snap.steps)
  /\ \A e \in EventsIn(x.ch) : e.kind = "done" => Ended(f, x.job, e.steps)

\* f[j] is the end of the job j, for whoever has it.
FinalOf(f) ==
  /\ \A job \in Entries : JobFinal(f, job)
  /\ \A j \in Job : RunFinal(f, j, run[j])
  /\ \A s \in Stream : StreamFinal(f, stream[s])

\* The runner of the job is still to come or at work.
Open(j) == run[j].pc \in {"none", "asked", "created", "running"}

OpenStream(x) ==
  ~x.done /\ x.snap.state = "running" /\ \A e \in EventsIn(x.ch) : e.kind = "step"

NotDone(j) ==
  /\ \A job \in Entries : job.id = j => job.state = "running"
  /\ \A s \in Stream : stream[s].job = j => OpenStream(stream[s])

\* A job ends once, and in one way: nobody has the end of an open job, and all who
\* have the end of a job have the same rows.
Finality ==
  /\ \E f \in [Job -> Steps] : FinalOf(f)
  /\ \A j \in Job : Open(j) => NotDone(j)
  /\ \A s \in Stream : stream[s].done => stream[s].pc \in {"cancel", "over"}

\* Finish finds its job in memory.
Ends(j, n) ==
  /\ Finish(j) /\ n \in DOMAIN jobs /\ jobs[n].id = j
  /\ run[j].pc = "running" /\ run'[j].pc = "send" /\ run'[j].steps = jobs[n].steps

\* A job is done in one more place only by Finish.
LEMMA EntryKinds ==
  ASSUME Struct, RowsOK, [Next]_vars, NEW e \in Entries'
  PROVE  \/ e \in Entries
         \/ e.state = "running"
         \/ \E j \in Job : \E n \in DOMAIN jobs :
              Ends(j, n) /\ e = [jobs[n] EXCEPT !.state = "done"]
<1>1. CASE QuietStep BY <1>1, QuietEffect
<1>2. CASE RunnerMove BY <1>2, RunnerMoves
<1>3. ASSUME NEW j \in Job, NEW i \in Row, WorkerMove(j, i) PROVE e \in Entries
  <2>1. UNCHANGED <<jobs, save, file>> BY <1>3, WorkerMoves
  <2>2. QED BY <2>1, EntriesStay
<1>4. ASSUME NEW j \in Job, NEW i \in Row, RowUpdate(j, i)
      PROVE  e \in Entries \/ e.state = "running"
  <2>1. PICK status \in {"running", "ok", "fail"} :
          \/ Entries' \subseteq Entries
          \/ /\ Find(jobs, j) \in DOMAIN jobs /\ jobs[Find(jobs, j)].id = j
             /\ jobs[Find(jobs, j)] \in JobRecord
             /\ Entries' \subseteq Entries \cup {Updated(jobs[Find(jobs, j)], i, status)}
    BY <1>4, RowUpdates
  <2>2. CASE Entries' \subseteq Entries BY <2>2
  <2>3. CASE /\ Find(jobs, j) \in DOMAIN jobs /\ jobs[Find(jobs, j)].id = j
             /\ jobs[Find(jobs, j)] \in JobRecord
             /\ Entries' \subseteq Entries \cup {Updated(jobs[Find(jobs, j)], i, status)}
    <3>1. run[j].pc = "running" BY <1>4, RowUpdates
    <3>2. jobs[Find(jobs, j)].state = "running" BY <2>3, <3>1 DEF RowsOK, Progress
    <3>3. status \in Status BY DEF Status
    <3>4. Updated(jobs[Find(jobs, j)], i, status).state = "running"
      BY <2>3, <3>2, <3>3, UpdatedType
    <3>5. QED BY <2>3, <3>4
  <2>4. QED BY <2>1, <2>2, <2>3
<1>5. ASSUME NEW j \in Job, Creation(j) PROVE e \in Entries \/ e.state = "running"
  <2>1. \E rows \in SUBSET Row : Entries' \subseteq Entries \cup {NewJob(j, rows)}
    BY <1>5, Creates
  <2>2. \A rows : NewJob(j, rows).state = "running" BY NewJobHonest
  <2>3. QED BY <2>1, <2>2
<1>6. ASSUME NEW j \in Job, SaveInputs(j) PROVE e \in Entries
  BY <1>6 DEF SaveInputs, storeVars, Entries
<1>7. ASSUME NEW j \in Job, Finish(j)
      PROVE  \/ e \in Entries
             \/ \E n \in DOMAIN jobs : Ends(j, n) /\ e = [jobs[n] EXCEPT !.state = "done"]
  <2>1. \/ Entries' \subseteq Entries
        \/ \E n \in DOMAIN jobs :
             /\ jobs[n].id = j
             /\ Entries' \subseteq Entries \cup {[jobs[n] EXCEPT !.state = "done"]}
             /\ run[j].pc = "running" /\ run'[j].pc = "send" /\ run'[j].steps = jobs[n].steps
    <3>1. run[j].pc = "running" BY <1>7, Finishes
    <3>2. \/ Entries' \subseteq Entries
          \/ \E n \in DOMAIN jobs :
               /\ jobs[n].id = j /\ jobs[n].state = "running" /\ jobs[n] \in JobRecord
               /\ Entries' \subseteq Entries \cup {[jobs[n] EXCEPT !.state = "done"]}
               /\ run'[j].pc = "send" /\ run'[j].steps = jobs[n].steps
               /\ run'[j].to = Attached(j)
      BY <1>7, Finishes
    <3>3. QED BY <3>1, <3>2
  <2>2. QED BY <1>7, <2>1 DEF Ends
<1>8. CASE Delete
  <2>1. Part(jobs', jobs) BY <1>8, DeleteEffect
  <2>2. UNCHANGED <<save, file>> BY <1>8 DEF Delete, storeVars
  <2>3. QED BY <2>1, <2>2 DEF Entries, JobsIn, Part
<1>9. CASE Restart
  <2>1. jobs' = file /\ file' = file /\ save'.snap = <<>> BY <1>9, RestartEffect, NoSaveType
  <2>2. QED BY <2>1, EntriesStay
<1>10. QED BY <1>1, <1>2, <1>3, <1>4, <1>5, <1>6, <1>7, <1>8, <1>9, StepKinds

\* A runner only goes forward.
LEMMA RunKinds ==
  ASSUME Struct, [Next]_vars, NEW j \in Job
  PROVE  /\ Open(j)' => Open(j)
         /\ run'[j].pc = "send" =>
              \/ run[j].pc = "send" /\ run'[j].steps = run[j].steps
              \/ \E n \in DOMAIN jobs : Ends(j, n)
<1> DEFINE Kept == \/ run'[j] = run[j]
                   \/ Open(j) /\ run'[j].pc # "send"
                   \/ run'[j].pc = "over"
<1>1. ASSUME Kept
      PROVE  /\ Open(j)' => Open(j)
             /\ run'[j].pc = "send" => run[j].pc = "send" /\ run'[j].steps = run[j].steps
  BY <1>1 DEF Open
<1>2. CASE QuietStep BY <1>1, <1>2, QuietEffect
<1>3. CASE RunnerMove
  <2>1. j \in Fresh => Open(j) BY DEF Fresh, Open
  <2>2. \/ run'[j] = run[j]
        \/ j \in Fresh /\ run'[j].pc \in {"none", "asked"}
        \/ run[j].pc = "send" /\ run'[j].pc = "send" /\ run'[j].steps = run[j].steps
        \/ run'[j].pc \in {"save", "saving", "over"}
    BY <1>3, RunnerMoves
  <2>3. QED BY <2>1, <2>2 DEF Open
<1>4. ASSUME NEW k \in Job, NEW i \in Row, WorkerMove(k, i) \/ RowUpdate(k, i) PROVE run' = run
  BY <1>4, WorkerMoves, RowUpdates
<1>5. ASSUME NEW k \in Job, Creation(k) PROVE Kept
  <2>1. k \in Fresh /\ run'[k].pc = "created" /\ \A m \in Job \ {k} : run'[m] = run[m]
    BY <1>5, Creates
  <2>2. QED BY <2>1 DEF Fresh, Open
<1>6. ASSUME NEW k \in Job, SaveInputs(k) PROVE Kept
  <2>1. /\ run[k].pc = "created" /\ run'[k] = [NoRun EXCEPT !.pc = "running"]
        /\ \A m \in Job \ {k} : run'[m] = run[m]
    BY <1>6, SaveInputsEffect
  <2>2. run'[k].pc = "running" BY <2>1 DEF NoRun
  <2>3. QED BY <2>1, <2>2 DEF Open
<1>7. ASSUME NEW k \in Job, Finish(k)
      PROVE  \/ Kept
             \/ k = j /\ run'[k].pc = "send" /\ \E n \in DOMAIN jobs : Ends(k, n)
  <2>1. /\ run[k].pc = "running" /\ \A m \in Job \ {k} : run'[m] = run[m]
        /\ \/ run'[k].pc = "over"
           \/ run'[k].pc = "send" /\ \E n \in DOMAIN jobs :
                /\ jobs[n].id = k /\ run'[k].steps = jobs[n].steps
    <3>1. run[k].pc = "running" /\ \A m \in Job \ {k} : run'[m] = run[m]
      BY <1>7, Finishes
    <3>2. \/ run'[k].pc = "over"
          \/ \E n \in DOMAIN jobs :
               /\ jobs[n].id = k /\ jobs[n].state = "running" /\ jobs[n] \in JobRecord
               /\ run'[k].pc = "send" /\ run'[k].steps = jobs[n].steps
               /\ run'[k].to = Attached(k)
      BY <1>7, Finishes
    <3>3. QED BY <3>1, <3>2
  <2>2. \/ run'[k].pc = "over"
        \/ run'[k].pc = "send" /\ \E n \in DOMAIN jobs : Ends(k, n)
    BY <1>7, <2>1 DEF Ends
  <2>3. QED BY <2>1, <2>2
<1>8. CASE Delete BY <1>1, <1>8 DEF Delete
<1>9. CASE Restart
  <2>1. run'[j].pc = IF j \in Fresh THEN "none" ELSE "over" BY <1>9, RestartEffect
  <2>2. Kept BY <2>1 DEF Fresh, Open
  <2>3. QED BY <1>1, <2>2
<1>10. CASE \E k \in Job, i \in Row : WorkerMove(k, i) \/ RowUpdate(k, i)
  BY <1>1, <1>4, <1>10
<1>11. CASE \E k \in Job : Creation(k) \/ SaveInputs(k) BY <1>1, <1>5, <1>6, <1>11
<1>12. CASE \E k \in Job : Finish(k)
  <2>1. PICK k \in Job : Finish(k) BY <1>12
  <2>2. CASE Kept BY <1>1, <2>2
  <2>3. CASE k = j /\ run'[k].pc = "send" /\ \E n \in DOMAIN jobs : Ends(k, n)
    <3>1. ~Open(j)' BY <2>3 DEF Open
    <3>2. QED BY <2>3, <3>1
  <2>4. QED BY <1>7, <2>1, <2>2, <2>3
<1>13. QED BY <1>2, <1>3, <1>8, <1>9, <1>10, <1>11, <1>12, StepKinds

\* Nothing is over at first.
LEMMA FinalityInit == Init => Finality
<1> SUFFICES ASSUME Init PROVE Finality
  OBVIOUS
<1>1. /\ \A s \in Stream : stream[s] = NoStream
      /\ \A j \in Job : run[j] = NoRun
      /\ jobs = <<>> /\ file = <<>> /\ save = NoSave
  BY DEF Init
<1>2. Entries = {}
  <2>1. DOMAIN <<>> = {} BY EmptySeq
  <2>2. QED BY <1>1, <2>1 DEF Entries, JobsIn, NoSave
<1>3. ~NoStream.done /\ NoStream.snap.state = "running" /\ EventsIn(NoStream.ch) = {}
  <2>1. DOMAIN <<>> = {} BY EmptySeq
  <2>2. QED BY <2>1, NoStreamType DEF NoStream, EventsIn
<1>4. NoRun.pc = "none" BY NoRunType
<1> DEFINE f == [j \in Job |-> StepsOf({})]
<1>5. f \in [Job -> Steps] BY StepsType
<1> HIDE DEF f
<1>6. FinalOf(f) BY <1>1, <1>2, <1>3, <1>4 DEF FinalOf, RunFinal, StreamFinal
<1>7. \A j \in Job : NotDone(j) BY <1>1, <1>2, <1>3 DEF NotDone, OpenStream
<1>8. \A s \in Stream : ~stream[s].done BY <1>1, <1>3
<1>9. QED BY <1>5, <1>6, <1>7, <1>8 DEF Finality

\* What a stream gets has the end of its job, if it has one.
LEMMA StreamFinalNext ==
  ASSUME Struct, [Next]_vars, NEW f, FinalOf(f), NEW s \in Stream
  PROVE  StreamFinal(f, stream'[s])
<1> DEFINE x == stream[s]
           y == stream'[s]
<1>1. StreamFinal(f, x) /\ x \in StreamRec /\ x.ch \in Seq(Event)
  BY TypesOf DEF FinalOf, StreamRec
<1> SUFFICES StreamFinal(f, y) OBVIOUS
<1> HIDE DEF x, y
<1>2. CASE Leaves(x, y) BY <1>1, <1>2, ChannelEvents DEF StreamFinal, Leaves
<1>3. CASE Begins(x, y)
  <2>1. \A n \in DOMAIN jobs : JobFinal(f, jobs[n]) BY EntryTypes DEF FinalOf
  <2>2. EventsIn(y.ch) = {} BY <1>1, <1>3, ChannelEvents DEF Begins
  <2>3. QED BY <1>3, <2>1, <2>2 DEF Begins, StreamFinal, JobFinal
<1>4. CASE Shows(x, y)
  <2>1. y.snap.state = "running" BY <1>4 DEF Shows, NoStream
  <2>2. QED BY <1>1, <1>4, <2>1 DEF Shows, StreamFinal
<1>5. CASE Takes(x, y)
  <2>1. /\ Head(x.ch) \in EventsIn(x.ch) /\ EventsIn(Tail(x.ch)) \subseteq EventsIn(x.ch)
        /\ y.ch = Tail(x.ch)
    BY <1>1, <1>5, ChannelEvents DEF Takes
  <2>2. y.done => Head(x.ch).kind = "done" /\ y.view = Head(x.ch).steps
    BY <1>5 DEF Takes
  <2>3. QED BY <1>1, <1>5, <2>1, <2>2 DEF Takes, StreamFinal
<1>6. ASSUME NEW event \in Event, Hears(x, y, event),
             event.kind = "done" => Ended(f, x.job, event.steps)
      PROVE  StreamFinal(f, y)
  <2>1. /\ y.ch = Append(x.ch, event) /\ y.view = x.view /\ y.snap = x.snap
        /\ y.done = x.done /\ y.job = x.job
    BY <1>1, <1>6 DEF Hears, StreamRec
  <2>2. EventsIn(y.ch) = EventsIn(x.ch) \cup {event} BY <1>1, <2>1, ChannelEvents
  <2>3. QED BY <1>1, <1>6, <2>1, <2>2 DEF StreamFinal
<1>7. ASSUME NEW j \in Job, NEW i \in Row, Hears(x, y, StepEvent(i, work[j][i].status))
      PROVE  StreamFinal(f, y)
  <2>1. work[j][i].status \in Status BY TypesOf DEF WorkRec
  <2>2. QED BY <1>6, <1>7, <2>1, EventTypes DEF StepEvent
<1>8. ASSUME NEW j \in Job, x.job = j, run[j].pc = "send",
             Hears(x, y, DoneEvent(run[j].steps))
      PROVE  StreamFinal(f, y)
  <2>1. run[j].steps \in Steps BY TypesOf DEF RunRec
  <2>2. Ended(f, j, run[j].steps) BY <1>8 DEF FinalOf, RunFinal
  <2>3. QED BY <1>6, <1>8, <2>1, <2>2, EventTypes DEF DoneEvent
<1>9. QED BY <1>2, <1>3, <1>4, <1>5, <1>7, <1>8, StreamKinds DEF x, y

\* A stream of an open job gets no end.
LEMMA OpenStreamNext ==
  ASSUME Struct, [Next]_vars, Finality, NEW s \in Stream, NEW j \in Job,
         stream'[s].job = j, Open(j)
  PROVE  OpenStream(stream'[s])
<1> DEFINE x == stream[s]
           y == stream'[s]
<1>1. /\ x \in StreamRec /\ x.ch \in Seq(Event) /\ NotDone(j)
      /\ y.job = j
      /\ x.job = j => OpenStream(x)
  BY TypesOf DEF Finality, NotDone, StreamRec
<1> SUFFICES OpenStream(y) OBVIOUS
<1> HIDE DEF x, y
<1>2. CASE Leaves(x, y) BY <1>1, <1>2, ChannelEvents DEF OpenStream, Leaves
<1>3. CASE Begins(x, y)
  <2>1. \A n \in DOMAIN jobs : jobs[n].id = j => jobs[n].state = "running"
    BY <1>1, EntryTypes DEF NotDone
  <2>2. EventsIn(y.ch) = {} BY <1>1, <1>3, ChannelEvents DEF Begins
  <2>3. QED BY <1>1, <1>3, <2>1, <2>2 DEF Begins, OpenStream
<1>4. CASE Shows(x, y)
  <2>1. y.snap.state = "running" BY <1>4 DEF Shows, NoStream
  <2>2. QED BY <1>1, <1>4, <2>1 DEF Shows, OpenStream
<1>5. CASE Takes(x, y)
  <2>1. /\ Head(x.ch) \in EventsIn(x.ch) /\ EventsIn(Tail(x.ch)) \subseteq EventsIn(x.ch)
        /\ y.ch = Tail(x.ch)
    BY <1>1, <1>5, ChannelEvents DEF Takes
  <2>2. OpenStream(x) /\ y.snap = x.snap BY <1>1, <1>5 DEF Takes
  <2>3. Head(x.ch).kind = "step" BY <2>1, <2>2 DEF OpenStream
  <2>4. ~y.done BY <1>5, <2>3 DEF Takes
  <2>5. QED BY <2>1, <2>2, <2>4 DEF OpenStream
<1>6. ASSUME NEW event \in Event, Hears(x, y, event), event.kind = "step"
      PROVE  OpenStream(y)
  <2>1. /\ y.ch = Append(x.ch, event) /\ y.snap = x.snap
        /\ y.done = x.done /\ y.job = x.job
    BY <1>1, <1>6 DEF Hears, StreamRec
  <2>2. EventsIn(y.ch) = EventsIn(x.ch) \cup {event} BY <1>1, <2>1, ChannelEvents
  <2>3. QED BY <1>1, <1>6, <2>1, <2>2 DEF OpenStream
<1>7. ASSUME NEW k \in Job, NEW i \in Row, Hears(x, y, StepEvent(i, work[k][i].status))
      PROVE  OpenStream(y)
  <2>1. work[k][i].status \in Status BY TypesOf DEF WorkRec
  <2>2. QED BY <1>6, <1>7, <2>1, EventTypes DEF StepEvent
<1>8. ASSUME NEW k \in Job, x.job = k, run[k].pc = "send",
             Hears(x, y, DoneEvent(run[k].steps))
      PROVE  FALSE
  <2>1. y.job = x.job BY <1>1, <1>8 DEF Hears, StreamRec
  <2>2. QED BY <1>1, <1>8, <2>1 DEF Open
<1>9. QED BY <1>2, <1>3, <1>4, <1>5, <1>7, <1>8, StreamKinds DEF x, y

\* A stream that told the end tells nothing more.
LEMMA DoneIsLast ==
  ASSUME Struct, [Next]_vars, Finality, NEW s \in Stream, stream'[s].done
  PROVE  stream'[s].pc \in {"cancel", "over"}
<1> DEFINE x == stream[s]
           y == stream'[s]
<1>1. /\ x \in StreamRec /\ y.done
      /\ x.done => x.pc \in {"cancel", "over"}
  BY TypesOf DEF Finality
<1> SUFFICES y.pc \in {"cancel", "over"} OBVIOUS
<1> HIDE DEF x, y
<1>2. CASE Leaves(x, y) BY <1>1, <1>2 DEF Leaves
<1>3. CASE Begins(x, y) BY <1>1, <1>3 DEF Begins
<1>4. CASE Shows(x, y) BY <1>1, <1>4 DEF Shows
<1>5. CASE Takes(x, y) BY <1>1, <1>5 DEF Takes
<1>6. CASE \E event : Hears(x, y, event) BY <1>1, <1>6 DEF Hears, StreamRec
<1>7. QED BY <1>2, <1>3, <1>4, <1>5, <1>6, StreamKinds DEF x, y

\* A stream without a job never subscribed.
LEMMA JoblessStream ==
  ASSUME Struct, NEW s \in Stream, stream[s].job \notin Job
  PROVE  OpenStream(stream[s])
<1>1. stream[s] = NoStream BY DEF Struct, Links, StreamLinks
<1>2. ~NoStream.done /\ NoStream.snap.state = "running" BY DEF NoStream
<1>3. EventsIn(NoStream.ch) = {}
  <2>1. DOMAIN <<>> = {} BY EmptySeq
  <2>2. QED BY <2>1, NoStreamType DEF EventsIn
<1>4. QED BY <1>1, <1>2, <1>3 DEF OpenStream

\* Finish finds every row over.
LEMMA EndIsComplete ==
  ASSUME Struct, RowsOK, NEW j \in Job, NEW n \in DOMAIN jobs, Ends(j, n)
  PROVE  Complete(jobs[n].steps) /\ jobs[n].steps \in Steps
<1>1. jobs[n] \in JobRecord BY TypesOf
<1>2. \A i \in Row : RowMatches(jobs[n].steps[i], work[j][i])
  BY DEF Ends, RowsOK, Progress
<1>3. \A i \in Row : work[j][i].pc \in {"none", "over"} BY Finishes DEF Ends
<1>4. \A i \in Row : jobs[n].steps[i] \in {"absent", "ok", "fail"}
  BY <1>2, <1>3 DEF RowMatches, Terminal
<1>5. QED BY <1>1, <1>4 DEF Complete, WithStatus, JobRecord

\* A step that ends no job in memory changes no end.
LEMMA FinalSteps ==
  ASSUME Struct, RowsOK, [Next]_vars, NEW f, FinalOf(f),
         \A j \in Job : \A n \in DOMAIN jobs : ~Ends(j, n)
  PROVE  FinalOf(f)'
<1>1. ASSUME NEW e \in Entries' PROVE JobFinal(f, e)
  <2>1. e \in Entries \/ e.state = "running" BY EntryKinds
  <2>2. QED BY <2>1 DEF JobFinal, FinalOf
<1>2. ASSUME NEW j \in Job PROVE RunFinal(f, j, run'[j])
  <2>1. run'[j].pc = "send" => run[j].pc = "send" /\ run'[j].steps = run[j].steps
    BY RunKinds
  <2>2. QED BY <2>1 DEF RunFinal, FinalOf
<1>3. \A s \in Stream : StreamFinal(f, stream'[s]) BY StreamFinalNext
<1>4. QED BY <1>1, <1>2, <1>3 DEF FinalOf

\* The end of a job is new: nobody had one of it.
LEMMA FinalEnd ==
  ASSUME Struct, RowsOK, [Next]_vars, Finality, NEW f \in [Job -> Steps], FinalOf(f),
         NEW j \in Job, NEW n \in DOMAIN jobs, Ends(j, n)
  PROVE  \E g \in [Job -> Steps] : FinalOf(g)'
<1>1. PICK end \in Steps : end = jobs[n].steps /\ Complete(end) BY EndIsComplete
<1> DEFINE g == [f EXCEPT ![j] = end]
<1>2. g \in [Job -> Steps] /\ g[j] = end /\ \A k \in Job \ {j} : g[k] = f[k]
  BY <1>1
<1> HIDE DEF g
<1>3. NotDone(j) BY DEF Ends, Open, Finality
<1>4. ASSUME NEW k \in Job, NEW m \in DOMAIN jobs, Ends(k, m) PROVE k = j /\ m = n
  <2>1. Finish(j) /\ Finish(k) /\ run'[k].pc = "send" /\ run[k].pc = "running"
    BY <1>4 DEF Ends
  <2>2. \A q \in Job \ {j} : run'[q] = run[q] BY <2>1, Finishes
  <2>3. k = j BY <2>1, <2>2
  <2>4. jobs[m].id = jobs[n].id BY <1>4, <2>3 DEF Ends
  <2>5. QED BY <2>3, <2>4 DEF Struct, Types, ListOK
<1>5. ASSUME NEW e \in Entries' PROVE JobFinal(g, e)
  <2>1. CASE e \in Entries
    <3>1. e.id \in Job BY <2>1, EntryTypes
    <3>2. e.id = j => e.state = "running" BY <1>3, <2>1 DEF NotDone
    <3>3. JobFinal(f, e) BY <2>1 DEF FinalOf
    <3>4. QED BY <1>2, <3>1, <3>2, <3>3 DEF JobFinal, Ended
  <2>2. CASE e.state = "running" BY <2>2 DEF JobFinal
  <2>3. CASE e = [jobs[n] EXCEPT !.state = "done"]
    <3>1. e.steps = end /\ e.id = j BY <2>3, <1>1, TypesOf DEF JobRecord, Ends
    <3>2. QED BY <1>1, <1>2, <3>1 DEF JobFinal, Ended
  <2>4. QED BY <1>4, <2>1, <2>2, <2>3, EntryKinds
<1>6. ASSUME NEW k \in Job PROVE RunFinal(g, k, run'[k])
  <2>1. CASE k = j
    <3>1. run'[k].steps = end BY <1>1, <2>1 DEF Ends
    <3>2. QED BY <1>1, <1>2, <2>1, <3>1 DEF RunFinal, Ended
  <2>2. CASE k # j
    <3>1. run'[k] = run[k] BY <2>2, Finishes DEF Ends
    <3>2. RunFinal(f, k, run[k]) BY DEF FinalOf
    <3>3. QED BY <1>2, <2>2, <3>1, <3>2 DEF RunFinal, Ended
  <2>3. QED BY <2>1, <2>2
<1>7. ASSUME NEW s \in Stream PROVE StreamFinal(g, stream'[s])
  <2> DEFINE x == stream[s]
  <2>1. stream'[s] = x BY Finishes DEF Ends
  <2>2. CASE x.job \in Job \ {j}
    <3>1. StreamFinal(f, x) BY DEF FinalOf
    <3>2. g[x.job] = f[x.job] BY <1>2, <2>2
    <3> HIDE DEF x
    <3>3. QED BY <2>1, <3>1, <3>2 DEF StreamFinal, Ended
  <2>3. CASE x.job \notin Job \ {j}
    <3>1. OpenStream(x) BY <1>3, <2>3, JoblessStream DEF NotDone
    <3> HIDE DEF x
    <3>2. QED BY <2>1, <3>1 DEF StreamFinal, OpenStream
  <2>4. QED BY <2>2, <2>3
<1>8. FinalOf(g)' BY <1>5, <1>6, <1>7 DEF FinalOf
<1>9. QED BY <1>2, <1>8

\* Finality is inductive relative to Struct and RowsOK.
LEMMA FinalityNext == Struct /\ RowsOK /\ Finality /\ [Next]_vars => Finality'
<1> SUFFICES ASSUME Struct, RowsOK, Finality, [Next]_vars PROVE Finality'
  OBVIOUS
<1>1. PICK f \in [Job -> Steps] : FinalOf(f) BY DEF Finality
<1>2. \E g \in [Job -> Steps] : FinalOf(g)'
  <2>1. CASE \E j \in Job : \E n \in DOMAIN jobs : Ends(j, n) BY <1>1, <2>1, FinalEnd
  <2>2. CASE \A j \in Job : \A n \in DOMAIN jobs : ~Ends(j, n)
    <3>1. FinalOf(f)' BY <1>1, <2>2, FinalSteps
    <3>2. QED BY <3>1
  <2>3. QED BY <2>1, <2>2
<1>3. ASSUME NEW j \in Job, Open(j)' PROVE NotDone(j)'
  <2>1. Open(j) /\ NotDone(j) BY <1>3, RunKinds DEF Finality
  <2>2. ASSUME NEW e \in Entries', e.id = j PROVE e.state = "running"
    <3>1. CASE e \in Entries BY <2>1, <2>2, <3>1 DEF NotDone
    <3>2. CASE \E k \in Job : \E n \in DOMAIN jobs :
                 Ends(k, n) /\ e = [jobs[n] EXCEPT !.state = "done"]
      <4>1. PICK k \in Job, n \in DOMAIN jobs :
              Ends(k, n) /\ e = [jobs[n] EXCEPT !.state = "done"]
        BY <3>2
      <4>2. e.id = jobs[n].id BY <4>1, TypesOf DEF JobRecord
      <4>3. run'[j].pc = "send" BY <2>2, <4>1, <4>2 DEF Ends
      <4>4. QED BY <1>3, <4>3 DEF Open
    <3>3. QED BY <3>1, <3>2, EntryKinds
  <2>3. \A s \in Stream : stream'[s].job = j => OpenStream(stream'[s])
    BY <2>1, OpenStreamNext
  <2>4. QED BY <2>2, <2>3 DEF NotDone
<1>4. \A s \in Stream : stream'[s].done => stream'[s].pc \in {"cancel", "over"}
  BY DoneIsLast
<1>5. QED BY <1>2, <1>3, <1>4 DEF Finality

\* A job ends once: all copies of it that are done, in memory, on disk, in a save, in
\* a broadcast, in a channel or at a client, have the same rows.
THEOREM FinalityInv == Spec => [](Struct /\ RowsOK /\ Finality)
<1>1. QED
  BY StructInit, StructNext, RowsInit, RowsNext, FinalityInit, FinalityNext, PTL DEF Spec

\* A client that was told "done" has seen the outcome of every row of the job,
\* whatever events its stream dropped.
THEOREM DoneViewsAreFinal == Spec => []DoneViewIsFinal
<1>1. Struct /\ Finality => DoneViewIsFinal
  <2> SUFFICES ASSUME Struct, Finality, NEW s \in Stream, stream[s].done
               PROVE  /\ Complete(stream[s].view)
                      /\ \A n \in DOMAIN jobs :
                           jobs[n].id = stream[s].job /\ jobs[n].state = "done"
                             => jobs[n].steps = stream[s].view
    BY DEF DoneViewIsFinal, Complete
  <2>1. PICK f \in [Job -> Steps] : FinalOf(f) BY DEF Finality
  <2>2. Ended(f, stream[s].job, stream[s].view) BY <2>1 DEF FinalOf, StreamFinal
  <2>3. \A n \in DOMAIN jobs : JobFinal(f, jobs[n]) BY <2>1, EntryTypes DEF FinalOf
  <2>4. QED BY <2>2, <2>3 DEF Ended, JobFinal
<1>2. QED BY <1>1, FinalityInv, PTL

-----------------------------------------------------------------------------
(* The order of what a client sees: ViewNeverGoesBack.                     *)

\* How far a row has come, by its runner and its worker.
Level(r, w, i) ==
  CASE r.pc = "created" -> Rank[StepsOf(r.rows)[i]]
    [] r.pc = "running" ->
         (CASE w.pc = "none" -> 0
            [] w.pc \in {"todo", "start"} -> 1
            [] w.pc = "send" -> Rank[w.status]
            [] w.pc \in {"login", "written"} -> 2
            [] OTHER -> 3)
    [] r.pc = "send" -> Rank[r.steps[i]]
    [] OTHER -> 3

\* An event tells the status of one row, or of all.
Tells(e, i) == e.kind = "done" \/ e.row = i

Told(e, i) == IF e.kind = "done" THEN e.steps[i] ELSE e.status

\* What the client has when it gets the first event of the channel.
Base(x) == IF x.pc = "snapshot" THEN x.snap.steps ELSE x.view

\* The client, the channel and the job: each is as far as the one before.
Ordered(x, level) ==
  /\ x.pc = "snapshot" => x.view = StepsOf({})
  /\ \A i \in Row : Rank[Base(x)[i]] <= level[i]
  /\ \A k \in DOMAIN x.ch, i \in Row : Tells(x.ch[k], i) =>
       /\ Rank[Base(x)[i]] <= Rank[Told(x.ch[k], i)]
       /\ Rank[Told(x.ch[k], i)] <= level[i]
  /\ \A k, l \in DOMAIN x.ch, i \in Row :
       k <= l /\ Tells(x.ch[k], i) /\ Tells(x.ch[l], i)
         => Rank[Told(x.ch[k], i)] <= Rank[Told(x.ch[l], i)]

LevelOf(r, w) == [i \in Row |-> Level(r, w[i], i)]

Listening(x) == x.pc \in {"snapshot", "events"}

Order ==
  \A s \in Stream : Listening(stream[s]) =>
    Ordered(stream[s], LevelOf(run[stream[s].job], work[stream[s].job]))

\* The ranks.
LEMMA Ranks ==
  /\ Rank["absent"] = 0 /\ Rank["pending"] = 1 /\ Rank["running"] = 2
  /\ Rank["ok"] = 3 /\ Rank["fail"] = 3
  /\ \A status \in Status : Rank[status] \in 0 .. 3
BY DEF Rank, Status

\* The cases of Level, one by one.
LEMMA LevelValues ==
  ASSUME NEW r \in RunRec, NEW w \in WorkRec, NEW i \in Row
  PROVE  /\ Level(r, w, i) \in 0 .. 3
         /\ r.pc = "created" => Level(r, w, i) = IF i \in r.rows THEN 1 ELSE 0
         /\ r.pc = "running" =>
              /\ w.pc = "none" => Level(r, w, i) = 0
              /\ w.pc \in {"todo", "start"} => Level(r, w, i) = 1
              /\ w.pc = "send" => Level(r, w, i) = Rank[w.status]
              /\ w.pc \in {"login", "written"} => Level(r, w, i) = 2
              /\ w.pc = "over" => Level(r, w, i) = 3
         /\ r.pc = "send" => Level(r, w, i) = Rank[r.steps[i]]
         /\ r.pc \notin {"created", "running", "send"} => Level(r, w, i) = 3
<1>1. r.pc = "created" => Level(r, w, i) = IF i \in r.rows THEN 1 ELSE 0
  BY Ranks DEF Level, StepsOf
<1>2. r.pc = "running" =>
        /\ w.pc = "none" => Level(r, w, i) = 0
        /\ w.pc \in {"todo", "start"} => Level(r, w, i) = 1
        /\ w.pc = "send" => Level(r, w, i) = Rank[w.status]
        /\ w.pc \in {"login", "written"} => Level(r, w, i) = 2
        /\ w.pc = "over" => Level(r, w, i) = 3
  BY DEF Level
<1>3. r.pc = "send" => Level(r, w, i) = Rank[r.steps[i]] BY DEF Level
<1>4. r.pc \notin {"created", "running", "send"} => Level(r, w, i) = 3 BY DEF Level
<1>5. Level(r, w, i) \in 0 .. 3
  <2>1. r.steps[i] \in Status /\ w.status \in Status BY DEF RunRec, WorkRec, Steps
  <2>2. Rank[r.steps[i]] \in 0 .. 3 /\ Rank[w.status] \in 0 .. 3 BY <2>1, Ranks
  <2>3. w.pc \in {"none", "todo", "start", "login", "written", "send", "over"} BY DEF WorkRec
  <2>4. 0 \in 0 .. 3 /\ 1 \in 0 .. 3 /\ 2 \in 0 .. 3 /\ 3 \in 0 .. 3 OBVIOUS
  <2>5. QED BY <1>1, <1>2, <1>3, <1>4, <2>2, <2>3, <2>4
<1>6. QED BY <1>1, <1>2, <1>3, <1>4, <1>5

\* Every worker goes forward.
LEMMA WorkerForward ==
  ASSUME Struct, [Next]_vars, NEW j \in Job, NEW i \in Row,
         WorkerMove(j, i) \/ RowUpdate(j, i)
  PROVE  Level(run[j], work[j][i], i) <= Level(run'[j], work'[j][i], i)
<1> DEFINE w == work[j][i]
           z == work'[j][i]
<1>1. w \in WorkRec /\ run[j] \in RunRec BY TypesOf
<1>2. z \in WorkRec BY StructNext DEF Struct, Types, WorkType
<1>3. w.pc = "send" => w.status \in {"running", "ok", "fail"} BY DEF Struct, Links, WorkLinks
<1>4. run' = run /\ run[j].pc = "running" BY WorkerMoves, RowUpdates
<1>5. \/ w.pc = "todo" /\ z.pc = "start"
      \/ w.pc = "login" /\ z.pc = "written"
      \/ w.pc = "send" /\ z = Skipped(w.status)
      \/ w.pc = "send" /\ z.pc = "send" /\ z.status = w.status
      \/ \E status \in {"running", "ok", "fail"} :
           /\ \/ w.pc = "start" /\ status = "running"
              \/ w.pc = "login" /\ status = "fail"
              \/ w.pc = "written" /\ status = "ok"
           /\ z = Sending(j, status) \/ z = Skipped(status)
  <2>1. CASE WorkerMove(j, i) BY <2>1, WorkerMoves
  <2>2. CASE RowUpdate(j, i)
    <3>1. PICK status \in {"running", "ok", "fail"} :
            /\ \/ work[j][i].pc = "start" /\ status = "running"
               \/ work[j][i].pc = "login" /\ status = "fail"
               \/ work[j][i].pc = "written" /\ status = "ok"
            /\ \/ Known(j) /\ work'[j][i] = Sending(j, status)
               \/ ~Known(j) /\ work'[j][i] = Skipped(status)
      BY <2>2, RowUpdates
    <3>2. QED BY <3>1
  <2>3. QED BY <2>1, <2>2
<1> HIDE DEF w, z
<1> SUFFICES Level(run[j], w, i) <= Level(run[j], z, i) BY <1>4 DEF w, z
<1>6. CASE w.pc = "send" /\ z.pc = "send" /\ z.status = w.status
  <2>1. Level(run[j], w, i) = Rank[w.status] /\ Level(run[j], z, i) = Rank[w.status]
    BY <1>1, <1>2, <1>4, <1>6, LevelValues
  <2>2. Level(run[j], w, i) \in 0 .. 3 BY <1>1, LevelValues
  <2>3. QED BY <2>1, <2>2
<1>7. CASE w.pc = "send" /\ z = Skipped(w.status)
  <2>1. \/ w.status = "running" /\ z.pc = "login"
        \/ w.status # "running" /\ z.pc = "over"
    BY <1>7 DEF Skipped
  <2>2. \/ w.status = "running" /\ Level(run[j], w, i) = 2 /\ Level(run[j], z, i) = 2
        \/ Level(run[j], z, i) = 3
    BY <1>1, <1>2, <1>4, <1>7, <2>1, LevelValues, Ranks
  <2>3. Level(run[j], w, i) \in 0 .. 3 BY <1>1, LevelValues
  <2>4. QED BY <2>2, <2>3
<1>8. ASSUME NEW status \in {"running", "ok", "fail"},
             \/ w.pc = "start" /\ status = "running"
             \/ w.pc = "login" /\ status = "fail"
             \/ w.pc = "written" /\ status = "ok",
             z = Sending(j, status) \/ z = Skipped(status)
      PROVE  Level(run[j], w, i) <= Level(run[j], z, i)
  <2>1. \/ z.pc = "send" /\ z.status = status
        \/ status = "running" /\ z.pc = "login"
        \/ status # "running" /\ z.pc = "over"
    BY <1>8 DEF Sending, Skipped
  <2>2. \/ status = "running" /\ Level(run[j], z, i) = 2
        \/ status # "running" /\ Level(run[j], z, i) = 3
    BY <1>1, <1>2, <1>4, <2>1, LevelValues, Ranks
  <2>3. \/ status = "running" /\ Level(run[j], w, i) = 1
        \/ Level(run[j], w, i) = 2 /\ status # "running"
    BY <1>1, <1>4, <1>8, LevelValues
  <2>4. QED BY <2>2, <2>3
<1>9. CASE \/ w.pc = "todo" /\ z.pc = "start"
           \/ w.pc = "login" /\ z.pc = "written"
  <2>1. \/ Level(run[j], w, i) = 1 /\ Level(run[j], z, i) = 1
        \/ Level(run[j], w, i) = 2 /\ Level(run[j], z, i) = 2
    BY <1>1, <1>2, <1>4, <1>9, LevelValues
  <2>2. QED BY <2>1
<1>10. QED BY <1>5, <1>6, <1>7, <1>8, <1>9

\* Finish leaves every row where its worker has brought it.
LEMMA FinishForward ==
  ASSUME Struct, RowsOK, [Next]_vars, NEW j \in Job, NEW i \in Row, Finish(j)
  PROVE  Level(run[j], work[j][i], i) <= Level(run'[j], work'[j][i], i)
<1> DEFINE w == work[j][i]
<1>1. w \in WorkRec /\ run[j] \in RunRec /\ run'[j] \in RunRec
  BY StructNext, TypesOf DEF Struct, Types, RunType
<1>2. /\ run[j].pc = "running" /\ w.pc \in {"none", "over"} /\ work' = work
      /\ \/ run'[j].pc = "over"
         \/ run'[j].pc = "send" /\ \E n \in DOMAIN jobs :
              jobs[n].id = j /\ run'[j].steps = jobs[n].steps
  <2>1. run[j].pc = "running" /\ w.pc \in {"none", "over"} /\ work' = work
    BY Finishes
  <2>2. \/ run'[j].pc = "over"
        \/ \E n \in DOMAIN jobs :
             /\ jobs[n].id = j /\ jobs[n].state = "running" /\ jobs[n] \in JobRecord
             /\ run'[j].pc = "send" /\ run'[j].steps = jobs[n].steps
             /\ run'[j].to = Attached(j)
    BY Finishes
  <2>3. QED BY <2>1, <2>2
<1> HIDE DEF w
<1> SUFFICES Level(run[j], w, i) <= Level(run'[j], w, i) BY <1>2 DEF w
<1>3. Level(run[j], w, i) \in 0 .. 3 BY <1>1, LevelValues
<1>4. CASE run'[j].pc = "over"
  <2>1. Level(run'[j], w, i) = 3 BY <1>1, <1>4, LevelValues
  <2>2. QED BY <1>3, <2>1
<1>5. ASSUME NEW n \in DOMAIN jobs, jobs[n].id = j, run'[j].steps = jobs[n].steps,
             run'[j].pc = "send"
      PROVE  Level(run[j], w, i) <= Level(run'[j], w, i)
  <2>1. RowMatches(jobs[n].steps[i], w) BY <1>2, <1>5 DEF RowsOK, Progress, w
  <2>2. Level(run'[j], w, i) = Rank[jobs[n].steps[i]] BY <1>1, <1>5, LevelValues
  <2>3. \/ w.pc = "none" /\ Level(run[j], w, i) = 0 /\ jobs[n].steps[i] = "absent"
        \/ w.pc = "over" /\ Level(run[j], w, i) = 3 /\ jobs[n].steps[i] \in {"ok", "fail"}
    BY <1>1, <1>2, <2>1, LevelValues DEF RowMatches, Terminal
  <2>4. QED BY <2>2, <2>3, Ranks
<1>6. QED BY <1>2, <1>4, <1>5

\* No row of a job that exists ever goes back.
LEMMA LevelsForward ==
  ASSUME Struct, RowsOK, [Next]_vars, NEW j \in Job \ Fresh, NEW i \in Row
  PROVE  /\ Level(run[j], work[j][i], i) \in 0 .. 3
         /\ Level(run'[j], work'[j][i], i) \in 0 .. 3
         /\ Level(run[j], work[j][i], i) <= Level(run'[j], work'[j][i], i)
<1> DEFINE Forward == Level(run[j], work[j][i], i) <= Level(run'[j], work'[j][i], i)
<1>1. /\ run[j] \in RunRec /\ work[j][i] \in WorkRec
      /\ run'[j] \in RunRec /\ work'[j][i] \in WorkRec
  BY StructNext, TypesOf DEF Struct, Types, RunType, WorkType
<1>2. /\ Level(run[j], work[j][i], i) \in 0 .. 3
      /\ Level(run'[j], work'[j][i], i) \in 0 .. 3
  BY <1>1, LevelValues
<1> SUFFICES Forward BY <1>2
<1>3. ASSUME run'[j] = run[j], work'[j][i] = work[j][i] PROVE Forward BY <1>2, <1>3
<1>4. ASSUME run'[j].pc \in {"save", "saving", "over"} PROVE Forward
  <2>1. Level(run'[j], work'[j][i], i) = 3 BY <1>1, <1>4, LevelValues
  <2>2. QED BY <1>2, <2>1
<1>5. CASE QuietStep BY <1>3, <1>5, QuietEffect
<1>6. CASE RunnerMove
  <2>1. work' = work BY <1>6, RunnerMoves
  <2>2. \/ run'[j] = run[j]
        \/ run[j].pc = "send" /\ run'[j].pc = "send" /\ run'[j].steps = run[j].steps
        \/ run'[j].pc \in {"save", "saving", "over"}
    BY <1>6, RunnerMoves
  <2>3. CASE run[j].pc = "send" /\ run'[j].pc = "send" /\ run'[j].steps = run[j].steps
    <3>1. Level(run[j], work[j][i], i) = Level(run'[j], work'[j][i], i)
      BY <1>1, <2>3, LevelValues
    <3>2. QED BY <1>2, <3>1
  <2>4. QED BY <1>3, <1>4, <2>1, <2>2, <2>3
<1>7. ASSUME NEW k \in Job, NEW m \in Row, WorkerMove(k, m) \/ RowUpdate(k, m) PROVE Forward
  <2>1. CASE k = j /\ m = i BY <1>7, <2>1, WorkerForward
  <2>2. CASE k # j \/ m # i
    <3>1. run' = run BY <1>7, WorkerMoves, RowUpdates
    <3>2. work'[j][i] = work[j][i]
      <4>1. CASE WorkerMove(k, m)
        <5>1. \A p \in Job, q \in Row : p # k \/ q # m => work'[p][q] = work[p][q]
          BY <4>1, WorkerMoves
        <5>2. QED BY <2>2, <5>1
      <4>2. CASE RowUpdate(k, m)
        <5>1. \A p \in Job, q \in Row : p # k \/ q # m => work'[p][q] = work[p][q]
          BY <4>2, RowUpdates
        <5>2. QED BY <2>2, <5>1
      <4>3. QED BY <1>7, <4>1, <4>2
    <3>3. QED BY <1>3, <3>1, <3>2
  <2>3. QED BY <2>1, <2>2
<1>8. ASSUME NEW k \in Job, Creation(k) PROVE Forward
  <2>1. k \in Fresh /\ work' = work /\ \A m \in Job \ {k} : run'[m] = run[m]
    BY <1>8, Creates
  <2>2. QED BY <1>3, <2>1
<1>9. ASSUME NEW k \in Job, SaveInputs(k) PROVE Forward
  <2>1. CASE k # j BY <1>3, <1>9, <2>1, SaveInputsEffect
  <2>2. CASE k = j
    <3>1. run[j].pc = "created" /\ run'[j] = [NoRun EXCEPT !.pc = "running"]
      BY <1>9, <2>2, SaveInputsEffect
    <3>2. work'[j][i] = [pc |-> IF i \in run[j].rows THEN "todo" ELSE "none",
                         status |-> "absent", to |-> {}]
      BY <1>9, <2>2, SaveInputsEffect
    <3>3. run'[j].pc = "running" BY <3>1 DEF NoRun
    <3>4. work'[j][i].pc = IF i \in run[j].rows THEN "todo" ELSE "none" BY <3>2
    <3>5. Level(run[j], work[j][i], i) = IF i \in run[j].rows THEN 1 ELSE 0
      BY <1>1, <3>1, LevelValues
    <3>6. Level(run'[j], work'[j][i], i) = IF i \in run[j].rows THEN 1 ELSE 0
      BY <1>1, <3>3, <3>4, LevelValues
    <3>7. QED BY <1>2, <3>5, <3>6
  <2>3. QED BY <2>1, <2>2
<1>10. ASSUME NEW k \in Job, Finish(k) PROVE Forward
  <2>1. CASE k = j BY <1>10, <2>1, FinishForward
  <2>2. CASE k # j
    <3>1. run'[j] = run[j] /\ work' = work BY <1>10, <2>2, Finishes
    <3>2. QED BY <1>3, <3>1
  <2>3. QED BY <2>1, <2>2
<1>11. CASE Delete BY <1>3, <1>11 DEF Delete
<1>12. CASE Restart
  <2>1. run'[j].pc = IF j \in Fresh THEN "none" ELSE "over" BY <1>12, RestartEffect
  <2>2. QED BY <1>4, <2>1
<1> HIDE DEF Forward
<1>13. QED
  BY <1>5, <1>6, <1>7, <1>8, <1>9, <1>10, <1>11, <1>12, StepKinds

\* What a client has and is told are statuses.
LEMMA ToldTypes ==
  ASSUME NEW x \in StreamRec, NEW i \in Row
  PROVE  /\ Rank[Base(x)[i]] \in 0 .. 3
         /\ \A e \in Event : Rank[Told(e, i)] \in 0 .. 3
         /\ \A k \in DOMAIN x.ch : x.ch[k] \in Event
<1>1. Base(x) \in Steps /\ x.ch \in Seq(Event) BY DEF Base, StreamRec
<1>2. Base(x)[i] \in Status BY <1>1 DEF Steps
<1>3. ASSUME NEW e \in Event PROVE Told(e, i) \in Status
  BY DEF Event, Told, Steps
<1>4. \A k \in DOMAIN x.ch : x.ch[k] \in Event BY <1>1, LenProperties, ElementOfSeq
<1>5. QED BY <1>2, <1>3, <1>4, Ranks

\* The job may go on alone.
LEMMA OrderedMore ==
  ASSUME NEW x \in StreamRec, NEW level \in [Row -> 0 .. 3], NEW more \in [Row -> 0 .. 3],
         \A i \in Row : level[i] <= more[i],
         Ordered(x, level)
  PROVE  Ordered(x, more)
<1>1. \A a, b, c \in 0 .. 3 : a <= b /\ b <= c => a <= c OBVIOUS
<1>2. ASSUME NEW i \in Row PROVE Rank[Base(x)[i]] <= more[i]
  <2>1. Rank[Base(x)[i]] <= level[i] BY DEF Ordered
  <2>2. Rank[Base(x)[i]] \in 0 .. 3 BY ToldTypes
  <2>3. QED BY <1>1, <2>1, <2>2
<1>3. ASSUME NEW k \in DOMAIN x.ch, NEW i \in Row, Tells(x.ch[k], i)
      PROVE  /\ Rank[Base(x)[i]] <= Rank[Told(x.ch[k], i)]
             /\ Rank[Told(x.ch[k], i)] <= more[i]
  <2>1. /\ Rank[Base(x)[i]] <= Rank[Told(x.ch[k], i)]
        /\ Rank[Told(x.ch[k], i)] <= level[i]
    BY <1>3 DEF Ordered
  <2>2. Rank[Told(x.ch[k], i)] \in 0 .. 3 BY ToldTypes
  <2>3. QED BY <1>1, <2>1, <2>2
<1>4. QED BY <1>2, <1>3 DEF Ordered

\* A broadcast tells a row as far as it is now.
LEMMA OrderedHears ==
  ASSUME NEW x \in StreamRec, NEW event \in Event, NEW level \in [Row -> 0 .. 3],
         Ordered(x, level), NEW y, Hears(x, y, event),
         \A i \in Row : Tells(event, i) => Rank[Told(event, i)] = level[i]
  PROVE  Ordered(y, level)
<1> DEFINE ch == x.ch
           new == Append(ch, event)
<1>1. ch \in Seq(Event) /\ Len(ch) \in Nat /\ DOMAIN ch = 1 .. Len(ch)
  BY LenProperties DEF StreamRec
<1>2. /\ new \in Seq(Event) /\ Len(new) = Len(ch) + 1
      /\ \A k \in 1 .. Len(ch) : new[k] = ch[k]
      /\ new[Len(ch) + 1] = event
  BY <1>1, AppendProperties
<1>3. DOMAIN new = 1 .. Len(ch) + 1 BY <1>2, LenProperties
<1>4. /\ y.ch = new /\ y.view = x.view /\ y.pc = x.pc /\ y.snap = x.snap
  BY DEF Hears, StreamRec
<1>5. Base(y) = Base(x) BY <1>4 DEF Base
<1> HIDE DEF ch, new
<1>6. ASSUME NEW k \in DOMAIN new, NEW i \in Row, Tells(new[k], i)
      PROVE  /\ Rank[Base(x)[i]] <= Rank[Told(new[k], i)]
             /\ Rank[Told(new[k], i)] <= level[i]
  <2>1. CASE k \in 1 .. Len(ch)
    <3>1. new[k] = ch[k] /\ k \in DOMAIN ch BY <1>1, <1>2, <2>1
    <3>2. QED BY <1>6, <3>1 DEF Ordered, ch
  <2>2. CASE k = Len(ch) + 1
    <3>1. new[k] = event BY <1>2, <2>2
    <3>2. Rank[Told(event, i)] = level[i] BY <1>6, <3>1
    <3>3. Rank[Base(x)[i]] <= level[i] BY DEF Ordered
    <3>4. level[i] \in 0 .. 3 OBVIOUS
    <3>5. QED BY <3>1, <3>2, <3>3, <3>4
  <2>3. QED BY <1>1, <1>3, <2>1, <2>2
<1>7. ASSUME NEW k \in DOMAIN new, NEW l \in DOMAIN new, NEW i \in Row, k <= l,
             Tells(new[k], i), Tells(new[l], i)
      PROVE  Rank[Told(new[k], i)] <= Rank[Told(new[l], i)]
  <2>1. CASE l \in 1 .. Len(ch)
    <3>1. k \in 1 .. Len(ch) BY <1>1, <1>3, <1>7, <2>1
    <3>2. /\ new[k] = ch[k] /\ k \in DOMAIN ch
          /\ new[l] = ch[l] /\ l \in DOMAIN ch
      BY <1>1, <1>2, <2>1, <3>1
    <3>3. QED BY <1>7, <3>2 DEF Ordered, ch
  <2>2. CASE l = Len(ch) + 1
    <3>1. new[l] = event BY <1>2, <2>2
    <3>2. Rank[Told(new[l], i)] = level[i] BY <1>7, <3>1
    <3>3. Rank[Told(new[k], i)] <= level[i] BY <1>6, <1>7
    <3>4. QED BY <3>2, <3>3
  <2>3. QED BY <1>1, <1>3, <2>1, <2>2
<1>8. QED BY <1>4, <1>5, <1>6, <1>7 DEF Ordered

\* The client comes as far as the event it takes.
LEMMA OrderedTakes ==
  ASSUME NEW x \in StreamRec, NEW level \in [Row -> 0 .. 3], Ordered(x, level),
         NEW y, Takes(x, y)
  PROVE  /\ \A i \in Row : Rank[x.view[i]] <= Rank[y.view[i]]
         /\ y.pc = "events" => Ordered(y, level)
<1> DEFINE ch == x.ch
           rest == Tail(ch)
           head == Head(ch)
<1>1. ch \in Seq(Event) /\ Len(ch) \in Nat /\ DOMAIN ch = 1 .. Len(ch) /\ ch # <<>>
  BY LenProperties DEF StreamRec, Takes
<1>2. /\ head = ch[1] /\ rest \in Seq(Event) /\ Len(rest) = Len(ch) - 1
      /\ \A k \in 1 .. Len(rest) : rest[k] = ch[k + 1]
  BY <1>1, HeadTailProperties
<1>3. 1 \in DOMAIN ch BY <1>1, EmptySeq
<1>4. DOMAIN rest = 1 .. Len(rest) BY <1>2, LenProperties
<1>5. \A k \in DOMAIN rest : k + 1 \in DOMAIN ch /\ rest[k] = ch[k + 1] /\ 1 <= k + 1
  BY <1>1, <1>2, <1>4
<1>6. /\ x.pc = "events" /\ y.ch = rest /\ head \in Event
      /\ \/ /\ head.kind = "step" /\ y.pc = "events"
            /\ y.view = [x.view EXCEPT ![head.row] = head.status]
         \/ head.kind = "done" /\ y.pc = "cancel" /\ y.view = head.steps
  BY DEF Takes
<1>7. Base(x) = x.view /\ x.view \in Steps /\ DOMAIN x.view = Row
  BY <1>6 DEF Base, StreamRec, Steps
<1> HIDE DEF ch, rest, head
<1>8. \A i \in Row : y.view[i] = IF Tells(head, i) THEN Told(head, i) ELSE x.view[i]
  BY <1>6, <1>7 DEF Tells, Told
<1>9. \A i \in Row : Rank[x.view[i]] \in 0 .. 3 BY <1>7, ToldTypes
<1>10. \A i \in Row : Tells(head, i) =>
         Rank[x.view[i]] <= Rank[Told(head, i)] /\ Rank[Told(head, i)] <= level[i]
  BY <1>2, <1>3, <1>7 DEF Ordered, ch
<1>11. ASSUME NEW i \in Row PROVE Rank[x.view[i]] <= Rank[y.view[i]]
  <2>1. CASE Tells(head, i) BY <1>8, <1>10, <2>1
  <2>2. CASE ~Tells(head, i) BY <1>8, <1>9, <2>2
  <2>3. QED BY <2>1, <2>2
<1>12. ASSUME y.pc = "events" PROVE Ordered(y, level)
  <2>1. Base(y) = y.view BY <1>12 DEF Base
  <2>2. \A i \in Row : Rank[y.view[i]] <= level[i]
    <3>1. \A i \in Row : Rank[x.view[i]] <= level[i] BY <1>7 DEF Ordered
    <3>2. QED BY <1>8, <1>10, <3>1
  <2>3. ASSUME NEW k \in DOMAIN rest, NEW i \in Row, Tells(rest[k], i)
        PROVE  /\ Rank[y.view[i]] <= Rank[Told(rest[k], i)]
               /\ Rank[Told(rest[k], i)] <= level[i]
    <3>1. /\ rest[k] = ch[k + 1] /\ k + 1 \in DOMAIN ch /\ 1 <= k + 1
          /\ Tells(ch[k + 1], i)
      BY <1>5, <2>3
    <3>2. /\ Rank[x.view[i]] <= Rank[Told(ch[k + 1], i)]
          /\ Rank[Told(ch[k + 1], i)] <= level[i]
      BY <1>7, <3>1 DEF Ordered, ch
    <3>3. Tells(head, i) => Rank[Told(head, i)] <= Rank[Told(ch[k + 1], i)]
      <4>1. \A l \in DOMAIN ch : 1 <= l /\ Tells(ch[1], i) /\ Tells(ch[l], i)
                                    => Rank[Told(ch[1], i)] <= Rank[Told(ch[l], i)]
        BY <1>3 DEF Ordered, ch
      <4>2. QED BY <1>2, <3>1, <4>1
    <3>4. Rank[y.view[i]] <= Rank[Told(ch[k + 1], i)]
      <4>1. CASE Tells(head, i) BY <1>8, <3>3, <4>1
      <4>2. CASE ~Tells(head, i) BY <1>8, <3>2, <4>2
      <4>3. QED BY <4>1, <4>2
    <3>5. QED BY <3>1, <3>2, <3>4
  <2>4. ASSUME NEW k \in DOMAIN rest, NEW l \in DOMAIN rest, NEW i \in Row, k <= l,
               Tells(rest[k], i), Tells(rest[l], i)
        PROVE  Rank[Told(rest[k], i)] <= Rank[Told(rest[l], i)]
    <3>1. k + 1 <= l + 1 BY <1>1, <1>2, <1>4, <2>4
    <3>2. /\ rest[k] = ch[k + 1] /\ k + 1 \in DOMAIN ch
          /\ rest[l] = ch[l + 1] /\ l + 1 \in DOMAIN ch
      BY <1>5
    <3>3. QED BY <2>4, <3>1, <3>2 DEF Ordered, ch
  <2>5. QED BY <1>6, <1>12, <2>1, <2>2, <2>3, <2>4 DEF Ordered
<1>13. QED BY <1>11, <1>12

\* What a subscription copies is as far as the job, and no further.
LEMMA SnapshotLevel ==
  ASSUME Struct, RowsOK, Finality, NEW n \in DOMAIN jobs, NEW i \in Row
  PROVE  Rank[jobs[n].steps[i]] <= Level(run[jobs[n].id], work[jobs[n].id][i], i)
<1> DEFINE j == jobs[n].id
           status == jobs[n].steps[i]
           level == Level(run[j], work[j][i], i)
<1>1. jobs[n] \in JobRecord /\ j \in Job BY TypesOf
<1>2. run[j] \in RunRec /\ work[j][i] \in WorkRec BY <1>1, TypesOf
<1>3. status \in Status BY <1>1 DEF JobRecord, Steps
<1>4. Rank[status] \in 0 .. 3 /\ level \in 0 .. 3 BY <1>2, <1>3, Ranks, LevelValues
<1>5. Progress(jobs[n], run[j], work[j]) BY DEF RowsOK
<1>6. CASE run[j].pc = "created"
  <2>1. jobs[n].steps = StepsOf(run[j].rows) BY <1>5, <1>6 DEF Progress
  <2>2. status = IF i \in run[j].rows THEN "pending" ELSE "absent" BY <2>1 DEF StepsOf
  <2>3. Rank[status] = IF i \in run[j].rows THEN 1 ELSE 0 BY <2>2, Ranks
  <2>4. level = IF i \in run[j].rows THEN 1 ELSE 0 BY <1>2, <1>6, LevelValues
  <2> HIDE DEF level, status
  <2>5. Rank[status] <= level BY <1>4, <2>3, <2>4
  <2>6. QED BY <2>5 DEF level, status
<1>7. CASE run[j].pc = "running"
  <2> DEFINE w == work[j][i]
  <2>1. RowMatches(status, w) BY <1>5, <1>7 DEF Progress
  <2>2. w \in WorkRec /\ run[j] \in RunRec BY <1>2
  <2> HIDE DEF w, status
  <2>3. w.pc \in {"none", "todo", "start", "login", "written", "send", "over"}
    BY <2>2 DEF WorkRec
  <2>4. /\ w.pc = "none" => Rank[status] = 0
        /\ w.pc \in {"todo", "start"} => Rank[status] = 1
        /\ w.pc = "send" => Rank[status] = Rank[w.status]
        /\ w.pc \in {"login", "written"} => Rank[status] = 2
        /\ w.pc = "over" => Rank[status] = 3
    BY <2>1, Ranks DEF RowMatches, Terminal
  <2>5. Level(run[j], w, i) = Rank[status] BY <1>7, <2>2, <2>3, <2>4, LevelValues
  <2>6. level = Rank[status] BY <2>5 DEF w
  <2> HIDE DEF level
  <2>7. Rank[status] <= level BY <1>4, <2>6
  <2>8. QED BY <2>7 DEF level, status
<1>8. CASE run[j].pc = "send"
  <2>1. jobs[n].state = "done" BY <1>5, <1>8 DEF Progress
  <2>2. PICK f \in [Job -> Steps] : FinalOf(f) BY DEF Finality
  <2>3. jobs[n].steps = f[j] BY <2>1, <2>2, EntryTypes DEF FinalOf, JobFinal, Ended
  <2>4. run[j].steps = f[j] BY <1>1, <1>8, <2>2 DEF FinalOf, RunFinal, Ended
  <2>5. level = Rank[run[j].steps[i]] BY <1>2, <1>8, LevelValues
  <2>6. level = Rank[status] BY <2>3, <2>4, <2>5
  <2> HIDE DEF level, status
  <2>7. Rank[status] <= level BY <1>4, <2>6
  <2>8. QED BY <2>7 DEF level, status
<1>9. CASE run[j].pc \notin {"created", "running", "send"}
  <2>1. level = 3 BY <1>2, <1>9, LevelValues
  <2> HIDE DEF level, status
  <2>2. Rank[status] <= level BY <1>4, <2>1
  <2>3. QED BY <2>2 DEF level, status
<1>10. QED BY <1>6, <1>7, <1>8, <1>9

\* The levels of a job as they were, for its streams as they are.
LEMMA OrderedStep ==
  ASSUME Struct, RowsOK, Finality, Order, [Next]_vars, NEW s \in Stream, Listening(stream'[s])
  PROVE  LET j == stream'[s].job IN
         /\ j \in Job \ Fresh
         /\ LevelOf(run[j], work[j]) \in [Row -> 0 .. 3]
         /\ Ordered(stream'[s], LevelOf(run[j], work[j]))
<1> DEFINE x == stream[s]
           y == stream'[s]
           level == LevelOf(run[y.job], work[y.job])
<1>1. x \in StreamRec /\ x.ch \in Seq(Event) BY TypesOf DEF StreamRec
<1>2. \A j \in Job : LevelOf(run[j], work[j]) \in [Row -> 0 .. 3]
  <2>1. \A j \in Job, i \in Row : Level(run[j], work[j][i], i) \in 0 .. 3
    BY TypesOf, LevelValues
  <2>2. QED BY <2>1 DEF LevelOf
<1>3. ASSUME Listening(x), y.job = x.job
      PROVE  /\ y.job \in Job \ Fresh /\ Ordered(x, level)
             /\ level \in [Row -> 0 .. 3]
  <2>1. x.job \in Job \ Fresh BY <1>3, StreamJob DEF Listening
  <2>2. Ordered(x, LevelOf(run[x.job], work[x.job])) BY <1>3 DEF Order
  <2>3. QED BY <1>2, <1>3, <2>1, <2>2
<1> SUFFICES y.job \in Job \ Fresh /\ Ordered(y, level) BY <1>2
<1>4. Listening(y) OBVIOUS
<1>5. CASE Begins(x, y)
  <2>1. PICK n \in DOMAIN jobs : y.job = jobs[n].id /\ y.snap.steps = jobs[n].steps
    BY <1>5 DEF Begins
  <2>2. y.job \in Job \ Fresh BY <2>1, EntryTypes
  <2>3. \A i \in Row : Rank[y.snap.steps[i]] <= level[i] BY <2>1, SnapshotLevel DEF LevelOf
  <2> HIDE DEF level, x, y
  <2>4. DOMAIN y.ch = {}
    <3>1. DOMAIN <<>> = {} BY EmptySeq
    <3>2. QED BY <1>5, <3>1 DEF Begins
  <2>5. Base(y) = y.snap.steps /\ y.view = StepsOf({}) BY <1>5 DEF Begins, Base
  <2>6. QED BY <2>2, <2>3, <2>4, <2>5 DEF Ordered
<1>6. CASE Leaves(x, y)
  <2> HIDE DEF level, x, y
  <2>1. /\ y.pc = x.pc /\ y.ch = x.ch /\ y.job = x.job /\ y.view = x.view /\ y.snap = x.snap
    BY <1>4, <1>6 DEF Leaves, Listening
  <2>2. Listening(x) /\ Base(y) = Base(x) BY <1>4, <2>1 DEF Listening, Base
  <2>3. QED BY <1>3, <2>1, <2>2 DEF Ordered
<1>7. CASE Shows(x, y)
  <2> HIDE DEF level, x, y
  <2>1. /\ x.pc = "snapshot" /\ y.pc = "events" /\ y.job = x.job /\ y.ch = x.ch
        /\ y.view = x.snap.steps
    BY <1>4, <1>7 DEF Shows, Listening
  <2>2. Listening(x) /\ Base(y) = Base(x) BY <2>1 DEF Listening, Base
  <2>3. QED BY <1>3, <2>1, <2>2 DEF Ordered
<1>8. CASE Takes(x, y)
  <2> HIDE DEF level, x, y
  <2>1. /\ x.pc = "events" /\ y.job = x.job /\ y.pc = "events"
    BY <1>4, <1>8 DEF Takes, Listening
  <2>2. Listening(x) BY <2>1 DEF Listening
  <2>3. QED BY <1>1, <1>3, <1>8, <2>1, <2>2, OrderedTakes
<1>9. ASSUME NEW event \in Event, Hears(x, y, event),
             x.job \in Job =>
               \A i \in Row : Tells(event, i) =>
                 Rank[Told(event, i)] = Level(run[x.job], work[x.job][i], i)
      PROVE  y.job \in Job \ Fresh /\ Ordered(y, level)
  <2>1. y.job = x.job /\ y.pc = x.pc BY <1>1, <1>9 DEF Hears, StreamRec
  <2>2. /\ y.job \in Job \ Fresh /\ Ordered(x, level) /\ level \in [Row -> 0 .. 3]
    BY <1>3, <1>4, <2>1 DEF Listening
  <2>3. \A i \in Row : Tells(event, i) => Rank[Told(event, i)] = level[i]
    BY <1>9, <2>1, <2>2 DEF LevelOf
  <2> HIDE DEF level, x, y
  <2>4. QED BY <1>1, <1>9, <2>2, <2>3, OrderedHears
<1>10. ASSUME NEW j \in Job, NEW i \in Row, work[j][i].pc = "send", x.job = j,
              run[j].pc = "running", Hears(x, y, StepEvent(i, work[j][i].status))
       PROVE  y.job \in Job \ Fresh /\ Ordered(y, level)
  <2> DEFINE event == StepEvent(i, work[j][i].status)
  <2>1. run[j] \in RunRec /\ work[j][i] \in WorkRec /\ event \in Event
    BY TypesOf, EventTypes DEF WorkRec
  <2>2. Level(run[j], work[j][i], i) = Rank[work[j][i].status]
    BY <1>10, <2>1, LevelValues
  <2>3. \A m \in Row : Tells(event, m) => m = i /\ Told(event, m) = work[j][i].status
    BY DEF Tells, Told, StepEvent
  <2> HIDE DEF event
  <2>4. \A m \in Row : Tells(event, m) => Rank[Told(event, m)] = Level(run[j], work[j][m], m)
    BY <2>2, <2>3
  <2>5. Hears(x, y, event) BY <1>10 DEF event
  <2> HIDE DEF level, x, y
  <2>6. QED BY <1>9, <1>10, <2>1, <2>4, <2>5
<1>11. ASSUME NEW j \in Job, run[j].pc = "send", x.job = j,
              Hears(x, y, DoneEvent(run[j].steps))
       PROVE  y.job \in Job \ Fresh /\ Ordered(y, level)
  <2> DEFINE event == DoneEvent(run[j].steps)
  <2>1. run[j] \in RunRec /\ event \in Event /\ \A i \in Row : work[j][i] \in WorkRec
    BY TypesOf, EventTypes DEF RunRec
  <2>2. \A i \in Row : Level(run[j], work[j][i], i) = Rank[run[j].steps[i]]
    BY <1>11, <2>1, LevelValues
  <2>3. \A m \in Row : Told(event, m) = run[j].steps[m] BY DEF Told, DoneEvent
  <2>4. Hears(x, y, event) BY <1>11
  <2> HIDE DEF event, level, x, y
  <2>5. QED BY <1>9, <1>11, <2>1, <2>2, <2>3, <2>4
<1> HIDE DEF level
<1>12. QED BY <1>5, <1>6, <1>7, <1>8, <1>10, <1>11, StreamKinds

\* Order is inductive relative to the invariants before.
LEMMA OrderNext == Struct /\ RowsOK /\ Finality /\ Order /\ [Next]_vars => Order'
<1> SUFFICES ASSUME Struct, RowsOK, Finality, Order, [Next]_vars, NEW s \in Stream,
                    Listening(stream'[s])
             PROVE  Ordered(stream'[s], LevelOf(run'[stream'[s].job], work'[stream'[s].job]))
  BY DEF Order
<1> DEFINE y == stream'[s]
           j == stream'[s].job
           level == LevelOf(run[j], work[j])
           more == LevelOf(run'[j], work'[j])
<1>1. j \in Job \ Fresh /\ level \in [Row -> 0 .. 3] /\ Ordered(y, level) BY OrderedStep
<1>2. y \in StreamRec BY StructNext DEF Struct, Types, StreamType
<1>3. more \in [Row -> 0 .. 3] /\ \A i \in Row : level[i] <= more[i]
  BY <1>1, LevelsForward DEF LevelOf
<1> HIDE DEF y, j, level, more
<1>4. Ordered(y, more) BY <1>1, <1>2, <1>3, OrderedMore
<1>5. QED BY <1>4 DEF y, j, more

\* No stream listens at first.
LEMMA OrderInit == Init => Order
BY NoStreamType DEF Init, Order, Listening

\* What a client sees in one step goes forward.
LEMMA ViewForward ==
  ASSUME Struct, Order, [Next]_vars, NEW s \in Stream, NEW i \in Row
  PROVE  Rank[stream[s].view[i]] <= Rank[stream'[s].view[i]]
<1> DEFINE x == stream[s]
           y == stream'[s]
<1>1. x \in StreamRec /\ y \in StreamRec BY StructNext, TypesOf DEF Struct, Types, StreamType
<1>2. x.view[i] \in Status /\ y.view[i] \in Status BY <1>1 DEF StreamRec, Steps
<1>3. Rank[x.view[i]] \in 0 .. 3 /\ Rank[y.view[i]] \in 0 .. 3 BY <1>2, Ranks
<1>4. StepsOf({})[i] = "absent" BY DEF StepsOf
<1>5. Listening(x) => /\ Ordered(x, LevelOf(run[x.job], work[x.job]))
                      /\ LevelOf(run[x.job], work[x.job]) \in [Row -> 0 .. 3]
  <2> SUFFICES ASSUME Listening(x) PROVE LevelOf(run[x.job], work[x.job]) \in [Row -> 0 .. 3]
    BY DEF Order
  <2>1. x.job \in Job BY StreamJob DEF Listening
  <2>2. \A m \in Row : Level(run[x.job], work[x.job][m], m) \in 0 .. 3
    BY <2>1, TypesOf, LevelValues
  <2>3. QED BY <2>2 DEF LevelOf
<1>6. x.pc = "idle" => x.view = StepsOf({}) BY DEF Struct, Links, StreamLinks, NoStream
<1> DEFINE level == LevelOf(run[x.job], work[x.job])
<1> SUFFICES Rank[x.view[i]] <= Rank[y.view[i]] OBVIOUS
<1>7. CASE x.view = StepsOf({})
  <2>1. Rank[x.view[i]] = 0 BY <1>4, <1>7, Ranks
  <2>2. QED BY <1>3, <2>1
<1>8. CASE y.view = x.view BY <1>3, <1>8
<1>9. CASE Takes(x, y)
  <2>1. Listening(x) BY <1>9 DEF Takes, Listening
  <2>2. Ordered(x, level) /\ level \in [Row -> 0 .. 3] BY <1>5, <2>1
  <2> HIDE DEF level, x, y
  <2>3. QED BY <1>1, <1>9, <2>2, OrderedTakes
<1>10. Begins(x, y) => x.view = StepsOf({}) BY <1>6 DEF Begins
<1>11. Shows(x, y) => x.view = StepsOf({}) BY <1>5 DEF Shows, Listening, Ordered
<1>12. Leaves(x, y) \/ (\E event : Hears(x, y, event)) => y.view = x.view
  BY <1>1 DEF Leaves, Hears, StreamRec
<1> HIDE DEF level
<1>13. QED BY <1>7, <1>8, <1>9, <1>10, <1>11, <1>12, StreamKinds

\* What a client has, what is on its way to it and what the job is come in this order.
THEOREM OrderInv == Spec => [](Struct /\ RowsOK /\ Finality /\ Order)
<1>1. QED
  BY StructInit, StructNext, RowsInit, RowsNext, FinalityInit, FinalityNext, OrderInit,
     OrderNext, PTL DEF Spec

\* What a client sees of a row never goes back, although the snapshot and the events
\* after it are taken under different locks, and a full channel drops events.
THEOREM ViewsGoForward == Spec => ViewNeverGoesBack
<1>1. Struct /\ Order /\ [Next]_vars
        => [\A s \in Stream, i \in Row :
              Rank[stream[s].view[i]] <= Rank[stream'[s].view[i]]]_vars
  BY ViewForward
<1>2. QED BY <1>1, OrderInv, PTL DEF Spec, ViewNeverGoesBack

-----------------------------------------------------------------------------
(* Nobody is stuck, and every step is progress: NobodyStuck, JobsGoForward. *)

\* Who waits for a save of its own is the one the save under way wakes up.
SaveWaits ==
  /\ \A j \in Job : run[j].pc = "saving" => save.by = "finish" /\ save.job = j
  /\ del.pc = "saving" => save.by = "delete"

\* Nobody saves at first.
LEMMA WaitsInit == Init => SaveWaits
BY NoRunType DEF Init, SaveWaits, NoDelete

\* While nobody saves, nobody waits for its own save.
LEMMA NobodySaves ==
  ASSUME SaveWaits, save.by = "none"
  PROVE  del.pc # "saving" /\ \A j \in Job : run[j].pc # "saving"
BY DEF SaveWaits

\* A save is started by who waits for it, when there is no other.
LEMMA WaitsSnapshot ==
  ASSUME Struct, SaveWaits, LoopSnapshot \/ DeleteSnapshot \/ \E j \in Job : FinishSnapshot(j)
  PROVE  SaveWaits'
<1>1. CASE LoopSnapshot
  <2>1. run' = run /\ del' = del BY <1>1 DEF LoopSnapshot
  <2>2. save' = save \/ save.by = "none" BY <1>1 DEF LoopSnapshot, TakeSnapshot
  <2>3. QED BY <2>1, <2>2, NobodySaves DEF SaveWaits
<1>2. CASE DeleteSnapshot
  <2>1. run' = run /\ save.by = "none" /\ save'.by = "delete"
    BY <1>2 DEF DeleteSnapshot, TakeSnapshot
  <2>2. QED BY <2>1, NobodySaves DEF SaveWaits
<1>3. ASSUME NEW j \in Job, FinishSnapshot(j) PROVE SaveWaits'
  <2>1. save.by = "none" /\ save'.by = "finish" /\ save'.job = j /\ del' = del
    BY <1>3 DEF FinishSnapshot, TakeSnapshot
  <2>2. \A k \in Job \ {j} : run'[k] = run[k] BY <1>3, FinishSnapshotStruct
  <2>3. QED BY <2>1, <2>2, NobodySaves DEF SaveWaits
<1>4. QED BY <1>1, <1>2, <1>3

\* The end of a save wakes up who waited for it.
LEMMA WaitsWritten ==
  ASSUME Struct, SaveWaits, Written
  PROVE  SaveWaits'
<1>1. /\ save.by # "none"
      /\ \/ save.by # "finish" /\ run' = run
         \/ /\ save.by = "finish" /\ save.job \in Job /\ run[save.job] \in RunRec
            /\ run' = [run EXCEPT ![save.job] = [run[save.job] EXCEPT !.pc = "over"]]
  BY WrittenEffect
<1>2. run \in [Job -> RunRec] BY DEF Struct, Types, RunType
<1>3. \A j \in Job : run'[j].pc # "saving"
  <2>1. CASE save.by # "finish" /\ run' = run BY <2>1 DEF SaveWaits
  <2>2. CASE /\ save.by = "finish" /\ save.job \in Job /\ run[save.job] \in RunRec
             /\ run' = [run EXCEPT ![save.job] = [run[save.job] EXCEPT !.pc = "over"]]
    <3>1. run'[save.job].pc = "over" BY <1>2, <2>2 DEF RunRec
    <3>2. \A j \in Job \ {save.job} : run'[j] = run[j] BY <1>2, <2>2
    <3>3. QED BY <3>1, <3>2 DEF SaveWaits
  <2>3. QED BY <1>1, <2>1, <2>2
<1>4. del'.pc # "saving"
  <2>1. CASE save.by = "delete"
    <3>1. del \in DelRec BY DEF Struct, Types
    <3>2. del' = [del EXCEPT !.pc = "sidecar"] BY <2>1 DEF Written
    <3>3. QED BY <3>1, <3>2 DEF DelRec
  <2>2. CASE save.by # "delete"
    <3>1. del' = del BY <2>2 DEF Written
    <3>2. QED BY <2>2, <3>1 DEF SaveWaits
  <2>3. QED BY <2>1, <2>2
<1>5. QED BY <1>3, <1>4 DEF SaveWaits

\* The other steps of the deletion start no save of their own.
LEMMA WaitsQuiet ==
  ASSUME Struct, SaveWaits, QuietStep
  PROVE  SaveWaits'
<1>1. CASE LoopSnapshot \/ DeleteSnapshot BY <1>1, WaitsSnapshot
<1>2. CASE \/ \E s \in Stream : Subscribe(s) \/ StreamStep(s) \/ Disconnect(s)
           \/ UNCHANGED vars
  <2>1. UNCHANGED <<run, del, save>>
    BY <1>2 DEF Subscribe, StreamStep, SendSnapshot, Receive, Disconnect, Cancel, storeVars, vars
  <2>2. QED BY <2>1 DEF SaveWaits
<1>3. CASE DeleteClose
  <2>1. del \in DelRec /\ del.pc = "close" BY <1>3 DEF Struct, Types, DeleteClose
  <2>2. del'.pc # "saving"
    <3>1. \/ \E s \in del.subs : del' = [del EXCEPT !.subs = @ \ {s}]
          \/ del' = [del EXCEPT !.pc = IF Persistent THEN "save" ELSE "sidecar"]
      BY <1>3 DEF DeleteClose
    <3>2. QED BY <2>1, <3>1 DEF DelRec
  <2>3. UNCHANGED <<run, save>> BY <1>3 DEF DeleteClose, storeVars
  <2>4. QED BY <2>2, <2>3 DEF SaveWaits
<1>4. CASE DeleteSidecar
  <2>1. UNCHANGED <<run, save>> /\ del'.pc # "saving"
    BY <1>4 DEF DeleteSidecar, NoDelete, storeVars
  <2>2. QED BY <2>1 DEF SaveWaits
<1>5. QED BY <1>1, <1>2, <1>3, <1>4 DEF QuietStep

\* A runner that goes on by one step.
LEMMA JobMoves ==
  ASSUME Struct, NEW k \in Job, JobMove(k)
  PROVE  /\ work' = work /\ \A j \in Job \ {k} : run'[j] = run[j]
         /\ RunnerForward(run[k], run'[k])
         /\ run[k].pc # "running"
         /\ FinishSnapshot(k) \/ (run'[k].pc # "saving" /\ UNCHANGED <<save, del>>)
<1>1. run \in [Job -> RunRec] /\ run[k] \in RunRec BY DEF Struct, Types, RunType
<1>2. ASSUME NEW x, run' = [run EXCEPT ![k] = x]
      PROVE  run'[k] = x /\ \A j \in Job \ {k} : run'[j] = run[j]
  BY <1>1, <1>2
<1>3. CASE Retry(k)
  <2>1. PICK n \in DOMAIN jobs :
          run' = [run EXCEPT ![k] = [NoRun EXCEPT !.pc = "asked", !.from = jobs[n].id,
                                       !.rows = WithStatus(jobs[n].steps, {"fail"})]]
    BY <1>3 DEF Retry
  <2>2. run'[k].pc = "asked" /\ \A j \in Job \ {k} : run'[j] = run[j]
    BY <1>1, <2>1, NoRunType DEF RunRec
  <2>3. run[k].pc = "none" /\ UNCHANGED <<work, save, del>> BY <1>3 DEF Retry, storeVars
  <2>4. QED BY <2>2, <2>3 DEF RunnerForward, RunRank
<1>4. CASE DoneSent(k)
  <2> DEFINE pc == IF Persistent THEN "save" ELSE "over"
  <2>1. run' = [run EXCEPT ![k] = [NoRun EXCEPT !.pc = pc]] BY <1>4 DEF DoneSent
  <2>2. pc \in {"save", "over"} OBVIOUS
  <2> HIDE DEF pc
  <2>3. run'[k].pc \in {"save", "over"} /\ \A j \in Job \ {k} : run'[j] = run[j]
    BY <1>1, <2>1, <2>2, NoRunType DEF RunRec
  <2>4. run[k].pc = "send" /\ UNCHANGED <<work, save, del>> BY <1>4 DEF DoneSent, storeVars
  <2>5. QED BY <2>3, <2>4 DEF RunnerForward, RunRank
<1>5. CASE FinishSnapshot(k)
  <2>1. run' = [run EXCEPT ![k] = [run[k] EXCEPT !.pc = "saving"]]
    BY <1>1, <1>5 DEF FinishSnapshot
  <2>2. run'[k].pc = "saving" /\ \A j \in Job \ {k} : run'[j] = run[j]
    BY <1>1, <1>2, <2>1 DEF RunRec
  <2>3. run[k].pc = "save" /\ work' = work BY <1>5 DEF FinishSnapshot
  <2>4. QED BY <1>5, <2>2, <2>3 DEF RunnerForward, RunRank
<1>6. CASE RetryCreate(k) /\ run' = [run EXCEPT ![k] = NoRun] /\ jobs' = jobs
  <2>1. run'[k].pc = "none" /\ \A j \in Job \ {k} : run'[j] = run[j]
    BY <1>1, <1>6, NoRunType
  <2>2. run[k].pc = "asked" /\ UNCHANGED <<work, save, del>> BY <1>6 DEF RetryCreate
  <2>3. QED BY <2>1, <2>2 DEF RunnerForward
<1>7. ASSUME NEW s \in Stream, SendDone(k, s)
      PROVE  /\ work' = work /\ \A j \in Job \ {k} : run'[j] = run[j]
             /\ RunnerForward(run[k], run'[k])
             /\ run[k].pc = "send" /\ run'[k].pc = "send" /\ UNCHANGED <<save, del>>
  <2>1. /\ run[k].pc = "send" /\ run'[k] = [run[k] EXCEPT !.to = @ \ {s}]
        /\ \A j \in Job \ {k} : run'[j] = run[j]
    BY <1>7, SendDoneEffect
  <2>2. run'[k].pc = "send" /\ run'[k].to \subseteq run[k].to BY <1>1, <2>1 DEF RunRec
  <2>3. UNCHANGED <<work, save, del>> BY <1>7 DEF SendDone, storeVars
  <2>4. QED BY <2>1, <2>2, <2>3 DEF RunnerForward
<1>8. QED BY <1>3, <1>4, <1>5, <1>6, <1>7 DEF JobMove

\* The end of a save moves at most the runner that waited for it.
LEMMA WrittenMoves ==
  ASSUME Struct, Written, NEW j \in Job
  PROVE  /\ work' = work /\ RunnerForward(run[j], run'[j])
         /\ run[j].pc = "running" => run'[j] = run[j]
<1>1. run \in [Job -> RunRec] BY DEF Struct, Types, RunType
<1>2. /\ work' = work
      /\ \/ run' = run
         \/ /\ save.job \in Job /\ run[save.job].pc = "saving" /\ run[save.job] \in RunRec
            /\ run' = [run EXCEPT ![save.job] = [run[save.job] EXCEPT !.pc = "over"]]
  BY WrittenEffect
<1>3. \/ run'[j] = run[j]
      \/ run[j].pc = "saving" /\ run'[j].pc = "over"
  BY <1>1, <1>2 DEF RunRec
<1>4. QED BY <1>2, <1>3 DEF RunnerForward, RunRank

\* The start of a runner.
LEMMA RunnerStarts ==
  ASSUME Struct, NEW k \in Job, Creation(k) \/ SaveInputs(k)
  PROVE  /\ \A j \in Job \ {k} : run'[j] = run[j] /\ work'[j] = work[j]
         /\ RunnerForward(run[k], run'[k]) /\ run[k].pc # "running"
         /\ run'[k].pc # "saving" /\ UNCHANGED <<save, del>>
<1>1. CASE Creation(k)
  <2>1. /\ work' = work /\ k \in Fresh /\ run'[k].pc = "created"
        /\ \A j \in Job \ {k} : run'[j] = run[j]
    BY <1>1, Creates
  <2>2. UNCHANGED <<save, del>> BY <1>1 DEF Creation, Start, RetryCreate
  <2>3. QED BY <2>1, <2>2 DEF Fresh, RunnerForward, RunRank
<1>2. CASE SaveInputs(k)
  <2>1. /\ run[k].pc = "created" /\ run'[k] = [NoRun EXCEPT !.pc = "running"]
        /\ \A j \in Job \ {k} : run'[j] = run[j] /\ work'[j] = work[j]
    BY <1>2, SaveInputsEffect
  <2>2. run'[k].pc = "running" BY <2>1, NoRunType DEF RunRec
  <2>3. UNCHANGED <<save, del>> BY <1>2 DEF SaveInputs, storeVars
  <2>4. QED BY <2>1, <2>2, <2>3 DEF RunnerForward, RunRank
<1>3. QED BY <1>1, <1>2

\* The end of its work.
LEMMA RunnerFinishes ==
  ASSUME Struct, NEW k \in Job, Finish(k)
  PROVE  /\ work' = work /\ \A j \in Job \ {k} : run'[j] = run[j]
         /\ RunnerForward(run[k], run'[k]) /\ run'[k].pc \in {"send", "over"}
         /\ UNCHANGED <<save, del>>
<1>1. /\ work' = work /\ save' = save /\ run[k].pc = "running"
      /\ \A j \in Job \ {k} : run'[j] = run[j]
  BY Finishes
<1>2. run'[k].pc \in {"send", "over"} BY Finishes
<1>3. del' = del BY DEF Finish
<1>4. QED BY <1>1, <1>2, <1>3 DEF RunnerForward, RunRank

\* SaveWaits is inductive relative to Struct.
LEMMA WaitsNext == Struct /\ SaveWaits /\ [Next]_vars => SaveWaits'
<1> SUFFICES ASSUME Struct, SaveWaits, [Next]_vars PROVE SaveWaits'
  OBVIOUS
<1>1. CASE QuietStep BY <1>1, WaitsQuiet
<1>2. CASE Written BY <1>2, WaitsWritten
<1>3. ASSUME NEW k \in Job, JobMove(k) PROVE SaveWaits'
  <2>1. CASE FinishSnapshot(k) BY <2>1, WaitsSnapshot
  <2>2. CASE run'[k].pc # "saving" /\ UNCHANGED <<save, del>>
    <3>1. \A j \in Job \ {k} : run'[j] = run[j] BY <1>3, JobMoves
    <3>2. QED BY <2>2, <3>1 DEF SaveWaits
  <2>3. QED BY <1>3, <2>1, <2>2, JobMoves
<1>4. ASSUME NEW j \in Job, NEW i \in Row, WorkerMove(j, i) \/ RowUpdate(j, i) PROVE SaveWaits'
  <2>1. UNCHANGED <<run, save>> BY <1>4, WorkerMoves, RowUpdates
  <2>2. del' = del
    BY <1>4 DEF WorkerMove, RowUpdate, Dispatch, StepSent, SendStep, Login, Begin, Succeed
  <2>3. QED BY <2>1, <2>2 DEF SaveWaits
<1>5. ASSUME NEW k \in Job, Creation(k) \/ SaveInputs(k) PROVE SaveWaits'
  BY <1>5, RunnerStarts DEF SaveWaits
<1>6. ASSUME NEW k \in Job, Finish(k) PROVE SaveWaits'
  BY <1>6, RunnerFinishes DEF SaveWaits
<1>7. CASE Delete
  <2>1. UNCHANGED <<run, save>> BY <1>7 DEF Delete, storeVars
  <2>2. del'.pc = "close" BY <1>7 DEF Delete
  <2>3. QED BY <2>1, <2>2 DEF SaveWaits
<1>8. CASE Restart
  <2>1. \A j \in Job : run'[j].pc # "saving" BY <1>8, RestartEffect
  <2>2. del'.pc # "saving" BY <1>8, RestartEffect DEF NoDelete
  <2>3. QED BY <2>1, <2>2 DEF SaveWaits
<1>9. QED BY <1>1, <1>2, <1>3, <1>4, <1>5, <1>6, <1>7, <1>8, StepKinds DEF RunnerMove

\* A runner that waits for its rows: with no worker at work there is a place for
\* the next row, and without a next row all are done.
LEMMA RowsGoOn ==
  ASSUME Struct, NEW j \in Job, run[j].pc = "running"
  PROVE  JobGoesOn(j)
<1>1. CASE Busy(j) # {} BY <1>1 DEF JobGoesOn
<1>2. CASE Busy(j) = {}
  <2>1. \A i \in Row : work[j][i].pc \in {"none", "todo", "over"} BY <1>2 DEF Busy
  <2>2. CASE \E i \in Row : work[j][i].pc = "todo"
    <3>1. Cardinality(Busy(j)) = 0 BY <1>2, FS_EmptySet
    <3>2. Cardinality(Busy(j)) < Concurrency BY <3>1, RegistrationAssumption
    <3>3. QED BY <2>2, <3>2 DEF JobGoesOn
  <2>3. CASE \A i \in Row : work[j][i].pc # "todo"
    <3>1. \A i \in Row : work[j][i].pc \in {"none", "over"} BY <2>1, <2>3
    <3>2. QED BY <3>1 DEF JobGoesOn
  <2>4. QED BY <2>2, <2>3
<1>3. QED BY <1>1, <1>2

\* A job that was asked for has a step of its own until it is over, and so has a
\* delete, or a save is under way that they wait for: no order of the workers, the
\* semaphore, saveMu and the channels leaves somebody waiting for nobody.
THEOREM NobodyIsStuck == Spec => []NobodyStuck
<1>1. Struct /\ SaveWaits => NobodyStuck
  <2> SUFFICES ASSUME Struct, SaveWaits PROVE NobodyStuck
    OBVIOUS
  <2>1. ASSUME NEW j \in Job
        PROVE  \/ run[j].pc \in {"none", "over"}
               \/ JobGoesOn(j)
               \/ run[j].pc = "save" /\ save.by # "none"
               \/ run[j].pc = "saving" /\ save.by = "finish" /\ save.job = j
    <3>1. run[j].pc \in {"none", "asked", "created", "running", "send", "save", "saving", "over"}
      BY TypesOf DEF RunRec
    <3>2. CASE run[j].pc \in {"asked", "created", "send"} BY <3>2 DEF JobGoesOn
    <3>3. CASE run[j].pc = "running" BY <3>3, RowsGoOn
    <3>4. CASE run[j].pc = "save" BY <3>4 DEF JobGoesOn
    <3>5. CASE run[j].pc = "saving" BY <3>5 DEF SaveWaits
    <3>6. QED BY <3>1, <3>2, <3>3, <3>4, <3>5
  <2>2. \/ del.pc = "idle"
        \/ DeleteGoesOn
        \/ del.pc = "save" /\ save.by # "none"
        \/ del.pc = "saving" /\ save.by = "delete"
    <3>1. del.pc \in {"idle", "close", "save", "saving", "sidecar"}
      BY DEF Struct, Types, DelRec
    <3>2. QED BY <3>1 DEF DeleteGoesOn, SaveWaits
  <2>3. QED BY <2>1, <2>2 DEF NobodyStuck
<1>2. QED BY <1>1, StructInit, StructNext, WaitsInit, WaitsNext, PTL DEF Spec

\* The places of a worker.
LEMMA WorkRanks ==
  ASSUME NEW w \in WorkRec
  PROVE  /\ WorkRank(w) \in 0 .. 7
         /\ w.pc = "todo" => WorkRank(w) = 1
         /\ w.pc = "start" => WorkRank(w) = 2
         /\ w.pc = "send" /\ w.status = "running" => WorkRank(w) = 3
         /\ w.pc = "login" => WorkRank(w) = 4
         /\ w.pc = "written" => WorkRank(w) = 5
         /\ w.pc = "send" /\ w.status # "running" => WorkRank(w) = 6
         /\ w.pc = "over" => WorkRank(w) = 7
<1>1. w.pc \in {"none", "todo", "start", "login", "written", "send", "over"} BY DEF WorkRec
<1>2. /\ w.pc = "none" => WorkRank(w) = 0
      /\ w.pc = "todo" => WorkRank(w) = 1
      /\ w.pc = "start" => WorkRank(w) = 2
      /\ w.pc = "send" /\ w.status = "running" => WorkRank(w) = 3
      /\ w.pc = "login" => WorkRank(w) = 4
      /\ w.pc = "written" => WorkRank(w) = 5
      /\ w.pc = "send" /\ w.status # "running" => WorkRank(w) = 6
      /\ w.pc = "over" => WorkRank(w) = 7
  BY DEF WorkRank
<1>3. QED BY <1>1, <1>2

\* A broadcast of a row has one stream less to tell.
LEMMA BroadcastShrinks ==
  ASSUME Struct, NEW j \in Job, NEW i \in Row, NEW s \in Stream, SendStep(j, i, s)
  PROVE  RowForward(work[j][i], work'[j][i])
<1> DEFINE w == work[j][i]
           v == [w EXCEPT !.to = @ \ {s}]
<1>1. work \in [Job -> [Row -> WorkRec]] /\ w \in WorkRec BY DEF Struct, Types, WorkType
<1>2. work' = [work EXCEPT ![j][i] = v] /\ s \in w.to BY <1>1 DEF SendStep
<1>3. work'[j][i] = v BY <1>1, <1>2
<1>4. v.pc = w.pc /\ v.status = w.status /\ v.to = w.to \ {s} /\ v \in WorkRec
  BY <1>1 DEF WorkRec
<1> HIDE DEF w, v
<1>5. WorkRank(v) = WorkRank(w) BY <1>4 DEF WorkRank
<1>6. v.to \subseteq w.to /\ v.to # w.to BY <1>2, <1>4
<1>7. RowForward(w, v) BY <1>5, <1>6 DEF RowForward
<1>8. QED BY <1>3, <1>7 DEF w

\* A worker that has a step goes on.
LEMMA WorkerGoesOn ==
  ASSUME Struct, [Next]_vars, NEW j \in Job, NEW i \in Row,
         WorkerMove(j, i) \/ RowUpdate(j, i)
  PROVE  RowForward(work[j][i], work'[j][i])
<1> DEFINE w == work[j][i]
           v == work'[j][i]
<1>1. w \in WorkRec BY TypesOf
<1>2. v \in WorkRec BY StructNext DEF Struct, Types, WorkType
<1>3. w.pc = "send" => w.status \in {"running", "ok", "fail"} BY DEF Struct, Links, WorkLinks
<1>4. \/ \E s \in Stream : SendStep(j, i, s)
      \/ w.pc = "todo" /\ v.pc = "start"
      \/ w.pc = "login" /\ v.pc = "written"
      \/ w.pc = "send" /\ v = Skipped(w.status)
      \/ \E status \in {"running", "ok", "fail"} :
           /\ \/ w.pc = "start" /\ status = "running"
              \/ w.pc = "login" /\ status = "fail"
              \/ w.pc = "written" /\ status = "ok"
           /\ v = Sending(j, status) \/ v = Skipped(status)
  <2>1. CASE WorkerMove(j, i) /\ \A s \in Stream : ~SendStep(j, i, s)
    <3>1. work \in [Job -> [Row -> WorkRec]] BY DEF Struct, Types, WorkType
    <3>2. CASE Dispatch(j, i)
      <4>1. w.pc = "todo" BY <3>2 DEF Dispatch
      <4>2. v.pc = "start" BY <3>2, <4>1, WorkerMoves DEF WorkerMove
      <4>3. QED BY <4>1, <4>2
    <3>3. CASE StepSent(j, i)
      <4>1. w.pc = "send" /\ work' = [work EXCEPT ![j][i] = Skipped(w.status)]
        BY <3>3 DEF StepSent, Skipped
      <4>2. QED BY <3>1, <4>1
    <3>4. CASE Login(j, i) /\ work' = [work EXCEPT ![j][i].pc = "written"]
      <4>1. w.pc = "login" BY <3>4 DEF Login
      <4>2. v.pc = "written" BY <1>1, <3>1, <3>4 DEF WorkRec
      <4>3. QED BY <4>1, <4>2
    <3>5. QED BY <2>1, <3>2, <3>3, <3>4 DEF WorkerMove
  <2>2. CASE RowUpdate(j, i)
    <3>1. PICK status \in {"running", "ok", "fail"} :
            /\ \/ work[j][i].pc = "start" /\ status = "running"
               \/ work[j][i].pc = "login" /\ status = "fail"
               \/ work[j][i].pc = "written" /\ status = "ok"
            /\ \/ Known(j) /\ work'[j][i] = Sending(j, status)
               \/ ~Known(j) /\ work'[j][i] = Skipped(status)
      BY <2>2, RowUpdates
    <3>2. QED BY <3>1
  <2>3. QED BY <2>1, <2>2
<1>5. CASE \E s \in Stream : SendStep(j, i, s) BY <1>5, BroadcastShrinks
<1> HIDE DEF w, v
<1> SUFFICES ASSUME \A s \in Stream : ~SendStep(j, i, s) PROVE RowForward(w, v)
  BY <1>5 DEF w, v
<1>6. CASE w.pc = "send" /\ v = Skipped(w.status)
  <2>1. \/ w.status = "running" /\ v.pc = "login"
        \/ w.status # "running" /\ v.pc = "over"
    BY <1>6 DEF Skipped
  <2>2. \/ WorkRank(w) = 3 /\ WorkRank(v) = 4
        \/ WorkRank(w) = 6 /\ WorkRank(v) = 7
    BY <1>1, <1>2, <1>6, <2>1, WorkRanks
  <2>3. QED BY <2>2 DEF RowForward
<1>7. ASSUME NEW status \in {"running", "ok", "fail"},
             \/ w.pc = "start" /\ status = "running"
             \/ w.pc = "login" /\ status = "fail"
             \/ w.pc = "written" /\ status = "ok",
             v = Sending(j, status) \/ v = Skipped(status)
      PROVE  RowForward(w, v)
  <2>1. \/ v.pc = "send" /\ v.status = status
        \/ status = "running" /\ v.pc = "login"
        \/ status # "running" /\ v.pc = "over"
    BY <1>7 DEF Sending, Skipped
  <2>2. \/ status = "running" /\ WorkRank(v) \in {3, 4}
        \/ status # "running" /\ WorkRank(v) \in {6, 7}
    BY <1>2, <2>1, WorkRanks
  <2>3. \/ status = "running" /\ WorkRank(w) = 2
        \/ status # "running" /\ WorkRank(w) \in {4, 5}
    BY <1>1, <1>7, WorkRanks
  <2>4. WorkRank(w) < WorkRank(v) BY <2>2, <2>3
  <2>5. QED BY <2>4 DEF RowForward
<1>8. CASE \/ w.pc = "todo" /\ v.pc = "start"
           \/ w.pc = "login" /\ v.pc = "written"
  <2>1. \/ WorkRank(w) = 1 /\ WorkRank(v) = 2
        \/ WorkRank(w) = 4 /\ WorkRank(v) = 5
    BY <1>1, <1>2, <1>8, WorkRanks
  <2>2. QED BY <2>1 DEF RowForward
<1>9. QED BY <1>4, <1>6, <1>7, <1>8

\* What JobsGoForward says of one job.
OneForward(j) ==
  /\ RunnerForward(run[j], run'[j])
  /\ run[j].pc = "running" /\ run'[j].pc = "running" =>
       \A i \in Row : RowForward(work[j][i], work'[j][i])

\* A job whose runner and whose workers rest.
LEMMA AtRest ==
  ASSUME NEW j \in Job, run'[j] = run[j], work'[j] = work[j]
  PROVE  OneForward(j)
BY DEF OneForward, RunnerForward, RowForward

\* A restart ends every job that has begun.
LEMMA RestartForward ==
  ASSUME Struct, Restart, NEW j \in Job
  PROVE  OneForward(j)
<1>1. run[j] \in RunRec BY TypesOf
<1>2. run'[j].to = {} /\ run'[j].pc = IF j \in Fresh THEN "none" ELSE "over"
  BY RestartEffect
<1>3. CASE j \in Fresh
  <2>1. run[j].pc \in {"none", "asked"} BY <1>3 DEF Fresh
  <2>2. QED BY <1>2, <1>3, <2>1 DEF OneForward, RunnerForward
<1>4. CASE j \notin Fresh
  <2>1. run[j].pc \in {"created", "running", "send", "save", "saving", "over"}
    BY <1>1, <1>4 DEF Fresh, RunRec
  <2>2. RunnerForward(run[j], run'[j]) BY <1>2, <1>4, <2>1 DEF RunnerForward, RunRank
  <2>3. QED BY <1>2, <1>4, <2>2 DEF OneForward
<1>5. QED BY <1>3, <1>4

\* Every step is progress of the jobs it touches.
LEMMA StepForward ==
  ASSUME Struct, [Next]_vars, NEW j \in Job
  PROVE  OneForward(j)
<1>1. CASE QuietStep \/ Delete
  <2>1. run' = run /\ work' = work BY <1>1, QuietEffect DEF Delete
  <2>2. QED BY <2>1, AtRest
<1>2. CASE Written BY <1>2, WrittenMoves DEF OneForward, RowForward
<1>3. ASSUME NEW k \in Job, JobMove(k) PROVE OneForward(j)
  <2>1. CASE k = j BY <1>3, <2>1, JobMoves DEF OneForward
  <2>2. CASE k # j
    <3>1. run'[j] = run[j] /\ work' = work BY <1>3, <2>2, JobMoves
    <3>2. QED BY <3>1, AtRest
  <2>3. QED BY <2>1, <2>2
<1>4. ASSUME NEW k \in Job, NEW m \in Row, WorkerMove(k, m) \/ RowUpdate(k, m)
      PROVE  OneForward(j)
  <2>1. run' = run BY <1>4, WorkerMoves, RowUpdates
  <2>2. ASSUME NEW i \in Row PROVE RowForward(work[j][i], work'[j][i])
    <3>1. CASE k = j /\ m = i BY <1>4, <3>1, WorkerGoesOn
    <3>2. CASE k # j \/ m # i
      <4>1. ASSUME WorkerMove(k, m) PROVE work'[j][i] = work[j][i]
        BY <3>2, <4>1, WorkerMoves
      <4>2. ASSUME RowUpdate(k, m) PROVE work'[j][i] = work[j][i]
        <5>1. \A p \in Job, q \in Row : p # k \/ q # m => work'[p][q] = work[p][q]
          BY <4>2, RowUpdates
        <5>2. QED BY <3>2, <5>1
      <4>3. QED BY <1>4, <4>1, <4>2 DEF RowForward
    <3>3. QED BY <3>1, <3>2
  <2>3. QED BY <2>1, <2>2 DEF OneForward, RunnerForward
<1>5. ASSUME NEW k \in Job, Creation(k) \/ SaveInputs(k) PROVE OneForward(j)
  <2>1. CASE k = j BY <1>5, <2>1, RunnerStarts DEF OneForward
  <2>2. CASE k # j
    <3>1. run'[j] = run[j] /\ work'[j] = work[j] BY <1>5, <2>2, RunnerStarts
    <3>2. QED BY <3>1, AtRest
  <2>3. QED BY <2>1, <2>2
<1>6. ASSUME NEW k \in Job, Finish(k) PROVE OneForward(j)
  <2>1. CASE k = j BY <1>6, <2>1, RunnerFinishes DEF OneForward
  <2>2. CASE k # j
    <3>1. run'[j] = run[j] /\ work' = work BY <1>6, <2>2, RunnerFinishes
    <3>2. QED BY <3>1, AtRest
  <2>3. QED BY <2>1, <2>2
<1>7. CASE Restart BY <1>7, RestartForward
<1>8. QED
  BY <1>1, <1>2, <1>3, <1>4, <1>5, <1>6, <1>7, StepKinds DEF RunnerMove

\* Every step of a job is progress of its runner or of one worker; nothing is
\* retried or taken back, whatever is deleted, evicted or restarted meanwhile.
THEOREM JobsOnlyGoForward == Spec => JobsGoForward
<1>1. Struct /\ [Next]_vars
        => [\A j \in Job :
              /\ RunnerForward(run[j], run'[j])
              /\ run[j].pc = "running" /\ run'[j].pc = "running" =>
                   \A i \in Row : RowForward(work[j][i], work'[j][i])]_vars
  BY StepForward DEF OneForward
<1>2. QED BY <1>1, IdsAreNew, PTL DEF Spec, JobsGoForward

=============================================================================
