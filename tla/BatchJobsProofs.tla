-------------------------- MODULE BatchJobsProofs --------------------------
(***************************************************************************)
(* Proofs about BatchJobs, for any number of callers, accounts, jobs,      *)
(* workers and restarts: the counters of every job are those of its steps, *)
(* and the gate is held for exactly the jobs that run or are about to be   *)
(* listed.                                                                 *)
(*                                                                         *)
(* A step has no finding about the instructions before it has ended, which *)
(* is why a worker counts no finding twice; and an id is given out once,   *)
(* which is why a job that is listed is not one whose goroutine is about   *)
(* to leave.                                                               *)
(***************************************************************************)
EXTENDS BatchJobs, FiniteSetTheorems, TLAPS

Undone == {"pending", "running"}

\* A job whose counters can be carried on.
GoodJob(job) ==
  /\ job \in JobType /\ IsFiniteSet(DOMAIN job.steps)
  /\ Consistent(job)
  /\ \A s \in StepsIn(job, Undone) : job.steps[s].configured = Absent

GoodJobs ==
  /\ \A j \in DOMAIN jobs : j \in 1 .. started /\ GoodJob(jobs[j])
  /\ file # Absent => \A j \in DOMAIN file : j \in 1 .. started /\ GoodJob(file[j])
  /\ \A c \in Caller : batch[c] # Absent => GoodJob(batch[c])
  /\ runners \subseteq 1 .. started

\* The callers that are in the gate.
Asking == {c \in Caller : batch[c] # Absent}

\* The types of everything but the jobs.
Frame ==
  /\ batch \in [Caller -> JobType \cup {Absent}]
  /\ hasPath \in BOOLEAN /\ pool \subseteq Account
  /\ gateUsers \in Nat /\ restoring \in BOOLEAN
  /\ started \in 0 .. MaxJobs /\ restarts \in 0 .. MaxRestarts

BatchInv == Frame /\ GoodJobs /\ OneJob

-----------------------------------------------------------------------------
(* The steps of a job. *)

\* The findings of a kind.
Found(job, v) == {s \in DOMAIN job.steps : job.steps[s].configured = v}

LEMMA JobFields ==
  ASSUME NEW job \in JobType
  PROVE  /\ job.action \in Actions /\ job.state \in {"running", "done", "interrupted"}
         /\ job.done \in Nat /\ job.success \in Nat /\ job.skipped \in Nat
         /\ job.failed \in Nat /\ job.configured \in Nat /\ job.missing \in Nat
         /\ job.steps \in [DOMAIN job.steps -> StepType]
         /\ DOMAIN job.steps \subseteq Selector
BY DEF JobType, JobWith, StepsType

\* The fields of a step.
LEMMA StepFields ==
  ASSUME NEW step \in StepType
  PROVE  /\ step.acct \in Account \cup {Absent}
         /\ step.status \in Undone \cup Ended
         /\ step.configured \in BOOLEAN \cup {Absent}
BY DEF StepType, Undone

LEMMA StepsFinite ==
  ASSUME NEW job, IsFiniteSet(DOMAIN job.steps), NEW S
  PROVE  /\ IsFiniteSet(StepsIn(job, S)) /\ StepsIn(job, S) \subseteq DOMAIN job.steps
         /\ Cardinality(StepsIn(job, S)) \in Nat
<1>1. StepsIn(job, S) \subseteq DOMAIN job.steps
  BY DEF StepsIn
<1>2. QED BY <1>1, FS_Subset, FS_CardinalityType

LEMMA DisjointUnion ==
  ASSUME NEW S, NEW T, IsFiniteSet(S), IsFiniteSet(T), S \cap T = {}
  PROVE  /\ IsFiniteSet(S \cup T) /\ Cardinality(S \cup T) \in Nat
         /\ Cardinality(S \cup T) = Cardinality(S) + Cardinality(T)
<1>1. Cardinality(S) \in Nat /\ Cardinality(T) \in Nat /\ Cardinality({}) = 0
  BY FS_CardinalityType, FS_EmptySet
<1>2. /\ IsFiniteSet(S \cup T)
      /\ Cardinality(S \cup T) = Cardinality(S) + Cardinality(T) - Cardinality(S \cap T)
  BY FS_Union
<1>3. Cardinality(S \cap T) = 0
  BY <1>1
<1>4. QED BY <1>1, <1>2, <1>3

\* Every step is open or has ended in one of three ways.
LEMMA StepsAddUp ==
  ASSUME NEW job \in JobType, IsFiniteSet(DOMAIN job.steps)
  PROVE  Cardinality(DOMAIN job.steps) =
           Cardinality(StepsIn(job, Undone)) + Cardinality(StepsIn(job, {"success"}))
             + Cardinality(StepsIn(job, {"skipped"})) + Cardinality(StepsIn(job, {"failed"}))
<1> DEFINE o == StepsIn(job, Undone)
           a == StepsIn(job, {"success"})
           b == StepsIn(job, {"skipped"})
           d == StepsIn(job, {"failed"})
<1>1. \A s \in DOMAIN job.steps : job.steps[s].status \in Undone \cup Ended
  BY JobFields, StepFields
<1>2. DOMAIN job.steps = ((o \cup a) \cup b) \cup d
  BY <1>1 DEF StepsIn, Ended
<1>3. /\ o \cap a = {} /\ (o \cup a) \cap b = {} /\ ((o \cup a) \cup b) \cap d = {}
  BY DEF StepsIn, Undone
<1>4. /\ IsFiniteSet(o) /\ IsFiniteSet(a) /\ IsFiniteSet(b) /\ IsFiniteSet(d)
      /\ Cardinality(o) \in Nat /\ Cardinality(a) \in Nat /\ Cardinality(b) \in Nat
      /\ Cardinality(d) \in Nat
  BY StepsFinite
<1> HIDE DEF o, a, b, d
<1>5. IsFiniteSet(o \cup a) /\ Cardinality(o \cup a) = Cardinality(o) + Cardinality(a)
  BY <1>3, <1>4, DisjointUnion
<1>6. /\ IsFiniteSet((o \cup a) \cup b)
      /\ Cardinality((o \cup a) \cup b) = Cardinality(o \cup a) + Cardinality(b)
  BY <1>3, <1>4, <1>5, DisjointUnion
<1>7. Cardinality(((o \cup a) \cup b) \cup d) = Cardinality((o \cup a) \cup b) + Cardinality(d)
  BY <1>3, <1>4, <1>6, DisjointUnion
<1>8. QED BY <1>2, <1>5, <1>6, <1>7 DEF o, a, b, d

\* The last conjuncts of Consistent, without the field selected by a variable.
LEMMA ConsistentFields ==
  ASSUME NEW job
  PROVE  Consistent(job) <=>
           /\ job.done = job.success + job.skipped + job.failed
           /\ job.success = Cardinality(StepsIn(job, {"success"}))
           /\ job.skipped = Cardinality(StepsIn(job, {"skipped"}))
           /\ job.failed = Cardinality(StepsIn(job, {"failed"}))
           /\ job.configured = Cardinality(Found(job, TRUE))
           /\ job.missing = Cardinality(Found(job, FALSE))
           /\ job.state # "running" => job.done = Cardinality(DOMAIN job.steps)
BY DEF Consistent, Ended, Found

-----------------------------------------------------------------------------
(* What happens to a job. *)

\* The account that a selector names.
LEMMA ResolveType ==
  ASSUME pool \subseteq Account, NEW s
  PROVE  Resolve(s) \in Account \cup {Absent}
<1> DEFINE own == {a \in pool : a = s \/ MailOf[a] = s}
<1>1. CASE Cardinality(own) = 1
  <2>1. own # {}
    BY <1>1, FS_EmptySet
  <2>2. (CHOOSE a \in own : TRUE) \in own
    BY <2>1
  <2>3. QED BY <1>1, <2>2 DEF Resolve
<1>2. CASE Cardinality(own) # 1
  BY <1>2 DEF Resolve
<1>3. QED BY <1>1, <1>2

\* A job that is built has counted the selectors that name no account.
LEMMA NewJobGood ==
  ASSUME BatchConstants, pool \subseteq Account, NEW action \in Actions,
         NEW selectors \in SUBSET Selector, IsFiniteSet(selectors)
  PROVE  GoodJob(NewJob(action, selectors)) /\ NewJob(action, selectors).state = "running"
<1> DEFINE job == NewJob(action, selectors)
           unknown == {s \in selectors : Resolve(s) = Absent}
<1>1. \A s \in selectors : NewStep(s) \in StepType
  BY ResolveType DEF NewStep, StepType, Ended
<1>2. /\ \A s \in selectors : NewStep(s).status \in {"pending", "failed"}
      /\ \A s \in selectors : NewStep(s).status = "failed" <=> Resolve(s) = Absent
      /\ \A s \in selectors : NewStep(s).configured = Absent
  BY DEF NewStep
<1>3. IsFiniteSet(unknown) /\ Cardinality(unknown) \in Nat
  <2>1. unknown \in SUBSET selectors
    OBVIOUS
  <2>2. QED BY <2>1, FS_Subset, FS_CardinalityType
<1>4. /\ job.action = action /\ job.state = "running"
      /\ job.steps = [s \in selectors |-> NewStep(s)]
      /\ job.done = Cardinality(unknown) /\ job.failed = Cardinality(unknown)
      /\ job.success = 0 /\ job.skipped = 0 /\ job.configured = 0 /\ job.missing = 0
  BY DEF NewJob
<1>5. job \in JobType
  <2>1. [s \in selectors |-> NewStep(s)] \in [selectors -> StepType]
    BY <1>1
  <2>2. [s \in selectors |-> NewStep(s)] \in StepsType
    BY <2>1 DEF StepsType
  <2> HIDE DEF unknown
  <2>3. QED BY <1>3, <2>2 DEF NewJob, JobType, JobWith, unknown
<1> HIDE DEF job
<1>6. DOMAIN job.steps = selectors /\ \A s \in selectors : job.steps[s] = NewStep(s)
  BY <1>4
<1>7. /\ StepsIn(job, {"success"}) = {} /\ StepsIn(job, {"skipped"}) = {}
      /\ StepsIn(job, {"failed"}) = unknown
  BY <1>2, <1>6 DEF StepsIn
<1>8. Found(job, TRUE) = {} /\ Found(job, FALSE) = {}
  BY <1>2, <1>6 DEF Found, BatchConstants
<1>9. Cardinality({}) = 0
  BY FS_EmptySet
<1> HIDE DEF unknown
<1>10. Consistent(job)
  <2>1. /\ Cardinality(StepsIn(job, {"success"})) = 0 /\ Cardinality(StepsIn(job, {"skipped"})) = 0
        /\ Cardinality(StepsIn(job, {"failed"})) = Cardinality(unknown)
        /\ Cardinality(Found(job, TRUE)) = 0 /\ Cardinality(Found(job, FALSE)) = 0
    BY <1>7, <1>8, <1>9
  <2>2. job.done = job.success + job.skipped + job.failed
    BY <1>3, <1>4
  <2>3. QED BY <1>4, <2>1, <2>2, ConsistentFields
<1>11. \A s \in StepsIn(job, Undone) : job.steps[s].configured = Absent
  BY <1>2, <1>6 DEF StepsIn
<1>12. QED BY <1>4, <1>5, <1>6, <1>10, <1>11 DEF GoodJob, job

\* A worker that takes a step changes no counter.
LEMMA TakenGood ==
  ASSUME NEW job, GoodJob(job), NEW s \in StepsIn(job, {"pending"})
  PROVE  /\ GoodJob([job EXCEPT !.steps[s].status = "running"])
         /\ [job EXCEPT !.steps[s].status = "running"].state = job.state
<1> DEFINE new == [job EXCEPT !.steps[s].status = "running"]
<1>1. /\ job \in JobType /\ IsFiniteSet(DOMAIN job.steps) /\ Consistent(job)
      /\ \A x \in StepsIn(job, Undone) : job.steps[x].configured = Absent
  BY DEF GoodJob
<1>2. s \in DOMAIN job.steps /\ job.steps[s].status = "pending"
  BY DEF StepsIn
<1>3. /\ job.steps \in [DOMAIN job.steps -> StepType] /\ DOMAIN job.steps \subseteq Selector
  BY <1>1, JobFields
<1>4. [job.steps[s] EXCEPT !.status = "running"] \in StepType
  BY <1>2, <1>3 DEF StepType
<1>5. [job.steps EXCEPT ![s].status = "running"] \in [DOMAIN job.steps -> StepType]
  BY <1>3, <1>4
<1>6. [job.steps EXCEPT ![s].status = "running"] \in StepsType
  BY <1>3, <1>5 DEF StepsType
<1>7. new = [job EXCEPT !.steps = [job.steps EXCEPT ![s].status = "running"]]
  BY <1>1 DEF JobType, JobWith
<1>8. /\ new \in JobType
      /\ new.steps = [job.steps EXCEPT ![s].status = "running"]
      /\ new.state = job.state /\ new.done = job.done
      /\ new.success = job.success /\ new.skipped = job.skipped /\ new.failed = job.failed
      /\ new.configured = job.configured /\ new.missing = job.missing
  BY <1>1, <1>6, <1>7 DEF JobType, JobWith
<1> HIDE DEF new
<1>9. /\ DOMAIN new.steps = DOMAIN job.steps
      /\ \A x \in DOMAIN job.steps : x # s => new.steps[x] = job.steps[x]
      /\ new.steps[s].status = "running" /\ new.steps[s].configured = job.steps[s].configured
  BY <1>2, <1>3, <1>4, <1>8 DEF StepType
<1>10. /\ StepsIn(new, {"success"}) = StepsIn(job, {"success"})
       /\ StepsIn(new, {"skipped"}) = StepsIn(job, {"skipped"})
       /\ StepsIn(new, {"failed"}) = StepsIn(job, {"failed"})
  BY <1>2, <1>9 DEF StepsIn
<1>11. Found(new, TRUE) = Found(job, TRUE) /\ Found(new, FALSE) = Found(job, FALSE)
  BY <1>2, <1>9 DEF Found
<1>12. Consistent(new)
  BY <1>1, <1>8, <1>9, <1>10, <1>11, ConsistentFields
<1>13. \A x \in StepsIn(new, Undone) : new.steps[x].configured = Absent
  BY <1>1, <1>2, <1>9 DEF StepsIn, Undone
<1>14. QED BY <1>1, <1>8, <1>9, <1>12, <1>13 DEF GoodJob, new

\* The outcome of a step, by the way it ended.
LEMMA OutcomeType ==
  ASSUME BatchConstants, NEW action \in Actions, NEW a, NEW o \in Outcomes(action, a)
  PROVE  o.status \in Ended /\ o.configured \in BOOLEAN \cup {Absent}
<1>1. action \in {"toggle", "check", "delete", "delete_missing", "delete_unfit"}
  BY DEF BatchConstants
<1> USE DEF Outcomes, Outcome, Failures, Ended
<1>2. CASE action = "toggle"
  BY <1>2
<1>3. CASE action = "check"
  BY <1>3
<1>4. CASE action = "delete"
  BY <1>4
<1>5. CASE action = "delete_missing"
  <2>1. o \in Failures \cup {Outcome("skipped", TRUE, FALSE), Outcome("failed", TRUE, FALSE),
                           Outcome("failed", FALSE, FALSE), Outcome("success", FALSE, TRUE)}
    BY <1>5
  <2>2. TRUE \in BOOLEAN /\ FALSE \in BOOLEAN
    OBVIOUS
  <2>3. CASE o \in Failures
    BY <2>3
  <2>4. CASE o = Outcome("skipped", TRUE, FALSE)
    BY <2>2, <2>4
  <2>5. CASE o = Outcome("failed", TRUE, FALSE)
    BY <2>2, <2>5
  <2>6. CASE o = Outcome("failed", FALSE, FALSE)
    BY <2>2, <2>6
  <2>7. CASE o = Outcome("success", FALSE, TRUE)
    BY <2>2, <2>7
  <2>8. QED BY <2>1, <2>3, <2>4, <2>5, <2>6, <2>7
<1>6. CASE action = "delete_unfit"
  BY <1>6
<1>7. QED BY <1>1, <1>2, <1>3, <1>4, <1>5, <1>6

\* What an outcome adds to the count of a way to end.
One(o, st) == IF o.status = st THEN 1 ELSE 0

\* The job with an outcome, field by field.
Counted(job, s, o, new) ==
  /\ new \in JobType /\ new.state = job.state
  /\ DOMAIN new.steps = DOMAIN job.steps
  /\ \A x \in DOMAIN job.steps \ {s} : new.steps[x] = job.steps[x]
  /\ new.steps[s].status = o.status /\ new.steps[s].configured = o.configured
  /\ new.done = job.done + 1
  /\ new.success = job.success + One(o, "success")
  /\ new.skipped = job.skipped + One(o, "skipped")
  /\ new.failed = job.failed + One(o, "failed")
  /\ new.configured = job.configured + (IF o.configured = TRUE THEN 1 ELSE 0)
  /\ new.missing = job.missing + (IF o.configured = FALSE THEN 1 ELSE 0)

LEMMA RecordedFields ==
  ASSUME NEW job \in JobType, NEW s \in DOMAIN job.steps, NEW o,
         o.status \in Ended, o.configured \in BOOLEAN \cup {Absent},
         NEW new, new = Recorded(job, s, o)
  PROVE  Counted(job, s, o, new)
<1> DEFINE step == [job.steps[s] EXCEPT !.status = o.status, !.configured = o.configured]
           steps == [job.steps EXCEPT ![s] = step]
<1>1. /\ job.steps \in [DOMAIN job.steps -> StepType] /\ DOMAIN job.steps \subseteq Selector
      /\ job.done \in Nat /\ job.success \in Nat /\ job.skipped \in Nat /\ job.failed \in Nat
      /\ job.configured \in Nat /\ job.missing \in Nat
  BY JobFields
<1>2. step \in StepType
  <2>1. job.steps[s] \in StepType
    BY <1>1
  <2>2. QED BY <2>1 DEF StepType
<1>3. steps \in [DOMAIN job.steps -> StepType]
  <2> HIDE DEF step
  <2>1. QED BY <1>1, <1>2
<1>4. steps \in StepsType
  <2> HIDE DEF steps
  <2>1. QED BY <1>1, <1>3 DEF StepsType
<1>11. /\ DOMAIN steps = DOMAIN job.steps
       /\ \A x \in DOMAIN job.steps \ {s} : steps[x] = job.steps[x]
       /\ steps[s].status = o.status /\ steps[s].configured = o.configured
  <2>1. job.steps[s] \in StepType
    BY <1>1
  <2>2. step.status = o.status /\ step.configured = o.configured
    BY <2>1 DEF StepType
  <2> HIDE DEF step
  <2>3. QED BY <1>1, <2>2
<1> DEFINE d == job.done + 1
           c == job.configured + (IF o.configured = TRUE THEN 1 ELSE 0)
           i == job.missing + (IF o.configured = FALSE THEN 1 ELSE 0)
<1>5. d \in Nat /\ c \in Nat /\ i \in Nat
  BY <1>1
<1>6. new = [job EXCEPT !.steps = steps, !.done = @ + 1, ![o.status] = @ + 1,
                        !.configured = @ + Bump(o, TRUE), !.missing = @ + Bump(o, FALSE)]
  BY <1>1 DEF Recorded, JobType, JobWith
<1> HIDE DEF step, steps, c, d, i
<1>7. CASE o.status = "success"
  <2> DEFINE e == job.success + 1
  <2>1. new = [job EXCEPT !.steps = steps, !.done = d, !.success = e,
                          !.configured = c, !.missing = i]
    BY <1>6, <1>7 DEF c, d, i, Bump
  <2>2. e \in Nat
    BY <1>1
  <2> HIDE DEF e
  <2>3. /\ new \in JobType /\ new.state = job.state /\ new.steps = steps
        /\ new.done = d /\ new.configured = c /\ new.missing = i
        /\ new.success = e /\ new.skipped = job.skipped
        /\ new.failed = job.failed
    BY <2>1, <2>2, <1>4, <1>5 DEF JobType, JobWith
  <2>4. QED BY <2>3, <1>1, <1>11, <1>7 DEF c, d, e, i, One, Counted
<1>8. CASE o.status = "skipped"
  <2> DEFINE e == job.skipped + 1
  <2>1. new = [job EXCEPT !.steps = steps, !.done = d, !.skipped = e,
                          !.configured = c, !.missing = i]
    BY <1>6, <1>8 DEF c, d, i, Bump
  <2>2. e \in Nat
    BY <1>1
  <2> HIDE DEF e
  <2>3. /\ new \in JobType /\ new.state = job.state /\ new.steps = steps
        /\ new.done = d /\ new.configured = c /\ new.missing = i
        /\ new.success = job.success /\ new.skipped = e
        /\ new.failed = job.failed
    BY <2>1, <2>2, <1>4, <1>5 DEF JobType, JobWith
  <2>4. QED BY <2>3, <1>1, <1>11, <1>8 DEF c, d, e, i, One, Counted
<1>9. CASE o.status = "failed"
  <2> DEFINE e == job.failed + 1
  <2>1. new = [job EXCEPT !.steps = steps, !.done = d, !.failed = e,
                          !.configured = c, !.missing = i]
    BY <1>6, <1>9 DEF c, d, i, Bump
  <2>2. e \in Nat
    BY <1>1
  <2> HIDE DEF e
  <2>3. /\ new \in JobType /\ new.state = job.state /\ new.steps = steps
        /\ new.done = d /\ new.configured = c /\ new.missing = i
        /\ new.success = job.success /\ new.skipped = job.skipped
        /\ new.failed = e
    BY <2>1, <2>2, <1>4, <1>5 DEF JobType, JobWith
  <2>4. QED BY <2>3, <1>1, <1>11, <1>9 DEF c, d, e, i, One, Counted
<1>10. QED BY <1>7, <1>8, <1>9 DEF Ended

\* A worker that reports adds its step to one count, and its finding to one.
LEMMA RecordedGood ==
  ASSUME BatchConstants, NEW job, GoodJob(job), job.state = "running",
         NEW s \in StepsIn(job, {"running"}),
         NEW o, o.status \in Ended, o.configured \in BOOLEAN \cup {Absent}
  PROVE  GoodJob(Recorded(job, s, o)) /\ Recorded(job, s, o).state = "running"
<1> DEFINE new == Recorded(job, s, o)
<1>1. /\ job \in JobType /\ IsFiniteSet(DOMAIN job.steps) /\ Consistent(job)
      /\ \A x \in StepsIn(job, Undone) : job.steps[x].configured = Absent
  BY DEF GoodJob
<1>2. /\ s \in DOMAIN job.steps /\ job.steps[s].status = "running"
      /\ job.steps[s].configured = Absent
  BY <1>1 DEF StepsIn, Undone
<1>3. /\ new \in JobType /\ new.state = "running"
      /\ DOMAIN new.steps = DOMAIN job.steps
      /\ \A x \in DOMAIN job.steps \ {s} : new.steps[x] = job.steps[x]
      /\ new.steps[s].status = o.status /\ new.steps[s].configured = o.configured
      /\ new.done = job.done + 1
      /\ new.success = job.success + One(o, "success")
      /\ new.skipped = job.skipped + One(o, "skipped")
      /\ new.failed = job.failed + One(o, "failed")
      /\ new.configured = job.configured + (IF o.configured = TRUE THEN 1 ELSE 0)
      /\ new.missing = job.missing + (IF o.configured = FALSE THEN 1 ELSE 0)
  <2>1. new = Recorded(job, s, o)
    OBVIOUS
  <2> HIDE DEF new
  <2>2. Counted(job, s, o, new)
    BY <1>1, <1>2, <2>1, RecordedFields
  <2>3. QED BY <2>2 DEF Counted
<1> HIDE DEF new
<1>6. ASSUME NEW st \in Ended
      PROVE  /\ Cardinality(StepsIn(new, {st})) = Cardinality(StepsIn(job, {st})) + One(o, st)
             /\ Cardinality(StepsIn(job, {st})) \in Nat
  <2>1. IsFiniteSet(StepsIn(job, {st})) /\ Cardinality(StepsIn(job, {st})) \in Nat
    BY <1>1, StepsFinite
  <2>2. s \notin StepsIn(job, {st})
    BY <1>2 DEF StepsIn, Ended
  <2>3. CASE o.status = st
    <3>1. StepsIn(new, {st}) = StepsIn(job, {st}) \cup {s}
      BY <1>2, <1>3, <2>3 DEF StepsIn
    <3>2. Cardinality(StepsIn(job, {st}) \cup {s}) = Cardinality(StepsIn(job, {st})) + 1
      BY <2>1, <2>2, FS_AddElement
    <3>3. QED BY <2>1, <2>3, <3>1, <3>2 DEF One
  <2>4. CASE o.status # st
    <3>1. StepsIn(new, {st}) = StepsIn(job, {st})
      BY <1>2, <1>3, <2>2, <2>4 DEF StepsIn
    <3>2. QED BY <2>1, <2>4, <3>1 DEF One
  <2>5. QED BY <2>3, <2>4
<1>7. ASSUME NEW v \in BOOLEAN
      PROVE  Cardinality(Found(new, v)) = Cardinality(Found(job, v)) + (IF o.configured = v THEN 1 ELSE 0)
  <2>1. Found(job, v) \subseteq DOMAIN job.steps
    BY DEF Found
  <2>2. IsFiniteSet(Found(job, v)) /\ Cardinality(Found(job, v)) \in Nat
    BY <1>1, <2>1, FS_Subset, FS_CardinalityType
  <2>3. s \notin Found(job, v)
    BY <1>2 DEF Found, BatchConstants
  <2>4. CASE o.configured = v
    <3>1. Found(new, v) = Found(job, v) \cup {s}
      BY <1>2, <1>3, <2>4 DEF Found
    <3>2. Cardinality(Found(job, v) \cup {s}) = Cardinality(Found(job, v)) + 1
      BY <2>2, <2>3, FS_AddElement
    <3>3. QED BY <2>2, <2>4, <3>1, <3>2
  <2>5. CASE o.configured # v
    <3>1. Found(new, v) = Found(job, v)
      BY <1>2, <1>3, <2>3, <2>5 DEF Found
    <3>2. QED BY <2>2, <2>5, <3>1
  <2>6. QED BY <2>4, <2>5
<1>8. Consistent(new)
  <2>1. /\ job.done = job.success + job.skipped + job.failed
        /\ job.success = Cardinality(StepsIn(job, {"success"}))
        /\ job.skipped = Cardinality(StepsIn(job, {"skipped"}))
        /\ job.failed = Cardinality(StepsIn(job, {"failed"}))
        /\ job.configured = Cardinality(Found(job, TRUE))
        /\ job.missing = Cardinality(Found(job, FALSE))
    BY <1>1, ConsistentFields
  <2>2. /\ new.success = Cardinality(StepsIn(new, {"success"}))
        /\ new.skipped = Cardinality(StepsIn(new, {"skipped"}))
        /\ new.failed = Cardinality(StepsIn(new, {"failed"}))
    <3>1. "success" \in Ended /\ "skipped" \in Ended /\ "failed" \in Ended
      BY DEF Ended
    <3>2. QED BY <1>3, <1>6, <2>1, <3>1
  <2>3. /\ new.configured = Cardinality(Found(new, TRUE))
        /\ new.missing = Cardinality(Found(new, FALSE))
    BY <1>3, <1>7, <2>1
  <2>4. new.done = new.success + new.skipped + new.failed
    <3>1. One(o, "success") + One(o, "skipped") + One(o, "failed") = 1
      BY DEF Ended, One
    <3>2. job.success \in Nat /\ job.skipped \in Nat /\ job.failed \in Nat
      BY <1>1, JobFields
    <3>3. One(o, "success") \in Nat /\ One(o, "skipped") \in Nat /\ One(o, "failed") \in Nat
      BY DEF One
    <3>4. QED BY <1>3, <2>1, <3>1, <3>2, <3>3
  <2>5. QED BY <1>3, <2>2, <2>3, <2>4, ConsistentFields
<1>9. \A x \in StepsIn(new, Undone) : new.steps[x].configured = Absent
  BY <1>1, <1>2, <1>3 DEF StepsIn, Undone, Ended
<1>10. QED BY <1>1, <1>3, <1>3, <1>8, <1>9 DEF GoodJob, new

\* A job ends when no step of it is open.
LEMMA EndedGood ==
  ASSUME NEW job, GoodJob(job), StepsIn(job, Undone) = {}
  PROVE  GoodJob([job EXCEPT !.state = "done"]) /\ [job EXCEPT !.state = "done"].state = "done"
<1> DEFINE new == [job EXCEPT !.state = "done"]
<1>1. /\ job \in JobType /\ IsFiniteSet(DOMAIN job.steps) /\ Consistent(job)
      /\ \A x \in StepsIn(job, Undone) : job.steps[x].configured = Absent
  BY DEF GoodJob
<1>2. /\ new \in JobType /\ new.state = "done" /\ new.steps = job.steps /\ new.done = job.done
      /\ new.success = job.success /\ new.skipped = job.skipped /\ new.failed = job.failed
      /\ new.configured = job.configured /\ new.missing = job.missing
  BY <1>1 DEF JobType, JobWith
<1> HIDE DEF new
<1>3. /\ \A S : StepsIn(new, S) = StepsIn(job, S)
      /\ \A v : Found(new, v) = Found(job, v)
  BY <1>2 DEF StepsIn, Found
<1>4. job.done = Cardinality(DOMAIN job.steps)
  <2>1. Cardinality(StepsIn(job, Undone)) = 0
    BY FS_EmptySet
  <2>2. job.success \in Nat /\ job.skipped \in Nat /\ job.failed \in Nat
    BY <1>1, JobFields
  <2>3. /\ job.done = job.success + job.skipped + job.failed
        /\ job.success = Cardinality(StepsIn(job, {"success"}))
        /\ job.skipped = Cardinality(StepsIn(job, {"skipped"}))
        /\ job.failed = Cardinality(StepsIn(job, {"failed"}))
    BY <1>1, ConsistentFields
  <2>4. Cardinality(DOMAIN job.steps) = Cardinality(StepsIn(job, Undone)) + job.success
           + job.skipped + job.failed
    BY <1>1, <2>3, StepsAddUp
  <2>5. QED BY <2>1, <2>2, <2>3, <2>4
<1>5. Consistent(new)
  <2>1. /\ job.done = job.success + job.skipped + job.failed
        /\ job.success = Cardinality(StepsIn(job, {"success"}))
        /\ job.skipped = Cardinality(StepsIn(job, {"skipped"}))
        /\ job.failed = Cardinality(StepsIn(job, {"failed"}))
        /\ job.configured = Cardinality(Found(job, TRUE))
        /\ job.missing = Cardinality(Found(job, FALSE))
    BY <1>1, ConsistentFields
  <2>2. QED BY <1>2, <1>3, <1>4, <2>1, ConsistentFields
<1>6. QED BY <1>1, <1>2, <1>3, <1>5 DEF GoodJob, new

\* A restart counts the open steps of a job that ran as failed.
LEMMA InterruptedGood ==
  ASSUME NEW job, GoodJob(job)
  PROVE  GoodJob(InterruptedJob(job)) /\ InterruptedJob(job).state = "interrupted"
<1> DEFINE new == InterruptedJob(job)
           open == StepsIn(job, Undone)
           steps == [s \in DOMAIN job.steps |->
                       IF s \in open THEN [job.steps[s] EXCEPT !.status = "failed"]
                                     ELSE job.steps[s]]
<1>1. /\ job \in JobType /\ IsFiniteSet(DOMAIN job.steps) /\ Consistent(job)
      /\ \A x \in open : job.steps[x].configured = Absent
  BY DEF GoodJob
<1>2. /\ job.steps \in [DOMAIN job.steps -> StepType] /\ DOMAIN job.steps \subseteq Selector
      /\ job.done \in Nat /\ job.success \in Nat /\ job.skipped \in Nat /\ job.failed \in Nat
      /\ job.configured \in Nat /\ job.missing \in Nat
  BY <1>1, JobFields
<1>3. steps \in [DOMAIN job.steps -> StepType]
  <2>1. \A s \in DOMAIN job.steps : [job.steps[s] EXCEPT !.status = "failed"] \in StepType
    BY <1>2 DEF StepType, Ended
  <2> HIDE DEF open
  <2>2. QED BY <1>2, <2>1
<1>4. steps \in StepsType
  <2> HIDE DEF steps
  <2>1. QED BY <1>2, <1>3 DEF StepsType
<1>5. IsFiniteSet(open) /\ Cardinality(open) \in Nat /\ open \subseteq DOMAIN job.steps
  BY <1>1, StepsFinite
<1> DEFINE n == Cardinality(open)
<1>6. new = [job EXCEPT !.state = "interrupted", !.steps = steps,
                        !.done = @ + n, !.failed = @ + n]
  BY <1>1 DEF InterruptedJob, JobType, JobWith, Undone
<1> HIDE DEF steps, open, n
<1>14. n \in Nat
  BY <1>5 DEF n
<1>7. /\ new \in JobType /\ new.state = "interrupted" /\ new.steps = steps
      /\ new.done = job.done + Cardinality(open)
      /\ new.success = job.success /\ new.skipped = job.skipped
      /\ new.failed = job.failed + Cardinality(open)
      /\ new.configured = job.configured /\ new.missing = job.missing
  <2> HIDE DEF new
  <2> DEFINE d == job.done + n
             e == job.failed + n
  <2>1. new = [job EXCEPT !.state = "interrupted", !.steps = steps, !.done = d, !.failed = e]
    BY <1>1, <1>6 DEF JobType, JobWith
  <2>2. d \in Nat /\ e \in Nat
    BY <1>2, <1>14
  <2> HIDE DEF d, e
  <2>3. /\ new \in JobType /\ new.state = "interrupted" /\ new.steps = steps
        /\ new.done = d /\ new.failed = e
        /\ new.success = job.success /\ new.skipped = job.skipped
        /\ new.configured = job.configured /\ new.missing = job.missing
    BY <1>1, <1>4, <2>1, <2>2 DEF JobType, JobWith
  <2>4. QED BY <2>3 DEF n, d, e
<1> HIDE DEF new
<1>8. /\ DOMAIN new.steps = DOMAIN job.steps
      /\ \A s \in DOMAIN job.steps : s \notin open => new.steps[s] = job.steps[s]
      /\ \A s \in open : /\ new.steps[s].status = "failed"
                         /\ new.steps[s].configured = job.steps[s].configured
  <2>1. \A s \in open : job.steps[s] \in StepType
    BY <1>2, <1>5
  <2>2. QED BY <1>5, <1>7, <2>1 DEF steps, StepType
<1>9. \A s \in DOMAIN job.steps : s \in open <=> job.steps[s].status \in Undone
  BY DEF open, StepsIn
<1>10. /\ StepsIn(new, {"success"}) = StepsIn(job, {"success"})
       /\ StepsIn(new, {"skipped"}) = StepsIn(job, {"skipped"})
       /\ StepsIn(new, {"failed"}) = StepsIn(job, {"failed"}) \cup open
       /\ StepsIn(job, {"failed"}) \cap open = {}
       /\ StepsIn(new, Undone) = {}
  <2>1. "success" \notin Undone /\ "skipped" \notin Undone /\ "failed" \notin Undone
    BY DEF Undone
  <2>2. /\ StepsIn(new, {"success"}) = StepsIn(job, {"success"})
        /\ StepsIn(new, {"skipped"}) = StepsIn(job, {"skipped"})
    BY <1>5, <1>8, <1>9, <2>1 DEF StepsIn
  <2>3. StepsIn(new, {"failed"}) = StepsIn(job, {"failed"}) \cup open
    BY <1>5, <1>8, <1>9, <2>1 DEF StepsIn
  <2>4. StepsIn(job, {"failed"}) \cap open = {} /\ StepsIn(new, Undone) = {}
    BY <1>5, <1>8, <1>9, <2>1 DEF StepsIn
  <2>5. QED BY <2>2, <2>3, <2>4
<1>11. Found(new, TRUE) = Found(job, TRUE) /\ Found(new, FALSE) = Found(job, FALSE)
  BY <1>5, <1>8 DEF Found
<1>12. Consistent(new)
  <2>1. /\ job.done = job.success + job.skipped + job.failed
        /\ job.success = Cardinality(StepsIn(job, {"success"}))
        /\ job.skipped = Cardinality(StepsIn(job, {"skipped"}))
        /\ job.failed = Cardinality(StepsIn(job, {"failed"}))
        /\ job.configured = Cardinality(Found(job, TRUE))
        /\ job.missing = Cardinality(Found(job, FALSE))
    BY <1>1, ConsistentFields
  <2>2. IsFiniteSet(StepsIn(job, {"failed"}))
    BY <1>1, StepsFinite
  <2>3. Cardinality(StepsIn(new, {"failed"})) = job.failed + Cardinality(open)
    <3>1. Cardinality(StepsIn(job, {"failed"}) \cup open)
            = Cardinality(StepsIn(job, {"failed"})) + Cardinality(open)
      BY <1>5, <1>10, <2>2, DisjointUnion
    <3>2. QED BY <1>10, <2>1, <3>1
  <2>4. Cardinality(DOMAIN job.steps) = Cardinality(open) + job.success + job.skipped + job.failed
    BY <1>1, <2>1, StepsAddUp DEF open
  <2>5. new.done = Cardinality(DOMAIN new.steps)
    BY <1>2, <1>5, <1>7, <1>8, <2>1, <2>4
  <2>6. new.done = new.success + new.skipped + new.failed
    BY <1>2, <1>5, <1>7, <2>1
  <2>7. QED BY <1>7, <1>10, <1>11, <2>1, <2>3, <2>5, <2>6, ConsistentFields
<1>13. QED BY <1>1, <1>7, <1>8, <1>10, <1>12 DEF GoodJob, new

\* The oldest jobs go, the others stay as they are.
LEMMA TrimmedFacts ==
  ASSUME NEW f
  PROVE  /\ DOMAIN Trimmed(f) \subseteq DOMAIN f
         /\ \A j \in DOMAIN Trimmed(f) : Trimmed(f)[j] = f[j]
BY DEF Trimmed

-----------------------------------------------------------------------------
(* The gate, the list and the file. *)

LEMMA GateFacts ==
  ASSUME BatchConstants, BatchInv
  PROVE  /\ IsFiniteSet(Asking) /\ Cardinality(Asking) \in Nat
         /\ IsFiniteSet(runners) /\ Cardinality(runners) \in Nat
         /\ gateUsers = Cardinality(Asking) + Cardinality(runners)
         /\ started \in Nat /\ restarts \in Nat
         /\ \A c \in Asking : Cardinality(Asking \ {c}) = Cardinality(Asking) - 1
         /\ \A c \in Asking : Cardinality(Asking) > 0
         /\ \A j \in runners : Cardinality(runners \ {j}) = Cardinality(runners) - 1
         /\ \A j \in runners : Cardinality(runners) > 0
<1>1. started \in Nat /\ restarts \in Nat
  BY DEF BatchInv, Frame, BatchConstants
<1>2. IsFiniteSet(Asking) /\ Cardinality(Asking) \in Nat
  <2>1. Asking \subseteq Caller
    BY DEF Asking
  <2>2. QED BY <2>1, FS_Subset, FS_CardinalityType DEF BatchConstants
<1>3. IsFiniteSet(runners) /\ Cardinality(runners) \in Nat
  <2>1. IsFiniteSet(1 .. started)
    BY <1>1, FS_Interval
  <2>2. runners \subseteq 1 .. started
    BY DEF BatchInv, GoodJobs
  <2>3. QED BY <2>1, <2>2, FS_Subset, FS_CardinalityType
<1>4. gateUsers = Cardinality(Asking) + Cardinality(runners)
  BY DEF BatchInv, OneJob, Asking
<1>5. ASSUME NEW S, IsFiniteSet(S), NEW x \in S
      PROVE  Cardinality(S \ {x}) = Cardinality(S) - 1 /\ Cardinality(S) > 0
  <2>1. Cardinality(S \ {x}) = Cardinality(S) - 1
    BY <1>5, FS_RemoveElement
  <2>2. Cardinality(S) \in Nat /\ Cardinality(S) # 0
    BY <1>5, FS_CardinalityType, FS_EmptySet
  <2>3. QED BY <2>1, <2>2
<1>6. \A c \in Asking : Cardinality(Asking \ {c}) = Cardinality(Asking) - 1 /\ Cardinality(Asking) > 0
  BY <1>2, <1>5
<1>7. \A j \in runners : Cardinality(runners \ {j}) = Cardinality(runners) - 1 /\ Cardinality(runners) > 0
  BY <1>3, <1>5
<1>8. QED BY <1>1, <1>2, <1>3, <1>4, <1>6, <1>7

\* A job is built and the gate entered.
LEMMA EnterInv ==
  ASSUME BatchConstants, BatchInv, NEW c \in Caller, NEW action \in Actions,
         NEW selectors \in SUBSET Selector, IsFiniteSet(selectors), Enter(c, action, selectors)
  PROVE  BatchInv'
<1> DEFINE job == NewJob(action, selectors)
<1>1. /\ batch[c] = Absent /\ ~restoring
      /\ gateUsers' = gateUsers + 1 /\ batch' = [batch EXCEPT ![c] = job]
      /\ UNCHANGED <<jobs, file, hasPath, pool, runners, restoring, started, restarts>>
  BY DEF Enter, batchBounds
<1>2. GoodJob(job)
  BY NewJobGood DEF BatchInv, Frame
<1> HIDE DEF job
<1>3. job \in JobType /\ job # Absent
  BY <1>2 DEF GoodJob, BatchConstants
<1>4. /\ batch' \in [Caller -> JobType \cup {Absent}] /\ batch'[c] = job
      /\ \A x \in Caller \ {c} : batch'[x] = batch[x]
  BY <1>1, <1>3 DEF BatchInv, Frame
<1>5. Asking' = Asking \cup {c} /\ c \notin Asking
  BY <1>1, <1>3, <1>4 DEF Asking
<1>6. Cardinality(Asking') = Cardinality(Asking) + 1
  BY <1>5, GateFacts, FS_AddElement
<1>7. Frame'
  BY <1>1, <1>4 DEF BatchInv, Frame
<1>8. GoodJobs'
  BY <1>1, <1>2, <1>4 DEF BatchInv, GoodJobs
<1>9. OneJob'
  <2>1. Running' = Running
    BY <1>1 DEF Running
  <2>2. gateUsers' = Cardinality(Asking') + Cardinality(runners')
    BY <1>1, <1>6, GateFacts
  <2>3. QED BY <1>1, <2>1, <2>2 DEF BatchInv, OneJob, Asking
<1>10. QED BY <1>7, <1>8, <1>9 DEF BatchInv

LEMMA StartInv ==
  ASSUME BatchConstants, BatchInv, NEW c \in Caller, StartJob(c)
  PROVE  BatchInv'
<1>1. PICK action \in Actions, selectors \in Selections : Enter(c, action, selectors)
  BY DEF StartJob
<1>2. selectors \in SUBSET Selector /\ IsFiniteSet(selectors)
  BY DEF Selector, BatchConstants
<1>3. QED BY <1>1, <1>2, EnterInv

\* What a retry asks for are selectors and accounts of a job.
LEMMA AgainFacts ==
  ASSUME NEW job, GoodJob(job)
  PROVE  Again(job) \subseteq Selector /\ IsFiniteSet(Again(job))
<1> DEFINE S == StepsIn(job, {"failed"})
           who(s) == IF job.steps[s].acct = Absent THEN s ELSE job.steps[s].acct
           f == [s \in S |-> who(s)]
<1>1. IsFiniteSet(S) /\ S \subseteq DOMAIN job.steps
  BY StepsFinite DEF GoodJob
<1>2. Again(job) = {who(s) : s \in S}
  BY DEF Again
<1>3. f \in Surjection(S, Again(job))
  <2> HIDE DEF S
  <2>1. f \in [S -> Again(job)]
    BY <1>2
  <2>2. \A t \in Again(job) : \E s \in S : f[s] = t
    BY <1>2
  <2>3. QED BY <2>1, <2>2 DEF Surjection
<1>4. IsFiniteSet(Again(job))
  BY <1>1, <1>3, FS_Surjection
<1>5. \A s \in S : who(s) \in Selector
  <2>1. /\ job.steps \in [DOMAIN job.steps -> StepType] /\ DOMAIN job.steps \subseteq Selector
    BY JobFields DEF GoodJob
  <2>2. \A s \in S : job.steps[s].acct \in Account \cup {Absent}
    BY <1>1, <2>1, StepFields
  <2>3. QED BY <1>1, <2>1, <2>2 DEF Selector
<1>6. QED BY <1>2, <1>4, <1>5

LEMMA BatchRetryInv ==
  ASSUME BatchConstants, BatchInv, NEW c \in Caller, RetryJob(c)
  PROVE  BatchInv'
<1>1. PICK j \in DOMAIN jobs : Enter(c, jobs[j].action, Again(jobs[j]))
  BY DEF RetryJob
<1>2. GoodJob(jobs[j])
  BY DEF BatchInv, GoodJobs
<1>3. jobs[j].action \in Actions
  BY <1>2, JobFields DEF GoodJob
<1>4. Again(jobs[j]) \in SUBSET Selector /\ IsFiniteSet(Again(jobs[j]))
  BY <1>2, AgainFacts
<1>5. QED BY <1>1, <1>3, <1>4, EnterInv

\* The gate is left without a job.
LEMMA RefuseInv ==
  ASSUME BatchConstants, BatchInv, NEW c \in Caller, RefuseJob(c)
  PROVE  BatchInv'
<1>1. /\ batch[c] # Absent /\ gateUsers' = gateUsers - 1
      /\ batch' = [batch EXCEPT ![c] = Absent]
      /\ UNCHANGED <<jobs, file, hasPath, pool, runners, restoring, started, restarts>>
  BY DEF RefuseJob, batchBounds
<1>2. /\ batch' \in [Caller -> JobType \cup {Absent}] /\ batch'[c] = Absent
      /\ \A x \in Caller \ {c} : batch'[x] = batch[x]
  BY <1>1 DEF BatchInv, Frame
<1>3. Asking' = Asking \ {c} /\ c \in Asking
  BY <1>1, <1>2 DEF Asking
<1>4. /\ Cardinality(Asking') = Cardinality(Asking) - 1 /\ Cardinality(Asking) > 0
      /\ Cardinality(Asking) \in Nat /\ Cardinality(runners) \in Nat
      /\ gateUsers = Cardinality(Asking) + Cardinality(runners)
  BY <1>3, GateFacts
<1>5. ~restoring
  BY <1>4 DEF BatchInv, OneJob
<1>6. gateUsers' \in Nat /\ gateUsers' = Cardinality(Asking') + Cardinality(runners')
  BY <1>1, <1>4
<1>7. Frame'
  BY <1>1, <1>2, <1>6 DEF BatchInv, Frame
<1>8. GoodJobs'
  BY <1>1, <1>2 DEF BatchInv, GoodJobs
<1>9. OneJob'
  <2>1. Running' = Running
    BY <1>1 DEF Running
  <2>2. QED BY <1>1, <1>5, <1>6, <2>1 DEF BatchInv, OneJob, Asking
<1>10. QED BY <1>7, <1>8, <1>9 DEF BatchInv

\* What is saved is the old file or the list.
LEMMA PersistGood ==
  ASSUME Persist, started' \in Nat, started \in Nat, started <= started',
         file # Absent => \A j \in DOMAIN file : j \in 1 .. started /\ GoodJob(file[j]),
         \A j \in DOMAIN jobs' : j \in 1 .. started' /\ GoodJob(jobs'[j])
  PROVE  file' # Absent => \A j \in DOMAIN file' : j \in 1 .. started' /\ GoodJob(file'[j])
<1>1. file' = file \/ file' = jobs'
  BY DEF Persist
<1>2. QED BY <1>1

\* The job is listed under an id that is new; no other job runs.
LEMMA ListInv ==
  ASSUME BatchConstants, BatchInv, NEW c \in Caller, List(c)
  PROVE  BatchInv'
<1> DEFINE j == started + 1
           all == [k \in DOMAIN jobs \cup {j} |-> IF k = j THEN batch[c] ELSE jobs[k]]
<1>1. /\ Running = {} /\ batch[c] # Absent /\ started < MaxJobs
      /\ jobs' = Trimmed(all) /\ runners' = runners \cup {j} /\ started' = j
      /\ Persist /\ batch' = [batch EXCEPT ![c] = Absent]
      /\ UNCHANGED <<hasPath, pool, gateUsers, restoring, restarts>>
  BY DEF List, gate
<1>2. started \in Nat /\ started' \in 0 .. MaxJobs /\ started' \in Nat /\ started <= started'
  BY <1>1, GateFacts DEF BatchConstants
<1>3. GoodJob(batch[c]) /\ \A k \in DOMAIN jobs : k \in 1 .. started /\ GoodJob(jobs[k])
  BY <1>1 DEF BatchInv, GoodJobs
<1>4. DOMAIN jobs' \subseteq DOMAIN jobs \cup {j} /\ \A k \in DOMAIN jobs' : jobs'[k] = all[k]
  <2>1. DOMAIN all = DOMAIN jobs \cup {j}
    OBVIOUS
  <2> HIDE DEF all
  <2>2. QED BY <1>1, <2>1, TrimmedFacts
<1>5. \A k \in DOMAIN jobs' : \/ k = j /\ jobs'[k] = batch[c]
                              \/ k \in DOMAIN jobs /\ k # j /\ jobs'[k] = jobs[k]
  <2>1. j \notin DOMAIN jobs
    BY <1>2, <1>3
  <2>2. QED BY <1>4, <2>1
<1>6. \A k \in DOMAIN jobs' : k \in 1 .. started' /\ GoodJob(jobs'[k])
  BY <1>1, <1>2, <1>3, <1>5
<1>7. /\ batch' \in [Caller -> JobType \cup {Absent}] /\ batch'[c] = Absent
      /\ \A x \in Caller \ {c} : batch'[x] = batch[x]
  BY <1>1 DEF BatchInv, Frame
<1>8. Frame'
  BY <1>1, <1>2, <1>7 DEF BatchInv, Frame
<1>9. GoodJobs'
  <2>1. file # Absent => \A k \in DOMAIN file : k \in 1 .. started /\ GoodJob(file[k])
    BY DEF BatchInv, GoodJobs
  <2>2. file' # Absent => \A k \in DOMAIN file' : k \in 1 .. started' /\ GoodJob(file'[k])
    BY <1>1, <1>2, <1>6, <2>1, PersistGood
  <2>3. \A x \in Caller : batch'[x] # Absent => GoodJob(batch'[x])
    BY <1>7 DEF BatchInv, GoodJobs
  <2>4. runners' \subseteq 1 .. started'
    BY <1>1, <1>2 DEF BatchInv, GoodJobs
  <2>5. QED BY <1>6, <2>2, <2>3, <2>4 DEF GoodJobs
<1>10. OneJob'
  <2>1. Running' \subseteq {j}
    BY <1>1, <1>5 DEF Running
  <2>2. Cardinality(Running') <= 1
    <3>1. IsFiniteSet({j}) /\ Cardinality({j}) = 1
      BY FS_Singleton
    <3>2. QED BY <2>1, <3>1, FS_Subset
  <2>3. Asking' = Asking \ {c} /\ c \in Asking
    BY <1>1, <1>7 DEF Asking
  <2>4. j \notin runners
    BY <1>2 DEF BatchInv, GoodJobs
  <2>5. Cardinality(runners') = Cardinality(runners) + 1
    BY <1>1, <2>4, GateFacts, FS_AddElement
  <2>6. gateUsers' = Cardinality(Asking') + Cardinality(runners')
    BY <1>1, <2>3, <2>5, GateFacts
  <2>7. Running' \subseteq runners'
    BY <1>1, <2>1
  <2>8. QED BY <1>1, <2>2, <2>6, <2>7 DEF BatchInv, OneJob, Asking
<1>11. QED BY <1>8, <1>9, <1>10 DEF BatchInv

-----------------------------------------------------------------------------
(* The workers, the end of a job and the release of the gate. *)

\* A step that touches one job of the list, and not which jobs run.
LEMMA WorkInv ==
  ASSUME BatchInv, NEW j \in DOMAIN jobs, NEW job, GoodJob(job), job.state = jobs[j].state,
         jobs' = [jobs EXCEPT ![j] = job], pool' \subseteq pool,
         UNCHANGED <<file, hasPath, batch, runners, gateUsers, restoring, started, restarts>>
  PROVE  BatchInv'
<1>1. /\ DOMAIN jobs' = DOMAIN jobs /\ jobs'[j] = job
      /\ \A k \in DOMAIN jobs : k # j => jobs'[k] = jobs[k]
  OBVIOUS
<1>2. Frame'
  BY DEF BatchInv, Frame
<1>3. GoodJobs'
  BY <1>1 DEF BatchInv, GoodJobs
<1>4. Running' = Running
  BY <1>1 DEF Running
<1>5. OneJob'
  BY <1>4 DEF BatchInv, OneJob
<1>6. QED BY <1>2, <1>3, <1>5 DEF BatchInv

LEMMA TakeInv ==
  ASSUME BatchInv, NEW j \in DOMAIN jobs, Take(j)
  PROVE  BatchInv'
<1>1. PICK s \in StepsIn(jobs[j], {"pending"}) :
        jobs' = [jobs EXCEPT ![j].steps[s].status = "running"]
  BY DEF Take
<1>2. UNCHANGED <<file, hasPath, pool, batch, runners, gateUsers, restoring, started, restarts>>
  BY DEF Take, gate, batchBounds
<1> DEFINE job == [jobs[j] EXCEPT !.steps[s].status = "running"]
<1>3. jobs' = [jobs EXCEPT ![j] = job]
  BY <1>1
<1>4. GoodJob(job) /\ job.state = jobs[j].state
  BY TakenGood DEF BatchInv, GoodJobs
<1> HIDE DEF job
<1>5. QED BY <1>2, <1>3, <1>4, WorkInv

LEMMA ExecuteInv ==
  ASSUME BatchConstants, BatchInv, NEW j \in DOMAIN jobs, Execute(j)
  PROVE  BatchInv'
<1>1. PICK s \in StepsIn(jobs[j], {"running"}) :
        \E o \in Outcomes(jobs[j].action, jobs[j].steps[s].acct) :
           /\ jobs' = [jobs EXCEPT ![j] = Recorded(@, s, o)]
           /\ pool' = IF o.gone THEN pool \ {jobs[j].steps[s].acct} ELSE pool
  BY DEF Execute
<1>2. PICK o \in Outcomes(jobs[j].action, jobs[j].steps[s].acct) :
           /\ jobs' = [jobs EXCEPT ![j] = Recorded(@, s, o)]
           /\ pool' = IF o.gone THEN pool \ {jobs[j].steps[s].acct} ELSE pool
  BY <1>1
<1>3. /\ UNCHANGED <<file, hasPath, batch, runners, gateUsers, restoring, started, restarts>>
      /\ jobs[j].state = "running"
  BY DEF Execute, gate, batchBounds, Running
<1>4. GoodJob(jobs[j])
  BY DEF BatchInv, GoodJobs
<1>5. o.status \in Ended /\ o.configured \in BOOLEAN \cup {Absent}
  <2>1. jobs[j].action \in Actions
    BY <1>4, JobFields DEF GoodJob
  <2>2. QED BY <2>1, OutcomeType
<1>6. GoodJob(Recorded(jobs[j], s, o)) /\ Recorded(jobs[j], s, o).state = jobs[j].state
  BY <1>3, <1>4, <1>5, RecordedGood
<1> DEFINE job == Recorded(jobs[j], s, o)
<1>7. jobs' = [jobs EXCEPT ![j] = job] /\ pool' \subseteq pool
  BY <1>2
<1> HIDE DEF job
<1>8. GoodJob(job) /\ job.state = jobs[j].state
  BY <1>6 DEF job
<1>9. QED BY <1>3, <1>7, <1>8, WorkInv

LEMMA EndInv ==
  ASSUME BatchConstants, BatchInv, NEW j \in DOMAIN jobs, EndJob(j)
  PROVE  BatchInv'
<1> DEFINE job == [jobs[j] EXCEPT !.state = "done"]
<1>1. /\ j \in Running /\ StepsIn(jobs[j], Undone) = {}
      /\ jobs' = [jobs EXCEPT ![j] = job] /\ Persist
      /\ UNCHANGED <<hasPath, pool, batch, runners, gateUsers, restoring, started, restarts>>
  BY DEF EndJob, Undone, gate, batchBounds
<1>2. GoodJob(job) /\ job.state = "done"
  BY <1>1, EndedGood DEF BatchInv, GoodJobs
<1> HIDE DEF job
<1>3. /\ DOMAIN jobs' = DOMAIN jobs /\ jobs'[j] = job
      /\ \A k \in DOMAIN jobs : k # j => jobs'[k] = jobs[k]
  BY <1>1
<1>4. Frame'
  BY <1>1 DEF BatchInv, Frame
<1>5. \A k \in DOMAIN jobs' : k \in 1 .. started' /\ GoodJob(jobs'[k])
  BY <1>1, <1>2, <1>3 DEF BatchInv, GoodJobs
<1>6. GoodJobs'
  <2>1. file # Absent => \A k \in DOMAIN file : k \in 1 .. started /\ GoodJob(file[k])
    BY DEF BatchInv, GoodJobs
  <2>2. file' # Absent => \A k \in DOMAIN file' : k \in 1 .. started' /\ GoodJob(file'[k])
    BY <1>1, <1>5, <2>1, PersistGood, GateFacts
  <2>3. QED BY <1>1, <1>5, <2>2 DEF BatchInv, GoodJobs
<1>7. OneJob'
  <2>1. Running' \subseteq Running
    BY <1>2, <1>3 DEF Running
  <2>2. IsFiniteSet(Running) /\ Cardinality(Running) <= 1 /\ Running \subseteq runners
    BY GateFacts, FS_Subset DEF BatchInv, OneJob
  <2>3. Cardinality(Running') <= Cardinality(Running) /\ Cardinality(Running') \in Nat
        /\ Cardinality(Running) \in Nat
    BY <2>1, <2>2, FS_Subset, FS_CardinalityType
  <2>4. QED BY <1>1, <2>1, <2>2, <2>3 DEF BatchInv, OneJob
<1>8. QED BY <1>4, <1>6, <1>7 DEF BatchInv

\* The gate is released for a job that is over.
LEMMA LeaveInv ==
  ASSUME BatchConstants, BatchInv, NEW j \in runners, LeaveGate(j)
  PROVE  BatchInv'
<1>1. /\ j \notin Running /\ runners' = runners \ {j} /\ gateUsers' = gateUsers - 1
      /\ UNCHANGED <<jobs, file, hasPath, pool, batch, restoring, started, restarts>>
  BY DEF LeaveGate, batchBounds
<1>2. /\ Cardinality(runners') = Cardinality(runners) - 1 /\ Cardinality(runners) > 0
      /\ Cardinality(Asking) \in Nat /\ Cardinality(runners) \in Nat
      /\ gateUsers = Cardinality(Asking) + Cardinality(runners)
  BY <1>1, GateFacts
<1>3. ~restoring
  BY <1>2 DEF BatchInv, OneJob
<1>4. gateUsers' \in Nat /\ gateUsers' = Cardinality(Asking) + Cardinality(runners')
  BY <1>1, <1>2
<1>5. Frame'
  BY <1>1, <1>4 DEF BatchInv, Frame
<1>6. GoodJobs'
  BY <1>1 DEF BatchInv, GoodJobs
<1>7. OneJob'
  <2>1. Running' = Running /\ Asking' = Asking
    BY <1>1 DEF Running, Asking
  <2>2. QED BY <1>1, <1>3, <1>4, <2>1 DEF BatchInv, OneJob, Asking
<1>8. QED BY <1>5, <1>6, <1>7 DEF BatchInv

-----------------------------------------------------------------------------
(* Restores and restarts. *)

LEMMA RestoreInv ==
  ASSUME BatchInv, BeginRestore \/ EndRestore
  PROVE  BatchInv'
<1>1. /\ UNCHANGED <<jobs, file, hasPath, batch, runners, gateUsers, started, restarts>>
      /\ pool' \subseteq Account /\ restoring' \in BOOLEAN
      /\ restoring' => gateUsers = 0
  BY DEF BeginRestore, EndRestore, batchBounds, BatchInv, Frame
<1>2. Frame'
  BY <1>1 DEF BatchInv, Frame
<1>3. GoodJobs'
  BY <1>1 DEF BatchInv, GoodJobs
<1>4. OneJob'
  <2>1. Running' = Running
    BY <1>1 DEF Running
  <2>2. QED BY <1>1, <2>1 DEF BatchInv, OneJob
<1>5. QED BY <1>2, <1>3, <1>4 DEF BatchInv

\* What is loaded are jobs that are over.
LEMMA LoadedGood ==
  ASSUME NEW f, f # Absent => \A j \in DOMAIN f : j \in 1 .. started /\ GoodJob(f[j])
  PROVE  \A j \in DOMAIN Loaded(f) : /\ j \in 1 .. started /\ GoodJob(Loaded(f)[j])
                                     /\ Loaded(f)[j].state # "running"
<1>1. CASE f = Absent
  <2>1. Loaded(f) = <<>>
    BY <1>1 DEF Loaded
  <2>2. DOMAIN <<>> = {}
    OBVIOUS
  <2>3. QED BY <2>1, <2>2
<1>2. CASE f # Absent
  <2> DEFINE g == [j \in DOMAIN f |-> IF f[j].state = "running" THEN InterruptedJob(f[j]) ELSE f[j]]
  <2>1. Loaded(f) = Trimmed(g)
    BY <1>2 DEF Loaded
  <2>2. \A j \in DOMAIN f : GoodJob(g[j]) /\ g[j].state # "running"
    BY <1>2, InterruptedGood
  <2>3. DOMAIN g = DOMAIN f
    OBVIOUS
  <2> HIDE DEF g
  <2>4. QED BY <1>2, <2>1, <2>2, <2>3, TrimmedFacts
<1>3. QED BY <1>1, <1>2

LEMMA RestartInv ==
  ASSUME BatchConstants, BatchInv, RestartJobs
  PROVE  BatchInv'
<1>1. /\ restarts < MaxRestarts /\ restarts' = restarts + 1
      /\ file' = file \/ file' = Absent
      /\ jobs' = Loaded(file') /\ hasPath' = (file' # Absent)
      /\ pool' \in SUBSET pool /\ batch' = [c \in Caller |-> Absent]
      /\ runners' = {} /\ gateUsers' = 0 /\ restoring' = FALSE /\ started' = started
  BY DEF RestartJobs
<1>2. file' # Absent => \A j \in DOMAIN file' : j \in 1 .. started /\ GoodJob(file'[j])
  BY <1>1 DEF BatchInv, GoodJobs
<1>3. \A j \in DOMAIN jobs' : /\ j \in 1 .. started /\ GoodJob(jobs'[j])
                              /\ jobs'[j].state # "running"
  BY <1>1, <1>2, LoadedGood
<1>4. Frame'
  <2>1. restarts' \in 0 .. MaxRestarts
    BY <1>1, GateFacts DEF BatchConstants
  <2>2. hasPath' \in BOOLEAN
    BY <1>1
  <2>3. QED BY <1>1, <2>1, <2>2 DEF BatchInv, Frame
<1>5. GoodJobs'
  BY <1>1, <1>2, <1>3 DEF GoodJobs
<1>6. OneJob'
  <2>1. Running' = {} /\ Asking' = {}
    BY <1>1, <1>3 DEF Running, Asking
  <2>2. Cardinality({}) = 0
    BY FS_EmptySet
  <2>3. QED BY <1>1, <2>1, <2>2 DEF OneJob, Asking
<1>7. QED BY <1>4, <1>5, <1>6 DEF BatchInv

-----------------------------------------------------------------------------
LEMMA BatchInitInv == ASSUME BatchConstants PROVE BatchInit => BatchInv
<1> SUFFICES ASSUME BatchInit PROVE BatchInv
  OBVIOUS
<1>1. /\ DOMAIN jobs = {} /\ DOMAIN file = {} /\ hasPath = TRUE /\ pool = Account
      /\ batch = [c \in Caller |-> Absent] /\ runners = {} /\ gateUsers = 0
      /\ restoring = FALSE /\ started = 0 /\ restarts = 0
  BY DEF BatchInit
<1>2. Frame
  <2>1. MaxJobs \in Nat /\ MaxRestarts \in Nat
    BY DEF BatchConstants
  <2>2. hasPath \in BOOLEAN /\ restoring \in BOOLEAN
    BY <1>1
  <2>3. batch \in [Caller -> JobType \cup {Absent}]
    BY <1>1
  <2>4. QED BY <1>1, <2>1, <2>2, <2>3 DEF Frame
<1>3. GoodJobs
  BY <1>1 DEF GoodJobs
<1>4. Running = {} /\ Asking = {} /\ Cardinality({}) = 0
  BY <1>1, FS_EmptySet DEF Running, Asking
<1>5. OneJob
  <2>1. gateUsers = Cardinality(Asking) + Cardinality(runners)
    BY <1>1, <1>4
  <2>2. Cardinality(Running) <= 1 /\ Running \subseteq runners
    BY <1>4
  <2>3. QED BY <1>1, <2>1, <2>2 DEF OneJob, Asking
<1>6. QED BY <1>2, <1>3, <1>5 DEF BatchInv

LEMMA BatchNextInv == ASSUME BatchConstants PROVE BatchInv /\ [BatchNext]_batchVars => BatchInv'
<1> SUFFICES ASSUME BatchInv, [BatchNext]_batchVars PROVE BatchInv'
  OBVIOUS
<1>1. CASE \E c \in Caller : StartJob(c) \/ RetryJob(c) \/ RefuseJob(c) \/ List(c)
  BY <1>1, StartInv, BatchRetryInv, RefuseInv, ListInv
<1>2. CASE \E j \in DOMAIN jobs : Take(j) \/ Execute(j) \/ EndJob(j)
  BY <1>2, TakeInv, ExecuteInv, EndInv
<1>3. CASE \E j \in runners : LeaveGate(j)
  BY <1>3, LeaveInv
<1>4. CASE BeginRestore \/ EndRestore \/ RestartJobs
  BY <1>4, RestoreInv, RestartInv
<1>5. CASE UNCHANGED batchVars
  <2>1. UNCHANGED <<jobs, file, hasPath, pool, batch, runners, gateUsers, restoring, started,
                    restarts>>
    BY <1>5 DEF batchVars, gate, batchBounds
  <2>2. Running' = Running
    BY <2>1 DEF Running
  <2>3. QED BY <2>1, <2>2 DEF BatchInv, Frame, GoodJobs, OneJob
<1>6. QED BY <1>1, <1>2, <1>3, <1>4, <1>5 DEF BatchNext

LEMMA BatchInvAlways == ASSUME BatchConstants PROVE BatchSpec => []BatchInv
<1>1. QED BY BatchInitInv, BatchNextInv, PTL DEF BatchSpec

\* Every variable keeps its type, and no id is given out twice.
THEOREM BatchTypeCorrect == ASSUME BatchConstants PROVE BatchSpec => []BatchTypeOK
<1>1. BatchInv => BatchTypeOK
  <2> SUFFICES ASSUME BatchInv PROVE BatchTypeOK
    OBVIOUS
  <2>1. started \in Nat /\ MaxJobs \in Nat /\ started <= MaxJobs
    BY DEF BatchInv, Frame, BatchConstants
  <2>2. \A j \in 1 .. started : j \in 1 .. MaxJobs
    BY <2>1
  <2>3. \A job : job \in JobType => JobOK(job)
    <3> SUFFICES ASSUME NEW job \in JobType PROVE JobOK(job)
      OBVIOUS
    <3>1. job.steps \in [DOMAIN job.steps -> StepType] /\ DOMAIN job.steps \subseteq Selector
      BY JobFields
    <3>2. QED BY <3>1 DEF JobOK, JobType, JobWith
  <2>4. /\ \A j \in DOMAIN jobs : j \in 1 .. MaxJobs /\ JobOK(jobs[j])
        /\ file # Absent => \A j \in DOMAIN file : j \in 1 .. MaxJobs /\ JobOK(file[j])
        /\ runners \subseteq 1 .. MaxJobs
    BY <2>2, <2>3 DEF BatchInv, GoodJobs, GoodJob
  <2>5. DOMAIN batch = Caller /\ \A c \in Caller : batch[c] # Absent => JobOK(batch[c])
    BY <2>3 DEF BatchInv, Frame
  <2>6. QED BY <2>4, <2>5 DEF BatchInv, Frame, BatchTypeOK
<1>2. QED BY <1>1, BatchInvAlways, PTL

\* The counters of a job are those of its steps, in memory and in the file, whatever the
\* workers, a retry, the trimming and restarts do.
THEOREM CountsAreExact == ASSUME BatchConstants PROVE BatchSpec => []Counts
<1>1. BatchInv => Counts
  BY DEF BatchInv, GoodJobs, GoodJob, Counts
<1>2. QED BY <1>1, BatchInvAlways, PTL

\* One job runs at a time, with its goroutine, and the gate is held for exactly the jobs
\* that run or are about to be listed.
THEOREM OneJobRuns == ASSUME BatchConstants PROVE BatchSpec => []OneJob
<1>1. BatchInv => OneJob
  BY DEF BatchInv
<1>2. QED BY <1>1, BatchInvAlways, PTL

=============================================================================
