# notion_manager: TLA+ models, checks and proofs

notion_manager is a Go service that answers OpenAI- and Anthropic-style requests
with the Notion AI of a pool of Notion accounts, and manages that pool: it
registers accounts, refreshes their quota, saves, backs up, restores and deletes
them.  This directory models the parts of it whose correctness depends on the
order of events.  It is written from the source; every definition that stands for
code names its lines in `PROJECT.json` under `map`.

## Inventory of the system

| component | state | operations | what is hard |
|---|---|---|---|
| conversation session cache (`session.go`) | key -> session, ambiguous keys, key versions, epoch; a mutex per session held during a whole inference | `Get`, `Set`, `DeleteIf`, `MarkAmbiguous`, `PublishReplacement`, `DeleteByAccountID`, `Clear`, sweep | a completion, a waiter and a purge race; a stale session must never be continued |
| account pool and login leases (`account.go`) | list of accounts, calls in flight per login, round-robin cursor | `LeaseAccount`, `NextBestLease`, `Release`, load, reload, add, remove | a slot leaked or taken twice; an account removed or replaced while leased |
| account health and quota (`account.go`, `account_failover.go`) | quarantine deadline, quota exhaustion, authentication validity, refresh flights and generations | mark, clear, refresh, single flight | an answer that arrives late overwrites a newer one; a failure of one token marks another |
| request failover (`anthropic.go`) | tried accounts, attempts, session, lease | select, check quota, attempt, classify, retry | every exit releases the lease and the session; a thread never changes its account |
| account files (`account.go`, `account_api.go`, `accountstore/`) | one JSON file per workspace, directory lock, maintenance gate | import, register, refresh, disable, reject, reload, delete by identity or e-mail | a save that revives a deleted file; an old token that overwrites a new one |
| batch jobs (`account_batch_jobs.go`) | jobs and steps, one running job, its hold on the maintenance gate, a JSON file | start, run, retry, list, restart | two tabs at once, counters, a crash in the middle of a job |
| registration jobs (`internal/regjob`, `admin_register_jobs.go`) | jobs, steps, subscribers with bounded channels, sidecar inputs | create, run, subscribe, finish, delete, retry, restart | events dropped, a channel closed while it is sent to, a job that never ends |
| backup and restore (`backup.go`) | staged files, a snapshot, the settings file | download, check, stage, swap, roll back | a failure between two renames, and another in the rollback; a handler that does not know of the restore |
| usage statistics (`usage_stats.go`) | totals and totals by day with a dirty flag, a JSON file | record, trim, flush, load | a write during a flush, a crash during a flush |
| request history (`request_history.go`) | a diagnostic per request, rows with a revision, a JSON file | begin and finish attempts, record, clear, flush, load | a call that outlives its handler, a clearing that overtakes a save |
| answers (`notion.go`, `anthropic.go`, `openai.go`) | parser state, open blocks, pending events, the bridge's channel | thinking, text, tools, search, researcher mode, retry, end | order of the parts, a failure after the answer began, a client that leaves, two goroutines |
| reverse proxy and dashboard sessions | cookie -> account | create, resolve, log out | an account that disappears |
| login, providers, transport, configuration, web | | | not modelled: I/O, scraping and presentation |

The message handler (`HandleAnthropicMessages`; the OpenAI handlers call it) looks a
session up, leases an account, may refresh its quota, waits for the session mutex,
calls Notion, publishes the key of the reply, stores or forgets the session, releases
the lease, and on a retryable failure starts again with another account.  Administrators
delete and restore accounts (which purges sessions), and change settings (which clears
them).  Background goroutines refresh accounts, sweep sessions and save files.

The components meet in few places, and the models are cut there: the session of a request
and its account (`SessionManager` chooses accounts freely, `RequestRouting` reduces a
session to its owner), the pool and the quota (an account is eligible or not), the pool and
the files (the maintenance gate and the directory lock are in `AccountFiles`, the gate also
in `BatchJobs`), the diagnostic that a call fills in and a handler records.

## Modules

### `SessionManager` (with `SessionManagerProofs`, `MCSessionManager`)

Models `session.go` and the part of `HandleAnthropicMessages` that uses it.

* State.  `sessions`, `ambiguous`, `keyVersions` and `epoch` are the fields of the
  manager; `sess` holds the fields of every `Session` object, `lock` its mutex, `req`
  the locals and the position of every handler, `sweep` the background goroutine.
  `thread`, `tainted` and `dead` are ghosts: what the Notion thread of a session holds,
  whether a failed attempt wrote to it, whether it was invalidated after publication.
* Keys.  A client has a conversation id (`Salt`) or none; then its key is the digest of
  the history it sends.  The digest is the history itself: a collision-free hash.
* Grain.  One action per critical section of the manager's mutex.  `Get` and the sweep
  leave that section to wait for a session mutex, so both are several actions.
* Accounts are chosen freely here; `RequestRouting` below restricts the choice.

The properties:

| property | says | hazard |
|---|---|---|
| `BindingCurrent` | a bound session carries the key, epoch and version it is bound under | stale completions, collisions |
| `AmbiguousUnbound` | nothing is bound under an ambiguous key | concurrent duplicates |
| `ContinuationExact` | a continued thread holds exactly the client's history, no failed turn | all of them together |
| `MutexNotStranded` | only a request working on a session holds its mutex | panics, early returns |
| `NoResurrection` | an invalidated thread is never published again | purge during an inference |
| `RequestsEnd` | every request ends | waits and lookup loops |

`NoResurrection` holds while no sweep runs and fails with one; the configuration
`MCSessionResurrect.cfg`, not among the regular runs, shows it (`tlc -config
MCSessionResurrect.cfg MCSessionManager`): an in-flight session of version 0 is invalidated by
`DeleteByAccountID` (version 1), the sweep drops the version of the now unbound key
(version 0 again) and the completion's `Set` accepts the dead session.  The comment in
`Set` says this must never happen.

Runs: `session_races` (safety: clients with and without a conversation id, failover, a
purge), `session_live` (the sweep and progress).
Bounds: one account, at most one turn of history, one purge, one sweep, two requests.
Every property is about one key and at most three parties: a holder, a waiter and an
invalidation.  Larger numbers are the business of the proofs.

Fairness (`RequestsEnd` only): a running handler, and a started sweep, take a step
infinitely often if they can.  Go's scheduler and the inference timeouts justify it.
Nothing is assumed about arrivals, deadlines or purges.  Weak fairness is enough for a
mutex because a waiter's session is released for good: each request holds it once.

Proved for all values of the constants, the sweep included: `TypeOK` (which therefore is in
no run), `BindingCurrent`, `AmbiguousUnbound`, `MutexNotStranded` and `ContinuationExact`.  The inductive invariant `Inv` adds three
parts.  `Locked`: each request between the lookup and its answer holds the mutex of its
session and no two hold one.  `Attempts`: an attempt that continues a thread works on
an untainted session whose `expected` key is what the thread holds, and a fresh attempt
works on a session nobody else can reach.  `Clean`: every bound session that nobody
holds is untainted and its thread is exactly what its `expected` key says.  These are
needed because `ContinuationExact` speaks of the moment of an attempt, while what makes
it true happened when an earlier request published its reply.

`NoResurrection` is proved up to the end of the first sweep (`InvalidatedStayUnpublished`).
An invalidated session is `Outdated`: it is of an earlier epoch, or behind the version of its
key.  Versions and epochs only grow, as long as no sweep drops a version, and the last
section of a sweep is the only step that does, so `Set` refuses such a session until then.
The bound is sharp: the counterexample above needs that one section and nothing more.

`NobodyStuck`, the safety half of `RequestsEnd`, is proved (`NobodyIsStuck`): a request that
is not answered, and the sweep, has a step of its own or waits for a mutex whose holder has
one.  It follows from `Locked`: who holds the mutex of a session waits for none, since a
request gives its session up before it looks for another.  Its condition, that there is
memory for one more session, is met in every state when there is enough of it
(`AddressesSuffice`): with finitely many keys and requests only finitely many sessions are
in use.

### `RequestRouting` (with `RequestRoutingProofs`, `MCRequestRouting`)

Models `AccountPool` as the failover loop of `HandleAnthropicMessages` uses it.

* State.  `pool`, `inFlight` and `health` are the pool's list, its counters per login
  and the reasons of `isUnusable`, one flag each.  `req` holds the handler's locals: the
  accounts tried, the limits, the account it leases, the thread it started with.
  `bound` reduces a conversation to the workspace that owns its thread; `fresh` are the
  `Account` objects an import has not created yet; `purging` are removed workspaces
  whose sessions are still to be deleted, because the pool's lock is given up first.
* Grain.  One action per critical section of `AccountPool.mu` or `Account.mu`.
  `RecordAuthFailure` is three kinds of step: a snapshot, one mark per sibling, the end.
* Data.  A cooldown ends at any moment (`Rested`).  The round-robin cursor only breaks
  ties, so `LeaseBest` picks any of the best accounts.  Plans are a rank (`TierOf`) and
  whether they include AI (`Included`).
* `lost` is a ghost: it excuses a request from keeping its thread once the account of the
  thread was not usable at some moment, was removed, or an attempt failed.

| property | says | hazard |
|---|---|---|
| `SlotsExact` | the counter of a login is the number of requests that hold a lease of it | error paths, panics, replacement under a lease |
| `SlotsBounded` | no login is called by more requests than the limit | siblings share a login |
| `FreshAccounts` | a request has made as many calls as it called different accounts (the ghost `called`): none twice | endless failover |
| `BusyKeepsThread` | while the account of its thread is usable, a request calls no other and the thread stays bound | a busy login, an administrator |
| `SiblingsInvalid` | a rejected login is invalid in all its workspaces | marks outside the lock |
| `ThreadStaysHome` | a thread is only continued with the account that owns it | check and lease are two steps |

`ThreadStaysHome` fails (`tlc -config MCRoutingThread.cfg MCRequestRouting`, not among the
regular runs): the account of the thread becomes
unusable between `FindUsableByAccountID` and `LeaseAccount`; the handler takes another
account and does not forget the session.

Runs: `routing` (two workspaces of one login and a better login, no administrator),
`routing_admin` (one administrative event and new credentials at any moment).  Bounds: two requests, one slot per login, three accounts on
two logins, at most two calls each, at most one administrative event, because each property
needs one change at a moment chosen among all.  Requests run once, so these runs end (deadlock is not checked).

Proved for all values of the constants: `TypeOK`, `SlotsExact`, `SlotsBounded`,
`FreshAccounts`, `BusyKeepsThread` and `SiblingsInvalid`.  The inductive invariant adds to the types what each request's locals
satisfy (`LocalsOK`: an account held is an account not tried before; every account called was
tried, and each call was made with another one) and the slot count (`Slots`), which is carried over each
step by three lemmas: a step keeps, takes or gives back one lease, and the set of holders
changes accordingly.  The last two properties need an invariant each on top of it.  `Marking`
covers the time between the snapshot of `RecordAuthFailure` and its last mark: of the
workspaces of one login that were there from the start all are invalid, or a request still
has them on its list.  `Keeping` says of a request that counts (`Watched`) that its thread is
bound and that, at every position of the handler, the account at hand is the one of the
thread's workspace; it needs that a workspace has one account in the pool, because the
failover looks the owner up by workspace.

### `RegistrationJobs` (with `RegistrationJobsProofs`, `MCRegistrationJobs`)

Models `internal/regjob` (store and runner) and the handlers of `admin_register_jobs.go`
that start, retry, delete and stream jobs.

* State.  `jobs` is the store's list, `file` the history on disk, `inputs` the sidecar
  files with credentials, `accounts` the rows whose account file exists.  `run` and `work`
  are the handler and runner of a job and its workers; `stream` holds the client, the
  channel and the HTTP handler of an event stream; `saveDue` and `save` are the save
  channel and the snapshot in the hands of whoever holds `saveMu`; `del` is a DELETE.
* Grain.  One action per critical section of `memoryStore.mu`, per channel operation and
  per file operation, because the defects lie between them: `UpdateStep` and `Finish` copy
  the channels, give up the lock and then send (`SendStep`, `SendDone`); a save takes a
  snapshot and writes it later (`TakeSnapshot`, `Written`).
* `Persistent = FALSE` is a store without a path, as the code allows: no save, no sidecar.
* `Restart` loses everything but the three kinds of file.  It may follow a panic.
* Whether a login succeeds is free; an account file is written before a row is `ok`.

| property | says | hazard |
|---|---|---|
| `DoneIsComplete` | no row of a finished job is left to do and the counters fit, in memory, on disk and in a save under way | the end overtakes a worker, a crash, a failing write |
| `OkHasAccount` | a row shown as `ok`, anywhere, has its account file | a crash between the file and the report |
| `CompletedDurable` | a job whose `Finish` returned is in the file as done | saves overtake each other |
| `DoneViewIsFinal` | a client told `done` has the outcome of every row | dropped events |
| `ViewNeverGoesBack` | what a client sees of a row never goes back | snapshot and events under different locks |
| `JobsEnd` | every started job ends | the semaphore, eviction and deletion of a running job |

Five statements of the code's own documentation do not hold.  The run `regjobs_panic`
shows that an event is sent on a channel that a leaving client closed (`NoSendOnClosed`, a
panic that ends the process).  Four configurations that are not among the regular runs show
the others; `tlc -config <file> MCRegistrationJobs` prints the trace:

| configuration | property | what happens |
|---|---|---|
| `MCRegStarted.cfg` | `StartedDurable` | a started job is not yet in the file: `Create` only asks the background loop to save (`store.go` 249), although `store.go` 85-87 says that it saves at once |
| `MCRegStreamsEnd.cfg` | `StreamsEnd` | a slow stream loses its `done` on a full channel (`store.go` 417) and waits for ever, although `admin_register_jobs.go` 549-552 promises it |
| `MCRegSidecar.cfg` | `DeletedInputsGone` | the credentials of a job are written after the job was deleted (`admin_register_jobs.go` 247), although `store.go` 32-33 says that a deletion removes them |
| `MCRegRestart.cfg` | `RunningHasRunner` | a job of before a restart is listed as running for ever and `serveJobRetry` refuses it as "still running" (`admin_register_jobs.go` 423) |

Runs and bounds: `regjobs_stream` has one job of two concurrent rows and a stream,
`regjobs_crash` two jobs of one row that compete for a memory of one; one DELETE at a time,
at most one restart and one failing write.  `ChannelCap` is 2 where the code has 32 and
`MemCap` 1, so that the channel and the memory do fill up.  Two rows are enough for two
workers to overtake each other, two jobs for an eviction and for a retry.
`CompletedDurable` excuses failing writes, which the code only logs.

Fairness (`JobsEnd`, `StreamsEnd`): a handler, a runner, a stream, a save and a DELETE that
were started go on while the process lives; logins have timeouts.  Nothing is assumed about
new jobs, clients and deletions.

Proved for all values of the constants: `TypeOK`, `DoneIsComplete`, `OkHasAccount`,
`CompletedDurable`, `DoneViewIsFinal` and `ViewNeverGoesBack`.  `Struct` is the base of all: the types of the locals by
position, and who exists when: an id that was not given out is known to nobody, workers only
work while their runner waits for them, what a broadcast has left to do are streams of its
job.  `RowsOK` ties the rows and counters of a job to its workers and its runner; this is why
no row is open when a runner finishes.  `AccountsOK` follows every `ok` back to an account
file, through the list, the copies of a save, the broadcasts and the channels.  `Durable`
follows a job that is done from memory through the save its `Finish` waits for into the file.
For the streams, `Finality` says that a job ends in one way: there is one end per job that
every copy of it agrees with, and nobody has the end of a job whose runner is still at work.
`Order` says that what a client knows of a row is at most what the events in its channel say,
in their order, and these at most what the row has come to; the order of the steps under two
locks matters there.  The proofs sort the steps into a few kinds first (`StepKinds`,
`StreamKinds`), so that an invariant treats each kind once.

The safety half of `JobsEnd` is proved as well.  `NobodyStuck` (`NobodyIsStuck`): a job that
was asked for has a step of its own until it is over, and so has a DELETE, or a save is under
way that they wait for.  It needs `SaveWaits`: who waits for a save of its own is the one that
the save under way wakes up.  `JobsGoForward` (`JobsOnlyGoForward`): every step of a job takes
its runner or one of its workers forward, or leaves its broadcast one stream less to tell.

### `QuotaRefresh` (with `QuotaRegister`, `QuotaRefreshProofs`, `MCQuotaRefresh`)

Models the quota of one workspace: the check before a call, background checks,
`RefreshAll`, the check after a registration, `MarkQuotaExhausted` and the clean-up of
exhausted accounts.  Accounts share none of this state, so one workspace is enough; its
successive imports are the `Account` objects, and goroutines keep the object they started
with.

* State.  `current` is the object in the pool, `quota` its plan, last answer and marks;
  `generation`, `applied` and `flight` are `quotaGeneration`, `quotaApplied` and
  `liveQuotaFlights`, keyed by the object as in the code.  `proc` holds the goroutines.
  `dropping` are removed objects whose map entries are still there, since the pool's lock
  is given up before `liveQuotaMu` is taken.  `told` is a ghost: the answers that came.
* Grain.  One action per critical section and per call to Notion.  `MarkQuotaExhausted` is
  two (`MarkPlan`, `Mark`): it reads the plan under one lock and writes under another.
* Data.  A quota is `eligible`, `exhausted` or `unknown`; a plan is free, another
  complimentary one, one that includes AI, or something else.  The empty plan, which the
  code treats as free in two of three tests, is left out: discovery fills it in.  Health
  flags, in `RequestRouting`, appear only as the choice of `Confirm` to keep an account.
  `MarkInferenceUnavailable` (`account.go` 1256) is left out: its only caller,
  `handlePremiumFeatureUnavailable` (`anthropic.go` 752), is called by tests alone, and the
  handler answers that signal with a check (1390), which is the kind `background` here.

| property | says | hazard |
|---|---|---|
| `SingleFlight` | at most one live check of the account in the pool is under way | two leaders, an import in between |
| `NewestAnswerWins` | what is known is the answer of the last started check that answered | answers overtake each other, a newer check fails |
| `RegisterSpec` | the pool implements `QuotaRegister` for the object it holds | all of these, and generations that start over |
| `PermanentKept` | a used-up free account keeps its permanent mark while it is free, but for a `MarkQuotaExhausted` that found a plan including AI | marks, probes and answers in any order |
| `ReplacementKept` | a clean-up deletes the object it looked at or none | a new import during a clean-up |
| `ChecksEnd` | every goroutine ends | followers of a flight that failed or was dropped |

What does not hold is shown by four configurations that are not among the regular runs
(`tlc -config <file> MCQuotaRefresh`):

| configuration | property | what happens |
|---|---|---|
| `MCQuotaDelete.cfg` | `DeletesExhausted` | an account may get a paid plan between the last look (`account_api.go` 1538) and the deletion, although 1565-1567 says that paid plans are left untouched |
| `MCQuotaStaleMark.cfg` | `MarkMatchesAnswer` | a request marks the account (`anthropic.go` 1124) on an answer that is no longer the newest: the mark carries no generation, although `account.go` 1848 says that an older response cannot overwrite a newer result |
| `MCQuotaReimport.cfg` | `ReplacementKept` | where all imports bring the same login (`SameToken`), a clean-up deletes the replacement: the guard (`admin_register_jobs.go` 754) compares the login only, while its comment (705) says that this must never happen |
| `MCQuotaPermanent.cfg` | `NeverRevived` | `MarkQuotaExhausted` (`account.go` 1043) lifts a permanent mark for a plan it read before, and an eligible answer makes the free account routable again: what `PermanentKept` excepts does happen |

Runs and bounds: `quota_races` has three goroutines of any kind, one import and
plans that come and go, one with AI (the exception of `PermanentKept` is reached), `quota_register` two goroutines, two imports, refreshes, clean-ups and a
plan that includes AI.  A property is about two checks that overtake each other and something that happens in
between.  Goroutines are interchangeable, so runs of safety properties use their symmetry.

Fairness (`ChecksEnd`): a goroutine that was started goes on; calls to Notion have
timeouts.  A panic of a leader, which would leave its followers waiting, is not modelled.

Proved for all values of the constants: `TypeOK`, `SingleFlight`, `NewestAnswerWins` and
`RegisterSpec` and `PermanentKept`; `ReplacementKept` if every import brings its own login.  The inductive invariant `Inv` adds to the types: `Places` (an object
is fresh, in the pool, or removed), `Untouched` (a fresh object has no entries and no
goroutine), `Locals` (what each position of a goroutine implies) and, for objects whose
entries were never dropped (`Kept`), `Flights` (a goroutine that leads is the one in the
map), `Held` (a generation in use was given out) and `Generations` (no answer is newer than
the counter, and what is known is the newest answer that came).  These cannot speak of all
objects: a dropped one loses its counter while answers are on their way, which is harmless
only because it is no longer in the pool.  `PermanentKept` needs, besides, that
the two marks of an account go together (`Together`), so that a second mark finds the first.

The safety half of `ChecksEnd` is proved as well.  `NoneLeftBehind` (`FollowersAreServed`):
a goroutine that cannot go on follows a leader that can, also when its object was removed and
its flight is no longer listed.  It needs `Waits`: a flight that is listed is under way, and one
that is followed is under way or closed.  `OnlyForward` (`ChecksGoForward`): a goroutine only
changes by going to a later place, so a follower that was woken does not wait again.

### `AccountFiles` (with `AccountFilesProofs`, `MCAccountFiles`)

Models what the handlers and background goroutines of `account.go`, `account_api.go`,
`admin_accounts.go`, `admin_register.go`, `accountstore` and `backup.go` do to the account
files and to the pool that is built from them.

* State.  `files` is the directory: an account's file has its canonical name or, after a
  restore, one made of the e-mail.  `heap` holds the `*Account` objects and `pool` the
  one listed for each workspace, because handlers keep objects the pool has replaced.
  `dirKnown` is `pool.accountsDir`, which an import or a reload sets and a start does not
  (`main` loads the files into a second pool).  `mutations` and `restoring`
  are the maintenance gate, `dirLock` the directory lock, `call` the locals of every
  handler, `admin` those of the backup handler, `backup` the archive that was downloaded
  last, `config` and `settings` the settings on disk and in memory.  A file written in place
  by a rollback or by a settings write that fails may be cut off: `cutOff` has the accounts
  whose canonical name holds such a file (it blocks a fresh save, `accountstore/store.go`
  182), and `config` is then "torn".  `deleted` and `astray` are ghosts: the accounts whose
  deletion was answered, and those that a failing read of their file or a failing step of a
  rollback has set apart, until they are activated, restored or loaded at a start.
* Grain.  One action per section of the directory lock, per file that a reload reads and,
  in a restore, which takes no lock, per file that is removed, renamed or written back.  A
  reload (`Reload`, `ReadListed`, `AddListed`, `EndReload`) holds the lock of the pool from
  its beginning to its end and never the one of the directory: who needs the pool waits for
  it (`PoolFree`), who needs only the files does not.  A record written by `saveAccountFile` is read
  from the object and merged with the file in one section, as in the code; the path lock is
  always nested in the directory lock and adds nothing.
* Failures.  `Fault` lets any read, write, removal or rename fail, `UndoFault` also the steps
  of a rollback: a removal that is passed over (`backup.go` 412), an old file that is not
  written back, or only in part (419), the settings (159-163).  `admin.lost` and
  `admin.unsaved` are what the rollback could not handle.  A search in the directory that
  passes over a file it cannot read sees a part of the account's files (`Sees`), which is how
  an activation (`account.go` 731-734), a save or a start misses one.
* `offered` is the scenario: the kinds of calls that come together.  `MCFiles.cfg` takes
  seven pairs and triples instead of all subsets; a behavior has two handlers and up to two
  visits of the backup handler, one among imports (`Visits`).
* `login` says which workspaces and tokens belong to one Notion user; both assignments that
  matter are tried.
* `Obj` bounds the objects alive at once: an object nobody points to is collected, and a
  step that needs new ones waits for places (`Places`).  `FilesAssumption` has, besides the
  types of the constants, that every account's user has a token.

| property | says | hazard |
|---|---|---|
| `DeletedStaysDeleted` | an account whose deletion was answered has no file until somebody imports or restores it, and is not in the pool either, but where deletions by e-mail and reloads come together | a late activation, a stale save, a reload, a restart |
| `PoolIsOnDisk` | between calls the pool is what a restart would load, tokens included, but for accounts astray: their own file could not be read when it was needed, or not be rolled back | a failure between the step on disk and the step in memory; an old object saved over a new one |
| `SwitchIsOnDisk` | between calls the switch of an account is the one of its file | two administrators, a refresh that saves in between |
| `RestoreIsExact` | a restore that succeeded has put back files, settings and pool; one that failed has changed no file and no setting, but for the files whose own step of the rollback has failed and the settings file when a write of it has | a failure at any removal or rename, and again in the rollback |

Three configurations that are not among the regular runs show what does not hold
(`tlc -config <file> MCAccountFiles`; `MCFilesErase.cfg` has two properties, and `-continue`
shows both):

| configuration | property | what happens |
|---|---|---|
| `MCFilesInvalid.cfg` | `InvalidIsOnDisk` | until the first import or reload after a start `accountsDir` is empty, so a rejected login is marked in memory and not saved; a restart revives it, although the comment at `RecordAuthFailure` says that the state is persisted so that it cannot |
| `MCFilesReject.cfg` | `RestoreIsExact` | `RecordAuthFailure` enters no gate: a save that is under way gives a file back that the restore removed |
| `MCFilesErase.cfg` | `PoolHasFiles` | a deletion by e-mail found no account in the pool and removes the file of one imported meanwhile (`admin_register_jobs.go` 692-694) |
| `MCFilesErase.cfg` | `DeletedNotInPool` | the reload at the end of a registration has read a file, a deletion by e-mail, which found the account in no pool, removes the file and answers; the reload then puts the account in the pool, where it stays until it is deleted again or the process starts (`account.go` 643-703, `account_api.go` 620-684) |

Other weak points seen while modelling, and excluded by name from the properties above: the
synchronous `/admin/register` renews the file of an account the pool knows but not its
object (`admin_register.go` 83); two switches of one account of which one cannot be saved
each put back what they saw; when the process dies in the middle of a restore nothing
recovers the staged files; when a saved file cannot be read for its activation the import
ends with an error and leaves the file without an entry in the pool; a rollback that fails
loses the file it was about, or leaves it or the settings cut off.

Run: `files`, with two workspaces, three tokens, two handlers, one failing operation
(`MaxFaults`), one more that fails in the rollback it has caused (`MaxUndoFaults`), and one
restart at any moment.  Two handlers are enough: a hazard here is about a call and what
another does in its middle; the third party, where there is one, is the backup handler.

Proved for all values of the constants (`AccountFilesProofs`): `TypeOK` and
`DeletedStaysDeleted` in every scenario; `RestoreIsExact`, `PoolIsOnDisk` and
`SwitchIsOnDisk` in every scenario that does not have rejected logins and restores together
(`Apart`).  What the properties leave out, the theorems leave out, and no more: the pool where
registrations and deletions by e-mail come together, the accounts astray, the files a
rollback could not handle; each for any number of failures.  `Apart` is needed: `RecordAuthFailure` enters no gate,
and `MCFilesReject.cfg` shows what it may do to a restore.  The properties speak of the moments
between calls, the invariants of every moment:

* `Types` gives the locals of a handler their type by position; `Gate` says that `mutations`
  counts the handlers inside the gate and that a restore is alone with those outside; `Lone`
  that one reload at a time has the pool, and that what it has read is not in it yet.
* `Deletions`: nobody who holds the directory lock is about to add or write a deleted
  account, what a deletion found in the pool is still what it will drop, and neither the
  files that a restore moves nor those of its rollback are of a deleted account.  What a
  reload has read may be of a deleted account only where deletions by e-mail overlap.
* `Settings`, `Restored`: how far a restore and its rollback have come, file by file, and
  what the rollback has lost.
* `Sync`: no account that is not astray has two files; where pool and files differ, a call is
  about to change that, or a reload will list the file, or the account is astray; what a
  rollback has lost is astray (`Strays`), and nothing is before a file operation has failed
  (`Unharmed`); what a call has read under the directory lock is still there.  While a restore
  moves files, they count as they will be should it fail (`Disk`).
* `Switches`: where the switch of an object is not the one of its file, a call is yet to save
  the object, and what is about to be written is up to date unless the object will be saved
  again.  It needs that a handler's object is the one in the pool or that the account has
  left it, and that a flag is put back only when the file is gone.

Left out: files of old versions without `account_id`; the discovery of workspaces (an
import names its workspace); the order of the pool.  The sessions that a deletion purges
are in `RequestRouting`, the single flight of refreshes is in `QuotaRefresh`.

### `BatchJobs` (with `BatchJobsProofs`)

Models `account_batch_jobs.go`: start, the workers, retry, listing, the history and its
file.

* State.  `jobs` and `file` are the jobs in memory and on disk, `hasPath` whether the manager
  has a path, `batch` a job that a caller has built and not yet listed, `runners` the
  goroutines, `gateUsers` and `restoring` the maintenance gate as far as jobs use it.
* Grain.  One action per section of the manager's mutex.  The file is written in place, at
  the start and at the end of a job only; `Absent` is a file cut off in the middle, with which
  the manager starts without a path.

`Counts`: in memory and on disk the counters of a job are those of its steps, whatever its
workers, a retry, an e-mail that names two accounts or a restart do.  `OneJob`: one job runs at
a time, with a goroutine to end it, and the gate is held for exactly the jobs that run or
are about to be listed.  The file knows only the start of a job that runs, so after a
restart its steps are shown as failed although some have succeeded; the code accepts this.

Proved for all values of the constants that satisfy `BatchConstants`: `TypeOK`, `Counts` and
`OneJob`.  `BatchConstants` asks that there are finitely many callers, that a selection is
finite, that the actions are those of the handler and that `Absent` is neither a job nor a
truth value; `MCServices` has it evaluated.  The invariant `Inv` adds two things.  A step that has
not ended has no finding about the instructions, in memory, in the file and at the callers:
this is why a worker, a retry or a restart counts no finding twice.  And an id is at most the
number of jobs started, in the file too, although the file may be older than the memory:
this is why a job about to be listed is not one whose goroutine is about to leave the gate.

### `RequestHistory` (with `ServicesProofs`)

Models `request_history.go`: the diagnostic a call fills in, the row the handler records,
the flush loop, the clearing and the restart.

* State.  `diagnostic` is the `RequestDiagnostic` of a request, `handler` and `worker` the
  goroutines that fill it in.  For the requests in `Bridged`, the streamed OpenAI requests,
  these are two, and the call may go on after the row was recorded.  A row shares its list
  of attempts with the diagnostic: `FinishAttempt` changes both, as the slices do.
  `revision`, `savedAtRev`, `saves` are those of `Save`; `clearing` and `cleared` follow a
  DELETE up to its answer.

| property | says | hazard |
|---|---|---|
| `RowsAreFinal` | a recorded row never changes, in memory | a call goes on after its row was recorded and shares its list |
| `CleanHistoryIsOnDisk` | when the flush loop has nothing to do the file holds the rows in memory | rows recorded during a save, two savers |
| `ClearedStaysCleared` | once a DELETE was answered, no row it cleared is in memory or on disk | a save that began before, a restart |

All three, and `TypeOK` (`HistoryTypeCorrect`), are proved for all values of the constants,
with `HistoryAssumption` (`MaxEntries` is a natural number, no administrator is the flush loop).  The inductive
invariant `HInv` adds to the types: `Final`, every list of a row is as long as the
diagnostic's and has no open attempt, which is why a later `FinishAttempt` finds nothing to
change; `Saves`, at most one saver, and its snapshot is what the file holds after the
rename; `Clears`, a snapshot with a cleared row can only be one taken before the clearing,
by a saver that the answer of the DELETE must wait for.

### `UsageTotals` (with `ServicesProofs`)

Models `usage_stats.go`: `Record`, the days that are kept, the flush loop and the start.
The totals by model and account behave as the total and are left out.

`TotalsNeverFall`: the totals in the file never fall, wherever the process dies in a flush.
It is proved (`FileNeverFalls`) with the invariant `Between`: what a flush is about to write
lies between what is on disk and what is in memory.  `FewDays` proves that at most
`RetainDays + 1` days are kept: `trimByDayLocked` keeps one more than the constant says.
Both together give the types (`TotalsTypeCorrect`).

`CleanTotalsAreOnDisk` does not hold (`tlc -config MCUsageLost.cfg UsageTotals`): what is
recorded between the copy and `markClean` is marked as saved, and written only when
something else is recorded; `RequestHistory` compares revisions instead.

### `AnswerStream` (with `AnswerStreamProofs`)

Models an answer on its way from Notion to the client: the parsers of the upstream streams
(`notion.go`: plain chat, search, researcher mode), the handlers (`anthropic.go`: text, JSON,
tools, forced tools, research, whole and streamed) and the bridge to the two OpenAI protocols
(`openai.go`).

* State.  `stream` is the parser of the current call, `calls` the accounts tried, `emitter`
  the closures' variables (headers sent, thinking and text open, block index), `pending` the
  events that a handler is in the middle of writing, `channel`, `closed` and `aborted` the
  bridge, `transcoder` the state of the OpenAI goroutine, `seen` what the client received.
* Grain.  One action per upstream event and per event written, pushed or read.  The handler
  and the transcoder are two processes.
* Data.  A text is there or not; whitespace-only text, citations, signatures, pings, usage
  and tokens are left out, and so are non-streamed OpenAI calls, which are the `"whole"`
  client.  A client of a bridged stream that left is noticed with the next event written.
  Panics are not modelled.

| property | says | hazard |
|---|---|---|
| `OneAnswer` | an answer begins and ends at most once, nothing follows its end, and a client that stays gets its end or an error | failure after part of the answer was sent, retry with another account |
| `PartsInOrder` | the parts are opened once, written to while open and closed before the end, unless thinking comes after text | closures in several handlers share an index |
| `NobodyWaits` | no state where handler and transcoder wait for each other | a full channel, a client that leaves |
| `LessIsLeft` | every step leaves less of the answer to do | failover, search and retry loops |

`OneAnswer` is proved (`AnsweredOnce`) for any number of events and accounts and any capacity of
the bridge.  An answer goes through phases (not begun, begun, ending, over), and `Moves` lists
the events that may come in each.  `Leads(p, q, r)` says that the events `q` lead from phase
`p` to phase `r`; for each closure of the handlers a lemma (`HeadersSane`, `BlockSane`, ...)
says where the events it sends lead.  The inductive invariant `Inv` is: `Handlers`, a handler
that may try another account has sent nothing, and one that searches has begun; `Bridge`, the
bridge is aborted when the transcoder is over and not before; `Flow`, as long as the client is there, the phase it is in
leads by the events in the channel and those being written to the phase of the handler;
`Bounded`, the property itself once the transcoder is over.  `Flow` is what makes it
inductive: that nothing follows the end can only be said of the client and both queues
together.

`PartsInOrder` is proved too (`PartsOrdered`), by the same path argument on richer places: a
page of `Book` is a phase, the index of the part that is open or comes next, what is open, and,
for the Responses protocol, whether its one reasoning item was used.  `Turns` says which event
may come at a page and where it leads, and `Neat` what a closure leaves open; for each closure
a lemma (`BlockNeat`, `WriteTextNeat`, `SendBlocksNeat`, ...) says where its events lead.  The
inductive invariant `PartsInv` is: as long as the answer is whole (nothing mixed was sent), the
parser and the emitter agree on what is open (`Agrees`), and the page the client is at leads by
both queues to the page of the handler (`Carried`); and what the client has open, what it has
seen closed and what its transcoder has noted is what its page says (`ClientBook`).  The
property alone is not inductive: whether a part that is written to is open depends on events
that were sent but not yet read, and whether one may be opened on what the parser took the
emitter to have closed.

`NobodyWaits` is proved (`SomeoneGoesOn`) from `Bridge` and the place of the handler: while the
handler is kept waiting by a full channel the transcoder has an event to read, and when the
handler is over the channel is closed.  `LessIsLeft` is proved too (`AnswersEnd`): `Left` is a
tuple of numbers (calls, the place in a call, events to come, events written and pushed, the
ends), and every step makes it smaller in the lexicographic order.  The two together say that
an answer ends as long as somebody takes a step.  `MCAnswer.cfg` checks both, and that the
guards they are written with are those of the actions (`GuardsExact`).

`PartsWhole`, the same as `PartsInOrder` without its condition, fails (run `answer_blocks`):
a search emits its thinking after the text of the step, `emitPendingThinking` then opens the
thinking block at the index of the open text block and moves the index, and the rest of the
text goes to a block that was never opened.  The comment (`anthropic.go` 265-267) says that
thinking appears before text.  The run has a client that streams and a request that must call
a tool, whose own text is held back, so that the trace is one of `streamWebSearch`.  Thinking
after text in the plain handler (`anthropic.go` 1889-1934), the researcher mode and the single
reasoning item of the Responses protocol tear a part in the same way; there no comment says
otherwise.

### `MCServices`

The four components above share no state with each other.  `MCServices` runs them in one
model: `focus` picks the component a behavior is about and the others keep their initial
state.  It extends them, which is why their common names (`BatchSpec`, `TotalsInit`,
`answerVars`) have prefixes, so that the run checks the very definitions that are proved.  That each component behaves there
as its own specification says is proved as well (`ServicesCompose`), and with it that all keep
their types (`ServicesTypeCorrect`, the `TypesOK` of the run).  `MCBatch.cfg` (`MCBatch`), `MCHistory.cfg`
(`RequestHistory`), `MCUsage.cfg` (`UsageTotals`) and `MCAnswer.cfg` (`AnswerStream`) check
one component alone, with the same bounds or larger ones.

Bounds: two accounts of one e-mail, two tabs, two workers, a history of one job, two jobs, one
restart; two requests, one of them bridged, one attempt each, one clearing, one failing write
or restart; four recorded requests, four days of which one is retained; three upstream events, two
calls, and a channel of one event where the code has room for more, so that it does fill up.

## The runs

| run | question | expected |
|---|---|---|
| `session_races` | do stale completions, collisions and purges keep threads exact | pass |
| `session_live` | is every request answered, no mutex stranded | pass |
| `routing` | limits, slots, rejected logins under failover | pass |
| `routing_admin` | the same while accounts are changed | pass |
| `regjobs_stream` | what a client sees of a job | pass |
| `regjobs_crash` | what the file says of two jobs after crashes | pass |
| `regjobs_panic` | is an event ever sent on a closed channel | violation |
| `quota_races` | checks that overtake each other | pass |
| `quota_register` | the abstract register, a new import in between | pass |
| `files` | files and pool after overlapping calls, failures, restarts | pass |
| `services` | batch jobs, history, totals, answers | pass |
| `answer_blocks` | is every part of an answer whole | violation |

The configurations named above as "not among the regular runs" are counterexamples to
statements of the code's documentation or to a stronger form of a property; they can be run
one at a time.  Three more configurations pass; they check on a small instance what is
proved about waiting, and that the guards it is written with are those of the actions:

| configuration | checks | size |
|---|---|---|
| `MCSessionWaits.cfg` (`MCSessionManager`) | `NobodyStuck`, `GuardsExact` with two requests of both kinds, a purge and a sweep | 188 479 states |
| `MCQuotaWaits.cfg` (`MCQuotaRefresh`) | `NoneLeftBehind`, `OnlyForward`, `GuardsExact` with three goroutines, imports and removals | 2 491 111 states |
| `MCRegWaits.cfg` (`MCRegistrationJobs`) | `NobodyStuck`, `JobsGoForward`, `GuardsExact` with two jobs, a DELETE, an eviction and a restart | 3 517 495 states |

## Plan

Done: `SessionManager`, `RequestRouting`, `QuotaRefresh` with `QuotaRegister`,
`RegistrationJobs`, `AccountFiles` (which includes backup and restore), `BatchJobs`,
`RequestHistory`, `UsageTotals`, `AnswerStream`; proofs for all of them.
Next, in this order:

1. `RequestRouting` composed with `SessionManager`: `bound` refined by the sessions.
2. Pure algorithms: the parsers of `notion.go` and `tools.go` against a reference that sees
   the whole text.
3. The dashboard sessions of the reverse proxy, the repair of a failed login.

## What stays with TLC, and what is left out

Liveness (`RequestsEnd`, `JobsEnd`, `ChecksEnd`) rests on fairness and is model-checked only.
Its safety half is proved: nobody waits for somebody who cannot go on, and, except for
sessions, every step is progress.  A lookup of a session starts again whenever another
request or a purge changed what its key is bound to, so no measure of one request falls.  These
theorems state the guards of the steps in plain terms, because the provers cannot reason about
ENABLED; that they are the guards (`GuardsExact`) is model-checked only.  `NoResurrection` is
proved up to the end of the first sweep only: it fails afterwards.  Every other invariant and
action property that a regular run checks is stated by a theorem.  The violated
properties are shown by a trace of TLC.  What a recursive definition computes for every
input is not proved.  Every named theorem is checked by TLAPS down to its leaves, from the
assumptions on the constants that TLC evaluates in the runs or that the theorem states.

Not modelled:

* the reverse proxy and its dashboard sessions: mostly rewriting of HTML and headers;
* settings: reading and writing YAML under one lock (a restore's use of them is in
  `AccountFiles`, the clearing of sessions in `SessionManager`);
* uploads: a fixed sequence of HTTP calls whose failure is a failed attempt;
* the HTTP transport, TLS and dialling: input and output;
* Microsoft login, Notion onboarding and the registration providers: scraping of foreign
  pages; what matters to the system is whether a step succeeds, which is free in
  `RegistrationJobs`;
* version, logging, entry points, the web interface and the browser extension.

Time is abstracted to "a deadline may pass at any moment"; wording, logging and diagnostics
are left out.
