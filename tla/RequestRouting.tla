--------------------------- MODULE RequestRouting ---------------------------
(***************************************************************************)
(* The account pool of internal/proxy/account.go as the failover loop of   *)
(* HandleAnthropicMessages (internal/proxy/anthropic.go) uses it: a        *)
(* request reserves one of the few slots of a Notion login, checks the     *)
(* account's quota, makes an attempt, and on a retryable failure marks the *)
(* account and tries another one.                                          *)
(*                                                                         *)
(* An Account is a *Account pointer.  Importing new credentials for a      *)
(* workspace puts a new pointer in the place of the old one, which running *)
(* requests keep.  A conversation is reduced to the workspace that owns    *)
(* its Notion thread; SessionManager models the conversations themselves.  *)
(*                                                                         *)
(* Grain: one action per critical section of AccountPool.mu or Account.mu. *)
(***************************************************************************)
EXTENDS Naturals, FiniteSets

CONSTANTS
  Request,      \* HTTP requests; each runs once
  Account,      \* Account objects
  Workspace,    \* account ids
  Login,        \* Notion logins: accountLoginConcurrencyKey
  Token,        \* session cookies
  WorkspaceOf, LoginOf, TokenOf,
  TierOf,       \* accountQuotaPriority
  Included,     \* accounts whose plan includes AI, whatever their quota says
  InitialPool,
  MaxSlots,     \* maxConcurrentInferenceRequestsPerLogin
  MaxCalls,     \* maxInferenceAccountCalls
  MaxEmpty,     \* maxEmptyResponseAttempts
  MaxEvents,    \* bound: administrative actions and background health changes
  NoAccount, NoWorkspace

ASSUME RoutingAssumption ==
  /\ IsFiniteSet(Request) /\ IsFiniteSet(Account)
  /\ WorkspaceOf \in [Account -> Workspace]
  /\ LoginOf \in [Account -> Login]
  /\ TokenOf \in [Account -> Token]
  /\ TierOf \in [Account -> Nat]
  /\ Included \subseteq Account
  /\ InitialPool \subseteq Account
  /\ \A a, b \in InitialPool : WorkspaceOf[a] = WorkspaceOf[b] => a = b
  /\ MaxSlots \in Nat /\ MaxCalls \in Nat /\ MaxEmpty \in Nat /\ MaxEvents \in Nat
  /\ NoAccount \notin Account
  /\ NoWorkspace \notin Workspace

VARIABLES
  pool,        \* AccountPool.accounts; its rotation only breaks ties
  fresh,       \* Account objects not created yet
  inFlight,    \* AccountPool.inFlightByLogin, 0 where the map has no entry
  health,      \* the reasons not to select an account
  bound,       \* who owns the thread a request's conversation is bound to
  purging,     \* workspaces removed whose sessions are still to be deleted
  req,         \* the requests' local variables and position
  events,      \* administrative actions and health changes so far
  lost         \* ghost: requests whose thread's account was not usable once

vars == <<pool, fresh, inFlight, health, bound, purging, req, events, lost>>

-----------------------------------------------------------------------------
(* Accounts.                                                               *)

Reason == {"disabled", "exhausted", "resting", "invalid"}

\* isUnusable, for a member of the pool.
Usable(a) == a \in pool /\ health[a] = {}

\* RecordAuthFailure: workspaces of one login that share its cookie.
SameLogin(a, b) == TokenOf[a] = TokenOf[b] /\ LoginOf[a] = LoginOf[b]

-----------------------------------------------------------------------------
(* Requests.                                                               *)

\* The handler holds a lease at these points.
Leased == {"check", "infer"}

Pc == {"idle", "select", "owner", "lease", "check", "spent", "infer", "answered",
       "failed", "blame", "done"}

\* The failures after which the handler tries another account: a premium feature
\* or the research quota is missing, an empty answer, a suspect account, a 401.
Retryable == {"skip", "empty", "quarantine", "auth"}

Answers == {"none", "ok", "busy", "error", "unavailable"}

RequestLocals ==
  [pc : Pc, acc : Account \cup {NoAccount}, tried : SUBSET Account,
   called : SUBSET Account,   \* ghost: the accounts Notion was called with
   limit : Nat, rounds : Nat, calls : Nat, empties : Nat, failed : BOOLEAN,
   start : Workspace \cup {NoWorkspace}, session : Workspace \cup {NoWorkspace},
   owner : Workspace \cup {NoWorkspace}, kind : Retryable \cup {"none"},
   blamed : SUBSET Account, answer : Answers]

Idle ==
  [pc |-> "idle", acc |-> NoAccount, tried |-> {}, called |-> {}, limit |-> 0, rounds |-> 0,
   calls |-> 0, empties |-> 0, failed |-> FALSE, start |-> NoWorkspace,
   session |-> NoWorkspace, owner |-> NoWorkspace, kind |-> "none",
   blamed |-> {}, answer |-> "none"]

Active(r) == req[r].pc \notin {"idle", "done"}

\* The final statuses, in the order the handler looks at them.
Verdict(r, busy) ==
  IF req[r].failed THEN "error" ELSE IF busy THEN "busy" ELSE "unavailable"

\* The handler returns: only the answer, and where the request started, remain.
Finish(r, answer) ==
  req' = [req EXCEPT ![r] =
            [Idle EXCEPT !.pc = "done", !.answer = answer, !.start = req[r].start]]

\* `continue`: the next round of the failover loop.
NextRound(r, session) ==
  req' = [req EXCEPT ![r].pc = "select", ![r].rounds = @ + 1, ![r].session = session,
                     ![r].acc = NoAccount, ![r].kind = "none"]

\* Mutant: the loop forgets the limit of account calls.
MayTryWithoutLimit(r) == req[r].rounds < req[r].limit

\* The condition of the failover loop.
MayTry(r) == req[r].rounds < req[r].limit /\ req[r].calls < MaxCalls

-----------------------------------------------------------------------------
(* Leases.                                                                 *)

Reserve(a) == inFlight' = [inFlight EXCEPT ![LoginOf[a]] = @ + 1]

\* Mutant: releasing a lease drops the entry of the login.
ReleaseAll(a) == inFlight' = [inFlight EXCEPT ![LoginOf[a]] = 0]

\* AccountLease.Release.
Release(a) ==
  inFlight' = [inFlight EXCEPT ![LoginOf[a]] = IF @ > 1 THEN @ - 1 ELSE 0]

\* Mutant: the request's earlier attempts are not excluded.
CandidatesAgain(r) == {a \in pool : Usable(a)}

\* What NextBestLease looks at.
Candidates(r) == {a \in pool \ req[r].tried : Usable(a)}

\* Mutant: a login takes one request too many.
HasSlotOver(a) == inFlight[LoginOf[a]] <= MaxSlots

HasSlot(a) == inFlight[LoginOf[a]] < MaxSlots

-----------------------------------------------------------------------------
(* The failover loop.                                                      *)

\* A request arrives; its conversation may be bound to a thread.
Begin(r) ==
  /\ req[r].pc = "idle"
  /\ req' = [req EXCEPT ![r].pc = "select", ![r].limit = Cardinality(pool),
                        ![r].start = bound[r], ![r].session = bound[r]]
  /\ UNCHANGED <<pool, fresh, inFlight, health, bound, purging, events>>

\* FindUsableByAccountID, in the first round of a continued conversation.
FindOwner(r) ==
  /\ req[r].pc = "select" /\ MayTry(r)
  /\ req[r].rounds = 0 /\ req[r].session # NoWorkspace
  /\ \/ \E a \in pool :
          /\ Usable(a) /\ WorkspaceOf[a] = req[r].session
          /\ req' = [req EXCEPT ![r].pc = "owner", ![r].acc = a]
          /\ UNCHANGED bound
     \/ /\ \A a \in pool : ~(Usable(a) /\ WorkspaceOf[a] = req[r].session)
        /\ req' = [req EXCEPT ![r].pc = "lease", ![r].session = NoWorkspace]
        /\ bound' = [bound EXCEPT ![r] = NoWorkspace]
  /\ UNCHANGED <<pool, fresh, inFlight, health, purging, events>>

\* Mutant: a busy login sends the conversation to another account.
LeaseOwnerOrMigrate(r) ==
  LET a == req[r].acc IN
  /\ req[r].pc = "owner"
  /\ \/ /\ ~(Usable(a) /\ HasSlot(a))
        /\ req' = [req EXCEPT ![r].pc = "lease", ![r].acc = NoAccount]
        /\ UNCHANGED inFlight
     \/ /\ Usable(a) /\ HasSlot(a)
        /\ Reserve(a)
        /\ req' = [req EXCEPT ![r].pc = "check"]
  /\ UNCHANGED <<pool, fresh, health, bound, purging, events>>

\* LeaseAccount: no lease and no error when the account was removed or became
\* unusable since FindUsableByAccountID.
LeaseOwner(r) ==
  LET a == req[r].acc IN
  /\ req[r].pc = "owner"
  /\ \/ /\ ~Usable(a)
        /\ req' = [req EXCEPT ![r].pc = "lease", ![r].acc = NoAccount]
        /\ UNCHANGED inFlight
     \/ /\ Usable(a) /\ HasSlot(a)
        /\ Reserve(a)
        /\ req' = [req EXCEPT ![r].pc = "check"]
     \/ /\ Usable(a) /\ ~HasSlot(a)
        /\ Finish(r, Verdict(r, TRUE))
        /\ UNCHANGED inFlight
  /\ UNCHANGED <<pool, fresh, health, bound, purging, events>>

\* NextBestLease.
LeaseBest(r) ==
  LET free == {a \in Candidates(r) : HasSlot(a)} IN
  /\ \/ req[r].pc = "lease"
     \/ /\ req[r].pc = "select" /\ MayTry(r)
        /\ ~(req[r].rounds = 0 /\ req[r].session # NoWorkspace)
  /\ \/ \E a \in free :
          /\ \A b \in free : TierOf[b] <= TierOf[a]
          /\ Reserve(a)
          /\ req' = [req EXCEPT ![r].pc = "check", ![r].acc = a]
     \/ /\ free = {}
        /\ Finish(r, Verdict(r, Candidates(r) # {}))
        /\ UNCHANGED inFlight
  /\ UNCHANGED <<pool, fresh, health, bound, purging, events>>

\* The loop ends without a success.
LoopEnds(r) ==
  /\ req[r].pc = "select" /\ ~MayTry(r)
  /\ Finish(r, Verdict(r, FALSE))
  /\ UNCHANGED <<pool, fresh, inFlight, health, bound, purging, events>>

\* The live quota check refuses the account: give the slot back ...
QuotaRefused(r) ==
  /\ req[r].pc = "check"
  /\ req[r].acc \notin Included
  /\ Release(req[r].acc)
  /\ req' = [req EXCEPT ![r].pc = "spent", ![r].tried = @ \cup {req[r].acc}]
  /\ UNCHANGED <<pool, fresh, health, bound, purging, events>>

\* ... and mark it; the thread of the conversation goes with its account.
MarkSpent(r) ==
  LET mine == WorkspaceOf[req[r].acc] = req[r].session IN
  /\ req[r].pc = "spent"
  /\ health' = [health EXCEPT ![req[r].acc] = @ \cup {"exhausted"}]
  /\ bound' = [bound EXCEPT ![r] = IF mine THEN NoWorkspace ELSE @]
  /\ NextRound(r, IF mine THEN NoWorkspace ELSE req[r].session)
  /\ UNCHANGED <<pool, fresh, inFlight, purging, events>>

\* The account is good: lock the conversation's session, a new one if it is
\* gone, and call Notion.
Attempt(r) ==
  LET kept == req[r].session # NoWorkspace /\ bound[r] = req[r].session
      owner == IF kept THEN req[r].session ELSE WorkspaceOf[req[r].acc]
  IN
  /\ req[r].pc = "check"
  /\ req' = [req EXCEPT ![r].pc = "infer", ![r].tried = @ \cup {req[r].acc},
                        ![r].called = @ \cup {req[r].acc}, ![r].calls = @ + 1,
                        ![r].session = owner, ![r].owner = owner]
  /\ bound' = [bound EXCEPT ![r] = owner]
  /\ UNCHANGED <<pool, fresh, inFlight, health, purging, events>>

Succeed(r) ==
  /\ req[r].pc = "infer"
  /\ Release(req[r].acc)
  /\ req' = [req EXCEPT ![r].pc = "answered"]
  /\ UNCHANGED <<pool, fresh, health, bound, purging, events>>

\* ClearTemporaryUnavailable.
ClearResting(r) ==
  /\ req[r].pc = "answered"
  /\ health' = [health EXCEPT ![req[r].acc] = @ \ {"resting"}]
  /\ Finish(r, "ok")
  /\ UNCHANGED <<pool, fresh, inFlight, bound, purging, events>>

\* The attempt fails: the session is forgotten and the slot given back.  A part
\* of the answer was sent, or another account would not help ...
FailForGood(r) ==
  /\ req[r].pc = "infer"
  /\ Release(req[r].acc)
  /\ bound' = [bound EXCEPT ![r] = NoWorkspace]
  /\ Finish(r, "error")
  /\ UNCHANGED <<pool, fresh, health, purging, events>>

\* ... or the failure is one to retry with another account.
Fail(r) ==
  /\ req[r].pc = "infer"
  /\ Release(req[r].acc)
  /\ bound' = [bound EXCEPT ![r] = NoWorkspace]
  /\ \E kind \in Retryable :
       req' = [req EXCEPT ![r].pc = "failed", ![r].kind = kind,
                          ![r].session = NoWorkspace, ![r].owner = NoWorkspace]
  /\ UNCHANGED <<pool, fresh, health, purging, events>>

\* Mark the account as the kind of failure demands, and go on.
Rotate(r) ==
  LET kind == req[r].kind
      empties == req[r].empties + IF kind = "empty" THEN 1 ELSE 0
  IN
  /\ req[r].pc = "failed" /\ kind # "auth"
  /\ health' = [health EXCEPT ![req[r].acc] =
                  IF kind = "quarantine" THEN @ \cup {"resting"} ELSE @]
  /\ IF empties >= MaxEmpty
     THEN Finish(r, "error")
     ELSE req' = [req EXCEPT ![r].pc = "select", ![r].rounds = @ + 1,
                    ![r].acc = NoAccount, ![r].kind = "none", ![r].empties = empties,
                    ![r].failed = @ \/ kind # "skip"]
  /\ UNCHANGED <<pool, fresh, inFlight, bound, purging, events>>

\* Mutant: only the workspace that failed is blamed.
AffectedAlone(a) == {a}

Affected(a) == {b \in pool : b = a \/ SameLogin(a, b)}

\* RecordAuthFailure: the siblings, unless the login was replaced meanwhile ...
Blame(r) ==
  /\ req[r].pc = "failed" /\ req[r].kind = "auth"
  /\ req' = [req EXCEPT ![r].pc = "blame", ![r].failed = TRUE,
                        ![r].blamed = IF req[r].acc \in pool
                                      THEN Affected(req[r].acc) ELSE {}]
  /\ UNCHANGED <<pool, fresh, inFlight, health, bound, purging, events>>

\* ... are marked one after the other.
MarkInvalid(r) ==
  /\ req[r].pc = "blame"
  /\ \E a \in req[r].blamed :
       /\ health' = [health EXCEPT ![a] = (@ \ {"resting"}) \cup {"invalid"}]
       /\ req' = [req EXCEPT ![r].blamed = @ \ {a}]
  /\ UNCHANGED <<pool, fresh, inFlight, bound, purging, events>>

Blamed(r) ==
  /\ req[r].pc = "blame" /\ req[r].blamed = {}
  /\ NextRound(r, NoWorkspace)
  /\ UNCHANGED <<pool, fresh, inFlight, health, bound, purging, events>>

\* Mutant: the deferred function forgets the lease.
PanicKeepsLease(r) ==
  /\ req[r].pc \in Leased
  /\ bound' = [bound EXCEPT ![r] = IF req[r].pc = "infer" THEN NoWorkspace ELSE @]
  /\ Finish(r, "error")
  /\ UNCHANGED <<pool, fresh, inFlight, health, purging, events>>

\* A panic while the lease is held: the deferred function.
Panic(r) ==
  /\ req[r].pc \in Leased
  /\ Release(req[r].acc)
  /\ bound' = [bound EXCEPT ![r] = IF req[r].pc = "infer" THEN NoWorkspace ELSE @]
  /\ Finish(r, "error")
  /\ UNCHANGED <<pool, fresh, health, purging, events>>

-----------------------------------------------------------------------------
(* The rest of the program, as it touches the pool.                        *)

Event == events < MaxEvents /\ events' = events + 1

\* A quota answer of a refresh: eligible clears the exhaustion and the
\* quarantine, unless the login is known to be invalid.
QuotaAnswer(a) ==
  /\ Event
  /\ a \in pool
  /\ \/ health' = [health EXCEPT ![a] =
          IF "invalid" \in @ THEN @ \ {"exhausted"} ELSE @ \ {"exhausted", "resting"}]
     \/ /\ a \notin Included
        /\ health' = [health EXCEPT ![a] = @ \cup {"exhausted"}]
  /\ UNCHANGED <<pool, fresh, inFlight, bound, purging, req>>

\* An administrator disables or enables an account; the same for a workspace
\* probe that finds it gone or without AI, or back again.
Toggle(a) ==
  /\ Event
  /\ a \in pool
  /\ health' = [health EXCEPT ![a] =
       IF "disabled" \in @ THEN @ \ {"disabled"} ELSE @ \cup {"disabled"}]
  /\ UNCHANGED <<pool, fresh, inFlight, bound, purging, req>>

\* The cooldown of MarkTemporarilyUnavailable is over.
Rested(a) ==
  /\ "resting" \in health[a]
  /\ health' = [health EXCEPT ![a] = @ \ {"resting"}]
  /\ UNCHANGED <<pool, fresh, inFlight, bound, purging, req, events>>

\* removeUniqueMatchingAccount, its first critical section.
Remove(a) ==
  /\ Event
  /\ a \in pool
  /\ pool' = pool \ {a}
  /\ purging' = purging \cup {WorkspaceOf[a]}
  /\ UNCHANGED <<fresh, inFlight, health, bound, req>>

\* AddAccount: a new object, in the place of the one of the same workspace.
AddAccount(a) ==
  LET replaced == {b \in pool : WorkspaceOf[b] = WorkspaceOf[a]} IN
  /\ Event
  /\ a \in fresh
  /\ pool' = (pool \ replaced) \cup {a}
  /\ fresh' = fresh \ {a}
  /\ purging' = purging \cup {WorkspaceOf[b] : b \in replaced}
  /\ UNCHANGED <<inFlight, health, bound, req>>

\* SessionManager.DeleteByAccountID, after the pool's lock was given up.
Purge(w) ==
  /\ w \in purging
  /\ purging' = purging \ {w}
  /\ bound' = [r \in Request |-> IF bound[r] = w THEN NoWorkspace ELSE bound[r]]
  /\ UNCHANGED <<pool, fresh, inFlight, health, req, events>>

-----------------------------------------------------------------------------
Init ==
  /\ pool = InitialPool
  /\ fresh = Account \ InitialPool
  /\ inFlight = [l \in Login |-> 0]
  /\ health = [a \in Account |-> {}]
  /\ bound \in [Request -> {WorkspaceOf[a] : a \in InitialPool} \cup {NoWorkspace}]
  /\ purging = {}
  /\ req = [r \in Request |-> Idle]
  /\ events = 0
  /\ lost = {}

HandlerStep(r) ==
  \/ Begin(r) \/ FindOwner(r) \/ LeaseOwner(r) \/ LeaseBest(r) \/ LoopEnds(r)
  \/ QuotaRefused(r) \/ MarkSpent(r) \/ Attempt(r)
  \/ Succeed(r) \/ ClearResting(r) \/ FailForGood(r) \/ Fail(r) \/ Rotate(r)
  \/ Blame(r) \/ MarkInvalid(r) \/ Blamed(r) \/ Panic(r)

PoolStep ==
  \/ \E a \in Account : QuotaAnswer(a) \/ Toggle(a) \/ Rested(a) \/ Remove(a)
                          \/ AddAccount(a)
  \/ \E w \in Workspace : Purge(w)

\* The history variable: the account of the request's thread was not usable, or
\* was removed or replaced, at some moment of the request, or an attempt or a
\* quota check of the request failed.
Observe ==
  lost' = {r \in Request :
    /\ req'[r].pc # "idle"
    /\ \/ r \in lost
       \/ req'[r].pc \in {"spent", "failed"} \/ req'[r].answer = "error"
       \/ req'[r].start \in purging'
       \/ \A a \in pool' : health'[a] # {} \/ WorkspaceOf[a] # req'[r].start}

Next == ((\E r \in Request : HandlerStep(r)) \/ PoolStep) /\ Observe

Spec == Init /\ [][Next]_vars

-----------------------------------------------------------------------------
(* Properties.                                                             *)

\* Every variable keeps its type and every counter of a request its limit.
TypeOK ==
  /\ pool \in SUBSET Account
  /\ fresh \in SUBSET Account
  /\ inFlight \in [Login -> Nat]
  /\ health \in [Account -> SUBSET Reason]
  /\ bound \in [Request -> Workspace \cup {NoWorkspace}]
  /\ purging \in SUBSET Workspace
  /\ req \in [Request -> RequestLocals]
  /\ \A r \in Request : req[r].calls <= MaxCalls
  /\ events \in Nat
  /\ lost \in SUBSET Request

Holders(l) == {r \in Request : req[r].pc \in Leased /\ LoginOf[req[r].acc] = l}

\* The slots counted for a login are exactly those of the requests that are
\* calling it, through removals, replacements, failures and panics: no slot
\* leaks and none is given back twice.
SlotsExact == \A l \in Login : inFlight[l] = Cardinality(Holders(l))

\* Never more than the allowed number of requests call one login at a time,
\* whichever of its workspaces they use ("Workspaces owned by the same login
\* share these slots").
SlotsBounded == \A l \in Login : Cardinality(Holders(l)) <= MaxSlots

\* A request never calls Notion twice with the same account: it has made as many
\* calls as there are accounts it called.
FreshAccounts ==
  \A r \in Request : req[r].calls = Cardinality(req[r].called)

\* "A temporary concurrency limit must not silently migrate the conversation":
\* while the account of a thread stays usable, its request calls no other
\* account and the thread stays bound.
BusyKeepsThread ==
  \A r \in Request :
    /\ req[r].pc # "idle" /\ req[r].start # NoWorkspace
    /\ r \notin lost
    => /\ req[r].acc # NoAccount => WorkspaceOf[req[r].acc] = req[r].start
       /\ bound[r] = req[r].start

\* A login that answered 401 is invalid in all its workspaces, once the marking
\* is over ("invalidates every workspace that shares the same Notion login").
SiblingsInvalid ==
  (\A r \in Request : req[r].pc # "blame") =>
    \A a, b \in pool \cap InitialPool :
      SameLogin(a, b) /\ "invalid" \in health[a] => "invalid" \in health[b]

\* "The real Notion thread belongs to this login": a thread is only continued
\* with the account that owns it.
ThreadStaysHome ==
  \A r \in Request : req[r].pc = "infer" => req[r].owner = WorkspaceOf[req[r].acc]

=============================================================================
