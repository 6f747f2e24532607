---------------------------- MODULE QuotaRefresh ----------------------------
(***************************************************************************)
(* The quota of a workspace: live checks that share one call to Notion,    *)
(* background refreshes, the marks they leave on the account, and the      *)
(* clean-up that deletes exhausted accounts (account.go, account_api.go).  *)
(*                                                                         *)
(* Accounts do not depend on each other here, so the module follows one    *)
(* workspace.  Each import of it makes a new Account object; goroutines    *)
(* that started with an older object go on with that one.                  *)
(*                                                                         *)
(* Grain: one action per critical section of AccountPool.liveQuotaMu,      *)
(* AccountPool.mu or Account.mu and per call to Notion.                    *)
(***************************************************************************)
EXTENDS Naturals

CONSTANTS
  Account,   \* Account objects, the successive imports of the workspace
  TokenOf,   \* the login token of an object
  Proc,      \* goroutines; each checks once
  Kinds,     \* what goroutines may do, see Kind
  Plans,     \* plans the workspace may have
  NoAccount,
  NoProc

\* A request before it calls, a check after it called, one account of
\* RefreshAll, the check after a registration, and one account of a clean-up.
Kind == {"inference", "background", "refresh", "register", "cleanup"}

ASSUME QuotaAssumption ==
  /\ NoAccount \notin Account /\ NoProc \notin Proc
  /\ Kinds \subseteq Kind
  /\ Plans \subseteq {"free", "plus", "team", "other"}

VARIABLES
  current,    \* the object in the pool
  fresh,      \* objects not imported yet
  dropping,   \* removed objects whose entries in the maps are still to go
  quota,      \* PlanType, QuotaInfo, QuotaExhaustedAt, PermanentlyExhausted
  generation, \* quotaGeneration
  applied,    \* quotaApplied
  flight,     \* liveQuotaFlights; a flight is named by the one that leads it
  proc,       \* the goroutines
  told        \* ghost: the answers that were offered to an object

vars == <<current, fresh, dropping, quota, generation, applied, flight, proc, told>>
maps == <<generation, applied, flight>>
pool == <<current, fresh, dropping>>

-----------------------------------------------------------------------------
(* Accounts.                                                               *)

\* planIncludesFullNotionAI
Included(plan) == plan = "team"

\* isComplimentaryPlanType
Complimentary(plan) == plan \in {"free", "plus"}

\* isLifetimeFreePlanType
LifetimeFree(plan) == plan = "free"

Unknown == [plan |-> "other", info |-> "unknown", marked |-> FALSE, permanent |-> FALSE]

\* isQuotaExhausted
Exhausted(q) ==
  /\ ~Included(q.plan)
  /\ q.permanent \/ q.marked \/ q.info = "exhausted"

\* isExhaustedComplimentaryAccount, as far as the quota decides.
ToBeDeleted(q) ==
  /\ Complimentary(q.plan)
  /\ q.permanent \/ q.marked \/ q.info = "exhausted"

\* applyQuotaInfo: an eligible answer lifts the marks, but not those of a
\* lifetime free account that is used up.
QuotaAfter(q, answer) ==
  LET good == answer = "eligible" \/ Included(q.plan)
      kept == q.permanent /\ LifetimeFree(q.plan)
  IN [plan |-> q.plan, info |-> answer,
      marked |-> IF good THEN q.marked /\ kept ELSE TRUE,
      permanent |-> IF good THEN kept ELSE q.permanent \/ Complimentary(q.plan)]

\* applyWorkspaceProfile
Profiled(q, plan) ==
  [plan |-> plan, info |-> q.info,
   marked |-> q.marked /\ ~Included(plan),
   permanent |-> q.permanent /\ ~Included(plan)]

\* Mutant: the mark of MarkQuotaExhausted replaces the one that is there.
MarkedAnew(q) == [plan |-> q.plan, info |-> q.info, marked |-> TRUE, permanent |-> FALSE]

\* markQuotaExhausted: a mark that is there stays as it is; a new one is not
\* permanent.
Marked(q) ==
  [plan |-> q.plan, info |-> q.info, marked |-> TRUE,
   permanent |-> q.marked /\ q.permanent]

\* clearQuotaExhausted
Cleared(q) == [plan |-> q.plan, info |-> q.info, marked |-> FALSE, permanent |-> FALSE]

-----------------------------------------------------------------------------
(* Goroutines.                                                             *)

Idle ==
  [pc |-> "idle", kind |-> "background", acc |-> NoAccount, gen |-> 0, of |-> NoProc,
   answer |-> "none", closed |-> FALSE]

\* The goroutine leads the flight it is in.
Leads(c) == proc[c].of = c

Running(c) == proc[c].pc \notin {"idle", "over"}

Goto(c, pc) == proc' = [proc EXCEPT ![c].pc = pc]

\* What a goroutine does with the result of a check: a request marks an
\* account that is not eligible, a clean-up looks again before it deletes it.
Return(c, eligible, failed) ==
  IF eligible THEN "over"
  ELSE IF proc[c].kind = "inference" THEN "mark"
  ELSE IF proc[c].kind = "cleanup" /\ ~failed THEN "confirm"
  ELSE "over"

\* The result when the last answer has to do.
FromCache(q) == IF q.info = "unknown" THEN ~Exhausted(q) ELSE q.info = "eligible"

\* A request has leased the account, so it was usable; RefreshAll runs once at
\* a time; a clean-up takes the accounts that look exhausted.
Start(c, kind) ==
  /\ proc[c].pc = "idle" /\ current # NoAccount
  /\ kind = "inference" => ~Exhausted(quota[current])
  /\ kind = "refresh" => \A d \in Proc : proc[d].kind = "refresh" => ~Running(d)
  /\ kind = "cleanup" => ToBeDeleted(quota[current])
  /\ proc' = [proc EXCEPT ![c] =
                [Idle EXCEPT !.kind = kind, !.acc = current,
                   !.pc = IF kind = "register" THEN "ticket"
                          ELSE IF kind \in {"refresh", "cleanup"} THEN "probe"
                          ELSE "check"]]
  /\ UNCHANGED <<pool, quota, maps, told>>

\* workspaceProbe and applyWorkspaceProfile.  A clean-up stops when no workspace
\* is left.  After a failure RefreshAll still asks for the quota, unless the
\* login was refused; the others stop.
Probe(c) ==
  LET a == proc[c].acc
      onward == [refresh |-> {"ticket"}, cleanup |-> {"check", "over"},
                 register |-> {"over"}]
  IN
  /\ proc[c].pc = "probe"
  /\ \/ /\ \E plan \in Plans : quota' = [quota EXCEPT ![a] = Profiled(@, plan)]
        /\ \E pc \in onward[proc[c].kind] : Goto(c, pc)
     \/ /\ \E pc \in {"over"} \cup (onward[proc[c].kind] \ {"check"}) : Goto(c, pc)
        /\ UNCHANGED quota
  /\ UNCHANGED <<pool, maps, told>>

\* RefreshAccountQuota and refreshAccountQuotaNow up to the flight: nothing is
\* asked for an included plan, and a request may do with a recent answer.
Check(c) ==
  LET q == quota[proc[c].acc] IN
  /\ proc[c].pc = "check"
  /\ IF Included(q.plan) \/ (proc[c].kind = "cleanup" /\ ~Complimentary(q.plan))
     THEN Goto(c, "over")
     ELSE \/ Goto(c, "begin")
          \/ /\ proc[c].kind = "inference"
             /\ Goto(c, Return(c, FromCache(q), FALSE))
  /\ UNCHANGED <<pool, quota, maps, told>>

\* Mutant: the flight under way is not looked for.
BeginFlightAlways(c) ==
  LET a == proc[c].acc IN
  /\ proc[c].pc = "begin"
  /\ generation' = [generation EXCEPT ![a] = @ + 1]
  /\ flight' = [flight EXCEPT ![a] = c]
  /\ proc' = [proc EXCEPT ![c].pc = "fetch", ![c].of = c, ![c].gen = generation[a] + 1]
  /\ UNCHANGED <<pool, quota, applied, told>>

\* beginRoutingQuotaFlight: the first one leads, the others wait for it.
BeginFlight(c) ==
  LET a == proc[c].acc IN
  /\ proc[c].pc = "begin"
  /\ IF flight[a] = NoProc
     THEN /\ generation' = [generation EXCEPT ![a] = @ + 1]
          /\ flight' = [flight EXCEPT ![a] = c]
          /\ proc' = [proc EXCEPT ![c].pc = "fetch", ![c].of = c,
                                  ![c].gen = generation[a] + 1]
     ELSE /\ proc' = [proc EXCEPT ![c].pc = "wait", ![c].of = flight[a]]
          /\ UNCHANGED <<generation, flight>>
  /\ UNCHANGED <<pool, quota, applied, told>>

\* Mutant: the generation is read but not counted.
TicketUncounted(c) ==
  LET a == proc[c].acc IN
  /\ proc[c].pc = "ticket"
  /\ proc' = [proc EXCEPT ![c].pc = "fetch", ![c].gen = generation[a] + 1]
  /\ UNCHANGED <<pool, quota, maps, told>>

\* nextQuotaGeneration
Ticket(c) ==
  LET a == proc[c].acc IN
  /\ proc[c].pc = "ticket"
  /\ generation' = [generation EXCEPT ![a] = @ + 1]
  /\ proc' = [proc EXCEPT ![c].pc = "fetch", ![c].gen = generation[a] + 1]
  /\ UNCHANGED <<pool, quota, applied, flight, told>>

\* The call to Notion; a leader that fails still has to end its flight.
Fetch(c) ==
  /\ proc[c].pc = "fetch"
  /\ \/ \E answer \in {"eligible", "exhausted"} :
          proc' = [proc EXCEPT ![c].pc = "apply", ![c].answer = answer]
     \/ Goto(c, IF Leads(c) THEN "finish" ELSE "over")
  /\ UNCHANGED <<pool, quota, maps, told>>

AfterApply(c) ==
  IF Leads(c) THEN "finish" ELSE IF proc[c].kind = "register" THEN "probe" ELSE "over"

\* Mutant: every answer is applied, in the order of arrival.
ApplyAlways(c) ==
  LET a == proc[c].acc
      n == proc[c].gen
  IN
  /\ proc[c].pc = "apply"
  /\ applied' = [applied EXCEPT ![a] = n]
  /\ quota' = [quota EXCEPT ![a] = QuotaAfter(@, proc[c].answer)]
  /\ told' = [told EXCEPT ![a] = @ \cup {[gen |-> n, answer |-> proc[c].answer]}]
  /\ Goto(c, AfterApply(c))
  /\ UNCHANGED <<pool, generation, flight>>

\* applyQuotaInfoIfCurrent: an answer older than the one applied is dropped.
Apply(c) ==
  LET a == proc[c].acc
      n == proc[c].gen
  IN
  /\ proc[c].pc = "apply"
  /\ IF n > applied[a]
     THEN /\ applied' = [applied EXCEPT ![a] = n]
          /\ quota' = [quota EXCEPT ![a] = QuotaAfter(@, proc[c].answer)]
     ELSE UNCHANGED <<applied, quota>>
  /\ told' = [told EXCEPT ![a] = @ \cup {[gen |-> n, answer |-> proc[c].answer]}]
  /\ Goto(c, AfterApply(c))
  /\ UNCHANGED <<pool, generation, flight>>

\* Mutant: a flight that was taken out of the map is not closed.
FinishIfListed(c) ==
  LET a == proc[c].acc
      answer == proc[c].answer
  IN
  /\ proc[c].pc = "finish"
  /\ flight' = IF flight[a] = c THEN [flight EXCEPT ![a] = NoProc] ELSE flight
  /\ proc' = [proc EXCEPT ![c].closed = (flight[a] = c),
                          ![c].pc = IF answer = "none" THEN "fallback"
                                    ELSE Return(c, answer = "eligible", FALSE)]
  /\ UNCHANGED <<pool, quota, generation, applied, told>>

\* finishRoutingQuotaFlight: the flight leaves the map, if it is still there,
\* and those who wait are woken.
FinishFlight(c) ==
  LET a == proc[c].acc
      answer == proc[c].answer
  IN
  /\ proc[c].pc = "finish"
  /\ flight' = IF flight[a] = c THEN [flight EXCEPT ![a] = NoProc] ELSE flight
  /\ proc' = [proc EXCEPT ![c].closed = TRUE,
                          ![c].pc = IF answer = "none" THEN "fallback"
                                    ELSE Return(c, answer = "eligible", FALSE)]
  /\ UNCHANGED <<pool, quota, generation, applied, told>>

\* A follower takes the result of the flight.
Wake(c) ==
  LET answer == proc[proc[c].of].answer IN
  /\ proc[c].pc = "wait" /\ proc[proc[c].of].closed
  /\ Goto(c, IF answer = "none" THEN "fallback" ELSE Return(c, answer = "eligible", FALSE))
  /\ UNCHANGED <<pool, quota, maps, told>>

\* The flight failed: what is known has to do.
Fallback(c) ==
  /\ proc[c].pc = "fallback"
  /\ Goto(c, Return(c, FromCache(quota[proc[c].acc]), TRUE))
  /\ UNCHANGED <<pool, quota, maps, told>>

\* MarkQuotaExhausted reads the plan first ...
MarkPlan(c) ==
  /\ proc[c].pc = "mark"
  /\ Goto(c, IF Included(quota[proc[c].acc].plan) THEN "clear" ELSE "set")
  /\ UNCHANGED <<pool, quota, maps, told>>

\* ... and then sets the mark, or lifts it from an included plan.
Mark(c) ==
  LET a == proc[c].acc IN
  /\ \/ /\ proc[c].pc = "set"
        /\ quota' = [quota EXCEPT ![a] = Marked(@)]
     \/ /\ proc[c].pc = "clear"
        /\ quota' = [quota EXCEPT ![a] = Cleared(@)]
  /\ Goto(c, "over")
  /\ UNCHANGED <<pool, maps, told>>

-----------------------------------------------------------------------------
(* Clean-up and import.                                                    *)

\* confirmExhaustedComplimentaryAccount looks at the account once more; other
\* failures of the account keep it.
Confirm(c) ==
  /\ proc[c].pc = "confirm"
  /\ \/ Goto(c, "over")
     \/ /\ ToBeDeleted(quota[proc[c].acc])
        /\ Goto(c, "delete")
  /\ UNCHANGED <<pool, quota, maps, told>>

\* Mutant: the workspace is deleted whatever its login.
DeleteAny(c) ==
  /\ proc[c].pc = "delete"
  /\ IF current # NoAccount
     THEN current' = NoAccount /\ dropping' = dropping \cup {current}
     ELSE UNCHANGED <<current, dropping>>
  /\ Goto(c, "over")
  /\ UNCHANGED <<fresh, quota, maps, told>>

\* deleteAccountByAccountIdentity and removeUniqueMatchingAccount: whatever is
\* in the pool for the workspace, if it has the login of the clean-up's object.
Delete(c) ==
  /\ proc[c].pc = "delete"
  /\ IF current # NoAccount /\ TokenOf[current] = TokenOf[proc[c].acc]
     THEN current' = NoAccount /\ dropping' = dropping \cup {current}
     ELSE UNCHANGED <<current, dropping>>
  /\ Goto(c, "over")
  /\ UNCHANGED <<fresh, quota, maps, told>>

\* AddAccount, with what its discovery found: a new object takes the place.
Import(a) ==
  /\ a \in fresh
  /\ fresh' = fresh \ {a}
  /\ dropping' = dropping \cup ({current} \ {NoAccount})
  /\ current' = a
  /\ \E plan \in Plans, info \in {"unknown", "eligible", "exhausted"} :
       quota' = [quota EXCEPT ![a] = [Unknown EXCEPT !.plan = plan, !.info = info]]
  /\ UNCHANGED <<maps, proc, told>>

\* The entries of a removed object leave the maps, under another lock.
Drop(a) ==
  /\ a \in dropping
  /\ dropping' = dropping \ {a}
  /\ flight' = [flight EXCEPT ![a] = NoProc]
  /\ generation' = [generation EXCEPT ![a] = 0]
  /\ applied' = [applied EXCEPT ![a] = 0]
  /\ UNCHANGED <<current, fresh, quota, proc, told>>

Init ==
  /\ current = NoAccount /\ fresh = Account /\ dropping = {}
  /\ quota = [a \in Account |-> Unknown]
  /\ generation = [a \in Account |-> 0] /\ applied = [a \in Account |-> 0]
  /\ flight = [a \in Account |-> NoProc]
  /\ proc = [c \in Proc |-> Idle]
  /\ told = [a \in Account |-> {}]

Go(c) ==
  \/ Probe(c) \/ Check(c) \/ BeginFlight(c) \/ Ticket(c) \/ Fetch(c) \/ Apply(c)
  \/ FinishFlight(c) \/ Wake(c) \/ Fallback(c) \/ MarkPlan(c) \/ Mark(c)
  \/ Confirm(c) \/ Delete(c)

Next ==
  \/ \E c \in Proc : Go(c) \/ \E kind \in Kinds : Start(c, kind)
  \/ \E a \in Account : Import(a) \/ Drop(a)

Spec == Init /\ [][Next]_vars

\* A goroutine that was started goes on; the calls to Notion have timeouts.
Fairness == \A c \in Proc : WF_vars(Go(c))

FairSpec == Spec /\ Fairness

-----------------------------------------------------------------------------
(* Properties.                                                             *)

Info == {"unknown", "eligible", "exhausted"}

Pc == {"idle", "probe", "check", "begin", "ticket", "fetch", "apply", "finish", "wait",
       "fallback", "mark", "set", "clear", "confirm", "delete", "over"}

QuotaType ==
  [plan : Plans \cup {"other"}, info : Info, marked : BOOLEAN, permanent : BOOLEAN]

ProcType ==
  [pc : Pc, kind : Kinds \cup {"background"}, acc : Account \cup {NoAccount}, gen : Nat,
   of : Proc \cup {NoProc}, answer : {"none", "eligible", "exhausted"}, closed : BOOLEAN]

Told == [gen : Nat, answer : {"eligible", "exhausted"}]

\* Every variable keeps its type, and no answer is newer than the last check
\* that was started for the object in the pool.
TypeOK ==
  /\ current \in Account \cup {NoAccount}
  /\ fresh \in SUBSET Account /\ dropping \in SUBSET Account
  /\ quota \in [Account -> QuotaType]
  /\ generation \in [Account -> Nat] /\ applied \in [Account -> Nat]
  /\ flight \in [Account -> Proc \cup {NoProc}]
  /\ proc \in [Proc -> ProcType]
  /\ told \in [Account -> SUBSET Told]
  /\ current # NoAccount => applied[current] <= generation[current]

Leading(c, a) ==
  Leads(c) /\ proc[c].acc = a /\ proc[c].pc \in {"fetch", "apply", "finish"}

\* "A routing check is singleflight": of the account in the pool, at most one
\* live check is under way, whatever is imported and removed around it.
SingleFlight ==
  \A c, d \in Proc : Leading(c, current) /\ Leading(d, current) => c = d

\* "Generations also prevent a slower, older ... response from overwriting a
\* newer routing result", and a newer check that failed does not discard an
\* older answer: what is known of the account in the pool is the answer of the
\* check that was started last among those that answered.
NewestAnswerWins ==
  current # NoAccount /\ told[current] # {} =>
    \E t \in told[current] :
      /\ quota[current].info = t.answer
      /\ \A u \in told[current] : u.gen <= t.gen

\* The step takes the permanent mark of an account that is free before and after.
LosesMark(a) ==
  /\ quota[a].permanent /\ LifetimeFree(quota[a].plan)
  /\ ~quota'[a].permanent /\ LifetimeFree(quota'[a].plan)

\* The step is MarkQuotaExhausted of goroutine c lifting the marks of its account.
LiftsMarks(c) == proc[c].pc = "clear" /\ proc'[c].pc = "over"

\* "A free workspace ... must not be revived by the legacy quota endpoint": checks,
\* probes, refreshes and marks in any order leave a used-up free account its
\* permanent mark while it is free.  One step alone may take it, MarkQuotaExhausted,
\* and only in a goroutine that found a plan including AI when it looked.
PermanentKept ==
  [][/\ \A a \in Account \ fresh : LosesMark(a) =>
          \E c \in Proc : LiftsMarks(c) /\ proc[c].acc = a
     /\ \A c \in Proc : proc[c].pc # "clear" /\ proc'[c].pc = "clear" =>
          Included(quota[proc[c].acc].plan)]_vars

\* The same without the exception: nothing makes a used-up free account routable
\* while it is free.
NeverRevived ==
  [][\A a \in Account \ fresh :
       /\ quota[a].permanent /\ LifetimeFree(quota[a].plan)
       /\ LifetimeFree(quota'[a].plan)
       => Exhausted(quota'[a])]_vars

\* "A concurrent re-import ... must never cause a stale cleanup job to delete
\* the replacement": a clean-up deletes the object it looked at, or none.
ReplacementKept ==
  [][\A c \in Proc :
       proc[c].pc = "delete" /\ proc'[c].pc = "over" /\ current' # current
         => current = proc[c].acc]_vars

\* Who can go on by itself: everyone but a follower of a flight that is not closed.
GoesOn(c) == Running(c) /\ (proc[c].pc = "wait" => proc[proc[c].of].closed)

\* Whatever is imported and removed meanwhile, and whichever flight fails: who cannot go
\* on follows a leader that can.
NoneLeftBehind == \A c \in Proc : Running(c) => GoesOn(c) \/ GoesOn(proc[c].of)

\* GoesOn holds where an action of the goroutine is enabled.
GuardsExact == \A c \in Proc : GoesOn(c) <=> ENABLED Go(c)

\* The places of a goroutine; a registration looks at the workspace after its check.
PlaceOf ==
  [idle |-> 0, probe |-> 1, check |-> 2, begin |-> 3, ticket |-> 3, wait |-> 4, fetch |-> 4,
   apply |-> 5, finish |-> 6, fallback |-> 7, mark |-> 8, confirm |-> 8, set |-> 9, clear |-> 9,
   delete |-> 9, over |-> 10]
Progress(p) == IF p.kind = "register" /\ p.pc = "probe" THEN 9 ELSE PlaceOf[p.pc]

\* No check is made again and again: a goroutine changes only by going forward.
OnlyForward ==
  [][\A c \in Proc : proc'[c] = proc[c] \/ Progress(proc[c]) < Progress(proc'[c])]_vars

\* Every goroutine that was started ends: no follower is left behind.
ChecksEnd == \A c \in Proc : Running(c) ~> ~Running(c)

\* The pool keeps the promise of QuotaRegister for the object it holds.
OfCurrent(f, none) == IF current = NoAccount THEN none ELSE f[current]

Register ==
  INSTANCE QuotaRegister WITH
    Object <- Account, NoObject <- NoAccount, Value <- Info,
    object <- current,
    last <- OfCurrent(generation, 0),
    newest <- OfCurrent(applied, 0),
    value <- OfCurrent([a \in Account |-> quota[a].info], "unknown")

RegisterSpec == Register!Spec

\* "Generations ensure that a slower older response cannot overwrite a newer
\* live-routing result": a plan that may recover is not marked as exhausted when
\* the newest answer says that it is eligible.
MarkMatchesAnswer ==
  current # NoAccount =>
    (quota[current].marked /\ quota[current].info = "eligible"
       => quota[current].permanent)

\* "Other account health failures and all included-AI paid plans are left
\* untouched": what a clean-up deletes is exhausted when it is deleted.
DeletesExhausted ==
  [][\A c \in Proc :
       proc[c].pc = "delete" /\ proc'[c].pc = "over" /\ current' # current
         => ToBeDeleted(quota[current])]_vars

=============================================================================
