------------------------ MODULE RequestRoutingProofs ------------------------
(***************************************************************************)
(* Theorems about RequestRouting, for every number of requests, accounts,  *)
(* logins and slots: the slots counted for a login are those in use, they  *)
(* never exceed the limit, no account is called twice by a request, a login*)
(* that answered 401 is invalid in all its workspaces, and a request waits *)
(* for the account that owns its thread.                                   *)
(***************************************************************************)
EXTENDS RequestRouting, FiniteSetTheorems, TLAPS

\* What is true of the locals of one request, whatever the others do.
LocalsOK(q) ==
  /\ q \in RequestLocals
  /\ q.calls <= MaxCalls
  /\ q.pc \in {"owner", "check", "spent", "infer", "answered", "failed"}
       => q.acc \in Account
  /\ q.pc \in {"owner", "lease", "check"} => q.calls < MaxCalls
  /\ q.called \subseteq q.tried /\ q.calls = Cardinality(q.called)
  /\ q.pc \in {"owner", "check"} => q.acc \notin q.tried
  /\ q.pc \in {"idle", "select", "owner"} /\ q.rounds = 0 => q.tried = {}
  /\ q.pc = "owner" => q.rounds = 0

PoolType ==
  /\ pool \in SUBSET Account
  /\ fresh \in SUBSET Account
  /\ inFlight \in [Login -> Nat]
  /\ health \in [Account -> SUBSET Reason]
  /\ bound \in [Request -> Workspace \cup {NoWorkspace}]
  /\ purging \in SUBSET Workspace
  /\ events \in Nat

AllLocals ==
  /\ req \in [Request -> RequestLocals]
  /\ \A r \in Request : LocalsOK(req[r])

Slots ==
  /\ SlotsExact
  /\ \A l \in Login : inFlight[l] <= MaxSlots

Inv == PoolType /\ AllLocals /\ Slots

-----------------------------------------------------------------------------
(* The set of requests that hold a lease of a login.                       *)

\* There are finitely many of them.
LEMMA HoldersFinite ==
  ASSUME NEW l \in Login
  PROVE  IsFiniteSet(Holders(l)) /\ Cardinality(Holders(l)) \in Nat
<1>1. Holders(l) \subseteq Request BY DEF Holders
<1>2. IsFiniteSet(Holders(l)) BY <1>1, FS_Subset, RoutingAssumption
<1>3. QED BY <1>2, FS_CardinalityType

\* A step of a request that neither takes nor gives back a lease.
LEMMA SlotsKept ==
  ASSUME Slots, NEW r \in Request,
         \A q \in Request \ {r} : req'[q] = req[q],
         (req'[r].pc \in Leased) = (req[r].pc \in Leased),
         req[r].pc \in Leased => req'[r].acc = req[r].acc,
         inFlight' = inFlight
  PROVE  Slots'
<1>1. ASSUME NEW l \in Login PROVE Holders(l)' = Holders(l)
  <2>1. ASSUME NEW q \in Request PROVE q \in Holders(l)' <=> q \in Holders(l)
    <3>1. CASE q = r BY <3>1 DEF Holders
    <3>2. CASE q # r BY <3>2 DEF Holders
    <3>3. QED BY <3>1, <3>2
  <2>2. QED BY <2>1 DEF Holders
<1>2. QED BY <1>1 DEF Slots, SlotsExact

\* A step that takes a lease of account a.
LEMMA SlotTaken ==
  ASSUME Slots, PoolType, NEW r \in Request, NEW a \in Account,
         \A q \in Request \ {r} : req'[q] = req[q],
         req[r].pc \notin Leased, req'[r].pc \in Leased, req'[r].acc = a,
         HasSlot(a), Reserve(a)
  PROVE  Slots' /\ inFlight' \in [Login -> Nat]
<1> DEFINE la == LoginOf[a]
<1>1. la \in Login BY RoutingAssumption
<1>2. inFlight' \in [Login -> Nat] BY <1>1 DEF Reserve, PoolType
<1>3. ASSUME NEW l \in Login PROVE inFlight'[l] = Cardinality(Holders(l)') /\ inFlight'[l] <= MaxSlots
  <2>1. CASE l = la
    <3>1. Holders(l)' = Holders(l) \cup {r}
      <4>1. ASSUME NEW q \in Request PROVE q \in Holders(l)' <=> q \in Holders(l) \cup {r}
        <5>1. CASE q = r BY <5>1, <2>1 DEF Holders
        <5>2. CASE q # r BY <5>2 DEF Holders
        <5>3. QED BY <5>1, <5>2
      <4>2. QED BY <4>1 DEF Holders
    <3>2. r \notin Holders(l) BY DEF Holders
    <3>3. Cardinality(Holders(l) \cup {r}) = Cardinality(Holders(l)) + 1
      BY <3>2, HoldersFinite, FS_AddElement
    <3>4. inFlight'[l] = inFlight[l] + 1 BY <2>1 DEF Reserve, PoolType
    <3>5. inFlight[l] < MaxSlots BY <2>1 DEF HasSlot
    <3>6. inFlight[l] \in Nat /\ MaxSlots \in Nat BY RoutingAssumption DEF PoolType
    <3>7. QED BY <3>1, <3>3, <3>4, <3>5, <3>6 DEF Slots, SlotsExact
  <2>2. CASE l # la
    <3>1. Holders(l)' = Holders(l)
      <4>1. ASSUME NEW q \in Request PROVE q \in Holders(l)' <=> q \in Holders(l)
        <5>1. CASE q = r BY <5>1, <2>2 DEF Holders
        <5>2. CASE q # r BY <5>2 DEF Holders
        <5>3. QED BY <5>1, <5>2
      <4>2. QED BY <4>1 DEF Holders
    <3>2. inFlight'[l] = inFlight[l] BY <2>2, <1>1 DEF Reserve, PoolType
    <3>3. QED BY <3>1, <3>2 DEF Slots, SlotsExact
  <2>3. QED BY <2>1, <2>2
<1>4. QED BY <1>2, <1>3 DEF Slots, SlotsExact

\* A step that gives the lease back.
LEMMA SlotReleased ==
  ASSUME Slots, PoolType, NEW r \in Request,
         \A q \in Request \ {r} : req'[q] = req[q],
         req[r].pc \in Leased, req[r].acc \in Account, req'[r].pc \notin Leased,
         Release(req[r].acc)
  PROVE  Slots' /\ inFlight' \in [Login -> Nat]
<1> DEFINE la == LoginOf[req[r].acc]
<1>1. la \in Login BY RoutingAssumption
<1>2. inFlight' \in [Login -> Nat] BY <1>1 DEF Release, PoolType
<1>3. ASSUME NEW l \in Login PROVE inFlight'[l] = Cardinality(Holders(l)') /\ inFlight'[l] <= MaxSlots
  <2>1. CASE l = la
    <3>1. Holders(l)' = Holders(l) \ {r}
      <4>1. ASSUME NEW q \in Request PROVE q \in Holders(l)' <=> q \in Holders(l) \ {r}
        <5>1. CASE q = r BY <5>1 DEF Holders
        <5>2. CASE q # r BY <5>2 DEF Holders
        <5>3. QED BY <5>1, <5>2
      <4>2. QED BY <4>1 DEF Holders
    <3>2. r \in Holders(l) BY <2>1 DEF Holders
    <3>3. Cardinality(Holders(l) \ {r}) = Cardinality(Holders(l)) - 1
      BY <3>2, HoldersFinite, FS_RemoveElement
    <3>4. Holders(l) # {} BY <3>2
    <3>5. Cardinality(Holders(l)) # 0 BY <3>4, HoldersFinite, FS_EmptySet
    <3>6. inFlight[l] \in Nat /\ inFlight[l] = Cardinality(Holders(l)) /\ inFlight[l] <= MaxSlots
      BY DEF PoolType, Slots, SlotsExact
    <3>7. inFlight'[l] = IF inFlight[l] > 1 THEN inFlight[l] - 1 ELSE 0
      BY <2>1 DEF Release, PoolType
    <3>8. inFlight'[l] = inFlight[l] - 1 BY <3>5, <3>6, <3>7
    <3>9. MaxSlots \in Nat BY RoutingAssumption
    <3>10. QED BY <3>1, <3>3, <3>6, <3>8, <3>9
  <2>2. CASE l # la
    <3>1. Holders(l)' = Holders(l)
      <4>1. ASSUME NEW q \in Request PROVE q \in Holders(l)' <=> q \in Holders(l)
        <5>1. CASE q = r BY <5>1, <2>2 DEF Holders
        <5>2. CASE q # r BY <5>2 DEF Holders
        <5>3. QED BY <5>1, <5>2
      <4>2. QED BY <4>1 DEF Holders
    <3>2. inFlight'[l] = inFlight[l] BY <2>2, <1>1 DEF Release, PoolType
    <3>3. QED BY <3>1, <3>2 DEF Slots, SlotsExact
  <2>3. QED BY <2>1, <2>2
<1>4. QED BY <1>2, <1>3 DEF Slots, SlotsExact

-----------------------------------------------------------------------------
(* Steps of a request.                                                     *)

\* What a step of request r does to the locals.
LocalStep(r) ==
  /\ req' \in [Request -> RequestLocals]
  /\ \A q \in Request \ {r} : req'[q] = req[q]
  /\ LocalsOK(req'[r])

LEMMA LocalsFollow ==
  ASSUME AllLocals, NEW r \in Request, LocalStep(r)
  PROVE  AllLocals'
<1>1. ASSUME NEW q \in Request PROVE LocalsOK(req'[q])
  <2>1. CASE q = r BY <2>1 DEF LocalStep
  <2>2. CASE q # r
    <3>1. req'[q] = req[q] BY <2>2 DEF LocalStep
    <3>2. LocalsOK(req[q]) BY DEF AllLocals
    <3>3. QED BY <3>1, <3>2
  <2>3. QED BY <2>1, <2>2
<1>2. QED BY <1>1 DEF AllLocals, LocalStep

\* The locals of a request that has been answered.
LEMMA FinishStep ==
  ASSUME AllLocals, NEW r \in Request, NEW answer \in Answers, Finish(r, answer)
  PROVE  LocalStep(r) /\ req'[r].pc = "done"
<1> DEFINE x == [Idle EXCEPT !.pc = "done", !.answer = answer, !.start = req[r].start]
<1>1. req[r] \in RequestLocals BY DEF AllLocals
<1>2. x \in RequestLocals
  BY <1>1 DEF RequestLocals, Idle, Pc, Retryable
<1>3. x.pc = "done" /\ x.calls = 0 /\ x.tried = {} /\ x.called = {} BY DEF Idle
<1>4. Cardinality({}) = 0 BY FS_EmptySet
<1>5. MaxCalls \in Nat BY RoutingAssumption
<1>6. LocalsOK(x) BY <1>2, <1>3, <1>4, <1>5 DEF LocalsOK
<1>7. req' = [req EXCEPT ![r] = x] BY DEF Finish
<1>8. req' \in [Request -> RequestLocals] BY <1>2, <1>7 DEF AllLocals
<1>9. req'[r] = x BY <1>7 DEF AllLocals
<1>10. QED BY <1>3, <1>6, <1>7, <1>8, <1>9 DEF LocalStep, AllLocals

\* The new locals of r, named.
LEMMA LocalStepFrom ==
  ASSUME AllLocals, NEW r \in Request, NEW x, LocalsOK(x), req' = [req EXCEPT ![r] = x]
  PROVE  LocalStep(r) /\ req'[r] = x
BY DEF AllLocals, LocalStep, LocalsOK

\* A handler starts: it has tried nothing.
LEMMA BeginInv ==
  ASSUME Inv, NEW r \in Request, Begin(r)
  PROVE  LocalStep(r) /\ PoolType' /\ Slots'
<1> DEFINE x == [req[r] EXCEPT !.pc = "select", !.limit = Cardinality(pool),
                               !.start = bound[r], !.session = bound[r]]
<1>1. req[r] \in RequestLocals /\ LocalsOK(req[r]) /\ req[r].pc = "idle"
  BY DEF Inv, AllLocals, Begin
<1>2. Cardinality(pool) \in Nat
  BY RoutingAssumption, FS_Subset, FS_CardinalityType DEF Inv, PoolType
<1>3. bound[r] \in Workspace \cup {NoWorkspace} BY DEF Inv, PoolType
<1>4. x \in RequestLocals BY <1>1, <1>2, <1>3 DEF RequestLocals, Pc
<1>5. req' = [req EXCEPT ![r] = x] BY DEF Begin, Inv, AllLocals
<1>6. /\ x.pc = "select" /\ x.calls = req[r].calls /\ x.called = req[r].called
      /\ x.tried = req[r].tried /\ x.rounds = req[r].rounds
  BY <1>1 DEF RequestLocals
<1>7. LocalsOK(x) BY <1>1, <1>4, <1>6 DEF LocalsOK
<1>8. LocalStep(r) /\ req'[r] = x BY <1>5, <1>7, LocalStepFrom DEF Inv
<1>9. PoolType' BY DEF Begin, Inv, PoolType
<1>10. Slots' BY <1>1, <1>6, <1>8, SlotsKept DEF Inv, Begin, LocalStep, Leased
<1>11. QED BY <1>8, <1>9, <1>10

\* The account of the stored thread is looked up.
LEMMA FindOwnerInv ==
  ASSUME Inv, NEW r \in Request, FindOwner(r)
  PROVE  LocalStep(r) /\ PoolType' /\ Slots'
<1>1. req[r] \in RequestLocals /\ LocalsOK(req[r]) /\ req[r].pc = "select"
  BY DEF Inv, AllLocals, FindOwner
<1>2. req[r].calls < MaxCalls /\ req[r].rounds = 0 /\ req[r].tried = {}
  BY <1>1 DEF FindOwner, MayTry, LocalsOK
<1>3. LocalStep(r) /\ req'[r].pc \notin Leased
  <2>1. ASSUME NEW a \in pool, req' = [req EXCEPT ![r].pc = "owner", ![r].acc = a]
        PROVE  LocalStep(r) /\ req'[r].pc \notin Leased
    <3> DEFINE x == [req[r] EXCEPT !.pc = "owner", !.acc = a]
    <3>1. a \in Account BY DEF Inv, PoolType
    <3>2. x \in RequestLocals BY <1>1, <3>1 DEF RequestLocals, Pc
    <3>3. /\ x.pc = "owner" /\ x.calls = req[r].calls /\ x.called = req[r].called
          /\ x.tried = req[r].tried /\ x.rounds = req[r].rounds /\ x.acc = a
      BY <1>1 DEF RequestLocals
    <3>4. LocalsOK(x) BY <1>1, <1>2, <3>1, <3>2, <3>3 DEF LocalsOK
    <3>5. req' = [req EXCEPT ![r] = x] BY <2>1 DEF Inv, AllLocals
    <3>6. QED BY <3>3, <3>4, <3>5, LocalStepFrom DEF Inv, Leased
  <2>2. ASSUME req' = [req EXCEPT ![r].pc = "lease", ![r].session = NoWorkspace]
        PROVE  LocalStep(r) /\ req'[r].pc \notin Leased
    <3> DEFINE x == [req[r] EXCEPT !.pc = "lease", !.session = NoWorkspace]
    <3>1. x \in RequestLocals BY <1>1 DEF RequestLocals, Pc
    <3>2. /\ x.pc = "lease" /\ x.calls = req[r].calls /\ x.called = req[r].called
          /\ x.tried = req[r].tried /\ x.rounds = req[r].rounds
      BY <1>1 DEF RequestLocals
    <3>3. LocalsOK(x) BY <1>1, <1>2, <3>1, <3>2 DEF LocalsOK
    <3>4. req' = [req EXCEPT ![r] = x] BY <2>2 DEF Inv, AllLocals
    <3>5. QED BY <3>2, <3>3, <3>4, LocalStepFrom DEF Inv, Leased
  <2>3. QED BY <2>1, <2>2 DEF FindOwner
<1>4. PoolType' BY DEF FindOwner, Inv, PoolType
<1>5. inFlight' = inFlight BY DEF FindOwner
<1>6. Slots' BY <1>1, <1>3, <1>5, SlotsKept DEF Inv, LocalStep, Leased
<1>7. QED BY <1>3, <1>4, <1>6

\* The verdict of a request is an answer.
LEMMA VerdictType ==
  ASSUME NEW r \in Request, NEW busy \in BOOLEAN
  PROVE  Verdict(r, busy) \in Answers
BY DEF Verdict, Answers

\* A lease of an account of its own: the thread's owner, or the best one.
LEMMA LeasedStep ==
  ASSUME Inv, NEW r \in Request, NEW a \in Account,
         req[r].pc \in {"select", "owner", "lease"}, req[r].calls < MaxCalls,
         a \notin req[r].tried, HasSlot(a), Reserve(a),
         req' = [req EXCEPT ![r].pc = "check", ![r].acc = a]
  PROVE  LocalStep(r) /\ Slots' /\ inFlight' \in [Login -> Nat]
<1> DEFINE x == [req[r] EXCEPT !.pc = "check", !.acc = a]
<1>1. req[r] \in RequestLocals /\ LocalsOK(req[r]) BY DEF Inv, AllLocals
<1>2. x \in RequestLocals BY <1>1 DEF RequestLocals, Pc
<1>3. /\ x.pc = "check" /\ x.calls = req[r].calls /\ x.called = req[r].called
      /\ x.tried = req[r].tried /\ x.rounds = req[r].rounds /\ x.acc = a
  BY <1>1 DEF RequestLocals
<1>4. LocalsOK(x) BY <1>1, <1>2, <1>3 DEF LocalsOK
<1>5. req' = [req EXCEPT ![r] = x] BY DEF Inv, AllLocals
<1>6. LocalStep(r) /\ req'[r] = x BY <1>4, <1>5, LocalStepFrom DEF Inv
<1>7. Slots' /\ inFlight' \in [Login -> Nat]
  BY <1>3, <1>6, SlotTaken DEF Inv, LocalStep, Leased
<1>8. QED BY <1>6, <1>7

\* LeaseAccount for the owner of the thread.
LEMMA LeaseOwnerInv ==
  ASSUME Inv, NEW r \in Request, LeaseOwner(r)
  PROVE  LocalStep(r) /\ PoolType' /\ Slots'
<1> DEFINE a == req[r].acc
<1>1. /\ req[r] \in RequestLocals /\ LocalsOK(req[r]) /\ req[r].pc = "owner"
      /\ a \in Account /\ req[r].calls < MaxCalls /\ a \notin req[r].tried
  BY DEF Inv, AllLocals, LeaseOwner, LocalsOK
<1>2. LocalStep(r) /\ Slots' /\ inFlight' \in [Login -> Nat]
  <2>1. CASE req' = [req EXCEPT ![r].pc = "lease", ![r].acc = NoAccount] /\ inFlight' = inFlight
    <3> DEFINE x == [req[r] EXCEPT !.pc = "lease", !.acc = NoAccount]
    <3>1. x \in RequestLocals BY <1>1 DEF RequestLocals, Pc
    <3>2. /\ x.pc = "lease" /\ x.calls = req[r].calls /\ x.called = req[r].called
          /\ x.tried = req[r].tried /\ x.rounds = req[r].rounds
      BY <1>1 DEF RequestLocals
    <3>3. LocalsOK(x) BY <1>1, <3>1, <3>2 DEF LocalsOK
    <3>4. req' = [req EXCEPT ![r] = x] BY <2>1 DEF Inv, AllLocals
    <3>5. LocalStep(r) /\ req'[r] = x BY <3>3, <3>4, LocalStepFrom DEF Inv
    <3>6. Slots' BY <1>1, <2>1, <3>2, <3>5, SlotsKept DEF Inv, LocalStep, Leased
    <3>7. QED BY <2>1, <3>5, <3>6 DEF Inv, PoolType
  <2>2. CASE Usable(a) /\ HasSlot(a) /\ Reserve(a) /\ req' = [req EXCEPT ![r].pc = "check"]
    <3>1. req' = [req EXCEPT ![r].pc = "check", ![r].acc = a]
      BY <1>1, <2>2 DEF Inv, AllLocals, RequestLocals
    <3>2. QED BY <1>1, <2>2, <3>1, LeasedStep
  <2>3. CASE Finish(r, Verdict(r, TRUE)) /\ inFlight' = inFlight
    <3>1. LocalStep(r) /\ req'[r].pc = "done" BY <2>3, VerdictType, FinishStep DEF Inv
    <3>2. Slots' BY <1>1, <2>3, <3>1, SlotsKept DEF Inv, LocalStep, Leased
    <3>3. QED BY <2>3, <3>1, <3>2 DEF Inv, PoolType
  <2>4. QED BY <2>1, <2>2, <2>3 DEF LeaseOwner
<1>3. PoolType' BY <1>2 DEF LeaseOwner, Inv, PoolType
<1>4. QED BY <1>2, <1>3

\* NextBestLease.
LEMMA LeaseBestInv ==
  ASSUME Inv, NEW r \in Request, LeaseBest(r)
  PROVE  LocalStep(r) /\ PoolType' /\ Slots'
<1> DEFINE free == {a \in Candidates(r) : HasSlot(a)}
<1>1. /\ req[r] \in RequestLocals /\ LocalsOK(req[r]) /\ req[r].pc \in {"select", "lease"}
      /\ req[r].calls < MaxCalls
  BY DEF Inv, AllLocals, LeaseBest, LocalsOK, MayTry
<1>2. LocalStep(r) /\ Slots' /\ inFlight' \in [Login -> Nat]
  <2>1. ASSUME NEW a \in free, Reserve(a), req' = [req EXCEPT ![r].pc = "check", ![r].acc = a]
        PROVE  LocalStep(r) /\ Slots' /\ inFlight' \in [Login -> Nat]
    <3>1. a \in Account /\ a \notin req[r].tried /\ HasSlot(a)
      BY DEF Candidates, Inv, PoolType
    <3>2. QED BY <1>1, <2>1, <3>1, LeasedStep
  <2>2. ASSUME Finish(r, Verdict(r, Candidates(r) # {})), inFlight' = inFlight
        PROVE  LocalStep(r) /\ Slots' /\ inFlight' \in [Login -> Nat]
    <3>1. LocalStep(r) /\ req'[r].pc = "done" BY <2>2, VerdictType, FinishStep DEF Inv
    <3>2. Slots' BY <1>1, <2>2, <3>1, SlotsKept DEF Inv, LocalStep, Leased
    <3>3. QED BY <2>2, <3>1, <3>2 DEF Inv, PoolType
  <2>3. QED BY <2>1, <2>2 DEF LeaseBest
<1>3. PoolType' BY <1>2 DEF LeaseBest, Inv, PoolType
<1>4. QED BY <1>2, <1>3

\* The loop is over.
LEMMA LoopEndsInv ==
  ASSUME Inv, NEW r \in Request, LoopEnds(r)
  PROVE  LocalStep(r) /\ PoolType' /\ Slots'
<1>1. LocalStep(r) /\ req'[r].pc = "done"
  BY VerdictType, FinishStep DEF Inv, LoopEnds
<1>2. req[r].pc = "select" /\ inFlight' = inFlight BY DEF LoopEnds
<1>3. Slots' BY <1>1, <1>2, SlotsKept DEF Inv, LocalStep, Leased
<1>4. PoolType' BY DEF LoopEnds, Inv, PoolType
<1>5. QED BY <1>1, <1>3, <1>4

\* The account of a lease joins the accounts tried; it was not called before.
LEMMA CalledGrows ==
  ASSUME Inv, NEW r \in Request, req[r].pc = "check"
  PROVE  /\ req[r].acc \in Account /\ req[r].acc \notin req[r].tried
         /\ Cardinality(req[r].called) \in Nat
         /\ Cardinality(req[r].called \cup {req[r].acc}) = Cardinality(req[r].called) + 1
<1>1. /\ req[r].acc \in Account /\ req[r].acc \notin req[r].tried
      /\ req[r].called \in SUBSET Account /\ req[r].acc \notin req[r].called
  BY DEF Inv, AllLocals, LocalsOK, RequestLocals
<1>2. IsFiniteSet(req[r].called) BY <1>1, FS_Subset, RoutingAssumption
<1>3. QED BY <1>1, <1>2, FS_AddElement, FS_CardinalityType

\* The quota check refuses the account.
LEMMA QuotaRefusedInv ==
  ASSUME Inv, NEW r \in Request, QuotaRefused(r)
  PROVE  LocalStep(r) /\ PoolType' /\ Slots'
<1> DEFINE x == [req[r] EXCEPT !.pc = "spent", !.tried = @ \cup {req[r].acc}]
<1>1. req[r] \in RequestLocals /\ LocalsOK(req[r]) /\ req[r].pc = "check"
  BY DEF Inv, AllLocals, QuotaRefused
<1>2. req[r].acc \in Account BY <1>1, CalledGrows
<1>3. x \in RequestLocals BY <1>1, <1>2 DEF RequestLocals, Pc
<1>4. /\ x.pc = "spent" /\ x.calls = req[r].calls /\ x.called = req[r].called
      /\ x.acc = req[r].acc /\ x.tried = req[r].tried \cup {req[r].acc}
  BY <1>1 DEF RequestLocals
<1>7. LocalsOK(x) BY <1>1, <1>2, <1>3, <1>4 DEF LocalsOK
<1>8. req' = [req EXCEPT ![r] = x] BY DEF QuotaRefused, Inv, AllLocals
<1>9. LocalStep(r) /\ req'[r] = x BY <1>7, <1>8, LocalStepFrom DEF Inv
<1>10. Slots' /\ inFlight' \in [Login -> Nat]
  BY <1>1, <1>2, <1>4, <1>9, SlotReleased DEF QuotaRefused, Inv, LocalStep, Leased
<1>11. PoolType' BY <1>10 DEF QuotaRefused, Inv, PoolType
<1>12. QED BY <1>9, <1>10, <1>11

\* A record of locals moved to the next round.
LEMMA NextRoundStep ==
  ASSUME Inv, NEW r \in Request, NEW session \in Workspace \cup {NoWorkspace},
         NextRound(r, session)
  PROVE  LocalStep(r) /\ req'[r].pc = "select"
<1> DEFINE x == [req[r] EXCEPT !.pc = "select", !.rounds = @ + 1, !.session = session,
                               !.acc = NoAccount, !.kind = "none"]
<1>1. req[r] \in RequestLocals /\ LocalsOK(req[r]) BY DEF Inv, AllLocals
<1>2. x \in RequestLocals
  <2> DEFINE y == [req[r] EXCEPT !.pc = "select", !.session = session]
             z == [y EXCEPT !.rounds = @ + 1, !.acc = NoAccount]
  <2>1. y \in RequestLocals BY <1>1 DEF RequestLocals, Pc
  <2>2. z \in RequestLocals
    <3> HIDE DEF y
    <3>1. y.rounds + 1 \in Nat BY <2>1 DEF RequestLocals
    <3>2. [y EXCEPT !.rounds = y.rounds + 1] \in RequestLocals
      BY <2>1, <3>1 DEF RequestLocals
    <3>3. [[y EXCEPT !.rounds = y.rounds + 1] EXCEPT !.acc = NoAccount] \in RequestLocals
      BY <3>2 DEF RequestLocals
    <3>4. z = [[y EXCEPT !.rounds = y.rounds + 1] EXCEPT !.acc = NoAccount]
      BY <2>1 DEF RequestLocals
    <3>5. QED BY <3>3, <3>4
  <2>3. [z EXCEPT !.kind = "none"] \in RequestLocals
    <3> HIDE DEF z
    <3> QED BY <2>2 DEF RequestLocals
  <2>4. x = [z EXCEPT !.kind = "none"] BY <1>1 DEF RequestLocals
  <2>5. QED BY <2>3, <2>4
<1>3. /\ x.pc = "select" /\ x.calls = req[r].calls /\ x.called = req[r].called
      /\ x.tried = req[r].tried /\ x.rounds = req[r].rounds + 1 /\ req[r].rounds \in Nat
  BY <1>1 DEF RequestLocals
<1>4. x.rounds # 0 BY <1>3
<1>5. LocalsOK(x) BY <1>1, <1>2, <1>3, <1>4 DEF LocalsOK
<1>6. req' = [req EXCEPT ![r] = x] BY DEF NextRound, Inv, AllLocals
<1>7. QED BY <1>3, <1>5, <1>6, LocalStepFrom DEF Inv

\* The account is marked exhausted.
LEMMA MarkSpentInv ==
  ASSUME Inv, NEW r \in Request, MarkSpent(r)
  PROVE  LocalStep(r) /\ PoolType' /\ Slots'
<1>1. req[r] \in RequestLocals /\ LocalsOK(req[r]) /\ req[r].pc = "spent"
  BY DEF Inv, AllLocals, MarkSpent
<1>2. \E session \in Workspace \cup {NoWorkspace} : NextRound(r, session)
  BY <1>1 DEF MarkSpent, RequestLocals
<1>3. LocalStep(r) /\ req'[r].pc = "select" BY <1>2, NextRoundStep
<1>4. inFlight' = inFlight BY DEF MarkSpent
<1>5. Slots' BY <1>1, <1>3, <1>4, SlotsKept DEF Inv, LocalStep, Leased
<1>6. PoolType' BY DEF MarkSpent, Inv, PoolType, Reason
<1>7. QED BY <1>3, <1>5, <1>6

\* Notion is called.
LEMMA AttemptInv ==
  ASSUME Inv, NEW r \in Request, Attempt(r)
  PROVE  LocalStep(r) /\ PoolType' /\ Slots'
<1> DEFINE kept == req[r].session # NoWorkspace /\ bound[r] = req[r].session
           owner == IF kept THEN req[r].session ELSE WorkspaceOf[req[r].acc]
           x == [req[r] EXCEPT !.pc = "infer", !.tried = @ \cup {req[r].acc},
                               !.called = @ \cup {req[r].acc}, !.calls = @ + 1,
                               !.session = owner, !.owner = owner]
<1>1. req[r] \in RequestLocals /\ LocalsOK(req[r]) /\ req[r].pc = "check"
  BY DEF Inv, AllLocals, Attempt
<1>2. /\ req[r].acc \in Account /\ req[r].acc \notin req[r].tried
      /\ Cardinality(req[r].called) \in Nat
      /\ Cardinality(req[r].called \cup {req[r].acc}) = Cardinality(req[r].called) + 1
  BY <1>1, CalledGrows
<1>3. owner \in Workspace \cup {NoWorkspace}
  BY <1>1, <1>2, RoutingAssumption DEF RequestLocals
<1>4. x \in RequestLocals
  <2>1. /\ req[r].calls + 1 \in Nat
        /\ req[r].tried \cup {req[r].acc} \in SUBSET Account
        /\ req[r].called \cup {req[r].acc} \in SUBSET Account
    BY <1>1, <1>2 DEF RequestLocals
  <2> DEFINE y == [req[r] EXCEPT !.pc = "infer", !.tried = @ \cup {req[r].acc}]
             z == [y EXCEPT !.called = @ \cup {req[r].acc}, !.calls = @ + 1]
  <2>2. y \in RequestLocals BY <1>1, <2>1 DEF RequestLocals, Pc
  <2>3. z \in RequestLocals
    <3>1. y.called = req[r].called /\ y.calls = req[r].calls BY <1>1 DEF RequestLocals
    <3> HIDE DEF y
    <3> QED BY <2>1, <2>2, <3>1 DEF RequestLocals
  <2>4. [z EXCEPT !.session = owner, !.owner = owner] \in RequestLocals
    <3> HIDE DEF z, owner
    <3> QED BY <1>3, <2>3 DEF RequestLocals
  <2>5. x = [z EXCEPT !.session = owner, !.owner = owner]
    <3> HIDE DEF owner
    <3> QED BY <1>1 DEF RequestLocals
  <2>6. QED BY <2>4, <2>5
<1>5. /\ x.pc = "infer" /\ x.calls = req[r].calls + 1 /\ x.acc = req[r].acc
      /\ x.tried = req[r].tried \cup {req[r].acc}
      /\ x.called = req[r].called \cup {req[r].acc}
  BY <1>1 DEF RequestLocals
<1>6. req[r].calls \in Nat /\ MaxCalls \in Nat BY <1>1, RoutingAssumption DEF RequestLocals
<1>7. x.called \subseteq x.tried /\ x.calls = Cardinality(x.called) /\ x.calls <= MaxCalls
  BY <1>1, <1>2, <1>5, <1>6 DEF LocalsOK
<1>8. LocalsOK(x) BY <1>1, <1>2, <1>4, <1>5, <1>7 DEF LocalsOK
<1>9. req' = [req EXCEPT ![r] = x] BY DEF Attempt, Inv, AllLocals
<1>10. LocalStep(r) /\ req'[r] = x BY <1>8, <1>9, LocalStepFrom DEF Inv
<1>11. inFlight' = inFlight BY DEF Attempt
<1>15. req'[r].pc = "infer" /\ req'[r].acc = req[r].acc BY <1>5, <1>10
<1> HIDE DEF x
<1>12. Slots' BY <1>1, <1>15, <1>10, <1>11, SlotsKept DEF Inv, LocalStep, Leased
<1>13. PoolType' BY <1>3 DEF Attempt, Inv, PoolType
<1>14. QED BY <1>10, <1>12, <1>13

\* The attempt succeeds.
LEMMA SucceedInv ==
  ASSUME Inv, NEW r \in Request, Succeed(r)
  PROVE  LocalStep(r) /\ PoolType' /\ Slots'
<1> DEFINE x == [req[r] EXCEPT !.pc = "answered"]
<1>1. /\ req[r] \in RequestLocals /\ LocalsOK(req[r]) /\ req[r].pc = "infer"
      /\ req[r].acc \in Account
  BY DEF Inv, AllLocals, Succeed, LocalsOK
<1>2. x \in RequestLocals BY <1>1 DEF RequestLocals, Pc
<1>3. /\ x.pc = "answered" /\ x.calls = req[r].calls /\ x.called = req[r].called
      /\ x.acc = req[r].acc /\ x.tried = req[r].tried
  BY <1>1 DEF RequestLocals
<1>4. LocalsOK(x) BY <1>1, <1>2, <1>3 DEF LocalsOK
<1>5. req' = [req EXCEPT ![r] = x] BY DEF Succeed, Inv, AllLocals
<1>6. LocalStep(r) /\ req'[r] = x BY <1>4, <1>5, LocalStepFrom DEF Inv
<1>7. Slots' /\ inFlight' \in [Login -> Nat]
  BY <1>1, <1>3, <1>6, SlotReleased DEF Succeed, Inv, LocalStep, Leased
<1>8. PoolType' BY <1>7 DEF Succeed, Inv, PoolType
<1>9. QED BY <1>6, <1>7, <1>8

\* The quarantine of a good account ends.
LEMMA ClearRestingInv ==
  ASSUME Inv, NEW r \in Request, ClearResting(r)
  PROVE  LocalStep(r) /\ PoolType' /\ Slots'
<1>1. LocalStep(r) /\ req'[r].pc = "done"
  BY FinishStep DEF Inv, ClearResting, Answers
<1>2. req[r].pc = "answered" /\ inFlight' = inFlight BY DEF ClearResting
<1>3. Slots' BY <1>1, <1>2, SlotsKept DEF Inv, LocalStep, Leased
<1>4. PoolType' BY DEF ClearResting, Inv, PoolType, Reason
<1>5. QED BY <1>1, <1>3, <1>4

\* A handler that holds a lease returns.
LEMMA FinishHolding ==
  ASSUME Inv, NEW r \in Request, req[r].pc \in Leased, Release(req[r].acc),
         Finish(r, "error")
  PROVE  LocalStep(r) /\ Slots' /\ inFlight' \in [Login -> Nat]
<1>1. req[r].acc \in Account BY DEF Inv, AllLocals, LocalsOK, Leased
<1>2. LocalStep(r) /\ req'[r].pc = "done" BY FinishStep DEF Inv, Answers
<1>3. QED BY <1>1, <1>2, SlotReleased DEF Inv, LocalStep, Leased

\* The attempt fails for good.
LEMMA FailForGoodInv ==
  ASSUME Inv, NEW r \in Request, FailForGood(r)
  PROVE  LocalStep(r) /\ PoolType' /\ Slots'
<1>1. LocalStep(r) /\ Slots' /\ inFlight' \in [Login -> Nat]
  BY FinishHolding DEF FailForGood, Leased
<1>2. PoolType' BY <1>1 DEF FailForGood, Inv, PoolType
<1>3. QED BY <1>1, <1>2

\* The handler panics.
LEMMA PanicInv ==
  ASSUME Inv, NEW r \in Request, Panic(r)
  PROVE  LocalStep(r) /\ PoolType' /\ Slots'
<1>1. LocalStep(r) /\ Slots' /\ inFlight' \in [Login -> Nat]
  BY FinishHolding DEF Panic
<1>2. PoolType' BY <1>1 DEF Panic, Inv, PoolType
<1>3. QED BY <1>1, <1>2

\* The attempt fails and another account may help.
LEMMA FailInv ==
  ASSUME Inv, NEW r \in Request, Fail(r)
  PROVE  LocalStep(r) /\ PoolType' /\ Slots'
<1>1. /\ req[r] \in RequestLocals /\ LocalsOK(req[r]) /\ req[r].pc = "infer"
      /\ req[r].acc \in Account
  BY DEF Inv, AllLocals, Fail, LocalsOK
<1>2. PICK kind \in Retryable :
        req' = [req EXCEPT ![r].pc = "failed", ![r].kind = kind,
                           ![r].session = NoWorkspace, ![r].owner = NoWorkspace]
  BY DEF Fail
<1> DEFINE x == [req[r] EXCEPT !.pc = "failed", !.kind = kind,
                               !.session = NoWorkspace, !.owner = NoWorkspace]
<1>3. x \in RequestLocals BY <1>1 DEF RequestLocals, Pc
<1>4. /\ x.pc = "failed" /\ x.calls = req[r].calls /\ x.called = req[r].called
      /\ x.acc = req[r].acc /\ x.tried = req[r].tried
  BY <1>1 DEF RequestLocals
<1>5. LocalsOK(x) BY <1>1, <1>3, <1>4 DEF LocalsOK
<1>6. req' = [req EXCEPT ![r] = x] BY <1>2 DEF Inv, AllLocals
<1>7. LocalStep(r) /\ req'[r] = x BY <1>5, <1>6, LocalStepFrom DEF Inv
<1>8. Slots' /\ inFlight' \in [Login -> Nat]
  BY <1>1, <1>4, <1>7, SlotReleased DEF Fail, Inv, LocalStep, Leased
<1>9. PoolType' BY <1>8 DEF Fail, Inv, PoolType
<1>10. QED BY <1>7, <1>8, <1>9

\* The failure is classified.
LEMMA RotateInv ==
  ASSUME Inv, NEW r \in Request, Rotate(r)
  PROVE  LocalStep(r) /\ PoolType' /\ Slots'
<1> DEFINE empties == req[r].empties + IF req[r].kind = "empty" THEN 1 ELSE 0
<1>1. req[r] \in RequestLocals /\ LocalsOK(req[r]) /\ req[r].pc = "failed"
  BY DEF Inv, AllLocals, Rotate
<1>2. LocalStep(r) /\ req'[r].pc \notin Leased
  <2>1. CASE Finish(r, "error") BY <2>1, FinishStep DEF Inv, Answers, Leased
  <2>2. CASE req' = [req EXCEPT ![r].pc = "select", ![r].rounds = @ + 1,
                       ![r].acc = NoAccount, ![r].kind = "none", ![r].empties = empties,
                       ![r].failed = @ \/ req[r].kind # "skip"]
    <3> DEFINE x == [req[r] EXCEPT !.pc = "select", !.rounds = @ + 1,
                       !.acc = NoAccount, !.kind = "none", !.empties = empties,
                       !.failed = @ \/ req[r].kind # "skip"]
    <3>1. empties \in Nat BY <1>1 DEF RequestLocals
    <3>2. x \in RequestLocals
      <4>1. /\ req[r].rounds + 1 \in Nat
            /\ (req[r].failed \/ req[r].kind # "skip") \in BOOLEAN
        BY <1>1 DEF RequestLocals
      <4> DEFINE again == req[r].failed \/ req[r].kind # "skip"
                 y == [req[r] EXCEPT !.pc = "select", !.rounds = @ + 1]
                 z == [y EXCEPT !.acc = NoAccount, !.kind = "none"]
      <4>2. y \in RequestLocals BY <1>1, <4>1 DEF RequestLocals, Pc
      <4>3. z \in RequestLocals
        <5> HIDE DEF y
        <5> QED BY <4>2 DEF RequestLocals
      <4>4. [z EXCEPT !.empties = empties, !.failed = again] \in RequestLocals
        <5> HIDE DEF z, again, empties
        <5> QED BY <3>1, <4>1, <4>3 DEF RequestLocals, again
      <4>5. x = [z EXCEPT !.empties = empties, !.failed = again]
        <5> HIDE DEF empties
        <5> QED BY <1>1 DEF RequestLocals
      <4>6. QED BY <4>4, <4>5
    <3>3. /\ x.pc = "select" /\ x.calls = req[r].calls /\ x.called = req[r].called
          /\ x.tried = req[r].tried /\ x.rounds = req[r].rounds + 1 /\ req[r].rounds \in Nat
      BY <1>1 DEF RequestLocals
    <3>4. x.rounds # 0 BY <3>3
    <3>5. LocalsOK(x) BY <1>1, <3>2, <3>3, <3>4 DEF LocalsOK
    <3>6. req' = [req EXCEPT ![r] = x] BY <2>2 DEF Inv, AllLocals
    <3>7. LocalStep(r) /\ req'[r] = x BY <3>5, <3>6, LocalStepFrom DEF Inv
    <3>8. req'[r].pc = "select" BY <3>3, <3>7
    <3>9. QED BY <3>7, <3>8 DEF Leased
  <2>3. QED BY <2>1, <2>2 DEF Rotate
<1>3. inFlight' = inFlight BY DEF Rotate
<1>4. Slots' BY <1>1, <1>2, <1>3, SlotsKept DEF Inv, LocalStep, Leased
<1>5. PoolType' BY DEF Rotate, Inv, PoolType, Reason
<1>6. QED BY <1>2, <1>4, <1>5

\* The siblings of a rejected login are collected ...
LEMMA BlameInv ==
  ASSUME Inv, NEW r \in Request, Blame(r)
  PROVE  LocalStep(r) /\ PoolType' /\ Slots'
<1> DEFINE blamed == IF req[r].acc \in pool THEN Affected(req[r].acc) ELSE {}
           x == [req[r] EXCEPT !.pc = "blame", !.failed = TRUE, !.blamed = blamed]
<1>1. req[r] \in RequestLocals /\ LocalsOK(req[r]) /\ req[r].pc = "failed"
  BY DEF Inv, AllLocals, Blame
<1>2. blamed \in SUBSET Account BY DEF Affected, Inv, PoolType
<1>3. x \in RequestLocals BY <1>1, <1>2 DEF RequestLocals, Pc
<1>4. /\ x.pc = "blame" /\ x.calls = req[r].calls /\ x.called = req[r].called
      /\ x.tried = req[r].tried
  BY <1>1 DEF RequestLocals
<1>5. LocalsOK(x) BY <1>1, <1>3, <1>4 DEF LocalsOK
<1>6. req' = [req EXCEPT ![r] = x] BY DEF Blame, Inv, AllLocals
<1>7. LocalStep(r) /\ req'[r] = x BY <1>5, <1>6, LocalStepFrom DEF Inv
<1>8. inFlight' = inFlight /\ req'[r].pc = "blame" BY <1>4, <1>7 DEF Blame
<1> HIDE DEF x
<1>9. Slots' BY <1>1, <1>7, <1>8, SlotsKept DEF Inv, LocalStep, Leased
<1>10. PoolType' BY DEF Blame, Inv, PoolType
<1>11. QED BY <1>7, <1>9, <1>10

\* ... and marked.
LEMMA MarkInvalidInv ==
  ASSUME Inv, NEW r \in Request, MarkInvalid(r)
  PROVE  LocalStep(r) /\ PoolType' /\ Slots'
<1>1. req[r] \in RequestLocals /\ LocalsOK(req[r]) /\ req[r].pc = "blame"
  BY DEF Inv, AllLocals, MarkInvalid
<1>2. PICK a \in req[r].blamed :
        /\ health' = [health EXCEPT ![a] = (@ \ {"resting"}) \cup {"invalid"}]
        /\ req' = [req EXCEPT ![r].blamed = @ \ {a}]
  BY DEF MarkInvalid
<1> DEFINE x == [req[r] EXCEPT !.blamed = @ \ {a}]
<1>3. x \in RequestLocals BY <1>1 DEF RequestLocals
<1>4. /\ x.pc = "blame" /\ x.calls = req[r].calls /\ x.called = req[r].called
      /\ x.tried = req[r].tried
  BY <1>1 DEF RequestLocals
<1>5. LocalsOK(x) BY <1>1, <1>3, <1>4 DEF LocalsOK
<1>6. req' = [req EXCEPT ![r] = x] BY <1>2 DEF Inv, AllLocals
<1>7. LocalStep(r) /\ req'[r] = x BY <1>5, <1>6, LocalStepFrom DEF Inv
<1>8. inFlight' = inFlight BY DEF MarkInvalid
<1>9. Slots' BY <1>1, <1>4, <1>7, <1>8, SlotsKept DEF Inv, LocalStep, Leased
<1>10. health' \in [Account -> SUBSET Reason] BY <1>2 DEF Inv, PoolType, Reason
<1>11. PoolType' BY <1>10 DEF MarkInvalid, Inv, PoolType
<1>12. QED BY <1>7, <1>9, <1>11

\* The marking is over.
LEMMA BlamedInv ==
  ASSUME Inv, NEW r \in Request, Blamed(r)
  PROVE  LocalStep(r) /\ PoolType' /\ Slots'
<1>1. LocalStep(r) /\ req'[r].pc = "select" BY NextRoundStep DEF Blamed
<1>2. req[r].pc = "blame" /\ inFlight' = inFlight BY DEF Blamed
<1>3. Slots' BY <1>1, <1>2, SlotsKept DEF Inv, LocalStep, Leased
<1>4. PoolType' BY DEF Blamed, Inv, PoolType
<1>5. QED BY <1>1, <1>3, <1>4

-----------------------------------------------------------------------------
(* Steps of the rest of the program.                                       *)

\* The pool changes under the requests.
LEMMA PoolStepInv ==
  ASSUME Inv, PoolStep
  PROVE  req' = req /\ inFlight' = inFlight /\ PoolType'
<1>1. ASSUME NEW a \in Account, QuotaAnswer(a)
      PROVE  req' = req /\ inFlight' = inFlight /\ PoolType'
  <2>1. health' \in [Account -> SUBSET Reason]
    BY <1>1 DEF QuotaAnswer, Inv, PoolType, Reason
  <2>2. QED BY <1>1, <2>1 DEF QuotaAnswer, Event, Inv, PoolType
<1>2. ASSUME NEW a \in Account, Toggle(a)
      PROVE  req' = req /\ inFlight' = inFlight /\ PoolType'
  <2>1. health' \in [Account -> SUBSET Reason]
    BY <1>2 DEF Toggle, Inv, PoolType, Reason
  <2>2. QED BY <1>2, <2>1 DEF Toggle, Event, Inv, PoolType
<1>3. ASSUME NEW a \in Account, Rested(a)
      PROVE  req' = req /\ inFlight' = inFlight /\ PoolType'
  <2>1. health' \in [Account -> SUBSET Reason]
    BY <1>3 DEF Rested, Inv, PoolType, Reason
  <2>2. QED BY <1>3, <2>1 DEF Rested, Inv, PoolType
<1>4. ASSUME NEW a \in Account, Remove(a)
      PROVE  req' = req /\ inFlight' = inFlight /\ PoolType'
  BY <1>4, RoutingAssumption DEF Remove, Event, Inv, PoolType
<1>5. ASSUME NEW a \in Account, AddAccount(a)
      PROVE  req' = req /\ inFlight' = inFlight /\ PoolType'
  BY <1>5, RoutingAssumption DEF AddAccount, Event, Inv, PoolType
<1>6. ASSUME NEW w \in Workspace, Purge(w)
      PROVE  req' = req /\ inFlight' = inFlight /\ PoolType'
  BY <1>6 DEF Purge, Inv, PoolType
<1>7. QED BY <1>1, <1>2, <1>3, <1>4, <1>5, <1>6 DEF PoolStep

-----------------------------------------------------------------------------
(* The invariant.                                                          *)

LEMMA InitInv == Init => Inv
<1> SUFFICES ASSUME Init PROVE Inv OBVIOUS
<1>1. Cardinality({}) = 0 BY FS_EmptySet
<1>2. Idle \in RequestLocals BY DEF Idle, RequestLocals, Pc, Retryable, Answers
<1>3. LocalsOK(Idle)
  BY <1>1, <1>2, RoutingAssumption DEF LocalsOK, Idle
<1>4. AllLocals BY <1>2, <1>3 DEF Init, AllLocals
<1>5. PoolType BY RoutingAssumption DEF Init, PoolType
<1>6. ASSUME NEW l \in Login PROVE Holders(l) = {}
  BY DEF Init, Holders, Idle, Leased
<1>7. Slots
  <2>1. \A l \in Login : inFlight[l] = 0 BY DEF Init
  <2>2. 0 <= MaxSlots BY RoutingAssumption
  <2>3. SlotsExact BY <1>1, <1>6, <2>1 DEF SlotsExact
  <2>4. QED BY <2>1, <2>2, <2>3 DEF Slots
<1>8. QED BY <1>4, <1>5, <1>7 DEF Inv

LEMMA NextInv == Inv /\ [Next]_vars => Inv'
<1> SUFFICES ASSUME Inv, [Next]_vars PROVE Inv' OBVIOUS
<1>1. ASSUME NEW r \in Request, HandlerStep(r) PROVE Inv'
  <2>1. LocalStep(r) /\ PoolType' /\ Slots'
    BY <1>1, BeginInv, FindOwnerInv, LeaseOwnerInv, LeaseBestInv, LoopEndsInv,
       QuotaRefusedInv, MarkSpentInv, AttemptInv, SucceedInv, ClearRestingInv,
       FailForGoodInv, FailInv, RotateInv, BlameInv, MarkInvalidInv, BlamedInv,
       PanicInv
       DEF HandlerStep
  <2>2. AllLocals' BY <2>1, LocalsFollow DEF Inv
  <2>3. QED BY <2>1, <2>2 DEF Inv
<1>2. ASSUME req' = req, inFlight' = inFlight, PoolType' PROVE Inv'
  <2>1. AllLocals' BY <1>2 DEF Inv, AllLocals
  <2>2. \A l \in Login : Holders(l)' = Holders(l) BY <1>2 DEF Holders
  <2>3. Slots' BY <1>2, <2>2 DEF Inv, Slots, SlotsExact
  <2>4. QED BY <1>2, <2>1, <2>3 DEF Inv
<1>3. CASE PoolStep BY <1>2, <1>3, PoolStepInv
<1>4. CASE UNCHANGED vars BY <1>2, <1>4 DEF vars, Inv, PoolType
<1>5. QED BY <1>1, <1>3, <1>4 DEF Next

\* The inductive invariant holds in every reachable state.
THEOREM Invariance == Spec => []Inv
BY InitInv, NextInv, PTL DEF Spec

\* The ghost variable names requests.
LEMMA LostType == Spec => [](lost \in SUBSET Request)
<1>1. Init => lost \in SUBSET Request BY DEF Init
<1>2. lost \in SUBSET Request /\ [Next]_vars => (lost \in SUBSET Request)'
  BY DEF Next, Observe, vars
<1>3. QED BY <1>1, <1>2, PTL DEF Spec

\* Every variable keeps its type and no request exceeds its limit of calls.
THEOREM TypeCorrect == Spec => []TypeOK
<1>1. Inv /\ lost \in SUBSET Request => TypeOK
  BY DEF Inv, PoolType, AllLocals, LocalsOK, TypeOK
<1>2. QED BY <1>1, Invariance, LostType, PTL

\* The slots counted for a login are those of the requests that call it: none
\* leaks, none is given back twice.
THEOREM SlotsAreExact == Spec => []SlotsExact
<1>1. Inv => SlotsExact BY DEF Inv, Slots
<1>2. QED BY <1>1, Invariance, PTL

\* No login is called by more requests at a time than the limit allows.
THEOREM SlotsAreBounded == Spec => []SlotsBounded
<1>1. Inv => SlotsBounded BY DEF Inv, Slots, SlotsExact, SlotsBounded
<1>2. QED BY <1>1, Invariance, PTL

\* No request calls Notion twice with one account.
THEOREM AccountsAreFresh == Spec => []FreshAccounts
<1>1. Inv => FreshAccounts BY DEF Inv, AllLocals, LocalsOK, FreshAccounts
<1>2. QED BY <1>1, Invariance, PTL

-----------------------------------------------------------------------------
(* The siblings of a login that answered 401.                              *)

\* The marking of the siblings, half done: whoever is marked, its siblings are
\* marked or in the list of a request that is marking.  Accounts imported later
\* are not looked at.
Marking ==
  /\ fresh \cap InitialPool = {}
  /\ \A r \in Request : req[r].pc = "blame" =>
       \A a \in req[r].blamed, b \in pool \cap InitialPool :
         SameLogin(a, b) => b \in req[r].blamed \/ "invalid" \in health[b]
  /\ \A a, b \in pool \cap InitialPool :
       SameLogin(a, b) /\ "invalid" \in health[a] =>
         \/ "invalid" \in health[b]
         \/ \E r \in Request : req[r].pc = "blame" /\ b \in req[r].blamed


\* A step that leaves the lists of the marking requests alone and takes "invalid"
\* from no account and gives it to none.
LEMMA MarkingKept ==
  ASSUME Marking, PoolType,
         \A r \in Request : (req'[r].pc = "blame") = (req[r].pc = "blame"),
         \A r \in Request : req[r].pc = "blame" => req'[r].blamed = req[r].blamed,
         \A a \in Account : ("invalid" \in health'[a]) = ("invalid" \in health[a]),
         fresh' \subseteq fresh,
         pool' \cap InitialPool \subseteq pool \cap InitialPool
  PROVE  Marking'
<1>1. fresh' \cap InitialPool = {} BY DEF Marking
<1>2. ASSUME NEW r \in Request, req'[r].pc = "blame",
             NEW a \in req'[r].blamed, NEW b \in pool' \cap InitialPool, SameLogin(a, b)
      PROVE  b \in req'[r].blamed \/ "invalid" \in health'[b]
  <2>1. req[r].pc = "blame" /\ a \in req[r].blamed /\ b \in pool \cap InitialPool BY <1>2
  <2>2. b \in Account BY <2>1 DEF PoolType
  <2>3. QED BY <1>2, <2>1, <2>2 DEF Marking
<1>3. ASSUME NEW a \in pool' \cap InitialPool, NEW b \in pool' \cap InitialPool,
             SameLogin(a, b), "invalid" \in health'[a]
      PROVE  \/ "invalid" \in health'[b]
             \/ \E r \in Request : req'[r].pc = "blame" /\ b \in req'[r].blamed
  <2>1. a \in Account /\ b \in Account /\ a \in pool \cap InitialPool /\ b \in pool \cap InitialPool
    BY DEF PoolType
  <2>2. "invalid" \in health[a] BY <1>3, <2>1
  <2>3. \/ "invalid" \in health[b]
        \/ \E r \in Request : req[r].pc = "blame" /\ b \in req[r].blamed
    BY <1>3, <2>1, <2>2 DEF Marking
  <2>4. QED BY <2>1, <2>3
<1>4. QED BY <1>1, <1>2, <1>3 DEF Marking, SameLogin

\* The steps of a handler that mark nobody: no list of siblings is touched.
QuietStep(r) ==
  \/ Begin(r) \/ FindOwner(r) \/ LeaseOwner(r) \/ LeaseBest(r) \/ LoopEnds(r)
  \/ QuotaRefused(r) \/ MarkSpent(r) \/ Attempt(r)
  \/ Succeed(r) \/ ClearResting(r) \/ FailForGood(r) \/ Fail(r) \/ Rotate(r)
  \/ Panic(r)

\* Where such a step starts and ends, and what it does to the pool.
LEMMA QuietLocals ==
  ASSUME Inv, NEW r \in Request, QuietStep(r)
  PROVE  req[r].pc # "blame" /\ req'[r].pc # "blame"
<1> USE DEF Inv, AllLocals, RequestLocals
<1>1. CASE Begin(r) BY <1>1 DEF Begin
<1>2. CASE FindOwner(r) BY <1>2 DEF FindOwner
<1>3. CASE LeaseOwner(r) BY <1>3 DEF LeaseOwner, Finish, Idle
<1>4. CASE LeaseBest(r)
  <2>1. req[r].pc \in {"select", "lease"} BY <1>4 DEF LeaseBest
  <2>2. ASSUME NEW a, req' = [req EXCEPT ![r].pc = "check", ![r].acc = a]
        PROVE  req'[r].pc = "check"
    BY <2>2
  <2>3. ASSUME NEW answer, Finish(r, answer) PROVE req'[r].pc = "done"
    BY <2>3 DEF Finish, Idle
  <2>4. QED BY <1>4, <2>1, <2>2, <2>3 DEF LeaseBest
<1>5. CASE LoopEnds(r) BY <1>5 DEF LoopEnds, Finish, Idle
<1>6. CASE QuotaRefused(r) BY <1>6 DEF QuotaRefused
<1>7. CASE MarkSpent(r) BY <1>7 DEF MarkSpent, NextRound
<1>8. CASE Attempt(r) BY <1>8 DEF Attempt
<1>9. CASE Succeed(r) BY <1>9 DEF Succeed
<1>10. CASE ClearResting(r) BY <1>10 DEF ClearResting, Finish, Idle
<1>11. CASE FailForGood(r) BY <1>11 DEF FailForGood, Finish, Idle
<1>12. CASE Fail(r) BY <1>12 DEF Fail
<1>13. CASE Rotate(r)
  <2>1. ASSUME Finish(r, "error") PROVE req'[r].pc = "done" BY <2>1 DEF Finish, Idle
  <2> DEFINE empties == req[r].empties + IF req[r].kind = "empty" THEN 1 ELSE 0
             Again == req' = [req EXCEPT ![r].pc = "select", ![r].rounds = @ + 1,
                         ![r].acc = NoAccount, ![r].kind = "none", ![r].empties = empties,
                         ![r].failed = @ \/ req[r].kind # "skip"]
  <2>2. ASSUME Again PROVE req'[r].pc = "select" BY <2>2
  <2>3. req[r].pc = "failed" /\ (Finish(r, "error") \/ Again) BY <1>13 DEF Rotate
  <2>4. QED
    <3> HIDE DEF Again
    <3> QED BY <2>1, <2>2, <2>3
<1>14. CASE Panic(r) BY <1>14 DEF Panic, Finish, Idle, Leased
<1>15. QED BY <1>1, <1>2, <1>3, <1>4, <1>5, <1>6, <1>7, <1>8, <1>9, <1>10, <1>11,
              <1>12, <1>13, <1>14 DEF QuietStep

LEMMA QuietPool ==
  ASSUME Inv, NEW r \in Request, QuietStep(r)
  PROVE  /\ pool' = pool /\ fresh' = fresh
         /\ \A a \in Account : ("invalid" \in health'[a]) = ("invalid" \in health[a])
<1>1. CASE MarkSpent(r) BY <1>1 DEF MarkSpent, Inv, PoolType
<1>2. CASE ClearResting(r) BY <1>2 DEF ClearResting, Inv, PoolType
<1>3. CASE Rotate(r) BY <1>3 DEF Rotate, Inv, PoolType
<1>4. CASE ~(MarkSpent(r) \/ ClearResting(r) \/ Rotate(r))
  <2>1. pool' = pool /\ fresh' = fresh /\ health' = health
    BY <1>4 DEF QuietStep, Begin, FindOwner, LeaseOwner, LeaseBest, LoopEnds,
         QuotaRefused, Attempt, Succeed, FailForGood, Fail, Panic
  <2>2. QED BY <2>1
<1>5. QED BY <1>1, <1>2, <1>3, <1>4

LEMMA HandlerLocal ==
  ASSUME Inv, NEW r \in Request, HandlerStep(r)
  PROVE  LocalStep(r)
BY BeginInv, FindOwnerInv, LeaseOwnerInv, LeaseBestInv, LoopEndsInv,
   QuotaRefusedInv, MarkSpentInv, AttemptInv, SucceedInv, ClearRestingInv,
   FailForGoodInv, FailInv, RotateInv, BlameInv, MarkInvalidInv, BlamedInv, PanicInv
   DEF HandlerStep

\* A request starts to mark the siblings: those of a sibling are siblings.
LEMMA BlameMarking ==
  ASSUME Inv, Marking, NEW r \in Request, Blame(r)
  PROVE  Marking'
<1> DEFINE acc == req[r].acc
<1>1. req[r] \in RequestLocals BY DEF Inv, AllLocals
<1>2. /\ req[r].pc = "failed" /\ req'[r].pc = "blame"
      /\ req'[r].blamed = IF acc \in pool THEN Affected(acc) ELSE {}
      /\ \A q \in Request \ {r} : req'[q] = req[q]
      /\ pool' = pool /\ fresh' = fresh /\ health' = health
  BY <1>1 DEF Blame, Inv, AllLocals, RequestLocals
<1>3. ASSUME NEW q \in Request, req'[q].pc = "blame",
             NEW a \in req'[q].blamed, NEW b \in pool \cap InitialPool, SameLogin(a, b)
      PROVE  b \in req'[q].blamed \/ "invalid" \in health[b]
  <2>1. CASE q = r
    <3>1. acc \in pool /\ a \in Affected(acc) BY <1>2, <1>3, <2>1
    <3>2. SameLogin(acc, a) BY <3>1 DEF Affected, SameLogin
    <3>3. SameLogin(acc, b) BY <1>3, <3>2 DEF SameLogin
    <3>4. QED BY <1>2, <2>1, <3>1, <3>3 DEF Affected
  <2>2. CASE q # r BY <1>2, <1>3, <2>2 DEF Marking
  <2>3. QED BY <2>1, <2>2
<1>4. ASSUME NEW a \in pool \cap InitialPool, NEW b \in pool \cap InitialPool,
             SameLogin(a, b), "invalid" \in health[a]
      PROVE  \/ "invalid" \in health[b]
             \/ \E q \in Request : req'[q].pc = "blame" /\ b \in req'[q].blamed
  <2>1. CASE "invalid" \in health[b] BY <2>1
  <2>2. CASE "invalid" \notin health[b]
    <3>1. PICK q \in Request : req[q].pc = "blame" /\ b \in req[q].blamed
      BY <1>4, <2>2 DEF Marking
    <3>2. q # r BY <1>2, <3>1
    <3>3. QED BY <1>2, <3>1, <3>2
  <2>3. QED BY <2>1, <2>2
<1>5. QED BY <1>2, <1>3, <1>4 DEF Marking, SameLogin

\* One of them is marked.
LEMMA MarkInvalidMarking ==
  ASSUME Inv, Marking, NEW r \in Request, MarkInvalid(r)
  PROVE  Marking'
<1>1. PICK x \in req[r].blamed :
        /\ health' = [health EXCEPT ![x] = (@ \ {"resting"}) \cup {"invalid"}]
        /\ req' = [req EXCEPT ![r].blamed = @ \ {x}]
  BY DEF MarkInvalid
<1>2. x \in Account /\ req[r] \in RequestLocals
  BY DEF Inv, AllLocals, RequestLocals
<1>3. /\ req[r].pc = "blame" /\ req'[r].pc = "blame"
      /\ req'[r].blamed = req[r].blamed \ {x}
      /\ \A q \in Request \ {r} : req'[q] = req[q]
      /\ pool' = pool /\ fresh' = fresh
  BY <1>1, <1>2 DEF MarkInvalid, Inv, AllLocals, RequestLocals
<1>4. /\ "invalid" \in health'[x]
      /\ \A a \in Account : "invalid" \in health[a] => "invalid" \in health'[a]
      /\ \A a \in Account \ {x} : "invalid" \in health'[a] => "invalid" \in health[a]
  BY <1>1, <1>2 DEF Inv, PoolType
<1>5. \A a \in pool : a \in Account BY DEF Inv, PoolType
<1>6. ASSUME NEW q \in Request, req'[q].pc = "blame",
             NEW a \in req'[q].blamed, NEW b \in pool \cap InitialPool, SameLogin(a, b)
      PROVE  b \in req'[q].blamed \/ "invalid" \in health'[b]
  <2>1. req[q].pc = "blame" /\ a \in req[q].blamed BY <1>3, <1>6
  <2>2. b \in req[q].blamed \/ "invalid" \in health[b] BY <1>6, <2>1 DEF Marking
  <2>3. CASE b = x BY <1>4, <2>3
  <2>4. CASE b # x BY <1>3, <1>4, <1>5, <2>2, <2>4
  <2>5. QED BY <2>3, <2>4
<1>7. ASSUME NEW a \in pool \cap InitialPool, NEW b \in pool \cap InitialPool,
             SameLogin(a, b), "invalid" \in health'[a]
      PROVE  \/ "invalid" \in health'[b]
             \/ \E q \in Request : req'[q].pc = "blame" /\ b \in req'[q].blamed
  <2>1. CASE b = x BY <1>4, <2>1
  <2>2. CASE a = x /\ b # x
    <3>1. b \in req[r].blamed \/ "invalid" \in health[b]
      BY <1>3, <1>7, <2>2 DEF Marking
    <3>2. QED BY <1>3, <1>4, <1>5, <2>2, <3>1
  <2>3. CASE a # x /\ b # x
    <3>1. "invalid" \in health[a] BY <1>4, <1>5, <1>7, <2>3
    <3>2. \/ "invalid" \in health[b]
          \/ \E q \in Request : req[q].pc = "blame" /\ b \in req[q].blamed
      BY <1>7, <3>1 DEF Marking
    <3>3. QED BY <1>3, <1>4, <1>5, <2>3, <3>2
  <2>4. QED BY <2>1, <2>2, <2>3
<1>8. QED BY <1>3, <1>6, <1>7 DEF Marking, SameLogin

\* The list is empty.
LEMMA BlamedMarking ==
  ASSUME Inv, Marking, NEW r \in Request, Blamed(r)
  PROVE  Marking'
<1>1. /\ req[r].blamed = {} /\ req'[r].pc = "select"
      /\ \A q \in Request \ {r} : req'[q] = req[q]
      /\ pool' = pool /\ fresh' = fresh /\ health' = health
  BY DEF Blamed, NextRound, Inv, AllLocals, RequestLocals
<1>2. ASSUME NEW q \in Request, req'[q].pc = "blame",
             NEW a \in req'[q].blamed, NEW b \in pool \cap InitialPool, SameLogin(a, b)
      PROVE  b \in req'[q].blamed \/ "invalid" \in health[b]
  BY <1>1, <1>2 DEF Marking
<1>3. ASSUME NEW a \in pool \cap InitialPool, NEW b \in pool \cap InitialPool,
             SameLogin(a, b), "invalid" \in health[a]
      PROVE  \/ "invalid" \in health[b]
             \/ \E q \in Request : req'[q].pc = "blame" /\ b \in req'[q].blamed
  BY <1>1, <1>3 DEF Marking
<1>4. QED BY <1>1, <1>2, <1>3 DEF Marking, SameLogin

\* The rest of the program neither sets nor clears "invalid", and an account put
\* into the pool was not there at the start.
LEMMA PoolStepMarking ==
  ASSUME Inv, Marking, PoolStep
  PROVE  Marking'
<1>1. req' = req BY PoolStepInv
<1> DEFINE Same == \A b \in Account : ("invalid" \in health'[b]) = ("invalid" \in health[b])
           Fewer == fresh' \subseteq fresh /\ pool' \cap InitialPool \subseteq pool \cap InitialPool
<1>2. Same /\ Fewer
  <2>1. ASSUME NEW a \in Account, QuotaAnswer(a) PROVE Same /\ Fewer
    BY <2>1 DEF QuotaAnswer, Inv, PoolType
  <2>2. ASSUME NEW a \in Account, Toggle(a) PROVE Same /\ Fewer
    BY <2>2 DEF Toggle, Inv, PoolType
  <2>3. ASSUME NEW a \in Account, Rested(a) PROVE Same /\ Fewer
    BY <2>3 DEF Rested, Inv, PoolType
  <2>4. ASSUME NEW a \in Account, Remove(a) PROVE Same /\ Fewer
    BY <2>4 DEF Remove
  <2>5. ASSUME NEW a \in Account, AddAccount(a) PROVE Same /\ Fewer
    BY <2>5 DEF AddAccount, Marking
  <2>6. ASSUME NEW w \in Workspace, Purge(w) PROVE Same /\ Fewer
    BY <2>6 DEF Purge
  <2>7. QED BY <2>1, <2>2, <2>3, <2>4, <2>5, <2>6 DEF PoolStep
<1>3. QED BY <1>1, <1>2, MarkingKept DEF Inv

LEMMA MarkingInv == Inv /\ Marking /\ [Next]_vars => Marking'
<1> SUFFICES ASSUME Inv, Marking, [Next]_vars PROVE Marking' OBVIOUS
<1>1. ASSUME NEW r \in Request, QuietStep(r) PROVE Marking'
  <2>1. HandlerStep(r) BY <1>1 DEF QuietStep, HandlerStep
  <2>2. \A q \in Request \ {r} : req'[q] = req[q]
    BY <2>1, HandlerLocal DEF LocalStep
  <2>3. req[r].pc # "blame" /\ req'[r].pc # "blame" BY <1>1, QuietLocals
  <2>4. QED BY <1>1, <2>2, <2>3, QuietPool, MarkingKept DEF Inv
<1>2. ASSUME NEW r \in Request, HandlerStep(r) PROVE Marking'
  BY <1>1, <1>2, BlameMarking, MarkInvalidMarking, BlamedMarking
     DEF HandlerStep, QuietStep
<1>3. CASE PoolStep BY <1>3, PoolStepMarking
<1>4. CASE UNCHANGED vars BY <1>4 DEF vars, Marking, SameLogin
<1>5. QED BY <1>2, <1>3, <1>4 DEF Next

\* A login that answered 401 is invalid in every workspace that shares it, as soon
\* as no request is half way through its list.
THEOREM SiblingsAreInvalid == Spec => []SiblingsInvalid
<1>1. Init => Marking
  <2>1. ASSUME Init PROVE \A a \in InitialPool : health[a] = {} BY <2>1, RoutingAssumption DEF Init
  <2>2. ASSUME Init PROVE \A r \in Request : req[r].pc = "idle" BY <2>2 DEF Init, Idle
  <2>3. ASSUME Init PROVE fresh \cap InitialPool = {} BY <2>3 DEF Init
  <2>4. QED BY <2>1, <2>2, <2>3 DEF Marking
<1>2. Marking => SiblingsInvalid BY DEF Marking, SiblingsInvalid
<1>3. QED BY <1>1, <1>2, MarkingInv, Invariance, PTL DEF Spec

-----------------------------------------------------------------------------
(* A thread whose account is busy is waited for.                           *)

\* Of a workspace the pool has one account.
OnePerWorkspace ==
  \A a, b \in pool : WorkspaceOf[a] = WorkspaceOf[b] => a = b

\* A continued conversation whose account has been usable all along: the request
\* is in its first round and holds that account or none.
Keeps(r) ==
  /\ req[r].pc \in {"select", "owner", "check", "infer", "answered", "done"}
  /\ bound[r] = req[r].start
  /\ req[r].pc # "done" => req[r].session = req[r].start
  /\ req[r].pc = "select" => req[r].rounds = 0
  /\ req[r].pc \in {"select", "done"} => req[r].acc = NoAccount
  /\ req[r].pc \in {"owner", "check", "infer", "answered"}
       => WorkspaceOf[req[r].acc] = req[r].start
  /\ req[r].pc = "owner" => req[r].acc \in pool
  /\ req[r].start \notin purging
  /\ \E a \in pool : health[a] = {} /\ WorkspaceOf[a] = req[r].start

Watched(r) ==
  req[r].pc # "idle" /\ req[r].start # NoWorkspace /\ r \notin lost

Keeping ==
  /\ OnePerWorkspace
  /\ \A r \in Request : req[r].pc = "idle" => req[r] = Idle
  /\ \A r \in Request : Watched(r) => Keeps(r)

\* What Observe says of a request that still counts after a step.
LEMMA WatchedNow ==
  ASSUME Observe, NEW q \in Request, Watched(q)'
  PROVE  /\ q \notin lost
         /\ req'[q].pc \notin {"idle", "spent", "failed"} /\ req'[q].answer # "error"
         /\ req'[q].start \notin purging'
         /\ \E a \in pool' : health'[a] = {} /\ WorkspaceOf[a] = req'[q].start
BY DEF Observe, Watched

\* It counted before the step.
LEMMA WatchedBefore ==
  ASSUME Keeping, Observe, NEW q \in Request, Watched(q)',
         req[q].pc # "idle", req'[q].start = req[q].start
  PROVE  Keeps(q)
BY WatchedNow DEF Keeping, Watched

\* A request whose thread and account a step leaves alone.
LEMMA OtherKeeps ==
  ASSUME Keeping, Observe, NEW q \in Request, Watched(q)',
         req'[q] = req[q],
         Keeps(q) => bound'[q] = bound[q],
         Keeps(q) /\ req[q].start \notin purging' /\ req[q].pc = "owner"
           => req[q].acc \in pool'
  PROVE  Keeps(q)'
<1>1. req'[q].pc # "idle" /\ req'[q].start \notin purging' BY WatchedNow
<1>2. Keeps(q) BY <1>1, WatchedBefore
<1>3. \E a \in pool' : health'[a] = {} /\ WorkspaceOf[a] = req'[q].start BY WatchedNow
<1>4. QED BY <1>1, <1>2, <1>3 DEF Keeps

\* A step of a handler disturbs no other request, and the pool keeps its accounts.
LEMMA HandlerOthers ==
  ASSUME Inv, NEW r \in Request, HandlerStep(r)
  PROVE  /\ pool' = pool /\ purging' = purging
         /\ \A q \in Request \ {r} : req'[q] = req[q] /\ bound'[q] = bound[q]
<1>1. pool' = pool /\ purging' = purging
  BY DEF HandlerStep, Begin, FindOwner, LeaseOwner, LeaseBest, LoopEnds, QuotaRefused,
         MarkSpent, Attempt, Succeed, ClearResting, FailForGood, Fail, Rotate, Blame,
         MarkInvalid, Blamed, Panic
<1>2. \A q \in Request \ {r} : bound'[q] = bound[q]
  BY DEF HandlerStep, Begin, FindOwner, LeaseOwner, LeaseBest, LoopEnds, QuotaRefused,
         MarkSpent, Attempt, Succeed, ClearResting, FailForGood, Fail, Rotate, Blame,
         MarkInvalid, Blamed, Panic, Inv, PoolType
<1>3. QED BY <1>1, <1>2, HandlerLocal DEF LocalStep

\* What a step of its handler does to the request itself.
SelfKeeps(r) ==
  /\ req'[r].pc # "idle"
  /\ Watched(r)' => Keeps(r)'

\* The request is over, or its attempt has failed: it counts no more.
LEMMA LostKeeps ==
  ASSUME Observe, NEW r \in Request, req'[r].pc # "idle",
         req'[r].pc \in {"spent", "failed"} \/ req'[r].answer = "error"
  PROVE  SelfKeeps(r)
BY WatchedNow DEF SelfKeeps

\* A step from a position where no request that counts can be.
LEMMA NeverKeeps ==
  ASSUME Keeping, Observe, NEW r \in Request,
         req[r].pc \in {"lease", "spent", "failed", "blame"},
         req'[r].pc # "idle", req'[r].start = req[r].start
  PROVE  SelfKeeps(r)
BY WatchedBefore DEF SelfKeeps, Keeps

\* The handler returns with the thread still bound to the account.
LEMMA FinishKeeps ==
  ASSUME Inv, Keeping, Observe, NEW r \in Request, NEW answer, Finish(r, answer),
         req[r].pc # "idle", bound' = bound
  PROVE  SelfKeeps(r)
<1>1. /\ req'[r].pc = "done" /\ req'[r].start = req[r].start /\ req'[r].acc = NoAccount
  BY DEF Finish, Idle, Inv, AllLocals
<1>2. ASSUME Watched(r)' PROVE Keeps(r)'
  <2>1. Keeps(r) BY <1>1, <1>2, WatchedBefore
  <2>2. /\ req'[r].start \notin purging'
        /\ \E a \in pool' : health'[a] = {} /\ WorkspaceOf[a] = req'[r].start
    BY <1>2, WatchedNow
  <2>3. QED BY <1>1, <2>1, <2>2 DEF Keeps
<1>3. QED BY <1>1, <1>2 DEF SelfKeeps

LEMMA FinishError ==
  ASSUME Inv, Observe, NEW r \in Request, Finish(r, "error")
  PROVE  SelfKeeps(r)
<1>1. req'[r].pc = "done" /\ req'[r].answer = "error" BY DEF Finish, Idle, Inv, AllLocals
<1>2. QED BY <1>1, LostKeeps

LEMMA BeginKeeps ==
  ASSUME Inv, Keeping, Observe, NEW r \in Request, Begin(r)
  PROVE  SelfKeeps(r)
<1>1. req[r] = Idle /\ bound' = bound BY DEF Keeping, Begin
<1>2. /\ req'[r].pc = "select" /\ req'[r].start = bound[r] /\ req'[r].session = bound[r]
      /\ req'[r].rounds = 0 /\ req'[r].acc = NoAccount
  BY <1>1 DEF Begin, Idle, Inv, AllLocals
<1>3. ASSUME Watched(r)' PROVE Keeps(r)'
  <2>1. /\ req'[r].start \notin purging'
        /\ \E a \in pool' : health'[a] = {} /\ WorkspaceOf[a] = req'[r].start
    BY <1>3, WatchedNow
  <2>2. QED BY <1>1, <1>2, <2>1 DEF Keeps
<1>4. QED BY <1>2, <1>3 DEF SelfKeeps

\* The owner is found: that no account is found would mean that it is not usable.
LEMMA FindOwnerKeeps ==
  ASSUME Inv, Keeping, Observe, NEW r \in Request, FindOwner(r)
  PROVE  SelfKeeps(r)
<1> USE DEF Inv, AllLocals, RequestLocals
<1>1. /\ req[r].pc = "select" /\ req'[r].pc \in {"owner", "lease"}
      /\ req'[r].start = req[r].start /\ pool' = pool /\ health' = health
  BY DEF FindOwner
<1>2. ASSUME Watched(r)' PROVE Keeps(r)'
  <2>1. Keeps(r) BY <1>1, <1>2, WatchedBefore
  <2>2. /\ req'[r].start \notin purging'
        /\ \E a \in pool : health[a] = {} /\ WorkspaceOf[a] = req[r].start
    <3>1. /\ req'[r].start \notin purging'
          /\ \E a \in pool' : health'[a] = {} /\ WorkspaceOf[a] = req'[r].start
      BY <1>2, WatchedNow
    <3>2. QED BY <1>1, <3>1
  <2>3. PICK a \in pool : /\ WorkspaceOf[a] = req[r].session
                          /\ req' = [req EXCEPT ![r].pc = "owner", ![r].acc = a]
                          /\ bound' = bound
    BY <2>1, <2>2, <1>1 DEF FindOwner, Keeps, Usable
  <2>4. /\ req'[r].pc = "owner" /\ req'[r].acc = a /\ req'[r].session = req[r].session
    BY <2>3
  <2>5. QED BY <1>1, <2>1, <2>2, <2>3, <2>4 DEF Keeps
<1>3. QED BY <1>1, <1>2 DEF SelfKeeps

\* The owner is leased or the request is told that it is busy.
LEMMA LeaseOwnerKeeps ==
  ASSUME Inv, Keeping, Observe, NEW r \in Request, LeaseOwner(r)
  PROVE  SelfKeeps(r)
<1> USE DEF Inv, AllLocals, RequestLocals
<1>1. req[r].pc = "owner" /\ pool' = pool /\ health' = health /\ bound' = bound
  BY DEF LeaseOwner
<1>2. CASE req' = [req EXCEPT ![r].pc = "lease", ![r].acc = NoAccount] /\ ~Usable(req[r].acc)
  <2>1. req'[r].pc = "lease" /\ req'[r].start = req[r].start BY <1>2
  <2>2. ASSUME Watched(r)' PROVE FALSE
    <3>1. Keeps(r) BY <1>1, <2>1, <2>2, WatchedBefore
    <3>2. PICK a \in pool : health[a] = {} /\ WorkspaceOf[a] = req[r].start
      BY <3>1 DEF Keeps
    <3>3. req[r].acc \in pool /\ WorkspaceOf[req[r].acc] = req[r].start
      BY <1>1, <3>1 DEF Keeps
    <3>4. req[r].acc = a BY <3>2, <3>3 DEF Keeping, OnePerWorkspace
    <3>5. QED BY <1>2, <3>2, <3>4 DEF Usable
  <2>3. QED BY <2>1, <2>2 DEF SelfKeeps
<1>3. CASE req' = [req EXCEPT ![r].pc = "check"]
  <2>1. /\ req'[r].pc = "check" /\ req'[r].start = req[r].start
        /\ req'[r].acc = req[r].acc /\ req'[r].session = req[r].session
    BY <1>3
  <2>2. ASSUME Watched(r)' PROVE Keeps(r)'
    <3>1. Keeps(r) BY <1>1, <2>1, <2>2, WatchedBefore
    <3>2. /\ req'[r].start \notin purging'
          /\ \E a \in pool' : health'[a] = {} /\ WorkspaceOf[a] = req'[r].start
      BY <2>2, WatchedNow
    <3>3. QED BY <1>1, <2>1, <3>1, <3>2 DEF Keeps
  <2>3. QED BY <2>1, <2>2 DEF SelfKeeps
<1>4. CASE Finish(r, Verdict(r, TRUE)) BY <1>1, <1>4, FinishKeeps
<1>5. QED BY <1>2, <1>3, <1>4 DEF LeaseOwner

\* A request that counts never asks for the best account: it has an owner to ask.
LEMMA LeaseBestKeeps ==
  ASSUME Inv, Keeping, Observe, NEW r \in Request, LeaseBest(r)
  PROVE  SelfKeeps(r)
<1> USE DEF Inv, AllLocals, RequestLocals
<1>1. CASE \E a : req' = [req EXCEPT ![r].pc = "check", ![r].acc = a]
  <2>1. /\ req[r].pc \in {"select", "lease"}
        /\ req[r].pc = "select" => ~(req[r].rounds = 0 /\ req[r].session # NoWorkspace)
    BY DEF LeaseBest
  <2>2. req'[r].pc = "check" /\ req'[r].start = req[r].start BY <1>1
  <2>3. ASSUME Watched(r)' PROVE FALSE
    <3>1. Keeps(r) BY <2>1, <2>2, <2>3, WatchedBefore
    <3>2. req[r].start # NoWorkspace BY <2>2, <2>3 DEF Watched
    <3>3. QED BY <2>1, <3>1, <3>2 DEF Keeps
  <2>4. QED BY <2>2, <2>3 DEF SelfKeeps
<1>2. CASE \E answer : Finish(r, answer)
  <2>1. req[r].pc # "idle" /\ bound' = bound BY DEF LeaseBest
  <2>2. QED BY <1>2, <2>1, FinishKeeps
<1>3. QED BY <1>1, <1>2 DEF LeaseBest

\* The account is good: its thread goes on.
LEMMA AttemptKeeps ==
  ASSUME Inv, Keeping, Observe, NEW r \in Request, Attempt(r)
  PROVE  SelfKeeps(r)
<1> USE DEF Inv, AllLocals, RequestLocals
<1> DEFINE kept == req[r].session # NoWorkspace /\ bound[r] = req[r].session
           owner == IF kept THEN req[r].session ELSE WorkspaceOf[req[r].acc]
<1>1. /\ req[r].pc = "check" /\ req'[r].pc = "infer" /\ req'[r].session = owner
      /\ req'[r].acc = req[r].acc /\ req'[r].start = req[r].start
      /\ bound'[r] = owner
  BY DEF Attempt, PoolType
<1> HIDE DEF owner
<1>2. ASSUME Watched(r)' PROVE Keeps(r)'
  <2>1. Keeps(r) BY <1>1, <1>2, WatchedBefore
  <2>2. /\ req'[r].start \notin purging'
        /\ \E a \in pool' : health'[a] = {} /\ WorkspaceOf[a] = req'[r].start
    BY <1>2, WatchedNow
  <2>3. owner = req[r].start BY <1>1, <2>1 DEF Keeps, owner
  <2>4. QED BY <1>1, <2>1, <2>2, <2>3 DEF Keeps
<1>3. QED BY <1>1, <1>2 DEF SelfKeeps

LEMMA SucceedKeeps ==
  ASSUME Inv, Keeping, Observe, NEW r \in Request, Succeed(r)
  PROVE  SelfKeeps(r)
<1> USE DEF Inv, AllLocals, RequestLocals
<1>1. /\ req[r].pc = "infer" /\ req'[r].pc = "answered" /\ req'[r].session = req[r].session
      /\ req'[r].acc = req[r].acc /\ req'[r].start = req[r].start /\ bound' = bound
  BY DEF Succeed
<1>2. ASSUME Watched(r)' PROVE Keeps(r)'
  <2>1. Keeps(r) BY <1>1, <1>2, WatchedBefore
  <2>2. /\ req'[r].start \notin purging'
        /\ \E a \in pool' : health'[a] = {} /\ WorkspaceOf[a] = req'[r].start
    BY <1>2, WatchedNow
  <2>3. QED BY <1>1, <2>1, <2>2 DEF Keeps
<1>3. QED BY <1>1, <1>2 DEF SelfKeeps

\* The steps after a failure.
LEMMA FailedKeeps ==
  ASSUME Inv, Keeping, Observe, NEW r \in Request,
         MarkSpent(r) \/ Rotate(r) \/ Blame(r) \/ MarkInvalid(r) \/ Blamed(r)
  PROVE  SelfKeeps(r)
<1> USE DEF Inv, AllLocals, RequestLocals
<1>1. CASE MarkSpent(r) BY <1>1, NeverKeeps DEF MarkSpent, NextRound
<1>2. CASE Rotate(r)
  <2> DEFINE empties == req[r].empties + IF req[r].kind = "empty" THEN 1 ELSE 0
             Again == req' = [req EXCEPT ![r].pc = "select", ![r].rounds = @ + 1,
                         ![r].acc = NoAccount, ![r].kind = "none", ![r].empties = empties,
                         ![r].failed = @ \/ req[r].kind # "skip"]
  <2>1. ASSUME Again PROVE req'[r].pc = "select" /\ req'[r].start = req[r].start BY <2>1
  <2>2. req[r].pc = "failed" /\ (Finish(r, "error") \/ Again) BY <1>2 DEF Rotate
  <2> HIDE DEF Again
  <2>3. QED BY <2>1, <2>2, FinishError, NeverKeeps
<1>3. CASE Blame(r)
  <2>1. req[r].pc = "failed" /\ req'[r].pc = "blame" /\ req'[r].start = req[r].start
    BY <1>3 DEF Blame
  <2>2. QED BY <2>1, NeverKeeps
<1>4. CASE MarkInvalid(r)
  <2>1. req[r].pc = "blame" /\ req'[r].pc = "blame" /\ req'[r].start = req[r].start
    BY <1>4 DEF MarkInvalid
  <2>2. QED BY <2>1, NeverKeeps
<1>5. CASE Blamed(r) BY <1>5, NeverKeeps DEF Blamed, NextRound
<1>6. QED BY <1>1, <1>2, <1>3, <1>4, <1>5

LEMMA HandlerKeeps ==
  ASSUME Inv, Keeping, Observe, NEW r \in Request, HandlerStep(r)
  PROVE  SelfKeeps(r)
<1>1. CASE LoopEnds(r) BY <1>1, FinishKeeps DEF LoopEnds
<1>2. CASE QuotaRefused(r)
  <2>1. req'[r].pc = "spent" BY <1>2 DEF QuotaRefused, Inv, AllLocals, RequestLocals
  <2>2. QED BY <2>1, LostKeeps
<1>3. CASE ClearResting(r) BY <1>3, FinishKeeps DEF ClearResting
<1>4. CASE FailForGood(r) \/ Panic(r) BY <1>4, FinishError DEF FailForGood, Panic
<1>5. CASE Fail(r)
  <2>1. req'[r].pc = "failed" BY <1>5 DEF Fail, Inv, AllLocals, RequestLocals
  <2>2. QED BY <2>1, LostKeeps
<1>6. QED BY <1>1, <1>2, <1>3, <1>4, <1>5, BeginKeeps, FindOwnerKeeps, LeaseOwnerKeeps,
             LeaseBestKeeps, AttemptKeeps, SucceedKeeps, FailedKeeps DEF HandlerStep

\* An account that is removed or replaced leaves its workspace to be purged.
LEMMA PoolStepKeeps ==
  ASSUME Inv, Keeping, Observe, PoolStep
  PROVE  Keeping'
<1>1. req' = req BY PoolStepInv
<1> DEFINE Quiet ==
      /\ OnePerWorkspace'
      /\ \A q \in Request : Keeps(q) => bound'[q] = bound[q]
      /\ \A b \in pool : WorkspaceOf[b] \notin purging' => b \in pool'
<1>2. Quiet
  <2>1. ASSUME NEW a \in Account, QuotaAnswer(a) PROVE Quiet
    BY <2>1 DEF QuotaAnswer, Keeping, OnePerWorkspace
  <2>2. ASSUME NEW a \in Account, Toggle(a) PROVE Quiet
    BY <2>2 DEF Toggle, Keeping, OnePerWorkspace
  <2>3. ASSUME NEW a \in Account, Rested(a) PROVE Quiet
    BY <2>3 DEF Rested, Keeping, OnePerWorkspace
  <2>4. ASSUME NEW a \in Account, Remove(a) PROVE Quiet
    BY <2>4 DEF Remove, Keeping, OnePerWorkspace
  <2>5. ASSUME NEW a \in Account, AddAccount(a) PROVE Quiet
    BY <2>5 DEF AddAccount, Keeping, OnePerWorkspace
  <2>6. ASSUME NEW w \in Workspace, Purge(w) PROVE Quiet
    <3>1. OnePerWorkspace' BY <2>6 DEF Purge, Keeping, OnePerWorkspace
    <3>2. ASSUME NEW q \in Request, bound'[q] # bound[q], Keeps(q) PROVE FALSE
      BY <2>6, <3>2 DEF Purge, Keeps
    <3>3. QED BY <2>6, <3>1, <3>2 DEF Purge
  <2>7. QED BY <2>1, <2>2, <2>3, <2>4, <2>5, <2>6 DEF PoolStep
<1>3. ASSUME NEW q \in Request, Watched(q)' PROVE Keeps(q)'
  <2>1. Keeps(q) => bound'[q] = bound[q] BY <1>2
  <2>2. Keeps(q) /\ req[q].start \notin purging' /\ req[q].pc = "owner"
          => req[q].acc \in pool'
    BY <1>2 DEF Keeps
  <2>3. QED BY <1>1, <1>3, <2>1, <2>2, OtherKeeps
<1>4. QED BY <1>1, <1>2, <1>3 DEF Keeping

LEMMA KeepingInv == Inv /\ Keeping /\ [Next]_vars => Keeping'
<1> SUFFICES ASSUME Inv, Keeping, [Next]_vars PROVE Keeping' OBVIOUS
<1>1. ASSUME Observe, NEW r \in Request, HandlerStep(r) PROVE Keeping'
  <2>1. /\ pool' = pool /\ purging' = purging
        /\ \A q \in Request \ {r} : req'[q] = req[q] /\ bound'[q] = bound[q]
    BY <1>1, HandlerOthers
  <2>2. SelfKeeps(r) BY <1>1, HandlerKeeps
  <2>3. OnePerWorkspace' BY <2>1 DEF Keeping, OnePerWorkspace
  <2>4. ASSUME NEW q \in Request, req'[q].pc = "idle" PROVE req'[q] = Idle
    BY <2>1, <2>2, <2>4 DEF SelfKeeps, Keeping
  <2>5. ASSUME NEW q \in Request, Watched(q)' PROVE Keeps(q)'
    <3>1. CASE q = r BY <2>2, <2>5, <3>1 DEF SelfKeeps
    <3>2. CASE q # r
      <4>1. Keeps(q) /\ req[q].pc = "owner" => req[q].acc \in pool' BY <2>1 DEF Keeps
      <4>2. QED BY <1>1, <2>1, <2>5, <3>2, <4>1, OtherKeeps
    <3>3. QED BY <3>1, <3>2
  <2>6. QED BY <2>3, <2>4, <2>5 DEF Keeping
<1>2. CASE Observe /\ PoolStep BY <1>2, PoolStepKeeps
<1>3. CASE UNCHANGED vars
  BY <1>3 DEF vars, Keeping, OnePerWorkspace, Watched, Keeps
<1>4. QED BY <1>1, <1>2, <1>3 DEF Next

\* While the account that owns a conversation's thread stays usable, and no attempt
\* fails, the request uses no other account and the thread stays bound to it: a busy
\* login is answered with an error, never with a new thread elsewhere.
THEOREM BusyThreadsStay == Spec => []BusyKeepsThread
<1>1. Init => Keeping
  BY RoutingAssumption DEF Init, Keeping, OnePerWorkspace, Watched, Idle
<1>2. Inv /\ Keeping => BusyKeepsThread
  <2> SUFFICES ASSUME Keeping, NEW r \in Request, Watched(r)
               PROVE  /\ req[r].acc # NoAccount => WorkspaceOf[req[r].acc] = req[r].start
                      /\ bound[r] = req[r].start
    BY DEF BusyKeepsThread, Watched
  <2>1. Keeps(r) BY DEF Keeping
  <2>2. QED BY <2>1 DEF Keeps
<1>3. QED BY <1>1, <1>2, KeepingInv, Invariance, PTL DEF Spec

=============================================================================
