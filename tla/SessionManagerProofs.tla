------------------------ MODULE SessionManagerProofs ------------------------
(***************************************************************************)
(* Proofs about SessionManager for every set of requests, accounts,        *)
(* sessions, keys and turns.                                               *)
(*                                                                         *)
(* ContinuationExact is not inductive: that a thread found under a key     *)
(* still holds the client's history depends on who may touch the session   *)
(* (Locked), on which sessions may be published at all (Attempts) and on   *)
(* what an unlocked published session has been through (Clean).            *)
(*                                                                         *)
(* Locked also says why nobody waits for ever: who holds the mutex of a    *)
(* session waits for no other.                                             *)
(***************************************************************************)
EXTENDS SessionManager, SequenceTheorems, FiniteSetTheorems, TLAPS

\* A session is used by the request that holds its mutex, and by no other.
Held(r) == req[r].pc \in Holding => req[r].cur \in Session /\ lock[req[r].cur] = r

\* What a request remembers of its key and session.
Attempt(r) ==
  /\ req[r].pc = "idle" => req[r].cur = NoSession
  /\ req[r].pc \in {"get", "peek", "expire", "wait", "mismatch", "duplicate"} =>
       req[r].key \in Key
  /\ req[r].pc \in {"peek", "expire", "wait"} => req[r].cur \in Session
  /\ req[r].pc \in Acquiring /\ req[r].cur # NoSession => req[r].key \in Key
  /\ req[r].pc \in {"mismatch", "duplicate"} => sess[req[r].cur].key = req[r].key
  /\ req[r].pc \in {"infer", "published"} =>
       IF req[r].cacheable
       THEN req[r].key \in Key /\ sess[req[r].cur].key = req[r].key
       ELSE \A k \in Key : sessions[k] # req[r].cur

\* The thread of session s ends with the reply its expected key stands for.
Faithful(s) == sess[s].expected \in Key /\ thread[s] = sess[s].expected

\* No attempt has failed on a published session that may be picked up ...
CleanBinding(k) ==
  sessions[k] # NoSession /\ lock[sessions[k]] = NoOne =>
    /\ sessions[k] \notin tainted
    /\ sess[sessions[k]].answered => Faithful(sessions[k])

\* ... nor on a session in use, whose thread the next reply may be added to.
CleanAttempt(r) ==
  /\ req[r].pc \in {"infer", "published"} => req[r].cur \notin tainted
  /\ req[r].pc = "infer" /\ req[r].reused => thread[req[r].cur] = req[r].hist
  /\ req[r].pc = "published" => Faithful(req[r].cur)

Locked == MutexNotStranded /\ \A r \in Request : Held(r)
Attempts == \A r \in Request : Attempt(r)
Clean == (\A k \in Key : CleanBinding(k)) /\ (\A r \in Request : CleanAttempt(r))

Inv == TypeOK /\ Locked /\ BindingCurrent /\ AmbiguousUnbound /\ Attempts /\ Clean

-----------------------------------------------------------------------------
(* Histories and keys.                                                     *)

\* A history extended by the turn just answered is a key.
LEMMA AppendIsKey ==
  ASSUME NEW h \in History, NEW t \in Turn
  PROVE  /\ h \in Seq(Turn)
         /\ Len(h) \in Nat
         /\ Append(h, t) \in Seq(Turn)
         /\ Append(h, t) \in Key
         /\ Append(h, t) # NoKey
<1>1. PICK n \in 0 .. MaxHistory : h \in [1 .. n -> Turn]
  BY DEF History
<1>2. n \in Nat /\ MaxHistory \in Nat
  BY SessionAssumption
<1>3. h \in Seq(Turn) /\ Len(h) = n
  BY <1>1, <1>2
<1>4. Append(h, t) \in Seq(Turn) /\ Len(Append(h, t)) = n + 1
  BY <1>3, <1>2
<1>5. Append(h, t) \in [1 .. n + 1 -> Turn]
  <2>1. \A q \in Seq(Turn) : q \in [1 .. Len(q) -> Turn]
    BY LenProperties
  <2>2. QED BY <2>1, <1>4
<1>6. Append(h, t) \in Chain
  <2>1. n + 1 \in 0 .. MaxHistory + 1
    BY <1>2
  <2>2. QED BY <1>5, <2>1 DEF Chain
<1>7. Append(h, t) # <<>>
  BY <1>3, <1>2
<1>8. QED
  BY <1>3, <1>4, <1>6, <1>7, <1>2, KeyAssumption DEF Key

\* The locals of a handler that is not running.
LEMMA NoLocalsType ==
  ASSUME NEW pc \in Pc
  PROVE  NoLocals(pc) \in RequestLocals
<1>1. 0 \in 0 .. MaxHistory /\ <<>> \in [1 .. 0 -> Turn]
  BY SessionAssumption
<1>2. <<>> \in History
  BY <1>1 DEF History
<1>3. QED
  BY <1>2 DEF NoLocals, RequestLocals

\* The key a history is looked up under.
LEMMA ContinuationKeyType ==
  ASSUME NEW h \in History
  PROVE  ContinuationKey(h) \in Key \cup {NoKey}
<1>1. PICK n \in 0 .. MaxHistory : h \in [1 .. n -> Turn]
  BY DEF History
<1>2. n \in 0 .. MaxHistory + 1
  BY SessionAssumption
<1>3. h \in Chain
  BY <1>1, <1>2 DEF Chain
<1>4. QED
  BY <1>3 DEF ContinuationKey, Key

-----------------------------------------------------------------------------
(* Initial states.                                                         *)

LEMMA InitInv == Init => Inv
<1> SUFFICES ASSUME Init PROVE Inv
  OBVIOUS
<1>0. <<>> \in History
  <2>1. 0 \in 0 .. MaxHistory /\ <<>> \in [1 .. 0 -> Turn]
    BY SessionAssumption
  <2>2. QED BY <2>1 DEF History
<1>1. (CHOOSE a \in Account : TRUE) \in Account
  BY SessionAssumption
<1>2. TypeOK
  BY <1>0, <1>1, SessionAssumption
  DEF Init, TypeOK, NewFields, SessionFields, NoLocals, RequestLocals, Pc, SweepState
<1>3. Locked /\ BindingCurrent /\ AmbiguousUnbound /\ Attempts /\ Clean
  BY SessionAssumption
  DEF Init, Locked, MutexNotStranded, Holding, BindingCurrent, AmbiguousUnbound,
      Attempts, Attempt, Held, Clean, CleanBinding, CleanAttempt, NoLocals
<1>4. QED
  BY <1>2, <1>3 DEF Inv

-----------------------------------------------------------------------------
(* What a step of one request may disturb.                                 *)

\* A step of request r that changes no mutex held by another request, and
\* nothing about a session another request holds, leaves the others alone.
LEMMA OtherRequests ==
  ASSUME Inv, TypeOK', NEW r \in Request,
         \A q \in Request \ {r} : req'[q] = req[q],
         \A x \in Session :
           lock'[x] # lock[x] => {lock[x], lock'[x]} \subseteq {r, NoOne},
         \A x \in Session : lock'[x] = r => req'[r].cur = x /\ req'[r].pc \in Holding,
         \A x \in Session : lock[x] \notin {r, NoOne} =>
           /\ sess'[x] = sess[x] /\ thread'[x] = thread[x]
           /\ x \in tainted' => x \in tainted
           /\ \A k \in Key : sessions'[k] = x => sessions[k] = x,
         Held(r)', Attempt(r)', CleanAttempt(r)'
  PROVE  Locked' /\ Attempts' /\ (\A q \in Request : CleanAttempt(q)')
<1> USE SessionAssumption
<1>1. lock \in [Session -> Request \cup {NoOne}] /\ lock' \in [Session -> Request \cup {NoOne}]
  BY DEF Inv, TypeOK
<1>2. MutexNotStranded'
  <2> SUFFICES ASSUME NEW x \in Session, lock'[x] # NoOne
      PROVE  req'[lock'[x]].cur = x /\ req'[lock'[x]].pc \in Holding
    BY DEF MutexNotStranded
  <2>1. CASE lock'[x] = r
    BY <2>1
  <2>2. CASE lock'[x] # r
    <3>1. lock'[x] = lock[x] /\ lock[x] \in Request \ {r}
      BY <2>2, <1>1
    <3>2. QED BY <3>1 DEF Inv, Locked, MutexNotStranded
  <2>3. QED BY <2>1, <2>2
<1>3. ASSUME NEW q \in Request, q # r
      PROVE  Held(q)' /\ Attempt(q)' /\ CleanAttempt(q)'
  <2>1. req'[q] = req[q]
    BY <1>3
  <2>2. req[q].pc \in Holding =>
          /\ req[q].cur \in Session /\ lock[req[q].cur] = q /\ lock'[req[q].cur] = q
          /\ sess'[req[q].cur] = sess[req[q].cur] /\ thread'[req[q].cur] = thread[req[q].cur]
          /\ req[q].cur \in tainted' => req[q].cur \in tainted
          /\ \A k \in Key : sessions'[k] = req[q].cur => sessions[k] = req[q].cur
    BY <1>3 DEF Inv, Locked, Held
  <2>3. Held(q)'
    BY <2>1, <2>2 DEF Held
  <2>4. Attempt(q)'
    BY <2>1, <2>2 DEF Inv, Attempts, Attempt, Holding
  <2>5. CleanAttempt(q)'
    BY <2>1, <2>2 DEF Inv, Clean, CleanAttempt, Faithful, Holding
  <2>6. QED BY <2>3, <2>4, <2>5
<1>4. \A q \in Request : Held(q)' /\ Attempt(q)' /\ CleanAttempt(q)'
  BY <1>3
<1>5. QED BY <1>2, <1>4 DEF Locked, Attempts

\* Removing keys, and advancing their versions, keeps the table consistent.
LEMMA UnbindFacts ==
  ASSUME TypeOK, BindingCurrent, NEW ks \in SUBSET Key, Unbind(ks)
  PROVE  /\ sessions' \in [Key -> Session \cup {NoSession}]
         /\ keyVersions' \in [Key -> Nat]
         /\ \A k \in ks : sessions'[k] = NoSession
         /\ \A k \in Key \ ks :
              sessions'[k] = sessions[k] /\ keyVersions'[k] = keyVersions[k]
         /\ \A k \in Key : sessions'[k] # NoSession =>
              sessions'[k] = sessions[k] /\ keyVersions'[k] = keyVersions[k]
BY DEF TypeOK, Unbind

\* DeleteIf removes at most the binding of the session it is given.
LEMMA DeleteIfFacts ==
  ASSUME Inv, NEW k \in Key \cup {NoKey}, NEW s \in Session,
         DeleteIf(k, s)
  PROVE  /\ sessions' \in [Key -> Session \cup {NoSession}]
         /\ keyVersions' \in [Key -> Nat]
         /\ dead' \in SUBSET Session
         /\ \A j \in Key : sessions'[j] # NoSession =>
              sessions'[j] = sessions[j] /\ keyVersions'[j] = keyVersions[j]
         /\ sess[s].key = k => \A j \in Key : sessions'[j] # s
<1> USE SessionAssumption, KeyAssumption
<1>1. CASE k # NoKey /\ sessions[k] = s
  <2>1. Unbind({k}) /\ dead' = dead \cup {s} /\ k \in Key
    BY <1>1 DEF DeleteIf
  <2>2. \A j \in Key \ {k} : sess[s].key = k => sessions[j] # s
    BY <2>1 DEF Inv, TypeOK, BindingCurrent
  <2>3. Inv => TypeOK /\ BindingCurrent
    BY DEF Inv
  <2>4. /\ sessions' \in [Key -> Session \cup {NoSession}]
        /\ keyVersions' \in [Key -> Nat]
        /\ sessions'[k] = NoSession
        /\ \A j \in Key \ {k} : sessions'[j] = sessions[j] /\ keyVersions'[j] = keyVersions[j]
    BY <2>1, <2>3, UnbindFacts
  <2>5. dead' \in SUBSET Session
    BY <2>1 DEF Inv, TypeOK
  <2>6. QED BY <2>2, <2>4, <2>5
<1>2. CASE ~(k # NoKey /\ sessions[k] = s)
  BY <1>2 DEF DeleteIf, Inv, TypeOK, BindingCurrent
<1>3. QED BY <1>1, <1>2

\* The table after bindings were removed and nothing else moved.
LEMMA RemovalKeepsBindings ==
  ASSUME BindingCurrent, AmbiguousUnbound, UNCHANGED <<epoch, sess>>,
         \A j \in Key : sessions'[j] # NoSession =>
           sessions'[j] = sessions[j] /\ keyVersions'[j] = keyVersions[j],
         \A j \in Key : ambiguous'[j] # "none" =>
           ambiguous[j] # "none" \/ sessions'[j] = NoSession
  PROVE  BindingCurrent' /\ AmbiguousUnbound'
BY DEF BindingCurrent, AmbiguousUnbound

\* Bindings of sessions nobody touches stay clean.
LEMMA RemovalKeepsClean ==
  ASSUME Inv, UNCHANGED <<sess, thread>>,
         \A j \in Key : sessions'[j] # NoSession => sessions'[j] = sessions[j],
         \A j \in Key : sessions'[j] # NoSession /\ lock'[sessions'[j]] = NoOne =>
           /\ lock[sessions[j]] = NoOne
           /\ sessions[j] \in tainted' => sessions[j] \in tainted
  PROVE  \A j \in Key : CleanBinding(j)'
BY DEF Inv, Clean, CleanBinding, Faithful

-----------------------------------------------------------------------------
LEMMA FailInv ==
  ASSUME Inv, NEW r \in Request, Fail(r)
  PROVE  Inv'
<1> DEFINE s == req[r].cur
<1> USE SessionAssumption, KeyAssumption
<1>1. /\ req[r].pc = "infer" /\ s \in Session /\ lock[s] = r /\ s # NoSession
      /\ req \in [Request -> RequestLocals] /\ req[r] \in RequestLocals
  BY DEF Fail, Inv, TypeOK, Locked, Held, Holding
<1>2. /\ req'[r] \in RequestLocals
      /\ req' = [req EXCEPT ![r] = req'[r]]
      /\ req'[r].pc \in {"select", "done"} /\ req'[r].cur = NoSession
  <2>1. CASE req' = [req EXCEPT ![r].pc = "select", ![r].cur = NoSession]
    BY <2>1, <1>1 DEF RequestLocals, Pc
  <2>2. CASE Return(r)
    BY <2>2, <1>1, NoLocalsType DEF Return, NoLocals, Pc
  <2>3. QED BY <2>1, <2>2 DEF Fail
<1>3. /\ req' \in [Request -> RequestLocals]
      /\ \A q \in Request \ {r} : req'[q] = req[q]
  BY <1>1, <1>2
<1>4. /\ lock' = [lock EXCEPT ![s] = NoOne]
      /\ tainted' = tainted \cup {s}
      /\ UNCHANGED <<ambiguous, epoch, sess, stale, sweep, purges, thread>>
  BY DEF Fail
<1>5. /\ sessions' \in [Key -> Session \cup {NoSession}]
      /\ keyVersions' \in [Key -> Nat] /\ dead' \in SUBSET Session
      /\ \A j \in Key : sessions'[j] # NoSession =>
           sessions'[j] = sessions[j] /\ keyVersions'[j] = keyVersions[j]
      /\ \A j \in Key : sessions'[j] # s
  <2>1. CASE req[r].cacheable
    BY <2>1, <1>1, DeleteIfFacts DEF Fail, Inv, Attempts, Attempt
  <2>2. CASE ~req[r].cacheable
    BY <2>2, <1>1 DEF Fail, Inv, TypeOK, Attempts, Attempt
  <2>3. QED BY <2>1, <2>2
<1>6. TypeOK'
  BY <1>1, <1>3, <1>4, <1>5 DEF Inv, TypeOK
<1>7. BindingCurrent' /\ AmbiguousUnbound'
  BY <1>4, <1>5, RemovalKeepsBindings DEF Inv
<1>8. \A j \in Key : CleanBinding(j)'
  BY <1>1, <1>4, <1>5, RemovalKeepsClean DEF Inv, TypeOK
<1>9. Held(r)' /\ Attempt(r)' /\ CleanAttempt(r)'
  BY <1>2 DEF Held, Attempt, CleanAttempt, Holding, Acquiring
<1>10. Locked' /\ Attempts' /\ (\A q \in Request : CleanAttempt(q)')
  <2>1. lock \in [Session -> Request \cup {NoOne}]
    BY DEF Inv, TypeOK
  <2>2. \A x \in Session : lock'[x] # r
    BY <1>1, <1>4, <2>1 DEF Inv, Locked, MutexNotStranded
  <2>3. QED BY <1>1, <1>3, <1>4, <1>5, <1>6, <1>9, <2>1, <2>2, OtherRequests
<1>11. QED BY <1>6, <1>7, <1>8, <1>10 DEF Inv, Clean

-----------------------------------------------------------------------------
(* Looking a session up: the table and the sessions stay as they are.      *)

\* Marking what an expired ambiguity entry leaves behind.
LEMMA RereadFacts ==
  ASSUME TypeOK, NEW k
  PROVE  /\ Reread(k) \in [Key -> {"none", "live", "past"}]
         /\ \A j \in Key : Reread(k)[j] # "none" => ambiguous[j] # "none"
BY DEF TypeOK, Reread

\* A request that holds no mutex, before and after its step, looks around.
LEMMA LookupInv ==
  ASSUME Inv, NEW r \in Request,
         UNCHANGED <<sessions, keyVersions, epoch, sess, lock, stale, sweep,
                     purges, thread, tainted, dead>>,
         ambiguous' = ambiguous \/ \E k : ambiguous' = Reread(k),
         NEW l \in RequestLocals, req' = [req EXCEPT ![r] = l],
         req[r].pc \notin Holding, l.pc \notin Holding,
         Attempt(r)'
  PROVE  Inv'
<1> USE SessionAssumption
<1>1. /\ ambiguous' \in [Key -> {"none", "live", "past"}]
      /\ \A j \in Key : ambiguous'[j] # "none" => ambiguous[j] # "none"
  BY RereadFacts DEF Inv, TypeOK
<1>2. /\ req' \in [Request -> RequestLocals] /\ req'[r] = l
      /\ \A q \in Request \ {r} : req'[q] = req[q]
  BY DEF Inv, TypeOK
<1>3. TypeOK'
  BY <1>1, <1>2 DEF Inv, TypeOK
<1>4. BindingCurrent' /\ AmbiguousUnbound'
  BY <1>1 DEF Inv, BindingCurrent, AmbiguousUnbound
<1>5. \A j \in Key : CleanBinding(j)'
  BY DEF Inv, Clean, CleanBinding, Faithful
<1>6. Held(r)' /\ CleanAttempt(r)'
  BY <1>2 DEF Held, CleanAttempt, Holding, Acquiring
<1>7. Locked' /\ Attempts' /\ (\A q \in Request : CleanAttempt(q)')
  <2>1. \A x \in Session : lock'[x] = lock[x] /\ lock[x] # r
    BY DEF Inv, Locked, MutexNotStranded
  <2>2. QED BY <1>2, <1>3, <1>6, <2>1, OtherRequests
<1>8. QED BY <1>3, <1>4, <1>5, <1>7 DEF Inv, Clean

LEMMA BeginInv ==
  ASSUME Inv, NEW r \in Request, Begin(r)
  PROVE  Inv'
<1> USE SessionAssumption, KeyAssumption
<1>1. req \in [Request -> RequestLocals] /\ req[r] \in RequestLocals
  BY DEF Inv, TypeOK
<1>2. PICK salt \in Salt \cup (IF Stateless THEN {NoKey} ELSE {}), h \in History,
           counted \in BOOLEAN :
        LET key == IF salt # NoKey THEN salt ELSE ContinuationKey(h)
        IN req' = [req EXCEPT
             ![r].pc = IF key = NoKey THEN "select" ELSE "get",
             ![r].salt = salt, ![r].hist = h, ![r].key = key,
             ![r].raw = IF counted THEN Len(h) + 1 ELSE Len(h)]
  BY DEF Begin
<1> DEFINE key == IF salt # NoKey THEN salt ELSE ContinuationKey(h)
           raw == IF counted THEN Len(h) + 1 ELSE Len(h)
           l == [req[r] EXCEPT !.pc = IF key = NoKey THEN "select" ELSE "get",
                               !.salt = salt, !.hist = h, !.key = key, !.raw = raw]
<1>3. key \in Key \cup {NoKey}
  BY ContinuationKeyType DEF Key
<1>4. raw \in Nat
  <2>1. h \in Seq(Turn)
    <3>1. PICK n \in 0 .. MaxHistory : h \in [1 .. n -> Turn]
      BY DEF History
    <3>2. QED BY <3>1
  <2>2. Len(h) \in Nat
    BY <2>1
  <2>3. QED BY <2>2
<1>5. l \in RequestLocals
  <2> HIDE DEF key, raw
  <2>1. QED BY <1>1, <1>3, <1>4 DEF RequestLocals, Pc
<1>6. req' = [req EXCEPT ![r] = l]
  BY <1>1, <1>2
<1>7. /\ l.pc = (IF key = NoKey THEN "select" ELSE "get")
      /\ l.key = key /\ l.cur = req[r].cur
  BY <1>1 DEF RequestLocals
<1>8. req[r].pc = "idle" /\ req[r].cur = NoSession
  BY DEF Begin, Inv, Attempts, Attempt
<1> HIDE DEF l, key, raw
<1>9. req'[r] = l
  BY <1>1, <1>6
<1>10. Attempt(r)'
  BY <1>3, <1>7, <1>8, <1>9 DEF Attempt, Acquiring
<1>11. QED
  BY <1>5, <1>6, <1>7, <1>8, <1>10, LookupInv DEF Begin, table, Holding

LEMMA GetInv ==
  ASSUME Inv, NEW r \in Request, Get(r)
  PROVE  Inv'
<1> USE SessionAssumption, KeyAssumption
<1>1. /\ req \in [Request -> RequestLocals] /\ req[r] \in RequestLocals
      /\ req[r].pc = "get" /\ req[r].key \in Key
  BY DEF Inv, TypeOK, Attempts, Attempt, Get
<1>2. PICK l \in RequestLocals :
        /\ req' = [req EXCEPT ![r] = l]
        /\ l.pc \in {"select", "peek"} /\ l.key \in Key
        /\ l.pc = "peek" => l.cur \in Session
  <2>1. CASE IsAmbiguous(req[r].key) \/ sessions[req[r].key] = NoSession
    <3> DEFINE l == [req[r] EXCEPT !.pc = "select"]
    <3>1. req' = [req EXCEPT ![r] = l]
      BY <2>1, <1>1 DEF Get, Goto
    <3>2. l \in RequestLocals /\ l.pc = "select" /\ l.key \in Key
      BY <1>1 DEF RequestLocals, Pc
    <3>3. QED BY <3>1, <3>2
  <2>2. CASE ~(IsAmbiguous(req[r].key) \/ sessions[req[r].key] = NoSession)
    <3> DEFINE l == [req[r] EXCEPT !.pc = "peek", !.cur = sessions[req[r].key]]
    <3>1. sessions[req[r].key] \in Session
      BY <2>2, <1>1 DEF Inv, TypeOK
    <3>2. req' = [req EXCEPT ![r] = l]
      BY <2>2, <1>1 DEF Get
    <3>3. l \in RequestLocals /\ l.pc = "peek" /\ l.key \in Key /\ l.cur \in Session
      BY <1>1, <3>1 DEF RequestLocals, Pc
    <3>4. QED BY <3>2, <3>3
  <2>3. QED BY <2>1, <2>2
<1>3. Attempt(r)'
  BY <1>1, <1>2 DEF Attempt, Acquiring
<1>4. QED
  BY <1>1, <1>2, <1>3, LookupInv DEF Get, Holding

LEMMA PeekInv ==
  ASSUME Inv, NEW r \in Request, Peek(r)
  PROVE  Inv'
<1> USE SessionAssumption, KeyAssumption
<1>1. /\ req \in [Request -> RequestLocals] /\ req[r] \in RequestLocals
      /\ req[r].pc = "peek" /\ req[r].key \in Key /\ req[r].cur \in Session
  BY DEF Inv, TypeOK, Attempts, Attempt, Peek
<1> DEFINE l == [req[r] EXCEPT !.pc = IF req[r].cur \in stale THEN "expire" ELSE "select"]
<1>2. req' = [req EXCEPT ![r] = l]
  BY <1>1 DEF Peek, Goto
<1>3. /\ l \in RequestLocals /\ l.pc \in {"expire", "select"}
      /\ l.key \in Key /\ l.cur \in Session
  BY <1>1 DEF RequestLocals, Pc
<1> HIDE DEF l
<1>4. Attempt(r)'
  BY <1>1, <1>2, <1>3 DEF Attempt, Acquiring
<1>5. QED
  BY <1>1, <1>2, <1>3, <1>4, LookupInv DEF Peek, table, Holding

LEMMA GiveUpInv ==
  ASSUME Inv, NEW r \in Request, GiveUp(r)
  PROVE  Inv'
<1>1. NoLocals("done") \in RequestLocals /\ NoLocals("done").pc = "done"
  BY NoLocalsType DEF NoLocals, Pc
<1>2. req' = [req EXCEPT ![r] = NoLocals("done")] /\ req[r].pc = "select"
  BY DEF GiveUp, Return
<1>3. Attempt(r)'
  <2>1. req'[r] = NoLocals("done")
    BY <1>2 DEF Inv, TypeOK
  <2>2. QED BY <1>1, <2>1 DEF Attempt, Acquiring
<1>4. QED
  BY <1>1, <1>2, <1>3, LookupInv DEF GiveUp, table, Holding

LEMMA QueueForSessionInv ==
  ASSUME Inv, NEW r \in Request, QueueForSession(r)
  PROVE  Inv'
<1> USE SessionAssumption, KeyAssumption
<1>1. /\ req \in [Request -> RequestLocals] /\ req[r] \in RequestLocals
      /\ req[r].pc \in Acquiring /\ req[r].key \in Key
  BY DEF Inv, TypeOK, RequestLocals, Acquiring, QueueForSession
<1>2. PICK l \in RequestLocals :
        /\ req' = [req EXCEPT ![r] = l]
        /\ l.pc = "wait" /\ l.key \in Key /\ l.cur \in Session
  <2>1. CASE req[r].cur # NoSession
    <3> DEFINE l == [req[r] EXCEPT !.pc = "wait"]
    <3>1. req' = [req EXCEPT ![r] = l]
      BY <2>1, <1>1 DEF QueueForSession, Goto
    <3>2. l \in RequestLocals /\ l.pc = "wait" /\ l.key \in Key /\ l.cur \in Session
      BY <2>1, <1>1 DEF RequestLocals, Pc
    <3>3. QED BY <3>1, <3>2
  <2>2. CASE req[r].cur = NoSession
    <3> DEFINE l == [req[r] EXCEPT !.pc = "wait", !.cur = sessions[req[r].key]]
    <3>1. sessions[req[r].key] \in Session
      BY <2>2, <1>1 DEF Inv, TypeOK, QueueForSession
    <3>2. req' = [req EXCEPT ![r] = l]
      BY <2>2, <1>1 DEF QueueForSession
    <3>3. l \in RequestLocals /\ l.pc = "wait" /\ l.key \in Key /\ l.cur \in Session
      BY <1>1, <3>1 DEF RequestLocals, Pc
    <3>4. QED BY <3>2, <3>3
  <2>3. QED BY <2>1, <2>2
<1>3. Attempt(r)'
  BY <1>1, <1>2 DEF Attempt, Acquiring
<1>4. QED
  BY <1>1, <1>2, <1>3, LookupInv DEF QueueForSession, Acquiring, Holding

LEMMA DiscardInv ==
  ASSUME Inv, NEW r \in Request, Discard(r)
  PROVE  Inv'
<1> DEFINE s == req[r].cur
           l == [req[r] EXCEPT !.pc = "select", !.cur = NoSession]
<1> USE SessionAssumption, KeyAssumption
<1>1. /\ req \in [Request -> RequestLocals] /\ req[r] \in RequestLocals
      /\ req[r].pc \notin Holding /\ req[r].key \in Key /\ s \in Session
  BY DEF Inv, TypeOK, RequestLocals, Attempts, Attempt, Acquiring, Discard, Holding
<1>2. req' = [req EXCEPT ![r] = l]
  BY <1>1 DEF Discard
<1>3. l \in RequestLocals /\ l.pc = "select" /\ l.cur = NoSession
  BY <1>1 DEF RequestLocals, Pc
<1> HIDE DEF l
<1>4. /\ req' \in [Request -> RequestLocals]
      /\ \A q \in Request \ {r} : req'[q] = req[q]
      /\ req'[r] = l
  BY <1>1, <1>2, <1>3
<1>5. UNCHANGED <<ambiguous, epoch, sess, lock, stale, sweep, purges, thread, tainted>>
  BY DEF Discard
<1>6. /\ sessions' \in [Key -> Session \cup {NoSession}]
      /\ keyVersions' \in [Key -> Nat] /\ dead' \in SUBSET Session
      /\ \A j \in Key : sessions'[j] # NoSession =>
           sessions'[j] = sessions[j] /\ keyVersions'[j] = keyVersions[j]
  BY <1>1, DeleteIfFacts DEF Discard
<1>7. TypeOK'
  BY <1>4, <1>5, <1>6 DEF Inv, TypeOK
<1>8. BindingCurrent' /\ AmbiguousUnbound'
  BY <1>5, <1>6, RemovalKeepsBindings DEF Inv
<1>9. \A j \in Key : CleanBinding(j)'
  BY <1>5, <1>6, RemovalKeepsClean DEF Inv, TypeOK
<1>10. Held(r)' /\ Attempt(r)' /\ CleanAttempt(r)'
  BY <1>3, <1>4 DEF Held, Attempt, CleanAttempt, Holding, Acquiring
<1>11. Locked' /\ Attempts' /\ (\A q \in Request : CleanAttempt(q)')
  <2>1. \A x \in Session : lock'[x] = lock[x] /\ lock[x] # r
    BY <1>1, <1>5 DEF Inv, Locked, MutexNotStranded
  <2>2. \A x \in Session, j \in Key : sessions'[j] = x => sessions[j] = x
    BY <1>6
  <2>3. QED BY <1>4, <1>5, <1>7, <1>10, <2>1, <2>2, OtherRequests
<1>12. QED BY <1>7, <1>8, <1>9, <1>11 DEF Inv, Clean

-----------------------------------------------------------------------------
(* Starting an attempt in a new session.                                   *)

\* Nobody knows a session that is allocated.
LEMMA UnreachableFacts ==
  ASSUME Inv, NEW s \in Session \ Reachable
  PROVE  /\ s # NoSession /\ lock[s] = NoOne
         /\ \A k \in Key : sessions[k] # s
         /\ \A q \in Request : req[q].pc \in Holding => req[q].cur # s
<1> USE SessionAssumption
<1>1. \A q \in Request : req[q].pc \in Holding => req[q].cur # s
  BY DEF Reachable, Active, Holding
<1>2. lock[s] = NoOne
  BY <1>1 DEF Inv, TypeOK, Locked, MutexNotStranded
<1>3. QED BY <1>1, <1>2 DEF Reachable

\* The fields of a new session.
LEMMA NewFieldsType ==
  ASSUME NEW k \in Key \cup {NoKey}, NEW e \in Nat, NEW v \in Nat, NEW a \in Account
  PROVE  /\ NewFields(k, e, v, a) \in SessionFields
         /\ NewFields(k, e, v, a).key = k /\ NewFields(k, e, v, a).epoch = e
         /\ NewFields(k, e, v, a).version = v /\ ~NewFields(k, e, v, a).answered
BY DEF NewFields, SessionFields

\* An attempt of request r in the new session s: whatever happens to the
\* table, s is bound at most under the key of the attempt.
FreshStep(r, s) ==
  /\ s \in Session \ Reachable
  /\ req' = [req EXCEPT ![r] = req'[r]] /\ req'[r] \in RequestLocals
  /\ req'[r].pc = "infer" /\ req'[r].cur = s /\ ~req'[r].reused
  /\ sess' = [sess EXCEPT ![s] = sess'[s]] /\ sess'[s] \in SessionFields
  /\ ~sess'[s].answered
  /\ req'[r].cacheable => req'[r].key \in Key /\ sess'[s].key = req'[r].key
  /\ ~req'[r].cacheable => \A k \in Key : sessions'[k] # s
  /\ thread' = [thread EXCEPT ![s] = <<>>]
  /\ stale' = stale \ {s} /\ tainted' = tainted \ {s}
  /\ UNCHANGED <<epoch, sweep, purges>>
  /\ sessions' \in [Key -> Session \cup {NoSession}]
  /\ ambiguous' \in [Key -> {"none", "live", "past"}]
  /\ keyVersions' \in [Key -> Nat] /\ dead' \in SUBSET Session
  /\ \A k \in Key : sessions'[k] \in {sessions[k], s, NoSession}
  /\ lock' \in [Session -> Request \cup {NoOne}]
  /\ lock'[s] = r
  /\ \A x \in Session \ {s} : lock'[x] = IF lock[x] = r THEN NoOne ELSE lock[x]
  /\ \A k \in Key : sessions'[k] # NoSession /\ sessions'[k] # s =>
       lock[sessions'[k]] # r

LEMMA FreshAttempt ==
  ASSUME Inv, NEW r \in Request, NEW s, FreshStep(r, s),
         BindingCurrent', AmbiguousUnbound'
  PROVE  Inv'
<1> USE SessionAssumption
<1>1. /\ s \in Session /\ s # NoSession /\ lock[s] = NoOne
      /\ \A k \in Key : sessions[k] # s
      /\ \A q \in Request : req[q].pc \in Holding => req[q].cur # s
  BY UnreachableFacts DEF FreshStep
<1>2. /\ req' \in [Request -> RequestLocals]
      /\ \A q \in Request \ {r} : req'[q] = req[q]
  <2>1. req \in [Request -> RequestLocals]
    BY DEF Inv, TypeOK
  <2>2. req' = [req EXCEPT ![r] = req'[r]] /\ req'[r] \in RequestLocals
    BY DEF FreshStep
  <2>3. QED BY <2>1, <2>2
<1>3. /\ sess' \in [Session -> SessionFields]
      /\ \A x \in Session \ {s} : sess'[x] = sess[x] /\ thread'[x] = thread[x]
      /\ thread' \in [Session -> Seq(Turn)]
  <2>1. sess \in [Session -> SessionFields] /\ thread \in [Session -> Seq(Turn)]
    BY DEF Inv, TypeOK
  <2>2. sess' = [sess EXCEPT ![s] = sess'[s]] /\ thread' = [thread EXCEPT ![s] = <<>>]
        /\ sess'[s] \in SessionFields
    BY DEF FreshStep
  <2>3. QED BY <1>1, <2>1, <2>2
<1>4. TypeOK'
  BY <1>1, <1>2, <1>3 DEF Inv, TypeOK, FreshStep
<1>5. \A j \in Key : CleanBinding(j)'
  <2> SUFFICES ASSUME NEW j \in Key, sessions'[j] # NoSession,
                      lock'[sessions'[j]] = NoOne
               PROVE  /\ sessions'[j] \notin tainted'
                      /\ sess'[sessions'[j]].answered => Faithful(sessions[j])'
    BY DEF CleanBinding, Faithful
  <2>1. sessions'[j] # s
    BY <1>1 DEF FreshStep
  <2>2. sessions'[j] = sessions[j] /\ sessions[j] \in Session \ {s}
    BY <2>1, <1>1, <1>4 DEF FreshStep, TypeOK
  <2>3. lock[sessions[j]] = NoOne
    BY <2>1, <2>2 DEF FreshStep
  <2>4. QED BY <2>2, <2>3, <1>3 DEF FreshStep, Inv, Clean, CleanBinding, Faithful
<1>6. Held(r)' /\ Attempt(r)' /\ CleanAttempt(r)'
  BY <1>1, <1>2, <1>3 DEF FreshStep, Held, Attempt, CleanAttempt, Holding, Acquiring
<1>7. Locked' /\ Attempts' /\ (\A q \in Request : CleanAttempt(q)')
  <2>1. \A x \in Session : lock'[x] = r => x = s
    BY <1>1 DEF FreshStep
  <2>2. \A x \in Session : lock[x] \notin {r, NoOne} =>
          /\ x # s /\ sess'[x] = sess[x] /\ thread'[x] = thread[x]
          /\ x \in tainted' => x \in tainted
          /\ \A k \in Key : sessions'[k] = x => sessions[k] = x
    BY <1>1, <1>3 DEF FreshStep
  <2>3. \A x \in Session : lock'[x] # lock[x] => {lock[x], lock'[x]} \subseteq {r, NoOne}
    BY <1>1 DEF FreshStep
  <2>4. r \in Request /\ req'[r].pc \in Holding /\ req'[r].cur = s
    BY DEF FreshStep, Holding
  <2>5. QED BY <1>2, <1>4, <1>6, <2>1, <2>2, <2>3, <2>4, OtherRequests
<1>8. QED BY <1>4, <1>5, <1>7 DEF Inv, Clean

LEMMA StartIsolatedInv ==
  ASSUME Inv, NEW r \in Request, StartIsolated(r)
  PROVE  Inv'
<1> USE SessionAssumption, KeyAssumption
<1>1. PICK s \in Session, a \in Account :
        /\ Allocate(s, r, NewFields(NoKey, 0, 0, a))
        /\ dead' = dead \ {s}
        /\ req' = [req EXCEPT ![r].pc = "infer", ![r].cur = s,
                              ![r].cacheable = FALSE, ![r].reused = FALSE,
                              ![r].attempts = @ + 1]
  BY DEF StartIsolated
<1> DEFINE f == NewFields(NoKey, 0, 0, a)
           l == [req[r] EXCEPT !.pc = "infer", !.cur = s, !.cacheable = FALSE,
                               !.reused = FALSE, !.attempts = @ + 1]
<1>2. /\ f \in SessionFields /\ ~f.answered
  BY NewFieldsType
<1>3. /\ req \in [Request -> RequestLocals] /\ req[r] \in RequestLocals
      /\ req[r].pc \in Acquiring
  BY DEF Inv, TypeOK, StartIsolated
<1>4. /\ l \in RequestLocals /\ l.pc = "infer" /\ l.cur = s /\ ~l.reused /\ ~l.cacheable
  <2>1. req[r].attempts + 1 \in Nat
    BY <1>3 DEF RequestLocals
  <2>2. QED BY <1>1, <1>3, <2>1 DEF RequestLocals, Pc
<1>5. req' = [req EXCEPT ![r] = l]
  BY <1>1, <1>3
<1> HIDE DEF f, l
<1>6. /\ s \in Session \ Reachable /\ s # NoSession /\ lock[s] = NoOne
      /\ \A k \in Key : sessions[k] # s
  BY <1>1, UnreachableFacts DEF Allocate
<1>7. /\ sess' = [sess EXCEPT ![s] = f] /\ lock' = [lock EXCEPT ![s] = r]
      /\ stale' = stale \ {s} /\ tainted' = tainted \ {s} /\ dead' = dead \ {s}
      /\ thread' = [thread EXCEPT ![s] = <<>>]
      /\ UNCHANGED <<sessions, ambiguous, keyVersions, epoch, sweep, purges>>
  BY <1>1 DEF StartIsolated, Allocate, table, f
<1>8. BindingCurrent' /\ AmbiguousUnbound'
  BY <1>6, <1>7 DEF Inv, BindingCurrent, AmbiguousUnbound, TypeOK
<1>9. /\ sessions' \in [Key -> Session \cup {NoSession}]
      /\ ambiguous' \in [Key -> {"none", "live", "past"}]
      /\ keyVersions' \in [Key -> Nat] /\ dead' \in SUBSET Session
      /\ lock \in [Session -> Request \cup {NoOne}]
      /\ lock' \in [Session -> Request \cup {NoOne}]
  BY <1>7 DEF Inv, TypeOK
<1>10. \A x \in Session : lock[x] # r
  BY <1>3 DEF Inv, Locked, MutexNotStranded, Holding, Acquiring
<1>11. /\ lock'[s] = r
       /\ \A x \in Session \ {s} : lock'[x] = IF lock[x] = r THEN NoOne ELSE lock[x]
       /\ \A k \in Key : sessions'[k] # NoSession /\ sessions'[k] # s => lock[sessions'[k]] # r
       /\ \A k \in Key : sessions'[k] \in {sessions[k], s, NoSession}
       /\ \A k \in Key : sessions'[k] # s
  BY <1>6, <1>7, <1>9, <1>10
<1>12. req'[r] = l /\ sess'[s] = f
  BY <1>3, <1>5, <1>6, <1>7 DEF Inv, TypeOK
<1>13. FreshStep(r, s)
  BY <1>2, <1>4, <1>5, <1>6, <1>7, <1>9, <1>11, <1>12 DEF FreshStep
<1>14. QED BY <1>8, <1>13, FreshAttempt

LEMMA PrepublishInv ==
  ASSUME Inv, NEW r \in Request, Prepublish(r)
  PROVE  Inv'
<1> DEFINE k == req[r].key
<1> USE SessionAssumption, KeyAssumption
<1>1. PICK s \in Session, a \in Account :
        /\ Allocate(s, r, NewFields(k, epoch, keyVersions[k], a))
        /\ sessions' = [sessions EXCEPT ![k] = s]
        /\ dead' = dead \ {s}
        /\ req' = [req EXCEPT ![r].pc = "infer", ![r].cur = s,
                              ![r].cacheable = TRUE, ![r].reused = FALSE,
                              ![r].attempts = @ + 1]
  BY DEF Prepublish
<1> DEFINE f == NewFields(k, epoch, keyVersions[k], a)
           l == [req[r] EXCEPT !.pc = "infer", !.cur = s, !.cacheable = TRUE,
                               !.reused = FALSE, !.attempts = @ + 1]
<1>2. /\ req \in [Request -> RequestLocals] /\ req[r] \in RequestLocals
      /\ req[r].pc \in Acquiring /\ k \in Key /\ ~IsAmbiguous(k) /\ k # NoKey
      /\ epoch \in Nat /\ keyVersions[k] \in Nat /\ ambiguous' = Reread(k)
      /\ ambiguous \in [Key -> {"none", "live", "past"}]
      /\ sessions \in [Key -> Session \cup {NoSession}]
  BY DEF Inv, TypeOK, Prepublish, RequestLocals
<1>3. /\ f \in SessionFields /\ ~f.answered /\ f.key = k /\ f.epoch = epoch
      /\ f.version = keyVersions[k]
  BY <1>2, NewFieldsType
<1>4. /\ l \in RequestLocals /\ l.pc = "infer" /\ l.cur = s /\ ~l.reused
      /\ l.cacheable /\ l.key = k
  <2>1. req[r].attempts + 1 \in Nat
    BY <1>2 DEF RequestLocals
  <2>2. QED BY <1>1, <1>2, <2>1 DEF RequestLocals, Pc
<1>5. req' = [req EXCEPT ![r] = l]
  BY <1>1, <1>2
<1> HIDE DEF f, l
<1>6. /\ s \in Session \ Reachable /\ s # NoSession /\ lock[s] = NoOne
      /\ \A j \in Key : sessions[j] # s
  BY <1>1, UnreachableFacts DEF Allocate
<1>7. /\ sess' = [sess EXCEPT ![s] = f] /\ lock' = [lock EXCEPT ![s] = r]
      /\ stale' = stale \ {s} /\ tainted' = tainted \ {s} /\ dead' = dead \ {s}
      /\ thread' = [thread EXCEPT ![s] = <<>>]
      /\ UNCHANGED <<keyVersions, epoch, sweep, purges>>
  BY <1>1 DEF Prepublish, Allocate, f
<1>8. BindingCurrent'
  <2> SUFFICES ASSUME NEW j \in Key, sessions'[j] # NoSession
      PROVE  /\ sess'[sessions'[j]].key = j
             /\ sess'[sessions'[j]].epoch = epoch
             /\ sess'[sessions'[j]].version = keyVersions[j]
    BY <1>7 DEF BindingCurrent
  <2>1. sess \in [Session -> SessionFields]
    BY DEF Inv, TypeOK
  <2>2. CASE j = k
    <3>1. sess'[sessions'[j]] = f
      BY <2>1, <2>2, <1>1, <1>2, <1>6, <1>7
    <3>2. QED BY <3>1, <2>2, <1>3
  <2>3. CASE j # k
    <3>1. sessions'[j] = sessions[j] /\ sess'[sessions'[j]] = sess[sessions[j]]
      BY <2>1, <2>3, <1>1, <1>2, <1>6, <1>7
    <3>2. QED BY <3>1 DEF Inv, BindingCurrent
  <2>4. QED BY <2>2, <2>3
<1>9. AmbiguousUnbound'
  <2>1. ambiguous'[k] = "none"
    BY <1>2 DEF Reread, IsAmbiguous
  <2>2. \A j \in Key \ {k} : ambiguous'[j] = ambiguous[j] /\ sessions'[j] = sessions[j]
    BY <1>1, <1>2 DEF Reread
  <2>3. QED BY <2>1, <2>2 DEF Inv, AmbiguousUnbound
<1>10. /\ sessions' \in [Key -> Session \cup {NoSession}]
       /\ ambiguous' \in [Key -> {"none", "live", "past"}]
       /\ keyVersions' \in [Key -> Nat] /\ dead' \in SUBSET Session
       /\ lock \in [Session -> Request \cup {NoOne}]
       /\ lock' \in [Session -> Request \cup {NoOne}]
  BY <1>1, <1>2, <1>7, RereadFacts DEF Inv, TypeOK
<1>11. \A x \in Session : lock[x] # r
  BY <1>2 DEF Inv, Locked, MutexNotStranded, Holding, Acquiring
<1>12. /\ lock'[s] = r
       /\ \A x \in Session \ {s} : lock'[x] = IF lock[x] = r THEN NoOne ELSE lock[x]
       /\ \A j \in Key : sessions'[j] # NoSession /\ sessions'[j] # s => lock[sessions'[j]] # r
       /\ \A j \in Key : sessions'[j] \in {sessions[j], s, NoSession}
  BY <1>1, <1>2, <1>6, <1>7, <1>10, <1>11
<1>13. req'[r] = l /\ sess'[s] = f
  BY <1>2, <1>5, <1>6, <1>7 DEF Inv, TypeOK
<1>14. FreshStep(r, s)
  BY <1>2, <1>3, <1>4, <1>5, <1>6, <1>7, <1>10, <1>12, <1>13 DEF FreshStep
<1>15. QED BY <1>8, <1>9, <1>14, FreshAttempt

-----------------------------------------------------------------------------
(* The checks of a session whose mutex was awaited.                        *)

LEMMA CheckSessionInv ==
  ASSUME Inv, NEW r \in Request, CheckSession(r)
  PROVE  Inv'
<1> DEFINE k == req[r].key
           s == req[r].cur
           clientKey == ContinuationKey(req[r].hist)
<1> USE SessionAssumption, KeyAssumption
<1>1. /\ req \in [Request -> RequestLocals] /\ req[r] \in RequestLocals
      /\ req[r].pc = "wait" /\ k \in Key /\ s \in Session /\ lock[s] = NoOne
      /\ ambiguous' = Reread(k)
      /\ sess \in [Session -> SessionFields]
      /\ lock \in [Session -> Request \cup {NoOne}]
  BY DEF CheckSession, Inv, TypeOK, Attempts, Attempt
<1>2. UNCHANGED <<sessions, keyVersions, epoch, sess, stale, sweep, purges,
                  thread, tainted, dead>>
  BY DEF CheckSession
<1>3. CASE ~IsCurrent(k, s)
  <2> DEFINE l == [req[r] EXCEPT !.pc = "acquire", !.cur = NoSession]
  <2>1. req' = [req EXCEPT ![r] = l] /\ UNCHANGED lock
    BY <1>1, <1>3 DEF CheckSession
  <2>2. l \in RequestLocals /\ l.pc = "acquire" /\ l.cur = NoSession
    BY <1>1 DEF RequestLocals, Pc
  <2>3. Attempt(r)'
    BY <1>1, <2>1, <2>2 DEF Attempt, Acquiring
  <2>4. req[r].pc \notin Holding /\ l.pc \notin Holding
    BY <1>1, <2>2 DEF Holding
  <2> HIDE DEF l
  <2>5. QED BY <1>1, <1>2, <2>1, <2>2, <2>3, <2>4, LookupInv
<1>4. CASE IsCurrent(k, s)
  <2>1. /\ sessions[k] = s /\ sess[s].key = k /\ ~IsAmbiguous(k)
        /\ s \notin tainted
        /\ sess[s].answered => Faithful(s)
    BY <1>1, <1>4 DEF IsCurrent, Inv, Clean, CleanBinding
  <2>2. lock' = [lock EXCEPT ![s] = r]
    BY <1>4 DEF CheckSession
  <2>3. PICK l \in RequestLocals :
          /\ req' = [req EXCEPT ![r] = l]
          /\ l.pc \in {"mismatch", "duplicate", "infer"}
          /\ l.key = k /\ l.cur = s /\ l.hist = req[r].hist
          /\ l.pc = "infer" => l.cacheable
          /\ l.pc = "infer" /\ l.reused => sess[s].answered /\ sess[s].expected = clientKey
    <3>1. CASE sess[s].answered /\ sess[s].expected # clientKey
      <4> DEFINE l == [req[r] EXCEPT !.pc = "mismatch"]
      <4>1. req' = [req EXCEPT ![r] = l]
        BY <1>1, <1>4, <3>1 DEF CheckSession, Goto
      <4>2. /\ l \in RequestLocals /\ l.pc = "mismatch"
            /\ l.key = k /\ l.cur = s /\ l.hist = req[r].hist
        BY <1>1 DEF RequestLocals, Pc
      <4>3. QED BY <4>1, <4>2
    <3>2. CASE /\ ~(sess[s].answered /\ sess[s].expected # clientKey)
               /\ req[r].raw > sess[s].raw
      <4> DEFINE l == [req[r] EXCEPT !.pc = "infer", !.cacheable = TRUE,
                                     !.reused = sess[s].answered,
                                     !.attempts = @ + 1]
      <4>0. req[r].raw \in Nat /\ sess[s].raw \in Nat
        BY <1>1 DEF RequestLocals, SessionFields
      <4>1. req' = [req EXCEPT ![r] = l]
        <5>1. ~(req[r].raw <= sess[s].raw)
          BY <3>2, <4>0
        <5>2. QED BY <1>1, <1>4, <3>2, <5>1 DEF CheckSession
      <4>2. sess[s].answered \in BOOLEAN /\ req[r].attempts + 1 \in Nat
        BY <1>1 DEF SessionFields, RequestLocals
      <4>3. /\ l \in RequestLocals /\ l.pc = "infer" /\ l.cacheable
            /\ l.reused = sess[s].answered
            /\ l.key = k /\ l.cur = s /\ l.hist = req[r].hist
        BY <1>1, <4>2 DEF RequestLocals, Pc
      <4>4. QED BY <3>2, <4>1, <4>3
    <3>3. CASE /\ ~(sess[s].answered /\ sess[s].expected # clientKey)
               /\ ~(req[r].raw > sess[s].raw)
      <4> DEFINE l == [req[r] EXCEPT !.pc = "duplicate"]
      <4>1. req' = [req EXCEPT ![r] = l]
        BY <1>1, <1>4, <3>3 DEF CheckSession, Goto
      <4>2. /\ l \in RequestLocals /\ l.pc = "duplicate"
            /\ l.key = k /\ l.cur = s /\ l.hist = req[r].hist
        BY <1>1 DEF RequestLocals, Pc
      <4>3. QED BY <4>1, <4>2
    <3>4. QED BY <3>1, <3>2, <3>3
  <2>4. /\ req' \in [Request -> RequestLocals] /\ req'[r] = l
        /\ \A q \in Request \ {r} : req'[q] = req[q]
    BY <1>1, <2>3
  <2>5. /\ ambiguous' \in [Key -> {"none", "live", "past"}]
        /\ \A j \in Key : ambiguous'[j] # "none" => ambiguous[j] # "none"
    BY <1>1, RereadFacts DEF Inv
  <2>6. TypeOK'
    BY <1>1, <1>2, <2>2, <2>4, <2>5 DEF Inv, TypeOK
  <2>7. BindingCurrent' /\ AmbiguousUnbound'
    BY <1>2, <2>5 DEF Inv, BindingCurrent, AmbiguousUnbound
  <2>8. \A j \in Key : CleanBinding(j)'
    <3> SUFFICES ASSUME NEW j \in Key, sessions[j] # NoSession,
                        lock'[sessions[j]] = NoOne
                 PROVE  /\ sessions[j] \notin tainted
                        /\ sess[sessions[j]].answered => Faithful(sessions[j])
      BY <1>2 DEF CleanBinding, Faithful
    <3>1. lock[sessions[j]] = NoOne
      BY <1>1, <2>2 DEF Inv, TypeOK
    <3>2. QED BY <3>1 DEF Inv, Clean, CleanBinding
  <2>9. ContinuationKey(req[r].hist) \in Key => ContinuationKey(req[r].hist) = req[r].hist
    BY DEF ContinuationKey
  <2>10. Held(r)' /\ Attempt(r)' /\ CleanAttempt(r)'
    BY <1>1, <1>2, <2>1, <2>2, <2>3, <2>4, <2>9
    DEF Held, Attempt, CleanAttempt, Faithful, Holding
  <2>11. Locked' /\ Attempts' /\ (\A q \in Request : CleanAttempt(q)')
    <3>1. \A x \in Session : lock[x] # r
      BY <1>1 DEF Inv, Locked, MutexNotStranded, Holding, Acquiring
    <3>2. \A x \in Session : lock'[x] = r => req'[r].cur = x /\ req'[r].pc \in Holding
      BY <1>1, <2>2, <2>3, <2>4, <3>1 DEF Holding
    <3>3. \A x \in Session : lock'[x] # lock[x] => {lock[x], lock'[x]} \subseteq {r, NoOne}
      BY <1>1, <2>2
    <3>4. QED BY <1>2, <2>4, <2>6, <2>10, <3>2, <3>3, OtherRequests
  <2>12. QED BY <2>6, <2>7, <2>8, <2>11 DEF Inv, Clean
<1>5. QED BY <1>3, <1>4

LEMMA RejectMismatchInv ==
  ASSUME Inv, NEW r \in Request, RejectMismatch(r)
  PROVE  Inv'
<1> DEFINE s == req[r].cur
           l == [req[r] EXCEPT !.pc = "acquire", !.cur = NoSession]
<1> USE SessionAssumption, KeyAssumption
<1>1. /\ req \in [Request -> RequestLocals] /\ req[r] \in RequestLocals
      /\ req[r].pc = "mismatch" /\ req[r].key \in Key
      /\ s \in Session /\ lock[s] = r /\ sess[s].key = req[r].key
  BY DEF Inv, TypeOK, Attempts, Attempt, Locked, Held, Holding, RejectMismatch
<1>2. req' = [req EXCEPT ![r] = l]
  BY <1>1 DEF RejectMismatch
<1>3. l \in RequestLocals /\ l.pc = "acquire" /\ l.cur = NoSession
  BY <1>1 DEF RequestLocals, Pc
<1> HIDE DEF l
<1>4. /\ req' \in [Request -> RequestLocals] /\ req'[r] = l
      /\ \A q \in Request \ {r} : req'[q] = req[q]
  BY <1>1, <1>2, <1>3
<1>5. /\ lock' = [lock EXCEPT ![s] = NoOne]
      /\ UNCHANGED <<ambiguous, epoch, sess, stale, sweep, purges, thread, tainted>>
  BY DEF RejectMismatch
<1>6. /\ sessions' \in [Key -> Session \cup {NoSession}]
      /\ keyVersions' \in [Key -> Nat] /\ dead' \in SUBSET Session
      /\ \A j \in Key : sessions'[j] # NoSession =>
           sessions'[j] = sessions[j] /\ keyVersions'[j] = keyVersions[j]
      /\ \A j \in Key : sessions'[j] # s
  BY <1>1, DeleteIfFacts DEF RejectMismatch
<1>7. TypeOK'
  BY <1>1, <1>4, <1>5, <1>6 DEF Inv, TypeOK
<1>8. BindingCurrent' /\ AmbiguousUnbound'
  BY <1>5, <1>6, RemovalKeepsBindings DEF Inv
<1>9. \A j \in Key : CleanBinding(j)'
  BY <1>1, <1>5, <1>6, RemovalKeepsClean DEF Inv, TypeOK
<1>10. Held(r)' /\ Attempt(r)' /\ CleanAttempt(r)'
  BY <1>3, <1>4 DEF Held, Attempt, CleanAttempt, Holding, Acquiring
<1>11. Locked' /\ Attempts' /\ (\A q \in Request : CleanAttempt(q)')
  <2>1. lock \in [Session -> Request \cup {NoOne}]
    BY DEF Inv, TypeOK
  <2>2. \A x \in Session : lock'[x] # r
    BY <1>1, <1>5, <2>1 DEF Inv, Locked, MutexNotStranded
  <2>3. QED BY <1>1, <1>4, <1>5, <1>6, <1>7, <1>10, <2>1, <2>2, OtherRequests
<1>12. QED BY <1>7, <1>8, <1>9, <1>11 DEF Inv, Clean

LEMMA RejectDuplicateInv ==
  ASSUME Inv, NEW r \in Request, RejectDuplicate(r)
  PROVE  Inv'
<1> DEFINE k == req[r].key
           old == req[r].cur
<1> USE SessionAssumption, KeyAssumption
<1>1. /\ req \in [Request -> RequestLocals] /\ req[r] \in RequestLocals
      /\ req[r].pc = "duplicate" /\ k \in Key
      /\ old \in Session /\ lock[old] = r /\ sess[old].key = k
      /\ sess \in [Session -> SessionFields]
      /\ sessions \in [Key -> Session \cup {NoSession}]
      /\ lock \in [Session -> Request \cup {NoOne}]
  BY DEF Inv, TypeOK, Attempts, Attempt, Locked, Held, Holding, RejectDuplicate
<1>2. PICK s \in Session \ Reachable, a \in Account :
        /\ Unbind({k})
        /\ ambiguous' = [ambiguous EXCEPT ![k] = "live"]
        /\ dead' = (dead \cup ({sessions[k]} \ {NoSession})) \ {s}
        /\ lock' = [lock EXCEPT ![old] = NoOne, ![s] = r]
        /\ sess' = [sess EXCEPT ![s] = NewFields(NoKey, 0, 0, a)]
        /\ stale' = stale \ {s}
        /\ thread' = [thread EXCEPT ![s] = <<>>]
        /\ tainted' = tainted \ {s}
        /\ req' = [req EXCEPT ![r].pc = "infer", ![r].cur = s,
                              ![r].cacheable = FALSE, ![r].reused = FALSE,
                              ![r].attempts = @ + 1]
  BY DEF RejectDuplicate
<1> DEFINE f == NewFields(NoKey, 0, 0, a)
           l == [req[r] EXCEPT !.pc = "infer", !.cur = s, !.cacheable = FALSE,
                               !.reused = FALSE, !.attempts = @ + 1]
<1>3. /\ s \in Session /\ s # NoSession /\ lock[s] = NoOne
      /\ \A j \in Key : sessions[j] # s
  BY UnreachableFacts
<1>4. f \in SessionFields /\ ~f.answered
  BY NewFieldsType
<1>5. /\ l \in RequestLocals /\ l.pc = "infer" /\ l.cur = s /\ ~l.reused /\ ~l.cacheable
  <2>1. req[r].attempts + 1 \in Nat
    BY <1>1 DEF RequestLocals
  <2>2. QED BY <1>1, <1>3, <2>1 DEF RequestLocals, Pc
<1>6. req' = [req EXCEPT ![r] = l] /\ sess' = [sess EXCEPT ![s] = f]
  BY <1>1, <1>2
<1> HIDE DEF f, l
<1>7. req'[r] = l /\ sess'[s] = f
  BY <1>1, <1>3, <1>6
<1>8. /\ sessions' \in [Key -> Session \cup {NoSession}]
      /\ keyVersions' \in [Key -> Nat]
      /\ \A j \in Key : sessions'[j] # NoSession =>
           sessions'[j] = sessions[j] /\ keyVersions'[j] = keyVersions[j]
      /\ sessions'[k] = NoSession
  <2>1. TypeOK /\ BindingCurrent /\ {k} \in SUBSET Key /\ Unbind({k})
    BY <1>1, <1>2 DEF Inv
  <2>2. QED BY <2>1, UnbindFacts
<1>9. UNCHANGED <<epoch, sweep, purges>>
  BY DEF RejectDuplicate
<1>10. /\ ambiguous' \in [Key -> {"none", "live", "past"}]
       /\ dead' \in SUBSET Session
       /\ lock' \in [Session -> Request \cup {NoOne}]
  BY <1>1, <1>2, <1>3 DEF Inv, TypeOK
<1>11. /\ \A x \in Session : lock[x] = r => x = old
       /\ \A j \in Key : sessions'[j] # old
  <2>1. \A x \in Session : lock[x] = r => x = old
    BY DEF Inv, Locked, MutexNotStranded
  <2>2. \A j \in Key : sessions[j] = old => j = k
    BY <1>1 DEF Inv, BindingCurrent, TypeOK
  <2>3. QED BY <2>1, <2>2, <1>8, <1>1
<1>12. /\ lock'[s] = r
       /\ \A x \in Session \ {s} : lock'[x] = IF lock[x] = r THEN NoOne ELSE lock[x]
       /\ \A j \in Key : sessions'[j] # NoSession /\ sessions'[j] # s => lock[sessions'[j]] # r
       /\ \A j \in Key : sessions'[j] \in {sessions[j], s, NoSession}
       /\ \A j \in Key : sessions'[j] # s
  <2>1. lock'[s] = r /\ \A x \in Session \ {s} : lock'[x] = IF x = old THEN NoOne ELSE lock[x]
    BY <1>1, <1>2, <1>3
  <2>2. \A j \in Key : sessions'[j] # NoSession /\ sessions'[j] # s => lock[sessions'[j]] # r
    BY <1>8, <1>11
  <2>3. \A j \in Key : sessions'[j] \in {sessions[j], NoSession}
    BY <1>8
  <2>4. QED BY <2>1, <2>2, <2>3, <1>1, <1>3, <1>11
<1>13. FreshStep(r, s)
  BY <1>2, <1>3, <1>4, <1>5, <1>6, <1>7, <1>8, <1>9, <1>10, <1>12 DEF FreshStep
<1>14. BindingCurrent'
  <2> SUFFICES ASSUME NEW j \in Key, sessions'[j] # NoSession
      PROVE  /\ sess'[sessions'[j]].key = j
             /\ sess'[sessions'[j]].epoch = epoch
             /\ sess'[sessions'[j]].version = keyVersions'[j]
    BY <1>9 DEF BindingCurrent
  <2>1. sessions'[j] = sessions[j] /\ keyVersions'[j] = keyVersions[j]
    BY <1>8
  <2>2. sess'[sessions[j]] = sess[sessions[j]]
    BY <1>1, <1>3, <1>6
  <2>3. QED BY <2>1, <2>2 DEF Inv, BindingCurrent
<1>15. AmbiguousUnbound'
  BY <1>2, <1>8 DEF Inv, TypeOK, AmbiguousUnbound
<1>16. QED BY <1>13, <1>14, <1>15, FreshAttempt

-----------------------------------------------------------------------------
(* The end of an attempt.                                                  *)

LEMMA PublishStableInv ==
  ASSUME Inv, NEW r \in Request, PublishStable(r)
  PROVE  Inv'
<1> DEFINE s == req[r].cur
           h == req[r].hist
           l == [req[r] EXCEPT !.pc = "published"]
<1> USE SessionAssumption, KeyAssumption
<1>1. /\ req \in [Request -> RequestLocals] /\ req[r] \in RequestLocals
      /\ req[r].pc = "infer" /\ s \in Session /\ lock[s] = r /\ s \notin tainted
      /\ sess \in [Session -> SessionFields]
      /\ thread \in [Session -> Seq(Turn)]
  BY DEF Inv, TypeOK, Locked, Held, Clean, CleanAttempt, Holding, Acquiring, PublishStable
<1>2. h \in History
  BY <1>1 DEF RequestLocals
<1>3. PICK t \in Turn :
        /\ sess' = [sess EXCEPT ![s].expected = Append(h, t)]
        /\ thread' = [thread EXCEPT ![s] = AnsweredThread(r, t)]
  BY DEF PublishStable
<1> DEFINE new == Append(h, t)
<1>4. new \in Key /\ new \in Seq(Turn)
  BY <1>2, AppendIsKey
<1>5. AnsweredThread(r, t) = new
  BY <1>1 DEF AnsweredThread, Inv, Clean, CleanAttempt
<1> HIDE DEF new
<1>6. /\ sess'[s] = [sess[s] EXCEPT !.expected = new] /\ thread'[s] = new
      /\ \A x \in Session \ {s} : sess'[x] = sess[x] /\ thread'[x] = thread[x]
  BY <1>1, <1>3, <1>5 DEF new
<1>7. /\ sess' \in [Session -> SessionFields]
      /\ thread' \in [Session -> Seq(Turn)]
      /\ \A x \in Session : /\ sess'[x].key = sess[x].key /\ sess'[x].epoch = sess[x].epoch
                            /\ sess'[x].version = sess[x].version
      /\ sess'[s].expected = new
  <2>1. sess' = [sess EXCEPT ![s] = sess'[s]] /\ thread' = [thread EXCEPT ![s] = thread'[s]]
    BY <1>1, <1>3
  <2>2. /\ sess'[s] \in SessionFields /\ sess'[s].expected = new
        /\ sess'[s].key = sess[s].key /\ sess'[s].epoch = sess[s].epoch
        /\ sess'[s].version = sess[s].version
    <3>1. sess[s] \in SessionFields /\ new \in Key \cup {NoKey}
      BY <1>1, <1>4
    <3>2. sess'[s] = [sess[s] EXCEPT !.expected = new]
      BY <1>6
    <3>3. QED BY <3>1, <3>2 DEF SessionFields
  <2>3. thread' \in [Session -> Seq(Turn)]
    BY <1>1, <1>4, <1>6, <2>1
  <2>4. sess' \in [Session -> SessionFields]
    BY <1>1, <2>1, <2>2
  <2>5. QED BY <1>6, <2>2, <2>3, <2>4
<1>8. req' = [req EXCEPT ![r] = l]
  BY <1>1 DEF PublishStable, Goto
<1>9. /\ l \in RequestLocals /\ l.pc = "published" /\ l.key = req[r].key
      /\ l.cur = s /\ l.cacheable = req[r].cacheable
  BY <1>1 DEF RequestLocals, Pc
<1> HIDE DEF l
<1>10. /\ req' \in [Request -> RequestLocals] /\ req'[r] = l
       /\ \A q \in Request \ {r} : req'[q] = req[q]
  BY <1>1, <1>8, <1>9
<1>11. UNCHANGED <<sessions, ambiguous, keyVersions, epoch, lock, stale, sweep,
                   purges, tainted, dead>>
  BY DEF PublishStable, table
<1>12. TypeOK'
  BY <1>7, <1>10, <1>11 DEF Inv, TypeOK
<1>13. BindingCurrent' /\ AmbiguousUnbound'
  <2>1. AmbiguousUnbound'
    BY <1>11 DEF Inv, AmbiguousUnbound
  <2>2. ASSUME NEW j \in Key, sessions[j] # NoSession
        PROVE  /\ sess'[sessions[j]].key = j
               /\ sess'[sessions[j]].epoch = epoch
               /\ sess'[sessions[j]].version = keyVersions[j]
    <3>1. sessions[j] \in Session
      BY <2>2 DEF Inv, TypeOK
    <3>2. QED BY <2>2, <3>1, <1>7 DEF Inv, BindingCurrent
  <2>3. QED BY <2>1, <2>2, <1>11 DEF BindingCurrent
<1>14. \A j \in Key : CleanBinding(j)'
  <2> SUFFICES ASSUME NEW j \in Key, sessions[j] # NoSession,
                      lock[sessions[j]] = NoOne
               PROVE  /\ sessions[j] \notin tainted
                      /\ sess'[sessions[j]].answered => Faithful(sessions[j])'
    BY <1>11 DEF CleanBinding, Faithful
  <2>1. sessions[j] \in Session \ {s}
    BY <1>1 DEF Inv, TypeOK
  <2>2. QED BY <2>1, <1>6, <1>11 DEF Inv, Clean, CleanBinding, Faithful
<1>15. Held(r)' /\ Attempt(r)' /\ CleanAttempt(r)'
  <2>1. Attempt(r)'
    <3>1. IF req[r].cacheable
          THEN req[r].key \in Key /\ sess[s].key = req[r].key
          ELSE \A k \in Key : sessions[k] # s
      BY <1>1 DEF Inv, Attempts, Attempt
    <3>2. sess'[s].key = sess[s].key
      BY <1>1, <1>7
    <3>3. QED BY <1>9, <1>10, <1>11, <3>1, <3>2 DEF Attempt, Acquiring
  <2>2. QED
    BY <1>1, <1>4, <1>6, <1>7, <1>9, <1>10, <1>11, <2>1
    DEF Held, CleanAttempt, Faithful, Holding
<1>16. Locked' /\ Attempts' /\ (\A q \in Request : CleanAttempt(q)')
  <2>1. \A x \in Session : lock[x] = r => x = s
    BY DEF Inv, Locked, MutexNotStranded
  <2>2. \A x \in Session : lock'[x] = r => req'[r].cur = x /\ req'[r].pc \in Holding
    BY <1>9, <1>10, <1>11, <2>1 DEF Holding
  <2>3. \A x \in Session : lock[x] \notin {r, NoOne} =>
          sess'[x] = sess[x] /\ thread'[x] = thread[x]
    BY <1>1, <1>6
  <2>4. QED BY <1>10, <1>11, <1>12, <1>15, <2>2, <2>3, OtherRequests
<1>17. QED BY <1>12, <1>13, <1>14, <1>16 DEF Inv, Clean

LEMMA CompleteInv ==
  ASSUME Inv, NEW r \in Request, Complete(r)
  PROVE  Inv'
<1> DEFINE s == req[r].cur
           k == req[r].key
<1> USE SessionAssumption, KeyAssumption
<1>1. /\ req \in [Request -> RequestLocals] /\ req[r] \in RequestLocals
      /\ req[r].pc = "published" /\ s \in Session /\ lock[s] = r /\ s \notin tainted
      /\ Faithful(s) /\ req[r].raw \in Nat
      /\ sess \in [Session -> SessionFields]
      /\ sessions \in [Key -> Session \cup {NoSession}]
      /\ lock \in [Session -> Request \cup {NoOne}]
  BY DEF Inv, TypeOK, RequestLocals, Locked, Held, Clean, CleanAttempt, Holding, Acquiring, Complete
<1>2. /\ sess' = [sess EXCEPT ![s].answered = TRUE, ![s].raw = req[r].raw]
      /\ lock' = [lock EXCEPT ![s] = NoOne]
      /\ stale' = stale \ {s}
      /\ UNCHANGED <<keyVersions, epoch, sweep, purges, thread, tainted, dead>>
      /\ req' = [req EXCEPT ![r] = NoLocals("done")]
  BY DEF Complete, Return
<1>3. /\ sess' \in [Session -> SessionFields]
      /\ \A x \in Session : /\ sess'[x].key = sess[x].key /\ sess'[x].epoch = sess[x].epoch
                            /\ sess'[x].version = sess[x].version
                            /\ sess'[x].expected = sess[x].expected
      /\ \A x \in Session \ {s} : sess'[x] = sess[x]
  <2>1. /\ sess' = [sess EXCEPT ![s] = sess'[s]]
        /\ sess'[s] = [sess[s] EXCEPT !.answered = TRUE, !.raw = req[r].raw]
    BY <1>1, <1>2
  <2>2. /\ sess'[s] \in SessionFields
        /\ sess'[s].key = sess[s].key /\ sess'[s].epoch = sess[s].epoch
        /\ sess'[s].version = sess[s].version /\ sess'[s].expected = sess[s].expected
    <3>1. sess[s] \in SessionFields
      BY <1>1
    <3>2. QED BY <1>1, <2>1, <3>1 DEF SessionFields
  <2>3. QED BY <1>1, <2>1, <2>2
<1>4. /\ ambiguous' = ambiguous \/ ambiguous' = Reread(k)
      /\ \/ sessions' = sessions
         \/ /\ k \in Key /\ sessions' = [sessions EXCEPT ![k] = s]
            /\ ~IsAmbiguous(k) /\ ambiguous' = Reread(k)
            /\ sess[s].key = k /\ sess[s].epoch = epoch
            /\ sess[s].version = keyVersions[k]
  BY <1>1 DEF Complete, Inv, Attempts, Attempt
<1>5. /\ ambiguous' \in [Key -> {"none", "live", "past"}]
      /\ \A j \in Key : ambiguous'[j] # "none" => ambiguous[j] # "none"
  BY <1>4, RereadFacts DEF Inv, TypeOK
<1>6. /\ sessions' \in [Key -> Session \cup {NoSession}]
      /\ \A j \in Key : sessions'[j] # s => sessions'[j] = sessions[j]
  BY <1>1, <1>4
<1>7. /\ NoLocals("done") \in RequestLocals
      /\ NoLocals("done").pc = "done" /\ NoLocals("done").cur = NoSession
  BY NoLocalsType DEF NoLocals, Pc
<1>8. /\ req' \in [Request -> RequestLocals] /\ req'[r] = NoLocals("done")
      /\ \A q \in Request \ {r} : req'[q] = req[q]
  BY <1>1, <1>2, <1>7
<1>9. TypeOK'
  BY <1>1, <1>2, <1>3, <1>5, <1>6, <1>8 DEF Inv, TypeOK
<1>10. BindingCurrent'
  <2> SUFFICES ASSUME NEW j \in Key, sessions'[j] # NoSession
      PROVE  /\ sess[sessions'[j]].key = j
             /\ sess[sessions'[j]].epoch = epoch
             /\ sess[sessions'[j]].version = keyVersions[j]
    <3>1. \A j \in Key : sessions'[j] # NoSession => sessions'[j] \in Session
      BY <1>6
    <3>2. QED BY <3>1, <1>2, <1>3 DEF BindingCurrent
  <2>1. CASE sessions'[j] = sessions[j]
    BY <2>1 DEF Inv, BindingCurrent
  <2>2. CASE sessions'[j] # sessions[j]
    BY <2>2, <1>1, <1>4
  <2>3. QED BY <2>1, <2>2
<1>11. AmbiguousUnbound'
  <2> SUFFICES ASSUME NEW j \in Key, ambiguous'[j] # "none"
      PROVE  sessions'[j] = NoSession
    BY DEF AmbiguousUnbound
  <2>1. CASE sessions'[j] = sessions[j]
    BY <2>1, <1>5 DEF Inv, AmbiguousUnbound
  <2>2. CASE sessions'[j] # sessions[j]
    <3>1. j = k /\ ~IsAmbiguous(k) /\ ambiguous' = Reread(k) /\ k # NoKey
      BY <2>2, <1>1, <1>4
    <3>2. QED BY <3>1 DEF Reread, IsAmbiguous, Inv, TypeOK
  <2>3. QED BY <2>1, <2>2
<1>12. \A j \in Key : CleanBinding(j)'
  <2> SUFFICES ASSUME NEW j \in Key, sessions'[j] # NoSession,
                      lock'[sessions'[j]] = NoOne
               PROVE  /\ sessions'[j] \notin tainted
                      /\ sess'[sessions'[j]].answered =>
                           /\ sess[sessions'[j]].expected \in Key
                           /\ thread[sessions'[j]] = sess[sessions'[j]].expected
    <3>1. \A j \in Key : sessions'[j] # NoSession => sessions'[j] \in Session
      BY <1>6
    <3>2. QED BY <3>1, <1>2, <1>3 DEF CleanBinding, Faithful
  <2>1. CASE sessions'[j] = s
    BY <2>1, <1>1 DEF Faithful
  <2>2. CASE sessions'[j] # s
    <3>1. sessions'[j] = sessions[j] /\ sessions[j] \in Session \ {s}
      BY <2>2, <1>6
    <3>2. lock[sessions[j]] = NoOne
      BY <3>1, <1>1, <1>2
    <3>3. QED BY <3>1, <3>2, <1>3 DEF Inv, Clean, CleanBinding, Faithful
  <2>3. QED BY <2>1, <2>2
<1>13. Held(r)' /\ Attempt(r)' /\ CleanAttempt(r)'
  BY <1>7, <1>8 DEF Held, Attempt, CleanAttempt, Holding, Acquiring
<1>14. Locked' /\ Attempts' /\ (\A q \in Request : CleanAttempt(q)')
  <2>1. \A x \in Session : lock'[x] # r
    BY <1>1, <1>2 DEF Inv, Locked, MutexNotStranded
  <2>2. \A x \in Session : lock'[x] # lock[x] => {lock[x], lock'[x]} \subseteq {r, NoOne}
    BY <1>1, <1>2
  <2>3. \A x \in Session : lock[x] \notin {r, NoOne} =>
          /\ sess'[x] = sess[x]
          /\ \A j \in Key : sessions'[j] = x => sessions[j] = x
    BY <1>1, <1>3, <1>6
  <2>4. QED BY <1>2, <1>8, <1>9, <1>13, <2>1, <2>2, <2>3, OtherRequests
<1>15. QED BY <1>9, <1>10, <1>11, <1>12, <1>14 DEF Inv, Clean

LEMMA PanicInv ==
  ASSUME Inv, NEW r \in Request, Panic(r)
  PROVE  Inv'
<1> DEFINE s == req[r].cur
<1> USE SessionAssumption, KeyAssumption
<1>1. /\ req \in [Request -> RequestLocals] /\ req[r] \in RequestLocals
      /\ req[r].pc \in Holding /\ s \in Session /\ lock[s] = r
      /\ sess[s].key \in Key \cup {NoKey}
  BY DEF Inv, TypeOK, SessionFields, Locked, Held, Holding, Panic
<1>2. /\ lock' = [lock EXCEPT ![s] = NoOne]
      /\ tainted' = tainted \cup {s}
      /\ req' = [req EXCEPT ![r] = NoLocals("done")]
      /\ UNCHANGED <<ambiguous, epoch, sess, stale, sweep, purges, thread>>
  BY DEF Panic, Return
<1>3. /\ NoLocals("done") \in RequestLocals
      /\ NoLocals("done").pc = "done" /\ NoLocals("done").cur = NoSession
  BY NoLocalsType DEF NoLocals, Pc
<1>4. /\ req' \in [Request -> RequestLocals] /\ req'[r] = NoLocals("done")
      /\ \A q \in Request \ {r} : req'[q] = req[q]
  BY <1>1, <1>2, <1>3
<1>5. /\ sessions' \in [Key -> Session \cup {NoSession}]
      /\ keyVersions' \in [Key -> Nat] /\ dead' \in SUBSET Session
      /\ \A j \in Key : sessions'[j] # NoSession =>
           sessions'[j] = sessions[j] /\ keyVersions'[j] = keyVersions[j]
      /\ \A j \in Key : sessions'[j] # s
  BY <1>1, DeleteIfFacts DEF Panic
<1>6. TypeOK'
  BY <1>1, <1>2, <1>4, <1>5 DEF Inv, TypeOK
<1>7. BindingCurrent' /\ AmbiguousUnbound'
  BY <1>2, <1>5, RemovalKeepsBindings DEF Inv
<1>8. \A j \in Key : CleanBinding(j)'
  BY <1>1, <1>2, <1>5, RemovalKeepsClean DEF Inv, TypeOK
<1>9. Held(r)' /\ Attempt(r)' /\ CleanAttempt(r)'
  BY <1>3, <1>4 DEF Held, Attempt, CleanAttempt, Holding, Acquiring
<1>10. Locked' /\ Attempts' /\ (\A q \in Request : CleanAttempt(q)')
  <2>1. lock \in [Session -> Request \cup {NoOne}]
    BY DEF Inv, TypeOK
  <2>2. \A x \in Session : lock'[x] # r
    BY <1>1, <1>2, <2>1 DEF Inv, Locked, MutexNotStranded
  <2>3. QED BY <1>1, <1>2, <1>4, <1>5, <1>6, <1>9, <2>1, <2>2, OtherRequests
<1>11. QED BY <1>6, <1>7, <1>8, <1>10 DEF Inv, Clean

\* What publishing a stateless reply does to the table, whichever branch is
\* taken: s, which carries the key old, ends under new or under no key.
PublishTable(r, new) ==
  LET s == req[r].cur IN
  /\ sessions' \in [Key -> Session \cup {NoSession}]
  /\ keyVersions' \in [Key -> Nat]
  /\ ambiguous' \in [Key -> {"none", "live", "past"}]
  /\ dead' \in SUBSET Session
  /\ \A k \in Key : sessions'[k] # NoSession /\ sessions'[k] # s =>
       sessions'[k] = sessions[k] /\ keyVersions'[k] = keyVersions[k]
  /\ \A k \in Key : ambiguous'[k] # "none" => sessions'[k] = NoSession
  /\ sess' \in [Session -> SessionFields]
  /\ \A x \in Session \ {s} : sess'[x] = sess[x]
  /\ sess'[s].expected = new
  /\ req' = [req EXCEPT ![r] = req'[r]] /\ req'[r] \in RequestLocals
  /\ req'[r].pc = "published" /\ req'[r].cur = s
  /\ \/ /\ ~req'[r].cacheable
        /\ \A k \in Key : sessions'[k] # s
     \/ /\ req'[r].cacheable /\ req'[r].key = new
        /\ sess'[s].key = new /\ sess'[s].epoch = epoch
        /\ sess'[s].version = keyVersions'[new]
        /\ \A k \in Key : sessions'[k] = s => k = new

LEMMA PublishStatelessTable ==
  ASSUME Inv, NEW r \in Request, PublishStateless(r)
  PROVE  \E t \in Turn :
           /\ thread' = [thread EXCEPT ![req[r].cur] = Append(req[r].hist, t)]
           /\ PublishTable(r, Append(req[r].hist, t))
<1> DEFINE s == req[r].cur
           h == req[r].hist
           old == IF req[r].cacheable THEN req[r].key ELSE NoKey
           OldHeld(new) == old # NoKey /\ old # new /\ sessions[old] = s
           OldStale == /\ old # NoKey
                       /\ \/ sessions[old] # s
                          \/ sess[s].key # old
                          \/ sess[s].epoch # epoch
                          \/ sess[s].version # keyVersions[old]
           Taken(new) == sessions[new] \notin {NoSession, s}
           Reject(new, gone) ==
             /\ Unbind(gone)
             /\ ambiguous' = [k \in Key |-> IF k \in gone THEN "live"
                                            ELSE Reread(new)[k]]
             /\ dead' = dead \cup ({sessions[k] : k \in gone} \ {NoSession})
             /\ sess' = [sess EXCEPT ![s].expected = new]
             /\ req' = [req EXCEPT ![r].pc = "published", ![r].cacheable = FALSE]
           Move(new, moved) ==
             /\ sessions' = [k \in Key |-> IF k = new THEN s
                               ELSE IF k \in moved THEN NoSession
                               ELSE sessions[k]]
             /\ keyVersions' = [k \in Key |-> IF k \in moved
                                  THEN keyVersions[k] + 1 ELSE keyVersions[k]]
             /\ ambiguous' = [k \in Key |-> IF k \in moved THEN "live"
                                  ELSE Reread(new)[k]]
             /\ sess' = [sess EXCEPT ![s].expected = new, ![s].key = new,
                                     ![s].epoch = epoch,
                                     ![s].version = keyVersions[new]]
             /\ req' = [req EXCEPT ![r].pc = "published", ![r].key = new,
                                   ![r].cacheable = TRUE]
             /\ UNCHANGED dead
<1> USE SessionAssumption, KeyAssumption
<1>1. /\ req \in [Request -> RequestLocals] /\ req[r] \in RequestLocals
      /\ req[r].pc = "infer" /\ s \in Session /\ lock[s] = r
      /\ sess \in [Session -> SessionFields] /\ sess[s] \in SessionFields
      /\ sessions \in [Key -> Session \cup {NoSession}]
      /\ keyVersions \in [Key -> Nat] /\ epoch \in Nat
      /\ ambiguous \in [Key -> {"none", "live", "past"}]
      /\ dead \in SUBSET Session
      /\ h \in History
  BY DEF Inv, TypeOK, RequestLocals, Locked, Held, Holding, PublishStateless
<1>2. /\ old \in Key \cup {NoKey}
      /\ old = NoKey => \A k \in Key : sessions[k] # s
      /\ old # NoKey => sess[s].key = old
      /\ \A k \in Key : sessions[k] = s =>
           k = old /\ sess[s].epoch = epoch /\ sess[s].version = keyVersions[k]
  <2>1. Attempt(r) /\ BindingCurrent
    BY DEF Inv, Attempts
  <2>2. CASE req[r].cacheable
    BY <2>1, <2>2, <1>1 DEF Attempt, Acquiring, BindingCurrent
  <2>3. CASE ~req[r].cacheable
    BY <2>1, <2>3, <1>1 DEF Attempt, Acquiring
  <2>4. QED BY <2>2, <2>3
<1>3. PICK t \in Turn :
        LET new == Append(h, t) IN
        /\ thread' = [thread EXCEPT ![s] = AnsweredThread(r, t)]
        /\ \/ /\ IsAmbiguous(new)
              /\ Reject(new, IF OldHeld(new) THEN {old} ELSE {})
           \/ /\ ~IsAmbiguous(new) /\ OldStale
              /\ Reject(new, {})
           \/ /\ ~IsAmbiguous(new) /\ ~OldStale /\ Taken(new)
              /\ Reject(new, {new} \cup IF OldHeld(new) THEN {old} ELSE {})
           \/ /\ ~IsAmbiguous(new) /\ ~OldStale /\ ~Taken(new)
              /\ Move(new, {old} \ {NoKey, new})
  BY DEF PublishStateless
<1> DEFINE new == Append(h, t)
<1>4. new \in Key /\ new # NoKey
  BY <1>1, AppendIsKey
<1>5. AnsweredThread(r, t) = new
  BY <1>1 DEF AnsweredThread, Inv, Clean, CleanAttempt
<1> HIDE DEF new
<1>6. \A j \in Key : Reread(new)[j] # "none" => sessions[j] = NoSession
  BY RereadFacts DEF Inv, AmbiguousUnbound
<1>7. Reread(new) \in [Key -> {"none", "live", "past"}]
  BY RereadFacts DEF Inv
<1>8. ASSUME NEW gone \in SUBSET Key, Reject(new, gone),
             \A k \in Key : sessions[k] = s => k \in gone
      PROVE  PublishTable(r, new)
  <2> DEFINE l == [req[r] EXCEPT !.pc = "published", !.cacheable = FALSE]
  <2>1. /\ sessions' = [k \in Key |-> IF k \in gone THEN NoSession ELSE sessions[k]]
        /\ keyVersions' = [k \in Key |-> IF k \in gone THEN keyVersions[k] + 1
                                                      ELSE keyVersions[k]]
    BY <1>8 DEF Unbind
  <2>2. /\ sessions' \in [Key -> Session \cup {NoSession}]
        /\ keyVersions' \in [Key -> Nat]
        /\ \A k \in Key : sessions'[k] # NoSession =>
             sessions'[k] = sessions[k] /\ keyVersions'[k] = keyVersions[k]
        /\ \A k \in Key : sessions'[k] # s
    BY <2>1, <1>1, <1>8
  <2>3. /\ ambiguous' \in [Key -> {"none", "live", "past"}]
        /\ \A k \in Key : ambiguous'[k] # "none" => sessions'[k] = NoSession
    BY <2>1, <1>6, <1>7, <1>8
  <2>4. dead' \in SUBSET Session
    BY <1>1, <1>8
  <2>5. sess' = [sess EXCEPT ![s] = [sess[s] EXCEPT !.expected = new]]
    BY <1>1, <1>8
  <2>6. /\ [sess[s] EXCEPT !.expected = new] \in SessionFields
        /\ [sess[s] EXCEPT !.expected = new].expected = new
    BY <1>1, <1>4 DEF SessionFields
  <2>7. /\ sess' \in [Session -> SessionFields] /\ sess'[s].expected = new
        /\ \A x \in Session \ {s} : sess'[x] = sess[x]
    BY <2>5, <2>6, <1>1
  <2>8. l \in RequestLocals /\ l.pc = "published" /\ l.cur = s /\ ~l.cacheable
    BY <1>1 DEF RequestLocals, Pc
  <2>9. req' = [req EXCEPT ![r] = l]
    BY <1>1, <1>8
  <2> HIDE DEF l
  <2>10. req'[r] = l
    BY <2>9, <1>1
  <2>11. QED
    BY <2>2, <2>3, <2>4, <2>7, <2>8, <2>9, <2>10 DEF PublishTable
<1>9. ASSUME ~IsAmbiguous(new), ~OldStale, ~Taken(new),
             Move(new, {old} \ {NoKey, new})
      PROVE  PublishTable(r, new)
  <2> DEFINE moved == {old} \ {NoKey, new}
             f == [sess[s] EXCEPT !.expected = new, !.key = new,
                                  !.epoch = epoch, !.version = keyVersions[new]]
             l == [req[r] EXCEPT !.pc = "published", !.key = new, !.cacheable = TRUE]
  <2>1. moved \in SUBSET Key /\ new \notin moved
    BY <1>2
  <2>2. /\ \A k \in Key : k # new /\ sessions[k] = s => k \in moved
        /\ sessions[new] \in {NoSession, s}
    BY <1>2, <1>4, <1>9
  <2> HIDE DEF moved
  <2>3. /\ sessions' = [k \in Key |-> IF k = new THEN s
                          ELSE IF k \in moved THEN NoSession ELSE sessions[k]]
        /\ keyVersions' = [k \in Key |-> IF k \in moved
                             THEN keyVersions[k] + 1 ELSE keyVersions[k]]
        /\ ambiguous' = [k \in Key |-> IF k \in moved THEN "live" ELSE Reread(new)[k]]
    BY <1>9 DEF moved
  <2>4. /\ sessions' \in [Key -> Session \cup {NoSession}]
        /\ keyVersions' \in [Key -> Nat] /\ keyVersions'[new] = keyVersions[new]
        /\ \A k \in Key : sessions'[k] # NoSession /\ sessions'[k] # s =>
             sessions'[k] = sessions[k] /\ keyVersions'[k] = keyVersions[k]
        /\ \A k \in Key : sessions'[k] = s => k = new
    BY <2>1, <2>2, <2>3, <1>1, <1>4
  <2>5. Reread(new)[new] = "none"
    BY <1>1, <1>4, <1>9 DEF Reread, IsAmbiguous
  <2>6. /\ ambiguous' \in [Key -> {"none", "live", "past"}]
        /\ \A k \in Key : ambiguous'[k] # "none" => sessions'[k] = NoSession
    BY <2>1, <2>3, <2>5, <1>4, <1>6, <1>7
  <2>7. sess' = [sess EXCEPT ![s] = f]
    BY <1>1, <1>9
  <2>8. /\ f \in SessionFields /\ f.expected = new /\ f.key = new
        /\ f.epoch = epoch /\ f.version = keyVersions[new]
    BY <1>1, <1>4 DEF SessionFields
  <2> HIDE DEF f
  <2>9. /\ sess' \in [Session -> SessionFields] /\ sess'[s] = f
        /\ \A x \in Session \ {s} : sess'[x] = sess[x]
    BY <2>7, <2>8, <1>1
  <2>10. l \in RequestLocals /\ l.pc = "published" /\ l.cur = s /\ l.cacheable /\ l.key = new
    BY <1>1, <1>4 DEF RequestLocals, Pc
  <2>11. req' = [req EXCEPT ![r] = l]
    BY <1>1, <1>9
  <2> HIDE DEF l
  <2>12. req'[r] = l /\ dead' \in SUBSET Session
    BY <2>11, <1>1, <1>9
  <2>13. QED
    BY <2>4, <2>6, <2>8, <2>9, <2>10, <2>11, <2>12 DEF PublishTable
<1>10. PublishTable(r, new)
  <2>1. CASE /\ IsAmbiguous(new)
             /\ Reject(new, IF OldHeld(new) THEN {old} ELSE {})
    <3> DEFINE gone == IF OldHeld(new) THEN {old} ELSE {}
    <3>1. sessions[new] = NoSession
      BY <2>1, <1>4 DEF IsAmbiguous, Inv, AmbiguousUnbound
    <3>2. gone \in SUBSET Key /\ \A k \in Key : sessions[k] = s => k \in gone
      BY <3>1, <1>1, <1>2
    <3>3. QED BY <2>1, <3>2, <1>8
  <2>2. CASE OldStale /\ Reject(new, {})
    <3>1. \A k \in Key : sessions[k] # s
      BY <2>2, <1>2
    <3>2. QED BY <2>2, <3>1, <1>8
  <2>3. CASE Taken(new) /\ Reject(new, {new} \cup IF OldHeld(new) THEN {old} ELSE {})
    <3> DEFINE gone == {new} \cup IF OldHeld(new) THEN {old} ELSE {}
    <3>1. gone \in SUBSET Key /\ \A k \in Key : sessions[k] = s => k \in gone
      BY <2>3, <1>2, <1>4
    <3>2. QED BY <2>3, <3>1, <1>8
  <2>4. QED BY <2>1, <2>2, <2>3, <1>3, <1>9 DEF new
<1>11. thread' = [thread EXCEPT ![s] = new]
  BY <1>3, <1>5
<1>12. QED BY <1>10, <1>11 DEF new

LEMMA PublishStatelessInv ==
  ASSUME Inv, NEW r \in Request, PublishStateless(r)
  PROVE  Inv'
<1> DEFINE s == req[r].cur
           h == req[r].hist
<1> USE SessionAssumption, KeyAssumption
<1>1. /\ req \in [Request -> RequestLocals] /\ req[r] \in RequestLocals
      /\ req[r].pc = "infer" /\ s \in Session /\ lock[s] = r /\ s \notin tainted
      /\ h \in History /\ s # NoSession
      /\ thread \in [Session -> Seq(Turn)]
  <2>1. /\ req \in [Request -> RequestLocals] /\ req[r] \in RequestLocals
        /\ req[r].pc = "infer" /\ thread \in [Session -> Seq(Turn)]
    BY DEF Inv, TypeOK, PublishStateless
  <2>2. s \in Session /\ lock[s] = r /\ s \notin tainted
    BY <2>1 DEF Inv, Locked, Held, Holding, Clean, CleanAttempt
  <2>3. h \in History
    BY <2>1 DEF RequestLocals
  <2>4. QED BY <2>1, <2>2, <2>3
<1>2. PICK t \in Turn :
        /\ thread' = [thread EXCEPT ![s] = Append(h, t)]
        /\ PublishTable(r, Append(h, t))
  BY PublishStatelessTable
<1> DEFINE new == Append(h, t)
<1>3. new \in Key /\ new \in Seq(Turn)
  BY <1>1, AppendIsKey
<1> HIDE DEF new
<1>4. PublishTable(r, new) /\ thread' = [thread EXCEPT ![s] = new]
  BY <1>2 DEF new
<1>5. UNCHANGED <<epoch, lock, stale, sweep, purges, tainted>>
  BY DEF PublishStateless
<1>6. /\ req' \in [Request -> RequestLocals]
      /\ \A q \in Request \ {r} : req'[q] = req[q]
  <2>1. req' = [req EXCEPT ![r] = req'[r]] /\ req'[r] \in RequestLocals
    BY <1>4 DEF PublishTable
  <2>2. QED BY <2>1, <1>1
<1>7. /\ thread' \in [Session -> Seq(Turn)] /\ thread'[s] = new
      /\ \A x \in Session \ {s} : thread'[x] = thread[x]
  BY <1>1, <1>3, <1>4
<1>8. TypeOK'
  BY <1>4, <1>5, <1>6, <1>7 DEF PublishTable, Inv, TypeOK
<1>9. BindingCurrent'
  <2> SUFFICES ASSUME NEW j \in Key, sessions'[j] # NoSession
      PROVE  /\ sess'[sessions'[j]].key = j
             /\ sess'[sessions'[j]].epoch = epoch
             /\ sess'[sessions'[j]].version = keyVersions'[j]
    BY <1>5 DEF BindingCurrent
  <2>1. CASE sessions'[j] = s
    BY <2>1, <1>4 DEF PublishTable
  <2>2. CASE sessions'[j] # s
    <3>1. sessions'[j] = sessions[j] /\ keyVersions'[j] = keyVersions[j]
      BY <2>2, <1>4 DEF PublishTable
    <3>2. sessions[j] \in Session \ {s}
      BY <2>2, <3>1, <1>1 DEF Inv, TypeOK
    <3>3. sess'[sessions[j]] = sess[sessions[j]]
      BY <3>2, <1>4 DEF PublishTable
    <3>4. QED BY <3>1, <3>3 DEF Inv, BindingCurrent
  <2>3. QED BY <2>1, <2>2
<1>10. AmbiguousUnbound'
  BY <1>4 DEF PublishTable, AmbiguousUnbound
<1>11. \A j \in Key : CleanBinding(j)'
  <2> SUFFICES ASSUME NEW j \in Key, sessions'[j] # NoSession,
                      lock[sessions'[j]] = NoOne
               PROVE  /\ sessions'[j] \notin tainted
                      /\ sess'[sessions'[j]].answered => Faithful(sessions[j])'
    <3>1. \A j \in Key : sessions'[j] # NoSession /\ lock[sessions'[j]] = NoOne =>
            sessions'[j] # s /\ sessions'[j] = sessions[j]
      BY <1>1, <1>4 DEF PublishTable
    <3>2. QED BY <3>1, <1>5 DEF CleanBinding, Faithful
  <2>1. sessions'[j] # s
    BY <1>1
  <2>2. sessions'[j] = sessions[j] /\ sessions[j] \in Session \ {s}
    BY <2>1, <1>1, <1>4 DEF PublishTable, Inv, TypeOK
  <2>3. sess'[sessions[j]] = sess[sessions[j]] /\ thread'[sessions[j]] = thread[sessions[j]]
    BY <2>2, <1>4, <1>7 DEF PublishTable
  <2>4. QED BY <2>2, <2>3 DEF Inv, Clean, CleanBinding, Faithful
<1>12. Held(r)' /\ Attempt(r)' /\ CleanAttempt(r)'
  <2>1. /\ req'[r].pc = "published" /\ req'[r].cur = s
        /\ sess'[s].expected = new
        /\ \/ ~req'[r].cacheable /\ \A k \in Key : sessions'[k] # s
           \/ req'[r].cacheable /\ req'[r].key = new /\ sess'[s].key = new
    BY <1>4 DEF PublishTable
  <2>2. Held(r)'
    BY <1>1, <1>5, <2>1 DEF Held
  <2>3. Attempt(r)'
    BY <1>3, <2>1 DEF Attempt, Acquiring
  <2>4. CleanAttempt(r)'
    BY <1>1, <1>3, <1>5, <1>7, <2>1 DEF CleanAttempt, Faithful
  <2>5. QED BY <2>2, <2>3, <2>4
<1>13. Locked' /\ Attempts' /\ (\A q \in Request : CleanAttempt(q)')
  <2>1. \A x \in Session : lock[x] = r => x = s
    BY DEF Inv, Locked, MutexNotStranded
  <2>2. \A x \in Session : lock'[x] = r => req'[r].cur = x /\ req'[r].pc \in Holding
    BY <1>4, <1>5, <2>1 DEF PublishTable, Holding
  <2>3. \A x \in Session : lock[x] \notin {r, NoOne} =>
          /\ sess'[x] = sess[x] /\ thread'[x] = thread[x]
          /\ \A k \in Key : sessions'[k] = x => sessions[k] = x
    BY <1>1, <1>4, <1>7 DEF PublishTable
  <2>4. QED BY <1>5, <1>6, <1>8, <1>12, <2>2, <2>3, OtherRequests
<1>14. QED BY <1>8, <1>9, <1>10, <1>11, <1>13 DEF Inv, Clean

-----------------------------------------------------------------------------
(* Invalidation, expiry and the sweep: no request moves.                   *)

\* A step that moves no request, mutex or thread, and unbinds at most, keeps
\* what is known of the requests and the published sessions.
LEMMA QuietStep ==
  ASSUME Inv, TypeOK',
         UNCHANGED <<sess, lock, req, thread, tainted>>,
         \A k \in Key : sessions'[k] # NoSession => sessions'[k] = sessions[k],
         BindingCurrent', AmbiguousUnbound'
  PROVE  Inv'
<1> USE SessionAssumption
<1>1. Locked'
  BY DEF Inv, Locked, MutexNotStranded, Held
<1>2. \A j \in Key : CleanBinding(j)'
  BY RemovalKeepsClean DEF Inv, TypeOK
<1>3. ASSUME NEW q \in Request PROVE Attempt(q)' /\ CleanAttempt(q)'
  <2>1. Held(q) /\ Attempt(q) /\ CleanAttempt(q)
    BY DEF Inv, Locked, Attempts, Clean
  <2>2. req[q].pc \in {"infer", "published"} => req[q].cur # NoSession
    BY <2>1 DEF Held, Holding
  <2>3. Attempt(q)'
    BY <2>1, <2>2 DEF Attempt, Acquiring
  <2>4. QED BY <2>1, <2>3 DEF CleanAttempt, Faithful
<1>4. QED BY <1>1, <1>2, <1>3 DEF Inv, Attempts, Clean

LEMMA DeleteByAccountIDInv ==
  ASSUME Inv, NEW a \in Account, DeleteByAccountID(a)
  PROVE  Inv'
<1> DEFINE gone == {k \in Key : sessions[k] # NoSession /\ sess[sessions[k]].acct = a}
<1>1. /\ Unbind(gone)
      /\ dead' = dead \cup {sessions[k] : k \in gone}
      /\ purges' = purges + 1
      /\ UNCHANGED <<ambiguous, epoch, sess, lock, stale, req, sweep, thread, tainted>>
  BY DEF DeleteByAccountID
<1>2. gone \in SUBSET Key /\ TypeOK /\ BindingCurrent /\ AmbiguousUnbound
  BY DEF Inv
<1>3. {sessions[k] : k \in gone} \in SUBSET Session
  BY <1>2 DEF TypeOK
<1> HIDE DEF gone
<1>4. /\ sessions' \in [Key -> Session \cup {NoSession}]
      /\ keyVersions' \in [Key -> Nat]
      /\ \A k \in Key : sessions'[k] # NoSession =>
           sessions'[k] = sessions[k] /\ keyVersions'[k] = keyVersions[k]
  BY <1>1, <1>2, UnbindFacts
<1>5. TypeOK'
  BY <1>1, <1>2, <1>3, <1>4 DEF TypeOK
<1>6. BindingCurrent' /\ AmbiguousUnbound'
  BY <1>1, <1>2, <1>4, RemovalKeepsBindings
<1>7. QED BY <1>1, <1>4, <1>5, <1>6, QuietStep

LEMMA ClearInv ==
  ASSUME Inv, Clear
  PROVE  Inv'
<1> USE SessionAssumption
<1>1. /\ dead' = dead \cup ({sessions[k] : k \in Key} \ {NoSession})
      /\ sessions' = [k \in Key |-> NoSession]
      /\ ambiguous' = [k \in Key |-> "none"]
      /\ keyVersions' = [k \in Key |-> 0]
      /\ epoch' = epoch + 1
      /\ purges' = purges + 1
      /\ UNCHANGED <<sess, lock, stale, req, sweep, thread, tainted>>
  BY DEF Clear
<1>2. {sessions[k] : k \in Key} \ {NoSession} \in SUBSET Session
  BY DEF Inv, TypeOK
<1>3. TypeOK'
  BY <1>1, <1>2 DEF Inv, TypeOK
<1>4. BindingCurrent' /\ AmbiguousUnbound'
  BY <1>1 DEF BindingCurrent, AmbiguousUnbound
<1>5. QED BY <1>1, <1>3, <1>4, QuietStep

LEMMA TimeInv ==
  ASSUME Inv, (\E s \in Session : Age(s)) \/ (\E k \in Key : AmbiguityEnds(k))
  PROVE  Inv'
<1>1. /\ UNCHANGED <<sessions, keyVersions, epoch, sess, lock, req, sweep, purges,
                     thread, tainted, dead>>
      /\ stale' \in SUBSET Session
      /\ ambiguous' \in [Key -> {"none", "live", "past"}]
      /\ \A k \in Key : ambiguous'[k] # "none" => ambiguous[k] # "none"
  <2>1. CASE \E s \in Session : Age(s)
    BY <2>1 DEF Age, table, Inv, TypeOK
  <2>2. CASE \E k \in Key : AmbiguityEnds(k)
    BY <2>2 DEF AmbiguityEnds, Inv, TypeOK
  <2>3. QED BY <2>1, <2>2
<1>2. TypeOK'
  BY <1>1 DEF Inv, TypeOK
<1>3. BindingCurrent' /\ AmbiguousUnbound'
  BY <1>1 DEF Inv, BindingCurrent, AmbiguousUnbound
<1>4. QED BY <1>1, <1>2, <1>3, QuietStep

LEMMA SweepInv ==
  ASSUME Inv, Sweep
  PROVE  Inv'
<1> USE SessionAssumption, KeyAssumption
<1>1. CASE SweepSnapshot
  <2>1. /\ UNCHANGED <<sessions, keyVersions, epoch, sess, lock, stale, req, purges,
                       thread, tainted, dead>>
        /\ ambiguous' = [k \in Key |-> IF ambiguous[k] = "past" THEN "none"
                                                               ELSE ambiguous[k]]
        /\ sweep.count + 1 \in Nat
    BY <1>1 DEF SweepSnapshot, Inv, TypeOK, SweepState
  <2>2. {<<k, sessions[k]>> : k \in {x \in Key : sessions[x] # NoSession}}
          \in SUBSET (Key \X Session)
    BY DEF Inv, TypeOK
  <2>3. sweep' \in SweepState
    BY <1>1, <2>1, <2>2 DEF SweepSnapshot, SweepState
  <2>4. TypeOK'
    BY <2>1, <2>3 DEF Inv, TypeOK
  <2>5. BindingCurrent' /\ AmbiguousUnbound'
    BY <2>1 DEF Inv, TypeOK, BindingCurrent, AmbiguousUnbound
  <2>6. QED BY <2>1, <2>4, <2>5, QuietStep
<1>2. CASE SweepVisit
  <2>1. UNCHANGED <<sessions, ambiguous, keyVersions, epoch, sess, lock, stale, req,
                    purges, thread, tainted, dead>>
    BY <1>2 DEF SweepVisit, table
  <2>2. sweep \in SweepState
    BY DEF Inv, TypeOK
  <2>3. sweep' \in SweepState
    BY <1>2, <2>2 DEF SweepVisit, SweepState
  <2>4. TypeOK'
    BY <2>1, <2>3 DEF Inv, TypeOK
  <2>5. BindingCurrent' /\ AmbiguousUnbound'
    BY <2>1 DEF Inv, BindingCurrent, AmbiguousUnbound
  <2>6. QED BY <2>1, <2>4, <2>5, QuietStep
<1>3. CASE SweepDelete
  <2>1. PICK e \in sweep.doomed :
          /\ DeleteIf(e[1], e[2])
          /\ sweep' = [sweep EXCEPT !.todo = @ \ {e}, !.doomed = {}]
    BY <1>3 DEF SweepDelete
  <2>2. UNCHANGED <<ambiguous, epoch, sess, lock, stale, req, purges, thread, tainted>>
    BY <1>3 DEF SweepDelete
  <2>3. sweep \in SweepState
    BY DEF Inv, TypeOK
  <2>4. e[1] \in Key \cup {NoKey} /\ e[2] \in Session
    BY <2>1, <2>3 DEF SweepState
  <2>5. sweep' \in SweepState
    BY <2>1, <2>3 DEF SweepState
  <2>6. /\ sessions' \in [Key -> Session \cup {NoSession}]
        /\ keyVersions' \in [Key -> Nat] /\ dead' \in SUBSET Session
        /\ \A k \in Key : sessions'[k] # NoSession =>
             sessions'[k] = sessions[k] /\ keyVersions'[k] = keyVersions[k]
    BY <2>1, <2>4, DeleteIfFacts
  <2>7. TypeOK'
    BY <2>2, <2>5, <2>6 DEF Inv, TypeOK
  <2>8. BindingCurrent' /\ AmbiguousUnbound'
    BY <2>2, <2>6, RemovalKeepsBindings DEF Inv
  <2>9. QED BY <2>2, <2>6, <2>7, <2>8, QuietStep
<1>4. CASE SweepVersions
  <2>1. /\ UNCHANGED <<sessions, ambiguous, epoch, sess, lock, stale, req, purges,
                       thread, tainted, dead>>
        /\ keyVersions' = [k \in Key |->
             IF sessions[k] = NoSession /\ ambiguous[k] = "none" THEN 0 ELSE keyVersions[k]]
        /\ sweep' = [sweep EXCEPT !.pc = "idle"]
    BY <1>4 DEF SweepVersions
  <2>2. sweep \in SweepState /\ sweep' \in SweepState
    BY <2>1 DEF Inv, TypeOK, SweepState
  <2>3. TypeOK'
    BY <2>1, <2>2 DEF Inv, TypeOK
  <2>4. BindingCurrent' /\ AmbiguousUnbound'
    BY <2>1 DEF Inv, BindingCurrent, AmbiguousUnbound
  <2>5. QED BY <2>1, <2>3, <2>4, QuietStep
<1>5. QED BY <1>1, <1>2, <1>3, <1>4 DEF Sweep

-----------------------------------------------------------------------------
LEMMA NextInv == Inv /\ [Next]_vars => Inv'
<1> SUFFICES ASSUME Inv, [Next]_vars PROVE Inv'
  OBVIOUS
<1>1. ASSUME NEW r \in Request, Begin(r) \/ HandlerStep(r)
      PROVE  Inv'
  BY <1>1, BeginInv, GetInv, PeekInv, DiscardInv, GiveUpInv, StartIsolatedInv, QueueForSessionInv,
     PrepublishInv, CheckSessionInv, RejectMismatchInv, RejectDuplicateInv,
     PublishStableInv, PublishStatelessInv, CompleteInv, FailInv, PanicInv
  DEF HandlerStep
<1>2. ASSUME NEW a \in Account, DeleteByAccountID(a) PROVE Inv'
  BY <1>2, DeleteByAccountIDInv
<1>3. CASE UNCHANGED vars
  BY <1>3
  DEF vars, Inv, TypeOK, Locked, MutexNotStranded, Held, BindingCurrent, AmbiguousUnbound,
      Attempts, Attempt, Clean, CleanBinding, CleanAttempt, Faithful
<1>4. QED BY <1>1, <1>2, <1>3, ClearInv, TimeInv, SweepInv DEF Next

\* The inductive invariant holds in every reachable state.
THEOREM Invariance == Spec => []Inv
<1>1. QED BY InitInv, NextInv, PTL DEF Spec

\* Every variable keeps its type.
THEOREM TypeCorrect == Spec => []TypeOK
<1>1. Inv => TypeOK
  BY DEF Inv
<1>2. QED BY <1>1, Invariance, PTL

\* A published session carries the key, epoch and version it is found under,
\* whatever requests, purges and sweeps interleave.
THEOREM BindingsAreCurrent == Spec => []BindingCurrent
<1>1. Inv => BindingCurrent
  BY DEF Inv
<1>2. QED BY <1>1, Invariance, PTL

\* Nothing is published under a key marked ambiguous.
THEOREM AmbiguousKeysAreUnbound == Spec => []AmbiguousUnbound
<1>1. Inv => AmbiguousUnbound
  BY DEF Inv
<1>2. QED BY <1>1, Invariance, PTL

\* No session mutex outlives the attempt that took it.
THEOREM MutexesAreNotStranded == Spec => []MutexNotStranded
<1>1. Inv => MutexNotStranded
  BY DEF Inv, Locked
<1>2. QED BY <1>1, Invariance, PTL

\* Only the exact history a client sends continues a thread, and never one a
\* failed attempt has touched.
THEOREM ContinuationsAreExact == Spec => []ContinuationExact
<1>1. Inv => ContinuationExact
  BY DEF Inv, Clean, CleanAttempt, ContinuationExact
<1>2. QED BY <1>1, Invariance, PTL

-----------------------------------------------------------------------------
(* Resurrection.  A publication checks key, epoch and version, so that an  *)
(* invalidated session stays unpublished as long as its version is behind  *)
(* the one of its key.  Only the last section of a sweep turns a version   *)
(* back, so that the argument reaches as far as the end of the first.      *)

\* No sweep has dropped a version so far.
Unswept == sweep.count = 0 \/ (sweep.count = 1 /\ sweep.pc = "walk")

\* An invalidated session is behind its key, or was never published under one
\* by the attempt that uses it.
Outdated ==
  /\ \A s \in Session : sess[s].epoch <= epoch
  /\ \A s \in dead : sess[s].key # NoKey =>
       sess[s].epoch < epoch \/ sess[s].version < keyVersions[sess[s].key]
  /\ \A r \in Request : req[r].pc = "infer" /\ ~req[r].cacheable => req[r].cur \notin dead

DeadStayBehind ==
  /\ sweep.pc = "walk" => sweep.count > 0
  /\ Unswept => Outdated

\* What a step in one epoch may do about the versions: none goes back, the
\* sessions it invalidates lose a binding whose version advances, and a session
\* it gives a key to is not invalidated.
LEMMA OutdatedStep ==
  ASSUME Inv, Inv', Outdated, epoch' = epoch,
         \A k \in Key : keyVersions[k] <= keyVersions'[k],
         \A x \in Session :
           \/ /\ sess'[x].key = sess[x].key /\ sess'[x].epoch = sess[x].epoch
              /\ sess'[x].version = sess[x].version
           \/ x \notin dead' /\ sess'[x].epoch <= epoch,
         \A x \in dead' : x \in dead \/
           \E k \in Key : sessions[k] = x /\ keyVersions[k] < keyVersions'[k],
         \A q \in Request :
           \/ req'[q] = req[q]
           \/ req'[q].pc # "infer" \/ req'[q].cacheable
           \/ req'[q].cur \notin dead'
  PROVE  Outdated'
<1> USE SessionAssumption, KeyAssumption
<1>1. TypeOK /\ TypeOK' /\ BindingCurrent /\ Attempts
  BY DEF Inv
<1>2. /\ sess \in [Session -> SessionFields] /\ dead' \subseteq Session
      /\ keyVersions \in [Key -> Nat] /\ keyVersions' \in [Key -> Nat]
  BY <1>1 DEF TypeOK
<1>3. ASSUME NEW x \in Session PROVE sess'[x].epoch <= epoch'
  BY <1>3 DEF Outdated
<1>4. ASSUME NEW x \in dead', sess'[x].key # NoKey
      PROVE  sess'[x].epoch < epoch' \/ sess'[x].version < keyVersions'[sess'[x].key]
  <2>1. /\ x \in Session
        /\ sess'[x].key = sess[x].key /\ sess'[x].epoch = sess[x].epoch
        /\ sess'[x].version = sess[x].version
    BY <1>2, <1>4
  <2>2. sess[x].key \in Key /\ sess[x].version \in Nat
    BY <1>2, <1>4, <2>1 DEF SessionFields
  <2>3. keyVersions[sess[x].key] \in Nat /\ keyVersions'[sess[x].key] \in Nat
    BY <1>2, <2>2
  <2>4. CASE x \in dead
    <3>1. sess[x].epoch < epoch \/ sess[x].version < keyVersions[sess[x].key]
      BY <1>4, <2>1, <2>4 DEF Outdated
    <3>2. keyVersions[sess[x].key] <= keyVersions'[sess[x].key]
      BY <2>2
    <3>3. QED BY <2>1, <2>2, <2>3, <3>1, <3>2
  <2>5. CASE \E k \in Key : sessions[k] = x /\ keyVersions[k] < keyVersions'[k]
    <3>1. PICK k \in Key : sessions[k] = x /\ keyVersions[k] < keyVersions'[k]
      BY <2>5
    <3>2. sess[x].key = k /\ sess[x].version = keyVersions[k]
      BY <1>1, <2>1, <3>1 DEF BindingCurrent
    <3>3. QED BY <2>1, <3>1, <3>2
  <2>6. QED BY <2>4, <2>5
<1>5. ASSUME NEW q \in Request, req'[q].pc = "infer", ~req'[q].cacheable
      PROVE  req'[q].cur \notin dead'
  <2>1. CASE req'[q] = req[q]
    <3>1. req[q].cur \notin dead
      BY <1>5, <2>1 DEF Outdated
    <3>2. \A k \in Key : sessions[k] # req[q].cur
      BY <1>1, <1>5, <2>1 DEF Attempts, Attempt
    <3>3. QED BY <2>1, <3>1, <3>2
  <2>2. QED BY <1>5, <2>1
<1>6. QED BY <1>3, <1>4, <1>5 DEF Outdated

\* Keys removed: versions advance, and the sessions that were bound lost them.
LEMMA UnbindOutdates ==
  ASSUME Inv, NEW ks \in SUBSET Key, Unbind(ks),
         dead' \subseteq dead \cup ({sessions[k] : k \in ks} \ {NoSession})
  PROVE  /\ \A k \in Key : keyVersions[k] <= keyVersions'[k]
         /\ \A x \in dead' : x \in dead \/
              \E k \in Key : sessions[k] = x /\ keyVersions[k] < keyVersions'[k]
<1>1. keyVersions \in [Key -> Nat]
  BY DEF Inv, TypeOK
<1>2. keyVersions' = [k \in Key |-> IF k \in ks THEN keyVersions[k] + 1 ELSE keyVersions[k]]
  BY DEF Unbind
<1>3. QED BY <1>1, <1>2

\* The same of DeleteIf.
LEMMA DeleteIfOutdates ==
  ASSUME Inv, NEW k \in Key \cup {NoKey}, NEW s, DeleteIf(k, s)
  PROVE  /\ \A j \in Key : keyVersions[j] <= keyVersions'[j]
         /\ \A x \in dead' : x \in dead \/
              \E j \in Key : sessions[j] = x /\ keyVersions[j] < keyVersions'[j]
<1>1. CASE k # NoKey /\ s # NoSession /\ sessions[k] = s
  <2>1. Unbind({k}) /\ dead' = dead \cup {s} /\ {k} \in SUBSET Key
    BY <1>1 DEF DeleteIf
  <2>2. dead' \subseteq dead \cup ({sessions[j] : j \in {k}} \ {NoSession})
    BY <1>1, <2>1
  <2>3. QED BY <2>1, <2>2, UnbindOutdates
<1>2. CASE ~(k # NoKey /\ s # NoSession /\ sessions[k] = s)
  <2>1. UNCHANGED <<keyVersions, dead>>
    BY <1>2 DEF DeleteIf
  <2>2. keyVersions \in [Key -> Nat]
    BY DEF Inv, TypeOK
  <2>3. QED BY <2>1, <2>2
<1>3. QED BY <1>1, <1>2

\* Looking a session up, answering and giving up leave versions alone.
LEMMA LookupOutdated ==
  ASSUME Inv, Inv', Outdated, NEW r \in Request,
         Begin(r) \/ Get(r) \/ Peek(r) \/ GiveUp(r) \/ QueueForSession(r) \/ CheckSession(r)
  PROVE  Outdated'
<1>1. req \in [Request -> RequestLocals] /\ keyVersions \in [Key -> Nat]
  BY DEF Inv, TypeOK
<1>2. /\ UNCHANGED <<keyVersions, epoch, sess, dead>>
      /\ \A q \in Request \ {r} : req'[q] = req[q]
      /\ req'[r].pc # "infer" \/ req'[r].cacheable
  <2>1. CASE Begin(r)
    <3>1. UNCHANGED <<keyVersions, epoch, sess, dead>>
      BY <2>1 DEF Begin, table
    <3>2. PICK salt \in Salt \cup (IF Stateless THEN {NoKey} ELSE {}), h \in History,
              counted \in BOOLEAN :
            LET key == IF salt # NoKey THEN salt ELSE ContinuationKey(h)
            IN req' = [req EXCEPT
                 ![r].pc = IF key = NoKey THEN "select" ELSE "get",
                 ![r].salt = salt, ![r].hist = h, ![r].key = key,
                 ![r].raw = IF counted THEN Len(h) + 1 ELSE Len(h)]
      BY <2>1 DEF Begin
    <3> DEFINE key == IF salt # NoKey THEN salt ELSE ContinuationKey(h)
               pc == IF key = NoKey THEN "select" ELSE "get"
               raw == IF counted THEN Len(h) + 1 ELSE Len(h)
    <3>3. req' = [req EXCEPT ![r] = [@ EXCEPT !.pc = pc, !.salt = salt, !.hist = h,
                                              !.key = key, !.raw = raw]]
      BY <3>2, <1>1
    <3>4. pc # "infer"
      OBVIOUS
    <3> HIDE DEF key, pc, raw
    <3>5. /\ req'[r].pc = pc
          /\ \A q \in Request \ {r} : req'[q] = req[q]
      BY <3>3, <1>1 DEF RequestLocals
    <3>6. QED BY <3>1, <3>4, <3>5
  <2>2. CASE Get(r)
    BY <2>2, <1>1 DEF Get, Goto, RequestLocals
  <2>3. CASE Peek(r)
    BY <2>3, <1>1 DEF Peek, Goto, table, RequestLocals
  <2>4. CASE GiveUp(r)
    BY <2>4, <1>1 DEF GiveUp, Return, NoLocals, table, RequestLocals
  <2>5. CASE QueueForSession(r)
    BY <2>5, <1>1 DEF QueueForSession, Goto, RequestLocals
  <2>6. CASE CheckSession(r)
    BY <2>6, <1>1 DEF CheckSession, Goto, RequestLocals
  <2>7. QED BY <2>1, <2>2, <2>3, <2>4, <2>5, <2>6
<1>3. \A k \in Key : keyVersions[k] <= keyVersions'[k]
  BY <1>1, <1>2
<1>4. QED BY <1>2, <1>3, OutdatedStep

\* A request that lets go of its session, and may forget it.
LEMMA LeaveOutdated ==
  ASSUME Inv, Inv', Outdated, NEW r \in Request,
         Discard(r) \/ RejectMismatch(r) \/ Fail(r) \/ Panic(r)
  PROVE  Outdated'
<1>1. req \in [Request -> RequestLocals] /\ keyVersions \in [Key -> Nat]
  BY DEF Inv, TypeOK
<1>2. /\ UNCHANGED <<epoch, sess>>
      /\ \A q \in Request \ {r} : req'[q] = req[q]
      /\ req'[r].pc # "infer"
  <2>1. CASE Discard(r)
    BY <2>1, <1>1 DEF Discard, RequestLocals
  <2>2. CASE RejectMismatch(r)
    BY <2>2, <1>1 DEF RejectMismatch, RequestLocals
  <2>3. CASE Fail(r)
    BY <2>3, <1>1 DEF Fail, Return, NoLocals, RequestLocals
  <2>4. CASE Panic(r)
    BY <2>4, <1>1 DEF Panic, Return, NoLocals, RequestLocals
  <2>5. QED BY <2>1, <2>2, <2>3, <2>4
<1>3. \/ UNCHANGED <<keyVersions, dead>>
      \/ \E k \in Key \cup {NoKey} : \E s : DeleteIf(k, s)
  <2>1. req[r].key \in Key \cup {NoKey}
    BY <1>1 DEF RequestLocals
  <2>2. CASE Discard(r)
    BY <2>1, <2>2 DEF Discard
  <2>3. CASE RejectMismatch(r)
    BY <2>1, <2>3 DEF RejectMismatch
  <2>4. CASE Fail(r)
    BY <2>1, <2>4 DEF Fail
  <2>5. CASE Panic(r)
    <3>1. req[r].pc \in Holding
      BY <2>5 DEF Panic, Holding
    <3>2. sess[req[r].cur].key \in Key \cup {NoKey}
      BY <3>1 DEF Inv, TypeOK, Locked, Held, SessionFields
    <3>3. QED BY <2>5, <3>2 DEF Panic
  <2>6. QED BY <2>2, <2>3, <2>4, <2>5
<1>4. /\ \A k \in Key : keyVersions[k] <= keyVersions'[k]
      /\ \A x \in dead' : x \in dead \/
           \E k \in Key : sessions[k] = x /\ keyVersions[k] < keyVersions'[k]
  <2>1. CASE UNCHANGED <<keyVersions, dead>>
    BY <2>1, <1>1
  <2>2. CASE \E k \in Key \cup {NoKey} : \E s : DeleteIf(k, s)
    BY <2>2, DeleteIfOutdates
  <2>3. QED BY <1>3, <2>1, <2>2
<1>5. QED BY <1>2, <1>4, OutdatedStep

\* An attempt starts in a session nobody reaches.
LEMMA FreshOutdated ==
  ASSUME Inv, Inv', Outdated, NEW r \in Request,
         StartIsolated(r) \/ Prepublish(r) \/ RejectDuplicate(r)
  PROVE  Outdated'
<1> USE SessionAssumption, KeyAssumption
<1>1. /\ req \in [Request -> RequestLocals] /\ keyVersions \in [Key -> Nat]
      /\ epoch \in Nat /\ sess \in [Session -> SessionFields]
      /\ sessions \in [Key -> Session \cup {NoSession}] /\ dead \subseteq Session
  BY DEF Inv, TypeOK
<1>2. PICK s \in Session :
        /\ epoch' = epoch
        /\ \A q \in Request \ {r} : req'[q] = req[q]
        /\ req'[r].cur = s
        /\ s \notin dead'
        /\ sess'[s].epoch <= epoch
        /\ \A x \in Session \ {s} : sess'[x] = sess[x]
  <2>1. CASE StartIsolated(r)
    <3>1. PICK s \in Session, a \in Account :
            /\ sess' = [sess EXCEPT ![s] = NewFields(NoKey, 0, 0, a)]
            /\ dead' = dead \ {s}
            /\ req' = [req EXCEPT ![r].pc = "infer", ![r].cur = s,
                                  ![r].cacheable = FALSE, ![r].reused = FALSE,
                                  ![r].attempts = @ + 1]
      BY <2>1 DEF StartIsolated, Allocate
    <3>2. epoch' = epoch
      BY <2>1 DEF StartIsolated, table
    <3>3. sess'[s].epoch = 0
      BY <3>1, <1>1 DEF NewFields
    <3>4. QED BY <3>1, <3>2, <3>3, <1>1 DEF RequestLocals
  <2>2. CASE Prepublish(r)
    <3> DEFINE k == req[r].key
    <3>1. PICK s \in Session, a \in Account :
            /\ sess' = [sess EXCEPT ![s] = NewFields(k, epoch, keyVersions[k], a)]
            /\ dead' = dead \ {s}
            /\ req' = [req EXCEPT ![r].pc = "infer", ![r].cur = s,
                                  ![r].cacheable = TRUE, ![r].reused = FALSE,
                                  ![r].attempts = @ + 1]
      BY <2>2 DEF Prepublish, Allocate
    <3>2. epoch' = epoch
      BY <2>2 DEF Prepublish
    <3>3. sess'[s].epoch = epoch
      BY <3>1, <1>1 DEF NewFields
    <3>4. QED BY <3>1, <3>2, <3>3, <1>1 DEF RequestLocals
  <2>3. CASE RejectDuplicate(r)
    <3>1. PICK s \in Session \ Reachable, a \in Account :
            /\ sess' = [sess EXCEPT ![s] = NewFields(NoKey, 0, 0, a)]
            /\ dead' = (dead \cup ({sessions[req[r].key]} \ {NoSession})) \ {s}
            /\ req' = [req EXCEPT ![r].pc = "infer", ![r].cur = s,
                                  ![r].cacheable = FALSE, ![r].reused = FALSE,
                                  ![r].attempts = @ + 1]
      BY <2>3 DEF RejectDuplicate
    <3>2. epoch' = epoch
      BY <2>3 DEF RejectDuplicate
    <3>3. sess'[s].epoch = 0
      BY <3>1, <1>1 DEF NewFields
    <3>4. QED BY <3>1, <3>2, <3>3, <1>1 DEF RequestLocals
  <2>4. QED BY <2>1, <2>2, <2>3
<1>3. /\ \A k \in Key : keyVersions[k] <= keyVersions'[k]
      /\ \A x \in dead' : x \in dead \/
           \E k \in Key : sessions[k] = x /\ keyVersions[k] < keyVersions'[k]
  <2>1. CASE StartIsolated(r)
    <3>1. keyVersions' = keyVersions /\ dead' \subseteq dead
      BY <2>1 DEF StartIsolated, table
    <3>2. QED BY <3>1, <1>1
  <2>2. CASE Prepublish(r)
    <3>1. keyVersions' = keyVersions /\ dead' \subseteq dead
      BY <2>2 DEF Prepublish
    <3>2. QED BY <3>1, <1>1
  <2>3. CASE RejectDuplicate(r)
    <3> DEFINE k == req[r].key
    <3>1. k \in Key
      BY <2>3 DEF RejectDuplicate, Inv, Attempts, Attempt
    <3>2. Unbind({k})
      BY <2>3 DEF RejectDuplicate
    <3>3. dead' \subseteq dead \cup ({sessions[k]} \ {NoSession})
      BY <2>3 DEF RejectDuplicate
    <3>4. dead' \subseteq dead \cup ({sessions[j] : j \in {k}} \ {NoSession})
      BY <3>3
    <3>5. {k} \in SUBSET Key
      BY <3>1
    <3> HIDE DEF k
    <3>6. QED BY <3>2, <3>4, <3>5, UnbindOutdates
  <2>4. QED BY <2>1, <2>2, <2>3
<1>4. QED BY <1>2, <1>3, OutdatedStep

\* An answer is recorded, or published under the conversation id.
LEMMA AnswerOutdated ==
  ASSUME Inv, Inv', Outdated, NEW r \in Request, PublishStable(r) \/ Complete(r)
  PROVE  Outdated'
<1>1. /\ req \in [Request -> RequestLocals] /\ keyVersions \in [Key -> Nat]
      /\ sess \in [Session -> SessionFields]
  BY DEF Inv, TypeOK
<1>2. /\ UNCHANGED <<keyVersions, epoch, dead>>
      /\ \A q \in Request \ {r} : req'[q] = req[q]
      /\ req'[r].pc # "infer"
      /\ \A x \in Session : /\ sess'[x].key = sess[x].key /\ sess'[x].epoch = sess[x].epoch
                            /\ sess'[x].version = sess[x].version
  <2>1. CASE PublishStable(r)
    <3>1. UNCHANGED <<keyVersions, epoch, dead>> /\ req' = [req EXCEPT ![r].pc = "published"]
      BY <2>1 DEF PublishStable, table, Goto
    <3>2. PICK t \in Turn :
            sess' = [sess EXCEPT ![req[r].cur].expected = Append(req[r].hist, t)]
      BY <2>1 DEF PublishStable
    <3>3. QED BY <3>1, <3>2, <1>1 DEF RequestLocals, SessionFields
  <2>2. CASE Complete(r)
    <3>1. UNCHANGED <<keyVersions, epoch, dead>> /\ req' = [req EXCEPT ![r] = NoLocals("done")]
      BY <2>2 DEF Complete, Return
    <3>2. sess' = [sess EXCEPT ![req[r].cur].answered = TRUE, ![req[r].cur].raw = req[r].raw]
      BY <2>2 DEF Complete
    <3>3. QED BY <3>1, <3>2, <1>1 DEF NoLocals, RequestLocals, SessionFields
  <2>3. QED BY <2>1, <2>2
<1>3. \A k \in Key : keyVersions[k] <= keyVersions'[k]
  BY <1>1, <1>2
<1>4. QED BY <1>2, <1>3, OutdatedStep

\* PublishReplacement: a session given another key was current under the old
\* one, or is used by an attempt that was never published.
LEMMA ReplaceOutdated ==
  ASSUME Inv, Inv', Outdated, NEW r \in Request, PublishStateless(r)
  PROVE  Outdated'
<1> DEFINE s == req[r].cur
           old == IF req[r].cacheable THEN req[r].key ELSE NoKey
           OldHeld(new) == old # NoKey /\ old # new /\ sessions[old] = s
           OldStale == /\ old # NoKey
                       /\ \/ sessions[old] # s
                          \/ sess[s].key # old
                          \/ sess[s].epoch # epoch
                          \/ sess[s].version # keyVersions[old]
           Taken(new) == sessions[new] \notin {NoSession, s}
           Reject(new, gone) ==
             /\ Unbind(gone)
             /\ ambiguous' = [k \in Key |-> IF k \in gone THEN "live"
                                            ELSE Reread(new)[k]]
             /\ dead' = dead \cup ({sessions[k] : k \in gone} \ {NoSession})
             /\ sess' = [sess EXCEPT ![s].expected = new]
             /\ req' = [req EXCEPT ![r].pc = "published", ![r].cacheable = FALSE]
           moved(new) == {old} \ {NoKey, new}
<1> USE SessionAssumption, KeyAssumption
<1>1. /\ req \in [Request -> RequestLocals] /\ keyVersions \in [Key -> Nat]
      /\ sess \in [Session -> SessionFields] /\ epoch \in Nat
      /\ req[r].pc = "infer" /\ s \in Session /\ req[r].hist \in History
      /\ req[r].cacheable \in BOOLEAN
      /\ req[r].cacheable => req[r].key \in Key
  BY DEF Inv, TypeOK, Locked, Held, Holding, Attempts, Attempt, PublishStateless, RequestLocals
<1>2. epoch' = epoch
  BY DEF PublishStateless
<1>3. PICK t \in Turn :
        LET new == Append(req[r].hist, t) IN
          \/ Reject(new, IF OldHeld(new) THEN {old} ELSE {})
          \/ Reject(new, {})
          \/ Reject(new, {new} \cup IF OldHeld(new) THEN {old} ELSE {})
          \/ /\ ~OldStale
             /\ keyVersions' = [k \in Key |-> IF k \in moved(new)
                                  THEN keyVersions[k] + 1 ELSE keyVersions[k]]
             /\ sess' = [sess EXCEPT ![s].expected = new, ![s].key = new,
                                     ![s].epoch = epoch,
                                     ![s].version = keyVersions[new]]
             /\ req' = [req EXCEPT ![r].pc = "published", ![r].key = new,
                                   ![r].cacheable = TRUE]
             /\ UNCHANGED dead
  BY DEF PublishStateless
<1> DEFINE new == Append(req[r].hist, t)
<1>4. new \in Key
  BY <1>1, AppendIsKey
<1>5. old \in Key \cup {NoKey}
  BY <1>1
<1> HIDE DEF new
<1>6. ASSUME NEW gone \in SUBSET Key, Reject(new, gone)
      PROVE  Outdated'
  <2>1. /\ Unbind(gone)
        /\ dead' = dead \cup ({sessions[k] : k \in gone} \ {NoSession})
        /\ sess' = [sess EXCEPT ![s].expected = new]
        /\ req' = [req EXCEPT ![r].pc = "published", ![r].cacheable = FALSE]
    BY <1>6
  <2>2. /\ \A k \in Key : keyVersions[k] <= keyVersions'[k]
        /\ \A x \in dead' : x \in dead \/
             \E k \in Key : sessions[k] = x /\ keyVersions[k] < keyVersions'[k]
    BY <2>1, UnbindOutdates
  <2>3. /\ \A q \in Request \ {r} : req'[q] = req[q]
        /\ req'[r].pc # "infer"
    BY <2>1, <1>1 DEF RequestLocals
  <2>4. \A x \in Session : /\ sess'[x].key = sess[x].key /\ sess'[x].epoch = sess[x].epoch
                            /\ sess'[x].version = sess[x].version
    BY <2>1, <1>1 DEF SessionFields
  <2>5. QED BY <1>2, <2>2, <2>3, <2>4, OutdatedStep
<1>7. ASSUME ~OldStale,
             keyVersions' = [k \in Key |-> IF k \in moved(new)
                               THEN keyVersions[k] + 1 ELSE keyVersions[k]],
             sess' = [sess EXCEPT ![s].expected = new, ![s].key = new,
                                  ![s].epoch = epoch,
                                  ![s].version = keyVersions[new]],
             req' = [req EXCEPT ![r].pc = "published", ![r].key = new,
                                ![r].cacheable = TRUE],
             UNCHANGED dead
      PROVE  Outdated'
  <2>1. s \notin dead
    <3>1. CASE req[r].cacheable
      <4>1. /\ sess[s].key = req[r].key /\ req[r].key \in Key
            /\ sess[s].epoch = epoch /\ sess[s].version = keyVersions[req[r].key]
        BY <3>1, <1>1, <1>7
      <4>2. keyVersions[req[r].key] \in Nat
        BY <4>1, <1>1
      <4>3. ~(sess[s].epoch < epoch) /\ ~(sess[s].version < keyVersions[sess[s].key])
        BY <4>1, <4>2, <1>1
      <4>4. sess[s].key # NoKey
        BY <4>1
      <4>5. QED BY <4>3, <4>4 DEF Outdated
    <3>2. CASE ~req[r].cacheable
      BY <3>2, <1>1 DEF Outdated
    <3>3. QED BY <3>1, <3>2
  <2>2. \A k \in Key : keyVersions[k] <= keyVersions'[k]
    BY <1>1, <1>7
  <2>3. /\ \A q \in Request \ {r} : req'[q] = req[q]
        /\ req'[r].pc # "infer"
    BY <1>1, <1>7 DEF RequestLocals
  <2>4. /\ \A x \in Session \ {s} : sess'[x] = sess[x]
        /\ sess'[s].epoch = epoch
    BY <1>1, <1>7 DEF SessionFields
  <2>5. \A x \in Session :
           \/ /\ sess'[x].key = sess[x].key /\ sess'[x].epoch = sess[x].epoch
              /\ sess'[x].version = sess[x].version
           \/ x \notin dead' /\ sess'[x].epoch <= epoch
    BY <2>1, <2>4, <1>1, <1>7
  <2>6. \A x \in dead' : x \in dead
    BY <1>7
  <2>7. QED BY <1>2, <2>2, <2>3, <2>5, <2>6, OutdatedStep
<1>8. {old} \in SUBSET Key \/ ~OldHeld(new)
  BY <1>5
<1>9. (IF OldHeld(new) THEN {old} ELSE {}) \in SUBSET Key
  BY <1>8
<1>10. QED BY <1>3, <1>4, <1>6, <1>7, <1>9 DEF new

\* Invalidation by account, time and the sweep, up to its last section.
LEMMA BackgroundOutdated ==
  ASSUME Inv, Inv', Outdated,
         \/ \E a \in Account : DeleteByAccountID(a)
         \/ \E s \in Session : Age(s)
         \/ \E k \in Key : AmbiguityEnds(k)
         \/ SweepSnapshot \/ SweepVisit \/ SweepDelete
  PROVE  Outdated'
<1>1. keyVersions \in [Key -> Nat] /\ sweep \in SweepState
  BY DEF Inv, TypeOK
<1>2. UNCHANGED <<epoch, sess, req>>
  BY DEF DeleteByAccountID, Age, AmbiguityEnds, SweepSnapshot, SweepVisit, SweepDelete, table
<1>3. /\ \A k \in Key : keyVersions[k] <= keyVersions'[k]
      /\ \A x \in dead' : x \in dead \/
           \E k \in Key : sessions[k] = x /\ keyVersions[k] < keyVersions'[k]
  <2>1. CASE \E a \in Account : DeleteByAccountID(a)
    <3>1. PICK a \in Account : DeleteByAccountID(a)
      BY <2>1
    <3> DEFINE gone == {k \in Key : sessions[k] # NoSession /\ sess[sessions[k]].acct = a}
    <3>2. Unbind(gone) /\ dead' = dead \cup {sessions[k] : k \in gone}
      BY <3>1 DEF DeleteByAccountID
    <3>3. dead' \subseteq dead \cup ({sessions[k] : k \in gone} \ {NoSession})
      BY <3>2
    <3>4. gone \in SUBSET Key
      OBVIOUS
    <3> HIDE DEF gone
    <3>5. QED BY <3>2, <3>3, <3>4, UnbindOutdates
  <2>2. CASE SweepDelete
    <3>1. PICK e \in sweep.doomed : DeleteIf(e[1], e[2])
      BY <2>2 DEF SweepDelete
    <3>2. e[1] \in Key \cup {NoKey}
      BY <3>1, <1>1 DEF SweepState
    <3>3. QED BY <3>1, <3>2, DeleteIfOutdates
  <2>3. CASE \/ \E s \in Session : Age(s)
             \/ \E k \in Key : AmbiguityEnds(k)
             \/ SweepSnapshot \/ SweepVisit
    <3>1. UNCHANGED <<keyVersions, dead>>
      BY <2>3 DEF Age, AmbiguityEnds, SweepSnapshot, SweepVisit, table
    <3>2. QED BY <3>1, <1>1
  <2>4. QED BY <2>1, <2>2, <2>3
<1>4. QED BY <1>2, <1>3, OutdatedStep

\* Clear starts another epoch, in which every session is outdated.
LEMMA ClearOutdated ==
  ASSUME Inv, Inv', Outdated, Clear
  PROVE  Outdated'
<1>1. /\ epoch \in Nat /\ sess \in [Session -> SessionFields] /\ dead' \subseteq Session
  BY DEF Inv, TypeOK
<1>2. epoch' = epoch + 1 /\ UNCHANGED <<sess, req>> /\ \A r \in Request : ~Active(r)
  BY DEF Clear
<1>3. \A s \in Session : sess[s].epoch \in Nat /\ sess[s].epoch <= epoch
  BY <1>1 DEF Outdated, SessionFields
<1>4. \A s \in Session : sess'[s].epoch < epoch' /\ sess'[s].epoch <= epoch'
  BY <1>1, <1>2, <1>3
<1>5. \A r \in Request : req'[r].pc # "infer"
  BY <1>2 DEF Active
<1>6. QED BY <1>1, <1>4, <1>5 DEF Outdated

LEMMA HandlerOutdated ==
  ASSUME Inv, Inv', Outdated, NEW r \in Request, Begin(r) \/ HandlerStep(r)
  PROVE  Outdated'
BY LookupOutdated, LeaveOutdated, FreshOutdated, AnswerOutdated, ReplaceOutdated
DEF HandlerStep

\* Requests, purges and time leave the sweep alone.
LEMMA SweepAlone ==
  ASSUME NEW r \in Request, Begin(r) \/ HandlerStep(r)
  PROVE  UNCHANGED sweep
BY DEF HandlerStep, Begin, Get, Peek, Discard, GiveUp, StartIsolated, QueueForSession,
       Prepublish, CheckSession, RejectMismatch, RejectDuplicate, PublishStable,
       PublishStateless, Complete, Fail, Panic

\* A step before the first sweep has dropped versions, if it is not the sweep's
\* last section, starts before it too.
LEMMA SweepBackwards ==
  ASSUME TypeOK, DeadStayBehind, Sweep
  PROVE  /\ sweep'.pc = "walk" => sweep'.count > 0
         /\ Unswept' => Unswept /\ ~SweepVersions
<1>1. sweep \in SweepState
  BY DEF TypeOK
<1>2. CASE SweepSnapshot
  <2>1. sweep.pc = "idle" /\ sweep'.pc = "walk" /\ sweep'.count = sweep.count + 1
    BY <1>2 DEF SweepSnapshot
  <2>2. sweep.count \in Nat
    BY <1>1 DEF SweepState
  <2>3. ~SweepVersions
    BY <2>1 DEF SweepVersions
  <2>4. QED BY <2>1, <2>2, <2>3 DEF Unswept
<1>3. CASE SweepVisit \/ SweepDelete
  <2>1. sweep'.pc = sweep.pc /\ sweep'.count = sweep.count
    BY <1>1, <1>3 DEF SweepVisit, SweepDelete, SweepState
  <2>2. SweepVersions => sweep'.pc = "idle" /\ sweep.pc = "walk"
    BY <1>1 DEF SweepVersions, SweepState
  <2>3. QED BY <2>1, <2>2 DEF Unswept, DeadStayBehind
<1>4. CASE SweepVersions
  <2>1. sweep.pc = "walk" /\ sweep'.pc = "idle" /\ sweep'.count = sweep.count
    BY <1>1, <1>4 DEF SweepVersions, SweepState
  <2>2. sweep.count \in Nat /\ sweep.count > 0
    BY <1>1, <2>1 DEF SweepState, DeadStayBehind
  <2>3. QED BY <2>1, <2>2 DEF Unswept
<1>5. QED BY <1>2, <1>3, <1>4 DEF Sweep

LEMMA DeadStayBehindInit == Init => DeadStayBehind
<1> SUFFICES ASSUME Init PROVE DeadStayBehind
  OBVIOUS
<1>1. /\ sweep.pc = "idle" /\ dead = {} /\ epoch = 1
      /\ sess = [s \in Session |-> NewFields(NoKey, 0, 0, CHOOSE a \in Account : TRUE)]
      /\ req = [r \in Request |-> NoLocals("idle")]
  BY DEF Init
<1>2. \A s \in Session : sess[s].epoch = 0
  BY <1>1 DEF NewFields
<1>3. \A r \in Request : req[r].pc = "idle"
  BY <1>1 DEF NoLocals
<1>4. QED BY <1>1, <1>2, <1>3 DEF DeadStayBehind, Outdated

LEMMA DeadStayBehindStep == Inv /\ Inv' /\ DeadStayBehind /\ [Next]_vars => DeadStayBehind'
<1> SUFFICES ASSUME Inv, Inv', DeadStayBehind, [Next]_vars PROVE DeadStayBehind'
  OBVIOUS
<1>1. ASSUME NEW r \in Request, Begin(r) \/ HandlerStep(r)
      PROVE  DeadStayBehind'
  <2>1. UNCHANGED sweep
    BY <1>1, SweepAlone
  <2>2. Outdated => Outdated'
    BY <1>1, HandlerOutdated
  <2>3. QED BY <2>1, <2>2 DEF DeadStayBehind, Unswept
<1>2. CASE \/ \E a \in Account : DeleteByAccountID(a)
           \/ \E s \in Session : Age(s)
           \/ \E k \in Key : AmbiguityEnds(k)
  <2>1. UNCHANGED sweep
    BY <1>2 DEF DeleteByAccountID, Age, AmbiguityEnds
  <2>2. Outdated => Outdated'
    BY <1>2, BackgroundOutdated
  <2>3. QED BY <2>1, <2>2 DEF DeadStayBehind, Unswept
<1>3. CASE Clear
  <2>1. UNCHANGED sweep
    BY <1>3 DEF Clear
  <2>2. Outdated => Outdated'
    BY <1>3, ClearOutdated
  <2>3. QED BY <2>1, <2>2 DEF DeadStayBehind, Unswept
<1>4. CASE Sweep
  <2>1. /\ sweep'.pc = "walk" => sweep'.count > 0
        /\ Unswept' => Unswept /\ ~SweepVersions
    BY <1>4, SweepBackwards DEF Inv
  <2>2. Unswept' => Outdated'
    BY <1>4, <2>1, BackgroundOutdated DEF DeadStayBehind, Sweep
  <2>3. QED BY <2>1, <2>2 DEF DeadStayBehind
<1>5. CASE UNCHANGED vars
  BY <1>5 DEF vars, DeadStayBehind, Unswept, Outdated
<1>6. QED BY <1>1, <1>2, <1>3, <1>4, <1>5 DEF Next

\* An invalidated thread is not published again, whatever completions, purges
\* and failures interleave, until a sweep drops versions: what happens then is
\* shown by a run.
THEOREM InvalidatedStayUnpublished == Spec => [](Unswept => NoResurrection)
<1>1. Inv /\ Outdated => NoResurrection
  <2> SUFFICES ASSUME Inv, Outdated, NEW k \in Key, sessions[k] \in dead
      PROVE  FALSE
    BY DEF NoResurrection
  <2>1. sessions[k] # NoSession
    BY SessionAssumption DEF Inv, TypeOK
  <2>2. /\ sess[sessions[k]].key = k /\ sess[sessions[k]].epoch = epoch
        /\ sess[sessions[k]].version = keyVersions[k]
    BY <2>1 DEF Inv, BindingCurrent
  <2>3. epoch \in Nat /\ keyVersions[k] \in Nat /\ k # NoKey
    BY KeyAssumption DEF Inv, TypeOK
  <2>4. sess[sessions[k]].epoch < epoch \/ sess[sessions[k]].version < keyVersions[k]
    BY <2>2, <2>3 DEF Outdated
  <2>5. QED BY <2>2, <2>3, <2>4
<1>2. Inv /\ DeadStayBehind => (Unswept => NoResurrection)
  BY <1>1 DEF DeadStayBehind
<1>3. QED
  BY <1>2, DeadStayBehindInit, DeadStayBehindStep, Invariance, PTL DEF Spec

-----------------------------------------------------------------------------
(* Who waits for whom: NobodyStuck.                                        *)

\* The request that holds a mutex waits for none.
LEMMA HolderFree ==
  ASSUME Inv, NEW s \in Session, lock[s] # NoOne, Session \ Reachable # {}
  PROVE  HolderGoesOn(s)
<1>1. lock[s] \in Request /\ req[lock[s]].pc \in Holding
  BY DEF Inv, TypeOK, Locked, MutexNotStranded
<1>2. req[lock[s]].pc \in {"mismatch", "duplicate", "infer", "published"}
  BY <1>1 DEF Holding
<1>3. ~Waiting(lock[s])
  BY <1>2 DEF Waiting
<1>4. RequestGoesOn(lock[s])
  BY <1>2 DEF RequestGoesOn
<1>5. QED BY <1>1, <1>3, <1>4 DEF HolderGoesOn

\* A request that is not answered goes on or waits for one that does.
LEMMA RequestServed ==
  ASSUME Inv, NEW r \in Request, Active(r), Session \ Reachable # {}
  PROVE  RequestGoesOn(r) \/ (Waiting(r) /\ HolderGoesOn(req[r].cur))
<1>1. req[r].pc \in {"get", "peek", "expire", "select", "acquire", "wait", "mismatch",
                     "duplicate", "infer", "published"}
  <2>1. req[r].pc \in Pc
    BY DEF Inv, TypeOK, RequestLocals
  <2>2. QED BY <2>1 DEF Pc, Active
<1>2. CASE ~Waiting(r)
  BY <1>1, <1>2 DEF Waiting, RequestGoesOn
<1>3. CASE Waiting(r)
  <2>1. req[r].cur \in Session
    BY <1>3 DEF Waiting, Inv, Attempts, Attempt
  <2>2. CASE lock[req[r].cur] = NoOne
    BY <1>3, <2>2 DEF RequestGoesOn
  <2>3. CASE lock[req[r].cur] # NoOne
    BY <1>3, <2>1, <2>3, HolderFree
  <2>4. QED BY <2>2, <2>3
<1>4. QED BY <1>2, <1>3

\* A request that is not answered has a step of its own, or the one that holds the
\* mutex it waits for has one; the same holds of the sweep.  No order of lookups,
\* failovers, purges and sweeps makes two of them wait for each other.
THEOREM NobodyIsStuck == Spec => []NobodyStuck
<1>1. Inv => NobodyStuck
  <2> SUFFICES ASSUME Inv, Session \ Reachable # {} PROVE NobodyStuck
    BY DEF NobodyStuck
  <2>1. ASSUME sweep.pc = "walk"
        PROVE  SweepGoesOn \/ \A e \in sweep.todo : HolderGoesOn(e[2])
    <3>1. sweep.todo \subseteq Key \X Session
      BY DEF Inv, TypeOK, SweepState
    <3>2. CASE \E e \in sweep.todo : lock[e[2]] = NoOne
      BY <2>1, <3>2 DEF SweepGoesOn
    <3>3. CASE \A e \in sweep.todo : lock[e[2]] # NoOne
      BY <3>1, <3>3, HolderFree
    <3>4. QED BY <3>2, <3>3
  <2>2. QED BY <2>1, RequestServed DEF NobodyStuck
<1>2. QED BY <1>1, Invariance, PTL

\* The sweep looks at no more sessions than there are keys.
SweepFinite == IsFiniteSet(sweep.todo)

\* What a function makes of a finite set is finite.
LEMMA ImageFinite ==
  ASSUME NEW S, NEW f, IsFiniteSet(S)
  PROVE  IsFiniteSet({f[x] : x \in S})
<1> DEFINE T == {f[x] : x \in S}
           g == [x \in S |-> f[x]]
<1>1. g \in Surjection(S, T)
  BY DEF Surjection
<1> HIDE DEF g, T
<1>2. IsFiniteSet(T)
  BY <1>1, FS_Surjection
<1>3. QED BY <1>2 DEF T

LEMMA SweepFiniteInit == Init => SweepFinite
BY FS_EmptySet DEF Init, SweepFinite

LEMMA SweepFiniteNext ==
  ASSUME IsFiniteSet(Key)
  PROVE  Inv /\ SweepFinite /\ [Next]_vars => SweepFinite'
<1> SUFFICES ASSUME Inv, SweepFinite, [Next]_vars PROVE SweepFinite'
  OBVIOUS
<1>0. sweep \in SweepState
  BY DEF Inv, TypeOK
<1>1. CASE sweep' = sweep
  BY <1>1 DEF SweepFinite
<1>2. CASE SweepSnapshot
  <2> DEFINE bound == {k \in Key : sessions[k] # NoSession}
             pairs == {<<k, sessions[k]>> : k \in bound}
  <2>1. IsFiniteSet(bound)
    BY FS_Subset
  <2>2. IsFiniteSet(pairs)
    <3> DEFINE f == [k \in bound |-> <<k, sessions[k]>>]
    <3>1. IsFiniteSet({f[k] : k \in bound})
      <4> HIDE DEF bound, f
      <4>1. QED BY <2>1, ImageFinite
    <3>2. pairs = {f[k] : k \in bound}
      <4> HIDE DEF bound
      <4>1. QED OBVIOUS
    <3>3. QED BY <3>1, <3>2
  <2>3. sweep'.todo = pairs
    BY <1>2 DEF SweepSnapshot
  <2>4. QED BY <2>2, <2>3 DEF SweepFinite
<1>3. CASE sweep'.todo \subseteq sweep.todo
  BY <1>3, FS_Subset DEF SweepFinite
<1>4. QED
  <2>1. CASE SweepVisit \/ SweepDelete \/ SweepVersions
    <3>1. CASE SweepVisit
      <4>1. PICK e \in sweep.todo :
              sweep' = IF e[2] \in stale THEN [sweep EXCEPT !.doomed = {e}]
                       ELSE [sweep EXCEPT !.todo = @ \ {e}]
        BY <3>1 DEF SweepVisit
      <4>2. sweep'.todo \subseteq sweep.todo
        BY <1>0, <4>1 DEF SweepState
      <4>3. QED BY <4>2, <1>3
    <3>2. CASE SweepDelete
      <4>1. PICK e \in sweep.doomed :
              sweep' = [sweep EXCEPT !.todo = @ \ {e}, !.doomed = {}]
        BY <3>2 DEF SweepDelete
      <4>2. sweep'.todo \subseteq sweep.todo
        BY <1>0, <4>1 DEF SweepState
      <4>3. QED BY <4>2, <1>3
    <3>3. CASE SweepVersions
      <4>1. sweep'.todo = sweep.todo
        BY <1>0, <3>3 DEF SweepVersions, SweepState
      <4>2. QED BY <4>1, <1>3
    <3>4. QED BY <2>1, <3>1, <3>2, <3>3
  <2>2. ASSUME NEW r \in Request, Begin(r) \/ HandlerStep(r) PROVE sweep' = sweep
    BY <2>2 DEF Begin, HandlerStep, Get, Peek, Discard, GiveUp, StartIsolated,
                QueueForSession, Prepublish, CheckSession, RejectMismatch,
                RejectDuplicate, PublishStable, PublishStateless, Complete, Fail, Panic
  <2>3. CASE \/ \E a \in Account : DeleteByAccountID(a)
             \/ Clear
             \/ \E s \in Session : Age(s)
             \/ \E k \in Key : AmbiguityEnds(k)
             \/ UNCHANGED vars
    BY <2>3, <1>1 DEF DeleteByAccountID, Clear, Age, AmbiguityEnds, vars
  <2>4. QED BY <1>1, <1>2, <2>1, <2>2, <2>3 DEF Next, Sweep

\* With finitely many keys and requests only finitely many sessions are in use.
LEMMA ReachableFinite ==
  ASSUME IsFiniteSet(Key), IsFiniteSet(Request), SweepFinite
  PROVE  IsFiniteSet(Reachable)
<1> DEFINE bound == {sessions[k] : k \in Key}
           active == {q \in Request : Active(q)}
           used == {req[r].cur : r \in active}
           swept == {e[2] : e \in sweep.todo}
<1>1. IsFiniteSet(bound)
  BY ImageFinite
<1>2. IsFiniteSet(used)
  <2>1. IsFiniteSet(active)
    BY FS_Subset
  <2> DEFINE f == [r \in active |-> req[r].cur]
  <2>2. IsFiniteSet({f[r] : r \in active})
    <3> HIDE DEF active, f
    <3>1. QED BY <2>1, ImageFinite
  <2>3. used = {f[r] : r \in active}
    <3> HIDE DEF active
    <3>1. QED OBVIOUS
  <2>4. QED BY <2>2, <2>3
<1>3. IsFiniteSet(swept)
  <2> DEFINE f == [e \in sweep.todo |-> e[2]]
  <2>1. IsFiniteSet({f[e] : e \in sweep.todo})
    <3> HIDE DEF f
    <3>1. QED BY ImageFinite DEF SweepFinite
  <2>2. swept = {f[e] : e \in sweep.todo}
    OBVIOUS
  <2>3. QED BY <2>1, <2>2
<1>4. Reachable = bound \cup used \cup swept
  BY DEF Reachable
<1> HIDE DEF bound, used, swept
<1>5. QED BY <1>1, <1>2, <1>3, <1>4, FS_Union

\* Memory never runs out when there is enough of it: the condition of NobodyStuck
\* is then met in every state.
THEOREM AddressesSuffice ==
  ASSUME IsFiniteSet(Key), IsFiniteSet(Request), ~IsFiniteSet(Session)
  PROVE  Spec => [](Session \ Reachable # {})
<1>1. SweepFinite => Session \ Reachable # {}
  <2> SUFFICES ASSUME SweepFinite, Session \subseteq Reachable PROVE FALSE
    OBVIOUS
  <2>1. QED BY ReachableFinite, FS_Subset
<1>2. Inv /\ SweepFinite /\ [Next]_vars => SweepFinite'
  BY SweepFiniteNext
<1>3. QED BY <1>1, <1>2, SweepFiniteInit, Invariance, PTL DEF Spec

=============================================================================
