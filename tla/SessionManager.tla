--------------------------- MODULE SessionManager ---------------------------
(***************************************************************************)
(* The conversation cache of internal/proxy/session.go, driven by the      *)
(* part of HandleAnthropicMessages (internal/proxy/anthropic.go) that      *)
(* looks a session up, holds it for one inference attempt, publishes the   *)
(* reply's continuation key and stores or discards the session.            *)
(*                                                                         *)
(* A Session binds a client conversation to a real Notion thread.  It is   *)
(* found under a key: a stable conversation id sent by the client (a       *)
(* "salt"), or, for a stateless client, the digest of the exact history up *)
(* to the last assistant reply.  The digest is modelled as the history     *)
(* itself (a sequence of turns), i.e. as a collision-free hash.            *)
(*                                                                         *)
(* Grain: one action per critical section of SessionManager.mu.  Taking    *)
(* Session.mu is merged with the check that follows it and releasing it    *)
(* with the section that precedes it: nobody can observe the difference.   *)
(***************************************************************************)
EXTENDS Naturals, Sequences, FiniteSets

CONSTANTS
  Request,      \* HTTP requests; each runs once
  Account,      \* workspaces that can serve an attempt
  Session,      \* addresses of Session objects; an unreachable one is reused
  Salt,         \* stable conversation ids
  Stateless,    \* whether clients without a conversation id are admitted
  Turn,         \* one user message with the reply it got
  MaxHistory,   \* bound: longest history a client sends
  MaxAttempts,  \* account attempts of one request (maxInferenceAccountCalls)
  MaxPurges,    \* bound: administrative invalidations
  MaxSweeps,    \* bound: background sweeps
  NoKey, NoSession, NoOne

ASSUME SessionAssumption ==
  /\ Account # {}
  /\ NoSession \notin Session
  /\ NoOne \notin Request
  /\ Stateless \in BOOLEAN
  /\ MaxHistory \in Nat
  /\ MaxAttempts \in Nat \ {0}
  /\ MaxPurges \in Nat
  /\ MaxSweeps \in Nat

VARIABLES
  sessions,     \* SessionManager.sessions
  ambiguous,    \* SessionManager.ambiguous: no entry, before or after its deadline
  keyVersions,  \* SessionManager.keyVersions, 0 where the map has no entry
  epoch,        \* SessionManager.epoch
  sess,         \* the fields of every Session object
  lock,         \* Session.mu: the request that holds it
  stale,        \* sessions whose LastUsedAt is older than the TTL
  req,          \* the requests' local variables and position
  sweep,        \* the goroutine started by maybeSweepExpired
  purges,       \* administrative invalidations so far
  thread,       \* ghost: the turns the Notion thread of a session holds
  tainted,      \* ghost: sessions whose thread holds a failed, partial turn
  dead          \* ghost: sessions invalidated after they were published

table == <<sessions, ambiguous, keyVersions, epoch>>
vars == <<sessions, ambiguous, keyVersions, epoch, sess, lock, stale, req,
          sweep, purges, thread, tainted, dead>>

-----------------------------------------------------------------------------
(* Keys, histories and the records of the program.                         *)

History == UNION {[1 .. n -> Turn] : n \in 0 .. MaxHistory}
Chain == UNION {[1 .. n -> Turn] : n \in 0 .. MaxHistory + 1}
Key == Salt \cup (Chain \ {<<>>})

ASSUME KeyAssumption == NoKey \notin Key

\* Mutant: the empty history is digested like any other.
ContinuationKeyOfNothing(h) == h

\* computeConversationContinuationKeyWithContext: no key without a reply.
ContinuationKey(h) == IF h = <<>> THEN NoKey ELSE h

SessionFields == [key : Key \cup {NoKey}, epoch : Nat, version : Nat,
                  acct : Account, answered : BOOLEAN, raw : Nat,
                  expected : Key \cup {NoKey}]

Pc == {"idle", "get", "peek", "expire", "select", "acquire", "wait", "mismatch",
       "duplicate", "infer", "published", "done"}

RequestLocals == [pc : Pc, salt : Salt \cup {NoKey}, hist : History, raw : Nat,
                  key : Key \cup {NoKey}, cur : Session \cup {NoSession},
                  cacheable : BOOLEAN, reused : BOOLEAN,
                  attempts : Nat]

\* A handler that has not started, or has returned, has no locals.
NoLocals(pc) ==
  [pc |-> pc, salt |-> NoKey, hist |-> <<>>, raw |-> 0, key |-> NoKey,
   cur |-> NoSession, cacheable |-> FALSE, reused |-> FALSE, attempts |-> 0]

Active(r) == req[r].pc \notin {"idle", "done"}

\* Session objects some live pointer still reaches.
Reachable ==
  {sessions[k] : k \in Key} \cup {req[r].cur : r \in {q \in Request : Active(q)}}
    \cup {e[2] : e \in sweep.todo}

\* Mutant: a new session forgets the version of its key.
NewFieldsUnversioned(k, e, v, a) ==
  [key |-> k, epoch |-> e, version |-> 0, acct |-> a, answered |-> FALSE,
   raw |-> 0, expected |-> NoKey]

NewFields(k, e, v, a) ==
  [key |-> k, epoch |-> e, version |-> v, acct |-> a, answered |-> FALSE,
   raw |-> 0, expected |-> NoKey]

-----------------------------------------------------------------------------
(* Building blocks of the critical sections.                               *)

\* Mutant: the deadline is compared the wrong way round.
IsAmbiguousAfterwards(k) == k # NoKey /\ ambiguous[k] = "past"

\* ambiguousLocked: an entry past its deadline counts as absent.
IsAmbiguous(k) == k # NoKey /\ ambiguous[k] = "live"

\* What reading an entry leaves: a past one is removed.
Reread(k) == [ambiguous EXCEPT ![k] = IF @ = "live" THEN "live" ELSE "none"]

\* isCurrent, without the removal of an expired ambiguity entry.
IsCurrent(k, s) ==
  /\ ~IsAmbiguous(k)
  /\ sessions[k] = s
  /\ sess[s].key = k /\ sess[s].epoch = epoch /\ sess[s].version = keyVersions[k]

\* Mutant: a key is removed and its version stays.
UnbindSameVersion(ks) ==
  /\ sessions' = [k \in Key |-> IF k \in ks THEN NoSession ELSE sessions[k]]
  /\ UNCHANGED keyVersions

\* Remove a set of keys: the binding goes and the key's version advances.
Unbind(ks) ==
  /\ sessions' = [k \in Key |-> IF k \in ks THEN NoSession ELSE sessions[k]]
  /\ keyVersions' = [k \in Key |-> IF k \in ks THEN keyVersions[k] + 1
                                               ELSE keyVersions[k]]

\* Mutant: a failed thread is not forgotten.
DeleteIfNever(k, s) == UNCHANGED <<sessions, keyVersions, dead>>

\* DeleteIf.
DeleteIf(k, s) ==
  IF k # NoKey /\ s # NoSession /\ sessions[k] = s
  THEN /\ Unbind({k})
       /\ dead' = dead \cup {s}
  ELSE UNCHANGED <<sessions, keyVersions, dead>>

\* newConversationSessionForAccount followed by lockForRequest.
Allocate(s, r, fields) ==
  /\ s \in Session \ Reachable
  /\ sess' = [sess EXCEPT ![s] = fields]
  /\ lock' = [lock EXCEPT ![s] = r]
  /\ stale' = stale \ {s}
  /\ thread' = [thread EXCEPT ![s] = <<>>]
  /\ tainted' = tainted \ {s}

Return(r) == req' = [req EXCEPT ![r] = NoLocals("done")]
Goto(r, pc) == req' = [req EXCEPT ![r].pc = pc]

-----------------------------------------------------------------------------
(* Looking the session up: SessionManager.Get.                             *)

\* A request arrives.  Its raw message count may leave the latest exchange
\* out: countConversationMessages skips messages without content.
Begin(r) ==
  /\ req[r].pc = "idle"
  /\ \E salt \in Salt \cup (IF Stateless THEN {NoKey} ELSE {}), h \in History,
        counted \in BOOLEAN :
       LET key == IF salt # NoKey THEN salt ELSE ContinuationKey(h)
       IN req' = [req EXCEPT
            ![r].pc = IF key = NoKey THEN "select" ELSE "get",
            ![r].salt = salt, ![r].hist = h, ![r].key = key,
            ![r].raw = IF counted THEN Len(h) + 1 ELSE Len(h)]
  /\ UNCHANGED <<table, sess, lock, stale, sweep, purges, thread, tainted, dead>>

\* Get, first critical section.
Get(r) ==
  /\ req[r].pc = "get"
  /\ LET k == req[r].key IN
       /\ ambiguous' = Reread(k)
       /\ IF IsAmbiguous(k) \/ sessions[k] = NoSession
          THEN Goto(r, "select")
          ELSE req' = [req EXCEPT ![r].pc = "peek", ![r].cur = sessions[k]]
  /\ UNCHANGED <<sessions, keyVersions, epoch, sess, lock, stale, sweep, purges,
                 thread, tainted, dead>>

\* Get, lastUsedAtSnapshot: waits until no request uses the session.
Peek(r) ==
  /\ req[r].pc = "peek"
  /\ lock[req[r].cur] = NoOne
  /\ Goto(r, IF req[r].cur \in stale THEN "expire" ELSE "select")
  /\ UNCHANGED <<table, sess, lock, stale, sweep, purges, thread, tainted, dead>>

\* Get, the expired branch; and, at the head of the failover loop, the handler's
\* invalidateSession when the account of the stored thread is not usable.
Discard(r) ==
  /\ \/ req[r].pc = "expire"
     \/ req[r].pc = "select" /\ req[r].cur # NoSession
  /\ DeleteIf(req[r].key, req[r].cur)
  /\ req' = [req EXCEPT ![r].pc = "select", ![r].cur = NoSession]
  /\ UNCHANGED <<ambiguous, epoch, sess, lock, stale, sweep, purges, thread, tainted>>

\* The failover loop ends without another attempt: no account is left, or all
\* logins are busy.
GiveUp(r) ==
  /\ req[r].pc = "select"
  /\ Return(r)
  /\ UNCHANGED <<table, sess, lock, stale, sweep, purges, thread, tainted, dead>>

-----------------------------------------------------------------------------
(* Holding a session: lockConversationSessionForRequest.                   *)

\* An account has been leased, and again whenever the session found was not ours.
Acquiring == {"select", "acquire"}

\* No key: a first turn of a stateless client runs in an unpublished session.
\* An ambiguous key: the same, as an isolated full replay.
StartIsolated(r) ==
  /\ req[r].pc \in Acquiring /\ req[r].cur = NoSession
  /\ req[r].key = NoKey \/ IsAmbiguous(req[r].key)
  /\ \E s \in Session, a \in Account :
       /\ Allocate(s, r, NewFields(NoKey, 0, 0, a))
       /\ dead' = dead \ {s}
       /\ req' = [req EXCEPT ![r].pc = "infer", ![r].cur = s,
                             ![r].cacheable = FALSE, ![r].reused = FALSE,
                             ![r].attempts = @ + 1]
  /\ UNCHANGED <<table, sweep, purges>>

\* The key has a session, found now or by Get: queue for its mutex.
QueueForSession(r) ==
  /\ req[r].pc \in Acquiring /\ req[r].key # NoKey
  /\ \/ /\ req[r].cur # NoSession
        /\ Goto(r, "wait")
        /\ UNCHANGED ambiguous
     \/ /\ req[r].cur = NoSession
        /\ ~IsAmbiguous(req[r].key)
        /\ sessions[req[r].key] # NoSession
        /\ ambiguous' = Reread(req[r].key)
        /\ req' = [req EXCEPT ![r].pc = "wait", ![r].cur = sessions[req[r].key]]
  /\ UNCHANGED <<sessions, keyVersions, epoch, sess, lock, stale, sweep, purges,
                 thread, tainted, dead>>

\* The key has none: publish a new, locked session before the inference, so
\* that a fast next turn finds it.
Prepublish(r) ==
  /\ req[r].pc \in Acquiring /\ req[r].cur = NoSession
  /\ LET k == req[r].key IN
       /\ k # NoKey
       /\ ~IsAmbiguous(k)
       /\ sessions[k] = NoSession
       /\ ambiguous' = Reread(k)
       /\ \E s \in Session, a \in Account :
            /\ Allocate(s, r, NewFields(k, epoch, keyVersions[k], a))
            /\ sessions' = [sessions EXCEPT ![k] = s]
            /\ dead' = dead \ {s}
            /\ req' = [req EXCEPT ![r].pc = "infer", ![r].cur = s,
                                  ![r].cacheable = TRUE, ![r].reused = FALSE,
                                  ![r].attempts = @ + 1]
  /\ UNCHANGED <<keyVersions, epoch, sweep, purges>>

\* The mutex is ours; isCurrent and the two checks after it decide.
CheckSession(r) ==
  LET k == req[r].key
      s == req[r].cur
      clientKey == ContinuationKey(req[r].hist)
  IN
  /\ req[r].pc = "wait"
  /\ lock[s] = NoOne
  /\ ambiguous' = Reread(k)
  /\ \/ /\ ~IsCurrent(k, s)
        /\ req' = [req EXCEPT ![r].pc = "acquire", ![r].cur = NoSession]
        /\ UNCHANGED lock
     \/ /\ IsCurrent(k, s)
        /\ sess[s].answered /\ sess[s].expected # clientKey
        /\ Goto(r, "mismatch")
        /\ lock' = [lock EXCEPT ![s] = r]
     \/ /\ IsCurrent(k, s)
        /\ ~(sess[s].answered /\ sess[s].expected # clientKey)
        /\ req[r].raw > sess[s].raw
        /\ req' = [req EXCEPT ![r].pc = "infer", ![r].cacheable = TRUE,
                              ![r].reused = sess[s].answered,
                              ![r].attempts = @ + 1]
        /\ lock' = [lock EXCEPT ![s] = r]
     \/ /\ IsCurrent(k, s)
        /\ ~(sess[s].answered /\ sess[s].expected # clientKey)
        /\ req[r].raw <= sess[s].raw
        /\ Goto(r, "duplicate")
        /\ lock' = [lock EXCEPT ![s] = r]
  /\ UNCHANGED <<sessions, keyVersions, epoch, sess, stale, sweep, purges,
                 thread, tainted, dead>>

\* The client edited, branched or rolled back its history: forget the session
\* and look again.
RejectMismatch(r) ==
  /\ req[r].pc = "mismatch"
  /\ DeleteIf(req[r].key, req[r].cur)
  /\ lock' = [lock EXCEPT ![req[r].cur] = NoOne]
  /\ req' = [req EXCEPT ![r].pc = "acquire", ![r].cur = NoSession]
  /\ UNCHANGED <<ambiguous, epoch, sess, stale, sweep, purges, thread, tainted>>

\* A duplicate cannot be told from a rollback: MarkAmbiguous, then serve the
\* request from an isolated session.
RejectDuplicate(r) ==
  /\ req[r].pc = "duplicate"
  /\ LET k == req[r].key
         old == req[r].cur
     IN \E s \in Session \ Reachable, a \in Account :
          /\ Unbind({k})
          /\ ambiguous' = [ambiguous EXCEPT ![k] = "live"]
          /\ dead' = (dead \cup ({sessions[k]} \ {NoSession})) \ {s}
          /\ lock' = [lock EXCEPT ![old] = NoOne, ![s] = r]
          /\ sess' = [sess EXCEPT ![s] = NewFields(NoKey, 0, 0, a)]
          /\ stale' = stale \ {s}
          /\ thread' = [thread EXCEPT ![s] = <<>>]
          /\ tainted' = tainted \ {s}
          /\ req' = [req EXCEPT ![r].pc = "infer", ![r].cur = s,
                                ![r].cacheable = FALSE, ![r].reused = FALSE,
                                ![r].attempts = @ + 1]
  /\ UNCHANGED <<epoch, sweep, purges>>

-----------------------------------------------------------------------------
(* One inference attempt.                                                  *)

\* What the Notion thread holds once the turn is answered: a continuation
\* sends only the tail, any other attempt replays the client's history.
AnsweredThread(r, t) ==
  Append(IF req[r].reused THEN thread[req[r].cur] ELSE req[r].hist, t)

\* publishAssistant for a client with a stable id: only the expected key moves.
PublishStable(r) ==
  /\ req[r].pc = "infer"
  /\ req[r].salt # NoKey
  /\ \E t \in Turn :
       /\ sess' = [sess EXCEPT ![req[r].cur].expected = Append(req[r].hist, t)]
       /\ thread' = [thread EXCEPT ![req[r].cur] = AnsweredThread(r, t)]
  /\ Goto(r, "published")
  /\ UNCHANGED <<table, lock, stale, sweep, purges, tainted, dead>>

\* publishAssistant for a stateless client: PublishReplacement moves the
\* binding from the key of the prior reply to the key of this one.
PublishStateless(r) ==
  LET s == req[r].cur
      old == IF req[r].cacheable THEN req[r].key ELSE NoKey
      OldHeld(new) == old # NoKey /\ old # new /\ sessions[old] = s
      OldStale == /\ old # NoKey
                  /\ \/ sessions[old] # s
                     \/ sess[s].key # old
                     \/ sess[s].epoch # epoch
                     \/ sess[s].version # keyVersions[old]
      Taken(new) == sessions[new] \notin {NoSession, s}
      Reject(new, gone) ==
        /\ Unbind(gone)
        /\ ambiguous' = [k \in Key |-> IF k \in gone THEN "live"
                                       ELSE Reread(new)[k]]
        /\ dead' = dead \cup ({sessions[k] : k \in gone} \ {NoSession})
        /\ sess' = [sess EXCEPT ![s].expected = new]
        /\ req' = [req EXCEPT ![r].pc = "published", ![r].cacheable = FALSE]
  IN
  /\ req[r].pc = "infer"
  /\ req[r].salt = NoKey
  /\ \E t \in Turn :
       LET new == Append(req[r].hist, t) IN
       /\ thread' = [thread EXCEPT ![s] = AnsweredThread(r, t)]
       /\ \/ /\ IsAmbiguous(new)
             /\ Reject(new, IF OldHeld(new) THEN {old} ELSE {})
          \/ /\ ~IsAmbiguous(new) /\ OldStale
             /\ Reject(new, {})
          \/ /\ ~IsAmbiguous(new) /\ ~OldStale /\ Taken(new)
             /\ Reject(new, {new} \cup IF OldHeld(new) THEN {old} ELSE {})
          \/ /\ ~IsAmbiguous(new) /\ ~OldStale /\ ~Taken(new)
             /\ LET moved == {old} \ {NoKey, new} IN
                  /\ sessions' = [k \in Key |-> IF k = new THEN s
                                    ELSE IF k \in moved THEN NoSession
                                    ELSE sessions[k]]
                  /\ keyVersions' = [k \in Key |-> IF k \in moved
                                       THEN keyVersions[k] + 1 ELSE keyVersions[k]]
                  /\ ambiguous' = [k \in Key |-> IF k \in moved THEN "live"
                                       ELSE Reread(new)[k]]
                  /\ sess' = [sess EXCEPT ![s].expected = new, ![s].key = new,
                                          ![s].epoch = epoch,
                                          ![s].version = keyVersions[new]]
                  /\ req' = [req EXCEPT ![r].pc = "published", ![r].key = new,
                                        ![r].cacheable = TRUE]
                  /\ UNCHANGED dead
  /\ UNCHANGED <<epoch, lock, stale, sweep, purges, tainted>>

\* The attempt succeeded: completeConversationSessionLocked, Set, unlock.
Complete(r) ==
  LET s == req[r].cur
      k == req[r].key
  IN
  /\ req[r].pc = "published"
  /\ sess' = [sess EXCEPT ![s].answered = TRUE, ![s].raw = req[r].raw]
  /\ stale' = stale \ {s}
  /\ IF req[r].cacheable
     THEN /\ ambiguous' = Reread(k)
          /\ IF /\ ~IsAmbiguous(k)
                /\ sess[s].key = k /\ sess[s].epoch = epoch
                /\ sess[s].version = keyVersions[k]
             THEN sessions' = [sessions EXCEPT ![k] = s]
             ELSE UNCHANGED sessions
     ELSE UNCHANGED <<ambiguous, sessions>>
  /\ lock' = [lock EXCEPT ![s] = NoOne]
  /\ Return(r)
  /\ UNCHANGED <<keyVersions, epoch, sweep, purges, thread, tainted, dead>>

\* The attempt failed after it may have touched the thread: forget the session
\* while its mutex is held, then fail over to another account or give up.
Fail(r) ==
  LET s == req[r].cur IN
  /\ req[r].pc = "infer"
  /\ tainted' = tainted \cup {s}
  /\ IF req[r].cacheable THEN DeleteIf(req[r].key, s)
     ELSE UNCHANGED <<sessions, keyVersions, dead>>
  /\ lock' = [lock EXCEPT ![s] = NoOne]
  /\ \/ /\ req[r].attempts < MaxAttempts
        /\ req' = [req EXCEPT ![r].pc = "select", ![r].cur = NoSession]
     \/ Return(r)
  /\ UNCHANGED <<ambiguous, epoch, sess, stale, sweep, purges, thread>>

\* Mutant: the deferred function forgets the session but keeps its mutex.
PanicKeepsMutex(r) ==
  LET s == req[r].cur IN
  /\ req[r].pc \in {"infer", "published"}
  /\ tainted' = tainted \cup {s}
  /\ DeleteIf(sess[s].key, s)
  /\ Return(r)
  /\ UNCHANGED <<ambiguous, epoch, sess, lock, stale, sweep, purges, thread>>

\* A panic or a forgotten return path: the handler's deferred function.
Panic(r) ==
  LET s == req[r].cur IN
  /\ req[r].pc \in {"infer", "published"}
  /\ tainted' = tainted \cup {s}
  /\ DeleteIf(sess[s].key, s)
  /\ lock' = [lock EXCEPT ![s] = NoOne]
  /\ Return(r)
  /\ UNCHANGED <<ambiguous, epoch, sess, stale, sweep, purges, thread>>

-----------------------------------------------------------------------------
(* Invalidation, expiry and the background sweep.                          *)

\* DeleteByAccountID: the workspace was removed or replaced.
DeleteByAccountID(a) ==
  LET gone == {k \in Key : /\ sessions[k] # NoSession
                           /\ sess[sessions[k]].acct = a}
  IN
  /\ purges < MaxPurges
  /\ gone # {}
  /\ Unbind(gone)
  /\ dead' = dead \cup {sessions[k] : k \in gone}
  /\ purges' = purges + 1
  /\ UNCHANGED <<ambiguous, epoch, sess, lock, stale, req, sweep, thread, tainted>>

\* Clear, under the write side of dashboardSettingsMu, whose read side every
\* request holds from start to end.
Clear ==
  /\ purges < MaxPurges
  /\ \A r \in Request : ~Active(r)
  /\ dead' = dead \cup ({sessions[k] : k \in Key} \ {NoSession})
  /\ sessions' = [k \in Key |-> NoSession]
  /\ ambiguous' = [k \in Key |-> "none"]
  /\ keyVersions' = [k \in Key |-> 0]
  /\ epoch' = epoch + 1
  /\ purges' = purges + 1
  /\ UNCHANGED <<sess, lock, stale, req, sweep, thread, tainted>>

\* Time passes one TTL after the last use of a session ...
Age(s) ==
  /\ s \in {sessions[k] : k \in Key} \ stale
  /\ stale' = stale \cup {s}
  /\ UNCHANGED <<table, sess, lock, req, sweep, purges, thread, tainted, dead>>

\* ... or reaches the deadline of an ambiguous key.
AmbiguityEnds(k) ==
  /\ ambiguous[k] = "live"
  /\ ambiguous' = [ambiguous EXCEPT ![k] = "past"]
  /\ UNCHANGED <<sessions, keyVersions, epoch, sess, lock, stale, req, sweep,
                 purges, thread, tainted, dead>>

\* sweepExpired, first section: a snapshot, and past ambiguity entries go.
SweepSnapshot ==
  /\ sweep.pc = "idle" /\ sweep.count < MaxSweeps
  /\ sweep' = [pc |-> "walk", count |-> sweep.count + 1,
               todo |-> {<<k, sessions[k]>> : k \in {x \in Key : sessions[x] # NoSession}},
               doomed |-> {}]
  /\ ambiguous' = [k \in Key |-> IF ambiguous[k] = "past" THEN "none" ELSE ambiguous[k]]
  /\ UNCHANGED <<sessions, keyVersions, epoch, sess, lock, stale, req, purges,
                 thread, tainted, dead>>

\* sweepExpired, one session: wait for its mutex, see whether it is expired ...
SweepVisit ==
  /\ sweep.pc = "walk" /\ sweep.doomed = {}
  /\ \E e \in sweep.todo :
       /\ lock[e[2]] = NoOne
       /\ sweep' = IF e[2] \in stale THEN [sweep EXCEPT !.doomed = {e}]
                   ELSE [sweep EXCEPT !.todo = @ \ {e}]
  /\ UNCHANGED <<table, sess, lock, stale, req, purges, thread, tainted, dead>>

\* ... and delete it, in a critical section of its own.
SweepDelete ==
  /\ \E e \in sweep.doomed :
       /\ DeleteIf(e[1], e[2])
       /\ sweep' = [sweep EXCEPT !.todo = @ \ {e}, !.doomed = {}]
  /\ UNCHANGED <<ambiguous, epoch, sess, lock, stale, req, purges, thread, tainted>>

\* sweepExpired, last section: versions of keys in neither map are dropped.
SweepVersions ==
  /\ sweep.pc = "walk" /\ sweep.todo = {}
  /\ keyVersions' = [k \in Key |->
       IF sessions[k] = NoSession /\ ambiguous[k] = "none" THEN 0 ELSE keyVersions[k]]
  /\ sweep' = [sweep EXCEPT !.pc = "idle"]
  /\ UNCHANGED <<sessions, ambiguous, epoch, sess, lock, stale, req, purges,
                 thread, tainted, dead>>

-----------------------------------------------------------------------------
Init ==
  /\ sessions = [k \in Key |-> NoSession]
  /\ ambiguous = [k \in Key |-> "none"]
  /\ keyVersions = [k \in Key |-> 0]
  /\ epoch = 1
  /\ sess = [s \in Session |-> NewFields(NoKey, 0, 0, CHOOSE a \in Account : TRUE)]
  /\ req = [r \in Request |-> NoLocals("idle")]
  /\ lock = [s \in Session |-> NoOne]
  /\ stale = {}
  /\ sweep = [pc |-> "idle", count |-> 0, todo |-> {}, doomed |-> {}]
  /\ purges = 0
  /\ thread = [s \in Session |-> <<>>]
  /\ tainted = {}
  /\ dead = {}

HandlerStep(r) ==
  \/ Get(r) \/ Peek(r) \/ Discard(r) \/ GiveUp(r)
  \/ StartIsolated(r) \/ QueueForSession(r) \/ Prepublish(r)
  \/ CheckSession(r) \/ RejectMismatch(r) \/ RejectDuplicate(r)
  \/ PublishStable(r) \/ PublishStateless(r)
  \/ Complete(r) \/ Fail(r) \/ Panic(r)

Sweep == SweepSnapshot \/ SweepVisit \/ SweepDelete \/ SweepVersions

Next ==
  \/ \E r \in Request : Begin(r) \/ HandlerStep(r)
  \/ \E a \in Account : DeleteByAccountID(a)
  \/ Clear
  \/ \E s \in Session : Age(s)
  \/ \E k \in Key : AmbiguityEnds(k)
  \/ Sweep

Spec == Init /\ [][Next]_vars

\* A running handler or sweep goroutine is scheduled again and again; nothing
\* says that a request arrives or that time reaches a deadline.
Fairness ==
  /\ \A r \in Request : WF_vars(HandlerStep(r))
  /\ WF_vars(SweepVisit \/ SweepDelete \/ SweepVersions)

FairSpec == Spec /\ Fairness

-----------------------------------------------------------------------------
(* Properties.                                                             *)

Holding == {"mismatch", "duplicate", "infer", "published"}

SweepState ==
  [pc : {"idle", "walk"}, count : Nat, todo : SUBSET (Key \X Session),
   doomed : SUBSET (Key \X Session)]

\* Every variable holds a value of the type the code gives it.
TypeOK ==
  /\ sessions \in [Key -> Session \cup {NoSession}]
  /\ ambiguous \in [Key -> {"none", "live", "past"}]
  /\ keyVersions \in [Key -> Nat]
  /\ epoch \in Nat
  /\ sess \in [Session -> SessionFields]
  /\ lock \in [Session -> Request \cup {NoOne}]
  /\ stale \in SUBSET Session
  /\ req \in [Request -> RequestLocals]
  /\ sweep \in SweepState
  /\ purges \in Nat
  /\ thread \in [Session -> Seq(Turn)]
  /\ tainted \in SUBSET Session
  /\ dead \in SUBSET Session

\* A published session carries exactly the key, epoch and version it is
\* published under: Set and isCurrent compare these, so a session bound
\* under a second key, or under an outdated version, would be unusable or
\* would let a stale completion through.
BindingCurrent ==
  \A k \in Key : sessions[k] # NoSession =>
    /\ sess[sessions[k]].key = k
    /\ sess[sessions[k]].epoch = epoch
    /\ sess[sessions[k]].version = keyVersions[k]

\* While a key is marked ambiguous nothing is published under it, whichever
\* request publishes, completes or arrives next (MarkAmbiguous: "disables
\* thread reuse for a key for one TTL window").
AmbiguousUnbound == \A k \in Key : ambiguous[k] # "none" => sessions[k] = NoSession

\* An attempt that continues a Notion thread finds there exactly the history
\* its client sent, and never a thread a failed attempt may have left a
\* partial turn in ("only the exact client-visible history chain may
\* authorize continuation").
ContinuationExact ==
  \A r \in Request : req[r].pc = "infer" /\ req[r].reused =>
    /\ thread[req[r].cur] = req[r].hist
    /\ req[r].cur \notin tainted

\* A session mutex is held only by a request that is still working on that
\* session ("must not strand the conversation mutex").
MutexNotStranded ==
  \A s \in Session : lock[s] # NoOne =>
    /\ req[lock[s]].cur = s
    /\ req[lock[s]].pc \in Holding

\* An invalidated thread is never published again ("Never let a stale
\* completion resurrect an invalidated thread").
NoResurrection == \A k \in Key : sessions[k] \notin dead

\* A request waits for the mutex of the session it looks at, and nowhere else; a new
\* session needs memory, here an address nobody uses.
Waiting(r) == req[r].pc \in {"peek", "wait"}

RequestGoesOn(r) ==
  \/ req[r].pc \in {"get", "expire", "select", "mismatch", "infer", "published"}
  \/ Waiting(r) /\ lock[req[r].cur] = NoOne
  \/ /\ req[r].pc = "acquire"
     /\ ~IsAmbiguous(req[r].key) /\ sessions[req[r].key] # NoSession
  \/ req[r].pc \in {"acquire", "duplicate"} /\ Session \ Reachable # {}

SweepGoesOn ==
  /\ sweep.pc = "walk"
  /\ \/ sweep.todo = {} \/ sweep.doomed # {}
     \/ \E e \in sweep.todo : lock[e[2]] = NoOne

\* Who holds the mutex of session s can go on.
HolderGoesOn(s) ==
  /\ lock[s] \in Request
  /\ ~Waiting(lock[s]) /\ RequestGoesOn(lock[s])

\* Nobody waits for ever: a request that is not answered has a step of its own, or
\* the one that holds the mutex it waits for has one, and so it is with the sweep.
\* No two requests ever wait for each other, since the one that holds a mutex
\* waits for none (a request gives its session up before it looks for another).
NobodyStuck ==
  Session \ Reachable # {} =>
    /\ \A r \in Request : Active(r) =>
         \/ RequestGoesOn(r)
         \/ Waiting(r) /\ HolderGoesOn(req[r].cur)
    /\ sweep.pc = "walk" =>
         \/ SweepGoesOn
         \/ \A e \in sweep.todo : HolderGoesOn(e[2])

\* The guards written out above are those of the steps.
GuardsExact ==
  /\ \A r \in Request : RequestGoesOn(r) <=> ENABLED HandlerStep(r)
  /\ SweepGoesOn <=> ENABLED (SweepVisit \/ SweepDelete \/ SweepVersions)

\* Every admitted request is answered: no wait for a session mutex, and no
\* round of the lookup loop, lasts for ever.
RequestsEnd == \A r \in Request : Active(r) ~> req[r].pc = "done"

=============================================================================
