------------------------- MODULE QuotaRefreshProofs -------------------------
(***************************************************************************)
(* Proofs about QuotaRefresh, for any number of imports and goroutines.    *)
(*                                                                         *)
(* The inductive invariant speaks of the objects whose entries in the maps *)
(* were never dropped.  An object is not imported yet, in the pool, on its *)
(* way out, or gone (Places); goroutines and maps do not know the first    *)
(* (Untouched).  A goroutine that is in a flight as its leader, and no     *)
(* other, is listed for its object (Flights); and no generation held or    *)
(* applied exceeds those given out, while what is known is the answer of   *)
(* the newest one applied (Generations).                                   *)
(*                                                                         *)
(* That no follower is left behind needs one more part, Waits: a flight    *)
(* that a goroutine follows is under way or closed.                        *)
(***************************************************************************)
EXTENDS QuotaRefresh, TLAPS

\* The entries of the object in the maps were never dropped.
Kept(a) == a \in fresh \/ a \in dropping \/ a = current

Types ==
  /\ current \in Account \cup {NoAccount}
  /\ fresh \in SUBSET Account /\ dropping \in SUBSET Account
  /\ quota \in [Account -> QuotaType]
  /\ generation \in [Account -> Nat] /\ applied \in [Account -> Nat]
  /\ flight \in [Account -> Proc \cup {NoProc}]
  /\ proc \in [Proc -> ProcType]
  /\ told \in [Account -> SUBSET Told]

Places ==
  /\ current \notin fresh /\ current \notin dropping
  /\ \A a \in fresh : a \notin dropping

Untouched ==
  /\ \A a \in fresh : generation[a] = 0 /\ applied[a] = 0 /\ told[a] = {}
  /\ \A c \in Proc : proc[c].acc \notin fresh

\* The locals of a goroutine, by its place.
LocalOK(c, r) ==
  /\ r.pc # "idle" => r.acc \in Account
  /\ r.pc = "probe" => r.kind \in {"refresh", "cleanup", "register"}
  /\ r.pc \in {"idle", "probe", "check", "begin", "ticket"} => r.of = NoProc
  /\ r.pc \in {"fetch", "apply"} => r.of \in {c, NoProc}
  /\ r.pc = "apply" => r.answer \in {"eligible", "exhausted"}

Locals == \A c \in Proc : LocalOK(c, proc[c])

Flights ==
  \A c \in Proc, a \in Account : Kept(a) /\ Leading(c, a) => flight[a] = c

\* A goroutine that has a generation has one that was given out.
Held ==
  \A c \in Proc :
    /\ proc[c].pc \in {"fetch", "apply"} => 0 < proc[c].gen
    /\ Kept(proc[c].acc) /\ proc[c].pc \in {"fetch", "apply"}
         => proc[c].gen <= generation[proc[c].acc]

\* What is known is the newest answer applied.
Newest(a) ==
  /\ applied[a] <= generation[a]
  /\ applied[a] # 0 => told[a] # {}
  /\ \A u \in told[a] : u.gen <= applied[a]
  /\ told[a] # {} =>
       \E t \in told[a] : t.gen = applied[a] /\ t.answer = quota[a].info

Generations == \A a \in Account : Kept(a) => Newest(a)

Inv == Types /\ Places /\ Untouched /\ Locals /\ Flights /\ Held /\ Generations

-----------------------------------------------------------------------------
(* Lemmas about the operators.                                             *)

\* What a goroutine does next is one of its places.
LEMMA ReturnPlace ==
  ASSUME NEW c, NEW eligible \in BOOLEAN, NEW failed \in BOOLEAN
  PROVE  Return(c, eligible, failed) \in {"over", "mark", "confirm"}
BY DEF Return

\* Goto changes the place of one goroutine and nothing else of it.
LEMMA GotoRecord ==
  ASSUME proc \in [Proc -> ProcType], NEW c \in Proc, NEW pc \in Pc, Goto(c, pc)
  PROVE  /\ proc' = [proc EXCEPT ![c] = [proc[c] EXCEPT !.pc = pc]]
         /\ [proc[c] EXCEPT !.pc = pc] \in ProcType
         /\ [proc[c] EXCEPT !.pc = pc].pc = pc
         /\ [proc[c] EXCEPT !.pc = pc].kind = proc[c].kind
         /\ [proc[c] EXCEPT !.pc = pc].acc = proc[c].acc
         /\ [proc[c] EXCEPT !.pc = pc].gen = proc[c].gen
         /\ [proc[c] EXCEPT !.pc = pc].of = proc[c].of
         /\ [proc[c] EXCEPT !.pc = pc].answer = proc[c].answer
BY DEF Goto, ProcType

\* Neither a probe nor a mark changes what the last answer said, and all that
\* is stored keeps its type.
LEMMA ProfiledType ==
  ASSUME NEW q \in QuotaType, NEW plan \in Plans
  PROVE  Profiled(q, plan) \in QuotaType /\ Profiled(q, plan).info = q.info
<1>1. /\ Profiled(q, plan).plan = plan /\ Profiled(q, plan).info = q.info
      /\ Profiled(q, plan).marked = (q.marked /\ ~Included(plan))
      /\ Profiled(q, plan).permanent = (q.permanent /\ ~Included(plan))
  BY DEF Profiled, QuotaType
<1>2. Profiled(q, plan).marked \in BOOLEAN /\ Profiled(q, plan).permanent \in BOOLEAN
  BY <1>1, Zenon
<1>3. Profiled(q, plan) = [plan |-> plan, info |-> q.info,
                           marked |-> Profiled(q, plan).marked,
                           permanent |-> Profiled(q, plan).permanent]
  BY Zenon DEF Profiled
<1> QED
  BY <1>1, <1>2, <1>3 DEF QuotaType

LEMMA MarkedType ==
  ASSUME NEW q \in QuotaType
  PROVE  /\ Marked(q) \in QuotaType /\ Marked(q).info = q.info
         /\ Cleared(q) \in QuotaType /\ Cleared(q).info = q.info
<1>1. Marked(q).permanent \in BOOLEAN
  BY Zenon DEF Marked
<1>2. Marked(q) = [plan |-> q.plan, info |-> q.info, marked |-> TRUE,
                   permanent |-> Marked(q).permanent]
  BY Zenon DEF Marked
<1>3. Marked(q).info = q.info
  BY Zenon DEF Marked
<1>4. /\ q.plan \in Plans \cup {"other"} /\ q.info \in Info
      /\ q.permanent \in BOOLEAN
  BY DEF QuotaType
<1>5. Marked(q) \in QuotaType
  <2> DEFINE permanent == Marked(q).permanent
  <2>1. Marked(q) = [plan |-> q.plan, info |-> q.info, marked |-> TRUE,
                     permanent |-> permanent] /\ permanent \in BOOLEAN
    BY <1>1, <1>2
  <2> HIDE DEF permanent
  <2> QED BY <1>4, <2>1 DEF QuotaType
<1>6. Cleared(q) \in QuotaType /\ Cleared(q).info = q.info
  BY <1>4 DEF Cleared, QuotaType
<1> QED
  BY <1>3, <1>5, <1>6

LEMMA QuotaAfterType ==
  ASSUME NEW q \in QuotaType, NEW answer \in {"eligible", "exhausted"}
  PROVE  QuotaAfter(q, answer) \in QuotaType /\ QuotaAfter(q, answer).info = answer
<1> DEFINE r == QuotaAfter(q, answer)
           good == answer = "eligible" \/ Included(q.plan)
           kept == q.permanent /\ LifetimeFree(q.plan)
<1>1. /\ r.plan = q.plan /\ r.info = answer
      /\ r.marked = (IF good THEN q.marked /\ kept ELSE TRUE)
      /\ r.permanent = (IF good THEN kept ELSE q.permanent \/ Complimentary(q.plan))
  BY DEF QuotaAfter, QuotaType
<1>2. r.marked \in BOOLEAN
  <2>1. q.marked \in BOOLEAN /\ q.permanent \in BOOLEAN
    BY DEF QuotaType
  <2> QED BY <1>1, <2>1, Zenon
<1>3. r.permanent \in BOOLEAN
  <2>1. q.marked \in BOOLEAN /\ q.permanent \in BOOLEAN
    BY DEF QuotaType
  <2> QED BY <1>1, <2>1, Zenon
<1>4. r = [plan |-> q.plan, info |-> answer, marked |-> r.marked,
           permanent |-> r.permanent]
  BY Zenon DEF QuotaAfter
<1> QED
  BY <1>1, <1>2, <1>3, <1>4 DEF QuotaType, Info

-----------------------------------------------------------------------------
(* Steps.                                                                  *)

\* A goroutine that goes on without a new generation or a new flight, and
\* leaves the last answers as they are, preserves the invariant.
LEMMA Walk ==
  ASSUME Inv, UNCHANGED <<pool, maps, told>>,
         NEW c \in Proc, NEW r \in ProcType, proc' = [proc EXCEPT ![c] = r],
         quota' \in [Account -> QuotaType],
         \A a \in Account : quota'[a].info = quota[a].info,
         LocalOK(c, r), r.acc = proc[c].acc, r.gen = proc[c].gen,
         r.pc \in {"fetch", "apply"} => proc[c].pc \in {"fetch", "apply"},
         r.pc \in {"fetch", "apply", "finish"} /\ r.of = c
           => proc[c].pc \in {"fetch", "apply", "finish"} /\ proc[c].of = c
  PROVE  Inv'
<1>1. Types'
  BY DEF Inv, Types, pool, maps
<1>2. Places'
  BY DEF Inv, Places, pool
<1>3. Untouched'
  BY DEF Inv, Untouched, Types, pool, maps
<1>4. Locals'
  BY DEF Inv, Locals, Types
<1>5. Flights'
  BY DEF Inv, Flights, Types, Kept, Leading, Leads, pool, maps
<1>6. Held'
  BY DEF Inv, Held, Types, Kept, pool, maps
<1>7. Generations'
  BY DEF Inv, Generations, Newest, Types, Kept, pool, maps
<1> QED
  BY <1>1, <1>2, <1>3, <1>4, <1>5, <1>6, <1>7 DEF Inv

\* The special case of a step that only moves a goroutine to a place where it
\* holds no generation.
LEMMA Move ==
  ASSUME Inv, UNCHANGED <<pool, maps, told>>, NEW c \in Proc,
         NEW pc \in Pc \ {"idle", "fetch", "apply", "finish"},
         proc[c].pc # "idle", Goto(c, pc),
         pc = "probe" => proc[c].kind \in {"refresh", "cleanup", "register"},
         pc \in {"probe", "check", "begin", "ticket"} => proc[c].of = NoProc,
         quota' \in [Account -> QuotaType],
         \A a \in Account : quota'[a].info = quota[a].info
  PROVE  Inv'
<1> DEFINE r == [proc[c] EXCEPT !.pc = pc]
<1>1. proc \in [Proc -> ProcType] /\ LocalOK(c, proc[c])
  BY DEF Inv, Types, Locals
<1>2. /\ proc' = [proc EXCEPT ![c] = r] /\ r \in ProcType
      /\ r.pc = pc /\ r.kind = proc[c].kind /\ r.acc = proc[c].acc
      /\ r.gen = proc[c].gen /\ r.of = proc[c].of
  BY <1>1, GotoRecord
<1> HIDE DEF r
<1>3. LocalOK(c, r)
  BY <1>1, <1>2 DEF LocalOK
<1> QED
  BY <1>2, <1>3, Walk

LEMMA ProbeStep == ASSUME Inv, NEW c \in Proc, Probe(c) PROVE Inv'
<1> DEFINE a == proc[c].acc
           onward == [refresh |-> {"ticket"}, cleanup |-> {"check", "over"},
                      register |-> {"over"}]
<1>1. /\ proc \in [Proc -> ProcType] /\ quota \in [Account -> QuotaType]
      /\ proc[c].pc = "probe" /\ LocalOK(c, proc[c]) /\ UNCHANGED <<pool, maps, told>>
  BY DEF Inv, Types, Locals, Probe
<1>2. /\ a \in Account /\ proc[c].of = NoProc
      /\ proc[c].kind \in {"refresh", "cleanup", "register"}
  BY <1>1 DEF LocalOK
<1>3. onward[proc[c].kind] \subseteq {"ticket", "check", "over"}
  BY <1>2
<1>4. \E pc \in {"ticket", "check", "over"} : Goto(c, pc)
  <2>1. \/ \E pc \in onward[proc[c].kind] : Goto(c, pc)
        \/ \E pc \in {"over"} \cup (onward[proc[c].kind] \ {"check"}) : Goto(c, pc)
    BY DEF Probe
  <2> QED BY <1>3, <2>1
<1>5. /\ quota' \in [Account -> QuotaType]
      /\ \A b \in Account : quota'[b].info = quota[b].info
  <2>1. CASE \E plan \in Plans : quota' = [quota EXCEPT ![a] = Profiled(quota[a], plan)]
    <3>1. PICK plan \in Plans : quota' = [quota EXCEPT ![a] = Profiled(quota[a], plan)]
      BY <2>1
    <3>2. Profiled(quota[a], plan) \in QuotaType /\ Profiled(quota[a], plan).info = quota[a].info
      BY <1>1, <1>2, ProfiledType
    <3> QED BY <1>1, <1>2, <3>1, <3>2
  <2>2. CASE UNCHANGED quota
    BY <1>1, <2>2
  <2> QED BY <2>1, <2>2 DEF Probe
<1>6. PICK pc \in {"ticket", "check", "over"} : Goto(c, pc)
  BY <1>4
<1>7. pc \in Pc \ {"idle", "fetch", "apply", "finish"} /\ proc[c].pc # "idle"
  BY <1>1, <1>6 DEF Pc
<1> QED
  BY <1>1, <1>2, <1>5, <1>6, <1>7, Move

\* The steps that only read the account.
LEMMA ReadStep ==
  ASSUME Inv, NEW c \in Proc,
         Check(c) \/ Wake(c) \/ Fallback(c) \/ MarkPlan(c) \/ Confirm(c)
  PROVE  Inv'
<1> DEFINE Places2 == {"over", "mark", "confirm", "begin", "set", "clear", "delete", "fallback"}
<1>1. /\ proc \in [Proc -> ProcType] /\ quota \in [Account -> QuotaType]
      /\ LocalOK(c, proc[c]) /\ UNCHANGED <<pool, quota, maps, told>>
  BY DEF Inv, Types, Locals, Check, Wake, Fallback, MarkPlan, Confirm
<1>2. /\ proc[c].pc \in {"check", "wait", "fallback", "mark", "confirm"}
      /\ \E pc \in Places2 : Goto(c, pc) /\ (pc = "begin" => proc[c].pc = "check")
  <2>1. \A e, f \in BOOLEAN : Return(c, e, f) \in {"over", "mark", "confirm"}
    BY ReturnPlace
  <2>2. \A q : FromCache(q) \in BOOLEAN
    BY DEF FromCache, Exhausted
  <2>3. CASE Check(c)
    BY <2>1, <2>2, <2>3 DEF Check
  <2>4. CASE Wake(c)
    BY <2>1, <2>4 DEF Wake
  <2>5. CASE Fallback(c)
    BY <2>1, <2>2, <2>5 DEF Fallback
  <2>6. CASE MarkPlan(c)
    BY <2>6 DEF MarkPlan
  <2>7. CASE Confirm(c)
    BY <2>7 DEF Confirm
  <2> QED BY <2>3, <2>4, <2>5, <2>6, <2>7
<1>3. PICK pc \in Places2 : Goto(c, pc) /\ (pc = "begin" => proc[c].pc = "check")
  BY <1>2
<1>4. /\ pc \in Pc \ {"idle", "fetch", "apply", "finish"} /\ proc[c].pc # "idle"
      /\ pc \in {"probe", "check", "begin", "ticket"} => proc[c].of = NoProc
      /\ pc # "probe"
  BY <1>1, <1>2, <1>3 DEF Pc, LocalOK
<1> QED
  BY <1>1, <1>3, <1>4, Move

LEMMA MarkStep == ASSUME Inv, NEW c \in Proc, Mark(c) PROVE Inv'
<1> DEFINE a == proc[c].acc
<1>1. /\ proc \in [Proc -> ProcType] /\ quota \in [Account -> QuotaType]
      /\ LocalOK(c, proc[c]) /\ UNCHANGED <<pool, maps, told>> /\ Goto(c, "over")
      /\ proc[c].pc \in {"set", "clear"}
  BY DEF Inv, Types, Locals, Mark
<1>2. a \in Account
  BY <1>1 DEF LocalOK
<1>3. /\ quota' \in [Account -> QuotaType]
      /\ \A b \in Account : quota'[b].info = quota[b].info
  <2>1. \E q \in {Marked(quota[a]), Cleared(quota[a])} : quota' = [quota EXCEPT ![a] = q]
    BY DEF Mark
  <2> QED BY <1>1, <1>2, <2>1, MarkedType
<1>4. "over" \in Pc \ {"idle", "fetch", "apply", "finish"}
  BY DEF Pc
<1> QED
  BY <1>1, <1>3, <1>4, Move

LEMMA FetchStep == ASSUME Inv, NEW c \in Proc, Fetch(c) PROVE Inv'
<1>1. /\ proc \in [Proc -> ProcType] /\ quota \in [Account -> QuotaType]
      /\ proc[c].pc = "fetch" /\ LocalOK(c, proc[c])
      /\ UNCHANGED <<pool, quota, maps, told>>
  BY DEF Inv, Types, Locals, Fetch
<1>2. ASSUME NEW answer \in {"eligible", "exhausted"},
             proc' = [proc EXCEPT ![c].pc = "apply", ![c].answer = answer]
      PROVE  Inv'
  <2> DEFINE r == [proc[c] EXCEPT !.pc = "apply", !.answer = answer]
  <2>1. proc' = [proc EXCEPT ![c] = r]
    BY <1>1, <1>2
  <2>2. /\ r \in ProcType /\ r.pc = "apply" /\ r.acc = proc[c].acc
        /\ r.gen = proc[c].gen /\ r.of = proc[c].of /\ r.answer = answer
    BY <1>1 DEF ProcType, Pc
  <2> HIDE DEF r
  <2>3. LocalOK(c, r)
    BY <1>1, <2>2 DEF LocalOK
  <2> QED
    BY <1>1, <2>1, <2>2, <2>3, Walk
<1>3. ASSUME Goto(c, IF Leads(c) THEN "finish" ELSE "over")
      PROVE  Inv'
  <2> DEFINE pc == IF Leads(c) THEN "finish" ELSE "over"
             r == [proc[c] EXCEPT !.pc = pc]
  <2>1. pc \in Pc /\ pc \in {"finish", "over"}
    BY DEF Pc
  <2> HIDE DEF pc
  <2>2. /\ proc' = [proc EXCEPT ![c] = r] /\ r \in ProcType /\ r.pc = pc
        /\ r.acc = proc[c].acc /\ r.gen = proc[c].gen /\ r.of = proc[c].of
    BY <1>1, <1>3, <2>1, GotoRecord DEF pc
  <2> HIDE DEF r
  <2>3. LocalOK(c, r)
    BY <1>1, <2>1, <2>2 DEF LocalOK
  <2> QED
    BY <1>1, <2>1, <2>2, <2>3, Walk
<1> QED
  BY <1>2, <1>3 DEF Fetch

LEMMA StartStep ==
  ASSUME Inv, NEW c \in Proc, NEW kind \in Kinds, Start(c, kind)
  PROVE  Inv'
<1> DEFINE pc == IF kind = "register" THEN "ticket"
                 ELSE IF kind \in {"refresh", "cleanup"} THEN "probe" ELSE "check"
           r == [Idle EXCEPT !.kind = kind, !.acc = current, !.pc = pc]
<1>1. /\ Types /\ current \in Account /\ proc' = [proc EXCEPT ![c] = r]
      /\ UNCHANGED <<pool, quota, maps, told>>
  BY DEF Inv, Types, Start
<1>2. pc \in {"ticket", "probe", "check"} /\ (pc = "probe" => kind \in {"refresh", "cleanup"})
  OBVIOUS
<1> HIDE DEF pc
<1>3. /\ r \in ProcType /\ r.pc = pc /\ r.kind = kind /\ r.acc = current
      /\ r.of = NoProc
  BY <1>1, <1>2 DEF ProcType, Idle, Pc
<1> HIDE DEF r
<1>4. Types'
  BY <1>1, <1>3 DEF Types, pool, maps
<1>5. Places'
  BY <1>1 DEF Inv, Places, pool
<1>6. Untouched'
  BY <1>1, <1>3 DEF Inv, Untouched, Types, Places, pool, maps
<1>7. Locals'
  BY <1>1, <1>2, <1>3 DEF Inv, Locals, LocalOK, Types
<1>8. Flights'
  BY <1>1, <1>2, <1>3 DEF Inv, Flights, Types, Kept, Leading, Leads, pool, maps
<1>9. Held'
  BY <1>1, <1>2, <1>3 DEF Inv, Held, Types, Kept, pool, maps
<1>10. Generations'
  BY <1>1 DEF Inv, Generations, Newest, Types, Kept, pool, maps
<1> QED
  BY <1>4, <1>5, <1>6, <1>7, <1>8, <1>9, <1>10 DEF Inv

\* A goroutine takes the next generation of its object, as a leader or not.
LEMMA TakeGeneration ==
  ASSUME Inv, NEW c \in Proc, NEW of \in {c, NoProc}, NEW a, a = proc[c].acc,
         proc[c].pc \in {"begin", "ticket"},
         generation' = [generation EXCEPT ![a] = generation[a] + 1],
         proc' = [proc EXCEPT ![c] = [proc[c] EXCEPT !.pc = "fetch", !.of = of,
                                                     !.gen = generation[a] + 1]],
         of = c => flight[a] = NoProc /\ flight' = [flight EXCEPT ![a] = c],
         of # c => flight' = flight,
         UNCHANGED <<pool, quota, applied, told>>
  PROVE  Inv'
<1> DEFINE r == [proc[c] EXCEPT !.pc = "fetch", !.of = of, !.gen = generation[a] + 1]
<1>1. Types /\ a \in Account /\ generation[a] \in Nat /\ LocalOK(c, proc[c])
  BY DEF Inv, Types, Locals, LocalOK
<1>2. /\ r \in ProcType /\ r.pc = "fetch" /\ r.acc = a /\ r.of = of
      /\ r.gen = generation[a] + 1 /\ proc' = [proc EXCEPT ![c] = r]
  <2> DEFINE n == generation[a] + 1
  <2>1. n \in Nat /\ of \in Proc \cup {NoProc} /\ proc[c] \in ProcType
    BY <1>1 DEF Types
  <2> HIDE DEF n
  <2>2. [proc[c] EXCEPT !.pc = "fetch", !.of = of, !.gen = n] \in ProcType
    BY <2>1 DEF ProcType, Pc
  <2>3. /\ [proc[c] EXCEPT !.pc = "fetch", !.of = of, !.gen = n].pc = "fetch"
        /\ [proc[c] EXCEPT !.pc = "fetch", !.of = of, !.gen = n].acc = a
        /\ [proc[c] EXCEPT !.pc = "fetch", !.of = of, !.gen = n].of = of
        /\ [proc[c] EXCEPT !.pc = "fetch", !.of = of, !.gen = n].gen = n
    BY <2>1 DEF ProcType
  <2> QED BY <2>2, <2>3 DEF n
<1> HIDE DEF r
<1>3. a \notin fresh
  BY DEF Inv, Untouched
<1>4. Types'
  BY <1>1, <1>2 DEF Types, pool
<1>5. Places'
  BY DEF Inv, Places, pool
<1>6. Untouched'
  BY <1>1, <1>2, <1>3 DEF Inv, Untouched, Types, pool
<1>7. Locals'
  BY <1>1, <1>2 DEF Inv, Locals, LocalOK, Types
<1>8. Flights'
  BY <1>1, <1>2, QuotaAssumption DEF Inv, Flights, Types, Kept, Leading, Leads, pool
<1>9. Held'
  <2>1. \A b \in Account : generation[b] <= generation'[b] /\ generation[b] \in Nat
    BY <1>1 DEF Types
  <2>2. \A d \in Proc : d # c => proc'[d] = proc[d] /\ proc[d].gen \in Nat
    BY <1>1, <1>2 DEF Types, ProcType
  <2>3. \A b : Kept(b)' <=> Kept(b)
    BY DEF Kept, pool
  <2>4. proc'[c].gen <= generation'[proc'[c].acc] /\ 0 < proc'[c].gen
    BY <1>1, <1>2 DEF Types
  <2>5. ASSUME NEW d \in Proc, d # c, proc[d].pc \in {"fetch", "apply"}
        PROVE  /\ 0 < proc'[d].gen
               /\ Kept(proc[d].acc) => proc'[d].gen <= generation'[proc[d].acc]
    <3>1. proc[d].acc \in Account /\ generation'[proc[d].acc] \in Nat
      BY <1>1, <1>4, <2>5 DEF Inv, Locals, LocalOK, Types
    <3> QED BY <2>1, <2>2, <2>5, <3>1 DEF Inv, Held
  <2> QED BY <1>2, <2>2, <2>3, <2>4, <2>5 DEF Held
<1>10. Generations'
  BY <1>1 DEF Inv, Generations, Newest, Types, Kept, Told, pool
<1> QED
  BY <1>4, <1>5, <1>6, <1>7, <1>8, <1>9, <1>10 DEF Inv

LEMMA TicketStep == ASSUME Inv, NEW c \in Proc, Ticket(c) PROVE Inv'
<1> DEFINE a == proc[c].acc
<1>1. /\ proc[c].pc = "ticket" /\ proc[c].of = NoProc /\ Types
      /\ generation' = [generation EXCEPT ![a] = generation[a] + 1]
      /\ UNCHANGED <<pool, quota, applied, flight, told>>
  BY DEF Inv, Locals, LocalOK, Ticket
<1>2. proc' = [proc EXCEPT ![c] = [proc[c] EXCEPT !.pc = "fetch", !.of = NoProc,
                                                  !.gen = generation[a] + 1]]
  BY <1>1 DEF Ticket, Types, ProcType
<1>3. NoProc # c
  BY QuotaAssumption
<1> QED
  BY <1>1, <1>2, <1>3, TakeGeneration

LEMMA BeginFlightStep == ASSUME Inv, NEW c \in Proc, BeginFlight(c) PROVE Inv'
<1> DEFINE a == proc[c].acc
<1>1. /\ proc[c].pc = "begin" /\ Types /\ UNCHANGED <<pool, quota, applied, told>>
      /\ LocalOK(c, proc[c])
  BY DEF Inv, Locals, BeginFlight
<1>2. CASE flight[a] = NoProc
  <2>1. /\ generation' = [generation EXCEPT ![a] = generation[a] + 1]
        /\ flight' = [flight EXCEPT ![a] = c]
        /\ proc' = [proc EXCEPT ![c] = [proc[c] EXCEPT !.pc = "fetch", !.of = c,
                                                        !.gen = generation[a] + 1]]
    BY <1>1, <1>2 DEF BeginFlight, Types
  <2> QED
    BY <1>1, <1>2, <2>1, TakeGeneration
<1>3. CASE flight[a] # NoProc
  <2> DEFINE r == [proc[c] EXCEPT !.pc = "wait", !.of = flight[a]]
  <2>1. proc' = [proc EXCEPT ![c] = r] /\ UNCHANGED <<generation, flight>>
    BY <1>1, <1>3 DEF BeginFlight, Types
  <2>2. /\ r \in ProcType /\ r.pc = "wait" /\ r.acc = a /\ r.gen = proc[c].gen
    BY <1>1 DEF Types, ProcType, Pc, LocalOK
  <2> HIDE DEF r
  <2>3. LocalOK(c, r)
    BY <1>1, <2>2 DEF LocalOK
  <2>4. UNCHANGED <<pool, maps, told>> /\ quota' \in [Account -> QuotaType]
    BY <1>1, <2>1 DEF maps, Types
  <2> QED
    BY <1>1, <2>1, <2>2, <2>3, <2>4, Walk
<1> QED BY <1>2, <1>3

LEMMA FinishStep == ASSUME Inv, NEW c \in Proc, FinishFlight(c) PROVE Inv'
<1> DEFINE a == proc[c].acc
           pc == IF proc[c].answer = "none" THEN "fallback"
                 ELSE Return(c, proc[c].answer = "eligible", FALSE)
           r == [proc[c] EXCEPT !.closed = TRUE, !.pc = pc]
<1>1. /\ Types /\ proc[c].pc = "finish" /\ proc' = [proc EXCEPT ![c] = r]
      /\ UNCHANGED <<pool, quota, generation, applied, told>> /\ LocalOK(c, proc[c])
      /\ flight' = IF flight[a] = c THEN [flight EXCEPT ![a] = NoProc] ELSE flight
  BY DEF Inv, Locals, Types, FinishFlight
<1>2. pc \in {"over", "mark", "confirm", "fallback"}
  BY ReturnPlace
<1> HIDE DEF pc
<1>3. /\ r \in ProcType /\ r.pc = pc /\ r.acc = a /\ a \in Account /\ r.gen = proc[c].gen
  BY <1>1, <1>2 DEF Types, ProcType, Pc, LocalOK
<1> HIDE DEF r
<1>4. Types'
  BY <1>1, <1>3 DEF Types, pool
<1>5. Places'
  BY <1>1 DEF Inv, Places, pool
<1>6. Untouched'
  BY <1>1, <1>3 DEF Inv, Untouched, Types, pool
<1>7. Locals'
  BY <1>1, <1>2, <1>3 DEF Inv, Locals, LocalOK, Types
<1>8. Flights'
  <2> SUFFICES ASSUME NEW d \in Proc, NEW b \in Account, Kept(b)', Leading(d, b)'
               PROVE  flight'[b] = d
    BY DEF Flights
  <2>1. d # c
    BY <1>1, <1>2, <1>3 DEF Types, Leading
  <2>2. Leading(d, b) /\ Kept(b)
    BY <1>1, <1>3, <2>1 DEF Types, Leading, Leads, Kept, pool
  <2>3. flight[b] = d
    BY <2>2 DEF Inv, Flights
  <2> QED BY <1>1, <1>3, <2>1, <2>3 DEF Types
<1>9. Held'
  BY <1>1, <1>2, <1>3 DEF Inv, Held, Types, Kept, pool
<1>10. Generations'
  BY <1>1 DEF Inv, Generations, Newest, Types, Kept, pool
<1> QED
  BY <1>4, <1>5, <1>6, <1>7, <1>8, <1>9, <1>10 DEF Inv

LEMMA ApplyStep == ASSUME Inv, NEW c \in Proc, Apply(c) PROVE Inv'
<1> DEFINE a == proc[c].acc
           n == proc[c].gen
           answer == proc[c].answer
           t == [gen |-> n, answer |-> answer]
           pc == AfterApply(c)
           r == [proc[c] EXCEPT !.pc = pc]
<1>1. /\ Types /\ proc[c].pc = "apply" /\ LocalOK(c, proc[c])
      /\ UNCHANGED <<pool, generation, flight>>
      /\ told' = [told EXCEPT ![a] = told[a] \cup {t}]
  BY DEF Inv, Locals, Apply
<1>2. /\ a \in Account /\ answer \in {"eligible", "exhausted"} /\ t \in Told
      /\ n \in Nat /\ 0 < n /\ (Kept(a) => n <= generation[a]) /\ a \notin fresh
      /\ quota[a] \in QuotaType /\ applied[a] \in Nat
      /\ t.gen = n /\ t.answer = answer
  BY <1>1 DEF Inv, LocalOK, Types, ProcType, Told, Held, Untouched
<1>3. /\ pc \in {"finish", "probe", "over"}
      /\ pc = "probe" => proc[c].kind = "register" /\ proc[c].of = NoProc
      /\ pc = "finish" => proc[c].of = c
  BY <1>1 DEF AfterApply, Leads, LocalOK
<1>4. /\ proc' = [proc EXCEPT ![c] = r] /\ r \in ProcType /\ r.pc = pc /\ r.acc = a
      /\ r.gen = n /\ r.of = proc[c].of /\ r.kind = proc[c].kind
  <2>1. Goto(c, pc) /\ pc \in Pc /\ proc \in [Proc -> ProcType]
    BY <1>1, <1>3 DEF Apply, Pc, Types
  <2> QED BY <2>1, GotoRecord
<1>5. /\ n > applied[a] => /\ applied' = [applied EXCEPT ![a] = n]
                           /\ quota' \in [Account -> QuotaType]
                           /\ quota'[a].info = answer
                           /\ \A b \in Account : b # a => quota'[b] = quota[b]
      /\ ~(n > applied[a]) => UNCHANGED <<applied, quota>>
  <2>1. QuotaAfter(quota[a], answer) \in QuotaType /\ QuotaAfter(quota[a], answer).info = answer
    BY <1>2, QuotaAfterType
  <2> QED BY <1>1, <1>2, <2>1 DEF Apply, Types
<1> HIDE DEF r, t, pc
<1>6. Types'
  <2>1. told' \in [Account -> SUBSET Told]
    BY <1>1, <1>2 DEF Types
  <2>2. quota' \in [Account -> QuotaType] /\ applied' \in [Account -> Nat]
    BY <1>1, <1>2, <1>5 DEF Types
  <2> QED BY <1>1, <1>4, <2>1, <2>2 DEF Types, pool
<1>7. Places'
  BY <1>1 DEF Inv, Places, pool
<1>8. Untouched'
  BY <1>1, <1>2, <1>4, <1>5 DEF Inv, Untouched, Types, pool
<1>9. Locals'
  BY <1>1, <1>2, <1>3, <1>4 DEF Inv, Locals, LocalOK, Types
<1>10. Flights'
  BY <1>1, <1>3, <1>4 DEF Inv, Flights, Types, Kept, Leading, Leads, pool
<1>11. Held'
  BY <1>1, <1>3, <1>4 DEF Inv, Held, Types, Kept, pool
<1>12. Generations'
  <2> SUFFICES ASSUME NEW b \in Account, Kept(b)'
               PROVE  Newest(b)'
    BY DEF Generations
  <2>1. Kept(b) /\ Newest(b)
    BY <1>1 DEF Inv, Generations, Kept, pool
  <2>2. CASE b # a
    BY <1>1, <1>2, <1>5, <2>1, <2>2 DEF Newest, Types
  <2>3. CASE b = a /\ n > applied[a]
    <3>1. applied'[a] = n /\ quota'[a].info = answer /\ told'[a] = told[a] \cup {t}
      BY <1>1, <1>2, <1>5, <2>3 DEF Types
    <3>2. n <= generation'[a]
      BY <1>1, <1>2, <2>1, <2>3
    <3>3. \A u \in told[a] : u.gen <= n
      <4>1. \A u \in told[a] : u.gen \in Nat /\ u.gen <= applied[a]
        BY <1>1, <1>2, <2>1, <2>3 DEF Newest, Types, Told
      <4> QED BY <1>2, <2>3, <4>1
    <3> QED BY <1>2, <2>3, <3>1, <3>2, <3>3 DEF Newest
  <2>4. CASE b = a /\ ~(n > applied[a])
    <3>1. applied' = applied /\ quota' = quota /\ told'[a] = told[a] \cup {t}
      BY <1>1, <1>2, <1>5, <2>4 DEF Types
    <3>2. n <= applied[a] /\ told[a] # {}
      <4>1. n <= applied[a]
        BY <1>2, <2>4
      <4>2. applied[a] # 0
        BY <1>2, <4>1
      <4> QED BY <2>1, <2>4, <4>1, <4>2 DEF Newest
    <3> QED BY <1>1, <1>2, <2>1, <2>4, <3>1, <3>2 DEF Newest
  <2> QED BY <2>2, <2>3, <2>4
<1> QED
  BY <1>6, <1>7, <1>8, <1>9, <1>10, <1>11, <1>12 DEF Inv

LEMMA DeleteStep == ASSUME Inv, NEW c \in Proc, Delete(c) PROVE Inv'
<1> DEFINE r == [proc[c] EXCEPT !.pc = "over"]
<1>1. /\ Types /\ proc[c].pc = "delete" /\ LocalOK(c, proc[c])
      /\ UNCHANGED <<fresh, quota, maps, told>>
      /\ \/ /\ current \in Account /\ current' = NoAccount
            /\ dropping' = dropping \cup {current}
         \/ UNCHANGED <<current, dropping>>
  BY DEF Inv, Types, Locals, Delete
<1>2. /\ proc' = [proc EXCEPT ![c] = r] /\ r \in ProcType /\ r.pc = "over"
      /\ r.acc = proc[c].acc /\ r.gen = proc[c].gen /\ r.of = proc[c].of
  <2>1. Goto(c, "over") /\ "over" \in Pc /\ proc \in [Proc -> ProcType]
    BY <1>1 DEF Delete, Pc, Types
  <2> QED BY <2>1, GotoRecord
<1> HIDE DEF r
<1>3. \A a : Kept(a)' => Kept(a) \/ a \notin Account
  BY <1>1, QuotaAssumption DEF Kept
<1>4. Types'
  BY <1>1, <1>2 DEF Types, maps
<1>5. Places'
  BY <1>1, QuotaAssumption DEF Inv, Places, Types
<1>6. Untouched'
  BY <1>1, <1>2 DEF Inv, Untouched, Types, maps
<1>7. Locals'
  BY <1>1, <1>2 DEF Inv, Locals, LocalOK, Types
<1>8. Flights'
  BY <1>1, <1>2, <1>3 DEF Inv, Flights, Types, Leading, Leads, maps
<1>9. Held'
  <2>1. \A d \in Proc : proc'[d].pc \in {"fetch", "apply"}
          => proc'[d] = proc[d] /\ proc[d].acc \in Account
    BY <1>1, <1>2 DEF Inv, Locals, LocalOK, Types
  <2> QED BY <1>1, <1>3, <2>1 DEF Inv, Held, maps
<1>10. Generations'
  BY <1>1, <1>3 DEF Inv, Generations, Newest, Types, maps
<1> QED
  BY <1>4, <1>5, <1>6, <1>7, <1>8, <1>9, <1>10 DEF Inv

LEMMA ImportStep == ASSUME Inv, NEW a \in Account, Import(a) PROVE Inv'
<1>1. /\ Types /\ a \in fresh /\ fresh' = fresh \ {a} /\ current' = a
      /\ dropping' = dropping \cup ({current} \ {NoAccount})
      /\ UNCHANGED <<maps, proc, told>>
  BY DEF Inv, Import
<1>2. /\ quota' \in [Account -> QuotaType]
      /\ \A b \in Account : b # a => quota'[b] = quota[b]
  <2>1. PICK plan \in Plans, info \in {"unknown", "eligible", "exhausted"} :
          quota' = [quota EXCEPT ![a] = [Unknown EXCEPT !.plan = plan, !.info = info]]
    BY DEF Import
  <2>2. [Unknown EXCEPT !.plan = plan, !.info = info] \in QuotaType
    BY DEF Unknown, QuotaType, Info
  <2> QED BY <1>1, <2>1, <2>2 DEF Types
<1>3. \A b \in Account : Kept(b)' => Kept(b)
  BY <1>1 DEF Kept
<1>4. Types'
  BY <1>1, <1>2 DEF Types, maps
<1>5. Places'
  BY <1>1, QuotaAssumption DEF Inv, Places, Types
<1>6. Untouched'
  BY <1>1, <1>2 DEF Inv, Untouched, Types, maps
<1>7. Locals'
  BY <1>1 DEF Inv, Locals
<1>8. Flights'
  BY <1>1, <1>3 DEF Inv, Flights, Types, Leading, Leads, maps
<1>9. Held'
  <2>1. \A d \in Proc : proc[d].pc \in {"fetch", "apply"} => proc[d].acc \in Account
    BY DEF Inv, Locals, LocalOK
  <2> QED BY <1>1, <1>3, <2>1 DEF Inv, Held, maps
<1>10. Generations'
  <2> SUFFICES ASSUME NEW b \in Account, Kept(b)'
               PROVE  Newest(b)'
    BY DEF Generations
  <2>1. Newest(b)
    BY <1>3 DEF Inv, Generations
  <2>2. CASE b = a
    BY <1>1, <2>1, <2>2 DEF Inv, Untouched, Newest, maps
  <2>3. CASE b # a
    BY <1>1, <1>2, <2>1, <2>3 DEF Newest, maps
  <2> QED BY <2>2, <2>3
<1> QED
  BY <1>4, <1>5, <1>6, <1>7, <1>8, <1>9, <1>10 DEF Inv

LEMMA DropStep == ASSUME Inv, NEW a \in Account, Drop(a) PROVE Inv'
<1>1. /\ Types /\ a \in dropping /\ dropping' = dropping \ {a}
      /\ flight' = [flight EXCEPT ![a] = NoProc]
      /\ generation' = [generation EXCEPT ![a] = 0]
      /\ applied' = [applied EXCEPT ![a] = 0]
      /\ UNCHANGED <<current, fresh, quota, proc, told>>
      /\ a \notin fresh /\ a # current
  BY DEF Inv, Places, Drop
<1>2. \A b : Kept(b)' => Kept(b) /\ b # a
  BY <1>1 DEF Kept
<1>3. \A b \in Account : b # a =>
        flight'[b] = flight[b] /\ generation'[b] = generation[b] /\ applied'[b] = applied[b]
  BY <1>1 DEF Types
<1>4. Types'
  BY <1>1 DEF Types
<1>5. Places'
  BY <1>1 DEF Inv, Places
<1>6. Untouched'
  BY <1>1, <1>3 DEF Inv, Untouched, Types
<1>7. Locals'
  BY <1>1 DEF Inv, Locals
<1>8. Flights'
  BY <1>1, <1>2, <1>3 DEF Inv, Flights, Leading, Leads
<1>9. Held'
  <2>1. \A d \in Proc : proc[d].pc \in {"fetch", "apply"} => proc[d].acc \in Account
    BY DEF Inv, Locals, LocalOK
  <2> QED BY <1>1, <1>2, <1>3, <2>1 DEF Inv, Held
<1>10. Generations'
  BY <1>1, <1>2, <1>3 DEF Inv, Generations, Newest
<1> QED
  BY <1>4, <1>5, <1>6, <1>7, <1>8, <1>9, <1>10 DEF Inv

-----------------------------------------------------------------------------
(* Invariance.                                                             *)

LEMMA InitInv == Init => Inv
<1> SUFFICES ASSUME Init PROVE Inv
  OBVIOUS
<1>1. Types
  BY DEF Init, Types, Unknown, QuotaType, Info, Idle, ProcType, Pc, Told
<1>2. Places /\ Untouched /\ Locals /\ Held
  BY QuotaAssumption DEF Init, Places, Untouched, Locals, LocalOK, Held, Idle
<1>3. Flights /\ Generations
  BY DEF Init, Flights, Leading, Generations, Newest, Idle
<1> QED
  BY <1>1, <1>2, <1>3 DEF Inv

LEMMA NextInv == Inv /\ [Next]_vars => Inv'
<1> SUFFICES ASSUME Inv, [Next]_vars PROVE Inv'
  OBVIOUS
<1>1. ASSUME NEW c \in Proc, Go(c) PROVE Inv'
  BY <1>1, ProbeStep, ReadStep, MarkStep, FetchStep, TicketStep, BeginFlightStep,
     FinishStep, ApplyStep, DeleteStep DEF Go
<1>2. ASSUME NEW c \in Proc, NEW kind \in Kinds, Start(c, kind) PROVE Inv'
  BY <1>2, StartStep
<1>3. ASSUME NEW a \in Account, Import(a) \/ Drop(a) PROVE Inv'
  BY <1>3, ImportStep, DropStep
<1>4. ASSUME UNCHANGED vars PROVE Inv'
  BY <1>4 DEF vars, Inv, Types, Places, Untouched, Locals, Flights, Held, Generations,
              Newest, Kept, Leading, Leads
<1> QED
  BY <1>1, <1>2, <1>3, <1>4 DEF Next

\* The inductive invariant holds in every reachable state.
THEOREM Invariance == Spec => []Inv
BY InitInv, NextInv, PTL DEF Spec

\* Every variable keeps its type, and no answer is newer than the last check
\* that was started (nextQuotaGeneration, applyQuotaInfoIfCurrent).
THEOREM TypeCorrect == Spec => []TypeOK
<1>1. Inv => TypeOK
  BY DEF Inv, Types, Generations, Newest, Kept, TypeOK
<1> QED
  BY <1>1, Invariance, PTL

\* At most one live check of the account in the pool is under way
\* (beginRoutingQuotaFlight, finishRoutingQuotaFlight).
THEOREM FlightsSingle == Spec => []SingleFlight
<1>1. Inv => SingleFlight
  <2> SUFFICES ASSUME Inv, NEW c \in Proc, NEW d \in Proc,
                      Leading(c, current), Leading(d, current)
               PROVE  c = d
    BY DEF SingleFlight
  <2>1. current \in Account
    BY DEF Inv, Locals, LocalOK, Leading
  <2> QED BY <2>1 DEF Inv, Flights, Kept
<1> QED
  BY <1>1, Invariance, PTL

\* What is known of the account in the pool is the answer of the check started
\* last among those that answered (applyQuotaInfoIfCurrent).
THEOREM NewestWins == Spec => []NewestAnswerWins
<1>1. Inv => NewestAnswerWins
  <2> SUFFICES ASSUME Inv, current # NoAccount, told[current] # {}
               PROVE  \E t \in told[current] :
                        /\ quota[current].info = t.answer
                        /\ \A u \in told[current] : u.gen <= t.gen
    BY DEF NewestAnswerWins
  <2>1. current \in Account /\ Newest(current)
    BY DEF Inv, Types, Generations, Kept
  <2> QED BY <2>1 DEF Newest
<1> QED
  BY <1>1, Invariance, PTL

-----------------------------------------------------------------------------
(* The register.                                                           *)

\* A step that leaves the object in the pool, its generations and its answer
\* alone is no step of the register.
LEMMA RegisterStutters ==
  ASSUME UNCHANGED <<current, generation, applied>>,
         current # NoAccount => quota'[current].info = quota[current].info,
         current \in Account \cup {NoAccount}
  PROVE  Register!Next \/ UNCHANGED Register!regVars
BY DEF OfCurrent, Register!regVars

LEMMA RegisterReplaced ==
  ASSUME Inv, Inv', current' # current,
         current' # NoAccount => generation'[current'] = 0 /\ applied'[current'] = 0
  PROVE  Register!Next
<1>1. current' \in Account \cup {NoAccount}
  BY DEF Inv, Types
<1>2. current' # NoAccount => quota'[current'].info \in Info
  BY <1>1 DEF Inv, Types, QuotaType
<1>3. OfCurrent([a \in Account |-> quota[a].info], "unknown")' \in Info
  BY <1>1, <1>2 DEF OfCurrent, Info
<1>4. OfCurrent(generation, 0)' = 0 /\ OfCurrent(applied, 0)' = 0
  BY DEF OfCurrent
<1> QED
  BY <1>1, <1>3, <1>4 DEF Register!Next, Register!Replace

\* A check of the object in the pool gets its generation.
LEMMA RegisterAsked ==
  ASSUME Inv, NEW a \in Account, UNCHANGED <<current, quota, applied>>,
         generation' = [generation EXCEPT ![a] = generation[a] + 1]
  PROVE  Register!Next \/ UNCHANGED Register!regVars
<1>1. current \in Account \cup {NoAccount} /\ generation \in [Account -> Nat]
  BY DEF Inv, Types
<1>2. CASE current = a
  <2>1. /\ current # NoAccount
        /\ OfCurrent(generation, 0)' = OfCurrent(generation, 0) + 1
        /\ OfCurrent(applied, 0)' = OfCurrent(applied, 0)
        /\ OfCurrent([b \in Account |-> quota[b].info], "unknown")'
             = OfCurrent([b \in Account |-> quota[b].info], "unknown")
    BY <1>1, <1>2, QuotaAssumption DEF OfCurrent
  <2> QED BY <2>1 DEF Register!Next, Register!Ask
<1>3. CASE current # a
  BY <1>1, <1>3 DEF OfCurrent, Register!regVars
<1> QED BY <1>2, <1>3

\* The answer of a check reaches the object in the pool, or comes too late.
LEMMA RegisterAnswered ==
  ASSUME Inv, NEW c \in Proc, Apply(c)
  PROVE  Register!Next \/ UNCHANGED Register!regVars
<1> DEFINE a == proc[c].acc
           n == proc[c].gen
<1>1. /\ Types /\ proc[c].pc = "apply" /\ a \in Account /\ n \in Nat
      /\ proc[c].answer \in {"eligible", "exhausted"} /\ UNCHANGED <<current, generation>>
      /\ Kept(a) => n <= generation[a]
  BY DEF Inv, Types, Locals, LocalOK, Held, ProcType, Apply, pool
<1>2. CASE n > applied[a] /\ current = a
  <2>1. /\ QuotaAfter(quota[a], proc[c].answer) \in QuotaType
        /\ applied'[a] = n /\ quota'[a] = QuotaAfter(quota[a], proc[c].answer)
        /\ applied[a] \in Nat /\ generation[a] \in Nat /\ n <= generation[a]
    BY <1>1, <1>2, QuotaAfterType DEF Apply, Types, Kept
  <2>2. /\ current # NoAccount /\ current' = current
        /\ OfCurrent(generation, 0)' = OfCurrent(generation, 0)
        /\ OfCurrent(generation, 0) = generation[a]
        /\ OfCurrent(applied, 0) = applied[a] /\ OfCurrent(applied, 0)' = n
    BY <1>1, <1>2, <2>1, QuotaAssumption DEF OfCurrent
  <2>3. OfCurrent([b \in Account |-> quota[b].info], "unknown")' \in Info
    BY <1>1, <1>2, <2>1, QuotaAssumption DEF OfCurrent, QuotaType
  <2>4. n \in (applied[a] + 1) .. generation[a]
    BY <1>1, <1>2, <2>1
  <2> QED BY <2>2, <2>3, <2>4 DEF Register!Next, Register!Answer
<1>3. CASE ~(n > applied[a])
  <2>1. UNCHANGED <<current, generation, applied, quota>>
    BY <1>1, <1>3 DEF Apply
  <2> QED BY <1>1, <2>1, RegisterStutters DEF Types
<1>4. CASE n > applied[a] /\ current # a
  <2>1. /\ applied' = [applied EXCEPT ![a] = n]
        /\ \A b \in Account : b # a => quota'[b] = quota[b]
    BY <1>1, <1>4 DEF Apply, Types
  <2> QED BY <1>1, <1>4, <2>1 DEF OfCurrent, Types, Register!regVars
<1> QED BY <1>2, <1>3, <1>4

\* The other steps of a goroutine.
LEMMA RegisterWalks ==
  ASSUME Inv, NEW c \in Proc,
         Probe(c) \/ Check(c) \/ Fetch(c) \/ FinishFlight(c) \/ Wake(c) \/ Fallback(c)
           \/ MarkPlan(c) \/ Mark(c) \/ Confirm(c)
  PROVE  UNCHANGED <<current, generation, applied>>
         /\ \A b \in Account : quota'[b].info = quota[b].info
<1>1. Types /\ LocalOK(c, proc[c])
  BY DEF Inv, Locals
<1>2. CASE Probe(c)
  <2>1. proc[c].acc \in Account /\ UNCHANGED <<pool, maps>>
    BY <1>1, <1>2 DEF Probe, LocalOK
  <2>2. CASE UNCHANGED quota
    BY <2>1, <2>2 DEF pool, maps
  <2>3. CASE \E plan \in Plans :
               quota' = [quota EXCEPT ![proc[c].acc] = Profiled(quota[proc[c].acc], plan)]
    BY <1>1, <2>1, <2>3, ProfiledType DEF pool, maps, Types
  <2> QED BY <1>2, <2>2, <2>3 DEF Probe
<1>3. CASE Mark(c)
  <2>1. proc[c].acc \in Account /\ UNCHANGED <<pool, maps>>
    BY <1>1, <1>3 DEF Mark, LocalOK
  <2>2. \E q \in {Marked(quota[proc[c].acc]), Cleared(quota[proc[c].acc])} :
          quota' = [quota EXCEPT ![proc[c].acc] = q]
    BY <1>3 DEF Mark
  <2> QED BY <1>1, <2>1, <2>2, MarkedType DEF pool, maps, Types
<1>4. CASE Check(c) \/ Fetch(c) \/ FinishFlight(c) \/ Wake(c) \/ Fallback(c)
             \/ MarkPlan(c) \/ Confirm(c)
  BY <1>4 DEF Check, Fetch, FinishFlight, Wake, Fallback, MarkPlan, Confirm, pool, maps
<1> QED BY <1>2, <1>3, <1>4

\* Whatever overtakes whatever, the quota of the account in the pool is a
\* register that follows the checks in the order they were started.
THEOREM ImplementsRegister == Spec => RegisterSpec
<1>1. Init => Register!Init
  BY DEF Init, Register!Init, OfCurrent, Info
<1>2. ASSUME Inv, Inv', [Next]_vars
      PROVE  Register!Next \/ UNCHANGED Register!regVars
  <2>1. ASSUME NEW c \in Proc, Go(c)
        PROVE  Register!Next \/ UNCHANGED Register!regVars
    <3>1. CASE Probe(c) \/ Check(c) \/ Fetch(c) \/ FinishFlight(c) \/ Wake(c)
                 \/ Fallback(c) \/ MarkPlan(c) \/ Mark(c) \/ Confirm(c)
      BY <1>2, <3>1, RegisterWalks, RegisterStutters DEF Inv, Types
    <3>2. CASE Apply(c)
      BY <1>2, <3>2, RegisterAnswered
    <3>3. CASE Ticket(c)
      <4>1. proc[c].acc \in Account
        BY <1>2, <3>3 DEF Ticket, Inv, Locals, LocalOK
      <4> QED BY <1>2, <3>3, <4>1, RegisterAsked DEF Ticket, pool
    <3>4. CASE BeginFlight(c)
      <4>1. proc[c].acc \in Account
        BY <1>2, <3>4 DEF BeginFlight, Inv, Locals, LocalOK
      <4>2. CASE flight[proc[c].acc] = NoProc
        BY <1>2, <3>4, <4>1, <4>2, RegisterAsked DEF BeginFlight, pool
      <4>3. CASE flight[proc[c].acc] # NoProc
        BY <1>2, <3>4, <4>3, RegisterStutters DEF BeginFlight, pool, Inv, Types
      <4> QED BY <4>2, <4>3
    <3>5. CASE Delete(c)
      <4>1. UNCHANGED <<quota, maps>> /\ (current' = NoAccount \/ current' = current)
        BY <3>5 DEF Delete
      <4>2. CASE current' # current
        BY <1>2, <4>1, <4>2, RegisterReplaced
      <4>3. CASE current' = current
        BY <1>2, <4>1, <4>3, RegisterStutters DEF maps, Inv, Types
      <4> QED BY <4>2, <4>3
    <3> QED BY <2>1, <3>1, <3>2, <3>3, <3>4, <3>5 DEF Go
  <2>2. ASSUME NEW c \in Proc, NEW kind \in Kinds, Start(c, kind)
        PROVE  Register!Next \/ UNCHANGED Register!regVars
    BY <1>2, <2>2, RegisterStutters DEF Start, pool, maps, Inv, Types
  <2>3. ASSUME NEW a \in Account, Import(a)
        PROVE  Register!Next \/ UNCHANGED Register!regVars
    <3>1. current' = a /\ a \in fresh /\ UNCHANGED maps
      BY <2>3 DEF Import
    <3>2. generation[a] = 0 /\ applied[a] = 0 /\ current # a
      BY <1>2, <3>1 DEF Inv, Untouched, Places
    <3> QED BY <1>2, <3>1, <3>2, RegisterReplaced DEF maps
  <2>4. ASSUME NEW a \in Account, Drop(a)
        PROVE  Register!Next \/ UNCHANGED Register!regVars
    <3>1. /\ a # current /\ UNCHANGED <<current, quota>> /\ Types
          /\ generation' = [generation EXCEPT ![a] = 0]
          /\ applied' = [applied EXCEPT ![a] = 0]
      BY <1>2, <2>4 DEF Drop, Inv, Places
    <3> QED BY <3>1 DEF OfCurrent, Types, Register!regVars
  <2>5. CASE UNCHANGED vars
    BY <1>2, <2>5, RegisterStutters DEF vars, Inv, Types
  <2> QED BY <1>2, <2>1, <2>2, <2>3, <2>4, <2>5 DEF Next
<1> QED
  BY <1>1, <1>2, Invariance, PTL DEF Spec, RegisterSpec, Register!Spec

-----------------------------------------------------------------------------
(* Clean-up and permanent exhaustion.                                      *)

\* Where every import brings a login of its own, a clean-up deletes nothing but
\* the object it looked at (deleteAccountByAccountIdentity).
THEOREM ReplacementStays ==
  ASSUME \A a, b \in Account : TokenOf[a] = TokenOf[b] => a = b
  PROVE  Spec => ReplacementKept
<1>1. ASSUME Inv, [Next]_vars, NEW c \in Proc, proc[c].pc = "delete",
             proc'[c].pc = "over", current' # current
      PROVE  current = proc[c].acc
  <2>1. proc[c].acc \in Account /\ Types
    BY <1>1 DEF Inv, Locals, LocalOK
  <2>2. \E d \in Proc : Delete(d)
    <3>1. ~(\E a \in Account : Import(a))
      BY <1>1 DEF Import
    <3> QED
      BY <1>1, <3>1 DEF Next, Go, Start, Probe, Check, BeginFlight, Ticket, Fetch, Apply,
         FinishFlight, Wake, Fallback, MarkPlan, Mark, Confirm, Drop, pool, vars
  <2>3. PICK d \in Proc : Delete(d)
    BY <2>2
  <2>4. d = c
    BY <1>1, <2>1, <2>3 DEF Delete, Goto, Types
  <2> QED BY <1>1, <2>1, <2>3, <2>4 DEF Delete, Types
<1>2. Inv /\ [Next]_vars =>
        [\A c \in Proc : proc[c].pc = "delete" /\ proc'[c].pc = "over" /\ current' # current
            => current = proc[c].acc]_vars
  BY <1>1
<1> QED
  BY <1>2, Invariance, PTL DEF Spec, ReplacementKept

\* A permanent mark is a mark.
Together == \A a \in Account : quota[a].permanent => quota[a].marked

\* The two marks of an account go together, so a second mark never takes the
\* permanent one away (markQuotaExhausted).
LEMMA MarksTogether == Spec => []Together
<1>1. Init => Together
  BY DEF Init, Together, Unknown
<1>2. Inv /\ Together /\ [Next]_vars => Together'
  <2> SUFFICES ASSUME Inv, Together, [Next]_vars, NEW a \in Account, quota'[a] # quota[a]
               PROVE  quota'[a].permanent => quota'[a].marked
    BY DEF Together
  <2>1. Types /\ (quota[a].permanent => quota[a].marked)
    BY DEF Inv, Together
  <2>2. ASSUME NEW c \in Proc, Go(c) PROVE quota'[a].permanent => quota'[a].marked
    <3>1. Probe(c) \/ Apply(c) \/ Mark(c)
      BY <2>2 DEF Go, Check, BeginFlight, Ticket, Fetch, FinishFlight, Wake, Fallback,
                  MarkPlan, Confirm, Delete
    <3>2. \/ \E plan \in Plans : quota'[a] = Profiled(quota[a], plan)
          \/ \E answer : quota'[a] = QuotaAfter(quota[a], answer)
          \/ quota'[a] = Marked(quota[a]) \/ quota'[a] = Cleared(quota[a])
      <4>1. CASE Probe(c)
        BY <2>1, <4>1 DEF Probe, Types
      <4>2. CASE Apply(c)
        BY <2>1, <4>2 DEF Apply, Types
      <4>3. CASE Mark(c)
        BY <2>1, <4>3 DEF Mark, Types
      <4> QED BY <3>1, <4>1, <4>2, <4>3
    <3>3. \A plan : Profiled(quota[a], plan).permanent => Profiled(quota[a], plan).marked
      <4>1. \A plan : /\ Profiled(quota[a], plan).permanent
                          <=> quota[a].permanent /\ ~Included(plan)
                      /\ Profiled(quota[a], plan).marked
                          <=> quota[a].marked /\ ~Included(plan)
        BY DEF Profiled
      <4> QED BY <2>1, <4>1, Zenon
    <3>4. \A answer : QuotaAfter(quota[a], answer).permanent
                         => QuotaAfter(quota[a], answer).marked
      <4> SUFFICES ASSUME NEW answer, QuotaAfter(quota[a], answer).permanent
                   PROVE  QuotaAfter(quota[a], answer).marked
        OBVIOUS
      <4> DEFINE good == answer = "eligible" \/ Included(quota[a].plan)
                 kept == quota[a].permanent /\ LifetimeFree(quota[a].plan)
      <4>1. /\ QuotaAfter(quota[a], answer).permanent
               = (IF good THEN kept ELSE quota[a].permanent \/ Complimentary(quota[a].plan))
            /\ QuotaAfter(quota[a], answer).marked
               = (IF good THEN quota[a].marked /\ kept ELSE TRUE)
        BY DEF QuotaAfter
      <4>2. CASE good
        <5>1. quota[a].marked /\ kept
          BY <2>1, <4>1, <4>2, Zenon
        <5> QED BY <4>1, <4>2, <5>1, Zenon
      <4>3. CASE ~good
        BY <4>1, <4>3, Zenon
      <4> QED BY <4>2, <4>3
    <3>5. Marked(quota[a]).marked /\ ~Cleared(quota[a]).permanent
      BY DEF Marked, Cleared
    <3> QED BY <3>2, <3>3, <3>4, <3>5, Zenon
  <2>3. ASSUME NEW b \in Account, Import(b) PROVE quota'[a].permanent => quota'[a].marked
    <3>1. PICK plan \in Plans, info \in {"unknown", "eligible", "exhausted"} :
            quota' = [quota EXCEPT ![b] = [Unknown EXCEPT !.plan = plan, !.info = info]]
      BY <2>3 DEF Import
    <3> DEFINE q == [Unknown EXCEPT !.plan = plan, !.info = info]
    <3>2. ~q.permanent /\ quota' = [quota EXCEPT ![b] = q]
      BY <3>1 DEF Unknown
    <3> HIDE DEF q
    <3> QED BY <2>1, <3>1, <3>2 DEF Types
  <2>4. (\E c \in Proc : Go(c)) \/ (\E b \in Account : Import(b))
    BY DEF Next, Start, Drop, vars
  <2> QED BY <2>2, <2>3, <2>4
<1> QED
  BY <1>1, <1>2, Invariance, PTL DEF Spec

\* Only MarkQuotaExhausted gets ready to lift marks, and only for a plan that includes
\* AI when it looks (account.go 1043).
LEMMA ReadyToLift ==
  ASSUME Inv, [Next]_vars, NEW d \in Proc, proc[d].pc # "clear", proc'[d].pc = "clear"
  PROVE  Included(quota[proc[d].acc].plan)
<1>1. Types BY DEF Inv
<1>2. proc'[d] # proc[d]
  OBVIOUS
<1>3. ASSUME NEW c \in Proc, Go(c) PROVE Included(quota[proc[d].acc].plan)
  <2>1. LocalOK(c, proc[c])
    BY DEF Inv, Locals
  <2>2. \A e, f \in BOOLEAN : Return(c, e, f) # "clear"
    BY ReturnPlace
  <2>3. ASSUME NEW pc, Goto(c, pc) PROVE pc = "clear"
    BY <1>1, <1>2, <2>3 DEF Goto, Types
  <2>4. CASE MarkPlan(c)
    <3>1. c = d BY <1>1, <1>2, <2>4 DEF MarkPlan, Goto, Types
    <3> QED BY <2>3, <2>4, <3>1 DEF MarkPlan
  <2>5. CASE Probe(c)
    <3>1. proc[c].kind \in {"refresh", "cleanup", "register"}
      BY <2>1, <2>5 DEF Probe, LocalOK
    <3>2. \E pc \in {"ticket", "check", "over"} : Goto(c, pc)
      BY <2>5, <3>1 DEF Probe
    <3> QED BY <1>1, <1>2, <3>2 DEF Goto, Types
  <2>6. \A f \in BOOLEAN : \A q : Return(c, FromCache(q), f) # "clear"
    BY DEF Return
  <2>7. CASE Check(c)
    <3> DEFINE q == quota[proc[c].acc]
    <3>1. \/ Goto(c, "over") \/ Goto(c, "begin")
          \/ Goto(c, Return(c, FromCache(q), FALSE))
      BY <2>7 DEF Check
    <3>2. Return(c, FromCache(q), FALSE) # "clear"
      BY <2>6
    <3> HIDE DEF q
    <3> QED BY <2>3, <3>1, <3>2
  <2>8. CASE Wake(c)
    <3> DEFINE answer == proc[proc[c].of].answer
    <3>1. \/ Goto(c, "fallback") \/ Goto(c, Return(c, answer = "eligible", FALSE))
      BY <2>8 DEF Wake
    <3>2. Return(c, answer = "eligible", FALSE) # "clear"
      BY <2>2
    <3> HIDE DEF answer
    <3> QED BY <2>3, <3>1, <3>2
  <2>9. CASE Fallback(c)
    <3>1. \E pc : Goto(c, pc) /\ pc # "clear"
      BY <2>9, <2>6 DEF Fallback
    <3> QED BY <2>3, <3>1
  <2>10. CASE FinishFlight(c)
    <3> DEFINE pc == IF proc[c].answer = "none" THEN "fallback"
                     ELSE Return(c, proc[c].answer = "eligible", FALSE)
    <3>1. pc # "clear"
      BY <2>2
    <3>2. proc' = [proc EXCEPT ![c] = [proc[c] EXCEPT !.closed = TRUE, !.pc = pc]]
      BY <1>1, <2>10 DEF FinishFlight, Types
    <3> HIDE DEF pc
    <3> QED BY <1>1, <1>2, <3>1, <3>2 DEF Types, ProcType
  <2>11. CASE Apply(c)
    BY <1>1, <1>2, <2>11 DEF Apply, AfterApply, Goto, Types
  <2>12. CASE BeginFlight(c) \/ Ticket(c) \/ Fetch(c) \/ Mark(c) \/ Confirm(c) \/ Delete(c)
    BY <1>1, <1>2, <2>12 DEF BeginFlight, Ticket, Fetch, Mark, Confirm, Delete, Goto,
                             Types, ProcType
  <2> QED
    BY <1>3, <2>4, <2>5, <2>7, <2>8, <2>9, <2>10, <2>11, <2>12 DEF Go
<1>4. ASSUME NEW c \in Proc, NEW kind \in Kinds, Start(c, kind) PROVE FALSE
  BY <1>1, <1>2, <1>4 DEF Start, Idle, Types
<1>5. UNCHANGED proc \/ (\E c \in Proc : Go(c) \/ \E kind \in Kinds : Start(c, kind))
  BY DEF Next, Import, Drop, vars
<1> QED BY <1>2, <1>3, <1>4, <1>5

\* Whatever plans come and go: a used-up free account keeps its permanent mark while it
\* is free, but for a MarkQuotaExhausted that lifts it, and that one found a plan
\* including AI when it looked (applyQuotaInfo, applyWorkspaceProfile,
\* markQuotaExhausted).
THEOREM PermanentStays == Spec => PermanentKept
<1>1. ASSUME Inv, Together, [Next]_vars, NEW a \in Account \ fresh, LosesMark(a)
      PROVE  \E c \in Proc : LiftsMarks(c) /\ proc[c].acc = a
  <2>1. /\ Types /\ quota[a] \in QuotaType /\ quota[a].permanent
        /\ LifetimeFree(quota[a].plan)
        /\ ~quota'[a].permanent /\ ~Included(quota'[a].plan)
    BY <1>1 DEF Inv, Types, Included, LifetimeFree, LosesMark
  <2>2. quota'[a] # quota[a]
    BY <2>1
  <2>3. ASSUME NEW c \in Proc, Go(c)
        PROVE  LiftsMarks(c) /\ proc[c].acc = a
    <3>1. Probe(c) \/ Apply(c) \/ Mark(c)
      BY <2>2, <2>3 DEF Go, Check, BeginFlight, Ticket, Fetch, FinishFlight, Wake, Fallback,
                        MarkPlan, Confirm, Delete
    <3>2. CASE Probe(c)
      <4>1. PICK plan \in Plans :
              quota' = [quota EXCEPT ![proc[c].acc] = Profiled(quota[proc[c].acc], plan)]
        BY <2>2, <3>2 DEF Probe
      <4>2. quota'[a] = Profiled(quota[a], plan)
        BY <2>1, <2>2, <4>1 DEF Types
      <4>3. /\ Profiled(quota[a], plan).permanent = (quota[a].permanent /\ ~Included(plan))
            /\ Profiled(quota[a], plan).plan = plan
        BY DEF Profiled
      <4> QED BY <2>1, <4>2, <4>3, Zenon
    <3>3. CASE Apply(c)
      <4>1. quota'[a] = QuotaAfter(quota[a], proc[c].answer)
        BY <2>1, <2>2, <3>3 DEF Apply, Types
      <4>2. QuotaAfter(quota[a], proc[c].answer).permanent
        BY <2>1 DEF QuotaAfter
      <4> QED BY <2>1, <4>1, <4>2
    <3>4. CASE Mark(c)
      <4>1. proc[c].acc = a
        BY <2>1, <2>2, <3>4 DEF Mark, Types
      <4>2. CASE proc[c].pc = "set" /\ quota' = [quota EXCEPT ![proc[c].acc] = Marked(@)]
        <5>1. quota'[a] = Marked(quota[a])
          BY <2>1, <4>1, <4>2 DEF Types
        <5>2. Marked(quota[a]).permanent = (quota[a].marked /\ quota[a].permanent)
          BY DEF Marked
        <5> QED BY <1>1, <2>1, <5>1, <5>2, Zenon DEF Together
      <4>3. CASE proc[c].pc = "clear"
        BY <2>1, <3>4, <4>1, <4>3 DEF Mark, Goto, LiftsMarks, Types
      <4> QED BY <3>4, <4>2, <4>3 DEF Mark
    <3> QED BY <3>1, <3>2, <3>3, <3>4
  <2>4. ASSUME NEW b \in Account, Import(b) PROVE quota'[a] = quota[a]
    BY <1>1, <2>1, <2>4 DEF Import, Types
  <2>5. UNCHANGED quota \/ (\E c \in Proc : Go(c)) \/ (\E b \in Account : Import(b))
    BY <1>1 DEF Next, Start, Drop, vars
  <2> QED BY <2>2, <2>3, <2>4, <2>5
<1>2. Inv /\ Together /\ [Next]_vars =>
        [/\ \A a \in Account \ fresh : LosesMark(a) =>
              \E c \in Proc : LiftsMarks(c) /\ proc[c].acc = a
         /\ \A c \in Proc : proc[c].pc # "clear" /\ proc'[c].pc = "clear" =>
              Included(quota[proc[c].acc].plan)]_vars
  BY <1>1, ReadyToLift
<1> QED
  BY <1>2, Invariance, MarksTogether, PTL DEF Spec, PermanentKept

-----------------------------------------------------------------------------
(* Nobody is left behind.                                                  *)

\* A check that was begun by a leader and is not closed.
Flies(d, p) == p.of = d /\ p.pc \in {"fetch", "apply", "finish"}
Served(d, p) == p.pc # "idle" /\ (p.closed \/ Flies(d, p))

\* Only checks under way are listed, each for its object.
ListedIn(f, p) ==
  \A a \in Account : f[a] # NoProc =>
    f[a] \in Proc /\ Flies(f[a], p[f[a]]) /\ p[f[a]].acc = a

\* A follower follows a leader, whose check is under way unless it is closed.
FollowedIn(p) ==
  \A c \in Proc : p[c].pc = "wait" => p[c].of \in Proc /\ Served(p[c].of, p[p[c].of])

Waits == ListedIn(flight, proc) /\ FollowedIn(proc)

\* Those who are listed and those who are followed stay so while their checks fly on.
LEMMA StaysListed ==
  ASSUME NEW f, NEW p, NEW q, ListedIn(f, p),
         \A d \in Proc : Flies(d, p[d]) => Flies(d, q[d]) /\ q[d].acc = p[d].acc
  PROVE  ListedIn(f, q)
BY DEF ListedIn

LEMMA StaysFollowed ==
  ASSUME NEW p, NEW q, NEW c \in Proc, FollowedIn(p),
         \A d \in Proc : Served(d, p[d]) => Served(d, q[d]),
         \A d \in Proc : d # c => q[d] = p[d],
         q[c].pc = "wait" =>
           \/ p[c].pc = "wait" /\ q[c].of = p[c].of
           \/ q[c].of \in Proc /\ Served(q[c].of, p[q[c].of])
  PROVE  FollowedIn(q)
<1> SUFFICES ASSUME NEW d \in Proc, q[d].pc = "wait"
             PROVE  q[d].of \in Proc /\ Served(q[d].of, q[q[d].of])
  BY DEF FollowedIn
<1>1. CASE p[d].pc = "wait" /\ q[d].of = p[d].of
  <2>1. p[d].of \in Proc /\ Served(p[d].of, p[p[d].of])
    BY <1>1 DEF FollowedIn
  <2> QED BY <1>1, <2>1
<1>2. CASE ~(p[d].pc = "wait" /\ q[d].of = p[d].of)
  <2>1. d = c
    BY <1>2
  <2> QED BY <1>2, <2>1
<1> QED BY <1>1, <1>2

\* A goroutine that keeps its flight open, or leads none, disturbs nobody.
LEMMA WaitsKeep ==
  ASSUME NEW f, NEW p, NEW q, NEW c \in Proc, NEW r, ListedIn(f, p), FollowedIn(p),
         q[c] = r, \A d \in Proc : d # c => q[d] = p[d], r.pc # "idle",
         r.pc = "wait" => p[c].pc = "wait" /\ r.of = p[c].of,
         p[c].closed => r.closed,
         Flies(c, p[c]) => Flies(c, r) /\ r.acc = p[c].acc
  PROVE  ListedIn(f, q) /\ FollowedIn(q)
<1>1. \A d \in Proc : Flies(d, p[d]) => Flies(d, q[d]) /\ q[d].acc = p[d].acc
  OBVIOUS
<1>2. \A d \in Proc : Served(d, p[d]) => Served(d, q[d])
  BY DEF Served
<1>3. ListedIn(f, q)
  BY <1>1, StaysListed
<1>4. q[c].pc = "wait" => p[c].pc = "wait" /\ q[c].of = p[c].of
  OBVIOUS
<1>5. FollowedIn(q)
  BY <1>2, <1>4, StaysFollowed
<1> QED
  BY <1>3, <1>5

LEMMA WaitsWalk ==
  ASSUME Inv, Waits, NEW c \in Proc, NEW r \in ProcType, proc' = [proc EXCEPT ![c] = r],
         UNCHANGED flight, r.pc # "idle",
         r.pc = "wait" => proc[c].pc = "wait" /\ r.of = proc[c].of,
         proc[c].closed => r.closed,
         Flies(c, proc[c]) => Flies(c, r) /\ r.acc = proc[c].acc
  PROVE  Waits'
<1> DEFINE q == [proc EXCEPT ![c] = r]
<1>1. q[c] = r /\ \A d \in Proc : d # c => q[d] = proc[d]
  BY DEF Inv, Types
<1> HIDE DEF q
<1>2. ListedIn(flight, q) /\ FollowedIn(q)
  BY <1>1, WaitsKeep DEF Waits
<1>3. proc' = q
  BY DEF q
<1> QED
  BY <1>2, <1>3 DEF Waits

\* The special case of a goroutine that goes to a place outside a flight.
LEMMA WaitsMove ==
  ASSUME Inv, Waits, NEW c \in Proc, NEW pc \in Pc \ {"idle", "wait"}, Goto(c, pc),
         UNCHANGED flight,
         Flies(c, proc[c]) => pc \in {"fetch", "apply", "finish"}
  PROVE  Waits'
<1> DEFINE r == [proc[c] EXCEPT !.pc = pc]
<1>1. proc \in [Proc -> ProcType]
  BY DEF Inv, Types
<1>2. /\ proc' = [proc EXCEPT ![c] = r] /\ r \in ProcType /\ r.pc = pc /\ r.acc = proc[c].acc
      /\ r.of = proc[c].of
  BY <1>1, GotoRecord
<1>3. r.closed = proc[c].closed
  BY <1>1 DEF ProcType
<1> HIDE DEF r
<1>4. Flies(c, proc[c]) => Flies(c, r)
  BY <1>2 DEF Flies
<1> QED
  BY <1>2, <1>3, <1>4, WaitsWalk

LEMMA WaitsOutside ==
  ASSUME Inv, Waits, NEW c \in Proc,
         \/ Probe(c) \/ Check(c) \/ Wake(c) \/ Fallback(c) \/ MarkPlan(c) \/ Mark(c)
         \/ Confirm(c) \/ Delete(c)
  PROVE  Waits'
<1>1. proc[c].pc \notin {"fetch", "apply", "finish"} /\ UNCHANGED flight
  BY DEF Probe, Check, Wake, Fallback, MarkPlan, Mark, Confirm, Delete, maps
<1>2. ~Flies(c, proc[c])
  BY <1>1 DEF Flies
<1>3. \E pc \in Pc \ {"idle", "wait"} : Goto(c, pc)
  <2>1. CASE Probe(c)
    <3> DEFINE onward == [refresh |-> {"ticket"}, cleanup |-> {"check", "over"},
                          register |-> {"over"}]
    <3>1. proc[c].kind \in {"refresh", "cleanup", "register"}
      BY <2>1 DEF Inv, Locals, LocalOK, Probe
    <3>2. onward[proc[c].kind] \subseteq {"ticket", "check", "over"}
      BY <3>1
    <3>3. \/ \E pc \in onward[proc[c].kind] : Goto(c, pc)
          \/ \E pc \in {"over"} \cup (onward[proc[c].kind] \ {"check"}) : Goto(c, pc)
      BY <2>1 DEF Probe
    <3> QED BY <3>2, <3>3 DEF Pc
  <2>2. CASE Check(c)
    <3>1. \/ Goto(c, "over") \/ Goto(c, "begin")
          \/ Goto(c, Return(c, FromCache(quota[proc[c].acc]), FALSE))
      BY <2>2 DEF Check
    <3>2. Return(c, FromCache(quota[proc[c].acc]), FALSE) \in {"over", "mark", "confirm"}
      BY DEF Return
    <3> QED BY <3>1, <3>2 DEF Pc
  <2>3. CASE Wake(c)
    <3> DEFINE answer == proc[proc[c].of].answer
    <3>1. Goto(c, IF answer = "none" THEN "fallback" ELSE Return(c, answer = "eligible", FALSE))
      BY <2>3 DEF Wake
    <3>2. Return(c, answer = "eligible", FALSE) \in {"over", "mark", "confirm"}
      BY DEF Return
    <3> QED BY <3>1, <3>2 DEF Pc
  <2>4. CASE Fallback(c)
    <3>1. Goto(c, Return(c, FromCache(quota[proc[c].acc]), TRUE))
      BY <2>4 DEF Fallback
    <3>2. Return(c, FromCache(quota[proc[c].acc]), TRUE) \in {"over", "mark", "confirm"}
      BY DEF Return
    <3> QED BY <3>1, <3>2 DEF Pc
  <2>5. CASE MarkPlan(c) \/ Mark(c)
    BY <2>5 DEF MarkPlan, Mark, Pc
  <2>6. CASE Confirm(c) \/ Delete(c)
    BY <2>6 DEF Confirm, Delete, Pc
  <2> QED BY <2>1, <2>2, <2>3, <2>4, <2>5, <2>6
<1> QED
  BY <1>1, <1>2, <1>3, WaitsMove

LEMMA WaitsTicket == ASSUME Inv, Waits, NEW c \in Proc, Ticket(c) PROVE Waits'
<1> DEFINE r == [proc[c] EXCEPT !.pc = "fetch", !.gen = generation[proc[c].acc] + 1]
<1>1. /\ proc \in [Proc -> ProcType] /\ proc[c].pc = "ticket" /\ UNCHANGED flight
      /\ proc' = [proc EXCEPT ![c] = r] /\ proc[c].acc \in Account
      /\ generation \in [Account -> Nat]
  BY DEF Inv, Types, Ticket, Locals, LocalOK
<1>2. r \in ProcType /\ r.pc = "fetch" /\ r.closed = proc[c].closed
  <2>1. generation[proc[c].acc] + 1 \in Nat
    BY <1>1
  <2> QED BY <1>1, <2>1 DEF ProcType, Pc
<1>3. ~Flies(c, proc[c])
  BY <1>1 DEF Flies
<1> HIDE DEF r
<1> QED
  BY <1>1, <1>2, <1>3, WaitsWalk

LEMMA WaitsFetch == ASSUME Inv, Waits, NEW c \in Proc, Fetch(c) PROVE Waits'
<1>1. proc \in [Proc -> ProcType] /\ proc[c].pc = "fetch" /\ UNCHANGED flight
  BY DEF Inv, Types, Fetch, maps
<1>2. CASE \E answer \in {"eligible", "exhausted"} :
             proc' = [proc EXCEPT ![c].pc = "apply", ![c].answer = answer]
  <2>1. PICK answer \in {"eligible", "exhausted"} :
          proc' = [proc EXCEPT ![c].pc = "apply", ![c].answer = answer]
    BY <1>2
  <2> DEFINE r == [proc[c] EXCEPT !.pc = "apply", !.answer = answer]
  <2>2. proc' = [proc EXCEPT ![c] = r]
    BY <1>1, <2>1
  <2>3. /\ r \in ProcType /\ r.pc = "apply" /\ r.closed = proc[c].closed /\ r.acc = proc[c].acc
        /\ r.of = proc[c].of
    BY <1>1 DEF ProcType, Pc
  <2> HIDE DEF r
  <2>4. Flies(c, proc[c]) => Flies(c, r)
    BY <2>3 DEF Flies
  <2> QED
    BY <1>1, <2>2, <2>3, <2>4, WaitsWalk
<1>3. CASE Goto(c, IF Leads(c) THEN "finish" ELSE "over")
  <2>1. CASE Leads(c)
    <3>1. Goto(c, "finish")
      BY <1>3, <2>1
    <3> QED BY <1>1, <3>1, WaitsMove DEF Pc
  <2>2. CASE ~Leads(c)
    <3>1. Goto(c, "over") /\ ~Flies(c, proc[c])
      BY <1>3, <2>2 DEF Flies, Leads
    <3> QED BY <1>1, <3>1, WaitsMove DEF Pc
  <2> QED BY <2>1, <2>2
<1> QED BY <1>2, <1>3 DEF Fetch

LEMMA WaitsApply == ASSUME Inv, Waits, NEW c \in Proc, Apply(c) PROVE Waits'
<1>1. Goto(c, AfterApply(c)) /\ UNCHANGED flight
  BY DEF Apply
<1>2. CASE Leads(c)
  <2>1. Goto(c, "finish")
    BY <1>1, <1>2 DEF AfterApply
  <2> QED BY <1>1, <2>1, WaitsMove DEF Pc
<1>3. CASE ~Leads(c)
  <2>1. AfterApply(c) \in Pc \ {"idle", "wait"} /\ ~Flies(c, proc[c])
    BY <1>3 DEF AfterApply, Flies, Leads, Pc
  <2> QED BY <1>1, <2>1, WaitsMove
<1> QED BY <1>2, <1>3

LEMMA WaitsBegin == ASSUME Inv, Waits, NEW c \in Proc, BeginFlight(c) PROVE Waits'
<1> DEFINE a == proc[c].acc
<1>1. /\ proc \in [Proc -> ProcType] /\ proc[c].pc = "begin" /\ a \in Account
      /\ flight \in [Account -> Proc \cup {NoProc}] /\ generation \in [Account -> Nat]
      /\ ~Flies(c, proc[c])
  BY DEF Inv, Types, BeginFlight, Locals, LocalOK, Flies
<1>2. CASE flight[a] = NoProc
  <2> DEFINE r == [proc[c] EXCEPT !.pc = "fetch", !.of = c, !.gen = generation[a] + 1]
  <2>1. flight' = [flight EXCEPT ![a] = c] /\ proc' = [proc EXCEPT ![c] = r]
    BY <1>1, <1>2 DEF BeginFlight
  <2>2. Flies(c, r) /\ r.pc = "fetch" /\ r.acc = a /\ r.closed = proc[c].closed
    BY <1>1 DEF ProcType, Flies
  <2> HIDE DEF r
  <2>3. proc'[c] = r /\ \A d \in Proc : d # c => proc'[d] = proc[d]
    BY <1>1, <2>1
  <2>4. /\ \A d \in Proc : Flies(d, proc[d]) => Flies(d, proc'[d]) /\ proc'[d].acc = proc[d].acc
        /\ \A d \in Proc : Served(d, proc[d]) => Served(d, proc'[d])
    BY <1>1, <2>2, <2>3 DEF Served
  <2>5. ListedIn(flight, proc')
    BY <2>4, StaysListed DEF Waits
  <2>6. flight'[a] = c /\ \A b \in Account : b # a => flight'[b] = flight[b]
    BY <1>1, <2>1
  <2>7. ListedIn(flight', proc')
    BY <2>2, <2>3, <2>5, <2>6 DEF ListedIn
  <2>8. FollowedIn(proc')
    BY <2>2, <2>3, <2>4, StaysFollowed DEF Waits
  <2> QED BY <2>7, <2>8 DEF Waits
<1>3. CASE flight[a] # NoProc
  <2> DEFINE r == [proc[c] EXCEPT !.pc = "wait", !.of = flight[a]]
  <2>1. UNCHANGED flight /\ proc' = [proc EXCEPT ![c] = r]
    BY <1>1, <1>3 DEF BeginFlight
  <2>2. r.pc = "wait" /\ r.of = flight[a] /\ r.closed = proc[c].closed
    BY <1>1 DEF ProcType
  <2> HIDE DEF r
  <2>3. proc'[c] = r /\ \A d \in Proc : d # c => proc'[d] = proc[d]
    BY <1>1, <2>1
  <2>4. /\ \A d \in Proc : Flies(d, proc[d]) => Flies(d, proc'[d]) /\ proc'[d].acc = proc[d].acc
        /\ \A d \in Proc : Served(d, proc[d]) => Served(d, proc'[d])
    BY <1>1, <2>2, <2>3 DEF Served
  <2>5. ListedIn(flight, proc')
    BY <2>4, StaysListed DEF Waits
  <2>6. flight[a] \in Proc /\ Served(flight[a], proc[flight[a]])
    BY <1>1, <1>3 DEF Waits, ListedIn, Served, Flies
  <2>7. FollowedIn(proc')
    BY <2>2, <2>3, <2>4, <2>6, StaysFollowed DEF Waits
  <2> QED BY <2>1, <2>5, <2>7 DEF Waits
<1> QED BY <1>2, <1>3

\* A flight is closed whether it is still listed or not: those who follow it go on.
LEMMA WaitsFinish == ASSUME Inv, Waits, NEW c \in Proc, FinishFlight(c) PROVE Waits'
<1> DEFINE a == proc[c].acc
           pc == IF proc[c].answer = "none" THEN "fallback"
                 ELSE Return(c, proc[c].answer = "eligible", FALSE)
           r == [proc[c] EXCEPT !.closed = TRUE, !.pc = pc]
<1>1. /\ proc \in [Proc -> ProcType] /\ proc[c].pc = "finish" /\ proc' = [proc EXCEPT ![c] = r]
      /\ flight \in [Account -> Proc \cup {NoProc}] /\ a \in Account
      /\ flight' = IF flight[a] = c THEN [flight EXCEPT ![a] = NoProc] ELSE flight
  BY DEF Inv, Types, FinishFlight, Locals, LocalOK
<1>2. pc \in {"over", "mark", "confirm", "fallback"}
  BY ReturnPlace
<1> HIDE DEF pc
<1>3. r.pc = pc /\ r.closed
  BY <1>1 DEF ProcType
<1> HIDE DEF r
<1>4. proc'[c] = r /\ \A d \in Proc : d # c => proc'[d] = proc[d]
  BY <1>1
<1>5. \A d \in Proc : Served(d, proc[d]) => Served(d, proc'[d])
  BY <1>2, <1>3, <1>4 DEF Served
<1>6. ListedIn(flight', proc')
  <2> SUFFICES ASSUME NEW b \in Account, flight'[b] # NoProc
               PROVE  /\ flight'[b] \in Proc /\ Flies(flight'[b], proc'[flight'[b]])
                      /\ proc'[flight'[b]].acc = b
    BY DEF ListedIn
  <2>1. flight'[b] = flight[b]
    BY <1>1
  <2>2. flight[b] \in Proc /\ Flies(flight[b], proc[flight[b]]) /\ proc[flight[b]].acc = b
    BY <2>1 DEF Waits, ListedIn
  <2>3. flight[b] # c
    BY <1>1, <2>1, <2>2
  <2> QED BY <1>4, <2>1, <2>2, <2>3
<1>7. FollowedIn(proc')
  BY <1>2, <1>3, <1>4, <1>5, StaysFollowed DEF Waits
<1> QED BY <1>6, <1>7 DEF Waits

LEMMA WaitsStart ==
  ASSUME Inv, Waits, NEW c \in Proc, NEW kind \in Kinds, Start(c, kind)
  PROVE  Waits'
<1> DEFINE r == [Idle EXCEPT !.kind = kind, !.acc = current,
                   !.pc = IF kind = "register" THEN "ticket"
                          ELSE IF kind \in {"refresh", "cleanup"} THEN "probe"
                          ELSE "check"]
<1>1. /\ proc \in [Proc -> ProcType] /\ proc[c].pc = "idle" /\ proc' = [proc EXCEPT ![c] = r]
      /\ UNCHANGED flight
  BY DEF Inv, Types, Start, maps
<1>2. r.pc \in {"ticket", "probe", "check"}
  BY DEF Idle
<1> HIDE DEF r
<1>3. proc'[c] = r /\ \A d \in Proc : d # c => proc'[d] = proc[d]
  BY <1>1
<1>4. ~Flies(c, proc[c]) /\ ~Served(c, proc[c])
  BY <1>1 DEF Flies, Served
<1>5. /\ \A d \in Proc : Flies(d, proc[d]) => Flies(d, proc'[d]) /\ proc'[d].acc = proc[d].acc
      /\ \A d \in Proc : Served(d, proc[d]) => Served(d, proc'[d])
  BY <1>3, <1>4
<1>6. ListedIn(flight, proc')
  BY <1>5, StaysListed DEF Waits
<1>7. FollowedIn(proc')
  BY <1>2, <1>3, <1>5, StaysFollowed DEF Waits
<1> QED
  BY <1>1, <1>6, <1>7 DEF Waits

LEMMA WaitsElse ==
  ASSUME Inv, Waits,
         (\E a \in Account : Import(a) \/ Drop(a)) \/ UNCHANGED vars
  PROVE  Waits'
<1>1. CASE \E a \in Account : Drop(a)
  <2>1. PICK a \in Account : flight' = [flight EXCEPT ![a] = NoProc] /\ proc' = proc
    BY <1>1 DEF Drop
  <2>2. ListedIn(flight', proc)
    BY <2>1 DEF Inv, Types, Waits, ListedIn
  <2> QED BY <2>1, <2>2 DEF Waits
<1>2. CASE (\E a \in Account : Import(a)) \/ UNCHANGED vars
  <2>1. flight' = flight /\ proc' = proc
    BY <1>2 DEF Import, vars, maps
  <2> QED BY <2>1 DEF Waits
<1> QED BY <1>1, <1>2

LEMMA WaitsStep == Inv /\ Waits /\ [Next]_vars => Waits'
<1> SUFFICES ASSUME Inv, Waits, [Next]_vars PROVE Waits'
  OBVIOUS
<1>1. ASSUME NEW c \in Proc, Go(c) PROVE Waits'
  BY <1>1, WaitsOutside, WaitsTicket, WaitsFetch, WaitsApply, WaitsBegin, WaitsFinish DEF Go
<1>2. ASSUME NEW c \in Proc, NEW kind \in Kinds, Start(c, kind) PROVE Waits'
  BY <1>2, WaitsStart
<1> QED
  BY <1>1, <1>2, WaitsElse DEF Next

\* No follower is left behind, whatever is imported and removed while it waits and however
\* its flight ends (finishRoutingQuotaFlight closes it whether the map still lists it or not):
\* who cannot go on follows a leader that can.
THEOREM FollowersAreServed == Spec => []NoneLeftBehind
<1>1. Init => Waits
  BY DEF Init, Waits, ListedIn, FollowedIn, Idle
<1>2. Inv /\ Waits => NoneLeftBehind
  <2> SUFFICES ASSUME Waits, NEW c \in Proc, Running(c), ~GoesOn(c)
               PROVE  GoesOn(proc[c].of)
    BY DEF NoneLeftBehind
  <2>1. proc[c].pc = "wait" /\ ~proc[proc[c].of].closed
    BY DEF GoesOn
  <2>2. Flies(proc[c].of, proc[proc[c].of])
    BY <2>1 DEF Waits, FollowedIn, Served
  <2> QED BY <2>2 DEF Flies, GoesOn, Running
<1> QED
  BY InitInv, NextInv, <1>1, WaitsStep, <1>2, PTL DEF Spec

-----------------------------------------------------------------------------
(* Goroutines only go forward.                                             *)

\* One goroutine goes forward and the others stay.
LEMMA ProgressAt ==
  ASSUME NEW c \in Proc, proc \in [Proc -> ProcType], NEW r \in ProcType,
         proc' = [proc EXCEPT ![c] = r], Progress(proc[c]) < Progress(r)
  PROVE  \A d \in Proc : proc'[d] = proc[d] \/ Progress(proc[d]) < Progress(proc'[d])
<1>1. proc'[c] = r /\ \A d \in Proc : d # c => proc'[d] = proc[d]
  OBVIOUS
<1> QED BY <1>1

LEMMA ProgressTo ==
  ASSUME NEW c \in Proc, proc \in [Proc -> ProcType], NEW pc \in Pc, Goto(c, pc),
         proc[c].kind = "register" => proc[c].pc # "probe" \/ pc = "over",
         PlaceOf[proc[c].pc] < PlaceOf[pc] \/ (proc[c].kind = "register" /\ pc = "probe"
                                                /\ PlaceOf[proc[c].pc] < 9)
  PROVE  \A d \in Proc : proc'[d] = proc[d] \/ Progress(proc[d]) < Progress(proc'[d])
<1> DEFINE r == [proc[c] EXCEPT !.pc = pc]
<1>1. /\ proc' = [proc EXCEPT ![c] = r] /\ r \in ProcType /\ r.pc = pc
      /\ r.kind = proc[c].kind
  BY GotoRecord
<1> HIDE DEF r
<1>2. PlaceOf["over"] = 10
  BY DEF PlaceOf
<1>3. \A x \in Pc : PlaceOf[x] \in 0 .. 10
  BY DEF PlaceOf, Pc
<1>4. proc[c].pc \in Pc
  BY DEF ProcType
<1>5. pc = "probe" => PlaceOf[pc] = 1
  BY DEF PlaceOf
<1>6. Progress(proc[c]) < Progress(r)
  <2>1. CASE proc[c].kind = "register" /\ proc[c].pc = "probe"
    BY <1>1, <1>2, <2>1 DEF Progress
  <2>2. CASE ~(proc[c].kind = "register" /\ proc[c].pc = "probe")
    BY <1>1, <1>3, <1>4, <1>5, <2>2 DEF Progress
  <2> QED BY <2>1, <2>2
<1> QED BY <1>1, <1>6, ProgressAt

LEMMA PlacesOf ==
  /\ PlaceOf["idle"] = 0 /\ PlaceOf["probe"] = 1 /\ PlaceOf["check"] = 2
  /\ PlaceOf["begin"] = 3 /\ PlaceOf["ticket"] = 3 /\ PlaceOf["wait"] = 4
  /\ PlaceOf["fetch"] = 4 /\ PlaceOf["apply"] = 5 /\ PlaceOf["finish"] = 6
  /\ PlaceOf["fallback"] = 7 /\ PlaceOf["mark"] = 8 /\ PlaceOf["confirm"] = 8
  /\ PlaceOf["set"] = 9 /\ PlaceOf["clear"] = 9 /\ PlaceOf["delete"] = 9
  /\ PlaceOf["over"] = 10
BY DEF PlaceOf

Ahead == \A d \in Proc : proc'[d] = proc[d] \/ Progress(proc[d]) < Progress(proc'[d])

LEMMA AheadWalk ==
  ASSUME Types, NEW c \in Proc, NEW pc \in Pc \ {"probe"}, Goto(c, pc),
         proc[c].pc # "probe", PlaceOf[proc[c].pc] < PlaceOf[pc]
  PROVE  Ahead
BY ProgressTo DEF Ahead, Types

LEMMA AheadProbe == ASSUME Types, Locals, NEW c \in Proc, Probe(c) PROVE Ahead
<1> DEFINE onward == [refresh |-> {"ticket"}, cleanup |-> {"check", "over"},
                      register |-> {"over"}]
<1>1. proc[c].kind \in {"refresh", "cleanup", "register"} /\ proc[c].pc = "probe"
  BY DEF Locals, LocalOK, Probe
<1>2. \/ \E pc \in onward[proc[c].kind] : Goto(c, pc)
      \/ \E pc \in {"over"} \cup (onward[proc[c].kind] \ {"check"}) : Goto(c, pc)
  BY DEF Probe
<1>3. onward[proc[c].kind] \subseteq {"ticket", "check", "over"}
  BY <1>1
<1>4. proc[c].kind = "register" => onward[proc[c].kind] = {"over"}
  OBVIOUS
<1>5. PICK pc \in {"ticket", "check", "over"} :
        Goto(c, pc) /\ (proc[c].kind = "register" => pc = "over")
  BY <1>2, <1>3, <1>4
<1>6. pc \in Pc /\ PlaceOf[proc[c].pc] < PlaceOf[pc]
  BY <1>1, PlacesOf DEF Pc
<1> QED
  BY <1>5, <1>6, ProgressTo DEF Ahead, Types

LEMMA AheadCheck == ASSUME Types, NEW c \in Proc, Check(c) PROVE Ahead
<1> DEFINE e == FromCache(quota[proc[c].acc])
<1>1. \/ Goto(c, "over") \/ Goto(c, "begin") \/ Goto(c, Return(c, e, FALSE))
  BY DEF Check
<1>2. Return(c, e, FALSE) \in {"over", "mark", "confirm"}
  BY DEF Return
<1>3. PICK pc \in {"over", "begin", "mark", "confirm"} : Goto(c, pc)
  BY <1>1, <1>2
<1>4. pc \in Pc /\ proc[c].pc = "check" /\ PlaceOf["check"] < PlaceOf[pc]
  BY PlacesOf DEF Pc, Check
<1> QED
  BY <1>3, <1>4, AheadWalk

LEMMA AheadWake == ASSUME Types, NEW c \in Proc, Wake(c) \/ Fallback(c) PROVE Ahead
<1>1. CASE Wake(c)
  <2> DEFINE answer == proc[proc[c].of].answer
  <2>1. Goto(c, IF answer = "none" THEN "fallback" ELSE Return(c, answer = "eligible", FALSE))
    BY <1>1 DEF Wake
  <2>2. Return(c, answer = "eligible", FALSE) \in {"over", "mark", "confirm"}
    BY DEF Return
  <2> HIDE DEF answer
  <2>3. PICK pc \in {"fallback", "over", "mark", "confirm"} : Goto(c, pc)
    BY <2>1, <2>2
  <2>4. pc \in Pc /\ proc[c].pc = "wait" /\ PlaceOf["wait"] < PlaceOf[pc]
    BY <1>1, PlacesOf DEF Pc, Wake
  <2> QED BY <2>3, <2>4, AheadWalk
<1>2. CASE Fallback(c)
  <2> DEFINE e == FromCache(quota[proc[c].acc])
  <2>1. Goto(c, Return(c, e, TRUE))
    BY <1>2 DEF Fallback
  <2>2. Return(c, e, TRUE) \in {"over", "mark", "confirm"}
    BY DEF Return
  <2>3. PICK pc \in {"over", "mark", "confirm"} : Goto(c, pc)
    BY <2>1, <2>2
  <2>4. pc \in Pc /\ proc[c].pc = "fallback" /\ PlaceOf["fallback"] < PlaceOf[pc]
    BY <1>2, PlacesOf DEF Pc, Fallback
  <2> QED BY <2>3, <2>4, AheadWalk
<1> QED BY <1>1, <1>2

LEMMA AheadLate ==
  ASSUME Types, NEW c \in Proc, MarkPlan(c) \/ Mark(c) \/ Confirm(c) \/ Delete(c)
  PROVE  Ahead
<1>1. PICK pc \in {"set", "clear", "over", "delete"} :
        Goto(c, pc) /\ (Mark(c) \/ Delete(c) => pc = "over")
  <2>1. CASE Mark(c) \/ Delete(c)
    <3>1. Goto(c, "over")
      BY <2>1 DEF Mark, Delete
    <3> QED BY <3>1
  <2>2. CASE ~(Mark(c) \/ Delete(c))
    <3>1. Goto(c, "set") \/ Goto(c, "clear") \/ Goto(c, "over") \/ Goto(c, "delete")
      BY <2>2 DEF MarkPlan, Confirm
    <3> QED BY <2>2, <3>1
  <2> QED BY <2>1, <2>2
<1>2. CASE Mark(c) \/ Delete(c)
  <2>1. proc[c].pc \in {"set", "clear", "delete"} /\ pc = "over"
    BY <1>1, <1>2 DEF Mark, Delete
  <2>2. pc \in Pc /\ PlaceOf[proc[c].pc] < PlaceOf[pc]
    BY <2>1, PlacesOf DEF Pc
  <2> QED BY <1>1, <2>1, <2>2, AheadWalk
<1>3. CASE MarkPlan(c) \/ Confirm(c)
  <2>1. proc[c].pc \in {"mark", "confirm"}
    BY <1>3 DEF MarkPlan, Confirm
  <2>2. pc \in Pc /\ PlaceOf[proc[c].pc] < PlaceOf[pc]
    BY <2>1, PlacesOf DEF Pc
  <2> QED BY <1>1, <2>1, <2>2, AheadWalk
<1> QED BY <1>2, <1>3

\* The record may change in other fields than the place too.
LEMMA AheadAt ==
  ASSUME Types, NEW c \in Proc, NEW r, proc' = [proc EXCEPT ![c] = r],
         proc[c].pc # "probe", r.pc # "probe", PlaceOf[proc[c].pc] < PlaceOf[r.pc]
  PROVE  Ahead
<1>1. proc'[c] = r /\ \A d \in Proc : d # c => proc'[d] = proc[d]
  BY DEF Types
<1>2. Progress(proc[c]) < Progress(r)
  BY DEF Progress
<1> QED BY <1>1, <1>2 DEF Ahead

LEMMA AheadFlight ==
  ASSUME Types, NEW c \in Proc, BeginFlight(c) \/ Ticket(c) PROVE Ahead
<1> DEFINE a == proc[c].acc
           r1 == [proc[c] EXCEPT !.pc = "fetch", !.of = c, !.gen = generation[a] + 1]
           r2 == [proc[c] EXCEPT !.pc = "wait", !.of = flight[a]]
           r3 == [proc[c] EXCEPT !.pc = "fetch", !.gen = generation[a] + 1]
<1>1. PICK r \in {r1, r2, r3} : proc' = [proc EXCEPT ![c] = r]
  BY DEF Types, BeginFlight, Ticket
<1>2. r.pc \in {"fetch", "wait"}
  BY <1>1 DEF Types, ProcType
<1>3. proc[c].pc \in {"begin", "ticket"}
  BY DEF BeginFlight, Ticket
<1>4. PlaceOf[proc[c].pc] < PlaceOf[r.pc]
  BY <1>2, <1>3, PlacesOf
<1> QED
  BY <1>1, <1>2, <1>3, <1>4, AheadAt

LEMMA AheadFetch == ASSUME Types, NEW c \in Proc, Fetch(c) PROVE Ahead
<1>1. proc[c].pc = "fetch"
  BY DEF Fetch
<1>2. CASE \E answer \in {"eligible", "exhausted"} :
             proc' = [proc EXCEPT ![c].pc = "apply", ![c].answer = answer]
  <2>1. PICK answer \in {"eligible", "exhausted"} :
          proc' = [proc EXCEPT ![c].pc = "apply", ![c].answer = answer]
    BY <1>2
  <2> DEFINE r == [proc[c] EXCEPT !.pc = "apply", !.answer = answer]
  <2>2. proc' = [proc EXCEPT ![c] = r] /\ r.pc = "apply"
    BY <2>1 DEF Types, ProcType
  <2> HIDE DEF r
  <2>3. PlaceOf[proc[c].pc] < PlaceOf[r.pc]
    BY <1>1, <2>2, PlacesOf
  <2> QED BY <1>1, <2>2, <2>3, AheadAt
<1>3. CASE Goto(c, IF Leads(c) THEN "finish" ELSE "over")
  <2>1. PICK pc \in {"finish", "over"} : Goto(c, pc)
    BY <1>3
  <2>2. pc \in Pc /\ PlaceOf[proc[c].pc] < PlaceOf[pc]
    BY <1>1, PlacesOf DEF Pc
  <2> QED BY <1>1, <2>1, <2>2, AheadWalk
<1> QED BY <1>2, <1>3 DEF Fetch

LEMMA AheadApply == ASSUME Types, NEW c \in Proc, Apply(c) PROVE Ahead
<1>1. proc[c].pc = "apply" /\ Goto(c, AfterApply(c))
  BY DEF Apply
<1>2. CASE AfterApply(c) = "probe"
  <2>1. Goto(c, "probe") /\ proc[c].kind = "register" /\ PlaceOf[proc[c].pc] < 9
    BY <1>1, <1>2, PlacesOf DEF AfterApply
  <2> QED BY <1>1, <2>1, ProgressTo DEF Ahead, Types, Pc
<1>3. CASE AfterApply(c) # "probe"
  <2>1. PICK pc \in {"finish", "over"} : Goto(c, pc)
    BY <1>1, <1>3 DEF AfterApply
  <2>2. pc \in Pc /\ PlaceOf[proc[c].pc] < PlaceOf[pc]
    BY <1>1, PlacesOf DEF Pc
  <2> QED BY <1>1, <2>1, <2>2, AheadWalk
<1> QED BY <1>2, <1>3

LEMMA AheadFinish == ASSUME Types, NEW c \in Proc, FinishFlight(c) PROVE Ahead
<1> DEFINE pc == IF proc[c].answer = "none" THEN "fallback"
                 ELSE Return(c, proc[c].answer = "eligible", FALSE)
           r == [proc[c] EXCEPT !.closed = TRUE, !.pc = pc]
<1>1. proc' = [proc EXCEPT ![c] = r] /\ proc[c].pc = "finish"
  BY DEF Types, FinishFlight
<1>2. pc \in {"over", "mark", "confirm", "fallback"}
  BY ReturnPlace
<1> HIDE DEF pc
<1>3. r.pc = pc
  BY DEF Types, ProcType
<1> HIDE DEF r
<1>4. PlaceOf[proc[c].pc] < PlaceOf[r.pc]
  BY <1>1, <1>2, <1>3, PlacesOf
<1> QED
  BY <1>1, <1>2, <1>3, <1>4, AheadAt

LEMMA AheadStart ==
  ASSUME Types, NEW c \in Proc, NEW kind \in Kinds, Start(c, kind) PROVE Ahead
<1> DEFINE r == [Idle EXCEPT !.kind = kind, !.acc = current,
                   !.pc = IF kind = "register" THEN "ticket"
                          ELSE IF kind \in {"refresh", "cleanup"} THEN "probe"
                          ELSE "check"]
<1>1. proc' = [proc EXCEPT ![c] = r] /\ proc[c].pc = "idle"
  BY DEF Start
<1>2. r.pc \in {"ticket", "probe", "check"} /\ r.kind = kind
  BY DEF Idle
<1>3. r.pc = "probe" => kind # "register"
  BY DEF Idle
<1> HIDE DEF r
<1>4. proc'[c] = r /\ \A d \in Proc : d # c => proc'[d] = proc[d]
  BY <1>1 DEF Types
<1>5. Progress(proc[c]) = 0
  BY <1>1, PlacesOf DEF Progress
<1>6. Progress(r) > 0
  BY <1>2, <1>3, PlacesOf DEF Progress
<1> QED
  BY <1>4, <1>5, <1>6 DEF Ahead

\* Every step of a goroutine takes it forward, to a place it was not at before: no check is
\* made again and again, a follower that wakes does not wait again, and with FollowersAreServed
\* the check of a request or of a clean-up can only come to its end.
THEOREM ChecksGoForward == Spec => OnlyForward
<1>1. Inv /\ [Next]_vars => [Ahead]_vars
  <2> SUFFICES ASSUME Inv, Next PROVE Ahead
    OBVIOUS
  <2>1. Types /\ Locals
    BY DEF Inv
  <2>2. ASSUME NEW c \in Proc, Go(c) PROVE Ahead
    BY <2>1, <2>2, AheadProbe, AheadCheck, AheadFlight, AheadFetch, AheadApply, AheadFinish,
       AheadWake, AheadLate DEF Go
  <2>3. ASSUME NEW c \in Proc, NEW kind \in Kinds, Start(c, kind) PROVE Ahead
    BY <2>1, <2>3, AheadStart
  <2>4. ASSUME NEW a \in Account, Import(a) \/ Drop(a) PROVE Ahead
    BY <2>4 DEF Import, Drop, Ahead
  <2> QED BY <2>2, <2>3, <2>4 DEF Next
<1>2. Inv /\ [Next]_vars =>
        [\A c \in Proc : proc'[c] = proc[c] \/ Progress(proc[c]) < Progress(proc'[c])]_vars
  BY <1>1 DEF Ahead
<1> QED
  BY <1>2, Invariance, PTL DEF Spec, OnlyForward

=============================================================================
