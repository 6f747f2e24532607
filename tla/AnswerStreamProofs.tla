------------------------- MODULE AnswerStreamProofs -------------------------
(***************************************************************************)
(* Proofs about AnswerStream, for every protocol, any number of events and *)
(* accounts, and any capacity of the bridge: an answer begins once and     *)
(* ends once, and its parts come in order.                                 *)
(*                                                                         *)
(* An answer goes through phases, and each event moves it from one to the  *)
(* next (Moves).  The phase the client is in leads, by the events in the   *)
(* channel and those the handler is writing, to the phase the handler is   *)
(* in.  What a handler sends in one step is put together by its closures;  *)
(* for each of them a lemma says where its events lead.                    *)
(*                                                                         *)
(* The parts are followed in the same way, through pages (Turns) that say  *)
(* in addition which part is open, at which index, and whether the         *)
(* Responses protocol has had its thinking.  What a client has open, and   *)
(* what its transcoder has noted, is what the page of the client says.     *)
(*                                                                         *)
(* Last, the handler and the transcoder never wait for each other, and     *)
(* every step leaves less to do: what is left is a tuple of numbers that   *)
(* falls in the lexicographic order.                                       *)
(***************************************************************************)
EXTENDS AnswerStream, SequenceTheorems, TLAPS

Kinds == {"thinking", "text", "tool", "none"}
Inner == {"start", "delta", "stop"}

\* An answer that is one body is "unsaid" until it is sent.
Phase == {"idle", "unsaid", "begun", "ending", "over"}

\* The events that may come in a phase, and the phases they lead to.
Moves ==
  {<<"idle", "message_start", "begun">>, <<"unsaid", "whole", "over">>,
   <<"begun", "start", "begun">>, <<"begun", "delta", "begun">>, <<"begun", "stop", "begun">>,
   <<"begun", "message_delta", "ending">>, <<"begun", "error", "over">>,
   <<"ending", "message_stop", "over">>}

\* The frames q lead from p to r by moves of M, through places of S.
Path(S, M, p, q, r) ==
  \E w \in [0 .. Len(q) -> S] :
    /\ w[0] = p /\ w[Len(q)] = r
    /\ \A i \in 1 .. Len(q) : <<w[i - 1], q[i], w[i]>> \in M

FrameMoves == {m \in Phase \X Frames \X Phase : <<m[1], m[2].event, m[3]>> \in Moves}

\* The events q lead from phase p to phase r.
Leads(p, q, r) == Path(Phase, FrameMoves, p, q, r)

-----------------------------------------------------------------------------
(* Where frames lead. *)

LEMMA PathNowhere ==
  ASSUME NEW S, NEW M, NEW p \in S, NEW r
  PROVE  Path(S, M, p, <<>>, r) <=> r = p
<1>1. Len(<<>>) = 0
  BY EmptySeq
<1>2. Path(S, M, p, <<>>, p)
  <2> DEFINE w == [i \in 0 .. 0 |-> p]
  <2>1. w \in [0 .. Len(<<>>) -> S] /\ w[0] = p /\ w[Len(<<>>)] = p
    BY <1>1
  <2>2. \A i \in 1 .. Len(<<>>) : FALSE
    BY <1>1
  <2>3. QED BY <2>1, <2>2 DEF Path
<1>3. Path(S, M, p, <<>>, r) => r = p
  BY <1>1 DEF Path
<1>4. QED BY <1>2, <1>3

LEMMA PathPlaces ==
  ASSUME NEW S, NEW M, NEW p, NEW q \in Seq(Frames), NEW r, Path(S, M, p, q, r)
  PROVE  p \in S /\ r \in S
<1>1. Len(q) \in Nat
  BY LenProperties
<1>2. 0 \in 0 .. Len(q) /\ Len(q) \in 0 .. Len(q)
  BY <1>1
<1>3. QED BY <1>2 DEF Path

LEMMA PathOn ==
  ASSUME NEW S, NEW M, NEW p, NEW q \in Seq(Frames), NEW r, Path(S, M, p, q, r),
         NEW f \in Frames, NEW s \in S, <<r, f, s>> \in M
  PROVE  Append(q, f) \in Seq(Frames) /\ Path(S, M, p, Append(q, f), s)
<1> DEFINE a == Append(q, f)
<1>1. /\ Len(q) \in Nat /\ a \in Seq(Frames) /\ Len(a) = Len(q) + 1
      /\ \A i \in 1 .. Len(q) : a[i] = q[i]
      /\ a[Len(q) + 1] = f
  BY AppendProperties, LenProperties
<1>2. PICK w \in [0 .. Len(q) -> S] :
        /\ w[0] = p /\ w[Len(q)] = r
        /\ \A i \in 1 .. Len(q) : <<w[i - 1], q[i], w[i]>> \in M
  BY DEF Path
<1> DEFINE x == [i \in 0 .. Len(q) + 1 |-> IF i <= Len(q) THEN w[i] ELSE s]
<1>3. x \in [0 .. Len(a) -> S] /\ x[0] = p /\ x[Len(a)] = s
  BY <1>1, <1>2
<1>4. ASSUME NEW i \in 1 .. Len(a)
      PROVE  <<x[i - 1], a[i], x[i]>> \in M
  <2>1. CASE i <= Len(q)
    <3>1. i \in 1 .. Len(q) /\ i - 1 \in 0 .. Len(q)
      BY <1>1, <2>1
    <3>2. x[i - 1] = w[i - 1] /\ x[i] = w[i] /\ a[i] = q[i]
      BY <1>1, <2>1, <3>1
    <3>3. QED BY <1>2, <3>1, <3>2
  <2>2. CASE ~(i <= Len(q))
    <3>1. i = Len(q) + 1 /\ i - 1 = Len(q)
      BY <1>1, <2>2
    <3>2. x[i - 1] = r /\ x[i] = s /\ a[i] = f
      BY <1>1, <1>2, <3>1
    <3>3. QED BY <3>2
  <2>3. QED BY <2>1, <2>2
<1> HIDE DEF x, a
<1>5. Path(S, M, p, a, s)
  BY <1>3, <1>4 DEF Path
<1>6. QED BY <1>1, <1>5 DEF a

LEMMA PathFrom ==
  ASSUME NEW S, NEW M, NEW p, NEW q \in Seq(Frames), NEW r, Path(S, M, p, q, r), q # <<>>
  PROVE  \E s \in S : <<p, Head(q), s>> \in M /\ Path(S, M, s, Tail(q), r)
<1> DEFINE t == Tail(q)
<1>1. /\ Len(q) \in Nat \ {0} /\ t \in Seq(Frames) /\ Len(t) = Len(q) - 1
      /\ \A i \in 1 .. Len(t) : t[i] = q[i + 1]
      /\ Head(q) = q[1]
  BY HeadTailProperties, LenProperties, EmptySeq
<1>2. PICK w \in [0 .. Len(q) -> S] :
        /\ w[0] = p /\ w[Len(q)] = r
        /\ \A i \in 1 .. Len(q) : <<w[i - 1], q[i], w[i]>> \in M
  BY DEF Path
<1> DEFINE x == [i \in 0 .. Len(t) |-> w[i + 1]]
<1>3. x \in [0 .. Len(t) -> S] /\ x[0] = w[1] /\ x[Len(t)] = r /\ w[1] \in S
  BY <1>1, <1>2
<1>4. ASSUME NEW i \in 1 .. Len(t)
      PROVE  <<x[i - 1], t[i], x[i]>> \in M
  <2>1. /\ i + 1 \in 1 .. Len(q) /\ i \in 0 .. Len(t) /\ i - 1 \in 0 .. Len(t)
        /\ (i + 1) - 1 = i /\ (i - 1) + 1 = i
    BY <1>1
  <2>2. x[i - 1] = w[i] /\ x[i] = w[i + 1] /\ t[i] = q[i + 1]
    BY <1>1, <2>1
  <2>3. <<w[(i + 1) - 1], q[i + 1], w[i + 1]>> \in M
    BY <1>2, <2>1
  <2>4. QED BY <2>1, <2>2, <2>3
<1> HIDE DEF x, t
<1>5. Path(S, M, w[1], t, r)
  BY <1>3, <1>4 DEF Path
<1>6. <<p, Head(q), w[1]>> \in M
  <2>1. 1 \in 1 .. Len(q) /\ 1 - 1 = 0
    BY <1>1
  <2>2. <<w[1 - 1], q[1], w[1]>> \in M
    BY <1>2, <2>1
  <2>3. QED BY <1>1, <1>2, <2>1, <2>2
<1>7. QED BY <1>3, <1>5, <1>6 DEF t

LEMMA PathThrough ==
  ASSUME NEW S, NEW M, NEW p, NEW q \in Seq(Frames), NEW s, Path(S, M, p, q, s),
         NEW q2 \in Seq(Frames), NEW r, Path(S, M, s, q2, r)
  PROVE  q \o q2 \in Seq(Frames) /\ Path(S, M, p, q \o q2, r)
<1> DEFINE a == q \o q2
<1>1. /\ Len(q) \in Nat /\ Len(q2) \in Nat /\ a \in Seq(Frames) /\ Len(a) = Len(q) + Len(q2)
      /\ \A i \in 1 .. Len(q) + Len(q2) : a[i] = IF i <= Len(q) THEN q[i] ELSE q2[i - Len(q)]
  BY ConcatProperties, LenProperties
<1>2. PICK w \in [0 .. Len(q) -> S] :
        /\ w[0] = p /\ w[Len(q)] = s
        /\ \A i \in 1 .. Len(q) : <<w[i - 1], q[i], w[i]>> \in M
  BY DEF Path
<1>3. PICK v \in [0 .. Len(q2) -> S] :
        /\ v[0] = s /\ v[Len(q2)] = r
        /\ \A i \in 1 .. Len(q2) : <<v[i - 1], q2[i], v[i]>> \in M
  BY DEF Path
<1> DEFINE x == [i \in 0 .. Len(q) + Len(q2) |-> IF i <= Len(q) THEN w[i] ELSE v[i - Len(q)]]
<1>4. x \in [0 .. Len(a) -> S] /\ x[0] = p
  <2>1. ASSUME NEW i \in 0 .. Len(q) + Len(q2), ~(i <= Len(q))
        PROVE  i - Len(q) \in 0 .. Len(q2)
    BY <1>1, <2>1
  <2>2. QED BY <1>1, <1>2, <1>3, <2>1
<1>5. x[Len(a)] = r
  <2>1. CASE Len(q2) = 0
    BY <1>1, <1>2, <1>3, <2>1
  <2>2. CASE Len(q2) # 0
    <3>1. /\ Len(a) \in 0 .. Len(q) + Len(q2) /\ ~(Len(a) <= Len(q)) /\ Len(a) - Len(q) = Len(q2)
      BY <1>1, <2>2
    <3>2. \A i \in 0 .. Len(q) + Len(q2) : ~(i <= Len(q)) => x[i] = v[i - Len(q)]
      OBVIOUS
    <3> HIDE DEF x, a
    <3>3. QED BY <1>3, <3>1, <3>2
  <2>3. QED BY <2>1, <2>2
<1>6. ASSUME NEW i \in 1 .. Len(a)
      PROVE  <<x[i - 1], a[i], x[i]>> \in M
  <2>1. CASE i <= Len(q)
    <3>1. i \in 1 .. Len(q) /\ i - 1 \in 0 .. Len(q)
      BY <1>1, <2>1
    <3>2. x[i - 1] = w[i - 1] /\ x[i] = w[i] /\ a[i] = q[i]
      BY <1>1, <2>1, <3>1
    <3>3. QED BY <1>2, <3>1, <3>2
  <2>2. CASE ~(i <= Len(q))
    <3> DEFINE j == i - Len(q)
    <3>1. /\ j \in 1 .. Len(q2) /\ i \in 0 .. Len(q) + Len(q2) /\ i - 1 \in 0 .. Len(q) + Len(q2)
          /\ (i - 1) - Len(q) = j - 1
      BY <1>1, <2>2
    <3>2. x[i - 1] = v[j - 1]
      <4>1. CASE i - 1 = Len(q)
        <5>1. j - 1 = 0 /\ x[i - 1] = w[i - 1]
          BY <1>1, <3>1, <4>1
        <5>2. QED BY <1>2, <1>3, <4>1, <5>1
      <4>2. CASE i - 1 # Len(q)
        <5>1. ~(i - 1 <= Len(q)) /\ i - 1 \in 0 .. Len(q) + Len(q2) /\ (i - 1) - Len(q) = j - 1
          BY <1>1, <2>2, <3>1, <4>2
        <5>2. \A n \in 0 .. Len(q) + Len(q2) : ~(n <= Len(q)) => x[n] = v[n - Len(q)]
          OBVIOUS
        <5> HIDE DEF x, j
        <5>3. QED BY <5>1, <5>2
      <4>3. QED BY <4>1, <4>2
    <3>3. x[i] = v[j] /\ a[i] = q2[j]
      BY <1>1, <2>2, <3>1
    <3> HIDE DEF j, x
    <3>4. QED BY <1>3, <3>1, <3>2, <3>3
  <2>3. QED BY <2>1, <2>2
<1> HIDE DEF x, a
<1>7. Path(S, M, p, a, r)
  BY <1>4, <1>5, <1>6 DEF Path
<1>8. QED BY <1>1, <1>7 DEF a

-----------------------------------------------------------------------------
(* Where events lead. *)

LEMMA FrameMoved ==
  ASSUME NEW p \in Phase, NEW f \in Frames, NEW s \in Phase
  PROVE  <<p, f, s>> \in FrameMoves <=> <<p, f.event, s>> \in Moves
<1>1. <<p, f, s>> \in Phase \X Frames \X Phase
  OBVIOUS
<1>2. <<p, f, s>>[1] = p /\ <<p, f, s>>[2] = f /\ <<p, f, s>>[3] = s
  OBVIOUS
<1>3. QED BY <1>1, <1>2 DEF FrameMoves

LEMMA LeadsNowhere ==
  ASSUME NEW p \in Phase, NEW r
  PROVE  Leads(p, <<>>, r) <=> r = p
BY PathNowhere DEF Leads

LEMMA LeadsOn ==
  ASSUME NEW p, NEW q \in Seq(Frames), NEW r, Leads(p, q, r),
         NEW f \in Frames, NEW s \in Phase, <<r, f.event, s>> \in Moves
  PROVE  Append(q, f) \in Seq(Frames) /\ Leads(p, Append(q, f), s)
<1>1. r \in Phase
  BY PathPlaces DEF Leads
<1>2. <<r, f, s>> \in FrameMoves
  BY <1>1, FrameMoved
<1>3. QED BY <1>2, PathOn DEF Leads

LEMMA LeadsFrom ==
  ASSUME NEW p, NEW q \in Seq(Frames), NEW r, Leads(p, q, r), q # <<>>
  PROVE  \E s \in Phase : <<p, Head(q).event, s>> \in Moves /\ Leads(s, Tail(q), r)
<1>1. p \in Phase /\ Head(q) \in Frames
  BY PathPlaces, HeadTailProperties DEF Leads
<1>2. PICK s \in Phase : <<p, Head(q), s>> \in FrameMoves /\ Path(Phase, FrameMoves, s, Tail(q), r)
  BY PathFrom DEF Leads
<1>3. QED BY <1>1, <1>2, FrameMoved DEF Leads

\* While the parts of an answer are sent it stays in its phase.
LEMMA LeadsInside ==
  ASSUME NEW p, NEW q \in Seq(Frames), Leads(p, q, "begun"),
         NEW r \in Seq(Frames), \A i \in 1 .. Len(r) : r[i].event \in Inner
  PROVE  q \o r \in Seq(Frames) /\ Leads(p, q \o r, "begun")
<1> DEFINE w == [i \in 0 .. Len(r) |-> "begun"]
<1>1. Len(r) \in Nat /\ \A i \in 1 .. Len(r) : r[i] \in Frames
  BY LenProperties, ElementOfSeq
<1>2. w \in [0 .. Len(r) -> Phase] /\ w[0] = "begun" /\ w[Len(r)] = "begun"
  BY <1>1 DEF Phase
<1>3. ASSUME NEW i \in 1 .. Len(r)
      PROVE  <<w[i - 1], r[i], w[i]>> \in FrameMoves
  <2>1. w[i - 1] = "begun" /\ w[i] = "begun"
    BY <1>1
  <2>2. "begun" \in Phase /\ <<"begun", r[i].event, "begun">> \in Moves
    BY DEF Phase, Moves, Inner
  <2> HIDE DEF w
  <2>3. QED BY <1>1, <2>1, <2>2, FrameMoved
<1> HIDE DEF w
<1>4. Path(Phase, FrameMoves, "begun", r, "begun")
  BY <1>2, <1>3 DEF Path
<1>5. QED BY <1>4, PathThrough DEF Leads

-----------------------------------------------------------------------------
(* The closures of the handlers. *)

EmitterType == [started : BOOLEAN, thinking : BOOLEAN, text : BOOLEAN, index : Nat,
                out : Seq(Frames)]

PhaseOf(e) == IF e.started THEN "begun" ELSE IF Streams THEN "idle" ELSE "unsaid"

\* What e has to send leads from the phase p to its own, and a part is only open in an
\* answer that has begun.
Sane(p, e) ==
  /\ e \in EmitterType /\ (e.thinking \/ e.text => e.started)
  /\ Leads(p, e.out, PhaseOf(e))

Begun(p, e) == Sane(p, e) /\ e.started

LEMMA EmitterFields ==
  ASSUME NEW e \in EmitterType
  PROVE  /\ e.started \in BOOLEAN /\ e.thinking \in BOOLEAN /\ e.text \in BOOLEAN
         /\ e.index \in Nat /\ e.out \in Seq(Frames)
BY DEF EmitterType

LEMMA EventFrame ==
  ASSUME NEW i \in Nat, NEW k \in Kinds,
         NEW v \in Inner \cup {"message_start", "message_delta", "message_stop", "error", "whole"}
  PROVE  Event(v, i, k) \in Frames /\ Event(v, i, k).event = v
BY DEF Event, Frames, Kinds, Inner

\* Sending an event.
LEMMA Sends ==
  ASSUME NEW p, NEW e \in EmitterType, NEW r, Leads(p, e.out, r),
         NEW f \in Frames, NEW s \in Phase, <<r, f.event, s>> \in Moves
  PROVE  /\ Send(e, f) \in EmitterType /\ Leads(p, Send(e, f).out, s)
         /\ Send(e, f).started = e.started /\ Send(e, f).index = e.index
         /\ Send(e, f).thinking = e.thinking /\ Send(e, f).text = e.text
<1>1. Append(e.out, f) \in Seq(Frames) /\ Leads(p, Append(e.out, f), s)
  BY EmitterFields, LeadsOn
<1>2. Send(e, f) = [e EXCEPT !.out = Append(e.out, f)]
  BY DEF Send
<1>3. Send(e, f).out = Append(e.out, f)
  BY <1>2 DEF EmitterType
<1>4. Send(e, f) \in EmitterType
  BY <1>1, <1>2 DEF EmitterType
<1>5. QED BY <1>1, <1>2, <1>3, <1>4 DEF EmitterType

LEMMA SendsInside ==
  ASSUME NEW p, NEW e, Begun(p, e), NEW f \in Frames, f.event \in Inner
  PROVE  Begun(p, Send(e, f)) /\ Send(e, f).index = e.index
         /\ Send(e, f).thinking = e.thinking /\ Send(e, f).text = e.text
<1>1. "begun" \in Phase /\ <<"begun", f.event, "begun">> \in Moves
  BY DEF Phase, Moves, Inner
<1>2. e \in EmitterType /\ Leads(p, e.out, "begun") /\ e.started
  BY DEF Begun, Sane, PhaseOf
<1>3. /\ Send(e, f) \in EmitterType /\ Leads(p, Send(e, f).out, "begun")
      /\ Send(e, f).started = e.started /\ Send(e, f).index = e.index
      /\ Send(e, f).thinking = e.thinking /\ Send(e, f).text = e.text
  BY <1>1, <1>2, Sends
<1>4. QED BY <1>2, <1>3 DEF Begun, Sane, PhaseOf

LEMMA HeadersSane ==
  ASSUME NEW p, NEW e, Sane(p, e), Streams
  PROVE  Begun(p, Headers(e)) /\ Headers(e).index = e.index
         /\ Headers(e).thinking = e.thinking /\ Headers(e).text = e.text
<1>1. CASE e.started
  BY <1>1 DEF Headers, Begun
<1>2. CASE ~e.started
  <2> DEFINE b == [e EXCEPT !.started = TRUE]
             f == Event("message_start", 0, "none")
  <2>1. e \in EmitterType /\ Leads(p, e.out, "idle")
    BY <1>2 DEF Sane, PhaseOf
  <2>2. /\ b \in EmitterType /\ b.started /\ b.out = e.out /\ b.index = e.index
        /\ b.thinking = e.thinking /\ b.text = e.text
    BY <2>1 DEF EmitterType
  <2>3. f \in Frames /\ f.event = "message_start"
    BY EventFrame DEF Kinds
  <2>4. "begun" \in Phase /\ <<"idle", f.event, "begun">> \in Moves
    BY <2>3 DEF Phase, Moves
  <2>5. Headers(e) = Send(b, f)
    BY <1>2 DEF Headers
  <2> HIDE DEF b, f
  <2>6. Leads(p, b.out, "idle")
    BY <2>1, <2>2
  <2>7. /\ Send(b, f) \in EmitterType /\ Leads(p, Send(b, f).out, "begun")
        /\ Send(b, f).started = b.started /\ Send(b, f).index = b.index
        /\ Send(b, f).thinking = b.thinking /\ Send(b, f).text = b.text
    BY <2>2, <2>3, <2>4, <2>6, Sends
  <2>8. Send(b, f).started
    BY <2>2, <2>7
  <2>9. QED BY <2>2, <2>5, <2>7, <2>8 DEF Begun, Sane, PhaseOf
<1>3. QED BY <1>1, <1>2

\* What is noted about open parts and their index is not sent.
LEMMA NotedSane ==
  ASSUME NEW p, NEW e, Begun(p, e), NEW b \in BOOLEAN
  PROVE  /\ Begun(p, [e EXCEPT !.thinking = b])
         /\ Begun(p, [e EXCEPT !.text = b])
BY DEF Begun, Sane, PhaseOf, EmitterType

LEMMA IndexSane ==
  ASSUME NEW p, NEW e, Begun(p, e), NEW i \in Nat
  PROVE  Begun(p, [e EXCEPT !.index = i])
BY DEF Begun, Sane, PhaseOf, EmitterType

LEMMA PartSane ==
  ASSUME NEW p, NEW e, Begun(p, e), NEW k \in Kinds
  PROVE  Begun(p, Start(e, k)) /\ Begun(p, Delta(e, k)) /\ Begun(p, Stop(e, k))
<1>1. e.index \in Nat
  BY EmitterFields DEF Begun, Sane
<1>2. ASSUME NEW v \in Inner
      PROVE  Begun(p, Send(e, Event(v, e.index, k))) /\ Send(e, Event(v, e.index, k)).index \in Nat
  <2>1. Event(v, e.index, k) \in Frames /\ Event(v, e.index, k).event \in Inner
    BY <1>1, EventFrame
  <2>2. QED BY <1>1, <2>1, SendsInside
<1>3. Begun(p, Start(e, k)) /\ Begun(p, Delta(e, k))
  BY <1>2 DEF Start, Delta, Inner
<1>4. Begun(p, Stop(e, k))
  <2> DEFINE s == Send(e, Event("stop", e.index, k))
  <2>1. Begun(p, s) /\ s.index + 1 \in Nat
    BY <1>2 DEF Inner
  <2>2. Stop(e, k) = [s EXCEPT !.index = s.index + 1]
    BY DEF Stop
  <2> HIDE DEF s
  <2>3. QED BY <2>1, <2>2, IndexSane
<1>5. QED BY <1>3, <1>4

\* Frames that come in one piece.
Added(e, i, q) == [e EXCEPT !.index = i, !.out = e.out \o q]

LEMMA AddedSane ==
  ASSUME NEW p, NEW e, Begun(p, e), NEW q \in Seq(Frames), NEW i \in Nat,
         \A n \in 1 .. Len(q) : q[n].event \in Inner
  PROVE  Begun(p, Added(e, i, q))
<1>1. e \in EmitterType /\ e.started /\ Leads(p, e.out, "begun") /\ e.out \in Seq(Frames)
  BY EmitterFields DEF Begun, Sane, PhaseOf
<1>2. e.out \o q \in Seq(Frames) /\ Leads(p, e.out \o q, "begun")
  BY <1>1, LeadsInside
<1>3. /\ Added(e, i, q) \in EmitterType /\ Added(e, i, q).started
      /\ Added(e, i, q).out = e.out \o q
  BY <1>1, <1>2 DEF Added, EmitterType
<1>4. QED BY <1>2, <1>3 DEF Begun, Sane, PhaseOf

LEMMA BlockSane ==
  ASSUME NEW p, NEW e, Sane(p, e), Streams, NEW k \in Kinds
  PROVE  Begun(p, Block(e, k))
<1> DEFINE h == Headers(e)
           q == <<Event("start", e.index, k), Event("delta", e.index, k), Event("stop", e.index, k)>>
<1>1. Begun(p, h) /\ h.index \in Nat /\ e.index \in Nat
  BY HeadersSane, EmitterFields DEF Sane
<1>2. /\ q[1] \in Frames /\ q[1].event \in Inner /\ q[2] \in Frames /\ q[2].event \in Inner
      /\ q[3] \in Frames /\ q[3].event \in Inner
  <2>1. \A v \in Inner : Event(v, e.index, k) \in Frames /\ Event(v, e.index, k).event \in Inner
    BY <1>1, EventFrame
  <2>2. QED BY <2>1 DEF Inner
<1>3. q \in Seq(Frames) /\ Len(q) = 3
  BY <1>2
<1>4. \A n \in 1 .. Len(q) : q[n].event \in Inner
  BY <1>2, <1>3
<1>5. Block(e, k) = Added(h, h.index + 1, q)
  BY DEF Block, Added
<1> HIDE DEF h, q
<1>6. h.index + 1 \in Nat
  BY <1>1
<1>7. QED BY <1>1, <1>3, <1>4, <1>5, <1>6, AddedSane

LEMMA SendBlocksSane ==
  ASSUME NEW p, NEW e, Sane(p, e), Streams, NEW n \in Nat
  PROVE  Sane(p, SendBlocks(e, n)) /\ (e.started => SendBlocks(e, n).started)
<1>1. CASE n = 0
  BY <1>1 DEF SendBlocks
<1>2. CASE n # 0
  <2> DEFINE h == Headers(e)
             event(i) == CASE i % 3 = 1 -> "start" [] i % 3 = 2 -> "delta" [] OTHER -> "stop"
             frame(i) == Event(event(i), h.index + (i - 1) \div 3, "thinking")
             q == [i \in 1 .. 3 * n |-> frame(i)]
  <2>1. Begun(p, h) /\ h.index \in Nat
    BY HeadersSane, EmitterFields DEF Sane
  <2>2. SendBlocks(e, n) = Added(h, h.index + n, q)
    BY <1>2 DEF SendBlocks, Added
  <2>3. 3 * n \in Nat /\ h.index + n \in Nat
    BY <2>1
  <2>4. ASSUME NEW i \in 1 .. 3 * n
        PROVE  frame(i) \in Frames /\ frame(i).event \in Inner
    <3>1. event(i) \in Inner
      BY DEF Inner
    <3>2. h.index + (i - 1) \div 3 \in Nat
      <4>1. i \in Nat /\ i >= 1
        BY <2>3
      <4>2. (i - 1) \div 3 \in Nat
        BY <4>1
      <4>3. QED BY <2>1, <4>2
    <3> HIDE DEF h, event
    <3>3. "thinking" \in Kinds
      BY DEF Kinds
    <3>4. QED BY <3>1, <3>2, <3>3, EventFrame
  <2> HIDE DEF h, frame
  <2>5. q \in Seq(Frames) /\ Len(q) = 3 * n
    <3>1. q \in [1 .. 3 * n -> Frames]
      BY <2>4
    <3>2. QED BY <2>3, <3>1
  <2>6. \A i \in 1 .. Len(q) : q[i].event \in Inner
    BY <2>4, <2>5
  <2> HIDE DEF q
  <2>7. Begun(p, SendBlocks(e, n))
    BY <2>1, <2>2, <2>3, <2>5, <2>6, AddedSane
  <2>8. QED BY <2>7 DEF Begun
<1>3. QED BY <1>1, <1>2

LEMMA WriteThinkingSane ==
  ASSUME NEW p, NEW e, Sane(p, e), Streams
  PROVE  Begun(p, WriteThinking(e))
<1> DEFINE h == Headers(e)
           o == IF h.thinking THEN h ELSE [Start(h, "thinking") EXCEPT !.thinking = TRUE]
<1>1. "thinking" \in Kinds /\ Begun(p, h)
  BY HeadersSane DEF Kinds
<1>2. Begun(p, o)
  <2>1. Begun(p, Start(h, "thinking"))
    BY <1>1, PartSane
  <2>2. Begun(p, [Start(h, "thinking") EXCEPT !.thinking = TRUE])
    BY <2>1, NotedSane
  <2>3. QED BY <1>1, <2>2
<1>3. WriteThinking(e) = Delta(o, "thinking")
  BY DEF WriteThinking
<1> HIDE DEF o
<1>4. QED BY <1>1, <1>2, <1>3, PartSane

LEMMA CloseSane ==
  ASSUME NEW p, NEW e, Sane(p, e)
  PROVE  /\ Sane(p, CloseThinking(e)) /\ CloseThinking(e).started = e.started
         /\ Sane(p, CloseText(e)) /\ CloseText(e).started = e.started
<1>1. "thinking" \in Kinds /\ "text" \in Kinds
  BY DEF Kinds
<1>2. ASSUME Begun(p, e), NEW k \in Kinds
      PROVE  Begun(p, [Stop(e, k) EXCEPT !.thinking = FALSE]) /\ Begun(p, [Stop(e, k) EXCEPT !.text = FALSE])
  <2>1. Begun(p, Stop(e, k))
    BY <1>2, PartSane
  <2>2. QED BY <2>1, NotedSane
<1>3. Sane(p, CloseThinking(e)) /\ CloseThinking(e).started = e.started
  <2>1. CASE e.thinking
    <3>1. Begun(p, e) /\ e.started = TRUE
      BY <2>1, EmitterFields DEF Begun, Sane
    <3>2. CloseThinking(e) = [Stop(e, "thinking") EXCEPT !.thinking = FALSE]
      BY <2>1 DEF CloseThinking
    <3>3. Begun(p, CloseThinking(e))
      BY <1>1, <1>2, <3>1, <3>2
    <3>4. CloseThinking(e).started = TRUE
      BY <3>3, EmitterFields DEF Begun, Sane
    <3>5. QED BY <3>1, <3>3, <3>4 DEF Begun
  <2>2. CASE ~e.thinking
    BY <2>2 DEF CloseThinking
  <2>3. QED BY <2>1, <2>2
<1>4. Sane(p, CloseText(e)) /\ CloseText(e).started = e.started
  <2>1. CASE e.text
    <3>1. Begun(p, e) /\ e.started = TRUE
      BY <2>1, EmitterFields DEF Begun, Sane
    <3>2. CloseText(e) = [Stop(e, "text") EXCEPT !.text = FALSE]
      BY <2>1 DEF CloseText
    <3>3. Begun(p, CloseText(e))
      BY <1>1, <1>2, <3>1, <3>2
    <3>4. CloseText(e).started = TRUE
      BY <3>3, EmitterFields DEF Begun, Sane
    <3>5. QED BY <3>1, <3>3, <3>4 DEF Begun
  <2>2. CASE ~e.text
    BY <2>2 DEF CloseText
  <2>3. QED BY <2>1, <2>2
<1>5. QED BY <1>3, <1>4

LEMMA WriteTextSane ==
  ASSUME NEW p, NEW e, Sane(p, e), Streams
  PROVE  Begun(p, WriteText(e))
<1> DEFINE h == IF ask \in {"tools", "required"} THEN CloseThinking(Headers(e)) ELSE Headers(e)
           o == IF h.text THEN h ELSE [Start(h, "text") EXCEPT !.text = TRUE]
<1>1. "text" \in Kinds
  BY DEF Kinds
<1>2. Begun(p, h)
  <2>1. Begun(p, Headers(e)) /\ Sane(p, Headers(e))
    BY HeadersSane DEF Begun
  <2>2. Begun(p, CloseThinking(Headers(e)))
    BY <2>1, CloseSane DEF Begun
  <2>3. QED BY <2>1, <2>2
<1> HIDE DEF h
<1>3. Begun(p, o)
  <2>1. Begun(p, Start(h, "text"))
    BY <1>1, <1>2, PartSane
  <2>2. Begun(p, [Start(h, "text") EXCEPT !.text = TRUE])
    BY <2>1, NotedSane
  <2>3. QED BY <1>2, <2>2
<1>4. WriteText(e) = Delta(o, "text")
  BY DEF WriteText, h
<1> HIDE DEF o
<1>5. QED BY <1>1, <1>3, <1>4, PartSane

LEMMA FinishedSane ==
  ASSUME NEW p, NEW e, Sane(p, e), Streams
  PROVE  Finished(e).out \in Seq(Frames) /\ Leads(p, Finished(e).out, "over")
<1> DEFINE h == Headers(e)
           d == Event("message_delta", 0, "none")
           s == Event("message_stop", 0, "none")
<1>1. h \in EmitterType /\ Leads(p, h.out, "begun")
  BY HeadersSane DEF Begun, Sane, PhaseOf
<1>2. d \in Frames /\ d.event = "message_delta" /\ s \in Frames /\ s.event = "message_stop"
  BY EventFrame DEF Kinds
<1>3. /\ "ending" \in Phase /\ <<"begun", d.event, "ending">> \in Moves
      /\ "over" \in Phase /\ <<"ending", s.event, "over">> \in Moves
  BY <1>2 DEF Phase, Moves
<1>4. Finished(e) = Send(Send(h, d), s)
  BY DEF Finished
<1> HIDE DEF h, d, s
<1>5. Send(h, d) \in EmitterType /\ Leads(p, Send(h, d).out, "ending")
  BY <1>1, <1>2, <1>3, Sends
<1>6. Send(Send(h, d), s) \in EmitterType /\ Leads(p, Send(Send(h, d), s).out, "over")
  BY <1>2, <1>3, <1>5, Sends
<1>7. QED BY <1>4, <1>6, EmitterFields

LEMMA InterruptedSane ==
  ASSUME NEW p, NEW e, Begun(p, e)
  PROVE  Interrupted(e).out \in Seq(Frames) /\ Leads(p, Interrupted(e).out, "over")
<1> DEFINE f == Event("error", 0, "none")
<1>1. e \in EmitterType /\ Leads(p, e.out, "begun")
  BY DEF Begun, Sane, PhaseOf
<1>2. f \in Frames /\ f.event = "error"
  BY EventFrame DEF Kinds
<1>3. "over" \in Phase /\ <<"begun", f.event, "over">> \in Moves
  BY <1>2 DEF Phase, Moves
<1>4. Interrupted(e) = Send(e, f)
  BY DEF Interrupted
<1> HIDE DEF f
<1>5. QED BY <1>1, <1>2, <1>3, <1>4, Sends, EmitterFields

-----------------------------------------------------------------------------
(* The invariant. *)

StreamType == [events : 0 .. MaxEvents, thinking : {"never", "open", "closed"},
               text : BOOLEAN, held : BOOLEAN, shape : {"undecided", "text", "protocol"},
               tool : BOOLEAN, blocks : Nat, thought : BOOLEAN, mixed : BOOLEAN]

TranscoderType == [over : BOOLEAN, begun : BOOLEAN, reasoning : BOOLEAN, message : BOOLEAN,
                   thinking : SUBSET Nat, tools : SUBSET Nat, ended : BOOLEAN]

Part == {"content", "tool", "reasoning", "message"} \X Nat

SeenType == [begun : Nat, ended : Nat, open : SUBSET Part, closed : SUBSET Part,
             late : BOOLEAN, torn : BOOLEAN]

Stages == {"idle", "reading", "answered", "searching"}

Types ==
  /\ client \in Clients /\ ask \in Asks
  /\ stage \in Stages \cup {"over"} /\ calls \in 0 .. MaxCalls
  /\ stream \in StreamType /\ emitter \in EmitterType /\ pending \in Seq(Frames)
  /\ channel \in Seq(Frames) /\ Len(channel) <= Cap
  /\ closed \in BOOLEAN /\ aborted \in BOOLEAN /\ status \in BOOLEAN /\ gone \in BOOLEAN
  /\ transcoder \in TranscoderType /\ seen \in SeenType

\* A handler has not begun the answer while it may try another account, or while it waits
\* for a tool that must be called, or sends one body; it has when it searches.
Fits(s, e) ==
  /\ s = "idle" => e.out = <<>> /\ ~e.started
  /\ s = "searching" => Streams /\ e.started
  /\ ask = "required" /\ s \in {"reading", "answered"} => ~e.started
  /\ ~Streams => ~e.started

Handlers ==
  /\ emitter.out = <<>> /\ (emitter.thinking \/ emitter.text => emitter.started)
  /\ stage # "over" => Fits(stage, emitter) /\ ~closed /\ ~status
  /\ stage = "idle" => pending = <<>>
  /\ stage = "over" => emitter = Silent
  /\ closed \/ status => pending = <<>>

Bridge ==
  /\ aborted <=> transcoder.over
  /\ OverBridge /\ gone => transcoder.over
  /\ ~OverBridge => channel = <<>> /\ ~transcoder.over

\* The phase the handler is in, what it is writing included.
Unsaid == IF Streams THEN "idle" ELSE "unsaid"
HandlerPhase == IF status THEN Unsaid ELSE IF stage = "over" THEN "over" ELSE PhaseOf(emitter)

\* The client has seen the end in phase c.  The Responses protocol ends with message_delta.
EndSeen(c) ==
  \/ c = "over" \/ (c = "ending" /\ client = "responses") \/ (status /\ ~OverBridge)

\* The client is in phase c.
ClientAt(c) ==
  /\ ~seen.late
  /\ c = "idle" => Streams
  /\ c = "unsaid" => ~Streams
  /\ seen.begun = (IF c \in {"idle", "unsaid"} THEN 0 ELSE 1)
  /\ seen.ended = (IF EndSeen(c) THEN 1 ELSE 0)
  /\ OverBridge => (transcoder.begun <=> c # "idle") /\ (transcoder.ended <=> EndSeen(c))

Live == ~gone /\ ~transcoder.over

Flow ==
  Live => \E c, m \in Phase :
            ClientAt(c) /\ Leads(c, channel, m) /\ Leads(m, pending, HandlerPhase)

Bounded ==
  /\ ~seen.late /\ seen.begun <= 1 /\ seen.ended <= 1
  /\ transcoder.over /\ ~gone => seen.ended = 1

Inv == Types /\ Handlers /\ Bridge /\ Flow /\ Bounded

LEMMA ClientBounded ==
  ASSUME NEW c, ClientAt(c)
  PROVE  ~seen.late /\ seen.begun <= 1 /\ seen.ended <= 1
BY DEF ClientAt

LEMMA SilentSane ==
  /\ Silent \in EmitterType /\ ~Silent.started /\ ~Silent.thinking /\ ~Silent.text
  /\ Silent.out = <<>> /\ Silent.index = 0 /\ [Silent EXCEPT !.out = <<>>] = Silent
<1>1. <<>> \in Seq(Frames)
  BY EmptySeq
<1>2. QED BY <1>1 DEF Silent, EmitterType

LEMMA NoStreamType ==
  /\ NoStream \in StreamType
  /\ \A b \in BOOLEAN : [NoStream EXCEPT !.mixed = b] \in StreamType
<1>1. NoStream \in StreamType
  BY AnswerAssumption DEF NoStream, StreamType
<1>2. \A x \in StreamType, b \in BOOLEAN : [x EXCEPT !.mixed = b] \in StreamType
  BY DEF StreamType
<1>3. QED BY <1>1, <1>2

LEMMA PhaseType == ASSUME NEW e PROVE PhaseOf(e) \in Phase
BY DEF PhaseOf, Phase

-----------------------------------------------------------------------------
(* The steps of a handler. *)

\* What all steps of a handler have in common: it was ready, and the rest stays.
Working ==
  /\ pending = <<>> /\ stage \in Stages
  /\ UNCHANGED <<client, ask, channel, closed, aborted, transcoder, status, gone, seen>>

LEMMA ReadyWorks ==
  ASSUME Inv, NEW h \in Stages, Ready(h), Rest
  PROVE  /\ Working /\ stage = h /\ Fits(h, emitter) /\ ~closed /\ ~status
         /\ Sane(PhaseOf(emitter), emitter) /\ emitter \in EmitterType /\ stream \in StreamType
         /\ PhaseOf(emitter) \in Phase
<1>1. Working /\ stage = h
  BY DEF Ready, Rest, Working, bridge
<1>2. Fits(h, emitter) /\ ~closed /\ ~status
  BY <1>1 DEF Inv, Handlers, Stages
<1>3. Leads(PhaseOf(emitter), <<>>, PhaseOf(emitter)) /\ PhaseOf(emitter) \in Phase
  BY PhaseType, LeadsNowhere
<1>4. QED BY <1>1, <1>2, <1>3 DEF Inv, Types, Handlers, Sane

LEMMA HandlerFlow ==
  ASSUME Inv, Working, Leads(PhaseOf(emitter), pending', HandlerPhase')
  PROVE  Bridge' /\ Flow' /\ Bounded'
<1>1. /\ client' = client /\ channel' = channel /\ aborted' = aborted /\ gone' = gone
      /\ transcoder' = transcoder /\ status' = status /\ seen' = seen
  BY DEF Working
<1>2. Bridge' /\ Bounded'
  BY <1>1 DEF Inv, Bridge, Bounded, OverBridge
<1>3. ASSUME Live'
      PROVE  \E c, m \in Phase : /\ ClientAt(c)' /\ Leads(c, channel', m)
                                 /\ Leads(m, pending', HandlerPhase')
  <2>1. Live
    BY <1>1, <1>3 DEF Live
  <2>2. PICK c \in Phase, m \in Phase :
          ClientAt(c) /\ Leads(c, channel, m) /\ Leads(m, pending, HandlerPhase)
    BY <2>1 DEF Inv, Flow
  <2>3. HandlerPhase = PhaseOf(emitter)
    BY DEF HandlerPhase, Working, Inv, Handlers, Stages
  <2>4. m = PhaseOf(emitter)
    BY <2>2, <2>3, LeadsNowhere DEF Working
  <2>5. ClientAt(c)'
    BY <1>1, <2>2 DEF ClientAt, EndSeen, OverBridge, Streams
  <2>6. QED BY <1>1, <2>2, <2>4, <2>5
<1>4. QED BY <1>2, <1>3 DEF Flow

\* The handler sends what e holds and goes on, or tries another account.
Goes(s, e) ==
  /\ Sane(PhaseOf(emitter), e) /\ Fits(s, e)
  /\ s \in Stages /\ stage' = s /\ Emit(e)
  /\ stream' \in StreamType /\ calls' \in 0 .. MaxCalls

LEMMA GoesInv ==
  ASSUME Inv, Working, ~closed, ~status, NEW s, NEW e, Goes(s, e)
  PROVE  Inv'
<1>1. /\ e \in EmitterType /\ e.out \in Seq(Frames) /\ emitter' = [e EXCEPT !.out = <<>>]
      /\ pending' = e.out /\ stage' = s /\ s \in Stages
  BY EmitterFields DEF Goes, Sane, Emit
<1>2. /\ emitter' \in EmitterType /\ emitter'.out = <<>> /\ emitter'.started = e.started
      /\ emitter'.thinking = e.thinking /\ emitter'.text = e.text
  <2>1. <<>> \in Seq(Frames)
    BY EmptySeq
  <2>2. QED BY <1>1, <2>1 DEF EmitterType
<1>3. /\ client' = client /\ ask' = ask /\ channel' = channel /\ closed' = closed
      /\ aborted' = aborted /\ transcoder' = transcoder /\ status' = status /\ gone' = gone
      /\ seen' = seen
  BY DEF Working
<1>4. Types'
  BY <1>1, <1>2, <1>3 DEF Inv, Types, Goes
<1>5. Fits(stage, emitter)'
  BY <1>1, <1>2, <1>3 DEF Goes, Fits, Streams
<1>6. Handlers'
  <2>1. emitter'.thinking \/ emitter'.text => emitter'.started
    BY <1>2 DEF Goes, Sane
  <2>2. stage' # "over" /\ ~closed' /\ ~status'
    BY <1>1, <1>3 DEF Stages
  <2>3. stage' = "idle" => pending' = <<>>
    BY <1>1 DEF Goes, Fits
  <2>4. QED BY <1>2, <1>5, <2>1, <2>2, <2>3 DEF Handlers
<1>7. HandlerPhase' = PhaseOf(e)
  BY <1>1, <1>2, <1>3 DEF HandlerPhase, PhaseOf, Streams, Stages
<1>8. Leads(PhaseOf(emitter), pending', HandlerPhase')
  BY <1>1, <1>7 DEF Goes, Sane
<1>9. QED BY <1>4, <1>6, <1>8, HandlerFlow DEF Inv

\* The handler sends what e holds, and the answer is over.
LEMMA OverInv ==
  ASSUME Inv, Working, ~closed, ~status, NEW e, NEW mixed \in BOOLEAN, Over(e, mixed),
         UNCHANGED calls, e.out \in Seq(Frames), Leads(PhaseOf(emitter), e.out, "over")
  PROVE  Inv'
<1>1. /\ stage' = "over" /\ pending' = e.out /\ emitter' = Silent
      /\ stream' = [NoStream EXCEPT !.mixed = mixed]
  BY DEF Over
<1>2. /\ client' = client /\ ask' = ask /\ channel' = channel /\ closed' = closed
      /\ aborted' = aborted /\ transcoder' = transcoder /\ status' = status /\ gone' = gone
      /\ seen' = seen /\ calls' = calls
  BY DEF Working
<1>3. stream' \in StreamType
  BY <1>1, NoStreamType
<1>4. Types'
  BY <1>1, <1>2, <1>3, SilentSane DEF Inv, Types
<1>5. Handlers'
  BY <1>1, <1>2, SilentSane DEF Handlers
<1>6. HandlerPhase' = "over"
  BY <1>1, <1>2 DEF HandlerPhase
<1>7. QED BY <1>1, <1>4, <1>5, <1>6, HandlerFlow DEF Inv

\* The handler sends nothing.
LEMMA QuietInv ==
  ASSUME Inv, Working, ~closed, ~status, Sane(PhaseOf(emitter), emitter), Quiet,
         NEW s \in Stages, stage' = s, Fits(s, emitter),
         stream' \in StreamType, calls' \in 0 .. MaxCalls
  PROVE  Inv'
<1>1. emitter.out = <<>> /\ pending = <<>> /\ emitter \in EmitterType
  BY DEF Inv, Types, Handlers, Working
<1>2. [emitter EXCEPT !.out = <<>>] = emitter
  BY <1>1 DEF EmitterType
<1>3. Emit(emitter)
  BY <1>1, <1>2 DEF Emit, Quiet
<1>4. QED BY <1>3, GoesInv DEF Goes

-----------------------------------------------------------------------------
(* The actions of the handler, one by one. *)

LEMMA StreamFields ==
  ASSUME NEW x \in StreamType
  PROVE  /\ x.events \in 0 .. MaxEvents /\ x.thinking \in {"never", "open", "closed"}
         /\ x.text \in BOOLEAN /\ x.held \in BOOLEAN
         /\ x.shape \in {"undecided", "text", "protocol"} /\ x.tool \in BOOLEAN
         /\ x.blocks \in Nat /\ x.thought \in BOOLEAN /\ x.mixed \in BOOLEAN
BY DEF StreamType

\* Another account is tried, unless the answer has begun.
LEMMA RetryInv ==
  ASSUME Inv, NEW h \in Stages, Ready(h), Rest, Retry, UNCHANGED calls, ~emitter.started
  PROVE  Inv'
<1>1. /\ Working /\ ~closed /\ ~status /\ Sane(PhaseOf(emitter), emitter)
  BY ReadyWorks
<1>2. Quiet /\ stage' = "idle" /\ stream' \in StreamType /\ calls' \in 0 .. MaxCalls
  BY NoStreamType DEF Retry, Inv, Types
<1>3. Fits("idle", emitter)
  BY DEF Fits, Inv, Handlers
<1>4. "idle" \in Stages
  BY DEF Stages
<1>5. QED BY <1>1, <1>2, <1>3, <1>4, QuietInv

LEMMA FailsInv ==
  ASSUME Inv, NEW h \in Stages, Ready(h), Rest, Fails, UNCHANGED calls
  PROVE  Inv'
<1>1. CASE emitter.started
  <2>1. /\ Working /\ ~closed /\ ~status /\ Sane(PhaseOf(emitter), emitter)
        /\ stream.mixed \in BOOLEAN
    BY ReadyWorks, StreamFields
  <2>2. Begun(PhaseOf(emitter), emitter)
    BY <1>1, <2>1 DEF Begun
  <2>3. /\ Interrupted(emitter).out \in Seq(Frames)
        /\ Leads(PhaseOf(emitter), Interrupted(emitter).out, "over")
    BY <2>2, InterruptedSane
  <2>4. Over(Interrupted(emitter), stream.mixed)
    BY <1>1 DEF Fails
  <2>5. QED BY <2>1, <2>3, <2>4, OverInv
<1>2. CASE ~emitter.started
  BY <1>2, RetryInv DEF Fails
<1>3. QED BY <1>1, <1>2

LEMMA CallInv ==
  ASSUME Inv, Call
  PROVE  Inv'
<1>1. "idle" \in Stages /\ "reading" \in Stages /\ Ready("idle") /\ Rest
  BY DEF Stages, Call
<1>2. /\ Working /\ ~closed /\ ~status /\ Fits("idle", emitter)
  BY <1>1, ReadyWorks
<1>3. /\ stage' = "reading" /\ calls' = calls + 1 /\ calls < MaxCalls /\ stream' = NoStream
      /\ emitter' = Silent /\ pending' = pending
  BY DEF Call
<1>4. PhaseOf(emitter) = PhaseOf(Silent)
  BY <1>2, SilentSane DEF PhaseOf, Fits
<1>5. Sane(PhaseOf(emitter), Silent)
  BY <1>4, SilentSane, LeadsNowhere, PhaseType DEF Sane
<1>6. Fits("reading", Silent)
  BY SilentSane DEF Fits
<1>7. Emit(Silent)
  BY <1>2, <1>3, SilentSane DEF Emit, Working
<1>8. stream' \in StreamType /\ calls' \in 0 .. MaxCalls
  BY <1>3, NoStreamType, AnswerAssumption DEF Inv, Types
<1>9. Goes("reading", Silent)
  BY <1>1, <1>3, <1>5, <1>6, <1>7, <1>8 DEF Goes
<1>10. QED BY <1>2, <1>9, GoesInv

\* What the parser notes about a thought.
LEMMA ThoughtType ==
  ASSUME Inv, Thought, More
  PROVE  stream' \in StreamType
<1>1. stream \in StreamType /\ emitter.text \in BOOLEAN
  BY EmitterFields DEF Inv, Types
<1>2. stream.events + 1 \in 0 .. MaxEvents
  BY <1>1, StreamFields, AnswerAssumption DEF More
<1>3. QED BY <1>1, <1>2 DEF Thought, StreamType

LEMMA ThinkInv ==
  ASSUME Inv, Ready("reading"), More, Thought, UNCHANGED <<stage, calls>>, Rest,
         IF Streams /\ ask # "required" THEN Emit(WriteThinking(emitter)) ELSE Quiet
  PROVE  Inv'
<1>1. "reading" \in Stages
  BY DEF Stages
<1>2. /\ Working /\ stage = "reading" /\ Fits("reading", emitter) /\ ~closed /\ ~status
      /\ Sane(PhaseOf(emitter), emitter)
  BY <1>1, ReadyWorks
<1>3. stage' = "reading" /\ stream' \in StreamType /\ calls' \in 0 .. MaxCalls
  BY <1>2, ThoughtType DEF Inv, Types
<1>4. CASE Streams /\ ask # "required"
  <2> DEFINE e == WriteThinking(emitter)
  <2>1. Sane(PhaseOf(emitter), e)
    BY <1>2, <1>4, WriteThinkingSane DEF Begun
  <2>2. Fits("reading", e)
    BY <1>4 DEF Fits
  <2>3. Goes("reading", e)
    BY <1>1, <1>3, <1>4, <2>1, <2>2 DEF Goes
  <2>4. QED BY <1>2, <2>3, GoesInv
<1>5. CASE ~(Streams /\ ask # "required")
  BY <1>1, <1>2, <1>3, <1>5, QuietInv
<1>6. QED BY <1>4, <1>5

LEMMA ThinkingClosedSane ==
  ASSUME NEW p, NEW e, Sane(p, e)
  PROVE  Sane(p, ThinkingClosed(e)) /\ ThinkingClosed(e).started = e.started
BY CloseSane DEF ThinkingClosed

LEMMA ThinkingStateType ==
  ASSUME stream \in StreamType
  PROVE  ThinkingState \in {"never", "open", "closed"}
BY StreamFields DEF ThinkingState

LEMMA TextInv ==
  ASSUME Inv, Text
  PROVE  Inv'
<1>1. "reading" \in Stages /\ Ready("reading") /\ Rest /\ More /\ UNCHANGED <<stage, calls>>
  BY DEF Stages, Text
<1>2. /\ Working /\ stage = "reading" /\ Fits("reading", emitter) /\ ~closed /\ ~status
      /\ Sane(PhaseOf(emitter), emitter) /\ stream \in StreamType
  BY <1>1, ReadyWorks
<1> DEFINE t == ThinkingClosed(emitter)
<1>3. PICK held \in BOOLEAN, shape \in {"undecided", "text", "protocol"} :
        /\ HeldBack(held, shape)
        /\ stream' = [stream EXCEPT !.events = @ + 1, !.text = TRUE, !.held = held,
                                    !.shape = shape, !.thinking = ThinkingState]
        /\ IF Streams THEN Emit(IF held \/ shape = "protocol" THEN t ELSE WriteText(t)) ELSE Quiet
  BY DEF Text
<1>4. stage' = "reading" /\ calls' \in 0 .. MaxCalls
  BY <1>1, <1>2 DEF Inv, Types
<1>5. stream' \in StreamType
  <2>1. stream.events + 1 \in 0 .. MaxEvents
    BY <1>1, <1>2, StreamFields, AnswerAssumption DEF More
  <2>2. ThinkingState \in {"never", "open", "closed"}
    BY <1>2, ThinkingStateType
  <2>3. QED BY <1>2, <1>3, <2>1, <2>2 DEF StreamType
<1>6. CASE Streams
  <2> DEFINE e == IF held \/ shape = "protocol" THEN t ELSE WriteText(t)
  <2>1. Sane(PhaseOf(emitter), t) /\ t.started = emitter.started
    BY <1>2, ThinkingClosedSane
  <2>2. Sane(PhaseOf(emitter), WriteText(t))
    BY <1>6, <2>1, WriteTextSane DEF Begun
  <2> HIDE DEF t
  <2>3. Sane(PhaseOf(emitter), e)
    BY <2>1, <2>2
  <2>4. ask = "required" => held /\ shape = "protocol"
    BY <1>3 DEF HeldBack
  <2>5. ask = "required" => e = t
    BY <2>4
  <2>6. Fits("reading", e)
    BY <1>2, <1>6, <2>1, <2>5 DEF Fits
  <2>7. Emit(e)
    BY <1>3, <1>6
  <2> HIDE DEF e
  <2>8. Goes("reading", e)
    BY <1>1, <1>4, <1>5, <2>3, <2>6, <2>7 DEF Goes
  <2>9. QED BY <1>2, <2>8, GoesInv
<1>7. CASE ~Streams
  BY <1>1, <1>2, <1>3, <1>4, <1>5, <1>7, QuietInv
<1>8. QED BY <1>6, <1>7

LEMMA NativeToolInv ==
  ASSUME Inv, NativeTool
  PROVE  Inv'
<1>1. "reading" \in Stages /\ Ready("reading") /\ Rest
  BY DEF Stages, NativeTool
<1>2. /\ Working /\ stage = "reading" /\ Fits("reading", emitter) /\ ~closed /\ ~status
      /\ Sane(PhaseOf(emitter), emitter) /\ stream \in StreamType
  BY <1>1, ReadyWorks
<1>3. Quiet /\ stage' = "reading" /\ stream' \in StreamType /\ calls' \in 0 .. MaxCalls
  BY <1>2 DEF NativeTool, StreamType, Inv, Types
<1>4. QED BY <1>1, <1>2, <1>3, QuietInv

LEMMA AnsweredInv ==
  ASSUME Inv, Ready("reading"), Answered
  PROVE  Inv'
<1>1. "reading" \in Stages /\ "answered" \in Stages /\ Rest
  BY DEF Stages, Answered
<1>2. /\ Working /\ stage = "reading" /\ Fits("reading", emitter) /\ ~closed /\ ~status
      /\ Sane(PhaseOf(emitter), emitter) /\ stream \in StreamType
  BY <1>1, ReadyWorks
<1>3. stage' = "answered" /\ stream' \in StreamType /\ calls' \in 0 .. MaxCalls
  <2>1. ThinkingState \in {"never", "open", "closed"}
    BY <1>2, ThinkingStateType
  <2>2. QED BY <1>2, <2>1 DEF Answered, StreamType, Inv, Types
<1>4. CASE Streams
  <2> DEFINE e == ThinkingClosed(emitter)
  <2>1. Sane(PhaseOf(emitter), e) /\ e.started = emitter.started
    BY <1>2, ThinkingClosedSane
  <2>2. Emit(e)
    BY <1>4 DEF Answered
  <2> HIDE DEF e
  <2>3. Fits("answered", e)
    BY <1>2, <1>4, <2>1 DEF Fits
  <2>4. Goes("answered", e)
    BY <1>1, <1>3, <2>1, <2>2, <2>3 DEF Goes
  <2>5. QED BY <1>2, <2>4, GoesInv
<1>5. CASE ~Streams
  <2>1. Fits("answered", emitter)
    BY <1>2 DEF Fits
  <2>2. Quiet
    BY <1>5 DEF Answered
  <2>3. QED BY <1>1, <1>2, <1>3, <2>1, <2>2, QuietInv
<1>6. QED BY <1>4, <1>5

LEMMA CallFailsInv ==
  ASSUME Inv, CallFails \/ AnswerEmpty
  PROVE  Inv'
<1>1. "reading" \in Stages /\ "answered" \in Stages
  BY DEF Stages
<1>2. CASE CallFails
  BY <1>1, <1>2, FailsInv DEF CallFails
<1>3. CASE AnswerEmpty
  BY <1>1, <1>3, FailsInv DEF AnswerEmpty
<1>4. QED BY <1>2, <1>3

\* The end of an answer that is streamed.
LEMMA EndsInv ==
  ASSUME Inv, Working, ~closed, ~status, NEW e, Sane(PhaseOf(emitter), e), Streams,
         NEW mixed \in BOOLEAN, Over(Finished(e), mixed), UNCHANGED calls
  PROVE  Inv'
<1>1. /\ Finished(e).out \in Seq(Frames)
      /\ Leads(PhaseOf(emitter), Finished(e).out, "over")
  BY FinishedSane
<1>2. QED BY <1>1, OverInv

LEMMA WithHeldSane ==
  ASSUME NEW p, NEW e, Sane(p, e), Streams
  PROVE  Sane(p, WithHeld(e)) /\ (e.started => WithHeld(e).started)
BY WriteTextSane DEF WithHeld, Begun

LEMMA AnswerTextInv ==
  ASSUME Inv, AnswerText
  PROVE  Inv'
<1>1. "answered" \in Stages /\ Ready("answered") /\ Rest /\ Streams /\ UNCHANGED calls
  BY DEF Stages, AnswerText
<1>2. /\ Working /\ ~closed /\ ~status /\ Sane(PhaseOf(emitter), emitter)
      /\ stream.mixed \in BOOLEAN
  BY <1>1, ReadyWorks, StreamFields
<1> DEFINE c == CloseText(WithHeld(CloseThinking(emitter)))
<1>3. Sane(PhaseOf(emitter), c)
  <2>1. Sane(PhaseOf(emitter), CloseThinking(emitter))
    BY <1>2, CloseSane
  <2>2. Sane(PhaseOf(emitter), WithHeld(CloseThinking(emitter)))
    BY <1>1, <2>1, WithHeldSane
  <2>3. QED BY <2>2, CloseSane
<1>4. PICK sources \in BOOLEAN : Ends(IF sources THEN Block(c, "text") ELSE c)
  BY DEF AnswerText
<1> HIDE DEF c
<1> DEFINE e == IF sources THEN Block(c, "text") ELSE c
<1>5. Sane(PhaseOf(emitter), e)
  <2>1. "text" \in Kinds
    BY DEF Kinds
  <2>2. Sane(PhaseOf(emitter), Block(c, "text"))
    BY <1>1, <1>3, <2>1, BlockSane DEF Begun
  <2>3. QED BY <1>3, <2>2
<1>6. Over(Finished(e), stream.mixed)
  BY <1>4 DEF Ends
<1> HIDE DEF e
<1>7. QED BY <1>1, <1>2, <1>5, <1>6, EndsInv

LEMMA AnswerResearchInv ==
  ASSUME Inv, AnswerResearch
  PROVE  Inv'
<1>1. "answered" \in Stages /\ Ready("answered") /\ Rest /\ Streams /\ UNCHANGED calls
  BY DEF Stages, AnswerResearch
<1>2. /\ Working /\ ~closed /\ ~status /\ Sane(PhaseOf(emitter), emitter)
      /\ stream.mixed \in BOOLEAN
  BY <1>1, ReadyWorks, StreamFields
<1>3. Sane(PhaseOf(emitter), CloseText(WithHeld(emitter)))
  BY <1>1, <1>2, WithHeldSane, CloseSane
<1>4. Over(Finished(CloseText(WithHeld(emitter))), stream.mixed)
  BY DEF AnswerResearch, Ends
<1>5. QED BY <1>1, <1>2, <1>3, <1>4, EndsInv

LEMMA AnswerToolsInv ==
  ASSUME Inv, AnswerTools
  PROVE  Inv'
<1>1. /\ "answered" \in Stages /\ "searching" \in Stages /\ Ready("answered") /\ Rest /\ Streams
      /\ UNCHANGED calls
  BY DEF Stages, AnswerTools
<1>2. /\ Working /\ ~closed /\ ~status /\ Sane(PhaseOf(emitter), emitter)
      /\ stream \in StreamType /\ stream.mixed \in BOOLEAN /\ stage = "answered"
      /\ Fits("answered", emitter)
  BY <1>1, ReadyWorks, StreamFields
<1> DEFINE protocol == stream.shape = "protocol"
           f == IF stream.held /\ ~protocol THEN WriteText(emitter) ELSE emitter
           d == CloseThinking(f)
           c(last) == CloseText(IF protocol /\ last THEN WriteText(d) ELSE d)
           t(last) == IF ask = "required" /\ stream.thought THEN Block(c(last), "thinking") ELSE c(last)
<1>3. PICK found \in Prepared :
        LET last == found.done \/ ~(found.hasCalls \/ found.search)
        IN \/ ask = "required" /\ Retry
           \/ /\ Emit(Headers(t(last))) /\ stage' = "searching"
              /\ stream' = [stream EXCEPT !.events = 0, !.text = FALSE, !.held = FALSE,
                                          !.tool = found.hasCalls,
                                          !.thinking = IF stream.thought THEN "closed" ELSE "never"]
           \/ Ends(IF found.hasCalls THEN Block(t(last), "tool") ELSE t(last))
  BY DEF AnswerTools
<1> DEFINE last == found.done \/ ~(found.hasCalls \/ found.search)
           u == t(last)
<1>4. Sane(PhaseOf(emitter), u)
  <2>1. Sane(PhaseOf(emitter), f)
    BY <1>1, <1>2, WriteTextSane DEF Begun
  <2> HIDE DEF f
  <2>2. Sane(PhaseOf(emitter), d)
    BY <2>1, CloseSane
  <2> HIDE DEF d
  <2>3. Sane(PhaseOf(emitter), WriteText(d))
    BY <1>1, <2>2, WriteTextSane DEF Begun
  <2>4. Sane(PhaseOf(emitter), IF protocol /\ last THEN WriteText(d) ELSE d)
    BY <2>2, <2>3
  <2>5. Sane(PhaseOf(emitter), c(last))
    BY <2>4, CloseSane
  <2> HIDE DEF c
  <2>6. "thinking" \in Kinds
    BY DEF Kinds
  <2>7. Sane(PhaseOf(emitter), Block(c(last), "thinking"))
    BY <1>1, <2>5, <2>6, BlockSane DEF Begun
  <2>8. QED BY <2>5, <2>7
<1>5. \/ ask = "required" /\ Retry
      \/ /\ Emit(Headers(u)) /\ stage' = "searching"
         /\ stream' = [stream EXCEPT !.events = 0, !.text = FALSE, !.held = FALSE,
                                     !.tool = found.hasCalls,
                                     !.thinking = IF stream.thought THEN "closed" ELSE "never"]
      \/ Ends(IF found.hasCalls THEN Block(u, "tool") ELSE u)
  BY <1>3
<1> HIDE DEF u
<1>6. CASE ask = "required" /\ Retry
  <2>1. ~emitter.started
    BY <1>2, <1>6 DEF Fits
  <2>2. QED BY <1>1, <1>6, <2>1, RetryInv
<1>7. CASE /\ Emit(Headers(u)) /\ stage' = "searching"
           /\ stream' = [stream EXCEPT !.events = 0, !.text = FALSE, !.held = FALSE,
                                       !.tool = found.hasCalls,
                                       !.thinking = IF stream.thought THEN "closed" ELSE "never"]
  <2>1. Sane(PhaseOf(emitter), Headers(u)) /\ Headers(u).started
    BY <1>1, <1>4, HeadersSane DEF Begun
  <2>2. Fits("searching", Headers(u))
    BY <1>1, <2>1 DEF Fits
  <2>3. stream' \in StreamType
    <3>1. 0 \in 0 .. MaxEvents /\ found.hasCalls \in BOOLEAN
      BY AnswerAssumption DEF Prepared
    <3>2. QED BY <1>2, <1>7, <3>1 DEF StreamType
  <2>4. calls' \in 0 .. MaxCalls
    BY <1>1 DEF Inv, Types
  <2>5. Goes("searching", Headers(u))
    BY <1>1, <1>7, <2>1, <2>2, <2>3, <2>4 DEF Goes
  <2>6. QED BY <1>2, <2>5, GoesInv
<1>8. CASE Ends(IF found.hasCalls THEN Block(u, "tool") ELSE u)
  <2> DEFINE e == IF found.hasCalls THEN Block(u, "tool") ELSE u
  <2>1. Sane(PhaseOf(emitter), e)
    <3>1. "tool" \in Kinds
      BY DEF Kinds
    <3>2. Sane(PhaseOf(emitter), Block(u, "tool"))
      BY <1>1, <1>4, <3>1, BlockSane DEF Begun
    <3>3. QED BY <1>4, <3>2
  <2>2. Over(Finished(e), stream.mixed)
    BY <1>8 DEF Ends
  <2> HIDE DEF e
  <2>3. QED BY <1>1, <1>2, <2>1, <2>2, EndsInv
<1>9. QED BY <1>5, <1>6, <1>7, <1>8

\* An answer that is one body.
LEMMA BodyInv ==
  ASSUME Inv, Working, ~closed, ~status, Sane(PhaseOf(emitter), emitter), ~Streams,
         Fits(stage, emitter), Body, UNCHANGED calls
  PROVE  Inv'
<1> DEFINE f == Event("whole", 0, "none")
<1>1. emitter \in EmitterType /\ PhaseOf(emitter) = "unsaid" /\ Leads("unsaid", emitter.out, "unsaid")
  BY DEF Sane, Fits, PhaseOf
<1>2. f \in Frames /\ f.event = "whole"
  BY EventFrame DEF Kinds
<1>3. "over" \in Phase /\ <<"unsaid", f.event, "over">> \in Moves
  BY <1>2 DEF Phase, Moves
<1>4. Over(Send(emitter, f), FALSE)
  BY DEF Body
<1> HIDE DEF f
<1>5. Send(emitter, f) \in EmitterType /\ Leads("unsaid", Send(emitter, f).out, "over")
  BY <1>1, <1>2, <1>3, Sends
<1>6. Send(emitter, f).out \in Seq(Frames)
  BY <1>5, EmitterFields
<1>7. QED BY <1>1, <1>4, <1>5, <1>6, OverInv

LEMMA WholeInv ==
  ASSUME Inv, AnswerWhole \/ ResearchWhole
  PROVE  Inv'
<1>1. /\ "answered" \in Stages /\ Ready("answered") /\ Rest /\ ~Streams /\ UNCHANGED calls
  BY DEF Stages, AnswerWhole, ResearchWhole
<1>2. /\ Working /\ ~closed /\ ~status /\ Sane(PhaseOf(emitter), emitter) /\ stage = "answered"
      /\ Fits("answered", emitter)
  BY <1>1, ReadyWorks
<1>3. Retry \/ Body
  BY DEF AnswerWhole, ResearchWhole
<1>4. CASE Retry
  <2>1. ~emitter.started
    BY <1>1, <1>2 DEF Fits
  <2>2. QED BY <1>1, <1>4, <2>1, RetryInv
<1>5. CASE Body
  BY <1>1, <1>2, <1>5, BodyInv
<1>6. QED BY <1>3, <1>4, <1>5

LEMMA SearchStepEndsInv ==
  ASSUME Inv, SearchStepEnds
  PROVE  Inv'
<1>1. "searching" \in Stages /\ Ready("searching") /\ Rest /\ More /\ Quiet /\ UNCHANGED <<stage, calls>>
  BY DEF Stages, SearchStepEnds
<1>2. /\ Working /\ stage = "searching" /\ Fits("searching", emitter) /\ ~closed /\ ~status
      /\ Sane(PhaseOf(emitter), emitter) /\ stream \in StreamType
  BY <1>1, ReadyWorks
<1>3. stream' \in StreamType
  <2>1. stream.events + 1 \in 0 .. MaxEvents /\ stream.blocks + 1 \in Nat
    BY <1>1, <1>2, StreamFields, AnswerAssumption DEF More
  <2>2. QED BY <1>2, <2>1 DEF SearchStepEnds, StreamType
<1>4. stage' = "searching" /\ calls' \in 0 .. MaxCalls
  BY <1>1, <1>2 DEF Inv, Types
<1>5. QED BY <1>1, <1>2, <1>3, <1>4, QuietInv

LEMMA AfterBlocksType ==
  ASSUME stream \in StreamType, emitter \in EmitterType
  PROVE  AfterBlocks \in StreamType /\ AfterBlocks.mixed \in BOOLEAN /\ AfterBlocks.text = stream.text
         /\ AfterBlocks.events = stream.events
<1>1. /\ (IF stream.blocks > 0 THEN "closed" ELSE stream.thinking) \in {"never", "open", "closed"}
      /\ (\/ stream.mixed \/ (stream.blocks > 0 /\ emitter.text)
          \/ (client = "responses" /\ SecondReasoning)) \in BOOLEAN
  BY StreamFields
<1>2. QED BY <1>1 DEF AfterBlocks, StreamType

LEMMA SearchTextInv ==
  ASSUME Inv, SearchText
  PROVE  Inv'
<1>1. "searching" \in Stages /\ Ready("searching") /\ Rest /\ More /\ UNCHANGED <<stage, calls>>
  BY DEF Stages, SearchText
<1>2. /\ Working /\ stage = "searching" /\ Fits("searching", emitter) /\ ~closed /\ ~status
      /\ Sane(PhaseOf(emitter), emitter) /\ stream \in StreamType /\ emitter \in EmitterType
      /\ Streams /\ emitter.started /\ stream.blocks \in Nat
  BY <1>1, ReadyWorks, StreamFields DEF Fits
<1> DEFINE b == SendBlocks(emitter, stream.blocks)
<1>3. PICK held \in BOOLEAN :
        /\ Emit(IF held THEN b ELSE WriteText(b))
        /\ stream' = [AfterBlocks EXCEPT !.events = @ + 1, !.held = held, !.text = @ \/ ~held]
  BY DEF SearchText
<1>4. Sane(PhaseOf(emitter), b) /\ b.started
  BY <1>2, SendBlocksSane
<1> HIDE DEF b
<1> DEFINE e == IF held THEN b ELSE WriteText(b)
<1>5. Sane(PhaseOf(emitter), e) /\ e.started
  BY <1>2, <1>4, WriteTextSane DEF Begun
<1>6. Emit(e)
  BY <1>3
<1> HIDE DEF e
<1>7. stream' \in StreamType
  <2>1. /\ AfterBlocks \in StreamType /\ AfterBlocks.events + 1 \in 0 .. MaxEvents
        /\ (AfterBlocks.text \/ ~held) \in BOOLEAN
    BY <1>1, <1>2, AfterBlocksType, StreamFields, AnswerAssumption DEF More
  <2>2. QED BY <1>3, <2>1 DEF StreamType
<1>8. Fits("searching", e)
  BY <1>2, <1>5 DEF Fits
<1>9. stage' = "searching" /\ calls' \in 0 .. MaxCalls
  BY <1>1, <1>2 DEF Inv, Types
<1>10. Goes("searching", e)
  BY <1>1, <1>5, <1>6, <1>7, <1>8, <1>9 DEF Goes
<1>11. QED BY <1>2, <1>10, GoesInv

LEMMA SearchEndsInv ==
  ASSUME Inv, SearchEnds
  PROVE  Inv'
<1>1. "searching" \in Stages /\ Ready("searching") /\ Rest /\ UNCHANGED calls
  BY DEF Stages, SearchEnds
<1>2. /\ Working /\ Fits("searching", emitter) /\ ~closed /\ ~status
      /\ Sane(PhaseOf(emitter), emitter) /\ stream \in StreamType /\ emitter \in EmitterType
      /\ Streams /\ emitter.started /\ stream.blocks \in Nat
  BY <1>1, ReadyWorks, StreamFields DEF Fits
<1> DEFINE b == SendBlocks(emitter, stream.blocks)
           c == CloseText(WithHeld(b))
           s(more) == IF more THEN Block(c, "text") ELSE c
           d(more) == IF stream.tool THEN Block(s(more), "tool") ELSE s(more)
<1>3. \E more \in BOOLEAN :
        \/ Over(Interrupted(s(more)), AfterBlocks.mixed)
        \/ Over(Finished(d(more)), AfterBlocks.mixed)
  BY DEF SearchEnds
<1>4. PICK more \in BOOLEAN :
        \/ Over(Interrupted(s(more)), AfterBlocks.mixed)
        \/ Over(Finished(d(more)), AfterBlocks.mixed)
  BY <1>3
<1>5. AfterBlocks.mixed \in BOOLEAN
  BY <1>2, AfterBlocksType
<1>6. Begun(PhaseOf(emitter), s(more)) /\ Sane(PhaseOf(emitter), d(more))
  <2>1. Sane(PhaseOf(emitter), b) /\ b.started
    BY <1>2, SendBlocksSane
  <2> HIDE DEF b
  <2>2. Sane(PhaseOf(emitter), WithHeld(b)) /\ WithHeld(b).started
    BY <1>2, <2>1, WithHeldSane
  <2>3. Sane(PhaseOf(emitter), c) /\ c.started
    BY <2>2, CloseSane
  <2> HIDE DEF c
  <2>4. "text" \in Kinds /\ "tool" \in Kinds
    BY DEF Kinds
  <2>5. Begun(PhaseOf(emitter), Block(c, "text"))
    BY <1>2, <2>3, <2>4, BlockSane
  <2>6. Begun(PhaseOf(emitter), s(more)) /\ Sane(PhaseOf(emitter), s(more))
    BY <2>3, <2>5 DEF Begun
  <2> HIDE DEF s
  <2>7. Sane(PhaseOf(emitter), Block(s(more), "tool"))
    BY <1>2, <2>4, <2>6, BlockSane DEF Begun
  <2>8. QED BY <2>6, <2>7
<1> HIDE DEF s, d
<1>7. CASE Over(Interrupted(s(more)), AfterBlocks.mixed)
  <2>1. /\ Interrupted(s(more)).out \in Seq(Frames)
        /\ Leads(PhaseOf(emitter), Interrupted(s(more)).out, "over")
    BY <1>6, InterruptedSane
  <2>2. QED BY <1>1, <1>2, <1>5, <1>7, <2>1, OverInv
<1>8. CASE Over(Finished(d(more)), AfterBlocks.mixed)
  BY <1>1, <1>2, <1>5, <1>6, <1>8, EndsInv
<1>9. QED BY <1>4, <1>7, <1>8

-----------------------------------------------------------------------------
(* The way to the client. *)

LEMMA SeenFields ==
  /\ \A x \in SeenType : /\ x.begun \in Nat /\ x.ended \in Nat /\ x.late \in BOOLEAN
                         /\ x.torn \in BOOLEAN /\ x.open \subseteq Part /\ x.closed \subseteq Part
  /\ \A x \in TranscoderType : /\ x.over \in BOOLEAN /\ x.begun \in BOOLEAN /\ x.ended \in BOOLEAN
                               /\ x.reasoning \in BOOLEAN /\ x.message \in BOOLEAN
                               /\ x.thinking \subseteq Nat /\ x.tools \subseteq Nat
BY DEF SeenType, TranscoderType

\* What the client has seen as far as an answer has one beginning and one end.
Saw(x, begun, ended) == x \in SeenType /\ x.begun = begun /\ x.ended = ended /\ ~x.late

LEMMA SeenSteps ==
  ASSUME NEW x, NEW b \in Nat, NEW n \in Nat, Saw(x, b, n), NEW q \in Part
  PROVE  /\ b = 0 /\ n = 0 => Saw(Begin(x), 1, 0) /\ Saw(Refuse(x), 0, 1)
         /\ b = 1 /\ n = 0 => /\ Saw(Placed(x), 1, 0) /\ Saw(End(x), 1, 1) /\ Saw(Fail(x), 1, 1)
                            /\ Saw(OpenPart(x, q), 1, 0) /\ Saw(WritePart(x, q), 1, 0)
                            /\ Saw(ClosePart(x, q), 1, 0)
<1>1. /\ x \in SeenType /\ x.open \subseteq Part /\ x.closed \subseteq Part /\ x.torn \in BOOLEAN
      /\ x.begun = b /\ x.ended = n /\ x.late = FALSE
  BY SeenFields DEF Saw
<1>2. ASSUME b = 0, n = 0
      PROVE  Saw(Begin(x), 1, 0) /\ Saw(Refuse(x), 0, 1)
  <2>1. /\ x.begun + 1 = 1 /\ x.ended + 1 = 1 /\ (x.late \/ x.ended > 0) = FALSE
        /\ (x.late \/ x.begun > 0 \/ x.ended > 0) = FALSE
    BY <1>1, <1>2
  <2>2. Begin(x) = [x EXCEPT !.begun = 1, !.late = FALSE]
    BY <1>1, <2>1 DEF Begin
  <2>3. Refuse(x) = [x EXCEPT !.ended = 1, !.late = FALSE]
    BY <1>1, <2>1 DEF Refuse
  <2>4. Saw(Begin(x), 1, 0)
    <3>1. Begin(x) \in SeenType
      <4>1. \A v \in BOOLEAN : [x EXCEPT !.begun = 1, !.late = v] \in SeenType
        BY <1>1 DEF SeenType
      <4>2. QED BY <2>2, <4>1
    <3>2. Begin(x).begun = 1 /\ Begin(x).ended = 0
      BY <1>1, <1>2, <2>2 DEF SeenType
    <3>3. ~Begin(x).late
      BY <1>1, <2>2 DEF SeenType
    <3>4. QED BY <3>1, <3>2, <3>3 DEF Saw
  <2>5. Saw(Refuse(x), 0, 1)
    <3>1. Refuse(x) \in SeenType
      <4>1. \A v \in BOOLEAN : [x EXCEPT !.ended = 1, !.late = v] \in SeenType
        BY <1>1 DEF SeenType
      <4>2. QED BY <2>3, <4>1
    <3>2. Refuse(x).begun = 0 /\ Refuse(x).ended = 1
      BY <1>1, <1>2, <2>3 DEF SeenType
    <3>3. ~Refuse(x).late
      BY <1>1, <2>3 DEF SeenType
    <3>4. QED BY <3>1, <3>2, <3>3 DEF Saw
  <2>6. QED BY <2>4, <2>5
<1>3. ASSUME b = 1, n = 0
      PROVE  /\ Saw(Placed(x), 1, 0) /\ Saw(End(x), 1, 1) /\ Saw(Fail(x), 1, 1)
             /\ Saw(OpenPart(x, q), 1, 0) /\ Saw(WritePart(x, q), 1, 0)
             /\ Saw(ClosePart(x, q), 1, 0)
  <2>1. Placed(x) = x
    BY <1>1, <1>3 DEF Placed, SeenType
  <2>2. Saw(End(x), 1, 1) /\ Saw(Fail(x), 1, 1) /\ Saw(Placed(x), 1, 0)
    <3>1. x.ended + 1 = 1 /\ (x.torn \/ x.open # {}) \in BOOLEAN
      BY <1>1, <1>3
    <3>2. End(x) = [x EXCEPT !.ended = 1, !.torn = x.torn \/ x.open # {}]
      BY <1>1, <2>1, <3>1 DEF End
    <3>3. Fail(x) = [x EXCEPT !.ended = 1]
      BY <1>1, <2>1, <3>1 DEF Fail
    <3>4. Saw(End(x), 1, 1)
      BY <1>1, <1>3, <3>1, <3>2 DEF Saw, SeenType
    <3>5. Saw(Fail(x), 1, 1)
      BY <1>1, <1>3, <3>3 DEF Saw, SeenType
    <3>6. Saw(Placed(x), 1, 0)
      BY <1>1, <1>3, <2>1 DEF Saw
    <3>7. QED BY <3>4, <3>5, <3>6
  <2>3. Saw(OpenPart(x, q), 1, 0)
    <3>1. x.open \cup {q} \in SUBSET Part
      BY <1>1
    <3>2. QED BY <1>1, <1>3, <2>1, <3>1 DEF Saw, OpenPart, SeenType
  <2>4. Saw(WritePart(x, q), 1, 0)
    BY <1>1, <1>3, <2>1 DEF Saw, WritePart, SeenType
  <2>5. Saw(ClosePart(x, q), 1, 0)
    <3> DEFINE w == WritePart(x, q)
    <3>1. w \in SeenType /\ w.begun = 1 /\ w.ended = 0 /\ w.late = FALSE
      BY <2>4, SeenFields DEF Saw
    <3> HIDE DEF w
    <3>2. w.open \ {q} \in SUBSET Part /\ w.closed \cup {q} \in SUBSET Part
      BY <3>1, SeenFields
    <3>3. [w EXCEPT !.open = w.open \ {q}, !.closed = w.closed \cup {q}] \in SeenType
      BY <3>1, <3>2 DEF SeenType
    <3>4. ClosePart(x, q) = [w EXCEPT !.open = w.open \ {q}, !.closed = w.closed \cup {q}]
      BY DEF ClosePart, w
    <3>5. QED BY <3>1, <3>3, <3>4 DEF Saw, SeenType
  <2>6. QED BY <2>2, <2>3, <2>4, <2>5
<1>4. QED BY <1>2, <1>3

LEMMA FrameFields ==
  ASSUME NEW f \in Frames
  PROVE  /\ f.event \in {"message_start", "start", "delta", "stop", "message_delta", "message_stop",
                         "error", "whole"}
         /\ f.index \in Nat /\ f.kind \in Kinds
BY DEF Frames, Kinds

LEMMA PartFields ==
  ASSUME NEW i \in Nat
  PROVE  Content(i) \in Part /\ Tool(i) \in Part /\ Reasoning \in Part /\ Message \in Part
BY DEF Content, Tool, Reasoning, Message, Part

\* The client in a phase, as Saw has it.
LEMMA ClientSaw ==
  ASSUME Types, NEW c \in Phase, ClientAt(c)
  PROVE  Saw(seen, IF c \in {"idle", "unsaid"} THEN 0 ELSE 1, IF EndSeen(c) THEN 1 ELSE 0)
BY DEF Types, ClientAt, Saw

LEMMA GiveUpInv ==
  ASSUME Inv, GiveUp
  PROVE  Inv'
<1>1. /\ stage = "idle" /\ pending = <<>> /\ ~emitter.started /\ ~closed /\ ~status
  BY DEF GiveUp, Ready, Inv, Handlers, Fits
<1>2. /\ stage' = "over" /\ pending' = <<>> /\ emitter' = Silent /\ status' = TRUE
      /\ stream' = [NoStream EXCEPT !.mixed = FALSE]
      /\ client' = client /\ ask' = ask /\ calls' = calls /\ channel' = channel /\ closed' = closed
      /\ aborted' = aborted /\ transcoder' = transcoder /\ gone' = gone
      /\ seen' = (IF OverBridge \/ gone THEN seen ELSE Refuse(seen))
  BY SilentSane DEF GiveUp, Over, bridge
<1>3. stream' \in StreamType
  BY <1>2, NoStreamType
<1>4. /\ Bridge' /\ Handlers'
  BY <1>1, <1>2, SilentSane DEF Inv, Bridge, Handlers, OverBridge
<1>5. CASE OverBridge \/ gone
  <2>1. seen' = seen
    BY <1>2, <1>5
  <2>2. Types'
    BY <1>2, <1>3, <2>1, SilentSane DEF Inv, Types
  <2>3. Bounded'
    BY <1>2, <2>1 DEF Inv, Bounded
  <2>4. ASSUME Live'
        PROVE  \E c, m \in Phase : /\ ClientAt(c)' /\ Leads(c, channel', m)
                                   /\ Leads(m, pending', HandlerPhase')
    <3>1. Live /\ OverBridge
      BY <1>2, <1>5, <2>4 DEF Live
    <3>2. PICK c \in Phase, m \in Phase :
            ClientAt(c) /\ Leads(c, channel, m) /\ Leads(m, pending, HandlerPhase)
      BY <3>1 DEF Inv, Flow
    <3>3. HandlerPhase = HandlerPhase'
      BY <1>1, <1>2 DEF HandlerPhase, Unsaid, PhaseOf, Streams
    <3>4. ClientAt(c)'
      BY <1>2, <2>1, <3>1, <3>2 DEF ClientAt, EndSeen, OverBridge, Streams
    <3>5. QED BY <1>1, <1>2, <3>2, <3>3, <3>4
  <2>5. QED BY <1>4, <2>2, <2>3, <2>4 DEF Inv, Flow
<1>6. CASE ~(OverBridge \/ gone)
  <2>1. ~OverBridge /\ ~gone /\ ~transcoder.over /\ channel = <<>> /\ seen' = Refuse(seen)
    BY <1>2, <1>6 DEF Inv, Bridge
  <2>2. PICK c \in Phase, m \in Phase :
          ClientAt(c) /\ Leads(c, channel, m) /\ Leads(m, pending, HandlerPhase)
    BY <2>1 DEF Inv, Flow, Live
  <2>3. c = Unsaid
    <3>1. HandlerPhase = Unsaid
      BY <1>1 DEF HandlerPhase, Unsaid, PhaseOf
    <3>2. m = Unsaid /\ c = m
      BY <1>1, <2>1, <2>2, <3>1, LeadsNowhere
    <3>3. QED BY <3>2
  <2>4. Saw(seen, 0, 0)
    BY <1>1, <2>1, <2>2, <2>3, ClientSaw DEF EndSeen, Unsaid, Inv
  <2>5. Saw(seen', 0, 1)
    <3>1. Reasoning \in Part
      BY PartFields
    <3>2. QED BY <2>1, <2>4, <3>1, SeenSteps
  <2>6. Types'
    BY <1>2, <1>3, <2>5, SilentSane DEF Inv, Types, Saw
  <2>7. Bounded'
    BY <1>2, <2>1, <2>5 DEF Bounded, Saw
  <2>8. ClientAt(c)'
    BY <1>2, <2>1, <2>3, <2>5 DEF ClientAt, Saw, EndSeen, Unsaid, OverBridge, Streams
  <2>9. Leads(c, channel', c) /\ Leads(c, pending', HandlerPhase')
    <3>1. HandlerPhase' = c
      BY <1>2, <2>3 DEF HandlerPhase, Unsaid, Streams
    <3>2. QED BY <1>2, <2>1, <2>2, <3>1, LeadsNowhere
  <2>10. QED BY <1>4, <2>2, <2>6, <2>7, <2>8, <2>9 DEF Inv, Flow
<1>7. QED BY <1>5, <1>6

\* An Anthropic client receives an event: it moves to the phase the event leads to.
LEMMA ReceivedMoves ==
  ASSUME Types, ~OverBridge, ~status, NEW c \in Phase, ClientAt(c), NEW f \in Frames, NEW d \in Phase,
         <<c, f.event, d>> \in Moves
  PROVE  /\ Saw(Received(seen, f), 1, IF d = "over" THEN 1 ELSE 0)
         /\ d \in {"begun", "ending", "over"}
<1>1. f.index \in Nat /\ Content(f.index) \in Part
  BY FrameFields, PartFields
<1>2. Saw(seen, IF c \in {"idle", "unsaid"} THEN 0 ELSE 1, IF c = "over" THEN 1 ELSE 0)
  BY ClientSaw DEF EndSeen, OverBridge
<1>3. CASE f.event = "message_start" /\ c = "idle" /\ d = "begun"
  BY <1>1, <1>2, <1>3, SeenSteps DEF Received
<1>4. CASE f.event = "whole" /\ c = "unsaid" /\ d = "over"
  <2>1. Saw(Begin(seen), 1, 0)
    BY <1>1, <1>2, <1>4, SeenSteps
  <2>2. Saw(End(Begin(seen)), 1, 1)
    BY <1>1, <2>1, SeenSteps
  <2>3. QED BY <1>4, <2>2 DEF Received
<1>5. CASE c = "begun" /\ d = "begun" /\ f.event \in Inner
  <2>1. /\ Saw(OpenPart(seen, Content(f.index)), 1, 0) /\ Saw(WritePart(seen, Content(f.index)), 1, 0)
        /\ Saw(ClosePart(seen, Content(f.index)), 1, 0)
    BY <1>1, <1>2, <1>5, SeenSteps
  <2>2. QED BY <1>5, <2>1 DEF Received, Inner
<1>6. CASE c = "begun" /\ d = "ending" /\ f.event = "message_delta"
  BY <1>1, <1>2, <1>6, SeenSteps DEF Received
<1>7. CASE c = "begun" /\ d = "over" /\ f.event = "error"
  BY <1>1, <1>2, <1>7, SeenSteps DEF Received
<1>8. CASE c = "ending" /\ d = "over" /\ f.event = "message_stop"
  BY <1>1, <1>2, <1>8, SeenSteps DEF Received
<1>9. QED BY <1>3, <1>4, <1>5, <1>6, <1>7, <1>8 DEF Moves, Inner

LEMMA PendingLeft ==
  ASSUME Inv, pending # <<>>
  PROVE  /\ Head(pending) \in Frames /\ Tail(pending) \in Seq(Frames)
         /\ stage # "idle" /\ ~closed /\ ~status
<1>1. Head(pending) \in Frames /\ Tail(pending) \in Seq(Frames)
  BY HeadTailProperties DEF Inv, Types
<1>2. QED BY <1>1 DEF Inv, Handlers

LEMMA WriteInv ==
  ASSUME Inv, Write
  PROVE  Inv'
<1>1. /\ ~OverBridge /\ pending # <<>> /\ pending' = Tail(pending)
      /\ client' = client /\ ask' = ask /\ stage' = stage /\ calls' = calls /\ stream' = stream
      /\ emitter' = emitter /\ channel' = channel /\ closed' = closed /\ aborted' = aborted
      /\ transcoder' = transcoder /\ status' = status /\ gone' = gone
      /\ seen' = (IF gone THEN seen ELSE Received(seen, Head(pending)))
  BY DEF Write, upstream, bridge
<1>2. /\ Head(pending) \in Frames /\ Tail(pending) \in Seq(Frames)
      /\ stage # "idle" /\ ~closed /\ ~status
  BY <1>1, PendingLeft
<1>3. Handlers' /\ Bridge'
  <2>1. Handlers'
    BY <1>1, <1>2 DEF Inv, Handlers, Fits, Streams
  <2>2. Bridge'
    BY <1>1 DEF Inv, Bridge, OverBridge
  <2>3. QED BY <2>1, <2>2
<1>4. seen' \in SeenType => Types'
  BY <1>1, <1>2 DEF Inv, Types
<1>5. CASE gone
  <2>1. seen' = seen /\ ~Live'
    BY <1>1, <1>5 DEF Live
  <2>2. Bounded'
    BY <1>1, <2>1 DEF Inv, Bounded
  <2>3. Types'
    BY <1>4, <2>1 DEF Inv, Types
  <2>4. QED BY <1>3, <2>1, <2>2, <2>3 DEF Inv, Flow
<1>6. CASE ~gone
  <2>1. channel = <<>> /\ ~transcoder.over /\ seen' = Received(seen, Head(pending))
    BY <1>1, <1>6 DEF Inv, Bridge
  <2>2. PICK c \in Phase, m \in Phase :
          ClientAt(c) /\ Leads(c, channel, m) /\ Leads(m, pending, HandlerPhase)
    BY <1>6, <2>1 DEF Inv, Flow, Live
  <2>3. m = c
    BY <2>1, <2>2, LeadsNowhere
  <2>4. PICK d \in Phase :
          <<c, Head(pending).event, d>> \in Moves /\ Leads(d, Tail(pending), HandlerPhase)
    BY <1>1, <2>2, <2>3, LeadsFrom DEF Inv, Types
  <2>5. /\ Saw(seen', 1, IF d = "over" THEN 1 ELSE 0)
        /\ d \in {"begun", "ending", "over"}
    BY <1>1, <1>2, <2>1, <2>2, <2>4, ReceivedMoves DEF Inv
  <2>6. Types'
    BY <1>4, <2>5 DEF Saw
  <2>7. Bounded'
    BY <1>1, <2>1, <2>5 DEF Bounded, Saw
  <2>8. ClientAt(d)'
    <3>1. EndSeen(d)' <=> d = "over"
      BY <1>1, <1>2 DEF EndSeen, OverBridge
    <3>2. ~OverBridge'
      BY <1>1 DEF OverBridge
    <3>3. QED BY <2>5, <3>1, <3>2 DEF ClientAt, Saw
  <2>9. HandlerPhase' = HandlerPhase
    BY <1>1 DEF HandlerPhase, Unsaid, PhaseOf, Streams
  <2>10. Leads(d, channel', d)
    BY <1>1, <2>1, LeadsNowhere
  <2>11. Flow'
    BY <1>1, <2>4, <2>8, <2>9, <2>10 DEF Flow
  <2>12. QED BY <1>3, <2>6, <2>7, <2>11 DEF Inv
<1>7. QED BY <1>5, <1>6

LEMMA PushInv ==
  ASSUME Inv, Push
  PROVE  Inv'
<1>1. /\ OverBridge /\ pending # <<>> /\ pending' = Tail(pending)
      /\ client' = client /\ ask' = ask /\ stage' = stage /\ calls' = calls /\ stream' = stream
      /\ emitter' = emitter /\ closed' = closed /\ aborted' = aborted
      /\ transcoder' = transcoder /\ status' = status /\ gone' = gone /\ seen' = seen
      /\ \/ Len(channel) < Cap /\ channel' = Append(channel, Head(pending))
         \/ aborted /\ channel' = channel
  BY DEF Push, upstream
<1>2. /\ Head(pending) \in Frames /\ Tail(pending) \in Seq(Frames)
      /\ stage # "idle" /\ ~closed /\ ~status
  BY <1>1, PendingLeft
<1>3. Handlers'
  BY <1>1, <1>2 DEF Inv, Handlers, Fits, Streams
<1>4. Bridge' /\ Bounded'
  BY <1>1 DEF Inv, Bridge, Bounded, OverBridge
<1>5. Types'
  <2>1. channel \in Seq(Frames) /\ Len(channel) \in Nat /\ Len(channel) <= Cap
    BY LenProperties DEF Inv, Types
  <2>2. channel' \in Seq(Frames) /\ Len(channel') <= Cap
    <3>1. CASE Len(channel) < Cap /\ channel' = Append(channel, Head(pending))
      <4>1. channel' \in Seq(Frames) /\ Len(channel') = Len(channel) + 1
        BY <1>2, <2>1, <3>1, AppendProperties
      <4>2. QED BY <2>1, <3>1, <4>1, AnswerAssumption
    <3>2. CASE channel' = channel
      BY <2>1, <3>2
    <3>3. QED BY <1>1, <3>1, <3>2
  <2>3. QED BY <1>1, <1>2, <2>2 DEF Inv, Types
<1>6. HandlerPhase' = HandlerPhase
  BY <1>1 DEF HandlerPhase, Unsaid, PhaseOf, Streams
<1>7. ASSUME Live'
      PROVE  \E c, m \in Phase : /\ ClientAt(c)' /\ Leads(c, channel', m)
                                 /\ Leads(m, pending', HandlerPhase')
  <2>1. Live /\ ~aborted
    BY <1>1, <1>7 DEF Live, Inv, Bridge
  <2>2. channel' = Append(channel, Head(pending))
    BY <1>1, <2>1
  <2>3. PICK c \in Phase, m \in Phase :
          ClientAt(c) /\ Leads(c, channel, m) /\ Leads(m, pending, HandlerPhase)
    BY <2>1 DEF Inv, Flow
  <2>4. PICK d \in Phase :
          <<m, Head(pending).event, d>> \in Moves /\ Leads(d, Tail(pending), HandlerPhase)
    BY <1>1, <2>3, LeadsFrom DEF Inv, Types
  <2>5. Leads(c, channel', d)
    BY <1>2, <2>2, <2>3, <2>4, LeadsOn DEF Inv, Types
  <2>6. ClientAt(c)'
    BY <1>1, <2>3 DEF ClientAt, EndSeen, OverBridge, Streams
  <2>7. QED BY <1>1, <1>6, <2>4, <2>5, <2>6
<1>8. Flow'
  BY <1>7 DEF Flow
<1>9. QED BY <1>3, <1>4, <1>5, <1>8 DEF Inv

LEMMA CloseInv ==
  ASSUME Inv, Close
  PROVE  Inv'
<1>1. /\ stage = "over" /\ pending = <<>> /\ closed' = TRUE
      /\ client' = client /\ ask' = ask /\ stage' = stage /\ calls' = calls /\ stream' = stream
      /\ emitter' = emitter /\ pending' = pending /\ channel' = channel /\ aborted' = aborted
      /\ transcoder' = transcoder /\ status' = status /\ gone' = gone /\ seen' = seen
  BY DEF Close, Ready, upstream
<1>2. Types' /\ Handlers'
  BY <1>1 DEF Inv, Types, Handlers
<1>3. Bridge' /\ Bounded'
  BY <1>1 DEF Inv, Bridge, Bounded, OverBridge
<1>4. Flow'
  <2>1. HandlerPhase' = HandlerPhase /\ Live' = Live
    BY <1>1 DEF HandlerPhase, Unsaid, PhaseOf, Streams, Live
  <2>2. ASSUME NEW c \in Phase, ClientAt(c)
        PROVE  ClientAt(c)'
    BY <1>1, <2>2 DEF ClientAt, EndSeen, OverBridge, Streams
  <2>3. QED BY <1>1, <2>1, <2>2 DEF Inv, Flow
<1>5. QED BY <1>2, <1>3, <1>4 DEF Inv

LEMMA ClientLeavesInv ==
  ASSUME Inv, ClientLeaves
  PROVE  Inv'
<1>1. /\ gone' = TRUE
      /\ client' = client /\ ask' = ask /\ stage' = stage /\ calls' = calls /\ stream' = stream
      /\ emitter' = emitter /\ pending' = pending /\ channel' = channel /\ closed' = closed
      /\ status' = status /\ seen' = seen
  BY DEF ClientLeaves, upstream
<1>2. CASE OverBridge
  <2>1. aborted' = TRUE /\ transcoder' = [transcoder EXCEPT !.over = TRUE]
    BY <1>2 DEF ClientLeaves, Abort
  <2>2. transcoder' \in TranscoderType /\ transcoder'.over = TRUE
    BY <2>1 DEF Inv, Types, TranscoderType
  <2>3. Types'
    BY <1>1, <2>1, <2>2 DEF Inv, Types
  <2>4. Handlers'
    BY <1>1 DEF Inv, Handlers, Fits, Streams
  <2>5. Bridge' /\ Flow' /\ Bounded'
    BY <1>1, <1>2, <2>1, <2>2 DEF Inv, Bridge, Flow, Live, Bounded, OverBridge
  <2>6. QED BY <2>3, <2>4, <2>5 DEF Inv
<1>3. CASE ~OverBridge
  <2>1. aborted' = aborted /\ transcoder' = transcoder
    BY <1>3 DEF ClientLeaves
  <2>2. Types'
    BY <1>1, <2>1 DEF Inv, Types
  <2>3. Handlers'
    BY <1>1 DEF Inv, Handlers, Fits, Streams
  <2>4. Bridge' /\ Flow' /\ Bounded'
    BY <1>1, <1>3, <2>1 DEF Inv, Bridge, Flow, Live, Bounded, OverBridge
  <2>5. QED BY <2>2, <2>3, <2>4 DEF Inv
<1>4. QED BY <1>2, <1>3

\* The loop of the transcoder ends when the handler has closed the channel.
LEMMA DrainedInv ==
  ASSUME Inv, Drained
  PROVE  Inv'
<1>1. /\ OverBridge /\ ~transcoder.over /\ channel = <<>> /\ closed /\ aborted' = TRUE
      /\ transcoder' = [transcoder EXCEPT !.over = TRUE]
      /\ seen' = (IF status THEN Refuse(seen) ELSE seen)
      /\ client' = client /\ ask' = ask /\ stage' = stage /\ calls' = calls /\ stream' = stream
      /\ emitter' = emitter /\ pending' = pending /\ channel' = channel /\ closed' = closed
      /\ status' = status /\ gone' = gone
  BY DEF Drained, Abort, upstream
<1>2. stage = "over" /\ pending = <<>> /\ ~gone
  BY <1>1 DEF Inv, Handlers, Bridge
<1>3. PICK c \in Phase, m \in Phase :
        ClientAt(c) /\ Leads(c, channel, m) /\ Leads(m, pending, HandlerPhase)
  BY <1>1, <1>2 DEF Inv, Flow, Live
<1>4. c = HandlerPhase
  <2>1. m = c /\ HandlerPhase = m
    BY <1>1, <1>2, <1>3, LeadsNowhere
  <2>2. QED BY <2>1
<1>5. Saw(seen, IF c \in {"idle", "unsaid"} THEN 0 ELSE 1, IF EndSeen(c) THEN 1 ELSE 0)
  BY <1>3, ClientSaw DEF Inv
<1>6. seen' \in SeenType /\ ~seen'.late /\ seen'.begun <= 1 /\ seen'.ended = 1
  <2>1. CASE status
    <3>1. c = "idle"
      BY <1>1, <1>4, <2>1 DEF HandlerPhase, Unsaid, OverBridge, Streams
    <3>2. Saw(seen, 0, 0)
      BY <1>1, <1>5, <3>1 DEF EndSeen
    <3>3. Saw(Refuse(seen), 0, 1)
      <4>1. Reasoning \in Part
        BY PartFields
      <4>2. QED BY <3>2, <4>1, SeenSteps
    <3>4. QED BY <1>1, <2>1, <3>3 DEF Saw
  <2>2. CASE ~status
    <3>1. c = "over"
      BY <1>2, <1>4, <2>2 DEF HandlerPhase
    <3>2. Saw(seen, 1, 1)
      BY <1>5, <3>1 DEF EndSeen
    <3>3. QED BY <1>1, <2>2, <3>2 DEF Saw
  <2>3. QED BY <2>1, <2>2
<1>7. transcoder' \in TranscoderType /\ transcoder'.over = TRUE
  BY <1>1 DEF Inv, Types, TranscoderType
<1>8. Types'
  BY <1>1, <1>6, <1>7 DEF Inv, Types
<1>9. Handlers'
  BY <1>1 DEF Inv, Handlers, Fits, Streams
<1>10. Bridge' /\ Flow'
  BY <1>1, <1>7 DEF Inv, Bridge, Flow, Live, OverBridge
<1>11. Bounded'
  BY <1>6 DEF Bounded
<1>12. QED BY <1>8, <1>9, <1>10, <1>11 DEF Inv

-----------------------------------------------------------------------------
(* The transcoders. *)

LEMMA BegunAlready ==
  ASSUME NEW t \in TranscoderType, t.begun
  PROVE  [t EXCEPT !.begun = TRUE] = t
BY DEF TranscoderType

\* The transcoder goes on from here: the answer has begun, and may have ended.
Follows(t, ended) ==
  /\ t \in TranscoderType /\ t.over = transcoder.over /\ t.begun = TRUE /\ (t.ended <=> ended = 1)

\* What a transcoder notes about the parts.
OpenThinking(t, i) == [t EXCEPT !.thinking = @ \cup {i}, !.reasoning = TRUE]
ShutThinking(t, i) == [t EXCEPT !.thinking = @ \ {i}]
OpenTool(t, i) == [t EXCEPT !.tools = @ \cup {i}]
ShutTool(t, i) == [t EXCEPT !.tools = @ \ {i}]
OpenMessage(t) == [t EXCEPT !.message = TRUE]

LEMMA PartsFollow ==
  ASSUME NEW t, NEW b, Follows(t, b), NEW i \in Nat
  PROVE  /\ Follows(OpenThinking(t, i), b) /\ Follows(ShutThinking(t, i), b)
         /\ Follows(OpenTool(t, i), b) /\ Follows(ShutTool(t, i), b)
         /\ Follows(OpenMessage(t), b)
<1>1. t \in TranscoderType /\ t.thinking \subseteq Nat /\ t.tools \subseteq Nat
  BY SeenFields DEF Follows
<1>2. /\ t.thinking \cup {i} \in SUBSET Nat /\ t.thinking \ {i} \in SUBSET Nat
      /\ t.tools \cup {i} \in SUBSET Nat /\ t.tools \ {i} \in SUBSET Nat
  BY <1>1
<1>3. Follows(OpenThinking(t, i), b)
  BY <1>1, <1>2 DEF Follows, TranscoderType, OpenThinking
<1>4. Follows(ShutThinking(t, i), b)
  BY <1>1, <1>2 DEF Follows, TranscoderType, ShutThinking
<1>5. Follows(OpenTool(t, i), b)
  BY <1>1, <1>2 DEF Follows, TranscoderType, OpenTool
<1>6. Follows(ShutTool(t, i), b)
  BY <1>1, <1>2 DEF Follows, TranscoderType, ShutTool
<1>7. Follows(OpenMessage(t), b)
  BY <1>1 DEF Follows, TranscoderType, OpenMessage
<1>8. QED BY <1>3, <1>4, <1>5, <1>6, <1>7

LEMMA BeginFollows ==
  ASSUME transcoder \in TranscoderType, ~transcoder.ended
  PROVE  Follows([transcoder EXCEPT !.begun = TRUE], 0)
<1> DEFINE t == [transcoder EXCEPT !.begun = TRUE]
<1>1. t \in TranscoderType
  BY DEF TranscoderType
<1>2. t.over = transcoder.over /\ t.begun = TRUE /\ t.ended = transcoder.ended
  BY DEF TranscoderType
<1> HIDE DEF t
<1>3. Follows(t, 0)
  BY <1>1, <1>2 DEF Follows
<1>4. QED BY <1>3 DEF t

LEMMA EndFollows ==
  ASSUME NEW t, NEW b, Follows(t, b)
  PROVE  Follows([t EXCEPT !.ended = TRUE], 1)
BY DEF Follows, TranscoderType

\* The chat protocol ends with message_stop.
LEMMA ChatMoves ==
  ASSUME Types, client = "chat", NEW c \in Phase, ClientAt(c), NEW f \in Frames, NEW d \in Phase,
         <<c, f.event, d>> \in Moves
  PROVE  /\ Follows(Chat(f)[1], IF d = "over" THEN 1 ELSE 0)
         /\ Saw(Chat(f)[2], 1, IF d = "over" THEN 1 ELSE 0)
         /\ d \in {"begun", "ending", "over"}
<1>1. /\ Saw(seen, IF c \in {"idle", "unsaid"} THEN 0 ELSE 1, IF c = "over" THEN 1 ELSE 0)
      /\ transcoder \in TranscoderType /\ Reasoning \in Part
  BY ClientSaw, PartFields DEF EndSeen, Types, OverBridge
<1>2. (transcoder.begun <=> c # "idle") /\ (transcoder.ended <=> c = "over") /\ c # "unsaid"
  BY DEF ClientAt, EndSeen, OverBridge, Streams
<1>3. c # "idle" => Follows(transcoder, IF c = "over" THEN 1 ELSE 0)
  BY <1>1, <1>2, SeenFields DEF Follows
<1>4. CASE f.event = "message_start" /\ c = "idle" /\ d = "begun"
  <2>1. Chat(f) = <<[transcoder EXCEPT !.begun = TRUE], Begin(seen)>>
    BY <1>2, <1>4 DEF Chat
  <2>2. Follows([transcoder EXCEPT !.begun = TRUE], 0)
    <3>1. ~transcoder.ended
      BY <1>2, <1>4
    <3>2. QED BY <1>1, <3>1, BeginFollows
  <2>3. Saw(Begin(seen), 1, 0)
    BY <1>1, <1>4, SeenSteps
  <2>4. QED BY <1>4, <2>1, <2>2, <2>3
<1>5. CASE c = "begun" /\ d = "begun" /\ f.event \in Inner
  <2>1. Chat(f) = <<transcoder, seen>> \/ Chat(f) = <<transcoder, Placed(seen)>>
    BY <1>5 DEF Chat, Inner
  <2>2. Saw(seen, 1, 0) /\ Saw(Placed(seen), 1, 0)
    BY <1>1, <1>5, SeenSteps
  <2>3. Follows(transcoder, IF d = "over" THEN 1 ELSE 0)
    BY <1>3, <1>5
  <2>4. QED BY <1>5, <2>1, <2>2, <2>3
<1>6. CASE c = "begun" /\ d = "ending" /\ f.event = "message_delta"
  <2>1. Chat(f) = <<transcoder, Placed(seen)>>
    BY <1>6 DEF Chat
  <2>2. Saw(Placed(seen), 1, 0)
    BY <1>1, <1>6, SeenSteps
  <2>3. Follows(transcoder, IF d = "over" THEN 1 ELSE 0)
    BY <1>3, <1>6
  <2>4. QED BY <1>6, <2>1, <2>2, <2>3
<1>7. CASE c = "begun" /\ d = "over" /\ f.event = "error"
  <2>1. Chat(f) = <<[transcoder EXCEPT !.ended = TRUE], Fail(seen)>>
    BY <1>7 DEF Chat
  <2>2. Saw(Fail(seen), 1, 1)
    BY <1>1, <1>7, SeenSteps
  <2>3. Follows([transcoder EXCEPT !.ended = TRUE], IF d = "over" THEN 1 ELSE 0)
    BY <1>3, <1>7, EndFollows
  <2>4. QED BY <1>7, <2>1, <2>2, <2>3
<1>8. CASE c = "ending" /\ d = "over" /\ f.event = "message_stop"
  <2>1. Chat(f) = <<[transcoder EXCEPT !.ended = TRUE], End(seen)>>
    BY <1>2, <1>8 DEF Chat
  <2>2. Saw(End(seen), 1, 1)
    BY <1>1, <1>8, SeenSteps
  <2>3. Follows([transcoder EXCEPT !.ended = TRUE], IF d = "over" THEN 1 ELSE 0)
    BY <1>3, <1>8, EndFollows
  <2>4. QED BY <1>8, <2>1, <2>2, <2>3
<1>9. QED BY <1>2, <1>4, <1>5, <1>6, <1>7, <1>8 DEF Moves, Inner

\* The Responses protocol ends with message_delta; its parts are written on the way.
LEMMA ResponsesInside ==
  ASSUME Types, NEW f \in Frames, f.event \in Inner, Saw(seen, 1, 0), Follows(transcoder, 0)
  PROVE  Follows(Responses(f)[1], 0) /\ Saw(Responses(f)[2], 1, 0)
<1> DEFINE i == f.index
           t == [transcoder EXCEPT !.begun = TRUE]
<1>1. i \in Nat /\ Tool(i) \in Part /\ Reasoning \in Part /\ Message \in Part
  BY FrameFields, PartFields
<1>2. t = transcoder /\ Created = seen
  BY BegunAlready DEF Follows, Created
<1>3. Follows(t, 0)
  BY <1>2
<1>4. \A q \in Part : /\ Saw(OpenPart(seen, q), 1, 0) /\ Saw(WritePart(seen, q), 1, 0)
                      /\ Saw(ClosePart(seen, q), 1, 0)
  BY SeenSteps
<1> HIDE DEF t
<1>5. /\ Follows(OpenThinking(t, i), 0) /\ Follows(ShutThinking(transcoder, i), 0)
      /\ Follows(OpenTool(t, i), 0) /\ Follows(ShutTool(transcoder, i), 0)
      /\ Follows(OpenMessage(t), 0)
  BY <1>1, <1>3, PartsFollow
<1>6. CASE f.event = "start" /\ f.kind = "thinking"
  <2>1. Responses(f) = <<OpenThinking(t, i), IF t.reasoning THEN Created ELSE OpenPart(Created, Reasoning)>>
    BY <1>6 DEF Responses, t, OpenThinking
  <2>2. QED BY <1>1, <1>2, <1>4, <1>5, <2>1
<1>7. CASE f.event = "start" /\ f.kind = "tool"
  <2>1. Responses(f) = <<OpenTool(t, i), OpenPart(Created, Tool(i))>>
    BY <1>7 DEF Responses, t, OpenTool
  <2>2. QED BY <1>1, <1>2, <1>4, <1>5, <2>1
<1>8. CASE f.event = "start" /\ f.kind # "thinking" /\ f.kind # "tool"
  <2>1. Responses(f) = <<t, Created>>
    BY <1>8 DEF Responses, t
  <2>2. QED BY <1>2, <1>3, <2>1
<1>9. CASE f.event = "delta" /\ f.kind = "thinking"
  <2>1. Responses(f) = <<transcoder, WritePart(seen, Reasoning)>>
    BY <1>9 DEF Responses
  <2>2. QED BY <1>1, <1>4, <2>1
<1>10. CASE f.event = "delta" /\ f.kind = "text"
  <2>1. Responses(f) = <<OpenMessage(t), WritePart(MessageItem, Message)>>
    BY <1>10 DEF Responses, t, OpenMessage
  <2>2. Saw(MessageItem, 1, 0)
    BY <1>1, <1>2, <1>4 DEF MessageItem
  <2>3. Saw(WritePart(MessageItem, Message), 1, 0)
    BY <1>1, <2>2, SeenSteps
  <2>4. QED BY <1>5, <2>1, <2>3
<1>11. CASE f.event = "delta" /\ f.kind # "thinking" /\ f.kind # "text"
  <2>1. Responses(f) = <<transcoder, WritePart(seen, Tool(i))>>
    BY <1>11 DEF Responses
  <2>2. QED BY <1>1, <1>4, <2>1
<1>12. CASE f.event = "stop" /\ i \in t.thinking
  <2>1. \/ Responses(f) = <<ShutThinking(transcoder, i), ReasoningDone>>
        \/ Responses(f) = <<ShutThinking(transcoder, i), seen>>
    BY <1>12 DEF Responses, t, ShutThinking
  <2>2. QED BY <1>1, <1>4, <1>5, <2>1 DEF ReasoningDone
<1>13. CASE f.event = "stop" /\ i \notin t.thinking
  <2>1. Responses(f) = <<ShutTool(transcoder, i), ToolDone(i)>>
    BY <1>13 DEF Responses, t, ShutTool
  <2>2. Saw(ToolDone(i), 1, 0)
    BY <1>1, <1>4 DEF ToolDone
  <2>3. QED BY <1>5, <2>1, <2>2
<1>14. QED BY <1>6, <1>7, <1>8, <1>9, <1>10, <1>11, <1>12, <1>13 DEF Inner

LEMMA ResponsesMoves ==
  ASSUME Types, client = "responses", NEW c \in Phase, ClientAt(c), NEW f \in Frames, NEW d \in Phase,
         <<c, f.event, d>> \in Moves
  PROVE  /\ Follows(Responses(f)[1], IF d \in {"ending", "over"} THEN 1 ELSE 0)
         /\ Saw(Responses(f)[2], 1, IF d \in {"ending", "over"} THEN 1 ELSE 0)
         /\ d \in {"begun", "ending", "over"}
<1>1. /\ Saw(seen, IF c \in {"idle", "unsaid"} THEN 0 ELSE 1, IF c \in {"ending", "over"} THEN 1 ELSE 0)
      /\ transcoder \in TranscoderType /\ Reasoning \in Part /\ Message \in Part
  BY ClientSaw, PartFields DEF EndSeen, Types, OverBridge
<1>2. (transcoder.begun <=> c # "idle") /\ (transcoder.ended <=> c \in {"ending", "over"}) /\ c # "unsaid"
  BY DEF ClientAt, EndSeen, OverBridge, Streams
<1>3. c # "idle" => Follows(transcoder, IF c \in {"ending", "over"} THEN 1 ELSE 0)
  BY <1>1, <1>2, SeenFields DEF Follows
<1> DEFINE t == [transcoder EXCEPT !.begun = TRUE]
<1>4. c # "idle" => t = transcoder /\ Created = seen
  BY <1>1, <1>2, BegunAlready DEF Created
<1> HIDE DEF t
<1>5. CASE f.event = "message_start" /\ c = "idle" /\ d = "begun"
  <2>1. Responses(f)[1] = t /\ Responses(f)[2] = Begin(seen)
    BY <1>2, <1>5 DEF Responses, Created, t
  <2>2. Follows(t, 0)
    <3>1. ~transcoder.ended
      BY <1>2, <1>5
    <3>2. QED BY <1>1, <3>1, BeginFollows DEF t
  <2>3. Saw(Begin(seen), 1, 0)
    BY <1>1, <1>5, SeenSteps
  <2>4. (d \in {"ending", "over"}) = FALSE
    BY <1>5
  <2>5. QED BY <1>5, <2>1, <2>2, <2>3, <2>4
<1>6. CASE c = "begun" /\ d = "begun" /\ f.event \in Inner
  <2>1. (c \in {"ending", "over"}) = FALSE /\ (d \in {"ending", "over"}) = FALSE
    BY <1>6
  <2>2. Saw(seen, 1, 0)
    BY <1>1, <1>6
  <2>3. Follows(transcoder, 0)
    BY <1>3, <1>6, <2>1
  <2>4. Follows(Responses(f)[1], 0) /\ Saw(Responses(f)[2], 1, 0)
    BY <1>6, <2>2, <2>3, ResponsesInside
  <2>5. QED BY <1>6, <2>1, <2>4
<1>7. CASE c = "begun" /\ d = "ending" /\ f.event = "message_delta"
  <2>1. t = transcoder /\ ~transcoder.ended
    BY <1>2, <1>4, <1>7
  <2>2. Responses(f)[1] = [transcoder EXCEPT !.ended = TRUE] /\ Responses(f)[2] = End(MessageDone)
    BY <1>7, <2>1 DEF Responses, t
  <2>3. Saw(MessageDone, 1, 0)
    BY <1>1, <1>4, <1>7, SeenSteps DEF MessageDone
  <2>4. Saw(End(MessageDone), 1, 1)
    BY <1>1, <2>3, SeenSteps
  <2>5. Follows([transcoder EXCEPT !.ended = TRUE], 1)
    BY <1>3, <1>7, EndFollows
  <2>6. QED BY <1>7, <2>2, <2>4, <2>5
<1>8. CASE c = "begun" /\ d = "over" /\ f.event = "error"
  <2>1. t = transcoder /\ ~transcoder.ended /\ Created = seen
    BY <1>2, <1>4, <1>8
  <2>2. Responses(f)[1] = [t EXCEPT !.ended = TRUE] /\ Responses(f)[2] = Fail(seen)
    BY <1>8, <2>1 DEF Responses, t
  <2>3. Saw(Fail(seen), 1, 1)
    BY <1>1, <1>8, SeenSteps
  <2>4. Follows([t EXCEPT !.ended = TRUE], 1)
    BY <1>3, <1>8, <2>1, EndFollows
  <2>5. QED BY <1>8, <2>2, <2>3, <2>4
<1>9. CASE c = "ending" /\ d = "over" /\ f.event = "message_stop"
  <2>1. Responses(f)[1] = transcoder /\ Responses(f)[2] = seen
    BY <1>9 DEF Responses
  <2>2. Saw(seen, 1, 1) /\ Follows(transcoder, 1)
    BY <1>1, <1>3, <1>9
  <2>3. QED BY <1>9, <2>1, <2>2
<1>10. QED BY <1>2, <1>5, <1>6, <1>7, <1>8, <1>9 DEF Moves, Inner

LEMMA TranscodeInv ==
  ASSUME Inv, Transcode
  PROVE  Inv'
<1> DEFINE f == Head(channel)
<1>1. /\ OverBridge /\ ~transcoder.over /\ channel # <<>> /\ channel' = Tail(channel)
      /\ transcoder' = Transcoded(f)[1] /\ seen' = Transcoded(f)[2]
      /\ client' = client /\ ask' = ask /\ stage' = stage /\ calls' = calls /\ stream' = stream
      /\ emitter' = emitter /\ pending' = pending /\ closed' = closed /\ aborted' = aborted
      /\ status' = status /\ gone' = gone
  BY DEF Transcode, upstream
<1>2. ~gone /\ ~aborted
  BY <1>1 DEF Inv, Bridge
<1>3. PICK c \in Phase, m \in Phase :
        ClientAt(c) /\ Leads(c, channel, m) /\ Leads(m, pending, HandlerPhase)
  BY <1>1, <1>2 DEF Inv, Flow, Live
<1>4. channel \in Seq(Frames) /\ f \in Frames /\ Tail(channel) \in Seq(Frames)
      /\ Len(Tail(channel)) <= Cap
  <2>1. /\ channel \in Seq(Frames) /\ Len(channel) <= Cap /\ Len(channel) \in Nat
        /\ Len(Tail(channel)) = Len(channel) - 1 /\ f \in Frames /\ Tail(channel) \in Seq(Frames)
    BY <1>1, HeadTailProperties, LenProperties DEF Inv, Types
  <2>2. QED BY <2>1, AnswerAssumption
<1>5. PICK d \in Phase : <<c, f.event, d>> \in Moves /\ Leads(d, Tail(channel), m)
  BY <1>1, <1>3, <1>4, LeadsFrom
<1> HIDE DEF f
<1>6. /\ Follows(transcoder', IF EndSeen(d) THEN 1 ELSE 0) /\ d \in {"begun", "ending", "over"}
      /\ Saw(seen', 1, IF EndSeen(d) THEN 1 ELSE 0)
  <2>1. CASE client = "chat"
    <3>1. EndSeen(d) <=> d = "over"
      BY <1>1, <2>1 DEF EndSeen
    <3>2. /\ Follows(Chat(f)[1], IF d = "over" THEN 1 ELSE 0) /\ Saw(Chat(f)[2], 1, IF d = "over" THEN 1 ELSE 0)
          /\ d \in {"begun", "ending", "over"}
      BY <1>3, <1>4, <1>5, <2>1, ChatMoves DEF Inv
    <3>3. Transcoded(f) = Chat(f)
      BY <2>1 DEF Transcoded
    <3>4. QED BY <1>1, <3>1, <3>2, <3>3 DEF Follows
  <2>2. CASE client = "responses"
    <3>1. EndSeen(d) <=> d \in {"ending", "over"}
      BY <1>1, <2>2 DEF EndSeen
    <3>2. /\ Follows(Responses(f)[1], IF d \in {"ending", "over"} THEN 1 ELSE 0)
          /\ Saw(Responses(f)[2], 1, IF d \in {"ending", "over"} THEN 1 ELSE 0)
          /\ d \in {"begun", "ending", "over"}
      BY <1>3, <1>4, <1>5, <2>2, ResponsesMoves DEF Inv
    <3>3. Transcoded(f) = Responses(f)
      BY <2>2 DEF Transcoded
    <3>4. QED BY <1>1, <3>1, <3>2, <3>3 DEF Follows
  <2>3. QED BY <1>1, <2>1, <2>2 DEF OverBridge
<1>7. transcoder' \in TranscoderType /\ ~transcoder'.over /\ transcoder'.begun
      /\ (transcoder'.ended <=> EndSeen(d))
  BY <1>1, <1>6 DEF Follows
<1>8. Types'
  BY <1>1, <1>4, <1>6, <1>7 DEF Inv, Types, Saw
<1>9. Handlers' /\ Bridge'
  <2>1. Handlers'
    BY <1>1 DEF Inv, Handlers, Fits, Streams
  <2>2. Bridge'
    BY <1>1, <1>2, <1>7 DEF Bridge, OverBridge
  <2>3. QED BY <2>1, <2>2
<1>10. Bounded'
  BY <1>6, <1>7 DEF Bounded, Saw
<1>11. ClientAt(d)'
  <2>1. EndSeen(d)' <=> EndSeen(d)
    BY <1>1 DEF EndSeen, OverBridge
  <2>2. QED BY <1>6, <1>7, <2>1 DEF ClientAt, Saw
<1>12. HandlerPhase' = HandlerPhase
  BY <1>1 DEF HandlerPhase, Unsaid, PhaseOf, Streams
<1>13. Flow'
  BY <1>1, <1>3, <1>5, <1>11, <1>12 DEF Flow
<1>14. QED BY <1>8, <1>9, <1>10, <1>13 DEF Inv

-----------------------------------------------------------------------------
(* Every step, and the theorems. *)

LEMMA InitInv == AnswerInit => Inv
<1> SUFFICES ASSUME AnswerInit PROVE Inv
  OBVIOUS
<1>1. /\ client \in Clients /\ ask \in Asks /\ stage = "idle" /\ calls = 0 /\ stream = NoStream
      /\ emitter = Silent /\ pending = <<>> /\ channel = <<>> /\ closed = FALSE /\ aborted = FALSE
      /\ status = FALSE /\ gone = FALSE /\ seen = Nothing
  BY DEF AnswerInit
<1>2. /\ transcoder \in TranscoderType /\ ~transcoder.over /\ ~transcoder.begun /\ ~transcoder.ended
  BY DEF AnswerInit, TranscoderType
<1>3. Saw(seen, 0, 0)
  BY <1>1 DEF Nothing, Saw, SeenType
<1>4. Types
  <2>1. <<>> \in Seq(Frames) /\ Len(<<>>) = 0
    BY EmptySeq
  <2>2. stage \in Stages /\ calls \in 0 .. MaxCalls /\ Len(channel) <= Cap
    BY <1>1, <2>1, AnswerAssumption DEF Stages
  <2>3. stream \in StreamType /\ emitter \in EmitterType /\ seen \in SeenType
    BY <1>1, <1>3, SilentSane, NoStreamType DEF Saw
  <2>4. pending \in Seq(Frames) /\ channel \in Seq(Frames)
    BY <1>1, <2>1
  <2>5. QED BY <1>1, <1>2, <2>2, <2>3, <2>4 DEF Types
<1>5. Handlers
  BY <1>1, SilentSane DEF Handlers, Fits
<1>6. Bridge
  BY <1>1, <1>2 DEF Bridge
<1>7. ClientAt(Unsaid)
  <2>1. Unsaid \in {"idle", "unsaid"} /\ (Unsaid = "idle" <=> Streams) /\ (OverBridge => Streams)
    BY DEF Unsaid, OverBridge, Streams
  <2>2. ~EndSeen(Unsaid)
    BY <1>1, <2>1 DEF EndSeen
  <2>3. QED BY <1>2, <1>3, <2>1, <2>2 DEF ClientAt, Saw
<1>8. Unsaid \in Phase /\ HandlerPhase = Unsaid
  BY <1>1, SilentSane DEF Unsaid, Phase, HandlerPhase, PhaseOf
<1>9. Flow
  BY <1>1, <1>7, <1>8, LeadsNowhere DEF Flow
<1>10. Bounded
  BY <1>2, <1>3 DEF Bounded, Saw
<1>11. QED BY <1>4, <1>5, <1>6, <1>9, <1>10 DEF Inv

LEMMA StaysInv ==
  ASSUME Inv, UNCHANGED answerVars
  PROVE  Inv'
<1>1. /\ client' = client /\ ask' = ask /\ stage' = stage /\ calls' = calls /\ stream' = stream
      /\ emitter' = emitter /\ pending' = pending /\ channel' = channel /\ closed' = closed
      /\ aborted' = aborted /\ transcoder' = transcoder /\ status' = status /\ gone' = gone
      /\ seen' = seen
  BY DEF answerVars, upstream, bridge
<1>2. Types' /\ Handlers'
  BY <1>1 DEF Inv, Types, Handlers, Fits, Streams
<1>3. Bridge' /\ Bounded'
  BY <1>1 DEF Inv, Bridge, Bounded, OverBridge
<1>4. Flow'
  <2>1. HandlerPhase' = HandlerPhase /\ Live' = Live
    BY <1>1 DEF HandlerPhase, Unsaid, PhaseOf, Streams, Live
  <2>2. ASSUME NEW c \in Phase, ClientAt(c)
        PROVE  ClientAt(c)'
    BY <1>1, <2>2 DEF ClientAt, EndSeen, OverBridge, Streams
  <2>3. QED BY <1>1, <2>1, <2>2 DEF Inv, Flow
<1>5. QED BY <1>2, <1>3, <1>4 DEF Inv

LEMMA StepInv == Inv /\ [AnswerNext]_answerVars => Inv'
<1> SUFFICES ASSUME Inv, [AnswerNext]_answerVars PROVE Inv'
  OBVIOUS
<1>1. CASE Call \/ GiveUp
  BY <1>1, CallInv, GiveUpInv
<1>2. CASE Think
  BY <1>2, ThinkInv DEF Think
<1>3. CASE ResearchThink
  <2>1. IF Streams /\ ask # "required" THEN Emit(WriteThinking(emitter)) ELSE Quiet
    BY <1>3 DEF ResearchThink
  <2>2. QED BY <1>3, <2>1, ThinkInv DEF ResearchThink
<1>4. CASE Text \/ NativeTool
  BY <1>4, TextInv, NativeToolInv
<1>5. CASE CallEnds \/ ReportEnds
  BY <1>5, AnsweredInv DEF CallEnds, ReportEnds
<1>6. CASE CallFails \/ AnswerEmpty
  BY <1>6, CallFailsInv
<1>7. CASE AnswerText \/ AnswerResearch
  BY <1>7, AnswerTextInv, AnswerResearchInv
<1>8. CASE AnswerTools
  BY <1>8, AnswerToolsInv
<1>9. CASE AnswerWhole \/ ResearchWhole
  BY <1>9, WholeInv
<1>10. CASE SearchStepEnds \/ SearchText \/ SearchEnds
  BY <1>10, SearchStepEndsInv, SearchTextInv, SearchEndsInv
<1>11. CASE Write \/ Push
  BY <1>11, WriteInv, PushInv
<1>12. CASE Close \/ Transcode
  BY <1>12, CloseInv, TranscodeInv
<1>13. CASE Drained \/ ClientLeaves
  BY <1>13, DrainedInv, ClientLeavesInv
<1>14. CASE UNCHANGED answerVars
  BY <1>14, StaysInv
<1>15. QED BY <1>1, <1>2, <1>3, <1>4, <1>5, <1>6, <1>7, <1>8, <1>9, <1>10, <1>11, <1>12, <1>13, <1>14
           DEF AnswerNext

LEMMA InvAlways == AnswerSpec => []Inv
BY InitInv, StepInv, PTL DEF AnswerSpec

\* Type correctness, the capacity of the channel and the bounds on calls included.
THEOREM AnswerTypeCorrect == AnswerSpec => []AnswerTypeOK
<1>1. Inv => AnswerTypeOK
  BY StreamFields, SeenFields DEF Inv, Types, AnswerTypeOK, Stages
<1>2. QED BY <1>1, InvAlways, PTL

\* Whatever upstream does, however many accounts are tried, with every protocol and any
\* room in the bridge: an answer begins once and ends once, nothing comes after its end,
\* and a client that stays gets the end of an answer or an error.
THEOREM AnsweredOnce == AnswerSpec => []OneAnswer
<1>1. Inv => OneAnswer
  <2> SUFFICES ASSUME Inv PROVE OneAnswer
    OBVIOUS
  <2>1. ~seen.late /\ seen.begun <= 1 /\ seen.ended <= 1
    BY DEF Inv, Bounded
  <2>2. ASSUME AllOver, ~gone
        PROVE  seen.ended = 1
    <3>1. CASE transcoder.over
      BY <2>2, <3>1 DEF Inv, Bounded
    <3>2. CASE ~transcoder.over
      <4>1. ~OverBridge /\ stage = "over" /\ pending = <<>> /\ channel = <<>>
        BY <2>2, <3>2 DEF AllOver, Ready, Inv, Bridge
      <4>2. PICK c \in Phase, m \in Phase :
              ClientAt(c) /\ Leads(c, channel, m) /\ Leads(m, pending, HandlerPhase)
        BY <2>2, <3>2 DEF Inv, Flow, Live
      <4>3. m = c /\ HandlerPhase = m
        BY <4>1, <4>2, LeadsNowhere
      <4>4. EndSeen(c)
        BY <4>1, <4>3 DEF EndSeen, HandlerPhase
      <4>5. QED BY <4>2, <4>4 DEF ClientAt
    <3>3. QED BY <3>1, <3>2
  <2>3. QED BY <2>1, <2>2 DEF OneAnswer
<1>2. QED BY <1>1, InvAlways, PTL

-----------------------------------------------------------------------------
(* The parts of an answer. *)

\* Whether a thinking block may come: with the Responses protocol, where all thinking is
\* one item, it may as long as that is "fresh"; with the others it is "free".
Uses == {"free", "fresh", "used"}
Consumed(u) == IF u = "fresh" THEN "used" ELSE u

\* How far an answer is: its phase, the index of the part that is open or comes next, and
\* what is open.
Book == [at : Phase, next : Nat, part : Kinds, thinking : Uses]
Page(at, next, part, u) == [at |-> at, next |-> next, part |-> part, thinking |-> u]
Done == Page("over", 0, "none", "free")

\* The frames that may come, and where they lead: a part is opened at the next index while
\* none is open, written to and closed at that index, and none is open at the end.
Turns(b, f, c) ==
  \/ b.at = "idle" /\ f.event = "message_start" /\ c = Page("begun", b.next, b.part, b.thinking)
  \/ b.at = "unsaid" /\ f.event = "whole" /\ c = Done
  \/ /\ b.at = "begun" /\ b.part = "none" /\ f.event = "start" /\ f.index = b.next
     /\ f.kind = "thinking" /\ b.thinking # "used"
     /\ c = Page("begun", b.next, "thinking", Consumed(b.thinking))
  \/ /\ b.at = "begun" /\ b.part = "none" /\ f.event = "start" /\ f.index = b.next
     /\ f.kind \in {"text", "tool"}
     /\ c = Page("begun", b.next, f.kind, b.thinking)
  \/ /\ b.at = "begun" /\ b.part # "none" /\ f.event = "delta"
     /\ f.index = b.next /\ f.kind = b.part
     /\ c = b
  \/ /\ b.at = "begun" /\ b.part # "none" /\ f.event = "stop"
     /\ f.index = b.next /\ f.kind = b.part
     /\ c = Page("begun", b.next + 1, "none", b.thinking)
  \/ /\ b.at = "begun" /\ b.part = "none" /\ f.event = "message_delta"
     /\ c = Page("ending", b.next, "none", b.thinking)
  \/ b.at = "begun" /\ f.event = "error" /\ c = Done
  \/ b.at = "ending" /\ f.event = "message_stop" /\ c = Done

Turning == {m \in Book \X Frames \X Book : Turns(m[1], m[2], m[3])}

\* The frames q lead from page b to page c.
PartsLead(b, q, c) == Path(Book, Turning, b, q, c)

LEMMA PageFields ==
  ASSUME NEW at \in Phase, NEW next \in Nat, NEW part \in Kinds, NEW u \in Uses
  PROVE  /\ Page(at, next, part, u) \in Book
         /\ Page(at, next, part, u).at = at /\ Page(at, next, part, u).next = next
         /\ Page(at, next, part, u).part = part /\ Page(at, next, part, u).thinking = u
BY DEF Page, Book

LEMMA BookFields ==
  ASSUME NEW b \in Book
  PROVE  /\ b.at \in Phase /\ b.next \in Nat /\ b.part \in Kinds /\ b.thinking \in Uses
         /\ b = Page(b.at, b.next, b.part, b.thinking)
BY DEF Page, Book

LEMMA ConsumedUse ==
  ASSUME NEW u \in Uses
  PROVE  Consumed(u) \in Uses /\ Consumed(u) # "fresh" /\ (u = "free" <=> Consumed(u) = "free")
BY DEF Consumed, Uses

LEMMA Turned ==
  ASSUME NEW b \in Book, NEW f \in Frames, NEW c \in Book
  PROVE  <<b, f, c>> \in Turning <=> Turns(b, f, c)
<1>1. <<b, f, c>> \in Book \X Frames \X Book
  OBVIOUS
<1>2. <<b, f, c>>[1] = b /\ <<b, f, c>>[2] = f /\ <<b, f, c>>[3] = c
  OBVIOUS
<1>3. QED BY <1>1, <1>2 DEF Turning

\* The moves of the phases are those of the pages.
LEMMA TurnsMove ==
  ASSUME NEW b \in Book, NEW f \in Frames, NEW c \in Book, Turns(b, f, c)
  PROVE  <<b.at, f.event, c.at>> \in Moves
<1>1. /\ Done.at = "over"
      /\ \A next \in Nat, part \in Kinds, u \in Uses :
           Page("begun", next, part, u).at = "begun" /\ Page("ending", next, part, u).at = "ending"
  BY DEF Done, Page
<1>2. /\ b.next \in Nat /\ b.next + 1 \in Nat /\ b.part \in Kinds /\ b.thinking \in Uses
      /\ Consumed(b.thinking) \in Uses /\ {"none", "thinking", "text", "tool"} \subseteq Kinds
  BY BookFields, ConsumedUse DEF Kinds
<1>3. \/ b.at = "idle" /\ f.event = "message_start" /\ c.at = "begun"
      \/ b.at = "unsaid" /\ f.event = "whole" /\ c.at = "over"
      \/ b.at = "begun" /\ f.event \in Inner /\ c.at = "begun"
      \/ b.at = "begun" /\ f.event = "message_delta" /\ c.at = "ending"
      \/ b.at = "begun" /\ f.event = "error" /\ c.at = "over"
      \/ b.at = "ending" /\ f.event = "message_stop" /\ c.at = "over"
  BY <1>1, <1>2 DEF Turns, Inner
<1>4. QED BY <1>3 DEF Moves, Inner

LEMMA PartsLeadPhases ==
  ASSUME NEW b, NEW q \in Seq(Frames), NEW c, PartsLead(b, q, c)
  PROVE  Leads(b.at, q, c.at) /\ b \in Book /\ c \in Book
<1>1. PICK w \in [0 .. Len(q) -> Book] :
        /\ w[0] = b /\ w[Len(q)] = c
        /\ \A i \in 1 .. Len(q) : <<w[i - 1], q[i], w[i]>> \in Turning
  BY DEF PartsLead, Path
<1>2. Len(q) \in Nat /\ \A i \in 1 .. Len(q) : q[i] \in Frames
  BY LenProperties, ElementOfSeq
<1> DEFINE x == [i \in 0 .. Len(q) |-> w[i].at]
<1>3. \A i \in 0 .. Len(q) : w[i] \in Book /\ w[i].at \in Phase
  BY <1>1, BookFields
<1>4. x \in [0 .. Len(q) -> Phase] /\ x[0] = b.at /\ x[Len(q)] = c.at
  BY <1>1, <1>2, <1>3
<1>5. ASSUME NEW i \in 1 .. Len(q)
      PROVE  <<x[i - 1], q[i], x[i]>> \in FrameMoves
  <2>1. /\ i \in 0 .. Len(q) /\ i - 1 \in 0 .. Len(q)
        /\ x[i - 1] = w[i - 1].at /\ x[i] = w[i].at
    BY <1>2
  <2>2. Turns(w[i - 1], q[i], w[i])
    BY <1>1, <1>2, <1>3, <2>1, Turned
  <2>3. <<w[i - 1].at, q[i].event, w[i].at>> \in Moves
    BY <1>2, <1>3, <2>1, <2>2, TurnsMove
  <2> HIDE DEF x
  <2>4. QED BY <1>2, <1>3, <2>1, <2>3, FrameMoved
<1> HIDE DEF x
<1>6. Leads(b.at, q, c.at)
  BY <1>4, <1>5 DEF Leads, Path
<1>7. QED BY <1>6, PathPlaces DEF PartsLead

-----------------------------------------------------------------------------
(* What the closures of the handlers open and close. *)

PartOf(e) == IF e.thinking THEN "thinking" ELSE IF e.text THEN "text" ELSE "none"
PageOf(e, u) == Page(PhaseOf(e), e.index, PartOf(e), u)

\* What e has to send leads from page b to its own.
Neat(b, e, u) ==
  /\ e \in EmitterType /\ u \in Uses
  /\ e.thinking \/ e.text => e.started
  /\ e.started \/ e = Silent
  /\ ~(e.thinking /\ e.text)
  /\ e.thinking => u # "fresh"
  /\ PartsLead(b, e.out, PageOf(e, u))

LEMMA PageOfFields ==
  ASSUME NEW e \in EmitterType, NEW u \in Uses
  PROVE  /\ PageOf(e, u) \in Book
         /\ PageOf(e, u).at = PhaseOf(e) /\ PageOf(e, u).next = e.index
         /\ PageOf(e, u).part = PartOf(e) /\ PageOf(e, u).thinking = u
<1>1. PhaseOf(e) \in Phase /\ e.index \in Nat /\ PartOf(e) \in Kinds
  BY PhaseType, EmitterFields DEF PartOf, Kinds
<1>2. QED BY <1>1, PageFields DEF PageOf

\* Sending a frame.
LEMMA PartSends ==
  ASSUME NEW b, NEW e \in EmitterType, NEW c, PartsLead(b, e.out, c),
         NEW f \in Frames, NEW d \in Book, Turns(c, f, d)
  PROVE  /\ Send(e, f) \in EmitterType /\ PartsLead(b, Send(e, f).out, d)
         /\ Send(e, f).started = e.started /\ Send(e, f).index = e.index
         /\ Send(e, f).thinking = e.thinking /\ Send(e, f).text = e.text
<1>1. e.out \in Seq(Frames)
  BY EmitterFields
<1>2. c \in Book
  BY <1>1, PathPlaces DEF PartsLead
<1>3. Append(e.out, f) \in Seq(Frames) /\ PartsLead(b, Append(e.out, f), d)
  BY <1>1, <1>2, PathOn, Turned DEF PartsLead
<1>4. Send(e, f) = [e EXCEPT !.out = Append(e.out, f)]
  BY DEF Send
<1>5. Send(e, f).out = Append(e.out, f)
  BY <1>4 DEF EmitterType
<1>6. Send(e, f) \in EmitterType
  BY <1>3, <1>4 DEF EmitterType
<1>7. QED BY <1>3, <1>4, <1>5, <1>6 DEF EmitterType

LEMMA EventFields ==
  ASSUME NEW i \in Nat, NEW k \in Kinds,
         NEW v \in Inner \cup {"message_start", "message_delta", "message_stop", "error", "whole"}
  PROVE  /\ Event(v, i, k) \in Frames /\ Event(v, i, k).event = v
         /\ Event(v, i, k).index = i /\ Event(v, i, k).kind = k
BY DEF Event, Frames, Kinds, Inner

LEMMA HeadersNeat ==
  ASSUME NEW b, NEW e, NEW u, Neat(b, e, u), Streams
  PROVE  /\ Neat(b, Headers(e), u) /\ Headers(e).started = TRUE
         /\ Headers(e).thinking = e.thinking /\ Headers(e).text = e.text
         /\ Headers(e).index = e.index
<1>1. e \in EmitterType /\ u \in Uses /\ e.started \in BOOLEAN
  BY EmitterFields DEF Neat
<1>2. CASE e.started
  BY <1>1, <1>2 DEF Headers
<1>3. CASE ~e.started
  <2> DEFINE h == [e EXCEPT !.started = TRUE]
             f == Event("message_start", 0, "none")
  <2>1. /\ h \in EmitterType /\ h.started = TRUE /\ h.out = e.out /\ h.index = e.index
        /\ h.thinking = e.thinking /\ h.text = e.text
    BY <1>1 DEF EmitterType
  <2>2. f \in Frames /\ f.event = "message_start"
    BY EventFrame DEF Kinds
  <2>3. Headers(e) = Send(h, f)
    BY <1>3 DEF Headers
  <2> HIDE DEF h, f
  <2>4. PageOf(e, u).at = "idle"
    BY <1>1, <1>3, PageOfFields DEF PhaseOf
  <2>5. PageOf(h, u) = Page("begun", PageOf(e, u).next, PageOf(e, u).part, PageOf(e, u).thinking)
    BY <1>1, <2>1, PageOfFields DEF PageOf, PhaseOf, PartOf
  <2>6. Turns(PageOf(e, u), f, PageOf(h, u))
    BY <2>2, <2>4, <2>5 DEF Turns
  <2>7. PageOf(h, u) \in Book /\ PartsLead(b, h.out, PageOf(e, u))
    BY <1>1, <2>1, PageOfFields DEF Neat
  <2>8. /\ Send(h, f) \in EmitterType /\ PartsLead(b, Send(h, f).out, PageOf(h, u))
        /\ Send(h, f).started = h.started /\ Send(h, f).index = h.index
        /\ Send(h, f).thinking = h.thinking /\ Send(h, f).text = h.text
    BY <2>1, <2>2, <2>6, <2>7, PartSends
  <2>9. PageOf(Send(h, f), u) = PageOf(h, u)
    BY <2>8 DEF PageOf, PhaseOf, PartOf
  <2>10. QED BY <1>1, <2>1, <2>3, <2>8, <2>9 DEF Neat
<1>4. QED BY <1>2, <1>3

\* Thinking is opened, if nothing is open.
LEMMA StartThinkingNeat ==
  ASSUME NEW b, NEW e, NEW u, Neat(b, e, u), e.started, ~e.thinking, ~e.text, u # "used",
         NEW o, o = [Start(e, "thinking") EXCEPT !.thinking = TRUE]
  PROVE  Neat(b, o, Consumed(u)) /\ o.started = TRUE /\ o.thinking = TRUE /\ o.text = FALSE
<1> DEFINE f == Event("start", e.index, "thinking")
           s == Send(e, f)
<1>1. /\ e \in EmitterType /\ u \in Uses /\ e.index \in Nat /\ PartsLead(b, e.out, PageOf(e, u))
      /\ e.started = TRUE /\ e.text = FALSE
  BY EmitterFields DEF Neat
<1>2. f \in Frames /\ f.event = "start" /\ f.index = e.index /\ f.kind = "thinking"
  BY <1>1, EventFields DEF Kinds, Inner
<1>3. o = [s EXCEPT !.thinking = TRUE]
  BY DEF Start
<1> HIDE DEF f
<1> DEFINE d == Page("begun", e.index, "thinking", Consumed(u))
<1>4. d \in Book
  <2>1. "begun" \in Phase /\ "thinking" \in Kinds
    BY DEF Phase, Kinds
  <2>2. QED BY <1>1, <2>1, ConsumedUse, PageFields
<1>5. Turns(PageOf(e, u), f, d)
  BY <1>1, <1>2, PageOfFields DEF Turns, PartOf, PhaseOf
<1> HIDE DEF d
<1>6. /\ s \in EmitterType /\ PartsLead(b, s.out, d) /\ s.started = TRUE /\ s.index = e.index
      /\ s.text = FALSE
  BY <1>1, <1>2, <1>4, <1>5, PartSends
<1> HIDE DEF s
<1>7. /\ o \in EmitterType /\ o.out = s.out /\ o.started = TRUE /\ o.thinking = TRUE /\ o.text = FALSE
      /\ o.index = e.index
  BY <1>3, <1>6 DEF EmitterType
<1>8. PageOf(o, Consumed(u)) = d
  BY <1>7 DEF d, PageOf, PhaseOf, PartOf
<1>9. QED BY <1>1, <1>6, <1>7, <1>8, ConsumedUse DEF Neat

\* Text is opened, if nothing is open.
LEMMA StartTextNeat ==
  ASSUME NEW b, NEW e, NEW u, Neat(b, e, u), e.started, ~e.thinking, ~e.text,
         NEW o, o = [Start(e, "text") EXCEPT !.text = TRUE]
  PROVE  Neat(b, o, u) /\ o.started = TRUE /\ o.thinking = FALSE /\ o.text = TRUE
<1> DEFINE f == Event("start", e.index, "text")
           s == Send(e, f)
<1>1. /\ e \in EmitterType /\ u \in Uses /\ e.index \in Nat /\ PartsLead(b, e.out, PageOf(e, u))
      /\ e.started = TRUE /\ e.thinking = FALSE
  BY EmitterFields DEF Neat
<1>2. f \in Frames /\ f.event = "start" /\ f.index = e.index /\ f.kind = "text"
  BY <1>1, EventFields DEF Kinds, Inner
<1>3. o = [s EXCEPT !.text = TRUE]
  BY DEF Start
<1> HIDE DEF f
<1> DEFINE d == Page("begun", e.index, "text", u)
<1>4. d \in Book
  <2>1. "begun" \in Phase /\ "text" \in Kinds
    BY DEF Phase, Kinds
  <2>2. QED BY <1>1, <2>1, PageFields
<1>5. Turns(PageOf(e, u), f, d)
  BY <1>1, <1>2, PageOfFields DEF Turns, PartOf, PhaseOf
<1> HIDE DEF d
<1>6. /\ s \in EmitterType /\ PartsLead(b, s.out, d) /\ s.started = TRUE /\ s.index = e.index
      /\ s.thinking = FALSE
  BY <1>1, <1>2, <1>4, <1>5, PartSends
<1> HIDE DEF s
<1>7. /\ o \in EmitterType /\ o.out = s.out /\ o.started = TRUE /\ o.thinking = FALSE /\ o.text = TRUE
      /\ o.index = e.index
  BY <1>3, <1>6 DEF EmitterType
<1>8. PageOf(o, u) = d
  BY <1>7 DEF d, PageOf, PhaseOf, PartOf
<1>9. QED BY <1>1, <1>6, <1>7, <1>8 DEF Neat

\* What is open is written to.
StaysNeat(b, e, u, o) ==
  Neat(b, o, u) /\ o.started = TRUE /\ o.thinking = e.thinking /\ o.text = e.text

LEMMA DeltaNeat ==
  ASSUME NEW b, NEW e, NEW u, Neat(b, e, u), PartOf(e) # "none"
  PROVE  StaysNeat(b, e, u, Delta(e, PartOf(e)))
<1> DEFINE o == Delta(e, PartOf(e))
           k == PartOf(e)
           f == Event("delta", e.index, k)
<1>1. /\ k \in Kinds /\ k # "none" /\ e \in EmitterType /\ u \in Uses /\ e.index \in Nat /\ PartsLead(b, e.out, PageOf(e, u))
      /\ e.started = TRUE
  BY EmitterFields DEF Neat, PartOf, Kinds
<1>2. f \in Frames /\ f.event = "delta" /\ f.index = e.index /\ f.kind = k
  BY <1>1, EventFields DEF Inner
<1>3. o = Send(e, f)
  BY DEF Delta
<1> HIDE DEF f, k, o
<1>4. PageOf(e, u) \in Book /\ Turns(PageOf(e, u), f, PageOf(e, u))
  BY <1>1, <1>2, PageOfFields DEF Turns, PhaseOf, k
<1>5. /\ o \in EmitterType /\ PartsLead(b, o.out, PageOf(e, u)) /\ o.started = TRUE /\ o.index = e.index
      /\ o.thinking = e.thinking /\ o.text = e.text
  BY <1>1, <1>2, <1>3, <1>4, PartSends
<1>6. PageOf(o, u) = PageOf(e, u)
  BY <1>1, <1>5 DEF PageOf, PhaseOf, PartOf
<1>7. QED BY <1>1, <1>5, <1>6 DEF Neat, StaysNeat, o

\* What is open is closed.
Shut(e, k) == [Stop(e, k) EXCEPT !.thinking = FALSE, !.text = FALSE]

LEMMA ShutNeat ==
  ASSUME NEW b, NEW e, NEW u, Neat(b, e, u), NEW k \in Kinds, PartOf(e) = k, k # "none",
         NEW o, o = Shut(e, k)
  PROVE  Neat(b, o, u) /\ o.started = TRUE /\ o.thinking = FALSE /\ o.text = FALSE
<1> DEFINE f == Event("stop", e.index, k)
           s == Send(e, f)
           n == [s EXCEPT !.index = s.index + 1]
<1>1. /\ e \in EmitterType /\ u \in Uses /\ e.index \in Nat /\ PartsLead(b, e.out, PageOf(e, u))
      /\ e.started = TRUE
  BY EmitterFields DEF Neat, PartOf
<1>2. f \in Frames /\ f.event = "stop" /\ f.index = e.index /\ f.kind = k
  BY <1>1, EventFields DEF Inner
<1>3. o = [n EXCEPT !.thinking = FALSE, !.text = FALSE]
  BY DEF Shut, Stop
<1> HIDE DEF f
<1> DEFINE d == Page("begun", e.index + 1, "none", u)
<1>4. d \in Book
  <2>1. "begun" \in Phase /\ "none" \in Kinds /\ e.index + 1 \in Nat
    BY <1>1 DEF Phase, Kinds
  <2>2. QED BY <1>1, <2>1, PageFields
<1>5. Turns(PageOf(e, u), f, d)
  BY <1>1, <1>2, PageOfFields DEF Turns, PhaseOf
<1> HIDE DEF d
<1>6. /\ s \in EmitterType /\ PartsLead(b, s.out, d) /\ s.started = TRUE /\ s.index = e.index
  BY <1>1, <1>2, <1>4, <1>5, PartSends
<1> HIDE DEF s
<1>7. n \in EmitterType /\ n.out = s.out /\ n.started = TRUE /\ n.index = e.index + 1
  BY <1>1, <1>6 DEF EmitterType
<1> HIDE DEF n
<1>8. /\ o \in EmitterType /\ o.out = s.out /\ o.started = TRUE /\ o.thinking = FALSE /\ o.text = FALSE
      /\ o.index = e.index + 1
  BY <1>3, <1>7 DEF EmitterType
<1>9. PageOf(o, u) = d
  BY <1>8 DEF d, PageOf, PhaseOf, PartOf
<1>10. QED BY <1>1, <1>6, <1>8, <1>9 DEF Neat

LEMMA StopType ==
  ASSUME NEW e \in EmitterType, NEW k \in Kinds
  PROVE  Stop(e, k) \in EmitterType /\ Stop(e, k).text = e.text /\ Stop(e, k).thinking = e.thinking
<1> DEFINE f == Event("stop", e.index, k)
<1>1. e.index \in Nat /\ e.out \in Seq(Frames)
  BY EmitterFields
<1>2. f \in Frames
  BY <1>1, EventFields DEF Inner
<1>3. Append(e.out, f) \in Seq(Frames) /\ e.index + 1 \in Nat
  BY <1>1, <1>2, AppendProperties
<1> DEFINE s == [e EXCEPT !.out = Append(e.out, f)]
<1>4. Stop(e, k) = [s EXCEPT !.index = s.index + 1]
  BY DEF Stop, Send
<1> HIDE DEF f
<1>5. s \in EmitterType /\ s.index = e.index /\ s.text = e.text /\ s.thinking = e.thinking
  BY <1>1, <1>3 DEF EmitterType
<1> HIDE DEF s
<1>6. QED BY <1>3, <1>4, <1>5 DEF EmitterType

LEMMA CloseThinkingNeat ==
  ASSUME NEW b, NEW e, NEW u, Neat(b, e, u)
  PROVE  /\ Neat(b, CloseThinking(e), u) /\ CloseThinking(e).thinking = FALSE
         /\ CloseThinking(e).started = e.started /\ CloseThinking(e).text = e.text
<1>1. e \in EmitterType /\ e.thinking \in BOOLEAN /\ e.text \in BOOLEAN /\ e.started \in BOOLEAN
  BY EmitterFields DEF Neat
<1>2. CASE e.thinking
  <2>1. PartOf(e) = "thinking" /\ "thinking" \in Kinds /\ e.text = FALSE /\ e.started = TRUE
    BY <1>1, <1>2 DEF PartOf, Kinds, Neat
  <2>2. Stop(e, "thinking") \in EmitterType /\ Stop(e, "thinking").text = FALSE
    BY <1>1, <2>1, StopType
  <2>3. CloseThinking(e) = Shut(e, "thinking")
    BY <1>2, <2>2 DEF CloseThinking, Shut, EmitterType
  <2>4. /\ Neat(b, CloseThinking(e), u) /\ CloseThinking(e).thinking = FALSE
        /\ CloseThinking(e).started = TRUE /\ CloseThinking(e).text = FALSE
    BY <2>1, <2>3, ShutNeat
  <2>5. QED BY <2>1, <2>4
<1>3. CASE ~e.thinking
  BY <1>1, <1>3 DEF CloseThinking
<1>4. QED BY <1>2, <1>3

LEMMA CloseTextNeat ==
  ASSUME NEW b, NEW e, NEW u, Neat(b, e, u), ~e.thinking
  PROVE  /\ Neat(b, CloseText(e), u) /\ CloseText(e).thinking = FALSE
         /\ CloseText(e).started = e.started /\ CloseText(e).text = FALSE
<1>1. e \in EmitterType /\ e.thinking = FALSE /\ e.text \in BOOLEAN /\ e.started \in BOOLEAN
  BY EmitterFields DEF Neat
<1>2. CASE e.text
  <2>1. PartOf(e) = "text" /\ "text" \in Kinds /\ e.started = TRUE
    BY <1>1, <1>2 DEF PartOf, Kinds, Neat
  <2>2. Stop(e, "text") \in EmitterType /\ Stop(e, "text").thinking = FALSE
    BY <1>1, <2>1, StopType
  <2>3. CloseText(e) = Shut(e, "text")
    BY <1>2, <2>2 DEF CloseText, Shut, EmitterType
  <2>4. /\ Neat(b, CloseText(e), u) /\ CloseText(e).thinking = FALSE
        /\ CloseText(e).started = TRUE /\ CloseText(e).text = FALSE
    BY <2>1, <2>3, ShutNeat
  <2>5. QED BY <2>1, <2>4
<1>3. CASE ~e.text
  BY <1>1, <1>3 DEF CloseText
<1>4. QED BY <1>2, <1>3

LEMMA WriteThinkingNeat ==
  ASSUME NEW b, NEW e, NEW u, Neat(b, e, u), Streams, ~e.text, e.thinking \/ u # "used"
  PROVE  /\ Neat(b, WriteThinking(e), Consumed(u)) /\ WriteThinking(e).started = TRUE
         /\ WriteThinking(e).thinking = TRUE /\ WriteThinking(e).text = FALSE
<1> DEFINE h == Headers(e)
           o == IF h.thinking THEN h ELSE [Start(h, "thinking") EXCEPT !.thinking = TRUE]
<1>1. /\ Neat(b, h, u) /\ h.started = TRUE /\ h.thinking = e.thinking /\ h.text = FALSE
      /\ e.thinking \in BOOLEAN
  BY HeadersNeat, EmitterFields DEF Neat
<1>2. WriteThinking(e) = Delta(o, "thinking")
  BY DEF WriteThinking
<1> HIDE DEF h
<1>3. Neat(b, o, Consumed(u)) /\ o.thinking = TRUE /\ o.text = FALSE
  <2>1. CASE h.thinking
    <3>1. u # "fresh" /\ Consumed(u) = u /\ o = h /\ h.thinking = TRUE
      BY <1>1, <2>1 DEF Neat, Consumed
    <3>2. QED BY <1>1, <3>1
  <2>2. CASE ~h.thinking
    <3>1. o = [Start(h, "thinking") EXCEPT !.thinking = TRUE]
      BY <2>2
    <3> HIDE DEF o
    <3>2. u # "used"
      BY <1>1, <2>2
    <3>3. QED BY <1>1, <2>2, <3>1, <3>2, StartThinkingNeat
  <2>3. QED BY <2>1, <2>2
<1> HIDE DEF o
<1>4. PartOf(o) = "thinking" /\ "thinking" \in Kinds /\ "thinking" # "none"
  BY <1>3 DEF PartOf, Kinds
<1> DEFINE w == WriteThinking(e)
<1>5. w = Delta(o, PartOf(o))
  BY <1>2, <1>4
<1> HIDE DEF w
<1>6. StaysNeat(b, o, Consumed(u), w)
  BY <1>3, <1>4, <1>5, DeltaNeat
<1>7. QED BY <1>3, <1>6 DEF w, StaysNeat

LEMMA WriteTextNeat ==
  ASSUME NEW b, NEW e, NEW u, Neat(b, e, u), Streams, ~e.thinking
  PROVE  /\ Neat(b, WriteText(e), u) /\ WriteText(e).started = TRUE
         /\ WriteText(e).thinking = FALSE /\ WriteText(e).text = TRUE
<1> DEFINE h == IF ask \in {"tools", "required"} THEN CloseThinking(Headers(e)) ELSE Headers(e)
           o == IF h.text THEN h ELSE [Start(h, "text") EXCEPT !.text = TRUE]
<1>1. /\ Neat(b, h, u) /\ h.started = TRUE /\ h.thinking = FALSE /\ h.text \in BOOLEAN
  <2>1. /\ Neat(b, Headers(e), u) /\ Headers(e).started = TRUE /\ Headers(e).thinking = FALSE
        /\ Headers(e).text \in BOOLEAN
    BY HeadersNeat, EmitterFields DEF Neat
  <2>2. CASE ask \in {"tools", "required"}
    BY <2>1, <2>2, CloseThinkingNeat
  <2>3. CASE ask \notin {"tools", "required"}
    BY <2>1, <2>3
  <2>4. QED BY <2>2, <2>3
<1>2. WriteText(e) = Delta(o, "text")
  BY DEF WriteText
<1> HIDE DEF h
<1>3. Neat(b, o, u) /\ o.thinking = FALSE /\ o.text = TRUE
  <2>1. CASE h.text
    BY <1>1, <2>1
  <2>2. CASE ~h.text
    <3>1. o = [Start(h, "text") EXCEPT !.text = TRUE]
      BY <2>2
    <3> HIDE DEF o
    <3>2. QED BY <1>1, <2>2, <3>1, StartTextNeat
  <2>3. QED BY <2>1, <2>2
<1> HIDE DEF o
<1>4. PartOf(o) = "text" /\ "text" \in Kinds /\ "text" # "none"
  BY <1>3 DEF PartOf, Kinds
<1> DEFINE w == WriteText(e)
<1>5. w = Delta(o, PartOf(o))
  BY <1>2, <1>4
<1> HIDE DEF w
<1>6. StaysNeat(b, o, u, w)
  BY <1>3, <1>4, <1>5, DeltaNeat
<1>7. QED BY <1>3, <1>6 DEF w, StaysNeat

LEMMA FinishedNeat ==
  ASSUME NEW b, NEW e, NEW u, Neat(b, e, u), Streams, ~e.thinking, ~e.text
  PROVE  PartsLead(b, Finished(e).out, Done)
<1> DEFINE h == Headers(e)
           f == Event("message_delta", 0, "none")
           g == Event("message_stop", 0, "none")
           d == Page("ending", h.index, "none", u)
<1>1. /\ h \in EmitterType /\ u \in Uses /\ h.index \in Nat /\ PartsLead(b, h.out, PageOf(h, u))
      /\ h.started = TRUE /\ ~h.thinking /\ ~h.text
  BY HeadersNeat, EmitterFields DEF Neat
<1>2. f \in Frames /\ f.event = "message_delta" /\ g \in Frames /\ g.event = "message_stop"
  BY EventFrame DEF Kinds
<1>3. Finished(e) = Send(Send(h, f), g)
  BY DEF Finished
<1> HIDE DEF h, f, g
<1>4. d \in Book /\ d.at = "ending" /\ Done \in Book
  <2>1. {"ending", "over"} \subseteq Phase /\ "none" \in Kinds /\ "free" \in Uses /\ 0 \in Nat
    BY DEF Phase, Kinds, Uses
  <2>2. QED BY <1>1, <2>1, PageFields DEF Done
<1>5. Turns(PageOf(h, u), f, d)
  BY <1>1, <1>2, PageOfFields DEF Turns, PartOf, PhaseOf
<1>6. Turns(d, g, Done)
  BY <1>2, <1>4 DEF Turns
<1> HIDE DEF d
<1>7. Send(h, f) \in EmitterType /\ PartsLead(b, Send(h, f).out, d)
  BY <1>1, <1>2, <1>4, <1>5, PartSends
<1>8. QED BY <1>2, <1>3, <1>4, <1>6, <1>7, PartSends

LEMMA InterruptedNeat ==
  ASSUME NEW b, NEW e, NEW u, Neat(b, e, u), e.started
  PROVE  PartsLead(b, Interrupted(e).out, Done)
<1> DEFINE f == Event("error", 0, "none")
<1>1. /\ e \in EmitterType /\ u \in Uses /\ PartsLead(b, e.out, PageOf(e, u))
  BY DEF Neat
<1>2. f \in Frames /\ f.event = "error"
  BY EventFrame DEF Kinds
<1>3. Interrupted(e) = Send(e, f)
  BY DEF Interrupted
<1> HIDE DEF f
<1>4. Done \in Book
  <2>1. "over" \in Phase /\ "none" \in Kinds /\ "free" \in Uses /\ 0 \in Nat
    BY DEF Phase, Kinds, Uses
  <2>2. QED BY <2>1, PageFields DEF Done
<1>5. Turns(PageOf(e, u), f, Done)
  BY <1>1, <1>2, PageOfFields DEF Turns, PhaseOf
<1>6. QED BY <1>1, <1>2, <1>3, <1>4, <1>5, PartSends

-----------------------------------------------------------------------------
(* Blocks that come in one piece. *)

\* Nothing is open of an answer that has begun.
Between(b, e, u) == Neat(b, e, u) /\ e.started = TRUE /\ e.thinking = FALSE /\ e.text = FALSE

LEMMA AddedNeat ==
  ASSUME NEW b, NEW e, NEW u, Between(b, e, u), NEW q \in Seq(Frames), NEW i \in Nat, NEW v \in Uses,
         PartsLead(PageOf(e, u), q, Page("begun", i, "none", v))
  PROVE  Between(b, Added(e, i, q), v)
<1> DEFINE o == Added(e, i, q)
<1>1. /\ e \in EmitterType /\ e.out \in Seq(Frames) /\ PartsLead(b, e.out, PageOf(e, u))
      /\ e.started = TRUE /\ e.thinking = FALSE /\ e.text = FALSE
  BY EmitterFields DEF Neat, Between
<1>2. /\ e.out \o q \in Seq(Frames)
      /\ PartsLead(b, e.out \o q, Page("begun", i, "none", v))
  BY <1>1, PathThrough DEF PartsLead
<1>3. /\ o \in EmitterType /\ o.out = e.out \o q /\ o.index = i
      /\ o.started = TRUE /\ o.thinking = FALSE /\ o.text = FALSE
  BY <1>1, <1>2 DEF Added, EmitterType
<1> HIDE DEF o
<1>4. PageOf(o, v) = Page("begun", i, "none", v)
  BY <1>3 DEF PageOf, PhaseOf, PartOf
<1>5. Between(b, o, v)
  BY <1>2, <1>3, <1>4 DEF Between, Neat
<1>6. QED BY <1>5 DEF o

\* A block is opened, written to and closed.
UseAfter(k, u) == IF k = "thinking" THEN Consumed(u) ELSE u

LEMMA BlockLeads ==
  ASSUME NEW i \in Nat, NEW u \in Uses, NEW k \in {"thinking", "text", "tool"},
         k = "thinking" => u # "used"
  PROVE  PartsLead(Page("begun", i, "none", u),
                   <<Event("start", i, k), Event("delta", i, k), Event("stop", i, k)>>,
                   Page("begun", i + 1, "none", UseAfter(k, u)))
<1> DEFINE v == UseAfter(k, u)
           q == <<Event("start", i, k), Event("delta", i, k), Event("stop", i, k)>>
           b == Page("begun", i, "none", u)
           c == Page("begun", i, k, v)
           d == Page("begun", i + 1, "none", v)
           w == [n \in 0 .. 3 |-> IF n = 0 THEN b ELSE IF n = 3 THEN d ELSE c]
<1>1. v \in Uses /\ i + 1 \in Nat /\ {"none", k} \subseteq Kinds /\ "begun" \in Phase
  BY ConsumedUse DEF UseAfter, Kinds, Phase
<1>2. /\ b \in Book /\ b.at = "begun" /\ b.next = i /\ b.part = "none" /\ b.thinking = u
      /\ c \in Book /\ c.at = "begun" /\ c.next = i /\ c.part = k /\ c.thinking = v
      /\ d \in Book
  <2> HIDE DEF v
  <2>1. QED BY <1>1, PageFields
<1>3. /\ q[1] \in Frames /\ q[1].event = "start" /\ q[1].index = i /\ q[1].kind = k
      /\ q[2] \in Frames /\ q[2].event = "delta" /\ q[2].index = i /\ q[2].kind = k
      /\ q[3] \in Frames /\ q[3].event = "stop" /\ q[3].index = i /\ q[3].kind = k
  BY <1>1, EventFields DEF Inner
<1>4. Len(q) = 3
  OBVIOUS
<1> HIDE DEF q
<1>5. Turns(b, q[1], c) /\ Turns(c, q[2], c) /\ Turns(c, q[3], d)
  <2>1. Turns(b, q[1], c)
    <3>1. CASE k = "thinking"
      <4>1. v = Consumed(u)
        BY <3>1 DEF UseAfter
      <4>2. QED BY <1>2, <1>3, <3>1, <4>1 DEF Turns
    <3>2. CASE k # "thinking"
      <4>1. v = u
        BY <3>2 DEF UseAfter
      <4>2. QED BY <1>2, <1>3, <3>2, <4>1 DEF Turns
    <3>3. QED BY <3>1, <3>2
  <2> HIDE DEF b
  <2>2. Turns(c, q[2], c)
    <3> HIDE DEF c
    <3>1. QED BY <1>2, <1>3 DEF Turns
  <2>3. Turns(c, q[3], d)
    <3>1. d = Page("begun", c.next + 1, "none", c.thinking)
      BY <1>2
    <3> HIDE DEF c, d
    <3>2. QED BY <1>2, <1>3, <3>1 DEF Turns
  <2>4. QED BY <2>1, <2>2, <2>3
<1> HIDE DEF b, c, d
<1>6. w \in [0 .. Len(q) -> Book] /\ w[0] = b /\ w[Len(q)] = d
  BY <1>2, <1>4
<1>7. ASSUME NEW n \in 1 .. Len(q)
      PROVE  <<w[n - 1], q[n], w[n]>> \in Turning
  <2>1. <<b, q[1], c>> \in Turning /\ <<c, q[2], c>> \in Turning /\ <<c, q[3], d>> \in Turning
    BY <1>2, <1>3, <1>5, Turned
  <2>2. w[0] = b /\ w[1] = c /\ w[2] = c /\ w[3] = d
    OBVIOUS
  <2>3. (n = 1 /\ n - 1 = 0) \/ (n = 2 /\ n - 1 = 1) \/ (n = 3 /\ n - 1 = 2)
    BY <1>4
  <2> HIDE DEF w
  <2>4. QED BY <2>1, <2>2, <2>3
<1> HIDE DEF w
<1>8. PartsLead(b, q, d)
  BY <1>6, <1>7 DEF PartsLead, Path
<1>9. QED BY <1>8 DEF b, q, d

LEMMA BlockNeat ==
  ASSUME NEW b, NEW e, NEW u, Neat(b, e, u), Streams, ~e.thinking, ~e.text,
         NEW k \in {"thinking", "text", "tool"}, k = "thinking" => u # "used"
  PROVE  Between(b, Block(e, k), UseAfter(k, u))
<1> DEFINE h == Headers(e)
           q == <<Event("start", e.index, k), Event("delta", e.index, k), Event("stop", e.index, k)>>
           v == UseAfter(k, u)
<1>1. Between(b, h, u) /\ h.index = e.index /\ e.index \in Nat /\ u \in Uses /\ v \in Uses
  BY HeadersNeat, EmitterFields, ConsumedUse DEF Neat, Between, UseAfter
<1>2. q \in Seq(Frames)
  <2>1. k \in Kinds
    BY DEF Kinds
  <2>2. \A x \in Inner : Event(x, e.index, k) \in Frames
    BY <1>1, <2>1, EventFields
  <2>3. QED BY <2>2 DEF Inner
<1>3. Block(e, k) = Added(h, h.index + 1, q)
  BY DEF Block, Added
<1> HIDE DEF v
<1>4. PartsLead(Page("begun", e.index, "none", u), q, Page("begun", e.index + 1, "none", v))
  BY <1>1, BlockLeads DEF v
<1>5. PageOf(h, u) = Page("begun", e.index, "none", u)
  BY <1>1 DEF PageOf, PhaseOf, PartOf, Between
<1> HIDE DEF h, q
<1>6. e.index + 1 \in Nat
  BY <1>1
<1>7. Between(b, Added(h, e.index + 1, q), v)
  BY <1>1, <1>2, <1>4, <1>5, <1>6, AddedNeat
<1>8. QED BY <1>1, <1>3, <1>7 DEF v

LEMMA Thirds ==
  ASSUME NEW j \in Nat, j >= 1
  PROVE  /\ j \div 3 \in Nat /\ (j - 1) \div 3 \in Nat
         /\ j % 3 = 1 => (j - 1) % 3 = 0 /\ j \div 3 = (j - 1) \div 3
         /\ j % 3 = 2 => (j - 1) % 3 = 1 /\ j \div 3 = (j - 1) \div 3
         /\ j % 3 = 0 => (j - 1) % 3 = 2 /\ j \div 3 = (j - 1) \div 3 + 1
         /\ j % 3 \in {0, 1, 2}
OBVIOUS

\* With n blocks of thinking sent, s is ready to send more.
Thoughtful(b, s, n, u) ==
  \E v \in Uses : Neat(b, s, v) /\ s.started = TRUE /\ s.thinking = FALSE
                  /\ v = (IF n = 0 THEN u ELSE Consumed(u))

\* The thinking of a search, in any number of blocks, or in one with the Responses protocol.
LEMMA SendBlocksNeat ==
  ASSUME NEW b, NEW e, NEW u, Neat(b, e, u), Streams, e.started, ~e.thinking, NEW n \in Nat,
         n > 0 => ~e.text /\ (u = "free" \/ (u = "fresh" /\ n = 1))
  PROVE  Thoughtful(b, SendBlocks(e, n), n, u)
<1>1. e \in EmitterType /\ u \in Uses /\ e.started = TRUE /\ e.thinking = FALSE
  BY EmitterFields DEF Neat
<1>2. CASE n = 0
  BY <1>1, <1>2 DEF SendBlocks, Thoughtful
<1>3. CASE n # 0
  <2> DEFINE h == Headers(e)
             event(i) == CASE i % 3 = 1 -> "start" [] i % 3 = 2 -> "delta" [] OTHER -> "stop"
             frame(i) == Event(event(i), h.index + (i - 1) \div 3, "thinking")
             q == [i \in 1 .. 3 * n |-> frame(i)]
             v(j) == IF j = 0 THEN u ELSE Consumed(u)
             part(j) == IF j % 3 = 0 THEN "none" ELSE "thinking"
             page(j) == Page("begun", h.index + j \div 3, part(j), v(j))
             w == [j \in 0 .. 3 * n |-> page(j)]
  <2>1. ~e.text /\ (u = "free" \/ (u = "fresh" /\ n = 1)) /\ n >= 1
    BY <1>3
  <2>2. Between(b, h, u) /\ h.index \in Nat
    BY <1>1, <2>1, HeadersNeat, EmitterFields DEF Neat, Between
  <2>3. SendBlocks(e, n) = Added(h, h.index + n, q)
    BY <1>3 DEF SendBlocks, Added
  <2>4. 3 * n \in Nat /\ h.index + n \in Nat /\ 3 * n >= 3
    BY <2>1, <2>2
  <2> HIDE DEF h
  <2>5. \A j \in Nat : v(j) \in Uses /\ (n > 1 => v(j) = "free") /\ (j >= 1 => v(j) = Consumed(u))
    BY <1>1, <2>1, ConsumedUse DEF Consumed
  <2>6. \A j \in Nat : page(j) \in Book /\ page(j).at = "begun" /\ page(j).next = h.index + j \div 3
                       /\ page(j).part = part(j) /\ page(j).thinking = v(j)
    <3> SUFFICES ASSUME NEW j \in Nat
                 PROVE  page(j) \in Book /\ page(j).at = "begun" /\ page(j).next = h.index + j \div 3
                        /\ page(j).part = part(j) /\ page(j).thinking = v(j)
      OBVIOUS
    <3>1. j \div 3 \in Nat
      OBVIOUS
    <3>2. h.index + j \div 3 \in Nat
      BY <2>2, <3>1
    <3>3. part(j) \in Kinds /\ "begun" \in Phase
      BY DEF Kinds, Phase
    <3> HIDE DEF part
    <3>4. v(j) \in Uses
      BY <2>5
    <3> HIDE DEF v
    <3>5. QED BY <3>2, <3>3, <3>4, PageFields
  <2>7. ASSUME NEW j \in 1 .. 3 * n
        PROVE  frame(j) \in Frames /\ Turns(page(j - 1), frame(j), page(j))
    <3>1. j \in Nat /\ j >= 1 /\ j - 1 \in Nat
      BY <2>4
    <3>2. (j - 1) \div 3 \in Nat /\ h.index + (j - 1) \div 3 \in Nat
      BY <2>2, <3>1, Thirds
    <3>3. /\ frame(j) \in Frames /\ frame(j).event = event(j)
          /\ frame(j).index = h.index + (j - 1) \div 3 /\ frame(j).kind = "thinking"
      <4>1. event(j) \in Inner /\ "thinking" \in Kinds
        BY DEF Inner, Kinds
      <4> HIDE DEF event
      <4>2. QED BY <3>2, <4>1, EventFields
    <3>4. CASE j % 3 = 1
      <4>1. (j - 1) % 3 = 0 /\ j \div 3 = (j - 1) \div 3
        BY <3>1, <3>4, Thirds
      <4>2. event(j) = "start" /\ part(j - 1) = "none" /\ part(j) = "thinking"
        BY <3>4, <4>1
      <4>3. v(j - 1) # "used" /\ v(j) = Consumed(v(j - 1))
        <5>1. CASE u = "free"
          BY <3>1, <5>1 DEF Consumed
        <5>2. CASE u = "fresh" /\ n = 1
          <6>1. j = 1
            BY <3>4, <5>2
          <6>2. QED BY <5>2, <6>1
        <5>3. QED BY <2>1, <5>1, <5>2
      <4>4. page(j) = Page("begun", page(j - 1).next, "thinking", Consumed(page(j - 1).thinking))
        BY <2>6, <3>1, <4>1, <4>2, <4>3
      <4> HIDE DEF page, frame, event, part, v
      <4>5. page(j - 1).at = "begun" /\ page(j - 1).part = "none" /\ page(j - 1).thinking # "used"
            /\ frame(j).index = page(j - 1).next
        BY <2>6, <3>1, <3>3, <4>1, <4>2, <4>3
      <4>6. QED BY <3>3, <4>2, <4>4, <4>5 DEF Turns
    <3>5. CASE j % 3 = 2
      <4>1. (j - 1) % 3 = 1 /\ j \div 3 = (j - 1) \div 3
        BY <3>1, <3>5, Thirds
      <4>2. event(j) = "delta" /\ part(j - 1) = "thinking" /\ part(j) = "thinking"
        BY <3>5, <4>1
      <4>3. j - 1 # 0 /\ v(j) = v(j - 1)
        BY <3>1, <3>5
      <4>4. page(j) = page(j - 1)
        BY <4>1, <4>2, <4>3
      <4> HIDE DEF page, frame, event, part, v
      <4>5. page(j - 1).at = "begun" /\ page(j - 1).part = "thinking"
            /\ frame(j).index = page(j - 1).next
        BY <2>6, <3>1, <3>3, <4>2
      <4>6. QED BY <3>3, <4>2, <4>4, <4>5 DEF Turns
    <3>6. CASE j % 3 = 0
      <4>1. (j - 1) % 3 = 2 /\ j \div 3 = (j - 1) \div 3 + 1
        BY <3>1, <3>6, Thirds
      <4>2. event(j) = "stop" /\ part(j - 1) = "thinking" /\ part(j) = "none"
        BY <3>6, <4>1
      <4>3. j - 1 # 0 /\ v(j) = v(j - 1)
        BY <3>1, <3>6
      <4>4. h.index + j \div 3 = (h.index + (j - 1) \div 3) + 1
        BY <2>2, <3>2, <4>1
      <4>5. page(j) = Page("begun", page(j - 1).next + 1, "none", page(j - 1).thinking)
        BY <2>6, <3>1, <4>2, <4>3, <4>4
      <4> HIDE DEF page, frame, event, part, v
      <4>6. page(j - 1).at = "begun" /\ page(j - 1).part = "thinking"
            /\ frame(j).index = page(j - 1).next
        BY <2>6, <3>1, <3>3, <4>2
      <4>7. QED BY <3>3, <4>2, <4>5, <4>6 DEF Turns
    <3>7. QED BY <3>1, <3>3, <3>4, <3>5, <3>6, Thirds
  <2>8. page(0) = PageOf(h, u) /\ page(3 * n) = Page("begun", h.index + n, "none", Consumed(u))
    <3>1. 0 \div 3 = 0 /\ 0 % 3 = 0 /\ (3 * n) \div 3 = n /\ (3 * n) % 3 = 0 /\ h.index + 0 = h.index
      BY <2>2
    <3>2. page(0) = Page("begun", h.index, "none", u)
      BY <3>1
    <3>3. page(3 * n) = Page("begun", h.index + n, "none", Consumed(u))
      BY <2>4, <3>1
    <3>4. PageOf(h, u) = Page("begun", h.index, "none", u)
      BY <2>2 DEF PageOf, PhaseOf, PartOf, Between
    <3>5. QED BY <3>2, <3>3, <3>4
  <2> HIDE DEF page, frame
  <2>9. q \in Seq(Frames) /\ Len(q) = 3 * n
    <3>1. q \in [1 .. 3 * n -> Frames]
      BY <2>7
    <3>2. QED BY <2>4, <3>1
  <2>10. w \in [0 .. Len(q) -> Book] /\ w[0] = page(0) /\ w[Len(q)] = page(3 * n)
    BY <2>4, <2>6, <2>9
  <2>11. ASSUME NEW j \in 1 .. Len(q)
         PROVE  <<w[j - 1], q[j], w[j]>> \in Turning
    <3>1. /\ j \in 1 .. 3 * n /\ j \in Nat /\ j - 1 \in Nat
          /\ w[j] = page(j) /\ w[j - 1] = page(j - 1) /\ q[j] = frame(j)
      BY <2>4, <2>9
    <3>2. /\ page(j - 1) \in Book /\ page(j) \in Book
          /\ frame(j) \in Frames /\ Turns(page(j - 1), frame(j), page(j))
      BY <2>6, <2>7, <3>1
    <3> HIDE DEF w, q
    <3>3. QED BY <3>1, <3>2, Turned
  <2> HIDE DEF w, q
  <2>12. PartsLead(PageOf(h, u), q, Page("begun", h.index + n, "none", Consumed(u)))
    BY <2>8, <2>10, <2>11 DEF PartsLead, Path
  <2>13. Consumed(u) \in Uses
    BY <1>1, ConsumedUse
  <2>14. Between(b, SendBlocks(e, n), Consumed(u))
    BY <2>2, <2>3, <2>4, <2>9, <2>12, <2>13, AddedNeat
  <2>15. QED BY <1>3, <2>13, <2>14 DEF Between, Thoughtful
<1>4. QED BY <1>2, <1>3

LEMMA WithHeldNeat ==
  ASSUME NEW b, NEW e, NEW u, Neat(b, e, u), Streams, ~e.thinking
  PROVE  Neat(b, WithHeld(e), u) /\ WithHeld(e).thinking = FALSE /\ (e.started => WithHeld(e).started)
<1>1. e.thinking = FALSE
  BY EmitterFields DEF Neat
<1>2. QED BY <1>1, WriteTextNeat DEF WithHeld

-----------------------------------------------------------------------------
(* The invariant of the parts. *)

\* The answer is not one whose thinking came too late, or nothing of it was sent.
Whole == ~(stream.mixed /\ (emitter.started \/ stage = "over"))

\* At stage s, the parser x, what the emitter e has open, and the use u belong together.
Agrees(s, x, e, u) ==
  /\ u = "free" <=> client # "responses"
  /\ u = "used" => e.started /\ x.thinking # "never" /\ (s = "searching" \/ x.thought)
  /\ s = "reading" /\ Streams /\ ask # "required" => (e.thinking <=> x.thinking = "open")
  /\ s \in {"answered", "searching"} => ~e.thinking
  /\ s = "searching" => x.thinking # "open"

InHand(u) == Agrees(stage, stream, emitter, u) /\ Neat(PageOf(emitter, u), emitter, u)

\* The page the handler is at, what it is writing included.
HandlerBook(u) ==
  IF ~status /\ stage = "over" THEN Done
  ELSE Page(HandlerPhase, emitter.index, PartOf(emitter), u)

\* What a client has open, and what may have been closed, at page b.
OpenAt(b) ==
  CASE client = "responses" -> (IF b.part = "thinking" THEN {Reasoning} ELSE {})
                               \cup (IF b.part = "tool" THEN {Tool(b.next)} ELSE {})
                               \cup (IF transcoder.message THEN {Message} ELSE {})
    [] client = "chat" -> {}
    [] client \notin {"responses", "chat"} -> IF b.part = "none" THEN {} ELSE {Content(b.next)}

ClosedAt(b) ==
  CASE client = "responses" -> {Tool(i) : i \in 0 .. b.next - 1}
                               \cup (IF b.thinking = "used" THEN {Reasoning} ELSE {})
    [] client = "chat" -> {}
    [] client \notin {"responses", "chat"} -> {Content(i) : i \in 0 .. b.next - 1}

\* What the transcoder of the Responses protocol has noted.
NotedAt(b) ==
  /\ transcoder.thinking = (IF b.part = "thinking" THEN {b.next} ELSE {})
  /\ transcoder.tools = (IF b.part = "tool" THEN {b.next} ELSE {})
  /\ transcoder.reasoning <=> b.thinking = "used"
  /\ b.part = "thinking" => b.thinking = "used"
  /\ b.thinking # "free"

ClientBook(b) ==
  /\ ~seen.torn
  /\ b.at # "begun" => b.part = "none"
  /\ ~EndSeen(b.at) => /\ seen.open = OpenAt(b) /\ seen.closed \subseteq ClosedAt(b)
                       /\ client = "responses" => NotedAt(b)

\* The page the client is at leads, by the channel and by what the handler is writing, to
\* the page the handler is at.
Carried(u) ==
  Live => \E c, m \in Book : ClientBook(c) /\ PartsLead(c, channel, m) /\ PartsLead(m, pending, HandlerBook(u))

PartsInv ==
  /\ seen.torn => ~Whole
  /\ Whole => \E u \in Uses : (stage # "over" => InHand(u)) /\ Carried(u)

-----------------------------------------------------------------------------
(* What the steps of a handler open and close. *)

LEMMA PartsNowhere ==
  ASSUME NEW b \in Book, NEW c
  PROVE  PartsLead(b, <<>>, c) <=> c = b
BY PathNowhere DEF PartsLead

LEMMA BookAtWork ==
  ASSUME Inv, Working, NEW u \in Uses
  PROVE  /\ HandlerBook(u) = PageOf(emitter, u) /\ PageOf(emitter, u) \in Book
         /\ PartsLead(PageOf(emitter, u), <<>>, PageOf(emitter, u))
<1>1. stage \in Stages /\ ~status /\ stage # "over"
  BY DEF Inv, Handlers, Working, Stages
<1>2. HandlerPhase = PhaseOf(emitter)
  BY <1>1 DEF HandlerPhase
<1>3. PageOf(emitter, u) \in Book
  BY PageOfFields DEF Inv, Types
<1>4. QED BY <1>1, <1>2, <1>3, PartsNowhere DEF HandlerBook, PageOf

\* A step of a handler takes the answer from its page to the next.
LEMMA PartsWork ==
  ASSUME Inv, PartsInv, Working, Whole' => Whole,
         \A u \in Uses : Whole' /\ InHand(u) =>
           \E v \in Uses :
             /\ stage' # "over" => /\ Agrees(stage', stream', emitter', v)
                                   /\ Neat(PageOf(emitter', v), emitter', v)
             /\ PartsLead(PageOf(emitter, u), pending', HandlerBook(v)')
  PROVE  PartsInv'
<1>1. /\ client' = client /\ ask' = ask /\ channel' = channel /\ gone' = gone
      /\ transcoder' = transcoder /\ status' = status /\ seen' = seen
      /\ pending = <<>> /\ stage \in Stages /\ stage # "over" /\ ~status
  BY DEF Working, Inv, Handlers, Stages
<1>2. seen'.torn => ~Whole'
  BY <1>1 DEF PartsInv
<1>3. ASSUME Whole'
      PROVE  \E v \in Uses : (stage' # "over" => InHand(v)') /\ Carried(v)'
  <2>1. PICK u \in Uses : InHand(u) /\ Carried(u)
    BY <1>1, <1>3 DEF PartsInv
  <2>2. PICK v \in Uses :
          /\ stage' # "over" => /\ Agrees(stage', stream', emitter', v)
                                /\ Neat(PageOf(emitter', v), emitter', v)
          /\ PartsLead(PageOf(emitter, u), pending', HandlerBook(v)')
    BY <1>3, <2>1
  <2>3. stage' # "over" => InHand(v)'
    <3>1. Streams' = Streams
      BY <1>1 DEF Streams
    <3>2. Agrees(stage', stream', emitter', v) => Agrees(stage, stream, emitter, v)'
      BY <1>1, <3>1 DEF Agrees
    <3>3. PageOf(emitter, v)' = PageOf(emitter', v)
      BY <3>1 DEF PageOf, PhaseOf
    <3>4. Neat(PageOf(emitter', v), emitter', v) => Neat(PageOf(emitter, v), emitter, v)'
      BY <3>1, <3>3 DEF Neat, PageOf, PhaseOf
    <3>5. QED BY <2>2, <3>2, <3>4 DEF InHand
  <2>4. ASSUME Live'
        PROVE  \E c, m \in Book : /\ ClientBook(c)' /\ PartsLead(c, channel', m)
                                  /\ PartsLead(m, pending', HandlerBook(v)')
    <3>1. PICK c \in Book, m \in Book :
            ClientBook(c) /\ PartsLead(c, channel, m) /\ PartsLead(m, pending, HandlerBook(u))
      BY <1>1, <2>1, <2>4 DEF Carried, Live
    <3>2. m = PageOf(emitter, u)
      BY <1>1, <3>1, PartsNowhere, BookAtWork
    <3>3. ClientBook(c)'
      BY <1>1, <3>1 DEF ClientBook, EndSeen, OverBridge, OpenAt, ClosedAt, NotedAt
    <3>4. QED BY <1>1, <2>2, <3>1, <3>2, <3>3
  <2>5. QED BY <2>3, <2>4 DEF Carried
<1>4. QED BY <1>2, <1>3 DEF PartsInv

\* What is left of e when its events are on their way.
Flushed(e) == [e EXCEPT !.out = <<>>]

LEMMA FlushedFields ==
  ASSUME NEW e \in EmitterType
  PROVE  /\ Flushed(e) \in EmitterType /\ Flushed(e).started = e.started
         /\ Flushed(e).thinking = e.thinking /\ Flushed(e).text = e.text
         /\ Flushed(e).index = e.index /\ Flushed(e).out = <<>>
<1>1. <<>> \in Seq(Frames)
  BY EmptySeq
<1>2. QED BY <1>1 DEF Flushed, EmitterType

LEMMA FlushedNeat ==
  ASSUME NEW b, NEW e, NEW u, Neat(b, e, u)
  PROVE  Neat(PageOf(Flushed(e), u), Flushed(e), u) /\ PageOf(Flushed(e), u) = PageOf(e, u)
<1> DEFINE o == Flushed(e)
<1>1. e \in EmitterType /\ u \in Uses
  BY DEF Neat
<1>2. /\ o \in EmitterType /\ o.started = e.started /\ o.thinking = e.thinking
      /\ o.text = e.text /\ o.index = e.index /\ o.out = <<>>
  BY <1>1, FlushedFields
<1>3. e = Silent => o = Silent
  BY SilentSane DEF Flushed
<1> HIDE DEF o
<1>4. PageOf(o, u) = PageOf(e, u)
  BY <1>2 DEF PageOf, PhaseOf, PartOf
<1>5. PageOf(o, u) \in Book
  BY <1>1, <1>2, PageOfFields
<1>6. PartsLead(PageOf(o, u), o.out, PageOf(o, u))
  BY <1>2, <1>5, PartsNowhere
<1>7. Neat(PageOf(o, u), o, u)
  BY <1>1, <1>2, <1>3, <1>6 DEF Neat
<1>8. QED BY <1>4, <1>7 DEF o

\* The handler sends what e holds and goes on.
LEMMA PartsGo ==
  ASSUME Inv, PartsInv, Working, NEW e \in EmitterType, Emit(e), stage' \in Stages,
         emitter.started => e.started /\ (stream.mixed => stream'.mixed),
         \A u \in Uses : ~(stream'.mixed /\ e.started) /\ InHand(u) =>
           \E v \in Uses : Agrees(stage', stream', e, v) /\ Neat(PageOf(emitter, u), e, v)
  PROVE  PartsInv'
<1>1. /\ emitter' = Flushed(e) /\ pending' = e.out /\ stage' # "over" /\ stage # "over" /\ ~status'
      /\ client' = client
  BY DEF Emit, Flushed, Stages, Working, Inv, Handlers
<1>2. /\ emitter'.started = e.started /\ emitter'.thinking = e.thinking /\ emitter'.text = e.text
      /\ emitter'.index = e.index
  BY <1>1, FlushedFields
<1>3. Whole' => Whole /\ ~(stream'.mixed /\ e.started)
  BY <1>1, <1>2 DEF Whole
<1>4. ASSUME NEW u \in Uses, Whole', InHand(u)
      PROVE  \E v \in Uses :
               /\ Agrees(stage', stream', emitter', v) /\ Neat(PageOf(emitter', v), emitter', v)
               /\ PartsLead(PageOf(emitter, u), pending', HandlerBook(v)')
  <2>1. PICK v \in Uses : Agrees(stage', stream', e, v) /\ Neat(PageOf(emitter, u), e, v)
    BY <1>3, <1>4
  <2>2. Agrees(stage', stream', emitter', v)
    BY <1>2, <2>1 DEF Agrees
  <2>3. Neat(PageOf(emitter', v), emitter', v) /\ PageOf(emitter', v) = PageOf(e, v)
    BY <1>1, <2>1, FlushedNeat
  <2>4. HandlerBook(v)' = PageOf(emitter', v)
    <3>1. HandlerPhase' = PhaseOf(emitter')
      BY <1>1 DEF HandlerPhase, PhaseOf, Streams
    <3>2. QED BY <1>1, <3>1 DEF HandlerBook, PageOf, PartOf
  <2>5. PartsLead(PageOf(emitter, u), pending', HandlerBook(v)')
    BY <1>1, <2>1, <2>3, <2>4 DEF Neat
  <2>6. QED BY <2>2, <2>3, <2>5
<1>5. QED BY <1>3, <1>4, PartsWork

\* The handler sends what e holds, and the answer is over.
LEMMA PartsOver ==
  ASSUME Inv, PartsInv, Working, NEW e, NEW mixed \in BOOLEAN, Over(e, mixed),
         emitter.started => (stream.mixed => mixed),
         \A u \in Uses : ~mixed /\ InHand(u) => PartsLead(PageOf(emitter, u), e.out, Done)
  PROVE  PartsInv'
<1>1. /\ stage' = "over" /\ pending' = e.out /\ stream' = [NoStream EXCEPT !.mixed = mixed]
      /\ stage # "over" /\ ~status'
  BY DEF Over, Working, Inv, Handlers, Stages
<1>2. stream'.mixed = mixed
  BY <1>1 DEF NoStream
<1>3. Whole' => Whole /\ ~mixed
  BY <1>1, <1>2 DEF Whole
<1>4. \A v \in Uses : HandlerBook(v)' = Done
  BY <1>1 DEF HandlerBook
<1>5. QED BY <1>1, <1>3, <1>4, PartsWork

\* The handler sends nothing.
LEMMA PartsQuiet ==
  ASSUME Inv, PartsInv, Working, Quiet, stage' \in Stages,
         emitter.started => (stream.mixed => stream'.mixed),
         \A u \in Uses : InHand(u) => Agrees(stage', stream', emitter, u)
  PROVE  PartsInv'
<1>1. emitter \in EmitterType /\ emitter.out = <<>> /\ pending = <<>>
  BY DEF Inv, Types, Handlers, Working
<1>2. [emitter EXCEPT !.out = <<>>] = emitter
  BY <1>1 DEF EmitterType
<1>3. Emit(emitter)
  BY <1>1, <1>2 DEF Emit, Quiet
<1>4. \A u \in Uses : InHand(u) => Agrees(stage', stream', emitter, u) /\ Neat(PageOf(emitter, u), emitter, u)
  BY DEF InHand
<1>5. QED BY <1>1, <1>3, <1>4, PartsGo

LEMMA InHandFields ==
  ASSUME Inv, NEW u \in Uses, InHand(u)
  PROVE  /\ Neat(PageOf(emitter, u), emitter, u) /\ Agrees(stage, stream, emitter, u)
         /\ ~emitter.started => u # "used" /\ emitter = Silent /\ ~emitter.thinking /\ ~emitter.text
         /\ emitter.started \in BOOLEAN /\ emitter.thinking \in BOOLEAN /\ emitter.text \in BOOLEAN
BY EmitterFields DEF InHand, Neat, Agrees, Inv, Types

\* Another account is tried only if nothing was sent.
LEMMA RetryParts ==
  ASSUME Inv, PartsInv, Working, Retry, ~emitter.started
  PROVE  PartsInv'
<1>1. Quiet /\ stage' = "idle" /\ stage' \in Stages
  BY DEF Retry, Stages
<1>2. ASSUME NEW u \in Uses, InHand(u)
      PROVE  Agrees(stage', stream', emitter, u)
  BY <1>1, <1>2, InHandFields DEF Agrees
<1>3. QED BY <1>1, <1>2, PartsQuiet

LEMMA FailsParts ==
  ASSUME Inv, PartsInv, Working, Fails
  PROVE  PartsInv'
<1>1. CASE emitter.started
  <2>1. Over(Interrupted(emitter), stream.mixed) /\ stream.mixed \in BOOLEAN
    BY <1>1, StreamFields DEF Fails, Inv, Types
  <2>2. ASSUME NEW u \in Uses, InHand(u)
        PROVE  PartsLead(PageOf(emitter, u), Interrupted(emitter).out, Done)
    BY <1>1, <2>2, InterruptedNeat DEF InHand
  <2>3. QED BY <2>1, <2>2, PartsOver
<1>2. CASE ~emitter.started
  BY <1>2, RetryParts DEF Fails
<1>3. QED BY <1>1, <1>2

LEMMA CallParts ==
  ASSUME Inv, PartsInv, Call
  PROVE  PartsInv'
<1>1. "idle" \in Stages /\ "reading" \in Stages /\ Ready("idle") /\ Rest
  BY DEF Stages, Call
<1>2. Working /\ stage = "idle" /\ ~emitter.started
  BY <1>1, ReadyWorks DEF Fits
<1>3. stage' = "reading" /\ stream' = NoStream /\ Emit(Silent)
  BY <1>2, SilentSane DEF Call, Emit, Working
<1>4. Silent \in EmitterType /\ ~Silent.started /\ ~Silent.thinking
  BY SilentSane
<1>5. ASSUME NEW u \in Uses, InHand(u)
      PROVE  \E v \in Uses : Agrees(stage', stream', Silent, v) /\ Neat(PageOf(emitter, u), Silent, v)
  <2>1. emitter = Silent /\ u # "used" /\ Neat(PageOf(emitter, u), Silent, u) /\ (u = "free" <=> client # "responses")
    BY <1>2, <1>5, InHandFields DEF Agrees
  <2>2. Agrees("reading", NoStream, Silent, u)
    BY <1>4, <2>1 DEF Agrees, NoStream
  <2>3. QED BY <1>3, <2>1, <2>2
<1>6. QED BY <1>1, <1>2, <1>3, <1>4, <1>5, PartsGo

\* A handler thinks while nothing else is open.
LEMMA ThinkParts ==
  ASSUME Inv, PartsInv, Ready("reading"), Thought, UNCHANGED <<stage, calls>>, Rest,
         IF Streams /\ ask # "required" THEN Emit(WriteThinking(emitter)) ELSE Quiet
  PROVE  PartsInv'
<1>1. "reading" \in Stages
  BY DEF Stages
<1>2. /\ Working /\ stage = "reading" /\ Fits("reading", emitter) /\ Sane(PhaseOf(emitter), emitter)
      /\ stream \in StreamType /\ emitter \in EmitterType
  BY <1>1, ReadyWorks
<1>3. /\ stage' = "reading" /\ stage' \in Stages /\ stream'.thought = TRUE
      /\ stream'.thinking = (IF stream.thinking = "closed" THEN "closed" ELSE "open")
      /\ stream'.mixed = (stream.mixed \/ emitter.text \/ stream.thinking = "closed")
  BY <1>1, <1>2 DEF Thought, StreamType
<1>4. CASE Streams /\ ask # "required"
  <2> DEFINE e == WriteThinking(emitter)
  <2>1. e \in EmitterType /\ Emit(e)
    BY <1>2, <1>4, WriteThinkingSane DEF Begun, Sane
  <2>2. e.started
    BY <1>2, <1>4, WriteThinkingSane DEF Begun
  <2>3. ASSUME NEW u \in Uses, ~stream'.mixed, InHand(u)
        PROVE  \E v \in Uses : Agrees(stage', stream', e, v) /\ Neat(PageOf(emitter, u), e, v)
    <3>1. ~emitter.text /\ stream.thinking # "closed" /\ Neat(PageOf(emitter, u), emitter, u)
          /\ Agrees("reading", stream, emitter, u)
      BY <1>2, <1>3, <2>3 DEF InHand
    <3>2. emitter.thinking \/ u # "used"
      BY <1>2, <1>4, <3>1, StreamFields DEF Agrees
    <3>3. Neat(PageOf(emitter, u), e, Consumed(u)) /\ e.started = TRUE /\ e.thinking = TRUE
      BY <1>4, <3>1, <3>2, WriteThinkingNeat
    <3> HIDE DEF e
    <3>4. Consumed(u) \in Uses /\ (Consumed(u) = "free" <=> client # "responses")
      BY <3>1, ConsumedUse DEF Agrees
    <3>5. Agrees("reading", stream', e, Consumed(u))
      BY <1>3, <3>1, <3>3, <3>4 DEF Agrees
    <3>6. QED BY <1>3, <3>3, <3>4, <3>5
  <2> HIDE DEF e
  <2>4. QED BY <1>2, <1>3, <2>1, <2>2, <2>3, PartsGo
<1>5. CASE ~(Streams /\ ask # "required")
  <2>1. Quiet /\ ~emitter.started
    BY <1>2, <1>5 DEF Fits
  <2>2. ASSUME NEW u \in Uses, InHand(u)
        PROVE  Agrees(stage', stream', emitter, u)
    BY <1>2, <1>3, <1>5, <2>1, <2>2, InHandFields DEF Agrees
  <2>3. QED BY <1>2, <1>3, <2>1, <2>2, PartsQuiet
<1>6. QED BY <1>4, <1>5

\* The parser closes thinking: nothing is left open of it.
LEMMA ThinkingClosedNeat ==
  ASSUME Inv, NEW u \in Uses, InHand(u), stage = "reading", Streams
  PROVE  /\ Neat(PageOf(emitter, u), ThinkingClosed(emitter), u)
         /\ ThinkingClosed(emitter).thinking = FALSE
         /\ ThinkingClosed(emitter).started = emitter.started
         /\ ThinkingState \in {"never", "closed"} /\ (u = "used" => ThinkingState = "closed")
<1>1. Neat(PageOf(emitter, u), emitter, u) /\ Agrees("reading", stream, emitter, u) /\ emitter \in EmitterType
      /\ emitter.thinking \in BOOLEAN /\ stream.thinking \in {"never", "open", "closed"}
  BY EmitterFields, StreamFields DEF InHand, Inv, Types
<1>2. ThinkingState \in {"never", "closed"} /\ (u = "used" => ThinkingState = "closed")
  BY <1>1 DEF ThinkingState, Agrees
<1>3. CASE stream.thinking = "open"
  BY <1>1, <1>2, <1>3, CloseThinkingNeat DEF ThinkingClosed
<1>4. CASE stream.thinking # "open"
  <2>1. ~emitter.thinking
    <3>1. CASE ask # "required"
      BY <1>1, <1>4, <3>1 DEF Agrees
    <3>2. CASE ask = "required"
      BY <3>2 DEF Inv, Handlers, Fits, Stages
    <3>3. QED BY <3>1, <3>2
  <2>2. emitter.thinking = FALSE /\ ThinkingClosed(emitter) = emitter
    BY <1>1, <1>4, <2>1 DEF ThinkingClosed
  <2>3. QED BY <1>1, <1>2, <2>2
<1>5. QED BY <1>3, <1>4

LEMMA TextParts ==
  ASSUME Inv, PartsInv, Text
  PROVE  PartsInv'
<1>1. "reading" \in Stages /\ Ready("reading") /\ Rest /\ UNCHANGED <<stage, calls>>
  BY DEF Stages, Text
<1>2. /\ Working /\ stage = "reading" /\ Fits("reading", emitter) /\ Sane(PhaseOf(emitter), emitter)
      /\ stream \in StreamType /\ emitter \in EmitterType
  BY <1>1, ReadyWorks
<1> DEFINE t == ThinkingClosed(emitter)
<1>3. PICK held \in BOOLEAN, shape \in {"undecided", "text", "protocol"} :
        /\ HeldBack(held, shape)
        /\ stream' = [stream EXCEPT !.events = @ + 1, !.text = TRUE, !.held = held,
                                    !.shape = shape, !.thinking = ThinkingState]
        /\ IF Streams THEN Emit(IF held \/ shape = "protocol" THEN t ELSE WriteText(t)) ELSE Quiet
  BY DEF Text
<1>4. /\ stage' = "reading" /\ stage' \in Stages /\ stream'.thought = stream.thought
      /\ stream'.thinking = ThinkingState /\ stream'.mixed = stream.mixed
  BY <1>1, <1>2, <1>3 DEF StreamType
<1>5. CASE Streams
  <2> DEFINE e == IF held \/ shape = "protocol" THEN t ELSE WriteText(t)
  <2>1. Sane(PhaseOf(emitter), t) /\ t.started = emitter.started
    BY <1>2, ThinkingClosedSane
  <2>2. Begun(PhaseOf(emitter), WriteText(t))
    BY <1>5, <2>1, WriteTextSane
  <2>3. Emit(e)
    BY <1>3, <1>5
  <2>4. e \in EmitterType /\ (emitter.started => e.started)
    <3> HIDE DEF t
    <3>1. QED BY <2>1, <2>2 DEF Begun, Sane
  <2>5. ASSUME NEW u \in Uses, InHand(u)
        PROVE  \E v \in Uses : Agrees(stage', stream', e, v) /\ Neat(PageOf(emitter, u), e, v)
    <3>1. /\ Neat(PageOf(emitter, u), t, u) /\ t.thinking = FALSE
          /\ ThinkingState \in {"never", "closed"} /\ (u = "used" => ThinkingState = "closed")
      BY <1>2, <1>5, <2>5, ThinkingClosedNeat
    <3>2. Agrees("reading", stream, emitter, u)
      BY <1>2, <2>5 DEF InHand
    <3> HIDE DEF t
    <3>3. Neat(PageOf(emitter, u), e, u) /\ e.thinking = FALSE /\ (emitter.started => e.started)
      <4>1. CASE held \/ shape = "protocol"
        BY <2>1, <3>1, <4>1
      <4>2. CASE ~(held \/ shape = "protocol")
        <5>1. e = WriteText(t)
          BY <4>2
        <5>2. Neat(PageOf(emitter, u), WriteText(t), u) /\ WriteText(t).started = TRUE
              /\ WriteText(t).thinking = FALSE
          BY <1>5, <3>1, WriteTextNeat
        <5> HIDE DEF e
        <5>3. QED BY <5>1, <5>2
      <4>3. QED BY <4>1, <4>2
    <3> HIDE DEF e
    <3>4. Agrees("reading", stream', e, u)
      BY <1>4, <3>1, <3>2, <3>3 DEF Agrees
    <3>5. QED BY <1>4, <3>3, <3>4
  <2> HIDE DEF e
  <2>6. QED BY <1>2, <1>4, <2>3, <2>4, <2>5, PartsGo
<1>6. CASE ~Streams
  <2>1. Quiet /\ ~emitter.started
    BY <1>2, <1>3, <1>6 DEF Fits
  <2>2. ASSUME NEW u \in Uses, InHand(u)
        PROVE  Agrees(stage', stream', emitter, u)
    BY <1>2, <1>4, <1>6, <2>1, <2>2, InHandFields DEF Agrees
  <2>3. QED BY <1>2, <1>4, <2>1, <2>2, PartsQuiet
<1>7. QED BY <1>5, <1>6

LEMMA NativeToolParts ==
  ASSUME Inv, PartsInv, NativeTool
  PROVE  PartsInv'
<1>1. "reading" \in Stages /\ Ready("reading") /\ Rest
  BY DEF Stages, NativeTool
<1>2. Working /\ stage = "reading" /\ stream \in StreamType
  BY <1>1, ReadyWorks
<1>3. /\ Quiet /\ stage' = "reading" /\ stage' \in Stages /\ stream'.thought = stream.thought
      /\ stream'.thinking = stream.thinking /\ stream'.mixed = stream.mixed
  BY <1>1, <1>2 DEF NativeTool, StreamType
<1>4. ASSUME NEW u \in Uses, InHand(u)
      PROVE  Agrees(stage', stream', emitter, u)
  BY <1>2, <1>3, <1>4 DEF InHand, Agrees
<1>5. QED BY <1>2, <1>3, <1>4, PartsQuiet

LEMMA AnsweredParts ==
  ASSUME Inv, PartsInv, Ready("reading"), Answered
  PROVE  PartsInv'
<1>1. "reading" \in Stages /\ Rest
  BY DEF Stages, Answered
<1>2. /\ Working /\ stage = "reading" /\ Fits("reading", emitter) /\ Sane(PhaseOf(emitter), emitter)
      /\ stream \in StreamType
  BY <1>1, ReadyWorks
<1>3. /\ stage' = "answered" /\ stage' \in Stages /\ stream'.thought = stream.thought
      /\ stream'.thinking = ThinkingState /\ stream'.mixed = stream.mixed
  BY <1>2 DEF Answered, StreamType, Stages
<1>4. CASE Streams
  <2> DEFINE e == ThinkingClosed(emitter)
  <2>1. e \in EmitterType /\ e.started = emitter.started
    BY <1>2, ThinkingClosedSane DEF Sane
  <2>2. Emit(e)
    BY <1>4 DEF Answered
  <2>3. ASSUME NEW u \in Uses, InHand(u)
        PROVE  \E v \in Uses : Agrees(stage', stream', e, v) /\ Neat(PageOf(emitter, u), e, v)
    <3>1. /\ Neat(PageOf(emitter, u), e, u) /\ e.thinking = FALSE
          /\ ThinkingState \in {"never", "closed"} /\ (u = "used" => ThinkingState = "closed")
      BY <1>2, <1>4, <2>3, ThinkingClosedNeat
    <3> HIDE DEF e
    <3>2. Agrees("answered", stream', e, u)
      BY <1>2, <1>3, <2>1, <2>3, <3>1 DEF InHand, Agrees
    <3>3. QED BY <1>3, <3>1, <3>2
  <2> HIDE DEF e
  <2>4. QED BY <1>2, <1>3, <2>1, <2>2, <2>3, PartsGo
<1>5. CASE ~Streams
  <2>1. Quiet /\ ~emitter.started
    BY <1>2, <1>5 DEF Answered, Fits
  <2>2. ASSUME NEW u \in Uses, InHand(u)
        PROVE  Agrees(stage', stream', emitter, u)
    BY <1>2, <1>3, <2>1, <2>2, InHandFields DEF Agrees
  <2>3. QED BY <1>2, <1>3, <2>1, <2>2, PartsQuiet
<1>6. QED BY <1>4, <1>5

LEMMA CallFailsParts ==
  ASSUME Inv, PartsInv, CallFails \/ AnswerEmpty
  PROVE  PartsInv'
<1>1. "reading" \in Stages /\ "answered" \in Stages
  BY DEF Stages
<1>2. CASE CallFails
  BY <1>1, <1>2, ReadyWorks, FailsParts DEF CallFails
<1>3. CASE AnswerEmpty
  BY <1>1, <1>3, ReadyWorks, FailsParts DEF AnswerEmpty
<1>4. QED BY <1>2, <1>3

\* The answer ends when nothing of it is open.
LEMMA EndsParts ==
  ASSUME Inv, PartsInv, Working, Streams, NEW e, NEW mixed \in BOOLEAN, Over(Finished(e), mixed),
         stream.mixed => mixed,
         \A u \in Uses : ~mixed /\ InHand(u) =>
           \E v \in Uses : Neat(PageOf(emitter, u), e, v) /\ ~e.thinking /\ ~e.text
  PROVE  PartsInv'
<1>1. ASSUME NEW u \in Uses, ~mixed, InHand(u)
      PROVE  PartsLead(PageOf(emitter, u), Finished(e).out, Done)
  <2>1. PICK v \in Uses : Neat(PageOf(emitter, u), e, v) /\ ~e.thinking /\ ~e.text
    BY <1>1
  <2>2. QED BY <2>1, FinishedNeat
<1>2. QED BY <1>1, PartsOver

LEMMA AnswerTextParts ==
  ASSUME Inv, PartsInv, AnswerText
  PROVE  PartsInv'
<1>1. "answered" \in Stages /\ Ready("answered") /\ Rest /\ Streams
  BY DEF Stages, AnswerText
<1>2. Working /\ stream.mixed \in BOOLEAN
  BY <1>1, ReadyWorks, StreamFields
<1> DEFINE d == CloseThinking(emitter)
           f == WithHeld(d)
           c == CloseText(f)
           e(sources) == IF sources THEN Block(c, "text") ELSE c
<1>3. PICK sources \in BOOLEAN : Over(Finished(e(sources)), stream.mixed)
  BY DEF AnswerText, Ends
<1>4. ASSUME NEW u \in Uses, InHand(u)
      PROVE  \E v \in Uses : /\ Neat(PageOf(emitter, u), e(sources), v)
                             /\ ~e(sources).thinking /\ ~e(sources).text
  <2>1. Neat(PageOf(emitter, u), d, u) /\ d.thinking = FALSE
    BY <1>4, CloseThinkingNeat DEF InHand
  <2> HIDE DEF d
  <2>2. Neat(PageOf(emitter, u), f, u) /\ f.thinking = FALSE
    BY <1>1, <2>1, WithHeldNeat
  <2> HIDE DEF f
  <2>3. Neat(PageOf(emitter, u), c, u) /\ c.thinking = FALSE /\ c.text = FALSE
    BY <2>2, CloseTextNeat
  <2> HIDE DEF c
  <2>4. Between(PageOf(emitter, u), Block(c, "text"), u)
    BY <1>1, <2>3, BlockNeat DEF UseAfter
  <2>5. CASE sources
    BY <2>4, <2>5 DEF Between
  <2>6. CASE ~sources
    BY <2>3, <2>6
  <2>7. QED BY <2>5, <2>6
<1> HIDE DEF e
<1>5. QED BY <1>1, <1>2, <1>3, <1>4, EndsParts

LEMMA AnswerResearchParts ==
  ASSUME Inv, PartsInv, AnswerResearch
  PROVE  PartsInv'
<1>1. "answered" \in Stages /\ Ready("answered") /\ Rest /\ Streams
  BY DEF Stages, AnswerResearch
<1>2. Working /\ stage = "answered" /\ stream.mixed \in BOOLEAN
  BY <1>1, ReadyWorks, StreamFields
<1> DEFINE f == WithHeld(emitter)
           e == CloseText(f)
<1>3. Over(Finished(e), stream.mixed)
  BY DEF AnswerResearch, Ends
<1>4. ASSUME NEW u \in Uses, InHand(u)
      PROVE  \E v \in Uses : Neat(PageOf(emitter, u), e, v) /\ ~e.thinking /\ ~e.text
  <2>1. Neat(PageOf(emitter, u), emitter, u) /\ ~emitter.thinking
    BY <1>2, <1>4 DEF InHand, Agrees
  <2>2. Neat(PageOf(emitter, u), f, u) /\ f.thinking = FALSE
    BY <1>1, <2>1, WithHeldNeat
  <2> HIDE DEF f
  <2>3. Neat(PageOf(emitter, u), e, u) /\ e.thinking = FALSE /\ e.text = FALSE
    BY <2>2, CloseTextNeat
  <2>4. QED BY <2>3
<1> HIDE DEF e
<1>5. QED BY <1>1, <1>2, <1>3, <1>4, EndsParts

LEMMA AnswerToolsParts ==
  ASSUME Inv, PartsInv, AnswerTools
  PROVE  PartsInv'
<1>1. /\ "answered" \in Stages /\ "searching" \in Stages /\ Ready("answered") /\ Rest /\ Streams
  BY DEF Stages, AnswerTools
<1>2. /\ Working /\ Sane(PhaseOf(emitter), emitter) /\ stream \in StreamType /\ stream.mixed \in BOOLEAN
      /\ stage = "answered" /\ Fits("answered", emitter)
  BY <1>1, ReadyWorks, StreamFields
<1> DEFINE protocol == stream.shape = "protocol"
           f == IF stream.held /\ ~protocol THEN WriteText(emitter) ELSE emitter
           d == CloseThinking(f)
           w(last) == IF protocol /\ last THEN WriteText(d) ELSE d
           c(last) == CloseText(w(last))
           t(last) == IF ask = "required" /\ stream.thought THEN Block(c(last), "thinking") ELSE c(last)
<1>3. PICK found \in Prepared :
        LET last == found.done \/ ~(found.hasCalls \/ found.search)
        IN \/ ask = "required" /\ Retry
           \/ /\ Emit(Headers(t(last))) /\ stage' = "searching"
              /\ stream' = [stream EXCEPT !.events = 0, !.text = FALSE, !.held = FALSE,
                                          !.tool = found.hasCalls,
                                          !.thinking = IF stream.thought THEN "closed" ELSE "never"]
           \/ Ends(IF found.hasCalls THEN Block(t(last), "tool") ELSE t(last))
  BY DEF AnswerTools
<1> DEFINE last == found.done \/ ~(found.hasCalls \/ found.search)
           s == t(last)
<1>4. ASSUME NEW u \in Uses, InHand(u)
      PROVE  \E v \in Uses : /\ Neat(PageOf(emitter, u), s, v) /\ s.thinking = FALSE /\ s.text = FALSE
                             /\ v = "free" <=> u = "free"
                             /\ v = "used" => stream.thought
  <2> DEFINE p == PageOf(emitter, u)
  <2>1. /\ Neat(p, emitter, u) /\ emitter.thinking = FALSE /\ (u = "used" => emitter.started /\ stream.thought)
    BY <1>2, <1>4, InHandFields DEF Agrees
  <2>2. ask = "required" => u # "used"
    BY <1>2, <2>1 DEF Fits
  <2> HIDE DEF p
  <2>3. Neat(p, f, u) /\ f.thinking = FALSE
    BY <1>1, <2>1, WriteTextNeat
  <2> HIDE DEF f
  <2>4. Neat(p, d, u) /\ d.thinking = FALSE
    BY <2>3, CloseThinkingNeat
  <2> HIDE DEF d
  <2>5. Neat(p, w(last), u) /\ w(last).thinking = FALSE
    BY <1>1, <2>4, WriteTextNeat
  <2> HIDE DEF w
  <2>6. Neat(p, c(last), u) /\ c(last).thinking = FALSE /\ c(last).text = FALSE
    BY <2>5, CloseTextNeat
  <2> HIDE DEF c
  <2>7. CASE ask = "required" /\ stream.thought
    <3>1. Between(p, Block(c(last), "thinking"), Consumed(u))
      BY <1>1, <2>2, <2>6, <2>7, BlockNeat DEF UseAfter
    <3>2. s = Block(c(last), "thinking")
      BY <2>7
    <3> HIDE DEF s
    <3>3. Consumed(u) \in Uses /\ (u = "free" <=> Consumed(u) = "free")
      BY ConsumedUse
    <3>4. QED BY <2>7, <3>1, <3>2, <3>3 DEF Between, p
  <2>8. CASE ~(ask = "required" /\ stream.thought)
    <3>1. s = c(last)
      BY <2>8
    <3> HIDE DEF s
    <3>2. QED BY <2>1, <2>6, <3>1 DEF p
  <2>9. QED BY <2>7, <2>8
<1>5. Sane(PhaseOf(emitter), s)
  <2>1. Sane(PhaseOf(emitter), f)
    BY <1>1, <1>2, WriteTextSane DEF Begun
  <2> HIDE DEF f
  <2>2. Sane(PhaseOf(emitter), d)
    BY <2>1, CloseSane
  <2> HIDE DEF d
  <2>3. Sane(PhaseOf(emitter), w(last))
    BY <1>1, <2>2, WriteTextSane DEF Begun
  <2> HIDE DEF w
  <2>4. Sane(PhaseOf(emitter), c(last))
    BY <2>3, CloseSane
  <2> HIDE DEF c
  <2>5. "thinking" \in Kinds
    BY DEF Kinds
  <2>6. Sane(PhaseOf(emitter), Block(c(last), "thinking"))
    BY <1>1, <2>4, <2>5, BlockSane DEF Begun
  <2>7. QED BY <2>4, <2>6
<1>6. \/ ask = "required" /\ Retry
      \/ /\ Emit(Headers(s)) /\ stage' = "searching"
         /\ stream' = [stream EXCEPT !.events = 0, !.text = FALSE, !.held = FALSE,
                                     !.tool = found.hasCalls,
                                     !.thinking = IF stream.thought THEN "closed" ELSE "never"]
      \/ Ends(IF found.hasCalls THEN Block(s, "tool") ELSE s)
  BY <1>3
<1> HIDE DEF s
<1>7. CASE ask = "required" /\ Retry
  <2>1. ~emitter.started
    BY <1>2, <1>7 DEF Fits
  <2>2. QED BY <1>2, <1>7, <2>1, RetryParts
<1>8. CASE /\ Emit(Headers(s)) /\ stage' = "searching"
           /\ stream' = [stream EXCEPT !.events = 0, !.text = FALSE, !.held = FALSE,
                                       !.tool = found.hasCalls,
                                       !.thinking = IF stream.thought THEN "closed" ELSE "never"]
  <2> DEFINE e == Headers(s)
  <2>1. e \in EmitterType /\ e.started
    BY <1>1, <1>5, HeadersSane DEF Begun, Sane
  <2>2. /\ stream'.mixed = stream.mixed /\ stage' \in Stages
        /\ stream'.thinking = (IF stream.thought THEN "closed" ELSE "never")
    BY <1>1, <1>2, <1>8 DEF StreamType
  <2>3. ASSUME NEW u \in Uses, InHand(u)
        PROVE  \E v \in Uses : Agrees(stage', stream', e, v) /\ Neat(PageOf(emitter, u), e, v)
    <3>1. PICK v \in Uses : /\ Neat(PageOf(emitter, u), s, v) /\ s.thinking = FALSE
                            /\ v = "free" <=> u = "free"
                            /\ v = "used" => stream.thought
      BY <1>4, <2>3
    <3>2. Neat(PageOf(emitter, u), e, v) /\ e.started = TRUE /\ e.thinking = FALSE
      BY <1>1, <3>1, HeadersNeat
    <3>3. u = "free" <=> client # "responses"
      BY <2>3 DEF InHand, Agrees
    <3> HIDE DEF e
    <3>4. Agrees("searching", stream', e, v)
      BY <2>2, <3>1, <3>2, <3>3 DEF Agrees
    <3>5. QED BY <1>8, <3>2, <3>4
  <2>4. Emit(e)
    BY <1>8
  <2> HIDE DEF e
  <2>5. QED BY <1>2, <2>1, <2>2, <2>3, <2>4, PartsGo
<1>9. CASE Ends(IF found.hasCalls THEN Block(s, "tool") ELSE s)
  <2> DEFINE e == IF found.hasCalls THEN Block(s, "tool") ELSE s
  <2>1. Over(Finished(e), stream.mixed)
    BY <1>9 DEF Ends
  <2>2. ASSUME NEW u \in Uses, InHand(u)
        PROVE  \E v \in Uses : Neat(PageOf(emitter, u), e, v) /\ ~e.thinking /\ ~e.text
    <3>1. PICK v \in Uses : Neat(PageOf(emitter, u), s, v) /\ s.thinking = FALSE /\ s.text = FALSE
      BY <1>4, <2>2
    <3>2. Between(PageOf(emitter, u), Block(s, "tool"), v)
      BY <1>1, <3>1, BlockNeat DEF UseAfter
    <3>3. QED BY <3>1, <3>2 DEF Between
  <2> HIDE DEF e
  <2>3. QED BY <1>1, <1>2, <2>1, <2>2, EndsParts
<1>10. QED BY <1>6, <1>7, <1>8, <1>9

LEMMA WholeParts ==
  ASSUME Inv, PartsInv, AnswerWhole \/ ResearchWhole
  PROVE  PartsInv'
<1>1. "answered" \in Stages /\ Ready("answered") /\ Rest /\ ~Streams
  BY DEF Stages, AnswerWhole, ResearchWhole
<1>2. Working /\ Fits("answered", emitter) /\ emitter \in EmitterType
  BY <1>1, ReadyWorks
<1>3. ~emitter.started
  BY <1>1, <1>2 DEF Fits
<1>4. Retry \/ Body
  BY DEF AnswerWhole, ResearchWhole
<1>5. CASE Retry
  BY <1>2, <1>3, <1>5, RetryParts
<1>6. CASE Body
  <2> DEFINE f == Event("whole", 0, "none")
             e == Send(emitter, f)
  <2>1. Over(e, FALSE) /\ FALSE \in BOOLEAN
    BY <1>6 DEF Body
  <2>2. f \in Frames /\ f.event = "whole"
    BY EventFrame DEF Kinds
  <2> HIDE DEF f
  <2>3. ASSUME NEW u \in Uses, InHand(u)
        PROVE  PartsLead(PageOf(emitter, u), e.out, Done)
    <3>1. PartsLead(PageOf(emitter, u), emitter.out, PageOf(emitter, u))
      BY <2>3 DEF InHand, Neat
    <3>2. PageOf(emitter, u).at = "unsaid"
      BY <1>1, <1>2, <1>3, PageOfFields DEF PhaseOf
    <3>3. Turns(PageOf(emitter, u), f, Done)
      BY <2>2, <3>2 DEF Turns
    <3>4. Done \in Book
      <4>1. "over" \in Phase /\ "none" \in Kinds /\ "free" \in Uses /\ 0 \in Nat
        BY DEF Phase, Kinds, Uses
      <4>2. QED BY <4>1, PageFields DEF Done
    <3>5. QED BY <1>2, <2>2, <3>1, <3>3, <3>4, PartSends
  <2> HIDE DEF e
  <2>4. QED BY <1>2, <1>3, <2>1, <2>3, PartsOver
<1>7. QED BY <1>4, <1>5, <1>6

LEMMA SearchStepEndsParts ==
  ASSUME Inv, PartsInv, SearchStepEnds
  PROVE  PartsInv'
<1>1. "searching" \in Stages /\ Ready("searching") /\ Rest /\ Quiet /\ UNCHANGED <<stage, calls>>
  BY DEF Stages, SearchStepEnds
<1>2. Working /\ stage = "searching" /\ stream \in StreamType
  BY <1>1, ReadyWorks
<1>3. /\ stage' = "searching" /\ stage' \in Stages /\ stream'.thought = stream.thought
      /\ stream'.thinking = stream.thinking /\ stream'.mixed = stream.mixed
  BY <1>1, <1>2 DEF SearchStepEnds, StreamType
<1>4. ASSUME NEW u \in Uses, InHand(u)
      PROVE  Agrees(stage', stream', emitter, u)
  BY <1>2, <1>3, <1>4 DEF InHand, Agrees
<1>5. QED BY <1>1, <1>2, <1>3, <1>4, PartsQuiet

LEMMA AfterBlocksFields ==
  ASSUME stream \in StreamType, emitter \in EmitterType
  PROVE  /\ AfterBlocks.thought = stream.thought
         /\ AfterBlocks.thinking = (IF stream.blocks > 0 THEN "closed" ELSE stream.thinking)
         /\ AfterBlocks.mixed = (\/ stream.mixed \/ (stream.blocks > 0 /\ emitter.text)
                                 \/ (client = "responses" /\ SecondReasoning))
BY DEF AfterBlocks, StreamType

\* The blocks of a search are sent while nothing is open, and once with the Responses
\* protocol.
LEMMA SearchBlocksNeat ==
  ASSUME Inv, stage = "searching", Streams, emitter.started, ~AfterBlocks.mixed,
         NEW u \in Uses, InHand(u)
  PROVE  \E v \in Uses : /\ Neat(PageOf(emitter, u), SendBlocks(emitter, stream.blocks), v)
                         /\ SendBlocks(emitter, stream.blocks).started = TRUE
                         /\ SendBlocks(emitter, stream.blocks).thinking = FALSE
                         /\ v = "free" <=> client # "responses"
                         /\ v = "used" => AfterBlocks.thinking # "never"
                         /\ AfterBlocks.thinking # "open"
<1> DEFINE n == stream.blocks
           b == SendBlocks(emitter, n)
<1>1. /\ stream \in StreamType /\ emitter \in EmitterType /\ n \in Nat
      /\ stream.thinking \in {"never", "open", "closed"}
  BY StreamFields DEF Inv, Types
<1>2. /\ Neat(PageOf(emitter, u), emitter, u) /\ Agrees("searching", stream, emitter, u)
  BY DEF InHand
<1>3. /\ u = "free" <=> client # "responses"
      /\ u = "used" => stream.thinking = "closed"
      /\ stream.thinking \in {"never", "closed"} /\ ~emitter.thinking
  BY <1>1, <1>2 DEF Agrees
<1>4. /\ AfterBlocks.thinking = (IF n > 0 THEN "closed" ELSE stream.thinking)
      /\ n > 0 => ~emitter.text
      /\ client = "responses" => ~SecondReasoning
  BY <1>1, AfterBlocksFields
<1>5. n > 0 => ~emitter.text /\ (u = "free" \/ (u = "fresh" /\ n = 1))
  <2>1. CASE client # "responses"
    BY <1>3, <1>4, <2>1
  <2>2. CASE client = "responses" /\ n > 0
    <3>1. stream.thinking = "never" /\ n = 1
      BY <1>1, <1>3, <1>4, <2>2 DEF SecondReasoning
    <3>2. QED BY <1>3, <1>4, <2>2, <3>1 DEF Uses
  <2>3. QED BY <2>1, <2>2
<1> HIDE DEF n
<1>6. PICK v \in Uses : /\ Neat(PageOf(emitter, u), b, v) /\ b.started = TRUE /\ b.thinking = FALSE
                        /\ v = (IF n = 0 THEN u ELSE Consumed(u))
  <2> DEFINE p == PageOf(emitter, u)
  <2>1. Neat(p, emitter, u)
    BY <1>2
  <2> HIDE DEF p
  <2>2. Thoughtful(p, b, n, u)
    BY <1>1, <1>3, <1>5, <2>1, SendBlocksNeat
  <2> HIDE DEF b
  <2>3. QED BY <2>2 DEF p, Thoughtful
<1>7. v = "free" <=> client # "responses"
  BY <1>3, <1>6, ConsumedUse
<1>8. v = "used" => AfterBlocks.thinking # "never"
  <2>1. CASE n = 0
    BY <1>3, <1>4, <1>6, <2>1
  <2>2. CASE n # 0
    BY <1>1, <1>4, <2>2
  <2>3. QED BY <2>1, <2>2
<1>9. AfterBlocks.thinking # "open"
  BY <1>3, <1>4
<1> HIDE DEF b
<1>10. QED BY <1>6, <1>7, <1>8, <1>9 DEF b, n

LEMMA SearchTextParts ==
  ASSUME Inv, PartsInv, SearchText
  PROVE  PartsInv'
<1>1. "searching" \in Stages /\ Ready("searching") /\ Rest /\ UNCHANGED <<stage, calls>>
  BY DEF Stages, SearchText
<1>2. /\ Working /\ stage = "searching" /\ stage' = "searching" /\ Sane(PhaseOf(emitter), emitter)
      /\ stream \in StreamType /\ emitter \in EmitterType
      /\ Streams /\ emitter.started /\ stream.blocks \in Nat
  BY <1>1, ReadyWorks, StreamFields DEF Fits
<1> DEFINE b == SendBlocks(emitter, stream.blocks)
<1>3. PICK held \in BOOLEAN :
        /\ Emit(IF held THEN b ELSE WriteText(b))
        /\ stream' = [AfterBlocks EXCEPT !.events = @ + 1, !.held = held, !.text = @ \/ ~held]
  BY DEF SearchText
<1> DEFINE e == IF held THEN b ELSE WriteText(b)
<1>4. AfterBlocks \in StreamType
  BY <1>2, AfterBlocksType
<1>5. stream'.thinking = AfterBlocks.thinking /\ stream'.mixed = AfterBlocks.mixed
  BY <1>3, <1>4 DEF StreamType
<1>6. Sane(PhaseOf(emitter), b) /\ b.started
  BY <1>2, SendBlocksSane
<1>7. stream.mixed => AfterBlocks.mixed
  BY <1>2, AfterBlocksFields
<1>8. ASSUME NEW u \in Uses, ~AfterBlocks.mixed, InHand(u)
      PROVE  \E v \in Uses : Agrees(stage', stream', e, v) /\ Neat(PageOf(emitter, u), e, v)
  <2>1. PICK v \in Uses : /\ Neat(PageOf(emitter, u), b, v) /\ b.started = TRUE /\ b.thinking = FALSE
                          /\ v = "free" <=> client # "responses"
                          /\ v = "used" => AfterBlocks.thinking # "never"
                          /\ AfterBlocks.thinking # "open"
    BY <1>2, <1>8, SearchBlocksNeat
  <2> HIDE DEF b
  <2>2. Neat(PageOf(emitter, u), e, v) /\ e.started = TRUE /\ e.thinking = FALSE
    <3>1. CASE held
      BY <2>1, <3>1
    <3>2. CASE ~held
      <4>1. e = WriteText(b)
        BY <3>2
      <4>2. Neat(PageOf(emitter, u), WriteText(b), v) /\ WriteText(b).started = TRUE
            /\ WriteText(b).thinking = FALSE
        BY <1>2, <2>1, WriteTextNeat
      <4> HIDE DEF e
      <4>3. QED BY <4>1, <4>2
    <3>3. QED BY <3>1, <3>2
  <2> HIDE DEF e
  <2>3. Agrees("searching", stream', e, v)
    BY <1>5, <2>1, <2>2 DEF Agrees
  <2>4. QED BY <1>2, <2>2, <2>3
<1> HIDE DEF b
<1>9. e \in EmitterType /\ e.started
  BY <1>2, <1>6, WriteTextSane DEF Begun, Sane
<1>10. Emit(e)
  BY <1>3
<1> HIDE DEF e
<1>11. QED BY <1>1, <1>2, <1>5, <1>7, <1>8, <1>9, <1>10, PartsGo

LEMMA SearchEndsParts ==
  ASSUME Inv, PartsInv, SearchEnds
  PROVE  PartsInv'
<1>1. "searching" \in Stages /\ Ready("searching") /\ Rest
  BY DEF Stages, SearchEnds
<1>2. /\ Working /\ stage = "searching" /\ stream \in StreamType /\ emitter \in EmitterType
      /\ Streams /\ emitter.started
  BY <1>1, ReadyWorks DEF Fits
<1> DEFINE b == SendBlocks(emitter, stream.blocks)
           f == WithHeld(b)
           c == CloseText(f)
           s(more) == IF more THEN Block(c, "text") ELSE c
           d(more) == IF stream.tool THEN Block(s(more), "tool") ELSE s(more)
<1>3. \E more \in BOOLEAN :
        \/ Over(Interrupted(s(more)), AfterBlocks.mixed)
        \/ Over(Finished(d(more)), AfterBlocks.mixed)
  BY DEF SearchEnds
<1>4. PICK more \in BOOLEAN :
        \/ Over(Interrupted(s(more)), AfterBlocks.mixed)
        \/ Over(Finished(d(more)), AfterBlocks.mixed)
  BY <1>3
<1>5. AfterBlocks.mixed \in BOOLEAN /\ (stream.mixed => AfterBlocks.mixed)
  BY <1>2, AfterBlocksType, AfterBlocksFields
<1>6. ASSUME NEW u \in Uses, ~AfterBlocks.mixed, InHand(u)
      PROVE  \E v \in Uses : Between(PageOf(emitter, u), s(more), v) /\ Between(PageOf(emitter, u), d(more), v)
  <2> DEFINE p == PageOf(emitter, u)
  <2>1. PICK v \in Uses : Neat(p, b, v) /\ b.started = TRUE /\ b.thinking = FALSE
    BY <1>2, <1>6, SearchBlocksNeat
  <2> HIDE DEF b, p
  <2>2. Neat(p, f, v) /\ f.thinking = FALSE /\ f.started = TRUE
    <3>1. Neat(p, f, v) /\ f.thinking = FALSE /\ f.started
      BY <1>2, <2>1, WithHeldNeat
    <3> HIDE DEF f
    <3>2. f.started \in BOOLEAN
      BY <3>1, EmitterFields DEF Neat
    <3>3. QED BY <3>1, <3>2
  <2> HIDE DEF f
  <2>3. Between(p, c, v)
    BY <2>2, CloseTextNeat DEF Between
  <2> HIDE DEF c
  <2>4. Between(p, Block(c, "text"), v)
    BY <1>2, <2>3, BlockNeat DEF UseAfter, Between
  <2>5. Between(p, s(more), v)
    BY <2>3, <2>4
  <2> HIDE DEF s
  <2>6. Between(p, Block(s(more), "tool"), v)
    BY <1>2, <2>5, BlockNeat DEF UseAfter, Between
  <2>7. Between(p, d(more), v)
    BY <2>5, <2>6
  <2>8. QED BY <2>5, <2>7 DEF p
<1> HIDE DEF s, d
<1>7. CASE Over(Interrupted(s(more)), AfterBlocks.mixed)
  <2>1. ASSUME NEW u \in Uses, ~AfterBlocks.mixed, InHand(u)
        PROVE  PartsLead(PageOf(emitter, u), Interrupted(s(more)).out, Done)
    BY <1>6, <2>1, InterruptedNeat DEF Between
  <2>2. QED BY <1>2, <1>5, <1>7, <2>1, PartsOver
<1>8. CASE Over(Finished(d(more)), AfterBlocks.mixed)
  <2>1. ASSUME NEW u \in Uses, ~AfterBlocks.mixed, InHand(u)
        PROVE  \E v \in Uses : Neat(PageOf(emitter, u), d(more), v) /\ ~d(more).thinking /\ ~d(more).text
    BY <1>6, <2>1 DEF Between
  <2>2. QED BY <1>2, <1>5, <1>8, <2>1, EndsParts
<1>9. QED BY <1>4, <1>7, <1>8

-----------------------------------------------------------------------------
(* What a client sees of the parts. *)

\* A client that has these parts open, and has seen those closed.
Holds(x, open, shut) == x \in SeenType /\ x.open = open /\ x.closed = shut /\ x.torn = FALSE

LEMMA PartSteps ==
  ASSUME NEW x, NEW o, NEW c, Holds(x, o, c), NEW q \in Part
  PROVE  /\ Holds(Placed(x), o, c) /\ Holds(Begin(x), o, c) /\ Holds(Fail(x), o, c)
         /\ o = {} => Holds(End(x), o, c)
         /\ q \notin o \cup c => Holds(OpenPart(x, q), o \cup {q}, c)
         /\ q \in o => Holds(WritePart(x, q), o, c) /\ Holds(ClosePart(x, q), o \ {q}, c \cup {q})
<1>1. /\ x \in SeenType /\ o \subseteq Part /\ c \subseteq Part /\ x.begun \in Nat /\ x.ended \in Nat
      /\ x.late \in BOOLEAN /\ x.open = o /\ x.closed = c /\ x.torn = FALSE
  BY SeenFields DEF Holds
<1>2. x.ended + 1 \in Nat /\ x.begun + 1 \in Nat
  BY <1>1
<1>3. \A v \in BOOLEAN : Holds([x EXCEPT !.late = v], o, c)
  BY <1>1 DEF Holds, SeenType
<1>4. Holds(Placed(x), o, c)
  <2>1. (x.late \/ x.ended > 0 \/ x.begun = 0) \in BOOLEAN
    BY <1>1
  <2>2. Placed(x) = [x EXCEPT !.late = (x.late \/ x.ended > 0 \/ x.begun = 0)]
    BY DEF Placed
  <2>3. QED BY <1>3, <2>1, <2>2
<1>5. Holds(Begin(x), o, c)
  <2>1. \A v \in BOOLEAN : Holds([x EXCEPT !.begun = x.begun + 1, !.late = v], o, c)
    BY <1>1, <1>2 DEF Holds, SeenType
  <2>2. (x.late \/ x.ended > 0) \in BOOLEAN
    BY <1>1
  <2>3. Begin(x) = [x EXCEPT !.begun = x.begun + 1, !.late = (x.late \/ x.ended > 0)]
    BY DEF Begin
  <2>4. QED BY <2>1, <2>2, <2>3
<1> DEFINE p == Placed(x)
<1>6. /\ p \in SeenType /\ p.open = o /\ p.closed = c /\ p.torn = FALSE /\ p.ended \in Nat
  BY <1>4, SeenFields DEF Holds
<1>7. p.ended + 1 \in Nat
  BY <1>6
<1>8. Fail(x) = [p EXCEPT !.ended = p.ended + 1]
  BY DEF Fail
<1>9. o = {} => End(x) = [p EXCEPT !.ended = p.ended + 1, !.torn = FALSE]
  <2> SUFFICES ASSUME o = {} PROVE End(x) = [p EXCEPT !.ended = p.ended + 1, !.torn = FALSE]
    OBVIOUS
  <2>1. (p.torn \/ x.open # {}) = FALSE
    BY <1>1, <1>6
  <2>2. End(x) = [p EXCEPT !.ended = p.ended + 1, !.torn = (p.torn \/ x.open # {})]
    BY DEF End
  <2>3. QED BY <2>1, <2>2
<1>10. q \notin o \cup c => OpenPart(x, q) = [p EXCEPT !.open = o \cup {q}, !.torn = FALSE]
  <2> SUFFICES ASSUME q \notin o \cup c
               PROVE  OpenPart(x, q) = [p EXCEPT !.open = o \cup {q}, !.torn = FALSE]
    OBVIOUS
  <2>1. (p.torn \/ q \in x.open \cup x.closed) = FALSE /\ p.open \cup {q} = o \cup {q}
    BY <1>1, <1>6
  <2>2. OpenPart(x, q) = [p EXCEPT !.open = p.open \cup {q}, !.torn = (p.torn \/ q \in x.open \cup x.closed)]
    BY DEF OpenPart
  <2>3. QED BY <2>1, <2>2
<1>11. q \in o => WritePart(x, q) = [p EXCEPT !.torn = FALSE]
  <2> SUFFICES ASSUME q \in o PROVE WritePart(x, q) = [p EXCEPT !.torn = FALSE]
    OBVIOUS
  <2>1. (p.torn \/ q \notin x.open) = FALSE
    BY <1>1, <1>6
  <2>2. WritePart(x, q) = [p EXCEPT !.torn = (p.torn \/ q \notin x.open)]
    BY DEF WritePart
  <2>3. QED BY <2>1, <2>2
<1> HIDE DEF p
<1>12. Holds(Fail(x), o, c)
  BY <1>6, <1>7, <1>8 DEF Holds, SeenType
<1>13. o = {} => Holds(End(x), o, c)
  BY <1>6, <1>7, <1>9 DEF Holds, SeenType
<1>14. q \notin o \cup c => Holds(OpenPart(x, q), o \cup {q}, c)
  <2>1. o \cup {q} \in SUBSET Part
    BY <1>1
  <2>2. QED BY <1>6, <1>10, <2>1 DEF Holds, SeenType
<1>15. q \in o => Holds(WritePart(x, q), o, c)
  BY <1>6, <1>11 DEF Holds, SeenType
<1>16. q \in o => Holds(ClosePart(x, q), o \ {q}, c \cup {q})
  <2> SUFFICES ASSUME q \in o PROVE Holds(ClosePart(x, q), o \ {q}, c \cup {q})
    OBVIOUS
  <2> DEFINE w == WritePart(x, q)
  <2>1. w \in SeenType /\ w.open = o /\ w.closed = c /\ w.torn = FALSE
    BY <1>15 DEF Holds
  <2>2. ClosePart(x, q) = [w EXCEPT !.open = w.open \ {q}, !.closed = w.closed \cup {q}]
    BY DEF ClosePart
  <2> HIDE DEF w
  <2>3. ClosePart(x, q) = [w EXCEPT !.open = o \ {q}, !.closed = c \cup {q}]
    BY <2>1, <2>2
  <2>4. o \ {q} \in SUBSET Part /\ c \cup {q} \in SUBSET Part
    BY <1>1
  <2>5. QED BY <2>1, <2>3, <2>4 DEF Holds, SeenType
<1>17. QED BY <1>4, <1>5, <1>12, <1>13, <1>14, <1>15, <1>16

LEMMA RefuseParts ==
  ASSUME NEW x \in SeenType
  PROVE  Refuse(x).torn = x.torn
BY DEF Refuse, SeenType

\* A step that leaves the handler alone.
LEMMA PartsClient ==
  ASSUME PartsInv, UNCHANGED <<client, ask, stage, stream, emitter>>,
         seen'.torn => seen.torn \/ Live',
         ASSUME NEW u \in Uses, Carried(u), Live' PROVE Carried(u)' /\ ~seen'.torn
  PROVE  PartsInv'
<1>1. Whole' = Whole
  BY DEF Whole
<1>2. ASSUME NEW u \in Uses, InHand(u), stage # "over"
      PROVE  InHand(u)'
  <2>1. Streams' = Streams
    BY DEF Streams
  <2>2. Agrees(stage, stream, emitter, u)'
    BY <1>2, <2>1 DEF InHand, Agrees
  <2>3. Neat(PageOf(emitter, u), emitter, u)'
    BY <1>2, <2>1 DEF InHand, Neat, PageOf, PhaseOf
  <2>4. QED BY <2>2, <2>3 DEF InHand
<1>3. ASSUME Whole'
      PROVE  ~seen'.torn /\ \E u \in Uses : (stage' # "over" => InHand(u)') /\ Carried(u)'
  <2>1. PICK u \in Uses : (stage # "over" => InHand(u)) /\ Carried(u)
    BY <1>1, <1>3 DEF PartsInv
  <2>2. stage' # "over" => InHand(u)'
    BY <1>2, <2>1
  <2>3. CASE Live'
    BY <2>1, <2>2, <2>3
  <2>4. CASE ~Live'
    <3>1. Carried(u)'
      BY <2>4 DEF Carried
    <3>2. ~seen'.torn
      BY <1>1, <1>3, <2>4 DEF PartsInv
    <3>3. QED BY <2>2, <3>1, <3>2
  <2>5. QED BY <2>3, <2>4
<1>4. QED BY <1>3 DEF PartsInv

LEMMA HandlerBookStays ==
  ASSUME UNCHANGED <<client, stage, emitter, status>>, NEW u
  PROVE  HandlerBook(u)' = HandlerBook(u)
BY DEF HandlerBook, HandlerPhase, Unsaid, PhaseOf, PartOf, Streams

LEMMA ClientBookStays ==
  ASSUME UNCHANGED <<client, status, transcoder, seen>>, NEW b
  PROVE  ClientBook(b)' <=> ClientBook(b)
BY DEF ClientBook, EndSeen, OverBridge, OpenAt, ClosedAt, NotedAt

\* The frames that are left lead from the next page.
LEMMA PartsFrom ==
  ASSUME NEW b, NEW q \in Seq(Frames), NEW c, PartsLead(b, q, c), q # <<>>
  PROVE  b \in Book /\ \E d \in Book : Turns(b, Head(q), d) /\ PartsLead(d, Tail(q), c)
<1>1. b \in Book /\ Head(q) \in Frames
  BY PathPlaces, HeadTailProperties DEF PartsLead
<1>2. PICK d \in Book : <<b, Head(q), d>> \in Turning /\ Path(Book, Turning, d, Tail(q), c)
  BY PathFrom DEF PartsLead
<1>3. QED BY <1>1, <1>2, Turned DEF PartsLead

LEMMA PartsOn ==
  ASSUME NEW b, NEW q \in Seq(Frames), NEW c, PartsLead(b, q, c),
         NEW f \in Frames, NEW d \in Book, Turns(c, f, d)
  PROVE  PartsLead(b, Append(q, f), d)
<1>1. c \in Book
  BY PathPlaces DEF PartsLead
<1>2. <<c, f, d>> \in Turning
  BY <1>1, Turned
<1>3. QED BY <1>2, PathOn DEF PartsLead

LEMMA PushParts ==
  ASSUME Inv, PartsInv, Push
  PROVE  PartsInv'
<1>1. /\ pending # <<>> /\ pending' = Tail(pending)
      /\ UNCHANGED <<client, ask, stage, stream, emitter, transcoder, status, gone, seen>>
      /\ \/ channel' = Append(channel, Head(pending))
         \/ aborted /\ channel' = channel
  BY DEF Push, upstream
<1>2. Head(pending) \in Frames /\ pending \in Seq(Frames) /\ channel \in Seq(Frames)
  BY <1>1, PendingLeft DEF Inv, Types
<1>3. ASSUME NEW u \in Uses, Carried(u), Live'
      PROVE  Carried(u)' /\ ~seen'.torn
  <2>1. Live
    BY <1>1, <1>3 DEF Live
  <2>2. channel' = Append(channel, Head(pending))
    BY <1>1, <2>1 DEF Live, Inv, Bridge
  <2>3. PICK c \in Book, m \in Book :
          ClientBook(c) /\ PartsLead(c, channel, m) /\ PartsLead(m, pending, HandlerBook(u))
    BY <1>3, <2>1 DEF Carried
  <2>4. PICK d \in Book : Turns(m, Head(pending), d) /\ PartsLead(d, Tail(pending), HandlerBook(u))
    BY <1>1, <1>2, <2>3, PartsFrom
  <2>5. PartsLead(c, channel', d)
    BY <1>2, <2>2, <2>3, <2>4, PartsOn
  <2>6. ClientBook(c)' /\ HandlerBook(u)' = HandlerBook(u)
    BY <1>1, <2>3, ClientBookStays, HandlerBookStays
  <2>7. ~seen'.torn
    BY <1>1, <2>3 DEF ClientBook
  <2>8. PartsLead(d, pending', HandlerBook(u)')
    BY <1>1, <2>4, <2>6
  <2>9. QED BY <2>5, <2>6, <2>7, <2>8 DEF Carried
<1>4. seen'.torn => seen.torn
  BY <1>1
<1>5. QED BY <1>1, <1>3, <1>4, PartsClient

\* Nothing that the client or the handler is at changes.
LEMMA StillParts ==
  ASSUME PartsInv,
         UNCHANGED <<client, ask, stage, stream, emitter, pending, channel, status, seen>>,
         Live' => Live /\ UNCHANGED transcoder
  PROVE  PartsInv'
<1>1. ASSUME NEW u \in Uses, Carried(u), Live'
      PROVE  Carried(u)' /\ ~seen'.torn
  <2>1. PICK c \in Book, m \in Book :
          ClientBook(c) /\ PartsLead(c, channel, m) /\ PartsLead(m, pending, HandlerBook(u))
    BY <1>1 DEF Carried
  <2>2. ClientBook(c)' /\ HandlerBook(u)' = HandlerBook(u)
    BY <1>1, <2>1, ClientBookStays, HandlerBookStays
  <2>3. ~seen'.torn
    BY <2>1 DEF ClientBook
  <2>4. PartsLead(c, channel', m) /\ PartsLead(m, pending', HandlerBook(u)')
    BY <2>1, <2>2
  <2>5. QED BY <2>2, <2>3, <2>4 DEF Carried
<1>2. seen'.torn => seen.torn
  OBVIOUS
<1>3. QED BY <1>1, <1>2, PartsClient

LEMMA CloseParts ==
  ASSUME PartsInv, Close
  PROVE  PartsInv'
BY StillParts DEF Close, Live, upstream

LEMMA ClientLeavesParts ==
  ASSUME PartsInv, ClientLeaves
  PROVE  PartsInv'
<1>1. gone' = TRUE
  BY DEF ClientLeaves
<1>2. ~Live'
  BY <1>1 DEF Live
<1>3. QED BY <1>2, StillParts DEF ClientLeaves, upstream

LEMMA DrainedParts ==
  ASSUME Inv, PartsInv, Drained
  PROVE  PartsInv'
<1>1. transcoder' = [transcoder EXCEPT !.over = TRUE] /\ transcoder \in TranscoderType
  BY DEF Drained, Abort, Inv, Types
<1>2. ~Live'
  <2>1. transcoder'.over = TRUE
    BY <1>1 DEF TranscoderType
  <2>2. QED BY <2>1 DEF Live
<1>3. seen'.torn => seen.torn
  BY RefuseParts DEF Drained, Inv, Types
<1>4. UNCHANGED <<client, ask, stage, stream, emitter>>
  BY DEF Drained, upstream
<1>5. QED BY <1>2, <1>3, <1>4, PartsClient

LEMMA GiveUpParts ==
  ASSUME Inv, PartsInv, GiveUp
  PROVE  PartsInv'
<1>1. /\ stage = "idle" /\ pending = <<>> /\ ~emitter.started /\ ~status
  BY DEF GiveUp, Ready, Inv, Handlers, Fits
<1>2. /\ stage' = "over" /\ pending' = <<>> /\ emitter' = Silent /\ status' = TRUE
      /\ client' = client /\ channel' = channel /\ transcoder' = transcoder /\ gone' = gone
      /\ seen' = (IF OverBridge \/ gone THEN seen ELSE Refuse(seen))
  BY SilentSane DEF GiveUp, Over, bridge
<1>3. Whole
  BY <1>1 DEF Whole
<1>4. ~seen'.torn
  BY <1>2, <1>3, RefuseParts DEF PartsInv, Inv, Types
<1>5. PICK u \in Uses : InHand(u) /\ Carried(u)
  BY <1>1, <1>3 DEF PartsInv
<1>6. HandlerBook(u)' = HandlerBook(u)
  <2>1. emitter' = emitter
    BY <1>1, <1>2, <1>5, InHandFields
  <2>2. HandlerPhase' = HandlerPhase
    BY <1>1, <1>2 DEF HandlerPhase, Unsaid, PhaseOf, Streams
  <2>3. QED BY <1>1, <1>2, <2>1, <2>2 DEF HandlerBook, PartOf
<1>7. ASSUME Live'
      PROVE  \E c, m \in Book : /\ ClientBook(c)' /\ PartsLead(c, channel', m)
                                /\ PartsLead(m, pending', HandlerBook(u)')
  <2>1. Live
    BY <1>2, <1>7 DEF Live
  <2>2. PICK c \in Book, m \in Book :
          ClientBook(c) /\ PartsLead(c, channel, m) /\ PartsLead(m, pending, HandlerBook(u))
    BY <1>5, <2>1 DEF Carried
  <2>3. ClientBook(c)'
    <3>1. CASE OverBridge
      <4>1. seen' = seen
        BY <1>2, <3>1
      <4>2. EndSeen(c.at)' <=> EndSeen(c.at)
        BY <1>2, <3>1 DEF EndSeen, OverBridge
      <4>3. QED BY <1>2, <2>2, <4>1, <4>2 DEF ClientBook, OpenAt, ClosedAt, NotedAt
    <3>2. CASE ~OverBridge
      <4>1. EndSeen(c.at)'
        BY <1>2, <3>2 DEF EndSeen, OverBridge
      <4>2. QED BY <1>4, <2>2, <4>1 DEF ClientBook
    <3>3. QED BY <3>1, <3>2
  <2>4. PartsLead(c, channel', m) /\ PartsLead(m, pending', HandlerBook(u)')
    BY <1>1, <1>2, <1>6, <2>2
  <2>5. QED BY <2>3, <2>4
<1>8. Carried(u)'
  BY <1>7 DEF Carried
<1>9. QED BY <1>2, <1>4, <1>8 DEF PartsInv

\* No two parts have the same name.
LEMMA PartNames ==
  /\ \A i, j \in Nat : Content(i) = Content(j) => i = j
  /\ \A i, j \in Nat : Tool(i) = Tool(j) => i = j
  /\ \A i \in Nat : Tool(i) # Reasoning /\ Tool(i) # Message
  /\ Reasoning # Message
BY DEF Content, Tool, Reasoning, Message

\* An Anthropic client receives an event: it is at the page the event leads to.
LEMMA ReceivedParts ==
  ASSUME Types, ~OverBridge, ~status, NEW c \in Book, ClientBook(c), NEW f \in Frames,
         NEW d \in Book, Turns(c, f, d), seen' = Received(seen, f),
         UNCHANGED <<client, status, transcoder>>
  PROVE  ClientBook(d)'
<1> DEFINE i == c.next
           o(b) == IF b.part = "none" THEN {} ELSE {Content(b.next)}
           k(b) == {Content(j) : j \in 0 .. b.next - 1}
<1>1. client \notin {"responses", "chat"}
  BY DEF OverBridge
<1>2. \A b : /\ EndSeen(b.at) <=> b.at = "over"
             /\ EndSeen(b.at)' <=> b.at = "over"
             /\ OpenAt(b) = o(b) /\ ClosedAt(b) = k(b) /\ OpenAt(b)' = o(b) /\ ClosedAt(b)' = k(b)
  BY <1>1 DEF EndSeen, OverBridge, OpenAt, ClosedAt
<1>3. i \in Nat /\ Content(i) \in Part /\ c.part \in Kinds /\ c.thinking \in Uses
  BY BookFields, PartFields
<1>4. c.at # "over"
  BY DEF Turns
<1>5. Holds(seen, o(c), seen.closed) /\ seen.closed \subseteq k(c)
  <2>1. seen.torn = FALSE
    BY SeenFields DEF ClientBook, Types
  <2>2. QED BY <1>2, <1>4, <2>1 DEF ClientBook, Holds, Types
<1>6. Content(i) \notin k(c) /\ k(c) \cup {Content(i)} \subseteq {Content(j) : j \in 0 .. i}
  <2>1. ASSUME NEW j \in 0 .. i - 1
        PROVE  Content(j) # Content(i)
    <3>1. j \in Nat /\ j # i
      BY <1>3
    <3>2. QED BY <1>3, <3>1, PartNames
  <2>2. i \in 0 .. i /\ \A j \in 0 .. i - 1 : j \in 0 .. i
    BY <1>3
  <2>3. QED BY <2>1, <2>2
<1>7. \/ d.at = "over" /\ d.part = "none" /\ seen'.torn = FALSE
      \/ d.at # "over" /\ Holds(seen', o(d), seen'.closed) /\ seen'.closed \subseteq k(d)
         /\ (d.at # "begun" => d.part = "none")
  <2> DEFINE s == Content(i)
             m == o(c)
             z == seen.closed
  <2>1. /\ Holds(seen, m, z) /\ s \in Part /\ m = (IF c.part = "none" THEN {} ELSE {s})
        /\ z \subseteq k(c) /\ s \notin z
    BY <1>3, <1>5, <1>6
  <2> HIDE DEF k, m, s, z
  <2>2. /\ Holds(Placed(seen), m, z) /\ Holds(Begin(seen), m, z) /\ Holds(Fail(seen), m, z)
    BY <2>1, PartSteps
  <2>3. m = {} => Holds(End(seen), {}, z)
    BY <2>1, PartSteps
  <2>4. m = {} => Holds(End(Begin(seen)), {}, z)
    BY <2>1, <2>2, PartSteps
  <2>5. m = {} => Holds(OpenPart(seen, s), {s}, z)
    <3>1. m = {} => s \notin m \cup z /\ m \cup {s} = {s}
      BY <2>1
    <3>2. m = {} => Holds(OpenPart(seen, s), m \cup {s}, z)
      BY <2>1, <3>1, PartSteps
    <3>3. QED BY <3>1, <3>2
  <2>6. m = {s} => Holds(WritePart(seen, s), m, z)
    <3>1. m = {s} => s \in m
      OBVIOUS
    <3>2. QED BY <2>1, <3>1, PartSteps
  <2>7. m = {s} => Holds(ClosePart(seen, s), {}, z \cup {s})
    <3>1. m = {s} => s \in m /\ m \ {s} = {}
      OBVIOUS
    <3>2. m = {s} => Holds(ClosePart(seen, s), m \ {s}, z \cup {s})
      BY <2>1, <3>1, PartSteps
    <3>3. QED BY <3>1, <3>2
  <2>8. Done.at = "over" /\ Done.part = "none"
    BY PageFields DEF Done, Phase, Kinds, Uses
  <2>9. \A at \in Phase, next \in Nat, part \in Kinds, u \in Uses :
          /\ Page(at, next, part, u).at = at /\ Page(at, next, part, u).next = next
          /\ Page(at, next, part, u).part = part
    BY PageFields
  <2>10. /\ Consumed(c.thinking) \in Uses /\ i + 1 \in Nat
        /\ {"none", "thinking", "text", "tool"} \subseteq Kinds
        /\ {"begun", "ending"} \subseteq Phase
    BY <1>3, ConsumedUse DEF Kinds, Phase
  <2>11. k(d) = {Content(j) : j \in 0 .. d.next - 1}
    BY DEF k
  <2>12. d.next = i => k(d) = k(c)
    BY DEF k
  <2>13. CASE c.at = "idle" /\ f.event = "message_start" /\ d = Page("begun", i, c.part, c.thinking)
    <3>1. seen' = Begin(seen) /\ d.at = "begun" /\ d.next = i /\ d.part = c.part
      BY <1>3, <2>9, <2>10, <2>13 DEF Received
    <3>2. Holds(seen', o(d), z)
      BY <2>2, <3>1 DEF m
    <3>3. QED BY <2>1, <2>12, <3>1, <3>2 DEF Holds
  <2>14. CASE c.at = "unsaid" /\ f.event = "whole" /\ d = Done
    <3>1. seen' = End(Begin(seen)) /\ o(c) = {}
      BY <2>14 DEF Received, ClientBook
    <3>2. Holds(seen', {}, z)
      BY <2>4, <3>1 DEF m
    <3>3. QED BY <2>8, <2>14, <3>2 DEF Holds
  <2>15. CASE /\ c.at = "begun" /\ c.part = "none" /\ f.event = "start" /\ f.index = i
             /\ d.at = "begun" /\ d.part # "none" /\ d.next = i
    <3>1. seen' = OpenPart(seen, Content(i)) /\ o(c) = {} /\ o(d) = {Content(i)}
      BY <2>15 DEF Received
    <3>2. Holds(seen', {Content(i)}, z)
      BY <2>5, <3>1 DEF m, s
    <3>3. QED BY <2>1, <2>12, <2>15, <3>1, <3>2 DEF Holds
  <2>16. CASE c.at = "begun" /\ c.part # "none" /\ f.event = "delta" /\ f.index = i /\ d = c
    <3>1. seen' = WritePart(seen, Content(i)) /\ o(c) = {Content(i)}
      BY <2>16 DEF Received
    <3>2. Holds(seen', o(c), z)
      BY <2>6, <3>1 DEF m, s
    <3>3. QED BY <2>1, <2>16, <3>2 DEF Holds
  <2>17. CASE /\ c.at = "begun" /\ c.part # "none" /\ f.event = "stop" /\ f.index = i
              /\ d = Page("begun", i + 1, "none", c.thinking)
    <3>1. seen' = ClosePart(seen, Content(i)) /\ o(c) = {Content(i)}
      BY <2>17 DEF Received
    <3>2. d.at = "begun" /\ d.next = i + 1 /\ d.part = "none"
      BY <1>3, <2>9, <2>10, <2>17
    <3>4. Holds(seen', {}, z \cup {Content(i)})
      BY <2>7, <3>1 DEF m, s
    <3>5. k(d) = {Content(j) : j \in 0 .. i}
      <4>1. d.next - 1 = i
        BY <1>3, <3>2
      <4>2. QED BY <2>11, <4>1
    <3>6. z \cup {Content(i)} \subseteq k(d)
      BY <1>6, <2>1, <3>5
    <3>7. QED BY <3>2, <3>4, <3>6 DEF Holds
  <2>18. CASE /\ c.at = "begun" /\ c.part = "none" /\ f.event = "message_delta"
              /\ d = Page("ending", i, "none", c.thinking)
    <3>1. seen' = Placed(seen) /\ d.at = "ending" /\ d.next = i /\ d.part = "none"
      BY <1>3, <2>9, <2>10, <2>18 DEF Received
    <3>2. Holds(seen', o(d), z)
      BY <2>18, <2>2, <3>1 DEF m
    <3>3. QED BY <2>1, <2>12, <3>1, <3>2 DEF Holds
  <2>19. CASE f.event = "error" /\ d = Done
    <3>1. seen' = Fail(seen)
      BY <2>19 DEF Received
    <3>2. Holds(seen', m, z)
      BY <2>2, <3>1
    <3>3. QED BY <2>8, <2>19, <3>2 DEF Holds
  <2>20. CASE c.at = "ending" /\ f.event = "message_stop" /\ d = Done
    <3>1. seen' = End(seen) /\ o(c) = {}
      BY <2>20 DEF Received, ClientBook
    <3>2. Holds(seen', {}, z)
      BY <2>3, <3>1 DEF m
    <3>3. QED BY <2>8, <2>20, <3>2 DEF Holds
  <2>21. \/ c.at = "idle" /\ f.event = "message_start" /\ d = Page("begun", i, c.part, c.thinking)
         \/ c.at = "unsaid" /\ f.event = "whole" /\ d = Done
         \/ /\ c.at = "begun" /\ c.part = "none" /\ f.event = "start" /\ f.index = i
            /\ d.at = "begun" /\ d.part # "none" /\ d.next = i
         \/ c.at = "begun" /\ c.part # "none" /\ f.event = "delta" /\ f.index = i /\ d = c
         \/ /\ c.at = "begun" /\ c.part # "none" /\ f.event = "stop" /\ f.index = i
            /\ d = Page("begun", i + 1, "none", c.thinking)
         \/ /\ c.at = "begun" /\ c.part = "none" /\ f.event = "message_delta"
            /\ d = Page("ending", i, "none", c.thinking)
         \/ f.event = "error" /\ d = Done
         \/ c.at = "ending" /\ f.event = "message_stop" /\ d = Done
    BY <1>3, <2>9, <2>10 DEF Turns
  <2>22. QED BY <2>13, <2>14, <2>15, <2>16, <2>17, <2>18, <2>19, <2>20, <2>21
<1>8. client' = client
  OBVIOUS
<1> HIDE DEF o, k
<1>9. QED BY <1>1, <1>2, <1>7, <1>8 DEF ClientBook, Holds

LEMMA WriteParts ==
  ASSUME Inv, PartsInv, Write
  PROVE  PartsInv'
<1>1. /\ ~OverBridge /\ pending # <<>> /\ pending' = Tail(pending)
      /\ UNCHANGED <<client, ask, stage, stream, emitter, channel, transcoder, status, gone>>
      /\ seen' = (IF gone THEN seen ELSE Received(seen, Head(pending)))
  BY DEF Write, upstream, bridge
<1>2. Head(pending) \in Frames /\ pending \in Seq(Frames) /\ ~status
  BY <1>1, PendingLeft DEF Inv, Types
<1>3. channel = <<>> /\ ~transcoder.over
  BY <1>1 DEF Inv, Bridge
<1>4. ASSUME NEW u \in Uses, Carried(u), Live'
      PROVE  Carried(u)' /\ ~seen'.torn
  <2>1. Live /\ ~gone
    BY <1>1, <1>4 DEF Live
  <2>2. PICK c \in Book, m \in Book :
          ClientBook(c) /\ PartsLead(c, channel, m) /\ PartsLead(m, pending, HandlerBook(u))
    BY <1>4, <2>1 DEF Carried
  <2>3. m = c
    BY <1>3, <2>2, PartsNowhere
  <2>4. PICK d \in Book : Turns(c, Head(pending), d) /\ PartsLead(d, Tail(pending), HandlerBook(u))
    BY <1>1, <1>2, <2>2, <2>3, PartsFrom
  <2>5. ClientBook(d)'
    BY <1>1, <1>2, <2>1, <2>2, <2>4, ReceivedParts DEF Inv
  <2>6. HandlerBook(u)' = HandlerBook(u)
    BY <1>1, HandlerBookStays
  <2>7. PartsLead(d, channel', d)
    BY <1>1, <1>3, PartsNowhere
  <2>8. ~seen'.torn
    BY <2>5 DEF ClientBook
  <2>9. QED BY <1>1, <2>4, <2>5, <2>6, <2>7, <2>8 DEF Carried
<1>5. seen'.torn => seen.torn \/ Live'
  BY <1>1, <1>3 DEF Live
<1>6. QED BY <1>1, <1>4, <1>5, PartsClient

\* A part is only open in an answer that has begun and not ended.
LEMMA TurnsPart ==
  ASSUME NEW c \in Book, NEW f \in Frames, NEW d \in Book, Turns(c, f, d),
         c.at # "begun" => c.part = "none"
  PROVE  d.at # "begun" => d.part = "none"
<1>1. Done.part = "none"
  BY PageFields DEF Done, Phase, Kinds, Uses
<1>2. c.next \in Nat /\ c.next + 1 \in Nat /\ c.part \in Kinds /\ c.thinking \in Uses
      /\ Consumed(c.thinking) \in Uses
  BY BookFields, ConsumedUse
<1>3. \A next \in Nat, part \in Kinds, u \in Uses :
        Page("begun", next, part, u).at = "begun" /\ Page("ending", next, "none", u).part = "none"
  BY DEF Page
<1>4. {"none", "thinking", "text", "tool"} \subseteq Kinds
  BY DEF Kinds
<1>5. QED BY <1>1, <1>2, <1>3, <1>4 DEF Turns

\* The chat protocol has no parts.
LEMMA ChatParts ==
  ASSUME Types, client = "chat", NEW c \in Book, ClientBook(c), NEW f \in Frames,
         NEW d \in Book, Turns(c, f, d), seen' = Chat(f)[2], UNCHANGED <<client, status>>
  PROVE  ClientBook(d)'
<1>1. \A b : /\ EndSeen(b.at) <=> b.at = "over"
             /\ OpenAt(b) = {} /\ ClosedAt(b) = {} /\ OpenAt(b)' = {} /\ ClosedAt(b)' = {}
  BY DEF EndSeen, OverBridge, OpenAt, ClosedAt
<1>2. c.at # "over"
  BY DEF Turns
<1>3. Holds(seen, {}, {})
  <2>1. seen.torn = FALSE /\ seen \in SeenType
    BY SeenFields DEF ClientBook, Types
  <2>2. seen.open = {} /\ seen.closed = {}
    BY <1>1, <1>2 DEF ClientBook
  <2>3. QED BY <2>1, <2>2 DEF Holds
<1>4. Reasoning \in Part
  BY PartFields
<1>5. /\ Holds(Placed(seen), {}, {}) /\ Holds(Begin(seen), {}, {}) /\ Holds(Fail(seen), {}, {})
  BY <1>3, <1>4, PartSteps
<1>6. Holds(End(seen), {}, {})
  BY <1>3, <1>4, PartSteps
<1>7. seen' \in {seen, Placed(seen), Begin(seen), Fail(seen), End(seen)}
  BY FrameFields DEF Chat
<1>8. Holds(seen', {}, {})
  BY <1>3, <1>5, <1>6, <1>7
<1>9. d.at # "begun" => d.part = "none"
  BY TurnsPart DEF ClientBook
<1>10. client' = "chat"
  OBVIOUS
<1>11. QED BY <1>1, <1>8, <1>9, <1>10 DEF ClientBook, Holds

\* What a client of the Responses protocol and its transcoder have noted at page b.
MessageOf(t) == IF t.message THEN {Message} ELSE {}
OpenItems(t, b) ==
  (IF b.part = "thinking" THEN {Reasoning} ELSE {})
  \cup (IF b.part = "tool" THEN {Tool(b.next)} ELSE {}) \cup MessageOf(t)
ShutItems(b) ==
  {Tool(i) : i \in 0 .. b.next - 1} \cup (IF b.thinking = "used" THEN {Reasoning} ELSE {})
Noted(t, b) ==
  /\ t.thinking = (IF b.part = "thinking" THEN {b.next} ELSE {})
  /\ t.tools = (IF b.part = "tool" THEN {b.next} ELSE {})
  /\ t.reasoning <=> b.thinking = "used"
  /\ b.part = "thinking" => b.thinking = "used"
  /\ b.thinking # "free"
Shown(x, t, b) ==
  /\ Holds(x, OpenItems(t, b), x.closed) /\ x.closed \subseteq ShutItems(b)
  /\ Noted(t, b)

\* Parts of the same names, noted by the same transcoder.
Same(t, s) ==
  t.thinking = s.thinking /\ t.tools = s.tools /\ t.reasoning = s.reasoning /\ t.message = s.message

LEMMA OpenThinkingNoted ==
  ASSUME NEW t \in TranscoderType, NEW i \in Nat, NEW o, o = OpenThinking(t, i)
  PROVE  o.thinking = t.thinking \cup {i} /\ o.tools = t.tools /\ o.reasoning /\ o.message = t.message
BY DEF TranscoderType, OpenThinking

LEMMA ShutThinkingNoted ==
  ASSUME NEW t \in TranscoderType, NEW i \in Nat, NEW o, o = ShutThinking(t, i)
  PROVE  o.thinking = t.thinking \ {i} /\ o.tools = t.tools /\ o.reasoning = t.reasoning /\ o.message = t.message
BY DEF TranscoderType, ShutThinking

LEMMA OpenToolNoted ==
  ASSUME NEW t \in TranscoderType, NEW i \in Nat, NEW o, o = OpenTool(t, i)
  PROVE  o.thinking = t.thinking /\ o.tools = t.tools \cup {i} /\ o.reasoning = t.reasoning /\ o.message = t.message
BY DEF TranscoderType, OpenTool

LEMMA ShutToolNoted ==
  ASSUME NEW t \in TranscoderType, NEW i \in Nat, NEW o, o = ShutTool(t, i)
  PROVE  o.thinking = t.thinking /\ o.tools = t.tools \ {i} /\ o.reasoning = t.reasoning /\ o.message = t.message
BY DEF TranscoderType, ShutTool

LEMMA OpenMessageNoted ==
  ASSUME NEW t \in TranscoderType, NEW o, o = OpenMessage(t)
  PROVE  o.thinking = t.thinking /\ o.tools = t.tools /\ o.reasoning = t.reasoning /\ o.message = TRUE
BY DEF TranscoderType, OpenMessage

LEMMA BegunNoted ==
  ASSUME NEW t \in TranscoderType, NEW o, o = [t EXCEPT !.begun = TRUE]
  PROVE  o \in TranscoderType /\ Same(o, t)
BY DEF TranscoderType, Same

\* One step at a time.
LEMMA Opened ==
  ASSUME NEW x, NEW o, NEW c, Holds(x, o, c), NEW q \in Part, q \notin o, q \notin c
  PROVE  Holds(OpenPart(x, q), o \cup {q}, c)
<1>1. q \notin o \cup c
  OBVIOUS
<1>2. QED BY <1>1, PartSteps

LEMMA Written ==
  ASSUME NEW x, NEW o, NEW c, Holds(x, o, c), NEW q \in Part, q \in o
  PROVE  Holds(WritePart(x, q), o, c) /\ Holds(ClosePart(x, q), o \ {q}, c \cup {q})
BY PartSteps

\* An item of the Responses protocol is opened, written to or closed.
LEMMA ItemsParts ==
  ASSUME Types, NEW c \in Book, Shown(seen, transcoder, c), NEW f \in Frames, f.event \in Inner,
         NEW d \in Book, Turns(c, f, d)
  PROVE  Shown(Responses(f)[2], Responses(f)[1], d)
<1> DEFINE i == c.next
           t == [transcoder EXCEPT !.begun = TRUE]
           s == Created
           z == seen.closed
           m == OpenItems(transcoder, c)
           g == MessageOf(transcoder)
           r == Responses(f)
<1>1. /\ i \in Nat /\ c.part \in Kinds /\ c.thinking \in Uses /\ transcoder \in TranscoderType
      /\ Tool(i) \in Part /\ Reasoning \in Part /\ Message \in Part
      /\ transcoder.reasoning \in BOOLEAN /\ transcoder.message \in BOOLEAN
  BY BookFields, PartFields, SeenFields DEF Types
<1>2. t \in TranscoderType /\ Same(t, transcoder)
  BY <1>1, BegunNoted
<1>3. Holds(seen, m, z) /\ z \subseteq ShutItems(c) /\ Noted(transcoder, c)
  BY DEF Shown
<1>4. Holds(s, m, z)
  <2> HIDE DEF m, z
  <2>1. Holds(Begin(seen), m, z)
    BY <1>1, <1>3, PartSteps
  <2>2. QED BY <1>3, <2>1 DEF Created
<1>5. /\ Message \notin z /\ Tool(i) \notin z /\ (c.thinking # "used" => Reasoning \notin z)
  <2>1. ASSUME NEW j \in 0 .. i - 1
        PROVE  Tool(j) # Tool(i) /\ Tool(j) # Message /\ Tool(j) # Reasoning
    <3>1. j \in Nat /\ j # i
      BY <1>1
    <3>2. QED BY <1>1, <3>1, PartNames
  <2>2. Tool(i) # Reasoning /\ Reasoning # Message
    BY <1>1, PartNames
  <2> HIDE DEF z
  <2>3. QED BY <1>3, <2>1, <2>2 DEF ShutItems
<1>6. /\ Reasoning \notin g /\ Tool(i) \notin g /\ g \subseteq {Message} /\ Tool(i) # Reasoning
      /\ Message # Reasoning /\ Message # Tool(i)
  BY <1>1, PartNames DEF MessageOf
<1>7. /\ f.index = i /\ c.at = "begun"
      /\ \/ /\ f.event = "start" /\ c.part = "none" /\ f.kind = "thinking" /\ c.thinking # "used"
            /\ d = Page("begun", i, "thinking", Consumed(c.thinking))
         \/ /\ f.event = "start" /\ c.part = "none" /\ f.kind \in {"text", "tool"}
            /\ d = Page("begun", i, f.kind, c.thinking)
         \/ f.event = "delta" /\ c.part # "none" /\ f.kind = c.part /\ d = c
         \/ /\ f.event = "stop" /\ c.part # "none" /\ f.kind = c.part
            /\ d = Page("begun", i + 1, "none", c.thinking)
  BY DEF Turns, Inner
<1>8. \A at \in Phase, next \in Nat, part \in Kinds, u \in Uses :
        /\ Page(at, next, part, u).next = next /\ Page(at, next, part, u).part = part
        /\ Page(at, next, part, u).thinking = u
  BY PageFields
<1>9. /\ "begun" \in Phase /\ {"none", "thinking", "text", "tool"} \subseteq Kinds /\ i + 1 \in Nat
      /\ Kinds = {"thinking", "text", "tool", "none"}
  BY <1>1 DEF Phase, Kinds
<1>10. /\ c.part = "none" => m = g
       /\ c.part = "thinking" => m = {Reasoning} \cup g
       /\ c.part = "tool" => m = {Tool(i)} \cup g
       /\ c.part = "text" => m = g
  BY DEF OpenItems
<1>11. \A o : o.message = transcoder.message => MessageOf(o) = g
  BY DEF MessageOf
<1>12. /\ c.part = "none" \/ c.part = "text" => transcoder.thinking = {} /\ transcoder.tools = {}
       /\ c.part = "thinking" => /\ transcoder.thinking = {i} /\ transcoder.tools = {}
                                 /\ c.thinking = "used"
       /\ c.part = "tool" => transcoder.thinking = {} /\ transcoder.tools = {i}
       /\ (transcoder.reasoning <=> c.thinking = "used") /\ c.thinking # "free"
  BY <1>3 DEF Noted
<1>13. /\ t.thinking = transcoder.thinking /\ t.tools = transcoder.tools
       /\ t.reasoning = transcoder.reasoning /\ t.message = transcoder.message
  BY <1>2 DEF Same
<1> HIDE DEF t, s, m, g, z
<1>14. CASE /\ f.event = "start" /\ c.part = "none" /\ f.kind = "thinking" /\ c.thinking # "used"
            /\ d = Page("begun", i, "thinking", Consumed(c.thinking))
  <2>1. c.thinking = "fresh" /\ d.next = i /\ d.part = "thinking" /\ d.thinking = "used"
    <3>1. c.thinking = "fresh"
      BY <1>1, <1>12, <1>14 DEF Uses
    <3>2. Consumed(c.thinking) = "used" /\ "used" \in Uses
      BY <3>1 DEF Consumed, Uses
    <3>3. QED BY <1>1, <1>8, <1>9, <1>14, <3>1, <3>2
  <2>2. ~t.reasoning
    BY <1>12, <1>13, <1>14
  <2>3. r[1] = OpenThinking(t, i) /\ r[2] = OpenPart(s, Reasoning)
    BY <1>7, <1>14, <2>2 DEF Responses, OpenThinking, t, s
  <2>4. /\ r[1].thinking = {i} /\ r[1].tools = {} /\ r[1].reasoning
        /\ r[1].message = transcoder.message
    <3>1. /\ r[1].thinking = t.thinking \cup {i} /\ r[1].tools = t.tools /\ r[1].reasoning
          /\ r[1].message = t.message
      BY <1>1, <1>2, <2>3, OpenThinkingNoted
    <3>2. QED BY <1>12, <1>13, <1>14, <3>1
  <2>5. Holds(r[2], g \cup {Reasoning}, z)
    <3>1. Holds(s, g, z)
      BY <1>4, <1>10, <1>14
    <3>2. QED BY <1>1, <1>5, <1>6, <1>14, <2>3, <3>1, Opened
  <2>6. OpenItems(r[1], d) = g \cup {Reasoning}
    BY <1>11, <2>1, <2>4 DEF OpenItems
  <2>7. z \subseteq ShutItems(d)
    BY <1>3, <2>1 DEF ShutItems, z
  <2> HIDE DEF r
  <2>8. Noted(r[1], d)
    BY <2>1, <2>4 DEF Noted
  <2>9. QED BY <2>5, <2>6, <2>7, <2>8 DEF Shown, Holds, r
<1>15. CASE /\ f.event = "start" /\ c.part = "none" /\ f.kind = "tool"
            /\ d = Page("begun", i, "tool", c.thinking)
  <2>1. d.next = i /\ d.part = "tool" /\ d.thinking = c.thinking
    BY <1>1, <1>8, <1>9, <1>15
  <2>2. r[1] = OpenTool(t, i) /\ r[2] = OpenPart(s, Tool(i))
    BY <1>7, <1>15 DEF Responses, OpenTool, t, s
  <2>3. /\ r[1].thinking = {} /\ r[1].tools = {i} /\ r[1].reasoning = transcoder.reasoning
        /\ r[1].message = transcoder.message
    <3>1. /\ r[1].thinking = t.thinking /\ r[1].tools = t.tools \cup {i}
          /\ r[1].reasoning = t.reasoning /\ r[1].message = t.message
      BY <1>1, <1>2, <2>2, OpenToolNoted
    <3>2. QED BY <1>12, <1>13, <1>15, <3>1
  <2>4. Holds(r[2], g \cup {Tool(i)}, z)
    <3>1. Holds(s, g, z)
      BY <1>4, <1>10, <1>15
    <3>2. QED BY <1>1, <1>5, <1>6, <2>2, <3>1, Opened
  <2>5. OpenItems(r[1], d) = g \cup {Tool(i)}
    BY <1>11, <2>1, <2>3 DEF OpenItems
  <2>6. z \subseteq ShutItems(d)
    BY <1>3, <2>1 DEF ShutItems, z
  <2> HIDE DEF r
  <2>7. Noted(r[1], d)
    BY <1>12, <2>1, <2>3 DEF Noted
  <2>8. QED BY <2>4, <2>5, <2>6, <2>7 DEF Shown, Holds, r
<1>16. CASE /\ f.event = "start" /\ c.part = "none" /\ f.kind = "text"
            /\ d = Page("begun", i, "text", c.thinking)
  <2>1. d.next = i /\ d.part = "text" /\ d.thinking = c.thinking
    BY <1>1, <1>8, <1>9, <1>16
  <2>2. r[1] = t /\ r[2] = s
    BY <1>16 DEF Responses, t, s
  <2>3. Holds(r[2], g, z)
    BY <1>4, <1>10, <1>16, <2>2
  <2> HIDE DEF r
  <2>4. OpenItems(r[1], d) = g
    BY <1>11, <1>13, <2>1, <2>2 DEF OpenItems
  <2>5. z \subseteq ShutItems(d)
    BY <1>3, <2>1 DEF ShutItems, z
  <2>6. Noted(r[1], d)
    BY <1>12, <1>13, <1>16, <2>1, <2>2 DEF Noted
  <2>7. QED BY <2>3, <2>4, <2>5, <2>6 DEF Shown, Holds, r
<1>17. CASE f.event = "delta" /\ c.part = "thinking" /\ f.kind = c.part /\ d = c
  <2>1. r[1] = transcoder /\ r[2] = WritePart(seen, Reasoning)
    BY <1>17 DEF Responses
  <2>2. Holds(r[2], m, z)
    <3>1. Reasoning \in m
      BY <1>10, <1>17
    <3>2. Holds(WritePart(seen, Reasoning), m, z)
      BY <1>1, <1>3, <3>1, Written
    <3>3. QED BY <2>1, <3>2
  <2> HIDE DEF r
  <2>3. QED BY <1>3, <1>17, <2>1, <2>2 DEF Shown, Holds, m, z, r
<1>18. CASE f.event = "delta" /\ c.part = "tool" /\ f.kind = c.part /\ d = c
  <2>1. r[1] = transcoder /\ r[2] = WritePart(seen, Tool(i))
    BY <1>7, <1>18 DEF Responses
  <2>2. Holds(r[2], m, z)
    <3>1. Tool(i) \in m
      BY <1>10, <1>18
    <3>2. Holds(WritePart(seen, Tool(i)), m, z)
      BY <1>1, <1>3, <3>1, Written
    <3>3. QED BY <2>1, <3>2
  <2> HIDE DEF r
  <2>3. QED BY <1>3, <1>18, <2>1, <2>2 DEF Shown, Holds, m, z, r
<1>19. CASE f.event = "delta" /\ c.part = "text" /\ f.kind = c.part /\ d = c
  <2>1. r[1] = OpenMessage(t) /\ r[2] = WritePart(MessageItem, Message)
    BY <1>19 DEF Responses, OpenMessage, t
  <2>2. /\ r[1].thinking = {} /\ r[1].tools = {} /\ r[1].reasoning = transcoder.reasoning
        /\ r[1].message = TRUE
    <3>1. /\ r[1].thinking = t.thinking /\ r[1].tools = t.tools
          /\ r[1].reasoning = t.reasoning /\ r[1].message = TRUE
      BY <1>2, <2>1, OpenMessageNoted
    <3>2. QED BY <1>12, <1>13, <1>19, <3>1
  <2>3. Holds(s, g, z)
    BY <1>4, <1>10, <1>19
  <2>4. Holds(MessageItem, {Message}, z)
    <3>1. CASE transcoder.message
      <4>1. g = {Message} /\ MessageItem = s
        BY <3>1 DEF MessageOf, MessageItem, g, s
      <4>2. QED BY <2>3, <4>1
    <3>2. CASE ~transcoder.message
      <4>1. g = {} /\ MessageItem = OpenPart(s, Message)
        BY <3>2 DEF MessageOf, MessageItem, g, s
      <4>2. Message \notin g
        BY <4>1
      <4>3. Holds(OpenPart(s, Message), g \cup {Message}, z)
        BY <1>1, <1>5, <2>3, <4>2, Opened
      <4>4. QED BY <4>1, <4>3
    <3>3. QED BY <3>1, <3>2
  <2>5. Holds(r[2], {Message}, z)
    <3>1. Message \in {Message}
      OBVIOUS
    <3>2. Holds(WritePart(MessageItem, Message), {Message}, z)
      BY <1>1, <2>4, <3>1, Written
    <3>3. QED BY <2>1, <3>2
  <2> HIDE DEF r
  <2>6. OpenItems(r[1], d) = {Message}
    BY <1>19, <2>2 DEF OpenItems, MessageOf
  <2>7. z \subseteq ShutItems(d)
    BY <1>3, <1>19
  <2>8. Noted(r[1], d)
    BY <1>12, <1>19, <2>2 DEF Noted
  <2>9. QED BY <2>5, <2>6, <2>7, <2>8 DEF Shown, Holds, r
<1>20. ASSUME f.event = "stop", c.part # "none", f.kind = c.part, d = Page("begun", i + 1, "none", c.thinking)
       PROVE  /\ d.next = i + 1 /\ d.part = "none" /\ d.thinking = c.thinking
              /\ z \cup {Tool(i)} \subseteq ShutItems(d)
              /\ (c.thinking = "used" => z \cup {Reasoning} \subseteq ShutItems(d))
  <2>1. d.next = i + 1 /\ d.part = "none" /\ d.thinking = c.thinking
    BY <1>1, <1>8, <1>9, <1>20
  <2>2. \A j \in 0 .. i - 1 : j \in 0 .. d.next - 1
    BY <1>1, <2>1
  <2>3. i \in 0 .. d.next - 1
    BY <1>1, <2>1
  <2>4. z \subseteq ShutItems(c)
    BY <1>3
  <2>5. QED BY <2>1, <2>2, <2>3, <2>4 DEF ShutItems
<1>21. CASE /\ f.event = "stop" /\ c.part = "thinking" /\ f.kind = c.part
            /\ d = Page("begun", i + 1, "none", c.thinking)
  <2>1. t.thinking \ {i} = {} /\ i \in t.thinking
    BY <1>12, <1>13, <1>21
  <2>2. r[1] = ShutThinking(transcoder, i) /\ r[2] = ClosePart(seen, Reasoning)
    BY <1>7, <1>21, <2>1 DEF Responses, ReasoningDone, ShutThinking, t
  <2>3. /\ r[1].thinking = {} /\ r[1].tools = {} /\ r[1].reasoning = transcoder.reasoning
        /\ r[1].message = transcoder.message
    <3>1. /\ r[1].thinking = transcoder.thinking \ {i} /\ r[1].tools = transcoder.tools
          /\ r[1].reasoning = transcoder.reasoning /\ r[1].message = transcoder.message
      BY <1>1, <2>2, ShutThinkingNoted
    <3>2. QED BY <1>12, <1>13, <1>21, <2>1, <3>1
  <2>4. Holds(r[2], g, z \cup {Reasoning})
    <3>1. m = {Reasoning} \cup g /\ Reasoning \in m
      BY <1>10, <1>21
    <3>2. Holds(ClosePart(seen, Reasoning), m \ {Reasoning}, z \cup {Reasoning})
      BY <1>1, <1>3, <3>1, Written
    <3>3. m \ {Reasoning} = g
      BY <1>6, <3>1
    <3>4. QED BY <2>2, <3>2, <3>3
  <2> HIDE DEF r
  <2>5. OpenItems(r[1], d) = g
    BY <1>11, <1>20, <1>21, <2>3 DEF OpenItems
  <2>6. z \cup {Reasoning} \subseteq ShutItems(d)
    BY <1>12, <1>20, <1>21
  <2>7. Noted(r[1], d)
    BY <1>12, <1>20, <1>21, <2>3 DEF Noted
  <2>8. QED BY <2>4, <2>5, <2>6, <2>7 DEF Shown, Holds, r
<1>22. CASE /\ f.event = "stop" /\ c.part = "tool" /\ f.kind = c.part
            /\ d = Page("begun", i + 1, "none", c.thinking)
  <2>1. i \notin t.thinking /\ i \in transcoder.tools /\ transcoder.tools \ {i} = {}
    BY <1>12, <1>13, <1>22
  <2>2. r[1] = ShutTool(transcoder, i) /\ r[2] = ClosePart(seen, Tool(i))
    BY <1>7, <1>22, <2>1 DEF Responses, ToolDone, ShutTool, t
  <2>3. /\ r[1].thinking = {} /\ r[1].tools = {} /\ r[1].reasoning = transcoder.reasoning
        /\ r[1].message = transcoder.message
    <3>1. /\ r[1].thinking = transcoder.thinking /\ r[1].tools = transcoder.tools \ {i}
          /\ r[1].reasoning = transcoder.reasoning /\ r[1].message = transcoder.message
      BY <1>1, <2>2, ShutToolNoted
    <3>2. QED BY <1>12, <1>13, <1>22, <2>1, <3>1
  <2>4. Holds(r[2], g, z \cup {Tool(i)})
    <3>1. m = {Tool(i)} \cup g /\ Tool(i) \in m
      BY <1>10, <1>22
    <3>2. Holds(ClosePart(seen, Tool(i)), m \ {Tool(i)}, z \cup {Tool(i)})
      BY <1>1, <1>3, <3>1, Written
    <3>3. m \ {Tool(i)} = g
      BY <1>6, <3>1
    <3>4. QED BY <2>2, <3>2, <3>3
  <2> HIDE DEF r
  <2>5. OpenItems(r[1], d) = g
    BY <1>11, <1>20, <1>22, <2>3 DEF OpenItems
  <2>6. z \cup {Tool(i)} \subseteq ShutItems(d)
    BY <1>20, <1>22
  <2>7. Noted(r[1], d)
    BY <1>12, <1>20, <1>22, <2>3 DEF Noted
  <2>8. QED BY <2>4, <2>5, <2>6, <2>7 DEF Shown, Holds, r
<1>23. CASE /\ f.event = "stop" /\ c.part = "text" /\ f.kind = c.part
            /\ d = Page("begun", i + 1, "none", c.thinking)
  <2>1. i \notin t.thinking /\ i \notin transcoder.tools /\ transcoder.tools \ {i} = {}
    BY <1>12, <1>13, <1>23
  <2>2. r[1] = ShutTool(transcoder, i) /\ r[2] = seen
    BY <1>7, <1>23, <2>1 DEF Responses, ToolDone, ShutTool, t
  <2>3. /\ r[1].thinking = {} /\ r[1].tools = {} /\ r[1].reasoning = transcoder.reasoning
        /\ r[1].message = transcoder.message
    <3>1. /\ r[1].thinking = transcoder.thinking /\ r[1].tools = transcoder.tools \ {i}
          /\ r[1].reasoning = transcoder.reasoning /\ r[1].message = transcoder.message
      BY <1>1, <2>2, ShutToolNoted
    <3>2. QED BY <1>12, <1>13, <1>23, <2>1, <3>1
  <2>4. Holds(r[2], g, z)
    BY <1>3, <1>10, <1>23, <2>2 DEF m, z
  <2> HIDE DEF r
  <2>5. OpenItems(r[1], d) = g
    BY <1>11, <1>20, <1>23, <2>3 DEF OpenItems
  <2>6. z \subseteq ShutItems(d)
    BY <1>20, <1>23
  <2>7. Noted(r[1], d)
    BY <1>12, <1>20, <1>23, <2>3 DEF Noted
  <2>8. QED BY <2>4, <2>5, <2>6, <2>7 DEF Shown, Holds, r
<1>24. QED
  <2>1. c.part = "none" \/ c.part = "thinking" \/ c.part = "tool" \/ c.part = "text"
    BY <1>1, <1>9
  <2>2. QED BY <1>7, <1>14, <1>15, <1>16, <1>17, <1>18, <1>19, <1>21, <1>22, <1>23, <2>1

LEMMA ResponsesParts ==
  ASSUME Types, client = "responses", NEW c \in Book, ClientBook(c), NEW f \in Frames,
         f.event # "whole", NEW d \in Book, Turns(c, f, d),
         transcoder' = Responses(f)[1], seen' = Responses(f)[2], UNCHANGED <<client, status>>
  PROVE  ClientBook(d)'
<1> DEFINE t == [transcoder EXCEPT !.begun = TRUE]
           s == Created
           z == seen.closed
           m == OpenItems(transcoder, c)
           r == Responses(f)
<1>1. /\ \A b : EndSeen(b.at) <=> b.at \in {"over", "ending"}
      /\ \A b : EndSeen(b.at)' <=> b.at \in {"over", "ending"}
  BY DEF EndSeen, OverBridge
<1>2. c.at \notin {"over", "ending"} => Shown(seen, transcoder, c)
  <2>1. seen \in SeenType /\ seen.torn = FALSE
    BY SeenFields DEF ClientBook, Types
  <2>2. OpenAt(c) = OpenItems(transcoder, c) /\ ClosedAt(c) = ShutItems(c)
    BY DEF OpenAt, OpenItems, MessageOf, ClosedAt, ShutItems
  <2>3. NotedAt(c) <=> Noted(transcoder, c)
    BY DEF NotedAt, Noted
  <2>4. QED BY <1>1, <2>1, <2>2, <2>3 DEF ClientBook, Shown, Holds
<1>3. d.at # "begun" => d.part = "none"
  BY TurnsPart DEF ClientBook
<1>4. Shown(r[2], r[1], d) => ClientBook(d)'
  <2> SUFFICES ASSUME Shown(r[2], r[1], d) PROVE ClientBook(d)'
    OBVIOUS
  <2>1. /\ seen'.torn = FALSE /\ seen'.open = OpenItems(transcoder', d)
        /\ seen'.closed \subseteq ShutItems(d) /\ Noted(transcoder', d)
    BY DEF Shown, Holds
  <2>2. OpenAt(d)' = OpenItems(transcoder', d) /\ ClosedAt(d)' = ShutItems(d)
    BY DEF OpenAt, OpenItems, MessageOf, ClosedAt, ShutItems
  <2>3. NotedAt(d)' <=> Noted(transcoder', d)
    BY DEF NotedAt, Noted
  <2>4. QED BY <1>3, <2>1, <2>2, <2>3 DEF ClientBook
<1>5. d.at \in {"over", "ending"} /\ ~r[2].torn => ClientBook(d)'
  BY <1>1, <1>3 DEF ClientBook
<1>6. /\ c.next \in Nat /\ c.part \in Kinds /\ c.thinking \in Uses /\ transcoder \in TranscoderType
      /\ Reasoning \in Part /\ Message \in Part
  BY BookFields, PartFields DEF Types
<1>7. t \in TranscoderType /\ Same(t, transcoder)
  BY <1>6, BegunNoted
<1>8. c.at \notin {"over", "ending"} => Holds(s, m, z)
  <2> SUFFICES ASSUME c.at \notin {"over", "ending"} PROVE Holds(s, m, z)
    OBVIOUS
  <2> HIDE DEF m, z
  <2>1. Holds(seen, m, z)
    BY <1>2 DEF Shown, m, z
  <2>2. Holds(Begin(seen), m, z)
    BY <1>6, <2>1, PartSteps
  <2>3. QED BY <2>1, <2>2 DEF Created
<1> HIDE DEF t, s, z
<1>9. CASE c.at = "idle" /\ f.event = "message_start" /\ d = Page("begun", c.next, c.part, c.thinking)
  <2>1. r[1] = t /\ r[2] = s
    BY <1>9 DEF Responses, t, s
  <2>2. d.next = c.next /\ d.part = c.part /\ d.thinking = c.thinking
    BY <1>6, <1>9, PageFields DEF Phase
  <2>3. Holds(s, m, z) /\ z \subseteq ShutItems(c) /\ Noted(transcoder, c)
    BY <1>2, <1>8, <1>9 DEF Shown, z
  <2> HIDE DEF r, m
  <2>4. OpenItems(t, d) = m
    BY <1>7, <2>2 DEF OpenItems, MessageOf, Same, m
  <2>5. ShutItems(d) = ShutItems(c)
    BY <2>2 DEF ShutItems
  <2>6. Noted(t, d)
    BY <1>7, <2>2, <2>3 DEF Noted, Same
  <2>7. Shown(s, t, d)
    BY <2>3, <2>4, <2>5, <2>6 DEF Shown, Holds
  <2>8. QED BY <1>4, <2>1, <2>7
<1>10. CASE c.at = "begun" /\ f.event \in Inner
  BY <1>2, <1>4, <1>10, ItemsParts
<1>11. CASE /\ c.at = "begun" /\ c.part = "none" /\ f.event = "message_delta"
            /\ d = Page("ending", c.next, "none", c.thinking)
  <2>1. d.at = "ending"
    BY <1>6, <1>11, PageFields DEF Phase, Kinds
  <2>2. r[2] = MessageDone \/ r[2] = End(MessageDone)
    BY <1>11 DEF Responses
  <2>3. Holds(s, MessageOf(transcoder), z)
    <3>1. m = MessageOf(transcoder)
      BY <1>11 DEF OpenItems
    <3>2. QED BY <1>8, <1>11, <3>1
  <2>4. \E k : Holds(MessageDone, {}, k)
    <3>1. CASE transcoder.message
      <4>1. MessageDone = ClosePart(s, Message) /\ MessageOf(transcoder) = {Message}
        BY <3>1 DEF MessageDone, MessageOf, s
      <4>2. Holds(s, {Message}, z) /\ Message \in {Message} /\ {Message} \ {Message} = {}
        BY <2>3, <4>1
      <4>3. Holds(ClosePart(s, Message), {Message} \ {Message}, z \cup {Message})
        BY <1>6, <4>2, Written
      <4>4. QED BY <4>1, <4>2, <4>3
    <3>2. CASE ~transcoder.message
      <4>1. MessageDone = s /\ MessageOf(transcoder) = {}
        BY <3>2 DEF MessageDone, MessageOf, s
      <4>2. QED BY <2>3, <4>1
    <3>3. QED BY <3>1, <3>2
  <2>5. PICK k : Holds(MessageDone, {}, k)
    BY <2>4
  <2>6. Holds(End(MessageDone), {}, k)
    BY <1>6, <2>5, PartSteps
  <2>7. ~r[2].torn
    BY <2>2, <2>5, <2>6 DEF Holds
  <2>8. QED BY <1>5, <2>1, <2>7
<1>12. CASE c.at = "begun" /\ f.event = "error" /\ d = Done
  <2>1. d.at = "over"
    BY <1>12, PageFields DEF Done, Phase, Kinds, Uses
  <2>2. r[2] = s \/ r[2] = Fail(s)
    BY <1>12 DEF Responses, s
  <2>3. Holds(s, m, z)
    BY <1>8, <1>12
  <2> HIDE DEF m
  <2>4. Holds(Fail(s), m, z)
    BY <1>6, <2>3, PartSteps
  <2>5. ~r[2].torn
    BY <2>2, <2>3, <2>4 DEF Holds
  <2>6. QED BY <1>5, <2>1, <2>5
<1>13. CASE c.at = "ending" /\ f.event = "message_stop" /\ d = Done
  <2>1. d.at = "over"
    BY <1>13, PageFields DEF Done, Phase, Kinds, Uses
  <2>2. r[2] = seen
    BY <1>13 DEF Responses
  <2>3. QED BY <1>5, <2>1, <2>2 DEF ClientBook
<1>14. QED BY <1>9, <1>10, <1>11, <1>12, <1>13 DEF Turns, Inner

\* A transcoder reads an event: its client is at the page the event leads to.
LEMMA TranscodeParts ==
  ASSUME Inv, PartsInv, Transcode
  PROVE  PartsInv'
<1> DEFINE f == Head(channel)
<1>1. /\ OverBridge /\ ~transcoder.over /\ channel # <<>> /\ channel' = Tail(channel)
      /\ transcoder' = Transcoded(f)[1] /\ seen' = Transcoded(f)[2]
      /\ UNCHANGED <<client, ask, stage, stream, emitter, pending, status, gone>>
  BY DEF Transcode, upstream
<1>2. f \in Frames /\ channel \in Seq(Frames)
  BY <1>1, HeadTailProperties DEF Inv, Types
<1>3. Live
  BY <1>1 DEF Inv, Bridge, Live
<1>4. f.event # "whole"
  <2>1. PICK c \in Phase, m \in Phase : ClientAt(c) /\ Leads(c, channel, m)
    BY <1>3 DEF Inv, Flow
  <2>2. PICK d \in Phase : <<c, f.event, d>> \in Moves
    BY <1>1, <1>2, <2>1, LeadsFrom
  <2>3. c # "unsaid"
    BY <1>1, <2>1 DEF ClientAt, OverBridge, Streams
  <2> HIDE DEF f
  <2>4. QED BY <2>2, <2>3 DEF Moves
<1> HIDE DEF f
<1>5. Live'
  <2>1. Inv'
    BY TranscodeInv
  <2>2. ~gone'
    BY <1>1, <1>3 DEF Live
  <2>3. PICK c \in Phase, m \in Phase : ClientAt(c) /\ Leads(c, channel, m)
    BY <1>3 DEF Inv, Flow
  <2>4. PICK d \in Phase : <<c, f.event, d>> \in Moves
    BY <1>1, <1>2, <2>3, LeadsFrom DEF f
  <2>5. \E n : Follows(transcoder', n)
    <3>1. CASE client = "chat"
      <4>1. transcoder' = Chat(f)[1]
        BY <1>1, <3>1 DEF Transcoded
      <4>2. QED BY <1>2, <2>3, <2>4, <3>1, <4>1, ChatMoves DEF Inv
    <3>2. CASE client = "responses"
      <4>1. transcoder' = Responses(f)[1]
        BY <1>1, <3>2 DEF Transcoded
      <4>2. QED BY <1>2, <2>3, <2>4, <3>2, <4>1, ResponsesMoves DEF Inv
    <3>3. QED BY <1>1, <3>1, <3>2 DEF OverBridge
  <2>6. transcoder'.over = transcoder.over
    BY <2>5 DEF Follows
  <2>7. QED BY <1>1, <2>2, <2>6 DEF Live
<1>6. ASSUME NEW u \in Uses, Carried(u)
      PROVE  Carried(u)' /\ ~seen'.torn
  <2>1. PICK c \in Book, m \in Book :
          ClientBook(c) /\ PartsLead(c, channel, m) /\ PartsLead(m, pending, HandlerBook(u))
    BY <1>3, <1>6 DEF Carried
  <2>2. PICK d \in Book : Turns(c, f, d) /\ PartsLead(d, channel', m)
    BY <1>1, <1>2, <2>1, PartsFrom DEF f
  <2>3. ClientBook(d)'
    <3>1. CASE client = "chat"
      <4>1. seen' = Chat(f)[2]
        BY <1>1, <3>1 DEF Transcoded
      <4>2. QED BY <1>1, <1>2, <2>1, <2>2, <3>1, <4>1, ChatParts DEF Inv
    <3>2. CASE client = "responses"
      <4>1. transcoder' = Responses(f)[1] /\ seen' = Responses(f)[2]
        BY <1>1, <3>2 DEF Transcoded
      <4>2. QED BY <1>1, <1>2, <1>4, <2>1, <2>2, <3>2, <4>1, ResponsesParts DEF Inv
    <3>3. QED BY <1>1, <3>1, <3>2 DEF OverBridge
  <2>4. HandlerBook(u)' = HandlerBook(u) /\ pending' = pending
    BY <1>1, HandlerBookStays
  <2>5. ~seen'.torn
    BY <2>3 DEF ClientBook
  <2>6. QED BY <2>1, <2>2, <2>3, <2>4, <2>5 DEF Carried
<1>7. QED BY <1>1, <1>5, <1>6, PartsClient

-----------------------------------------------------------------------------
(* Every step, and the theorem. *)

LEMMA InitParts == AnswerInit => PartsInv
<1> SUFFICES ASSUME AnswerInit PROVE PartsInv
  OBVIOUS
<1> DEFINE u == IF client = "responses" THEN "fresh" ELSE "free"
           b == PageOf(Silent, u)
<1>1. /\ stage = "idle" /\ stream = NoStream /\ emitter = Silent /\ pending = <<>>
      /\ channel = <<>> /\ status = FALSE /\ seen = Nothing
      /\ transcoder.thinking = {} /\ transcoder.tools = {} /\ ~transcoder.reasoning
      /\ ~transcoder.message
  BY DEF AnswerInit
<1>2. /\ seen.torn = FALSE /\ seen.open = {} /\ seen.closed = {} /\ stream.thinking = "never"
  BY <1>1 DEF Nothing, NoStream
<1>3. u \in Uses /\ (u = "free" <=> client # "responses") /\ u # "used"
  BY DEF Uses
<1> HIDE DEF u
<1>4. /\ b \in Book /\ b.at = PhaseOf(Silent) /\ b.part = "none" /\ b.thinking = u /\ b.at # "begun"
      /\ b.at \in {"idle", "unsaid"}
  BY <1>3, SilentSane, PageOfFields DEF PartOf, PhaseOf
<1>5. Silent.out = <<>>
  BY SilentSane
<1> HIDE DEF b
<1>6. PartsLead(b, <<>>, b)
  BY <1>4, PartsNowhere
<1>7. InHand(u)
  <2>1. Neat(b, Silent, u)
    BY <1>3, <1>5, <1>6, SilentSane DEF Neat, b
  <2>2. Agrees(stage, stream, Silent, u)
    BY <1>1, <1>2, <1>3, SilentSane DEF Agrees
  <2>3. QED BY <1>1, <2>1, <2>2 DEF InHand, b
<1>8. ClientBook(b)
  <2>1. client = "responses" => NotedAt(b)
    BY <1>1, <1>3, <1>4 DEF NotedAt
  <2>2. OpenAt(b) = {}
    BY <1>1, <1>4 DEF OpenAt
  <2>3. QED BY <1>2, <1>4, <2>1, <2>2 DEF ClientBook
<1>9. HandlerBook(u) = b
  BY <1>1 DEF HandlerBook, HandlerPhase, PageOf, b
<1>10. Carried(u)
  BY <1>1, <1>4, <1>6, <1>8, <1>9 DEF Carried
<1>11. QED BY <1>2, <1>3, <1>7, <1>10 DEF PartsInv

LEMMA StepParts == Inv /\ PartsInv /\ [AnswerNext]_answerVars => PartsInv'
<1> SUFFICES ASSUME Inv, PartsInv, [AnswerNext]_answerVars PROVE PartsInv'
  OBVIOUS
<1>1. CASE Call \/ GiveUp
  BY <1>1, CallParts, GiveUpParts
<1>2. CASE Think
  BY <1>2, ThinkParts DEF Think
<1>3. CASE ResearchThink
  <2>1. IF Streams /\ ask # "required" THEN Emit(WriteThinking(emitter)) ELSE Quiet
    BY <1>3 DEF ResearchThink
  <2>2. QED BY <1>3, <2>1, ThinkParts DEF ResearchThink
<1>4. CASE Text \/ NativeTool
  BY <1>4, TextParts, NativeToolParts
<1>5. CASE CallEnds \/ ReportEnds
  BY <1>5, AnsweredParts DEF CallEnds, ReportEnds
<1>6. CASE CallFails \/ AnswerEmpty
  BY <1>6, CallFailsParts
<1>7. CASE AnswerText \/ AnswerResearch
  BY <1>7, AnswerTextParts, AnswerResearchParts
<1>8. CASE AnswerTools
  BY <1>8, AnswerToolsParts
<1>9. CASE AnswerWhole \/ ResearchWhole
  BY <1>9, WholeParts
<1>10. CASE SearchStepEnds \/ SearchText \/ SearchEnds
  BY <1>10, SearchStepEndsParts, SearchTextParts, SearchEndsParts
<1>11. CASE Write \/ Push
  BY <1>11, WriteParts, PushParts
<1>12. CASE Close \/ Transcode
  BY <1>12, CloseParts, TranscodeParts
<1>13. CASE Drained \/ ClientLeaves
  BY <1>13, DrainedParts, ClientLeavesParts
<1>14. CASE UNCHANGED answerVars
  BY <1>14, StillParts DEF answerVars, upstream, bridge, Live
<1>15. QED BY <1>1, <1>2, <1>3, <1>4, <1>5, <1>6, <1>7, <1>8, <1>9, <1>10, <1>11, <1>12, <1>13, <1>14
           DEF AnswerNext

\* Whatever a client has open, and however the events are spread over the handler and the
\* bridge: the parts of an answer are opened once, written to while they are open, and
\* closed before the end, with every protocol, provided that no thinking comes after text
\* of the same call or, for the Responses protocol, after other thinking that was closed.
THEOREM PartsOrdered == AnswerSpec => []PartsInOrder
<1>1. Inv /\ PartsInv /\ [AnswerNext]_answerVars => (Inv /\ PartsInv)'
  BY StepInv, StepParts
<1>2. PartsInv => PartsInOrder
  BY DEF PartsInv, Whole, PartsInOrder
<1>3. QED BY InitInv, InitParts, <1>1, <1>2, PTL DEF AnswerSpec

-----------------------------------------------------------------------------
(* An answer ends: nobody waits for ever, and every step leaves less to do. *)

\* Whatever the capacity of the bridge, whoever fails and whoever leaves: until all is over
\* the handler or the transcoder can go on.  A handler that waits for room waits for a
\* transcoder that reads, since one that is over has aborted the bridge.
THEOREM SomeoneGoesOn == AnswerSpec => []NobodyWaits
<1>1. Inv => NobodyWaits
  <2> SUFFICES ASSUME Inv, ~HandlerGoesOn PROVE AllOver \/ TranscoderGoesOn
    BY DEF NobodyWaits
  <2>1. /\ channel \in Seq(Frames) /\ Cap \in Nat \ {0} /\ closed \in BOOLEAN
        /\ OverBridge => (aborted <=> transcoder.over)
    BY AnswerAssumption DEF Inv, Types, Bridge
  <2>2. CASE pending = <<>>
    <3>1. Ready("over") /\ (OverBridge => closed)
      BY <2>2 DEF HandlerGoesOn, Ready
    <3>2. QED BY <3>1 DEF AllOver, TranscoderGoesOn
  <2>3. CASE pending # <<>>
    <3>1. OverBridge /\ ~(Len(channel) < Cap) /\ ~transcoder.over
      BY <2>1, <2>3 DEF HandlerGoesOn
    <3>2. channel # <<>>
      BY <2>1, <3>1, EmptySeq
    <3>3. QED BY <3>1, <3>2 DEF TranscoderGoesOn
  <2>4. QED BY <2>2, <2>3
<1>2. QED BY <1>1, InvAlways, PTL

\* What a step leaves as it is, of all that is before place i of Left.
SameUpTo(i) ==
  /\ i > 1 => calls' = calls
  /\ i > 2 => stage' = stage
  /\ i > 3 => stream'.events = stream.events
  /\ i > 4 => stream'.tool = stream.tool
  /\ i > 5 => Len(pending') = Len(pending)
  /\ i > 6 => Len(channel') = Len(channel)
  /\ i > 7 => closed' = closed
  /\ i > 8 => transcoder'.over = transcoder.over

LEMMA LessAt ==
  ASSUME NEW i \in 1 .. 9, SameUpTo(i), Left'[i] < Left[i]
  PROVE  Precedes(Left', Left)
<1>1. \A j \in 1 .. i - 1 : Left'[j] = Left[j]
  <2> SUFFICES ASSUME NEW j \in 1 .. i - 1 PROVE Left'[j] = Left[j]
    OBVIOUS
  <2>1. j \in 1 .. 8 /\ i > j
    OBVIOUS
  <2>2. CASE j = 1
    BY <2>1, <2>2 DEF SameUpTo, Left
  <2>3. CASE j = 2
    BY <2>1, <2>3 DEF SameUpTo, Left
  <2>4. CASE j = 3
    BY <2>1, <2>4 DEF SameUpTo, Left
  <2>5. CASE j = 4
    BY <2>1, <2>5 DEF SameUpTo, Left, OneUnless
  <2>6. CASE j = 5
    BY <2>1, <2>6 DEF SameUpTo, Left
  <2>7. CASE j = 6
    BY <2>1, <2>7 DEF SameUpTo, Left
  <2>8. CASE j = 7
    BY <2>1, <2>8 DEF SameUpTo, Left, OneUnless
  <2>9. CASE j = 8
    BY <2>1, <2>9 DEF SameUpTo, Left, OneUnless
  <2>10. QED BY <2>1, <2>2, <2>3, <2>4, <2>5, <2>6, <2>7, <2>8, <2>9
<1>2. DOMAIN Left' = 1 .. 9
  BY DEF Left
<1>3. QED BY <1>1, <1>2 DEF Precedes

\* A call is one fewer to be made.
LEMMA CallsLess ==
  ASSUME Inv, calls < MaxCalls, calls' = calls + 1
  PROVE  Precedes(Left', Left)
<1>1. SameUpTo(1)
  BY DEF SameUpTo
<1>2. Left'[1] < Left[1]
  BY AnswerAssumption DEF Inv, Types, Left
<1>3. QED BY <1>1, <1>2, LessAt

\* A handler that goes back to the next account or forward is nearer to the end of this one.
LEMMA StageLess ==
  ASSUME Inv, calls' = calls, stage' \in Stages \cup {"over"},
         StageRank[stage'] < StageRank[stage]
  PROVE  Precedes(Left', Left)
<1>1. SameUpTo(2)
  BY DEF SameUpTo
<1>2. Left'[2] < Left[2]
  BY DEF Left
<1>3. QED BY <1>1, <1>2, LessAt

LEMMA EventsLess ==
  ASSUME Inv, calls' = calls, stage' = stage, More, stream'.events = stream.events + 1
  PROVE  Precedes(Left', Left)
<1>1. SameUpTo(3)
  BY DEF SameUpTo
<1>2. stream.events \in 0 .. MaxEvents /\ MaxEvents \in Nat
  BY AnswerAssumption, StreamFields DEF Inv, Types
<1>3. Left'[3] < Left[3]
  BY <1>2 DEF Left, More
<1>4. QED BY <1>1, <1>3, LessAt

LEMMA PendingLess ==
  ASSUME Inv, UNCHANGED upstream, pending # <<>>, pending' = Tail(pending)
  PROVE  Precedes(Left', Left)
<1>1. SameUpTo(5)
  BY DEF SameUpTo, upstream
<1>2. pending \in Seq(Frames) /\ Len(Tail(pending)) = Len(pending) - 1 /\ Len(pending) \in Nat
  BY HeadTailProperties, LenProperties DEF Inv, Types
<1>3. Left'[5] < Left[5]
  BY <1>2 DEF Left
<1>4. QED BY <1>1, <1>3, LessAt

LEMMA StageRanks ==
  /\ StageRank["reading"] = 4 /\ StageRank["answered"] = 3 /\ StageRank["searching"] = 2
  /\ StageRank["idle"] = 1 /\ StageRank["over"] = 0
BY DEF StageRank

LEMMA HandlerLess ==
  ASSUME Inv,
         \/ Call \/ GiveUp \/ CallEnds \/ ReportEnds \/ CallFails \/ AnswerEmpty
         \/ AnswerText \/ AnswerResearch \/ AnswerTools \/ AnswerWhole \/ ResearchWhole
         \/ SearchEnds
  PROVE  Precedes(Left', Left)
<1>1. CASE Call
  BY <1>1, CallsLess DEF Call
<1>2. CASE GiveUp
  <2>1. stage = "idle" /\ stage' = "over" /\ calls' = calls
    BY <1>2 DEF GiveUp, Over, Ready
  <2>2. QED BY <2>1, StageLess, StageRanks
<1>3. CASE CallEnds \/ ReportEnds
  <2>1. stage = "reading" /\ stage' = "answered" /\ calls' = calls
    BY <1>3 DEF CallEnds, ReportEnds, Answered, Ready
  <2>2. QED BY <2>1, StageLess, StageRanks DEF Stages
<1>4. CASE CallFails \/ AnswerEmpty
  <2>1. stage \in {"reading", "answered"} /\ stage' \in {"idle", "over"} /\ calls' = calls
    BY <1>4 DEF CallFails, AnswerEmpty, Fails, Over, Retry, Ready
  <2>2. QED BY <2>1, StageLess, StageRanks DEF Stages
<1>5. CASE AnswerText
  <2>1. stage = "answered" /\ stage' = "over" /\ calls' = calls
    BY <1>5 DEF AnswerText, Ends, Over, Ready
  <2>2. QED BY <2>1, StageLess, StageRanks
<1>6. CASE AnswerResearch
  <2>1. stage = "answered" /\ stage' = "over" /\ calls' = calls
    BY <1>6 DEF AnswerResearch, Ends, Over, Ready
  <2>2. QED BY <2>1, StageLess, StageRanks
<1>7. CASE AnswerTools
  <2>1. stage = "answered" /\ stage' \in {"idle", "searching", "over"} /\ calls' = calls
    BY <1>7 DEF AnswerTools, Ends, Over, Retry, Ready
  <2>2. QED BY <2>1, StageLess, StageRanks DEF Stages
<1>8. CASE AnswerWhole \/ ResearchWhole
  <2>1. stage = "answered" /\ stage' \in {"idle", "over"} /\ calls' = calls
    BY <1>8 DEF AnswerWhole, ResearchWhole, Body, Over, Retry, Ready
  <2>2. QED BY <2>1, StageLess, StageRanks DEF Stages
<1>9. CASE SearchEnds
  <2>1. stage = "searching" /\ stage' = "over" /\ calls' = calls
    BY <1>9 DEF SearchEnds, Over, Ready
  <2>2. QED BY <2>1, StageLess, StageRanks
<1>10. QED BY <1>1, <1>2, <1>3, <1>4, <1>5, <1>6, <1>7, <1>8, <1>9

LEMMA EventLess ==
  ASSUME Inv, Think \/ ResearchThink \/ Text \/ SearchStepEnds \/ SearchText
  PROVE  Precedes(Left', Left)
<1>1. stream \in StreamType
  BY DEF Inv, Types
<1>2. CASE Think \/ ResearchThink
  <2>1. More /\ stage' = stage /\ calls' = calls /\ Thought
    BY <1>2 DEF Think, ResearchThink
  <2>2. stream'.events = stream.events + 1
    BY <1>1, <2>1 DEF Thought, StreamType
  <2>3. QED BY <2>1, <2>2, EventsLess
<1>3. CASE Text
  <2>1. More /\ stage' = stage /\ calls' = calls
    BY <1>3 DEF Text
  <2>2. stream'.events = stream.events + 1
    BY <1>1, <1>3 DEF Text, StreamType
  <2>3. QED BY <2>1, <2>2, EventsLess
<1>4. CASE SearchStepEnds
  <2>1. More /\ stage' = stage /\ calls' = calls
    BY <1>4 DEF SearchStepEnds
  <2>2. stream'.events = stream.events + 1
    BY <1>1, <1>4 DEF SearchStepEnds, StreamType
  <2>3. QED BY <2>1, <2>2, EventsLess
<1>5. CASE SearchText
  <2>1. More /\ stage' = stage /\ calls' = calls
    BY <1>5 DEF SearchText
  <2>2. stream'.events = stream.events + 1
    BY <1>1, <1>5 DEF SearchText, AfterBlocks, StreamType
  <2>3. QED BY <2>1, <2>2, EventsLess
<1>6. QED BY <1>2, <1>3, <1>4, <1>5

LEMMA NativeToolLess ==
  ASSUME Inv, NativeTool
  PROVE  Precedes(Left', Left)
<1>1. /\ stage' = stage /\ calls' = calls /\ ~stream.tool
      /\ stream' = [stream EXCEPT !.tool = TRUE]
  BY DEF NativeTool
<1>2. stream'.events = stream.events /\ stream'.tool
  BY <1>1 DEF Inv, Types, StreamType
<1>3. SameUpTo(4)
  BY <1>1, <1>2 DEF SameUpTo
<1>4. Left'[4] < Left[4]
  BY <1>1, <1>2 DEF Left, OneUnless
<1>5. QED BY <1>3, <1>4, LessAt

LEMMA TransportLess ==
  ASSUME Inv, Write \/ Push \/ Close \/ Transcode \/ Drained \/ ClientLeaves
  PROVE  Precedes(Left', Left)
<1>1. CASE Write
  BY <1>1, PendingLess DEF Write
<1>2. CASE Push
  BY <1>2, PendingLess DEF Push
<1>3. CASE Transcode
  <2>1. UNCHANGED <<upstream, pending>> /\ channel # <<>> /\ channel' = Tail(channel)
    BY <1>3 DEF Transcode
  <2>2. SameUpTo(6)
    BY <2>1 DEF SameUpTo, upstream
  <2>3. channel \in Seq(Frames) /\ Len(Tail(channel)) = Len(channel) - 1 /\ Len(channel) \in Nat
    BY <2>1, HeadTailProperties, LenProperties DEF Inv, Types
  <2>4. Left'[6] < Left[6]
    BY <2>1, <2>3 DEF Left
  <2>5. QED BY <2>2, <2>4, LessAt
<1>4. CASE Close
  <2>1. SameUpTo(7)
    BY <1>4 DEF SameUpTo, Close, upstream
  <2>2. Left'[7] < Left[7]
    BY <1>4 DEF Left, Close, OneUnless
  <2>3. QED BY <2>1, <2>2, LessAt
<1>5. CASE Drained
  <2>1. UNCHANGED <<upstream, pending, channel, closed>> /\ ~transcoder.over /\ Abort
    BY <1>5 DEF Drained
  <2>2. SameUpTo(8)
    BY <2>1 DEF SameUpTo, upstream
  <2>3. transcoder'.over
    BY <2>1 DEF Abort, Inv, Types, TranscoderType
  <2>4. Left'[8] < Left[8]
    BY <2>1, <2>3 DEF Left, OneUnless
  <2>5. QED BY <2>2, <2>4, LessAt
<1>6. CASE ClientLeaves /\ OverBridge
  <2>1. UNCHANGED <<upstream, pending, channel, closed>> /\ ~transcoder.over /\ Abort
    BY <1>6 DEF ClientLeaves
  <2>2. SameUpTo(8)
    BY <2>1 DEF SameUpTo, upstream
  <2>3. transcoder'.over
    BY <2>1 DEF Abort, Inv, Types, TranscoderType
  <2>4. Left'[8] < Left[8]
    BY <2>1, <2>3 DEF Left, OneUnless
  <2>5. QED BY <2>2, <2>4, LessAt
<1>7. CASE ClientLeaves /\ ~OverBridge
  <2>1. UNCHANGED <<upstream, pending, channel, closed, transcoder>> /\ ~gone /\ gone'
    BY <1>7 DEF ClientLeaves
  <2>2. SameUpTo(9)
    BY <2>1 DEF SameUpTo, upstream
  <2>3. Left'[9] < Left[9]
    BY <2>1 DEF Left, OneUnless
  <2>4. QED BY <2>2, <2>3, LessAt
<1>8. QED BY <1>1, <1>2, <1>3, <1>4, <1>5, <1>6, <1>7

\* Left has nine places, all of them naturals, so that it cannot grow less for ever.
LEMMA LeftIsNatural == Inv => Left \in [1 .. 9 -> Nat]
<1> SUFFICES ASSUME Inv PROVE Left \in [1 .. 9 -> Nat]
  OBVIOUS
<1>1. /\ calls \in 0 .. MaxCalls /\ MaxCalls \in Nat /\ MaxEvents \in Nat
      /\ stage \in Stages \cup {"over"} /\ stream.events \in 0 .. MaxEvents
      /\ Len(pending) \in Nat /\ Len(channel) \in Nat
  BY AnswerAssumption, StreamFields, LenProperties DEF Inv, Types
<1>2. MaxCalls - calls \in Nat /\ MaxEvents - stream.events \in Nat
  BY <1>1
<1>3. StageRank[stage] \in Nat
  BY <1>1, StageRanks DEF Stages
<1>4. \A b : OneUnless(b) \in Nat
  BY DEF OneUnless
<1>5. \A a, b, c, d, e, f, g, h, i \in Nat : <<a, b, c, d, e, f, g, h, i>> \in [1 .. 9 -> Nat]
  OBVIOUS
<1>6. <<MaxCalls - calls, StageRank[stage], MaxEvents - stream.events, OneUnless(stream.tool),
        Len(pending), Len(channel), OneUnless(closed), OneUnless(transcoder.over), OneUnless(gone)>>
        \in [1 .. 9 -> Nat]
  BY <1>1, <1>2, <1>3, <1>4, <1>5
<1>7. QED BY <1>6 DEF Left

\* However accounts fail, whatever upstream sends, whatever the client does: every step of an
\* answer leaves less to do than before, by an order without infinite descent (LeftIsNatural).
\* With SomeoneGoesOn: an answer whose goroutines go on ends, provided that upstream does.
THEOREM AnswersEnd == AnswerSpec => LessIsLeft
<1>1. Inv /\ AnswerNext => Precedes(Left', Left)
  BY HandlerLess, EventLess, NativeToolLess, TransportLess DEF AnswerNext
<1>2. Inv /\ [AnswerNext]_answerVars => [Precedes(Left', Left)]_answerVars
  BY <1>1
<1>3. QED BY InvAlways, <1>2, PTL DEF AnswerSpec, LessIsLeft


=============================================================================
