---------------------------- MODULE AnswerStream ----------------------------
(***************************************************************************)
(* One answer on its way from Notion to the client: the parsers of the     *)
(* upstream streams (internal/proxy/notion.go), the handlers that turn     *)
(* their callbacks into the events of the Anthropic protocol (anthropic.go)*)
(* and the bridge that turns those into the two OpenAI protocols           *)
(* (openai.go).                                                            *)
(*                                                                         *)
(* An OpenAI stream has two goroutines: the handler writes events to a     *)
(* channel of limited capacity, the transcoder reads them and writes to    *)
(* the client.  The client may go away at any moment, and upstream may     *)
(* fail or end at any moment, before or after the answer has begun.        *)
(***************************************************************************)
EXTENDS Integers, Sequences

CONSTANTS
  Clients,   \* "sse" and "whole": Anthropic with and without streaming; "chat", "responses"
  Asks,      \* "text"; "json": structured; "tools"; "required": a tool must be called; "research"
  Cap,       \* capacity of the bridge's channel
  MaxEvents, \* bound on the upstream events of a call
  MaxCalls   \* bound on the accounts that are tried

ASSUME AnswerAssumption ==
  /\ Clients \subseteq {"sse", "whole", "chat", "responses"}
  /\ Asks \subseteq {"text", "json", "tools", "required", "research"}
  /\ Cap \in Nat \ {0} /\ MaxEvents \in Nat /\ MaxCalls \in Nat

VARIABLES
  client, ask,  \* of the request
  stage,        \* of the handler: "idle", "reading", "answered", "searching" or "over"
  calls,        \* the accounts that were tried
  stream,       \* the parser of the current call
  emitter,      \* what the handler has opened
  pending,      \* events the handler is writing
  channel, closed, aborted,  \* the bridge
  status,       \* the HTTP status of the answer is an error
  transcoder,   \* the transcoder, and whether its loop is over
  gone,         \* the client has gone away
  seen          \* what the client has received so far

upstream == <<stage, calls, stream>>
bridge == <<channel, closed, aborted, transcoder>>
answerVars == <<client, ask, upstream, emitter, pending, bridge, status, gone, seen>>

OverBridge == client \in {"chat", "responses"}
Streams == client # "whole"

-----------------------------------------------------------------------------
(* What a client sees: an answer begins, parts of it are opened, written to and closed,  *)
(* and it ends.  A part is a content block, or an item of the Responses protocol.        *)

Content(i) == <<"content", i>>
Tool(i) == <<"tool", i>>
Reasoning == <<"reasoning", 0>>
Message == <<"message", 0>>

Nothing == [begun |-> 0, ended |-> 0, open |-> {}, closed |-> {}, late |-> FALSE, torn |-> FALSE]

\* Anything after the end, or before the beginning, is out of place.
Placed(s) == [s EXCEPT !.late = @ \/ s.ended > 0 \/ s.begun = 0]
Begin(s) == [s EXCEPT !.begun = @ + 1, !.late = @ \/ s.ended > 0]
End(s) == [Placed(s) EXCEPT !.ended = @ + 1, !.torn = @ \/ s.open # {}]
Fail(s) == [Placed(s) EXCEPT !.ended = @ + 1]
Refuse(s) == [s EXCEPT !.ended = @ + 1, !.late = @ \/ s.begun > 0 \/ s.ended > 0]
OpenPart(s, p) == [Placed(s) EXCEPT !.open = @ \cup {p}, !.torn = @ \/ p \in s.open \cup s.closed]
WritePart(s, p) == [Placed(s) EXCEPT !.torn = @ \/ p \notin s.open]
ClosePart(s, p) == [WritePart(s, p) EXCEPT !.open = @ \ {p}, !.closed = @ \cup {p}]

-----------------------------------------------------------------------------
(* The events of the Anthropic protocol, and the handler's closures that send them.      *)

Event(e, i, k) == [event |-> e, index |-> i, kind |-> k]
Silent == [started |-> FALSE, thinking |-> FALSE, text |-> FALSE, index |-> 0, out |-> <<>>]
Send(e, event) == [e EXCEPT !.out = Append(@, event)]

\* ensureHeaders: status 200 and message_start, once.
Headers(e) ==
  IF e.started THEN e ELSE Send([e EXCEPT !.started = TRUE], Event("message_start", 0, "none"))

Start(e, k) == Send(e, Event("start", e.index, k))
Delta(e, k) == Send(e, Event("delta", e.index, k))
Stop(e, k) == [Send(e, Event("stop", e.index, k)) EXCEPT !.index = @ + 1]
Block(e, k) ==
  [Headers(e) EXCEPT !.index = @ + 1,
     !.out = @ \o <<Event("start", e.index, k), Event("delta", e.index, k), Event("stop", e.index, k)>>]

WriteThinking(e) ==
  LET h == Headers(e)
      o == IF h.thinking THEN h ELSE [Start(h, "thinking") EXCEPT !.thinking = TRUE]
  IN Delta(o, "thinking")

\* The index of a text block that is open moves on as well.
CloseThinking(e) == IF e.thinking THEN [Stop(e, "thinking") EXCEPT !.thinking = FALSE] ELSE e

\* A handler with tools closes thinking that is open itself.
WriteText(e) ==
  LET h == IF ask \in {"tools", "required"} THEN CloseThinking(Headers(e)) ELSE Headers(e)
      o == IF h.text THEN h ELSE [Start(h, "text") EXCEPT !.text = TRUE]
  IN Delta(o, "text")

CloseText(e) == IF e.text THEN [Stop(e, "text") EXCEPT !.text = FALSE] ELSE e

Finished(e) ==
  Send(Send(Headers(e), Event("message_delta", 0, "none")), Event("message_stop", 0, "none"))

\* writeAnthropicStreamError.
Interrupted(e) == Send(e, Event("error", 0, "none"))

-----------------------------------------------------------------------------

\* The parser: whether thinking was never open, is open or closed; whether text came, and
\* whether some is held back; what a bridged answer looks like so far; whether a native tool
\* was called; thinking blocks of a search that are not sent yet.
NoStream == [events |-> 0, thinking |-> "never", text |-> FALSE, held |-> FALSE,
             shape |-> "undecided", tool |-> FALSE, blocks |-> 0,
             thought |-> FALSE, mixed |-> FALSE]

Frames == [event : {"message_start", "start", "delta", "stop", "message_delta", "message_stop",
                    "error", "whole"},
           index : Nat, kind : {"thinking", "text", "tool", "none"}]

AnswerTypeOK ==
  /\ client \in Clients /\ ask \in Asks
  /\ stage \in {"idle", "reading", "answered", "searching", "over"} /\ calls \in 0 .. MaxCalls
  /\ stream.events \in 0 .. MaxEvents /\ stream.shape \in {"undecided", "text", "protocol"}
  /\ pending \in Seq(Frames) /\ channel \in Seq(Frames) /\ Len(channel) <= Cap
  /\ status \in BOOLEAN /\ gone \in BOOLEAN /\ closed \in BOOLEAN /\ aborted \in BOOLEAN
  /\ seen.begun \in Nat /\ seen.ended \in Nat

AnswerInit ==
  /\ client \in Clients /\ ask \in Asks
  /\ stage = "idle" /\ calls = 0 /\ stream = NoStream /\ emitter = Silent /\ pending = <<>>
  /\ channel = <<>> /\ closed = FALSE /\ aborted = FALSE /\ status = FALSE
  /\ gone = FALSE
  /\ transcoder = [over |-> FALSE, begun |-> FALSE, reasoning |-> FALSE, message |-> FALSE,
                   thinking |-> {}, tools |-> {}, ended |-> FALSE]
  /\ seen = Nothing

\* The handler goes on with what it has to write.
Emit(e) == emitter' = [e EXCEPT !.out = <<>>] /\ pending' = e.out

Quiet == UNCHANGED <<emitter, pending>>

\* The handler returns; whether thinking was mixed into its answer is remembered.
Over(e, mixed) ==
  /\ stage' = "over"
  /\ pending' = e.out
  /\ emitter' = Silent
  /\ stream' = [NoStream EXCEPT !.mixed = mixed]

Retry == stage' = "idle" /\ stream' = NoStream /\ Quiet

\* The handler's next step: it waits until what it sent is written.
Ready(h) == stage = h /\ pending = <<>>

Rest == UNCHANGED <<client, ask, bridge, status, gone, seen>>

-----------------------------------------------------------------------------
(* A call to Notion: CallInference and its parser, with the callbacks of the handler.    *)

\* HandleAnthropicMessages takes the next account.
Call ==
  /\ Ready("idle") /\ calls < MaxCalls
  /\ stage' = "reading" /\ calls' = calls + 1
  /\ stream' = NoStream /\ emitter' = Silent
  /\ UNCHANGED pending /\ Rest

\* No account is left, or the error is one that is not retried: writeAnthropicError.
GiveUp ==
  /\ Ready("idle")
  /\ Over(Silent, FALSE) /\ status' = TRUE
  /\ seen' = IF OverBridge \/ gone THEN seen ELSE Refuse(seen)
  /\ UNCHANGED <<client, ask, calls, bridge, gone>>

More == stream.events < MaxEvents

\* emitThinking of either parser.
Thought ==
  stream' = [stream EXCEPT !.events = @ + 1, !.thought = TRUE,
                           !.thinking = IF @ = "closed" THEN @ ELSE "open",
                           !.mixed = @ \/ emitter.text \/ stream.thinking = "closed"]

\* An agent thinks, or searches and finds: passed on until thinking was closed.  A handler
\* that waits for a tool keeps it for later.
Think ==
  /\ Ready("reading") /\ More
  /\ ask # "research" /\ stream.thinking # "closed"
  /\ Thought
  /\ IF Streams /\ ask # "required" THEN Emit(WriteThinking(emitter)) ELSE Quiet
  /\ UNCHANGED <<stage, calls>> /\ Rest

\* A researcher plans, thinks or searches: passed on even after its report has begun.
ResearchThink ==
  /\ Ready("reading") /\ More
  /\ ask = "research"
  /\ Thought
  /\ IF Streams THEN Emit(WriteThinking(emitter)) ELSE Quiet
  /\ UNCHANGED <<stage, calls>> /\ Rest

ThinkingLeftOpen(e) == e

\* closeThinking of the parser and the closure it calls.
ThinkingClosed(e) == IF stream.thinking = "open" THEN CloseThinking(e) ELSE e

ThinkingState ==
  IF stream.thinking = "open" \/ ask = "research" THEN "closed" ELSE stream.thinking

\* What a handler holds back of the text: half a citation, or, with tools, what may turn out
\* to be a call; all of a structured answer and of one that must be a call.
HeldBack(held, shape) ==
  CASE ask \in {"text", "research"} -> shape = "undecided"
    [] ask = "tools" -> /\ stream.shape # "undecided" => shape = stream.shape
                        /\ held = (shape = "undecided")
    [] OTHER -> held /\ shape = "protocol"

\* Text of an agent or of a report: thinking is closed before it is passed on.
Text ==
  /\ Ready("reading") /\ More
  /\ \E held \in BOOLEAN, shape \in {"undecided", "text", "protocol"} :
       LET e == ThinkingClosed(emitter)
       IN /\ HeldBack(held, shape)
          /\ stream' = [stream EXCEPT !.events = @ + 1, !.text = TRUE, !.held = held,
                                      !.shape = shape, !.thinking = ThinkingState]
          /\ IF Streams THEN Emit(IF held \/ shape = "protocol" THEN e ELSE WriteText(e)) ELSE Quiet
  /\ UNCHANGED <<stage, calls>> /\ Rest

\* A native tool call of the agent.
NativeTool ==
  /\ Ready("reading") /\ ask # "research" /\ ~stream.tool
  /\ stream' = [stream EXCEPT !.tool = TRUE]
  /\ Quiet /\ UNCHANGED <<stage, calls>> /\ Rest

Answered ==
  /\ stage' = "answered"
  /\ stream' = [stream EXCEPT !.thinking = ThinkingState]
  /\ IF Streams THEN Emit(ThinkingClosed(emitter)) ELSE Quiet
  /\ UNCHANGED calls /\ Rest

\* Upstream ends after a terminal event or a native tool call, or after a report.
CallEnds == Ready("reading") /\ ask # "research" /\ Answered
ReportEnds == Ready("reading") /\ ask = "research" /\ stream.text /\ Answered

RetryAnyway == Retry

\* What a failed attempt comes to: another account, unless the answer has begun.
Fails ==
  IF emitter.started THEN Over(Interrupted(emitter), stream.mixed) ELSE Retry

\* An error event, a malformed line, a timeout, a client that is gone, an end too early.
CallFails ==
  /\ Ready("reading")
  /\ Fails
  /\ UNCHANGED calls /\ Rest

-----------------------------------------------------------------------------
(* The end of the handlers. *)

\* Nothing that can be answered with was found.
Empty == ask # "research" /\ ~stream.text /\ (~stream.tool \/ ask \in {"text", "json"})

AnswerEmpty ==
  /\ Ready("answered") /\ Empty
  /\ Fails
  /\ UNCHANGED calls /\ Rest

Ends(e) == Over(Finished(e), stream.mixed)

WithHeld(e) == IF stream.held THEN WriteText(e) ELSE e

\* streamAnthropicTextResponse: what is held back, the end of the text block, and the
\* sources in a block of their own.
AnswerText ==
  /\ Ready("answered") /\ ~Empty /\ Streams /\ ask \in {"text", "json"}
  /\ \E sources \in BOOLEAN :
       LET c == CloseText(WithHeld(CloseThinking(emitter)))
       IN /\ sources => ask = "text"
          /\ Ends(IF sources THEN Block(c, "text") ELSE c)
  /\ UNCHANGED calls /\ Rest

\* handleResearcherStream: the rest of the report.
AnswerResearch ==
  /\ Ready("answered") /\ Streams /\ ask = "research"
  /\ Ends(CloseText(WithHeld(emitter)))
  /\ UNCHANGED calls /\ Rest

\* prepareToolBridgeResponse: tool calls, a search, a last word, or none of them.
Prepared == [hasCalls : BOOLEAN, search : BOOLEAN, done : BOOLEAN]

\* handleAnthropicStream, up to the search.
AnswerTools ==
  /\ Ready("answered") /\ ~Empty /\ Streams /\ ask \in {"tools", "required"}
  /\ \E found \in Prepared :
       LET hasCalls == found.hasCalls
           search == found.search
           done == found.done
           protocol == stream.shape = "protocol"
           f == IF stream.held /\ ~protocol THEN WriteText(emitter) ELSE emitter
           d == CloseThinking(f)
           c == CloseText(IF protocol /\ (done \/ ~(hasCalls \/ search)) THEN WriteText(d) ELSE d)
           t == IF ask = "required" /\ stream.thought THEN Block(c, "thinking") ELSE c
       IN \/ /\ ask = "required" /\ ~hasCalls /\ ~search
             /\ Retry
          \/ /\ search
             /\ Emit(Headers(t)) /\ stage' = "searching"
             /\ stream' = [stream EXCEPT !.events = 0, !.text = FALSE, !.held = FALSE, !.tool = hasCalls,
                                         !.thinking = IF stream.thought THEN "closed" ELSE "never"]
          \/ /\ ~search /\ (hasCalls \/ ask = "tools")
             /\ Ends(IF hasCalls THEN Block(t, "tool") ELSE t)
  /\ UNCHANGED calls /\ Rest

\* The answer as one body.
Body == Over(Send(emitter, Event("whole", 0, "none")), FALSE)

\* handleAnthropicNonStream: a search is a second call, and may fail.
AnswerWhole ==
  /\ Ready("answered") /\ ~Empty /\ ~Streams /\ ask # "research"
  /\ \E found \in Prepared, failed \in BOOLEAN :
       LET refused == \/ ask = "required" /\ ~found.hasCalls /\ ~found.search
                      \/ ask \in {"tools", "required"} /\ found.search /\ failed
       IN IF refused THEN Retry ELSE Body
  /\ UNCHANGED calls /\ Rest

\* handleResearcherNonStream.
ResearchWhole ==
  /\ Ready("answered") /\ ~Streams /\ ask = "research"
  /\ Body
  /\ UNCHANGED calls /\ Rest

-----------------------------------------------------------------------------
(* streamWebSearch: a second call, in the thread of the first. *)

\* emitPendingThinking, for the n blocks that were collected: the header, and for each
\* block its start, its text and its end.
SendBlocks(e, n) ==
  LET h == Headers(e)
      event(i) == CASE i % 3 = 1 -> "start" [] i % 3 = 2 -> "delta" [] OTHER -> "stop"
      frames == [i \in 1 .. 3 * n |-> Event(event(i), h.index + (i - 1) \div 3, "thinking")]
  IN IF n = 0 THEN e ELSE [h EXCEPT !.index = @ + n, !.out = @ \o frames]

\* The Responses protocol has one item for all thinking.
SecondReasoning == stream.blocks > (IF stream.thinking = "closed" THEN 0 ELSE 1)

AfterBlocks == [stream EXCEPT !.blocks = 0,
                              !.thinking = IF stream.blocks > 0 THEN "closed" ELSE @,
                              !.mixed = @ \/ (stream.blocks > 0 /\ emitter.text)
                                          \/ (client = "responses" /\ SecondReasoning)]

\* A step of the search is finished: its thinking is a block now.
SearchStepEnds ==
  /\ Ready("searching") /\ More
  /\ stream' = [stream EXCEPT !.events = @ + 1, !.blocks = @ + 1]
  /\ Quiet /\ UNCHANGED <<stage, calls>> /\ Rest

SearchText ==
  /\ Ready("searching") /\ More
  /\ \E held \in BOOLEAN :
       LET e == SendBlocks(emitter, stream.blocks)
       IN /\ Emit(IF held THEN e ELSE WriteText(e))
          /\ stream' = [AfterBlocks EXCEPT !.events = @ + 1, !.held = held, !.text = @ \/ ~held]
  /\ UNCHANGED <<stage, calls>> /\ Rest

\* The rest of the search, and of handleAnthropicStream.
SearchEnds ==
  /\ Ready("searching")
  /\ \E failed, sources \in BOOLEAN :
       LET b == SendBlocks(emitter, stream.blocks)
           c == CloseText(WithHeld(b))
           s == IF sources /\ ~failed THEN Block(c, "text") ELSE c
           done == IF stream.tool THEN Block(s, "tool") ELSE s
       IN Over(IF failed \/ ~(stream.text \/ stream.held \/ sources) THEN Interrupted(s)
               ELSE Finished(done),
               AfterBlocks.mixed)
  /\ UNCHANGED calls /\ Rest

-----------------------------------------------------------------------------
(* The way to the client. *)

\* An Anthropic client reads the events as they are.
Received(s, f) ==
  CASE f.event = "message_start" -> Begin(s)
    [] f.event = "start" -> OpenPart(s, Content(f.index))
    [] f.event = "delta" -> WritePart(s, Content(f.index))
    [] f.event = "stop" -> ClosePart(s, Content(f.index))
    [] f.event = "message_delta" -> Placed(s)
    [] f.event = "message_stop" -> End(s)
    [] f.event = "error" -> Fail(s)
    [] f.event = "whole" -> End(Begin(s))

Write ==
  /\ ~OverBridge /\ pending # <<>>
  /\ pending' = Tail(pending)
  /\ seen' = IF gone THEN seen ELSE Received(seen, Head(pending))
  /\ UNCHANGED <<client, ask, upstream, emitter, bridge, status, gone>>

\* The bridge writer: it waits for room in the channel, or for Abort.
Push ==
  /\ OverBridge /\ pending # <<>>
  /\ pending' = Tail(pending)
  /\ \/ Len(channel) < Cap /\ channel' = Append(channel, Head(pending))
     \/ aborted /\ UNCHANGED channel
  /\ UNCHANGED <<client, ask, upstream, emitter, closed, aborted, transcoder, status, gone, seen>>

\* The goroutine behind the bridge: Close, after the handler.
Close ==
  /\ OverBridge /\ Ready("over") /\ ~closed
  /\ closed' = TRUE
  /\ UNCHANGED <<client, ask, upstream, emitter, pending, channel, aborted, transcoder, status, gone, seen>>

\* openAIChatStreamTranscoder.HandleFrame: the transcoder and what the client sees.
Chat(f) ==
  LET t == transcoder
  IN CASE f.event = "message_start" -> <<[t EXCEPT !.begun = TRUE], IF t.begun THEN seen ELSE Begin(seen)>>
       [] f.event \in {"delta", "message_delta"} -> <<t, Placed(seen)>>
       [] f.event = "start" -> <<t, IF f.kind = "tool" THEN Placed(seen) ELSE seen>>
       [] f.event = "message_stop" -> <<[t EXCEPT !.ended = TRUE], IF t.ended THEN seen ELSE End(seen)>>
       [] f.event = "error" -> <<[t EXCEPT !.ended = TRUE], Fail(seen)>>
       [] OTHER -> <<t, seen>>

Created == IF transcoder.begun THEN seen ELSE Begin(seen)
MessageItem == IF transcoder.message THEN Created ELSE OpenPart(Created, Message)
MessageDone == IF transcoder.message THEN ClosePart(Created, Message) ELSE Created
ReasoningDone == ClosePart(seen, Reasoning)
ToolDone(i) == IF i \in transcoder.tools THEN ClosePart(seen, Tool(i)) ELSE seen

\* openAIResponsesStreamTranscoder.HandleFrame: thinking blocks share one reasoning item,
\* text blocks one message item, and a tool call has an item of its own.
Responses(f) ==
  LET t == [transcoder EXCEPT !.begun = TRUE]
      s == Created
      last == t.thinking \ {f.index} = {}
  IN CASE f.event = "message_start" -> <<t, s>>
       [] f.event = "start" /\ f.kind = "thinking" ->
            <<[t EXCEPT !.thinking = @ \cup {f.index}, !.reasoning = TRUE],
              IF t.reasoning THEN s ELSE OpenPart(s, Reasoning)>>
       [] f.event = "start" /\ f.kind = "tool" ->
            <<[t EXCEPT !.tools = @ \cup {f.index}], OpenPart(s, Tool(f.index))>>
       [] f.event = "start" /\ f.kind \notin {"thinking", "tool"} -> <<t, s>>
       [] f.event = "delta" /\ f.kind = "thinking" -> <<transcoder, WritePart(seen, Reasoning)>>
       [] f.event = "delta" /\ f.kind = "text" ->
            <<[t EXCEPT !.message = TRUE], WritePart(MessageItem, Message)>>
       [] f.event = "delta" /\ f.kind \notin {"thinking", "text"} ->
            <<transcoder, WritePart(seen, Tool(f.index))>>
       [] f.event = "stop" /\ f.index \in t.thinking ->
            <<[transcoder EXCEPT !.thinking = @ \ {f.index}], IF last THEN ReasoningDone ELSE seen>>
       [] f.event = "stop" /\ f.index \notin t.thinking ->
            <<[transcoder EXCEPT !.tools = @ \ {f.index}], ToolDone(f.index)>>
       [] f.event = "message_delta" ->
            <<[transcoder EXCEPT !.ended = TRUE], IF t.ended THEN MessageDone ELSE End(MessageDone)>>
       [] f.event = "message_stop" -> <<transcoder, seen>>
       [] f.event = "error" -> <<[t EXCEPT !.ended = TRUE], IF t.ended THEN s ELSE Fail(s)>>

Transcoded(f) == IF client = "chat" THEN Chat(f) ELSE Responses(f)

Transcode ==
  /\ OverBridge /\ ~transcoder.over /\ channel # <<>>
  /\ channel' = Tail(channel)
  /\ transcoder' = Transcoded(Head(channel))[1]
  /\ seen' = Transcoded(Head(channel))[2]
  /\ UNCHANGED <<client, ask, upstream, emitter, pending, closed, aborted, status, gone>>

LeaveOpen ==
  /\ transcoder' = [transcoder EXCEPT !.over = TRUE]
  /\ UNCHANGED aborted

\* The transcoding handler returns: the call is cancelled, the bridge aborted.
Abort ==
  /\ transcoder' = [transcoder EXCEPT !.over = TRUE]
  /\ aborted' = TRUE

\* The channel is closed and empty; an error status is passed on.
Drained ==
  /\ OverBridge /\ ~transcoder.over /\ channel = <<>> /\ closed
  /\ Abort
  /\ seen' = IF status THEN Refuse(seen) ELSE seen
  /\ UNCHANGED <<client, ask, upstream, emitter, pending, channel, closed, status, gone>>

\* The client goes away.  A transcoder finds out with the next event that it writes.
ClientLeaves ==
  /\ ~gone
  /\ gone' = TRUE
  /\ IF OverBridge THEN ~transcoder.over /\ channel # <<>> /\ Abort ELSE UNCHANGED <<transcoder, aborted>>
  /\ UNCHANGED <<client, ask, upstream, emitter, pending, channel, closed, status, seen>>

AnswerNext ==
  \/ Call \/ GiveUp \/ Think \/ ResearchThink \/ Text \/ NativeTool
  \/ CallEnds \/ ReportEnds \/ CallFails \/ AnswerEmpty \/ AnswerText \/ AnswerResearch
  \/ AnswerTools \/ AnswerWhole \/ ResearchWhole
  \/ SearchStepEnds \/ SearchText \/ SearchEnds
  \/ Write \/ Push \/ Close \/ Transcode \/ Drained \/ ClientLeaves

AnswerSpec == AnswerInit /\ [][AnswerNext]_answerVars

-----------------------------------------------------------------------------
(* Properties. *)

AllOver == Ready("over") /\ (OverBridge => closed /\ transcoder.over)

\* Whatever upstream does, however many accounts are tried, and in each of the protocols:
\* an answer begins once and ends once, nothing comes after its end, and a client that
\* stays gets the end of an answer or an error.
OneAnswer ==
  /\ ~seen.late /\ seen.begun <= 1 /\ seen.ended <= 1
  /\ AllOver /\ ~gone => seen.ended = 1

\* Its parts are opened once, written to while they are open, and closed before the end,
\* provided that no thinking comes after text of the same call or, for the Responses
\* protocol, after other thinking that was closed.
PartsInOrder == ~stream.mixed => ~seen.torn

\* The same without the proviso.  The code does not keep this.
PartsWhole == ~seen.torn

\* Who can go on by itself: a handler, unless it waits for room in the channel or is over,
HandlerGoesOn ==
  \/ pending = <<>> /\ stage # "over"
  \/ pending # <<>> /\ (OverBridge => Len(channel) < Cap \/ aborted)
  \/ OverBridge /\ Ready("over") /\ ~closed

\* and a transcoder, unless it waits for an event or for the end of the channel.
TranscoderGoesOn == OverBridge /\ ~transcoder.over /\ (channel # <<>> \/ closed)

\* Nobody waits for ever: not the handler for room in the channel, and not the
\* transcoder for a channel that is never closed.  Nor does it take a client that leaves.
NobodyWaits == AllOver \/ HandlerGoesOn \/ TranscoderGoesOn

\* Handler and transcoder go on where some action of theirs is enabled.
GuardsExact == HandlerGoesOn \/ TranscoderGoesOn <=> ENABLED (AnswerNext /\ gone' = gone)

\* What is left of an answer: calls, the way through a call, its events, what is to be
\* written and read, and the three ends.
StageRank == [reading |-> 4, answered |-> 3, searching |-> 2, idle |-> 1, over |-> 0]
OneUnless(done) == IF done THEN 0 ELSE 1

Left ==
  <<MaxCalls - calls, StageRank[stage], MaxEvents - stream.events, OneUnless(stream.tool),
    Len(pending), Len(channel), OneUnless(closed), OneUnless(transcoder.over), OneUnless(gone)>>

Precedes(s, t) == \E i \in DOMAIN s : s[i] < t[i] /\ \A j \in 1 .. i - 1 : s[j] = t[j]

\* No failover, search or retry goes on for ever: every step, of the handler, the transcoder
\* or the client, leaves less to do than before.
LessIsLeft == [][Precedes(Left', Left)]_answerVars
=============================================================================
