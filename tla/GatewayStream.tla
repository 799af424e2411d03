---- MODULE GatewayStream ----
(***************************************************************************)
(* One streamed request of the API gateway: the provider answers in the    *)
(* events of the Responses API, the compatibility stream writer translates *)
(* them line by line into the events of Anthropic Messages or of Chat      *)
(* Completions (internal/gateway/compat.go), and the response writer of    *)
(* the request log reads the token usage out of what goes by to the client *)
(* (internal/gateway/request_log.go).                                      *)
(*                                                                         *)
(* The provider is external. It adds, fills and finishes the items of its  *)
(* answer in any order, reports usage with any event, and ends with a      *)
(* completed or failed response, with [DONE], or with a connection that    *)
(* breaks; after its end it sends [DONE] at most. Of a usage the provider  *)
(* may report any of the three counts; counts stand for themselves, text   *)
(* and arguments for nothing.                                              *)
(***************************************************************************)
EXTENDS Naturals, FiniteSets, SequencesExt

CONSTANTS Items,      \* the provider's function calls
          Counts,     \* token counts the provider reports
          MaxEvents   \* bound: events the provider sends

ASSUME GatewayStreamAssumption == Counts \subseteq Nat \ {0} /\ MaxEvents \in Nat

Dialects == {"anthropic", "chat"}

VARIABLES provider,  \* phase of the provider's answer, the items it has finished, and those of
              \* them it has sent arguments of afterwards
          writer,    \* fields of compatibilityStreamWriter
          out,       \* the events written to the client so far
          seen,      \* usage kept by the log's response writer
          reported,  \* history: the last usage the provider reported, as it sent it
          sent       \* events the provider has sent

sVars == <<provider, writer, out, seen, reported, sent>>

NoBlock == MaxEvents + 1

\* usagePayload; a count that is missing is zero.
TokenUsage == [input : Nat, output : Nat, total : Nat]
NoUsage == [input |-> 0, output |-> 0, total |-> 0]
Reports == [input : Counts \cup {0}, output : Counts \cup {0}, total : Counts \cup {0}]

Call == [index : 0..MaxEvents, block : 0..MaxEvents \cup {NoBlock}, closed : BOOLEAN]

StreamTypeOK ==
    /\ provider \in [phase : {"idle", "asked", "open", "ended", "gone"}, done : SUBSET Items,
                     late : SUBSET Items]
    /\ writer.dialect \in Dialects \cup {"none"}
    /\ writer.status \in {"none", "ok", "error"}
    /\ {writer.started, writer.finished} \subseteq BOOLEAN
    /\ writer.textBlock \in 0..MaxEvents \cup {NoBlock}
    /\ writer.nextBlock \in 0..MaxEvents
    /\ IsInjective([i \in DOMAIN writer.calls |-> writer.calls[i].index])
    /\ DOMAIN writer.calls \subseteq Items
    /\ \A i \in DOMAIN writer.calls : writer.calls[i] \in Call
    /\ {writer.usage, seen, reported} \subseteq TokenUsage
    /\ sent \in 0..MaxEvents

NewWriter(d) ==
    [dialect |-> d, status |-> "none", started |-> FALSE, finished |-> FALSE,
     textBlock |-> NoBlock, nextBlock |-> 0, calls |-> <<>>, usage |-> NoUsage]

StreamInit ==
    /\ provider = [phase |-> "idle", done |-> {}, late |-> {}]
    /\ writer = NewWriter("none")
    /\ out = <<>> /\ seen = NoUsage /\ reported = NoUsage /\ sent = 0

----------------------------------------------------------------------------
\* normalizeUsage, for the writer and for the log: a missing total is the sum of the others.
NormalizeUsage(u) == IF u.total = 0 THEN [u EXCEPT !.total = u.input + u.output] ELSE u

\* Anthropic's message_delta has no field for the total.
WithoutTotal(u) == [u EXCEPT !.total = 0]

\* The writer's methods take its fields w and what it has written, and return both.

Event(k, b, u) == [kind |-> k, block |-> b, usage |-> u]
Plain(k, b) == Event(k, b, NoUsage)
Anthropic(w) == w.dialect = "anthropic"
Result(w, es) == [w |-> w, es |-> es]
Then(r, w, es) == Result(w, r.es \o es)

startAnthropic(w) ==
    IF w.started THEN Result(w, <<>>)
                 ELSE Result([w EXCEPT !.started = TRUE], <<Plain("message_start", NoBlock)>>)

\* A chunk of Chat Completions: the first one also carries the role.
Chunk(w, b) ==
    Result([w EXCEPT !.started = TRUE], <<Plain(IF w.started THEN "chunk" ELSE "role", b)>>)

writeDelta(w) ==
    IF ~Anthropic(w) THEN Chunk(w, NoBlock)
    ELSE LET r == startAnthropic(w)
             b == IF w.textBlock = NoBlock THEN w.nextBlock ELSE w.textBlock
             delta == Plain("block_delta", b) IN
         IF w.textBlock # NoBlock THEN Then(r, r.w, <<delta>>)
         ELSE Then(r, [r.w EXCEPT !.textBlock = b, !.nextBlock = b + 1],
                   <<Plain("block_start", b), delta>>)

\* A call takes the next index of the choice, and in Anthropic's dialect a block of its own.
withCall(w, i, b) ==
    [w EXCEPT !.calls = [j \in DOMAIN w.calls \cup {i} |->
        IF j \in DOMAIN w.calls THEN w.calls[j]
        ELSE [index |-> Cardinality(DOMAIN w.calls), block |-> b, closed |-> FALSE]]]

\* Mutant: a tool call's block does not use up its index.
startToolCallSameBlock(w, i) ==
    LET r == startAnthropic(w) IN
    CASE i \in DOMAIN w.calls -> Result(w, <<>>)
      [] i \notin DOMAIN w.calls /\ Anthropic(w) ->
            Then(r, withCall(r.w, i, w.nextBlock), <<Plain("block_start", w.nextBlock)>>)
      [] OTHER -> Chunk(withCall(w, i, NoBlock), Cardinality(DOMAIN w.calls))

startToolCall(w, i) ==
    LET r == startAnthropic(w) IN
    CASE i \in DOMAIN w.calls -> Result(w, <<>>)
      [] i \notin DOMAIN w.calls /\ Anthropic(w) ->
            Then(r, withCall([r.w EXCEPT !.nextBlock = @ + 1], i, w.nextBlock),
                 <<Plain("block_start", w.nextBlock)>>)
      [] OTHER -> Chunk(withCall(w, i, NoBlock), Cardinality(DOMAIN w.calls))

writeToolArguments(w, i) ==
    CASE i \notin DOMAIN w.calls -> Result(w, <<>>)
      [] i \in DOMAIN w.calls /\ Anthropic(w) ->
            Result(w, <<Plain("block_delta", w.calls[i].block)>>)
      [] OTHER -> Result(w, <<Plain("chunk", w.calls[i].index)>>)

stopToolCall(w, i) ==
    IF i \notin DOMAIN w.calls \/ (i \in DOMAIN w.calls /\ w.calls[i].closed) THEN Result(w, <<>>)
    ELSE Result([w EXCEPT !.calls[i].closed = TRUE],
                IF Anthropic(w) THEN <<Plain("block_stop", w.calls[i].block)>> ELSE <<>>)

Open(w) == {i \in DOMAIN w.calls : ~w.calls[i].closed}

\* The calls still open are stopped in the order of a Go map, that is in any.
StopAll(w, order) ==
    [w |-> [w EXCEPT !.calls = [i \in DOMAIN @ |-> [@[i] EXCEPT !.closed = TRUE]]],
     es |-> [k \in DOMAIN order |-> Plain("block_stop", w.calls[order[k]].block)]]

StopReason(w) == IF DOMAIN w.calls # {} THEN "tool_use" ELSE "end_turn"

finishStream(w, order) ==
    LET f == [w EXCEPT !.finished = TRUE]
        r == startAnthropic(f)
        text == IF w.textBlock = NoBlock THEN <<>> ELSE <<Plain("block_stop", w.textBlock)>>
        closed == StopAll(r.w, order)
        usage == IF w.usage = NoUsage THEN <<>> ELSE <<Event("usage", NoBlock, w.usage)>>
    IN CASE w.finished -> Result(w, <<>>)
         [] ~w.finished /\ Anthropic(w) ->
               Then(r, closed.w, text \o closed.es \o
                       <<Event(StopReason(w), NoBlock, WithoutTotal(w.usage)),
                         Plain("message_stop", NoBlock)>>)
         [] OTHER -> Result(f, <<Plain(StopReason(w), NoBlock)>> \o usage
                               \o <<Plain("done", NoBlock)>>)

captureUsage(w, u) == IF u = NoUsage THEN w ELSE [w EXCEPT !.usage = NormalizeUsage(u)]

\* observeSSELine: the log keeps the usage of the last event that carries one.
observe(old, es) ==
    LET told == {n \in DOMAIN es : es[n].usage # NoUsage} IN
      IF told = {} THEN old ELSE NormalizeUsage(es[Max(told)].usage)

\* What a method wrote goes through the log's writer to the client.
Emit(r) == writer' = r.w /\ out' = out \o r.es /\ seen' = observe(seen, r.es)

----------------------------------------------------------------------------
\* proxyCompatibility: a streamed request in one of the dialects goes to the provider.
Request(d) ==
    /\ provider.phase = "idle"
    /\ provider' = [provider EXCEPT !.phase = "asked"]
    /\ writer' = NewWriter(d)
    /\ UNCHANGED <<out, seen, reported, sent>>

\* WriteHeader: a good status opens the stream at once, an error passes as it is.
WriteHeader ==
    /\ provider.phase = "asked" /\ writer.status = "none"
    /\ \/ /\ provider' = [provider EXCEPT !.phase = "open"]
          /\ LET w == [writer EXCEPT !.status = "ok"] IN
               Emit(IF Anthropic(w) THEN startAnthropic(w) ELSE Result(w, <<>>))
       \/ /\ provider' = [provider EXCEPT !.phase = "ended"]
          /\ Emit(Result([writer EXCEPT !.status = "error"], <<Plain("body", NoBlock)>>))
    /\ UNCHANGED <<reported, sent>>

\* One line of the provider's stream, complete or left over at its end, reaches consume.
Line(u) ==
    /\ provider.phase = "open" /\ sent < MaxEvents
    /\ sent' = sent + 1
    /\ reported' = IF u = NoUsage THEN reported ELSE u

TextDelta(u) ==
    /\ Line(u)
    /\ Emit(writeDelta(captureUsage(writer, u)))
    /\ UNCHANGED provider

ItemAdded(i) ==
    /\ Line(NoUsage)
    /\ Emit(startToolCall(writer, i))
    /\ UNCHANGED provider

ArgumentsDelta(i) ==
    /\ Line(NoUsage)
    /\ provider' = [provider EXCEPT !.late = IF i \in provider.done THEN @ \cup {i} ELSE @]
    /\ Emit(writeToolArguments(writer, i))

ItemDone(i) ==
    /\ Line(NoUsage)
    /\ provider' = [provider EXCEPT !.done = @ \cup {i}]
    /\ Emit(stopToolCall(writer, i))

\* Events of other types: only their usage is read.
OtherEvent(u) ==
    /\ Line(u) /\ u # NoUsage
    /\ Emit(Result(captureUsage(writer, u), <<>>))
    /\ UNCHANGED provider

\* Mutant: the stream is finished before the usage of its last event is captured.
LastEventFinishesFirst(u) ==
    /\ Line(u)
    /\ provider' = [provider EXCEPT !.phase = "ended"]
    /\ \E order \in SetToSeqs(Open(writer)) :
          LET r == finishStream(writer, order) IN Emit(Result(captureUsage(r.w, u), r.es))

\* response.completed and response.failed bring their usage first; [DONE] brings none.
LastEvent(u) ==
    /\ Line(u)
    /\ provider' = [provider EXCEPT !.phase = "ended"]
    /\ \E order \in SetToSeqs(Open(writer)) : Emit(finishStream(captureUsage(writer, u), order))

\* [DONE] after the last event: the stream is finished already.
TrailingDone ==
    /\ provider.phase = "ended" /\ writer.status = "ok" /\ sent < MaxEvents
    /\ sent' = sent + 1
    /\ \E order \in SetToSeqs(Open(writer)) : Emit(finishStream(writer, order))
    /\ UNCHANGED <<provider, reported>>

\* Mutant: a stream whose provider broke off is not finished.
FinishOnlyEnded ==
    /\ provider.phase \in {"open", "ended"}
    /\ provider' = [provider EXCEPT !.phase = "gone"]
    /\ UNCHANGED <<writer, out, seen, reported, sent>>

\* The provider's connection ends, in good order or not, and the handler calls Finish.
Finish ==
    /\ provider.phase \in {"open", "ended"}
    /\ provider' = [provider EXCEPT !.phase = "gone"]
    /\ IF writer.status = "ok"
          THEN \E order \in SetToSeqs(Open(writer)) : Emit(finishStream(writer, order))
          ELSE Emit(Result(writer, <<>>))
    /\ UNCHANGED <<reported, sent>>

ProviderEvent(u) == TextDelta(u) \/ OtherEvent(u) \/ LastEvent(u)
ItemEvent(i) == ItemAdded(i) \/ ArgumentsDelta(i) \/ ItemDone(i)

StreamNext ==
    \/ \E d \in Dialects : Request(d)
    \/ WriteHeader \/ TrailingDone \/ Finish
    \/ \E u \in Reports : ProviderEvent(u)
    \/ \E i \in Items : ItemEvent(i)

StreamSpec == StreamInit /\ [][StreamNext]_sVars

----------------------------------------------------------------------------
Final == {"message_stop", "done"}
Reasons == {"tool_use", "end_turn"}

\* Where a block is started and stopped in the events written.
Places(k, b) == {n \in DOMAIN out : out[n].kind = k /\ out[n].block = b}
Blocks == {out[n].block : n \in {m \in DOMAIN out : out[m].kind = "block_start"}}

\* The blocks of the calls whose arguments the provider went on sending after it had finished them.
LateBlocks == {writer.calls[i].block : i \in provider.late \cap DOMAIN writer.calls}

\* What an Anthropic client has read at any time is the beginning of a good stream: message_start
\* once and first, blocks numbered from 0 in the order they start, each started and stopped at most
\* once, every delta after its block's start, and nothing after message_stop, whatever order the
\* provider's items come in and wherever its stream breaks (compat.go:336). A delta comes before
\* its block's stop unless the provider itself sent arguments of an item it had finished, which the
\* writer passes on into the stopped block (compat.go:544).
AnthropicStreamIsGood ==
    writer.dialect = "anthropic" /\ writer.status = "ok" =>
        /\ {n \in DOMAIN out : out[n].kind = "message_start"} = {1}
        /\ \A n \in DOMAIN out : out[n].kind \in Final => n = Len(out)
        /\ Blocks = 0..(Cardinality(Blocks) - 1)
        /\ \A a, b \in Blocks : a < b => \A m \in Places("block_start", a),
                                            n \in Places("block_start", b) : m < n
        /\ \A b \in Blocks : Cardinality(Places("block_start", b)) = 1
                             /\ Cardinality(Places("block_stop", b)) <= 1
        /\ \A n \in DOMAIN out : out[n].kind \in {"block_delta", "block_stop"} =>
              /\ \E m \in Places("block_start", out[n].block) : m < n
              /\ out[n].block \notin LateBlocks =>
                    \A m \in Places("block_stop", out[n].block) : n <= m

\* The same for Chat Completions: the role comes with the first delta and never again, arguments are
\* for a tool call that has been announced, the reason comes once and only usage and [DONE] after it.
ChatStreamIsGood ==
    writer.dialect = "chat" /\ writer.status = "ok" =>
        /\ \A n \in DOMAIN out : out[n].kind = "role" <=> n = 1 /\ out[n].kind \notin Reasons
        /\ \A n \in DOMAIN out : out[n].kind \in {"usage", "done"} =>
              \E m \in 1..(n - 1) : out[m].kind \in Reasons
        /\ \A n \in DOMAIN out : out[n].kind \in Reasons =>
              \A m \in (n + 1)..Len(out) : out[m].kind \in {"usage", "done"}
        /\ \A n \in DOMAIN out : out[n].kind = "done" => n = Len(out)

\* Whichever dialect the client speaks, what it has read is the beginning of a good stream.
StreamIsGood == AnthropicStreamIsGood /\ ChatStreamIsGood

\* A stream that opened is a whole one when the handler returns, even if the provider's broke: its
\* last event is the final one, every block is stopped and tool calls are given as the reason.
EveryStreamIsFinished ==
    provider.phase = "gone" /\ writer.status = "ok" =>
        /\ out # <<>> /\ Last(out).kind \in Final
        /\ \A b \in Blocks : Places("block_stop", b) # {}
        /\ \E n \in DOMAIN out : out[n].kind = StopReason(writer)

\* What the log can know of a usage reported to a client of the dialect: for Anthropic's the total is
\* always the sum of the other two, and a usage that has only a total is none.
Logged(dialect, u) == NormalizeUsage(IF dialect = "anthropic" THEN WithoutTotal(u) ELSE u)

\* The request log counts the last usage the provider reported, although it is read from the
\* translated events, of which only the ones at the very end carry it: exactly for a client of Chat
\* Completions, and but for the total, which is summed anew, for one of Anthropic's (compat.go:590).
UsageReachesTheLog ==
    provider.phase = "gone" /\ writer.status = "ok" => seen = Logged(writer.dialect, reported)

====
