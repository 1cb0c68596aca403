----------------------------- MODULE StreamMeter -----------------------------
(***************************************************************************)
(* One streamed call: the request, with the usage option the SDK may add   *)
(* to it, and the generator that meters the chunks between the provider's  *)
(* stream and the application.                                             *)
(*                                                                         *)
(* The server cuts its reply into chunks as it likes, within the protocol  *)
(* of its wire.  A piece of the reply is a pair <<slot, n>>: the n-th      *)
(* fragment of a text or of a tool call.                                   *)
(***************************************************************************)
EXTENDS Naturals, Sequences, FiniteSets

CONSTANTS
  Providers, \* the wires the SDK meets, below
  Slots,     \* the parts of the reply: output index, block index, call index
  KindOf,    \* "text" or "call"
  Size,      \* the number of fragments of each
  None       \* Python's None

\* "openai" stands for its chat streams; "other" for those not accumulated.
Shaped == {"openai", "together", "mistral"}   \* _OPENAI_SHAPED_STREAM_PROVIDERS
Wires  == Shaped \union {"cohere", "xai", "openai_responses", "anthropic", "google", "other"}
ModeA  == {"openai", "openai_responses", "anthropic", "google", "other"}
Manual == {"together", "mistral", "cohere", "xai", "openai_responses", "other"}

ASSUME StreamAssumption ==
  /\ Providers \subseteq Wires
  /\ Slots \subseteq Nat /\ IsFiniteSet(Slots) /\ None \notin Nat
  /\ KindOf \in [Slots -> {"text", "call"}] /\ Size \in [Slots -> Nat \ {0}]
  /\ \A s, t \in Slots : KindOf[s] = "text" /\ KindOf[t] = "text" => s = t

Item == [kind : {"text", "call"}, named : BOOLEAN, parts : Seq(Slots \X Nat)]

ASSUME NoneAssumption == None \notin Item

VARIABLES
  cfg,     \* provider, wrapper, server, and what application and SDK ask for
  pc,      \* where the call is
  ask,     \* the request now on the wire, and how many were made
  given,   \* what the server has sent: heads, and fragments of each slot
  app,     \* what the application has been given
  acc,     \* the generator's locals
  deferred, \* _deferred_spans: of each payload, the request whose span it was
  rows     \* rows logged for the call

vars == <<cfg, pc, ask, given, app, acc, deferred, rows>>

Pieces(s, from, n) == [i \in 1..n |-> <<s, from + i>>]
Nothing == [text |-> <<>>, calls |-> <<>>]

\* "omits" accepts the option and sends no usage; "strict" and "names" refuse
\* a request that carries it, with a 400 or 422, or by naming it; "refuses" and
\* "limits" (a 429) refuse every request.
Servers == {"honours", "omits", "strict", "names", "refuses", "limits"}

\* The application's own stream_options: absent, without include_usage, with it.
Options == {"absent", "other", "usage"}

Init ==
  /\ cfg \in [provider : Providers, manual : BOOLEAN, server : Servers,
              wants : Options, capture : BOOLEAN, raw : BOOLEAN]
  /\ cfg.provider \in IF cfg.manual THEN Manual ELSE ModeA
  /\ cfg.raw => cfg.manual /\ cfg.provider = "openai_responses"
  /\ cfg.provider \notin {"openai", "together"} => cfg.wants = "absent"
  /\ pc = "asking"
  /\ ask = [option |-> cfg.wants, injected |-> FALSE, count |-> 0]
  /\ given = [heads |-> {}, parts |-> [s \in Slots |-> 0], sent |-> 0,
              usage |-> 0, only |-> 0, chunks |-> 0]
  /\ app = [chunks |-> 0, only |-> 0]
  /\ acc = [text |-> <<>>, items |-> [s \in Slots |-> None], order |-> <<>>, final |-> Nothing,
            usage |-> 0, ttft |-> FALSE]
  /\ deferred = <<>> /\ rows = <<>>

-----------------------------------------------------------------------------
(* The request.                                                            *)

\* Mutant: the second request gets the option too.
InjectsAgain ==
  /\ cfg.capture /\ ask.option # "usage"
  /\ cfg.provider = IF cfg.manual THEN "together" ELSE "openai"

\* _do_inject_stream_usage, _inject_stream_usage_option_for_provider
Injects ==
  /\ cfg.capture /\ ask.count = 0 /\ ask.option # "usage"
  /\ cfg.provider = IF cfg.manual THEN "together" ELSE "openai"

Refuses(option) ==
  \/ cfg.server \in {"refuses", "limits"}
  \/ cfg.server \in {"strict", "names"} /\ option # "absent"

\* Mutant: any refusal of an injected request is tried again.
RetriesAlways(injected) == injected

\* _should_retry_without_injection: the status, or the message.
Retries(injected) == injected /\ cfg.server \in {"strict", "names", "refuses"}

\* _restore_stream_usage_option
Restored == cfg.wants

FailureRow(request) ==
  [of |-> request, failed |-> TRUE, reply |-> Nothing, usage |-> 0,
   approximated |-> FALSE, ttft |-> FALSE]

\* A provider with an instrumentor has a span for each request.  One that fails
\* ends in the failing call, so that its payload is queued, or never.
Errored(request) ==
  \/ deferred' = deferred
  \/ ~cfg.manual /\ deferred' = Append(deferred, request)

\* The wrapper calls the provider; the second request is made at most once, and
\* what it raises is the application's.  Neither refusal flushes the queue.
Ask ==
  /\ pc = "asking"
  /\ LET option   == IF Injects THEN "usage" ELSE ask.option
         injected == Injects
     IN  /\ ask' = [option |-> IF Refuses(option) /\ Retries(injected)
                               THEN Restored ELSE option,
                    injected |-> injected /\ ~Refuses(option),
                    count |-> ask.count + 1]
         /\ \/ /\ Refuses(option) /\ Retries(injected)
               /\ Errored(ask.count + 1) /\ UNCHANGED <<pc, rows>>
            \/ /\ Refuses(option) /\ ~Retries(injected) /\ Errored(ask.count + 1)
               /\ pc' = "refused" /\ rows' = Append(rows, FailureRow(ask.count + 1))
            \/ /\ ~Refuses(option)
               /\ pc' = (IF cfg.raw THEN "raw" ELSE "open") /\ UNCHANGED <<deferred, rows>>
  /\ UNCHANGED <<cfg, given, app, acc>>

\* A raw Responses object: the stream is what its parse() returns.
Parse ==
  /\ pc = "raw" /\ pc' = "open"
  /\ UNCHANGED <<cfg, ask, given, app, acc, deferred, rows>>

-----------------------------------------------------------------------------
(* What the server may send next.                                          *)

\* A chunk carries the head of one slot, or fragments of it, or both.
Sendable(s, head, n) ==
  LET p == cfg.provider
  IN  /\ given.parts[s] + n <= Size[s]
      /\ head \/ n > 0
      /\ head = (s \notin given.heads)
      /\ p \in {"openai_responses", "anthropic"} =>
           /\ head => n = 0 /\ \A t \in Slots : t < s => t \in given.heads
           /\ p = "anthropic" => \A t \in Slots : t < s => given.parts[t] = Size[t]
      /\ p = "google" /\ KindOf[s] = "call" => n = Size[s]
      /\ p \in Shaped \union {"cohere", "google", "xai"} /\ KindOf[s] = "text" => n > 0

Complete == \A s \in Slots : given.parts[s] = Size[s]

\* Usage is the count of what was sent so far.  Google reports it on each chunk,
\* others on the last; some in an event of its own, which OpenAI's servers and
\* Together's send when asked for it only.
OwnEvent == {"openai", "together", "cohere", "openai_responses"}
UsageDue ==
  /\ cfg.provider \in OwnEvent /\ cfg.server # "omits"
  /\ cfg.provider \in {"openai", "together"} => ask.option = "usage" /\ cfg.server = "honours"

UsageOn(parts, sent) ==
  IF cfg.server = "omits" \/ cfg.provider \in OwnEvent \union {"anthropic"} THEN 0
  ELSE IF cfg.provider = "google" \/ \A s \in Slots : parts[s] = Size[s]
       THEN sent ELSE 0

-----------------------------------------------------------------------------
(* The accumulators: what each does with a chunk that carries the head of   *)
(* slot s, or new fragments of it, or both.                                 *)

\* Mutant: a chunk's arguments replace those before it.
SlottedAfresh(items, s, kind, head, new) ==
  [items EXCEPT ![s] = [kind |-> kind, named |-> head \/ items[s] # None, parts |-> new]]

\* setdefault, then the name if there is one and the arguments appended.
Slotted(items, s, kind, head, new) ==
  LET old == IF items[s] = None THEN [kind |-> kind, named |-> FALSE, parts |-> <<>>]
             ELSE items[s]
  IN  [items EXCEPT ![s] = [kind  |-> old.kind, named |-> old.named \/ head,
                            parts |-> old.parts \o new]]

\* A start event makes the slot afresh.
Begun(items, s, kind, new) ==
  [items EXCEPT ![s] = [kind |-> kind, named |-> TRUE, parts |-> new]]

TextOr(a, s, new, otherwise) ==
  IF KindOf[s] = "text" THEN [a EXCEPT !.text = @ \o new]
  ELSE [a EXCEPT !.items = otherwise]

\* choices[0].delta: content, or tool calls by their index.
AccumulateShaped(a, s, head, new) ==
  TextOr(a, s, new, Slotted(a.items, s, "call", head, new))

\* content-delta; tool-call-start; tool-call-delta, of a known call only.
AccumulateCohere(a, s, head, new) ==
  TextOr(a, s, new,
    IF head THEN Begun(a.items, s, "call", new)
    ELSE IF a.items[s] = None THEN a.items
    ELSE Slotted(a.items, s, "call", FALSE, new))

\* output_item.added; the deltas of text and of arguments.
AccumulateResponses(a, s, head, new) ==
  IF head
  THEN [a EXCEPT !.items = Begun(@, s, KindOf[s], <<>>),
                 !.order = IF \E i \in DOMAIN @ : @[i] = s THEN @ ELSE Append(@, s)]
  ELSE [a EXCEPT !.items = Slotted(@, s, KindOf[s], FALSE, new)]

\* content_block_start; content_block_delta.
AccumulateAnthropic(a, s, head, new) ==
  [a EXCEPT !.items = IF head THEN Begun(@, s, KindOf[s], <<>>)
                      ELSE Slotted(@, s, "text", FALSE, new)]

\* Parts: text, or a whole function call; calls are listed as they come.
AccumulateGoogle(a, s, new) ==
  IF KindOf[s] = "text" THEN [a EXCEPT !.text = @ \o new]
  ELSE [a EXCEPT !.items = Begun(@, s, "call", new), !.order = Append(@, s)]

\* The members of a set of numbers, smallest first.
Ascending(S) ==
  [i \in 1 .. Cardinality(S) |-> CHOOSE s \in S : Cardinality({t \in S : t < s}) = i - 1]

\* The reply so far, as the server has it: text, and the calls in the order cs.
TextSlots == {s \in Slots : KindOf[s] = "text"}
TextOf(parts) ==
  IF TextSlots = {} THEN <<>>
  ELSE LET s == CHOOSE s \in TextSlots : TRUE IN Pieces(s, 0, parts[s])
CallsIn(heads) == {s \in heads : KindOf[s] = "call"}

ReplyOf(parts, heads, cs) ==
  [text  |-> TextOf(parts),
   calls |-> [i \in DOMAIN cs |->
               [slot |-> cs[i], named |-> cs[i] \in heads, args |-> Pieces(cs[i], 0, parts[cs[i]])]]]

\* A pair: the Response that xai's SDK accumulates, and the chunk.
AccumulateXai(a, s, new, parts, heads) ==
  [a EXCEPT !.final = ReplyOf(parts, heads, Ascending(CallsIn(heads))),
            !.text = IF KindOf[s] = "text" THEN @ \o new ELSE @]

Accumulate(a, s, head, new, parts, heads) ==
  CASE cfg.provider \in Shaped            -> AccumulateShaped(a, s, head, new)
    [] cfg.provider = "cohere"            -> AccumulateCohere(a, s, head, new)
    [] cfg.provider = "openai_responses"  -> AccumulateResponses(a, s, head, new)
    [] cfg.provider = "anthropic"         -> AccumulateAnthropic(a, s, head, new)
    [] cfg.provider = "google"            -> AccumulateGoogle(a, s, new)
    [] cfg.provider = "xai"               -> AccumulateXai(a, s, new, parts, heads)
    [] cfg.provider = "other"             -> a

-----------------------------------------------------------------------------
(* The response made of what was accumulated.                              *)

CallOf(a, s) == [slot |-> s, named |-> a.items[s].named, args |-> a.items[s].parts]
Held(a, kind) == {s \in Slots : a.items[s] # None /\ a.items[s].kind = kind}

\* Anthropic's arguments are parsed: JSON cut short is no JSON, and gives {}.
Parsed(s, args) == IF Len(args) = Size[s] THEN args ELSE <<>>

\* The items of a kind in the order they were added, and the text among items: a
\* reply has one at most.
Listed(a, kind) ==
  LET at == Ascending({i \in DOMAIN a.order : a.items[a.order[i]].kind = kind})
  IN  [j \in DOMAIN at |-> a.order[at[j]]]
TextAmong(a, ss) == IF ss = {} THEN <<>> ELSE a.items[CHOOSE s \in ss : TRUE].parts

CallsOf(a, cs) == [i \in DOMAIN cs |-> CallOf(a, cs[i])]

Response(a) ==
  CASE cfg.provider \in Shaped \union {"cohere"} ->
         [text |-> a.text, calls |-> CallsOf(a, Ascending(Held(a, "call")))]
    [] cfg.provider = "google" -> [text |-> a.text, calls |-> CallsOf(a, a.order)]
    [] cfg.provider = "openai_responses" ->
         [text  |-> TextAmong(a, {s \in Held(a, "text") : \E i \in DOMAIN a.order : a.order[i] = s}),
          calls |-> CallsOf(a, Listed(a, "call"))]
    [] cfg.provider = "anthropic" ->
         LET cs == Ascending(Held(a, "call"))
         IN  [text  |-> TextAmong(a, Held(a, "text")),
              calls |-> [i \in DOMAIN cs |-> [CallOf(a, cs[i]) EXCEPT !.args = Parsed(cs[i], @)]]]
    [] cfg.provider = "xai" ->
         IF a.final # Nothing THEN a.final ELSE [text |-> a.text, calls |-> <<>>]
    [] cfg.provider = "other" -> Nothing

\* _stream_acc_has_content, _mode_a_acc_has_content
HasContent(a) == cfg.provider = "other" \/ Response(a) # Nothing

-----------------------------------------------------------------------------
(* The generator.                                                          *)

\* The application asks for a chunk: the generator starts, or goes on.
Pull ==
  /\ pc \in {"open", "yielded"} /\ pc' = "pulling"
  /\ UNCHANGED <<cfg, ask, given, app, acc, deferred, rows>>

\* A chunk is accumulated, timed and handed on.
Chunk(s, head, n) ==
  /\ pc = "pulling" /\ Sendable(s, head, n)
  /\ LET new   == Pieces(s, given.parts[s], n)
         parts == [given.parts EXCEPT ![s] = @ + n]
         heads == given.heads \union {s}
         sent  == given.sent + n
         usage == UsageOn(parts, sent)
         told  == Accumulate(acc, s, head, new, parts, heads)
     IN  /\ given' = [given EXCEPT !.heads = heads, !.parts = parts, !.sent = sent,
                        !.usage = IF usage > 0 THEN usage ELSE @, !.chunks = @ + 1]
         /\ acc' = [told EXCEPT !.usage = IF usage > 0 THEN usage ELSE @,
                                !.ttft = @ \/ HasContent(told)]
  /\ app' = [app EXCEPT !.chunks = @ + 1]
  /\ pc' = "yielded"
  /\ UNCHANGED <<cfg, ask, deferred, rows>>

\* suppress_usage_chunk and _is_usage_only_chunk: no choices.
Strips == ask.injected /\ cfg.provider \in {"openai", "together"}

\* An event that carries usage and nothing else.
UsageChunk ==
  /\ pc = "pulling" /\ Complete /\ UsageDue /\ given.only = 0
  /\ given' = [given EXCEPT !.usage = given.sent, !.only = 1]
  /\ acc' = [acc EXCEPT !.usage = given.sent, !.ttft = @ \/ HasContent(acc)]
  /\ IF Strips THEN pc' = "pulling" /\ app' = app
               ELSE pc' = "yielded" /\ app' = [app EXCEPT !.only = 1]
  /\ UNCHANGED <<cfg, ask, deferred, rows>>

\* _log_stream_no_usage_fallback
FallbackRow ==
  [of |-> ask.count, failed |-> FALSE, reply |-> Response(acc), usage |-> 0,
   approximated |-> TRUE, ttft |-> acc.ttft]

\* A manual provider has a row when some chunk carried usage, or for Together anyway.
ManualRows ==
  IF acc.usage > 0
    THEN <<[FallbackRow EXCEPT !.usage = acc.usage, !.approximated = FALSE]>>
  ELSE IF cfg.provider = "together" THEN <<FallbackRow>>
  ELSE <<>>

\* What the generator captured goes by the span order that the wrapper reserved,
\* and the first request's span took: a second request's finds nothing.
SpanRow(request, first) ==
  [of |-> request, failed |-> FALSE,
   reply |-> IF request = 1 THEN Response(acc) ELSE Nothing,
   usage |-> IF request = 1 /\ cfg.provider \in {"openai", "google"} THEN acc.usage ELSE 0,
   approximated |-> FALSE, ttft |-> first /\ acc.ttft]

\* _flush_deferred_spans: the latency goes to the first payload.
Flushed(spans) == [i \in DOMAIN spans |-> SpanRow(spans[i], i = 1)]

\* The finally of the generators.
Metered(spans) == rows \o IF cfg.manual THEN ManualRows ELSE Flushed(spans)

\* The stream of a provider with an instrumentor ends its span as it runs out,
\* which is before the generator's finally.
End ==
  /\ pc = "pulling" /\ Complete /\ (UsageDue => given.only = 1)
  /\ pc' = "done" /\ deferred' = <<>> /\ rows' = Metered(Append(deferred, ask.count))
  /\ UNCHANGED <<cfg, ask, given, app, acc>>

\* Mutant: the finally does not look at _stream_failed.
FailedRowsTwice == Append(Metered(<<ask.count>>), FailureRow(ask.count))

FailedRows == Append(rows, FailureRow(ask.count))

\* The connection breaks; the error goes on to the application, and the queue
\* stays for a later call of the session.
Fail ==
  /\ pc = "pulling" /\ Errored(ask.count)
  /\ pc' = "failed" /\ rows' = FailedRows
  /\ UNCHANGED <<cfg, ask, given, app, acc>>

\* gen.close() runs the finally of a generator that has started, no other.  The
\* provider's stream is closed after it: its span is still open.
ClosedRows == IF pc = "yielded" THEN Metered(deferred) ELSE rows

\* close(), the end of a with block, or the generator is collected.
Close ==
  /\ pc \in {"open", "yielded"}
  /\ pc' = (IF pc = "open" THEN "unread" ELSE "closed") /\ rows' = ClosedRows
  /\ deferred' = IF pc = "yielded" THEN <<>> ELSE deferred
  /\ UNCHANGED <<cfg, ask, given, app, acc>>

\* The span that was open ends as the provider's stream is closed or collected,
\* or never does: on_end, which merges neither usage nor latency, logs it at once.
LateSpan ==
  /\ pc \in {"closed", "unread"} /\ ~cfg.manual
  /\ \A i \in DOMAIN rows : rows[i].of # ask.count
  /\ rows' = Append(rows, [SpanRow(ask.count, FALSE) EXCEPT !.usage = 0])
  /\ UNCHANGED <<cfg, pc, ask, given, app, acc, deferred>>

-----------------------------------------------------------------------------
Next ==
  \/ Ask \/ Parse \/ Pull \/ UsageChunk \/ End \/ Fail \/ Close \/ LateSpan
  \/ \E s \in Slots, head \in BOOLEAN : \E n \in 0..Size[s] : Chunk(s, head, n)

Spec == Init /\ [][Next]_vars

-----------------------------------------------------------------------------
Over == {"refused", "done", "failed", "closed", "unread"}

Replies == [text : Seq(Slots \X Nat),
            calls : Seq([slot : Slots, named : BOOLEAN, args : Seq(Slots \X Nat)])]

TypeOK ==
  /\ pc \in Over \union {"asking", "raw", "open", "pulling", "yielded"}
  /\ ask \in [option : Options, injected : BOOLEAN, count : 0..2]
  /\ acc.text \in Seq(Slots \X Nat) /\ acc.order \in Seq(Slots) /\ acc.usage \in Nat
  /\ acc.items \in [Slots -> Item \union {None}]
  /\ deferred \in Seq({1, 2})
  /\ rows \in Seq([of : {1, 2}, failed : BOOLEAN, reply : Replies, usage : Nat,
                   approximated : BOOLEAN, ttft : BOOLEAN])
  /\ Len(rows) <= 2

\* What the server has sent, told as the row of its provider tells it.
Told ==
  LET cs == IF cfg.provider = "google" THEN acc.order ELSE Ascending(CallsIn(given.heads))
      whole == ReplyOf(given.parts, given.heads, cs)
  IN  IF cfg.provider = "other" THEN Nothing
      ELSE IF cfg.provider = "anthropic"
      THEN [text |-> whole.text, calls |-> [i \in DOMAIN cs |->
             [whole.calls[i] EXCEPT !.args = Parsed(cs[i], @)]]]
      ELSE whole

\* The response composition a row would carry is what was streamed until then,
\* however the server cut and interleaved it; Google's calls are those that came,
\* each once.
ReplyAsStreamed ==
  /\ Response(acc) = Told
  /\ cfg.provider = "google" =>
       /\ \A i, j \in DOMAIN acc.order : acc.order[i] = acc.order[j] => i = j
       /\ \A s \in Slots : s \in CallsIn(given.heads) <=> \E i \in DOMAIN acc.order : acc.order[i] = s

\* capture_stream_usage is invisible: the application is given the chunks it
\* would be given without the SDK; "the injection can never fail a call that
\* would otherwise have succeeded", and the second request has the application's
\* own options; a rate limit "must never trigger a second provider request".
InjectionIsHarmless ==
  /\ pc \in {"yielded"} \union Over =>
       /\ app.chunks = given.chunks
       /\ app.only = IF cfg.provider \in {"openai", "together"} /\ cfg.wants # "usage"
                     THEN 0 ELSE given.only
  /\ pc = "refused" => Refuses(cfg.wants)
  /\ ask.count = 2 => cfg.server # "limits" /\ cfg.wants # "usage"
                      /\ (pc # "asking" => ask.option = cfg.wants)

\* What the finally of a call that was answered owes.
Owed == pc = "done" \/ (pc = "closed" /\ cfg.manual)
Reports == ~cfg.manual \/ given.usage > 0 \/ cfg.provider = "together"

\* on_end logged it when the finally had run.
Late(row) == ~cfg.manual /\ pc \in {"closed", "unread"} /\ row.of = ask.count

\* A call that fails has its failure row alone; one that is read to its end has a
\* row of the request that was answered, where a manual provider reported usage
\* or is Together; no request has two.  What the generator gathered is on one
\* row, with the last usage the server reported, or saying that it approximates:
\* that of the first request, though a second was answered.  A span that ends
\* late tells neither usage nor time.  Nothing waits once a call is metered.
RowTellsUsage ==
  /\ pc \in {"failed", "refused"} => rows = <<FailureRow(ask.count)>>
  /\ Owed /\ Reports => \E i \in DOMAIN rows : rows[i].of = ask.count
  /\ \A i, j \in DOMAIN rows : rows[i].of = rows[j].of => i = j
  /\ pc \in {"done", "closed"} => deferred = <<>> /\ \A i \in DOMAIN rows : ~rows[i].failed
  /\ \A i \in DOMAIN rows : ~rows[i].failed =>
       /\ rows[i].approximated <=> (cfg.manual /\ given.usage = 0)
       /\ IF Late(rows[i]) THEN rows[i].usage = 0 /\ ~rows[i].ttft
          ELSE IF cfg.manual \/ rows[i].of = 1
          THEN /\ rows[i].usage = given.usage \/ cfg.provider \in {"anthropic", "openai_responses", "other"}
               /\ rows[i].ttft <=> (rows[i].reply # Nothing \/ (cfg.provider = "other" /\ app.chunks > 0))
          ELSE rows[i].usage = 0 /\ rows[i].reply = Nothing /\ (rows[i].ttft => Len(rows) = 1)
=============================================================================
