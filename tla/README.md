# TLA+ specifications of the TokenPolice Python SDK

This directory holds TLA+ models of the parts of `src/token_police/` whose
correctness depends on the order in which threads, tasks, stream chunks and
network events happen, the TLC configurations that check them on small
instances, and TLAPS proofs of some of their properties for every instance.

## The system

The SDK wraps LLM provider SDKs inside an application. Before a call it decides,
from a local copy of the tenant's rules (the *Decision Pack*) or by asking the
service (`/v1/guard/check`), whether the call may run or must use another model.
After the call it reports what happened (`/v1/guard/log`). It promises to fail
open: nothing it does may break the customer's call.

| Component | Source | State | Operations | What is hard |
|---|---|---|---|---|
| Decision Pack cache | `state.py` | the pack, its version, TTL clock, poison flag and tenant pin under `_pack_lock`; the stream-liveness record under `_stream_lock` | `set_client`, `reset_pack`, `apply_snapshot`, `apply_deltas`, `invalidate_pack`, `get_pack`, `is_cache_healthy`, `mark_stream_*`, `is_stream_fresh` | gaps and duplicates in the deltas, expiry, a re-init while a reader is writing, lock-free readers of `_instance` |
| Rule stream reader | `stream.py` | cursor, backoff rung, forced-reconnect and traffic flags, frame buffers, one daemon thread per client | `start`, `stop`, connect, pump, dispatch | reconnect storms, watchdogs, terminal statuses, healing without a cursor, exiting on `stop` |
| Client lifecycle and telemetry pool | `client.py` | HTTP clients, executor, pending futures, the reader | `init`, `check_*`, `log_*`, `flush_*`, `close_*` | concurrent `init`, a log racing flush or close |
| Session context and span tree | `context.py`, `telemetry.py`, `openai_agents.py` | the current session, the reserved order and the pending tool calls as context variables or session fields; `_span_parent` and `_kept_spans` | `session`, `agent`, `chain`, `workflow`, `tool_span`, `reserve_span_order`, `set_pending_tool_calls`, `on_start`, `on_end` | tasks that copy the context and share what it refers to, two calls on one session, eviction at a cap |
| Pre-flight check and call-keyed stores | `enforcer.py`, `state.py` | the task's observation key; decisions and routing markers kept on the session by key, observations in one queue | `_run_sync_check`, `_run_async_check`, `_apply_reroute`, stash/claim/peek/drop, push/drain | fail-open with a local block, a stale stream, claims by the wrong call, a reroute that is undone, caps and ages |
| Local evaluator | `local_evaluator.py`, `reroute_noop.py` | none (pure), over structures `state.py` derives once per pack | evaluate a call against the pack | precedence, entity gates, dry-run rules, stale derived structures |
| Deferred telemetry of a session | `enforcer.py`, `telemetry.py` | `_defer_telemetry`, `_deferred_spans`, `_call_outcome`, `_attempted_*`, LangChain depth and baseline | Mode-A wrappers, LangChain wrappers, `on_end`, `_flush_deferred_spans`, `_emit_call_failure_log` | calls that overlap on one session, streams drained in any order, failures |
| Framework and manual wrappers | `enforcer.py` | context-variable guards, the deferral flag, order and stream state of each wrapper | manual providers, LiteLLM, LlamaIndex, Pydantic AI, Agno, embeddings, Anthropic stream managers, Bedrock | several layers see one call; exactly one check and one row, on exhaustion, close and error |
| Stream metering | `enforcer.py` | the injected option, the accumulator of the chunks, usage and first-token time | `_inject_stream_usage_option_for_provider`, `_should_retry_without_injection`, `_wrap_*_stream`, `_accumulate_*` | what the server sends and how it cuts it, early close, retries |
| Payload composition, classification | `composition.py`, `_classify.py` | none | extract and format | nothing a model checker sees |
| Instrumentation set-up | `telemetry.py`, `_detect.py`, `runtime.py` | patched SDK classes | `auto_instrument`, `protect` | import order |

How they interact: `init()` installs a client in `state` and starts its reader;
the reader writes the pack, evaluators read it. A wrapped call runs the check
(evaluator, then perhaps the service), leaves decisions and observations under
the call's key, calls the provider, and lets `on_end` and the flush turn the
span into a row that the client's executor posts.

## Modules

| Module | Models |
|---|---|
| `RuleCache` | what an evaluator is promised about the rules it reads (abstract) |
| `PackStream` | `state.py`'s pack and liveness record, `stream.py`'s reader, `client.init()` |
| `MCPackStream` | instances of `PackStream` for TLC |
| `PackStreamProofs` | TLAPS proofs about `PackStream` |
| `RulePack` | the content of the pack, the operations of a delta on it, and the evaluator |
| `MCRulePack`, `RulePackProofs` | its instance for TLC, its TLAPS proofs |
| `Preflight` | the check of a call, and the keyed stores from which its rows take their evidence |
| `MCPreflight`, `PreflightProofs` | its instances for TLC, its TLAPS proofs |
| `MeteredCalls` | the calls of one session, from check to row |
| `MCMeteredCalls` | instances of `MeteredCalls` for TLC |
| `MeteredCallsProofs` | TLAPS proofs about `MeteredCalls` |
| `TelemetryPool` | `client.py`'s executor, loop tasks and HTTP clients: log, flush, close |
| `FrameworkCalls` | which layer checks and logs a call that goes through several wrappers |
| `StreamMeter` | one streamed call: the injected option, the chunks, the row |
| `SpanTree` | parents, orders and tool-call ids of the rows |
| `TelemetryPoolProofs` | TLAPS proofs about `TelemetryPool` |
| `StreamMeterProofs`, `SpanTreeProofs`, `FrameworkCallsProofs` | TLAPS proofs about `StreamMeter`, `SpanTree` and `FrameworkCalls` |
| `MCTelemetryPool`, `MCFrameworkCalls`, `MCStreamMeter`, `MCSpanTree` | their instances for TLC |

Each module cuts the system at a seam the others treat as one step. `PackStream`
takes a delta as one opaque change and says when it is applied; `RulePack` says
what applying it does. `RulePack` says what the evaluator answers for a pack;
`Preflight` takes the answer as the status of a small policy and says what the
check does with it. `Preflight` leaves evidence under a call's key; `MeteredCalls`
says which payload of a shared session becomes which call's row. `FrameworkCalls`
takes that bookkeeping for one task and puts the frameworks' wrappers on top of
it. `StreamMeter` opens what both treat as one step, the iteration of a stream.
`SpanTree` says where the rows hang, and `TelemetryPool` how they leave.

Each model also has a few operators named as mutants in their comments: the
definition beside them with a plausible bug, kept to show that each property
would notice it.

### PackStream

Variables follow the globals of `state.py` (`pack`, `packVersion`,
`cacheInvalid`, `packTenant`, `packExpired`; `link`, `owner`), the client slot
(`inst`, `swapping`, `ipc`, `stop`), one record per reader thread (`rd`) and the
service (`truth`, `feed`). One action is one critical section or one uninterrupted
piece of the reader's loop:

* `CloseOld`, `Install`, `ResetPack`, `StartReader`: the four steps of `init()`,
  of which the first three run under `_instance_lock`. `CloseClient`: `close_*`.
* `LoopTop`, `ConnectOk`, `ConnectTerminal`, `ConnectTransient`, `Leave`, `Wake`:
  `_run_forever` and the connect.
* `LineStops`, `Watchdog`, `Eof`, `ReadError`, `Comment`, `FrameLines`,
  `FrameEnd`: one line of `_pump`, guards first, TTL watchdog included.
* `DispatchJunk`, `DispatchSnapshot`, `DispatchDelta`, `ApplyDelta`: `_dispatch`.
  A delta takes two steps because the health check and the apply lock separately.
* `Publish`, `TtlExpires`, `GraceEnds`, and `Sendable` (what the service may send
  next: an owed snapshot, the next delta, a repeated one, or one after a loss).

Abstractions. The rules are the set of published changes they contain, so that
"a hole in the pack" is a missing element. Time is three timers. `link` folds
`_stream_connected`, the disconnect stamp and the grace window; the integer
generation is folded to `owner`, the client whose connect took the newest one.
The lines of a frame arrive together, comments only between frames. The TTL test
and the invalidation it leads to are one step, and so are a refused apply and
the `invalidate_pack()` after it: nothing reads the pack in between but the
other reader, whose own checks are steps of their own. A client's `start()` runs
once, as in `init()`. The ladder's rungs saturate at `LadderTop`.

### RulePack

`pack` is the pack with its derived structures (`Derive`), `work` the locals of an
`apply_deltas` in progress (copied list, position index, loops), `truth` what the
service has said up to and including the operations delivered so far.

* `ApplySnapshot`: `apply_snapshot`, the directives in an arbitrary order.
* `BeginDelta`, then `Upsert`, `RemoveRule`, `Arm`, `Loop` per operation, then
  `Commit`; `Poison` when an operation cannot be performed.
* `Decision`, `Observations`, `ArmableMiss`: the three results of `evaluate`.

`Right` is the reference: the first of the service's rules in force that apply to
the call. It knows nothing of lists, indexes, copies or derived structures.

Abstractions. A selector is the set of calls it matches, and a group tag is part
of the call; building tags from a selector is not modelled. A rule's draft says
what it is for; whether an operation carries its entity list is up to the
service where the protocol lets it be omitted (`Omissible`). A poisoned pack's
content is forgotten: nothing evaluates it before the next snapshot. Rules in force
are sorted by counting, for each, the rules before it, which is what a stable sort
by the pair of priority and id comes to. Operations
of an unknown kind, which the code ignores, are left out, as is `force_shadow`,
which no caller sets. `ArmableMiss` is also set for a reroute that would be
refused or be a no-op: the code asks more often than it must, and only its
soundness is stated.

### Preflight

`call` holds the locals of a wrapper around its check, `key` each task's
`_obs_call_key`, `ses` the three stores and the rows logged.

* `Begin`: a key is minted, the pack evaluated, the evaluator's observations
  pushed, and the service asked or not (`_stale_stream_needs_check`).
* `AnswerDry`, `AnswerBlocks`, `AnswerReroutes`, `AnswerRefused`, `AnswerPasses`:
  the rest of `_run_sync_check` and of its async twin. `Stops`, `Reroute` and
  `Preview` are the decision table: local verdict, answer, dial and shape of the
  call. The second case of `AnswerReroutes` is the async Anthropic stream manager
  that cannot be rebuilt (`_rebuild_after_reroute`).
* `LogRow`: a row of the call, with one claim, one peek and one drain.
  `LogBatch`: a batch result's row. `TimePasses`: 300 s since a check.
* `Edit`, `Deliver`, `StreamChange`: rules change, reach the pack, or do not.

Abstractions. The stores' helpers each hold their lock for their whole body, and
what a check does after its answer touches only entries of its own key or is a
push, so one step per answer is enough. A store is a set of entries that carry the
number of the check that left them (`ts`), which is their order of insertion: the
code's dictionaries and its queue are only ever read by key and evicted oldest
first. A policy is rules that select every call
(`RuleSets`): which rule matches is `RulePack`'s subject, and a dry-run rule
shows only there. Calls have a key: the untagged fallback is for a context
variable that cannot be read. A check stashes once, so that replacing an entry
under the same key never happens. Ages are a prefix of `checked`: older checks
get late first; entries are stamped at the check's end, which `TimePasses`
respects by waiting for it. One session, one batch result, and a service that
stops when every call is decided are bounds.

### MeteredCalls

`ses` is the part of a `TPSession` that its calls share, together with the rows
logged; `call` holds the locals of each call's wrapper. The functions from
session to session (`EndSpan`, `Flush`, `FailureRow`, `Unwind`, ...) are the
helpers of `telemetry.py` and `enforcer.py`; each action composes the ones that
run between two suspension points:

* `EnterCall`: after the check, the flag is saved and set. `ReturnCall`,
  `FailCall`, `ReturnStream`: the three ways the provider call ends in a Mode-A
  wrapper. `FailLcCall`: LangChain's `invoke` raising.
* `PullStream`, `EndStream`, `FailStream`: the generator around a Mode-A stream.
* `EnterLcStream`, `PullLcStream`, `EndLcStream`, `FailLcStream`: LangChain's
  stream guard with its depth counter and baseline.
* `DropStream`: a stream nobody pulls. `LateSpan`: the instrumentor ends the span
  of a stream that was closed early.

Abstractions. Calls are asyncio tasks or generators of one thread, so what runs
between two suspension points is atomic; threads sharing a session are not
modelled. A payload is the call it belongs to. Whether the instrumentor ends a
span at all is left open (`spanned`). Only decisions are kept per call; the
keyed store's cap and age limit are not modelled. Strip-and-retry is part of the
provider call. LangChain calls carry no applied reroute: their wrappers run the
check without kwargs, so there is nothing to apply it to. `Orderly` is a
discipline of the application, not of the code.

### TelemetryPool

A process is an application thread or a coroutine of an event loop; `at` says
where it is in its operation. A row's `fate` goes through the pool's queue and a
worker, or through a task of the loop it was logged on.

* `Submit`, `Add`, `Arm`: the three steps of `log_sync`, between which a flush, a
  close or the worker may come. `Take`, `Post`, `Cleanup`: the worker and the
  callback. `LogAsync`, `TaskStart`, `TaskPost`, `TaskCleanup`: `log`.
* `FlushSync`, `FlushAsync`, `Gathered`, `FlushReturn`: the flushes. `CloseSync`,
  `CloseAsync` and the steps after them, down to `CloseHttp` and `Aclose`.

Abstractions. A POST succeeds, or fails and is swallowed; its payload is left
out. `ThreadPoolExecutor` is modelled from its use (a queue, at most
`Workers` threads, `shutdown(wait=True)`). Each row is logged once, which bounds
the run. A row logged by `log` after the asynchronous client was closed is
swallowed (`late`), so `AcceptedIsPosted` speaks of the pool's rows.

### FrameworkCalls

`ses` has the guards of the context (`_in_langchain` and its siblings) and the
session's fields; `call` the locals of each call's wrapper. The functions from
session to session are the wrappers' pieces (`LiEnter`, `AgnoEnter`, `SpanEnd`,
`DropOrder`, ...); an action is what the application does: a call, a stream's
opening, pull, exhaustion, close or failure.

Failures. The instrumentor ends the span of a request that fails, in error, or
never does (`spanned` is either). `on_end` defers it like any other, the Mode-A
wrapper writes its failure row and does not flush, and the errored span waits for
whoever flushes next (`ProviderCall`, `InnerEnd`): the call then has two rows. A
LangChain or LlamaIndex call that fails flushes what it finds deferred, its own span
or somebody's leftover, and writes a row only if it finds nothing (`DeferringCall`);
a manager's exit drops the payloads without usage that were queued since its block
was entered (`ManagerDrop`). So `OneRowEach` allows a failed call no row, one, or,
under a Mode-A wrapper, two, and `MayLinger` names the spans that may stay.

Abstractions. One task and one session: what overlapping tasks do to the session
is `MeteredCalls`' subject. Every framework call makes one request of a provider
with an instrumentor. An answered request's span carries its usage, an errored one
none. A span is its call and its order; `_deferred_spans`, a list
in the code, is the set of them, told apart by the orders the session's counter
gives out (that a wrapped call's order is no other span's is `OrderIsOwn`, of
`SpanTree`; that a span is not deferred twice, `SpanShippedOnce`, of `MeteredCalls`). Left out: the variant of
LlamaIndex over `openai_responses`, the span of a closed stream that ends after its
wrapper (`StreamMeter` has it), answers without usage, the rebuild of a manager after
a reroute, Bedrock. `Solo`
and `Dropped` are disciplines of the application under which the properties
hold, and the code fails without them: see below.

### StreamMeter

`cfg` is the call (provider, wrapper, server, what the application and the SDK ask
for), `given` what the server has sent, `acc` the generator's locals. The server
sends any chunk its wire allows next: a fragment of any item, a head, a usage, an
end; the application pulls, closes or drops the stream at any point. `Told` is
the reference: the reply as it would read had it come in one piece.

A provider with an instrumentor has a span for each request, and `deferred` is the
queue of those that end while telemetry is deferred. `End` flushes it with the
span that ran out; a refused request may leave its own there (`Errored`), which the
finally of the answered one ships first. `Close` runs the generator's finally
before the provider's stream is closed, so it finds the queue without the call's own
span; that one ends later, or never, and `on_end` logs it at once (`LateSpan`), with
the reply that was captured but neither the usage of the chunks nor the latency.
What the generator captured goes by the reserved order (`SpanRow`), which the
first request's span took. After `Fail`, or a refusal, the queue stays: what a later call's flush
makes of it is the subject of `MeteredCalls`.

Abstractions. The reply of a row is what the generator or the wrapper captured, not
the texts `on_end` reads off a span for want of it. A fragment is a pair of item and number; joining text is joining
sequences. One choice; reasoning and image items are left out, and so are tokens'
values: a usage is the number of the report. A server that refuses the option
does so in a way the SDK recognises (`strict`, `names`), or refuses everything. A reply has at most one text, and what
the server sends is counted (`given.sent`). A provider with an instrumentor has it
installed.

### SpanTree

A span is one of nine kinds, set at the start by `Programs`; `task` has the context
variables of each task and its open blocks; `ses` the counter, the pending ids and
the reservation; `maps` the two bounded maps. `Cap` is their size (4096 in the code) and
`Hops` the rounds of the walk up the recorded parents (64), after which the code
hangs a row under whatever frame it has reached.

* `Spawn`: a task with a copy of the context. `OpenScope`, `CloseScope`: a
  `session()` or `agent()` block. `Start`, `EndFrame`, `EndTool`, `EndLlm`,
  `EndStream`: `on_start` and `on_end` of the instrumentors' spans.
* `Wrap`, `Request`, `Return`: a wrapper reserves an order, the provider's span
  takes it, the reply's tool-call ids become pending. `Manual`: a call metered
  without a span. `EnterFn`, `ExitFn`: `tool_span`. `AgentsTool`: OpenAI Agents.

Abstractions. Blocks close in the order they opened, within a task; spans of
streams may end at any time. A span id is the span. Nothing else starts a span
between a reservation and the request of its call. A tool whose id the
application or the instrumentor gives takes none and is left out. The spans are
finitely many, which bounds a run and nothing else.

## Runs

| Run | Bounds | Shows |
|---|---|---|
| `stream_single` | 1 client, 3 versions, ladder of 2, all faults, TTL | the safety of one reader, and that it implements `RuleCache` |
| `stream_heals` | 1 client, 2 versions, gaps and bad deltas, fairness | the cache heals, `stop` works, storms climb the ladder |
| `calls_any` | 3 calls of all kinds, any interleaving, failures | conservation of payloads, claims, failure rows |
| `calls_orderly` | 3 calls of all kinds, nested; LangChain interleaved and failing | the flag, the queue and the replies |
| `calls_gather` | 2 overlapping awaited calls | *violation*: the flag stays set for good |
| `rules` | 3 rules of 5 drafts, 4 calls, deltas of 2 operations | a pack decides, observes and re-verifies as the service's rules say |
| `preflight` | 2 calls in 2 tasks, one of every shape; 4 policies, one change; stores of one entry, 2 rows a call | what the check did, the wire and the rows agree |
| `pool` | 2 threads and a coroutine, 2 rows, 1 worker, 2 processes that close; fairness | accepted rows are posted, a flush drains, every operation ends |
| `pool_two_loops` | 2 coroutines of two loops | *violation*: a flush raises |
| `frameworks` | 3 calls of 14 kinds, nested and interleaved | one check for each request; one row if it succeeds, its failure row and an errored span's at most if not; nothing held, nothing queued but what no end flushes |
| `stream_meter` | 1 call of 9 wires against 6 kinds of server; a text and two tool calls of 1 or 2 fragments | one row tells the reply and the usage, the injection is invisible |
| `spans` | any 3 spans, a model span with three frames, a scope with a tool and two calls; 2 tasks, maps of 3 entries, a walk of one hop, 2 tools | parents, orders and ids of the rows |

Why the bounds are enough. Three versions give a snapshot, the next delta and a
delta beyond a gap; a ladder of two has a floor and a cap that differ. Two
clients give every pair of an old and a new reader; the code refers to at most
one previous client. Three calls give two overlapping ones and a bystander whose
row can be hurt, and three streams can be drained in an order that is neither
first-in-first-out nor last-in-first-out. Three rules are two that contend and a
third whose position shifts when one is removed; the five drafts are the three
kinds, gated and not, in force and dry, and the four calls are refused, no-op,
looping and foreign for them. Two calls are one and a stranger that may take its
evidence, with a store of one entry full at the second; the policies cover block,
reroute, reroute to the model asked for, and a reroute not yet armed, and one
change makes the pack stale or the service's answer differ from it. One worker
with two rows has one running and one queued; three processes are one that logs,
one that flushes and one that closes. Three framework calls are two nested or
interleaved ones and one that meets what they left behind. A reply of one text
and two calls has items to confuse and fragments to join; an accumulator treats
further ones alike. Three spans are a model's reply and the two tools that
compete for its ids, or two overlapping calls and a bystander; with one frame
above it a row is one hop away from its parent, with two the walk stops short,
and maps of three entries evict at the fourth.

The `stream_*` runs stop where no message is left to publish, the others, but
`rules`, where every call was made and every row logged, so deadlock is not
checked; `rules` never stops, and is checked for it. `calls_any`,
`calls_orderly`, `frameworks` and `spans` use the symmetry of calls or spans;
they check no liveness.

`Solo` and `Dropped` in `frameworks` are the cases where the code fails its own
rule. While a LiteLLM stream is open its guard is held, while a LlamaIndex,
Pydantic AI or Agno stream is open its guard or the deferral is: the run lets the
application do nothing else until such a stream is over, and pull every
LlamaIndex or Pydantic AI stream it opens. `Orderly`, in `FrameworkCallsProofs`, says
the same of any other instance.

Seven more configurations are beside the runs. `stream_reinit.cfg` (module
`MCPackStream`) checks `PackIsPublished` and `StaleClockNotRefreshed` with two
clients of one tenant; both are proved for any number. The others end in a
counterexample, a disagreement `PROJECT.json` lists with the words of the comment,
docstring or test that says otherwise:

| Configuration | Module | Shows |
|---|---|---|
| `stream_ttl_livelock.cfg` | `MCPackStream` | `CacheHeals`: an expired pack forces a reconnect on every new connection's first line, and never heals |
| `stream_zombie_tenant.cfg` | `MCPackStream` | `RulesOfInstalledTenant`: a replaced reader installs its tenant's rules |
| `calls_ghost.cfg` | `MCMeteredCalls` | `QuietIsFlushed`: a failed Mode-A call's payload stays queued for the next call's flush |
| `preflight_batch.cfg` | `MCPreflight` | `MarkerOnOwnRow`: a batch result shows a rerouted call's marker |
| `frameworks_open_stream.cfg` | `MCFrameworkCalls` | `CheckedOnce`: a call made while a LiteLLM stream is open is neither checked nor metered |
| `frameworks_li_order.cfg` | `MCFrameworkCalls` | `OneRowEach`: a call made between the opening and the first pull of a LlamaIndex stream takes the order its drop goes by, and the stream has two rows |

The two violations among the runs are `calls_gather` and `pool_two_loops`. More
was seen while modelling and has no configuration:

* With two clients `LinkTellsStream` fails: a zombie's late connect takes a newer
  generation, and its exit then marks the live stream down, although
  `mark_stream_disconnected` says a zombie never can. A zombie's 401 may poison
  the new client's pack, whose own reader keeps its cursor and is not healed.
* `init()` installs a client before it creates its reader (`client.py:933`). A
  concurrent `init()` in that window closes the client with nothing to stop.
* The attempted model in a failure row is whichever overlapping call was entered
  last. The flush gives the flushing call's decision to the first queued payload,
  so a call nested in a stream may be logged with the stream's decision.
* If the pack reroutes and the service answers "allowed" with a reroute of its
  own, the pack's target is taken (`enforcer.py:2357`); the comment at the later
  branch expects the service's.
* An answer that is neither 200 nor 429 but has a JSON body is returned as the
  verdict without `fail_open` (`client.py:289`; `Garbled`). It counts as
  disagreement, and a local block is dropped.
* A dry run records a reroute that enforcing would refuse (hinted or unverified
  call) or that is a no-op; `PreviewMissesNothing` states only the converse. A
  reroute refused by both the evaluator and the check is recorded twice.
* A Mode-A call or stream that fails logs its failure row and does not flush: its
  errored span waits for the session's next flush and becomes a second row. Calls
  made inside an Anthropic `with messages.stream()` block are queued and not
  flushed at its end: their rows wait for the session's next flush (`MayLinger`).
* Two LlamaIndex streams that end in the order they began restore the deferral
  flag wrongly, as Mode-A calls do. A
  LlamaIndex stream that is never pulled keeps the deferral.
* A LiteLLM or manual stream closed before its usage chunk leaves no row (a
  Together stream leaves an approximation), nor does a LangChain stream that fails
  before a span, nor an Anthropic manager whose stream breaks midway.
* With several choices a stream's texts and calls are told apart by their place in
  the list, not by their index, and mix.
* After an eviction, or after 64 hops, `_resolve_kept_parent` returns the frame it
  cannot or does not follow, which has no row; the comment at `telemetry.py:71` says it falls through to the
  root. Rows logged without a span take the current span as parent, row or not.
* The second attempt of a retried call takes a new span order, so its row misses
  the prompt stashed under the reserved one, and the reply and the usage too: they
  are told by the refused attempt's row, if that was queued, and by none otherwise.
* A Mode-A stream closed early has no row until its span ends, and that row lacks the
  usage of the chunks and the latency, which the next flush attaches to another
  row: the docstring of `_ModeAStreamProxy` has its finally flush partial telemetry.
* `_pop_from_pending_list` finds an entry and removes it by position: two threads
  can take one id.

### Fairness

`ScheduledSpec` assumes that threads are scheduled: an `init()` that began
finishes, a reader takes its next step, a connect has an outcome (it has a 10 s
timeout) and a read returns (45 s timeout). `FairSpec` adds what healing needs
of the service: a reconnect is again and again answered with 200, and the
banner and the owed snapshot again and again get through (strong fairness, since
any single connection may fail); on a stream that stays open, data or the data
watchdog comes (weak fairness). Nothing is assumed of the application or of
failures.

`pool` assumes that the executor's threads and the event loops are scheduled: a
worker takes the next row, a POST ends (the HTTP client has a timeout), a task
runs, and a process that is in an operation goes on. It assumes nothing of who
logs, flushes or closes.

## Proofs

`PackStreamProofs` assumes only `ConstantsAssumption` and `NoneIsNoData`, so it
covers every number of clients and tenants and every bound.

* `TypeCorrect`: the types, with `HoldsFrame` (a reader holds a frame exactly
  while it is inside one), without which a dispatch step is not typed.
* `PackAlwaysPublished`: with clients of one tenant, `PackIsPublished`. The
  strengthening says that every frame a reader holds, and the service's side of
  every connection, is at most what the tenant has published; `Verdict` then
  admits only the successor of the pack's version.
* `StaleClock`: only a successful connect ends staleness.
* `CursorAlwaysBacked`, `LinkAlwaysTells`, `ImplementsCache`: with one client
  (`Alone`; with two, all three fail, see above). `AloneInv` adds to what was
  published what the cursor stands for (`Backed`: a pack that is there, not
  poisoned, and at least as new; no snapshot in hand is older) and where the reader
  is while the record says "up" (`Linked`). For the refinement, an evaluator is
  given the versions up to the pack's (`GivesPrefix`, a consequence of
  `PackIsPublished`), and every step is one of four things to it (`CacheStep`):
  nothing, newer rules, no rules for a while, or a version published; each is a
  step of `RuleCache` or a stutter.

`MeteredCallsProofs` assumes only `KindsAssumption`: any finite set of calls of
any kinds, orderly or not, unless a theorem says so.

* `SessionTypeCorrect`: the types. `depth \in 0 .. Cardinality(Calls)` is not
  inductive as it stands; `IInv` adds that the counter equals the number of
  LangChain streams being pulled (`DepthCounts`), so that a guard that exits
  finds it above zero. Each helper's lemma also says what it does to the flag.
* `LangChainReleases`: with LangChain streams alone, in any interleaving,
  `OpenCallDefers` and `QuietIsReleased`. `LcInv` adds to `IInv` that the flag is
  set exactly while the counter is above zero and that the stashed baseline is
  never a set flag. For awaited calls that overlap, the same property is what
  `calls_gather` refutes.
* `SpansShipOnce`, `AuditAlwaysOwn`: in any interleaving, with any failures.
  `BInv` keeps the books of the session: an ended span is in one place of the queue
  or of the log and only there (`Once`); decisions are of calls that were made, and
  the one a row took is on no other row and no longer stored (`Audited`); a call
  that is not over has not ended its span (`Pending`). Every helper has one
  lemma that says what it does to the books; the flush, which loops over the queue,
  is taken as a whole, by the row it writes for each place of the queue.
* `OrderlyReleases`, `RepliesReachRows`, `OrderlyFlushes`: with `Orderly`, for calls of
  every kind, `QuietIsReleased`, `ReplyReachesRow` and `QuietIsFlushed`. `Nested` says
  that the calls in flight are ordered by which was made within which (`OlderKnown`),
  that the flag is up exactly while some call holds it up (`DeferKnown`), that what a
  wrapper noted of the flag is whether an older call did (`PrevKnown`), and
  LangChain's baseline whether some call did under all of its open streams
  (`BaseKnown`); the call whose turn it is is the youngest, but for LangChain's
  (`Youngest`), so putting the flag back is right. On that rest `AllAnswered`: a
  span is logged without its reply only if its call does not complete; and
  `QueueKnown`: while the flag is down nothing is queued. The last alone needs that
  Mode-A calls do not raise, as in `calls_orderly`: `FailCall` and `FailStream`
  leave an errored span in the queue, for whoever flushes next.

`RulePackProofs` assumes `DraftsAssumption`: any calls, length of deltas, rules and
drafts; an entity block is gated by entities and an unconditional one is not, a
reroute may be either.

* `RulesTypeCorrect`, `IndexAlwaysPoints`: the types, and that the hand-kept index
  holds exactly the listed ids and points at each. The two are inductive only
  together, with the finiteness of the service's rules and with `Fresh` (what is
  derived is derived from this list); a removal shifts every later position.
* `MissAlwaysSound`: for any derived structures whatever, arming entities cannot
  move an allow without an armable miss (`ArmingChangesNothing`), because such an
  allow found no directive that arming would let decide.
* `PackAlwaysTellsTruth`: what the evaluator decides, observes and asks to verify is
  what `Right` says of the service's rules. `Mirror` is the invariant: a healthy
  pack holds each rule of the service once, with its loop blocks, and a delta in
  progress mirrors what the service will have with the operations so far. From
  there it is an argument about one state: the derived lists are the rules in
  force in their order (`SortedIs`: the number of rules before a rule is its
  place, so the sorted list needs no induction), hence the first of a list that
  acts is the first of the service's that acts, and the dry-run audit likewise.

`PreflightProofs` assumes `CallsAssumption`: any calls, tasks, shapes, policies and
caps; and `NoneAssumption`: no store entry is the absent one.

* `BlockAlwaysStands`: `BlockStands` with the types of the rules, the pack and
  the calls is inductive; the dial never changes, and a call that runs or is
  blocked got there by `Stops` of the answer it keeps.
* `UnverifiedAllowAlwaysTrue`: a call goes from idle to running only in `Begin`,
  and `NoMissNoHarm` is the argument: without a miss, all that is known is armed,
  so any other arming arms less.
* `ChecksTypeCorrect`, `RowsAlwaysTell`, `EvidenceShippedOnce`, `PreviewNeverMisses`:
  all four follow from `EInv`. A store's entry tells the wire of a call that runs and
  whose first row is still to come (`StoresTell`); rows differ by call and number,
  and only the first took the decision (`RowsTell`); a reroute is in both stores or
  on that row (`Reported`), unless the call is late or the stores were full;
  an observation is in the queue or on one row (`ObservationsTell`). That a full
  store evicts nothing that is owed needs a count: entries are fewer than the
  calls that may leave one, so with room for all of these nothing is evicted.

`TelemetryPoolProofs` assumes `PoolAssumption`: any processes, event loops, rows
and workers, and any number of processes that close.

* `TypesHold`: the types. That `pending` and `armed` hold rows needs `Handed` (a
  process holds a row exactly while it is inside `log_sync`).
* `AcceptedAlwaysPosted`: `AcceptedIsPosted`. `ShutIsEmpty` is the argument: the
  HTTP client closes only after a join that found the queue empty in a pool
  that refuses new work, so nothing can start afterwards. `PendingIsArmed`
  accounts for the window between `add` and `add_done_callback`.
* `FlushAlwaysDrains`: `FlushDrainsOwn`. `RowsAreSeen` says that a row under way
  is pending or a task of a loop, except while its own thread is still inside
  `log_sync` and so cannot flush; `QueueIsQueued` keeps a row from being taken
  twice; `WaitsForOwn` carries this through the two halves of `flush()`, whose
  second half snapshots the futures only once the tasks are over.

`StreamMeterProofs` assumes `StreamAssumption` and `NoneAssumption`: any wires, any
number of calls, any sizes, at most one text.

* `InjectionAlwaysHarmless`: `Invisible` counts what the server sent, what the
  application got and what was held back, over both attempts.
* `StreamTypeCorrect`, `ReplyAlwaysAsStreamed`, `RowsTellUsage`: the generator's
  locals are a function of what was sent (`Kept`), given the protocol of the wires
  (`Arrived`), wire by wire: a slot's item is what has come of it, whichever
  other items came in between. `Timed` says that the usage is the last report
  and that the first token was timed once there was one; `Queued`, that only a refused
  first request's payload waits before the end; `Booked`, the rows of each ending. Lists in ascending order are built by rank, and two ascending lists of
  one set are equal (`AscendingOnly`), which is all that the order of the calls
  in a row needs. On Google's wire calls come in no order, and the row lists each once.

`SpanTreeProofs` assumes `SpanAssumption` and `NoneAssumption`: any spans and
programs, any tasks, tools and replies, any cap and any number of hops.

* `TreeTypeCorrect`, `OrdersAreOwn`, `IdsAreOwn`: a task's blocks nest as its
  contexts do (`Stacks`); an order that is reserved, held by a wrapper or by a span
  is below its session's counter and belongs to nobody else (`Orders`), even though
  tasks share the box the reservation is in; a pending id is in one list, once,
  until one tool takes it (`Pending`).
* `RowsHangNearest`: `HangsUnderNearest`, a property of the step that ends a span.
  `Tree` says that the maps tell the parents of what has started, that the kept
  spans are those with a row to come, unless some were evicted, which a count shows
  cannot happen while the property speaks, and that no span is above itself
  (`Ranked`, a witness that grows with each start). The climb in
  `_resolve_kept_parent` and the reference's climb are compared at the least
  place where they would differ.

`FrameworkCallsProofs` assumes `FrameworkAssumption`: any finite set of calls, of any
kinds.

* `FrameworksTypeCorrect`: the types, with no discipline. The depth counter is a
  natural number because it counts the LangChain streams being pulled.
* `ChecksAreSingle`, `RowsAreSingle`, `QuietAlwaysClean`: `CheckedOnce`, `OneRowEach`
  and `QuietIsClean`, failures and their errored spans included, given `Orderly`:
  `Solo` has every framework that keeps a guard or the deferral while a stream is
  open, and a LlamaIndex or Pydantic AI stream is not dropped before its first pull.
  It is what the run assumes of the application; `frameworks_open_stream` and
  `frameworks_li_order` show the code failing without it.

The three share one invariant, `FInv`. The guards held are those of the
one call whose turn it is (`Guarded`); a check is due to a call exactly when a layer
has taken it (`ChecksDue`); the flag is up exactly while some stream defers
(`DeferKnown`); and what a stream noted of the flag on its way in is whether an older
stream defers (`PrevKnown`, for LangChain's shared baseline `BaseKnown`), which is why
putting it back is right in whatever order streams end. Every deferred span has a
stream that will flush or drop it, or may linger (`AllCovered`); the order a wrapper
noted is that of no span deferred by another call, so that a drop takes its own
spans and no others (`OrdersKnown`); and the
rows and deferred spans of a call add up to what it owes at its stage (`Books`).
Wrappers are functions from session to session, so each piece has one lemma, each
action one that says what it makes of the session (`MadeEnds`, `OpenEffect`,
`PullEffect`, `FinishEffect`), and the parts of `FInv` are proved from those.

Where a proof by induction over data would be natural, the proofs use what the
provers can be given instead: ranks that count predecessors, with the theorems on
cardinalities, and a least counterexample by `WFMin`, the theorem that a
well-founded relation has minimal elements.

What is only model-checked: all liveness (`FairSpec`, the fairness of `pool` and the
fact that every operation ends are out of the prover's reach). Every safety property
that a passing run checks is stated by a theorem; some with a hypothesis on the
application or the number of clients, which the run makes too.

## Not modelled

* Instrumentation set-up and SDK patching (`_detect.py`, `runtime.py`, most of the
  top of `telemetry.py`): sequential, at import.
* Payload composition and error classification (`composition.py`,
  `_classify.py`): extraction and formatting of provider objects, without state.
* The LangChain trace registry of `context.py`: it only suppresses double rows of
  Gemini calls that LangChain makes.
* Bedrock's hand-off of a failed call's row to the open span, and batch results
  beyond their marker.
* Threads that share a session: `_flush_deferred_spans` iterates a list to which
  `on_end` may append.

What could follow: `RulePack` shown to refine the change sets of `PackStream`;
`Preflight` composed with `MeteredCalls` through the keys.
