--------------------------- MODULE FrameworkCalls ----------------------------
(***************************************************************************)
(* Who meters a call that goes through several instrumented layers.        *)
(*                                                                         *)
(* LangChain, LlamaIndex, LiteLLM, Pydantic AI and Agno call a provider's  *)
(* SDK, which is instrumented too.  The framework's wrapper sets a context *)
(* variable, its guard; a wrapper that finds a guard set passes the call   *)
(* through, or skips the check only.  The provider's OpenTelemetry span is *)
(* dropped, deferred or logged according to the same guards.               *)
(*                                                                         *)
(* One thread or task, one session.  An action is one thing the            *)
(* application does: a call, or the opening, first pull, exhaustion,       *)
(* closing or failure of a stream.  Every framework call makes one request *)
(* of a provider whose SDK carries an instrumentor ("modea").              *)
(***************************************************************************)
EXTENDS Naturals, FiniteSets

CONSTANTS
  Calls,   \* calls the application makes, each once
  None,    \* Python's None
  Kinds,   \* the kinds of calls it makes
  Solo,    \* kinds during whose streams it does nothing else
  Dropped  \* kinds whose streams it may open and never pull

\* The guards, named as in context.py (_in_langchain ...).
Guards == {"langchain", "litellm", "llamaindex", "pydantic", "agno"}

\* "modea": a provider with an instrumentor; "manual": one without.  The kinds
\* in StreamOnly are the asynchronous streams where they differ; a manager is
\* Anthropic's messages.stream(...), entered by a with block.
Managers   == {"manager", "managerAsync"}
Embeddings == {"lcEmbed", "liEmbed"}
StreamOnly == {"liAsync", "lcAsync", "agnoAsync"}
LangChain  == {"langchain", "lcAsync"}
AllKinds   == {"modea", "manual", "litellm", "langchain", "llamaindex", "pydantic", "agno"}
              \union StreamOnly \union Managers \union Embeddings

\* Frameworks that keep their guard, or the deferral, while a stream is open.
Holders == {"litellm", "llamaindex", "liAsync", "pydantic", "agno", "agnoAsync"}

ASSUME FrameworkAssumption ==
  /\ IsFiniteSet(Calls) /\ None \notin Calls \union Nat
  /\ Kinds \subseteq AllKinds /\ Solo \subseteq AllKinds /\ Dropped \subseteq AllKinds

VARIABLES
  ses,   \* the guards of the context and the fields of the session
  call   \* the wrapper's locals of each call

vars == <<ses, call>>

Span == [of : Calls, order : Nat]

Session == [
  guards  : SUBSET Guards,
  defer   : BOOLEAN,        \* _defer_telemetry
  depth   : Nat,            \* _lc_stream_depth
  base    : BOOLEAN,        \* _lc_stream_defer_prev
  counter : Nat,            \* _span_counter
  buffer  : SUBSET Span,    \* _deferred_spans, told apart by their orders
  rows    : [Calls -> Nat], \* rows logged for each call
  early   : SUBSET Calls,   \* calls whose row was logged before their wrapper was done
  checks  : [Calls -> Nat]] \* pre-flight checks run for each call

\* pulled: the stream's generator has started; through: no wrapper took the call;
\* order: the wrapper's own span_order; prev: _defer_telemetry as it found it;
\* inner: the provider stream's span order and the provider wrapper's own prev.
Locals == [
  pc      : {"new", "built", "open", "pulled", "done", "closed", "failed", "dropped"},
  kind    : AllKinds \union {None},
  through : BOOLEAN,
  order   : Nat \union {None},
  prev    : BOOLEAN,
  sent    : BOOLEAN,                            \* the request has been made
  inner   : [order : Nat \union {None}, taken : BOOLEAN, prev : BOOLEAN],
  kept    : SUBSET Span,                        \* a manager's _enter_deferred_ids
  older   : SUBSET Calls]                       \* streams open when it was

NoInner == [order |-> None, taken |-> FALSE, prev |-> FALSE]

Init ==
  /\ ses = [guards |-> {}, defer |-> FALSE, depth |-> 0, base |-> FALSE,
            counter |-> 0, buffer |-> {}, rows |-> [c \in Calls |-> 0], early |-> {},
            checks |-> [c \in Calls |-> 0]]
  /\ call = [c \in Calls |->
       [pc |-> "new", kind |-> None, through |-> FALSE, order |-> None,
        prev |-> FALSE, sent |-> FALSE, inner |-> NoInner, kept |-> {}, older |-> {}]]

-----------------------------------------------------------------------------
(* The wrappers' first lines.                                              *)

\* Inside an Agno run these wrappers take the call, but skip the check.
CheckedByAgno == {"modea", "manual", "litellm"} \union Managers

\* The guards under which each wrapper passes the call through.
Yields(kind) ==
  CASE kind \in CheckedByAgno                  -> Guards \ {"agno"}
    [] kind \in LangChain \union {"lcEmbed"}    -> Guards \ {"llamaindex"}
    [] kind \in {"llamaindex", "liAsync"}       -> {"llamaindex", "pydantic", "agno"}
    [] kind \in {"pydantic", "agno", "agnoAsync", "liEmbed"} -> Guards

PassesThrough(s, kind) == s.guards \intersect Yields(kind) # {}

SkipsCheck(s, kind) == kind \in CheckedByAgno /\ "agno" \in s.guards

Check(s, c, kind) == IF SkipsCheck(s, kind) THEN s ELSE [s EXCEPT !.checks[c] = @ + 1]

Hold(s, g)    == [s EXCEPT !.guards = @ \union {g}]
Release(s, g) == [s EXCEPT !.guards = @ \ {g}]
Row(s, c)     == [s EXCEPT !.rows[c] = @ + 1]
NextOrder(s)  == [s EXCEPT !.counter = @ + 1]

-----------------------------------------------------------------------------
(* The provider's span and the deferred spans.                             *)

\* on_start: under Pydantic AI's guard the span takes no order.
SpanOrder(s)  == IF "pydantic" \in s.guards THEN None ELSE s.counter
SpanStart(s)  == IF "pydantic" \in s.guards THEN s ELSE NextOrder(s)

\* on_end: dropped under the guards of the frameworks that log by themselves.
SpanEnd(s, c, order) ==
  IF order = None \/ s.guards \intersect {"pydantic", "litellm"} # {} THEN s
  ELSE IF s.defer THEN [s EXCEPT !.buffer = @ \union {[of |-> c, order |-> order]}]
       ELSE Row(s, c)

SpansOf(buffer, c) == {p \in buffer : p.of = c}

Flush(s) ==
  [s EXCEPT !.buffer = {},
            !.rows = [c \in Calls |-> @[c] + Cardinality(SpansOf(s.buffer, c))]]

FlushUnlessDeferred(s) == IF s.defer THEN s ELSE Flush(s)

Restore(s, prev) == [s EXCEPT !.defer = prev]

\* _drop_deferred_spans(session, order): by order, whoever's span carries it.
DropOrder(s, order) ==
  [s EXCEPT !.buffer = {p \in @ : p.order # order}]

-----------------------------------------------------------------------------
(* One request of an instrumented provider, under the guards it finds.     *)

\* The Mode-A wrapper takes the call unless a guard says otherwise.  It defers,
\* and when the call is over restores the flag and flushes.  A call that raised
\* gets a failure row and no flush: its span, if the instrumentor ended it in
\* error (spanned), stays where on_end put it.
ProviderCall(s, c, ok, spanned) ==
  LET taken   == ~PassesThrough(s, "modea")
      checked == IF taken THEN Check(s, c, "modea") ELSE s
      order   == SpanOrder(checked)
      started == SpanStart(IF taken THEN Restore(checked, TRUE) ELSE checked)
      ended   == IF spanned THEN SpanEnd(started, c, order) ELSE started
      back    == IF taken THEN Restore(ended, s.defer) ELSE ended
  IN  IF ~taken THEN back
      ELSE IF ok THEN FlushUnlessDeferred(back) ELSE Row(back, c)

\* The same for a request answered by a stream: the call proper ...
DispatchState(s, c) ==
  LET checked == IF PassesThrough(s, "modea") THEN s ELSE Check(s, c, "modea")
  IN  SpanStart(checked)
DispatchInner(s) ==
  [order |-> SpanOrder(s), taken |-> ~PassesThrough(s, "modea"), prev |-> s.defer]

\* ... the first pull of what it returned ...
InnerPull(s, inner) == IF inner.taken THEN Restore(s, TRUE) ELSE s

\* The span's row was logged at once: whatever its wrapper adds comes too late.
Early(ended, s, c) ==
  IF ended.rows[c] > s.rows[c] THEN [ended EXCEPT !.early = @ \union {c}] ELSE ended

\* ... and its last: the span ends (spanned), the Mode-A stream wrapper restores
\* the flag and flushes whatever the flag says; after an error it logs a failure
\* row and does not flush.
InnerEnd(s, c, inner, how, spanned) ==
  LET ended == IF spanned THEN Early(SpanEnd(s, c, inner.order), s, c) ELSE s
      back  == Restore(ended, inner.prev)
  IN  IF ~inner.taken THEN ended
      ELSE IF how = "failed" THEN Row(back, c) ELSE Flush(back)

-----------------------------------------------------------------------------
(* Calls that are not streams.                                             *)

\* What the framework's wrapper does before it calls on.
LiteLLMEnter(s, c)  == Hold(NextOrder(Check(s, c, "litellm")), "litellm")
PydanticEnter(s, c) == Hold(NextOrder(Check(s, c, "pydantic")), "pydantic")
AgnoEnter(s, c)     == Hold(Check(s, c, "agno"), "agno")

\* LiteLLM: the manual wrapper holds the guard around the call and logs a row,
\* of success or of failure.
LiteLLMCall(s, c, ok, spanned) ==
  Row(Release(ProviderCall(LiteLLMEnter(s, c), c, ok, spanned), "litellm"), c)

ManualCall(s, c) == Row(NextOrder(Check(s, c, "manual")), c)

\* LangChain and LlamaIndex log the provider's span: they defer it and flush.
\* A call that raised gets a row unless an outer call defers: what is deferred,
\* and only when nothing is, a row of its own.
DeferringCall(s, c, kind, ok, spanned) ==
  LET checked == Check(s, c, kind)
      made    == ProviderCall(Hold(Restore(checked, TRUE), kind), c, ok, spanned)
      back    == Restore(Release(made, kind), s.defer)
  IN  IF ok THEN FlushUnlessDeferred(back)
      ELSE IF s.defer THEN back
      ELSE IF back.buffer # {} THEN Flush(back) ELSE Row(back, c)

PydanticCall(s, c, ok, spanned) ==
  Row(Release(ProviderCall(PydanticEnter(s, c), c, ok, spanned), "pydantic"), c)

\* Agno: the provider's wrapper does the metering, without the check.
AgnoCall(s, c, ok, spanned) ==
  Release(ProviderCall(AgnoEnter(s, c), c, ok, spanned), "agno")

\* _log_embedding_call: the row takes its order when it is logged.
EmbeddingRow(s, c) == Row(NextOrder(s), c)

\* on_end drops an embedding's span whatever the guards.
EmbeddingSpan(s, c) == SpanStart(s)

\* The framework's embedding wrapper: the provider's passes through its guard.
LcEmbed(s, c) ==
  LET held == Hold(Check(s, c, "lcEmbed"), "langchain")
  IN  EmbeddingRow(Release(EmbeddingSpan(held, c), "langchain"), c)

LiEmbed(s, c) ==
  LET held == Hold(Check(s, c, "liEmbed"), "llamaindex")
  IN  EmbeddingRow(Release(EmbeddingSpan(held, c), "llamaindex"), c)

\* The provider's own embedding wrapper, which logs by itself.
ProviderEmbedding(s, c) ==
  IF PassesThrough(s, "manual") THEN EmbeddingSpan(s, c)
  ELSE ManualCall(EmbeddingSpan(s, c), c)

Made(s, c, kind, ok, spanned) ==
  IF PassesThrough(s, kind) THEN
    CASE kind = "manual"        -> s
      [] kind \in Embeddings    -> ProviderEmbedding(s, c)
      [] OTHER                  -> ProviderCall(s, c, ok, spanned)
  ELSE
  CASE kind = "manual"     -> ManualCall(s, c)
    [] kind = "lcEmbed"    -> LcEmbed(s, c)
    [] kind = "liEmbed"    -> LiEmbed(s, c)
    [] kind = "modea"      -> ProviderCall(s, c, ok, spanned)
    [] kind = "litellm"    -> LiteLLMCall(s, c, ok, spanned)
    [] kind = "langchain"  -> DeferringCall(s, c, "langchain", ok, spanned)
    [] kind = "llamaindex" -> DeferringCall(s, c, "llamaindex", ok, spanned)
    [] kind = "pydantic"   -> PydanticCall(s, c, ok, spanned)
    [] kind = "agno"       -> AgnoCall(s, c, ok, spanned)

Live == {c \in Calls : call[c].pc \in {"open", "pulled"}}

\* The application leaves a Solo stream alone once it is open, and pulls the
\* youngest stream only; LangChain's it pulls in any order among themselves.
MayCall == \A y \in Live : call[y].kind \notin Solo
MayStep(c) == \A y \in Live \ {c} :
  /\ call[y].kind \notin Solo
  /\ c \in call[y].older => {call[c].kind, call[y].kind} \subseteq LangChain

\* The span of a request that is answered ends; of one that fails it may.
Call(c, kind, ok, spanned) ==
  /\ call[c].pc = "new" /\ kind \in Kinds \ (StreamOnly \union Managers) /\ MayCall
  /\ ok => spanned
  /\ ses' = Made(ses, c, kind, ok, spanned)
  /\ call' = [call EXCEPT
       ![c].pc = IF ok THEN "done" ELSE "failed", ![c].kind = kind, ![c].sent = TRUE,
       ![c].through = PassesThrough(ses, kind), ![c].older = Live]

-----------------------------------------------------------------------------
(* Streams: opening.                                                       *)

\* Mutant: LlamaIndex's dispatch runs without the guard, as it used to.
LiEnterUnguarded(s, c) == Restore(Check(s, c, "llamaindex"), TRUE)

LiEnter(s, c) == Hold(Restore(Check(s, c, "llamaindex"), TRUE), "llamaindex")

\* What the wrapper does before it calls the original method; the lazy streams
\* do nothing yet.
BeforeOpen(s, c, kind) ==
  CASE kind \in {"modea", "lcAsync", "agnoAsync"} -> s
    [] kind = "manual"                    -> NextOrder(Check(s, c, kind))
    [] kind = "litellm"                   -> LiteLLMEnter(s, c)
    [] kind = "pydantic"                  -> PydanticEnter(s, c)
    [] kind = "langchain"                 -> Check(s, c, kind)
    [] kind \in {"llamaindex", "liAsync"} -> LiEnter(s, c)
    [] kind = "agno"                      -> AgnoEnter(s, c)

\* Which wrappers let go of the guard until the first pull.
AfterOpen(s, kind) ==
  IF kind \in {"litellm", "llamaindex"} THEN Release(s, kind) ELSE s

\* When the request is made: on opening, on the first pull, or as the
\* framework's adapter of this provider happens to do it.
EagerChoices(kind) ==
  CASE kind \in {"modea", "manual", "litellm", "pydantic"} -> {TRUE}
    [] kind \in LangChain \union {"agno", "agnoAsync"}     -> {FALSE}
    [] kind \in {"llamaindex", "liAsync"}                  -> BOOLEAN

\* LlamaIndex does not reserve an order for its row: it reads the counter, and
\* expects the provider's span to take that number.
Open(c, kind, eager) ==
  /\ call[c].pc = "new" /\ kind \in Kinds \ (Managers \union Embeddings) /\ MayCall
  /\ eager \in EagerChoices(kind)
  /\ LET through == PassesThrough(ses, kind)
         before  == IF through THEN ses ELSE BeforeOpen(ses, c, kind)
         request == eager /\ kind # "manual"
         made    == IF request THEN DispatchState(before, c) ELSE before
     IN  /\ ses' = IF through THEN made ELSE AfterOpen(made, kind)
         /\ call' = [call EXCEPT ![c] =
              [pc |-> "open", kind |-> kind, through |-> through,
               order |-> ses.counter, prev |-> ses.defer, sent |-> eager,
               inner |-> IF request THEN DispatchInner(before) ELSE NoInner,
               kept |-> {}, older |-> Live]]

\* LlamaIndex's stream method raises before there is a stream.
FailOpen(c, spanned) ==
  /\ call[c].pc = "new" /\ "llamaindex" \in Kinds /\ MayCall
  /\ ~PassesThrough(ses, "llamaindex")
  /\ LET made == ProviderCall(LiEnter(ses, c), c, FALSE, spanned)
         back == Restore(Release(made, "llamaindex"), ses.defer)
     IN  ses' = Row(DropOrder(back, ses.counter), c)
  /\ call' = [call EXCEPT ![c].pc = "failed", ![c].kind = "llamaindex", ![c].sent = TRUE]

-----------------------------------------------------------------------------
(* Streams: the first pull, the last, an error, closing.                   *)

LcEnter(s) ==
  [s EXCEPT !.base = IF s.depth = 0 THEN s.defer ELSE @,
            !.depth = @ + 1, !.defer = TRUE]

\* The asynchronous stream is checked when its generator starts.
LcAsyncEnter(s, c) == LcEnter(Check(s, c, "lcAsync"))

AgnoLazyStart(s, c) == Hold(Check(s, c, "agnoAsync"), "agno")

\* What the generator does before the provider's first chunk.
BeforePull(s, c) ==
  CASE call[c].kind = "langchain" -> Hold(LcEnter(s), "langchain")
    [] call[c].kind = "lcAsync"   -> Hold(LcAsyncEnter(s, c), "langchain")
    [] call[c].kind \in {"litellm", "llamaindex"} -> Hold(s, call[c].kind)
    [] call[c].kind = "agnoAsync" -> AgnoLazyStart(s, c)
    [] OTHER -> s

\* LangChain's guard is held while a chunk is pulled and at no other time.
AfterPull(s, c) ==
  IF call[c].kind \in LangChain /\ "langchain" \notin ses.guards
  THEN Release(s, "langchain") ELSE s

Pull(c) ==
  /\ call[c].pc = "open" /\ MayStep(c)
  /\ LET through == call[c].through
         before  == IF through THEN ses ELSE BeforePull(ses, c)
         request == ~call[c].sent
         made    == IF request THEN DispatchState(before, c) ELSE before
         inner   == IF request THEN DispatchInner(before) ELSE call[c].inner
         pulled  == InnerPull(made, inner)
     IN  /\ ses' = IF through THEN pulled ELSE AfterPull(pulled, c)
         /\ call' = [call EXCEPT ![c].pc = "pulled", ![c].sent = TRUE,
                                 ![c].inner = inner]

\* Mutant: a stream that ends counts down twice.
LcUnwindTwice(s) == FlushUnlessDeferred(Restore([s EXCEPT !.depth = @ - 2], s.base))

LcUnwind(s) ==
  LET up == [s EXCEPT !.depth = @ - 1]
  IN  IF up.depth > 0 THEN up ELSE FlushUnlessDeferred(Restore(up, up.base))

\* Mutant: a LlamaIndex stream leaves the flag as it is.
LiFinishDefers(s, c) == Row(DropOrder(Release(s, "llamaindex"), call[c].order), c)

\* LlamaIndex's generator ends: the provider's span is dropped by its order and
\* a row made from the last chunk is logged.
LiFinish(s, c) ==
  Row(DropOrder(Restore(Release(s, "llamaindex"), call[c].prev), call[c].order), c)

\* _finalize: the row is made from the final message, which it waits for.
ManagerRow(s, c, how) == IF how = "failed" THEN s ELSE Row(s, c)

\* Mutant: the drop empties the block's window, whosever the spans are.
ManagerDropWindow(s, c) == [s EXCEPT !.buffer = @ \intersect call[c].kept]

\* _drop_deferred_spans of a manager: of what was queued since the block was
\* entered, the payloads of its order and those without usage, the errored spans.
ManagerDrop(s, c) ==
  LET dud(p) == p.order = call[c].order \/ call[p.of].pc = "failed"
  IN  [s EXCEPT !.buffer = {p \in @ : p \in call[c].kept \/ ~dud(p)}]

\* The exit restores the flag and drops.  It flushes nothing.
ManagerExit(s, c, how) ==
  ManagerDrop(Restore(ManagerRow(s, c, how), call[c].prev), c)

\* A LiteLLM or manual stream closed before its usage chunk leaves no row.
StreamRow(s, c, how) == IF how = "closed" THEN s ELSE Row(s, c)

LiteLLMEnd(s, c, how, spanned) ==
  StreamRow(Release(InnerEnd(s, c, call[c].inner, how, spanned), "litellm"), c, how)

LcEnd(s, c, how, spanned) ==
  LET end(t) == InnerEnd(t, c, call[c].inner, how, spanned)
  IN  LcUnwind(IF how = "closed" THEN end(s)
               ELSE AfterPull(end(Hold(s, "langchain")), c))

\* Leaving Pydantic AI's block logs the row first.
PydanticExit(s, c, how, spanned) ==
  Release(InnerEnd(Row(s, c), c, call[c].inner, how, spanned), "pydantic")

AgnoEnd(s, c, how, spanned) ==
  Release(InnerEnd(s, c, call[c].inner, how, spanned), "agno")

Finished(s, c, how, spanned) ==
  LET kind == call[c].kind
      ended == InnerEnd(s, c, call[c].inner, how, spanned)
  IN  IF call[c].through THEN ended ELSE
      CASE kind = "modea"                      -> ended
        [] kind = "manual"                     -> StreamRow(s, c, how)
        [] kind = "litellm"                    -> LiteLLMEnd(s, c, how, spanned)
        [] kind \in LangChain                  -> LcEnd(s, c, how, spanned)
        [] kind \in {"llamaindex", "liAsync"}  -> LiFinish(ended, c)
        [] kind = "pydantic"                   -> PydanticExit(s, c, how, spanned)
        [] kind \in {"agno", "agnoAsync"}      -> AgnoEnd(s, c, how, spanned)
        [] kind \in Managers                   -> ManagerExit(s, c, how)

\* The span of an exhausted stream ends, that of a broken one may; a closed one
\* ends too late for its wrapper, if at all.
Finish(c, how, spanned) ==
  /\ call[c].pc = "pulled" /\ MayStep(c) /\ how \in {"done", "closed", "failed"}
  /\ (how = "done" => spanned) /\ (how = "closed" => ~spanned)
  /\ ses' = Finished(ses, c, how, spanned)
  /\ call' = [call EXCEPT ![c].pc = how]

\* A stream that is never pulled: no generator starts, so none finishes.  Only
\* Agno's iterator lets go of its guard when it is collected.
Drop(c) ==
  /\ call[c].pc = "open" /\ MayStep(c) /\ call[c].kind \in Dropped
  /\ ses' = IF call[c].kind = "agno" /\ ~call[c].through THEN Release(ses, "agno") ELSE ses
  /\ call' = [call EXCEPT ![c].pc = "dropped"]

-----------------------------------------------------------------------------
(* Anthropic's stream managers.                                            *)

\* messages.stream(...) makes the manager; the synchronous one is checked here.
Build(c, kind) ==
  /\ call[c].pc = "new" /\ kind \in Kinds \intersect Managers /\ MayCall
  /\ LET through == PassesThrough(ses, kind)
     IN  /\ ses' = IF through \/ kind = "managerAsync" THEN ses ELSE Check(ses, c, kind)
         /\ call' = [call EXCEPT ![c].pc = "built", ![c].kind = kind,
                                 ![c].through = through]

Entered(s, c, kind) == IF kind = "managerAsync" THEN Check(s, c, kind) ELSE s

\* _emit_enter_failure
EnterFailed(s, c) == Row(s, c)

\* The with block is entered: the request is made, its span claimed so that no
\* row comes of it.  A request that fails has a row of its own and no exit.
Enter(c, ok) ==
  /\ call[c].pc = "built" /\ MayCall
  /\ LET kind    == call[c].kind
         through == call[c].through
         checked == IF through THEN DispatchState(ses, c) ELSE Entered(ses, c, kind)
         ordered == IF through THEN checked ELSE NextOrder(checked)
     IN  /\ ses' = IF through THEN ordered
                   ELSE IF ok THEN Restore(ordered, TRUE) ELSE EnterFailed(ordered, c)
         /\ call' = [call EXCEPT ![c].pc = IF ok THEN "pulled" ELSE "failed",
              ![c].sent = TRUE, ![c].older = Live, ![c].prev = ses.defer,
              ![c].order = IF through THEN None ELSE checked.counter,
              ![c].kept = ses.buffer,
              ![c].inner = IF through THEN DispatchInner(ses) ELSE NoInner]

-----------------------------------------------------------------------------
Next ==
  \E c \in Calls :
    \/ \E kind \in AllKinds : \/ \E ok, spanned \in BOOLEAN : Call(c, kind, ok, spanned)
                              \/ \E eager \in BOOLEAN : Open(c, kind, eager)
                              \/ Build(c, kind)
    \/ \E ok \in BOOLEAN : Enter(c, ok)
    \/ \E spanned \in BOOLEAN : FailOpen(c, spanned)
    \/ Pull(c)
    \/ \E how \in {"done", "closed", "failed"}, spanned \in BOOLEAN : Finish(c, how, spanned)
    \/ Drop(c)

Spec == Init /\ [][Next]_vars

-----------------------------------------------------------------------------
TypeOK ==
  /\ ses \in Session
  /\ call \in [Calls -> Locals]

Quiet == Live = {}

\* Every request the application causes is checked once: not twice by the
\* framework's wrapper and the provider's, and not skipped because a stream of
\* an earlier call is still open (the enforcer's pre-flight at each boundary).
CheckedOnce == \A c \in Calls : call[c].sent => ses.checks[c] = 1

Owed(c) == ses.rows[c] + Cardinality(SpansOf(ses.buffer, c))

\* Kinds whose failure row the provider's Mode-A wrapper writes.
FailByModeA == {"modea", "agno", "agnoAsync"}

\* A call that succeeded has one row, whichever layer logs it.  One that failed
\* has no more than one, or two where the Mode-A wrapper reports the failure: its
\* row and the errored span's.  Rows still deferred count: the next flush logs
\* them.  No row is logged while the wrapper that completes it is still at work.
OneRowEach ==
  /\ ses.early = {}
  /\ Quiet => \A c \in Calls :
       /\ call[c].pc = "done" => Owed(c) = 1
       /\ Owed(c) <= IF call[c].pc = "failed" /\ call[c].kind \in FailByModeA
                     THEN 2 ELSE 1

\* A span may outlive every stream in the deferred spans when its request failed
\* under a Mode-A wrapper, which does not flush then, or when its call was made
\* inside a stream whose end does not: a provider's that failed, or the block of
\* a stream manager.
MayLinger(c) ==
  \/ call[c].pc = "failed" /\ call[c].kind \in FailByModeA
  \/ \E y \in call[c].older : \/ call[y].kind = "modea" /\ call[y].pc = "failed"
                              \/ call[y].kind \in Managers

\* When no stream is open every guard is released and telemetry is not deferred
\* any more; no span waits for a flush but those above.
QuietIsClean ==
  Quiet => /\ ses.guards = {} /\ ~ses.defer /\ ses.depth = 0
           /\ \A p \in ses.buffer : MayLinger(p.of)
=============================================================================
