------------------------ MODULE FrameworkCallsProofs -------------------------
(* What holds of FrameworkCalls for any calls, of any kinds. *)
EXTENDS FrameworkCalls, FiniteSetTheorems, TLAPS

-----------------------------------------------------------------------------
(* Types.  What the helpers make of a session is a session; but for the     *)
(* LangChain streams' guard they leave the depth counter alone.             *)

Fields == [guards : SUBSET Guards, defer : BOOLEAN, depth : Int, base : BOOLEAN,
           counter : Nat, buffer : SUBSET Span, rows : [Calls -> Nat],
           early : SUBSET Calls, checks : [Calls -> Nat]]

\* A session at some depth, with finitely many deferred spans.
At(s, depth) == s \in Fields /\ IsFiniteSet(s.buffer) /\ s.depth = depth

\* The frame of a step is a session of the type.
LEMMA AtIsSession == ASSUME NEW s, NEW d \in Nat, At(s, d) PROVE s \in Session
BY DEF At, Fields, Session

\* A session of the type is at its own depth.
LEMMA SessionIsAt ==
  ASSUME NEW s \in Session, IsFiniteSet(s.buffer) PROVE At(s, s.depth)
BY DEF At, Fields, Session

\* The one-line helpers.
LEMMA HoldAt ==
  ASSUME NEW s, NEW d, At(s, d), NEW g \in Guards PROVE At(Hold(s, g), d)
BY DEF At, Fields, Hold

\* Letting go of a guard leaves a session a session.
LEMMA ReleaseAt ==
  ASSUME NEW s, NEW d, At(s, d), NEW g \in Guards PROVE At(Release(s, g), d)
BY DEF At, Fields, Release

\* So does logging a row,
LEMMA RowAt == ASSUME NEW s, NEW d, At(s, d), NEW c \in Calls PROVE At(Row(s, c), d)
BY DEF At, Fields, Row

\* reserving an order,
LEMMA NextOrderAt == ASSUME NEW s, NEW d, At(s, d) PROVE At(NextOrder(s), d)
BY DEF At, Fields, NextOrder

\* setting the deferral flag,
LEMMA RestoreAt ==
  ASSUME NEW s, NEW d, At(s, d), NEW prev \in BOOLEAN PROVE At(Restore(s, prev), d)
BY DEF At, Fields, Restore

\* checking a call,
LEMMA CheckAt ==
  ASSUME NEW s, NEW d, At(s, d), NEW c \in Calls, NEW kind PROVE At(Check(s, c, kind), d)
<1>1. CASE SkipsCheck(s, kind)
  BY <1>1 DEF Check
<1>2. CASE ~SkipsCheck(s, kind)
  BY <1>2 DEF Check, At, Fields
<1>3. QED
  BY <1>1, <1>2

\* dropping the spans of an order,
LEMMA DropOrderAt ==
  ASSUME NEW s, NEW d, At(s, d), NEW order PROVE At(DropOrder(s, order), d)
<1> DEFINE rest == {p \in s.buffer : p.order # order}
<1>1. rest \subseteq s.buffer /\ IsFiniteSet(rest)
  BY FS_Subset DEF At
<1>2. DropOrder(s, order) = [s EXCEPT !.buffer = rest]
  BY DEF DropOrder
<1> HIDE DEF rest
<1>3. QED
  BY <1>1, <1>2 DEF At, Fields

\* dropping what a manager's block queued for nothing,
LEMMA ManagerDropAt ==
  ASSUME NEW s, NEW d, At(s, d), NEW c PROVE At(ManagerDrop(s, c), d)
<1> DEFINE dud(p) == p.order = call[c].order \/ call[p.of].pc = "failed"
           rest == {p \in s.buffer : p \in call[c].kept \/ ~dud(p)}
<1>1. rest \subseteq s.buffer /\ IsFiniteSet(rest)
  BY FS_Subset DEF At
<1>2. ManagerDrop(s, c) = [s EXCEPT !.buffer = rest]
  BY DEF ManagerDrop
<1> HIDE DEF rest
<1>3. QED
  BY <1>1, <1>2 DEF At, Fields

\* The spans of a call are finitely many.
LEMMA SpansCount ==
  ASSUME NEW buffer, IsFiniteSet(buffer), NEW c
  PROVE  IsFiniteSet(SpansOf(buffer, c)) /\ Cardinality(SpansOf(buffer, c)) \in Nat
<1>1. SpansOf(buffer, c) \subseteq buffer
  BY DEF SpansOf
<1>2. QED
  BY <1>1, FS_Subset, FS_CardinalityType

\* flushing the deferred spans,
LEMMA FlushAt == ASSUME NEW s, NEW d, At(s, d) PROVE At(Flush(s), d)
<1> DEFINE rows == [c \in Calls |-> s.rows[c] + Cardinality(SpansOf(s.buffer, c))]
<1>1. s.rows \in [Calls -> Nat] /\ IsFiniteSet(s.buffer)
  BY DEF At, Fields
<1>2. rows \in [Calls -> Nat]
  BY <1>1, SpansCount
<1>3. Flush(s) = [s EXCEPT !.buffer = {}, !.rows = rows]
  BY DEF Flush
<1> HIDE DEF rows
<1>4. QED
  BY <1>2, <1>3, FS_EmptySet DEF At, Fields

\* or flushing them unless telemetry is deferred.
LEMMA FlushUnlessAt == ASSUME NEW s, NEW d, At(s, d) PROVE At(FlushUnlessDeferred(s), d)
BY FlushAt DEF FlushUnlessDeferred

\* The provider's span.
OrderOrNone == Nat \union {None}

\* A span takes an order or none.
LEMMA SpanOrderType == ASSUME NEW s, NEW d, At(s, d) PROVE SpanOrder(s) \in OrderOrNone
BY DEF SpanOrder, OrderOrNone, At, Fields

\* The start of a span keeps the type.
LEMMA SpanStartAt == ASSUME NEW s, NEW d, At(s, d) PROVE At(SpanStart(s), d)
BY NextOrderAt DEF SpanStart

\* So does its end, whether the span is dropped, deferred or logged.
LEMMA SpanEndAt ==
  ASSUME NEW s, NEW d, At(s, d), NEW c \in Calls, NEW order \in OrderOrNone
  PROVE  At(SpanEnd(s, c, order), d)
<1>1. CASE order = None \/ s.guards \intersect {"pydantic", "litellm"} # {}
  BY <1>1 DEF SpanEnd
<1>2. CASE ~(order = None \/ s.guards \intersect {"pydantic", "litellm"} # {}) /\ s.defer
  <2> DEFINE more == s.buffer \union {[of |-> c, order |-> order]}
  <2>1. [of |-> c, order |-> order] \in Span
    BY <1>2 DEF OrderOrNone, Span
  <2>2. more \in SUBSET Span /\ IsFiniteSet(more)
    BY <2>1, FS_AddElement DEF At, Fields
  <2>3. SpanEnd(s, c, order) = [s EXCEPT !.buffer = more]
    BY <1>2 DEF SpanEnd
  <2> HIDE DEF more
  <2>4. QED
    BY <2>2, <2>3 DEF At, Fields
<1>3. CASE ~(order = None \/ s.guards \intersect {"pydantic", "litellm"} # {}) /\ ~s.defer
  BY <1>3, RowAt DEF SpanEnd
<1>4. QED
  BY <1>1, <1>2, <1>3

\* The deferral flag is a Boolean.
LEMMA DeferBoolean == ASSUME NEW s, NEW d, At(s, d) PROVE s.defer \in BOOLEAN
BY DEF At, Fields

\* One request of a provider.
LEMMA ProviderCallAt ==
  ASSUME NEW s, NEW d, At(s, d), NEW c \in Calls, NEW ok \in BOOLEAN, NEW spanned \in BOOLEAN
  PROVE  At(ProviderCall(s, c, ok, spanned), d)
<1> DEFINE taken   == ~PassesThrough(s, "modea")
           checked == IF taken THEN Check(s, c, "modea") ELSE s
           order   == SpanOrder(checked)
           begun   == IF taken THEN Restore(checked, TRUE) ELSE checked
           started == SpanStart(begun)
           ended   == IF spanned THEN SpanEnd(started, c, order) ELSE started
           back    == IF taken THEN Restore(ended, s.defer) ELSE ended
<1>1. ProviderCall(s, c, ok, spanned) =
        IF ~taken THEN back ELSE IF ok THEN FlushUnlessDeferred(back) ELSE Row(back, c)
  BY DEF ProviderCall
<1>2. At(checked, d)
  BY CheckAt
<1> HIDE DEF checked
<1>3. order \in OrderOrNone /\ At(begun, d)
  BY <1>2, SpanOrderType, RestoreAt
<1> HIDE DEF order, begun
<1>4. At(started, d)
  BY <1>3, SpanStartAt
<1> HIDE DEF started
<1>5. At(ended, d)
  BY <1>3, <1>4, SpanEndAt
<1> HIDE DEF ended
<1>6. At(back, d)
  BY <1>5, RestoreAt, DeferBoolean
<1> HIDE DEF back
<1>7. QED
  BY <1>1, <1>6, FlushUnlessAt, RowAt

\* The request of a stream keeps the type,
LEMMA DispatchAt ==
  ASSUME NEW s, NEW d, At(s, d), NEW c \in Calls PROVE At(DispatchState(s, c), d)
BY CheckAt, SpanStartAt DEF DispatchState

Inner == [order : OrderOrNone, taken : BOOLEAN, prev : BOOLEAN]

\* and what it notes for the stream has one.
LEMMA DispatchType == ASSUME NEW s, NEW d, At(s, d) PROVE DispatchInner(s) \in Inner
BY SpanOrderType, DeferBoolean DEF DispatchInner, Inner

\* The first pull of a provider stream keeps the type.
LEMMA InnerPullAt ==
  ASSUME NEW s, NEW d, At(s, d), NEW inner PROVE At(InnerPull(s, inner), d)
BY RestoreAt DEF InnerPull

\* Noting an early row keeps the type.
LEMMA EarlyAt ==
  ASSUME NEW t, NEW d, At(t, d), NEW s, NEW c \in Calls PROVE At(Early(t, s, c), d)
<1>1. CASE t.rows[c] > s.rows[c]
  BY <1>1 DEF Early, At, Fields
<1>2. CASE ~(t.rows[c] > s.rows[c])
  BY <1>2 DEF Early
<1>3. QED
  BY <1>1, <1>2

\* The end of a provider stream keeps the type.
LEMMA InnerEndAt ==
  ASSUME NEW s, NEW d, At(s, d), NEW c \in Calls, NEW inner \in Inner, NEW how,
         NEW spanned \in BOOLEAN
  PROVE  At(InnerEnd(s, c, inner, how, spanned), d)
<1> DEFINE ended == IF spanned THEN Early(SpanEnd(s, c, inner.order), s, c) ELSE s
           back  == Restore(ended, inner.prev)
<1>1. InnerEnd(s, c, inner, how, spanned) =
        IF ~inner.taken THEN ended ELSE IF how = "failed" THEN Row(back, c) ELSE Flush(back)
  BY DEF InnerEnd
<1>2. inner.order \in OrderOrNone /\ inner.prev \in BOOLEAN
  BY DEF Inner
<1>3. At(ended, d)
  BY <1>2, SpanEndAt, EarlyAt
<1> HIDE DEF ended
<1>4. At(back, d)
  BY <1>2, <1>3, RestoreAt
<1> HIDE DEF back
<1>5. QED
  BY <1>1, <1>3, <1>4, RowAt, FlushAt

\* Calls that are not streams.
LEMMA GuardNames ==
  /\ "langchain" \in Guards /\ "litellm" \in Guards /\ "llamaindex" \in Guards
  /\ "pydantic" \in Guards /\ "agno" \in Guards
BY DEF Guards

\* What the wrappers do before they call on keeps the type.
LEMMA EnterAt ==
  ASSUME NEW s, NEW d, At(s, d), NEW c \in Calls
  PROVE  At(LiteLLMEnter(s, c), d) /\ At(PydanticEnter(s, c), d) /\ At(AgnoEnter(s, c), d)
BY CheckAt, NextOrderAt, HoldAt, GuardNames DEF LiteLLMEnter, PydanticEnter, AgnoEnter

\* A LiteLLM call keeps the type.
LEMMA LiteLLMCallAt ==
  ASSUME NEW s, NEW d, At(s, d), NEW c \in Calls, NEW ok \in BOOLEAN, NEW spanned \in BOOLEAN
  PROVE  At(LiteLLMCall(s, c, ok, spanned), d)
BY EnterAt, ProviderCallAt, ReleaseAt, RowAt, GuardNames DEF LiteLLMCall

\* A Pydantic AI call keeps the type.
LEMMA PydanticCallAt ==
  ASSUME NEW s, NEW d, At(s, d), NEW c \in Calls, NEW ok \in BOOLEAN, NEW spanned \in BOOLEAN
  PROVE  At(PydanticCall(s, c, ok, spanned), d)
BY EnterAt, ProviderCallAt, ReleaseAt, RowAt, GuardNames DEF PydanticCall

\* An Agno call keeps the type.
LEMMA AgnoCallAt ==
  ASSUME NEW s, NEW d, At(s, d), NEW c \in Calls, NEW ok \in BOOLEAN, NEW spanned \in BOOLEAN
  PROVE  At(AgnoCall(s, c, ok, spanned), d)
BY EnterAt, ProviderCallAt, ReleaseAt, GuardNames DEF AgnoCall

\* A call metered by hand keeps the type.
LEMMA ManualCallAt ==
  ASSUME NEW s, NEW d, At(s, d), NEW c \in Calls PROVE At(ManualCall(s, c), d)
BY CheckAt, NextOrderAt, RowAt DEF ManualCall

\* A LangChain or LlamaIndex call keeps the type.
LEMMA DeferringCallAt ==
  ASSUME NEW s, NEW d, At(s, d), NEW c \in Calls, NEW ok \in BOOLEAN, NEW spanned \in BOOLEAN,
         NEW kind \in Guards
  PROVE  At(DeferringCall(s, c, kind, ok, spanned), d)
<1> DEFINE checked == Check(s, c, kind)
           held == Hold(Restore(checked, TRUE), kind)
           made == ProviderCall(held, c, ok, spanned)
           back == Restore(Release(made, kind), s.defer)
<1>1. DeferringCall(s, c, kind, ok, spanned) =
        IF ok THEN FlushUnlessDeferred(back)
        ELSE IF s.defer THEN back
        ELSE IF back.buffer # {} THEN Flush(back) ELSE Row(back, c)
  BY DEF DeferringCall
<1>2. At(held, d)
  BY CheckAt, RestoreAt, HoldAt
<1> HIDE DEF held
<1>3. At(made, d)
  BY <1>2, ProviderCallAt
<1> HIDE DEF made
<1>4. At(back, d)
  BY <1>3, ReleaseAt, RestoreAt, DeferBoolean
<1> HIDE DEF back
<1>5. QED
  BY <1>1, <1>4, FlushUnlessAt, FlushAt, RowAt

\* An embedding keeps the type.
LEMMA EmbeddingsAt ==
  ASSUME NEW s, NEW d, At(s, d), NEW c \in Calls
  PROVE  At(LcEmbed(s, c), d) /\ At(LiEmbed(s, c), d) /\ At(ProviderEmbedding(s, c), d)
<1>1. \A t : At(t, d) => At(EmbeddingSpan(t, c), d) /\ At(EmbeddingRow(t, c), d)
  BY SpanStartAt, NextOrderAt, RowAt DEF EmbeddingSpan, EmbeddingRow
<1>2. At(LcEmbed(s, c), d)
  BY <1>1, CheckAt, HoldAt, ReleaseAt, GuardNames DEF LcEmbed
<1>3. At(LiEmbed(s, c), d)
  BY <1>1, CheckAt, HoldAt, ReleaseAt, GuardNames DEF LiEmbed
<1>4. At(ProviderEmbedding(s, c), d)
  BY <1>1, ManualCallAt DEF ProviderEmbedding
<1>5. QED
  BY <1>2, <1>3, <1>4

\* A call of any kind keeps the type.
LEMMA MadeAt ==
  ASSUME NEW s, NEW d, At(s, d), NEW c \in Calls, NEW ok \in BOOLEAN, NEW spanned \in BOOLEAN,
         NEW kind \in AllKinds \ (StreamOnly \union Managers)
  PROVE  At(Made(s, c, kind, ok, spanned), d)
<1>1. CASE PassesThrough(s, kind)
  <2>1. Made(s, c, kind, ok, spanned) \in
          {s, ProviderEmbedding(s, c), ProviderCall(s, c, ok, spanned)}
    BY <1>1 DEF Made, Embeddings
  <2>2. QED
    BY <2>1, EmbeddingsAt, ProviderCallAt
<1>2. CASE ~PassesThrough(s, kind)
  <2>1. kind \in {"modea", "manual", "litellm", "langchain", "llamaindex", "pydantic", "agno",
                  "lcEmbed", "liEmbed"}
    BY DEF AllKinds, StreamOnly, Managers, Embeddings
  <2>2. Made(s, c, kind, ok, spanned) \in
          {ManualCall(s, c), LcEmbed(s, c), LiEmbed(s, c), ProviderCall(s, c, ok, spanned),
           LiteLLMCall(s, c, ok, spanned), DeferringCall(s, c, "langchain", ok, spanned),
           DeferringCall(s, c, "llamaindex", ok, spanned), PydanticCall(s, c, ok, spanned),
           AgnoCall(s, c, ok, spanned)}
    BY <1>2, <2>1 DEF Made
  <2>3. QED
    BY <2>2, ManualCallAt, EmbeddingsAt, ProviderCallAt, LiteLLMCallAt, DeferringCallAt,
       PydanticCallAt, AgnoCallAt, GuardNames
<1>3. QED
  BY <1>1, <1>2

\* Streams.
LEMMA BeforeOpenAt ==
  ASSUME NEW s, NEW d, At(s, d), NEW c \in Calls,
         NEW kind \in AllKinds \ (Managers \union Embeddings)
  PROVE  At(BeforeOpen(s, c, kind), d)
<1>1. kind \in {"modea", "manual", "litellm", "langchain", "llamaindex", "pydantic", "agno",
                "liAsync", "lcAsync", "agnoAsync"}
  BY DEF AllKinds, StreamOnly, Managers, Embeddings
<1>2. At(LiEnter(s, c), d) /\ At(NextOrder(Check(s, c, kind)), d)
  BY CheckAt, RestoreAt, HoldAt, NextOrderAt, GuardNames DEF LiEnter
<1>3. BeforeOpen(s, c, kind) \in
        {s, NextOrder(Check(s, c, kind)), LiteLLMEnter(s, c), PydanticEnter(s, c),
         Check(s, c, kind), LiEnter(s, c), AgnoEnter(s, c)}
  BY <1>1 DEF BeforeOpen
<1>4. QED
  BY <1>2, <1>3, EnterAt, CheckAt

\* Letting go of the guard once a stream is open keeps the type.
LEMMA AfterOpenAt ==
  ASSUME NEW s, NEW d, At(s, d), NEW kind PROVE At(AfterOpen(s, kind), d)
BY ReleaseAt, GuardNames DEF AfterOpen

\* Entering LangChain's guard counts up, and at the first stream notes the flag.
LEMMA LcEnterAt == ASSUME NEW s, NEW d \in Int, At(s, d) PROVE At(LcEnter(s), d + 1)
<1> DEFINE base == IF s.depth = 0 THEN s.defer ELSE s.base
<1>1. base \in BOOLEAN
  BY DEF At, Fields
<1> DEFINE noted   == [s EXCEPT !.base = base]
           counted == [noted EXCEPT !.depth = s.depth + 1]
<1>2. LcEnter(s) = Restore(counted, TRUE)
  BY DEF LcEnter, Restore
<1> HIDE DEF base
<1>3. At(noted, d)
  BY <1>1 DEF At, Fields
<1>4. s.depth + 1 = d + 1 /\ d + 1 \in Int
  BY DEF At
<1> HIDE DEF noted
<1>5. At(counted, d + 1)
  BY <1>3, <1>4 DEF At, Fields
<1> HIDE DEF counted
<1>6. QED
  BY <1>2, <1>5, RestoreAt

\* A LangChain stream that ends counts the depth down.
LEMMA LcUnwindAt == ASSUME NEW s, NEW d \in Int, At(s, d) PROVE At(LcUnwind(s), d - 1)
<1> DEFINE up == [s EXCEPT !.depth = @ - 1]
<1>1. LcUnwind(s) = IF up.depth > 0 THEN up ELSE FlushUnlessDeferred(Restore(up, up.base))
  BY DEF LcUnwind
<1>2. At(up, d - 1) /\ up.base \in BOOLEAN
  BY DEF At, Fields
<1> HIDE DEF up
<1>3. QED
  BY <1>1, <1>2, RestoreAt, FlushUnlessAt

\* How a stream's first pull moves the counter: LangChain's counts.
Counted(c) == IF call[c].kind \in LangChain THEN 1 ELSE 0

\* What a generator does first counts the depth up for LangChain only.
LEMMA BeforePullAt ==
  ASSUME NEW s, NEW d \in Int, At(s, d), NEW c \in Calls
  PROVE  At(BeforePull(s, c), d + Counted(c))
<1>1. CASE call[c].kind = "langchain"
  <2>1. Counted(c) = 1 /\ BeforePull(s, c) = Hold(LcEnter(s), "langchain")
    BY <1>1 DEF Counted, LangChain, BeforePull
  <2>2. QED
    BY <2>1, LcEnterAt, HoldAt, GuardNames
<1>2. CASE call[c].kind = "lcAsync"
  <2>1. Counted(c) = 1 /\ BeforePull(s, c) = Hold(LcAsyncEnter(s, c), "langchain")
    BY <1>2 DEF Counted, LangChain, BeforePull
  <2>2. At(LcAsyncEnter(s, c), d + 1)
    BY CheckAt, LcEnterAt DEF LcAsyncEnter
  <2>3. QED
    BY <2>1, <2>2, HoldAt, GuardNames
<1>3. CASE call[c].kind \notin LangChain
  <2>1. Counted(c) = 0 /\ d + 0 = d
    BY <1>3 DEF Counted
  <2>2. At(AgnoLazyStart(s, c), d)
    BY CheckAt, HoldAt, GuardNames DEF AgnoLazyStart
  <2>3. BeforePull(s, c) \in {s, Hold(s, "litellm"), Hold(s, "llamaindex"), AgnoLazyStart(s, c)}
    BY <1>3 DEF BeforePull, LangChain
  <2>4. At(BeforePull(s, c), d)
    BY <2>2, <2>3, HoldAt, GuardNames
  <2>5. QED
    BY <2>1, <2>4
<1>4. QED
  BY <1>1, <1>2, <1>3 DEF LangChain

\* What follows a pull keeps the type and the depth.
LEMMA AfterPullAt ==
  ASSUME NEW s, NEW d, At(s, d), NEW c \in Calls PROVE At(AfterPull(s, c), d)
BY ReleaseAt, GuardNames DEF AfterPull

\* The end of a stream counts the depth down for LangChain only.
LEMMA FinishedAt ==
  ASSUME NEW s, NEW d \in Int, At(s, d), NEW c \in Calls, call[c].inner \in Inner,
         call[c].prev \in BOOLEAN, NEW how, NEW spanned \in BOOLEAN,
         NEW taken, taken = ~call[c].through,
         call[c].kind \in AllKinds \ Embeddings
  PROVE  At(Finished(s, c, how, spanned), IF taken THEN d - Counted(c) ELSE d)
<1> DEFINE kind == call[c].kind
           inner == call[c].inner
           ended == InnerEnd(s, c, inner, how, spanned)
<1>1. At(ended, d)
  BY InnerEndAt
<1>2. \A t : At(t, d) => At(StreamRow(t, c, how), d)
  BY RowAt DEF StreamRow
<1>3. At(LiteLLMEnd(s, c, how, spanned), d)
  BY <1>1, <1>2, ReleaseAt, GuardNames DEF LiteLLMEnd
<1>4. At(LcEnd(s, c, how, spanned), d - 1)
  <2> DEFINE held == Hold(s, "langchain")
  <2>1. At(held, d)
    BY HoldAt, GuardNames
  <2> HIDE DEF held
  <2>2. At(AfterPull(InnerEnd(held, c, inner, how, spanned), c), d)
    BY <2>1, InnerEndAt, AfterPullAt
  <2>3. LcEnd(s, c, how, spanned) = LcUnwind(IF how = "closed" THEN ended
                                    ELSE AfterPull(InnerEnd(held, c, inner, how, spanned), c))
    BY DEF LcEnd, held
  <2>4. QED
    BY <1>1, <2>2, <2>3, LcUnwindAt
<1>5. At(LiFinish(ended, c), d)
  BY <1>1, ReleaseAt, RestoreAt, DropOrderAt, RowAt, GuardNames DEF LiFinish
<1>6. At(PydanticExit(s, c, how, spanned), d)
  BY RowAt, InnerEndAt, ReleaseAt, GuardNames DEF PydanticExit
<1>7. At(AgnoEnd(s, c, how, spanned), d)
  BY <1>1, ReleaseAt, GuardNames DEF AgnoEnd
<1>8. At(ManagerExit(s, c, how), d)
  BY RowAt, RestoreAt, ManagerDropAt DEF ManagerExit, ManagerRow
<1>9. CASE call[c].through
  BY <1>1, <1>9 DEF Finished
<1>10. CASE ~call[c].through
  <2>0. kind \in {"modea", "manual", "litellm", "llamaindex", "liAsync", "pydantic", "agno",
                  "agnoAsync"} \union Managers \union LangChain
    BY DEF AllKinds, StreamOnly, Embeddings, LangChain
  <2>1. CASE kind \in LangChain
    <3>1. Counted(c) = 1 /\ Finished(s, c, how, spanned) = LcEnd(s, c, how, spanned)
      BY <1>10, <2>1 DEF Counted, LangChain, Finished, Managers
    <3>2. QED
      BY <1>4, <1>10, <3>1
  <2>2. CASE kind \notin LangChain
    <3>1. Counted(c) = 0 /\ d - 0 = d
      BY <2>2 DEF Counted
    <3>2. Finished(s, c, how, spanned) \in
            {ended, StreamRow(s, c, how), LiteLLMEnd(s, c, how, spanned), LiFinish(ended, c),
             PydanticExit(s, c, how, spanned), AgnoEnd(s, c, how, spanned), ManagerExit(s, c, how)}
      BY <1>10, <2>0, <2>2 DEF Finished, Managers, LangChain
    <3>3. QED
      BY <1>1, <1>2, <1>3, <1>5, <1>6, <1>7, <1>8, <1>10, <3>1, <3>2
  <2>3. QED
    BY <2>1, <2>2
<1>11. QED
  BY <1>9, <1>10

\* What the locals of a call say of its kind.
Fits(m) ==
  /\ m.pc = "new" => m.kind = None /\ ~m.through /\ ~m.sent /\ m.older = {}
  /\ m.pc = "built" => m.kind \in Managers /\ ~m.sent /\ m.older = {}
  /\ m.pc = "open" => m.kind \in AllKinds \ (Managers \union Embeddings)
  /\ m.pc = "pulled" => m.kind \in AllKinds \ Embeddings

\* The LangChain streams being pulled; the counter counts them.
LcPulled == {c \in Calls : call[c].pc = "pulled" /\ call[c].kind \in LangChain /\ ~call[c].through}
DepthCounts == ses.depth = Cardinality(LcPulled)

TInv ==
  /\ TypeOK /\ IsFiniteSet(ses.buffer)
  /\ \A c \in Calls : Fits(call[c])
  /\ DepthCounts

\* The LangChain streams being pulled are finitely many.
LEMMA LcPulledFinite == IsFiniteSet(LcPulled) /\ Cardinality(LcPulled) \in Nat
<1>1. LcPulled \subseteq Calls
  BY DEF LcPulled
<1>2. QED
  BY <1>1, FrameworkAssumption, FS_Subset, FS_CardinalityType

\* A step of one call, from the session it makes and its own locals.
LEMMA TypedStep ==
  ASSUME TInv, NEW c \in Calls, NEW m, call' = [call EXCEPT ![c] = m], m \in Locals, Fits(m),
         NEW d \in Int, At(ses', d), NEW now \in BOOLEAN,
         now <=> (m.pc = "pulled" /\ m.kind \in LangChain /\ ~m.through),
         d = IF now = (c \in LcPulled) THEN ses.depth
             ELSE IF now THEN ses.depth + 1 ELSE ses.depth - 1
  PROVE  TInv'
<1>1. /\ call \in [Calls -> Locals] /\ \A x \in Calls : Fits(call[x])
      /\ ses.depth = Cardinality(LcPulled)
  BY DEF TInv, TypeOK, DepthCounts
<1>2. call' \in [Calls -> Locals] /\ call'[c] = m /\ \A x \in Calls : x # c => call'[x] = call[x]
  BY <1>1
<1>3. \A x \in Calls : Fits(call'[x])
  BY <1>1, <1>2
<1>4. LcPulled' = IF now THEN LcPulled \union {c} ELSE LcPulled \ {c}
  BY <1>2 DEF LcPulled
<1>5. Cardinality(LcPulled') = d
  <2>1. CASE now /\ c \notin LcPulled
    BY <1>1, <1>4, <2>1, LcPulledFinite, FS_AddElement
  <2>2. CASE ~now /\ c \in LcPulled
    <3>1. Cardinality(LcPulled \ {c}) = Cardinality(LcPulled) - 1
      BY <2>2, LcPulledFinite, FS_RemoveElement
    <3>2. QED
      BY <1>1, <1>4, <2>2, <3>1, LcPulledFinite
  <2>3. CASE now = (c \in LcPulled)
    <3>1. LcPulled' = LcPulled
      BY <1>4, <2>3
    <3>2. QED
      BY <1>1, <2>3, <3>1, LcPulledFinite
  <2>4. QED
    BY <2>1, <2>2, <2>3
<1>6. d \in Nat
  <2>1. IsFiniteSet(LcPulled')
    BY <1>4, LcPulledFinite, FS_AddElement, FS_RemoveElement
  <2>2. QED
    BY <1>5, <2>1, FS_CardinalityType
<1>7. ses' \in Session /\ IsFiniteSet(ses'.buffer) /\ ses'.depth = d
  BY <1>6, AtIsSession DEF At
<1>8. QED
  BY <1>2, <1>3, <1>5, <1>7 DEF TInv, TypeOK, DepthCounts

\* The same for a step that leaves the depth counter alone.
LEMMA TypedAside ==
  ASSUME TInv, NEW c \in Calls, NEW m, call' = [call EXCEPT ![c] = m], m \in Locals, Fits(m),
         At(ses', ses.depth), ses.depth \in Int, c \notin LcPulled,
         ~(m.pc = "pulled" /\ m.kind \in LangChain)
  PROVE  TInv'
<1>1. FALSE <=> (m.pc = "pulled" /\ m.kind \in LangChain /\ ~m.through)
  OBVIOUS
<1>2. ses.depth = IF FALSE = (c \in LcPulled) THEN ses.depth
                  ELSE IF FALSE THEN ses.depth + 1 ELSE ses.depth - 1
  OBVIOUS
<1>3. QED
  BY <1>1, <1>2, TypedStep

\* What the types say of the session and of a call.
LEMMA TypedNow ==
  ASSUME TInv, NEW c \in Calls
  PROVE  /\ At(ses, ses.depth) /\ ses.depth \in Int /\ ses.defer \in BOOLEAN /\ ses.counter \in Nat
         /\ call \in [Calls -> Locals] /\ call[c] \in Locals /\ Fits(call[c])
         /\ call[c].inner \in Inner /\ call[c].prev \in BOOLEAN /\ call[c].through \in BOOLEAN
         /\ call[c].sent \in BOOLEAN /\ call[c].order \in OrderOrNone
         /\ call[c].older \in SUBSET Calls /\ call[c].kind \in AllKinds \union {None}
<1>1. ses \in Session /\ IsFiniteSet(ses.buffer) /\ call \in [Calls -> Locals] /\ Fits(call[c])
  BY DEF TInv, TypeOK
<1>2. ses.depth \in Int /\ ses.defer \in BOOLEAN /\ ses.counter \in Nat
  BY <1>1 DEF Session
<1>3. At(ses, ses.depth)
  BY <1>1, SessionIsAt
<1>4. call[c] \in Locals
  BY <1>1
<1>5. QED
  BY <1>1, <1>2, <1>3, <1>4 DEF Locals, Inner, OrderOrNone

\* Locals as a record of typed fields.
LEMMA LocalsOf ==
  ASSUME NEW pc \in {"new", "built", "open", "pulled", "done", "closed", "failed", "dropped"},
         NEW kind \in AllKinds \union {None}, NEW through \in BOOLEAN,
         NEW order \in OrderOrNone, NEW prev \in BOOLEAN, NEW sent \in BOOLEAN,
         NEW inner \in Inner, NEW older \in SUBSET Calls,
         NEW m, m = [pc |-> pc, kind |-> kind, through |-> through, order |-> order,
                     prev |-> prev, sent |-> sent, inner |-> inner, kept |-> {},
                     older |-> older]
  PROVE  m \in Locals
BY DEF Locals, Inner, OrderOrNone

\* Open streams are calls.
LEMMA LiveType == Live \in SUBSET Calls
BY DEF Live

\* Whether a wrapper passes a call through is a Boolean.
LEMMA PassesBoolean == ASSUME NEW s, NEW kind PROVE PassesThrough(s, kind) \in BOOLEAN
BY DEF PassesThrough

\* A call that is no stream keeps the invariant.
LEMMA CallTyped ==
  ASSUME TInv, NEW c \in Calls, NEW kind \in AllKinds, NEW ok \in BOOLEAN, NEW spanned \in BOOLEAN,
               Call(c, kind, ok, spanned)
  PROVE  TInv'
<1>1. /\ At(ses, ses.depth) /\ ses.depth \in Int /\ call \in [Calls -> Locals] /\ call[c] \in Locals
      /\ call[c].pc = "new" /\ kind \in AllKinds \ (StreamOnly \union Managers)
      /\ ses' = Made(ses, c, kind, ok, spanned)
  BY TypedNow DEF Call
<1> DEFINE over == IF ok THEN "done" ELSE "failed"
           m == [call[c] EXCEPT !.pc = over, !.kind = kind, !.sent = TRUE,
                                !.through = PassesThrough(ses, kind), !.older = Live]
<1>2. call' = [call EXCEPT ![c] = m]
  BY <1>1 DEF Call
<1>3. over \in {"done", "failed"}
  OBVIOUS
<1> HIDE DEF over
<1>4. m \in Locals /\ m.pc = over
  BY <1>1, <1>3, LiveType, PassesBoolean DEF Locals
<1> HIDE DEF m
<1>5. Fits(m)
  BY <1>3, <1>4 DEF Fits
<1>6. At(ses', ses.depth)
  BY <1>1, MadeAt
<1>7. c \notin LcPulled
  BY <1>1 DEF LcPulled
<1>8. QED
  BY <1>1, <1>2, <1>3, <1>4, <1>5, <1>6, <1>7, TypedAside

\* A LlamaIndex stream that cannot be opened keeps it.
LEMMA FailOpenTyped == ASSUME TInv, NEW c \in Calls, NEW spanned \in BOOLEAN,
                                    FailOpen(c, spanned) PROVE TInv'
<1>1. /\ At(ses, ses.depth) /\ ses.depth \in Int /\ call \in [Calls -> Locals] /\ call[c] \in Locals
      /\ call[c].pc = "new" /\ ses.defer \in BOOLEAN
  BY TypedNow DEF FailOpen
<1> DEFINE m == [call[c] EXCEPT !.pc = "failed", !.kind = "llamaindex", !.sent = TRUE]
<1>2. call' = [call EXCEPT ![c] = m]
  BY <1>1 DEF FailOpen
<1>3. m \in Locals /\ m.pc = "failed"
  BY <1>1 DEF Locals, AllKinds
<1> HIDE DEF m
<1>4. Fits(m)
  BY <1>3 DEF Fits
<1> DEFINE made == ProviderCall(LiEnter(ses, c), c, FALSE, spanned)
           back == Restore(Release(made, "llamaindex"), ses.defer)
<1>5. ses' = Row(DropOrder(back, ses.counter), c)
  BY DEF FailOpen
<1>6. At(made, ses.depth)
  BY <1>1, CheckAt, RestoreAt, HoldAt, ProviderCallAt, GuardNames DEF LiEnter
<1> HIDE DEF made
<1>7. At(ses', ses.depth)
  BY <1>1, <1>5, <1>6, ReleaseAt, RestoreAt, DropOrderAt, RowAt, GuardNames
<1>8. c \notin LcPulled
  BY <1>1 DEF LcPulled
<1>9. QED
  BY <1>1, <1>2, <1>3, <1>4, <1>7, <1>8, TypedAside

\* Opening a stream keeps it.
LEMMA OpenTyped ==
  ASSUME TInv, NEW c \in Calls, NEW kind \in AllKinds, NEW eager \in BOOLEAN,
         Open(c, kind, eager)
  PROVE  TInv'
<1>1. /\ At(ses, ses.depth) /\ ses.depth \in Int /\ call \in [Calls -> Locals] /\ call[c] \in Locals
      /\ call[c].pc = "new" /\ kind \in AllKinds \ (Managers \union Embeddings)
      /\ ses.counter \in Nat /\ ses.defer \in BOOLEAN
  BY TypedNow DEF Open
<1> DEFINE through == PassesThrough(ses, kind)
           before  == IF through THEN ses ELSE BeforeOpen(ses, c, kind)
           request == eager /\ kind # "manual"
           made    == IF request THEN DispatchState(before, c) ELSE before
           inner   == IF request THEN DispatchInner(before) ELSE NoInner
           m == [pc |-> "open", kind |-> kind, through |-> through, order |-> ses.counter,
                 prev |-> ses.defer, sent |-> eager, inner |-> inner, kept |-> {}, older |-> Live]
<1>2. call' = [call EXCEPT ![c] = m] /\ ses' = IF through THEN made ELSE AfterOpen(made, kind)
  BY DEF Open
<1>3. At(before, ses.depth)
  BY <1>1, BeforeOpenAt
<1> HIDE DEF before
<1>4. inner \in Inner
  BY <1>3, DispatchType DEF NoInner, Inner, OrderOrNone
<1>5. At(made, ses.depth)
  BY <1>3, DispatchAt
<1> HIDE DEF made, inner
<1>6. At(ses', ses.depth)
  BY <1>2, <1>5, AfterOpenAt
<1>7. through \in BOOLEAN
  BY PassesBoolean
<1> HIDE DEF through
<1>8. m \in Locals
  <2>1. ses.counter \in OrderOrNone /\ kind \in AllKinds \union {None} /\ Live \in SUBSET Calls
    BY <1>1, LiveType DEF OrderOrNone
  <2>2. QED
    BY <1>1, <1>4, <1>7, <2>1, LocalsOf
<1>9. m.pc = "open" /\ m.kind = kind
  OBVIOUS
<1> HIDE DEF m
<1>10. Fits(m)
  BY <1>1, <1>9 DEF Fits
<1>11. c \notin LcPulled
  BY <1>1 DEF LcPulled
<1>12. QED
  BY <1>1, <1>2, <1>6, <1>8, <1>9, <1>10, <1>11, TypedAside

\* The first pull keeps it: the counter follows LangChain's streams.
LEMMA PullTyped == ASSUME TInv, NEW c \in Calls, Pull(c) PROVE TInv'
<1>1. /\ At(ses, ses.depth) /\ ses.depth \in Int /\ call \in [Calls -> Locals] /\ call[c] \in Locals
      /\ call[c].pc = "open" /\ call[c].inner \in Inner /\ Fits(call[c])
      /\ call[c].through \in BOOLEAN
  BY TypedNow DEF Pull
<1> DEFINE through == call[c].through
           before  == IF through THEN ses ELSE BeforePull(ses, c)
           request == ~call[c].sent
           made    == IF request THEN DispatchState(before, c) ELSE before
           inner   == IF request THEN DispatchInner(before) ELSE call[c].inner
           pulled  == InnerPull(made, inner)
           now     == ~through /\ call[c].kind \in LangChain
           d       == IF now THEN ses.depth + 1 ELSE ses.depth
           m == [call[c] EXCEPT !.pc = "pulled", !.sent = TRUE, !.inner = inner]
<1>2. call' = [call EXCEPT ![c] = m] /\ ses' = IF through THEN pulled ELSE AfterPull(pulled, c)
  BY <1>1 DEF Pull
<1>3. At(before, d) /\ d \in Int
  <2>1. CASE through
    BY <1>1, <2>1
  <2>2. CASE ~through
    <3>1. d = ses.depth + Counted(c)
      BY <1>1, <2>2 DEF Counted
    <3>2. At(BeforePull(ses, c), d)
      BY <1>1, <3>1, BeforePullAt
    <3>3. QED
      BY <1>1, <2>2, <3>2
  <2>3. QED
    BY <2>1, <2>2
<1> HIDE DEF before
<1>4. inner \in Inner
  BY <1>1, <1>3, DispatchType
<1>5. At(made, d)
  BY <1>3, DispatchAt
<1> HIDE DEF made, inner
<1>6. At(ses', d)
  BY <1>2, <1>5, InnerPullAt, AfterPullAt
<1>7. m \in Locals /\ m.pc = "pulled" /\ m.kind = call[c].kind /\ m.through = through
  BY <1>1, <1>4 DEF Locals, Inner, OrderOrNone
<1> HIDE DEF m
<1>8. Fits(m)
  BY <1>1, <1>7 DEF Fits
<1>9. c \notin LcPulled
  BY <1>1 DEF LcPulled
<1>10. d = IF now = (c \in LcPulled) THEN ses.depth
           ELSE IF now THEN ses.depth + 1 ELSE ses.depth - 1
  BY <1>1, <1>9
<1>11. now \in BOOLEAN /\ (now <=> m.pc = "pulled" /\ m.kind \in LangChain /\ ~m.through)
  BY <1>7
<1> HIDE DEF now, d
<1>12. QED
  BY <1>2, <1>3, <1>6, <1>7, <1>8, <1>10, <1>11, TypedStep

\* The end of a stream keeps it.
LEMMA FinishTyped ==
  ASSUME TInv, NEW c \in Calls, NEW how \in {"done", "closed", "failed"}, NEW spanned \in BOOLEAN,
               Finish(c, how, spanned)
  PROVE  TInv'
<1>1. /\ At(ses, ses.depth) /\ ses.depth \in Int /\ call \in [Calls -> Locals] /\ call[c] \in Locals
      /\ call[c].pc = "pulled" /\ call[c].inner \in Inner /\ call[c].prev \in BOOLEAN
      /\ call[c].kind \in AllKinds \ Embeddings /\ call[c].through \in BOOLEAN
      /\ ses' = Finished(ses, c, how, spanned)
  BY TypedNow DEF Finish, Fits
<1> DEFINE m == [call[c] EXCEPT !.pc = how]
           taken == ~call[c].through
           d == IF taken THEN ses.depth - Counted(c) ELSE ses.depth
<1>2. call' = [call EXCEPT ![c] = m]
  BY <1>1 DEF Finish
<1>3. m \in Locals /\ m.pc = how
  BY <1>1 DEF Locals
<1> HIDE DEF m
<1>4. Fits(m)
  BY <1>3 DEF Fits
<1>5. At(ses', d)
  BY <1>1, FinishedAt
<1>6. c \in LcPulled <=> taken /\ call[c].kind \in LangChain
  BY <1>1 DEF LcPulled
<1>7. d \in Int /\ d = IF FALSE = (c \in LcPulled) THEN ses.depth
                       ELSE IF FALSE THEN ses.depth + 1 ELSE ses.depth - 1
  BY <1>1, <1>6 DEF Counted
<1>8. FALSE <=> m.pc = "pulled" /\ m.kind \in LangChain /\ ~m.through
  BY <1>3
<1> HIDE DEF d
<1>9. QED
  BY <1>2, <1>3, <1>4, <1>5, <1>7, <1>8, TypedStep

\* Dropping a stream keeps it.
LEMMA DropTyped == ASSUME TInv, NEW c \in Calls, Drop(c) PROVE TInv'
<1>1. /\ At(ses, ses.depth) /\ ses.depth \in Int /\ call \in [Calls -> Locals] /\ call[c] \in Locals
      /\ call[c].pc = "open"
  BY TypedNow DEF Drop
<1> DEFINE m == [call[c] EXCEPT !.pc = "dropped"]
<1>2. call' = [call EXCEPT ![c] = m]
  BY <1>1 DEF Drop
<1>3. m \in Locals /\ m.pc = "dropped"
  BY <1>1 DEF Locals
<1> HIDE DEF m
<1>4. Fits(m)
  BY <1>3 DEF Fits
<1>5. At(ses', ses.depth)
  BY <1>1, ReleaseAt, GuardNames DEF Drop
<1>6. c \notin LcPulled
  BY <1>1 DEF LcPulled
<1>7. QED
  BY <1>1, <1>2, <1>3, <1>4, <1>5, <1>6, TypedAside

\* Making a manager keeps it.
LEMMA BuildTyped ==
  ASSUME TInv, NEW c \in Calls, NEW kind \in AllKinds, Build(c, kind) PROVE TInv'
<1>1. /\ At(ses, ses.depth) /\ ses.depth \in Int /\ call \in [Calls -> Locals] /\ call[c] \in Locals
      /\ call[c].pc = "new" /\ kind \in Managers /\ Fits(call[c])
  BY TypedNow DEF Build
<1> DEFINE m == [call[c] EXCEPT !.pc = "built", !.kind = kind, !.through = PassesThrough(ses, kind)]
<1>2. call' = [call EXCEPT ![c] = m]
  BY <1>1 DEF Build
<1>3. /\ m \in Locals /\ m.pc = "built" /\ m.kind = kind
      /\ m.sent = call[c].sent /\ m.older = call[c].older
  BY <1>1, PassesBoolean DEF Locals
<1> HIDE DEF m
<1>4. Fits(m)
  BY <1>1, <1>3 DEF Fits
<1>5. At(ses', ses.depth)
  BY <1>1, CheckAt DEF Build
<1>6. c \notin LcPulled
  BY <1>1 DEF LcPulled
<1>7. QED
  BY <1>1, <1>2, <1>3, <1>4, <1>5, <1>6, TypedAside

\* Entering a manager's block keeps it.
LEMMA EnterTyped ==
  ASSUME TInv, NEW c \in Calls, NEW ok \in BOOLEAN, Enter(c, ok) PROVE TInv'
<1>1. /\ At(ses, ses.depth) /\ ses.depth \in Int /\ call \in [Calls -> Locals] /\ call[c] \in Locals
      /\ call[c].pc = "built" /\ call[c].kind \in Managers /\ call[c].through \in BOOLEAN
      /\ ses.defer \in BOOLEAN /\ ses.buffer \in SUBSET Span
  BY TypedNow DEF Enter, Fits, At, Fields
<1> DEFINE kind    == call[c].kind
           through == call[c].through
           checked == IF through THEN DispatchState(ses, c) ELSE Entered(ses, c, kind)
           ordered == IF through THEN checked ELSE NextOrder(checked)
           pc      == IF ok THEN "pulled" ELSE "failed"
           order   == IF through THEN None ELSE checked.counter
           inner   == IF through THEN DispatchInner(ses) ELSE NoInner
           m == [call[c] EXCEPT !.pc = pc, !.sent = TRUE, !.older = Live, !.prev = ses.defer,
                                !.order = order, !.kept = ses.buffer, !.inner = inner]
<1>2. /\ call' = [call EXCEPT ![c] = m]
      /\ ses' = IF through THEN ordered
                ELSE IF ok THEN Restore(ordered, TRUE) ELSE EnterFailed(ordered, c)
  BY <1>1 DEF Enter
<1>3. At(checked, ses.depth)
  BY <1>1, DispatchAt, CheckAt DEF Entered
<1>4. order \in OrderOrNone /\ inner \in Inner /\ pc \in {"pulled", "failed"}
  <2>1. order \in OrderOrNone
    BY <1>3 DEF OrderOrNone, At, Fields
  <2>2. inner \in Inner
    BY <1>1, DispatchType DEF NoInner, Inner, OrderOrNone
  <2>3. QED
    BY <2>1, <2>2
<1> HIDE DEF checked
<1>5. At(ordered, ses.depth)
  BY <1>3, NextOrderAt
<1> HIDE DEF ordered, order, inner, pc
<1>6. At(ses', ses.depth)
  BY <1>2, <1>5, RestoreAt, RowAt DEF EnterFailed
<1>7. m \in Locals /\ m.pc = pc /\ m.kind = kind
  BY <1>1, <1>4, LiveType DEF Locals, Inner, OrderOrNone
<1> HIDE DEF m
<1>8. kind \in AllKinds \ Embeddings /\ kind \notin LangChain
  BY <1>1 DEF Managers, AllKinds, Embeddings, LangChain
<1>9. Fits(m)
  BY <1>4, <1>7, <1>8 DEF Fits
<1>10. c \notin LcPulled
  BY <1>1 DEF LcPulled
<1>11. ~(m.pc = "pulled" /\ m.kind \in LangChain)
  BY <1>7, <1>8
<1>12. QED
  BY <1>1, <1>2, <1>6, <1>7, <1>9, <1>10, <1>11, TypedAside

\* It holds at the start.
LEMMA InitTyped == Init => TInv
<1> SUFFICES ASSUME Init PROVE TInv
  OBVIOUS
<1>1. ses \in Session /\ ses.depth = 0 /\ ses.buffer = {}
  BY DEF Init, Session
<1>2. \A c \in Calls : call[c] \in Locals /\ Fits(call[c]) /\ call[c].pc = "new"
  BY DEF Init, Locals, NoInner, Fits
<1>3. LcPulled = {}
  BY <1>2 DEF LcPulled
<1>4. call \in [Calls -> Locals]
  BY <1>2 DEF Init
<1>5. QED
  BY <1>1, <1>2, <1>3, <1>4, FS_EmptySet DEF TInv, TypeOK, DepthCounts

\* Every step keeps it.
LEMMA StepTyped == TInv /\ [Next]_vars => TInv'
<1> SUFFICES ASSUME TInv, [Next]_vars PROVE TInv'
  OBVIOUS
<1>1. ASSUME NEW c \in Calls, NEW kind \in AllKinds, NEW ok \in BOOLEAN, NEW spanned \in BOOLEAN,
             Call(c, kind, ok, spanned)
      PROVE  TInv'
  BY <1>1, CallTyped
<1>2. ASSUME NEW c \in Calls, NEW kind \in AllKinds, NEW eager \in BOOLEAN, Open(c, kind, eager)
      PROVE  TInv'
  BY <1>2, OpenTyped
<1>3. CASE UNCHANGED vars
  BY <1>3 DEF vars, TInv, TypeOK, DepthCounts, LcPulled
<1>4. QED
  BY <1>1, <1>2, <1>3, BuildTyped, EnterTyped, FailOpenTyped, PullTyped, FinishTyped, DropTyped
     DEF Next

\* The session and the wrappers' locals stay of their types, whatever streams
\* the application interleaves; the depth counter counts the LangChain streams
\* being pulled, so no guard that exits finds it at zero.
THEOREM FrameworksTypeCorrect == Spec => []TypeOK
<1>1. Spec => []TInv
  BY InitTyped, StepTyped, PTL DEF Spec
<1>2. TInv => TypeOK
  BY DEF TInv
<1>3. QED
  BY <1>1, <1>2, PTL

-----------------------------------------------------------------------------
(* What each action does to the session when no guard is set, or only that  *)
(* of the stream it is about.  A session is written by its fields.          *)

Of(g, d, n, b, k, q, r, e, h) ==
  [guards |-> g, defer |-> d, depth |-> n, base |-> b, counter |-> k,
   buffer |-> q, rows |-> r, early |-> e, checks |-> h]

Only(x) == {x}
Yes == TRUE
No  == FALSE
Succ(k) == k + 1
Plus(f, c) == [f EXCEPT ![c] = @ + 1]

\* The rows once the buffer is flushed.
Counts(r, q) == [c \in Calls |-> r[c] + Cardinality(SpansOf(q, c))]

\* A session is the record of its fields.
LEMMA SessionOf ==
  ASSUME NEW s \in Session
  PROVE  s = Of(s.guards, s.defer, s.depth, s.base, s.counter, s.buffer, s.rows, s.early, s.checks)
BY DEF Session, Of

\* The fields of such a record.
LEMMA FieldsOf ==
  ASSUME NEW g, NEW d, NEW n, NEW b, NEW k, NEW q, NEW r, NEW e, NEW h,
         NEW t, t = Of(g, d, n, b, k, q, r, e, h)
  PROVE  /\ t.guards = g /\ t.defer = d /\ t.depth = n /\ t.base = b /\ t.counter = k
         /\ t.buffer = q /\ t.rows = r /\ t.early = e /\ t.checks = h
BY DEF Of

\* What each helper makes of it: the guard is held,
LEMMA HoldOf ==
  ASSUME NEW g, NEW d, NEW n, NEW b, NEW k, NEW q, NEW r, NEW e, NEW h, NEW x
  PROVE  Hold(Of(g, d, n, b, k, q, r, e, h), x) = Of(g \union {x}, d, n, b, k, q, r, e, h)
BY DEF Of, Hold

\* let go of,
LEMMA ReleaseOf ==
  ASSUME NEW g, NEW d, NEW n, NEW b, NEW k, NEW q, NEW r, NEW e, NEW h, NEW x
  PROVE  Release(Of(g, d, n, b, k, q, r, e, h), x) = Of(g \ {x}, d, n, b, k, q, r, e, h)
BY DEF Of, Release

\* a row is logged,
LEMMA RowOf ==
  ASSUME NEW g, NEW d, NEW n, NEW b, NEW k, NEW q, NEW r, NEW e, NEW h, NEW c
  PROVE  Row(Of(g, d, n, b, k, q, r, e, h), c) = Of(g, d, n, b, k, q, Plus(r, c), e, h)
BY DEF Of, Row, Plus

\* an order is taken,
LEMMA NextOrderOf ==
  ASSUME NEW g, NEW d, NEW n, NEW b, NEW k, NEW q, NEW r, NEW e, NEW h
  PROVE  NextOrder(Of(g, d, n, b, k, q, r, e, h)) = Of(g, d, n, b, Succ(k), q, r, e, h)
BY DEF Of, NextOrder, Succ

\* the flag is set,
LEMMA RestoreOf ==
  ASSUME NEW g, NEW d, NEW n, NEW b, NEW k, NEW q, NEW r, NEW e, NEW h, NEW prev
  PROVE  Restore(Of(g, d, n, b, k, q, r, e, h), prev) = Of(g, prev, n, b, k, q, r, e, h)
BY DEF Of, Restore

\* the call is checked unless an Agno run checked for it,
LEMMA CheckOf ==
  ASSUME NEW g, NEW d, NEW n, NEW b, NEW k, NEW q, NEW r, NEW e, NEW h, NEW c, NEW kind
  PROVE  Check(Of(g, d, n, b, k, q, r, e, h), c, kind) =
           IF kind \in CheckedByAgno /\ "agno" \in g THEN Of(g, d, n, b, k, q, r, e, h)
           ELSE Of(g, d, n, b, k, q, r, e, Plus(h, c))
BY DEF Of, Check, SkipsCheck, Plus

\* the deferred spans become rows,
LEMMA FlushOf ==
  ASSUME NEW g, NEW d, NEW n, NEW b, NEW k, NEW q, NEW r, NEW e, NEW h
  PROVE  Flush(Of(g, d, n, b, k, q, r, e, h)) = Of(g, d, n, b, k, {}, Counts(r, q), e, h)
<1> DEFINE s == Of(g, d, n, b, k, q, r, e, h)
<1>1. s.rows = r /\ s.buffer = q
  BY DEF Of
<1>2. Flush(s) = [s EXCEPT !.buffer = {}, !.rows = Counts(s.rows, s.buffer)]
  BY DEF Flush, Counts
<1>3. \A x : [s EXCEPT !.buffer = x] = Of(g, d, n, b, k, x, r, e, h)
  BY DEF Of
<1>4. \A x, m : [Of(g, d, n, b, k, x, r, e, h) EXCEPT !.rows = m] = Of(g, d, n, b, k, x, m, e, h)
  BY DEF Of
<1> HIDE DEF s
<1>5. QED
  BY <1>1, <1>2, <1>3, <1>4 DEF s

\* unless telemetry is deferred.
LEMMA FlushUnlessOf ==
  ASSUME NEW g, NEW n, NEW b, NEW k, NEW q, NEW r, NEW e, NEW h
  PROVE  /\ FlushUnlessDeferred(Of(g, Yes, n, b, k, q, r, e, h)) = Of(g, Yes, n, b, k, q, r, e, h)
         /\ FlushUnlessDeferred(Of(g, No, n, b, k, q, r, e, h)) =
              Of(g, No, n, b, k, {}, Counts(r, q), e, h)
<1> DEFINE s(d) == Of(g, d, n, b, k, q, r, e, h)
<1>1. FlushUnlessDeferred(s(Yes)) = s(Yes)
  BY DEF FlushUnlessDeferred, Of, Yes
<1>2. FlushUnlessDeferred(s(No)) = Flush(s(No))
  BY DEF FlushUnlessDeferred, Of, No
<1>3. QED
  BY <1>1, <1>2, FlushOf

\* A span that starts takes an order unless Pydantic AI's guard is set,
LEMMA SpanStartOf ==
  ASSUME NEW g, NEW d, NEW n, NEW b, NEW k, NEW q, NEW r, NEW e, NEW h
  PROVE  SpanStart(Of(g, d, n, b, k, q, r, e, h)) =
           IF "pydantic" \in g THEN Of(g, d, n, b, k, q, r, e, h)
           ELSE Of(g, d, n, b, Succ(k), q, r, e, h)
BY NextOrderOf DEF SpanStart, Of

\* which is the counter's value.
LEMMA SpanOrderOf ==
  ASSUME NEW g, NEW d, NEW n, NEW b, NEW k, NEW q, NEW r, NEW e, NEW h
  PROVE  SpanOrder(Of(g, d, n, b, k, q, r, e, h)) = IF "pydantic" \in g THEN None ELSE k
BY DEF SpanOrder, Of

SpanAt(c, order) == [of |-> c, order |-> order]
With(q, c, order) == q \union {SpanAt(c, order)}

\* A span that ends is dropped, deferred or logged.
LEMMA SpanDropped ==
  ASSUME NEW g, NEW d, NEW n, NEW b, NEW k, NEW q, NEW r, NEW e, NEW h, NEW c, NEW order,
         order = None \/ g \intersect {"pydantic", "litellm"} # {}
  PROVE  SpanEnd(Of(g, d, n, b, k, q, r, e, h), c, order) = Of(g, d, n, b, k, q, r, e, h)
BY DEF SpanEnd, Of

\* or kept until the next flush.
LEMMA SpanDeferred ==
  ASSUME NEW g, NEW n, NEW b, NEW k, NEW q, NEW r, NEW e, NEW h, NEW c, NEW order,
         order # None, "pydantic" \notin g, "litellm" \notin g
  PROVE  SpanEnd(Of(g, Yes, n, b, k, q, r, e, h), c, order) =
           Of(g, Yes, n, b, k, With(q, c, order), r, e, h)
<1> DEFINE s == Of(g, Yes, n, b, k, q, r, e, h)
<1>1. s.guards = g /\ s.defer = Yes /\ s.buffer = q /\ g \intersect {"pydantic", "litellm"} = {}
  BY DEF Of
<1>2. \A x : [s EXCEPT !.buffer = x] = Of(g, Yes, n, b, k, x, r, e, h)
  BY DEF Of
<1> HIDE DEF s
<1>3. SpanEnd(s, c, order) = [s EXCEPT !.buffer = s.buffer \union {SpanAt(c, order)}]
  BY <1>1 DEF SpanEnd, SpanAt, Yes
<1>4. SpanEnd(s, c, order) = [s EXCEPT !.buffer = With(q, c, order)]
  BY <1>1, <1>3 DEF With
<1>5. QED
  BY <1>2, <1>4 DEF s

\* The spans of an order are dropped.
LEMMA DropOrderOf ==
  ASSUME NEW g, NEW d, NEW n, NEW b, NEW k, NEW q, NEW r, NEW e, NEW h, NEW order
  PROVE  DropOrder(Of(g, d, n, b, k, q, r, e, h), order) =
           Of(g, d, n, b, k, {p \in q : p.order # order}, r, e, h)
<1> DEFINE s == Of(g, d, n, b, k, q, r, e, h)
           rest == {p \in s.buffer : p.order # order}
<1>1. s.buffer = q /\ \A x : [s EXCEPT !.buffer = x] = Of(g, d, n, b, k, x, r, e, h)
  BY DEF Of
<1>2. DropOrder(s, order) = [s EXCEPT !.buffer = rest]
  BY DEF DropOrder
<1>3. rest = {p \in q : p.order # order}
  BY <1>1
<1> HIDE DEF s, rest
<1>4. DropOrder(s, order) = Of(g, d, n, b, k, rest, r, e, h)
  BY <1>1, <1>2
<1>5. QED
  BY <1>3, <1>4 DEF s

\* A call passes through when a guard its wrapper yields to is set.
LEMMA PassesOf ==
  ASSUME NEW g, NEW d, NEW n, NEW b, NEW k, NEW q, NEW r, NEW e, NEW h, NEW kind
  PROVE  PassesThrough(Of(g, d, n, b, k, q, r, e, h), kind) <=> g \intersect Yields(kind) # {}
BY DEF Of, PassesThrough

\* The guards under which each kind passes its call through.
LEMMA YieldsOf ==
  /\ \A kind \in CheckedByAgno : Yields(kind) = Guards \ {"agno"}
  /\ \A kind \in LangChain \union {"lcEmbed"} : Yields(kind) = Guards \ {"llamaindex"}
  /\ \A kind \in {"llamaindex", "liAsync"} : Yields(kind) = {"llamaindex", "pydantic", "agno"}
  /\ \A kind \in {"pydantic", "agno", "agnoAsync", "liEmbed"} : Yields(kind) = Guards
BY DEF Yields, CheckedByAgno, Managers, LangChain

\* One guard, taken and let go.
LEMMA OnlyIs ==
  /\ \A x : x \in Only(x) /\ {} \union {x} = Only(x) /\ Only(x) \ {x} = {} /\ Only(x) # {}
  /\ \A x, y : y \in Only(x) => y = x
BY DEF Only

\* Who passes a provider's call through: every guard but Agno's.
LEMMA ModeaYields ==
  /\ {} \intersect Yields("modea") = {} /\ Only("agno") \intersect Yields("modea") = {}
  /\ \A g \in {"langchain", "litellm", "llamaindex", "pydantic"} :
       Only(g) \intersect Yields("modea") # {}
  /\ Yields("modea") = Guards \ {"agno"}
<1>1. Yields("modea") = Guards \ {"agno"}
  BY YieldsOf DEF CheckedByAgno
<1>2. \A g \in {"langchain", "litellm", "llamaindex", "pydantic"} :
        g \in Only(g) \intersect Yields("modea")
  BY <1>1 DEF Guards, Only
<1>3. QED
  BY <1>1, <1>2 DEF Only

\* The deferred spans once a span has ended, or not.
Ended(q, c, order, spanned) == IF spanned = Yes THEN With(q, c, order) ELSE q

\* Either way it is one of two.
LEMMA EndedIs ==
  ASSUME NEW q, NEW c, NEW k, NEW spanned, spanned \in {Yes, No}
  PROVE  /\ spanned = Yes => Ended(q, c, k, spanned) = With(q, c, k)
         /\ spanned = No => Ended(q, c, k, spanned) = q
BY DEF Ended, Yes, No

\* The span of a request ends, or does not.
SpanOver(s, c, order, spanned) == IF spanned THEN SpanEnd(s, c, order) ELSE s

\* One that ends while telemetry is deferred is kept.
LEMMA SpanKept ==
  ASSUME NEW g, NEW n, NEW b, NEW k, NEW q, NEW r, NEW e, NEW h, NEW c, NEW order,
         order # None, "pydantic" \notin g, "litellm" \notin g,
         NEW spanned, spanned \in {Yes, No}
  PROVE  SpanOver(Of(g, Yes, n, b, k, q, r, e, h), c, order, spanned) =
           Of(g, Yes, n, b, k, Ended(q, c, order, spanned), r, e, h)
<1> DEFINE s == Of(g, Yes, n, b, k, q, r, e, h)
<1>1. SpanEnd(s, c, order) = Of(g, Yes, n, b, k, With(q, c, order), r, e, h)
  BY SpanDeferred
<1>2. CASE spanned = Yes
  <2>1. Ended(q, c, order, spanned) = With(q, c, order)
    BY <1>2, EndedIs
  <2>2. SpanOver(s, c, order, spanned) = SpanEnd(s, c, order)
    BY <1>2 DEF SpanOver, Yes
  <2>3. QED
    BY <1>1, <2>1, <2>2
<1>3. CASE spanned = No
  <2>1. Ended(q, c, order, spanned) = q
    BY <1>3, EndedIs
  <2>2. SpanOver(s, c, order, spanned) = s
    BY <1>3 DEF SpanOver, No
  <2>3. QED
    BY <2>1, <2>2
<1>4. QED
  BY <1>2, <1>3

\* A provider's call under the guard of a framework that logs it by itself, and
\* under one that defers its span.
LEMMA ProviderGuarded ==
  ASSUME NEW x, x \in {"langchain", "llamaindex"}, NEW n, NEW b, NEW k, k # None,
         NEW q, NEW r, NEW e, NEW h, NEW c, NEW ok, NEW spanned, spanned \in {Yes, No}
  PROVE  ProviderCall(Of(Only(x), Yes, n, b, k, q, r, e, h), c, ok, spanned) =
           Of(Only(x), Yes, n, b, Succ(k), Ended(q, c, k, spanned), r, e, h)
<1> DEFINE s == Of(Only(x), Yes, n, b, k, q, r, e, h)
<1>1. PassesThrough(s, "modea")
  <2>1. x \in {"langchain", "litellm", "llamaindex", "pydantic"}
    OBVIOUS
  <2>2. Only(x) \intersect Yields("modea") # {}
    BY <2>1, ModeaYields
  <2>3. QED
    BY <2>2, PassesOf
<1>2. ProviderCall(s, c, ok, spanned) = SpanOver(SpanStart(s), c, SpanOrder(s), spanned)
  BY <1>1 DEF ProviderCall, SpanOver
<1>3. "pydantic" \notin Only(x) /\ "litellm" \notin Only(x)
  BY DEF Only
<1>4. SpanStart(s) = Of(Only(x), Yes, n, b, Succ(k), q, r, e, h) /\ SpanOrder(s) = k
  BY <1>3, SpanStartOf, SpanOrderOf
<1> HIDE DEF s
<1>5. SpanOver(SpanStart(s), c, k, spanned) =
        Of(Only(x), Yes, n, b, Succ(k), Ended(q, c, k, spanned), r, e, h)
  BY <1>3, <1>4, SpanKept
<1>6. QED
  BY <1>2, <1>4, <1>5 DEF s

\* Under LiteLLM's or Pydantic AI's guard no span is kept.
LEMMA ProviderDropped ==
  ASSUME NEW d, NEW n, NEW b, NEW k, NEW q, NEW r, NEW e, NEW h, NEW c,
         NEW ok, NEW spanned
  PROVE  /\ ProviderCall(Of(Only("litellm"), d, n, b, k, q, r, e, h), c, ok, spanned) =
              Of(Only("litellm"), d, n, b, Succ(k), q, r, e, h)
         /\ ProviderCall(Of(Only("pydantic"), d, n, b, k, q, r, e, h), c, ok, spanned) =
              Of(Only("pydantic"), d, n, b, k, q, r, e, h)
<1> DEFINE s(x) == Of(Only(x), d, n, b, k, q, r, e, h)
           t(x) == IF x = "pydantic" THEN s(x) ELSE Of(Only(x), d, n, b, Succ(k), q, r, e, h)
<1> SUFFICES ASSUME NEW x \in {"litellm", "pydantic"} PROVE ProviderCall(s(x), c, ok, spanned) = t(x)
  OBVIOUS
<1>1. PassesThrough(s(x), "modea")
  BY PassesOf, ModeaYields
<1>2. ProviderCall(s(x), c, ok, spanned) \in
        {SpanEnd(SpanStart(s(x)), c, SpanOrder(s(x))), SpanStart(s(x))}
  BY <1>1 DEF ProviderCall
<1>3. Only(x) \intersect {"pydantic", "litellm"} # {} /\ ("pydantic" \in Only(x) <=> x = "pydantic")
  BY DEF Only
<1>4. SpanStart(s(x)) = t(x)
  BY <1>3, SpanStartOf
<1>5. \A order : SpanEnd(t(x), c, order) = t(x)
  BY <1>3, SpanDropped
<1> HIDE DEF s, t
<1>6. QED
  BY <1>2, <1>4, <1>5

\* Nobody passes the provider's call through; but Agno has checked already.
OpenTo(g) == g = {} \/ g = Only("agno")
Checked(g, h, c) == IF g = {} THEN Plus(h, c) ELSE h

\* A provider's call under no guard, or under Agno's, which skips the check.
LEMMA ProviderTaken ==
  ASSUME NEW g, OpenTo(g), NEW d, NEW n, NEW b, NEW k, k # None, NEW q, NEW r, NEW e, NEW h,
         NEW c, NEW ok, ok \in {Yes, No}, NEW spanned, spanned \in {Yes, No},
         NEW back,
         back = Of(g, d, n, b, Succ(k), Ended(q, c, k, spanned), r, e, Checked(g, h, c))
  PROVE  ProviderCall(Of(g, d, n, b, k, q, r, e, h), c, ok, spanned) =
           IF ok = Yes THEN FlushUnlessDeferred(back) ELSE Row(back, c)
<1> DEFINE s       == Of(g, d, n, b, k, q, r, e, h)
           m       == Checked(g, h, c)
           checked == Check(s, c, "modea")
           started == SpanStart(Restore(checked, Yes))
           ended   == SpanOver(started, c, SpanOrder(checked), spanned)
           last    == Restore(ended, s.defer)
<1>1. ~PassesThrough(s, "modea") /\ s.defer = d
  BY PassesOf, ModeaYields DEF Of, OpenTo
<1>2. ProviderCall(s, c, ok, spanned) = IF ok = Yes THEN FlushUnlessDeferred(last) ELSE Row(last, c)
  BY <1>1 DEF ProviderCall, SpanOver, Yes, No
<1>3. checked = Of(g, d, n, b, k, q, r, e, m)
  BY CheckOf, OnlyIs DEF CheckedByAgno, Checked, OpenTo
<1> HIDE DEF checked, m
<1>4. "pydantic" \notin g /\ "litellm" \notin g
  BY DEF Only, OpenTo
<1>5. started = Of(g, Yes, n, b, Succ(k), q, r, e, m) /\ SpanOrder(checked) = k
  <2>1. Restore(checked, Yes) = Of(g, Yes, n, b, k, q, r, e, m)
    BY <1>3, RestoreOf
  <2>2. SpanStart(Of(g, Yes, n, b, k, q, r, e, m)) = Of(g, Yes, n, b, Succ(k), q, r, e, m)
    BY <1>4, SpanStartOf
  <2>3. SpanOrder(checked) = k
    BY <1>3, <1>4, SpanOrderOf
  <2>4. QED
    BY <2>1, <2>2, <2>3
<1> HIDE DEF started
<1>6. ended = Of(g, Yes, n, b, Succ(k), Ended(q, c, k, spanned), r, e, m)
  BY <1>4, <1>5, SpanKept
<1> HIDE DEF ended
<1>7. last = back
  BY <1>1, <1>6, RestoreOf DEF m
<1>8. QED
  BY <1>2, <1>7

\* A request that failed has a row of its own,
LEMMA TakenFails ==
  ASSUME NEW g, OpenTo(g), NEW d, NEW n, NEW b, NEW k, k # None, NEW q, NEW r, NEW e, NEW h,
         NEW c, NEW spanned, spanned \in {Yes, No}
  PROVE  ProviderCall(Of(g, d, n, b, k, q, r, e, h), c, No, spanned) =
           Of(g, d, n, b, Succ(k), Ended(q, c, k, spanned), Plus(r, c), e, Checked(g, h, c))
<1> DEFINE q2   == Ended(q, c, k, spanned)
           back == Of(g, d, n, b, Succ(k), q2, r, e, Checked(g, h, c))
<1>1. Row(back, c) = Of(g, d, n, b, Succ(k), q2, Plus(r, c), e, Checked(g, h, c))
  BY RowOf
<1>2. No # Yes /\ No \in {Yes, No}
  BY DEF Yes, No
<1> HIDE DEF back
<1>3. ProviderCall(Of(g, d, n, b, k, q, r, e, h), c, No, spanned) =
        IF No = Yes THEN FlushUnlessDeferred(back) ELSE Row(back, c)
  BY <1>2, ProviderTaken DEF back
<1>4. QED
  BY <1>1, <1>2, <1>3

\* one that succeeded a span, deferred or flushed at once.
LEMMA TakenReturns ==
  ASSUME NEW g, OpenTo(g), NEW n, NEW b, NEW k, k # None, NEW q, NEW r, NEW e, NEW h, NEW c
  PROVE  /\ ProviderCall(Of(g, Yes, n, b, k, q, r, e, h), c, Yes, Yes) =
              Of(g, Yes, n, b, Succ(k), With(q, c, k), r, e, Checked(g, h, c))
         /\ ProviderCall(Of(g, No, n, b, k, q, r, e, h), c, Yes, Yes) =
              Of(g, No, n, b, Succ(k), {}, Counts(r, With(q, c, k)), e, Checked(g, h, c))
<1> DEFINE back(d) == Of(g, d, n, b, Succ(k), With(q, c, k), r, e, Checked(g, h, c))
<1>1. /\ FlushUnlessDeferred(back(Yes)) = back(Yes)
      /\ FlushUnlessDeferred(back(No)) =
           Of(g, No, n, b, Succ(k), {}, Counts(r, With(q, c, k)), e, Checked(g, h, c))
  BY FlushUnlessOf
<1>2. Ended(q, c, k, Yes) = With(q, c, k) /\ Yes \in {Yes, No}
  BY DEF Ended
<1>3. ASSUME NEW d
      PROVE  ProviderCall(Of(g, d, n, b, k, q, r, e, h), c, Yes, Yes) = FlushUnlessDeferred(back(d))
  <2> DEFINE f == back(d)
  <2>1. f = Of(g, d, n, b, Succ(k), Ended(q, c, k, Yes), r, e, Checked(g, h, c))
    BY <1>2
  <2> HIDE DEF f
  <2>2. ProviderCall(Of(g, d, n, b, k, q, r, e, h), c, Yes, Yes) =
          IF Yes = Yes THEN FlushUnlessDeferred(f) ELSE Row(f, c)
    BY <1>2, <2>1, ProviderTaken
  <2>3. QED
    BY <2>2 DEF f
<1>4. QED
  BY <1>1, <1>3

\* How a call that is over stands in the books: a row of its own; its span,
\* deferred, or flushed with the others; both, when a Mode-A wrapper reported its
\* failure; or, when it failed, neither, whether or not the others were flushed.
Outcome(kind, d, k, q, r, c, ok, k2, q2, r2) ==
  /\ k2 \in Nat /\ k < k2
  /\ \/ q2 = q /\ r2 = Plus(r, c)
     \/ ok = No /\ kind \in FailByModeA /\ q2 = With(q, c, k) /\ r2 = Plus(r, c)
     \/ d = Yes /\ q2 = With(q, c, k) /\ r2 = r
     \/ d = No /\ q2 = {} /\ r2 = Counts(r, With(q, c, k))
     \/ ok = No /\ d = Yes /\ q2 = q /\ r2 = r
     \/ ok = No /\ d = No /\ q2 = {} /\ r2 = Counts(r, q)

Ending(kind, t, d, n, b, k, q, r, e, h, c, ok) ==
  \E k2, q2, r2 : /\ t = Of({}, d, n, b, k2, q2, r2, e, Plus(h, c))
                  /\ Outcome(kind, d, k, q, r, c, ok, k2, q2, r2)

\* The next orders are numbers, not None.
LEMMA SuccNat ==
  ASSUME NEW k \in Nat
  PROVE  /\ Succ(k) \in Nat /\ k < Succ(k) /\ k # None /\ Succ(k) # None
         /\ Succ(Succ(k)) \in Nat /\ k < Succ(Succ(k)) /\ Succ(Succ(k)) # None
BY FrameworkAssumption DEF Succ

\* The two values of the flag.
LEMMA YesNo == Yes # No /\ Yes \in BOOLEAN /\ No \in BOOLEAN /\ Yes /\ ~No
BY DEF Yes, No

\* There are no others.
LEMMA BooleanYesNo == ASSUME NEW d \in BOOLEAN PROVE d \in {Yes, No}
BY DEF Yes, No

\* The counter may be moved on further.
LEMMA EndingBy ==
  ASSUME NEW kind, NEW t, NEW d, NEW n, NEW b, NEW k, NEW q, NEW r, NEW e, NEW h, NEW c, NEW ok,
         NEW k2, NEW q2, NEW r2, t = Of({}, d, n, b, k2, q2, r2, e, Plus(h, c)),
         Outcome(kind, d, k, q, r, c, ok, k2, q2, r2)
  PROVE  Ending(kind, t, d, n, b, k, q, r, e, h, c, ok)
BY DEF Ending

\* A provider's call that its wrapper takes comes to one of these ends.
LEMMA TakenOutcome ==
  ASSUME NEW g, OpenTo(g), NEW kind \in FailByModeA, NEW d, d \in {Yes, No}, NEW n, NEW b,
         NEW k, k \in Nat, NEW q, NEW r, NEW e, NEW h, NEW c, NEW ok, ok \in {Yes, No},
         NEW spanned, spanned \in {Yes, No}, ok = Yes => spanned = Yes
  PROVE  \E q2, r2 : /\ ProviderCall(Of(g, d, n, b, k, q, r, e, h), c, ok, spanned) =
                          Of(g, d, n, b, Succ(k), q2, r2, e, Checked(g, h, c))
                     /\ Outcome(kind, d, k, q, r, c, ok, Succ(k), q2, r2)
<1> DEFINE s == Of(g, d, n, b, k, q, r, e, h)
           h2 == Checked(g, h, c)
<1>1. k # None
  BY SuccNat
<1>2. CASE ok = No
  <2> DEFINE q2 == Ended(q, c, k, spanned)
  <2>1. ProviderCall(s, c, ok, spanned) = Of(g, d, n, b, Succ(k), q2, Plus(r, c), e, h2)
    BY <1>1, <1>2, TakenFails
  <2>2. q2 = q \/ q2 = With(q, c, k)
    BY EndedIs
  <2> HIDE DEF q2, s, h2
  <2>3. Outcome(kind, d, k, q, r, c, ok, Succ(k), q2, Plus(r, c))
    BY <1>2, <2>2, SuccNat DEF Outcome
  <2>4. QED
    BY <2>1, <2>3 DEF s, h2
<1>3. CASE ok = Yes /\ d = Yes
  <2>1. ProviderCall(s, c, ok, spanned) = Of(g, d, n, b, Succ(k), With(q, c, k), r, e, h2)
    BY <1>1, <1>3, TakenReturns
  <2>2. Outcome(kind, d, k, q, r, c, ok, Succ(k), With(q, c, k), r)
    BY <1>3, SuccNat DEF Outcome
  <2> HIDE DEF s, h2
  <2>3. QED
    BY <2>1, <2>2 DEF s, h2
<1>4. CASE ok = Yes /\ d = No
  <2>1. ProviderCall(s, c, ok, spanned) =
          Of(g, d, n, b, Succ(k), {}, Counts(r, With(q, c, k)), e, h2)
    BY <1>1, <1>4, TakenReturns
  <2>2. Outcome(kind, d, k, q, r, c, ok, Succ(k), {}, Counts(r, With(q, c, k)))
    BY <1>4, SuccNat DEF Outcome
  <2> HIDE DEF s, h2
  <2>3. QED
    BY <2>1, <2>2 DEF s, h2
<1>5. QED
  BY <1>2, <1>3, <1>4

\* So does a provider's own call.
LEMMA ModeaEnds ==
  ASSUME NEW d, d \in {Yes, No}, NEW n, NEW b, NEW k, k \in Nat, NEW q, NEW r, NEW e, NEW h,
         NEW c, NEW ok, ok \in {Yes, No}, NEW spanned, spanned \in {Yes, No},
         ok = Yes => spanned = Yes
  PROVE  Ending("modea", ProviderCall(Of({}, d, n, b, k, q, r, e, h), c, ok, spanned),
                d, n, b, k, q, r, e, h, c, ok)
<1> DEFINE s == Of({}, d, n, b, k, q, r, e, h)
<1>1. Checked({}, h, c) = Plus(h, c) /\ OpenTo({}) /\ "modea" \in FailByModeA
  BY DEF Checked, OpenTo, FailByModeA
<1>2. PICK q2, r2 : /\ ProviderCall(s, c, ok, spanned) =
                         Of({}, d, n, b, Succ(k), q2, r2, e, Checked({}, h, c))
                    /\ Outcome("modea", d, k, q, r, c, ok, Succ(k), q2, r2)
  BY <1>1, TakenOutcome
<1> HIDE DEF s
<1>3. QED
  BY <1>1, <1>2, EndingBy DEF s

\* What LiteLLM's wrapper has done before the request.
LEMMA LiteLLMEnterOf ==
  ASSUME NEW d, NEW n, NEW b, NEW k, NEW q, NEW r, NEW e, NEW h, NEW c
  PROVE  /\ LiteLLMEnter(Of({}, d, n, b, k, q, r, e, h), c) =
              Of(Only("litellm"), d, n, b, Succ(k), q, r, e, Plus(h, c))
         /\ PydanticEnter(Of({}, d, n, b, k, q, r, e, h), c) =
              Of(Only("pydantic"), d, n, b, Succ(k), q, r, e, Plus(h, c))
         /\ AgnoEnter(Of({}, d, n, b, k, q, r, e, h), c) =
              Of(Only("agno"), d, n, b, k, q, r, e, Plus(h, c))
<1> DEFINE s == Of({}, d, n, b, k, q, r, e, h)
           t == Of({}, d, n, b, k, q, r, e, Plus(h, c))
<1>1. \A kind : Check(s, c, kind) = t
  BY CheckOf
<1>2. NextOrder(t) = Of({}, d, n, b, Succ(k), q, r, e, Plus(h, c))
  BY NextOrderOf
<1>3. \A x : {} \union {x} = Only(x)
  BY OnlyIs
<1> HIDE DEF s
<1>4. LiteLLMEnter(s, c) = Of(Only("litellm"), d, n, b, Succ(k), q, r, e, Plus(h, c))
  BY <1>1, <1>2, <1>3, HoldOf DEF LiteLLMEnter
<1>5. PydanticEnter(s, c) = Of(Only("pydantic"), d, n, b, Succ(k), q, r, e, Plus(h, c))
  BY <1>1, <1>2, <1>3, HoldOf DEF PydanticEnter
<1>6. AgnoEnter(s, c) = Of(Only("agno"), d, n, b, k, q, r, e, Plus(h, c))
  BY <1>1, <1>3, HoldOf DEF AgnoEnter
<1>7. QED
  BY <1>4, <1>5, <1>6 DEF s

\* A LiteLLM call comes to such an end: one row, its own.
LEMMA LiteLLMEnds ==
  ASSUME NEW d, d \in {Yes, No}, NEW n, NEW b, NEW k, k \in Nat, NEW q, NEW r, NEW e, NEW h,
         NEW c, NEW ok, NEW spanned, NEW kind
  PROVE  Ending(kind, LiteLLMCall(Of({}, d, n, b, k, q, r, e, h), c, ok, spanned),
                d, n, b, k, q, r, e, h, c, ok)
<1> DEFINE s == Of({}, d, n, b, k, q, r, e, h)
<1>1. ProviderCall(LiteLLMEnter(s, c), c, ok, spanned) =
        Of(Only("litellm"), d, n, b, Succ(Succ(k)), q, r, e, Plus(h, c))
  <2>1. LiteLLMEnter(s, c) = Of(Only("litellm"), d, n, b, Succ(k), q, r, e, Plus(h, c))
    BY LiteLLMEnterOf
  <2> HIDE DEF s
  <2>2. QED
    BY <2>1, ProviderDropped
<1>2. Only("litellm") \ {"litellm"} = {}
  BY OnlyIs
<1> HIDE DEF s
<1>3. LiteLLMCall(s, c, ok, spanned) = Of({}, d, n, b, Succ(Succ(k)), q, Plus(r, c), e, Plus(h, c))
  BY <1>1, <1>2, ReleaseOf, RowOf DEF LiteLLMCall
<1>4. Outcome(kind, d, k, q, r, c, ok, Succ(Succ(k)), q, Plus(r, c))
  BY SuccNat DEF Outcome
<1>5. QED
  BY <1>3, <1>4, EndingBy DEF s

\* So does a Pydantic AI call.
LEMMA PydanticEnds ==
  ASSUME NEW d, d \in {Yes, No}, NEW n, NEW b, NEW k, k \in Nat, NEW q, NEW r, NEW e, NEW h,
         NEW c, NEW ok, NEW spanned, NEW kind
  PROVE  Ending(kind, PydanticCall(Of({}, d, n, b, k, q, r, e, h), c, ok, spanned),
                d, n, b, k, q, r, e, h, c, ok)
<1> DEFINE s == Of({}, d, n, b, k, q, r, e, h)
<1>1. ProviderCall(PydanticEnter(s, c), c, ok, spanned) =
        Of(Only("pydantic"), d, n, b, Succ(k), q, r, e, Plus(h, c))
  <2>1. PydanticEnter(s, c) = Of(Only("pydantic"), d, n, b, Succ(k), q, r, e, Plus(h, c))
    BY LiteLLMEnterOf
  <2> HIDE DEF s
  <2>2. QED
    BY <2>1, ProviderDropped
<1>2. Only("pydantic") \ {"pydantic"} = {}
  BY OnlyIs
<1> HIDE DEF s
<1>3. PydanticCall(s, c, ok, spanned) = Of({}, d, n, b, Succ(k), q, Plus(r, c), e, Plus(h, c))
  BY <1>1, <1>2, ReleaseOf, RowOf DEF PydanticCall
<1>4. Outcome(kind, d, k, q, r, c, ok, Succ(k), q, Plus(r, c))
  BY SuccNat DEF Outcome
<1>5. QED
  BY <1>3, <1>4, EndingBy DEF s

\* So does an Agno call, whose provider does the metering.
LEMMA AgnoEnds ==
  ASSUME NEW d, d \in {Yes, No}, NEW n, NEW b, NEW k, k \in Nat, NEW q, NEW r, NEW e, NEW h,
         NEW c, NEW ok, ok \in {Yes, No}, NEW spanned, spanned \in {Yes, No},
         ok = Yes => spanned = Yes
  PROVE  Ending("agno", AgnoCall(Of({}, d, n, b, k, q, r, e, h), c, ok, spanned),
                d, n, b, k, q, r, e, h, c, ok)
<1> DEFINE s == Of({}, d, n, b, k, q, r, e, h)
           t == ProviderCall(AgnoEnter(s, c), c, ok, spanned)
           a == Only("agno")
<1>1. /\ a \ {"agno"} = {} /\ OpenTo(a) /\ \A m : Checked(a, m, c) = m
      /\ "agno" \in FailByModeA
  BY OnlyIs DEF OpenTo, Checked, FailByModeA
<1>2. AgnoEnter(s, c) = Of(a, d, n, b, k, q, r, e, Plus(h, c))
  BY LiteLLMEnterOf
<1> HIDE DEF a, s
<1>3. PICK q2, r2 : /\ t = Of(a, d, n, b, Succ(k), q2, r2, e, Checked(a, Plus(h, c), c))
                    /\ Outcome("agno", d, k, q, r, c, ok, Succ(k), q2, r2)
  BY <1>1, <1>2, TakenOutcome
<1>4. AgnoCall(s, c, ok, spanned) = Release(t, "agno")
  BY DEF AgnoCall
<1> HIDE DEF t
<1>5. AgnoCall(s, c, ok, spanned) = Of({}, d, n, b, Succ(k), q2, r2, e, Plus(h, c))
  BY <1>1, <1>3, <1>4, ReleaseOf
<1>6. QED
  BY <1>3, <1>5, EndingBy DEF s

\* So does a call metered by hand.
LEMMA ManualEnds ==
  ASSUME NEW d, d \in {Yes, No}, NEW n, NEW b, NEW k, k \in Nat, NEW q, NEW r, NEW e, NEW h,
         NEW c, NEW ok, NEW kind
  PROVE  /\ ManualCall(Of({}, d, n, b, k, q, r, e, h), c) =
              Of({}, d, n, b, Succ(k), q, Plus(r, c), e, Plus(h, c))
         /\ Ending(kind, ManualCall(Of({}, d, n, b, k, q, r, e, h), c), d, n, b, k, q, r, e, h, c, ok)
<1> DEFINE s == Of({}, d, n, b, k, q, r, e, h)
<1>1. Check(s, c, "manual") = Of({}, d, n, b, k, q, r, e, Plus(h, c))
  BY CheckOf
<1> HIDE DEF s
<1>2. ManualCall(s, c) = Of({}, d, n, b, Succ(k), q, Plus(r, c), e, Plus(h, c))
  BY <1>1, NextOrderOf, RowOf DEF ManualCall
<1>3. Outcome(kind, d, k, q, r, c, ok, Succ(k), q, Plus(r, c))
  BY SuccNat DEF Outcome
<1>4. QED
  BY <1>2, <1>3, EndingBy DEF s

\* So do the embeddings.
LEMMA EmbeddingsEnd ==
  ASSUME NEW d, d \in {Yes, No}, NEW n, NEW b, NEW k, k \in Nat, NEW q, NEW r, NEW e, NEW h,
         NEW c, NEW ok, NEW kind
  PROVE  /\ Ending(kind, LcEmbed(Of({}, d, n, b, k, q, r, e, h), c), d, n, b, k, q, r, e, h, c, ok)
         /\ Ending(kind, LiEmbed(Of({}, d, n, b, k, q, r, e, h), c), d, n, b, k, q, r, e, h, c, ok)
<1> DEFINE s == Of({}, d, n, b, k, q, r, e, h)
           last == Of({}, d, n, b, Succ(Succ(k)), q, Plus(r, c), e, Plus(h, c))
<1>1. \A y : Check(s, c, y) = Of({}, d, n, b, k, q, r, e, Plus(h, c))
  BY CheckOf
<1>2. ASSUME NEW x \in {"langchain", "llamaindex"}, NEW y
      PROVE  EmbeddingRow(Release(EmbeddingSpan(Hold(Check(s, c, y), x), c), x), c) = last
  <2>1. {} \union {x} = Only(x) /\ "pydantic" \notin Only(x) /\ Only(x) \ {x} = {}
    BY <1>2, OnlyIs
  <2>2. Hold(Check(s, c, y), x) = Of(Only(x), d, n, b, k, q, r, e, Plus(h, c))
    BY <1>1, <2>1, HoldOf
  <2>3. EmbeddingSpan(Hold(Check(s, c, y), x), c) = Of(Only(x), d, n, b, Succ(k), q, r, e, Plus(h, c))
    BY <2>1, <2>2, SpanStartOf DEF EmbeddingSpan
  <2>4. Release(EmbeddingSpan(Hold(Check(s, c, y), x), c), x) =
          Of({}, d, n, b, Succ(k), q, r, e, Plus(h, c))
    BY <2>1, <2>3, ReleaseOf
  <2>5. QED
    BY <2>4, NextOrderOf, RowOf DEF EmbeddingRow
<1> HIDE DEF s
<1>3. LcEmbed(s, c) = last /\ LiEmbed(s, c) = last
  BY <1>2 DEF LcEmbed, LiEmbed
<1>4. Outcome(kind, d, k, q, r, c, ok, Succ(Succ(k)), q, Plus(r, c))
  BY SuccNat DEF Outcome
<1>5. QED
  BY <1>3, <1>4, EndingBy DEF s

\* So does a LangChain or LlamaIndex call, which defers the provider's span.
LEMMA DeferringEnds ==
  ASSUME NEW d, d \in {Yes, No}, NEW n, NEW b, NEW k, k \in Nat, NEW q, NEW r, NEW e, NEW h,
         NEW c, NEW ok, ok \in {Yes, No}, NEW spanned, spanned \in {Yes, No},
         ok = Yes => spanned = Yes, NEW x \in {"langchain", "llamaindex"}, NEW kind
  PROVE  Ending(kind, DeferringCall(Of({}, d, n, b, k, q, r, e, h), c, x, ok, spanned),
                d, n, b, k, q, r, e, h, c, ok)
<1> DEFINE s == Of({}, d, n, b, k, q, r, e, h)
           held == Hold(Restore(Check(s, c, x), Yes), x)
           made == ProviderCall(held, c, ok, spanned)
           back == Restore(Release(made, x), s.defer)
           more == Ended(q, c, k, spanned)
<1>1. DeferringCall(s, c, x, ok, spanned) =
        IF ok = Yes THEN FlushUnlessDeferred(back)
        ELSE IF s.defer = Yes THEN back
        ELSE IF back.buffer # {} THEN Flush(back) ELSE Row(back, c)
  BY DEF DeferringCall, Yes, No, Of
<1>2. {} \union {x} = Only(x) /\ Only(x) \ {x} = {} /\ x \notin {"pydantic", "litellm"}
  BY OnlyIs
<1>3. held = Of(Only(x), Yes, n, b, k, q, r, e, Plus(h, c))
  <2>1. Check(s, c, x) = Of({}, d, n, b, k, q, r, e, Plus(h, c))
    BY CheckOf
  <2> HIDE DEF s
  <2>2. QED
    BY <1>2, <2>1, RestoreOf, HoldOf
<1> HIDE DEF held
<1>4. made = Of(Only(x), Yes, n, b, Succ(k), more, r, e, Plus(h, c))
  BY <1>3, SuccNat, ProviderGuarded
<1>5. s.defer = d
  BY DEF Of
<1>6. /\ more = With(q, c, k) \/ (ok = No /\ more = q)
      /\ With(q, c, k) # {}
  BY EndedIs, YesNo DEF With
<1> HIDE DEF made, more
<1>7. back = Of({}, d, n, b, Succ(k), more, r, e, Plus(h, c)) /\ back.buffer = more
  <2>1. back = Of({}, d, n, b, Succ(k), more, r, e, Plus(h, c))
    BY <1>2, <1>4, <1>5, ReleaseOf, RestoreOf
  <2>2. QED
    BY <2>1, FieldsOf
<1> HIDE DEF back, s
<1>8. CASE d = Yes
  <2>1. DeferringCall(s, c, x, ok, spanned) = Of({}, d, n, b, Succ(k), more, r, e, Plus(h, c))
    BY <1>1, <1>5, <1>7, <1>8, FlushUnlessOf
  <2>2. Outcome(kind, d, k, q, r, c, ok, Succ(k), more, r)
    BY <1>6, <1>8, SuccNat DEF Outcome
  <2>3. QED
    BY <2>1, <2>2, EndingBy DEF s
<1>9. CASE d = No /\ (ok = Yes \/ more # {})
  <2>1. DeferringCall(s, c, x, ok, spanned) =
          Of({}, d, n, b, Succ(k), {}, Counts(r, more), e, Plus(h, c))
    <3>1. Flush(back) = Of({}, d, n, b, Succ(k), {}, Counts(r, more), e, Plus(h, c))
      BY <1>7, FlushOf
    <3>2. FlushUnlessDeferred(back) = Of({}, d, n, b, Succ(k), {}, Counts(r, more), e, Plus(h, c))
      BY <1>7, <1>9, FlushUnlessOf
    <3>3. QED
      BY <1>1, <1>5, <1>7, <1>9, <3>1, <3>2, YesNo
  <2>2. Outcome(kind, d, k, q, r, c, ok, Succ(k), {}, Counts(r, more))
    BY <1>6, <1>9, SuccNat DEF Outcome
  <2>3. QED
    BY <2>1, <2>2, EndingBy DEF s
<1>10. CASE d = No /\ ok = No /\ more = {}
  <2>1. DeferringCall(s, c, x, ok, spanned) = Row(back, c)
    BY <1>1, <1>5, <1>7, <1>10, YesNo
  <2>2. Row(back, c) = Of({}, d, n, b, Succ(k), more, Plus(r, c), e, Plus(h, c))
    BY <1>7, RowOf
  <2>3. Outcome(kind, d, k, q, r, c, ok, Succ(k), more, Plus(r, c))
    BY <1>6, <1>10, SuccNat DEF Outcome
  <2>4. QED
    BY <2>1, <2>2, <2>3, EndingBy DEF s
<1>11. QED
  BY <1>8, <1>9, <1>10

\* No guard is set, so no wrapper passes a call through.
LEMMA MadeEnds ==
  ASSUME NEW d, d \in {Yes, No}, NEW n, NEW b, NEW k, k \in Nat, NEW q, NEW r, NEW e, NEW h,
         NEW c, NEW ok, ok \in {Yes, No}, NEW spanned, spanned \in {Yes, No},
         ok = Yes => spanned = Yes, NEW kind \in AllKinds \ (StreamOnly \union Managers)
  PROVE  Ending(kind, Made(Of({}, d, n, b, k, q, r, e, h), c, kind, ok, spanned),
                d, n, b, k, q, r, e, h, c, ok)
<1> DEFINE s == Of({}, d, n, b, k, q, r, e, h)
<1>1. ~PassesThrough(s, kind)
  BY PassesOf
<1> HIDE DEF s
<1>2. kind \in {"modea", "manual", "litellm", "langchain", "llamaindex", "pydantic", "agno",
                "lcEmbed", "liEmbed"}
  BY DEF AllKinds, StreamOnly, Managers, Embeddings
<1>3. Made(s, c, kind, ok, spanned) =
        IF kind = "manual" THEN ManualCall(s, c)
        ELSE IF kind = "lcEmbed" THEN LcEmbed(s, c)
        ELSE IF kind = "liEmbed" THEN LiEmbed(s, c)
        ELSE IF kind = "modea" THEN ProviderCall(s, c, ok, spanned)
        ELSE IF kind = "litellm" THEN LiteLLMCall(s, c, ok, spanned)
        ELSE IF kind \in {"langchain", "llamaindex"} THEN DeferringCall(s, c, kind, ok, spanned)
        ELSE IF kind = "pydantic" THEN PydanticCall(s, c, ok, spanned)
        ELSE AgnoCall(s, c, ok, spanned)
  BY <1>1, <1>2 DEF Made
<1> DEFINE t == Made(s, c, kind, ok, spanned)
<1>4. \/ kind = "modea" /\ t = ProviderCall(s, c, ok, spanned)
      \/ kind = "agno" /\ t = AgnoCall(s, c, ok, spanned)
      \/ kind \in {"langchain", "llamaindex"} /\ t = DeferringCall(s, c, kind, ok, spanned)
      \/ t \in {ManualCall(s, c), LcEmbed(s, c), LiEmbed(s, c),
                LiteLLMCall(s, c, ok, spanned), PydanticCall(s, c, ok, spanned)}
  BY <1>2, <1>3
<1> HIDE DEF t
<1>5. Ending(kind, t, d, n, b, k, q, r, e, h, c, ok)
  BY <1>4, ModeaEnds, LiteLLMEnds, PydanticEnds, AgnoEnds, ManualEnds, EmbeddingsEnd,
     DeferringEnds DEF s
<1>6. QED
  BY <1>5 DEF t, s

-----------------------------------------------------------------------------
(* Streams.  The request of a stream, under each guard that may be set.     *)

LiKinds   == {"llamaindex", "liAsync"}
AgnoKinds == {"agno", "agnoAsync"}

\* Kinds checked when their generator starts.
Lazy == {"lcAsync", "agnoAsync"}

In(order, taken, prev) == [order |-> order, taken |-> taken, prev |-> prev]

\* The fields of what a stream notes of its request.
LEMMA InFields ==
  ASSUME NEW order, NEW taken, NEW prev, NEW i, i = In(order, taken, prev)
  PROVE  i.order = order /\ i.taken = taken /\ i.prev = prev
BY DEF In

\* The provider's wrapper takes the request and checks it, unless in an Agno run.
LEMMA DispatchTaken ==
  ASSUME NEW g, OpenTo(g), NEW d, NEW n, NEW b, NEW k, NEW q, NEW r, NEW e, NEW h, NEW c
  PROVE  /\ DispatchState(Of(g, d, n, b, k, q, r, e, h), c) =
              Of(g, d, n, b, Succ(k), q, r, e, Checked(g, h, c))
         /\ DispatchInner(Of(g, d, n, b, k, q, r, e, h)) = In(k, Yes, d)
<1> DEFINE s == Of(g, d, n, b, k, q, r, e, h)
<1>1. ~PassesThrough(s, "modea") /\ s.defer = d
  BY PassesOf, ModeaYields DEF Of, OpenTo
<1>2. Check(s, c, "modea") = Of(g, d, n, b, k, q, r, e, Checked(g, h, c))
  BY CheckOf, OnlyIs DEF CheckedByAgno, Checked, OpenTo
<1>3. "pydantic" \notin g
  BY DEF Only, OpenTo
<1>4. SpanOrder(s) = k
  BY <1>3, SpanOrderOf
<1> HIDE DEF s
<1>5. DispatchState(s, c) = SpanStart(Check(s, c, "modea"))
  BY <1>1 DEF DispatchState
<1>6. DispatchState(s, c) = Of(g, d, n, b, Succ(k), q, r, e, Checked(g, h, c))
  BY <1>2, <1>3, <1>5, SpanStartOf
<1>7. DispatchInner(s) = In(k, Yes, d)
  BY <1>1, <1>4 DEF DispatchInner, In, Yes
<1>8. QED
  BY <1>6, <1>7 DEF s

\* Under a guard it yields to it does neither, though the span takes an order.
LEMMA DispatchPassed ==
  ASSUME NEW x \in {"langchain", "litellm", "llamaindex"}, NEW d, NEW n, NEW b, NEW k, NEW q,
         NEW r, NEW e, NEW h, NEW c
  PROVE  /\ DispatchState(Of(Only(x), d, n, b, k, q, r, e, h), c) =
              Of(Only(x), d, n, b, Succ(k), q, r, e, h)
         /\ DispatchInner(Of(Only(x), d, n, b, k, q, r, e, h)) = In(k, No, d)
<1> DEFINE s == Of(Only(x), d, n, b, k, q, r, e, h)
<1>1. PassesThrough(s, "modea") /\ s.defer = d
  BY PassesOf, ModeaYields DEF Of
<1>2. "pydantic" \notin Only(x)
  BY DEF Only
<1>3. SpanOrder(s) = k /\ SpanStart(s) = Of(Only(x), d, n, b, Succ(k), q, r, e, h)
  BY <1>2, SpanOrderOf, SpanStartOf
<1> HIDE DEF s
<1>4. DispatchState(s, c) = SpanStart(s) /\ DispatchInner(s) = In(k, No, d)
  BY <1>1, <1>3 DEF DispatchState, DispatchInner, In, No
<1>5. QED
  BY <1>3, <1>4 DEF s

\* Under Pydantic AI's guard the span takes none.
LEMMA DispatchIgnored ==
  ASSUME NEW d, NEW n, NEW b, NEW k, NEW q, NEW r, NEW e, NEW h, NEW c
  PROVE  /\ DispatchState(Of(Only("pydantic"), d, n, b, k, q, r, e, h), c) =
              Of(Only("pydantic"), d, n, b, k, q, r, e, h)
         /\ DispatchInner(Of(Only("pydantic"), d, n, b, k, q, r, e, h)) = In(None, No, d)
<1> DEFINE s == Of(Only("pydantic"), d, n, b, k, q, r, e, h)
<1>1. PassesThrough(s, "modea") /\ s.defer = d
  BY PassesOf, ModeaYields DEF Of
<1>2. "pydantic" \in Only("pydantic")
  BY DEF Only
<1>3. SpanOrder(s) = None /\ SpanStart(s) = s
  BY <1>2, SpanOrderOf, SpanStartOf
<1> HIDE DEF s
<1>4. DispatchState(s, c) = SpanStart(s) /\ DispatchInner(s) = In(None, No, d)
  BY <1>1, <1>3 DEF DispatchState, DispatchInner, In, No
<1>5. QED
  BY <1>3, <1>4 DEF s

\* What opening a stream makes of the session, and of the stream's inner span.
Requests(kind, eager) == eager /\ kind # "manual"
OpenMade(s, c, kind, eager) ==
  IF Requests(kind, eager) THEN DispatchState(BeforeOpen(s, c, kind), c)
  ELSE BeforeOpen(s, c, kind)
OpenInner(s, c, kind, eager) ==
  IF Requests(kind, eager) THEN DispatchInner(BeforeOpen(s, c, kind)) ELSE NoInner

\* The guard a wrapper holds for the stream once it is open.
OpenHold(kind) ==
  IF kind = "liAsync" THEN Only("llamaindex") ELSE IF kind = "pydantic" THEN Only("pydantic")
  ELSE IF kind = "agno" THEN Only("agno") ELSE {}

\* The span of the request, when it took an order, took one of those handed out.
OrderWithin(i, k, k2) ==
  /\ k \in Nat /\ k2 \in Nat /\ k <= k2
  /\ i.order # None => i.order \in Nat /\ k <= i.order /\ i.order < k2

Opened(kind, eager, d, k, k2, i) ==
  /\ OrderWithin(i, k, k2)
  /\ kind = "modea" => i = In(k, Yes, d)
  /\ kind # "modea" => i.taken = No
  /\ kind \in LiKinds => IF eager THEN i.order = k ELSE k2 = k

OpensTo(kind, eager, made, i, d, n, b, k, q, r, e, h, c) ==
  \E k2 : /\ Opened(kind, eager, d, k, k2, i)
          /\ made = Of(OpenHold(kind), IF kind \in LiKinds THEN Yes ELSE d, n, b, k2, q, r, e,
                       IF kind \in Lazy THEN h ELSE Plus(h, c))

\* The witness of how a stream opens.
LEMMA OpensBy ==
  ASSUME NEW kind, NEW eager, NEW made, NEW i, NEW d, NEW n, NEW b, NEW k, NEW q, NEW r, NEW e,
         NEW h, NEW c, NEW k2, Opened(kind, eager, d, k, k2, i), NEW g, g = OpenHold(kind),
         NEW d2, d2 = IF kind \in LiKinds THEN Yes ELSE d,
         NEW h2, h2 = IF kind \in Lazy THEN h ELSE Plus(h, c),
         made = Of(g, d2, n, b, k2, q, r, e, h2)
  PROVE  OpensTo(kind, eager, made, i, d, n, b, k, q, r, e, h, c)
BY DEF OpensTo

\* A stream whose request is not made has noted nothing.
LEMMA NoInnerIs == NoInner = In(None, No, No)
BY DEF NoInner, In, No

\* The orders a request may take.
LEMMA OrdersWithin ==
  ASSUME NEW k, k \in Nat, NEW t, NEW p
  PROVE  /\ OrderWithin(In(None, t, p), k, k) /\ OrderWithin(In(None, t, p), k, Succ(k))
         /\ OrderWithin(In(k, t, p), k, Succ(k))
         /\ OrderWithin(In(Succ(k), t, p), k, Succ(Succ(k)))
BY FrameworkAssumption DEF OrderWithin, In, Succ

\* Nothing is set, so every wrapper checks its call.
LEMMA ChecksAlways ==
  ASSUME NEW d, NEW n, NEW b, NEW k, NEW q, NEW r, NEW e, NEW h, NEW c, NEW kind
  PROVE  Check(Of({}, d, n, b, k, q, r, e, h), c, kind) = Of({}, d, n, b, k, q, r, e, Plus(h, c))
BY CheckOf

\* Opening a provider's stream,
LEMMA OpenModea ==
  ASSUME NEW d, NEW n, NEW b, NEW k, k \in Nat, NEW q, NEW r, NEW e, NEW h, NEW c,
         NEW s, s = Of({}, d, n, b, k, q, r, e, h)
  PROVE  OpensTo("modea", TRUE, OpenMade(s, c, "modea", TRUE), OpenInner(s, c, "modea", TRUE),
                 d, n, b, k, q, r, e, h, c)
<1>1. Requests("modea", TRUE) /\ BeforeOpen(s, c, "modea") = s
  BY DEF Requests, BeforeOpen, LangChain
<1>2. OpenTo({}) /\ Checked({}, h, c) = Plus(h, c)
  BY DEF OpenTo, Checked
<1>3. /\ OpenMade(s, c, "modea", TRUE) = Of({}, d, n, b, Succ(k), q, r, e, Plus(h, c))
      /\ OpenInner(s, c, "modea", TRUE) = In(k, Yes, d)
  BY <1>1, <1>2, DispatchTaken DEF OpenMade, OpenInner
<1>4. Opened("modea", TRUE, d, k, Succ(k), In(k, Yes, d))
  BY OrdersWithin DEF Opened, LiKinds
<1>5. OpenHold("modea") = {} /\ "modea" \notin LiKinds \union Lazy
  BY DEF OpenHold, LiKinds, Lazy
<1>6. QED
  BY <1>3, <1>4, <1>5, OpensBy

\* one metered by hand,
LEMMA OpenManual ==
  ASSUME NEW d, NEW n, NEW b, NEW k, k \in Nat, NEW q, NEW r, NEW e, NEW h, NEW c,
         NEW s, s = Of({}, d, n, b, k, q, r, e, h)
  PROVE  OpensTo("manual", TRUE, OpenMade(s, c, "manual", TRUE), OpenInner(s, c, "manual", TRUE),
                 d, n, b, k, q, r, e, h, c)
<1>1. ~Requests("manual", TRUE) /\ BeforeOpen(s, c, "manual") = NextOrder(Check(s, c, "manual"))
  BY DEF Requests, BeforeOpen, LangChain
<1>2. /\ OpenMade(s, c, "manual", TRUE) = Of({}, d, n, b, Succ(k), q, r, e, Plus(h, c))
      /\ OpenInner(s, c, "manual", TRUE) = In(None, No, No)
  BY <1>1, ChecksAlways, NextOrderOf, NoInnerIs DEF OpenMade, OpenInner
<1>3. Opened("manual", TRUE, d, k, Succ(k), In(None, No, No))
  BY OrdersWithin, InFields DEF Opened, LiKinds
<1>4. OpenHold("manual") = {} /\ "manual" \notin LiKinds \union Lazy
  BY DEF OpenHold, LiKinds, Lazy
<1>5. QED
  BY <1>2, <1>3, <1>4, OpensBy

\* LiteLLM's, whose guard is let go of again,
LEMMA OpenLiteLLM ==
  ASSUME NEW d, NEW n, NEW b, NEW k, k \in Nat, NEW q, NEW r, NEW e, NEW h, NEW c,
         NEW s, s = Of({}, d, n, b, k, q, r, e, h)
  PROVE  OpensTo("litellm", TRUE, Release(OpenMade(s, c, "litellm", TRUE), "litellm"),
                 OpenInner(s, c, "litellm", TRUE), d, n, b, k, q, r, e, h, c)
<1>1. Requests("litellm", TRUE) /\ BeforeOpen(s, c, "litellm") = LiteLLMEnter(s, c)
  BY DEF Requests, BeforeOpen, LangChain
<1>2. LiteLLMEnter(s, c) = Of(Only("litellm"), d, n, b, Succ(k), q, r, e, Plus(h, c))
  BY LiteLLMEnterOf
<1>3. /\ OpenMade(s, c, "litellm", TRUE) =
           Of(Only("litellm"), d, n, b, Succ(Succ(k)), q, r, e, Plus(h, c))
      /\ OpenInner(s, c, "litellm", TRUE) = In(Succ(k), No, d)
  BY <1>1, <1>2, DispatchPassed DEF OpenMade, OpenInner
<1>4. Only("litellm") \ {"litellm"} = {}
  BY OnlyIs
<1>5. Release(OpenMade(s, c, "litellm", TRUE), "litellm") =
        Of({}, d, n, b, Succ(Succ(k)), q, r, e, Plus(h, c))
  <2> DEFINE made == OpenMade(s, c, "litellm", TRUE)
  <2>1. made = Of(Only("litellm"), d, n, b, Succ(Succ(k)), q, r, e, Plus(h, c))
    BY <1>3
  <2> HIDE DEF made
  <2>2. Release(made, "litellm") =
          Of(Only("litellm") \ {"litellm"}, d, n, b, Succ(Succ(k)), q, r, e, Plus(h, c))
    BY <2>1, ReleaseOf
  <2>3. QED
    BY <1>4, <2>2 DEF made
<1>6. Opened("litellm", TRUE, d, k, Succ(Succ(k)), In(Succ(k), No, d))
  BY OrdersWithin, InFields DEF Opened, LiKinds
<1>7. OpenHold("litellm") = {} /\ "litellm" \notin LiKinds \union Lazy
  BY DEF OpenHold, LiKinds, Lazy
<1>8. QED
  BY <1>3, <1>5, <1>6, <1>7, OpensBy

\* Pydantic AI's, whose guard is kept,
LEMMA OpenPydantic ==
  ASSUME NEW d, NEW n, NEW b, NEW k, k \in Nat, NEW q, NEW r, NEW e, NEW h, NEW c,
         NEW s, s = Of({}, d, n, b, k, q, r, e, h)
  PROVE  OpensTo("pydantic", TRUE, OpenMade(s, c, "pydantic", TRUE),
                 OpenInner(s, c, "pydantic", TRUE), d, n, b, k, q, r, e, h, c)
<1>1. Requests("pydantic", TRUE) /\ BeforeOpen(s, c, "pydantic") = PydanticEnter(s, c)
  BY DEF Requests, BeforeOpen, LangChain
<1>2. PydanticEnter(s, c) = Of(Only("pydantic"), d, n, b, Succ(k), q, r, e, Plus(h, c))
  BY LiteLLMEnterOf
<1>3. /\ OpenMade(s, c, "pydantic", TRUE) =
           Of(Only("pydantic"), d, n, b, Succ(k), q, r, e, Plus(h, c))
      /\ OpenInner(s, c, "pydantic", TRUE) = In(None, No, d)
  BY <1>1, <1>2, DispatchIgnored DEF OpenMade, OpenInner
<1>4. Opened("pydantic", TRUE, d, k, Succ(k), In(None, No, d))
  BY OrdersWithin, InFields DEF Opened, LiKinds
<1>5. OpenHold("pydantic") = Only("pydantic") /\ "pydantic" \notin LiKinds \union Lazy
  BY DEF OpenHold, LiKinds, Lazy
<1>6. QED
  BY <1>3, <1>4, <1>5, OpensBy

\* The streams that make no request before they are pulled.
LEMMA OpenLazy ==
  ASSUME NEW d, NEW n, NEW b, NEW k, k \in Nat, NEW q, NEW r, NEW e, NEW h, NEW c,
         NEW s, s = Of({}, d, n, b, k, q, r, e, h),
         NEW kind \in {"langchain", "lcAsync", "agno", "agnoAsync"}
  PROVE  OpensTo(kind, FALSE, OpenMade(s, c, kind, FALSE), OpenInner(s, c, kind, FALSE),
                 d, n, b, k, q, r, e, h, c)
<1>1. /\ OpenMade(s, c, kind, FALSE) = BeforeOpen(s, c, kind)
      /\ OpenInner(s, c, kind, FALSE) = In(None, No, No)
  BY NoInnerIs DEF Requests, OpenMade, OpenInner
<1>2. Opened(kind, FALSE, d, k, k, In(None, No, No)) /\ kind \notin LiKinds
  BY OrdersWithin, InFields DEF Opened, LiKinds
<1>3. CASE kind \in Lazy
  <2>1. BeforeOpen(s, c, kind) = s /\ OpenHold(kind) = {}
    BY <1>3 DEF BeforeOpen, LangChain, Lazy, OpenHold
  <2>2. QED
    BY <1>1, <1>2, <1>3, <2>1, OpensBy
<1>4. CASE kind = "langchain"
  <2>1. BeforeOpen(s, c, kind) = Check(s, c, kind) /\ OpenHold(kind) = {} /\ kind \notin Lazy
    BY <1>4 DEF BeforeOpen, LangChain, Lazy, OpenHold
  <2>2. Check(s, c, kind) = Of({}, d, n, b, k, q, r, e, Plus(h, c))
    BY ChecksAlways
  <2>3. QED
    BY <1>1, <1>2, <2>1, <2>2, OpensBy
<1>5. CASE kind = "agno"
  <2>1. BeforeOpen(s, c, kind) = AgnoEnter(s, c) /\ OpenHold(kind) = Only("agno") /\ kind \notin Lazy
    BY <1>5 DEF BeforeOpen, LangChain, Lazy, OpenHold
  <2>2. AgnoEnter(s, c) = Of(Only("agno"), d, n, b, k, q, r, e, Plus(h, c))
    BY LiteLLMEnterOf
  <2>3. QED
    BY <1>1, <1>2, <2>1, <2>2, OpensBy
<1>6. QED
  BY <1>3, <1>4, <1>5 DEF Lazy

\* and LlamaIndex's, which defers and takes no order of its own.
LEMMA OpenLlamaIndex ==
  ASSUME NEW d, NEW n, NEW b, NEW k, k \in Nat, NEW q, NEW r, NEW e, NEW h, NEW c,
         NEW s, s = Of({}, d, n, b, k, q, r, e, h), NEW kind \in LiKinds, NEW eager \in BOOLEAN
  PROVE  OpensTo(kind, eager, AfterOpen(OpenMade(s, c, kind, eager), kind),
                 OpenInner(s, c, kind, eager), d, n, b, k, q, r, e, h, c)
<1> DEFINE x == "llamaindex"
           k2 == IF eager THEN Succ(k) ELSE k
           i  == IF eager THEN In(k, No, Yes) ELSE In(None, No, No)
           made == OpenMade(s, c, kind, eager)
<1>1. BeforeOpen(s, c, kind) = LiEnter(s, c) /\ (Requests(kind, eager) <=> eager)
  BY DEF BeforeOpen, Requests, LiKinds, LangChain
<1>2. LiEnter(s, c) = Of(Only(x), Yes, n, b, k, q, r, e, Plus(h, c))
  <2>1. Check(s, c, x) = Of({}, d, n, b, k, q, r, e, Plus(h, c))
    BY ChecksAlways
  <2>2. LiEnter(s, c) = Hold(Restore(Check(s, c, x), Yes), x) /\ {} \union {x} = Only(x)
    BY OnlyIs DEF LiEnter, Yes
  <2>3. Restore(Check(s, c, x), Yes) = Of({}, Yes, n, b, k, q, r, e, Plus(h, c))
    BY <2>1, RestoreOf
  <2>4. QED
    BY <2>2, <2>3, HoldOf
<1>3. made = Of(Only(x), Yes, n, b, k2, q, r, e, Plus(h, c)) /\ OpenInner(s, c, kind, eager) = i
  <2>1. CASE eager
    BY <1>1, <1>2, <2>1, DispatchPassed DEF OpenMade, OpenInner
  <2>2. CASE ~eager
    BY <1>1, <1>2, <2>2, NoInnerIs DEF OpenMade, OpenInner
  <2>3. QED
    BY <2>1, <2>2
<1> HIDE DEF made
<1>4. AfterOpen(made, kind) = Of(OpenHold(kind), Yes, n, b, k2, q, r, e, Plus(h, c))
  <2>1. CASE kind = "llamaindex"
    <3>1. Only(x) \ {x} = {} /\ OpenHold(kind) = {} /\ AfterOpen(made, kind) = Release(made, x)
      BY <2>1, OnlyIs DEF OpenHold, AfterOpen
    <3>2. QED
      BY <1>3, <3>1, ReleaseOf
  <2>2. CASE kind = "liAsync"
    BY <1>3, <2>2 DEF OpenHold, AfterOpen
  <2>3. QED
    BY <2>1, <2>2 DEF LiKinds
<1>5. Opened(kind, eager, d, k, k2, i)
  <2>1. OrderWithin(i, k, k2)
    BY OrdersWithin
  <2>2. i.taken = No /\ IF eager THEN i.order = k ELSE k2 = k
    BY InFields
  <2>3. QED
    BY <2>1, <2>2 DEF Opened, LiKinds
<1>6. kind \notin Lazy
  BY DEF LiKinds, Lazy
<1> HIDE DEF k2, i
<1>7. /\ OpenInner(s, c, kind, eager) = i
      /\ AfterOpen(OpenMade(s, c, kind, eager), kind) = AfterOpen(made, kind)
  BY <1>3 DEF made
<1> DEFINE last == AfterOpen(made, kind)
<1> HIDE DEF last
<1>8. OpensTo(kind, eager, last, i, d, n, b, k, q, r, e, h, c)
  BY <1>4, <1>5, <1>6, OpensBy DEF last
<1>9. QED
  BY <1>7, <1>8 DEF last

\* Opening a stream when no guard is set.
LEMMA OpenEffect ==
  ASSUME NEW d, NEW n, NEW b, NEW k, k \in Nat, NEW q, NEW r, NEW e, NEW h, NEW c,
         NEW s, s = Of({}, d, n, b, k, q, r, e, h),
         NEW kind \in AllKinds \ (Managers \union Embeddings), NEW eager \in EagerChoices(kind)
  PROVE  OpensTo(kind, eager, AfterOpen(OpenMade(s, c, kind, eager), kind),
                 OpenInner(s, c, kind, eager), d, n, b, k, q, r, e, h, c)
<1> DEFINE Goal == OpensTo(kind, eager, AfterOpen(OpenMade(s, c, kind, eager), kind),
                           OpenInner(s, c, kind, eager), d, n, b, k, q, r, e, h, c)
<1>1. kind \in {"modea", "manual", "litellm", "langchain", "llamaindex", "pydantic", "agno",
                "liAsync", "lcAsync", "agnoAsync"}
  BY DEF AllKinds, StreamOnly, Managers, Embeddings
<1>2. \A t : AfterOpen(t, kind) = IF kind \in {"litellm", "llamaindex"} THEN Release(t, kind) ELSE t
  BY DEF AfterOpen
<1>3. CASE kind \in {"modea", "manual", "litellm", "pydantic"}
  <2>1. eager = TRUE
    BY <1>3 DEF EagerChoices, LangChain
  <2>2. CASE kind = "litellm"
    BY <1>2, <2>1, <2>2, OpenLiteLLM
  <2>3. CASE kind # "litellm"
    <3>1. AfterOpen(OpenMade(s, c, kind, eager), kind) = OpenMade(s, c, kind, eager)
      BY <1>2, <1>3, <2>3
    <3>2. QED
      BY <1>3, <2>1, <2>3, <3>1, OpenModea, OpenManual, OpenPydantic
  <2>4. QED
    BY <2>2, <2>3
<1>4. CASE kind \in {"langchain", "lcAsync", "agno", "agnoAsync"}
  <2>1. eager = FALSE
    BY <1>4 DEF EagerChoices, LangChain
  <2>2. QED
    BY <1>2, <1>4, <2>1, OpenLazy
<1>5. CASE kind \in LiKinds
  <2>1. eager \in BOOLEAN
    BY <1>5 DEF EagerChoices, LiKinds, LangChain
  <2>2. QED
    BY <1>5, <2>1, OpenLlamaIndex
<1>6. QED
  BY <1>1, <1>3, <1>4, <1>5 DEF LiKinds

-----------------------------------------------------------------------------
(* The first pull of a stream.                                              *)

PullMade(s, c) ==
  IF call[c].sent THEN BeforePull(s, c) ELSE DispatchState(BeforePull(s, c), c)
PullInner(s, c) == IF call[c].sent THEN call[c].inner ELSE DispatchInner(BeforePull(s, c))
PullLast(s, c) == AfterPull(InnerPull(PullMade(s, c), PullInner(s, c)), c)

\* The guard a wrapper holds for a stream that has been pulled.
PullHold(kind) ==
  IF kind = "litellm" THEN Only("litellm") ELSE IF kind \in LiKinds THEN Only("llamaindex")
  ELSE IF kind = "pydantic" THEN Only("pydantic")
  ELSE IF kind \in AgnoKinds THEN Only("agno") ELSE {}

\* Kinds that defer telemetry once they are pulled.
PullDefers(kind) == kind = "modea" \/ kind \in AgnoKinds \union LangChain

Pulled(kind, sent, d, k, i0, k2, i) ==
  /\ sent => i = i0 /\ k2 = k
  /\ ~sent => /\ k2 = Succ(k) /\ i.order = k
              /\ IF kind \in AgnoKinds THEN i = In(k, Yes, d) ELSE i.taken = No

PullsTo(kind, sent, i0, made, i, d, n, b, k, q, r, e, h, c) ==
  \E k2 : /\ Pulled(kind, sent, d, k, i0, k2, i)
          /\ made = Of(PullHold(kind), IF PullDefers(kind) THEN Yes ELSE d,
                       IF kind \in LangChain THEN Succ(n) ELSE n,
                       IF kind \in LangChain /\ n = 0 THEN d ELSE b, k2, q, r, e,
                       IF kind \in Lazy THEN Plus(h, c) ELSE h)

\* The witness of how a stream is pulled first.
LEMMA PullsBy ==
  ASSUME NEW kind, NEW sent, NEW i0, NEW made, NEW i, NEW d, NEW n, NEW b, NEW k, NEW q, NEW r,
         NEW e, NEW h, NEW c, NEW k2, Pulled(kind, sent, d, k, i0, k2, i),
         NEW g, g = PullHold(kind), NEW d2, d2 = IF PullDefers(kind) THEN Yes ELSE d,
         NEW n2, n2 = IF kind \in LangChain THEN Succ(n) ELSE n,
         NEW b2, b2 = IF kind \in LangChain /\ n = 0 THEN d ELSE b,
         NEW h2, h2 = IF kind \in Lazy THEN Plus(h, c) ELSE h,
         made = Of(g, d2, n2, b2, k2, q, r, e, h2)
  PROVE  PullsTo(kind, sent, i0, made, i, d, n, b, k, q, r, e, h, c)
BY DEF PullsTo

\* A stream of the provider's wrapper that its own wrapper took defers.
LEMMA InnerPullOf ==
  ASSUME NEW g, NEW d, NEW n, NEW b, NEW k, NEW q, NEW r, NEW e, NEW h, NEW i
  PROVE  InnerPull(Of(g, d, n, b, k, q, r, e, h), i) =
           IF i.taken THEN Of(g, Yes, n, b, k, q, r, e, h) ELSE Of(g, d, n, b, k, q, r, e, h)
<1> DEFINE s == Of(g, d, n, b, k, q, r, e, h)
<1>1. Restore(s, Yes) = Of(g, Yes, n, b, k, q, r, e, h)
  BY RestoreOf
<1> HIDE DEF s
<1>2. InnerPull(s, i) = IF i.taken THEN Restore(s, Yes) ELSE s
  BY DEF InnerPull, Yes
<1>3. QED
  BY <1>1, <1>2 DEF s

\* Kinds whose first pull finds the request made.
LEMMA PullSent ==
  ASSUME NEW d, NEW n, NEW b, NEW k, NEW q, NEW r, NEW e, NEW h, NEW c,
         NEW kind \in {"modea", "manual", "pydantic"}, call[c].kind = kind, call[c].sent,
         call[c].inner.taken <=> kind = "modea",
         NEW s, s = Of(OpenHold(kind), d, n, b, k, q, r, e, h)
  PROVE  PullsTo(kind, TRUE, call[c].inner, PullLast(s, c), PullInner(s, c),
                 d, n, b, k, q, r, e, h, c)
<1> DEFINE i == call[c].inner
           d2 == IF kind = "modea" THEN Yes ELSE d
           last == PullLast(s, c)
<1>1. BeforePull(s, c) = s /\ \A t : AfterPull(t, c) = t
  BY DEF BeforePull, AfterPull, LangChain
<1>2. PullInner(s, c) = i /\ last = InnerPull(s, i)
  BY <1>1 DEF PullInner, PullLast, PullMade
<1> HIDE DEF i, last
<1>3. OpenHold(kind) = PullHold(kind) /\ kind \notin LangChain /\ kind \notin Lazy
      /\ (PullDefers(kind) <=> kind = "modea")
  BY DEF OpenHold, PullHold, LiKinds, AgnoKinds, LangChain, Lazy, PullDefers
<1>4. last = Of(PullHold(kind), d2, n, b, k, q, r, e, h)
  BY <1>2, <1>3, InnerPullOf DEF i
<1>5. Pulled(kind, TRUE, d, k, i, k, i)
  BY DEF Pulled
<1>6. d2 = IF PullDefers(kind) THEN Yes ELSE d
  BY <1>3
<1> HIDE DEF d2
<1>7. PullsTo(kind, TRUE, i, last, i, d, n, b, k, q, r, e, h, c)
  BY <1>3, <1>4, <1>5, <1>6, PullsBy
<1>8. QED
  BY <1>2, <1>7 DEF i, last

\* LiteLLM takes its guard back.
LEMMA PullLiteLLM ==
  ASSUME NEW d, NEW n, NEW b, NEW k, NEW q, NEW r, NEW e, NEW h, NEW c,
         call[c].kind = "litellm", call[c].sent, ~call[c].inner.taken,
         NEW s, s = Of({}, d, n, b, k, q, r, e, h)
  PROVE  PullsTo("litellm", TRUE, call[c].inner, PullLast(s, c), PullInner(s, c),
                 d, n, b, k, q, r, e, h, c)
<1> DEFINE i == call[c].inner
           last == PullLast(s, c)
<1>1. BeforePull(s, c) = Hold(s, "litellm") /\ \A t : AfterPull(t, c) = t
  BY DEF BeforePull, AfterPull, LangChain
<1>2. PullInner(s, c) = i /\ last = InnerPull(Hold(s, "litellm"), i)
  BY <1>1 DEF PullInner, PullLast, PullMade
<1> HIDE DEF i, last
<1>3. {} \union {"litellm"} = Only("litellm") /\ PullHold("litellm") = Only("litellm")
      /\ "litellm" \notin LangChain /\ "litellm" \notin Lazy /\ ~PullDefers("litellm")
  BY OnlyIs DEF PullHold, LangChain, Lazy, PullDefers, AgnoKinds
<1>4. Hold(s, "litellm") = Of(Only("litellm"), d, n, b, k, q, r, e, h)
  BY <1>3, HoldOf
<1>5. last = Of(Only("litellm"), d, n, b, k, q, r, e, h)
  BY <1>2, <1>4, InnerPullOf DEF i
<1>6. Pulled("litellm", TRUE, d, k, i, k, i)
  BY DEF Pulled
<1>7. PullsTo("litellm", TRUE, i, last, i, d, n, b, k, q, r, e, h, c)
  BY <1>3, <1>5, <1>6, PullsBy
<1>8. QED
  BY <1>2, <1>7 DEF i, last

\* LlamaIndex takes its guard back and makes the request if it was not made.
LEMMA PullLlamaIndex ==
  ASSUME NEW d, NEW n, NEW b, NEW k, NEW q, NEW r, NEW e, NEW h, NEW c,
         NEW kind \in LiKinds, call[c].kind = kind, NEW sent \in BOOLEAN, call[c].sent = sent,
         ~call[c].inner.taken, NEW s, s = Of(OpenHold(kind), d, n, b, k, q, r, e, h)
  PROVE  PullsTo(kind, sent, call[c].inner, PullLast(s, c), PullInner(s, c),
                 d, n, b, k, q, r, e, h, c)
<1> DEFINE i0 == call[c].inner
           x == "llamaindex"
           begun == BeforePull(s, c)
           last == PullLast(s, c)
           i == PullInner(s, c)
           k2 == IF sent THEN k ELSE Succ(k)
<1>1. begun = Of(Only(x), d, n, b, k, q, r, e, h)
  <2>1. CASE kind = "llamaindex"
    <3>1. begun = Hold(s, x) /\ OpenHold(kind) = {} /\ {} \union {x} = Only(x)
      BY <2>1, OnlyIs DEF BeforePull, OpenHold
    <3> HIDE DEF begun
    <3>2. QED
      BY <3>1, HoldOf
  <2>2. CASE kind = "liAsync"
    BY <2>2 DEF BeforePull, OpenHold
  <2>3. QED
    BY <2>1, <2>2 DEF LiKinds
<1>2. \A t : AfterPull(t, c) = t
  BY DEF AfterPull, LangChain, LiKinds
<1>3. /\ last = InnerPull(PullMade(s, c), i)
      /\ i = IF sent THEN i0 ELSE DispatchInner(begun)
      /\ PullMade(s, c) = IF sent THEN begun ELSE DispatchState(begun, c)
  BY <1>2 DEF PullInner, PullLast, PullMade
<1> HIDE DEF begun, last, i
<1>4. /\ DispatchState(begun, c) = Of(Only(x), d, n, b, Succ(k), q, r, e, h)
      /\ DispatchInner(begun) = In(k, No, d)
  BY <1>1, DispatchPassed
<1>5. PullMade(s, c) = Of(Only(x), d, n, b, k2, q, r, e, h) /\ i = IF sent THEN i0 ELSE In(k, No, d)
  BY <1>1, <1>3, <1>4
<1>6. ~i.taken
  BY <1>5, InFields DEF No
<1> HIDE DEF k2
<1>7. last = Of(Only(x), d, n, b, k2, q, r, e, h)
  BY <1>3, <1>5, <1>6, InnerPullOf
<1>8. kind \notin LangChain /\ kind \notin Lazy /\ ~PullDefers(kind) /\ PullHold(kind) = Only(x)
      /\ kind \notin AgnoKinds
  BY DEF PullHold, LangChain, Lazy, PullDefers, LiKinds, AgnoKinds
<1>9. Pulled(kind, sent, d, k, i0, k2, i)
  BY <1>5, <1>8, InFields DEF Pulled, k2
<1>10. PullsTo(kind, sent, i0, last, i, d, n, b, k, q, r, e, h, c)
  BY <1>7, <1>8, <1>9, PullsBy
<1>11. QED
  BY <1>10 DEF last, i

\* Agno's provider wrapper takes the request under Agno's guard, and defers.
LEMMA PullAgno ==
  ASSUME NEW d, NEW n, NEW b, NEW k, NEW q, NEW r, NEW e, NEW h, NEW c,
         NEW kind \in AgnoKinds, call[c].kind = kind, ~call[c].sent,
         NEW s, s = Of(OpenHold(kind), d, n, b, k, q, r, e, h)
  PROVE  PullsTo(kind, FALSE, call[c].inner, PullLast(s, c), PullInner(s, c),
                 d, n, b, k, q, r, e, h, c)
<1> DEFINE x == "agno"
           a == Only(x)
           begun == BeforePull(s, c)
           last == PullLast(s, c)
           i == PullInner(s, c)
           h2 == IF kind \in Lazy THEN Plus(h, c) ELSE h
<1>1. begun = Of(a, d, n, b, k, q, r, e, h2)
  <2>1. CASE kind = "agno"
    <3>1. begun = s /\ OpenHold(kind) = a /\ h2 = h
      BY <2>1 DEF BeforePull, OpenHold, LangChain, Lazy
    <3>2. QED
      BY <3>1
  <2>2. CASE kind = "agnoAsync"
    <3>1. begun = Hold(Check(s, c, kind), x) /\ OpenHold(kind) = {} /\ h2 = Plus(h, c)
          /\ {} \union {x} = a
      BY <2>2, OnlyIs DEF BeforePull, OpenHold, AgnoLazyStart, Lazy
    <3>2. Check(s, c, kind) = Of({}, d, n, b, k, q, r, e, h2)
      BY <3>1, ChecksAlways
    <3> HIDE DEF begun, h2, a
    <3>3. QED
      BY <3>1, <3>2, HoldOf
  <2>3. QED
    BY <2>1, <2>2 DEF AgnoKinds
<1>2. \A t : AfterPull(t, c) = t
  BY DEF AfterPull, LangChain, AgnoKinds
<1>3. last = InnerPull(DispatchState(begun, c), i) /\ i = DispatchInner(begun)
  BY <1>2 DEF PullInner, PullLast, PullMade
<1> HIDE DEF begun, last, i, h2
<1>4. OpenTo(a) /\ \A m : Checked(a, m, c) = m
  BY OnlyIs DEF OpenTo, Checked
<1> HIDE DEF a
<1>5. DispatchState(begun, c) = Of(a, d, n, b, Succ(k), q, r, e, h2) /\ i = In(k, Yes, d)
  BY <1>1, <1>3, <1>4, DispatchTaken
<1>6. i.taken
  BY <1>5, InFields DEF Yes
<1>7. last = Of(a, Yes, n, b, Succ(k), q, r, e, h2)
  BY <1>3, <1>5, <1>6, InnerPullOf
<1>8. kind \notin LangChain /\ PullDefers(kind) /\ PullHold(kind) = a
  BY DEF PullHold, LangChain, PullDefers, LiKinds, AgnoKinds, a
<1>9. Pulled(kind, FALSE, d, k, call[c].inner, Succ(k), i)
  BY <1>5, InFields DEF Pulled
<1>10. PullsTo(kind, FALSE, call[c].inner, last, i, d, n, b, k, q, r, e, h, c)
  BY <1>7, <1>8, <1>9, PullsBy DEF h2
<1>11. QED
  BY <1>10 DEF last, i

\* The first LangChain stream notes the flag.
LEMMA LcEnterOf ==
  ASSUME NEW g, NEW d, NEW n, NEW b, NEW k, NEW q, NEW r, NEW e, NEW h
  PROVE  LcEnter(Of(g, d, n, b, k, q, r, e, h)) =
           Of(g, Yes, Succ(n), IF n = 0 THEN d ELSE b, k, q, r, e, h)
<1> DEFINE s == Of(g, d, n, b, k, q, r, e, h)
<1>1. s.depth = n /\ s.defer = d /\ s.base = b
  BY DEF Of
<1>2. LcEnter(s) = [[[s EXCEPT !.base = IF s.depth = 0 THEN s.defer ELSE s.base]
                       EXCEPT !.depth = Succ(s.depth)] EXCEPT !.defer = Yes]
  BY DEF LcEnter, Succ, Yes
<1>3. \A x : [s EXCEPT !.base = x] = Of(g, d, n, x, k, q, r, e, h)
  BY DEF Of
<1>4. \A x, y : [Of(g, d, n, x, k, q, r, e, h) EXCEPT !.depth = y] = Of(g, d, y, x, k, q, r, e, h)
  BY DEF Of
<1>5. \A x, y : [Of(g, d, y, x, k, q, r, e, h) EXCEPT !.defer = Yes] = Of(g, Yes, y, x, k, q, r, e, h)
  BY DEF Of
<1> HIDE DEF s
<1> DEFINE b2 == IF n = 0 THEN d ELSE b
<1>6. LcEnter(s) = [[[s EXCEPT !.base = b2] EXCEPT !.depth = Succ(n)] EXCEPT !.defer = Yes]
  BY <1>1, <1>2
<1> HIDE DEF b2
<1>7. LcEnter(s) = Of(g, Yes, Succ(n), b2, k, q, r, e, h)
  <2>1. [s EXCEPT !.base = b2] = Of(g, d, n, b2, k, q, r, e, h)
    BY <1>3
  <2>2. [Of(g, d, n, b2, k, q, r, e, h) EXCEPT !.depth = Succ(n)] =
          Of(g, d, Succ(n), b2, k, q, r, e, h)
    BY <1>4
  <2>3. [Of(g, d, Succ(n), b2, k, q, r, e, h) EXCEPT !.defer = Yes] =
          Of(g, Yes, Succ(n), b2, k, q, r, e, h)
    BY <1>5
  <2>4. QED
    BY <1>6, <2>1, <2>2, <2>3
<1>8. QED
  BY <1>7 DEF s, b2

\* LangChain counts the stream, defers, and lets go of its guard.
LEMMA PullLangChain ==
  ASSUME NEW d, NEW n, NEW b, NEW k, NEW q, NEW r, NEW e, NEW h, NEW c,
         NEW kind \in LangChain, call[c].kind = kind, ~call[c].sent, ses.guards = {},
         NEW s, s = Of({}, d, n, b, k, q, r, e, h)
  PROVE  PullsTo(kind, FALSE, call[c].inner, PullLast(s, c), PullInner(s, c),
                 d, n, b, k, q, r, e, h, c)
<1> DEFINE x == "langchain"
           b2 == IF n = 0 THEN d ELSE b
           h2 == IF kind \in Lazy THEN Plus(h, c) ELSE h
           begun == BeforePull(s, c)
           last == PullLast(s, c)
           i == PullInner(s, c)
<1>1. begun = Of(Only(x), Yes, Succ(n), b2, k, q, r, e, h2)
  <2> DEFINE entered == Of({}, Yes, Succ(n), b2, k, q, r, e, h2)
  <2>1. Hold(entered, x) = Of(Only(x), Yes, Succ(n), b2, k, q, r, e, h2)
    BY HoldOf, OnlyIs
  <2>2. CASE kind = "langchain"
    <3>1. begun = Hold(LcEnter(s), x) /\ h2 = h
      BY <2>2 DEF BeforePull, Lazy
    <3>2. LcEnter(s) = entered
      BY <3>1, LcEnterOf
    <3>3. QED
      BY <2>1, <3>1, <3>2
  <2>3. CASE kind = "lcAsync"
    <3>1. begun = Hold(LcEnter(Check(s, c, kind)), x) /\ h2 = Plus(h, c)
      BY <2>3 DEF BeforePull, LcAsyncEnter, Lazy
    <3>2. Check(s, c, kind) = Of({}, d, n, b, k, q, r, e, h2)
      BY <3>1, ChecksAlways
    <3>3. LcEnter(Check(s, c, kind)) = entered
      BY <3>2, LcEnterOf
    <3>4. QED
      BY <2>1, <3>1, <3>3
  <2>4. kind = "langchain" \/ kind = "lcAsync"
    BY DEF LangChain
  <2> HIDE DEF entered, begun, b2, h2
  <2>5. QED
    BY <2>2, <2>3, <2>4
<1>2. \A t : AfterPull(t, c) = Release(t, x)
  BY DEF AfterPull
<1>3. last = Release(InnerPull(DispatchState(begun, c), i), x) /\ i = DispatchInner(begun)
  BY <1>2 DEF PullInner, PullLast, PullMade
<1> HIDE DEF begun, last, i, h2, b2
<1>4. /\ DispatchState(begun, c) = Of(Only(x), Yes, Succ(n), b2, Succ(k), q, r, e, h2)
      /\ i = In(k, No, Yes)
  <2>1. /\ DispatchState(begun, c) = Of(Only(x), Yes, Succ(n), b2, Succ(k), q, r, e, h2)
        /\ DispatchInner(begun) = In(k, No, Yes)
    BY <1>1, DispatchPassed
  <2>2. QED
    BY <1>3, <2>1
<1>5. ~i.taken
  BY <1>4 DEF In, No
<1>6. InnerPull(DispatchState(begun, c), i) = Of(Only(x), Yes, Succ(n), b2, Succ(k), q, r, e, h2)
  <2> DEFINE made == DispatchState(begun, c)
  <2>1. made = Of(Only(x), Yes, Succ(n), b2, Succ(k), q, r, e, h2)
    BY <1>4
  <2> HIDE DEF made
  <2>2. InnerPull(made, i) = Of(Only(x), Yes, Succ(n), b2, Succ(k), q, r, e, h2)
    BY <1>5, <2>1, InnerPullOf
  <2>3. QED
    BY <2>2 DEF made
<1>7. Only(x) \ {x} = {}
  BY OnlyIs
<1>8. last = Of({}, Yes, Succ(n), b2, Succ(k), q, r, e, h2)
  BY <1>3, <1>6, <1>7, ReleaseOf
<1>9. PullDefers(kind) /\ PullHold(kind) = {} /\ kind \notin AgnoKinds
  BY DEF PullHold, LangChain, PullDefers, LiKinds, AgnoKinds
<1>10. Pulled(kind, FALSE, d, k, call[c].inner, Succ(k), i)
  BY <1>4, <1>9, InFields DEF Pulled
<1>11. b2 = IF kind \in LangChain /\ n = 0 THEN d ELSE b
  BY DEF b2
<1>12. PullsTo(kind, FALSE, call[c].inner, last, i, d, n, b, k, q, r, e, h, c)
  BY <1>8, <1>9, <1>10, <1>11, PullsBy DEF h2
<1>13. QED
  BY <1>12 DEF last, i

\* The first pull of a stream when no guard is set but its own.
LEMMA PullEffect ==
  ASSUME NEW d, NEW n, NEW b, NEW k, NEW q, NEW r, NEW e, NEW h, NEW c,
         NEW kind \in AllKinds \ (Managers \union Embeddings), call[c].kind = kind,
         NEW sent \in EagerChoices(kind), call[c].sent = sent,
         call[c].inner.taken <=> kind = "modea", ses.guards = OpenHold(kind),
         NEW s, s = Of(OpenHold(kind), d, n, b, k, q, r, e, h)
  PROVE  PullsTo(kind, sent, call[c].inner, PullLast(s, c), PullInner(s, c),
                 d, n, b, k, q, r, e, h, c)
<1>1. kind \in {"modea", "manual", "litellm", "langchain", "llamaindex", "pydantic", "agno",
                "liAsync", "lcAsync", "agnoAsync"}
  BY DEF AllKinds, StreamOnly, Managers, Embeddings
<1>2. CASE kind \in {"modea", "manual", "pydantic"}
  <2>1. sent = TRUE
    BY <1>2 DEF EagerChoices, LangChain
  <2> DEFINE last == PullLast(s, c)
             i    == PullInner(s, c)
  <2> HIDE DEF last, i
  <2>2. PullsTo(kind, TRUE, call[c].inner, last, i, d, n, b, k, q, r, e, h, c)
    BY <1>2, <2>1, PullSent DEF last, i
  <2>3. QED
    BY <2>1, <2>2 DEF last, i
<1>3. CASE kind = "litellm"
  <2>1. sent = TRUE /\ OpenHold(kind) = {}
    BY <1>3 DEF EagerChoices, LangChain, OpenHold
  <2>2. s = Of({}, d, n, b, k, q, r, e, h) /\ ~call[c].inner.taken
    BY <1>3, <2>1
  <2>3. QED
    BY <1>3, <2>1, <2>2, PullLiteLLM
<1>4. CASE kind \in LangChain
  <2>1. sent = FALSE /\ OpenHold(kind) = {}
    BY <1>4 DEF EagerChoices, LangChain, OpenHold
  <2>2. s = Of({}, d, n, b, k, q, r, e, h) /\ ses.guards = {} /\ ~call[c].sent
    BY <1>4, <2>1
  <2> DEFINE last == PullLast(s, c)
             i    == PullInner(s, c)
  <2> HIDE DEF last, i
  <2>3. PullsTo(kind, FALSE, call[c].inner, last, i, d, n, b, k, q, r, e, h, c)
    BY <1>4, <2>2, PullLangChain DEF last, i
  <2>4. QED
    BY <2>1, <2>3 DEF last, i
<1>5. CASE kind \in AgnoKinds
  <2>1. sent = FALSE
    BY <1>5 DEF EagerChoices, LangChain, AgnoKinds
  <2>2. QED
    BY <1>5, <2>1, PullAgno
<1>6. CASE kind \in LiKinds
  <2>1. sent \in BOOLEAN /\ kind # "modea"
    BY <1>6 DEF EagerChoices, LiKinds, LangChain
  <2>2. QED
    BY <1>6, <2>1, PullLlamaIndex
<1>7. QED
  BY <1>1, <1>2, <1>3, <1>4, <1>5, <1>6 DEF LangChain, AgnoKinds, LiKinds

-----------------------------------------------------------------------------
(* The end of a stream.                                                     *)

Pred(n) == n - 1
Hows == {"done", "closed", "failed"}

\* The rows of a call are counted.
Numbered(rows, c) == rows[c] \in Nat

\* A row was not logged, so none was early.
LEMMA NotEarly ==
  ASSUME NEW s, NEW t, NEW c, t.rows = s.rows, Numbered(s.rows, c) PROVE Early(t, s, c) = t
BY DEF Early, Numbered

\* The span of a stream that is exhausted ends; of one that is not it may.
HowSpanned(how, spanned) == spanned \in {Yes, No} /\ (how = "done" => spanned = Yes)

\* The span of an exhausted stream is ended.
LEMMA HowEnded ==
  ASSUME NEW q, NEW c, NEW k, NEW how, NEW spanned, HowSpanned(how, spanned)
  PROVE  \/ Ended(q, c, k, spanned) = With(q, c, k)
         \/ how # "done" /\ Ended(q, c, k, spanned) = q
BY EndedIs, YesNo DEF HowSpanned

\* The provider's stream wrapper passed the stream through, and its span is dropped.
LEMMA InnerDropped ==
  ASSUME NEW g, g = Only("litellm") \/ g = Only("pydantic"), NEW d, NEW n, NEW b, NEW k, NEW q,
         NEW r, NEW e, NEW h, NEW c, Numbered(r, c), NEW i, ~i.taken, NEW how, NEW spanned
  PROVE  InnerEnd(Of(g, d, n, b, k, q, r, e, h), c, i, how, spanned) = Of(g, d, n, b, k, q, r, e, h)
<1> DEFINE s == Of(g, d, n, b, k, q, r, e, h)
<1>1. g \intersect {"pydantic", "litellm"} # {} /\ s.rows = r
  BY DEF Only, Of
<1>2. SpanEnd(s, c, i.order) = s
  BY <1>1, SpanDropped
<1>3. Early(s, s, c) = s
  BY <1>1, NotEarly
<1> HIDE DEF s
<1>4. InnerEnd(s, c, i, how, spanned) \in {Early(SpanEnd(s, c, i.order), s, c), s}
  BY DEF InnerEnd
<1>5. QED
  BY <1>2, <1>3, <1>4 DEF s

\* The provider's stream ends: its span is noted if it was logged at once.
StreamOver(s, c, order, spanned) ==
  IF spanned THEN Early(SpanEnd(s, c, order), s, c) ELSE s

\* ... or deferred.
LEMMA InnerDeferred ==
  ASSUME NEW g, "pydantic" \notin g, "litellm" \notin g, NEW n, NEW b, NEW k, NEW q,
         NEW r, NEW e, NEW h, NEW c, Numbered(r, c), NEW order, order # None,
         NEW spanned, spanned \in {Yes, No}
  PROVE  StreamOver(Of(g, Yes, n, b, k, q, r, e, h), c, order, spanned) =
           Of(g, Yes, n, b, k, Ended(q, c, order, spanned), r, e, h)
<1> DEFINE s == Of(g, Yes, n, b, k, q, r, e, h)
           t == SpanOver(s, c, order, spanned)
<1>1. t = Of(g, Yes, n, b, k, Ended(q, c, order, spanned), r, e, h)
  BY SpanKept
<1>2. s.rows = r
  BY DEF Of
<1>3. t.rows = r
  BY <1>1, FieldsOf
<1>4. Early(t, s, c) = t /\ Early(s, s, c) = s
  BY <1>2, <1>3, NotEarly
<1>5. StreamOver(s, c, order, spanned) = Early(t, s, c)
  <2>1. CASE spanned = Yes
    BY <2>1 DEF StreamOver, SpanOver, Yes
  <2>2. CASE spanned = No
    BY <1>4, <2>2 DEF StreamOver, SpanOver, No
  <2>3. QED
    BY <2>1, <2>2
<1> HIDE DEF s, t
<1>6. QED
  BY <1>1, <1>4, <1>5 DEF s

\* The end of a provider stream that the provider's wrapper passed through.
LEMMA InnerPassed ==
  ASSUME NEW g, "pydantic" \notin g, "litellm" \notin g, NEW n, NEW b, NEW k, NEW q,
         NEW r, NEW e, NEW h, NEW c, Numbered(r, c), NEW i, i.order # None, ~i.taken,
         NEW how, NEW spanned, spanned \in {Yes, No},
         NEW s, s = Of(g, Yes, n, b, k, q, r, e, h)
  PROVE  InnerEnd(s, c, i, how, spanned) =
           Of(g, Yes, n, b, k, Ended(q, c, i.order, spanned), r, e, h)
<1>1. InnerEnd(s, c, i, how, spanned) = StreamOver(s, c, i.order, spanned)
  BY DEF InnerEnd, StreamOver
<1>2. QED
  BY <1>1, InnerDeferred

\* The provider's stream wrapper took the stream: it restores the flag and
\* flushes, or logs a failure.
Spent(q, how) == IF how = "failed" THEN q ELSE {}
Logged(r, q, c, how) == IF how = "failed" THEN Plus(r, c) ELSE Counts(r, q)

\* The end of one that it took.
LEMMA InnerTaken ==
  ASSUME NEW g, "pydantic" \notin g, "litellm" \notin g, NEW n, NEW b, NEW k, NEW q,
         NEW r, NEW e, NEW h, NEW c, Numbered(r, c), NEW i, i.order # None, i.taken,
         NEW how, NEW spanned, spanned \in {Yes, No},
         NEW s, s = Of(g, Yes, n, b, k, q, r, e, h),
         NEW q2, q2 = Ended(q, c, i.order, spanned)
  PROVE  InnerEnd(s, c, i, how, spanned) =
           Of(g, i.prev, n, b, k, Spent(q2, how), Logged(r, q2, c, how), e, h)
<1> DEFINE ended == StreamOver(s, c, i.order, spanned)
           back == Of(g, i.prev, n, b, k, q2, r, e, h)
<1>1. InnerEnd(s, c, i, how, spanned) =
        IF how = "failed" THEN Row(Restore(ended, i.prev), c) ELSE Flush(Restore(ended, i.prev))
  BY DEF InnerEnd, StreamOver
<1>2. ended = Of(g, Yes, n, b, k, q2, r, e, h)
  BY InnerDeferred
<1> HIDE DEF ended
<1>3. Restore(ended, i.prev) = back
  BY <1>2, RestoreOf
<1>4. /\ Flush(back) = Of(g, i.prev, n, b, k, {}, Counts(r, q2), e, h)
      /\ Row(back, c) = Of(g, i.prev, n, b, k, q2, Plus(r, c), e, h)
  BY FlushOf, RowOf
<1> HIDE DEF back
<1>5. CASE how = "failed"
  BY <1>1, <1>3, <1>4, <1>5 DEF Spent, Logged
<1>6. CASE how # "failed"
  BY <1>1, <1>3, <1>4, <1>6 DEF Spent, Logged
<1>7. QED
  BY <1>5, <1>6

\* A manager's block takes from the deferred spans those of failed calls only.
Fewer(q, q2) == q2 \subseteq q /\ \A p \in q \ q2 : call[p.of].pc = "failed"

\* How the end of a stream stands in the books: a row of its own; none, when it
\* did not succeed; its span and the others flushed; its span deferred; a row and
\* the span, when the Mode-A wrapper reported the failure.
Settled(kind, c, how, order, q, r, q2, r2) ==
  \/ q2 = q /\ r2 = Plus(r, c)
  \/ how # "done" /\ q2 = q /\ r2 = r
  \/ order # None /\ q2 = {} /\ r2 = Counts(r, With(q, c, order))
  \/ how # "done" /\ q2 = {} /\ r2 = Counts(r, q)
  \/ order # None /\ q2 = With(q, c, order) /\ r2 = r
  \/ /\ how = "failed" /\ kind \in FailByModeA
     /\ order # None /\ q2 = With(q, c, order) /\ r2 = Plus(r, c)
  \/ /\ kind \in Managers /\ Fewer(q, q2)
     /\ r2 = Plus(r, c) \/ (how # "done" /\ r2 = r)

\* What the flag is set back to.
EndDefer(kind, i, prev, d, n, b) ==
  IF kind = "modea" \/ kind \in AgnoKinds THEN i.prev
  ELSE IF kind \in LiKinds \union Managers THEN prev
  ELSE IF kind \in LangChain THEN IF Pred(n) > 0 THEN Yes ELSE b
  ELSE d

EndsWith(kind, how, i, c, q, r, d2, q2, r2) ==
  /\ Settled(kind, c, how, i.order, q, r, q2, r2)
  /\ kind = "modea" => q2 = {} \/ how = "failed"
  /\ kind \in LangChain => q2 = {} \/ d2 = Yes
  /\ kind \notin LangChain => \/ q2 = {} \/ q2 = q
                              \/ kind \in Managers /\ Fewer(q, q2)
                              \/ how = "failed" /\ kind \in FailByModeA

EndsTo(kind, how, i, prev, made, d, n, b, k, q, r, e, h, c) ==
  \E d2, q2, r2 :
    /\ made = Of({}, d2, IF kind \in LangChain THEN Pred(n) ELSE n, b, k, q2, r2, e, h)
    /\ d2 = EndDefer(kind, i, prev, d, n, b)
    /\ EndsWith(kind, how, i, c, q, r, d2, q2, r2)

\* The witness of how a stream ends.
LEMMA EndsBy ==
  ASSUME NEW kind, NEW how, NEW i, NEW prev, NEW made, NEW d, NEW n, NEW b, NEW k, NEW q, NEW r,
         NEW e, NEW h, NEW c, NEW d2, NEW q2, NEW r2, NEW n2,
         n2 = IF kind \in LangChain THEN Pred(n) ELSE n,
         made = Of({}, d2, n2, b, k, q2, r2, e, h), d2 = EndDefer(kind, i, prev, d, n, b),
         EndsWith(kind, how, i, c, q, r, d2, q2, r2)
  PROVE  EndsTo(kind, how, i, prev, made, d, n, b, k, q, r, e, h, c)
BY DEF EndsTo

\* Which way each kind of stream ends.
LEMMA FinishedIs ==
  ASSUME NEW s, NEW c, NEW how, NEW spanned,
         ~call[c].through, NEW kind \in AllKinds \ Embeddings,
         call[c].kind = kind, NEW ended, ended = InnerEnd(s, c, call[c].inner, how, spanned)
  PROVE  /\ kind = "modea" => Finished(s, c, how, spanned) = ended
         /\ kind = "manual" => Finished(s, c, how, spanned) = StreamRow(s, c, how)
         /\ kind = "litellm" => Finished(s, c, how, spanned) = LiteLLMEnd(s, c, how, spanned)
         /\ kind \in LangChain => Finished(s, c, how, spanned) = LcEnd(s, c, how, spanned)
         /\ kind \in LiKinds => Finished(s, c, how, spanned) = LiFinish(ended, c)
         /\ kind = "pydantic" => Finished(s, c, how, spanned) = PydanticExit(s, c, how, spanned)
         /\ kind \in AgnoKinds => Finished(s, c, how, spanned) = AgnoEnd(s, c, how, spanned)
         /\ kind \in Managers => Finished(s, c, how, spanned) = ManagerExit(s, c, how)
BY DEF Finished, LangChain, LiKinds, AgnoKinds, Managers

\* A stream that is not closed early has a row.
LEMMA StreamRowOf ==
  ASSUME NEW g, NEW d, NEW n, NEW b, NEW k, NEW q, NEW r, NEW e, NEW h, NEW c, NEW how
  PROVE  StreamRow(Of(g, d, n, b, k, q, r, e, h), c, how) =
           Of(g, d, n, b, k, q, IF how = "closed" THEN r ELSE Plus(r, c), e, h)
BY RowOf DEF StreamRow

\* What the end of a stream that the Mode-A wrapper took leaves in the books.
LEMMA TakenSettled ==
  ASSUME NEW kind \in FailByModeA, NEW how \in Hows, NEW spanned, HowSpanned(how, spanned),
         NEW i, i.order # None, NEW c, NEW q, NEW r,
         NEW q1, q1 = Ended(q, c, i.order, spanned)
  PROVE  EndsWith(kind, how, i, c, q, r, i.prev, Spent(q1, how), Logged(r, q1, c, how))
<1>1. q1 = With(q, c, i.order) \/ (how # "done" /\ q1 = q)
  BY HowEnded
<1>2. kind \notin LangChain
  BY DEF FailByModeA, LangChain
<1>3. CASE how = "failed"
  BY <1>1, <1>2, <1>3 DEF EndsWith, Settled, Spent, Logged
<1>4. CASE how # "failed"
  BY <1>1, <1>2, <1>4 DEF EndsWith, Settled, Spent, Logged
<1>5. QED
  BY <1>3, <1>4

\* A provider's stream ends.
LEMMA EndModea ==
  ASSUME NEW n, NEW b, NEW k, NEW q, NEW r, NEW e, NEW h, NEW c \in Calls, Numbered(r, c),
         NEW prev, NEW how \in Hows, NEW spanned, HowSpanned(how, spanned),
         NEW i, i.order # None, i.taken,
         NEW s, s = Of({}, Yes, n, b, k, q, r, e, h), NEW t, t = InnerEnd(s, c, i, how, spanned)
  PROVE  EndsTo("modea", how, i, prev, t, Yes, n, b, k, q, r, e, h, c)
<1> DEFINE q1 == Ended(q, c, i.order, spanned)
           q2 == Spent(q1, how)
           r2 == Logged(r, q1, c, how)
<1>1. t = Of({}, i.prev, n, b, k, q2, r2, e, h)
  BY InnerTaken DEF HowSpanned
<1>2. EndsWith("modea", how, i, c, q, r, i.prev, q2, r2)
  BY TakenSettled DEF FailByModeA
<1>3. "modea" \notin LangChain /\ EndDefer("modea", i, prev, Yes, n, b) = i.prev
  BY DEF LangChain, EndDefer
<1> HIDE DEF q2, r2
<1>4. QED
  BY <1>1, <1>2, <1>3, EndsBy

\* Agno's ends as the provider's does, under Agno's guard.
LEMMA EndAgno ==
  ASSUME NEW n, NEW b, NEW k, NEW q, NEW r, NEW e, NEW h, NEW c \in Calls, Numbered(r, c),
         NEW prev, NEW how \in Hows, NEW spanned, HowSpanned(how, spanned),
         NEW i, i.order # None, i.taken, NEW kind \in AgnoKinds,
         NEW s, s = Of(Only("agno"), Yes, n, b, k, q, r, e, h),
         NEW t, t = Release(InnerEnd(s, c, i, how, spanned), "agno")
  PROVE  EndsTo(kind, how, i, prev, t, Yes, n, b, k, q, r, e, h, c)
<1> DEFINE q1 == Ended(q, c, i.order, spanned)
           q2 == Spent(q1, how)
           r2 == Logged(r, q1, c, how)
           ended == InnerEnd(s, c, i, how, spanned)
<1>1. "pydantic" \notin Only("agno") /\ "litellm" \notin Only("agno") /\ Only("agno") \ {"agno"} = {}
  BY OnlyIs DEF Only
<1>2. ended = Of(Only("agno"), i.prev, n, b, k, q2, r2, e, h)
  BY <1>1, InnerTaken DEF HowSpanned
<1>3. EndsWith(kind, how, i, c, q, r, i.prev, q2, r2)
  BY TakenSettled DEF FailByModeA, AgnoKinds
<1> HIDE DEF q2, r2
<1>4. t = Of({}, i.prev, n, b, k, q2, r2, e, h)
  BY <1>1, <1>2, ReleaseOf
<1>5. kind \notin LangChain /\ EndDefer(kind, i, prev, Yes, n, b) = i.prev
  BY DEF AgnoKinds, LangChain, EndDefer
<1>6. QED
  BY <1>3, <1>4, <1>5, EndsBy

\* Those that log a row of their own end: LiteLLM, Pydantic AI, metered by hand.
LEMMA EndLogged ==
  ASSUME NEW d, NEW n, NEW b, NEW k, NEW q, NEW r, NEW e, NEW h, NEW c \in Calls, Numbered(r, c),
         NEW prev, NEW how \in Hows, NEW spanned, NEW i, ~i.taken
  PROVE  /\ EndsTo("manual", how, i, prev, StreamRow(Of({}, d, n, b, k, q, r, e, h), c, how),
                   d, n, b, k, q, r, e, h, c)
         /\ EndsTo("litellm", how, i, prev,
                   StreamRow(Release(InnerEnd(Of(Only("litellm"), d, n, b, k, q, r, e, h),
                                     c, i, how, spanned),
                                     "litellm"), c, how), d, n, b, k, q, r, e, h, c)
         /\ EndsTo("pydantic", how, i, prev,
                   Release(InnerEnd(Row(Of(Only("pydantic"), d, n, b, k, q, r, e, h), c),
                                    c, i, how, spanned),
                           "pydantic"), d, n, b, k, q, r, e, h, c)
<1> DEFINE r2 == IF how = "closed" THEN r ELSE Plus(r, c)
           plain == Of({}, d, n, b, k, q, r, e, h)
           lite  == Of(Only("litellm"), d, n, b, k, q, r, e, h)
           pyd   == Of(Only("pydantic"), d, n, b, k, q, r, e, h)
           r3 == Plus(r, c)
<1>1. /\ \A g : Only(g) \ {g} = {}
      /\ \A kind \in {"manual", "litellm", "pydantic"} :
           /\ kind \notin LangChain /\ kind # "modea"
           /\ EndDefer(kind, i, prev, d, n, b) = d
           /\ EndsWith(kind, how, i, c, q, r, d, q, r2)
           /\ EndsWith(kind, how, i, c, q, r, d, q, r3)
  BY OnlyIs DEF LangChain, EndDefer, EndsWith, Settled, AgnoKinds, LiKinds, Managers
<1>2. StreamRow(plain, c, how) = Of({}, d, n, b, k, q, r2, e, h)
  BY StreamRowOf
<1>3. InnerEnd(lite, c, i, how, spanned) = lite
  BY InnerDropped
<1>4. Release(lite, "litellm") = plain
  BY <1>1, ReleaseOf
<1>5. Row(pyd, c) = Of(Only("pydantic"), d, n, b, k, q, r3, e, h)
  BY RowOf
<1>6. Numbered(r3, c)
  <2>1. CASE c \in DOMAIN r
    BY <2>1 DEF Plus, Numbered
  <2>2. CASE c \notin DOMAIN r
    BY <2>2 DEF Plus, Numbered
  <2>3. QED
    BY <2>1, <2>2
<1> HIDE DEF r2, plain, lite, pyd, r3
<1>7. InnerEnd(Row(pyd, c), c, i, how, spanned) = Of(Only("pydantic"), d, n, b, k, q, r3, e, h)
  BY <1>5, <1>6, InnerDropped
<1>8. Release(InnerEnd(Row(pyd, c), c, i, how, spanned), "pydantic") = Of({}, d, n, b, k, q, r3, e, h)
  BY <1>1, <1>7, ReleaseOf
<1>9. EndsTo("manual", how, i, prev, StreamRow(plain, c, how), d, n, b, k, q, r, e, h, c)
  BY <1>1, <1>2, EndsBy
<1>10. EndsTo("litellm", how, i, prev,
              StreamRow(Release(InnerEnd(lite, c, i, how, spanned), "litellm"), c, how),
              d, n, b, k, q, r, e, h, c)
  BY <1>1, <1>2, <1>3, <1>4, EndsBy
<1>11. EndsTo("pydantic", how, i, prev,
              Release(InnerEnd(Row(pyd, c), c, i, how, spanned), "pydantic"),
              d, n, b, k, q, r, e, h, c)
  BY <1>1, <1>8, EndsBy
<1>12. QED
  BY <1>9, <1>10, <1>11 DEF plain, lite, pyd

\* Nothing in the buffer has the order, so nothing of the others is dropped.
LEMMA DropsNothing ==
  ASSUME NEW q, NEW order, \A p \in q : p.order # order, NEW c
  PROVE  /\ {p \in q : p.order # order} = q
         /\ \A spanned : {p \in Ended(q, c, order, spanned) : p.order # order} = q
BY DEF Ended, With, SpanAt

\* LlamaIndex's drops the provider's span by its order and logs a row.
LEMMA EndLlamaIndex ==
  ASSUME NEW n, NEW b, NEW k, NEW q, NEW r, NEW e, NEW h, NEW c \in Calls, Numbered(r, c),
         NEW prev, prev = call[c].prev, NEW how \in Hows, NEW spanned, spanned \in {Yes, No},
         NEW i, ~i.taken,
         NEW order, order # None, i.order = order, call[c].order = order,
         \A p \in q : p.order # order, NEW kind \in LiKinds,
         NEW s, s = Of(Only("llamaindex"), Yes, n, b, k, q, r, e, h),
         NEW t, t = LiFinish(InnerEnd(s, c, i, how, spanned), c)
  PROVE  EndsTo(kind, how, i, prev, t, Yes, n, b, k, q, r, e, h, c)
<1> DEFINE x == "llamaindex"
           q2 == Ended(q, c, order, spanned)
           r2 == Plus(r, c)
           ended == InnerEnd(s, c, i, how, spanned)
<1>1. "pydantic" \notin Only(x) /\ "litellm" \notin Only(x) /\ Only(x) \ {x} = {}
  BY OnlyIs DEF Only
<1>2. ended = Of(Only(x), Yes, n, b, k, q2, r, e, h)
  BY <1>1, InnerPassed
<1>3. t = Row(DropOrder(Restore(Release(ended, x), prev), order), c)
  BY DEF LiFinish
<1>4. {p \in q2 : p.order # order} = q
  BY DropsNothing
<1> HIDE DEF ended, q2, r2
<1>5. Restore(Release(ended, x), prev) = Of({}, prev, n, b, k, q2, r, e, h)
  BY <1>1, <1>2, ReleaseOf, RestoreOf
<1>6. DropOrder(Restore(Release(ended, x), prev), order) = Of({}, prev, n, b, k, q, r, e, h)
  BY <1>4, <1>5, DropOrderOf
<1>7. t = Of({}, prev, n, b, k, q, r2, e, h)
  BY <1>3, <1>6, RowOf DEF r2
<1>8. kind \notin LangChain /\ kind # "modea" /\ EndDefer(kind, i, prev, Yes, n, b) = prev
  BY DEF LiKinds, AgnoKinds, LangChain, EndDefer
<1>9. EndsWith(kind, how, i, c, q, r, prev, q, r2)
  BY <1>8 DEF EndsWith, Settled, r2
<1>10. QED
  BY <1>7, <1>8, <1>9, EndsBy

\* What a manager's block leaves of the deferred spans.
Left(q, c) ==
  {p \in q : p \in call[c].kept \/ ~(p.order = call[c].order \/ call[p.of].pc = "failed")}

\* The drop of a manager's block.
LEMMA ManagerDropOf ==
  ASSUME NEW g, NEW d, NEW n, NEW b, NEW k, NEW q, NEW r, NEW e, NEW h, NEW c
  PROVE  ManagerDrop(Of(g, d, n, b, k, q, r, e, h), c) = Of(g, d, n, b, k, Left(q, c), r, e, h)
<1> DEFINE s == Of(g, d, n, b, k, q, r, e, h)
           rest == Left(s.buffer, c)
<1>1. s.buffer = q /\ \A x : [s EXCEPT !.buffer = x] = Of(g, d, n, b, k, x, r, e, h)
  BY DEF Of
<1>2. ManagerDrop(s, c) = [s EXCEPT !.buffer = rest]
  BY DEF ManagerDrop, Left
<1>3. rest = Left(q, c)
  BY <1>1
<1> HIDE DEF s, rest
<1>4. ManagerDrop(s, c) = Of(g, d, n, b, k, rest, r, e, h)
  BY <1>1, <1>2
<1>5. QED
  BY <1>3, <1>4 DEF s

\* A manager's block ends.
LEMMA EndManager ==
  ASSUME NEW d, NEW n, NEW b, NEW k, NEW q, NEW r, NEW e, NEW h, NEW c \in Calls,
         NEW prev, prev = call[c].prev, NEW how \in Hows, NEW i,
         NEW order, call[c].order = order, \A p \in q : p.order # order, NEW kind \in Managers,
         NEW s, s = Of({}, d, n, b, k, q, r, e, h), NEW t, t = ManagerExit(s, c, how)
  PROVE  EndsTo(kind, how, i, prev, t, d, n, b, k, q, r, e, h, c)
<1> DEFINE r2 == IF how = "failed" THEN r ELSE Plus(r, c)
           q2 == Left(q, c)
           rowed == ManagerRow(s, c, how)
<1>1. rowed = Of({}, d, n, b, k, q, r2, e, h)
  BY RowOf DEF ManagerRow
<1>2. t = ManagerDrop(Restore(rowed, prev), c)
  BY DEF ManagerExit
<1>3. Fewer(q, q2)
  BY DEF Fewer, Left
<1> HIDE DEF rowed, r2, q2
<1>4. Restore(rowed, prev) = Of({}, prev, n, b, k, q, r2, e, h)
  BY <1>1, RestoreOf
<1>5. t = Of({}, prev, n, b, k, q2, r2, e, h)
  BY <1>2, <1>4, ManagerDropOf DEF q2
<1>6. kind \notin LangChain /\ kind # "modea" /\ EndDefer(kind, i, prev, d, n, b) = prev
  BY DEF LiKinds, AgnoKinds, LangChain, Managers, EndDefer
<1>7. EndsWith(kind, how, i, c, q, r, prev, q2, r2)
  <2>1. r2 = Plus(r, c) \/ (how # "done" /\ r2 = r)
    BY DEF r2, Hows
  <2>2. QED
    BY <1>3, <1>6, <2>1 DEF EndsWith, Settled
<1>8. QED
  BY <1>5, <1>6, <1>7, EndsBy

\* A LangChain stream's end counts down; the last one sets the flag back.
LEMMA LcUnwindOf ==
  ASSUME NEW n, NEW b, b \in {Yes, No}, NEW k, NEW q, NEW r, NEW e, NEW h,
         NEW s, s = Of({}, Yes, n, b, k, q, r, e, h)
  PROVE  LcUnwind(s) =
           IF Pred(n) > 0 THEN Of({}, Yes, Pred(n), b, k, q, r, e, h)
           ELSE IF b = Yes THEN Of({}, b, Pred(n), b, k, q, r, e, h)
           ELSE Of({}, b, Pred(n), b, k, {}, Counts(r, q), e, h)
<1> DEFINE low == [s EXCEPT !.depth = @ - 1]
           up == Of({}, Yes, Pred(n), b, k, q, r, e, h)
           last == Of({}, b, Pred(n), b, k, q, r, e, h)
<1>1. LcUnwind(s) = IF low.depth > 0 THEN low ELSE FlushUnlessDeferred(Restore(low, low.base))
  BY DEF LcUnwind
<1>2. low = up
  BY DEF Of, Pred
<1>3. up.depth = Pred(n) /\ up.base = b
  BY DEF Of
<1>4. Restore(up, b) = last
  BY RestoreOf
<1>5. b = No => FlushUnlessDeferred(last) = Of({}, b, Pred(n), b, k, {}, Counts(r, q), e, h)
  BY FlushUnlessOf
<1>6. b = Yes => FlushUnlessDeferred(last) = last
  BY FlushUnlessOf
<1> HIDE DEF low, up, last
<1>7. LcUnwind(s) = IF Pred(n) > 0 THEN up ELSE FlushUnlessDeferred(last)
  BY <1>1, <1>2, <1>3, <1>4
<1>8. FlushUnlessDeferred(last) =
        IF b = Yes THEN last ELSE Of({}, b, Pred(n), b, k, {}, Counts(r, q), e, h)
  BY <1>5, <1>6
<1>9. QED
  BY <1>7, <1>8 DEF up, last

\* LangChain's counts down, and the last restores the flag and flushes.
LEMMA EndLangChain ==
  ASSUME NEW n, NEW b, b \in {Yes, No}, NEW k, NEW q, NEW r, NEW e, NEW h, NEW c \in Calls,
         Numbered(r, c), NEW prev, NEW how \in Hows, NEW spanned, HowSpanned(how, spanned),
         NEW i, i = call[c].inner, i.order # None,
         ~i.taken, NEW kind \in LangChain, call[c].kind = kind, ses.guards = {},
         NEW s, s = Of({}, Yes, n, b, k, q, r, e, h), NEW t, t = LcEnd(s, c, how, spanned)
  PROVE  EndsTo(kind, how, i, prev, t, Yes, n, b, k, q, r, e, h, c)
<1> DEFINE x    == "langchain"
           held == Hold(s, x)
           q1   == Ended(q, c, i.order, spanned)
           before == IF how = "closed" THEN InnerEnd(s, c, i, how, spanned)
                     ELSE AfterPull(InnerEnd(held, c, i, how, spanned), c)
<1>1. t = LcUnwind(before)
  BY DEF LcEnd
<1>2. \A u : AfterPull(u, c) = Release(u, x)
  BY DEF AfterPull
<1>3. held = Of(Only(x), Yes, n, b, k, q, r, e, h)
  BY HoldOf, OnlyIs
<1> HIDE DEF held
<1>4. Only(x) \ {x} = {} /\ "pydantic" \notin Only(x) /\ "litellm" \notin Only(x)
  BY OnlyIs DEF Only
<1> DEFINE inside  == InnerEnd(held, c, i, how, spanned)
           outside == InnerEnd(s, c, i, how, spanned)
<1>5. inside = Of(Only(x), Yes, n, b, k, Ended(q, c, i.order, spanned), r, e, h)
  BY <1>3, <1>4, InnerPassed DEF HowSpanned
<1>6. outside = Of({}, Yes, n, b, k, Ended(q, c, i.order, spanned), r, e, h)
  BY InnerPassed DEF HowSpanned
<1>7. before = IF how = "closed" THEN outside ELSE Release(inside, x)
  BY <1>2
<1> HIDE DEF inside, outside, before, q1
<1>8. before = Of({}, Yes, n, b, k, q1, r, e, h)
  BY <1>4, <1>5, <1>6, <1>7, ReleaseOf DEF q1
<1> DEFINE d2 == IF Pred(n) > 0 THEN Yes ELSE b
           gone == ~(Pred(n) > 0) /\ b = No
           q2 == IF gone THEN {} ELSE q1
           r2 == IF gone THEN Counts(r, q1) ELSE r
<1>9. t = Of({}, d2, Pred(n), b, k, q2, r2, e, h)
  <2>1. LcUnwind(before) =
           IF Pred(n) > 0 THEN Of({}, Yes, Pred(n), b, k, q1, r, e, h)
           ELSE IF b = Yes THEN Of({}, b, Pred(n), b, k, q1, r, e, h)
           ELSE Of({}, b, Pred(n), b, k, {}, Counts(r, q1), e, h)
    BY <1>8, LcUnwindOf
  <2>2. b = Yes \/ b = No
    OBVIOUS
  <2>3. QED
    BY <1>1, <2>1, <2>2, YesNo
<1>10. kind # "modea" /\ kind \notin AgnoKinds /\ kind \notin LiKinds \union Managers
  BY DEF LangChain, AgnoKinds, LiKinds, Managers
<1>11. d2 = EndDefer(kind, i, prev, Yes, n, b)
  BY <1>10 DEF EndDefer
<1>12. EndsWith(kind, how, i, c, q, r, d2, q2, r2)
  <2>1. q1 = With(q, c, i.order) \/ (how # "done" /\ q1 = q)
    BY HowEnded DEF q1
  <2>2. Settled(kind, c, how, i.order, q, r, q2, r2)
    BY <2>1 DEF Settled
  <2>3. q2 = {} \/ d2 = Yes
    BY YesNo
  <2>4. QED
    BY <1>10, <2>2, <2>3 DEF EndsWith
<1> HIDE DEF d2, q2, r2
<1>13. QED
  BY <1>9, <1>11, <1>12, EndsBy

\* The guard is the stream's own, telemetry is deferred if the stream defers it,
\* and no deferred span has the order it will drop.
ReadyToEnd(kind, i, d, q, order) ==
  /\ i.taken <=> kind = "modea" \/ kind \in AgnoKinds
  /\ PullDefers(kind) \/ kind \in LiKinds => d = Yes /\ i.order # None
  /\ kind \in LiKinds => i.order = order
  /\ kind \in LiKinds \union Managers => \A p \in q : p.order # order

\* The end of a stream when no guard is set but its own.
LEMMA FinishEffect ==
  ASSUME NEW d, NEW n, NEW b, b \in {Yes, No}, NEW k, NEW q, NEW r, NEW e, NEW h, NEW c \in Calls,
         Numbered(r, c), NEW how \in Hows, NEW spanned, HowSpanned(how, spanned),
         NEW kind \in AllKinds \ Embeddings, call[c].kind = kind,
         ~call[c].through, ReadyToEnd(kind, call[c].inner, d, q, call[c].order),
         ses.guards = PullHold(kind), NEW s, s = Of(PullHold(kind), d, n, b, k, q, r, e, h)
  PROVE  EndsTo(kind, how, call[c].inner, call[c].prev, Finished(s, c, how, spanned),
                d, n, b, k, q, r, e, h, c)
<1> DEFINE i == call[c].inner
           prev == call[c].prev
           order == call[c].order
           ended == InnerEnd(s, c, i, how, spanned)
           t == Finished(s, c, how, spanned)
<1>1. kind \in {"modea", "manual", "litellm", "pydantic"} \union AgnoKinds \union LiKinds
               \union LangChain \union Managers
  BY DEF AllKinds, StreamOnly, Managers, Embeddings, AgnoKinds, LiKinds, LangChain
<1>2. /\ i.taken <=> kind = "modea" \/ kind \in AgnoKinds
      /\ PullDefers(kind) \/ kind \in LiKinds => d = Yes /\ i.order # None
      /\ kind \in LiKinds => i.order = order
      /\ kind \in LiKinds \union Managers => \A p \in q : p.order # order
  BY DEF ReadyToEnd
<1>3. /\ i = call[c].inner /\ prev = call[c].prev /\ order = call[c].order
      /\ t = Finished(s, c, how, spanned)
      /\ ended = InnerEnd(s, c, i, how, spanned)
  OBVIOUS
<1>4. /\ kind = "modea" => t = ended
      /\ kind = "manual" => t = StreamRow(s, c, how)
      /\ kind = "litellm" => t = LiteLLMEnd(s, c, how, spanned)
      /\ kind \in LangChain => t = LcEnd(s, c, how, spanned)
      /\ kind \in LiKinds => t = LiFinish(ended, c)
      /\ kind = "pydantic" => t = PydanticExit(s, c, how, spanned)
      /\ kind \in AgnoKinds => t = AgnoEnd(s, c, how, spanned)
      /\ kind \in Managers => t = ManagerExit(s, c, how)
  BY FinishedIs
<1> HIDE DEF i, prev, order, ended, t
<1> SUFFICES EndsTo(kind, how, i, prev, t, d, n, b, k, q, r, e, h, c)
  BY <1>3
<1>5. CASE kind = "modea"
  <2>1. i.taken /\ i.order # None /\ d = Yes /\ PullHold(kind) = {}
    BY <1>2, <1>5 DEF PullDefers, PullHold, LiKinds, AgnoKinds
  <2>2. s = Of({}, Yes, n, b, k, q, r, e, h) /\ t = InnerEnd(s, c, i, how, spanned)
    BY <1>3, <1>4, <1>5, <2>1
  <2>3. EndsTo("modea", how, i, prev, t, Yes, n, b, k, q, r, e, h, c)
    BY <2>1, <2>2, EndModea
  <2>4. QED
    BY <1>5, <2>1, <2>3
<1>6. CASE kind \in AgnoKinds
  <2>1. i.taken /\ i.order # None /\ d = Yes /\ PullHold(kind) = Only("agno")
    BY <1>2, <1>6 DEF PullDefers, PullHold, LiKinds, AgnoKinds
  <2>2. /\ s = Of(Only("agno"), Yes, n, b, k, q, r, e, h)
        /\ t = Release(InnerEnd(s, c, i, how, spanned), "agno")
    BY <1>3, <1>4, <1>6, <2>1 DEF AgnoEnd
  <2>3. EndsTo(kind, how, i, prev, t, Yes, n, b, k, q, r, e, h, c)
    BY <1>6, <2>1, <2>2, EndAgno
  <2>4. QED
    BY <2>1, <2>3
<1>7. CASE kind \in {"manual", "litellm", "pydantic"}
  <2>1. ~i.taken
    BY <1>2, <1>7 DEF AgnoKinds
  <2>2. PullHold(kind) = IF kind = "manual" THEN {} ELSE Only(kind)
    BY <1>7 DEF PullHold, LiKinds, AgnoKinds
  <2>3. kind = "manual" => t = StreamRow(Of({}, d, n, b, k, q, r, e, h), c, how)
    BY <1>4, <2>2
  <2>4. kind = "litellm" =>
          t = StreamRow(Release(InnerEnd(Of(Only("litellm"), d, n, b, k, q, r, e, h),
                                     c, i, how, spanned),
                                "litellm"), c, how)
    BY <1>3, <1>4, <2>2 DEF LiteLLMEnd
  <2>5. kind = "pydantic" =>
          t = Release(InnerEnd(Row(Of(Only("pydantic"), d, n, b, k, q, r, e, h), c),
                                    c, i, how, spanned),
                      "pydantic")
    BY <1>3, <1>4, <2>2 DEF PydanticExit
  <2>6. QED
    BY <1>7, <2>1, <2>3, <2>4, <2>5, EndLogged
<1>8. CASE kind \in LangChain
  <2>1. ~i.taken /\ i.order # None /\ d = Yes /\ PullHold(kind) = {}
    BY <1>2, <1>8 DEF PullDefers, PullHold, LiKinds, AgnoKinds, LangChain
  <2>2. s = Of({}, Yes, n, b, k, q, r, e, h) /\ ses.guards = {}
    BY <2>1
  <2>3. EndsTo(kind, how, i, prev, t, Yes, n, b, k, q, r, e, h, c)
    BY <1>3, <1>4, <1>8, <2>1, <2>2, EndLangChain
  <2>4. QED
    BY <2>1, <2>3
<1>9. CASE kind \in LiKinds
  <2>1. /\ ~i.taken /\ i.order # None /\ d = Yes /\ PullHold(kind) = Only("llamaindex")
        /\ i.order = order /\ order # None /\ \A p \in q : p.order # order
    BY <1>2, <1>9 DEF PullHold, LiKinds, AgnoKinds
  <2>2. /\ s = Of(Only("llamaindex"), Yes, n, b, k, q, r, e, h)
        /\ t = LiFinish(InnerEnd(s, c, i, how, spanned), c)
    BY <1>3, <1>4, <1>9, <2>1
  <2>3. EndsTo(kind, how, i, prev, t, Yes, n, b, k, q, r, e, h, c)
    BY <1>3, <1>9, <2>1, <2>2, EndLlamaIndex DEF HowSpanned
  <2>4. QED
    BY <2>1, <2>3
<1>10. CASE kind \in Managers
  <2>1. PullHold(kind) = {} /\ \A p \in q : p.order # order
    BY <1>2, <1>10 DEF PullHold, LiKinds, AgnoKinds, Managers
  <2>2. s = Of({}, d, n, b, k, q, r, e, h) /\ t = ManagerExit(s, c, how)
    BY <1>4, <1>10, <2>1
  <2>3. QED
    BY <1>3, <1>10, <2>1, <2>2, EndManager
<1>11. QED
  BY <1>1, <1>5, <1>6, <1>7, <1>8, <1>9, <1>10

-----------------------------------------------------------------------------
(* The other steps.                                                         *)

\* A LlamaIndex stream that could not be opened has a row of its own.
LEMMA FailOpenEffect ==
  ASSUME NEW d, NEW n, NEW b, NEW k, k \in Nat, NEW q, \A p \in q : p.order # k, NEW r, NEW e,
         NEW h, NEW c, NEW spanned, spanned \in {Yes, No},
         NEW s, s = Of({}, d, n, b, k, q, r, e, h)
  PROVE  Row(DropOrder(Restore(Release(ProviderCall(LiEnter(s, c), c, No, spanned), "llamaindex"),
                               s.defer), s.counter), c) =
           Of({}, d, n, b, Succ(k), q, Plus(r, c), e, Plus(h, c))
<1> DEFINE x == "llamaindex"
           entered == LiEnter(s, c)
           made == ProviderCall(entered, c, No, spanned)
           back == Restore(Release(made, x), d)
           q2 == Ended(q, c, k, spanned)
<1>1. s.defer = d /\ s.counter = k
  BY DEF Of
<1>2. {} \union {x} = Only(x) /\ Only(x) \ {x} = {} /\ k # None
  BY OnlyIs, SuccNat
<1>3. entered = Of(Only(x), Yes, n, b, k, q, r, e, Plus(h, c))
  <2>1. Check(s, c, x) = Of({}, d, n, b, k, q, r, e, Plus(h, c))
    BY ChecksAlways
  <2>2. entered = Hold(Restore(Check(s, c, x), Yes), x)
    BY DEF LiEnter, Yes
  <2>3. Restore(Check(s, c, x), Yes) = Of({}, Yes, n, b, k, q, r, e, Plus(h, c))
    BY <2>1, RestoreOf
  <2> HIDE DEF entered
  <2>4. QED
    BY <1>2, <2>2, <2>3, HoldOf
<1> HIDE DEF entered
<1>4. made = Of(Only(x), Yes, n, b, Succ(k), q2, r, e, Plus(h, c))
  BY <1>2, <1>3, ProviderGuarded
<1>5. ProviderCall(LiEnter(s, c), c, No, spanned) = made
  BY DEF entered
<1> HIDE DEF made, q2
<1>6. back = Of({}, d, n, b, Succ(k), q2, r, e, Plus(h, c))
  BY <1>2, <1>4, ReleaseOf, RestoreOf
<1>7. {p \in q2 : p.order # k} = q
  BY DropsNothing DEF q2
<1> HIDE DEF back
<1>8. DropOrder(back, k) = Of({}, d, n, b, Succ(k), q, r, e, Plus(h, c))
  BY <1>6, <1>7, DropOrderOf
<1>9. Row(DropOrder(back, k), c) = Of({}, d, n, b, Succ(k), q, Plus(r, c), e, Plus(h, c))
  BY <1>8, RowOf
<1>10. QED
  BY <1>1, <1>5, <1>9 DEF back

\* Making a manager, and entering its block.
LEMMA ManagerEffect ==
  ASSUME NEW d, NEW n, NEW b, NEW k, NEW q, NEW r, NEW e, NEW h, NEW c,
         NEW s, s = Of({}, d, n, b, k, q, r, e, h), NEW kind \in Managers,
         NEW h2, h2 = IF kind = "managerAsync" THEN Plus(h, c) ELSE h
  PROVE  /\ kind = "manager" => Check(s, c, kind) = Of({}, d, n, b, k, q, r, e, Plus(h, c))
         /\ Entered(s, c, kind) = Of({}, d, n, b, k, q, r, e, h2)
         /\ NextOrder(Entered(s, c, kind)) = Of({}, d, n, b, Succ(k), q, r, e, h2)
         /\ Restore(NextOrder(Entered(s, c, kind)), Yes) =
              Of({}, Yes, n, b, Succ(k), q, r, e, h2)
         /\ EnterFailed(NextOrder(Entered(s, c, kind)), c) =
              Of({}, d, n, b, Succ(k), q, Plus(r, c), e, h2)
<1>1. Check(s, c, kind) = Of({}, d, n, b, k, q, r, e, Plus(h, c))
  BY ChecksAlways
<1> DEFINE entered == Entered(s, c, kind)
           next == NextOrder(entered)
<1>2. entered = Of({}, d, n, b, k, q, r, e, h2)
  BY <1>1 DEF Entered
<1> HIDE DEF entered
<1>3. next = Of({}, d, n, b, Succ(k), q, r, e, h2)
  BY <1>2, NextOrderOf
<1> HIDE DEF next
<1>4. Restore(next, Yes) = Of({}, Yes, n, b, Succ(k), q, r, e, h2)
  BY <1>3, RestoreOf
<1>5. EnterFailed(next, c) = Of({}, d, n, b, Succ(k), q, Plus(r, c), e, h2)
  BY <1>3, RowOf DEF EnterFailed
<1>6. QED
  BY <1>1, <1>2, <1>3, <1>4, <1>5 DEF entered, next

\* A stream that is dropped lets go of the guard if it held one.
LEMMA DropEffect ==
  ASSUME NEW d, NEW n, NEW b, NEW k, NEW q, NEW r, NEW e, NEW h, NEW kind,
         kind \notin {"llamaindex", "liAsync", "pydantic"},
         NEW s, s = Of(OpenHold(kind), d, n, b, k, q, r, e, h)
  PROVE  (IF kind = "agno" THEN Release(s, "agno") ELSE s) = Of({}, d, n, b, k, q, r, e, h)
<1>1. CASE kind = "agno"
  <2>1. OpenHold(kind) = Only("agno") /\ Only("agno") \ {"agno"} = {}
    BY <1>1, OnlyIs DEF OpenHold
  <2>2. QED
    BY <1>1, <2>1, ReleaseOf
<1>2. CASE kind # "agno"
  BY <1>2 DEF OpenHold
<1>3. QED
  BY <1>1, <1>2

-----------------------------------------------------------------------------
(* What the proofs assume of the application: it leaves alone the streams   *)
(* of the frameworks that keep a guard, and pulls those that would not give *)
(* back what they set.                                                      *)
Orderly == Holders \subseteq Solo /\ Dropped \intersect {"llamaindex", "liAsync", "pydantic"} = {}

\* Of each call: no wrapper passes it through; the request is made when its kind
\* makes it, and the provider's span has what its end will look for.
Sound(m) ==
  /\ ~m.through
  /\ m.pc = "open" => /\ m.sent \in EagerChoices(m.kind)
                      /\ m.inner.taken <=> m.kind = "modea"
                      /\ m.kind = "modea" => m.inner.order # None
                      /\ m.kind \in LiKinds /\ m.sent => m.inner.order = m.order
  /\ m.pc = "pulled" => /\ m.sent
                        /\ m.inner.taken <=> m.kind = "modea" \/ m.kind \in AgnoKinds
                        /\ PullDefers(m.kind) \/ m.kind \in LiKinds => m.inner.order # None
                        /\ m.kind \in LiKinds => m.inner.order = m.order
  /\ m.kind \in LiKinds /\ m.pc \in {"open", "pulled"} => m.order # None
  /\ m.kind \in Managers /\ m.pc = "pulled" => m.order # None

\* The guard a call's wrapper holds, and the checks it has made.
HeldBy(m) ==
  IF m.pc = "open" THEN OpenHold(m.kind) ELSE IF m.pc = "pulled" THEN PullHold(m.kind) ELSE {}
Due(m) ==
  IF m.sent THEN 1
  ELSE IF m.pc = "new" \/ m.kind \in Lazy \/ m.kind = "managerAsync" THEN 0 ELSE 1

Guarded == \A g : g \in ses.guards <=> \E c \in Calls : g \in HeldBy(call[c])
ChecksDue == \A c \in Calls : ses.checks[c] = Due(call[c])
SoundCalls == \A c \in Calls : Sound(call[c])

\* A step of one call leaves the others alone.
Moves(c, m) == call' = [call EXCEPT ![c] = m]

\* The call has its new locals, the others their old.
LEMMA MoveOthers ==
  ASSUME TInv, NEW c \in Calls, NEW m, Moves(c, m)
  PROVE  call'[c] = m /\ \A x \in Calls : x # c => call'[x] = call[x]
BY DEF Moves, TInv, TypeOK

\* Soundness is kept by a step that keeps it for its call.
LEMMA SoundStep ==
  ASSUME TInv, SoundCalls, NEW c \in Calls, NEW m, Moves(c, m), Sound(m) PROVE SoundCalls'
BY MoveOthers DEF SoundCalls

\* Nobody else holds a guard while the call takes a step.
LEMMA HoldersHold ==
  ASSUME TInv, Orderly, NEW c \in Calls, call[c].kind \notin Solo \/ c \notin Live
  PROVE  HeldBy(call[c]) = {}
<1>1. CASE c \notin Live
  BY <1>1 DEF HeldBy, Live
<1>2. CASE call[c].kind \notin Solo
  <2>1. call[c].kind \notin Holders
    BY <1>2 DEF Orderly
  <2>2. QED
    BY <2>1 DEF HeldBy, OpenHold, PullHold, Holders, LiKinds, AgnoKinds
<1>3. QED
  BY <1>1, <1>2

\* The guards that are set are those the call itself holds.
LEMMA GuardsOwn ==
  ASSUME TInv, Orderly, Guarded, NEW c \in Calls, (MayCall /\ c \notin Live) \/ MayStep(c)
  PROVE  /\ \A x \in Calls : x # c => HeldBy(call[x]) = {}
         /\ ses.guards = HeldBy(call[c])
<1>1. \A x \in Calls : x # c => HeldBy(call[x]) = {}
  BY HoldersHold DEF MayCall, MayStep
<1>2. \A g : g \in ses.guards <=> g \in HeldBy(call[c])
  BY <1>1 DEF Guarded
<1>3. QED
  BY <1>1, <1>2

\* The guards are right after a step that leaves those its call holds.
LEMMA GuardsStep ==
  ASSUME TInv, NEW c \in Calls, NEW m, Moves(c, m),
         \A x \in Calls : x # c => HeldBy(call[x]) = {}, ses'.guards = HeldBy(m)
  PROVE  Guarded'
<1>1. call'[c] = m /\ \A x \in Calls : x # c => call'[x] = call[x]
  BY MoveOthers
<1>2. \A x \in Calls : HeldBy(call'[x]) = IF x = c THEN HeldBy(m) ELSE {}
  BY <1>1
<1>3. QED
  BY <1>2 DEF Guarded

\* The checks are right after a step that checks when it becomes due.
LEMMA ChecksStep ==
  ASSUME TInv, ChecksDue, NEW c \in Calls, NEW m, Moves(c, m),
         \/ ses'.checks = ses.checks /\ Due(m) = Due(call[c])
         \/ ses'.checks = Plus(ses.checks, c) /\ Due(m) = 1 /\ Due(call[c]) = 0
  PROVE  ChecksDue'
<1>1. ses.checks \in [Calls -> Nat]
  BY DEF TInv, TypeOK, Session
<1>2. call'[c] = m /\ \A x \in Calls : x # c => call'[x] = call[x]
  BY MoveOthers
<1>3. \A x \in Calls : ses'.checks[x] = IF x = c THEN Due(m) ELSE ses.checks[x]
  BY <1>1 DEF Plus, ChecksDue
<1>4. QED
  BY <1>2, <1>3 DEF ChecksDue

-----------------------------------------------------------------------------
(* Which streams are older than which.                                      *)

\* Only what has been called can be older; of two open streams one is.
OlderKnown ==
  /\ \A x, y \in Calls : x \in call[y].older => call[x].pc \notin {"new", "built"} /\ x # y
  /\ \A x, y \in Live : x # y => (x \in call[y].older <=> y \notin call[x].older)

\* A call takes a step when it is its turn.
Turn(c) == (MayCall /\ call[c].pc \in {"new", "built"}) \/ (MayStep(c) /\ c \in Live)

\* Which streams are open after a step.
LEMMA LiveMoves ==
  ASSUME TInv, NEW c \in Calls, NEW m, Moves(c, m)
  PROVE  \A x \in Calls : x \in Live' <=> IF x = c THEN m.pc \in {"open", "pulled"} ELSE x \in Live
BY MoveOthers DEF Live

\* A call that opens a stream, or is over at once, finds the open streams older.
LEMMA OlderEnter ==
  ASSUME TInv, OlderKnown, NEW c \in Calls, NEW m, Moves(c, m), call[c].pc \in {"new", "built"},
         m.pc \notin {"new", "built"}, m.older = Live
  PROVE  OlderKnown'
<1>1. call'[c] = m /\ \A x \in Calls : x # c => call'[x] = call[x]
  BY MoveOthers
<1>2. c \notin Live /\ \A y \in Calls : c \notin call[y].older
  BY DEF OlderKnown, Live
<1>3. \A x \in Live : call[x].pc \notin {"new", "built"} /\ x \in Calls
  BY DEF Live
<1>4. \A x, y \in Calls : x \in call'[y].older => call'[x].pc \notin {"new", "built"} /\ x # y
  BY <1>1, <1>2, <1>3 DEF OlderKnown
<1>5. Live' \subseteq Calls
  BY DEF Live
<1>6. ASSUME NEW x \in Live', NEW y \in Live', x # y
      PROVE  x \in call'[y].older <=> y \notin call'[x].older
  <2>1. (x # c => x \in Live) /\ (y # c => y \in Live) /\ x \in Calls /\ y \in Calls
    BY <1>5, LiveMoves
  <2>2. CASE x = c
    BY <1>1, <1>2, <1>6, <2>1, <2>2
  <2>3. CASE y = c
    BY <1>1, <1>2, <1>6, <2>1, <2>3
  <2>4. CASE x # c /\ y # c
    BY <1>1, <1>6, <2>1, <2>4 DEF OlderKnown
  <2>5. QED
    BY <2>2, <2>3, <2>4
<1>7. QED
  BY <1>4, <1>6 DEF OlderKnown

\* A step that keeps what its call found open, and opens nothing.
LEMMA OlderKeep ==
  ASSUME TInv, OlderKnown, NEW c \in Calls, NEW m, Moves(c, m), m.older = call[c].older,
         m.pc \in {"new", "built"} => call[c].pc \in {"new", "built"},
         m.pc \in {"open", "pulled"} => c \in Live
  PROVE  OlderKnown'
<1>1. call'[c] = m /\ \A x \in Calls : x # c => call'[x] = call[x]
  BY MoveOthers
<1>2. \A x \in Calls : call'[x].older = call[x].older
                       /\ (call'[x].pc \in {"new", "built"} => call[x].pc \in {"new", "built"})
  BY <1>1
<1>3. \A x \in Live' : x \in Calls /\ x \in Live
  BY LiveMoves DEF Live
<1>4. \A x, y \in Calls : x \in call'[y].older => call'[x].pc \notin {"new", "built"} /\ x # y
  BY <1>2 DEF OlderKnown
<1>5. \A x, y \in Live' : x # y => (x \in call'[y].older <=> y \notin call'[x].older)
  BY <1>2, <1>3 DEF OlderKnown
<1>6. QED
  BY <1>4, <1>5 DEF OlderKnown

\* An open stream that is not LangChain's is older than the call whose turn it
\* is; the call is older than none such.
LEMMA TurnUnseen ==
  ASSUME OlderKnown, NEW c \in Calls, Turn(c), NEW y \in Live, y # c,
         call[y].kind \notin LangChain \/ call[c].kind \notin LangChain
                                       \/ call[c].pc \in {"new", "built"}
  PROVE  c \notin call[y].older /\ (c \in Live => y \in call[c].older)
<1>1. y \in Calls
  BY DEF Live
<1>2. CASE call[c].pc \in {"new", "built"}
  BY <1>1, <1>2 DEF OlderKnown, Live
<1>3. CASE call[c].pc \notin {"new", "built"}
  <2>1. MayStep(c) /\ c \in Live
    BY <1>3 DEF Turn
  <2>2. ~({call[c].kind, call[y].kind} \subseteq LangChain)
    BY <1>3
  <2>3. c \notin call[y].older
    BY <2>1, <2>2 DEF MayStep
  <2>4. QED
    BY <2>1, <2>3 DEF OlderKnown
<1>4. QED
  BY <1>2, <1>3

\* The streams of the frameworks that keep a guard have the application's attention.
LEMMA TurnAlone ==
  ASSUME Orderly, NEW c \in Calls, Turn(c), NEW y \in Live, y # c
  PROVE  call[y].kind \notin Holders
<1>1. c \notin Live => MayCall
  BY DEF Turn, Live
<1>2. call[y].kind \notin Solo
  BY <1>1 DEF Turn, MayCall, MayStep
<1>3. QED
  BY <1>2 DEF Orderly

-----------------------------------------------------------------------------
(* Telemetry is deferred while some stream defers it; a stream remembers     *)
(* whether an older one does.                                               *)

Defers(m) ==
  \/ m.pc = "pulled" /\ (PullDefers(m.kind) \/ m.kind \in Managers)
  \/ m.pc \in {"open", "pulled"} /\ m.kind \in LiKinds
Deferring == {x \in Calls : Defers(call[x])}

DeferKnown == ses.defer <=> Deferring # {}

\* Where a stream keeps the flag as it found it.
InnerPrev(m) ==
  \/ m.pc \in {"open", "pulled"} /\ m.kind = "modea"
  \/ m.pc = "pulled" /\ m.kind \in AgnoKinds
OuterPrev(m) ==
  \/ m.pc \in {"open", "pulled"} /\ m.kind \in LiKinds
  \/ m.pc = "pulled" /\ m.kind \in Managers
HasPrev(m) == InnerPrev(m) \/ OuterPrev(m)
PrevOf(m)  == IF OuterPrev(m) THEN m.prev ELSE m.inner.prev

PrevKnown ==
  \A y \in Calls : HasPrev(call[y]) => (PrevOf(call[y]) <=> Deferring \intersect call[y].older # {})

\* What defers is open; what notes the flag is open and not LangChain's.
LEMMA DeferringLive ==
  /\ Deferring \subseteq Live /\ Live \subseteq Calls
  /\ \A x \in Calls : HasPrev(call[x]) => x \in Live /\ call[x].kind \notin LangChain
BY DEF Deferring, Defers, Live, HasPrev, InnerPrev, OuterPrev, LangChain, AgnoKinds, LiKinds,
       Managers

\* Which calls defer after a step.
LEMMA DeferringMoves ==
  ASSUME TInv, NEW c \in Calls, NEW m, Moves(c, m)
  PROVE  \A x : x \in Deferring' <=> x \in Calls /\ IF x = c THEN Defers(m) ELSE x \in Deferring
BY MoveOthers DEF Deferring

\* What the other streams remember stays true.
LEMMA PrevStep ==
  ASSUME TInv, OlderKnown, PrevKnown, NEW c \in Calls, Turn(c), NEW m, Moves(c, m),
         HasPrev(m) => (PrevOf(m) <=> Deferring' \intersect m.older # {})
  PROVE  PrevKnown'
<1>1. call'[c] = m /\ \A x \in Calls : x # c => call'[x] = call[x]
  BY MoveOthers
<1>2. ASSUME NEW y \in Calls, y # c, HasPrev(call[y])
      PROVE  PrevOf(call[y]) <=> Deferring' \intersect call[y].older # {}
  <2>1. c \notin call[y].older
    BY <1>2, DeferringLive, TurnUnseen
  <2>2. Deferring' \intersect call[y].older = Deferring \intersect call[y].older
    BY <2>1, DeferringMoves DEF Deferring
  <2>3. QED
    BY <1>2, <2>2 DEF PrevKnown
<1>3. QED
  BY <1>1, <1>2 DEF PrevKnown

\* A stream that notes the flag when it enters.
LEMMA PrevTaken ==
  ASSUME TInv, OlderKnown, DeferKnown, PrevKnown, NEW c \in Calls, Turn(c), NEW m, Moves(c, m),
         HasPrev(m), PrevOf(m) = ses.defer, c \notin Deferring,
         m.older = IF c \in Live THEN call[c].older ELSE Live,
         c \in Live => call[c].kind \notin LangChain
  PROVE  PrevKnown'
<1>1. Deferring \subseteq m.older
  BY DeferringLive, TurnUnseen
<1>2. c \notin m.older
  BY DEF OlderKnown
<1>3. Deferring' \intersect m.older = Deferring
  BY <1>1, <1>2, DeferringMoves, DeferringLive
<1>4. QED
  BY <1>3, PrevStep DEF DeferKnown

\* A stream that keeps what it noted, or has noted nothing.
LEMMA PrevKept ==
  ASSUME TInv, OlderKnown, PrevKnown, NEW c \in Calls, Turn(c), NEW m, Moves(c, m),
         HasPrev(m) => HasPrev(call[c]) /\ PrevOf(m) = PrevOf(call[c]) /\ m.older = call[c].older
  PROVE  PrevKnown'
<1>1. ASSUME HasPrev(m) PROVE PrevOf(m) <=> Deferring' \intersect m.older # {}
  <2>1. c \notin call[c].older
    BY DEF OlderKnown
  <2>2. Deferring' \intersect m.older = Deferring \intersect call[c].older
    BY <1>1, <2>1, DeferringMoves DEF Deferring
  <2>3. QED
    BY <1>1, <2>2 DEF PrevKnown
<1>2. QED
  BY <1>1, PrevStep

\* The flag follows the streams that defer.
LEMMA DeferStep ==
  ASSUME TInv, OlderKnown, DeferKnown, PrevKnown, NEW c \in Calls, Turn(c), NEW m, Moves(c, m),
         \/ ses'.defer = ses.defer /\ (Defers(m) <=> Defers(call[c]))
         \/ ses'.defer /\ Defers(m)
         \/ /\ ~Defers(m) /\ HasPrev(call[c]) /\ Defers(call[c])
            /\ ses'.defer = PrevOf(call[c])
  PROVE  DeferKnown'
<1>1. CASE ses'.defer = ses.defer /\ (Defers(m) <=> Defers(call[c]))
  <2>1. Deferring' = Deferring
    BY <1>1, DeferringMoves DEF Deferring
  <2>2. QED
    BY <1>1, <2>1 DEF DeferKnown
<1>2. CASE ses'.defer /\ Defers(m)
  <2>1. c \in Deferring'
    BY <1>2, DeferringMoves
  <2>2. QED
    BY <1>2, <2>1 DEF DeferKnown
<1>3. CASE ~Defers(m) /\ HasPrev(call[c]) /\ ses'.defer = PrevOf(call[c])
  <2>1. c \in Live /\ call[c].kind \notin LangChain
    BY <1>3, DeferringLive
  <2>2. \A x \in Deferring : x # c => x \in call[c].older
    BY <2>1, DeferringLive, TurnUnseen
  <2>3. c \notin call[c].older
    BY DEF OlderKnown
  <2>4. Deferring' = Deferring \intersect call[c].older
    BY <1>3, <2>2, <2>3, DeferringMoves, DeferringLive
  <2>5. QED
    BY <1>3, <2>4 DEF DeferKnown, PrevKnown
<1>4. QED
  BY <1>1, <1>2, <1>3

-----------------------------------------------------------------------------
(* What the first LangChain stream noted: whether a stream older than every  *)
(* LangChain stream being pulled defers.                                    *)

Base == {x \in Deferring : call[x].kind \notin LangChain /\ \A z \in LcPulled : x \in call[z].older}
BaseKnown == LcPulled # {} => (ses.base <=> Base # {})

\* LangChain streams being pulled are open.
LEMMA LcPulledLive == LcPulled \subseteq Live /\ \A z \in LcPulled : call[z].kind \in LangChain
BY DEF LcPulled, Live

\* Which they are after a step.
LEMMA LcPulledMoves ==
  ASSUME TInv, NEW c \in Calls, NEW m, Moves(c, m)
  PROVE  \A x : x \in LcPulled' <=>
           x \in Calls /\ IF x = c THEN m.pc = "pulled" /\ m.kind \in LangChain /\ ~m.through
                          ELSE x \in LcPulled
BY MoveOthers DEF LcPulled

\* The kind of a call is known once it is made, and so is what it found open.
Settling(c, m) ==
  call[c].pc \notin {"new", "built"} => m.kind = call[c].kind /\ m.older = call[c].older

\* While some LangChain stream is pulled before and after a step, what was deferred
\* under all of them stays what it was.
LEMMA BaseSame ==
  ASSUME TInv, OlderKnown, NEW c \in Calls, Turn(c), NEW m, Moves(c, m), Settling(c, m),
         LcPulled # {}, LcPulled' # {},
         call[c].pc \in {"new", "built"} => ~(m.pc = "pulled" /\ m.kind \in LangChain)
  PROVE  Base' = Base
<1>1. call'[c] = m /\ \A x \in Calls : x # c => call'[x] = call[x]
  BY MoveOthers
<1>2. c \notin Base
  <2>1. SUFFICES ASSUME c \in Base PROVE FALSE
    OBVIOUS
  <2>2. PICK z \in LcPulled : c \in call[z].older
    BY <2>1 DEF Base
  <2>3. z \in Live /\ call[c].kind \notin LangChain
    BY <2>1, LcPulledLive DEF Base
  <2>4. z # c
    BY <2>3, LcPulledLive
  <2>5. QED
    BY <2>2, <2>3, <2>4, TurnUnseen
<1>3. c \notin Base'
  <2>1. SUFFICES ASSUME c \in Base' PROVE FALSE
    OBVIOUS
  <2>2. m.kind \notin LangChain
    BY <1>1, <2>1 DEF Base
  <2>3. PICK z \in LcPulled' : c \in call'[z].older
    BY <2>1 DEF Base
  <2>4. z # c /\ z \in LcPulled /\ z \in Calls
    BY <2>2, LcPulledMoves DEF LcPulled
  <2>5. z \in Live /\ c \in call[z].older
    BY <1>1, <2>3, <2>4, LcPulledLive
  <2>6. call[c].kind \notin LangChain \/ call[c].pc \in {"new", "built"}
    BY <2>2 DEF Settling
  <2>7. QED
    BY <2>4, <2>5, <2>6, TurnUnseen
<1>4. ASSUME NEW x \in Deferring, x # c, call[x].kind \notin LangChain
      PROVE  (\A z \in LcPulled : x \in call[z].older) <=> (\A z \in LcPulled' : x \in call'[z].older)
  <2>1. x \in Live
    BY DeferringLive
  <2>2. c \in LcPulled => x \in call[c].older
    BY <1>4, <2>1, LcPulledLive, TurnUnseen
  <2>3. c \in LcPulled' => x \in m.older
    <3>1. SUFFICES ASSUME c \in LcPulled' PROVE x \in m.older
      OBVIOUS
    <3>2. call[c].pc \notin {"new", "built"}
      BY <3>1, LcPulledMoves
    <3>3. c \in Live /\ m.older = call[c].older
      BY <3>2 DEF Turn, Settling
    <3>4. QED
      BY <1>4, <2>1, <3>3, TurnUnseen
  <2>4. \A z : z # c => (z \in LcPulled' <=> z \in LcPulled)
    BY LcPulledMoves DEF LcPulled
  <2>5. \A z \in LcPulled : z # c => call'[z].older = call[z].older
    BY <1>1 DEF LcPulled
  <2>6. QED
    BY <1>1, <2>2, <2>3, <2>4, <2>5
<1>5. \A x : x # c => (x \in Deferring' <=> x \in Deferring)
  BY DeferringMoves DEF Deferring
<1>6. \A x \in Deferring : x # c => call'[x].kind = call[x].kind
  BY <1>1 DEF Deferring
<1>7. \A x : x # c => (x \in Base' <=> x \in Base)
  BY <1>4, <1>5, <1>6 DEF Base
<1>8. QED
  BY <1>2, <1>3, <1>7

\* A stream that is not LangChain's, or is not pulled yet.
LEMMA BaseAside ==
  ASSUME TInv, OlderKnown, BaseKnown, NEW c \in Calls, Turn(c), NEW m, Moves(c, m),
         Settling(c, m), ~(m.pc = "pulled" /\ m.kind \in LangChain),
         ses'.base = ses.base
  PROVE  BaseKnown'
<1>1. LcPulled' # {} => LcPulled # {}
  BY LcPulledMoves
<1>2. LcPulled' # {} => Base' = Base
  BY <1>1, BaseSame
<1>3. QED
  BY <1>1, <1>2 DEF BaseKnown

-----------------------------------------------------------------------------
(* The spans that are deferred are those some open stream will flush, or     *)
(* those that may linger.                                                   *)

Covering(y, c) == call[y].kind = "modea" /\ call[y].pc = "pulled" /\ y \in call[c].older
Covered(c) ==
  \/ MayLinger(c)
  \/ \E y \in Calls : Covering(y, c)
  \/ LcPulled # {} /\ Base \subseteq call[c].older
AllCovered == \A p \in ses.buffer : Covered(p.of)

\* What defers besides LangChain's streams, at another call's turn.
LEMMA DefersPlainly ==
  ASSUME Orderly, NEW c \in Calls, Turn(c), NEW y \in Deferring, y # c,
         call[y].kind \notin LangChain
  PROVE  call[y].kind \in Managers \/ (call[y].kind = "modea" /\ call[y].pc = "pulled")
<1>1. call[y].kind \notin Holders
  BY DeferringLive, TurnAlone
<1>2. call[y].kind \notin AgnoKinds /\ call[y].kind \notin LiKinds
  BY <1>1 DEF Holders, AgnoKinds, LiKinds
<1>3. Defers(call[y])
  BY DEF Deferring
<1>4. QED
  BY <1>2, <1>3 DEF Defers, PullDefers

\* The last LangChain stream leaves the flag set, for an older stream's sake.
LEMMA BaseCovers ==
  ASSUME TInv, Orderly, NEW c \in Calls, Turn(c), call[c].kind \in LangChain, Base # {},
         NEW x \in Calls, Base \subseteq call[x].older
  PROVE  MayLinger(x) \/ \E y \in Calls : y # c /\ Covering(y, x)
<1>1. PICK y \in Base : TRUE
  OBVIOUS
<1>2. y \in Deferring /\ call[y].kind \notin LangChain /\ y \in call[x].older /\ y # c
  BY <1>1 DEF Base
<1>3. y \in Calls
  BY <1>2 DEF Deferring
<1>4. CASE call[y].kind \in Managers
  BY <1>2, <1>4 DEF MayLinger
<1>5. CASE call[y].kind = "modea" /\ call[y].pc = "pulled"
  BY <1>2, <1>3, <1>5 DEF Covering
<1>6. QED
  BY <1>2, <1>4, <1>5, DefersPlainly

\* A span that may linger still may after the step.
LEMMA LingerKept ==
  ASSUME TInv, OlderKnown, NEW c \in Calls, Turn(c), NEW m, Moves(c, m), Settling(c, m),
         NEW x \in Calls, call'[x].older = call[x].older, MayLinger(x)
  PROVE  MayLinger(x)'
<1>1. call'[c] = m /\ \A z \in Calls : z # c => call'[z] = call[z]
  BY MoveOthers
<1>2. \/ call[x].pc = "failed" /\ call[x].kind \in FailByModeA
      \/ \E y \in call[x].older : \/ call[y].kind = "modea" /\ call[y].pc = "failed"
                                  \/ call[y].kind \in Managers
  BY DEF MayLinger
<1>3. CASE call[x].pc = "failed" /\ call[x].kind \in FailByModeA
  <2>1. x # c
    BY <1>3 DEF Turn, Live
  <2>2. QED
    BY <1>1, <1>3, <2>1 DEF MayLinger
<1>4. ASSUME NEW y \in call[x].older, \/ call[y].kind = "modea" /\ call[y].pc = "failed"
                                      \/ call[y].kind \in Managers
      PROVE  MayLinger(x)'
  <2>0. y \in Calls
    BY <1>4, TypedNow
  <2>1. call[y].pc \notin {"new", "built"}
    BY <1>4, <2>0 DEF OlderKnown
  <2>2. CASE y = c
    <3>1. c \in Live /\ m.kind = call[c].kind
      BY <2>1, <2>2 DEF Turn, Settling
    <3>2. call[c].kind \in Managers
      BY <1>4, <2>2, <3>1 DEF Live
    <3>3. QED
      BY <1>1, <2>2, <3>1, <3>2 DEF MayLinger
  <2>3. CASE y # c
    BY <1>1, <1>4, <2>0, <2>3 DEF MayLinger
  <2>4. QED
    BY <2>2, <2>3
<1>5. QED
  BY <1>2, <1>3, <1>4

\* A provider's stream flushes when it ends, unless it failed; LangChain's last
\* one does, unless an older stream defers.
LEMMA CoveredKept ==
  ASSUME TInv, Orderly, OlderKnown, BaseKnown, NEW c \in Calls, Turn(c), NEW m, Moves(c, m),
         Settling(c, m),
         call[c].pc \in {"new", "built"} => ~(m.pc = "pulled" /\ m.kind \in LangChain),
         call[c].pc = "pulled" /\ call[c].kind = "modea" => m.pc = "failed",
         LcPulled # {} /\ LcPulled' = {} => ses.base,
         NEW x \in Calls, call'[x].older = call[x].older, Covered(x)
  PROVE  Covered(x)'
<1>1. call'[c] = m /\ \A z \in Calls : z # c => call'[z] = call[z]
  BY MoveOthers
<1>2. CASE MayLinger(x)
  BY <1>2, LingerKept DEF Covered
<1>3. ASSUME NEW y \in Calls, Covering(y, x) PROVE Covered(x)'
  <2>1. CASE y = c
    <3>1. m.pc = "failed" /\ m.kind = "modea" /\ c \in call'[x].older
      BY <1>3, <2>1 DEF Covering, Settling
    <3>2. MayLinger(x)'
      BY <1>1, <3>1 DEF MayLinger
    <3>3. QED
      BY <3>2 DEF Covered
  <2>2. CASE y # c
    <3>1. Covering(y, x)'
      BY <1>1, <1>3, <2>2 DEF Covering
    <3>2. QED
      BY <3>1 DEF Covered
  <2>3. QED
    BY <2>1, <2>2
<1>4. CASE LcPulled # {} /\ Base \subseteq call[x].older
  <2>1. CASE LcPulled' # {}
    <3>1. Base' = Base
      BY <1>4, <2>1, BaseSame
    <3>2. QED
      BY <1>4, <2>1, <3>1 DEF Covered
  <2>2. CASE LcPulled' = {}
    <3>1. Base # {}
      BY <1>4, <2>2 DEF BaseKnown
    <3>2. PICK z \in LcPulled : TRUE
      BY <1>4
    <3>3. z = c
      BY <2>2, <3>2, LcPulledMoves DEF LcPulled
    <3>4. call[c].kind \in LangChain
      BY <3>2, <3>3, LcPulledLive
    <3>5. MayLinger(x) \/ \E y \in Calls : y # c /\ Covering(y, x)
      BY <1>4, <3>1, <3>4, BaseCovers
    <3>6. QED
      BY <1>2, <1>3, <3>5
  <2>3. QED
    BY <2>1, <2>2
<1>5. QED
  BY <1>2, <1>3, <1>4 DEF Covered

\* After a step the deferred spans are still covered if none is left, or if the call
\* is not one that flushes and the new ones are covered.
LEMMA BufferStep ==
  ASSUME TInv, Orderly, OlderKnown, BaseKnown, AllCovered, NEW c \in Calls, Turn(c), NEW m,
         Moves(c, m), Settling(c, m),
         call[c].pc \in {"new", "built"} => ~(m.pc = "pulled" /\ m.kind \in LangChain),
         \/ ses'.buffer = {}
         \/ /\ call[c].pc = "pulled" /\ call[c].kind = "modea" => m.pc = "failed"
            /\ LcPulled # {} /\ LcPulled' = {} => ses.base
            /\ m.older = call[c].older \/ \A p \in ses.buffer : p.of # c
            /\ \A p \in ses'.buffer : p \in ses.buffer \/ (p.of = c /\ Covered(c)')
  PROVE  AllCovered'
<1>1. call'[c] = m /\ \A z \in Calls : z # c => call'[z] = call[z]
  BY MoveOthers
<1>2. \A p \in ses.buffer : p.of \in Calls
  BY DEF TInv, TypeOK, Session, Span
<1>3. ASSUME NEW p \in ses'.buffer, ses'.buffer # {} PROVE Covered(p.of)'
  <2>1. CASE p \in ses.buffer
    <3> DEFINE x == p.of
    <3>1. x \in Calls /\ Covered(x) /\ call'[x].older = call[x].older
      BY <1>1, <1>2, <1>3, <2>1 DEF AllCovered
    <3> HIDE DEF x
    <3>2. Covered(x)'
      BY <1>3, <3>1, CoveredKept
    <3>3. QED
      BY <3>2 DEF x
  <2>2. CASE p.of = c /\ Covered(c)'
    BY <2>2
  <2>3. QED
    BY <1>3, <2>1, <2>2
<1>4. QED
  BY <1>3 DEF AllCovered

\* A span deferred outside every framework's guard.
LEMMA CoveredNew ==
  ASSUME TInv, Orderly, SoundCalls, OlderKnown, DeferKnown, NEW c \in Calls, Turn(c), NEW m,
         Moves(c, m), Settling(c, m), call[c].pc \in {"new", "built"}, ses.defer, m.older = Live,
         m.pc \notin {"open", "pulled"}
  PROVE  Covered(c)'
<1>1. call'[c] = m /\ \A z \in Calls : z # c => call'[z] = call[z]
  BY MoveOthers
<1>2. PICK y \in Deferring : TRUE
  BY DEF DeferKnown
<1>3. y \in Live /\ y \in Calls /\ c \notin Live /\ y # c
  BY <1>2, DeferringLive DEF Live
<1>4. CASE call[y].kind \in LangChain
  <2>1. y \in LcPulled'
    <3>1. ~call[y].through
      BY <1>3 DEF SoundCalls, Sound
    <3>2. y \in LcPulled
      BY <1>2, <1>3, <1>4, <3>1 DEF Deferring, Defers, LcPulled, LangChain, LiKinds, Managers
    <3>3. QED
      BY <1>3, <3>2, LcPulledMoves
  <2>2. Base' \subseteq Deferring'
    BY DEF Base
  <2>3. Deferring' \subseteq Live
    BY <1>3, DeferringMoves, DeferringLive DEF Defers
  <2>4. QED
    BY <1>1, <2>1, <2>2, <2>3 DEF Covered
<1>5. CASE call[y].kind \notin LangChain
  <2>1. call[y].kind \in Managers \/ (call[y].kind = "modea" /\ call[y].pc = "pulled")
    BY <1>3, <1>5, DefersPlainly
  <2>2. y \in call'[c].older /\ call'[y] = call[y]
    BY <1>1, <1>3
  <2>3. MayLinger(c)' \/ Covering(y, c)'
    BY <2>1, <2>2 DEF MayLinger, Covering
  <2>4. QED
    BY <1>3, <2>3 DEF Covered
<1>6. QED
  BY <1>4, <1>5

\* The span of a LangChain stream that ends.
LEMMA CoveredEnd ==
  ASSUME TInv, Orderly, OlderKnown, BaseKnown, NEW c \in Calls, Turn(c), NEW m, Moves(c, m),
         Settling(c, m), c \in LcPulled, m.pc # "pulled",
         LcPulled' = {} => ses.base
  PROVE  Covered(c)'
<1>1. call'[c] = m /\ \A z \in Calls : z # c => call'[z] = call[z]
  BY MoveOthers
<1>2. c \in Live /\ call[c].kind \in LangChain /\ m.older = call[c].older
  BY LcPulledLive DEF Settling, LcPulled
<1>3. Base \subseteq call[c].older
  <2> SUFFICES ASSUME NEW y \in Base PROVE y \in call[c].older
    OBVIOUS
  <2> QED
    BY <1>2, DeferringLive, TurnUnseen DEF Base
<1>4. CASE LcPulled' # {}
  <2>1. Base' = Base
    BY <1>4, BaseSame DEF LcPulled
  <2>2. QED
    BY <1>1, <1>2, <1>3, <1>4, <2>1 DEF Covered
<1>5. CASE LcPulled' = {}
  <2>1. Base # {}
    BY <1>5 DEF BaseKnown
  <2>2. MayLinger(c) \/ \E y \in Calls : y # c /\ Covering(y, c)
    BY <1>2, <1>3, <2>1, BaseCovers
  <2>3. MayLinger(c) => MayLinger(c)'
    BY <1>1, <1>2, LingerKept
  <2>4. \A y \in Calls : y # c /\ Covering(y, c) => Covering(y, c)'
    BY <1>1, <1>2 DEF Covering
  <2>5. QED
    BY <2>2, <2>3, <2>4 DEF Covered
<1>6. QED
  BY <1>4, <1>5

-----------------------------------------------------------------------------
(* Orders are handed out once, but for LlamaIndex, which reads the counter   *)
(* and is alone until the provider's span takes the number.                 *)

OrdersKnown ==
  /\ \A p \in ses.buffer : p.order \in Nat /\ p.order < ses.counter
  /\ \A x \in Calls : call[x].inner.order # None =>
       call[x].inner.order \in Nat /\ call[x].inner.order < ses.counter
  /\ \A y \in Live : call[y].kind \in Managers =>
       /\ call[y].order \in Nat /\ call[y].order < ses.counter
       /\ \A p \in ses.buffer : p.order # call[y].order
       /\ \A z \in Live : z # y => call[z].inner.order # call[y].order
  /\ \A y \in Live : call[y].kind \in LiKinds =>
       /\ \A p \in ses.buffer : p.order # call[y].order
       /\ ~call[y].sent => call[y].order = ses.counter

\* A number that was not handed out, or that of the stream's own span.
Fresh(order, c) ==
  /\ order \in Nat /\ order < ses'.counter
  /\ ses.counter <= order \/ (c \in Live /\ order = call[c].inner.order)

\* Orders stay apart when the step adds only fresh ones.
LEMMA OrdersStep ==
  ASSUME TInv, Orderly, OrdersKnown, NEW c \in Calls, Turn(c), NEW m, Moves(c, m),
         ses.counter \in Nat, ses'.counter \in Nat, ses.counter <= ses'.counter,
         \A p \in ses'.buffer : p \in ses.buffer \/ Fresh(p.order, c),
         m.inner.order = call[c].inner.order \/ m.inner.order = None \/ Fresh(m.inner.order, c),
         m.pc \in {"open", "pulled"} =>
           m.inner.order = None \/ Fresh(m.inner.order, c)
           \/ (c \in Live /\ m.inner.order = call[c].inner.order),
         m.pc \in {"open", "pulled"} /\ m.kind \in Managers =>
           /\ c \notin Live /\ m.order = ses.counter /\ ses.counter < ses'.counter
           /\ ses'.buffer \subseteq ses.buffer,
         m.pc \in {"open", "pulled"} /\ m.kind \in LiKinds =>
           /\ ses'.buffer \subseteq ses.buffer /\ \A p \in ses.buffer : p.order # m.order
           /\ ~m.sent => m.order = ses'.counter
  PROVE  OrdersKnown'
<1>1. call'[c] = m /\ \A z \in Calls : z # c => call'[z] = call[z]
  BY MoveOthers
<1>2. \A z \in Calls : z \in Live' <=> IF z = c THEN m.pc \in {"open", "pulled"} ELSE z \in Live
  BY LiveMoves
<1>3. Live \subseteq Calls /\ Live' \subseteq Calls
  BY DEF Live
<1>4. \A p \in ses'.buffer : p.order \in Nat /\ p.order < ses'.counter
  BY DEF OrdersKnown, Fresh
<1>5. \A x \in Calls : call'[x].inner.order # None =>
        call'[x].inner.order \in Nat /\ call'[x].inner.order < ses'.counter
  BY <1>1 DEF OrdersKnown, Fresh
<1>6. ASSUME NEW y \in Live', call'[y].kind \in Managers
      PROVE  /\ call'[y].order \in Nat /\ call'[y].order < ses'.counter
             /\ \A p \in ses'.buffer : p.order # call'[y].order
             /\ \A z \in Live' : z # y => call'[z].inner.order # call'[y].order
  <2>1. CASE y = c
    <3>1. /\ m.order = ses.counter /\ ses.counter < ses'.counter /\ ses'.buffer \subseteq ses.buffer
      BY <1>1, <1>2, <1>6, <2>1
    <3>2. \A z \in Live' : z # c => call'[z].inner.order = call[z].inner.order /\ z \in Calls
      BY <1>1, <1>3
    <3>3. None \notin Nat
      BY FrameworkAssumption
    <3>4. QED
      BY <1>1, <2>1, <3>1, <3>2, <3>3 DEF OrdersKnown
  <2>2. CASE y # c
    <3>1. y \in Live /\ call'[y] = call[y]
      BY <1>1, <1>2, <1>3, <2>2
    <3>2. /\ call[y].order \in Nat /\ call[y].order < ses.counter
          /\ \A p \in ses.buffer : p.order # call[y].order
          /\ \A z \in Live : z # y => call[z].inner.order # call[y].order
      BY <1>6, <3>1 DEF OrdersKnown
    <3>3. \A order : Fresh(order, c) => order # call[y].order
      BY <2>2, <3>2 DEF Fresh
    <3>4. None # call[y].order
      BY <3>2, FrameworkAssumption
    <3>5. \A z \in Live' : z # y => call'[z].inner.order # call[y].order
      BY <1>1, <1>2, <1>3, <2>2, <3>2, <3>3, <3>4
    <3>6. QED
      BY <3>1, <3>2, <3>3, <3>5
  <2>3. QED
    BY <2>1, <2>2
<1>7. ASSUME NEW y \in Live', call'[y].kind \in LiKinds
      PROVE  /\ \A p \in ses'.buffer : p.order # call'[y].order
             /\ ~call'[y].sent => call'[y].order = ses'.counter
  <2>1. CASE y = c
    BY <1>1, <1>2, <1>7, <2>1
  <2>2. CASE y # c
    <3>1. y \in Live /\ call'[y] = call[y]
      BY <1>1, <1>2, <1>3, <2>2
    <3>2. call[y].kind \notin Holders
      BY <2>2, <3>1, TurnAlone
    <3>3. QED
      BY <1>7, <3>1, <3>2 DEF Holders, LiKinds
  <2>3. QED
    BY <2>1, <2>2
<1>8. QED
  BY <1>4, <1>5, <1>6, <1>7 DEF OrdersKnown

-----------------------------------------------------------------------------
(* The books: what is logged and what is deferred.                          *)

OwedOf(r, q, x) == r[x] + Cardinality(SpansOf(q, x))

Booked(m, owed) ==
  /\ m.pc \in {"new", "built", "open", "pulled"} => owed = 0
  /\ m.pc = "done" => owed = 1
  /\ owed <= IF m.pc = "failed" /\ m.kind \in FailByModeA THEN 2 ELSE 1
Books == ses.early = {} /\ \A x \in Calls : Booked(call[x], OwedOf(ses.rows, ses.buffer, x))

\* One more row, one more span, and a flush.
LEMMA OwedRow ==
  ASSUME NEW r \in [Calls -> Nat], NEW q, IsFiniteSet(q), NEW c \in Calls, NEW x \in Calls
  PROVE  OwedOf(Plus(r, c), q, x) = IF x = c THEN OwedOf(r, q, x) + 1 ELSE OwedOf(r, q, x)
<1>1. Cardinality(SpansOf(q, x)) \in Nat
  BY SpansCount
<1>2. Plus(r, c)[x] = IF x = c THEN r[x] + 1 ELSE r[x]
  BY DEF Plus
<1>3. r[x] \in Nat
  OBVIOUS
<1>4. QED
  BY <1>1, <1>2, <1>3 DEF OwedOf

\* A deferred span adds one to what its call is owed.
LEMMA OwedSpan ==
  ASSUME NEW r \in [Calls -> Nat], NEW q, IsFiniteSet(q), NEW c \in Calls, NEW order,
         SpansOf(q, c) = {}, NEW x \in Calls
  PROVE  /\ OwedOf(r, With(q, c, order), x) = IF x = c THEN OwedOf(r, q, x) + 1 ELSE OwedOf(r, q, x)
         /\ IsFiniteSet(With(q, c, order))
<1>1. SpanAt(c, order).of = c
  BY DEF SpanAt
<1>2. CASE x = c
  <2>1. SpansOf(With(q, c, order), x) = {SpanAt(c, order)}
    BY <1>1, <1>2 DEF SpansOf, With
  <2>2. Cardinality(SpansOf(With(q, c, order), x)) = 1 /\ Cardinality(SpansOf(q, x)) = 0
    BY <1>2, <2>1, FS_Singleton, FS_EmptySet
  <2>3. r[x] \in Nat
    OBVIOUS
  <2>4. QED
    BY <1>2, <2>2, <2>3, FS_AddElement DEF OwedOf, With
<1>3. CASE x # c
  <2>1. SpansOf(With(q, c, order), x) = SpansOf(q, x)
    BY <1>1, <1>3 DEF SpansOf, With
  <2>2. QED
    BY <1>3, <2>1, FS_AddElement DEF OwedOf, With
<1>4. QED
  BY <1>2, <1>3

\* A flush leaves what is owed as it is.
LEMMA OwedFlush ==
  ASSUME NEW r \in [Calls -> Nat], NEW q, IsFiniteSet(q), NEW x \in Calls
  PROVE  OwedOf(Counts(r, q), {}, x) = OwedOf(r, q, x)
<1>1. SpansOf({}, x) = {}
  BY DEF SpansOf
<1>2. Cardinality({}) = 0
  BY FS_EmptySet
<1>3. OwedOf(r, q, x) \in Nat
  BY SpansCount DEF OwedOf
<1>4. Counts(r, q)[x] = OwedOf(r, q, x)
  BY DEF Counts, OwedOf
<1>5. QED
  BY <1>1, <1>2, <1>3, <1>4 DEF OwedOf

\* What is owed is a number.
LEMMA OwedNow ==
  ASSUME TInv, NEW x \in Calls PROVE OwedOf(ses.rows, ses.buffer, x) \in Nat
<1>1. ses.rows[x] \in Nat /\ IsFiniteSet(ses.buffer)
  BY DEF TInv, TypeOK, Session
<1>2. QED
  BY <1>1, SpansCount DEF OwedOf

\* A call nothing is owed for has no span.
LEMMA OwedNothing ==
  ASSUME NEW r \in [Calls -> Nat], NEW q, IsFiniteSet(q), NEW c \in Calls, OwedOf(r, q, c) = 0
  PROVE  SpansOf(q, c) = {}
<1>1. r[c] \in Nat /\ IsFiniteSet(SpansOf(q, c)) /\ Cardinality(SpansOf(q, c)) \in Nat
  BY SpansCount
<1>2. Cardinality(SpansOf(q, c)) = 0
  BY <1>1 DEF OwedOf
<1>3. QED
  BY <1>1, <1>2, FS_EmptySet

\* What is owed for a call is as it was, or it failed and less is.
Eased(x, owed, before) ==
  owed = before \/ (call[x].pc = "failed" /\ owed \in Nat /\ owed <= before)

\* A manager's block takes only what is owed for failed calls.
LEMMA OwedFewer ==
  ASSUME NEW r \in [Calls -> Nat], NEW q, IsFiniteSet(q), NEW q2, Fewer(q, q2), NEW x \in Calls
  PROVE  IsFiniteSet(q2) /\ Eased(x, OwedOf(r, q2, x), OwedOf(r, q, x))
<1>1. IsFiniteSet(q2)
  BY FS_Subset DEF Fewer
<1>2. CASE call[x].pc # "failed"
  <2>1. SpansOf(q2, x) = SpansOf(q, x)
    BY <1>2 DEF Fewer, SpansOf
  <2>2. QED
    BY <1>1, <2>1 DEF OwedOf, Eased
<1>3. CASE call[x].pc = "failed"
  <2>1. SpansOf(q2, x) \subseteq SpansOf(q, x)
    BY DEF Fewer, SpansOf
  <2>2. Cardinality(SpansOf(q2, x)) <= Cardinality(SpansOf(q, x))
    BY <2>1, SpansCount, FS_Subset
  <2>3. /\ Cardinality(SpansOf(q2, x)) \in Nat /\ Cardinality(SpansOf(q, x)) \in Nat
        /\ r[x] \in Nat
    BY <1>1, SpansCount
  <2>4. QED
    BY <1>1, <1>3, <2>2, <2>3 DEF OwedOf, Eased
<1>4. QED
  BY <1>2, <1>3

\* How a call that is over stands in the books: once if it succeeded, and at most
\* once or, when a Mode-A wrapper reported its failure, twice if not.
Closing(kind, how, owed) ==
  /\ owed \in {0, 1} \/ (how = "failed" /\ kind \in FailByModeA /\ owed = 2)
  /\ how = "done" => owed = 1

\* A call that is over is in the books; of the others only the failed have less.
LEMMA SettledOwed ==
  ASSUME NEW r \in [Calls -> Nat], NEW q, IsFiniteSet(q), NEW c \in Calls, NEW kind, NEW how,
         NEW order, NEW q2, NEW r2, Settled(kind, c, how, order, q, r, q2, r2),
         OwedOf(r, q, c) = 0
  PROVE  /\ \A x \in Calls : x # c => Eased(x, OwedOf(r2, q2, x), OwedOf(r, q, x))
         /\ Closing(kind, how, OwedOf(r2, q2, c))
         /\ \A p \in q2 : p \in q \/ p = SpanAt(c, order)
<1>1. SpansOf(q, c) = {}
  BY OwedNothing
<1> DEFINE more == With(q, c, order)
<1>2. \A p \in more : p \in q \/ p = SpanAt(c, order)
  BY DEF With
<1>3. \A x \in Calls : OwedOf(r, more, x) = IF x = c THEN OwedOf(r, q, x) + 1 ELSE OwedOf(r, q, x)
  BY <1>1, OwedSpan
<1>4. IsFiniteSet(more)
  BY <1>1, OwedSpan
<1> HIDE DEF more
<1>5. CASE q2 = q /\ r2 = Plus(r, c)
  BY <1>5, OwedRow DEF Eased, Closing
<1>6. CASE how # "done" /\ q2 = q /\ r2 = r
  BY <1>6 DEF Eased, Closing
<1>7. CASE q2 = {} /\ r2 = Counts(r, more)
  BY <1>3, <1>4, <1>7, OwedFlush DEF Eased, Closing
<1>8. CASE how # "done" /\ q2 = {} /\ r2 = Counts(r, q)
  BY <1>8, OwedFlush DEF Eased, Closing
<1>9. CASE q2 = more /\ r2 = r
  BY <1>2, <1>3, <1>9 DEF Eased, Closing
<1>10. CASE how = "failed" /\ kind \in FailByModeA /\ q2 = more /\ r2 = Plus(r, c)
  <2>1. \A x \in Calls :
          OwedOf(r2, q2, x) = IF x = c THEN OwedOf(r, more, x) + 1 ELSE OwedOf(r, more, x)
    BY <1>4, <1>10, OwedRow
  <2>2. OwedOf(r2, q2, c) = 2
    BY <1>3, <2>1
  <2>3. \A x \in Calls : x # c => OwedOf(r2, q2, x) = OwedOf(r, q, x)
    BY <1>3, <2>1
  <2>4. QED
    BY <1>2, <1>10, <2>2, <2>3 DEF Eased, Closing
<1>11. CASE /\ Fewer(q, q2)
            /\ r2 = Plus(r, c) \/ (how # "done" /\ r2 = r)
  <2>1. /\ IsFiniteSet(q2)
        /\ \A x \in Calls : Eased(x, OwedOf(r, q2, x), OwedOf(r, q, x))
    BY <1>11, OwedFewer
  <2>2. SpansOf(q2, c) = {} /\ \A p \in q2 : p \in q
    BY <1>1, <1>11 DEF Fewer, SpansOf
  <2>3. OwedOf(r, q2, c) = 0
    BY <1>1, <2>2 DEF OwedOf
  <2>4. CASE r2 = Plus(r, c)
    <3>1. \A x \in Calls :
            OwedOf(r2, q2, x) = IF x = c THEN OwedOf(r, q2, x) + 1 ELSE OwedOf(r, q2, x)
      BY <2>1, <2>4, OwedRow
    <3>2. OwedOf(r2, q2, c) = 1
      BY <2>3, <3>1
    <3>3. Closing(kind, how, OwedOf(r2, q2, c))
      BY <3>2 DEF Closing
    <3>4. QED
      BY <2>1, <2>2, <3>1, <3>3
  <2>5. CASE how # "done" /\ r2 = r
    BY <2>1, <2>2, <2>3, <2>5 DEF Closing
  <2>6. QED
    BY <1>11, <2>4, <2>5
<1>12. QED
  BY <1>5, <1>6, <1>7, <1>8, <1>9, <1>10, <1>11 DEF Settled, more

\* The outcome of a call that is no stream is one of those.
LEMMA OutcomeSettled ==
  ASSUME NEW kind, NEW d, NEW k, k \in Nat, NEW q, NEW r, NEW c, NEW ok, NEW k2, NEW q2, NEW r2,
         Outcome(kind, d, k, q, r, c, ok, k2, q2, r2)
  PROVE  Settled(kind, c, IF ok = Yes THEN "done" ELSE "failed", k, q, r, q2, r2)
BY FrameworkAssumption, YesNo DEF Outcome, Settled

\* The books are right after a step that settles its own call, and at most takes
\* from what is owed for failed ones.
LEMMA BooksStep ==
  ASSUME TInv, Books, NEW c \in Calls, NEW m, Moves(c, m), ses'.early = ses.early,
         \A x \in Calls : x # c => Eased(x, OwedOf(ses'.rows, ses'.buffer, x),
                                         OwedOf(ses.rows, ses.buffer, x)),
         Booked(m, OwedOf(ses'.rows, ses'.buffer, c))
  PROVE  Books'
<1>1. call'[c] = m /\ \A z \in Calls : z # c => call'[z] = call[z]
  BY MoveOthers
<1>2. ASSUME NEW x \in Calls, x # c
      PROVE  Booked(call[x], OwedOf(ses'.rows, ses'.buffer, x))
  <2> DEFINE owed == OwedOf(ses'.rows, ses'.buffer, x)
             before == OwedOf(ses.rows, ses.buffer, x)
  <2>1. Eased(x, owed, before) /\ Booked(call[x], before) /\ before \in Nat
    BY <1>2, OwedNow DEF Books
  <2> HIDE DEF owed, before
  <2>2. CASE owed = before
    BY <2>1, <2>2 DEF owed
  <2>3. CASE call[x].pc = "failed" /\ owed \in Nat /\ owed <= before
    <3>1. Booked(call[x], owed)
      BY <2>1, <2>3 DEF Booked
    <3>2. QED
      BY <3>1 DEF owed
  <2>4. QED
    BY <2>1, <2>2, <2>3 DEF Eased
<1>3. QED
  BY <1>1, <1>2 DEF Books

-----------------------------------------------------------------------------
(* The steps, one by one.                                                   *)

FRest ==
  /\ SoundCalls /\ Guarded /\ ChecksDue /\ OlderKnown /\ DeferKnown /\ PrevKnown /\ BaseKnown
  /\ AllCovered /\ OrdersKnown /\ Books
FInv == TInv /\ FRest

Unfinished == {"new", "built", "open", "pulled"}

\* The session and the types of its fields, at any time.
LEMMA SessionNow ==
  ASSUME TInv
  PROVE  /\ ses = Of(ses.guards, ses.defer, ses.depth, ses.base, ses.counter, ses.buffer, ses.rows,
                     ses.early, ses.checks)
         /\ ses.defer \in {Yes, No} /\ ses.base \in {Yes, No} /\ ses.counter \in Nat
         /\ IsFiniteSet(ses.buffer) /\ ses.rows \in [Calls -> Nat]
<1>1. ses \in Session /\ IsFiniteSet(ses.buffer)
  BY DEF TInv, TypeOK
<1>2. /\ ses.defer \in BOOLEAN /\ ses.base \in BOOLEAN
      /\ ses.counter \in Nat /\ ses.rows \in [Calls -> Nat]
  BY <1>1 DEF Session
<1>3. QED
  BY <1>1, <1>2, SessionOf, BooleanYesNo

\* Nothing is owed yet for a call that is not over.
LEMMA NoSpanOf ==
  ASSUME TInv, Books, NEW c \in Calls, call[c].pc \in Unfinished
  PROVE  OwedOf(ses.rows, ses.buffer, c) = 0 /\ \A p \in ses.buffer : p.of # c
<1>1. OwedOf(ses.rows, ses.buffer, c) = 0
  BY DEF Books, Booked, Unfinished
<1>2. SpansOf(ses.buffer, c) = {}
  BY <1>1, SessionNow, OwedNothing
<1>3. QED
  BY <1>1, <1>2 DEF SpansOf

\* A call that is over is settled, and adds no span but its own.
LEMMA BooksSettled ==
  ASSUME TInv, Books, NEW c \in Calls, NEW m, Moves(c, m), call[c].pc \in Unfinished,
         m.pc \in Hows, NEW how, how = m.pc, NEW kind, kind = m.kind, NEW order,
         NEW q2, NEW r2, ses'.buffer = q2, ses'.rows = r2,
         Settled(kind, c, how, order, ses.buffer, ses.rows, q2, r2), ses'.early = ses.early
  PROVE  Books' /\ \A p \in ses'.buffer : p \in ses.buffer \/ p = SpanAt(c, order)
<1>1. IsFiniteSet(ses.buffer) /\ ses.rows \in [Calls -> Nat] /\ OwedOf(ses.rows, ses.buffer, c) = 0
  BY SessionNow, NoSpanOf
<1>2. /\ \A x \in Calls : x # c => Eased(x, OwedOf(r2, q2, x), OwedOf(ses.rows, ses.buffer, x))
      /\ Closing(kind, how, OwedOf(r2, q2, c))
      /\ \A p \in q2 : p \in ses.buffer \/ p = SpanAt(c, order)
  BY <1>1, SettledOwed
<1>3. Booked(m, OwedOf(r2, q2, c))
  <2> DEFINE owed == OwedOf(r2, q2, c)
  <2>1. Closing(kind, how, owed)
    BY <1>2
  <2> HIDE DEF owed
  <2>2. Booked(m, owed)
    BY <2>1 DEF Booked, Closing, Hows
  <2>3. QED
    BY <2>2 DEF owed
<1>4. Books'
  BY <1>2, <1>3, BooksStep
<1>5. QED
  BY <1>2, <1>4

\* A call that goes on changes nothing in the books.
LEMMA BooksKept ==
  ASSUME TInv, Books, NEW c \in Calls, NEW m, Moves(c, m), call[c].pc \in Unfinished,
         m.pc \in Unfinished \union {"dropped"},
         ses'.buffer = ses.buffer, ses'.rows = ses.rows, ses'.early = ses.early
  PROVE  Books'
<1>1. Booked(m, OwedOf(ses.rows, ses.buffer, c))
  BY NoSpanOf DEF Booked, Unfinished
<1>2. QED
  BY <1>1, BooksStep DEF Eased

\* A step that pulls no LangChain stream and ends none leaves the spans covered.
LEMMA CoveredAside ==
  ASSUME TInv, Orderly, OlderKnown, BaseKnown, AllCovered, Books, NEW c \in Calls, Turn(c), NEW m,
         Moves(c, m), Settling(c, m), ~(m.pc = "pulled" /\ m.kind \in LangChain),
         call[c].pc \in {"new", "built", "open"}, ses'.base = ses.base,
         \/ ses'.buffer = {}
         \/ \A p \in ses'.buffer : p \in ses.buffer \/ (p.of = c /\ Covered(c)')
  PROVE  BaseKnown' /\ AllCovered'
<1>1. BaseKnown'
  BY BaseAside
<1>2. \A p \in ses.buffer : p.of # c
  BY NoSpanOf DEF Unfinished
<1>3. LcPulled' = LcPulled
  BY LcPulledMoves DEF LcPulled
<1>4. AllCovered'
  BY <1>2, <1>3, BufferStep
<1>5. QED
  BY <1>1, <1>4

\* A call that is no stream.
LEMMA CallKeeps ==
  ASSUME FInv, Orderly, NEW c \in Calls, NEW kind \in AllKinds, NEW ok \in BOOLEAN,
         NEW spanned \in BOOLEAN, Call(c, kind, ok, spanned)
  PROVE  FRest'
<1> DEFINE how == IF ok = Yes THEN "done" ELSE "failed"
           m == [call[c] EXCEPT !.pc = how, !.kind = kind, !.sent = TRUE,
                                !.through = PassesThrough(ses, kind), !.older = Live]
<1> USE DEF FInv, FRest
<1>0. ok \in {Yes, No} /\ spanned \in {Yes, No} /\ (ok = Yes => spanned = Yes)
  BY BooleanYesNo DEF Call, Yes, No
<1>1. /\ call[c].pc = "new" /\ kind \in AllKinds \ (StreamOnly \union Managers) /\ MayCall
      /\ ses' = Made(ses, c, kind, ok, spanned)
  BY DEF Call
<1>2. call[c] \in Locals /\ call \in [Calls -> Locals] /\ ~call[c].sent
  BY <1>1, TypedNow DEF Fits
<1>3. Moves(c, m)
  BY <1>1, <1>2, YesNo DEF Call, Moves, Yes
<1>4. Turn(c) /\ c \notin Live
  BY <1>1 DEF Turn, Live
<1>5. ses.guards = {} /\ \A x \in Calls : x # c => HeldBy(call[x]) = {}
  BY <1>1, <1>4, GuardsOwn DEF HeldBy
<1>6. ~PassesThrough(ses, kind)
  BY <1>5 DEF PassesThrough
<1>7. /\ m.pc = how /\ m.kind = kind /\ m.sent /\ ~m.through /\ m.older = Live
      /\ m.inner = call[c].inner
  BY <1>2, <1>6 DEF Locals
<1>8. how \in {"done", "failed"}
  OBVIOUS
<1> HIDE DEF m
<1>9. Ending(kind, ses', ses.defer, ses.depth, ses.base, ses.counter, ses.buffer, ses.rows,
             ses.early, ses.checks, c, ok)
  BY <1>0, <1>1, <1>5, SessionNow, MadeEnds
<1>10. PICK k2, q2, r2 :
         /\ ses' = Of({}, ses.defer, ses.depth, ses.base, k2, q2, r2, ses.early, Plus(ses.checks, c))
         /\ Outcome(kind, ses.defer, ses.counter, ses.buffer, ses.rows, c, ok, k2, q2, r2)
  BY <1>9 DEF Ending
<1>11. /\ ses'.guards = {} /\ ses'.defer = ses.defer /\ ses'.base = ses.base
       /\ ses'.counter = k2 /\ ses'.buffer = q2 /\ ses'.rows = r2 /\ ses'.early = ses.early
       /\ ses'.checks = Plus(ses.checks, c)
  BY <1>10, FieldsOf
<1>12. SoundCalls'
  BY <1>3, <1>7, <1>8, SoundStep DEF Sound, LiKinds, Managers
<1>13. Guarded'
  BY <1>3, <1>5, <1>7, <1>8, <1>11, GuardsStep DEF HeldBy
<1>14. ChecksDue'
  BY <1>1, <1>2, <1>3, <1>7, <1>11, ChecksStep DEF Due
<1>15. OlderKnown'
  BY <1>1, <1>3, <1>7, <1>8, OlderEnter
<1>16. ~Defers(m) /\ ~Defers(call[c]) /\ ~HasPrev(m)
  BY <1>1, <1>7, <1>8 DEF Defers, HasPrev, InnerPrev, OuterPrev
<1>17. DeferKnown' /\ PrevKnown'
  BY <1>3, <1>4, <1>11, <1>16, DeferStep, PrevKept
<1>18. Settling(c, m)
  BY <1>1 DEF Settling
<1>19. ses.counter \in Nat /\ k2 \in Nat /\ ses.counter < k2
  BY <1>10, SessionNow DEF Outcome
<1>20. Settled(kind, c, how, ses.counter, ses.buffer, ses.rows, q2, r2)
  BY <1>10, <1>19, OutcomeSettled
<1>21. Books' /\ \A p \in ses'.buffer : p \in ses.buffer \/ p = SpanAt(c, ses.counter)
  BY <1>1, <1>3, <1>7, <1>8, <1>11, <1>20, BooksSettled DEF Unfinished, Hows
<1>22. \/ ses'.buffer = {} \/ ses'.buffer = ses.buffer \/ ses.defer
       \/ how = "failed" /\ kind \in FailByModeA
  BY <1>10, <1>11, YesNo DEF Outcome
<1>23. /\ ses.defer => Covered(c)'
       /\ how = "failed" /\ kind \in FailByModeA => Covered(c)'
  <2>1. ses.defer => Covered(c)'
    BY <1>1, <1>3, <1>4, <1>7, <1>8, <1>18, CoveredNew
  <2>2. call'[c] = m
    BY <1>3, MoveOthers
  <2>3. how = "failed" /\ kind \in FailByModeA => MayLinger(c)'
    BY <1>7, <2>2 DEF MayLinger
  <2>4. QED
    BY <2>1, <2>3 DEF Covered
<1>24. SpanAt(c, ses.counter).of = c /\ SpanAt(c, ses.counter).order = ses.counter
  BY DEF SpanAt
<1>25. BaseKnown' /\ AllCovered'
  BY <1>1, <1>3, <1>4, <1>7, <1>8, <1>11, <1>18, <1>21, <1>22, <1>23, <1>24, CoveredAside
<1>26. Fresh(ses.counter, c)
  BY <1>11, <1>19 DEF Fresh
<1>27. OrdersKnown'
  BY <1>3, <1>4, <1>7, <1>8, <1>11, <1>19, <1>21, <1>24, <1>26, OrdersStep
<1>28. QED
  BY <1>12, <1>13, <1>14, <1>15, <1>17, <1>21, <1>25, <1>27

\* A LlamaIndex stream that could not be opened.
LEMMA FailOpenKeeps ==
  ASSUME FInv, Orderly, NEW c \in Calls, NEW spanned \in BOOLEAN, FailOpen(c, spanned)
  PROVE  FRest'
<1> DEFINE m == [call[c] EXCEPT !.pc = "failed", !.kind = "llamaindex", !.sent = TRUE]
<1> USE DEF FInv, FRest
<1>1. call[c].pc = "new" /\ MayCall
  BY DEF FailOpen
<1>2. /\ call[c] \in Locals /\ call \in [Calls -> Locals] /\ ~call[c].sent
      /\ ~call[c].through
  BY <1>1, TypedNow DEF Fits
<1>3. Moves(c, m)
  BY <1>1, <1>2 DEF FailOpen, Moves
<1>4. Turn(c) /\ c \notin Live
  BY <1>1 DEF Turn, Live
<1>5. ses.guards = {} /\ \A x \in Calls : x # c => HeldBy(call[x]) = {}
  BY <1>1, <1>4, GuardsOwn DEF HeldBy
<1>6. /\ m.pc = "failed" /\ m.kind = "llamaindex" /\ m.sent /\ ~m.through
      /\ m.older = call[c].older /\ m.inner = call[c].inner
  BY <1>2 DEF Locals
<1> HIDE DEF m
<1>7. ses.counter \in Nat /\ \A p \in ses.buffer : p.order # ses.counter
  BY SessionNow DEF OrdersKnown
<1>8. ses' = Of({}, ses.defer, ses.depth, ses.base, Succ(ses.counter), ses.buffer,
                Plus(ses.rows, c), ses.early, Plus(ses.checks, c))
  <2>1. ses = Of({}, ses.defer, ses.depth, ses.base, ses.counter, ses.buffer, ses.rows,
                 ses.early, ses.checks)
    BY <1>5, SessionNow
  <2>2. ses' = Row(DropOrder(Restore(Release(ProviderCall(LiEnter(ses, c), c, No, spanned),
                                             "llamaindex"), ses.defer), ses.counter), c)
    BY DEF FailOpen, No
  <2>3. QED
    BY <1>7, <2>1, <2>2, BooleanYesNo, FailOpenEffect
<1>9. /\ ses'.guards = {} /\ ses'.defer = ses.defer /\ ses'.base = ses.base
      /\ ses'.counter = Succ(ses.counter) /\ ses'.buffer = ses.buffer
      /\ ses'.rows = Plus(ses.rows, c) /\ ses'.early = ses.early
      /\ ses'.checks = Plus(ses.checks, c)
  BY <1>8, FieldsOf
<1>10. SoundCalls'
  BY <1>3, <1>6, SoundStep DEF Sound, LiKinds, Managers
<1>11. Guarded'
  BY <1>3, <1>5, <1>6, <1>9, GuardsStep DEF HeldBy
<1>12. ChecksDue'
  BY <1>1, <1>2, <1>3, <1>6, <1>9, ChecksStep DEF Due
<1>13. OlderKnown'
  BY <1>1, <1>3, <1>6, OlderKeep
<1>14. ~Defers(m) /\ ~Defers(call[c]) /\ ~HasPrev(m)
  BY <1>1, <1>6 DEF Defers, HasPrev, InnerPrev, OuterPrev
<1>15. DeferKnown' /\ PrevKnown'
  BY <1>3, <1>4, <1>9, <1>14, DeferStep, PrevKept
<1>16. Settling(c, m)
  BY <1>1 DEF Settling
<1>17. BaseKnown' /\ AllCovered'
  BY <1>1, <1>3, <1>4, <1>6, <1>9, <1>16, CoveredAside
<1>18. Settled("llamaindex", c, "failed", None, ses.buffer, ses.rows, ses.buffer, Plus(ses.rows, c))
  BY DEF Settled
<1>19. Books'
  BY <1>1, <1>3, <1>6, <1>9, <1>18, BooksSettled DEF Unfinished, Hows
<1>20. OrdersKnown'
  BY <1>3, <1>4, <1>6, <1>7, <1>9, SuccNat, OrdersStep
<1>21. QED
  BY <1>10, <1>11, <1>12, <1>13, <1>15, <1>17, <1>19, <1>20

\* A manager is made.
LEMMA BuildKeeps ==
  ASSUME FInv, Orderly, NEW c \in Calls, NEW kind \in AllKinds, Build(c, kind) PROVE FRest'
<1> DEFINE m == [call[c] EXCEPT !.pc = "built", !.kind = kind, !.through = PassesThrough(ses, kind)]
<1> USE DEF FInv, FRest
<1>1. call[c].pc = "new" /\ MayCall /\ kind \in Managers
  BY DEF Build
<1>2. /\ call[c] \in Locals /\ call \in [Calls -> Locals] /\ ~call[c].sent
  BY <1>1, TypedNow DEF Fits
<1>3. Moves(c, m)
  BY <1>1, <1>2 DEF Build, Moves
<1>4. Turn(c) /\ c \notin Live
  BY <1>1 DEF Turn, Live
<1>5. ses.guards = {} /\ \A x \in Calls : x # c => HeldBy(call[x]) = {}
  BY <1>1, <1>4, GuardsOwn DEF HeldBy
<1>6. ~PassesThrough(ses, kind)
  BY <1>5 DEF PassesThrough
<1>7. /\ m.pc = "built" /\ m.kind = kind /\ ~m.sent /\ ~m.through
      /\ m.older = call[c].older /\ m.inner = call[c].inner
  BY <1>2, <1>6 DEF Locals
<1> HIDE DEF m
<1>8. ses' = IF kind = "managerAsync" THEN ses ELSE Check(ses, c, kind)
  BY <1>6 DEF Build
<1>9. ses = Of({}, ses.defer, ses.depth, ses.base, ses.counter, ses.buffer, ses.rows,
               ses.early, ses.checks)
  BY <1>5, SessionNow
<1>10. Check(ses, c, kind) = Of({}, ses.defer, ses.depth, ses.base, ses.counter, ses.buffer,
                                ses.rows, ses.early, Plus(ses.checks, c))
  BY <1>9, ChecksAlways
<1>11. /\ ses'.guards = {} /\ ses'.defer = ses.defer /\ ses'.base = ses.base
       /\ ses'.counter = ses.counter /\ ses'.buffer = ses.buffer
       /\ ses'.rows = ses.rows /\ ses'.early = ses.early
       /\ ses'.checks = IF kind = "managerAsync" THEN ses.checks ELSE Plus(ses.checks, c)
  BY <1>5, <1>8, <1>10, FieldsOf
<1>12. SoundCalls'
  BY <1>3, <1>7, SoundStep DEF Sound, LiKinds, Managers
<1>13. Guarded'
  BY <1>3, <1>5, <1>7, <1>11, GuardsStep DEF HeldBy
<1>14. ChecksDue'
  <2>1. Due(call[c]) = 0 /\ Due(m) = IF kind = "managerAsync" THEN 0 ELSE 1
    BY <1>1, <1>2, <1>7 DEF Due, Lazy, Managers
  <2>2. QED
    BY <1>3, <1>11, <2>1, ChecksStep
<1>15. OlderKnown'
  BY <1>1, <1>3, <1>7, OlderKeep
<1>16. ~Defers(m) /\ ~Defers(call[c]) /\ ~HasPrev(m)
  BY <1>1, <1>7 DEF Defers, HasPrev, InnerPrev, OuterPrev
<1>17. DeferKnown' /\ PrevKnown'
  BY <1>3, <1>4, <1>11, <1>16, DeferStep, PrevKept
<1>18. Settling(c, m)
  BY <1>1 DEF Settling
<1>19. BaseKnown' /\ AllCovered'
  BY <1>1, <1>3, <1>4, <1>7, <1>11, <1>18, CoveredAside
<1>20. Books'
  BY <1>1, <1>3, <1>7, <1>11, BooksKept DEF Unfinished
<1>21. OrdersKnown'
  BY <1>3, <1>4, <1>7, <1>11, SessionNow, OrdersStep
<1>22. QED
  BY <1>12, <1>13, <1>14, <1>15, <1>17, <1>19, <1>20, <1>21

\* A manager's block is entered.
LEMMA EnterKeeps ==
  ASSUME FInv, Orderly, NEW c \in Calls, NEW ok \in BOOLEAN, Enter(c, ok) PROVE FRest'
<1> DEFINE kind    == call[c].kind
           checked == Entered(ses, c, kind)
           pc      == IF ok THEN "pulled" ELSE "failed"
           m == [call[c] EXCEPT !.pc = pc, !.sent = TRUE, !.older = Live, !.prev = ses.defer,
                                !.order = checked.counter, !.kept = ses.buffer,
                                !.inner = NoInner]
           checks == IF kind = "managerAsync" THEN Plus(ses.checks, c) ELSE ses.checks
<1> USE DEF FInv, FRest
<1>1. call[c].pc = "built" /\ MayCall
  BY DEF Enter
<1>2. /\ call[c] \in Locals /\ call \in [Calls -> Locals] /\ ~call[c].sent /\ kind \in Managers
      /\ ~call[c].through
  BY <1>1, TypedNow DEF Fits, SoundCalls, Sound
<1>3. Moves(c, m) /\ ses' = IF ok THEN Restore(NextOrder(checked), Yes)
                            ELSE EnterFailed(NextOrder(checked), c)
  BY <1>1, <1>2 DEF Enter, Moves, Yes
<1>4. Turn(c) /\ c \notin Live
  BY <1>1 DEF Turn, Live
<1>5. ses.guards = {} /\ \A x \in Calls : x # c => HeldBy(call[x]) = {}
  BY <1>1, <1>4, GuardsOwn DEF HeldBy
<1>6. ses = Of({}, ses.defer, ses.depth, ses.base, ses.counter, ses.buffer, ses.rows,
               ses.early, ses.checks)
  BY <1>5, SessionNow
<1>7. checks = IF kind = "managerAsync" THEN Plus(ses.checks, c) ELSE ses.checks
  OBVIOUS
<1> HIDE DEF checks
<1>8. /\ checked = Of({}, ses.defer, ses.depth, ses.base, ses.counter, ses.buffer, ses.rows,
                      ses.early, checks)
      /\ Restore(NextOrder(checked), Yes) =
           Of({}, Yes, ses.depth, ses.base, Succ(ses.counter), ses.buffer, ses.rows,
              ses.early, checks)
      /\ EnterFailed(NextOrder(checked), c) =
           Of({}, ses.defer, ses.depth, ses.base, Succ(ses.counter), ses.buffer,
              Plus(ses.rows, c), ses.early, checks)
  BY <1>2, <1>6, <1>7, ManagerEffect
<1>9. checked.counter = ses.counter
  BY <1>8, FieldsOf
<1> HIDE DEF checked
<1>10. /\ m.pc = pc /\ m.kind = kind /\ m.sent /\ ~m.through /\ m.older = Live
       /\ m.prev = ses.defer /\ m.order = ses.counter /\ m.inner = NoInner
  BY <1>2, <1>9 DEF Locals
<1>11. pc = IF ok THEN "pulled" ELSE "failed"
  OBVIOUS
<1> HIDE DEF m, pc
<1>12. /\ ses'.guards = {} /\ ses'.defer = (IF ok THEN Yes ELSE ses.defer) /\ ses'.base = ses.base
       /\ ses'.counter = Succ(ses.counter) /\ ses'.buffer = ses.buffer
       /\ ses'.rows = (IF ok THEN ses.rows ELSE Plus(ses.rows, c)) /\ ses'.early = ses.early
       /\ ses'.checks = checks
  <2>1. CASE ok
    <3>1. ses' = Of({}, Yes, ses.depth, ses.base, Succ(ses.counter), ses.buffer, ses.rows,
                    ses.early, checks)
      BY <1>3, <1>8, <2>1
    <3>2. QED
      BY <2>1, <3>1, FieldsOf
  <2>2. CASE ~ok
    <3>1. ses' = Of({}, ses.defer, ses.depth, ses.base, Succ(ses.counter), ses.buffer,
                    Plus(ses.rows, c), ses.early, checks)
      BY <1>3, <1>8, <2>2
    <3>2. QED
      BY <2>2, <3>1, FieldsOf
  <2>3. QED
    BY <2>1, <2>2
<1>13. ses.counter \in Nat /\ Succ(ses.counter) \in Nat /\ ses.counter < Succ(ses.counter)
       /\ ses.counter # None
  BY SessionNow, SuccNat
<1>14. /\ kind \notin LiKinds /\ kind \notin AgnoKinds /\ kind \notin LangChain /\ kind # "modea"
       /\ PullHold(kind) = {}
  BY <1>2 DEF Managers, LiKinds, AgnoKinds, LangChain, PullHold
<1>15. NoInner.taken = FALSE /\ NoInner.order = None
  BY DEF NoInner
<1>16. Sound(m)
  BY <1>2, <1>10, <1>11, <1>13, <1>14, <1>15 DEF Sound, PullDefers
<1>17. SoundCalls'
  BY <1>3, <1>16, SoundStep
<1>18. Guarded'
  BY <1>3, <1>5, <1>10, <1>11, <1>12, <1>14, GuardsStep DEF HeldBy
<1>19. ChecksDue'
  <2>1. Due(m) = 1 /\ Due(call[c]) = IF kind = "managerAsync" THEN 0 ELSE 1
    BY <1>1, <1>2, <1>10 DEF Due, Lazy, Managers
  <2>2. QED
    BY <1>3, <1>7, <1>12, <2>1, ChecksStep
<1>20. OlderKnown'
  BY <1>1, <1>3, <1>10, <1>11, OlderEnter
<1>21. ~Defers(call[c]) /\ (Defers(m) <=> ok)
  BY <1>1, <1>2, <1>10, <1>11, <1>14 DEF Defers, PullDefers
<1>22. DeferKnown'
  BY <1>3, <1>4, <1>12, <1>21, YesNo, DeferStep
<1>23. PrevKnown'
  <2>1. CASE ok
    <3>1. HasPrev(m) /\ PrevOf(m) = ses.defer /\ c \notin Deferring
      BY <1>2, <1>10, <1>11, <1>21, <2>1 DEF HasPrev, OuterPrev, PrevOf, Deferring
    <3>2. QED
      BY <1>3, <1>4, <1>10, <3>1, PrevTaken
  <2>2. CASE ~ok
    <3>1. ~HasPrev(m)
      BY <1>10, <1>11, <2>2 DEF HasPrev, InnerPrev, OuterPrev
    <3>2. QED
      BY <1>3, <1>4, <3>1, PrevKept
  <2>3. QED
    BY <2>1, <2>2
<1>24. Settling(c, m)
  BY <1>1 DEF Settling
<1>25. BaseKnown' /\ AllCovered'
  BY <1>1, <1>3, <1>4, <1>10, <1>12, <1>14, <1>24, CoveredAside
<1>26. Books'
  <2>1. CASE ok
    BY <1>1, <1>3, <1>10, <1>11, <1>12, <2>1, BooksKept DEF Unfinished
  <2>2. CASE ~ok
    <3>1. Settled(kind, c, "failed", None, ses.buffer, ses.rows, ses.buffer, Plus(ses.rows, c))
      BY DEF Settled
    <3>2. QED
      BY <1>1, <1>3, <1>10, <1>11, <1>12, <2>2, <3>1, BooksSettled DEF Unfinished, Hows
  <2>3. QED
    BY <2>1, <2>2
<1>27. OrdersKnown'
  <2>1. m.inner.order = None /\ m.kind \notin LiKinds
    BY <1>10, <1>14, <1>15
  <2>2. /\ ses'.counter \in Nat /\ ses.counter <= ses'.counter /\ ses.counter < ses'.counter
        /\ m.order = ses.counter /\ ses'.buffer = ses.buffer
    BY <1>10, <1>12, <1>13
  <2>3. QED
    BY <1>3, <1>4, <1>13, <2>1, <2>2, OrdersStep
<1>28. QED
  BY <1>17, <1>18, <1>19, <1>20, <1>22, <1>23, <1>25, <1>26, <1>27

\* A stream is dropped before it is pulled.
LEMMA DropKeeps == ASSUME FInv, Orderly, NEW c \in Calls, Drop(c) PROVE FRest'
<1> DEFINE kind == call[c].kind
           m == [call[c] EXCEPT !.pc = "dropped"]
<1> USE DEF FInv, FRest
<1>1. call[c].pc = "open" /\ MayStep(c) /\ kind \notin {"llamaindex", "liAsync", "pydantic"}
  BY DEF Drop, Orderly
<1>2. /\ call[c] \in Locals /\ call \in [Calls -> Locals] /\ ~call[c].through
      /\ kind \notin Managers
  BY <1>1, TypedNow DEF Fits, SoundCalls, Sound
<1>3. Moves(c, m) /\ ses' = IF kind = "agno" THEN Release(ses, "agno") ELSE ses
  BY <1>2 DEF Drop, Moves
<1>4. Turn(c) /\ c \in Live
  BY <1>1 DEF Turn, Live
<1>5. ses.guards = OpenHold(kind) /\ \A x \in Calls : x # c => HeldBy(call[x]) = {}
  BY <1>1, <1>4, GuardsOwn DEF HeldBy
<1>6. /\ m.pc = "dropped" /\ m.kind = kind /\ (m.sent <=> call[c].sent) /\ ~m.through
      /\ m.older = call[c].older /\ m.inner = call[c].inner
  BY <1>2 DEF Locals
<1> HIDE DEF m
<1>7. ses' = Of({}, ses.defer, ses.depth, ses.base, ses.counter, ses.buffer, ses.rows,
                ses.early, ses.checks)
  <2>1. ses = Of(OpenHold(kind), ses.defer, ses.depth, ses.base, ses.counter, ses.buffer, ses.rows,
                 ses.early, ses.checks)
    BY <1>5, SessionNow
  <2>2. QED
    BY <1>1, <1>3, <2>1, DropEffect
<1>8. /\ ses'.guards = {} /\ ses'.defer = ses.defer /\ ses'.base = ses.base
      /\ ses'.counter = ses.counter /\ ses'.buffer = ses.buffer
      /\ ses'.rows = ses.rows /\ ses'.early = ses.early /\ ses'.checks = ses.checks
  BY <1>7, FieldsOf
<1>9. SoundCalls'
  BY <1>3, <1>6, SoundStep DEF Sound
<1>10. Guarded'
  BY <1>3, <1>5, <1>6, <1>8, GuardsStep DEF HeldBy
<1>11. ChecksDue'
  BY <1>1, <1>3, <1>6, <1>8, ChecksStep DEF Due
<1>12. OlderKnown'
  BY <1>1, <1>3, <1>6, OlderKeep
<1>13. ~Defers(m) /\ ~Defers(call[c]) /\ ~HasPrev(m)
  BY <1>1, <1>6 DEF Defers, HasPrev, InnerPrev, OuterPrev, LiKinds
<1>14. DeferKnown' /\ PrevKnown'
  BY <1>3, <1>4, <1>8, <1>13, DeferStep, PrevKept
<1>15. Settling(c, m)
  BY <1>6 DEF Settling
<1>16. BaseKnown' /\ AllCovered'
  BY <1>1, <1>3, <1>4, <1>6, <1>8, <1>15, CoveredAside
<1>17. Books'
  BY <1>1, <1>3, <1>6, <1>8, BooksKept DEF Unfinished
<1>18. OrdersKnown'
  BY <1>3, <1>4, <1>6, <1>8, SessionNow, OrdersStep
<1>19. QED
  BY <1>9, <1>10, <1>11, <1>12, <1>14, <1>16, <1>17, <1>18

\* A stream is opened.
LEMMA OpenKeeps ==
  ASSUME FInv, Orderly, NEW c \in Calls, NEW kind \in AllKinds, NEW eager \in BOOLEAN,
         Open(c, kind, eager)
  PROVE  FRest'
<1> DEFINE i == OpenInner(ses, c, kind, eager)
           m == [pc |-> "open", kind |-> kind, through |-> FALSE, order |-> ses.counter,
                 prev |-> ses.defer, sent |-> eager, inner |-> i, kept |-> {}, older |-> Live]
           checks == IF kind \in Lazy THEN ses.checks ELSE Plus(ses.checks, c)
           defer  == IF kind \in LiKinds THEN Yes ELSE ses.defer
<1> USE DEF FInv, FRest
<1>1. /\ call[c].pc = "new" /\ MayCall /\ kind \in AllKinds \ (Managers \union Embeddings)
      /\ eager \in EagerChoices(kind)
  BY DEF Open
<1>2. ~call[c].sent
  BY <1>1, TypedNow DEF Fits
<1>3. Turn(c) /\ c \notin Live
  BY <1>1 DEF Turn, Live
<1>4. ses.guards = {} /\ \A x \in Calls : x # c => HeldBy(call[x]) = {}
  BY <1>1, <1>3, GuardsOwn DEF HeldBy
<1>5. PassesThrough(ses, kind) = FALSE
  BY <1>4 DEF PassesThrough
<1>6. Moves(c, m) /\ ses' = AfterOpen(OpenMade(ses, c, kind, eager), kind)
  BY <1>5 DEF Open, Moves, OpenMade, OpenInner, Requests
<1>7. OpensTo(kind, eager, ses', i, ses.defer, ses.depth, ses.base, ses.counter, ses.buffer,
              ses.rows, ses.early, ses.checks, c)
  <2>1. ses = Of({}, ses.defer, ses.depth, ses.base, ses.counter, ses.buffer, ses.rows,
                 ses.early, ses.checks)
    BY <1>4, SessionNow
  <2>2. QED
    BY <1>1, <1>6, <2>1, SessionNow, OpenEffect
<1> HIDE DEF i
<1>8. /\ m.pc = "open" /\ m.kind = kind /\ m.sent = eager /\ ~m.through /\ m.older = Live
      /\ m.prev = ses.defer /\ m.order = ses.counter /\ m.inner = i
  OBVIOUS
<1> HIDE DEF m
<1>9. PICK k2 : /\ Opened(kind, eager, ses.defer, ses.counter, k2, i)
                /\ ses' = Of(OpenHold(kind), defer, ses.depth, ses.base, k2, ses.buffer, ses.rows,
                             ses.early, checks)
  BY <1>7 DEF OpensTo
<1>10. /\ defer = (IF kind \in LiKinds THEN Yes ELSE ses.defer)
       /\ checks = IF kind \in Lazy THEN ses.checks ELSE Plus(ses.checks, c)
  OBVIOUS
<1> HIDE DEF defer, checks
<1>11. /\ ses'.guards = OpenHold(kind) /\ ses'.defer = defer /\ ses'.base = ses.base
       /\ ses'.counter = k2 /\ ses'.buffer = ses.buffer
       /\ ses'.rows = ses.rows /\ ses'.early = ses.early /\ ses'.checks = checks
  BY <1>9, FieldsOf
<1>12. /\ ses.counter \in Nat /\ k2 \in Nat /\ ses.counter <= k2 /\ ses.counter # None
       /\ i.order # None => i.order \in Nat /\ ses.counter <= i.order /\ i.order < k2
  BY <1>9, FrameworkAssumption DEF Opened, OrderWithin
<1>13. /\ kind = "modea" => i.taken = Yes /\ i.order = ses.counter /\ i.prev = ses.defer
       /\ kind # "modea" => i.taken = No
       /\ kind \in LiKinds => IF eager THEN i.order = ses.counter ELSE k2 = ses.counter
  BY <1>9, InFields DEF Opened
<1>14. kind \notin Managers
  BY <1>1
<1>15. Sound(m)
  BY <1>1, <1>8, <1>12, <1>13, <1>14, YesNo DEF Sound, LiKinds
<1>16. SoundCalls'
  BY <1>6, <1>15, SoundStep
<1>17. Guarded'
  BY <1>4, <1>6, <1>8, <1>11, GuardsStep DEF HeldBy
<1>18. ChecksDue'
  <2>1. Due(call[c]) = 0 /\ Due(m) = IF kind \in Lazy THEN 0 ELSE 1
    BY <1>1, <1>2, <1>8, <1>14 DEF Due, Lazy, Managers, EagerChoices, LangChain
  <2>2. QED
    BY <1>6, <1>10, <1>11, <2>1, ChecksStep
<1>19. OlderKnown'
  BY <1>1, <1>6, <1>8, OlderEnter
<1>20. ~Defers(call[c]) /\ (Defers(m) <=> kind \in LiKinds)
  BY <1>1, <1>8 DEF Defers
<1>21. DeferKnown'
  BY <1>3, <1>6, <1>10, <1>11, <1>20, YesNo, DeferStep
<1>22. PrevKnown'
  <2>1. CASE kind \in LiKinds \union {"modea"}
    <3>1. HasPrev(m) /\ PrevOf(m) = ses.defer /\ c \notin Deferring
      BY <1>8, <1>13, <1>20, <2>1
      DEF HasPrev, OuterPrev, InnerPrev, PrevOf, Deferring, LiKinds, Managers
    <3>2. QED
      BY <1>3, <1>6, <1>8, <3>1, PrevTaken
  <2>2. CASE kind \notin LiKinds \union {"modea"}
    <3>1. ~HasPrev(m)
      BY <1>8, <2>2 DEF HasPrev, InnerPrev, OuterPrev
    <3>2. QED
      BY <1>3, <1>6, <3>1, PrevKept
  <2>3. QED
    BY <2>1, <2>2
<1>23. Settling(c, m)
  BY <1>1 DEF Settling
<1>24. BaseKnown' /\ AllCovered'
  BY <1>1, <1>3, <1>6, <1>8, <1>11, <1>23, CoveredAside
<1>25. Books'
  BY <1>1, <1>6, <1>8, <1>11, BooksKept DEF Unfinished
<1>26. OrdersKnown'
  <2>1. m.inner.order = None \/ Fresh(m.inner.order, c)
    BY <1>8, <1>11, <1>12 DEF Fresh
  <2>2. /\ ses'.counter \in Nat /\ ses.counter <= ses'.counter /\ m.kind \notin Managers
        /\ ses'.buffer = ses.buffer
    BY <1>8, <1>11, <1>12, <1>14
  <2>3. \A p \in ses.buffer : p.order # m.order
    BY <1>8, <1>12 DEF OrdersKnown
  <2>4. m.kind \in LiKinds /\ ~m.sent => m.order = ses'.counter
    BY <1>8, <1>11, <1>13
  <2>5. QED
    BY <1>3, <1>6, <1>12, <2>1, <2>2, <2>3, <2>4, OrdersStep
<1>27. QED
  BY <1>16, <1>17, <1>18, <1>19, <1>21, <1>22, <1>24, <1>25, <1>26

\* A LangChain stream starts: the first notes whether telemetry is deferred.
LEMMA LcStarts ==
  ASSUME TInv, SoundCalls, OlderKnown, DeferKnown, BaseKnown, NEW c \in Calls, Turn(c), NEW m,
         Moves(c, m), Settling(c, m), c \in Live, call[c].pc = "open",
         m.pc = "pulled", m.kind \in LangChain, ~m.through,
         ses'.base = IF ses.depth = 0 THEN ses.defer ELSE ses.base
  PROVE  BaseKnown'
<1>1. call'[c] = m /\ \A z \in Calls : z # c => call'[z] = call[z]
  BY MoveOthers
<1>2. m.kind = call[c].kind /\ m.older = call[c].older /\ c \in LcPulled'
  BY LcPulledMoves DEF Settling
<1>3. ses.depth = 0 <=> LcPulled = {}
  BY LcPulledFinite, FS_EmptySet DEF TInv, DepthCounts
<1>4. CASE LcPulled # {}
  <2>1. Base' = Base
    BY <1>2, <1>4, BaseSame
  <2>2. QED
    BY <1>3, <1>4, <2>1 DEF BaseKnown
<1>5. CASE LcPulled = {}
  <2>1. c \notin Deferring
    BY <1>2 DEF Deferring, Defers, LangChain, LiKinds
  <2>2. \A y \in Deferring : call[y].kind \notin LangChain
    BY <1>5, DeferringLive DEF LcPulled, Deferring, Defers, SoundCalls, Sound, LangChain, LiKinds
  <2>3. \A y \in Deferring : y \in call[c].older /\ y # c /\ y \in Calls
    BY <2>1, <2>2, DeferringLive, TurnUnseen
  <2>4. \A y \in LcPulled' : y = c
    BY <1>5, LcPulledMoves
  <2>5. \A y \in Deferring' : y = c \/ y \in Deferring
    BY DeferringMoves
  <2>6. \A y \in Deferring : y \in Deferring'
    BY <2>1, <2>3, DeferringMoves
  <2>7. Base' = Deferring
    <3>1. \A y \in Deferring : y \in Base'
      BY <1>1, <1>2, <2>2, <2>3, <2>4, <2>6 DEF Base
    <3>2. \A y \in Base' : y \in Deferring
      BY <1>1, <2>5 DEF Base
    <3>3. QED
      BY <3>1, <3>2
  <2>8. QED
    BY <1>3, <1>5, <2>7 DEF BaseKnown, DeferKnown
<1>6. QED
  BY <1>4, <1>5

\* A stream is pulled for the first time.
LEMMA PullKeeps == ASSUME FInv, Orderly, NEW c \in Calls, Pull(c) PROVE FRest'
<1> DEFINE kind == call[c].kind
           sent == call[c].sent
           i0   == call[c].inner
           i == PullInner(ses, c)
           m == [call[c] EXCEPT !.pc = "pulled", !.sent = TRUE, !.inner = i]
           checks == IF kind \in Lazy THEN Plus(ses.checks, c) ELSE ses.checks
           defer  == IF PullDefers(kind) THEN Yes ELSE ses.defer
           depth  == IF kind \in LangChain THEN Succ(ses.depth) ELSE ses.depth
           base   == IF kind \in LangChain /\ ses.depth = 0 THEN ses.defer ELSE ses.base
<1> USE DEF FInv, FRest
<1>1. call[c].pc = "open" /\ MayStep(c)
  BY DEF Pull
<1>2. /\ call[c] \in Locals /\ call \in [Calls -> Locals] /\ ~call[c].through
      /\ kind \in AllKinds \ (Managers \union Embeddings)
  BY <1>1, TypedNow DEF Fits, SoundCalls, Sound
<1>3. Moves(c, m) /\ ses' = PullLast(ses, c)
  BY <1>2 DEF Pull, Moves, PullLast, PullMade, PullInner
<1>4. Turn(c) /\ c \in Live
  BY <1>1 DEF Turn, Live
<1>5. ses.guards = OpenHold(kind) /\ \A x \in Calls : x # c => HeldBy(call[x]) = {}
  BY <1>1, <1>4, GuardsOwn DEF HeldBy
<1>6. /\ sent \in EagerChoices(kind) /\ (i0.taken <=> kind = "modea")
      /\ kind = "modea" => i0.order # None
      /\ kind \in LiKinds /\ sent => i0.order = call[c].order
      /\ kind \in LiKinds => call[c].order # None
      /\ kind \in LiKinds /\ ~sent => call[c].order = ses.counter
      /\ kind \in LiKinds => \A p \in ses.buffer : p.order # call[c].order
  BY <1>1, <1>4 DEF SoundCalls, Sound, OrdersKnown
<1>7. PullsTo(kind, sent, i0, ses', i, ses.defer, ses.depth, ses.base, ses.counter, ses.buffer,
              ses.rows, ses.early, ses.checks, c)
  <2>1. ses = Of(OpenHold(kind), ses.defer, ses.depth, ses.base, ses.counter, ses.buffer, ses.rows,
                 ses.early, ses.checks)
    BY <1>5, SessionNow
  <2>2. QED
    BY <1>2, <1>3, <1>5, <1>6, <2>1, PullEffect
<1> HIDE DEF i
<1>8. /\ m.pc = "pulled" /\ m.kind = kind /\ m.sent /\ ~m.through /\ m.older = call[c].older
      /\ m.prev = call[c].prev /\ m.order = call[c].order /\ m.inner = i
  BY <1>2 DEF Locals
<1> HIDE DEF m
<1>9. PICK k2 : /\ Pulled(kind, sent, ses.defer, ses.counter, i0, k2, i)
                /\ ses' = Of(PullHold(kind), defer, depth, base, k2, ses.buffer, ses.rows,
                             ses.early, checks)
  BY <1>7 DEF PullsTo
<1>10. /\ defer = (IF PullDefers(kind) THEN Yes ELSE ses.defer)
       /\ checks = (IF kind \in Lazy THEN Plus(ses.checks, c) ELSE ses.checks)
       /\ base = IF kind \in LangChain /\ ses.depth = 0 THEN ses.defer ELSE ses.base
  OBVIOUS
<1> HIDE DEF defer, checks, depth, base
<1>11. /\ ses'.guards = PullHold(kind) /\ ses'.defer = defer /\ ses'.base = base
       /\ ses'.counter = k2 /\ ses'.buffer = ses.buffer
       /\ ses'.rows = ses.rows /\ ses'.early = ses.early /\ ses'.checks = checks
  BY <1>9, FieldsOf
<1>12. ses.counter \in Nat /\ Succ(ses.counter) \in Nat /\ ses.counter < Succ(ses.counter)
       /\ ses.counter # None
  BY SessionNow, SuccNat
<1>13. /\ sent => i = i0 /\ k2 = ses.counter
       /\ ~sent => k2 = Succ(ses.counter) /\ i.order = ses.counter
       /\ ~sent /\ kind \in AgnoKinds => i.taken = Yes /\ i.prev = ses.defer
       /\ ~sent /\ kind \notin AgnoKinds => i.taken = No
  BY <1>9, InFields DEF Pulled
<1>14. kind \notin Managers
  BY <1>2
<1>15. /\ kind = "modea" => sent
       /\ kind \in AgnoKinds \union LangChain \union Lazy => ~sent
       /\ kind \notin LiKinds \union AgnoKinds \union LangChain \union Lazy => sent
  BY <1>2, <1>6
  DEF EagerChoices, AgnoKinds, LangChain, Lazy, LiKinds, AllKinds, Managers, Embeddings, StreamOnly
<1>16. Sound(m)
  <2>1. m.inner.taken <=> m.kind = "modea" \/ m.kind \in AgnoKinds
    BY <1>6, <1>8, <1>13, <1>15, YesNo DEF AgnoKinds
  <2>2. PullDefers(m.kind) \/ m.kind \in LiKinds => m.inner.order # None
    BY <1>6, <1>8, <1>12, <1>13, <1>15 DEF PullDefers
  <2>3. m.kind \in LiKinds => m.inner.order = m.order /\ m.order # None
    BY <1>6, <1>8, <1>13
  <2>4. QED
    BY <1>8, <1>14, <2>1, <2>2, <2>3 DEF Sound
<1>17. SoundCalls'
  BY <1>3, <1>16, SoundStep
<1>18. Guarded'
  BY <1>3, <1>5, <1>8, <1>11, GuardsStep DEF HeldBy
<1>19. ChecksDue'
  <2>1. Due(m) = 1 /\ Due(call[c]) = IF kind \in Lazy THEN 0 ELSE 1
    BY <1>1, <1>8, <1>14, <1>15 DEF Due, Managers
  <2>2. QED
    BY <1>3, <1>10, <1>11, <2>1, ChecksStep
<1>20. OlderKnown'
  BY <1>3, <1>4, <1>8, OlderKeep
<1>21. /\ Defers(call[c]) <=> kind \in LiKinds
       /\ Defers(m) <=> PullDefers(kind) \/ kind \in LiKinds
  BY <1>1, <1>8, <1>14 DEF Defers
<1>22. DeferKnown'
  BY <1>3, <1>4, <1>10, <1>11, <1>21, YesNo, DeferStep
<1>23. PrevKnown'
  <2>1. CASE kind \in AgnoKinds
    <3>1. HasPrev(m) /\ PrevOf(m) = ses.defer /\ c \notin Deferring
      BY <1>8, <1>13, <1>15, <1>21, <2>1
      DEF HasPrev, OuterPrev, InnerPrev, PrevOf, Deferring, LiKinds, AgnoKinds, Managers
    <3>2. kind \notin LangChain
      BY <2>1 DEF AgnoKinds, LangChain
    <3>3. QED
      BY <1>3, <1>4, <1>8, <3>1, <3>2, PrevTaken
  <2>2. CASE kind \notin AgnoKinds
    <3>1. HasPrev(m) => HasPrev(call[c]) /\ PrevOf(m) = PrevOf(call[c])
      BY <1>1, <1>8, <1>13, <1>14, <1>15, <2>2 DEF HasPrev, InnerPrev, OuterPrev, PrevOf, LiKinds
    <3>2. QED
      BY <1>3, <1>4, <1>8, <3>1, PrevKept
  <2>3. QED
    BY <2>1, <2>2
<1>24. Settling(c, m)
  BY <1>8 DEF Settling
<1>25. BaseKnown' /\ AllCovered'
  <2>1. CASE kind \notin LangChain
    BY <1>1, <1>3, <1>4, <1>8, <1>10, <1>11, <1>24, <2>1, CoveredAside
  <2>2. CASE kind \in LangChain
    <3>1. BaseKnown'
      BY <1>1, <1>3, <1>4, <1>8, <1>10, <1>11, <1>24, <2>2, LcStarts
    <3>2. LcPulled' # {}
      BY <1>3, <1>8, <2>2, LcPulledMoves
    <3>3. AllCovered'
      BY <1>1, <1>3, <1>4, <1>8, <1>11, <1>24, <3>2, BufferStep
    <3>4. QED
      BY <3>1, <3>3
  <2>3. QED
    BY <2>1, <2>2
<1>26. Books'
  BY <1>1, <1>3, <1>8, <1>11, BooksKept DEF Unfinished
<1>27. OrdersKnown'
  <2>1. m.inner.order = call[c].inner.order \/ Fresh(m.inner.order, c)
    BY <1>8, <1>11, <1>12, <1>13 DEF Fresh
  <2>2. /\ ses'.counter \in Nat /\ ses.counter <= ses'.counter /\ m.kind \notin Managers
        /\ ses'.buffer = ses.buffer
    BY <1>8, <1>11, <1>12, <1>13, <1>14
  <2>3. m.kind \in LiKinds => \A p \in ses.buffer : p.order # m.order
    BY <1>6, <1>8
  <2>4. QED
    BY <1>3, <1>4, <1>8, <1>12, <2>1, <2>2, <2>3, OrdersStep
<1>28. QED
  BY <1>17, <1>18, <1>19, <1>20, <1>22, <1>23, <1>25, <1>26, <1>27

\* A LangChain stream ends: the last restores the flag as the first noted it.
LEMMA LcEnds ==
  ASSUME TInv, SoundCalls, OlderKnown, DeferKnown, BaseKnown, NEW c \in LcPulled, Turn(c), NEW m,
         Moves(c, m), Settling(c, m), m.pc \notin {"open", "pulled"},
         ses'.base = ses.base, ses'.defer = IF Pred(ses.depth) > 0 THEN Yes ELSE ses.base
  PROVE  DeferKnown' /\ BaseKnown' /\ (LcPulled' = {} => ses'.defer = ses.base)
<1>1. /\ c \in Calls /\ call[c].kind \in LangChain /\ call[c].pc = "pulled"
      /\ call'[c] = m /\ \A z \in Calls : z # c => call'[z] = call[z]
  BY MoveOthers DEF LcPulled
<1>2. ~Defers(m)
  BY DEF Defers
<1>3. LcPulled' = LcPulled \ {c}
  BY <1>1, LcPulledMoves DEF LcPulled
<1>4. Pred(ses.depth) > 0 <=> LcPulled' # {}
  <2> DEFINE rest == LcPulled \ {c}
  <2>1. IsFiniteSet(rest) /\ Cardinality(rest) = Cardinality(LcPulled) - 1
    BY LcPulledFinite, FS_RemoveElement
  <2>2. Cardinality(rest) \in Nat /\ (Cardinality(rest) = 0 <=> rest = {})
    BY <2>1, FS_CardinalityType, FS_EmptySet
  <2> HIDE DEF rest
  <2>3. Pred(ses.depth) = Cardinality(rest)
    BY <2>1 DEF TInv, DepthCounts, Pred
  <2>4. QED
    BY <1>3, <2>2, <2>3 DEF rest
<1>5. BaseKnown'
  <2>1. LcPulled' # {} => Base' = Base
    BY <1>1, BaseSame
  <2>2. QED
    BY <2>1 DEF BaseKnown
<1>6. CASE LcPulled' # {}
  <2>1. PICK z \in LcPulled' : TRUE
    BY <1>6
  <2>2. z \in LcPulled /\ z # c /\ z \in Calls
    BY <1>3, <2>1 DEF LcPulled
  <2>3. z \in Deferring
    BY <2>2 DEF LcPulled, Deferring, Defers, PullDefers
  <2>4. z \in Deferring'
    BY <1>1, <2>2, <2>3, DeferringMoves
  <2>5. QED
    BY <1>4, <1>5, <1>6, <2>4, YesNo DEF DeferKnown
<1>7. CASE LcPulled' = {}
  <2>1. \A z \in LcPulled : z = c
    BY <1>3, <1>7
  <2>2. \A y \in Deferring : y # c => call[y].kind \notin LangChain
    BY <2>1, DeferringLive
    DEF LcPulled, Deferring, Defers, SoundCalls, Sound, LangChain, LiKinds
  <2>3. \A y \in Deferring : y # c => y \in call[c].older
    BY <1>1, <2>2, DeferringLive, TurnUnseen, LcPulledLive
  <2>4. \A y \in Deferring : y # c => y \in Base
    BY <2>1, <2>2, <2>3 DEF Base
  <2>5. \A y \in Base : y \in Deferring /\ y # c
    BY <1>1 DEF Base
  <2>6. \A y : y \in Deferring' <=> y \in Deferring /\ y # c
    BY <1>1, <1>2, DeferringMoves DEF Deferring
  <2>7. Deferring' = Base
    BY <2>4, <2>5, <2>6
  <2>8. ses'.defer = ses.base
    BY <1>4, <1>7
  <2>9. ses.base <=> Base # {}
    BY DEF BaseKnown
  <2>10. QED
    BY <1>5, <2>7, <2>8, <2>9 DEF DeferKnown
<1>8. QED
  BY <1>6, <1>7

\* A stream ends.
LEMMA FinishKeeps ==
  ASSUME FInv, Orderly, NEW c \in Calls, NEW how \in Hows, NEW spanned \in BOOLEAN,
         Finish(c, how, spanned)
  PROVE  FRest'
<1> DEFINE kind == call[c].kind
           i == call[c].inner
           prev == call[c].prev
           m == [call[c] EXCEPT !.pc = how]
           depth == IF kind \in LangChain THEN Pred(ses.depth) ELSE ses.depth
<1> USE DEF FInv, FRest
<1>1. call[c].pc = "pulled" /\ MayStep(c) /\ ses' = Finished(ses, c, how, spanned) /\ how \in Hows
  BY DEF Finish
<1>2. /\ call[c] \in Locals /\ call \in [Calls -> Locals] /\ ~call[c].through
      /\ kind \in AllKinds \ Embeddings
  BY <1>1, TypedNow DEF Fits, SoundCalls, Sound
<1>3. Moves(c, m)
  BY <1>2 DEF Finish, Moves
<1>4. Turn(c) /\ c \in Live
  BY <1>1 DEF Turn, Live
<1>5. ses.guards = PullHold(kind) /\ \A x \in Calls : x # c => HeldBy(call[x]) = {}
  BY <1>1, <1>4, GuardsOwn DEF HeldBy
<1>6. Defers(call[c]) <=> PullDefers(kind) \/ kind \in Managers \/ kind \in LiKinds
  BY <1>1 DEF Defers
<1>7. ReadyToEnd(kind, i, ses.defer, ses.buffer, call[c].order)
  <2>1. /\ i.taken <=> kind = "modea" \/ kind \in AgnoKinds
        /\ PullDefers(kind) \/ kind \in LiKinds => i.order # None
        /\ kind \in LiKinds => i.order = call[c].order
    BY <1>1 DEF SoundCalls, Sound
  <2>2. PullDefers(kind) \/ kind \in LiKinds => ses.defer
    BY <1>6 DEF DeferKnown, Deferring
  <2>3. ses.defer => ses.defer = Yes
    BY SessionNow, YesNo
  <2>4. kind \in LiKinds \union Managers => \A p \in ses.buffer : p.order # call[c].order
    BY <1>4 DEF OrdersKnown
  <2>5. QED
    BY <2>1, <2>2, <2>3, <2>4 DEF ReadyToEnd
<1>8. PullDefers(kind) => i.order # None
  BY <1>7 DEF ReadyToEnd
<1>9. EndsTo(kind, how, i, prev, ses', ses.defer, ses.depth, ses.base, ses.counter, ses.buffer,
             ses.rows, ses.early, ses.checks, c)
  <2>1. ses = Of(PullHold(kind), ses.defer, ses.depth, ses.base, ses.counter, ses.buffer, ses.rows,
                 ses.early, ses.checks)
    BY <1>5, SessionNow
  <2>2. Numbered(ses.rows, c)
    BY SessionNow DEF Numbered
  <2>3. /\ ses.base \in {Yes, No} /\ ses.guards = PullHold(kind) /\ ~call[c].through
        /\ kind \in AllKinds \ Embeddings
    BY <1>2, <1>5, SessionNow
  <2>4. HowSpanned(how, spanned)
    BY BooleanYesNo DEF Finish, HowSpanned, Yes, No
  <2>5. EndsTo(kind, how, i, prev, Finished(ses, c, how, spanned), ses.defer, ses.depth, ses.base,
               ses.counter, ses.buffer, ses.rows, ses.early, ses.checks, c)
    BY <1>7, <2>1, <2>2, <2>3, <2>4, FinishEffect
  <2>6. QED
    BY <1>1, <2>5
<1>10. /\ m.pc = how /\ m.kind = kind /\ m.sent = call[c].sent /\ ~m.through
       /\ m.older = call[c].older /\ m.inner = i
  BY <1>2 DEF Locals
<1> HIDE DEF m
<1>11. PICK d2, q2, r2 :
         /\ ses' = Of({}, d2, depth, ses.base, ses.counter, q2, r2, ses.early, ses.checks)
         /\ d2 = EndDefer(kind, i, prev, ses.defer, ses.depth, ses.base)
         /\ EndsWith(kind, how, i, c, ses.buffer, ses.rows, d2, q2, r2)
  BY <1>9 DEF EndsTo
<1> HIDE DEF depth
<1>12. /\ ses'.guards = {} /\ ses'.defer = d2 /\ ses'.base = ses.base
       /\ ses'.counter = ses.counter /\ ses'.buffer = q2 /\ ses'.rows = r2
       /\ ses'.early = ses.early /\ ses'.checks = ses.checks
  BY <1>11, FieldsOf
<1>13. /\ Settled(kind, c, how, i.order, ses.buffer, ses.rows, q2, r2)
       /\ kind = "modea" => q2 = {} \/ how = "failed"
       /\ kind \in LangChain => q2 = {} \/ d2 = Yes
       /\ kind \notin LangChain => \/ q2 = {} \/ q2 \subseteq ses.buffer
                                   \/ how = "failed" /\ kind \in FailByModeA
  BY <1>11 DEF EndsWith, Fewer
<1>14. SoundCalls'
  BY <1>1, <1>3, <1>10, SoundStep DEF Sound, Hows
<1>15. Guarded'
  BY <1>1, <1>3, <1>5, <1>10, <1>12, GuardsStep DEF HeldBy, Hows
<1>16. ChecksDue'
  <2>1. call[c].sent
    BY <1>1 DEF SoundCalls, Sound
  <2>2. QED
    BY <1>3, <1>10, <1>12, <2>1, ChecksStep DEF Due
<1>17. OlderKnown'
  BY <1>1, <1>3, <1>4, <1>10, OlderKeep DEF Hows
<1>18. ~Defers(m) /\ ~HasPrev(m)
  BY <1>1, <1>10 DEF Defers, HasPrev, InnerPrev, OuterPrev, Hows
<1>19. PrevKnown'
  BY <1>3, <1>4, <1>18, PrevKept
<1>20. Settling(c, m)
  BY <1>10 DEF Settling
<1>21. c \in LcPulled <=> kind \in LangChain
  BY <1>1, <1>2 DEF LcPulled
<1>22. Books' /\ \A p \in ses'.buffer : p \in ses.buffer \/ p = SpanAt(c, i.order)
  BY <1>1, <1>3, <1>10, <1>12, <1>13, BooksSettled DEF Unfinished
<1>23. SpanAt(c, i.order).of = c /\ SpanAt(c, i.order).order = i.order
  BY DEF SpanAt
<1>24. PullDefers(kind) => Fresh(i.order, c)
  <2>1. PullDefers(kind) => i.order \in Nat /\ i.order < ses.counter
    BY <1>8 DEF OrdersKnown
  <2>2. QED
    BY <1>4, <1>12, <2>1 DEF Fresh
<1>25. CASE kind \in LangChain
  <2>1. d2 = IF Pred(ses.depth) > 0 THEN Yes ELSE ses.base
    BY <1>11, <1>25 DEF EndDefer, LangChain, AgnoKinds, LiKinds, Managers
  <2>2. DeferKnown' /\ BaseKnown' /\ (LcPulled' = {} => d2 = ses.base)
    <3>1. m.pc \notin {"open", "pulled"}
      BY <1>1, <1>10 DEF Hows
    <3>2. QED
      BY <1>3, <1>4, <1>12, <1>20, <1>21, <1>25, <2>1, <3>1, LcEnds
  <2>3. q2 = {} \/ (LcPulled' = {} => ses.base)
    BY <1>13, <1>25, <2>2, YesNo
  <2>4. AllCovered'
    <3>1. CASE q2 = {}
      BY <1>1, <1>3, <1>4, <1>10, <1>12, <1>20, <3>1, BufferStep
    <3>2. CASE LcPulled' = {} => ses.base
      <4>1. Covered(c)'
        BY <1>1, <1>3, <1>4, <1>10, <1>20, <1>21, <1>25, <3>2, CoveredEnd DEF Hows
      <4>2. kind # "modea"
        BY <1>25 DEF LangChain
      <4>3. QED
        BY <1>1, <1>3, <1>4, <1>10, <1>20, <1>22, <1>23, <3>2, <4>1, <4>2, BufferStep
    <3>3. QED
      BY <2>3, <3>1, <3>2
  <2>5. Fresh(i.order, c)
    BY <1>25, <1>24 DEF PullDefers
  <2>6. OrdersKnown'
    <3>1. m.pc \notin {"open", "pulled"}
      BY <1>1, <1>10 DEF Hows
    <3>2. ses.counter \in Nat /\ \A p \in ses'.buffer : p \in ses.buffer \/ Fresh(p.order, c)
      BY <1>22, <1>23, <2>5, SessionNow
    <3>3. QED
      BY <1>3, <1>4, <1>10, <1>12, <3>1, <3>2, OrdersStep
  <2>7. QED
    BY <1>14, <1>15, <1>16, <1>17, <1>19, <1>22, <2>2, <2>4, <2>6
<1>26. CASE kind \notin LangChain
  <2>1. DeferKnown'
    <3>1. CASE Defers(call[c])
      <4>1. HasPrev(call[c]) /\ d2 = PrevOf(call[c])
        BY <1>1, <1>6, <1>11, <1>26, <3>1
        DEF EndDefer, HasPrev, InnerPrev, OuterPrev, PrevOf, PullDefers, LiKinds, AgnoKinds, Managers
      <4>2. QED
        BY <1>3, <1>4, <1>12, <1>18, <3>1, <4>1, DeferStep
    <3>2. CASE ~Defers(call[c])
      <4>1. d2 = ses.defer
        BY <1>6, <1>11, <1>26, <3>2 DEF EndDefer, PullDefers
      <4>2. QED
        BY <1>3, <1>4, <1>12, <1>18, <3>2, <4>1, DeferStep
    <3>3. QED
      BY <3>1, <3>2
  <2>2. BaseKnown'
    BY <1>3, <1>4, <1>10, <1>12, <1>20, <1>26, BaseAside
  <2>3. LcPulled' = LcPulled
    BY <1>3, <1>10, <1>21, <1>26, LcPulledMoves DEF LcPulled
  <2>4. AllCovered'
    <3>1. CASE q2 = {}
      BY <1>1, <1>3, <1>4, <1>10, <1>12, <1>20, <3>1, BufferStep
    <3>2. CASE q2 # {}
      <4>1. \A p \in ses'.buffer : p \in ses.buffer \/ (p.of = c /\ Covered(c)')
        <5>1. CASE q2 \subseteq ses.buffer
          BY <1>12, <5>1
        <5>2. CASE how = "failed" /\ kind \in FailByModeA
          <6>1. call'[c] = m
            BY <1>3, MoveOthers
          <6>2. MayLinger(c)'
            BY <1>10, <5>2, <6>1 DEF MayLinger
          <6>3. QED
            BY <1>22, <1>23, <6>2 DEF Covered
        <5>3. QED
          BY <1>13, <1>26, <3>2, <5>1, <5>2
      <4>2. kind = "modea" => m.pc = "failed"
        BY <1>10, <1>13, <3>2
      <4>3. QED
        BY <1>1, <1>3, <1>4, <1>10, <1>20, <2>3, <4>1, <4>2, BufferStep
    <3>3. QED
      BY <3>1, <3>2
  <2>5. OrdersKnown'
    <3>1. m.pc \notin {"open", "pulled"}
      BY <1>1, <1>10 DEF Hows
    <3>2. ses.counter \in Nat /\ \A p \in ses'.buffer : p \in ses.buffer \/ Fresh(p.order, c)
      <4>1. kind \in FailByModeA => PullDefers(kind)
        BY DEF FailByModeA, PullDefers, AgnoKinds
      <4>2. CASE q2 \subseteq ses.buffer
        BY <1>12, <4>2, SessionNow
      <4>3. CASE kind \in FailByModeA
        BY <1>22, <1>23, <1>24, <4>1, <4>3, SessionNow
      <4>4. QED
        BY <1>13, <1>26, <4>2, <4>3
    <3>3. QED
      BY <1>3, <1>4, <1>10, <1>12, <3>1, <3>2, OrdersStep
  <2>6. QED
    BY <1>14, <1>15, <1>16, <1>17, <1>19, <1>22, <2>1, <2>2, <2>4, <2>5
<1>27. QED
  BY <1>25, <1>26

\* The invariant holds at the start.
LEMMA InitKeeps == Init => FInv
<1> SUFFICES ASSUME Init PROVE FInv
  OBVIOUS
<1>1. TInv
  BY InitTyped
<1>2. /\ ses.guards = {} /\ ~ses.defer /\ ses.buffer = {} /\ ses.early = {}
      /\ ses.rows = [c \in Calls |-> 0] /\ ses.checks = [c \in Calls |-> 0]
  BY DEF Init
<1>3. \A c \in Calls : /\ call[c].pc = "new" /\ call[c].kind = None /\ ~call[c].through
                       /\ ~call[c].sent /\ call[c].inner.order = None /\ call[c].older = {}
  BY DEF Init, NoInner
<1>4. Live = {} /\ Deferring = {} /\ LcPulled = {}
  BY <1>3 DEF Live, Deferring, Defers, LcPulled
<1>5. SoundCalls
  BY <1>3 DEF SoundCalls, Sound
<1>6. Guarded /\ ChecksDue
  BY <1>2, <1>3 DEF Guarded, HeldBy, ChecksDue, Due
<1>7. OlderKnown /\ DeferKnown /\ BaseKnown /\ AllCovered
  BY <1>2, <1>3, <1>4 DEF OlderKnown, DeferKnown, BaseKnown, AllCovered
<1>8. PrevKnown
  BY <1>3 DEF PrevKnown, HasPrev, InnerPrev, OuterPrev
<1>9. OrdersKnown
  BY <1>2, <1>3, <1>4 DEF OrdersKnown
<1>10. Books
  <2>1. \A c \in Calls : SpansOf(ses.buffer, c) = {}
    BY <1>2 DEF SpansOf
  <2>2. \A c \in Calls : OwedOf(ses.rows, ses.buffer, c) = 0
    BY <1>2, <2>1, FS_EmptySet DEF OwedOf
  <2>3. QED
    BY <1>2, <1>3, <2>2 DEF Books, Booked
<1>11. QED
  BY <1>1, <1>5, <1>6, <1>7, <1>8, <1>9, <1>10 DEF FInv, FRest

\* Every step keeps it, when the application is orderly.
LEMMA StepKeeps == ASSUME Orderly PROVE FInv /\ [Next]_vars => FInv'
<1> SUFFICES ASSUME FInv, [Next]_vars PROVE FInv'
  OBVIOUS
<1>1. TInv'
  BY StepTyped DEF FInv
<1>2. ASSUME NEW c \in Calls, NEW kind \in AllKinds, NEW ok \in BOOLEAN, NEW spanned \in BOOLEAN,
             Call(c, kind, ok, spanned)
      PROVE  FRest'
  BY <1>2, CallKeeps
<1>3. ASSUME NEW c \in Calls, NEW kind \in AllKinds, NEW eager \in BOOLEAN, Open(c, kind, eager)
      PROVE  FRest'
  BY <1>3, OpenKeeps
<1>4. ASSUME NEW c \in Calls, NEW how \in {"done", "closed", "failed"}, NEW spanned \in BOOLEAN,
             Finish(c, how, spanned)
      PROVE  FRest'
  BY <1>4, FinishKeeps DEF Hows
<1>5. ASSUME UNCHANGED vars PROVE FRest'
  <2>1. ses' = ses /\ call' = call
    BY <1>5 DEF vars
  <2>2. Live' = Live /\ Deferring' = Deferring /\ LcPulled' = LcPulled
    BY <2>1 DEF Live, Deferring, LcPulled
  <2>3. Base' = Base
    BY <2>1, <2>2 DEF Base
  <2>4. /\ SoundCalls' /\ Guarded' /\ ChecksDue' /\ OlderKnown' /\ DeferKnown' /\ PrevKnown'
        /\ BaseKnown' /\ OrdersKnown' /\ Books'
    BY <2>1, <2>2, <2>3
    DEF FInv, FRest, SoundCalls, Guarded, ChecksDue, OlderKnown, DeferKnown, PrevKnown, BaseKnown,
        OrdersKnown, Books
  <2>5. AllCovered'
    BY <2>1, <2>2, <2>3 DEF FInv, FRest, AllCovered, Covered, MayLinger, Covering
  <2>6. QED
    BY <2>4, <2>5 DEF FRest
<1>6. FRest'
  BY <1>2, <1>3, <1>4, <1>5, BuildKeeps, EnterKeeps, FailOpenKeeps, PullKeeps, DropKeeps DEF Next
<1>7. QED
  BY <1>1, <1>6 DEF FInv

\* So it holds always.
LEMMA InvariantHolds == ASSUME Orderly PROVE Spec => []FInv
<1>1. FInv /\ [Next]_vars => FInv'
  BY StepKeeps
<1>2. QED
  BY <1>1, InitKeeps, PTL DEF Spec

\* Every request is checked once, at whichever boundary meters it: the wrapper of
\* the framework and that of the provider do not both check it, and a guard that
\* some earlier stream left does not keep both from checking.
THEOREM ChecksAreSingle == ASSUME Orderly PROVE Spec => []CheckedOnce
<1>1. FInv => CheckedOnce
  BY DEF FInv, FRest, ChecksDue, Due, CheckedOnce
<1>2. QED
  BY <1>1, InvariantHolds, PTL

\* When no stream is open no guard is held, telemetry is not deferred and the
\* depth counter is at zero; the spans still deferred are the errored ones of
\* calls whose failure a Mode-A wrapper reported, and those of calls made inside a
\* stream whose end does not flush.
THEOREM QuietAlwaysClean == ASSUME Orderly PROVE Spec => []QuietIsClean
<1>1. FInv => QuietIsClean
  <2> SUFFICES ASSUME FInv, Quiet PROVE QuietIsClean
    BY DEF QuietIsClean
  <2>1. Live = {} /\ Deferring = {} /\ LcPulled = {}
    BY DeferringLive, LcPulledLive DEF Quiet
  <2>2. ses.guards = {}
    <3>1. \A c \in Calls : HeldBy(call[c]) = {}
      BY <2>1 DEF HeldBy, Live
    <3>2. QED
      BY <3>1 DEF FInv, FRest, Guarded
  <2>3. ~ses.defer
    BY <2>1 DEF FInv, FRest, DeferKnown
  <2>4. ses.depth = 0
    BY <2>1, FS_EmptySet DEF FInv, TInv, DepthCounts
  <2>5. \A p \in ses.buffer : MayLinger(p.of)
    <3>1. \A y \in Calls : call[y].pc # "pulled"
      BY <2>1 DEF Live
    <3>2. QED
      BY <2>1, <3>1 DEF FInv, FRest, AllCovered, Covered, Covering
  <2>6. QED
    BY <2>2, <2>3, <2>4, <2>5 DEF QuietIsClean
<1>2. QED
  BY <1>1, InvariantHolds, PTL

\* Whichever layers a call goes through, a call that succeeded has one row and
\* one that did not no more than one, or two if a Mode-A wrapper reported its
\* failure, counting the spans that wait for the next flush; and no row is logged
\* before its wrapper is done.
THEOREM RowsAreSingle == ASSUME Orderly PROVE Spec => []OneRowEach
<1>1. FInv => OneRowEach
  <2>1. \A c \in Calls : Owed(c) = OwedOf(ses.rows, ses.buffer, c)
    BY DEF Owed, OwedOf
  <2>2. QED
    BY <2>1 DEF FInv, FRest, Books, Booked, OneRowEach
<1>2. QED
  BY <1>1, InvariantHolds, PTL
=============================================================================
