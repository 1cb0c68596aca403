-------------------------- MODULE MeteredCallsProofs --------------------------
(* Proofs about MeteredCalls for every finite set of calls.                  *)
EXTENDS MeteredCalls, FiniteSetTheorems, SequenceTheorems, TLAPS

-------------------------------------------------------------------------------
(* What the session operators return. *)

\* The fields that say whether payloads are queued.
SameFlag(s, t) == t.defer = s.defer /\ t.depth = s.depth /\ t.base = s.base

\* A span row of a call is a row.
LEMMA SpanRowTyped ==
  ASSUME NEW c \in Calls, NEW d \in Calls \union {None},
         NEW o \in Outcome \union {None}, NEW reply \in BOOLEAN
  PROVE  SpanRow(c, d, o, reply) \in Row
BY DEF SpanRow, Row

\* Ending a span keeps the session typed and the flag as it is.
LEMMA EndSpanTyped ==
  ASSUME NEW s \in Session, NEW c \in Calls, NEW ok \in BOOLEAN
  PROVE  EndSpan(s, c, ok) \in Session /\ SameFlag(s, EndSpan(s, c, ok))
<1>1. [of |-> c, ok |-> ok] \in Outcome
  BY DEF Outcome
<1>2. Own(c, s.decisions) \in Calls \union {None}
  BY DEF Own
<1> DEFINE row == SpanRow(c, Own(c, s.decisions), [of |-> c, ok |-> ok], FALSE)
<1>3. row \in Row
  BY <1>1, <1>2, SpanRowTyped
<1> HIDE DEF row
<1>4. Append(s.rows, row) \in Seq(Row) /\ Append(s.buffer, c) \in Seq(Calls)
  BY <1>3, AppendProperties DEF Session
<1>5. s.decisions \ {c} \in SUBSET Calls
  BY DEF Session
<1>6. EndSpan(s, c, ok) = IF s.defer THEN [s EXCEPT !.buffer = Append(s.buffer, c)]
                          ELSE [s EXCEPT !.rows = Append(s.rows, row),
                                         !.decisions = s.decisions \ {c}]
  BY DEF EndSpan, row
<1>7. QED
  BY <1>4, <1>5, <1>6 DEF Session, SameFlag

\* So does ending it or not.
LEMMA SpanMaybeTyped ==
  ASSUME NEW s \in Session, NEW c \in Calls, NEW spanned \in BOOLEAN,
         NEW ok \in BOOLEAN
  PROVE  /\ SpanMaybe(s, c, spanned, ok) \in Session
         /\ SameFlag(s, SpanMaybe(s, c, spanned, ok))
BY EndSpanTyped DEF SpanMaybe, SameFlag

\* A flush logs rows.
LEMMA FlushTyped ==
  ASSUME NEW s \in Session, NEW c \in Calls
  PROVE  Flush(s, c) \in Session /\ SameFlag(s, Flush(s, c))
<1> DEFINE claimed == Own(c, s.decisions)
           rows == [i \in DOMAIN s.buffer |->
             IF i = 1 THEN SpanRow(s.buffer[i], claimed, s.outcome, s.buffer[i] \in s.replies)
                      ELSE SpanRow(s.buffer[i], None, None, s.buffer[i] \in s.replies)]
<1>1. s.buffer \in Seq(Calls) /\ s.rows \in Seq(Row) /\ s.outcome \in Outcome \union {None}
  BY DEF Session
<1>2. claimed \in Calls \union {None}
  BY DEF Own
<1> HIDE DEF claimed
<1>3. \A i \in DOMAIN s.buffer : rows[i] \in Row
  <2> TAKE i \in DOMAIN s.buffer
  <2>1. s.buffer[i] \in Calls
    BY <1>1, ElementOfSeq
  <2>2. (s.buffer[i] \in s.replies) \in BOOLEAN
    OBVIOUS
  <2>3. SpanRow(s.buffer[i], claimed, s.outcome, s.buffer[i] \in s.replies) \in Row
    BY <1>1, <1>2, <2>1, <2>2, SpanRowTyped
  <2>4. SpanRow(s.buffer[i], None, None, s.buffer[i] \in s.replies) \in Row
    BY <2>1, <2>2, SpanRowTyped
  <2>5. QED
    BY <2>3, <2>4
<1>4. rows \in [1 .. Len(s.buffer) -> Row]
  BY <1>1, <1>3, LenProperties
<1>5. rows \in Seq(Row)
  BY <1>1, <1>4, LenProperties, IsASeq
<1> HIDE DEF rows
<1>6. s.rows \o rows \in Seq(Row)
  BY <1>1, <1>5, ConcatProperties
<1>7. s.decisions \ {c} \in SUBSET Calls /\ s.replies \ Range(s.buffer) \in SUBSET Calls
  BY DEF Session
<1>8. Flush(s, c) = IF s.buffer = <<>> THEN s
        ELSE [s EXCEPT !.rows = s.rows \o rows, !.buffer = <<>>, !.outcome = None,
                       !.decisions = s.decisions \ {c},
                       !.replies = s.replies \ Range(s.buffer)]
  BY DEF Flush, rows, claimed
<1>9. <<>> \in Seq(Calls)
  BY EmptySeq
<1>10. QED
  BY <1>6, <1>7, <1>8, <1>9 DEF Session, SameFlag

\* A gated flush too.
LEMMA FlushUnlessDeferredTyped ==
  ASSUME NEW s \in Session, NEW c \in Calls
  PROVE  /\ FlushUnlessDeferred(s, c) \in Session
         /\ SameFlag(s, FlushUnlessDeferred(s, c))
BY FlushTyped DEF FlushUnlessDeferred, SameFlag

\* A failure row is a row.
LEMMA FailureRowTyped ==
  ASSUME NEW s \in Session, NEW c \in Calls
  PROVE  FailureRow(s, c) \in Session /\ SameFlag(s, FailureRow(s, c))
<1> DEFINE row == [call |-> c, failure |-> TRUE, model |-> s.attempted,
                   decision |-> Own(c, s.decisions), outcome |-> s.outcome,
                   reply |-> FALSE]
<1>1. row \in Row
  BY DEF Row, Own, Session
<1> HIDE DEF row
<1>2. Append(s.rows, row) \in Seq(Row)
  BY <1>1, AppendProperties DEF Session
<1>3. s.decisions \ {c} \in SUBSET Calls
  BY DEF Session
<1>4. FailureRow(s, c) = [s EXCEPT !.rows = Append(s.rows, row), !.outcome = None,
                                   !.attempted = None, !.decisions = s.decisions \ {c}]
  BY DEF FailureRow, row
<1>5. QED
  BY <1>2, <1>3, <1>4 DEF Session, SameFlag

\* Noting an outcome or a captured reply touches nothing else.
LEMMA NotesTyped ==
  ASSUME NEW s \in Session, NEW c \in Calls, NEW ok \in BOOLEAN
  PROVE  /\ Replied(s, c) \in Session /\ SameFlag(s, Replied(s, c))
         /\ Settled(s, c, ok) \in Session /\ SameFlag(s, Settled(s, c, ok))
<1>1. [of |-> c, ok |-> ok] \in Outcome
  BY DEF Outcome
<1>2. s.replies \union {c} \in SUBSET Calls
  BY DEF Session
<1>3. Replied(s, c) \in Session /\ SameFlag(s, Replied(s, c))
  BY <1>2 DEF Replied, Session, SameFlag
<1>4. Settled(s, c, ok) \in Session /\ SameFlag(s, Settled(s, c, ok))
  BY <1>1 DEF Settled, Session, SameFlag
<1>5. QED
  BY <1>3, <1>4

\* Restoring the flag, and nothing but the flag.
LEMMA RestoreTyped ==
  ASSUME NEW s \in Session, NEW b \in BOOLEAN
  PROVE  /\ [s EXCEPT !.defer = b] \in Session
         /\ [s EXCEPT !.defer = b].defer = b
         /\ [s EXCEPT !.defer = b].depth = s.depth
         /\ [s EXCEPT !.defer = b].base = s.base
BY DEF Session

\* Leaving a level of the LangChain guard: one level less, and at the outermost
\* one the flag is the stashed baseline again.
LEMMA UnwindTyped ==
  ASSUME NEW s \in Session, NEW c \in Calls, NEW failed \in BOOLEAN, s.depth >= 1
  PROVE  /\ Unwind(s, c, failed) \in Session
         /\ Unwind(s, c, failed).depth = s.depth - 1
         /\ Unwind(s, c, failed).base = s.base
         /\ Unwind(s, c, failed).defer = IF s.depth - 1 > 0 THEN s.defer ELSE s.base
<1> DEFINE up      == [s EXCEPT !.depth = s.depth - 1]
           outer   == [up EXCEPT !.defer = up.base]
           noted   == IF failed THEN outer ELSE Replied(outer, c)
           flushed == FlushUnlessDeferred(noted, c)
           cleared == [flushed EXCEPT !.outcome = None]
<1>1. Cardinality(Calls) \in Nat
  BY KindsAssumption, FS_CardinalityType
<1>2. /\ up \in Session /\ up.depth = s.depth - 1
      /\ up.base = s.base /\ up.defer = s.defer
  BY <1>1 DEF Session
<1> HIDE DEF up
<1>3. /\ outer \in Session /\ outer.depth = s.depth - 1
      /\ outer.base = s.base /\ outer.defer = s.base
  <2>1. up.base \in BOOLEAN
    BY <1>2 DEF Session
  <2>2. QED
    BY <1>2, <2>1, RestoreTyped
<1> HIDE DEF outer
<1>4. noted \in Session /\ SameFlag(outer, noted)
  BY <1>3, NotesTyped DEF SameFlag
<1> HIDE DEF noted
<1>5. flushed \in Session /\ SameFlag(noted, flushed)
  BY <1>4, FlushUnlessDeferredTyped
<1> HIDE DEF flushed
<1>6. cleared \in Session /\ SameFlag(flushed, cleared)
  BY <1>5 DEF Session, SameFlag
<1> HIDE DEF cleared
<1>7. Replied(up, c) \in Session /\ SameFlag(up, Replied(up, c))
  BY <1>2, NotesTyped
<1>8. Unwind(s, c, failed) =
        IF up.depth > 0 THEN (IF failed THEN up ELSE Replied(up, c))
        ELSE IF failed /\ ~flushed.defer THEN cleared ELSE flushed
  BY DEF Unwind, up, outer, noted, flushed, cleared
<1>9. CASE up.depth > 0
  BY <1>2, <1>7, <1>8, <1>9 DEF SameFlag
<1>10. CASE ~(up.depth > 0)
  BY <1>2, <1>3, <1>4, <1>5, <1>6, <1>8, <1>10 DEF SameFlag
<1>11. QED
  BY <1>9, <1>10

-------------------------------------------------------------------------------
(* Types, with what keeps the depth counter in its range. *)

\* The LangChain streams being pulled; the counter counts them.
OpenLc == {c \in Calls : call[c].pc = "open" /\ call[c].kind = "lcStream"}
DepthCounts == ses.depth = Cardinality(OpenLc)
IInv == TypeOK /\ DepthCounts

\* They are finitely many, at most all the calls.
LEMMA OpenLcFinite ==
  /\ IsFiniteSet(OpenLc)
  /\ Cardinality(OpenLc) \in Nat
  /\ Cardinality(Calls) \in Nat
  /\ Cardinality(OpenLc) <= Cardinality(Calls)
<1>1. OpenLc \in SUBSET Calls
  BY DEF OpenLc
<1>2. QED
  BY <1>1, KindsAssumption, FS_Subset, FS_CardinalityType

\* A step of one call changes that call's locals only.
LEMMA GoesTyped ==
  ASSUME TypeOK, NEW c \in Calls, NEW pc \in Pc, NEW ended \in BOOLEAN,
         Goes(c, pc, ended)
  PROVE  /\ call' \in [Calls -> Locals]
         /\ call'[c].pc = pc /\ call'[c].kind = call[c].kind
         /\ \A d \in Calls \ {c} : call'[d] = call[d]
<1>1. call[c] \in Locals
  BY DEF TypeOK
<1>2. /\ [call[c] EXCEPT !.pc = pc, !.ended = ended] \in Locals
      /\ [call[c] EXCEPT !.pc = pc, !.ended = ended].pc = pc
      /\ [call[c] EXCEPT !.pc = pc, !.ended = ended].kind = call[c].kind
  BY <1>1 DEF Locals
<1>3. call' = [call EXCEPT ![c] = [call[c] EXCEPT !.pc = pc, !.ended = ended]]
  BY DEF Goes, TypeOK
<1> HIDE DEF Goes
<1>4. QED
  BY <1>2, <1>3 DEF TypeOK

\* A new call's locals are typed.
LEMMA OpenedTyped ==
  ASSUME TypeOK, NEW c \in Calls, NEW pc \in Pc, NEW kind \in AllKinds,
         Opened(c, pc, kind)
  PROVE  /\ call' \in [Calls -> Locals]
         /\ call'[c].pc = pc /\ call'[c].kind = kind
         /\ \A d \in Calls \ {c} : call'[d] = call[d]
<1> DEFINE new == [pc |-> pc, kind |-> kind,
                   prev |-> kind # "lcStream" /\ ses.defer, ended |-> FALSE,
                   older |-> IF Orderly THEN InFlight ELSE {}]
<1>1. ses.defer \in BOOLEAN
  BY DEF TypeOK, Session
<1>2. (kind # "lcStream" /\ ses.defer) \in BOOLEAN
  OBVIOUS
<1>3. (IF Orderly THEN InFlight ELSE {}) \in SUBSET Calls
  BY DEF InFlight
<1>4. new \in Locals /\ new.pc = pc /\ new.kind = kind
  BY <1>2, <1>3 DEF Locals
<1>5. call' = [call EXCEPT ![c] = new]
  BY DEF Opened
<1> HIDE DEF new
<1>6. QED
  BY <1>4, <1>5 DEF TypeOK

\* A step that neither opens nor ends a LangChain stream, and leaves the
\* counter alone.
LEMMA OtherStep ==
  ASSUME IInv, NEW c \in Calls, ses' \in Session, ses'.depth = ses.depth,
         call' \in [Calls -> Locals],
         \A d \in Calls \ {c} : call'[d] = call[d],
         ~(call[c].pc = "open" /\ call[c].kind = "lcStream"),
         ~(call'[c].pc = "open" /\ call'[c].kind = "lcStream")
  PROVE  IInv'
<1>1. OpenLc' = OpenLc
  BY DEF OpenLc
<1>2. QED
  BY <1>1 DEF IInv, TypeOK, DepthCounts

\* The steps that open a call.
LEMMA EnterTyped ==
  ASSUME IInv, NEW c \in Calls, Enter(c) PROVE IInv'
<1> USE DEF IInv
<1>1. ASSUME NEW kind \in Kinds, NEW rerouted \in BOOLEAN, EnterCall(c, kind, rerouted)
      PROVE  IInv'
  <2>1. kind \in AllKinds /\ "awaiting" \in Pc
    BY KindsAssumption DEF Pc
  <2>2. Opened(c, "awaiting", kind)
    BY <1>1 DEF EnterCall
  <2>3. /\ call' \in [Calls -> Locals] /\ call'[c].pc = "awaiting"
        /\ \A d \in Calls \ {c} : call'[d] = call[d]
    BY <2>1, <2>2, OpenedTyped
  <2>4. ses' \in Session /\ ses'.depth = ses.depth
    BY <1>1 DEF EnterCall, TypeOK, Session
  <2>5. call[c].pc = "new"
    BY <1>1 DEF EnterCall
  <2>6. QED
    BY <2>3, <2>4, <2>5, OtherStep
<1>2. CASE EnterLcStream(c)
  <2>1. "lcStream" \in AllKinds /\ "returned" \in Pc
    BY DEF Pc, AllKinds
  <2>2. Opened(c, "returned", "lcStream") /\ call[c].pc = "new" /\ ses' = ses
    BY <1>2 DEF EnterLcStream
  <2>3. /\ call' \in [Calls -> Locals] /\ call'[c].pc = "returned"
        /\ \A d \in Calls \ {c} : call'[d] = call[d]
    BY <2>1, <2>2, OpenedTyped
  <2>4. QED
    BY <2>2, <2>3, OtherStep DEF TypeOK
<1>3. QED
  BY <1>1, <1>2 DEF Enter

\* What ends a call, or a Mode-A stream, starts from the span's own end.
LEMMA SpannedTyped ==
  ASSUME TypeOK, NEW c \in Calls, NEW spanned \in BOOLEAN, NEW ok \in BOOLEAN
  PROVE  /\ SpanMaybe(ses, c, spanned, ok) \in Session
         /\ SpanMaybe(ses, c, spanned, ok).depth = ses.depth
         /\ SpanMaybe(ses, c, spanned, ok).base = ses.base
         /\ SpanMaybe(ses, c, spanned, ok).defer = ses.defer
         /\ call[c].prev \in BOOLEAN
BY SpanMaybeTyped DEF TypeOK, SameFlag, Locals

\* A call returns.
LEMMA ReturnCallTyped ==
  ASSUME IInv, NEW c \in Calls, NEW spanned \in BOOLEAN, ReturnCall(c, spanned)
  PROVE  IInv'
<1> USE DEF IInv
<1> DEFINE ended    == SpanMaybe(ses, c, spanned, TRUE)
           settled  == IF call[c].kind = "plain" THEN Settled(ended, c, TRUE) ELSE ended
           restored == [settled EXCEPT !.defer = call[c].prev]
           replied  == Replied(restored, c)
           flushed  == FlushUnlessDeferred(replied, c)
<1>1. ses' = flushed /\ Goes(c, "done", spanned)
      /\ call[c].pc = "awaiting" /\ "done" \in Pc
  BY DEF ReturnCall, Pc
<1>2. ended \in Session /\ ended.depth = ses.depth /\ call[c].prev \in BOOLEAN
  BY SpannedTyped
<1> HIDE DEF ended
<1>3. settled \in Session /\ settled.depth = ses.depth
  BY <1>2, NotesTyped DEF SameFlag
<1> HIDE DEF settled
<1>4. restored \in Session /\ restored.depth = ses.depth
  BY <1>2, <1>3, RestoreTyped
<1> HIDE DEF restored
<1>5. replied \in Session /\ replied.depth = ses.depth
  BY <1>4, NotesTyped DEF SameFlag
<1> HIDE DEF replied
<1>6. flushed \in Session /\ flushed.depth = ses.depth
  BY <1>5, FlushUnlessDeferredTyped DEF SameFlag
<1> HIDE DEF flushed
<1>7. /\ call' \in [Calls -> Locals] /\ call'[c].pc = "done"
      /\ \A d \in Calls \ {c} : call'[d] = call[d]
  BY <1>1, GoesTyped
<1>8. QED
  BY <1>1, <1>6, <1>7, OtherStep

\* A Mode-A call raises, at the call or at a pull.
LEMMA ModeAFailTyped ==
  ASSUME IInv, NEW c \in Calls, NEW spanned \in BOOLEAN,
         FailCall(c, spanned) \/ FailStream(c, spanned)
  PROVE  IInv'
<1> USE DEF IInv
<1> DEFINE ended    == SpanMaybe(ses, c, spanned, FALSE)
           settled  == Settled(ended, c, FALSE)
           restored == [settled EXCEPT !.defer = call[c].prev]
           told     == FailureRow(restored, c)
<1>1. /\ ses' = told /\ Goes(c, "failed", spanned) /\ "failed" \in Pc
      /\ call[c].kind # "lcStream"
  BY DEF FailCall, FailStream, Pc, ModeA
<1>2. ended \in Session /\ ended.depth = ses.depth /\ call[c].prev \in BOOLEAN
  BY SpannedTyped
<1> HIDE DEF ended
<1>3. settled \in Session /\ settled.depth = ses.depth
  BY <1>2, NotesTyped DEF SameFlag
<1> HIDE DEF settled
<1>4. restored \in Session /\ restored.depth = ses.depth
  BY <1>2, <1>3, RestoreTyped
<1> HIDE DEF restored
<1>5. told \in Session /\ told.depth = ses.depth
  BY <1>4, FailureRowTyped DEF SameFlag
<1> HIDE DEF told
<1>6. /\ call' \in [Calls -> Locals] /\ call'[c].pc = "failed"
      /\ \A d \in Calls \ {c} : call'[d] = call[d]
  BY <1>1, GoesTyped
<1>7. QED
  BY <1>1, <1>5, <1>6, OtherStep

\* LangChain's invoke raises.
LEMMA FailLcCallTyped ==
  ASSUME IInv, NEW c \in Calls, NEW spanned \in BOOLEAN, FailLcCall(c, spanned)
  PROVE  IInv'
<1> USE DEF IInv
<1> DEFINE ended    == SpanMaybe(ses, c, spanned, FALSE)
           restored == [ended EXCEPT !.defer = call[c].prev]
           failed   == Settled(restored, c, FALSE)
           noted    == [failed EXCEPT !.attempted = c]
           emitted  == IF failed.buffer # <<>> THEN Flush(failed, c)
                       ELSE FailureRow(noted, c)
           cleared  == [emitted EXCEPT !.outcome = None]
<1>1. /\ ses' = IF call[c].prev THEN restored ELSE cleared
      /\ Goes(c, "failed", spanned) /\ "failed" \in Pc
      /\ call[c].pc = "awaiting"
  BY DEF FailLcCall, Pc
<1>2. ended \in Session /\ ended.depth = ses.depth /\ call[c].prev \in BOOLEAN
  BY SpannedTyped
<1> HIDE DEF ended
<1>3. restored \in Session /\ restored.depth = ses.depth
  BY <1>2, RestoreTyped
<1> HIDE DEF restored
<1>4. failed \in Session /\ failed.depth = ses.depth
  BY <1>3, NotesTyped DEF SameFlag
<1> HIDE DEF failed
<1>5. noted \in Session /\ noted.depth = ses.depth
  BY <1>4 DEF Session
<1> HIDE DEF noted
<1>6. emitted \in Session /\ emitted.depth = ses.depth
  BY <1>4, <1>5, FlushTyped, FailureRowTyped DEF SameFlag
<1> HIDE DEF emitted
<1>7. cleared \in Session /\ cleared.depth = ses.depth
  BY <1>6 DEF Session
<1> HIDE DEF cleared
<1>8. /\ call' \in [Calls -> Locals] /\ call'[c].pc = "failed"
      /\ \A d \in Calls \ {c} : call'[d] = call[d]
  BY <1>1, GoesTyped
<1>9. QED
  BY <1>1, <1>3, <1>7, <1>8, OtherStep

\* A Mode-A stream ends.
LEMMA EndStreamTyped ==
  ASSUME IInv, NEW c \in Calls, NEW spanned \in BOOLEAN,
         NEW how \in {"done", "closed"}, EndStream(c, how, spanned)
  PROVE  IInv'
<1> USE DEF IInv
<1> DEFINE ended    == SpanMaybe(ses, c, spanned, TRUE)
           restored == [ended EXCEPT !.defer = call[c].prev]
           replied  == Replied(restored, c)
           flushed  == Flush(replied, c)
<1>1. /\ ses' = flushed /\ Goes(c, how, spanned) /\ how \in Pc
      /\ call[c].kind # "lcStream"
  BY DEF EndStream, Pc
<1>2. ended \in Session /\ ended.depth = ses.depth /\ call[c].prev \in BOOLEAN
  BY SpannedTyped
<1> HIDE DEF ended
<1>3. restored \in Session /\ restored.depth = ses.depth
  BY <1>2, RestoreTyped
<1> HIDE DEF restored
<1>4. replied \in Session /\ replied.depth = ses.depth
  BY <1>3, NotesTyped DEF SameFlag
<1> HIDE DEF replied
<1>5. flushed \in Session /\ flushed.depth = ses.depth
  BY <1>4, FlushTyped DEF SameFlag
<1> HIDE DEF flushed
<1>6. /\ call' \in [Calls -> Locals] /\ call'[c].kind = call[c].kind
      /\ \A d \in Calls \ {c} : call'[d] = call[d]
  BY <1>1, GoesTyped
<1>7. QED
  BY <1>1, <1>5, <1>6, OtherStep

\* A Mode-A stream is handed back, or pulled for the first time.
LEMMA StreamTyped ==
  ASSUME IInv, NEW c \in Calls, ReturnStream(c) \/ PullStream(c)
  PROVE  IInv'
<1> USE DEF IInv
<1>1. call[c].prev \in BOOLEAN /\ ses \in Session
  BY DEF TypeOK, Locals
<1>2. ses' \in Session /\ ses'.depth = ses.depth
  <2>1. CASE ReturnStream(c)
    <3> DEFINE settled == Settled(ses, c, TRUE)
               restored == [settled EXCEPT !.defer = call[c].prev]
    <3>1. ses' = restored
      BY <2>1 DEF ReturnStream
    <3>2. settled \in Session /\ settled.depth = ses.depth
      BY <1>1, NotesTyped DEF SameFlag
    <3> HIDE DEF settled
    <3>3. QED
      BY <1>1, <3>1, <3>2, RestoreTyped
  <2>2. CASE PullStream(c)
    BY <1>1, <2>2, RestoreTyped DEF PullStream
  <2>3. QED
    BY <2>1, <2>2
<1>3. /\ call[c].kind # "lcStream"
      /\ Goes(c, "returned", FALSE) \/ Goes(c, "open", FALSE)
      /\ "returned" \in Pc /\ "open" \in Pc
  BY DEF ReturnStream, PullStream, Pc
<1>4. /\ call' \in [Calls -> Locals] /\ call'[c].kind = call[c].kind
      /\ \A d \in Calls \ {c} : call'[d] = call[d]
  BY <1>3, GoesTyped
<1>5. QED
  BY <1>2, <1>3, <1>4, OtherStep

\* A stream is dropped unpulled, or a span ends late: neither moves the flag.
LEMMA LeftoverTyped ==
  ASSUME IInv, NEW c \in Calls, DropStream(c) \/ LateSpan(c)
  PROVE  IInv' /\ SameFlag(ses, ses')
<1> USE DEF IInv
<1>1. ses' \in Session /\ SameFlag(ses, ses')
  <2>1. CASE DropStream(c)
    BY <2>1 DEF DropStream, TypeOK, SameFlag
  <2>2. CASE LateSpan(c)
    BY <2>2, EndSpanTyped DEF LateSpan, TypeOK
  <2>3. QED
    BY <2>1, <2>2
<1>2. \E pc \in {"closed", "done"}, ended \in BOOLEAN : Goes(c, pc, ended)
  BY DEF DropStream, LateSpan
<1>3. PICK pc \in {"closed", "done"}, ended \in BOOLEAN : Goes(c, pc, ended)
  BY <1>2
<1>4. call[c].pc # "open" /\ pc \in Pc
  BY DEF DropStream, LateSpan, Pc
<1>5. /\ call' \in [Calls -> Locals] /\ call'[c].pc = pc
      /\ \A d \in Calls \ {c} : call'[d] = call[d]
  BY <1>3, <1>4, GoesTyped
<1>6. QED
  BY <1>1, <1>4, <1>5, OtherStep DEF SameFlag

\* A LangChain stream is pulled for the first time: one more is open.
LEMMA PullLcTyped ==
  ASSUME IInv, NEW c \in Calls, PullLcStream(c)
  PROVE  /\ IInv'
         /\ ses'.depth = ses.depth + 1 /\ ses'.defer = TRUE
         /\ ses'.base = IF ses.depth = 0 THEN ses.defer ELSE ses.base
<1> USE DEF IInv
<1>1. /\ Goes(c, "open", FALSE) /\ "open" \in Pc
      /\ call[c].pc = "returned" /\ call[c].kind = "lcStream"
  BY DEF PullLcStream, Pc
<1>2. /\ call' \in [Calls -> Locals]
      /\ call'[c].pc = "open" /\ call'[c].kind = "lcStream"
      /\ \A d \in Calls \ {c} : call'[d] = call[d]
  BY <1>1, GoesTyped
<1>3. OpenLc' = OpenLc \union {c} /\ c \notin OpenLc
  BY <1>1, <1>2 DEF OpenLc
<1>4. Cardinality(OpenLc') = Cardinality(OpenLc) + 1
  BY <1>3, OpenLcFinite, FS_AddElement
<1>5. /\ Cardinality(OpenLc') <= Cardinality(Calls)
      /\ Cardinality(Calls) \in Nat /\ Cardinality(OpenLc) \in Nat
  <2>1. OpenLc' \in SUBSET Calls
    BY DEF OpenLc
  <2>2. QED
    BY <2>1, KindsAssumption, FS_Subset, FS_CardinalityType, OpenLcFinite
<1>6. ses.depth = Cardinality(OpenLc) /\ ses.depth + 1 \in 0 .. Cardinality(Calls)
  BY <1>4, <1>5 DEF DepthCounts
<1> DEFINE base == IF ses.depth = 0 THEN ses.defer ELSE ses.base
<1>7. base \in BOOLEAN /\ ses \in Session
  BY DEF TypeOK, Session
<1>8. ses' = [ses EXCEPT !.base = base, !.depth = ses.depth + 1, !.defer = TRUE]
  BY DEF PullLcStream
<1> HIDE DEF base
<1>9. /\ ses' \in Session /\ ses'.depth = ses.depth + 1
      /\ ses'.defer = TRUE /\ ses'.base = base
  BY <1>6, <1>7, <1>8 DEF Session
<1>10. IInv'
  BY <1>2, <1>4, <1>6, <1>9 DEF TypeOK, DepthCounts
<1>11. QED
  BY <1>9, <1>10 DEF base

\* A LangChain stream ends or fails: one less is open, and the outermost level
\* puts the baseline back.
LEMMA EndLcTyped ==
  ASSUME IInv, NEW c \in Calls, NEW spanned \in BOOLEAN,
         \/ \E how \in {"done", "closed"} : EndLcStream(c, how, spanned)
         \/ FailLcStream(c, spanned)
  PROVE  /\ IInv'
         /\ ses.depth >= 1 /\ ses'.depth = ses.depth - 1 /\ ses'.base = ses.base
         /\ ses'.defer = IF ses'.depth > 0 THEN ses.defer ELSE ses.base
<1> USE DEF IInv
<1> DEFINE failing == FailLcStream(c, spanned)
<1>1. PICK pc \in {"done", "closed", "failed"} : Goes(c, pc, spanned)
  BY DEF EndLcStream, FailLcStream
<1>2. call[c].pc = "open" /\ call[c].kind = "lcStream" /\ pc \in Pc /\ pc # "open"
  BY DEF EndLcStream, FailLcStream, Pc
<1>3. /\ call' \in [Calls -> Locals] /\ call'[c].pc = pc
      /\ \A d \in Calls \ {c} : call'[d] = call[d]
  BY <1>1, <1>2, GoesTyped
<1>4. OpenLc' = OpenLc \ {c} /\ c \in OpenLc
  BY <1>2, <1>3 DEF OpenLc
<1>5. /\ Cardinality(OpenLc') = Cardinality(OpenLc) - 1
      /\ Cardinality(OpenLc) \in Nat /\ Cardinality(OpenLc') \in Nat
  BY <1>4, OpenLcFinite, FS_RemoveElement, FS_CardinalityType
<1>6. ses.depth = Cardinality(OpenLc) /\ ses.depth >= 1
  BY <1>5 DEF DepthCounts
<1>7. PICK s \in Session, failed \in BOOLEAN :
        SameFlag(ses, s) /\ ses' = Unwind(s, c, failed)
  <2>1. CASE failing
    <3> DEFINE ended == SpanMaybe(ses, c, spanned, FALSE)
    <3>1. ended \in Session /\ SameFlag(ses, ended)
      BY SpannedTyped DEF SameFlag
    <3>2. ses' = Unwind(Settled(ended, c, FALSE), c, TRUE)
      BY <2>1 DEF FailLcStream
    <3> HIDE DEF ended
    <3>3. Settled(ended, c, FALSE) \in Session
          /\ SameFlag(ses, Settled(ended, c, FALSE))
      BY <3>1, NotesTyped DEF SameFlag
    <3>4. QED
      BY <3>2, <3>3
  <2>2. CASE \E how \in {"done", "closed"} : EndLcStream(c, how, spanned)
    <3> DEFINE ended == SpanMaybe(ses, c, spanned, TRUE)
    <3>1. ended \in Session /\ SameFlag(ses, ended)
      BY SpannedTyped DEF SameFlag
    <3>2. ses' = Unwind(ended, c, FALSE)
      BY <2>2 DEF EndLcStream
    <3> HIDE DEF ended
    <3>3. QED
      BY <3>1, <3>2
  <2>3. QED
    BY <2>1, <2>2
<1>8. /\ ses' \in Session /\ ses'.depth = ses.depth - 1 /\ ses'.base = ses.base
      /\ ses'.defer = IF ses.depth - 1 > 0 THEN ses.defer ELSE ses.base
  BY <1>6, <1>7, UnwindTyped DEF SameFlag
<1>9. IInv'
  BY <1>3, <1>5, <1>6, <1>8 DEF TypeOK, DepthCounts
<1>10. QED
  BY <1>6, <1>8, <1>9

-------------------------------------------------------------------------------
(* The theorems. *)

\* The initial state is typed, and no LangChain stream is open in it.
LEMMA InitTyped == ASSUME Init PROVE IInv
<1>1. Cardinality(Calls) \in Nat
  BY KindsAssumption, FS_CardinalityType
<1>2. <<>> \in Seq(Calls) /\ <<>> \in Seq(Row)
  BY EmptySeq
<1>3. ses \in Session
  BY <1>1, <1>2 DEF Init, Session
<1>4. call \in [Calls -> Locals]
  BY DEF Init, Idle, Locals, Pc
<1>5. OpenLc = {}
  BY DEF OpenLc, Init, Idle
<1>6. QED
  BY <1>3, <1>4, <1>5, FS_EmptySet DEF IInv, TypeOK, DepthCounts, Init

\* Every step of every mix of calls keeps the invariant.
LEMMA StepTyped == ASSUME IInv, [Next]_vars PROVE IInv'
<1>1. CASE UNCHANGED vars
  BY <1>1 DEF vars, IInv, TypeOK, DepthCounts, OpenLc
<1>2. ASSUME NEW c \in Calls, Enter(c) PROVE IInv'
  BY <1>2, EnterTyped
<1>3. ASSUME NEW c \in Calls, ReturnStream(c) \/ PullStream(c) PROVE IInv'
  BY <1>3, StreamTyped
<1>4. ASSUME NEW c \in Calls, PullLcStream(c) PROVE IInv'
  BY <1>4, PullLcTyped
<1>5. ASSUME NEW c \in Calls, DropStream(c) \/ LateSpan(c) PROVE IInv'
  BY <1>5, LeftoverTyped
<1>6. ASSUME NEW c \in Calls, NEW spanned \in BOOLEAN, Step(c, spanned)
      PROVE  IInv'
  <2>1. CASE ReturnCall(c, spanned)
    BY <2>1, ReturnCallTyped
  <2>2. CASE FailCall(c, spanned) \/ FailStream(c, spanned)
    BY <2>2, ModeAFailTyped
  <2>3. CASE FailLcCall(c, spanned)
    BY <2>3, FailLcCallTyped
  <2>4. CASE \E how \in {"done", "closed"} : EndStream(c, how, spanned)
    BY <2>4, EndStreamTyped
  <2>5. CASE \/ \E how \in {"done", "closed"} : EndLcStream(c, how, spanned)
             \/ FailLcStream(c, spanned)
    BY <2>5, EndLcTyped
  <2>6. QED
    BY <1>6, <2>1, <2>2, <2>3, <2>4, <2>5 DEF Step
<1>7. QED
  BY <1>1, <1>2, <1>3, <1>4, <1>5, <1>6 DEF Next

\* Whatever calls overlap on a session and however they end, its fields keep
\* their types; in particular the LangChain depth counter, which the guards
\* count up and down by hand, never leaves 0 .. the number of open streams.
THEOREM SessionTypeCorrect == Spec => []TypeOK
<1>1. Init => IInv
  BY InitTyped
<1>2. IInv /\ [Next]_vars => IInv'
  BY StepTyped
<1>3. IInv => TypeOK
  BY DEF IInv
<1>4. QED
  BY <1>1, <1>2, <1>3, PTL DEF Spec

\* With LangChain streams alone the stashed baseline is always the lowered
\* flag, and the flag is up exactly while a stream is open.
LcInv ==
  /\ IInv
  /\ ~ses.base /\ (ses.defer <=> ses.depth > 0)
  /\ \A c \in Calls : /\ call[c].pc # "awaiting"
                      /\ call[c].pc \in {"returned", "open"} => call[c].kind = "lcStream"

\* Their steps keep that.
LEMMA LcStep ==
  ASSUME Kinds \subseteq {"lcStream"}, LcInv, [Next]_vars PROVE LcInv'
<1> USE DEF LcInv
<1>1. IInv' /\ TypeOK
  BY StepTyped DEF IInv
<1>2. ses.depth \in Nat
  BY KindsAssumption, FS_CardinalityType DEF IInv, TypeOK, Session
<1>3. CASE UNCHANGED vars
  BY <1>1, <1>3 DEF vars
<1>4. ASSUME NEW c \in Calls, EnterLcStream(c) PROVE LcInv'
  <2>1. "lcStream" \in AllKinds /\ "returned" \in Pc
    BY DEF Pc, AllKinds
  <2>2. Opened(c, "returned", "lcStream") /\ ses' = ses
    BY <1>4 DEF EnterLcStream
  <2>3. /\ call'[c].pc = "returned" /\ call'[c].kind = "lcStream"
        /\ \A d \in Calls \ {c} : call'[d] = call[d]
    BY <1>1, <2>1, <2>2, OpenedTyped
  <2>4. QED
    BY <1>1, <2>2, <2>3
<1>5. ASSUME NEW c \in Calls, PullLcStream(c) PROVE LcInv'
  <2>1. /\ ses'.depth = ses.depth + 1 /\ ses'.defer = TRUE
        /\ ses'.base = IF ses.depth = 0 THEN ses.defer ELSE ses.base
    BY <1>5, PullLcTyped
  <2>2. Goes(c, "open", FALSE) /\ "open" \in Pc /\ call[c].kind = "lcStream"
    BY <1>5 DEF PullLcStream, Pc
  <2>3. /\ call'[c].pc = "open" /\ call'[c].kind = "lcStream"
        /\ \A d \in Calls \ {c} : call'[d] = call[d]
    BY <1>1, <2>2, GoesTyped
  <2>4. ~ses'.base /\ (ses'.defer <=> ses'.depth > 0)
    BY <1>2, <2>1
  <2>5. QED
    BY <1>1, <2>3, <2>4
<1>6. ASSUME NEW c \in Calls, NEW spanned \in BOOLEAN,
             \/ \E how \in {"done", "closed"} : EndLcStream(c, how, spanned)
             \/ FailLcStream(c, spanned)
      PROVE  LcInv'
  <2>1. /\ ses.depth >= 1 /\ ses'.depth = ses.depth - 1 /\ ses'.base = ses.base
        /\ ses'.defer = IF ses'.depth > 0 THEN ses.defer ELSE ses.base
    BY <1>6, EndLcTyped
  <2>2. PICK pc \in {"done", "closed", "failed"} : Goes(c, pc, spanned)
    BY <1>6 DEF EndLcStream, FailLcStream
  <2>3. pc \in Pc
    BY DEF Pc
  <2>4. /\ call'[c].pc = pc
        /\ \A d \in Calls \ {c} : call'[d] = call[d]
    BY <1>1, <2>2, <2>3, GoesTyped
  <2>5. ~ses'.base /\ (ses'.defer <=> ses'.depth > 0)
    BY <1>2, <2>1
  <2>6. QED
    BY <1>1, <2>4, <2>5
<1>7. ASSUME NEW c \in Calls, DropStream(c) \/ LateSpan(c) PROVE LcInv'
  <2>1. SameFlag(ses, ses')
    BY <1>7, LeftoverTyped
  <2>2. \E pc \in {"closed", "done"}, ended \in BOOLEAN : Goes(c, pc, ended)
    BY <1>7 DEF DropStream, LateSpan
  <2>3. PICK pc \in {"closed", "done"}, ended \in BOOLEAN : Goes(c, pc, ended)
    BY <2>2
  <2>4. pc \in Pc
    BY DEF Pc
  <2>5. /\ call'[c].pc = pc
        /\ \A d \in Calls \ {c} : call'[d] = call[d]
    BY <1>1, <2>3, <2>4, GoesTyped
  <2>6. QED
    BY <1>1, <2>1, <2>5 DEF SameFlag
<1>8. ASSUME NEW c \in Calls, Enter(c) PROVE EnterLcStream(c)
  <2>1. ~ \E kind \in Kinds, rerouted \in BOOLEAN : EnterCall(c, kind, rerouted)
    BY DEF EnterCall
  <2>2. QED
    BY <1>8, <2>1 DEF Enter
<1>9. ASSUME NEW c \in Calls
      PROVE  /\ ~ReturnStream(c) /\ ~PullStream(c)
             /\ \A spanned \in BOOLEAN :
                  /\ ~ReturnCall(c, spanned) /\ ~FailCall(c, spanned)
                  /\ ~FailLcCall(c, spanned) /\ ~FailStream(c, spanned)
                  /\ \A how \in {"done", "closed"} : ~EndStream(c, how, spanned)
  BY DEF ReturnStream, PullStream, ReturnCall, FailCall, FailLcCall, FailStream, EndStream
<1>10. ASSUME NEW c \in Calls, NEW spanned \in BOOLEAN, Step(c, spanned)
       PROVE  LcInv'
  BY <1>6, <1>9, <1>10 DEF Step
<1>11. QED
  BY <1>3, <1>4, <1>5, <1>7, <1>8, <1>9, <1>10 DEF Next

\* However LangChain streams of one session interleave, end, fail or are
\* abandoned, an open stream finds the flag up, and the flag goes down with
\* the last of them (the depth counter of _guard_sync_stream and
\* _guard_async_stream): the guard alone neither loses the deferral nor pins it.
THEOREM LangChainReleases ==
  Kinds \subseteq {"lcStream"} => (Spec => [](OpenCallDefers /\ QuietIsReleased))
<1> SUFFICES ASSUME Kinds \subseteq {"lcStream"}
             PROVE  Spec => [](OpenCallDefers /\ QuietIsReleased)
  OBVIOUS
<1>1. Init => LcInv
  <2>1. ASSUME Init PROVE LcInv
    <3>1. IInv
      BY <2>1, InitTyped
    <3>2. QED
      BY <2>1, <3>1 DEF LcInv, Init, Idle
  <2>2. QED
    BY <2>1
<1>2. LcInv /\ [Next]_vars => LcInv'
  BY LcStep
<1>3. LcInv => OpenCallDefers /\ QuietIsReleased
  <2> SUFFICES ASSUME LcInv PROVE OpenCallDefers /\ QuietIsReleased
    OBVIOUS
  <2>1. ses.depth = Cardinality(OpenLc) /\ IsFiniteSet(OpenLc) /\ ses.depth \in Nat
    BY OpenLcFinite DEF LcInv, IInv, DepthCounts
  <2>2. ASSUME NEW c \in Calls, Deferring(c) PROVE ses.defer
    <3>1. c \in OpenLc
      BY <2>2 DEF LcInv, Deferring, OpenLc
    <3>2. ses.depth # 0
      BY <2>1, <3>1, FS_EmptySet
    <3>3. QED
      BY <2>1, <3>2 DEF LcInv
  <2>3. ASSUME Quiet PROVE ~ses.defer /\ ses.depth = 0
    <3>1. OpenLc = {}
      BY <2>3 DEF Quiet, InFlight, OpenLc
    <3>2. QED
      BY <2>1, <3>1, FS_EmptySet DEF LcInv
  <2>4. QED
    BY <2>2, <2>3 DEF OpenCallDefers, QuietIsReleased
<1>4. QED
  BY <1>1, <1>2, <1>3, PTL DEF Spec

-------------------------------------------------------------------------------
(* The books: what was queued, shipped and audited. *)

\* Every ended span is in one place of the queue or of the log, and only there.
Once(s, ended) ==
  /\ \A i, j \in DOMAIN s.buffer : s.buffer[i] = s.buffer[j] => i = j
  /\ \A i, j \in DOMAIN s.rows :
       ~s.rows[i].failure /\ ~s.rows[j].failure /\ s.rows[i].call = s.rows[j].call => i = j
  /\ \A i \in DOMAIN s.buffer, j \in DOMAIN s.rows :
       s.rows[j].failure \/ s.rows[j].call # s.buffer[i]
  /\ \A c \in Calls :
       c \in ended <=> \/ \E i \in DOMAIN s.buffer : s.buffer[i] = c
                       \/ \E i \in DOMAIN s.rows : s.rows[i].call = c /\ ~s.rows[i].failure

\* Decisions are those of calls that were made; one that a row took is no longer
\* stored, and on no other row.  A failure row is about its own call.
Audited(s, made) ==
  /\ s.decisions \subseteq made
  /\ \A i \in DOMAIN s.rows : s.rows[i].decision # None =>
       /\ s.rows[i].decision \in made \ s.decisions
       /\ \A j \in DOMAIN s.rows \ {i} : s.rows[j].decision # s.rows[i].decision
  /\ \A i \in DOMAIN s.rows : s.rows[i].failure =>
       /\ s.rows[i].outcome = [of |-> s.rows[i].call, ok |-> FALSE]
       /\ s.rows[i].decision \in {None, s.rows[i].call}

Books(s, ended, made) == s \in Session /\ Once(s, ended) /\ Audited(s, made)

\* What touches neither queue, log nor decisions keeps them.
LEMMA BooksSame ==
  ASSUME NEW s, NEW t \in Session, NEW ended, NEW made, Books(s, ended, made),
         t.rows = s.rows, t.buffer = s.buffer, t.decisions = s.decisions
  PROVE  Books(t, ended, made)
BY DEF Books, Once, Audited

\* One more row, with the call's own decision if it is still stored.
LEMMA BooksRow ==
  ASSUME NEW s, NEW t \in Session, NEW ended, NEW made, Books(s, ended, made),
         NEW c \in made, c \in Calls, NEW row \in Row, row.call = c,
         row.decision = Own(c, s.decisions),
         row.failure => row.outcome = [of |-> c, ok |-> FALSE],
         ~row.failure => c \notin ended,
         t.rows = Append(s.rows, row), t.buffer = s.buffer,
         t.decisions = s.decisions \ {c}
  PROVE  Books(t, IF row.failure THEN ended ELSE ended \union {c}, made)
<1>. DEFINE n   == Len(s.rows)
            now == IF row.failure THEN ended ELSE ended \union {c}
<1>1. /\ s.rows \in Seq(Row) /\ n \in Nat /\ DOMAIN s.rows = 1 .. n
      /\ DOMAIN t.rows = 1 .. n + 1 /\ t.rows[n + 1] = row
      /\ \A i \in 1 .. n : t.rows[i] = s.rows[i]
  <2>1. s.rows \in Seq(Row)
    BY DEF Books, Session
  <2>. QED
    BY <2>1, AppendProperties, LenProperties
<1>2. \A i \in DOMAIN t.rows : (i \in 1 .. n /\ t.rows[i] = s.rows[i]) \/ (i = n + 1 /\ t.rows[i] = row)
  BY <1>1
<1>3. \A i \in DOMAIN s.rows : i \in DOMAIN t.rows /\ t.rows[i] = s.rows[i] /\ i # n + 1
  BY <1>1
<1>4. n + 1 \in DOMAIN t.rows /\ t.rows[n + 1] = row /\ DOMAIN s.rows = 1 .. n
  BY <1>1
<1>. HIDE DEF n
<1>5. Once(t, now)
  <2>1. \A i, j \in DOMAIN t.rows :
          ~t.rows[i].failure /\ ~t.rows[j].failure /\ t.rows[i].call = t.rows[j].call => i = j
    BY <1>2, <1>4 DEF Books, Once
  <2>2. \A i \in DOMAIN t.buffer, j \in DOMAIN t.rows :
          t.rows[j].failure \/ t.rows[j].call # t.buffer[i]
    BY <1>2, <1>4 DEF Books, Once
  <2>3. ASSUME NEW d \in Calls
        PROVE  d \in now <=> \/ \E i \in DOMAIN t.buffer : t.buffer[i] = d
                             \/ \E i \in DOMAIN t.rows : t.rows[i].call = d /\ ~t.rows[i].failure
    <3>1. d \in ended <=> \/ \E i \in DOMAIN s.buffer : s.buffer[i] = d
                          \/ \E i \in DOMAIN s.rows : s.rows[i].call = d /\ ~s.rows[i].failure
      BY DEF Books, Once
    <3>2. (\E i \in DOMAIN t.rows : t.rows[i].call = d /\ ~t.rows[i].failure)
            <=> \/ \E i \in DOMAIN s.rows : s.rows[i].call = d /\ ~s.rows[i].failure
                \/ d = c /\ ~row.failure
      BY <1>2, <1>3, <1>4
    <3>. QED
      BY <3>1, <3>2
  <2>4. \A i, j \in DOMAIN t.buffer : t.buffer[i] = t.buffer[j] => i = j
    BY DEF Books, Once
  <2>. HIDE DEF now
  <2>. QED
    BY <2>1, <2>2, <2>3, <2>4 DEF Once
<1>6. Audited(t, made)
  <2>1. row.decision # None => row.decision = c /\ c \in s.decisions
    BY DEF Own
  <2>2. ASSUME NEW i \in DOMAIN t.rows, t.rows[i].decision # None
        PROVE  /\ t.rows[i].decision \in made \ t.decisions
               /\ \A j \in DOMAIN t.rows \ {i} : t.rows[j].decision # t.rows[i].decision
    <3>1. CASE i \in 1 .. n /\ t.rows[i] = s.rows[i]
      BY <1>2, <1>4, <2>1, <2>2, <3>1 DEF Books, Audited
    <3>2. CASE i = n + 1 /\ t.rows[i] = row
      BY <1>2, <1>4, <2>1, <2>2, <3>2 DEF Books, Audited
    <3>. QED
      BY <1>2, <3>1, <3>2
  <2>3. \A i \in DOMAIN t.rows : t.rows[i].failure =>
          /\ t.rows[i].outcome = [of |-> t.rows[i].call, ok |-> FALSE]
          /\ t.rows[i].decision \in {None, t.rows[i].call}
    BY <1>2, <1>4, <2>1 DEF Books, Audited
  <2>. QED
    BY <2>2, <2>3 DEF Books, Audited
<1>. QED
  BY <1>5, <1>6 DEF Books

\* A span ends once: queued, or logged with its call's decision.
LEMMA EndSpanBooks ==
  ASSUME NEW s, NEW ended, NEW made, Books(s, ended, made), NEW c \in made, c \in Calls,
         c \notin ended, NEW ok \in BOOLEAN
  PROVE  Books(EndSpan(s, c, ok), ended \union {c}, made)
<1>. DEFINE row == SpanRow(c, Own(c, s.decisions), [of |-> c, ok |-> ok], FALSE)
            t   == EndSpan(s, c, ok)
<1>1. s \in Session /\ t \in Session /\ s.buffer \in Seq(Calls)
  BY EndSpanTyped DEF Books, Session
<1>2. row \in Row /\ ~row.failure /\ row.call = c /\ row.decision = Own(c, s.decisions)
  <2>1. [of |-> c, ok |-> ok] \in Outcome
    BY DEF Outcome
  <2>2. Own(c, s.decisions) \in Calls \union {None}
    BY DEF Own
  <2>3. row \in Row
    BY <2>1, <2>2, SpanRowTyped
  <2>. QED
    BY <2>3 DEF SpanRow
<1>3. t = IF s.defer THEN [s EXCEPT !.buffer = Append(s.buffer, c)]
          ELSE [s EXCEPT !.rows = Append(s.rows, row), !.decisions = s.decisions \ {c}]
  BY DEF EndSpan
<1>. HIDE DEF row, t
<1>4. CASE s.defer
  <2>1. t.buffer = Append(s.buffer, c) /\ t.rows = s.rows /\ t.decisions = s.decisions
    BY <1>1, <1>3, <1>4 DEF Session
  <2>. DEFINE m == Len(s.buffer)
  <2>2. /\ m \in Nat /\ DOMAIN s.buffer = 1 .. m /\ DOMAIN t.buffer = 1 .. m + 1
        /\ t.buffer[m + 1] = c /\ \A i \in 1 .. m : t.buffer[i] = s.buffer[i]
    BY <1>1, <2>1, AppendProperties, LenProperties
  <2>3. /\ \A i \in DOMAIN t.buffer : \/ i \in DOMAIN s.buffer /\ t.buffer[i] = s.buffer[i]
                                      \/ i = m + 1 /\ t.buffer[i] = c
        /\ \A i \in DOMAIN s.buffer : i \in DOMAIN t.buffer /\ t.buffer[i] = s.buffer[i]
        /\ m + 1 \in DOMAIN t.buffer
    BY <2>2
  <2>. HIDE DEF m
  <2>4. Once(t, ended \union {c})
    <3>1. /\ \A i \in DOMAIN s.buffer : s.buffer[i] # c
          /\ \A i \in DOMAIN s.rows : s.rows[i].call = c => s.rows[i].failure
      BY DEF Books, Once
    <3>2. \A i, j \in DOMAIN t.buffer : t.buffer[i] = t.buffer[j] => i = j
      BY <2>3, <3>1 DEF Books, Once
    <3>3. \A i \in DOMAIN t.buffer, j \in DOMAIN t.rows :
            t.rows[j].failure \/ t.rows[j].call # t.buffer[i]
      BY <2>1, <2>3, <3>1 DEF Books, Once
    <3>4. ASSUME NEW d \in Calls
          PROVE  (\E i \in DOMAIN t.buffer : t.buffer[i] = d)
                   <=> (\E i \in DOMAIN s.buffer : s.buffer[i] = d) \/ d = c
      BY <2>2, <2>3
    <3>. QED
      BY <2>1, <3>2, <3>3, <3>4 DEF Books, Once
  <2>. QED
    BY <1>1, <2>1, <2>4 DEF Books, Audited, t
<1>5. CASE ~s.defer
  <2>1. /\ t.buffer = s.buffer /\ t.rows = Append(s.rows, row)
        /\ t.decisions = s.decisions \ {c}
    BY <1>1, <1>3, <1>5 DEF Session
  <2>2. Books(t, IF row.failure THEN ended ELSE ended \union {c}, made)
    BY <1>1, <1>2, <2>1, BooksRow
  <2>. QED
    BY <1>2, <2>2 DEF t
<1>. QED
  BY <1>4, <1>5

\* A failure row ships no span.
LEMMA FailureRowBooks ==
  ASSUME NEW s, NEW ended, NEW made, Books(s, ended, made), NEW c \in made, c \in Calls,
         s.outcome = [of |-> c, ok |-> FALSE]
  PROVE  Books(FailureRow(s, c), ended, made)
<1>. DEFINE row == [call |-> c, failure |-> TRUE, model |-> s.attempted,
                    decision |-> Own(c, s.decisions), outcome |-> s.outcome,
                    reply |-> FALSE]
            t   == FailureRow(s, c)
<1>1. s \in Session /\ t \in Session
  BY FailureRowTyped DEF Books
<1>2. /\ row \in Row /\ row.failure /\ row.call = c /\ row.outcome = [of |-> c, ok |-> FALSE]
      /\ row.decision = Own(c, s.decisions)
  BY <1>1 DEF Row, Own, Session
<1>3. t = [s EXCEPT !.rows = Append(s.rows, row), !.outcome = None,
                    !.attempted = None, !.decisions = s.decisions \ {c}]
  BY DEF FailureRow
<1>. HIDE DEF row, t
<1>4. /\ t.rows = Append(s.rows, row) /\ t.buffer = s.buffer
      /\ t.decisions = s.decisions \ {c}
  BY <1>1, <1>3 DEF Session
<1>5. Books(t, IF row.failure THEN ended ELSE ended \union {c}, made)
  BY <1>1, <1>2, <1>4, BooksRow
<1>. QED
  BY <1>2, <1>5 DEF t

\* Where the elements of a concatenation come from.
LEMMA ConcatIndex ==
  ASSUME NEW S, NEW a \in Seq(S), NEW b \in Seq(S), NEW n, n = Len(a)
  PROVE  /\ n \in Nat
         /\ \A i \in DOMAIN (a \o b) :
              \/ i \in DOMAIN a /\ (a \o b)[i] = a[i]
              \/ \E k \in DOMAIN b : i = n + k /\ (a \o b)[i] = b[k]
         /\ \A i \in DOMAIN a : i \in DOMAIN (a \o b) /\ (a \o b)[i] = a[i]
         /\ \A k \in DOMAIN b : n + k \in DOMAIN (a \o b) /\ (a \o b)[n + k] = b[k]
         /\ \A i \in DOMAIN a, k \in DOMAIN b : i # n + k
<1>. DEFINE ab == a \o b
            m  == Len(b)
<1>1. n \in Nat /\ m \in Nat /\ DOMAIN a = 1 .. n /\ DOMAIN b = 1 .. m
  BY LenProperties
<1>2. ab \in Seq(S) /\ Len(ab) = n + m
      /\ \A i \in 1 .. n + m : ab[i] = IF i <= n THEN a[i] ELSE b[i - n]
  BY ConcatProperties
<1>3. DOMAIN ab = 1 .. n + m
  BY <1>2, LenProperties
<1>. HIDE DEF ab, m
<1>4. \A k \in DOMAIN b : n + k \in DOMAIN ab /\ ab[n + k] = b[k]
  <2>. TAKE k \in DOMAIN b
  <2>1. n + k \in 1 .. n + m /\ ~(n + k <= n) /\ (n + k) - n = k
    BY <1>1
  <2>. QED
    BY <1>2, <1>3, <2>1
<1>5. \A i \in DOMAIN a : i \in DOMAIN ab /\ ab[i] = a[i]
  BY <1>1, <1>2, <1>3
<1>6. \A i \in DOMAIN ab : i \in DOMAIN a \/ \E k \in DOMAIN b : i = n + k
  <2>. SUFFICES ASSUME NEW i \in 1 .. n + m, i \notin 1 .. n
       PROVE  \E k \in 1 .. m : i = n + k
    BY <1>1, <1>3
  <2>1. i - n \in 1 .. m /\ i = n + (i - n)
    BY <1>1
  <2>. QED
    BY <2>1
<1>7. \A i \in DOMAIN a, k \in DOMAIN b : i # n + k
  BY <1>1
<1>. QED
  BY <1>1, <1>4, <1>5, <1>6, <1>7 DEF ab

\* A flush moves the whole queue to the log, with one decision at most.
LEMMA FlushBooks ==
  ASSUME NEW s, NEW ended, NEW made, Books(s, ended, made), NEW c \in Calls
  PROVE  Books(Flush(s, c), ended, made)
<1>. DEFINE t     == Flush(s, c)
            owned == Own(c, s.decisions)
            rows  == [i \in DOMAIN s.buffer |->
              IF i = 1 THEN SpanRow(s.buffer[i], owned, s.outcome, s.buffer[i] \in s.replies)
                       ELSE SpanRow(s.buffer[i], None, None, s.buffer[i] \in s.replies)]
<1>1. /\ s \in Session /\ t \in Session
      /\ s.rows \in Seq(Row) /\ s.buffer \in Seq(Calls) /\ s.outcome \in Outcome \union {None}
  BY FlushTyped DEF Books, Session
<1>2. CASE s.buffer = <<>>
  BY <1>2 DEF Flush
<1>3. CASE s.buffer # <<>>
  <2>1. t = [s EXCEPT !.rows = s.rows \o rows, !.buffer = <<>>, !.outcome = None,
                      !.decisions = s.decisions \ {c}, !.replies = s.replies \ Range(s.buffer)]
    BY <1>3 DEF Flush
  <2>2. \A i \in DOMAIN s.buffer :
          /\ rows[i] = IF i = 1 THEN SpanRow(s.buffer[i], owned, s.outcome, s.buffer[i] \in s.replies)
                       ELSE SpanRow(s.buffer[i], None, None, s.buffer[i] \in s.replies)
    OBVIOUS
  <2>3. \A i \in DOMAIN s.buffer : /\ rows[i].call = s.buffer[i] /\ ~rows[i].failure
                                   /\ rows[i].decision = IF i = 1 THEN owned ELSE None
    BY <2>2 DEF SpanRow
  <2>4. rows \in Seq(Row)
    <3>1. Len(s.buffer) \in Nat /\ DOMAIN s.buffer = 1 .. Len(s.buffer)
      BY <1>1, LenProperties
    <3>2. ASSUME NEW i \in DOMAIN s.buffer PROVE rows[i] \in Row
      <4>1. s.buffer[i] \in Calls /\ owned \in Calls \union {None}
        BY <1>1, ElementOfSeq DEF Own
      <4>2. (s.buffer[i] \in s.replies) \in BOOLEAN
        OBVIOUS
      <4>3. SpanRow(s.buffer[i], owned, s.outcome, s.buffer[i] \in s.replies) \in Row
        BY <1>1, <4>1, <4>2, SpanRowTyped
      <4>4. SpanRow(s.buffer[i], None, None, s.buffer[i] \in s.replies) \in Row
        BY <4>1, <4>2, SpanRowTyped
      <4>. QED
        BY <2>2, <4>3, <4>4
    <3>3. rows \in [1 .. Len(s.buffer) -> Row]
      BY <3>1, <3>2
    <3>. HIDE DEF rows
    <3>. QED
      BY <3>1, <3>3, LenProperties, IsASeq
  <2>5. DOMAIN rows = DOMAIN s.buffer
    OBVIOUS
  <2>. HIDE DEF rows, t, owned
  <2>6. /\ t.rows = s.rows \o rows /\ t.buffer = <<>> /\ t.decisions = s.decisions \ {c}
    BY <1>1, <2>1 DEF Session
  <2>. DEFINE n == Len(s.rows)
  <2>7. /\ \A i \in DOMAIN t.rows : \/ i \in DOMAIN s.rows /\ t.rows[i] = s.rows[i]
                                    \/ \E k \in DOMAIN s.buffer : i = n + k /\ t.rows[i] = rows[k]
        /\ \A i \in DOMAIN s.rows : i \in DOMAIN t.rows /\ t.rows[i] = s.rows[i]
        /\ \A k \in DOMAIN s.buffer : n + k \in DOMAIN t.rows /\ t.rows[n + k] = rows[k]
        /\ \A i \in DOMAIN s.rows, k \in DOMAIN s.buffer : i # n + k
    <3>. DEFINE all == s.rows \o rows
    <3>1. n = Len(s.rows)
      OBVIOUS
    <3>. HIDE DEF n
    <3>2. /\ \A i \in DOMAIN all : \/ i \in DOMAIN s.rows /\ all[i] = s.rows[i]
                                   \/ \E k \in DOMAIN rows : i = n + k /\ all[i] = rows[k]
          /\ \A i \in DOMAIN s.rows : i \in DOMAIN all /\ all[i] = s.rows[i]
          /\ \A k \in DOMAIN rows : n + k \in DOMAIN all /\ all[n + k] = rows[k]
          /\ \A i \in DOMAIN s.rows, k \in DOMAIN rows : i # n + k
      BY <1>1, <2>4, <3>1, ConcatIndex
    <3>3. t.rows = all
      BY <2>6
    <3>. HIDE DEF all
    <3>. QED
      BY <2>5, <3>2, <3>3
  <2>b. DOMAIN t.buffer = {}
    BY <2>6
  <2>. HIDE DEF n
  <2>8. Once(t, ended)
    <3>1. ASSUME NEW i \in DOMAIN t.rows, NEW j \in DOMAIN t.rows,
                 ~t.rows[i].failure, ~t.rows[j].failure, t.rows[i].call = t.rows[j].call
          PROVE  i = j
      <4>1. CASE i \in DOMAIN s.rows /\ t.rows[i] = s.rows[i]
        BY <2>3, <2>7, <3>1, <4>1 DEF Books, Once
      <4>2. CASE \E k \in DOMAIN s.buffer : i = n + k /\ t.rows[i] = rows[k]
        BY <2>3, <2>7, <3>1, <4>2 DEF Books, Once
      <4>. QED
        BY <2>7, <4>1, <4>2
    <3>2. ASSUME NEW d \in Calls
          PROVE  (\E i \in DOMAIN t.rows : t.rows[i].call = d /\ ~t.rows[i].failure)
                   <=> \/ \E i \in DOMAIN s.buffer : s.buffer[i] = d
                       \/ \E i \in DOMAIN s.rows : s.rows[i].call = d /\ ~s.rows[i].failure
      <4>1. ASSUME NEW i \in DOMAIN t.rows, t.rows[i].call = d, ~t.rows[i].failure
            PROVE  \/ \E k \in DOMAIN s.buffer : s.buffer[k] = d
                   \/ \E k \in DOMAIN s.rows : s.rows[k].call = d /\ ~s.rows[k].failure
        BY <2>3, <2>7, <4>1
      <4>2. ASSUME NEW k \in DOMAIN s.buffer, s.buffer[k] = d
            PROVE  \E i \in DOMAIN t.rows : t.rows[i].call = d /\ ~t.rows[i].failure
        BY <2>3, <2>7, <4>2
      <4>3. ASSUME NEW k \in DOMAIN s.rows, s.rows[k].call = d, ~s.rows[k].failure
            PROVE  \E i \in DOMAIN t.rows : t.rows[i].call = d /\ ~t.rows[i].failure
        BY <2>7, <4>3
      <4>. QED
        BY <4>1, <4>2, <4>3
    <3>. QED
      BY <2>b, <3>1, <3>2 DEF Books, Once
  <2>9. Audited(t, made)
    <3>1. owned # None => owned = c /\ c \in s.decisions
      BY DEF owned, Own
    <3>2. ASSUME NEW i \in DOMAIN t.rows, t.rows[i].decision # None
          PROVE  /\ t.rows[i].decision \in made \ t.decisions
                 /\ \A j \in DOMAIN t.rows \ {i} : t.rows[j].decision # t.rows[i].decision
      <4>1. CASE i \in DOMAIN s.rows /\ t.rows[i] = s.rows[i]
        <5>1. t.rows[i].decision \in made \ s.decisions
          BY <3>2, <4>1 DEF Books, Audited
        <5>2. ASSUME NEW j \in DOMAIN t.rows \ {i} PROVE t.rows[j].decision # t.rows[i].decision
          <6>1. CASE j \in DOMAIN s.rows /\ t.rows[j] = s.rows[j]
            BY <3>2, <4>1, <6>1 DEF Books, Audited
          <6>2. CASE \E k \in DOMAIN s.buffer : j = n + k /\ t.rows[j] = rows[k]
            BY <2>3, <3>1, <3>2, <5>1, <6>2
          <6>. QED
            BY <2>7, <6>1, <6>2
        <5>. QED
          BY <2>6, <5>1, <5>2
      <4>2. CASE \E k \in DOMAIN s.buffer : i = n + k /\ t.rows[i] = rows[k]
        <5>1. PICK k \in DOMAIN s.buffer : i = n + k /\ t.rows[i] = rows[k]
          BY <4>2
        <5>2. k = 1 /\ t.rows[i].decision = c /\ c \in s.decisions
          BY <2>3, <3>1, <3>2, <5>1
        <5>3. ASSUME NEW j \in DOMAIN t.rows \ {i} PROVE t.rows[j].decision # c
          <6>1. CASE j \in DOMAIN s.rows /\ t.rows[j] = s.rows[j]
            BY <5>2, <6>1, KindsAssumption DEF Books, Audited
          <6>2. CASE \E l \in DOMAIN s.buffer : j = n + l /\ t.rows[j] = rows[l]
            BY <2>3, <5>1, <5>2, <6>2, KindsAssumption
          <6>. QED
            BY <2>7, <6>1, <6>2
        <5>. QED
          BY <2>6, <5>2, <5>3 DEF Books, Audited
      <4>. QED
        BY <2>7, <4>1, <4>2
    <3>3. \A i \in DOMAIN t.rows : t.rows[i].failure =>
            /\ t.rows[i].outcome = [of |-> t.rows[i].call, ok |-> FALSE]
            /\ t.rows[i].decision \in {None, t.rows[i].call}
      BY <2>3, <2>7 DEF Books, Audited
    <3>. QED
      BY <2>6, <3>2, <3>3 DEF Books, Audited
  <2>. QED
    BY <1>1, <2>8, <2>9 DEF Books, t
<1>. QED
  BY <1>2, <1>3

\* So does a gated flush.
LEMMA FlushUnlessDeferredBooks ==
  ASSUME NEW s, NEW ended, NEW made, Books(s, ended, made), NEW c \in Calls
  PROVE  Books(FlushUnlessDeferred(s, c), ended, made)
BY FlushBooks DEF FlushUnlessDeferred

\* A span that ends, or not.
LEMMA SpanMaybeBooks ==
  ASSUME NEW s, NEW ended, NEW made, Books(s, ended, made), NEW c \in made, c \in Calls,
         c \notin ended, NEW spanned \in BOOLEAN, NEW ok \in BOOLEAN
  PROVE  Books(SpanMaybe(s, c, spanned, ok),
               IF spanned THEN ended \union {c} ELSE ended, made)
BY EndSpanBooks DEF SpanMaybe

\* Notes and flags are not in the books.
LEMMA NotesBooks ==
  ASSUME NEW s, NEW ended, NEW made, Books(s, ended, made), NEW c \in Calls,
         NEW ok \in BOOLEAN
  PROVE  /\ Books(Replied(s, c), ended, made)
         /\ Books(Settled(s, c, ok), ended, made)
         /\ Settled(s, c, ok).outcome = [of |-> c, ok |-> ok]
<1>1. s \in Session /\ Replied(s, c) \in Session /\ Settled(s, c, ok) \in Session
  BY NotesTyped DEF Books
<1>2. LET t == Replied(s, c)
      IN  t.rows = s.rows /\ t.buffer = s.buffer /\ t.decisions = s.decisions
  BY <1>1 DEF Replied, Session
<1>3. LET t == Settled(s, c, ok)
      IN  /\ t.rows = s.rows /\ t.buffer = s.buffer /\ t.decisions = s.decisions
          /\ t.outcome = [of |-> c, ok |-> ok]
  BY <1>1 DEF Settled, Session
<1>4. Books(Replied(s, c), ended, made)
  BY <1>1, <1>2, BooksSame
<1>5. Books(Settled(s, c, ok), ended, made)
  BY <1>1, <1>3, BooksSame
<1>. QED
  BY <1>3, <1>4, <1>5

\* Neither is the flag.
LEMMA FlagBooks ==
  ASSUME NEW s, NEW ended, NEW made, Books(s, ended, made), NEW b \in BOOLEAN
  PROVE  /\ Books([s EXCEPT !.defer = b], ended, made)
         /\ [s EXCEPT !.defer = b].outcome = s.outcome
<1>. DEFINE t == [s EXCEPT !.defer = b]
<1>1. /\ t \in Session /\ t.rows = s.rows /\ t.buffer = s.buffer
      /\ t.decisions = s.decisions /\ t.outcome = s.outcome
  BY DEF Books, Session
<1>. HIDE DEF t
<1>2. Books(t, ended, made)
  BY <1>1, BooksSame
<1>. QED
  BY <1>1, <1>2 DEF t

\* Nor the outcome and attempted-model slots.
LEMMA SlotBooks ==
  ASSUME NEW s, NEW ended, NEW made, Books(s, ended, made), NEW c \in Calls
  PROVE  /\ Books([s EXCEPT !.outcome = None], ended, made)
         /\ Books([s EXCEPT !.attempted = c], ended, made)
         /\ [s EXCEPT !.attempted = c].outcome = s.outcome
<1>. DEFINE t == [s EXCEPT !.outcome = None]
            u == [s EXCEPT !.attempted = c]
<1>1. t \in Session /\ t.rows = s.rows /\ t.buffer = s.buffer /\ t.decisions = s.decisions
  BY DEF Books, Session
<1>2. /\ u \in Session /\ u.rows = s.rows /\ u.buffer = s.buffer
      /\ u.decisions = s.decisions /\ u.outcome = s.outcome
  BY DEF Books, Session
<1>. HIDE DEF t, u
<1>3. Books(t, ended, made)
  BY <1>1, BooksSame
<1>4. Books(u, ended, made)
  BY <1>2, BooksSame
<1>. QED
  BY <1>2, <1>3, <1>4 DEF t, u

\* Leaving a level of the LangChain guard keeps the books.
LEMMA UnwindBooks ==
  ASSUME NEW s, NEW ended, NEW made, Books(s, ended, made), NEW c \in Calls,
         NEW failed \in BOOLEAN, s.depth >= 1
  PROVE  Books(Unwind(s, c, failed), ended, made)
<1>. DEFINE up      == [s EXCEPT !.depth = s.depth - 1]
            outer   == [up EXCEPT !.defer = up.base]
            noted   == IF failed THEN outer ELSE Replied(outer, c)
            flushed == FlushUnlessDeferred(noted, c)
            cleared == [flushed EXCEPT !.outcome = None]
<1>1. Cardinality(Calls) \in Nat
  BY KindsAssumption, FS_CardinalityType
<1>2. Books(up, ended, made)
  <2>1. /\ up \in Session /\ up.rows = s.rows /\ up.buffer = s.buffer
        /\ up.decisions = s.decisions
    BY <1>1 DEF Books, Session
  <2>. HIDE DEF up
  <2>. QED
    BY <2>1, BooksSame
<1>. HIDE DEF up
<1>3. Books(outer, ended, made)
  <2>1. up.base \in BOOLEAN
    BY <1>2 DEF Books, Session
  <2>. QED
    BY <1>2, <2>1, FlagBooks
<1>. HIDE DEF outer
<1>4. Books(noted, ended, made)
  BY <1>3, NotesBooks
<1>. HIDE DEF noted
<1>5. Books(flushed, ended, made)
  BY <1>4, FlushUnlessDeferredBooks
<1>. HIDE DEF flushed
<1>6. Books(cleared, ended, made)
  BY <1>5, SlotBooks
<1>. HIDE DEF cleared
<1>7. Books(Replied(up, c), ended, made)
  BY <1>2, NotesBooks
<1>8. Unwind(s, c, failed) =
        IF up.depth > 0 THEN (IF failed THEN up ELSE Replied(up, c))
        ELSE IF failed /\ ~flushed.defer THEN cleared ELSE flushed
  BY DEF Unwind, up, outer, noted, flushed, cleared
<1>. QED
  BY <1>2, <1>5, <1>6, <1>7, <1>8

-------------------------------------------------------------------------------
(* The books are kept by every step. *)

Ended == {c \in Calls : call[c].ended}
Made  == {c \in Calls : call[c].pc # "new"}

\* A call that is not over has not ended its span.
Pending == \A c \in Calls :
  call[c].pc \in {"new", "awaiting", "returned", "open"} => ~call[c].ended

BInv == IInv /\ Pending /\ Books(ses, Ended, Made)

\* A step of a call that was made, whose span ends now or not.
LEMMA GoesBooks ==
  ASSUME BInv, IInv', NEW c \in Calls, NEW pc \in Pc \ {"new"}, NEW spanned \in BOOLEAN,
         Goes(c, pc, spanned), call[c].pc # "new", ~call[c].ended,
         spanned => pc \in {"done", "closed", "failed"},
         Books(ses', IF spanned THEN Ended \union {c} ELSE Ended, Made)
  PROVE  BInv'
<1>1. call[c] \in Locals /\ call \in [Calls -> Locals]
  BY DEF BInv, IInv, TypeOK
<1>. DEFINE r == [call[c] EXCEPT !.pc = pc, !.ended = spanned]
<1>2. r.pc = pc /\ r.ended = spanned
  BY <1>1 DEF Locals
<1>3. call' = [call EXCEPT ![c] = r]
  BY <1>1 DEF Goes
<1>. HIDE DEF r
<1>4. call'[c] = r /\ \A d \in Calls \ {c} : call'[d] = call[d]
  BY <1>1, <1>3
<1>5. Ended' = IF spanned THEN Ended \union {c} ELSE Ended
  BY <1>2, <1>4 DEF Ended
<1>6. Made' = Made
  BY <1>2, <1>4 DEF Made
<1>7. Pending'
  BY <1>2, <1>4 DEF Pending, BInv
<1>. QED
  BY <1>5, <1>6, <1>7 DEF BInv

\* A call is made.
LEMMA EnterBooks == ASSUME BInv, NEW c \in Calls, Enter(c) PROVE BInv'
<1>1. IInv' /\ call[c].pc = "new" /\ TypeOK
  BY EnterTyped DEF BInv, Enter, EnterCall, EnterLcStream, IInv
<1>2. \E pc \in Pc \ {"new"}, kind \in AllKinds : Opened(c, pc, kind)
  <2>1. CASE EnterLcStream(c)
    BY <2>1 DEF EnterLcStream, Pc, AllKinds
  <2>2. CASE \E kind \in Kinds, rerouted \in BOOLEAN : EnterCall(c, kind, rerouted)
    BY <2>2, KindsAssumption DEF EnterCall, Pc
  <2>. QED
    BY <2>1, <2>2 DEF Enter
<1>3. PICK pc \in Pc \ {"new"}, kind \in AllKinds : Opened(c, pc, kind)
  BY <1>2
<1>4. call'[c].pc = pc /\ ~call'[c].ended /\ \A d \in Calls \ {c} : call'[d] = call[d]
  BY <1>1, <1>3 DEF Opened, TypeOK
<1>5. Ended' = Ended /\ Made' = Made \union {c} /\ c \notin Made /\ Pending'
  BY <1>1, <1>4 DEF BInv, Pending, Ended, Made
<1>6. /\ ses' \in Session /\ ses'.rows = ses.rows /\ ses'.buffer = ses.buffer
      /\ ses'.decisions \in {ses.decisions, ses.decisions \union {c}}
  <2>1. ses \in Session /\ ses' \in Session
    BY <1>1 DEF IInv, TypeOK
  <2>2. CASE EnterLcStream(c)
    BY <2>1, <2>2 DEF EnterLcStream
  <2>3. ASSUME NEW k \in Kinds, NEW rerouted \in BOOLEAN, EnterCall(c, k, rerouted)
        PROVE  /\ ses'.rows = ses.rows /\ ses'.buffer = ses.buffer
               /\ ses'.decisions \in {ses.decisions, ses.decisions \union {c}}
    BY <2>1, <2>3 DEF EnterCall, Session
  <2>. QED
    BY <2>1, <2>2, <2>3 DEF Enter
<1>7. Audited(ses', Made \union {c})
  BY <1>5, <1>6 DEF BInv, Books, Audited
<1>8. Once(ses', Ended)
  BY <1>6 DEF BInv, Books, Once
<1>. QED
  BY <1>1, <1>5, <1>6, <1>7, <1>8 DEF BInv, Books

\* A call returns.
LEMMA ReturnCallBooks ==
  ASSUME BInv, NEW c \in Calls, NEW spanned \in BOOLEAN, ReturnCall(c, spanned)
  PROVE  BInv'
<1>. DEFINE now      == IF spanned THEN Ended \union {c} ELSE Ended
            ended    == SpanMaybe(ses, c, spanned, TRUE)
            settled  == IF call[c].kind = "plain" THEN Settled(ended, c, TRUE) ELSE ended
            restored == [settled EXCEPT !.defer = call[c].prev]
            replied  == Replied(restored, c)
            flushed  == FlushUnlessDeferred(replied, c)
<1>1. /\ ses' = flushed /\ Goes(c, "done", spanned)
      /\ call[c].pc = "awaiting" /\ "done" \in Pc \ {"new"}
  BY DEF ReturnCall, Pc
<1>2. IInv' /\ IInv /\ ~call[c].ended /\ c \in Made /\ c \notin Ended /\ call[c].prev \in BOOLEAN
  BY <1>1, ReturnCallTyped DEF BInv, Pending, Made, Ended, IInv, TypeOK, Locals
<1>3. Books(ended, now, Made)
  BY <1>2, SpanMaybeBooks DEF BInv
<1>. HIDE DEF ended, now
<1>4. Books(settled, now, Made)
  BY <1>3, NotesBooks
<1>. HIDE DEF settled
<1>5. Books(restored, now, Made)
  BY <1>2, <1>4, FlagBooks
<1>. HIDE DEF restored
<1>6. Books(replied, now, Made)
  BY <1>5, NotesBooks
<1>. HIDE DEF replied
<1>7. Books(ses', now, Made)
  BY <1>1, <1>6, FlushUnlessDeferredBooks
<1>. QED
  BY <1>1, <1>2, <1>7, GoesBooks DEF now

\* A Mode-A call raises, at the call or at a pull.
LEMMA ModeAFailBooks ==
  ASSUME BInv, NEW c \in Calls, NEW spanned \in BOOLEAN,
         FailCall(c, spanned) \/ FailStream(c, spanned)
  PROVE  BInv'
<1>. DEFINE now      == IF spanned THEN Ended \union {c} ELSE Ended
            ended    == SpanMaybe(ses, c, spanned, FALSE)
            settled  == Settled(ended, c, FALSE)
            restored == [settled EXCEPT !.defer = call[c].prev]
<1>1. /\ ses' = FailureRow(restored, c) /\ Goes(c, "failed", spanned)
      /\ call[c].pc \in {"awaiting", "open"} /\ "failed" \in Pc \ {"new"}
  BY DEF FailCall, FailStream, Pc
<1>2. IInv' /\ IInv /\ ~call[c].ended /\ c \in Made /\ c \notin Ended /\ call[c].prev \in BOOLEAN
  BY <1>1, ModeAFailTyped DEF BInv, Pending, Made, Ended, IInv, TypeOK, Locals
<1>3. Books(ended, now, Made)
  BY <1>2, SpanMaybeBooks DEF BInv
<1>. HIDE DEF ended, now
<1>4. Books(settled, now, Made) /\ settled.outcome = [of |-> c, ok |-> FALSE]
  BY <1>3, NotesBooks
<1>. HIDE DEF settled
<1>5. Books(restored, now, Made) /\ restored.outcome = [of |-> c, ok |-> FALSE]
  BY <1>2, <1>4, FlagBooks
<1>. HIDE DEF restored
<1>6. Books(ses', now, Made)
  BY <1>1, <1>2, <1>5, FailureRowBooks
<1>. QED
  BY <1>1, <1>2, <1>6, GoesBooks DEF now

\* LangChain's invoke raises.
LEMMA FailLcCallBooks ==
  ASSUME BInv, NEW c \in Calls, NEW spanned \in BOOLEAN, FailLcCall(c, spanned)
  PROVE  BInv'
<1>. DEFINE now      == IF spanned THEN Ended \union {c} ELSE Ended
            ended    == SpanMaybe(ses, c, spanned, FALSE)
            restored == [ended EXCEPT !.defer = call[c].prev]
            failed   == Settled(restored, c, FALSE)
            noted    == [failed EXCEPT !.attempted = c]
            emitted  == IF failed.buffer # <<>> THEN Flush(failed, c)
                        ELSE FailureRow(noted, c)
            cleared  == [emitted EXCEPT !.outcome = None]
<1>1. /\ ses' = IF call[c].prev THEN restored ELSE cleared
      /\ Goes(c, "failed", spanned) /\ "failed" \in Pc \ {"new"}
      /\ call[c].pc = "awaiting"
  BY DEF FailLcCall, Pc
<1>2. IInv' /\ IInv /\ ~call[c].ended /\ c \in Made /\ c \notin Ended /\ call[c].prev \in BOOLEAN
  BY <1>1, FailLcCallTyped DEF BInv, Pending, Made, Ended, IInv, TypeOK, Locals
<1>3. Books(ended, now, Made)
  BY <1>2, SpanMaybeBooks DEF BInv
<1>. HIDE DEF ended, now
<1>4. Books(restored, now, Made)
  BY <1>2, <1>3, FlagBooks
<1>. HIDE DEF restored
<1>5. Books(failed, now, Made) /\ failed.outcome = [of |-> c, ok |-> FALSE]
  BY <1>4, NotesBooks
<1>. HIDE DEF failed
<1>6. Books(noted, now, Made) /\ noted.outcome = [of |-> c, ok |-> FALSE]
  BY <1>5, SlotBooks
<1>. HIDE DEF noted
<1>7. Books(emitted, now, Made)
  <2>1. Books(Flush(failed, c), now, Made)
    BY <1>5, FlushBooks
  <2>2. Books(FailureRow(noted, c), now, Made)
    BY <1>2, <1>6, FailureRowBooks
  <2>. QED
    BY <2>1, <2>2
<1>. HIDE DEF emitted
<1>8. Books(cleared, now, Made)
  BY <1>7, SlotBooks
<1>. HIDE DEF cleared
<1>9. Books(ses', now, Made)
  BY <1>1, <1>4, <1>8
<1>. QED
  BY <1>1, <1>2, <1>9, GoesBooks DEF now

\* A Mode-A stream ends.
LEMMA EndStreamBooks ==
  ASSUME BInv, NEW c \in Calls, NEW spanned \in BOOLEAN,
         NEW how \in {"done", "closed"}, EndStream(c, how, spanned)
  PROVE  BInv'
<1>. DEFINE now      == IF spanned THEN Ended \union {c} ELSE Ended
            ended    == SpanMaybe(ses, c, spanned, TRUE)
            restored == [ended EXCEPT !.defer = call[c].prev]
            replied  == Replied(restored, c)
<1>1. /\ ses' = Flush(replied, c) /\ Goes(c, how, spanned) /\ how \in Pc \ {"new"}
      /\ call[c].pc = "open"
  BY DEF EndStream, Pc
<1>2. IInv' /\ IInv /\ ~call[c].ended /\ c \in Made /\ c \notin Ended /\ call[c].prev \in BOOLEAN
  BY <1>1, EndStreamTyped DEF BInv, Pending, Made, Ended, IInv, TypeOK, Locals
<1>3. Books(ended, now, Made)
  BY <1>2, SpanMaybeBooks DEF BInv
<1>. HIDE DEF ended, now
<1>4. Books(restored, now, Made)
  BY <1>2, <1>3, FlagBooks
<1>. HIDE DEF restored
<1>5. Books(replied, now, Made)
  BY <1>4, NotesBooks
<1>. HIDE DEF replied
<1>6. Books(ses', now, Made)
  BY <1>1, <1>5, FlushBooks
<1>. QED
  BY <1>1, <1>2, <1>6, GoesBooks DEF now

\* A Mode-A stream is handed back, or pulled for the first time.
LEMMA StreamBooks ==
  ASSUME BInv, NEW c \in Calls, ReturnStream(c) \/ PullStream(c)
  PROVE  BInv'
<1>1. /\ call[c].pc \in {"awaiting", "returned"}
      /\ Goes(c, "returned", FALSE) \/ Goes(c, "open", FALSE)
      /\ "returned" \in Pc \ {"new"} /\ "open" \in Pc \ {"new"}
  BY DEF ReturnStream, PullStream, Pc
<1>2. IInv' /\ IInv /\ ~call[c].ended /\ call[c].prev \in BOOLEAN
  BY <1>1, StreamTyped DEF BInv, Pending, IInv, TypeOK, Locals
<1>3. Books(ses', Ended, Made)
  <2>1. CASE ReturnStream(c)
    <3>. DEFINE settled == Settled(ses, c, TRUE)
    <3>1. ses' = [settled EXCEPT !.defer = call[c].prev]
      BY <2>1 DEF ReturnStream
    <3>2. Books(settled, Ended, Made)
      BY NotesBooks DEF BInv
    <3>. HIDE DEF settled
    <3>. QED
      BY <1>2, <3>1, <3>2, FlagBooks
  <2>2. CASE PullStream(c)
    <3>1. ses' = [ses EXCEPT !.defer = TRUE]
      BY <2>2 DEF PullStream
    <3>. QED
      BY <3>1, FlagBooks DEF BInv
  <2>. QED
    BY <2>1, <2>2
<1>. QED
  BY <1>1, <1>2, <1>3, GoesBooks

\* A stream is dropped unpulled, or a span ends late.
LEMMA LeftoverBooks ==
  ASSUME BInv, NEW c \in Calls, DropStream(c) \/ LateSpan(c)
  PROVE  BInv'
<1>1. IInv' /\ IInv
  BY LeftoverTyped DEF BInv
<1>2. CASE DropStream(c)
  <2>1. /\ Goes(c, IF call[c].kind = "stream" THEN "closed" ELSE "done", FALSE)
        /\ call[c].pc = "returned" /\ ses' = ses
        /\ (IF call[c].kind = "stream" THEN "closed" ELSE "done") \in Pc \ {"new"}
    BY <1>2 DEF DropStream, Pc
  <2>2. ~call[c].ended /\ Books(ses', Ended, Made)
    BY <2>1 DEF BInv, Pending
  <2>. QED
    BY <1>1, <2>1, <2>2, GoesBooks
<1>3. CASE LateSpan(c)
  <2>1. /\ ses' = EndSpan(ses, c, TRUE) /\ Goes(c, "closed", TRUE) /\ call[c].pc = "closed"
        /\ ~call[c].ended /\ "closed" \in Pc \ {"new"}
    BY <1>3 DEF LateSpan, Pc
  <2>2. c \in Made /\ c \notin Ended
    BY <2>1 DEF Made, Ended
  <2>3. Books(ses', Ended \union {c}, Made)
    BY <2>1, <2>2, EndSpanBooks DEF BInv
  <2>. QED
    BY <1>1, <2>1, <2>3, GoesBooks
<1>. QED
  BY <1>2, <1>3

\* A LangChain stream is pulled for the first time.
LEMMA PullLcBooks ==
  ASSUME BInv, NEW c \in Calls, PullLcStream(c) PROVE BInv'
<1>1. /\ Goes(c, "open", FALSE) /\ "open" \in Pc \ {"new"} /\ call[c].pc = "returned"
      /\ ses' = [ses EXCEPT !.base = IF ses.depth = 0 THEN ses.defer ELSE @,
                            !.depth = @ + 1, !.defer = TRUE]
  BY DEF PullLcStream, Pc
<1>2. IInv' /\ ~call[c].ended /\ ses \in Session /\ ses' \in Session
  BY <1>1, PullLcTyped DEF BInv, Pending, IInv, TypeOK
<1>3. ses'.rows = ses.rows /\ ses'.buffer = ses.buffer /\ ses'.decisions = ses.decisions
  BY <1>1, <1>2 DEF Session
<1>4. Books(ses', Ended, Made)
  BY <1>2, <1>3, BooksSame DEF BInv
<1>. QED
  BY <1>1, <1>2, <1>4, GoesBooks

\* A LangChain stream ends or fails.
LEMMA EndLcBooks ==
  ASSUME BInv, NEW c \in Calls, NEW spanned \in BOOLEAN,
         \/ \E how \in {"done", "closed"} : EndLcStream(c, how, spanned)
         \/ FailLcStream(c, spanned)
  PROVE  BInv'
<1>. DEFINE now == IF spanned THEN Ended \union {c} ELSE Ended
<1>1. PICK pc \in {"done", "closed", "failed"} : Goes(c, pc, spanned)
  BY DEF EndLcStream, FailLcStream
<1>2. call[c].pc = "open" /\ pc \in Pc \ {"new"}
  BY DEF EndLcStream, FailLcStream, Pc
<1>3. /\ IInv' /\ IInv /\ ~call[c].ended /\ c \in Made /\ c \notin Ended
      /\ ses \in Session /\ ses.depth >= 1
  BY <1>2, EndLcTyped DEF BInv, Pending, Made, Ended, IInv, TypeOK
<1>4. ASSUME NEW ok \in BOOLEAN
      PROVE  /\ Books(SpanMaybe(ses, c, spanned, ok), now, Made)
             /\ SpanMaybe(ses, c, spanned, ok).depth = ses.depth
  BY <1>3, SpanMaybeBooks, SpanMaybeTyped DEF BInv, SameFlag
<1>. HIDE DEF now
<1>5. Books(ses', now, Made)
  <2>1. CASE FailLcStream(c, spanned)
    <3>. DEFINE ended   == SpanMaybe(ses, c, spanned, FALSE)
                settled == Settled(ended, c, FALSE)
    <3>1. ses' = Unwind(settled, c, TRUE)
      BY <2>1 DEF FailLcStream
    <3>2. Books(ended, now, Made) /\ ended.depth = ses.depth
      BY <1>4
    <3>. HIDE DEF ended
    <3>3. Books(settled, now, Made) /\ settled.depth = ses.depth
      BY <3>2, NotesBooks, NotesTyped DEF Books, SameFlag
    <3>. HIDE DEF settled
    <3>. QED
      BY <1>3, <3>1, <3>3, UnwindBooks
  <2>2. CASE \E how \in {"done", "closed"} : EndLcStream(c, how, spanned)
    <3>1. ses' = Unwind(SpanMaybe(ses, c, spanned, TRUE), c, FALSE)
      BY <2>2 DEF EndLcStream
    <3>. QED
      BY <1>3, <1>4, <3>1, UnwindBooks
  <2>. QED
    BY <2>1, <2>2
<1>. QED
  BY <1>1, <1>2, <1>3, <1>5, GoesBooks DEF now

\* Nothing was queued, shipped or audited yet.
LEMMA InitBooks == ASSUME Init PROVE BInv
<1>1. IInv /\ ses \in Session
  BY InitTyped DEF IInv, TypeOK
<1>2. DOMAIN ses.buffer = {} /\ DOMAIN ses.rows = {} /\ ses.decisions = {}
  BY DEF Init
<1>3. Ended = {} /\ Pending
  BY DEF Init, Idle, Ended, Pending
<1>. QED
  BY <1>1, <1>2, <1>3 DEF BInv, Books, Once, Audited

\* Every step of every mix of calls keeps the books.
LEMMA StepBooks == ASSUME BInv, [Next]_vars PROVE BInv'
<1>1. CASE UNCHANGED vars
  <2>1. IInv'
    BY <1>1, StepTyped DEF BInv
  <2>. QED
    BY <1>1, <2>1 DEF vars, BInv, Pending, Ended, Made
<1>2. ASSUME NEW c \in Calls, Enter(c) PROVE BInv'
  BY <1>2, EnterBooks
<1>3. ASSUME NEW c \in Calls, ReturnStream(c) \/ PullStream(c) PROVE BInv'
  BY <1>3, StreamBooks
<1>4. ASSUME NEW c \in Calls, PullLcStream(c) PROVE BInv'
  BY <1>4, PullLcBooks
<1>5. ASSUME NEW c \in Calls, DropStream(c) \/ LateSpan(c) PROVE BInv'
  BY <1>5, LeftoverBooks
<1>6. ASSUME NEW c \in Calls, NEW spanned \in BOOLEAN, Step(c, spanned)
      PROVE  BInv'
  <2>1. CASE ReturnCall(c, spanned)
    BY <2>1, ReturnCallBooks
  <2>2. CASE FailCall(c, spanned) \/ FailStream(c, spanned)
    BY <2>2, ModeAFailBooks
  <2>3. CASE FailLcCall(c, spanned)
    BY <2>3, FailLcCallBooks
  <2>4. CASE \E how \in {"done", "closed"} : EndStream(c, how, spanned)
    BY <2>4, EndStreamBooks
  <2>5. CASE \/ \E how \in {"done", "closed"} : EndLcStream(c, how, spanned)
             \/ FailLcStream(c, spanned)
    BY <2>5, EndLcBooks
  <2>. QED
    BY <1>6, <2>1, <2>2, <2>3, <2>4, <2>5 DEF Step
<1>. QED
  BY <1>1, <1>2, <1>3, <1>4, <1>5, <1>6 DEF Next

\* The books say where each span is, as the property counts it.
LEMMA OnceCounted == ASSUME BInv PROVE SpanShippedOnce
<1>. SUFFICES ASSUME NEW c \in Calls
     PROVE  LET queued == {i \in DOMAIN ses.buffer : ses.buffer[i] = c}
                logged == {i \in DOMAIN ses.rows : ses.rows[i].call = c /\ ~ses.rows[i].failure}
            IN  Cardinality(queued) + Cardinality(logged) = IF call[c].ended THEN 1 ELSE 0
  BY DEF SpanShippedOnce
<1>. DEFINE queued == {i \in DOMAIN ses.buffer : ses.buffer[i] = c}
            logged == {i \in DOMAIN ses.rows : ses.rows[i].call = c /\ ~ses.rows[i].failure}
<1>1. /\ queued = {} \/ \E i : queued = {i}
      /\ logged = {} \/ \E i : logged = {i}
      /\ queued = {} \/ logged = {}
      /\ call[c].ended <=> (queued # {} \/ logged # {})
  <2>. USE DEF BInv, Books, Once
  <2>1. \A i, j \in queued : i = j
    OBVIOUS
  <2>2. \A i, j \in logged : i = j
    OBVIOUS
  <2>3. queued = {} \/ logged = {}
    OBVIOUS
  <2>4. c \in Ended <=> (queued # {} \/ logged # {})
    OBVIOUS
  <2>5. call[c].ended <=> c \in Ended
    BY DEF Ended
  <2>. HIDE DEF queued, logged, BInv
  <2>. QED
    BY <2>1, <2>2, <2>3, <2>4, <2>5
<1>. HIDE DEF queued, logged
<1>2. /\ Cardinality(queued) = IF queued = {} THEN 0 ELSE 1
      /\ Cardinality(logged) = IF logged = {} THEN 0 ELSE 1
  BY <1>1, FS_EmptySet, FS_Singleton
<1>3. Cardinality(queued) + Cardinality(logged) = IF call[c].ended THEN 1 ELSE 0
  BY <1>1, <1>2
<1>. QED
  BY <1>3 DEF queued, logged

\* However calls, streams, flushes and failures overlap on a session, an ended
\* span is queued once or logged once: none is dropped and none is shipped
\* twice (_deferred_spans, _flush_deferred_spans, telemetry.on_end).
THEOREM SpansShipOnce == Spec => []SpanShippedOnce
<1>1. Init => BInv
  BY InitBooks
<1>2. BInv /\ [Next]_vars => BInv'
  BY StepBooks
<1>3. BInv => SpanShippedOnce
  BY OnceCounted
<1>4. QED
  BY <1>1, <1>2, <1>3, PTL DEF Spec

\* An applied reroute is audited on at most one row, and a failure row tells the
\* outcome, and the decision, of the call that failed: although the slots it is
\* made from are the session's, no other call's step comes in between
\* (_claim_local_decision, _emit_call_failure_log).
THEOREM AuditAlwaysOwn == Spec => []AuditIsOwn
<1>1. Init => BInv
  BY InitBooks
<1>2. BInv /\ [Next]_vars => BInv'
  BY StepBooks
<1>3. BInv => AuditIsOwn
  BY DEF BInv, Books, Audited, AuditIsOwn
<1>4. QED
  BY <1>1, <1>2, <1>3, PTL DEF Spec

-------------------------------------------------------------------------------
(* Orderly applications: which calls are within which, and what that makes   *)
(* of the flag.                                                              *)

\* What the application has open when it makes a call is older; of two calls in
\* flight one is older than the other, and none is made while one is awaited.
OlderKnown ==
  /\ \A x, y \in Calls : x \in call[y].older => call[x].pc \notin {"new", "awaiting"} /\ x # y
  /\ \A x, y \in InFlight : x # y => (x \in call[y].older <=> y \notin call[x].older)

\* LangChain's stream() is a generator: it is never awaited.
KindKnown == \A c \in Calls : call[c].pc = "awaiting" => call[c].kind # "lcStream"

\* The flag is up while some call holds it up; each wrapper but LangChain's noted
\* whether an older call did.
Deferrers == {c \in Calls : Deferring(c)}
DeferKnown == ses.defer <=> Deferrers # {}
PrevKnown ==
  \A y \in InFlight : call[y].kind # "lcStream" =>
    (call[y].prev <=> Deferrers \intersect call[y].older # {})

\* LangChain's baseline: whether some call holds the flag up under all of its
\* open streams.
Base == {x \in Deferrers : call[x].kind # "lcStream" /\ \A z \in OpenLc : x \in call[z].older}
BaseKnown == OpenLc # {} => (ses.base <=> Base # {})

Nested == OlderKnown /\ KindKnown /\ DeferKnown /\ PrevKnown /\ BaseKnown

\* Who is in flight, and what holds the flag up is.
LEMMA InFlightCalls ==
  /\ InFlight \subseteq Calls /\ Deferrers \subseteq InFlight /\ OpenLc \subseteq InFlight
  /\ OpenLc \subseteq Deferrers /\ \A z \in OpenLc : call[z].kind = "lcStream"
BY DEF InFlight, Deferrers, Deferring, OpenLc

\* What a step of a call that was made leaves as it was.
Moved(c, pc) ==
  /\ call'[c].pc = pc /\ call'[c].kind = call[c].kind
  /\ call'[c].prev = call[c].prev /\ call'[c].older = call[c].older
  /\ \A d \in Calls \ {c} : call'[d] = call[d]

\* A wrapper that goes on to another point of its code.
LEMMA GoesMoved ==
  ASSUME TypeOK, NEW c \in Calls, NEW pc, NEW ended, Goes(c, pc, ended)
  PROVE  Moved(c, pc) /\ call'[c].ended = ended
<1>1. call[c] \in Locals
  BY DEF TypeOK
<1> DEFINE r == [call[c] EXCEPT !.pc = pc, !.ended = ended]
<1>2. /\ r.pc = pc /\ r.kind = call[c].kind /\ r.prev = call[c].prev
      /\ r.older = call[c].older /\ r.ended = ended
  BY <1>1 DEF Locals
<1>3. call' = [call EXCEPT ![c] = r]
  BY DEF Goes, TypeOK
<1> HIDE DEF r
<1>4. QED
  BY <1>2, <1>3 DEF Moved, TypeOK

\* A call that is made.
LEMMA OpenedMoved ==
  ASSUME TypeOK, Orderly, NEW c \in Calls, NEW pc, NEW kind, Opened(c, pc, kind)
  PROVE  /\ call'[c].pc = pc /\ call'[c].kind = kind /\ ~call'[c].ended
         /\ call'[c].prev = (kind # "lcStream" /\ ses.defer)
         /\ call'[c].older = InFlight
         /\ \A d \in Calls \ {c} : call'[d] = call[d]
BY DEF Opened, TypeOK

\* Who is in flight, holds the flag up or is an open LangChain stream after it.
LEMMA AfterMove ==
  ASSUME NEW c \in Calls, NEW pc, Moved(c, pc)
  PROVE  /\ \A x : x \in InFlight' <=>
              IF x = c THEN pc \in {"awaiting", "returned", "open"} ELSE x \in InFlight
         /\ \A x : x \in Deferrers' <=>
              IF x = c THEN pc \in {"open", "awaiting"} ELSE x \in Deferrers
         /\ \A x : x \in OpenLc' <=>
              IF x = c THEN pc = "open" /\ call[c].kind = "lcStream" ELSE x \in OpenLc
         /\ \A x \in Calls : /\ call'[x].kind = call[x].kind /\ call'[x].prev = call[x].prev
                             /\ call'[x].older = call[x].older
BY DEF Moved, InFlight, Deferrers, Deferring, OpenLc

\* But for LangChain's own, the call whose turn it is is the youngest in flight.
LEMMA Youngest ==
  ASSUME Orderly, OlderKnown, NEW c \in InFlight, MayStep(c), NEW y \in InFlight, y # c,
         call[c].kind # "lcStream" \/ call[y].kind # "lcStream"
  PROVE  c \notin call[y].older /\ y \in call[c].older /\ call[y].pc # "awaiting"
<1>1. c \notin call[y].older
  BY DEF MayStep
<1>2. c \in Calls /\ y \in Calls
  BY InFlightCalls
<1>3. QED
  BY <1>1, <1>2 DEF OlderKnown

\* A step opens nothing within what it leaves.
LEMMA OlderMove ==
  ASSUME OlderKnown, NEW c \in Calls, NEW pc, Moved(c, pc), pc \notin {"new", "awaiting"},
         pc \in {"returned", "open"} => c \in InFlight
  PROVE  OlderKnown'
<1>1. \A x \in InFlight' : x \in InFlight /\ x \in Calls
  BY AfterMove, InFlightCalls
<1>2. \A x \in Calls : call'[x].pc \in {"new", "awaiting"} => call[x].pc \in {"new", "awaiting"}
  BY DEF Moved
<1>3. \A x, y \in Calls :
        x \in call'[y].older => call'[x].pc \notin {"new", "awaiting"} /\ x # y
  BY <1>2, AfterMove DEF OlderKnown
<1>4. \A x, y \in InFlight' : x # y => (x \in call'[y].older <=> y \notin call'[x].older)
  BY <1>1, AfterMove DEF OlderKnown
<1>5. QED
  BY <1>3, <1>4 DEF OlderKnown

\* What each wrapper noted of the flag stays true.
LEMMA PrevMove ==
  ASSUME OlderKnown, PrevKnown, NEW c \in Calls, NEW pc, Moved(c, pc),
         pc \in {"awaiting", "returned", "open"} => c \in InFlight,
         \/ \A y \in InFlight : y # c /\ call[y].kind # "lcStream" => c \notin call[y].older
         \/ c \in Deferrers' <=> c \in Deferrers
  PROVE  PrevKnown'
<1>1. ASSUME NEW y \in InFlight', call'[y].kind # "lcStream"
      PROVE  call'[y].prev <=> Deferrers' \intersect call'[y].older # {}
  <2>1. y \in InFlight /\ y \in Calls
    BY <1>1, AfterMove, InFlightCalls
  <2>2. /\ call'[y].kind = call[y].kind /\ call'[y].prev = call[y].prev
        /\ call'[y].older = call[y].older
    BY <2>1, AfterMove
  <2>3. c \notin call[y].older \/ (c \in Deferrers' <=> c \in Deferrers)
    BY <1>1, <2>1, <2>2 DEF OlderKnown
  <2>4. \A x : x # c => (x \in Deferrers' <=> x \in Deferrers)
    BY AfterMove
  <2>5. Deferrers' \intersect call[y].older = Deferrers \intersect call[y].older
    BY <2>3, <2>4
  <2>6. QED
    BY <1>1, <2>1, <2>2, <2>5 DEF PrevKnown
<1>2. QED
  BY <1>1 DEF PrevKnown

\* LangChain's baseline stays true in a step of another wrapper.
LEMMA BaseMove ==
  ASSUME BaseKnown, NEW c \in Calls, NEW pc, Moved(c, pc), ses'.base = ses.base,
         call[c].kind # "lcStream" \/ (pc # "open" /\ c \notin OpenLc),
         \/ \A z \in OpenLc : c \notin call[z].older
         \/ c \in Deferrers' <=> c \in Deferrers
  PROVE  BaseKnown'
<1>1. OpenLc' = OpenLc
  BY AfterMove, InFlightCalls
<1>2. \A x : x # c => (x \in Deferrers' <=> x \in Deferrers)
  BY AfterMove
<1>3. Deferrers' \subseteq Calls /\ Deferrers \subseteq Calls /\ OpenLc \subseteq Calls
  BY DEF Deferrers, OpenLc
<1>4. ASSUME OpenLc # {} PROVE Base' = Base
  <2>1. \A x : x \in Base' <=> /\ x \in Deferrers' /\ call[x].kind # "lcStream"
                               /\ \A z \in OpenLc : x \in call[z].older
    BY <1>1, <1>3, AfterMove DEF Base
  <2>2. \A x : x # c => (x \in Base' <=> x \in Base)
    BY <1>2, <2>1 DEF Base
  <2>3. c \in Base' <=> c \in Base
    BY <1>4, <2>1 DEF Base
  <2>4. QED
    BY <2>2, <2>3
<1>5. QED
  BY <1>1, <1>4 DEF BaseKnown

\* Nothing is awaited that LangChain would pull.
LEMMA KindMove ==
  ASSUME KindKnown, NEW c \in Calls, NEW pc, Moved(c, pc), pc # "awaiting"
  PROVE  KindKnown'
BY AfterMove DEF KindKnown, Moved

-------------------------------------------------------------------------------
(* What each step does to the flag. *)

\* A wrapper that lets go of the flag puts it back as it found it.
LetsGo(c, pc) ==
  /\ c \in InFlight /\ c \in Deferrers /\ MayStep(c) /\ call[c].kind # "lcStream"
  /\ pc \in {"done", "closed", "failed", "returned"} /\ Moved(c, pc)
  /\ ses'.defer = call[c].prev /\ ses'.base = ses.base

\* A call returns.
LEMMA ReturnCallLetsGo ==
  ASSUME TypeOK, NEW c \in Calls, NEW spanned \in BOOLEAN, ReturnCall(c, spanned)
  PROVE  LetsGo(c, "done")
<1> DEFINE ended    == SpanMaybe(ses, c, spanned, TRUE)
           settled  == IF call[c].kind = "plain" THEN Settled(ended, c, TRUE) ELSE ended
           restored == [settled EXCEPT !.defer = call[c].prev]
           replied  == Replied(restored, c)
<1>1. /\ ses' = FlushUnlessDeferred(replied, c) /\ Goes(c, "done", spanned) /\ MayStep(c)
      /\ call[c].pc = "awaiting" /\ call[c].kind \in {"plain", "lcCall"}
  BY DEF ReturnCall
<1>2. ended \in Session /\ ended.base = ses.base /\ call[c].prev \in BOOLEAN
  BY SpannedTyped
<1> HIDE DEF ended
<1>2a. settled \in Session /\ settled.base = ses.base
  BY <1>2, NotesTyped DEF SameFlag
<1> HIDE DEF settled
<1>3. restored \in Session /\ restored.defer = call[c].prev /\ restored.base = ses.base
  BY <1>2, <1>2a, RestoreTyped
<1> HIDE DEF restored
<1>4. replied \in Session /\ SameFlag(restored, replied)
  BY <1>3, NotesTyped
<1> HIDE DEF replied
<1>5. SameFlag(replied, ses')
  BY <1>1, <1>4, FlushUnlessDeferredTyped
<1>6. QED
  BY <1>1, <1>3, <1>4, <1>5, GoesMoved DEF SameFlag, LetsGo, InFlight, Deferrers, Deferring

\* A Mode-A call raises, at the call or at a pull.
LEMMA ModeAFailLetsGo ==
  ASSUME TypeOK, NEW c \in Calls, NEW spanned \in BOOLEAN,
         FailCall(c, spanned) \/ FailStream(c, spanned)
  PROVE  LetsGo(c, "failed")
<1> DEFINE ended    == SpanMaybe(ses, c, spanned, FALSE)
           settled  == Settled(ended, c, FALSE)
           restored == [settled EXCEPT !.defer = call[c].prev]
<1>1. /\ ses' = FailureRow(restored, c) /\ Goes(c, "failed", spanned) /\ MayStep(c)
      /\ call[c].pc \in {"awaiting", "open"} /\ call[c].kind \in ModeA
  BY DEF FailCall, FailStream, ModeA
<1>2. ended \in Session /\ ended.base = ses.base /\ call[c].prev \in BOOLEAN
  BY SpannedTyped
<1> HIDE DEF ended
<1>2a. settled \in Session /\ settled.base = ses.base
  BY <1>2, NotesTyped DEF SameFlag
<1> HIDE DEF settled
<1>3. restored \in Session /\ restored.defer = call[c].prev /\ restored.base = ses.base
  BY <1>2, <1>2a, RestoreTyped
<1> HIDE DEF restored
<1>4. SameFlag(restored, ses')
  BY <1>1, <1>3, FailureRowTyped
<1>5. QED
  BY <1>1, <1>3, <1>4, GoesMoved DEF SameFlag, LetsGo, InFlight, Deferrers, Deferring, ModeA

\* LangChain's invoke raises.
LEMMA FailLcCallLetsGo ==
  ASSUME TypeOK, NEW c \in Calls, NEW spanned \in BOOLEAN, FailLcCall(c, spanned)
  PROVE  LetsGo(c, "failed")
<1> DEFINE ended    == SpanMaybe(ses, c, spanned, FALSE)
           restored == [ended EXCEPT !.defer = call[c].prev]
           failed   == Settled(restored, c, FALSE)
           noted    == [failed EXCEPT !.attempted = c]
           emitted  == IF failed.buffer # <<>> THEN Flush(failed, c)
                       ELSE FailureRow(noted, c)
<1>1. /\ ses' = IF call[c].prev THEN restored ELSE [emitted EXCEPT !.outcome = None]
      /\ Goes(c, "failed", spanned) /\ MayStep(c)
      /\ call[c].pc = "awaiting" /\ call[c].kind = "lcCall"
  BY DEF FailLcCall
<1>2. ended \in Session /\ ended.base = ses.base /\ call[c].prev \in BOOLEAN
  BY SpannedTyped
<1> HIDE DEF ended
<1>3. restored \in Session /\ restored.defer = call[c].prev /\ restored.base = ses.base
  BY <1>2, RestoreTyped
<1> HIDE DEF restored
<1>4. failed \in Session /\ SameFlag(restored, failed)
  BY <1>3, NotesTyped
<1> HIDE DEF failed
<1>5. noted \in Session /\ SameFlag(failed, noted)
  BY <1>4 DEF Session, SameFlag
<1> HIDE DEF noted
<1>6. emitted \in Session /\ SameFlag(restored, emitted)
  BY <1>4, <1>5, FlushTyped, FailureRowTyped DEF SameFlag
<1> HIDE DEF emitted
<1>7. SameFlag(emitted, [emitted EXCEPT !.outcome = None])
  BY <1>6 DEF Session, SameFlag
<1>8. SameFlag(restored, ses')
  BY <1>1, <1>6, <1>7 DEF SameFlag
<1>9. QED
  BY <1>1, <1>3, <1>8, GoesMoved DEF SameFlag, LetsGo, InFlight, Deferrers, Deferring

\* A Mode-A stream ends, or is handed back.
LEMMA StreamLetsGo ==
  ASSUME TypeOK, NEW c \in Calls, NEW pc,
         \/ \E spanned \in BOOLEAN : pc \in {"done", "closed"} /\ EndStream(c, pc, spanned)
         \/ pc = "returned" /\ ReturnStream(c)
  PROVE  LetsGo(c, pc)
<1>1. CASE pc = "returned" /\ ReturnStream(c)
  <2>1. ses \in Session /\ call[c].prev \in BOOLEAN
    BY DEF TypeOK, Locals
  <2> DEFINE settled == Settled(ses, c, TRUE)
  <2>2. ses'.defer = call[c].prev /\ ses'.base = ses.base
    <3>1. ses' = [settled EXCEPT !.defer = call[c].prev]
      BY <1>1 DEF ReturnStream
    <3>2. settled \in Session /\ settled.base = ses.base
      BY <2>1, NotesTyped DEF SameFlag
    <3> HIDE DEF settled
    <3>3. QED
      BY <2>1, <3>1, <3>2, RestoreTyped
  <2>3. QED
    BY <1>1, <2>2, GoesMoved DEF ReturnStream, LetsGo, InFlight, Deferrers, Deferring
<1>2. ASSUME NEW spanned \in BOOLEAN, pc \in {"done", "closed"}, EndStream(c, pc, spanned)
      PROVE  LetsGo(c, pc)
  <2> DEFINE ended    == SpanMaybe(ses, c, spanned, TRUE)
             restored == [ended EXCEPT !.defer = call[c].prev]
             replied  == Replied(restored, c)
  <2>1. /\ ses' = Flush(replied, c) /\ Goes(c, pc, spanned) /\ MayStep(c)
        /\ call[c].pc = "open" /\ call[c].kind = "stream"
    BY <1>2 DEF EndStream
  <2>2. ended \in Session /\ ended.base = ses.base /\ call[c].prev \in BOOLEAN
    BY SpannedTyped
  <2> HIDE DEF ended
  <2>3. restored \in Session /\ restored.defer = call[c].prev /\ restored.base = ses.base
    BY <2>2, RestoreTyped
  <2> HIDE DEF restored
  <2>4. replied \in Session /\ SameFlag(restored, replied)
    BY <2>3, NotesTyped
  <2> HIDE DEF replied
  <2>5. SameFlag(replied, ses')
    BY <2>1, <2>4, FlushTyped
  <2>6. QED
    BY <1>2, <2>1, <2>3, <2>4, <2>5, GoesMoved
       DEF SameFlag, LetsGo, InFlight, Deferrers, Deferring
<1>3. QED
  BY <1>1, <1>2

-------------------------------------------------------------------------------
(* Each step keeps the nesting. *)

\* A wrapper lets go of the flag: what was older still holds it up, or nothing.
LEMMA LetsGoNested ==
  ASSUME Orderly, Nested, NEW c \in Calls, NEW pc, LetsGo(c, pc) PROVE Nested'
<1> USE DEF Nested
<1>1. Moved(c, pc) /\ c \in InFlight /\ MayStep(c) /\ call[c].kind # "lcStream"
  BY DEF LetsGo
<1>2. \A y \in InFlight : y # c => c \notin call[y].older /\ y \in call[c].older
  BY <1>1, Youngest
<1>3. OlderKnown' /\ KindKnown'
  BY <1>1, OlderMove, KindMove DEF LetsGo
<1>4. PrevKnown'
  BY <1>1, <1>2, PrevMove
<1>5. BaseKnown'
  <2>1. \A z \in OpenLc : c \notin call[z].older
    BY <1>1, <1>2, InFlightCalls
  <2>2. QED
    BY <1>1, <2>1, BaseMove DEF LetsGo
<1>6. DeferKnown'
  <2>1. c \notin call[c].older
    BY DEF OlderKnown
  <2>2. Deferrers' = Deferrers \intersect call[c].older
    BY <1>1, <1>2, <2>1, AfterMove, InFlightCalls DEF LetsGo
  <2>3. QED
    BY <1>1, <2>2 DEF LetsGo, PrevKnown, DeferKnown
<1>7. QED
  BY <1>3, <1>4, <1>5, <1>6

\* The first pull of a Mode-A stream holds the flag up.
LEMMA PullNested ==
  ASSUME TypeOK, Orderly, Nested, NEW c \in Calls, PullStream(c) PROVE Nested'
<1> USE DEF Nested
<1>1. Moved(c, "open") /\ c \in InFlight /\ MayStep(c) /\ call[c].kind # "lcStream"
  BY GoesMoved DEF PullStream, InFlight
<1>2. \A y \in InFlight : y # c => c \notin call[y].older
  BY <1>1, Youngest
<1>3. ses'.defer = TRUE /\ ses'.base = ses.base
  BY DEF PullStream, TypeOK, Session
<1>4. OlderKnown' /\ KindKnown'
  BY <1>1, OlderMove, KindMove
<1>5. PrevKnown'
  BY <1>1, <1>2, PrevMove
<1>6. BaseKnown'
  BY <1>1, <1>2, <1>3, BaseMove, InFlightCalls
<1>7. DeferKnown'
  BY <1>1, <1>3, AfterMove DEF DeferKnown
<1>8. QED
  BY <1>4, <1>5, <1>6, <1>7

\* A stream that is never pulled, and a span that ends late, leave the flag alone.
LEMMA LeftoverNested ==
  ASSUME IInv, Nested, NEW c \in Calls, DropStream(c) \/ LateSpan(c) PROVE Nested'
<1> USE DEF Nested
<1>1. ses'.defer = ses.defer /\ ses'.base = ses.base
  BY LeftoverTyped DEF SameFlag
<1>2. PICK pc \in {"done", "closed"} : Moved(c, pc)
  BY GoesMoved DEF DropStream, LateSpan, IInv
<1>3. c \notin Deferrers /\ c \notin OpenLc
  BY DEF DropStream, LateSpan, Deferrers, Deferring, OpenLc
<1>4. Deferrers' = Deferrers
  BY <1>2, <1>3, AfterMove
<1>5. OlderKnown' /\ KindKnown'
  BY <1>2, OlderMove, KindMove
<1>6. PrevKnown'
  BY <1>2, <1>4, PrevMove
<1>7. BaseKnown'
  BY <1>1, <1>2, <1>3, <1>4, BaseMove
<1>8. QED
  BY <1>1, <1>4, <1>5, <1>6, <1>7 DEF DeferKnown

\* LangChain's stream is pulled: what holds the flag up under it is its baseline, or
\* that of the LangChain streams pulled already.
LEMMA PullLcNested ==
  ASSUME IInv, Orderly, Nested, NEW c \in Calls, PullLcStream(c) PROVE Nested'
<1> USE DEF Nested
<1>1. /\ Moved(c, "open") /\ c \in InFlight /\ MayStep(c) /\ call[c].kind = "lcStream"
      /\ c \notin Deferrers /\ c \notin OpenLc
  BY GoesMoved DEF PullLcStream, InFlight, Deferrers, Deferring, OpenLc, IInv
<1>2. \A y \in InFlight : y # c /\ call[y].kind # "lcStream" =>
        c \notin call[y].older /\ y \in call[c].older
  BY <1>1, Youngest
<1>3. ses'.defer = TRUE /\ ses'.base = IF ses.depth = 0 THEN ses.defer ELSE ses.base
  BY PullLcTyped
<1>4. OlderKnown' /\ KindKnown'
  BY <1>1, OlderMove, KindMove
<1>5. PrevKnown'
  BY <1>1, <1>2, PrevMove
<1>6. DeferKnown'
  BY <1>1, <1>3, AfterMove DEF DeferKnown
<1>7. BaseKnown'
  <2>1. OpenLc' = OpenLc \union {c} /\ Deferrers' = Deferrers \union {c}
    BY <1>1, AfterMove
  <2>2. \A x \in Calls : call'[x].kind = call[x].kind /\ call'[x].older = call[x].older
    BY <1>1, AfterMove
  <2>3. \A x : x \in Base' <=> /\ x \in Deferrers /\ call[x].kind # "lcStream"
                               /\ \A z \in OpenLc : x \in call[z].older
    <3>1. \A x \in Deferrers : call[x].kind # "lcStream" => x \in call[c].older
      BY <1>1, <1>2, InFlightCalls
    <3>2. Deferrers \subseteq Calls /\ OpenLc \subseteq Calls
      BY InFlightCalls
    <3>3. QED
      BY <1>1, <2>1, <2>2, <3>1, <3>2 DEF Base
  <2>4. Base' = Base
    BY <2>3 DEF Base
  <2>5. ses.depth = 0 <=> OpenLc = {}
    BY OpenLcFinite, FS_EmptySet DEF IInv, DepthCounts
  <2>6. CASE OpenLc = {}
    <3>1. Base = Deferrers
      <4>1. ASSUME NEW x \in Deferrers PROVE call[x].kind # "lcStream"
        BY <2>6 DEF Deferrers, Deferring, OpenLc, KindKnown
      <4>2. QED
        BY <2>6, <4>1 DEF Base
    <3>2. QED
      BY <1>3, <2>4, <2>5, <2>6, <3>1 DEF DeferKnown, BaseKnown
  <2>7. CASE OpenLc # {}
    BY <1>3, <2>4, <2>5, <2>7 DEF BaseKnown
  <2>8. QED
    BY <2>6, <2>7
<1>8. QED
  BY <1>4, <1>5, <1>6, <1>7

\* LangChain's stream ends: the last puts the flag back as the baseline says.
LEMMA EndLcNested ==
  ASSUME IInv, Orderly, Nested, NEW c \in Calls, NEW spanned \in BOOLEAN,
         \/ \E how \in {"done", "closed"} : EndLcStream(c, how, spanned)
         \/ FailLcStream(c, spanned)
  PROVE  Nested'
<1> USE DEF Nested
<1>1. PICK pc \in {"done", "closed", "failed"} : Moved(c, pc)
  BY GoesMoved DEF EndLcStream, FailLcStream, IInv
<1>2. c \in OpenLc /\ c \in InFlight /\ MayStep(c) /\ call[c].kind = "lcStream"
  BY DEF EndLcStream, FailLcStream, OpenLc, InFlight
<1>3. \A y \in InFlight : y # c /\ call[y].kind # "lcStream" =>
        c \notin call[y].older /\ y \in call[c].older
  BY <1>2, Youngest
<1>4. /\ ses'.defer = IF ses'.depth > 0 THEN ses.defer ELSE ses.base
      /\ ses'.base = ses.base
  BY EndLcTyped
<1>5. OpenLc' = OpenLc \ {c} /\ Deferrers' = Deferrers \ {c}
  BY <1>1, AfterMove
<1>6. \A x \in Calls : call'[x].kind = call[x].kind /\ call'[x].older = call[x].older
  BY <1>1, AfterMove
<1>7. OlderKnown' /\ KindKnown'
  BY <1>1, OlderMove, KindMove
<1>8. PrevKnown'
  BY <1>1, <1>3, PrevMove
<1>9. ses'.depth > 0 <=> OpenLc' # {}
  <2>1. IInv'
    BY EndLcTyped
  <2>2. ses'.depth = Cardinality(OpenLc') /\ IsFiniteSet(OpenLc')
    <3>1. IsFiniteSet(OpenLc')
      BY <1>5, OpenLcFinite, FS_Subset
    <3>2. QED
      BY <2>1, <3>1 DEF IInv, DepthCounts
  <2>3. Cardinality(OpenLc') \in Nat /\ (Cardinality(OpenLc') = 0 <=> OpenLc' = {})
    BY <2>2, FS_EmptySet, FS_CardinalityType
  <2>4. QED
    BY <2>2, <2>3
<1>10. \A x \in Deferrers : call[x].kind # "lcStream" => x \in call[c].older
  BY <1>2, <1>3, InFlightCalls
<1>11. Base = {x \in Deferrers : call[x].kind # "lcStream" /\ \A z \in OpenLc \ {c} : x \in call[z].older}
  BY <1>10 DEF Base
<1>12. Base' = Base
  <2>1. Deferrers \subseteq Calls /\ OpenLc \subseteq Calls
    BY InFlightCalls
  <2>2. Base' = {x \in Deferrers \ {c} : call[x].kind # "lcStream" /\ \A z \in OpenLc \ {c} : x \in call[z].older}
    BY <1>5, <1>6, <2>1 DEF Base
  <2>3. QED
    BY <1>2, <1>11, <2>2
<1>13. BaseKnown'
  BY <1>2, <1>4, <1>12 DEF BaseKnown
<1>14. DeferKnown'
  <2>1. CASE OpenLc' # {}
    BY <1>2, <1>4, <1>9, <2>1, AfterMove, <1>1, <1>5, InFlightCalls DEF DeferKnown
  <2>2. CASE OpenLc' = {}
    <3>1. \A x \in Deferrers : x # c => call[x].kind # "lcStream"
      BY <1>5, <2>2 DEF Deferrers, Deferring, OpenLc, KindKnown
    <3>2. Base = Deferrers \ {c}
      BY <1>2, <1>5, <1>11, <2>2, <3>1
    <3>3. QED
      BY <1>2, <1>4, <1>5, <1>9, <2>2, <3>2 DEF BaseKnown, DeferKnown
  <2>3. QED
    BY <2>1, <2>2
<1>15. QED
  BY <1>7, <1>8, <1>13, <1>14

\* A call is made: what is in flight is older than it.
LEMMA EnterNested ==
  ASSUME IInv, Orderly, Nested, NEW c \in Calls, Enter(c) PROVE Nested'
<1> USE DEF Nested
<1>1. PICK pc \in {"awaiting", "returned"}, kind \in AllKinds :
        /\ Opened(c, pc, kind) /\ NoneAwaited /\ call[c].pc = "new"
        /\ (pc = "awaiting" <=> kind # "lcStream")
        /\ ses'.base = ses.base
        /\ ses'.defer = (ses.defer \/ kind # "lcStream")
  <2>1. ses \in Session
    BY DEF IInv, TypeOK
  <2>2. CASE EnterLcStream(c)
    <3>1. "lcStream" \in AllKinds
      BY DEF AllKinds
    <3>2. ses'.base = ses.base /\ ses'.defer = (ses.defer \/ FALSE)
      BY <2>1, <2>2 DEF EnterLcStream, Session
    <3>3. QED
      BY <2>2, <3>1, <3>2 DEF EnterLcStream
  <2>3. ASSUME NEW k \in Kinds, NEW rerouted \in BOOLEAN, EnterCall(c, k, rerouted)
        PROVE  /\ Opened(c, "awaiting", k) /\ NoneAwaited /\ call[c].pc = "new"
               /\ k # "lcStream" /\ ses'.base = ses.base /\ ses'.defer = TRUE
    BY <2>1, <2>3 DEF EnterCall, Session
  <2>4. QED
    BY <2>2, <2>3, KindsAssumption DEF Enter
<1>2. /\ call'[c].pc = pc /\ call'[c].kind = kind /\ call'[c].older = InFlight
      /\ call'[c].prev = (kind # "lcStream" /\ ses.defer)
      /\ \A d \in Calls \ {c} : call'[d] = call[d]
  BY <1>1, OpenedMoved DEF IInv
<1>3. c \notin InFlight /\ c \notin Deferrers /\ c \notin OpenLc
      /\ \A y \in Calls : c \notin call[y].older
  BY <1>1 DEF InFlight, Deferrers, Deferring, OpenLc, OlderKnown
<1>4. /\ InFlight' = InFlight \union {c} /\ OpenLc' = OpenLc
      /\ Deferrers' = IF pc = "awaiting" THEN Deferrers \union {c} ELSE Deferrers
  BY <1>2, <1>3 DEF InFlight, Deferrers, Deferring, OpenLc
<1>5. \A x \in InFlight : x \in Calls /\ call[x].pc \notin {"new", "awaiting"}
  BY <1>1 DEF InFlight, NoneAwaited
<1>6. OlderKnown'
  <2>1. \A x, y \in Calls :
          x \in call'[y].older => call'[x].pc \notin {"new", "awaiting"} /\ x # y
    BY <1>2, <1>3, <1>5 DEF OlderKnown
  <2>2. ASSUME NEW x \in InFlight', NEW y \in InFlight', x # y
        PROVE  x \in call'[y].older <=> y \notin call'[x].older
    <3>1. CASE x = c
      BY <1>2, <1>3, <1>4, <1>5, <2>2, <3>1
    <3>2. CASE y = c
      BY <1>2, <1>3, <1>4, <1>5, <2>2, <3>2
    <3>3. CASE x # c /\ y # c
      BY <1>2, <1>4, <1>5, <2>2, <3>3 DEF OlderKnown
    <3>4. QED
      BY <3>1, <3>2, <3>3
  <2>3. QED
    BY <2>1, <2>2 DEF OlderKnown
<1>7. KindKnown'
  BY <1>1, <1>2 DEF KindKnown
<1>8. DeferKnown'
  BY <1>1, <1>4 DEF DeferKnown
<1>9. PrevKnown'
  <2>1. ASSUME NEW y \in InFlight', call'[y].kind # "lcStream"
        PROVE  call'[y].prev <=> Deferrers' \intersect call'[y].older # {}
    <3>1. CASE y = c
      <4>1. Deferrers' \intersect InFlight = Deferrers
        BY <1>3, <1>4, InFlightCalls
      <4>2. QED
        BY <1>2, <2>1, <3>1, <4>1 DEF DeferKnown
    <3>2. CASE y # c
      <4>1. y \in InFlight /\ call'[y] = call[y] /\ y \in Calls
        BY <1>2, <1>4, <1>5, <3>2
      <4>2. Deferrers' \intersect call[y].older = Deferrers \intersect call[y].older
        BY <1>3, <1>4, <4>1
      <4>3. QED
        BY <2>1, <4>1, <4>2 DEF PrevKnown
    <3>3. QED
      BY <3>1, <3>2
  <2>2. QED
    BY <2>1 DEF PrevKnown
<1>10. BaseKnown'
  <2>1. ASSUME OpenLc # {} PROVE Base' = Base
    <3>1. \A z \in OpenLc : c \notin call[z].older /\ call'[z] = call[z]
      BY <1>2, <1>3, InFlightCalls
    <3>2. c \notin Base' /\ c \notin Base
      BY <1>3, <1>4, <2>1, <3>1 DEF Base
    <3>3. \A x : x # c => (x \in Deferrers' <=> x \in Deferrers)
      BY <1>4
    <3>4. \A x \in Deferrers : call'[x] = call[x]
      BY <1>2, <1>3, InFlightCalls
    <3>5. \A x : x # c => (x \in Base' <=> x \in Base)
      BY <1>4, <3>1, <3>3, <3>4 DEF Base
    <3>6. QED
      BY <3>2, <3>5
  <2>2. QED
    BY <1>1, <1>4, <2>1 DEF BaseKnown
<1>11. QED
  BY <1>6, <1>7, <1>8, <1>9, <1>10

\* Nothing is nested yet.
LEMMA InitNested == ASSUME Init PROVE Nested
<1>1. \A c \in Calls : call[c] = Idle
  BY DEF Init
<1>2. InFlight = {} /\ Deferrers = {} /\ OpenLc = {}
  BY <1>1 DEF Idle, InFlight, Deferrers, Deferring, OpenLc
<1>3. ~ses.defer
  BY DEF Init
<1>4. OlderKnown /\ KindKnown
  BY <1>1, <1>2 DEF Idle, OlderKnown, KindKnown
<1>5. QED
  BY <1>2, <1>3, <1>4 DEF Nested, DeferKnown, PrevKnown, BaseKnown

\* Every step of an orderly application keeps the nesting.
LEMMA StepNested == ASSUME Orderly, IInv, Nested, [Next]_vars PROVE Nested'
<1>1. CASE UNCHANGED vars
  BY <1>1 DEF vars, Nested, OlderKnown, KindKnown, DeferKnown, PrevKnown, BaseKnown, Base,
     InFlight, Deferrers, Deferring, OpenLc
<1>2. TypeOK
  BY DEF IInv
<1>3. ASSUME NEW c \in Calls, NEW pc, LetsGo(c, pc) PROVE Nested'
  BY <1>3, LetsGoNested
<1>4. ASSUME NEW c \in Calls, NEW spanned \in BOOLEAN, Step(c, spanned) PROVE Nested'
  <2>1. CASE ReturnCall(c, spanned)
    BY <1>2, <1>3, <2>1, ReturnCallLetsGo
  <2>2. CASE FailCall(c, spanned) \/ FailStream(c, spanned)
    BY <1>2, <1>3, <2>2, ModeAFailLetsGo
  <2>3. CASE FailLcCall(c, spanned)
    BY <1>2, <1>3, <2>3, FailLcCallLetsGo
  <2>4. ASSUME NEW how \in {"done", "closed"}, EndStream(c, how, spanned) PROVE Nested'
    BY <1>2, <1>3, <2>4, StreamLetsGo
  <2>5. CASE \/ \E how \in {"done", "closed"} : EndLcStream(c, how, spanned)
             \/ FailLcStream(c, spanned)
    BY <2>5, EndLcNested
  <2>6. QED
    BY <1>4, <2>1, <2>2, <2>3, <2>4, <2>5 DEF Step
<1>5. ASSUME NEW c \in Calls, ReturnStream(c) PROVE Nested'
  BY <1>2, <1>3, <1>5, StreamLetsGo
<1>6. QED
  BY <1>1, <1>2, <1>4, <1>5, EnterNested, PullNested, PullLcNested, LeftoverNested DEF Next

\* The nesting of what an orderly application does, on top of the books.
NInv == BInv /\ Nested

\* It always holds of an orderly application.
LEMMA AlwaysNested == ASSUME Orderly PROVE Spec => []NInv
<1>1. Init => NInv
  BY InitBooks, InitNested DEF NInv
<1>2. NInv /\ [Next]_vars => NInv'
  BY StepBooks, StepNested DEF NInv, BInv
<1>3. QED
  BY <1>1, <1>2, PTL DEF Spec

\* With calls of every kind, one within the other, LangChain's interleaving, and
\* however they end: an open call finds the flag up, and the flag goes down with
\* the last of them, so that it is never pinned (_wrap_mode_a_*_stream and
\* _guard_*_stream, each with a rule of its own for putting it back).
THEOREM OrderlyReleases ==
  ASSUME Orderly PROVE Spec => [](OpenCallDefers /\ QuietIsReleased)
<1>1. NInv => OpenCallDefers /\ QuietIsReleased
  <2> SUFFICES ASSUME NInv PROVE OpenCallDefers /\ QuietIsReleased
    OBVIOUS
  <2>1. OpenCallDefers
    BY DEF NInv, Nested, DeferKnown, OpenCallDefers, Deferrers
  <2>2. ASSUME Quiet PROVE ~ses.defer /\ ses.depth = 0
    <3>1. Deferrers = {} /\ OpenLc = {}
      BY <2>2, InFlightCalls DEF Quiet
    <3>2. ses.depth = 0
      BY <3>1, FS_EmptySet DEF NInv, BInv, IInv, DepthCounts
    <3>3. QED
      BY <3>1, <3>2 DEF NInv, Nested, DeferKnown
  <2>3. QED
    BY <2>1, <2>2 DEF QuietIsReleased
<1>2. QED
  BY <1>1, AlwaysNested, PTL

-------------------------------------------------------------------------------
(* The queue and the replies. *)

\* While the flag is down nothing is queued, and nothing is while a call is awaited
\* that will put it down without a flush.
QueueKnown ==
  /\ ~ses.defer => ses.buffer = <<>>
  /\ \A c \in Calls : call[c].pc = "awaiting" /\ ~call[c].prev => ses.buffer = <<>>

\* What was captured of a call that is over is kept until its row takes it.
Answered(s, done) ==
  /\ \A i \in DOMAIN s.buffer : s.buffer[i] \in done => s.buffer[i] \in s.replies
  /\ \A i \in DOMAIN s.rows :
       ~s.rows[i].failure /\ s.rows[i].call \in done => s.rows[i].reply
Over == {c \in Calls : call[c].pc = "done"}
AllAnswered == Answered(ses, Over)

\* No span of the call was logged.
Unlogged(s, c) == \A i \in DOMAIN s.rows : s.rows[i].failure \/ s.rows[i].call # c

\* What leaves queue and log alone, and no reply out, keeps that.
LEMMA AnsweredSame ==
  ASSUME NEW s, NEW t, NEW done, NEW c, t.rows = s.rows, t.buffer = s.buffer,
         s.replies \subseteq t.replies
  PROVE  /\ Answered(s, done) => Answered(t, done)
         /\ Unlogged(s, c) => Unlogged(t, c)
BY DEF Answered, Unlogged

\* Fewer calls that are over ask for less.
LEMMA AnsweredFewer ==
  ASSUME NEW s, NEW more, NEW done, done \subseteq more, Answered(s, more)
  PROVE  Answered(s, done)
BY DEF Answered

\* Notes and flags leave queue and log alone.
LEMMA NotesAnswered ==
  ASSUME NEW s \in Session, NEW done, NEW c \in Calls, NEW ok \in BOOLEAN, NEW b \in BOOLEAN
  PROVE  /\ Answered(s, done) => /\ Answered(Settled(s, c, ok), done)
                                 /\ Answered([s EXCEPT !.defer = b], done)
                                 /\ Answered([s EXCEPT !.outcome = None], done)
         /\ Unlogged(s, c) => /\ Unlogged(Settled(s, c, ok), c)
                              /\ Unlogged([s EXCEPT !.defer = b], c)
<1> DEFINE t == Settled(s, c, ok)
           u == [s EXCEPT !.defer = b]
           v == [s EXCEPT !.outcome = None]
<1>1. /\ t.rows = s.rows /\ t.buffer = s.buffer /\ t.replies = s.replies
      /\ u.rows = s.rows /\ u.buffer = s.buffer /\ u.replies = s.replies
      /\ v.rows = s.rows /\ v.buffer = s.buffer /\ v.replies = s.replies
  BY DEF Session, Settled
<1> HIDE DEF t, u, v
<1>2. s.replies \subseteq t.replies /\ s.replies \subseteq u.replies /\ s.replies \subseteq v.replies
  BY <1>1
<1>3. Answered(s, done) => Answered(t, done) /\ Answered(u, done) /\ Answered(v, done)
  BY <1>1, <1>2, AnsweredSame
<1>4. Unlogged(s, c) => Unlogged(t, c) /\ Unlogged(u, c)
  BY <1>1, <1>2, AnsweredSame
<1>5. QED
  BY <1>3, <1>4 DEF t, u, v

\* A call whose reply is captured and that has no row yet may be over.
LEMMA RepliedAnswered ==
  ASSUME NEW s \in Session, NEW done, NEW c \in Calls, Answered(s, done), Unlogged(s, c)
  PROVE  Answered(Replied(s, c), done \union {c})
<1> DEFINE t == Replied(s, c)
<1>1. t.rows = s.rows /\ t.buffer = s.buffer /\ t.replies = s.replies \union {c}
  BY DEF Replied, Session
<1> HIDE DEF t
<1>2. Answered(t, done \union {c})
  BY <1>1 DEF Answered, Unlogged
<1>3. QED
  BY <1>2 DEF t

\* A span that ends while the flag is up is queued.
LEMMA SpanAnswered ==
  ASSUME NEW s \in Session, s.defer, NEW done, NEW c \in Calls, c \notin done,
         NEW spanned \in BOOLEAN, NEW ok \in BOOLEAN, Answered(s, done)
  PROVE  /\ Answered(SpanMaybe(s, c, spanned, ok), done)
         /\ Unlogged(s, c) => Unlogged(SpanMaybe(s, c, spanned, ok), c)
<1> DEFINE t == [s EXCEPT !.buffer = Append(s.buffer, c)]
<1>1. SpanMaybe(s, c, spanned, ok) = IF spanned THEN t ELSE s
  BY DEF SpanMaybe, EndSpan
<1>2. t.rows = s.rows /\ t.replies = s.replies /\ t.buffer = Append(s.buffer, c)
      /\ s.buffer \in Seq(Calls)
  BY DEF Session
<1> HIDE DEF t
<1>3. \A i \in DOMAIN t.buffer : t.buffer[i] = c \/ (i \in DOMAIN s.buffer /\ t.buffer[i] = s.buffer[i])
  BY <1>2, AppendProperties, LenProperties
<1>4. Answered(t, done)
  BY <1>2, <1>3 DEF Answered
<1>5. Unlogged(s, c) => Unlogged(t, c)
  BY <1>2 DEF Unlogged
<1>6. QED
  BY <1>1, <1>4, <1>5

\* One more row, of a call that is not over or of a failure.
LEMMA RowAnswered ==
  ASSUME NEW s \in Session, NEW t \in Session, NEW done, NEW row \in Row,
         row.failure \/ row.call \notin done,
         t.rows = Append(s.rows, row), t.buffer = s.buffer, t.replies = s.replies,
         Answered(s, done)
  PROVE  Answered(t, done)
<1>1. s.rows \in Seq(Row)
  BY DEF Session
<1>2. \A i \in DOMAIN t.rows : t.rows[i] = row \/ (i \in DOMAIN s.rows /\ t.rows[i] = s.rows[i])
  BY <1>1, AppendProperties, LenProperties
<1>3. QED
  BY <1>2 DEF Answered

\* A span that ends after its stream was closed.
LEMMA LateAnswered ==
  ASSUME NEW s \in Session, NEW done, NEW c \in Calls, c \notin done, Answered(s, done)
  PROVE  Answered(EndSpan(s, c, TRUE), done)
<1> DEFINE row == SpanRow(c, Own(c, s.decisions), [of |-> c, ok |-> TRUE], FALSE)
           t   == [s EXCEPT !.rows = Append(s.rows, row), !.decisions = s.decisions \ {c}]
<1>1. CASE s.defer
  <2>1. EndSpan(s, c, TRUE) = SpanMaybe(s, c, TRUE, TRUE)
    BY DEF SpanMaybe
  <2>2. QED
    BY <1>1, <2>1, SpanAnswered
<1>2. CASE ~s.defer
  <2>1. row \in Row /\ row.call = c
    <3>1. [of |-> c, ok |-> TRUE] \in Outcome /\ Own(c, s.decisions) \in Calls \union {None}
      BY DEF Outcome, Own
    <3>2. row \in Row
      BY <3>1, SpanRowTyped
    <3>3. QED
      BY <3>2 DEF SpanRow
  <2>2. EndSpan(s, c, TRUE) = t
    BY <1>2 DEF EndSpan
  <2> HIDE DEF row
  <2>3. t.rows = Append(s.rows, row) /\ t.buffer = s.buffer /\ t.replies = s.replies
    BY DEF Session
  <2>4. t \in Session
    BY <2>2, EndSpanTyped
  <2> HIDE DEF t
  <2>5. QED
    BY <2>1, <2>2, <2>3, <2>4, RowAnswered
<1>3. QED
  BY <1>1, <1>2

\* A failure row answers for no span.
LEMMA FailureAnswered ==
  ASSUME NEW s \in Session, NEW done, NEW c \in Calls, Answered(s, done)
  PROVE  /\ Answered(FailureRow(s, c), done)
         /\ FailureRow(s, c).buffer = s.buffer
<1> DEFINE row == [call |-> c, failure |-> TRUE, model |-> s.attempted,
                   decision |-> Own(c, s.decisions), outcome |-> s.outcome, reply |-> FALSE]
           t   == FailureRow(s, c)
<1>1. row \in Row /\ row.failure
  BY DEF Row, Own, Session
<1>2. t = [s EXCEPT !.rows = Append(s.rows, row), !.outcome = None,
                    !.attempted = None, !.decisions = s.decisions \ {c}]
  BY DEF FailureRow
<1> HIDE DEF row, t
<1>3. t.rows = Append(s.rows, row) /\ t.buffer = s.buffer /\ t.replies = s.replies
  BY <1>2 DEF Session
<1>4. t \in Session
  BY FailureRowTyped DEF t
<1>5. Answered(t, done)
  BY <1>1, <1>3, <1>4, RowAnswered
<1>6. QED
  BY <1>3, <1>5 DEF t

\* A flush gives each queued span the reply that was captured of its call.
LEMMA FlushAnswered ==
  ASSUME NEW s \in Session, NEW done, NEW c \in Calls, Answered(s, done)
  PROVE  Answered(Flush(s, c), done) /\ Flush(s, c).buffer = <<>>
<1> DEFINE t     == Flush(s, c)
           owned == Own(c, s.decisions)
           rows  == [i \in DOMAIN s.buffer |->
             IF i = 1 THEN SpanRow(s.buffer[i], owned, s.outcome, s.buffer[i] \in s.replies)
                      ELSE SpanRow(s.buffer[i], None, None, s.buffer[i] \in s.replies)]
<1>1. CASE s.buffer = <<>>
  BY <1>1 DEF Flush
<1>2. CASE s.buffer # <<>>
  <2>1. t = [s EXCEPT !.rows = s.rows \o rows, !.buffer = <<>>, !.outcome = None,
                      !.decisions = s.decisions \ {c}, !.replies = s.replies \ Range(s.buffer)]
    BY <1>2 DEF Flush
  <2>2. \A i \in DOMAIN s.buffer : rows[i].call = s.buffer[i] /\ rows[i].reply = (s.buffer[i] \in s.replies)
    BY DEF SpanRow
  <2>3. s.rows \in Seq(Row) /\ s.buffer \in Seq(Calls) /\ DOMAIN rows = DOMAIN s.buffer
    BY DEF Session
  <2>4. DOMAIN s.buffer = 1 .. Len(s.buffer) /\ Len(s.buffer) \in Nat
    BY <2>3, LenProperties
  <2> HIDE DEF rows, t, owned
  <2>5. t.rows = s.rows \o rows /\ t.buffer = <<>>
    BY <2>1 DEF Session
  <2>6. ASSUME NEW i \in DOMAIN t.rows
        PROVE  \/ i \in DOMAIN s.rows /\ t.rows[i] = s.rows[i]
               \/ \E k \in DOMAIN s.buffer : t.rows[i] = rows[k]
    <3>1. rows \in Seq({rows[k] : k \in DOMAIN s.buffer} \union Row)
          /\ s.rows \in Seq({rows[k] : k \in DOMAIN s.buffer} \union Row)
      <4>1. rows \in [1 .. Len(s.buffer) -> {rows[k] : k \in DOMAIN s.buffer} \union Row]
        <5>1. rows = [k \in DOMAIN s.buffer |-> rows[k]]
          BY DEF rows
        <5>2. QED
          BY <2>4, <5>1
      <4>2. QED
        BY <2>3, <2>4, <4>1, IsASeq, LenProperties, ElementOfSeq
    <3>2. QED
      BY <2>3, <2>5, <3>1, ConcatIndex
  <2>7. \A i \in DOMAIN t.buffer : FALSE
    BY <2>5
  <2>8. Answered(t, done)
    <3>1. ASSUME NEW i \in DOMAIN t.rows, ~t.rows[i].failure, t.rows[i].call \in done
          PROVE  t.rows[i].reply
      <4>1. CASE i \in DOMAIN s.rows /\ t.rows[i] = s.rows[i]
        BY <3>1, <4>1 DEF Answered
      <4>2. ASSUME NEW k \in DOMAIN s.buffer, t.rows[i] = rows[k] PROVE t.rows[i].reply
        BY <2>2, <3>1, <4>2 DEF Answered
      <4>3. QED
        BY <2>6, <4>1, <4>2
    <3>2. QED
      BY <2>7, <3>1 DEF Answered
  <2>9. QED
    BY <2>5, <2>8 DEF t
<1>3. QED
  BY <1>1, <1>2

\* A gated flush either flushes or leaves the flag up.
LEMMA GatedAnswered ==
  ASSUME NEW s \in Session, NEW done, NEW c \in Calls, Answered(s, done)
  PROVE  LET t == FlushUnlessDeferred(s, c)
         IN  Answered(t, done) /\ (t.defer \/ t.buffer = <<>>)
BY FlushAnswered DEF FlushUnlessDeferred

\* One level of the LangChain guard less.
LEMMA LevelTyped ==
  ASSUME NEW s \in Session, s.depth >= 1 PROVE [s EXCEPT !.depth = s.depth - 1] \in Session
<1>1. Cardinality(Calls) \in Nat
  BY KindsAssumption, FS_CardinalityType
<1>2. QED
  BY <1>1 DEF Session

\* Leaving a level of the LangChain guard captures the reply, unless it failed.
LEMMA UnwindAnswered ==
  ASSUME NEW s \in Session, s.depth >= 1, s.defer, NEW done, NEW c \in Calls,
         NEW failed \in BOOLEAN, Answered(s, done), Unlogged(s, c)
  PROVE  LET t == Unwind(s, c, failed)
         IN  /\ Answered(t, IF failed THEN done ELSE done \union {c})
             /\ t.defer \/ t.buffer = <<>>
<1> DEFINE up      == [s EXCEPT !.depth = s.depth - 1]
           outer   == [up EXCEPT !.defer = up.base]
           noted   == IF failed THEN outer ELSE Replied(outer, c)
           flushed == FlushUnlessDeferred(noted, c)
           cleared == [flushed EXCEPT !.outcome = None]
           inner   == IF failed THEN up ELSE Replied(up, c)
           over    == IF failed THEN done ELSE done \union {c}
<1>1. /\ up \in Session /\ up.base \in BOOLEAN /\ up.defer
      /\ Answered(up, done) /\ Unlogged(up, c)
  <2>1. up \in Session
    BY LevelTyped
  <2>2. up.defer = s.defer /\ up.rows = s.rows /\ up.buffer = s.buffer /\ up.replies = s.replies
    BY DEF Session
  <2> HIDE DEF up
  <2>3. up.base \in BOOLEAN
    BY <2>1 DEF Session
  <2>4. QED
    BY <2>1, <2>2, <2>3, AnsweredSame
<1> HIDE DEF up
<1>2. outer \in Session /\ Answered(outer, done) /\ Unlogged(outer, c)
  BY <1>1, RestoreTyped, NotesAnswered
<1> HIDE DEF outer
<1>3. noted \in Session /\ Answered(noted, over)
  BY <1>2, NotesTyped, RepliedAnswered
<1> HIDE DEF noted
<1>4. flushed \in Session /\ Answered(flushed, over) /\ (flushed.defer \/ flushed.buffer = <<>>)
  BY <1>3, FlushUnlessDeferredTyped, GatedAnswered
<1> HIDE DEF flushed
<1>5. Answered(cleared, over) /\ cleared.defer = flushed.defer /\ cleared.buffer = flushed.buffer
  BY <1>4, NotesAnswered DEF Session
<1> HIDE DEF cleared
<1>6. Answered(inner, over) /\ inner.defer
  BY <1>1, NotesTyped, RepliedAnswered DEF SameFlag
<1>7. Unwind(s, c, failed) =
        IF up.depth > 0 THEN inner
        ELSE IF failed /\ ~flushed.defer THEN cleared ELSE flushed
  BY DEF Unwind, up, outer, noted, flushed, cleared
<1> HIDE DEF inner
<1>8. QED
  BY <1>4, <1>5, <1>6, <1>7

\* What is known of a call whose turn it is.
LEMMA ActsOn ==
  ASSUME NInv, NEW c \in InFlight
  PROVE  /\ c \in Calls /\ c \notin Over /\ Unlogged(ses, c) /\ ses \in Session
         /\ call[c].pc \in {"awaiting", "open"} => ses.defer
         /\ call[c].prev \in BOOLEAN /\ TypeOK
<1>1. c \in Calls /\ c \notin Over /\ c \notin Ended
  BY DEF NInv, BInv, Pending, InFlight, Over, Ended
<1>2. Once(ses, Ended) /\ ses \in Session /\ TypeOK
  BY DEF NInv, BInv, Books, IInv
<1>3. Unlogged(ses, c)
  BY <1>1, <1>2 DEF Once, Unlogged
<1>4. call[c].pc \in {"awaiting", "open"} => ses.defer
  BY <1>1 DEF NInv, Nested, DeferKnown, Deferrers, Deferring
<1>5. call[c].prev \in BOOLEAN
  BY <1>1, <1>2 DEF TypeOK, Locals
<1>6. QED
  BY <1>1, <1>2, <1>3, <1>4, <1>5

\* What was captured is complete after a step of a call that was not over.
LEMMA AnsweredMove ==
  ASSUME NEW c \in Calls, NEW pc, Moved(c, pc), c \notin Over,
         \/ Answered(ses', Over \union {c})
         \/ pc # "done" /\ Answered(ses', Over)
  PROVE  AllAnswered'
<1>1. Over' = IF pc = "done" THEN Over \union {c} ELSE Over
  BY DEF Moved, Over
<1>2. Answered(ses', Over')
  BY <1>1, AnsweredFewer
<1>3. QED
  BY <1>2 DEF AllAnswered

\* A call returns.
LEMMA ReturnCallAnswered ==
  ASSUME NInv, AllAnswered, NEW c \in Calls, NEW spanned \in BOOLEAN, ReturnCall(c, spanned)
  PROVE  AllAnswered' /\ (ses'.defer \/ ses'.buffer = <<>>)
<1> DEFINE ended    == SpanMaybe(ses, c, spanned, TRUE)
           settled  == IF call[c].kind = "plain" THEN Settled(ended, c, TRUE) ELSE ended
           restored == [settled EXCEPT !.defer = call[c].prev]
           replied  == Replied(restored, c)
<1>1. /\ ses' = FlushUnlessDeferred(replied, c) /\ Goes(c, "done", spanned)
      /\ c \in InFlight /\ call[c].pc = "awaiting"
  BY DEF ReturnCall, InFlight
<1>2. /\ c \notin Over /\ Unlogged(ses, c) /\ ses \in Session /\ ses.defer
      /\ call[c].prev \in BOOLEAN /\ TypeOK
  BY <1>1, ActsOn
<1>3. ended \in Session /\ Answered(ended, Over) /\ Unlogged(ended, c)
  BY <1>2, SpanMaybeTyped, SpanAnswered DEF AllAnswered
<1> HIDE DEF ended
<1>4. settled \in Session /\ Answered(settled, Over) /\ Unlogged(settled, c)
  BY <1>3, NotesTyped, NotesAnswered
<1> HIDE DEF settled
<1>5. restored \in Session /\ Answered(restored, Over) /\ Unlogged(restored, c)
  BY <1>2, <1>4, RestoreTyped, NotesAnswered
<1> HIDE DEF restored
<1>6. replied \in Session /\ Answered(replied, Over \union {c})
  BY <1>5, NotesTyped, RepliedAnswered
<1> HIDE DEF replied
<1>7. Answered(ses', Over \union {c}) /\ (ses'.defer \/ ses'.buffer = <<>>)
  BY <1>1, <1>6, GatedAnswered
<1>8. QED
  BY <1>1, <1>2, <1>7, GoesMoved, AnsweredMove

\* A Mode-A call raises: its span, if queued, has no reply.
LEMMA ModeAFailAnswered ==
  ASSUME NInv, AllAnswered, NEW c \in Calls, NEW spanned \in BOOLEAN,
         FailCall(c, spanned) \/ FailStream(c, spanned)
  PROVE  AllAnswered'
<1> DEFINE ended    == SpanMaybe(ses, c, spanned, FALSE)
           settled  == Settled(ended, c, FALSE)
           restored == [settled EXCEPT !.defer = call[c].prev]
<1>1. /\ ses' = FailureRow(restored, c) /\ Goes(c, "failed", spanned)
      /\ c \in InFlight /\ call[c].pc \in {"awaiting", "open"}
  BY DEF FailCall, FailStream, InFlight
<1>2. /\ c \notin Over /\ ses \in Session /\ ses.defer
      /\ call[c].prev \in BOOLEAN /\ TypeOK
  BY <1>1, ActsOn
<1>3. ended \in Session /\ Answered(ended, Over)
  BY <1>2, SpanMaybeTyped, SpanAnswered DEF AllAnswered
<1> HIDE DEF ended
<1>4. settled \in Session /\ Answered(settled, Over)
  BY <1>3, NotesTyped, NotesAnswered
<1> HIDE DEF settled
<1>5. restored \in Session /\ Answered(restored, Over)
  BY <1>2, <1>4, RestoreTyped, NotesAnswered
<1> HIDE DEF restored
<1>6. Answered(ses', Over)
  BY <1>1, <1>5, FailureAnswered
<1>7. QED
  BY <1>1, <1>2, <1>6, GoesMoved, AnsweredMove

\* LangChain's invoke raises: flushed, unless an outer call defers.
LEMMA FailLcCallAnswered ==
  ASSUME NInv, AllAnswered, NEW c \in Calls, NEW spanned \in BOOLEAN, FailLcCall(c, spanned)
  PROVE  AllAnswered' /\ (ses'.defer \/ ses'.buffer = <<>>)
<1> DEFINE ended    == SpanMaybe(ses, c, spanned, FALSE)
           restored == [ended EXCEPT !.defer = call[c].prev]
           failed   == Settled(restored, c, FALSE)
           noted    == [failed EXCEPT !.attempted = c]
           emitted  == IF failed.buffer # <<>> THEN Flush(failed, c) ELSE FailureRow(noted, c)
           cleared  == [emitted EXCEPT !.outcome = None]
<1>1. /\ ses' = IF call[c].prev THEN restored ELSE cleared
      /\ Goes(c, "failed", spanned) /\ c \in InFlight /\ call[c].pc = "awaiting"
  BY DEF FailLcCall, InFlight
<1>2. /\ c \notin Over /\ ses \in Session /\ ses.defer
      /\ call[c].prev \in BOOLEAN /\ TypeOK
  BY <1>1, ActsOn
<1>3. ended \in Session /\ Answered(ended, Over)
  BY <1>2, SpanMaybeTyped, SpanAnswered DEF AllAnswered
<1> HIDE DEF ended
<1>4. restored \in Session /\ Answered(restored, Over) /\ restored.defer = call[c].prev
  BY <1>2, <1>3, RestoreTyped, NotesAnswered
<1> HIDE DEF restored
<1>5. failed \in Session /\ Answered(failed, Over)
  BY <1>4, NotesTyped, NotesAnswered
<1> HIDE DEF failed
<1>6. noted \in Session /\ Answered(noted, Over) /\ noted.buffer = failed.buffer
  <2>1. /\ noted \in Session /\ noted.rows = failed.rows /\ noted.buffer = failed.buffer
        /\ noted.replies = failed.replies
    BY <1>5 DEF Session
  <2> HIDE DEF noted
  <2>2. QED
    BY <1>5, <2>1, AnsweredSame
<1> HIDE DEF noted
<1>7. emitted \in Session /\ Answered(emitted, Over) /\ emitted.buffer = <<>>
  BY <1>5, <1>6, FlushTyped, FailureRowTyped, FlushAnswered, FailureAnswered
<1> HIDE DEF emitted
<1>8. Answered(cleared, Over) /\ cleared.buffer = <<>>
  BY <1>7, NotesAnswered DEF Session
<1> HIDE DEF cleared
<1>9. Answered(ses', Over) /\ (ses'.defer \/ ses'.buffer = <<>>)
  BY <1>1, <1>4, <1>8
<1>10. QED
  BY <1>1, <1>2, <1>9, GoesMoved, AnsweredMove

\* A Mode-A stream ends: flushed, whatever the flag says.
LEMMA EndStreamAnswered ==
  ASSUME NInv, AllAnswered, NEW c \in Calls, NEW spanned \in BOOLEAN,
         NEW how \in {"done", "closed"}, EndStream(c, how, spanned)
  PROVE  AllAnswered' /\ ses'.buffer = <<>>
<1> DEFINE ended    == SpanMaybe(ses, c, spanned, TRUE)
           restored == [ended EXCEPT !.defer = call[c].prev]
           replied  == Replied(restored, c)
<1>1. /\ ses' = Flush(replied, c) /\ Goes(c, how, spanned)
      /\ c \in InFlight /\ call[c].pc = "open"
  BY DEF EndStream, InFlight
<1>2. /\ c \notin Over /\ Unlogged(ses, c) /\ ses \in Session /\ ses.defer
      /\ call[c].prev \in BOOLEAN /\ TypeOK
  BY <1>1, ActsOn
<1>3. ended \in Session /\ Answered(ended, Over) /\ Unlogged(ended, c)
  BY <1>2, SpanMaybeTyped, SpanAnswered DEF AllAnswered
<1> HIDE DEF ended
<1>4. restored \in Session /\ Answered(restored, Over) /\ Unlogged(restored, c)
  BY <1>2, <1>3, RestoreTyped, NotesAnswered
<1> HIDE DEF restored
<1>5. replied \in Session /\ Answered(replied, Over \union {c})
  BY <1>4, NotesTyped, RepliedAnswered
<1> HIDE DEF replied
<1>6. Answered(ses', Over \union {c}) /\ ses'.buffer = <<>>
  BY <1>1, <1>5, FlushAnswered
<1>7. QED
  BY <1>1, <1>2, <1>6, GoesMoved, AnsweredMove

\* A LangChain stream ends or fails.
LEMMA EndLcAnswered ==
  ASSUME NInv, AllAnswered, NEW c \in Calls, NEW spanned \in BOOLEAN,
         \/ \E how \in {"done", "closed"} : EndLcStream(c, how, spanned)
         \/ FailLcStream(c, spanned)
  PROVE  AllAnswered' /\ (ses'.defer \/ ses'.buffer = <<>>)
<1>1. c \in InFlight /\ call[c].pc = "open"
  BY DEF EndLcStream, FailLcStream, InFlight
<1>2. /\ c \notin Over /\ Unlogged(ses, c) /\ ses \in Session /\ ses.defer /\ TypeOK
      /\ ses.depth >= 1
  BY <1>1, ActsOn, EndLcTyped DEF NInv, BInv
<1>3. ASSUME NEW ok \in BOOLEAN
      PROVE  LET e == SpanMaybe(ses, c, spanned, ok)
             IN  e \in Session /\ e.depth >= 1 /\ e.defer /\ Answered(e, Over) /\ Unlogged(e, c)
  BY <1>2, SpanMaybeTyped, SpanAnswered DEF SameFlag, AllAnswered
<1>4. CASE FailLcStream(c, spanned)
  <2> DEFINE ended   == SpanMaybe(ses, c, spanned, FALSE)
             settled == Settled(ended, c, FALSE)
  <2>1. ses' = Unwind(settled, c, TRUE) /\ Goes(c, "failed", spanned)
    BY <1>4 DEF FailLcStream
  <2>2. /\ ended \in Session /\ ended.depth >= 1 /\ ended.defer
        /\ Answered(ended, Over) /\ Unlogged(ended, c)
    BY <1>3
  <2> HIDE DEF ended
  <2>3. /\ settled \in Session /\ settled.depth >= 1 /\ settled.defer
        /\ Answered(settled, Over) /\ Unlogged(settled, c)
    BY <2>2, NotesTyped, NotesAnswered DEF SameFlag
  <2> HIDE DEF settled
  <2>4. Answered(ses', Over) /\ (ses'.defer \/ ses'.buffer = <<>>)
    BY <2>1, <2>3, UnwindAnswered
  <2>5. QED
    BY <1>2, <2>1, <2>4, GoesMoved, AnsweredMove
<1>5. ASSUME NEW how \in {"done", "closed"}, EndLcStream(c, how, spanned)
      PROVE  AllAnswered' /\ (ses'.defer \/ ses'.buffer = <<>>)
  <2> DEFINE ended == SpanMaybe(ses, c, spanned, TRUE)
  <2>1. ses' = Unwind(ended, c, FALSE) /\ Goes(c, how, spanned)
    BY <1>5 DEF EndLcStream
  <2>2. /\ ended \in Session /\ ended.depth >= 1 /\ ended.defer
        /\ Answered(ended, Over) /\ Unlogged(ended, c)
    BY <1>3
  <2> HIDE DEF ended
  <2>3. Answered(ses', Over \union {c}) /\ (ses'.defer \/ ses'.buffer = <<>>)
    BY <2>1, <2>2, UnwindAnswered
  <2>4. QED
    BY <1>2, <2>1, <2>3, GoesMoved, AnsweredMove
<1>6. QED
  BY <1>4, <1>5

\* Streams that are handed back or pulled log nothing.
LEMMA StreamAnswered ==
  ASSUME NInv, AllAnswered, NEW c \in Calls,
         ReturnStream(c) \/ PullStream(c) \/ PullLcStream(c)
  PROVE  AllAnswered' /\ ses'.buffer = ses.buffer
<1>1. c \in InFlight
  BY DEF ReturnStream, PullStream, PullLcStream, InFlight
<1>2. c \notin Over /\ ses \in Session /\ TypeOK
  BY <1>1, ActsOn
<1>3. PICK pc \in {"returned", "open"} : Goes(c, pc, FALSE)
  BY DEF ReturnStream, PullStream, PullLcStream
<1>4. ses'.rows = ses.rows /\ ses'.buffer = ses.buffer /\ ses'.replies = ses.replies
  <2>1. CASE ReturnStream(c)
    BY <1>2, <2>1 DEF ReturnStream, Settled, Session
  <2>2. CASE PullStream(c)
    BY <1>2, <2>2 DEF PullStream, Session
  <2>3. CASE PullLcStream(c)
    BY <1>2, <2>3 DEF PullLcStream, Session
  <2>4. QED
    BY <2>1, <2>2, <2>3
<1>5. Answered(ses', Over)
  BY <1>4, AnsweredSame DEF AllAnswered
<1>6. QED
  BY <1>2, <1>3, <1>4, <1>5, GoesMoved, AnsweredMove

\* A stream that is never pulled has no row; a closed one's is not over.
LEMMA LeftoverAnswered ==
  ASSUME NInv, AllAnswered, NEW c \in Calls, DropStream(c) \/ LateSpan(c)
  PROVE  AllAnswered'
<1>1. TypeOK /\ ses \in Session
  BY DEF NInv, BInv, IInv, TypeOK
<1>2. CASE DropStream(c)
  <2>1. PICK pc \in {"done", "closed"} : Goes(c, pc, FALSE)
    BY <1>2 DEF DropStream
  <2>2. c \in InFlight /\ c \notin Ended
    BY <1>2 DEF DropStream, InFlight, NInv, BInv, Pending, Ended
  <2>3. c \notin Over /\ Unlogged(ses, c)
    BY <2>2, ActsOn
  <2>4. \A i \in DOMAIN ses.buffer : ses.buffer[i] # c
    BY <2>2 DEF NInv, BInv, Books, Once
  <2>5. Answered(ses', Over \union {c})
    BY <1>2, <2>3, <2>4 DEF DropStream, AllAnswered, Answered, Unlogged
  <2>6. QED
    BY <1>1, <2>1, <2>3, <2>5, GoesMoved, AnsweredMove
<1>3. CASE LateSpan(c)
  <2>1. ses' = EndSpan(ses, c, TRUE) /\ Goes(c, "closed", TRUE) /\ c \notin Over
    BY <1>3 DEF LateSpan, Over
  <2>2. Answered(ses', Over)
    BY <1>1, <2>1, LateAnswered DEF AllAnswered
  <2>3. QED
    BY <1>1, <2>1, <2>2, GoesMoved, AnsweredMove
<1>4. QED
  BY <1>2, <1>3

\* A call is made.
LEMMA EnterAnswered ==
  ASSUME NInv, AllAnswered, NEW c \in Calls, Enter(c)
  PROVE  AllAnswered' /\ ses'.buffer = ses.buffer
<1>1. TypeOK /\ ses \in Session
  BY DEF NInv, BInv, IInv, TypeOK
<1>2. ses'.rows = ses.rows /\ ses'.buffer = ses.buffer /\ ses'.replies = ses.replies
  <2>1. CASE EnterLcStream(c)
    BY <1>1, <2>1 DEF EnterLcStream
  <2>2. ASSUME NEW k \in Kinds, NEW rerouted \in BOOLEAN, EnterCall(c, k, rerouted)
        PROVE  ses'.rows = ses.rows /\ ses'.buffer = ses.buffer /\ ses'.replies = ses.replies
    BY <1>1, <2>2 DEF EnterCall, Session
  <2>3. QED
    BY <2>1, <2>2 DEF Enter
<1>3. Over' = Over
  <2>1. \E pc \in {"awaiting", "returned"} : \E kind : Opened(c, pc, kind) /\ call[c].pc = "new"
    BY DEF Enter, EnterCall, EnterLcStream
  <2>2. /\ call'[c].pc \in {"awaiting", "returned"} /\ call[c].pc = "new"
        /\ \A d \in Calls \ {c} : call'[d] = call[d]
    BY <1>1, <2>1 DEF Opened, TypeOK
  <2>3. QED
    BY <2>2 DEF Over
<1>4. Answered(ses', Over)
  BY <1>2, AnsweredSame DEF AllAnswered
<1>5. QED
  BY <1>2, <1>3, <1>4 DEF AllAnswered

\* Nothing was captured or logged yet.
LEMMA InitAnswered == ASSUME Init PROVE AllAnswered
BY DEF Init, AllAnswered, Answered

\* Every step of an orderly application keeps what was captured for its row.
LEMMA StepAnswered == ASSUME NInv, AllAnswered, [Next]_vars PROVE AllAnswered'
<1>1. CASE UNCHANGED vars
  BY <1>1 DEF vars, AllAnswered, Over
<1>2. ASSUME NEW c \in Calls, NEW spanned \in BOOLEAN, Step(c, spanned) PROVE AllAnswered'
  <2>1. CASE FailCall(c, spanned) \/ FailStream(c, spanned)
    BY <2>1, ModeAFailAnswered
  <2>2. CASE \/ \E how \in {"done", "closed"} : EndLcStream(c, how, spanned)
             \/ FailLcStream(c, spanned)
    BY <2>2, EndLcAnswered
  <2>3. CASE ReturnCall(c, spanned) \/ FailLcCall(c, spanned)
    BY <2>3, ReturnCallAnswered, FailLcCallAnswered
  <2>4. CASE \E how \in {"done", "closed"} : EndStream(c, how, spanned)
    BY <2>4, EndStreamAnswered
  <2>5. QED
    BY <1>2, <2>1, <2>2, <2>3, <2>4 DEF Step
<1>3. QED
  BY <1>1, <1>2, EnterAnswered, StreamAnswered, LeftoverAnswered DEF Next

\* The response of every completed call of an orderly application is on its row: the
\* span is queued until the response is captured, however calls and streams
\* are nested and whichever of them fail.
THEOREM RepliesReachRows == ASSUME Orderly PROVE Spec => []ReplyReachesRow
<1>1. Init => NInv /\ AllAnswered
  BY InitBooks, InitNested, InitAnswered DEF NInv
<1>2. NInv /\ AllAnswered /\ [Next]_vars => NInv' /\ AllAnswered'
  BY StepBooks, StepNested, StepAnswered DEF NInv, BInv
<1>3. NInv /\ AllAnswered => ReplyReachesRow
  <2> SUFFICES ASSUME NInv, AllAnswered PROVE ReplyReachesRow
    OBVIOUS
  <2>1. ses.rows \in Seq(Row)
    BY DEF NInv, BInv, Books, Session
  <2>2. \A i \in DOMAIN ses.rows : ses.rows[i] \in Row
    BY <2>1, LenProperties, ElementOfSeq
  <2>3. \A i \in DOMAIN ses.rows : ses.rows[i].call \in Calls
    BY <2>2 DEF Row
  <2>4. QED
    BY <2>3 DEF AllAnswered, Answered, Over, ReplyReachesRow
<1>4. QED
  BY <1>1, <1>2, <1>3, PTL DEF Spec

-------------------------------------------------------------------------------
(* No payload is left behind, unless a Mode-A call fails.                     *)

\* While a call is its turn, no other is awaited.
LEMMA NobodyAwaited ==
  ASSUME Orderly, Nested, NEW c \in InFlight, MayStep(c), NEW pc, pc # "awaiting",
         Moved(c, pc)
  PROVE  \A y \in Calls : call'[y].pc # "awaiting"
<1>1. ASSUME NEW y \in Calls, y # c PROVE call[y].pc # "awaiting"
  <2> SUFFICES ASSUME call[y].pc = "awaiting" PROVE FALSE
    OBVIOUS
  <2>1. y \in InFlight /\ call[y].kind # "lcStream"
    BY DEF InFlight, Nested, KindKnown
  <2>2. QED
    BY <1>1, <2>1, Youngest DEF Nested
<1>2. QED
  BY <1>1 DEF Moved

\* Steps of a call leave the flag up or the queue empty.
LEMMA QueueStep ==
  ASSUME Orderly, NInv, NEW c \in InFlight, MayStep(c), NEW pc, pc # "awaiting",
         NEW ended, Goes(c, pc, ended), ses'.defer \/ ses'.buffer = <<>>
  PROVE  QueueKnown'
<1>1. c \in Calls /\ TypeOK /\ Nested
  BY ActsOn DEF NInv
<1>2. \A y \in Calls : call'[y].pc # "awaiting"
  BY <1>1, GoesMoved, NobodyAwaited
<1>3. QED
  BY <1>2 DEF QueueKnown

\* Every step of an orderly application whose Mode-A calls do not fail.
LEMMA StepQueue ==
  ASSUME Orderly, Failing \intersect ModeA = {}, NInv, AllAnswered, QueueKnown, [Next]_vars
  PROVE  QueueKnown'
<1>0. TypeOK /\ ses \in Session /\ IInv
  BY DEF NInv, BInv, IInv, TypeOK
<1>1. CASE UNCHANGED vars
  BY <1>1 DEF vars, QueueKnown
<1>2. ASSUME NEW c \in Calls, NEW spanned \in BOOLEAN, Step(c, spanned) PROVE QueueKnown'
  <2>1. ~FailCall(c, spanned) /\ ~FailStream(c, spanned)
    BY DEF FailCall, FailStream, ModeA
  <2>2. \E pc \in {"done", "closed", "failed"} : Goes(c, pc, spanned)
    BY <1>2 DEF Step, ReturnCall, FailCall, FailLcCall, FailStream, FailLcStream,
                EndStream, EndLcStream
  <2>3. c \in InFlight /\ MayStep(c)
    BY <1>2 DEF Step, ReturnCall, FailCall, FailLcCall, FailStream, FailLcStream,
                EndStream, EndLcStream, InFlight
  <2>4. ses'.defer \/ ses'.buffer = <<>>
    BY <1>2, <2>1, ReturnCallAnswered, FailLcCallAnswered, EndStreamAnswered, EndLcAnswered
       DEF Step
  <2>5. QED
    BY <2>2, <2>3, <2>4, QueueStep
<1>3. ASSUME NEW c \in Calls, PullStream(c) \/ PullLcStream(c) PROVE QueueKnown'
  <2>1. ses'.defer = TRUE
    <3>1. CASE PullStream(c)
      BY <1>0, <3>1 DEF PullStream, Session
    <3>2. CASE PullLcStream(c)
      BY <1>0, <3>2, PullLcTyped
    <3>3. QED
      BY <1>3, <3>1, <3>2
  <2>2. Goes(c, "open", FALSE) /\ c \in InFlight /\ MayStep(c)
    BY <1>3 DEF PullStream, PullLcStream, InFlight
  <2>3. QED
    BY <2>1, <2>2, QueueStep
<1>4. ASSUME NEW c \in Calls, ReturnStream(c) PROVE QueueKnown'
  <2>1. ses'.defer = call[c].prev /\ ses'.buffer = ses.buffer
    BY <1>0, <1>4, StreamLetsGo, StreamAnswered DEF LetsGo
  <2>2. ses'.defer \/ ses'.buffer = <<>>
    BY <1>4, <2>1 DEF ReturnStream, QueueKnown
  <2>3. Goes(c, "returned", FALSE) /\ c \in InFlight /\ MayStep(c)
    BY <1>4 DEF ReturnStream, InFlight
  <2>4. QED
    BY <2>2, <2>3, QueueStep
<1>5. ASSUME NEW c \in Calls, DropStream(c) PROVE QueueKnown'
  <2>1. ses' = ses /\ \E pc \in {"done", "closed"} : Goes(c, pc, FALSE)
    BY <1>5 DEF DropStream
  <2>2. \E pc \in {"done", "closed"} : Moved(c, pc)
    BY <1>0, <2>1, GoesMoved
  <2>3. \A y \in Calls : call'[y].pc = "awaiting" => call[y].pc = "awaiting" /\ call'[y] = call[y]
    BY <2>2 DEF Moved
  <2>4. QED
    BY <2>1, <2>3 DEF QueueKnown
<1>6. ASSUME NEW c \in Calls, LateSpan(c) PROVE QueueKnown'
  <2>1. ses' = EndSpan(ses, c, TRUE) /\ Goes(c, "closed", TRUE) /\ NoneAwaited
    BY <1>6 DEF LateSpan
  <2>2. Moved(c, "closed")
    BY <1>0, <2>1, GoesMoved
  <2>3. \A y \in Calls : call'[y].pc # "awaiting"
    BY <2>1, <2>2 DEF Moved, NoneAwaited
  <2>4. ses'.defer \/ ses'.buffer = <<>>
    <3>1. ses'.defer = ses.defer
      BY <1>0, <2>1, EndSpanTyped DEF SameFlag
    <3>2. ~ses.defer => ses'.buffer = ses.buffer
      BY <1>0, <2>1 DEF EndSpan, Session
    <3>3. QED
      BY <3>1, <3>2 DEF QueueKnown
  <2>5. QED
    BY <2>3, <2>4 DEF QueueKnown
<1>7. ASSUME NEW c \in Calls, Enter(c) PROVE QueueKnown'
  <2>1. ses'.buffer = ses.buffer
    BY <1>7, EnterAnswered
  <2>2. NoneAwaited
    BY <1>7 DEF Enter, EnterCall, EnterLcStream
  <2>3. ses'.defer \/ ses'.buffer = <<>>
    <3>1. CASE EnterLcStream(c)
      BY <3>1 DEF EnterLcStream, QueueKnown
    <3>2. ASSUME NEW k \in Kinds, NEW rerouted \in BOOLEAN, EnterCall(c, k, rerouted)
          PROVE  ses'.defer = TRUE
      BY <1>0, <3>2 DEF EnterCall, Session
    <3>3. QED
      BY <1>7, <3>1, <3>2 DEF Enter
  <2>4. \A d \in Calls \ {c} : call'[d] = call[d]
    <3>1. \E pc : \E kind : Opened(c, pc, kind)
      BY <1>7 DEF Enter, EnterCall, EnterLcStream
    <3>2. QED
      BY <1>0, <3>1 DEF Opened, TypeOK
  <2>5. \A d \in Calls : call'[d].pc = "awaiting" => d = c
    BY <2>2, <2>4 DEF NoneAwaited
  <2>6. call'[c].pc = "awaiting" /\ ~call'[c].prev => ses.buffer = <<>>
    <3>1. ASSUME NEW k, k # "lcStream", Opened(c, "awaiting", k), ~call'[c].prev PROVE ~ses.defer
      BY <1>0, <3>1, OpenedMoved
    <3>2. CASE EnterLcStream(c)
      <4>1. call'[c].pc = "returned"
        BY <1>0, <3>2, OpenedMoved DEF EnterLcStream
      <4>2. QED
        BY <4>1
    <3>3. CASE \E k \in Kinds, rerouted \in BOOLEAN : EnterCall(c, k, rerouted)
      BY <3>1, <3>3 DEF EnterCall, QueueKnown
    <3>4. QED
      BY <1>7, <3>2, <3>3 DEF Enter
  <2>7. QED
    BY <2>1, <2>3, <2>5, <2>6 DEF QueueKnown
<1>8. QED
  BY <1>1, <1>2, <1>3, <1>4, <1>5, <1>6, <1>7 DEF Next

\* When no call of an orderly application is in flight every ended span has been
\* logged, whatever LangChain calls failed: none is left for a later call to
\* ship as its own.  A Mode-A call that raises does leave one.
THEOREM OrderlyFlushes ==
  ASSUME Orderly, Failing \intersect ModeA = {} PROVE Spec => []QuietIsFlushed
<1> DEFINE Inv == NInv /\ AllAnswered /\ QueueKnown
<1>1. Init => Inv
  <2>1. Init => QueueKnown
    BY DEF Init, QueueKnown
  <2>2. QED
    BY <2>1, InitBooks, InitNested, InitAnswered DEF NInv
<1>2. Inv /\ [Next]_vars => Inv'
  BY StepBooks, StepNested, StepAnswered, StepQueue DEF NInv, BInv
<1>3. Inv => QuietIsFlushed
  <2> SUFFICES ASSUME Inv, Quiet PROVE ses.buffer = <<>>
    BY DEF QuietIsFlushed
  <2>1. Deferrers = {}
    BY InFlightCalls DEF Quiet
  <2>2. QED
    BY <2>1 DEF NInv, Nested, DeferKnown, QueueKnown
<1>4. QED
  BY <1>1, <1>2, <1>3, PTL DEF Spec
===============================================================================
