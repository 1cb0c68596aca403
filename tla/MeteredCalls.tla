----------------------------- MODULE MeteredCalls -----------------------------
(***************************************************************************)
(* How the calls of one session become /log rows.                          *)
(*                                                                         *)
(* An instrumented call produces a span; telemetry.on_end turns it into a  *)
(* payload, which is queued on the session while session._defer_telemetry  *)
(* is set and logged at once otherwise.  The wrapper that opened the call  *)
(* saves the flag, sets it, and after the call (or after the last chunk of *)
(* a stream) restores it, adds the response composition and flushes the    *)
(* queue.  The flag, the queue, the outcome slot and the attempted-model   *)
(* slot belong to the session, not to the call: calls that overlap on one  *)
(* session share them.  Applied reroute decisions are kept per call, keyed *)
(* by the call's observation key.                                          *)
(*                                                                         *)
(* Calls are tasks of one event loop, or generators of one thread: each    *)
(* action is what runs between two awaits or yields.                       *)
(***************************************************************************)
EXTENDS Naturals, Sequences, FiniteSets, Functions

CONSTANTS
  Calls,    \* calls the application makes on the session, each once
  None,     \* Python's None
  Kinds,    \* the kinds of call it makes
  Failing,  \* the kinds of call that may fail
  Orderly   \* one task whose streams nest (LangChain's interleave anyway)

\* "plain", "stream": the Mode-A wrapper around a provider call or stream;
\* "lcCall", "lcStream": the LangChain wrappers around invoke and stream.
AllKinds == {"plain", "stream", "lcCall", "lcStream"}
ModeA    == {"plain", "stream"}

ASSUME KindsAssumption ==
  /\ IsFiniteSet(Calls)
  /\ None \notin Calls
  /\ Kinds \subseteq AllKinds /\ Failing \subseteq Kinds
  /\ Orderly \in BOOLEAN

VARIABLES
  ses,     \* the TPSession's shared fields, and the rows logged for it
  call     \* the locals of each call's wrapper

vars == <<ses, call>>

Outcome == [of : Calls, ok : BOOLEAN]
Row == [call : Calls, failure : BOOLEAN, model : Calls \union {None},
        decision : Calls \union {None}, outcome : Outcome \union {None},
        reply : BOOLEAN]

\* new -> awaiting -> (returned -> open ->) done; "closed" and "failed" also end.
Pc == {"new", "awaiting", "returned", "open", "done", "closed", "failed"}
\* ended: the span has ended; older: the calls this one was opened within.
Locals == [pc : Pc, kind : AllKinds \union {None}, prev : BOOLEAN,
           ended : BOOLEAN, older : SUBSET Calls]

Session == [
  defer     : BOOLEAN,                   \* _defer_telemetry
  buffer    : Seq(Calls),                \* _deferred_spans: whose payloads
  outcome   : Outcome \union {None},     \* _call_outcome
  attempted : Calls \union {None},       \* _attempted_model: whose model
  depth     : 0 .. Cardinality(Calls),   \* _lc_stream_depth
  base      : BOOLEAN,                   \* _lc_stream_defer_prev
  decisions : SUBSET Calls,              \* _local_decisions: whose is unclaimed
  replies   : SUBSET Calls,              \* _pending_compositions' responses
  rows      : Seq(Row)]                  \* what went to /log

Idle == [pc |-> "new", kind |-> None, prev |-> FALSE, ended |-> FALSE,
         older |-> {}]

Init ==
  /\ ses = [defer |-> FALSE, buffer |-> <<>>, outcome |-> None,
            attempted |-> None, depth |-> 0, base |-> FALSE,
            decisions |-> {}, replies |-> {}, rows |-> <<>>]
  /\ call = [c \in Calls |-> Idle]

Own(c, claims) == IF c \in claims THEN c ELSE None

-------------------------------------------------------------------------------
(* What the wrappers do to the session.                                      *)

SpanRow(c, decision, outcome, reply) ==
  [call |-> c, failure |-> FALSE, model |-> c, decision |-> decision,
   outcome |-> outcome, reply |-> reply]

\* telemetry.on_end: queue the payload, or log it now with the decision of the
\* span's own call and the span's own status; the reply is not captured yet.
EndSpan(s, c, ok) ==
  IF s.defer
  THEN [s EXCEPT !.buffer = Append(@, c)]
  ELSE [s EXCEPT !.rows = Append(@, SpanRow(c, Own(c, s.decisions),
                                            [of |-> c, ok |-> ok], FALSE)),
                 !.decisions = @ \ {c}]

\* Mutant of Flush: the queue is not cleared.
FlushKeepsQueue(s, c) ==
  IF s.buffer = <<>> THEN s
  ELSE [s EXCEPT
    !.rows = @ \o [i \in DOMAIN s.buffer |->
      IF i = 1 THEN SpanRow(s.buffer[i], Own(c, s.decisions), s.outcome,
                            s.buffer[i] \in s.replies)
               ELSE SpanRow(s.buffer[i], None, None, s.buffer[i] \in s.replies)],
    !.outcome = None, !.decisions = @ \ {c}]

\* _flush_deferred_spans(session, obs_key of c): nothing on an empty queue;
\* otherwise c's decision and the outcome slot ride on the first payload.
Flush(s, c) ==
  IF s.buffer = <<>> THEN s
  ELSE [s EXCEPT
    !.rows = @ \o [i \in DOMAIN s.buffer |->
      IF i = 1 THEN SpanRow(s.buffer[i], Own(c, s.decisions), s.outcome,
                            s.buffer[i] \in s.replies)
               ELSE SpanRow(s.buffer[i], None, None, s.buffer[i] \in s.replies)],
    !.buffer = <<>>, !.outcome = None, !.decisions = @ \ {c},
    !.replies = @ \ Range(s.buffer)]

FlushUnlessDeferred(s, c) == IF s.defer THEN s ELSE Flush(s, c)

\* Mutant of FailureRow: the claim takes any call's decision.
FailureRowAnyDecision(s, c) ==
  [s EXCEPT
    !.rows = Append(@, [call |-> c, failure |-> TRUE, model |-> s.attempted,
                        decision |-> IF s.decisions = {} THEN None
                                     ELSE CHOOSE d \in s.decisions : TRUE,
                        outcome |-> s.outcome, reply |-> FALSE]),
    !.outcome = None, !.attempted = None, !.decisions = @ \ {c}]

\* _emit_call_failure_log: a row made from the session's slots.
FailureRow(s, c) ==
  [s EXCEPT
    !.rows = Append(@, [call |-> c, failure |-> TRUE, model |-> s.attempted,
                        decision |-> Own(c, s.decisions),
                        outcome |-> s.outcome, reply |-> FALSE]),
    !.outcome = None, !.attempted = None, !.decisions = @ \ {c}]

SpanMaybe(s, c, spanned, ok) == IF spanned THEN EndSpan(s, c, ok) ELSE s
Replied(s, c) == [s EXCEPT !.replies = @ \union {c}]
Settled(s, c, ok) == [s EXCEPT !.outcome = [of |-> c, ok |-> ok]]

-------------------------------------------------------------------------------
(* When the application may act on a call.                                   *)

InFlight == {c \in Calls : call[c].pc \in {"awaiting", "returned", "open"}}

\* Orderly: one task, which opens and lets go of nothing while it waits for a
\* call, and pulls the youngest stream only, except that LangChain streams with
\* nothing but LangChain streams opened after them are pulled in any order.
NoneAwaited == Orderly => \A c \in Calls : call[c].pc # "awaiting"
MayStep(c) ==
  Orderly => \A y \in InFlight :
    c \in call[y].older => call[c].kind = "lcStream" /\ call[y].kind = "lcStream"

Opened(c, pc, kind) ==
  call' = [call EXCEPT ![c] =
    [pc |-> pc, kind |-> kind, prev |-> kind # "lcStream" /\ ses.defer,
     ended |-> FALSE, older |-> IF Orderly THEN InFlight ELSE {}]]

Goes(c, pc, ended) == call' = [call EXCEPT ![c].pc = pc, ![c].ended = ended]

-------------------------------------------------------------------------------
(* The Mode-A wrapper and the LangChain invoke wrapper.                      *)

\* After the check, which may have stashed an applied reroute under the call's
\* key: the flag is saved and set, the attempted model noted.
EnterCall(c, kind, rerouted) ==
  /\ call[c].pc = "new" /\ kind # "lcStream" /\ NoneAwaited
  /\ rerouted => kind \in ModeA
  /\ ses' = [ses EXCEPT
       !.defer = TRUE,
       !.attempted = IF kind \in ModeA THEN c ELSE @,
       !.decisions = IF rerouted THEN @ \union {c} ELSE @]
  /\ Opened(c, "awaiting", kind)

\* Mutant of ReturnCall: flushed before the response is captured.
ReturnCallCaptureLate(c, spanned) ==
  /\ call[c].pc = "awaiting" /\ call[c].kind \in {"plain", "lcCall"}
  /\ MayStep(c)
  /\ LET ended    == SpanMaybe(ses, c, spanned, TRUE)
         settled  == IF call[c].kind = "plain" THEN Settled(ended, c, TRUE) ELSE ended
         restored == [settled EXCEPT !.defer = call[c].prev]
     IN  ses' = Replied(FlushUnlessDeferred(restored, c), c)
  /\ Goes(c, "done", spanned)

\* The call returns: its span ends just before, the flag is restored, the
\* response captured, and the queue flushed unless an outer call defers.
ReturnCall(c, spanned) ==
  /\ call[c].pc = "awaiting" /\ call[c].kind \in {"plain", "lcCall"}
  /\ MayStep(c)
  /\ LET ended    == SpanMaybe(ses, c, spanned, TRUE)
         settled  == IF call[c].kind = "plain" THEN Settled(ended, c, TRUE) ELSE ended
         restored == [settled EXCEPT !.defer = call[c].prev]
     IN  ses' = FlushUnlessDeferred(Replied(restored, c), c)
  /\ Goes(c, "done", spanned)

\* A Mode-A call raises: the outcome is noted, the flag restored and a failure
\* row logged.  An errored span that was queued stays queued.
FailCall(c, spanned) ==
  /\ call[c].pc = "awaiting" /\ call[c].kind \in ModeA \intersect Failing
  /\ MayStep(c)
  /\ LET ended    == SpanMaybe(ses, c, spanned, FALSE)
         restored == [Settled(ended, c, FALSE) EXCEPT !.defer = call[c].prev]
     IN  ses' = FailureRow(restored, c)
  /\ Goes(c, "failed", spanned)

\* LangChain's invoke raises: at the outermost level the queued error span is
\* flushed, or a failure row is made; in both cases no outcome is left behind.
FailLcCall(c, spanned) ==
  /\ call[c].pc = "awaiting" /\ call[c].kind \in {"lcCall"} \intersect Failing
  /\ MayStep(c)
  /\ LET ended    == SpanMaybe(ses, c, spanned, FALSE)
         restored == [ended EXCEPT !.defer = call[c].prev]
         failed   == Settled(restored, c, FALSE)
         emitted  == IF failed.buffer # <<>> THEN Flush(failed, c)
                     ELSE FailureRow([failed EXCEPT !.attempted = c], c)
     IN  ses' = IF call[c].prev THEN restored ELSE [emitted EXCEPT !.outcome = None]
  /\ Goes(c, "failed", spanned)

\* The provider hands back a stream: the flag is restored until the first pull.
ReturnStream(c) ==
  /\ call[c].pc = "awaiting" /\ call[c].kind = "stream" /\ MayStep(c)
  /\ ses' = [Settled(ses, c, TRUE) EXCEPT !.defer = call[c].prev]
  /\ Goes(c, "returned", FALSE)

-------------------------------------------------------------------------------
(* Streams: _wrap_mode_a_*_stream and LangChain's _guard_*_stream.           *)

\* The first pull of a Mode-A stream.
PullStream(c) ==
  /\ call[c].pc = "returned" /\ call[c].kind = "stream" /\ MayStep(c)
  /\ ses' = [ses EXCEPT !.defer = TRUE]
  /\ Goes(c, "open", FALSE)

\* A Mode-A stream is exhausted, or closed by the consumer: restore the flag,
\* capture the response, flush whatever the flag says.
EndStream(c, how, spanned) ==
  /\ call[c].pc = "open" /\ call[c].kind = "stream" /\ MayStep(c)
  /\ how \in {"done", "closed"} /\ (spanned => how = "done")
  /\ LET ended == SpanMaybe(ses, c, spanned, TRUE)
     IN  ses' = Flush(Replied([ended EXCEPT !.defer = call[c].prev], c), c)
  /\ Goes(c, how, spanned)

\* A pull raises: a failure row, and no flush.
FailStream(c, spanned) ==
  /\ call[c].pc = "open" /\ call[c].kind \in {"stream"} \intersect Failing
  /\ MayStep(c)
  /\ LET ended    == SpanMaybe(ses, c, spanned, FALSE)
         restored == [Settled(ended, c, FALSE) EXCEPT !.defer = call[c].prev]
     IN  ses' = FailureRow(restored, c)
  /\ Goes(c, "failed", spanned)

\* LangChain's stream(): the check runs, nothing else until the first pull.
EnterLcStream(c) ==
  /\ call[c].pc = "new" /\ NoneAwaited
  /\ Opened(c, "returned", "lcStream")
  /\ UNCHANGED ses

\* Mutants of PullLcStream: the level is not counted; every level stashes the
\* flag it found.
PullLcStreamUncounted(c) ==
  /\ call[c].pc = "returned" /\ call[c].kind = "lcStream" /\ MayStep(c)
  /\ ses' = [ses EXCEPT !.base = IF ses.depth = 0 THEN ses.defer ELSE @,
                        !.defer = TRUE]
  /\ Goes(c, "open", FALSE)
PullLcStreamEveryBase(c) ==
  /\ call[c].pc = "returned" /\ call[c].kind = "lcStream" /\ MayStep(c)
  /\ ses' = [ses EXCEPT !.base = ses.defer, !.depth = @ + 1, !.defer = TRUE]
  /\ Goes(c, "open", FALSE)

\* Guard entry: the outermost level stashes the flag it found.
PullLcStream(c) ==
  /\ call[c].pc = "returned" /\ call[c].kind = "lcStream" /\ MayStep(c)
  /\ ses' = [ses EXCEPT !.base = IF ses.depth = 0 THEN ses.defer ELSE @,
                        !.depth = @ + 1, !.defer = TRUE]
  /\ Goes(c, "open", FALSE)

\* Mutant of Unwind: a failed stream's outermost level restores the flag but does
\* not flush.
UnwindFailedNoFlush(s, c, failed) ==
  LET up      == [s EXCEPT !.depth = @ - 1]
      outer   == [up EXCEPT !.defer = up.base]
      flushed == IF failed THEN outer ELSE FlushUnlessDeferred(Replied(outer, c), c)
  IN  IF up.depth > 0 THEN (IF failed THEN up ELSE Replied(up, c))
      ELSE IF failed /\ ~flushed.defer THEN [flushed EXCEPT !.outcome = None]
      ELSE flushed

\* Guard exit: an inner level only captures its response; the outermost
\* restores the stashed flag, flushes unless an outer call defers, and then
\* drops an outcome that no payload took.
Unwind(s, c, failed) ==
  LET up      == [s EXCEPT !.depth = @ - 1]
      outer   == [up EXCEPT !.defer = up.base]
      flushed == FlushUnlessDeferred(IF failed THEN outer ELSE Replied(outer, c), c)
  IN  IF up.depth > 0 THEN (IF failed THEN up ELSE Replied(up, c))
      ELSE IF failed /\ ~flushed.defer THEN [flushed EXCEPT !.outcome = None]
      ELSE flushed

EndLcStream(c, how, spanned) ==
  /\ call[c].pc = "open" /\ call[c].kind = "lcStream" /\ MayStep(c)
  /\ how \in {"done", "closed"} /\ (spanned => how = "done")
  /\ ses' = Unwind(SpanMaybe(ses, c, spanned, TRUE), c, FALSE)
  /\ Goes(c, how, spanned)

\* A pull raises, before any chunk came: there is no response to capture.
FailLcStream(c, spanned) ==
  /\ call[c].pc = "open" /\ call[c].kind \in {"lcStream"} \intersect Failing
  /\ MayStep(c)
  /\ ses' = Unwind(Settled(SpanMaybe(ses, c, spanned, FALSE), c, FALSE), c, TRUE)
  /\ Goes(c, "failed", spanned)

\* A stream that is never pulled: the generator's body, finally included,
\* never runs.  LangChain's has not called its provider yet.
DropStream(c) ==
  /\ call[c].pc = "returned" /\ MayStep(c)
  /\ Goes(c, IF call[c].kind = "stream" THEN "closed" ELSE "done", FALSE)
  /\ UNCHANGED ses

\* Closing the provider's stream, or collecting it, ends its span at last.
LateSpan(c) ==
  /\ call[c].pc = "closed" /\ ~call[c].ended /\ NoneAwaited
  /\ ses' = EndSpan(ses, c, TRUE)
  /\ Goes(c, "closed", TRUE)

Enter(c) ==
  \/ \E kind \in Kinds, rerouted \in BOOLEAN : EnterCall(c, kind, rerouted)
  \/ "lcStream" \in Kinds /\ EnterLcStream(c)

Step(c, spanned) ==
  \/ ReturnCall(c, spanned) \/ FailCall(c, spanned) \/ FailLcCall(c, spanned)
  \/ FailStream(c, spanned) \/ FailLcStream(c, spanned)
  \/ \E how \in {"done", "closed"} :
       EndStream(c, how, spanned) \/ EndLcStream(c, how, spanned)

Next ==
  \E c \in Calls :
    \/ Enter(c)
    \/ ReturnStream(c) \/ PullStream(c) \/ PullLcStream(c)
    \/ DropStream(c) \/ LateSpan(c)
    \/ \E spanned \in BOOLEAN : Step(c, spanned)

Spec == Init /\ [][Next]_vars

-------------------------------------------------------------------------------
(* Safety. *)

TypeOK ==
  /\ ses \in Session
  /\ call \in [Calls -> Locals]

Deferring(c) == call[c].pc = "open" \/ call[c].pc = "awaiting"
Quiet == InFlight = {}

\* A span that ended is, at every moment, either queued once or logged once:
\* no interleaving of calls, flushes and failures drops a payload or ships it
\* twice (_deferred_spans, _flush_deferred_spans).
SpanShippedOnce ==
  \A c \in Calls :
    LET queued == {i \in DOMAIN ses.buffer : ses.buffer[i] = c}
        logged == {i \in DOMAIN ses.rows : ses.rows[i].call = c /\ ~ses.rows[i].failure}
    IN  Cardinality(queued) + Cardinality(logged) = IF call[c].ended THEN 1 ELSE 0

\* An applied reroute is audited on at most one row, whichever of the call's
\* paths logs first (_claim_local_decision removes what it returns).  A failure
\* row tells the outcome of the call that failed, and only that call's decision,
\* however many other calls share the slots it is made from
\* (_emit_call_failure_log).
AuditIsOwn ==
  \A i \in DOMAIN ses.rows :
    LET row == ses.rows[i]
    IN  /\ row.decision # None =>
             \A j \in DOMAIN ses.rows \ {i} : ses.rows[j].decision # row.decision
        /\ row.failure => /\ row.outcome = [of |-> row.call, ok |-> FALSE]
                          /\ row.decision \in {None, row.call}

\* While a call is being awaited or a stream pulled the flag is set, so its
\* span waits for the response composition ("keeps _defer_telemetry truthy
\* across an interleave", _guard_sync_stream).
OpenCallDefers == \A c \in Calls : Deferring(c) => ses.defer

\* When no call is in flight the flag is down: nothing pins it, or every later
\* span of the session would be queued and never logged.
QuietIsReleased == Quiet => ~ses.defer /\ ses.depth = 0

\* ... and no payload is left behind for a later call to ship as its own.
QuietIsFlushed == Quiet => ses.buffer = <<>>

\* A completed call's row carries its response composition, which is captured
\* only after the span has ended: the reason the span is deferred at all.
ReplyReachesRow ==
  \A i \in DOMAIN ses.rows :
    LET row == ses.rows[i]
    IN  ~row.failure /\ call[row.call].pc = "done" => row.reply
===============================================================================
